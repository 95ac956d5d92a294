----------------------------- MODULE CacheProofs -----------------------------
(***************************************************************************)
(* Theorems about what is kept and shown later, for any number of each and *)
(* any of the spans of time they are kept: the issuer's keys, the cards of *)
(* linked documents, the previews, the links themselves, of which one can  *)
(* outlive the document made for it, the images of a concept view with the *)
(* pins on them, and what the search stores keep, for texts of any length. *)
(* Most invariants relate what is kept to how long ago its source last     *)
(* agreed with it; that of the views, to the commits between; that of the  *)
(* stores, to what was given to them.                                      *)
(***************************************************************************)
EXTENDS KeyCache, DocumentCards, Previews, DocumentLinks, ConceptViews, SearchStores,
        FiniteSetTheorems, WellFoundedInduction, TLAPS

-----------------------------------------------------------------------------
(* The issuer's keys. *)

Retrievals == [stage : {"fetching", "answered"}, credential : Credentials,
               why : {"retire", "rotate"}, for : 0..Timeout, keys : SUBSET Keys]
Answers == [kind : {"accepted", "rejected", "unavailable"}, by : Credentials, busy : BOOLEAN]

KeysTyped ==
    /\ source \in [keys : SUBSET Keys, gone : SUBSET Keys, up : BOOLEAN,
                   changed : [Keys -> Ages], down : Ages]
    /\ ~source.up => source.down = 0
    /\ cache \in [keys : SUBSET Keys, retrieved : Ages, attempted : Ages]
    /\ cache.attempted <= cache.retrieved
    /\ asker \in [Askers -> {Idle} \cup Retrievals]
    /\ answer \in {NoAnswer} \cup Answers

\* What a source answered is as old as the retrieval at most.
Answered(a) ==
    asker[a].stage = "answered" =>
        \A k \in Keys :
            /\ k \in asker[a].keys \ source.keys => source.changed[k] <= asker[a].for
            /\ k \in source.keys \ asker[a].keys => source.changed[k] <= asker[a].for

\* A key that is cached and no longer published went within one retrieval of
\* the stamp.
Lingering ==
    \A k \in cache.keys \ source.keys : source.changed[k] <= cache.retrieved + Timeout

\* A key that is published and not cached came after the last attempt, which
\* the source may have failed, or somebody is fetching it.
Missing ==
    \A k \in source.keys \ cache.keys :
        \/ source.changed[k] <= cache.attempted + Timeout
        \/ source.down <= cache.attempted
        \/ \E a \in Askers : asker[a].stage # "idle"

KeysInv ==
    /\ KeysTyped /\ (\A a \in Askers : Answered(a)) /\ Lingering /\ Missing
    /\ RevokedKeysRetire /\ RotationIsNoticed

LEMMA AgesAre == /\ Window \in Nat /\ Cooldown \in Nat \ {0} /\ Timeout \in Nat /\ Long \in Nat
                 /\ Long > Window + Timeout /\ Long >= Timeout /\ Ages = 0..Long
                 /\ 0 \in Ages /\ Long \in Ages
  BY KeyCacheAssumption DEF Long, Ages

LEMMA AgesGrow ==
    /\ \A i \in Ages : Older(i) \in Ages
    /\ \A i, j \in Ages : i <= j => Older(i) <= Older(j)
    /\ \A i, j \in Ages : i <= j + Timeout => Older(i) <= Older(j) + Timeout
    /\ \A i \in Ages, n \in Nat : i <= n => Older(i) <= n + 1
<1>1. /\ Timeout \in Nat /\ Long \in Nat /\ Ages = 0..Long
  BY AgesAre
<1>2. \A i \in Ages : i \in Nat /\ i <= Long /\ Older(i) = IF i = Long THEN Long ELSE i + 1
  BY <1>1 DEF Older
<1>3. \A i \in Ages : Older(i) \in Ages
  BY <1>1, <1>2
<1>4. \A i, j \in Ages : i <= j => Older(i) <= Older(j)
  BY <1>1, <1>2
<1>5. \A i, j \in Ages : i <= j + Timeout => Older(i) <= Older(j) + Timeout
  BY <1>1, <1>2
<1>6. \A i \in Ages, n \in Nat : i <= n => Older(i) <= n + 1
  BY <1>1, <1>2
<1> QED
  BY <1>3, <1>4, <1>5, <1>6

LEMMA KeysStart == KeysInit => KeysInv
<1> SUFFICES ASSUME KeysInit PROVE KeysInv
  OBVIOUS
<1>1. PICK k \in Keys : source = [keys |-> {k}, gone |-> {}, up |-> TRUE,
                    changed |-> [j \in Keys |-> Long], down |-> Long]
  BY DEF KeysInit
<1>2. /\ cache = [keys |-> {}, retrieved |-> Long, attempted |-> Long]
      /\ asker = [a \in Askers |-> Idle] /\ answer = NoAnswer
      /\ Idle.stage = "idle" /\ NoAnswer.kind = "none"
  BY DEF KeysInit, Idle, NoAnswer
<1>3. KeysTyped
  BY <1>1, <1>2, AgesAre DEF KeysTyped
<1>4. (\A a \in Askers : Answered(a)) /\ Lingering /\ RevokedKeysRetire /\ RotationIsNoticed
  BY <1>2 DEF Answered, Lingering, RevokedKeysRetire, RotationIsNoticed
<1>5. Missing
  BY <1>1, <1>2, AgesAre DEF Missing
<1> QED
  BY <1>3, <1>4, <1>5 DEF KeysInv

\* Nothing was answered at this step.
LEMMA Silence ==
    ASSUME answer' = NoAnswer
    PROVE  RevokedKeysRetire' /\ RotationIsNoticed' /\ answer' \in {NoAnswer} \cup Answers
<1>1. answer'.kind = "none"
  BY DEF NoAnswer
<1> QED
  BY <1>1 DEF RevokedKeysRetire, RotationIsNoticed

LEMMA FoundIsHeld ==
    ASSUME NEW keys, NEW c \in Credentials
    PROVE  /\ Found(keys, c) => c.signer \in keys
           /\ ~Found(keys, c) /\ c.named => c.signer \notin keys
           /\ c.signer \in Keys
  BY DEF Found, Credentials

\* An answer is what it says, of this credential, and one asker is free again.
LEMMA AnswerSaid ==
    ASSUME KeysInv, NEW a \in Askers, NEW kind \in {"accepted", "rejected", "unavailable"},
           NEW c \in Credentials, AnswerWith(a, kind, c)
    PROVE  /\ asker' \in [Askers -> {Idle} \cup Retrievals]
           /\ asker'[a].stage = "idle" /\ \A b \in Askers \ {a} : asker'[b] = asker[b]
           /\ answer' \in Answers /\ answer'.kind = kind /\ answer'.by = c
           /\ ~answer'.busy => \A b \in Askers \ {a} : asker[b].stage = "idle"
<1>1. /\ asker' = [asker EXCEPT ![a] = Idle] /\ Idle.stage = "idle"
      /\ answer' = [kind |-> kind, by |-> c, busy |-> Busy(a)]
      /\ Busy(a) \in BOOLEAN
  BY DEF AnswerWith, Said, Idle, Busy
<1>2. asker \in [Askers -> {Idle} \cup Retrievals]
  BY DEF KeysInv, KeysTyped
<1> QED
  BY <1>1, <1>2 DEF Answers, Busy

LEMMA FetchBegins ==
    ASSUME KeysInv, NEW a \in Askers, NEW c \in Credentials, NEW why \in {"retire", "rotate"},
           Fetching(a, c, why)
    PROVE  /\ asker' \in [Askers -> {Idle} \cup Retrievals]
           /\ asker'[a].stage = "fetching" /\ \A b \in Askers \ {a} : asker'[b] = asker[b]
           /\ answer' = NoAnswer
<1> DEFINE x == [stage |-> "fetching", credential |-> c, why |-> why, for |-> 0, keys |-> {}]
<1>1. x \in Retrievals /\ x.stage = "fetching"
  BY AgesAre DEF Retrievals
<1>2. asker' = [asker EXCEPT ![a] = x] /\ asker \in [Askers -> {Idle} \cup Retrievals]
  BY DEF Fetching, KeysInv, KeysTyped
<1>3. answer' = NoAnswer
  BY DEF Fetching
<1> HIDE DEF x
<1> QED
  BY <1>1, <1>2, <1>3

LEMMA AskHolds == ASSUME KeysInv, NEW a \in Askers, NEW c \in Credentials, Ask(a, c) PROVE KeysInv'
<1> DEFINE kept == ~Retired(cache) /\ Found(cache.keys, c)
           fetch == Retired(cache) \/ (~kept /\ MayAttempt(cache))
<1>1. /\ asker[a].stage = "idle" /\ source' = source
      /\ \/ /\ fetch
            /\ Fetching(a, c, IF Retired(cache) THEN "retire" ELSE "rotate")
            /\ cache' = [cache EXCEPT !.attempted = 0]
         \/ /\ ~fetch
            /\ AnswerWith(a, IF kept THEN "accepted" ELSE "rejected", c)
            /\ cache' = cache
  BY DEF Ask
<1>2. CASE fetch
  <2>1. /\ Fetching(a, c, IF Retired(cache) THEN "retire" ELSE "rotate")
        /\ cache' = [cache EXCEPT !.attempted = 0]
    BY <1>1, <1>2
  <2> DEFINE why == IF Retired(cache) THEN "retire" ELSE "rotate"
  <2>2. why \in {"retire", "rotate"} /\ Fetching(a, c, why)
    BY <2>1
  <2> HIDE DEF why, fetch, kept
  <2>3. /\ asker' \in [Askers -> {Idle} \cup Retrievals]
        /\ asker'[a].stage = "fetching" /\ \A b \in Askers \ {a} : asker'[b] = asker[b]
        /\ answer' = NoAnswer
    BY <2>2, FetchBegins
  <2>4. /\ cache' \in [keys : SUBSET Keys, retrieved : Ages, attempted : Ages]
        /\ cache'.attempted = 0 /\ cache'.retrieved = cache.retrieved /\ cache'.keys = cache.keys
        /\ 0 <= cache.retrieved
    BY <2>1, AgesAre DEF KeysInv, KeysTyped
  <2>5. KeysTyped'
    BY <1>1, <2>3, <2>4 DEF KeysInv, KeysTyped
  <2>6. \A b \in Askers : Answered(b)'
    BY <1>1, <2>3 DEF KeysInv, Answered
  <2>7. Lingering' /\ Missing'
    BY <1>1, <2>3, <2>4 DEF KeysInv, Lingering, Missing
  <2> QED
    BY <2>3, <2>5, <2>6, <2>7, Silence DEF KeysInv
<1>3. CASE ~fetch
  <2> DEFINE kind == IF kept THEN "accepted" ELSE "rejected"
  <2>1. kind \in {"accepted", "rejected", "unavailable"} /\ AnswerWith(a, kind, c) /\ cache' = cache
    BY <1>1, <1>3
  <2>2. /\ kind = "accepted" => cache.retrieved <= Window /\ c.signer \in cache.keys
        /\ kind = "rejected" /\ c.named => c.signer \notin cache.keys /\ cache.attempted < Cooldown
    <3>1. ~(cache.retrieved > Window)
      BY <1>3 DEF Retired
    <3>2. ~kept => ~(cache.attempted >= Cooldown) /\ ~Found(cache.keys, c)
      BY <1>3 DEF MayAttempt
    <3>3. cache.retrieved \in Nat /\ cache.attempted \in Nat /\ Window \in Nat /\ Cooldown \in Nat
      BY AgesAre DEF KeysInv, KeysTyped
    <3>4. kept => Found(cache.keys, c)
      OBVIOUS
    <3> HIDE DEF kept
    <3> QED
      BY <3>1, <3>2, <3>3, <3>4, FoundIsHeld
  <2> HIDE DEF kind, fetch, kept
  <2>3. /\ asker' \in [Askers -> {Idle} \cup Retrievals]
        /\ asker'[a].stage = "idle" /\ \A b \in Askers \ {a} : asker'[b] = asker[b]
        /\ answer' \in Answers /\ answer'.kind = kind /\ answer'.by = c
        /\ ~answer'.busy => \A b \in Askers \ {a} : asker[b].stage = "idle"
    BY <2>1, AnswerSaid
  <2>4. KeysTyped'
    BY <1>1, <2>1, <2>3 DEF KeysInv, KeysTyped
  <2>5. \A b \in Askers : Answered(b)'
    BY <1>1, <2>3 DEF KeysInv, Answered
  <2>6. Lingering'
    BY <1>1, <2>1 DEF KeysInv, Lingering
  <2>7. Missing'
    BY <1>1, <2>1, <2>3 DEF KeysInv, Missing
  <2>8. RevokedKeysRetire'
    <3> SUFFICES ASSUME kind = "accepted", c.signer \notin source.keys
                 PROVE  source.changed[c.signer] <= Window + Timeout
      BY <1>1, <2>3 DEF RevokedKeysRetire
    <3>1. c.signer \in cache.keys \ source.keys /\ cache.retrieved <= Window /\ c.signer \in Keys
      BY <2>2, FoundIsHeld
    <3>2. source.changed[c.signer] <= cache.retrieved + Timeout
      BY <3>1 DEF KeysInv, Lingering
    <3>3. source.changed[c.signer] \in Nat /\ cache.retrieved \in Nat
      BY <3>1, AgesAre DEF KeysInv, KeysTyped
    <3> QED
      BY <3>1, <3>2, <3>3, AgesAre
  <2>9. RotationIsNoticed'
    <3> SUFFICES ASSUME kind = "rejected", c.named, c.signer \in source.keys, ~answer'.busy
                 PROVE  source.changed[c.signer] < Cooldown + Timeout \/ source.down < Cooldown + Timeout
      BY <1>1, <2>3 DEF RotationIsNoticed
    <3>1. c.signer \in source.keys \ cache.keys /\ cache.attempted < Cooldown /\ c.signer \in Keys
      BY <2>2, FoundIsHeld
    <3>2. \A b \in Askers : asker[b].stage = "idle"
      BY <1>1, <2>3
    <3>3. source.changed[c.signer] <= cache.attempted + Timeout \/ source.down <= cache.attempted
      BY <3>1, <3>2 DEF KeysInv, Missing
    <3>4. source.changed[c.signer] \in Nat /\ cache.attempted \in Nat /\ source.down \in Nat
      BY <3>1, AgesAre DEF KeysInv, KeysTyped
    <3> QED
      BY <3>1, <3>3, <3>4, AgesAre
  <2> QED
    BY <2>4, <2>5, <2>6, <2>7, <2>8, <2>9 DEF KeysInv
<1> QED
  BY <1>2, <1>3

LEMMA RespondHolds == ASSUME KeysInv, NEW a \in Askers, Respond(a) PROVE KeysInv'
<1> DEFINE x == [asker[a] EXCEPT !.stage = "answered", !.keys = source.keys]
<1>1. /\ asker[a].stage = "fetching" /\ asker' = [asker EXCEPT ![a] = x]
      /\ answer' = NoAnswer /\ source' = source /\ cache' = cache
  BY DEF Respond
<1>2. asker[a] \in Retrievals
  BY <1>1 DEF KeysInv, KeysTyped, Idle
<1>3. x \in Retrievals /\ x.stage = "answered" /\ x.keys = source.keys
  BY <1>2 DEF Retrievals, KeysInv, KeysTyped
<1>4. /\ asker' \in [Askers -> {Idle} \cup Retrievals]
      /\ asker'[a].stage = "answered" /\ asker'[a].keys = source.keys
      /\ \A b \in Askers \ {a} : asker'[b] = asker[b]
  BY <1>1, <1>3 DEF KeysInv, KeysTyped
<1> HIDE DEF x
<1>5. KeysTyped'
  BY <1>1, <1>4 DEF KeysInv, KeysTyped
<1>6. \A b \in Askers : Answered(b)'
  BY <1>1, <1>4 DEF KeysInv, Answered
<1>7. Lingering' /\ Missing'
  BY <1>1, <1>4 DEF KeysInv, Lingering, Missing
<1> QED
  BY <1>1, <1>5, <1>6, <1>7, Silence DEF KeysInv

LEMMA UnreachableHolds == ASSUME KeysInv, NEW a \in Askers, Unreachable(a) PROVE KeysInv'
<1> DEFINE c == asker[a].credential
<1>1. /\ asker[a].stage = "fetching" /\ ~source.up /\ AnswerWith(a, "unavailable", c)
      /\ source' = source /\ cache' = cache
  BY DEF Unreachable
<1>2. asker[a] \in Retrievals
  BY <1>1 DEF KeysInv, KeysTyped, Idle
<1>3. c \in Credentials
  BY <1>2 DEF Retrievals
<1> HIDE DEF c
<1>4. /\ asker' \in [Askers -> {Idle} \cup Retrievals]
      /\ asker'[a].stage = "idle" /\ \A b \in Askers \ {a} : asker'[b] = asker[b]
      /\ answer' \in Answers /\ answer'.kind = "unavailable"
  BY <1>1, <1>3, AnswerSaid
<1>5. KeysTyped'
  BY <1>1, <1>4 DEF KeysInv, KeysTyped
<1>6. \A b \in Askers : Answered(b)'
  BY <1>1, <1>4 DEF KeysInv, Answered
<1>7. Lingering'
  BY <1>1 DEF KeysInv, Lingering
<1>8. Missing'
  <2>1. source.down = 0 /\ cache.attempted \in Nat
    BY <1>1, AgesAre DEF KeysInv, KeysTyped
  <2> QED
    BY <1>1, <2>1 DEF Missing
<1>9. RevokedKeysRetire' /\ RotationIsNoticed'
  BY <1>4 DEF RevokedKeysRetire, RotationIsNoticed
<1> QED
  BY <1>5, <1>6, <1>7, <1>8, <1>9 DEF KeysInv

LEMMA StoreHolds == ASSUME KeysInv, NEW a \in Askers, Store(a) PROVE KeysInv'
<1> DEFINE got == asker[a].keys
           c == asker[a].credential
           found == Found(got, c)
           again == ~found /\ asker[a].why = "retire" /\ MayAttempt(cache)
<1>1. asker[a].stage = "answered" /\ source' = source
  BY DEF Store
<1>2. asker[a] \in Retrievals
  BY <1>1 DEF KeysInv, KeysTyped, Idle
<1>3. c \in Credentials /\ got \subseteq Keys /\ asker[a].for \in 0..Timeout
  BY <1>2 DEF Retrievals
<1>4. \A k \in Keys : /\ k \in got \ source.keys => source.changed[k] <= Timeout
                      /\ k \in source.keys \ got => source.changed[k] <= Timeout
  <2> TAKE k \in Keys
  <2>1. source.changed[k] \in Nat /\ asker[a].for \in Nat /\ asker[a].for <= Timeout /\ Timeout \in Nat
    BY <1>3, AgesAre DEF KeysInv, KeysTyped
  <2>2. /\ k \in got \ source.keys => source.changed[k] <= asker[a].for
        /\ k \in source.keys \ got => source.changed[k] <= asker[a].for
    BY <1>1 DEF KeysInv, Answered
  <2> HIDE DEF got
  <2> QED
    BY <2>1, <2>2
<1>5. /\ \/ again /\ Fetching(a, c, "rotate") /\ cache' = [Stored(got) EXCEPT !.attempted = 0]
         \/ ~again /\ AnswerWith(a, IF found THEN "accepted" ELSE "rejected", c) /\ cache' = Stored(got)
  BY DEF Store
<1>6. /\ cache' \in [keys : SUBSET Keys, retrieved : Ages, attempted : Ages]
      /\ cache'.keys = got /\ cache'.attempted <= cache'.retrieved
      /\ 0 <= cache'.attempted /\ 0 <= cache'.retrieved
  <2>1. /\ cache \in [keys : SUBSET Keys, retrieved : Ages, attempted : Ages]
        /\ 0 <= cache.attempted /\ cache.attempted <= cache.attempted
    BY AgesAre DEF KeysInv, KeysTyped
  <2>2. \/ cache' = [cache EXCEPT !.keys = got, !.retrieved = cache.attempted, !.attempted = 0]
        \/ cache' = [cache EXCEPT !.keys = got, !.retrieved = cache.attempted]
    BY <1>5, <2>1 DEF Stored
  <2>3. got \in SUBSET Keys /\ 0 \in Ages /\ cache.attempted \in Ages
    BY <1>3, <2>1, AgesAre
  <2> HIDE DEF got, c, found, again
  <2>4. /\ cache' \in [keys : SUBSET Keys, retrieved : Ages, attempted : Ages]
        /\ cache'.keys = got /\ cache'.retrieved = cache.attempted
        /\ cache'.attempted = 0 \/ cache'.attempted = cache.attempted
    BY <2>1, <2>2, <2>3
  <2> QED
    BY <2>1, <2>4
<1>7. Lingering' /\ Missing'
  <2>1. \A k \in Keys : source.changed[k] \in Nat
    BY AgesAre DEF KeysInv, KeysTyped
  <2>2. cache'.retrieved \in Nat /\ cache'.attempted \in Nat /\ Timeout \in Nat
    BY <1>6, AgesAre
  <2>3. source.keys \subseteq Keys
    BY DEF KeysInv, KeysTyped
  <2> HIDE DEF got, again, c, found
  <2>4. \A k \in got \ source.keys : source.changed[k] <= cache'.retrieved + Timeout
    BY <1>3, <1>4, <2>1, <2>2
  <2>5. \A k \in source.keys \ got : source.changed[k] <= cache'.attempted + Timeout
    BY <1>3, <1>4, <2>1, <2>2, <2>3
  <2> QED
    BY <1>1, <1>6, <2>4, <2>5 DEF Lingering, Missing
<1>8. CASE again
  <2>1. Fetching(a, c, "rotate")
    BY <1>5, <1>8
  <2> HIDE DEF got, again, c, found
  <2>2. /\ asker' \in [Askers -> {Idle} \cup Retrievals]
        /\ asker'[a].stage = "fetching" /\ \A b \in Askers \ {a} : asker'[b] = asker[b]
        /\ answer' = NoAnswer
    BY <1>3, <2>1, FetchBegins
  <2>3. KeysTyped'
    BY <1>1, <1>6, <2>2 DEF KeysInv, KeysTyped
  <2>4. \A b \in Askers : Answered(b)'
    BY <1>1, <2>2 DEF KeysInv, Answered
  <2> QED
    BY <1>7, <2>2, <2>3, <2>4, Silence DEF KeysInv
<1>9. CASE ~again
  <2> DEFINE kind == IF found THEN "accepted" ELSE "rejected"
  <2>1. kind \in {"accepted", "rejected", "unavailable"} /\ AnswerWith(a, kind, c)
    BY <1>5, <1>9
  <2>2. /\ kind = "accepted" => c.signer \in got
        /\ kind = "rejected" /\ c.named => c.signer \notin got
        /\ c.signer \in Keys
    BY <1>3, FoundIsHeld
  <2> HIDE DEF got, again, c, found, kind
  <2>3. /\ asker' \in [Askers -> {Idle} \cup Retrievals]
        /\ asker'[a].stage = "idle" /\ \A b \in Askers \ {a} : asker'[b] = asker[b]
        /\ answer' \in Answers /\ answer'.kind = kind /\ answer'.by = c
    BY <1>3, <2>1, AnswerSaid
  <2>4. KeysTyped'
    BY <1>1, <1>6, <2>3 DEF KeysInv, KeysTyped
  <2>5. \A b \in Askers : Answered(b)'
    BY <1>1, <2>3 DEF KeysInv, Answered
  <2>6. source.changed[c.signer] \in Nat /\ source.keys \subseteq Keys
    BY <2>2, AgesAre DEF KeysInv, KeysTyped
  <2>7. RevokedKeysRetire'
    <3>1. kind = "accepted" /\ c.signer \notin source.keys
              => source.changed[c.signer] <= Window + Timeout
      BY <1>4, <2>2, <2>6, AgesAre
    <3> QED
      BY <1>1, <2>3, <3>1 DEF RevokedKeysRetire
  <2>8. RotationIsNoticed'
    <3>1. kind = "rejected" /\ c.named /\ c.signer \in source.keys
              => source.changed[c.signer] < Cooldown + Timeout
      BY <1>4, <2>2, <2>6, AgesAre
    <3> QED
      BY <1>1, <2>3, <3>1 DEF RotationIsNoticed
  <2> QED
    BY <1>7, <2>4, <2>5, <2>7, <2>8 DEF KeysInv
<1> QED
  BY <1>8, <1>9

LEMMA TickHolds == ASSUME KeysInv, Tick PROVE KeysInv'
<1>1. /\ \A a \in Askers : asker[a].stage # "idle" => asker[a].for < Timeout
      /\ asker' = [a \in Askers |->
            IF asker[a].stage = "idle" THEN Idle ELSE [asker[a] EXCEPT !.for = @ + 1]]
      /\ cache' = [cache EXCEPT !.retrieved = Older(@), !.attempted = Older(@)]
      /\ source' = [source EXCEPT !.changed = [k \in Keys |-> Older(@[k])],
                                  !.down = IF source.up THEN Older(@) ELSE 0]
      /\ answer' = NoAnswer
  BY DEF Tick
<1>2. /\ source' \in [keys : SUBSET Keys, gone : SUBSET Keys, up : BOOLEAN,
                      changed : [Keys -> Ages], down : Ages]
      /\ source'.keys = source.keys /\ source'.up = source.up
      /\ \A k \in Keys : source'.changed[k] = Older(source.changed[k])
      /\ source'.down = Older(source.down) \/ source'.down = 0
      /\ ~source'.up => source'.down = 0
  BY <1>1, AgesAre, AgesGrow DEF KeysInv, KeysTyped
<1>3. /\ cache' \in [keys : SUBSET Keys, retrieved : Ages, attempted : Ages]
      /\ cache'.keys = cache.keys /\ cache'.retrieved = Older(cache.retrieved)
      /\ cache'.attempted = Older(cache.attempted) /\ cache'.attempted <= cache'.retrieved
  BY <1>1, AgesGrow DEF KeysInv, KeysTyped
<1>4. ASSUME NEW a \in Askers
      PROVE  /\ asker'[a] \in {Idle} \cup Retrievals /\ asker'[a].stage = asker[a].stage
             /\ asker[a].stage = "answered" => /\ asker'[a].for = asker[a].for + 1
                                               /\ asker'[a].keys = asker[a].keys
                                               /\ asker[a].for \in Nat
  <2>1. asker[a] = Idle \/ asker[a] \in Retrievals
    BY DEF KeysInv, KeysTyped
  <2>2. CASE asker[a].stage = "idle"
    BY <1>1, <2>2 DEF Idle
  <2>3. CASE asker[a].stage # "idle"
    <3>1. asker[a] \in Retrievals /\ asker'[a] = [asker[a] EXCEPT !.for = @ + 1]
      <4>1. Idle.stage = "idle"
        BY DEF Idle
      <4> QED
        BY <1>1, <2>1, <2>3, <4>1
    <3>2. asker[a].for \in Nat /\ asker[a].for + 1 \in 0..Timeout
      BY <1>1, <2>3, <3>1, AgesAre DEF Retrievals
    <3> QED
      BY <3>1, <3>2 DEF Retrievals
  <2> QED
    BY <2>2, <2>3
<1>5. asker' \in [Askers -> {Idle} \cup Retrievals]
  BY <1>1, <1>4
<1>6. KeysTyped'
  BY <1>1, <1>2, <1>3, <1>5 DEF KeysTyped
<1>7. ASSUME NEW a \in Askers PROVE Answered(a)'
  <2> SUFFICES ASSUME asker[a].stage = "answered", NEW k \in Keys
               PROVE  /\ k \in asker[a].keys \ source.keys => source'.changed[k] <= asker[a].for + 1
                      /\ k \in source.keys \ asker[a].keys => source'.changed[k] <= asker[a].for + 1
    BY <1>2, <1>4 DEF Answered
  <2>1. source.changed[k] \in Ages /\ asker[a].for \in Nat
    BY <1>4 DEF KeysInv, KeysTyped
  <2>2. /\ k \in asker[a].keys \ source.keys => source.changed[k] <= asker[a].for
        /\ k \in source.keys \ asker[a].keys => source.changed[k] <= asker[a].for
    BY DEF KeysInv, Answered
  <2> QED
    BY <1>2, <2>1, <2>2, AgesGrow
<1>8. Lingering'
  <2> SUFFICES ASSUME NEW k \in cache.keys \ source.keys
               PROVE  source'.changed[k] <= cache'.retrieved + Timeout
    BY <1>2, <1>3 DEF Lingering
  <2>1. k \in Keys /\ source.changed[k] \in Ages /\ cache.retrieved \in Ages
    BY DEF KeysInv, KeysTyped
  <2> QED
    BY <1>2, <1>3, <2>1, AgesGrow DEF KeysInv, Lingering
<1>9. Missing'
  <2> SUFFICES ASSUME NEW k \in source.keys \ cache.keys, \A a \in Askers : asker[a].stage = "idle"
               PROVE  \/ source'.changed[k] <= cache'.attempted + Timeout
                      \/ source'.down <= cache'.attempted
    BY <1>2, <1>3, <1>4 DEF Missing
  <2>1. k \in Keys /\ source.changed[k] \in Ages /\ cache.attempted \in Ages /\ source.down \in Ages
    BY DEF KeysInv, KeysTyped
  <2>2. source.changed[k] <= cache.attempted + Timeout \/ source.down <= cache.attempted
    BY DEF KeysInv, Missing
  <2>3. CASE source.changed[k] <= cache.attempted + Timeout
    BY <1>2, <1>3, <2>1, <2>3, AgesGrow
  <2>4. CASE source.down <= cache.attempted
    <3>1. Older(source.down) <= cache'.attempted
      BY <1>3, <2>1, <2>4, AgesGrow
    <3>2. cache'.attempted \in 0..Long
      BY <1>3, AgesAre
    <3>3. 0 <= cache'.attempted
      BY <3>2, AgesAre
    <3> QED
      BY <1>2, <3>1, <3>3
  <2> QED
    BY <2>2, <2>3, <2>4
<1> QED
  BY <1>1, <1>6, <1>7, <1>8, <1>9, Silence DEF KeysInv

\* The source publishes or withdraws one key, or goes and comes back.
LEMMA SourceMoves ==
    ASSUME KeysInv, cache' = cache, asker' = asker, answer' = NoAnswer,
           source' \in [keys : SUBSET Keys, gone : SUBSET Keys, up : BOOLEAN,
                        changed : [Keys -> Ages], down : Ages],
           ~source'.up => source'.down = 0,
           source'.down = source.down \/ source'.down = 0,
           \A k \in Keys : \/ source'.changed[k] = 0
                           \/ /\ source'.changed[k] = source.changed[k]
                              /\ k \in source'.keys <=> k \in source.keys
    PROVE  KeysInv'
<1>1. KeysTyped'
  BY DEF KeysInv, KeysTyped
<1>2. ASSUME NEW a \in Askers PROVE Answered(a)'
  <2> SUFFICES ASSUME asker[a].stage = "answered", NEW k \in Keys
               PROVE  /\ k \in asker[a].keys \ source'.keys => source'.changed[k] <= asker[a].for
                      /\ k \in source'.keys \ asker[a].keys => source'.changed[k] <= asker[a].for
    BY DEF Answered
  <2>1. asker[a] \in Retrievals
    BY DEF KeysInv, KeysTyped, Idle
  <2>2. 0 <= asker[a].for
    BY <2>1, AgesAre DEF Retrievals
  <2>3. /\ k \in asker[a].keys \ source.keys => source.changed[k] <= asker[a].for
        /\ k \in source.keys \ asker[a].keys => source.changed[k] <= asker[a].for
    BY DEF KeysInv, Answered
  <2> QED
    BY <2>2, <2>3
<1>3. cache.retrieved \in Nat /\ cache.attempted \in Nat /\ Timeout \in Nat /\ source.down \in Nat
  BY AgesAre DEF KeysInv, KeysTyped
<1>4. Lingering'
  <2> SUFFICES ASSUME NEW k \in cache.keys \ source'.keys
               PROVE  source'.changed[k] <= cache.retrieved + Timeout
    BY DEF Lingering
  <2>1. k \in Keys
    BY DEF KeysInv, KeysTyped
  <2>2. 0 <= cache.retrieved + Timeout
    BY <1>3
  <2> QED
    BY <2>1, <2>2 DEF KeysInv, Lingering
<1>5. Missing'
  <2> SUFFICES ASSUME NEW k \in source'.keys \ cache.keys, \A a \in Askers : asker[a].stage = "idle"
               PROVE  \/ source'.changed[k] <= cache.attempted + Timeout
                      \/ source'.down <= cache.attempted
    BY DEF Missing
  <2>1. k \in Keys
    OBVIOUS
  <2>2. 0 <= cache.attempted + Timeout /\ 0 <= cache.attempted
    BY <1>3
  <2> QED
    BY <2>1, <2>2 DEF KeysInv, Missing
<1> QED
  BY <1>1, <1>2, <1>4, <1>5, Silence DEF KeysInv

LEMMA PublishHolds ==
    ASSUME KeysInv, NEW k \in Keys, PublishKey(k) \/ RevokeKey(k) PROVE KeysInv'
<1>1. /\ \/ source' = [source EXCEPT !.keys = @ \cup {k}, !.changed[k] = 0]
         \/ source' = [source EXCEPT !.keys = @ \ {k}, !.gone = @ \cup {k}, !.changed[k] = 0]
      /\ answer' = NoAnswer /\ cache' = cache /\ asker' = asker
  BY DEF PublishKey, RevokeKey
<1>2. /\ source' \in [keys : SUBSET Keys, gone : SUBSET Keys, up : BOOLEAN,
                      changed : [Keys -> Ages], down : Ages]
      /\ source'.up = source.up /\ source'.down = source.down /\ source'.changed[k] = 0
      /\ \A j \in Keys \ {k} : /\ source'.changed[j] = source.changed[j]
                               /\ j \in source'.keys <=> j \in source.keys
  <2>1. /\ source \in [keys : SUBSET Keys, gone : SUBSET Keys, up : BOOLEAN,
                        changed : [Keys -> Ages], down : Ages]
        /\ 0 \in Ages
    BY AgesAre DEF KeysInv, KeysTyped
  <2>2. CASE source' = [source EXCEPT !.keys = @ \cup {k}, !.changed[k] = 0]
    BY <2>1, <2>2
  <2>3. CASE source' = [source EXCEPT !.keys = @ \ {k}, !.gone = @ \cup {k}, !.changed[k] = 0]
    BY <2>1, <2>3
  <2> QED
    BY <1>1, <2>2, <2>3
<1>3. ~source'.up => source'.down = 0
  BY <1>2 DEF KeysInv, KeysTyped
<1> QED
  BY <1>1, <1>2, <1>3, SourceMoves

LEMMA OutageHolds == ASSUME KeysInv, Outage PROVE KeysInv'
<1>1. /\ source' = [source EXCEPT !.up = ~@, !.down = 0]
      /\ answer' = NoAnswer /\ cache' = cache /\ asker' = asker
  BY DEF Outage
<1>2. /\ source' \in [keys : SUBSET Keys, gone : SUBSET Keys, up : BOOLEAN,
                      changed : [Keys -> Ages], down : Ages]
      /\ source'.down = 0 /\ source'.changed = source.changed /\ source'.keys = source.keys
  BY <1>1, AgesAre DEF KeysInv, KeysTyped
<1> QED
  BY <1>1, <1>2, SourceMoves

LEMMA KeysRest == ASSUME KeysInv, UNCHANGED keyVars PROVE KeysInv'
  BY DEF keyVars, KeysInv, KeysTyped, Answered, Lingering, Missing, RevokedKeysRetire,
         RotationIsNoticed

\* However the two threads interleave and whenever the source fails, a revoked
\* key goes out of use within the window and one retrieval, and a new one comes
\* into it within the cooldown and one retrieval.
THEOREM KeysStayCurrent == KeysSpec => []KeysAreCurrent
<1>1. KeysInv /\ [KeysNext]_keyVars => KeysInv'
  BY AskHolds, RespondHolds, UnreachableHolds, StoreHolds, TickHolds, PublishHolds, OutageHolds,
     KeysRest DEF KeysNext
<1>2. KeysInv => KeysAreCurrent
  <2> SUFFICES ASSUME KeysInv PROVE KeysAreCurrent
    OBVIOUS
  <2>1. ASSUME NEW a \in Askers
        PROVE  /\ asker[a].stage \in {"idle", "fetching", "answered"}
               /\ asker[a].stage # "idle" => asker[a].for <= Timeout
    BY AgesAre DEF KeysInv, KeysTyped, Idle, Retrievals
  <2>2. answer.kind \in {"none", "accepted", "rejected", "unavailable"}
    BY DEF KeysInv, KeysTyped, NoAnswer, Answers
  <2> QED
    BY <2>1, <2>2 DEF KeysInv, KeysTyped, KeysAreCurrent, KeysTypeOK
<1> QED
  BY <1>1, <1>2, KeysStart, PTL DEF KeysSpec

-----------------------------------------------------------------------------
(* The cards of linked documents. *)

States == {"readable", "unreachable", "missing", "forbidden"}
Listings == [stage : {"asking", "answered"}, viewer : Viewers, doc : Linked, for : 0..Slow,
             state : States \cup {"none"}, titled : CardAges]
Entries == [age : CardAges, titled : CardAges]
ShownCards == [viewer : Viewers, doc : Linked, state : States, titled : CardAges]

CardsTyped ==
    /\ rights \subseteq Pairs /\ barred \in [Pairs -> CardAges] /\ title \in [Linked -> CardAges]
    /\ DOMAIN cards \subseteq Pairs /\ cards \in [DOMAIN cards -> Entries]
    /\ listing = NoListing \/ listing \in Listings
    /\ listing.stage = "answered" => listing.state \in States
    /\ shown = NotShown \/ shown \in ShownCards

\* What was read so long ago has gone, or has changed, since then at the earliest.
ReadOf(v, d, titled, age) ==
    /\ <<v, d>> \notin rights => barred[<<v, d>>] <= age
    /\ titled = title[d] \/ title[d] <= age

CachedHold == \A v \in Viewers, d \in Linked :
    <<v, d>> \in DOMAIN cards => ReadOf(v, d, cards[<<v, d>>].titled, cards[<<v, d>>].age)

ListingHolds ==
    listing.stage = "answered" /\ listing.state = "readable" =>
        ReadOf(listing.viewer, listing.doc, listing.titled, listing.for)

CardsInv == CardsTyped /\ CachedHold /\ ListingHolds /\ BarredSeeNothing /\ TitlesCatchUp

LEMMA CardAgesAre ==
    /\ Ttl \in Nat \ {0} /\ Slow \in Nat /\ Slow < Ttl /\ Longest \in Nat /\ Longest > Slow /\ Longest >= Ttl
    /\ CardAges = 0..Longest /\ CardAges \subseteq Nat /\ 0..Slow \subseteq CardAges
    /\ 0 \in CardAges /\ Longest \in CardAges /\ 0 \in 0..Slow
    /\ \A i \in 0..Slow : i \in Nat /\ i + 1 \in Nat /\ (i < Slow => i + 1 \in 0..Slow)
<1>1. /\ Ttl \in Nat \ {0} /\ Slow \in Nat /\ Slow < Ttl
      /\ Longest = (Ttl + Slow) + 1
  BY CardsAssumption DEF Longest
<1>2. Longest \in Nat /\ Longest > Slow /\ Longest >= Ttl
  BY <1>1
<1>3. CardAges = 0..Longest
  BY DEF CardAges
<1>4. \A i \in 0..Slow : i \in Nat /\ i + 1 \in Nat /\ (i < Slow => i + 1 \in 0..Slow)
  BY <1>1
<1> QED
  BY <1>1, <1>2, <1>3, <1>4

LEMMA CardsAge ==
    /\ \A i \in CardAges : Aged(i) \in CardAges
    /\ \A i, j \in CardAges : i <= j => Aged(i) <= Aged(j)
    /\ \A i \in CardAges, n \in Nat : i <= n => Aged(i) <= n + 1
<1>1. Longest \in Nat /\ CardAges = 0..Longest
  BY CardAgesAre
<1>2. \A i \in CardAges : i \in Nat /\ i <= Longest /\ Aged(i) = IF i = Longest THEN Longest ELSE i + 1
  BY <1>1 DEF Aged
<1>3. \A i \in CardAges : Aged(i) \in CardAges
  BY <1>1, <1>2
<1>4. \A i, j \in CardAges : i <= j => Aged(i) <= Aged(j)
  BY <1>1, <1>2
<1>5. \A i \in CardAges, n \in Nat : i <= n => Aged(i) <= n + 1
  BY <1>1, <1>2
<1> QED
  BY <1>3, <1>4, <1>5

LEMMA CardsStart == CardsInit => CardsInv
<1> SUFFICES ASSUME CardsInit PROVE CardsInv
  OBVIOUS
<1>1. NoListing.stage = "none" /\ NotShown.state = "none"
  BY DEF NoListing, NotShown
<1>2. DOMAIN cards = {} /\ cards \in [{} -> Entries]
  BY DEF CardsInit
<1>3. CardsTyped
  BY <1>1, <1>2, CardAgesAre DEF CardsInit, CardsTyped
<1>4. CachedHold
  BY <1>2 DEF CachedHold
<1>5. ListingHolds /\ BarredSeeNothing /\ TitlesCatchUp
  BY <1>1 DEF CardsInit, ListingHolds, BarredSeeNothing, TitlesCatchUp
<1> QED
  BY <1>3, <1>4, <1>5 DEF CardsInv

\* Nothing is shown at this step.
LEMMA NothingShown ==
    ASSUME shown' = NotShown PROVE BarredSeeNothing' /\ TitlesCatchUp'
<1>1. shown'.state = "none"
  BY DEF NotShown
<1> QED
  BY <1>1 DEF BarredSeeNothing, TitlesCatchUp

\* What is shown was read within the life of a card.
LEMMA ShownRecently ==
    ASSUME CardsTyped, NEW v \in Viewers, NEW d \in Linked, NEW state, NEW titled, NEW age \in Nat,
           state = "readable" => ReadOf(v, d, titled, age) /\ age < Ttl,
           shown' = Card(v, d, state, titled), UNCHANGED <<rights, barred, title>>
    PROVE  BarredSeeNothing' /\ TitlesCatchUp'
<1>1. /\ shown'.viewer = v /\ shown'.doc = d /\ shown'.state = state /\ shown'.titled = titled
  BY DEF Card
<1>2. barred[<<v, d>>] \in Nat /\ title[d] \in Nat /\ Ttl \in Nat
  BY CardAgesAre DEF CardsTyped, Pairs
<1> QED
  BY <1>1, <1>2 DEF ReadOf, BarredSeeNothing, TitlesCatchUp

LEMMA ListCardHolds ==
    ASSUME CardsInv, NEW v \in Viewers, NEW d \in Linked, ListCard(v, d) PROVE CardsInv'
<1> DEFINE k == <<v, d>>
<1>1. k \in Pairs /\ UNCHANGED <<rights, barred, title>> /\ listing.stage = "none"
  BY DEF ListCard, Pairs
<1>2. CASE k \in DOMAIN cards /\ cards[k].age < Ttl
  <2>1. shown' = Card(v, d, "readable", cards[k].titled) /\ UNCHANGED <<cards, listing>>
    BY <1>2 DEF ListCard, Kept, CardKey, Warm
  <2>2. /\ cards[k] \in Entries /\ cards[k].age \in Nat /\ cards[k].titled \in CardAges
        /\ ReadOf(v, d, cards[k].titled, cards[k].age)
    BY <1>2, CardAgesAre DEF CardsInv, CardsTyped, CachedHold, Entries
  <2> DEFINE titled == cards[k].titled
             age == cards[k].age
  <2>3. BarredSeeNothing' /\ TitlesCatchUp'
    <3>1. shown' = Card(v, d, "readable", titled) /\ age \in Nat /\ age < Ttl
          /\ ReadOf(v, d, titled, age)
      BY <1>2, <2>1, <2>2
    <3> HIDE DEF titled, age
    <3> QED
      BY <1>1, <3>1, ShownRecently DEF CardsInv
  <2>4. shown' \in ShownCards
    BY <2>1, <2>2 DEF Card, ShownCards, States
  <2>5. CardsTyped'
    BY <1>1, <2>1, <2>4 DEF CardsInv, CardsTyped
  <2>6. CachedHold' /\ ListingHolds'
    BY <1>1, <2>1 DEF CardsInv, CachedHold, ListingHolds, ReadOf
  <2> QED
    BY <2>3, <2>5, <2>6 DEF CardsInv
<1>3. CASE ~(k \in DOMAIN cards /\ cards[k].age < Ttl)
  <2> DEFINE x == [stage |-> "asking", viewer |-> v, doc |-> d, for |-> 0,
                   state |-> "none", titled |-> 0]
  <2>1. /\ cards' = [l \in DOMAIN cards \ {k} |-> cards[l]]
        /\ listing' = x /\ shown' = NotShown
    BY <1>3 DEF ListCard, Kept, CardKey, Warm
  <2>2. x \in Listings /\ x.stage = "asking"
    BY CardAgesAre DEF Listings
  <2> HIDE DEF x
  <2>3. CardsTyped'
    BY <1>1, <2>1, <2>2 DEF CardsInv, CardsTyped
  <2>4. CachedHold' /\ ListingHolds'
    BY <1>1, <2>1, <2>2 DEF CardsInv, CachedHold, ListingHolds, ReadOf
  <2> QED
    BY <2>1, <2>3, <2>4, NothingShown DEF CardsInv
<1> QED
  BY <1>2, <1>3

LEMMA AnswerHolds == ASSUME CardsInv, NEW s \in States, Answer(s) PROVE CardsInv'
<1> DEFINE titled == IF s = "readable" THEN title[listing.doc] ELSE 0
<1>1. /\ listing.stage = "asking"
      /\ s = "readable" => <<listing.viewer, listing.doc>> \in rights
      /\ listing' = [listing EXCEPT !.stage = "answered", !.state = s, !.titled = titled]
      /\ shown' = NotShown /\ UNCHANGED <<rights, barred, title, cards>>
  BY DEF Answer
<1>2. listing \in Listings
  BY <1>1 DEF CardsInv, CardsTyped, NoListing
<1>3. titled \in CardAges
  BY <1>2, CardAgesAre DEF CardsInv, CardsTyped, Listings
<1>4. s = "readable" => titled = title[listing.doc]
  OBVIOUS
<1> HIDE DEF titled
<1>5. /\ listing' \in Listings /\ listing'.viewer = listing.viewer /\ listing'.doc = listing.doc
      /\ listing'.state = s /\ listing'.titled = titled
  BY <1>1, <1>2, <1>3 DEF Listings, States
<1>6. CardsTyped'
  BY <1>1, <1>5 DEF CardsInv, CardsTyped
<1>7. CachedHold'
  BY <1>1 DEF CardsInv, CachedHold, ReadOf
<1>8. ListingHolds'
  BY <1>1, <1>4, <1>5 DEF ListingHolds, ReadOf
<1> QED
  BY <1>1, <1>6, <1>7, <1>8, NothingShown DEF CardsInv

LEMMA ResolvedHolds == ASSUME CardsInv, Resolved PROVE CardsInv'
<1> DEFINE v == listing.viewer
           d == listing.doc
           k == <<v, d>>
           entry == [age |-> listing.for, titled |-> listing.titled]
<1>1. /\ listing.stage = "answered" /\ listing' = NoListing
      /\ shown' = Card(v, d, listing.state, listing.titled)
      /\ UNCHANGED <<rights, barred, title>>
      /\ cards' = IF listing.state # "readable" THEN cards
                  ELSE [l \in DOMAIN cards \cup {k} |-> IF l = k THEN entry ELSE cards[l]]
  BY DEF Resolved, CardKey, Stamped
<1>2. /\ listing \in Listings
      /\ listing.state = "readable" => ReadOf(v, d, listing.titled, listing.for)
  BY <1>1 DEF CardsInv, CardsTyped, NoListing, ListingHolds
<1>3. /\ v \in Viewers /\ d \in Linked /\ k \in Pairs /\ listing.for \in Nat /\ listing.for < Ttl
      /\ entry \in Entries
  <2>1. listing.for \in 0..Slow /\ v \in Viewers /\ d \in Linked /\ listing.titled \in CardAges
    BY <1>2 DEF Listings
  <2> QED
    BY <2>1, CardAgesAre DEF Pairs, Entries
<1>4. BarredSeeNothing' /\ TitlesCatchUp'
  BY <1>1, <1>2, <1>3, ShownRecently DEF CardsInv
<1>5. listing.state \in States
  BY <1>1 DEF CardsInv, CardsTyped
<1>6. shown' \in ShownCards
  BY <1>1, <1>2, <1>3, <1>5 DEF Listings, Card, ShownCards
<1>7. listing'.stage = "none" /\ listing' = NoListing
  BY <1>1 DEF NoListing
<1>8. CASE listing.state # "readable"
  <2>1. UNCHANGED cards
    BY <1>1, <1>8
  <2>2. CardsTyped' /\ CachedHold' /\ ListingHolds'
    BY <1>1, <1>6, <1>7, <2>1 DEF CardsInv, CardsTyped, CachedHold, ListingHolds, ReadOf
  <2> QED
    BY <1>4, <2>2 DEF CardsInv
<1>9. CASE listing.state = "readable"
  <2> HIDE DEF v, d, entry
  <2>1. /\ DOMAIN cards' = DOMAIN cards \cup {k} /\ cards'[k] = entry
        /\ \A l \in DOMAIN cards \ {k} : cards'[l] = cards[l]
        /\ cards' = [l \in DOMAIN cards' |-> cards'[l]]
    BY <1>1, <1>9
  <2>2. \A l \in DOMAIN cards : cards[l] \in Entries
    BY DEF CardsInv, CardsTyped
  <2>3. cards' \in [DOMAIN cards' -> Entries] /\ DOMAIN cards' \subseteq Pairs
    BY <1>3, <2>1, <2>2 DEF CardsInv, CardsTyped
  <2>4. CardsTyped' /\ ListingHolds'
    BY <1>1, <1>6, <1>7, <2>3 DEF CardsInv, CardsTyped, ListingHolds
  <2>5. entry.age = listing.for /\ entry.titled = listing.titled
    BY DEF entry
  <2>6. ReadOf(v, d, entry.titled, entry.age)
    BY <1>2, <1>9, <2>5
  <2>7. ASSUME NEW w \in Viewers, NEW e \in Linked, <<w, e>> \in DOMAIN cards'
        PROVE  ReadOf(w, e, cards'[<<w, e>>].titled, cards'[<<w, e>>].age)
    <3>1. CASE <<w, e>> = k
      <4>1. w = v /\ e = d
        BY <3>1
      <4> QED
        BY <2>1, <2>6, <3>1, <4>1
    <3>2. CASE <<w, e>> # k
      BY <2>1, <2>7, <3>2 DEF CardsInv, CachedHold
    <3> QED
      BY <3>1, <3>2
  <2>8. CachedHold'
    BY <1>1, <2>7 DEF CachedHold, ReadOf
  <2> QED
    BY <1>4, <2>4, <2>8 DEF CardsInv
<1> QED
  BY <1>8, <1>9

LEMMA RestartHolds == ASSUME CardsInv, CardsRestart PROVE CardsInv'
<1>1. DOMAIN cards' = {} /\ cards' \in [{} -> Entries] /\ listing' = NoListing
  BY DEF CardsRestart
<1>2. /\ listing'.stage = "none" /\ shown' = NotShown /\ UNCHANGED <<rights, barred, title>>
  BY DEF CardsRestart, NoListing
<1>3. CardsTyped' /\ CachedHold' /\ ListingHolds'
  BY <1>1, <1>2 DEF CardsInv, CardsTyped, CachedHold, ListingHolds
<1> QED
  BY <1>2, <1>3, NothingShown DEF CardsInv

\* Losing or gaining a right starts its age again.
LEMMA RightsHold ==
    ASSUME CardsInv, NEW v \in Viewers, NEW d \in Linked, Bar(v, d) \/ Grant(v, d) PROVE CardsInv'
<1> DEFINE k == <<v, d>>
<1>1. /\ k \in Pairs /\ barred' = [barred EXCEPT ![k] = 0] /\ shown' = NotShown
      /\ UNCHANGED <<title, cards, listing>>
      /\ rights' = rights \ {k} \/ rights' = rights \cup {k}
  BY DEF Bar, Grant, Pairs
<1>2. /\ barred' \in [Pairs -> CardAges] /\ barred'[k] = 0 /\ rights' \subseteq Pairs
      /\ \A p \in Pairs \ {k} : barred'[p] = barred[p] /\ (p \in rights' <=> p \in rights)
  BY <1>1, CardAgesAre DEF CardsInv, CardsTyped
<1>3. CardsTyped'
  BY <1>1, <1>2 DEF CardsInv, CardsTyped
<1>4. ASSUME NEW w \in Viewers, NEW e \in Linked, NEW titled, NEW age \in Nat, ReadOf(w, e, titled, age)
      PROVE  ReadOf(w, e, titled, age)'
  <2>1. <<w, e>> \in Pairs
    BY DEF Pairs
  <2>2. barred'[<<w, e>>] = 0 \/ (barred'[<<w, e>>] = barred[<<w, e>>]
                                    /\ (<<w, e>> \in rights' <=> <<w, e>> \in rights))
    BY <1>2, <2>1
  <2> QED
    BY <1>1, <1>4, <2>2 DEF ReadOf
<1>5. CachedHold'
  <2>1. \A l \in DOMAIN cards : cards[l].age \in Nat
    BY CardAgesAre DEF CardsInv, CardsTyped, Entries
  <2> QED
    BY <1>1, <1>4, <2>1 DEF CardsInv, CachedHold, ReadOf
<1>6. ListingHolds'
  <2>1. SUFFICES ASSUME listing.stage = "answered", listing.state = "readable"
                 PROVE  ReadOf(listing.viewer, listing.doc, listing.titled, listing.for)'
    BY <1>1 DEF ListingHolds, ReadOf
  <2>2. /\ listing.viewer \in Viewers /\ listing.doc \in Linked /\ listing.for \in Nat
        /\ ReadOf(listing.viewer, listing.doc, listing.titled, listing.for)
    BY <2>1, CardAgesAre DEF CardsInv, CardsTyped, NoListing, Listings, ListingHolds
  <2> QED
    BY <1>1, <1>4, <2>2 DEF ReadOf
<1> QED
  BY <1>1, <1>3, <1>5, <1>6, NothingShown DEF CardsInv

LEMMA RetitleHolds == ASSUME CardsInv, NEW d \in Linked, Retitle(d) PROVE CardsInv'
<1>1. /\ title' = [title EXCEPT ![d] = 0] /\ shown' = NotShown
      /\ UNCHANGED <<rights, barred, cards, listing>>
  BY DEF Retitle
<1>2. /\ title' \in [Linked -> CardAges] /\ title'[d] = 0
      /\ \A e \in Linked \ {d} : title'[e] = title[e]
  BY <1>1, CardAgesAre DEF CardsInv, CardsTyped
<1>3. CardsTyped'
  BY <1>1, <1>2 DEF CardsInv, CardsTyped
<1>4. ASSUME NEW w \in Viewers, NEW e \in Linked, NEW titled, NEW age \in Nat, ReadOf(w, e, titled, age)
      PROVE  ReadOf(w, e, titled, age)'
  <2>1. title'[e] = 0 \/ title'[e] = title[e]
    BY <1>2
  <2> QED
    BY <1>1, <1>4, <2>1 DEF ReadOf
<1>5. CachedHold'
  <2>1. \A l \in DOMAIN cards : cards[l].age \in Nat
    BY CardAgesAre DEF CardsInv, CardsTyped, Entries
  <2> QED
    BY <1>1, <1>4, <2>1 DEF CardsInv, CachedHold, ReadOf
<1>6. ListingHolds'
  <2>1. SUFFICES ASSUME listing.stage = "answered", listing.state = "readable"
                 PROVE  ReadOf(listing.viewer, listing.doc, listing.titled, listing.for)'
    BY <1>1 DEF ListingHolds, ReadOf
  <2>2. /\ listing.viewer \in Viewers /\ listing.doc \in Linked /\ listing.for \in Nat
        /\ ReadOf(listing.viewer, listing.doc, listing.titled, listing.for)
    BY <2>1, CardAgesAre DEF CardsInv, CardsTyped, NoListing, Listings, ListingHolds
  <2> QED
    BY <1>1, <1>4, <2>2 DEF ReadOf
<1> QED
  BY <1>1, <1>3, <1>5, <1>6, NothingShown DEF CardsInv

\* Time passes for what was read and for what it was read from.
LEMMA CardsTickHolds == ASSUME CardsInv, CardsTick PROVE CardsInv'
<1>1. /\ barred' = [p \in Pairs |-> IF p \in rights THEN 0 ELSE Aged(barred[p])]
      /\ title' = [d \in Linked |-> Aged(title[d])]
      /\ cards' = [k \in DOMAIN cards |-> [age |-> Aged(cards[k].age), titled |-> Aged(cards[k].titled)]]
      /\ shown' = NotShown /\ UNCHANGED rights
  BY DEF CardsTick
<1>2. /\ \A p \in Pairs : barred[p] \in CardAges /\ barred'[p] = IF p \in rights THEN 0 ELSE Aged(barred[p])
      /\ \A d \in Linked : title[d] \in CardAges /\ title'[d] = Aged(title[d])
  BY <1>1 DEF CardsInv, CardsTyped
<1>3. /\ barred' \in [Pairs -> CardAges] /\ title' \in [Linked -> CardAges]
  <2>1. \A p \in Pairs : (IF p \in rights THEN 0 ELSE Aged(barred[p])) \in CardAges
    BY <1>2, CardAgesAre, CardsAge
  <2>2. \A d \in Linked : Aged(title[d]) \in CardAges
    BY <1>2, CardsAge
  <2> QED
    BY <1>1, <2>1, <2>2
<1>4. ASSUME NEW w \in Viewers, NEW e \in Linked, NEW titled \in CardAges, NEW age \in Nat,
             NEW later \in Nat, ReadOf(w, e, titled, age),
             \A i \in CardAges : i <= age => Aged(i) <= later
      PROVE  /\ <<w, e>> \notin rights' => barred'[<<w, e>>] <= later
             /\ Aged(titled) = title'[e] \/ title'[e] <= later
  <2>1. <<w, e>> \in Pairs
    BY DEF Pairs
  <2> QED
    BY <1>1, <1>2, <1>4, <2>1 DEF ReadOf
<1>5. ASSUME NEW k \in DOMAIN cards
      PROVE  /\ cards[k].age \in CardAges /\ cards[k].titled \in CardAges
             /\ cards'[k].age = Aged(cards[k].age) /\ cards'[k].titled = Aged(cards[k].titled)
             /\ cards'[k] \in Entries
  <2>1. cards[k].age \in CardAges /\ cards[k].titled \in CardAges
    BY DEF CardsInv, CardsTyped, Entries
  <2>2. cards'[k] = [age |-> Aged(cards[k].age), titled |-> Aged(cards[k].titled)]
    BY <1>1
  <2>3. Aged(cards[k].age) \in CardAges /\ Aged(cards[k].titled) \in CardAges
    BY <2>1, CardsAge
  <2> QED
    BY <2>1, <2>2, <2>3 DEF Entries
<1>6. DOMAIN cards' = DOMAIN cards /\ cards' \in [DOMAIN cards' -> Entries]
  <2>1. DOMAIN cards' = DOMAIN cards /\ cards' = [k \in DOMAIN cards |-> cards'[k]]
    BY <1>1
  <2> QED
    BY <1>5, <2>1
<1>7. CachedHold'
  <2> SUFFICES ASSUME NEW w \in Viewers, NEW e \in Linked, <<w, e>> \in DOMAIN cards
               PROVE  /\ <<w, e>> \notin rights' => barred'[<<w, e>>] <= cards'[<<w, e>>].age
                      /\ \/ cards'[<<w, e>>].titled = title'[e]
                         \/ title'[e] <= cards'[<<w, e>>].age
    BY <1>6 DEF CachedHold, ReadOf
  <2> DEFINE age == cards[<<w, e>>].age
             titled == cards[<<w, e>>].titled
  <2>1. /\ age \in CardAges /\ titled \in CardAges
        /\ cards'[<<w, e>>].age = Aged(age) /\ cards'[<<w, e>>].titled = Aged(titled)
    BY <1>5
  <2>2. ReadOf(w, e, titled, age)
    BY DEF CardsInv, CachedHold
  <2> HIDE DEF age, titled
  <2>3. age \in Nat /\ Aged(age) \in Nat /\ \A i \in CardAges : i <= age => Aged(i) <= Aged(age)
    BY <2>1, CardAgesAre, CardsAge
  <2> QED
    BY <1>4, <2>1, <2>2, <2>3
<1>8. CASE listing.stage = "none"
  <2>1. UNCHANGED listing
    BY <1>8 DEF CardsTick
  <2>2. CardsTyped' /\ ListingHolds'
    BY <1>1, <1>3, <1>6, <1>8, <2>1 DEF CardsInv, CardsTyped, ListingHolds
  <2> QED
    BY <1>1, <1>7, <2>2, NothingShown DEF CardsInv
<1>9. CASE listing.stage # "none"
  <2> DEFINE titled == IF listing.state = "readable" THEN Aged(listing.titled) ELSE listing.titled
  <2>1. /\ listing.for < Slow
        /\ listing' = [listing EXCEPT !.for = listing.for + 1, !.titled = titled]
    BY <1>9 DEF CardsTick
  <2>2. /\ listing \in Listings /\ listing.for \in 0..Slow /\ listing.titled \in CardAges
        /\ listing.viewer \in Viewers /\ listing.doc \in Linked
    BY <1>9 DEF CardsInv, CardsTyped, NoListing, Listings
  <2>3. /\ titled \in CardAges /\ listing.for + 1 \in 0..Slow
        /\ listing.state = "readable" => titled = Aged(listing.titled)
    <3>1. listing.for + 1 \in 0..Slow
      BY <2>1, <2>2, CardAgesAre
    <3>2. titled \in CardAges
      BY <2>2, CardsAge
    <3> QED
      BY <3>1, <3>2
  <2> HIDE DEF titled
  <2>4. /\ listing' \in Listings /\ listing'.viewer = listing.viewer /\ listing'.doc = listing.doc
        /\ listing'.state = listing.state /\ listing'.titled = titled
        /\ listing'.for = listing.for + 1 /\ listing'.stage = listing.stage
    BY <2>1, <2>2, <2>3 DEF Listings
  <2>5. CardsTyped'
    BY <1>1, <1>3, <1>6, <2>4 DEF CardsInv, CardsTyped
  <2>6. ListingHolds'
    <3>1. SUFFICES ASSUME listing.stage = "answered", listing.state = "readable"
                   PROVE  /\ <<listing.viewer, listing.doc>> \notin rights'
                                => barred'[<<listing.viewer, listing.doc>>] <= listing.for + 1
                          /\ \/ Aged(listing.titled) = title'[listing.doc]
                             \/ title'[listing.doc] <= listing.for + 1
      BY <2>3, <2>4 DEF ListingHolds, ReadOf
    <3>2. ReadOf(listing.viewer, listing.doc, listing.titled, listing.for)
      BY <3>1 DEF CardsInv, ListingHolds
    <3>3. /\ listing.for \in Nat /\ listing.for + 1 \in Nat
          /\ \A i \in CardAges : i <= listing.for => Aged(i) <= listing.for + 1
      <4>1. listing.for \in Nat /\ listing.for + 1 \in Nat
        BY <2>2, CardAgesAre
      <4> QED
        BY <4>1, CardsAge
    <3> QED
      BY <1>4, <2>2, <3>2, <3>3
  <2> QED
    BY <1>1, <1>7, <2>5, <2>6, NothingShown DEF CardsInv
<1> QED
  BY <1>8, <1>9

LEMMA CardsStep == CardsInv /\ [CardsNext]_cardVars => CardsInv'
<1> SUFFICES ASSUME CardsInv, [CardsNext]_cardVars PROVE CardsInv'
  OBVIOUS
<1>1. CASE \E v \in Viewers, d \in Linked : ListCard(v, d)
  BY <1>1, ListCardHolds
<1>2. CASE \E v \in Viewers, d \in Linked : Bar(v, d) \/ Grant(v, d)
  BY <1>2, RightsHold
<1>3. CASE \E s \in States : Answer(s)
  BY <1>3, AnswerHolds
<1>4. CASE Resolved
  BY <1>4, ResolvedHolds
<1>5. CASE CardsRestart
  BY <1>5, RestartHolds
<1>6. CASE \E d \in Linked : Retitle(d)
  BY <1>6, RetitleHolds
<1>7. CASE CardsTick
  BY <1>7, CardsTickHolds
<1>8. CASE UNCHANGED cardVars
  BY <1>8 DEF cardVars, CardsInv, CardsTyped, CachedHold, ListingHolds, ReadOf,
              BarredSeeNothing, TitlesCatchUp
<1> QED
  BY <1>1, <1>2, <1>3, <1>4, <1>5, <1>6, <1>7, <1>8 DEF CardsNext, States

LEMMA CardsImply == CardsInv => CardsAreAllowed
<1> SUFFICES ASSUME CardsInv PROVE CardsAreAllowed
  OBVIOUS
<1>1. \A k \in DOMAIN cards : cards[k].age \in CardAges
  BY DEF CardsInv, CardsTyped, Entries
<1>2. listing.stage \in {"none", "asking", "answered"} /\ listing.for \in 0..Slow
  <2>1. CASE listing = NoListing
    BY <2>1, CardAgesAre DEF NoListing
  <2>2. CASE listing \in Listings
    BY <2>2 DEF Listings
  <2> QED
    BY <2>1, <2>2 DEF CardsInv, CardsTyped
<1>3. shown.state \in {"none"} \cup States
  <2>1. CASE shown = NotShown
    BY <2>1 DEF NotShown
  <2>2. CASE shown \in ShownCards
    BY <2>2 DEF ShownCards
  <2> QED
    BY <2>1, <2>2 DEF CardsInv, CardsTyped
<1> QED
  BY <1>1, <1>2, <1>3 DEF CardsInv, CardsTyped, CardsAreAllowed, CardsTypeOK, States

\* Whatever the order of listings, answers, restarts, rights lost and titles
\* replaced, and however slow the platform, a card never outlives a right it was
\* read with, nor a title, for longer than CardCache keeps it.
THEOREM CardsStayAllowed == CardsSpec => []CardsAreAllowed
<1>1. CardsInit => CardsInv
  BY CardsStart
<1>2. CardsInv /\ [CardsNext]_cardVars => CardsInv'
  BY CardsStep
<1>3. CardsInv => CardsAreAllowed
  BY CardsImply
<1> QED
  BY <1>1, <1>2, <1>3, PTL DEF CardsSpec

-----------------------------------------------------------------------------
(* Previews. *)

First == CHOOSE c \in Digests : \A d \in Digests : c <= d
Contents == Digests \cup {First}
Validations == [export : Exports, content : Contents, passed : BOOLEAN, step : 1..3]
WerePut == {puts[i] : i \in 1..Len(puts)}

PreviewsTyped ==
    /\ exported \in [Exports -> Contents] /\ puts \in Seq(Contents)
    /\ working = {} \/ \E v \in Validations : working = {v}

\* Whoever has a sidecar was put, and has its object.
ObjectsFirst ==
    /\ DOMAIN sidecars = WerePut /\ WerePut \subseteq objects
    /\ \A v \in working : v.step = 2 => v.content \in objects

\* Contents put once each are numbered in the order they were put.
Numbered ==
    /\ IsFiniteSet(DOMAIN sidecars)
    /\ IsInjective(puts) =>
         /\ Cardinality(DOMAIN sidecars) = Len(puts)
         /\ \A i \in 1..Len(puts) : sidecars[puts[i]].ordinal = i - 1

PreviewsInv == PreviewsTyped /\ ObjectsFirst /\ Numbered

LEMMA StepsAre ==
    Len(Steps) = 3 /\ Steps[1] = "object" /\ Steps[2] = "sidecar" /\ Steps[3] = "commit"
  BY DEF Steps, Order

LEMMA PreviewsStart == PreviewsInit => PreviewsInv
<1> SUFFICES ASSUME PreviewsInit PROVE PreviewsInv
  OBVIOUS
<1>1. exported \in [Exports -> Contents]
  <2>1. exported \in [Exports -> {First}]
    BY DEF PreviewsInit, First
  <2> QED
    BY <2>1 DEF Contents
<1>2. /\ puts = <<>> /\ Len(puts) = 0 /\ puts \in Seq(Contents) /\ WerePut = {}
      /\ working = {} /\ DOMAIN sidecars = {} /\ objects = {}
  BY DEF PreviewsInit, WerePut
<1>3. IsFiniteSet({}) /\ Cardinality({}) = 0
  BY FS_EmptySet
<1> QED
  BY <1>1, <1>2, <1>3 DEF PreviewsInv, PreviewsTyped, ObjectsFirst, Numbered

\* A step that stores nothing new.
LEMMA NothingPut ==
    ASSUME PreviewsInv, UNCHANGED <<sidecars, puts>>, objects \subseteq objects',
           exported' \in [Exports -> Contents],
           working' = {} \/ \E v \in Validations : working' = {v} /\ (v.step = 2 => v.content \in objects')
    PROVE  PreviewsInv'
<1>1. PreviewsTyped'
  BY DEF PreviewsInv, PreviewsTyped
<1>2. WerePut' = WerePut
  BY DEF WerePut
<1>3. ObjectsFirst'
  BY <1>2 DEF PreviewsInv, ObjectsFirst
<1>4. Numbered'
  BY DEF PreviewsInv, Numbered
<1> QED
  BY <1>1, <1>3, <1>4 DEF PreviewsInv

LEMMA SidecarPut ==
    ASSUME PreviewsInv, NEW v \in working, v.step = 2, Put(v) PROVE PreviewsInv'
<1> DEFINE c == v.content
           n == Len(puts)
<1>1. /\ v \in Validations /\ c \in Contents /\ c \in objects /\ puts \in Seq(Contents) /\ n \in Nat
  BY DEF PreviewsInv, PreviewsTyped, ObjectsFirst, Validations
<1>2. /\ PutSidecar(v) /\ working' = {[v EXCEPT !.step = 3]} /\ puts' = Append(puts, c)
      /\ UNCHANGED <<exported, edited, judged, objects>>
  BY StepsAre DEF Put, PutSidecar
<1>3. /\ DOMAIN sidecars' = DOMAIN sidecars \cup {c}
      /\ sidecars'[c].ordinal = Cardinality(DOMAIN sidecars)
      /\ \A p \in DOMAIN sidecars \ {c} : sidecars'[p] = sidecars[p]
  BY <1>2 DEF PutSidecar, NextOrdinal
<1>4. /\ puts' \in Seq(Contents) /\ Len(puts') = n + 1 /\ puts'[n + 1] = c
      /\ \A i \in 1..n : puts'[i] = puts[i]
  BY <1>1, <1>2
<1>5. [v EXCEPT !.step = 3] \in Validations /\ [v EXCEPT !.step = 3].step = 3
  BY <1>1 DEF Validations
<1>6. PreviewsTyped'
  BY <1>2, <1>4, <1>5 DEF PreviewsInv, PreviewsTyped
<1> HIDE DEF c, n
<1>7. WerePut = {puts[i] : i \in 1..n} /\ WerePut' = {puts'[i] : i \in 1..(n + 1)}
  BY <1>4 DEF WerePut, n
<1>8. WerePut' = WerePut \cup {c}
  BY <1>1, <1>4, <1>7
<1>9. ObjectsFirst'
  BY <1>1, <1>2, <1>3, <1>5, <1>8 DEF PreviewsInv, ObjectsFirst
<1>10. IsFiniteSet(DOMAIN sidecars')
  BY <1>3, FS_AddElement DEF PreviewsInv, Numbered
<1>11. ASSUME IsInjective(puts')
       PROVE  /\ Cardinality(DOMAIN sidecars') = n + 1
              /\ \A i \in 1..(n + 1) : sidecars'[puts'[i]].ordinal = i - 1
  <2>1. DOMAIN puts = 1..n /\ DOMAIN puts' = 1..(n + 1)
    BY <1>1, <1>4 DEF n
  <2>2. \A i, j \in 1..(n + 1) : puts'[i] = puts'[j] => i = j
    BY <1>11, <2>1 DEF IsInjective
  <2>3. \A i \in 1..n : puts[i] # c
    BY <1>1, <1>4, <2>2
  <2>4. IsInjective(puts)
    BY <1>1, <1>4, <2>1, <2>2 DEF IsInjective
  <2>5. c \notin DOMAIN sidecars
    BY <1>7, <2>3 DEF PreviewsInv, ObjectsFirst
  <2>6. /\ Cardinality(DOMAIN sidecars) = n
        /\ \A i \in 1..n : sidecars[puts[i]].ordinal = i - 1
    BY <2>4 DEF PreviewsInv, Numbered, n
  <2>7. Cardinality(DOMAIN sidecars') = n + 1
    BY <1>3, <2>5, <2>6, FS_AddElement DEF PreviewsInv, Numbered
  <2>8. \A i \in 1..n : puts[i] \in DOMAIN sidecars
    BY <1>7 DEF PreviewsInv, ObjectsFirst
  <2>9. ASSUME NEW i \in 1..(n + 1) PROVE sidecars'[puts'[i]].ordinal = i - 1
    <3>1. CASE i = n + 1
      BY <1>1, <1>3, <1>4, <2>6, <3>1
    <3>2. CASE i \in 1..n
      BY <1>3, <1>4, <2>3, <2>6, <2>8, <3>2
    <3> QED
      BY <1>1, <3>1, <3>2
  <2> QED
    BY <2>7, <2>9
<1>12. Numbered'
  BY <1>4, <1>10, <1>11 DEF Numbered
<1> QED
  BY <1>6, <1>9, <1>12 DEF PreviewsInv

LEMMA PreviewsStep == PreviewsInv /\ [PreviewsNext]_previewVars => PreviewsInv'
<1> SUFFICES ASSUME PreviewsInv, [PreviewsNext]_previewVars PROVE PreviewsInv'
  OBVIOUS
<1>1. /\ exported \in [Exports -> Contents]
      /\ working = {} \/ \E v \in Validations : working = {v} /\ (v.step = 2 => v.content \in objects)
  BY DEF PreviewsInv, PreviewsTyped, ObjectsFirst
<1>2. CASE ExportAgain
  <2>1. exported' \in [Exports -> Contents]
    BY <1>1, <1>2 DEF ExportAgain, Contents
  <2>2. UNCHANGED <<edited, objects, sidecars, judged, working, puts>>
    BY <1>2 DEF ExportAgain
  <2> QED
    BY <1>1, <2>1, <2>2, NothingPut
<1>3. CASE EditSpecification
  <2>1. UNCHANGED <<exported, objects, sidecars, judged, working, puts>>
    BY <1>3 DEF EditSpecification
  <2> QED
    BY <1>1, <2>1, NothingPut
<1>4. ASSUME NEW e \in Exports, Judge(e) PROVE PreviewsInv'
  <2>1. PICK passed \in BOOLEAN, emitted \in BOOLEAN :
          working' = {[export |-> e, content |-> exported[e], passed |-> passed,
                       step |-> IF emitted THEN 1 ELSE Len(Steps)]}
    BY <1>4 DEF Judge
  <2> DEFINE w == [export |-> e, content |-> exported[e], passed |-> passed,
                   step |-> IF emitted THEN 1 ELSE Len(Steps)]
  <2>2. w \in Validations /\ w.step # 2
    BY <1>1, StepsAre DEF Validations
  <2>3. UNCHANGED <<exported, edited, objects, sidecars, judged, puts>>
    BY <1>4 DEF Judge
  <2> HIDE DEF w
  <2>4. working' = {w}
    BY <2>1 DEF w
  <2> QED
    BY <1>1, <2>2, <2>3, <2>4, NothingPut
<1>5. ASSUME NEW v \in working, Put(v) PROVE PreviewsInv'
  <2>1. v \in Validations /\ v.step \in 1..3
    BY <1>1 DEF Validations
  <2>2. v.step # 3
    BY <1>5, StepsAre DEF Put
  <2>3. CASE v.step = 1
    <3>1. /\ objects' = objects \cup {v.content} /\ working' = {[v EXCEPT !.step = 2]}
          /\ UNCHANGED <<exported, sidecars, puts>>
      BY <1>5, <2>3, StepsAre DEF Put, PutObject
    <3>2. [v EXCEPT !.step = 2] \in Validations /\ [v EXCEPT !.step = 2].content = v.content
      BY <2>1 DEF Validations
    <3> QED
      BY <1>1, <3>1, <3>2, NothingPut
  <2>4. CASE v.step = 2
    BY <1>5, <2>4, SidecarPut
  <2> QED
    BY <2>1, <2>2, <2>3, <2>4
<1>6. ASSUME NEW v \in working, PutFails(v) PROVE PreviewsInv'
  <2>1. /\ working' = {[v EXCEPT !.step = 3]} /\ UNCHANGED <<exported, objects, sidecars, puts>>
    BY <1>6, StepsAre DEF PutFails
  <2>2. [v EXCEPT !.step = 3] \in Validations /\ [v EXCEPT !.step = 3].step # 2
    BY <1>1 DEF Validations
  <2> QED
    BY <1>1, <2>1, <2>2, NothingPut
<1>7. ASSUME NEW v \in working, Record(v) PROVE PreviewsInv'
  <2>1. working' = {} /\ UNCHANGED <<exported, objects, sidecars, puts>>
    BY <1>7 DEF Record
  <2> QED
    BY <1>1, <2>1, NothingPut
<1>8. CASE PreviewsCrash
  <2>1. working' = {} /\ UNCHANGED <<exported, objects, sidecars, puts>>
    BY <1>8 DEF PreviewsCrash
  <2> QED
    BY <1>1, <2>1, NothingPut
<1>9. CASE UNCHANGED previewVars
  <2>1. UNCHANGED <<exported, objects, sidecars, working, puts>>
    BY <1>9 DEF previewVars
  <2> QED
    BY <1>1, <2>1, NothingPut
<1> QED
  BY <1>2, <1>3, <1>4, <1>5, <1>6, <1>7, <1>8, <1>9 DEF PreviewsNext

LEMMA PreviewsImply == PreviewsInv => PreviewsAreFresh
<1> SUFFICES ASSUME PreviewsInv PROVE PreviewsAreFresh
  OBVIOUS
<1>1. DOMAIN sidecars \subseteq objects /\ Displayed \subseteq DOMAIN sidecars
  BY DEF PreviewsInv, ObjectsFirst, Displayed, PreviewFor
<1>2. DisplayedCanBeRead
  BY <1>1 DEF DisplayedCanBeRead, Readable
<1>3. ASSUME puts # <<>>, IsInjective(puts), Displayed # {} PROVE Displayed = {Last(puts)}
  <2> DEFINE n == Len(puts)
  <2>1. puts \in Seq(Contents) /\ n \in Nat /\ n # 0 /\ Last(puts) = puts[n]
    BY <1>3 DEF PreviewsInv, PreviewsTyped, Last
  <2>2. DOMAIN sidecars = {puts[i] : i \in 1..n}
    BY DEF PreviewsInv, ObjectsFirst, WerePut
  <2>3. \A i \in 1..n : sidecars[puts[i]].ordinal = i - 1
    BY <1>3 DEF PreviewsInv, Numbered
  <2>4. Displayed = PreviewFor
    BY <1>3 DEF Displayed
  <2> HIDE DEF n
  <2>5. puts[n] \in PreviewFor
    <3>1. puts[n] \in DOMAIN sidecars /\ sidecars[puts[n]].ordinal = n - 1
      BY <2>1, <2>2, <2>3
    <3>2. ASSUME NEW q \in DOMAIN sidecars \ {puts[n]} PROVE sidecars[q].ordinal < n - 1
      <4>1. PICK i \in 1..n : q = puts[i]
        BY <2>2
      <4>2. i # n /\ sidecars[q].ordinal = i - 1
        BY <2>3, <4>1
      <4> QED
        BY <2>1, <4>2
    <3> QED
      BY <3>1, <3>2 DEF PreviewFor
  <2>6. ASSUME NEW p \in PreviewFor PROVE p = puts[n]
    <3>1. PICK i \in 1..n : p = puts[i]
      BY <2>2 DEF PreviewFor
    <3>2. sidecars[p].ordinal = i - 1 /\ sidecars[puts[n]].ordinal = n - 1 /\ puts[n] \in DOMAIN sidecars
      BY <2>1, <2>2, <2>3, <3>1
    <3>3. CASE p # puts[n]
      <4>1. n - 1 < i - 1 \/ n - 1 = i - 1
        BY <3>2, <3>3 DEF PreviewFor
      <4> QED
        BY <2>1, <3>1, <3>3, <4>1
    <3> QED
      BY <3>3
  <2> QED
    BY <2>1, <2>4, <2>5, <2>6
<1> QED
  BY <1>2, <1>3 DEF PreviewsAreFresh, FreshIsDisplayed

\* Wherever the worker is killed and whatever the store refuses, what a viewer is
\* shown can be read, and is the preview put last while no content came back.
THEOREM PreviewsStayFresh == PreviewsSpec => []PreviewsAreFresh
<1>1. PreviewsInit => PreviewsInv
  BY PreviewsStart
<1>2. PreviewsInv /\ [PreviewsNext]_previewVars => PreviewsInv'
  BY PreviewsStep
<1>3. PreviewsInv => PreviewsAreFresh
  BY PreviewsImply
<1> QED
  BY <1>1, <1>2, <1>3, PTL DEF PreviewsSpec

-----------------------------------------------------------------------------
(* The links between records and documents.                                *)

LinksByFile == [Scopes -> SUBSET Docs]
Ops == {"link", "unlink", "create"}
AskedLinks ==
    [stage : {"creating", "load"}, op : Ops, file : Scopes, doc : Docs, attempt : Nat]
DraftedLinks ==
    [stage : {"content", "write"}, op : Ops, file : Scopes, doc : Docs, attempt : Nat,
     based : SUBSET Docs, to : SUBSET Docs]
AppliedLinks ==
    [stage : {"applied"}, op : Ops, file : Scopes, doc : Docs, attempt : Nat,
     based : SUBSET Docs, to : SUBSET Docs, onto : LinksByFile]

\* A document is made by the one request that is past making it.
RequestHolds(x, docs) ==
    /\ x = NoRequest \/ x \in AskedLinks \/ x \in DraftedLinks \/ x \in AppliedLinks
    /\ x.stage = "creating" => x.op = "create"
    /\ x.stage \notin {"none", "creating"} /\ x.op = "create" => x.doc \in docs

LinkStoresTyped ==
    /\ branch \in LinksByFile /\ copy \in LinksByFile /\ served \in [Doers -> LinksByFile]
    /\ told \cup lost \subseteq made
    /\ links \in Nat /\ links <= MaxLinks

RequestsHold ==
    /\ doer = [d \in Doers |-> doer[d]]
    /\ \A d \in Doers : RequestHolds(doer[d], made)

\* What is in the working copy and not pushed is one request's.
OneApplied ==
    /\ \A d, e \in Doers : doer[d].stage = "applied" /\ doer[e].stage = "applied" => d = e
    /\ \A d \in Doers : doer[d].stage = "applied" =>
           /\ copy = [doer[d].onto EXCEPT ![doer[d].file] = doer[d].to]
           /\ doer[d].based = doer[d].onto[doer[d].file]

MadeHolds ==
    \A doc \in made :
        \/ doc \in told \cup lost
        \/ \E d \in Doers : /\ doer[d].stage \notin {"none", "creating"}
                            /\ doer[d].op = "create" /\ doer[d].doc = doc

LinksInv == LinkStoresTyped /\ RequestsHold /\ OneApplied /\ MadeHolds

-----------------------------------------------------------------------------
LEMMA RequestStages ==
    ASSUME NEW x, NEW docs, RequestHolds(x, docs)
    PROVE  /\ x.stage \in {"creating", "load"} => x \in AskedLinks
           /\ x.stage \in {"content", "write"} => x \in DraftedLinks
           /\ x.stage = "applied" => x \in AppliedLinks
           /\ x.stage # "none" =>
                 x.op \in Ops /\ x.file \in Scopes /\ x.doc \in Docs /\ x.attempt \in Nat
           /\ x.stage \in {"none", "creating", "load", "content", "write", "applied"}
<1>1. NoRequest.stage = "none"
  BY DEF NoRequest
<1>2. \A y \in AskedLinks : y.stage \in {"creating", "load"} /\ y.op \in Ops /\ y.file \in Scopes
                            /\ y.doc \in Docs /\ y.attempt \in Nat
  BY DEF AskedLinks
<1>3. \A y \in DraftedLinks : y.stage \in {"content", "write"} /\ y.op \in Ops /\ y.file \in Scopes
                              /\ y.doc \in Docs /\ y.attempt \in Nat
  BY DEF DraftedLinks
<1>4. \A y \in AppliedLinks : y.stage = "applied" /\ y.op \in Ops /\ y.file \in Scopes
                              /\ y.doc \in Docs /\ y.attempt \in Nat
  BY DEF AppliedLinks
<1> QED
  BY <1>1, <1>2, <1>3, <1>4 DEF RequestHolds

LEMMA RequestLater ==
    ASSUME NEW x, NEW docs, NEW more, docs \subseteq more, RequestHolds(x, docs)
    PROVE  RequestHolds(x, more)
BY DEF RequestHolds

LEMMA AppliedIsLinked ==
    ASSUME NEW mine, NEW set \in SUBSET Docs, mine.doc \in Docs
    PROVE  Applied(mine, set) \in SUBSET Docs
BY DEF Applied

LEMMA DraftedIsRequest ==
    ASSUME NEW x, NEW docs, RequestHolds(x, docs), x.stage \notin {"none", "creating"},
           NEW stage \in {"content", "write"}, NEW based \in SUBSET Docs, NEW to \in SUBSET Docs
    PROVE  /\ RequestHolds(Drafted(x, stage, based, to), docs)
           /\ Drafted(x, stage, based, to).stage = stage
           /\ Drafted(x, stage, based, to).op = x.op
           /\ Drafted(x, stage, based, to).doc = x.doc
<1> DEFINE y == Drafted(x, stage, based, to)
<1>1. x.op \in Ops /\ x.file \in Scopes /\ x.doc \in Docs /\ x.attempt \in Nat
  BY RequestStages
<1>2. /\ y = [stage |-> stage, op |-> x.op, file |-> x.file, doc |-> x.doc,
              attempt |-> x.attempt, based |-> based, to |-> to]
      /\ y.stage = stage /\ y.op = x.op /\ y.doc = x.doc
  BY DEF Drafted
<1> HIDE DEF y
<1>3. y \in DraftedLinks
  BY <1>1, <1>2 DEF DraftedLinks
<1>4. RequestHolds(y, docs)
  BY <1>2, <1>3 DEF RequestHolds
<1> QED
  BY <1>2, <1>4 DEF y

LEMMA LinksInitially == LinksInit => LinksInv
<1> SUFFICES ASSUME LinksInit PROVE LinksInv
  OBVIOUS
<1>1. NoRequest.stage = "none"
  BY DEF NoRequest
<1>2. RequestsHold
  <2>1. RequestHolds(NoRequest, made)
    BY <1>1 DEF RequestHolds
  <2> QED
    BY <2>1 DEF LinksInit, RequestsHold
<1>3. LinkStoresTyped
  BY DocumentLinksAssumption DEF LinksInit, LinkStoresTyped, LinksByFile
<1>4. OneApplied /\ MadeHolds
  BY <1>1 DEF LinksInit, OneApplied, MadeHolds
<1> QED
  BY <1>2, <1>3, <1>4 DEF LinksInv

-----------------------------------------------------------------------------
\* One request moves to x, and the working copy is not a request's that it was not.
LEMMA RequestMoves ==
    ASSUME LinksInv, NEW d \in Doers, NEW x,
           doer' = [doer EXCEPT ![d] = x],
           made \subseteq made', RequestHolds(x, made')
    PROVE  /\ RequestsHold'
           /\ doer'[d] = x /\ \A e \in Doers \ {d} : doer'[e] = doer[e]
<1>1. doer = [e \in Doers |-> doer[e]]
  BY DEF LinksInv, RequestsHold
<1>2. /\ doer'[d] = x /\ \A e \in Doers \ {d} : doer'[e] = doer[e]
      /\ doer' = [e \in Doers |-> doer'[e]]
  BY <1>1
<1>3. \A e \in Doers : RequestHolds(doer'[e], made')
  BY <1>2, RequestLater DEF LinksInv, RequestsHold
<1> QED
  BY <1>2, <1>3 DEF RequestsHold

\* A request that moves without having applied anything leaves what another applied.
LEMMA AppliedStill ==
    ASSUME LinksInv, NEW d \in Doers, doer'[d].stage # "applied",
           \A e \in Doers \ {d} : doer'[e] = doer[e],
           copy' = copy \/ \A e \in Doers \ {d} : doer[e].stage # "applied"
    PROVE  OneApplied'
<1>1. \A e \in Doers : doer'[e].stage = "applied" => e # d /\ doer'[e] = doer[e] /\ copy' = copy
  OBVIOUS
<1> QED
  BY <1>1 DEF LinksInv, OneApplied

\* What was made stays told of, when a request that ends tells, or is lost.
LEMMA MadeStill ==
    ASSUME LinksInv, NEW d \in Doers, \A e \in Doers \ {d} : doer'[e] = doer[e],
           told \subseteq told', lost \subseteq lost',
           \A doc \in made' \ made :
               \/ doc \in told' \cup lost'
               \/ /\ doer'[d].stage \notin {"none", "creating"}
                  /\ doer'[d].op = "create" /\ doer'[d].doc = doc,
           doer[d].stage \notin {"none", "creating"} /\ doer[d].op = "create" =>
               \/ doer[d].doc \in told' \cup lost'
               \/ /\ doer'[d].stage \notin {"none", "creating"}
                  /\ doer'[d].op = "create" /\ doer'[d].doc = doer[d].doc
    PROVE  MadeHolds'
<1> SUFFICES ASSUME NEW doc \in made'
             PROVE  \/ doc \in told' \cup lost'
                    \/ \E e \in Doers : /\ doer'[e].stage \notin {"none", "creating"}
                                        /\ doer'[e].op = "create" /\ doer'[e].doc = doc
  BY DEF MadeHolds
<1>1. CASE doc \notin made
  BY <1>1
<1>2. CASE doc \in told \cup lost
  BY <1>2
<1>3. ASSUME NEW e \in Doers, doer[e].stage \notin {"none", "creating"},
             doer[e].op = "create", doer[e].doc = doc
      PROVE  \/ doc \in told' \cup lost'
             \/ \E f \in Doers : /\ doer'[f].stage \notin {"none", "creating"}
                                 /\ doer'[f].op = "create" /\ doer'[f].doc = doc
  <2>1. CASE e = d
    BY <1>3, <2>1
  <2>2. CASE e # d
    BY <1>3, <2>2
  <2> QED
    BY <2>1, <2>2
<1> QED
  BY <1>1, <1>2, <1>3 DEF LinksInv, MadeHolds

\* A request that ends: it tells of what it made.
LEMMA FinishesHolds ==
    ASSUME LinksInv, NEW d \in Doers, NEW linked, Finishes(d, linked),
           doer[d].stage \notin {"none", "creating"}, UNCHANGED <<made, lost>>,
           copy' = copy \/ \A e \in Doers \ {d} : doer[e].stage # "applied"
    PROVE  /\ RequestsHold' /\ OneApplied' /\ MadeHolds'
           /\ told' \cup lost' \subseteq made'
<1>1. doer' = [doer EXCEPT ![d] = NoRequest] /\ told' = ToldOf(doer[d], linked)
  BY DEF Finishes
<1>2. NoRequest.stage = "none" /\ RequestHolds(NoRequest, made')
  BY DEF NoRequest, RequestHolds
<1>3. RequestsHold' /\ doer'[d] = NoRequest /\ \A e \in Doers \ {d} : doer'[e] = doer[e]
  BY <1>1, <1>2, RequestMoves
<1>4. OneApplied'
  BY <1>2, <1>3, AppliedStill
<1>5. told' = told \cup (IF doer[d].op = "create" THEN {doer[d].doc} ELSE {})
  BY <1>1 DEF ToldOf
<1>6. MadeHolds'
  BY <1>3, <1>5, MadeStill
<1>7. RequestHolds(doer[d], made)
  BY DEF LinksInv, RequestsHold
<1>8. told' \cup lost' \subseteq made'
  BY <1>5, <1>7 DEF LinksInv, LinkStoresTyped, RequestHolds
<1> QED
  BY <1>3, <1>4, <1>6, <1>8

\* A request that goes on, without a document made or told of.
LEMMA GoesOnHolds ==
    ASSUME LinksInv, NEW d \in Doers, NEW x, doer' = [doer EXCEPT ![d] = x],
           RequestHolds(x, made), x.stage # "applied", UNCHANGED <<made, told, lost>>,
           doer[d].stage \notin {"none", "creating"} /\ doer[d].op = "create" =>
               x.stage \notin {"none", "creating"} /\ x.op = "create" /\ x.doc = doer[d].doc,
           copy' = copy \/ \A e \in Doers \ {d} : doer[e].stage # "applied"
    PROVE  /\ RequestsHold' /\ OneApplied' /\ MadeHolds'
           /\ told' \cup lost' \subseteq made'
<1>1. RequestsHold' /\ doer'[d] = x /\ \A e \in Doers \ {d} : doer'[e] = doer[e]
  BY RequestMoves
<1>2. OneApplied'
  BY <1>1, AppliedStill
<1>3. MadeHolds'
  BY <1>1, MadeStill
<1> QED
  BY <1>1, <1>2, <1>3 DEF LinksInv, LinkStoresTyped

-----------------------------------------------------------------------------
LEMMA AskLinkHolds ==
    ASSUME LinksInv, NEW d \in Doers, NEW op \in Ops, NEW file \in Scopes, NEW doc \in Docs,
           AskLink(d, op, file, doc)
    PROVE  LinksInv' /\ branch' = branch
<1> DEFINE x == [stage |-> IF op = "create" THEN "creating" ELSE "load", op |-> op,
                 file |-> file, doc |-> doc, attempt |-> 1]
<1>1. /\ doer[d].stage = "none" /\ links < MaxLinks /\ links' = links + 1
      /\ doer' = [doer EXCEPT ![d] = x]
      /\ UNCHANGED <<branch, copy, served, made, told, lost>>
  BY DEF AskLink
<1>2. /\ x \in AskedLinks /\ x.op = op
      /\ x.stage = (IF op = "create" THEN "creating" ELSE "load")
  BY DEF AskedLinks
<1> HIDE DEF x
<1>3. RequestHolds(x, made) /\ x.stage # "applied"
  BY <1>2 DEF RequestHolds
<1>4. RequestsHold' /\ OneApplied' /\ MadeHolds'
  BY <1>1, <1>3, GoesOnHolds
<1>5. LinkStoresTyped'
  BY <1>1, DocumentLinksAssumption DEF LinksInv, LinkStoresTyped
<1> QED
  BY <1>1, <1>4, <1>5 DEF LinksInv

LEMMA CreateDocumentHolds ==
    ASSUME LinksInv, NEW d \in Doers, CreateDocument(d)
    PROVE  LinksInv' /\ branch' = branch
<1>1. /\ doer[d].stage = "creating" /\ doer[d].doc \notin made
      /\ UNCHANGED <<branch, copy, served, told, links>>
  BY DEF CreateDocument
<1>2. RequestHolds(doer[d], made)
  BY DEF LinksInv, RequestsHold
<1>3. doer[d] \in AskedLinks /\ doer[d].op = "create"
  BY <1>1, <1>2, RequestStages DEF RequestHolds
<1>4. NoRequest.stage = "none" /\ RequestHolds(NoRequest, made')
  BY DEF NoRequest, RequestHolds
<1>5. CASE /\ made' = made \cup {doer[d].doc} /\ doer' = [doer EXCEPT ![d].stage = "load"]
           /\ UNCHANGED lost
  <2> DEFINE x == [doer[d] EXCEPT !.stage = "load"]
  <2>1. /\ x \in AskedLinks /\ x.stage = "load" /\ x.op = "create" /\ x.doc = doer[d].doc
    BY <1>3 DEF AskedLinks
  <2>2. doer' = [doer EXCEPT ![d] = x]
    BY <1>5
  <2> HIDE DEF x
  <2>3. RequestHolds(x, made')
    BY <1>5, <2>1 DEF RequestHolds
  <2>4. RequestsHold' /\ doer'[d] = x /\ \A e \in Doers \ {d} : doer'[e] = doer[e]
    BY <1>5, <2>2, <2>3, RequestMoves
  <2>5. OneApplied'
    BY <1>1, <2>1, <2>4, AppliedStill
  <2>6. MadeHolds'
    BY <1>1, <1>5, <2>1, <2>4, MadeStill
  <2>7. LinkStoresTyped'
    BY <1>1, <1>5 DEF LinksInv, LinkStoresTyped
  <2> QED
    BY <1>1, <2>4, <2>5, <2>6, <2>7 DEF LinksInv
<1>6. CASE /\ doer' = [doer EXCEPT ![d] = NoRequest]
           /\ \/ made' = made \cup {doer[d].doc} /\ lost' = lost \cup {doer[d].doc}
              \/ UNCHANGED <<made, lost>>
  <2>1. RequestsHold' /\ doer'[d] = NoRequest /\ \A e \in Doers \ {d} : doer'[e] = doer[e]
    BY <1>4, <1>6, RequestMoves
  <2>2. OneApplied'
    BY <1>1, <1>4, <2>1, AppliedStill
  <2>3. MadeHolds'
    BY <1>1, <1>6, <2>1, MadeStill
  <2>4. LinkStoresTyped'
    BY <1>1, <1>6 DEF LinksInv, LinkStoresTyped
  <2> QED
    BY <1>1, <2>1, <2>2, <2>3, <2>4 DEF LinksInv
<1> QED
  BY <1>5, <1>6 DEF CreateDocument

LEMMA CreateTakenHolds ==
    ASSUME LinksInv, NEW d \in Doers, CreateTaken(d)
    PROVE  LinksInv' /\ branch' = branch
<1>1. /\ doer[d].stage = "creating" /\ doer' = [doer EXCEPT ![d] = NoRequest]
      /\ UNCHANGED <<branch, copy, served, made, told, lost, links>>
  BY DEF CreateTaken
<1>2. NoRequest.stage = "none" /\ RequestHolds(NoRequest, made)
  BY DEF NoRequest, RequestHolds
<1>3. RequestsHold' /\ OneApplied' /\ MadeHolds'
  BY <1>1, <1>2, GoesOnHolds
<1> QED
  BY <1>1, <1>3 DEF LinksInv, LinkStoresTyped

LEMMA LoadLinksHolds ==
    ASSUME LinksInv, NEW d \in Doers, LoadLinks(d)
    PROVE  LinksInv' /\ branch' = branch
<1> DEFINE mine == doer[d]
           read == served[d][mine.file]
           stage == IF mine.file = "asset" THEN "write" ELSE "content"
           x == Drafted(mine, stage, read, Applied(mine, read))
<1>1. mine.stage = "load" /\ UNCHANGED <<branch, copy, served, made, lost, links>>
  BY DEF LoadLinks
<1>2. Finishes(d, FALSE) \/ (doer' = [doer EXCEPT ![d] = x] /\ UNCHANGED told)
  <2> DEFINE ends == \/ /\ mine.op = "unlink" /\ mine.attempt = 1
                        /\ mine.doc \notin IF mine.file = "asset" THEN read ELSE copy[mine.file]
                     \/ /\ mine.file = "asset" /\ mine.op = "unlink"
                        /\ Applied(mine, read) = read
  <2>1. CASE ends
    BY <2>1 DEF LoadLinks
  <2>2. CASE ~ends
    BY <2>2 DEF LoadLinks
  <2> QED
    BY <2>1, <2>2
<1>3. RequestHolds(mine, made)
  BY DEF LinksInv, RequestsHold
<1>4. mine.doc \in Docs /\ read \in SUBSET Docs
  BY <1>1, <1>3, RequestStages DEF LinksInv, LinkStoresTyped, LinksByFile
<1>5. /\ RequestHolds(x, made) /\ x.stage = stage /\ x.op = mine.op /\ x.doc = mine.doc
  BY <1>1, <1>3, <1>4, AppliedIsLinked, DraftedIsRequest
<1>6. stage \in {"write", "content"}
  OBVIOUS
<1> HIDE DEF x, stage
<1>7. CASE Finishes(d, FALSE)
  BY <1>1, <1>7, FinishesHolds DEF LinksInv, LinkStoresTyped
<1>8. CASE doer' = [doer EXCEPT ![d] = x] /\ UNCHANGED told
  <2>1. RequestsHold' /\ OneApplied' /\ MadeHolds' /\ told' \cup lost' \subseteq made'
    BY <1>1, <1>5, <1>6, <1>8, GoesOnHolds
  <2> QED
    BY <1>1, <2>1 DEF LinksInv, LinkStoresTyped
<1> QED
  BY <1>2, <1>7, <1>8

LEMMA LoadProjectHolds ==
    ASSUME LinksInv, NEW d \in Doers, LoadProject(d)
    PROVE  LinksInv' /\ branch' = branch
<1> DEFINE mine == doer[d]
           to == Applied(mine, copy["project"])
           x == Drafted(mine, "write", mine.based, to)
<1>1. /\ mine.stage = "content" /\ doer' = [doer EXCEPT ![d] = x]
      /\ UNCHANGED <<branch, copy, served, made, told, lost, links>>
  BY DEF LoadProject
<1>2. RequestHolds(mine, made) /\ mine \in DraftedLinks
  BY <1>1, RequestStages DEF LinksInv, RequestsHold
<1>3. mine.based \in SUBSET Docs /\ mine.doc \in Docs
  BY <1>2 DEF DraftedLinks
<1>4. to \in SUBSET Docs
  <2>1. copy["project"] \in SUBSET Docs
    BY DEF LinksInv, LinkStoresTyped, LinksByFile, Scopes
  <2> QED
    BY <1>3, <2>1, AppliedIsLinked
<1>5. RequestHolds(x, made) /\ x.stage = "write" /\ x.op = mine.op /\ x.doc = mine.doc
  BY <1>1, <1>2, <1>3, <1>4, DraftedIsRequest
<1> HIDE DEF x
<1>6. RequestsHold' /\ OneApplied' /\ MadeHolds'
  BY <1>1, <1>5, GoesOnHolds
<1> QED
  BY <1>1, <1>6 DEF LinksInv, LinkStoresTyped

\* The volume lock: a request applies when none has.
LEMMA ApplyLinkHolds ==
    ASSUME LinksInv, NEW d \in Doers, ApplyLink(d)
    PROVE  LinksInv' /\ branch' = branch
<1> DEFINE mine == doer[d]
           x == [stage |-> "applied", op |-> mine.op, file |-> mine.file, doc |-> mine.doc,
                 attempt |-> mine.attempt, based |-> mine.based, to |-> mine.to,
                 onto |-> branch]
           again == [stage |-> "load", op |-> mine.op, file |-> mine.file, doc |-> mine.doc,
                     attempt |-> mine.attempt + 1]
<1>1. mine.stage = "write" /\ CopyFree /\ UNCHANGED <<branch, made, lost, links>>
  BY DEF ApplyLink
<1>2. /\ RequestHolds(mine, made) /\ mine \in DraftedLinks
      /\ \A e \in Doers : doer[e].stage # "applied"
  BY <1>1, RequestStages DEF LinksInv, RequestsHold, CopyFree
<1>3. /\ mine.op \in Ops /\ mine.file \in Scopes /\ mine.doc \in Docs /\ mine.attempt \in Nat
      /\ mine.based \in SUBSET Docs /\ mine.to \in SUBSET Docs
  BY <1>2 DEF DraftedLinks
<1>4. branch \in LinksByFile /\ served \in [Doers -> LinksByFile]
  BY DEF LinksInv, LinkStoresTyped
<1>5. CASE /\ Current(mine) /\ copy' = [branch EXCEPT ![mine.file] = mine.to]
           /\ served' = [served EXCEPT ![d] = copy']
           /\ doer' = [doer EXCEPT ![d] = x]
           /\ UNCHANGED told
  <2>1. copy' \in LinksByFile
    BY <1>3, <1>4, <1>5 DEF LinksByFile
  <2>2. /\ x \in AppliedLinks /\ x.stage = "applied" /\ x.op = mine.op /\ x.doc = mine.doc
        /\ x.onto = branch /\ x.file = mine.file /\ x.to = mine.to /\ x.based = mine.based
    BY <1>3, <1>4 DEF AppliedLinks
  <2> HIDE DEF x
  <2>3. RequestHolds(x, made')
    BY <1>1, <1>2, <2>2 DEF RequestHolds
  <2>4. RequestsHold' /\ doer'[d] = x /\ \A e \in Doers \ {d} : doer'[e] = doer[e]
    BY <1>1, <1>5, <2>3, RequestMoves
  <2>5. \A e \in Doers : doer'[e].stage = "applied" => e = d
    BY <1>2, <2>4
  <2>6. OneApplied'
    <3>1. x.based = x.onto[x.file]
      BY <1>5, <2>2 DEF Current
    <3>2. copy' = [x.onto EXCEPT ![x.file] = x.to]
      BY <1>5, <2>2
    <3> QED
      BY <2>4, <2>5, <3>1, <3>2 DEF OneApplied
  <2>7. MadeHolds'
    BY <1>1, <1>5, <2>2, <2>4, MadeStill
  <2>8. LinkStoresTyped'
    BY <1>1, <1>4, <1>5, <2>1 DEF LinksInv, LinkStoresTyped
  <2> QED
    BY <1>1, <2>4, <2>6, <2>7, <2>8 DEF LinksInv
<1>6. CASE /\ copy' = branch /\ served' = [served EXCEPT ![d] = branch]
           /\ doer' = [doer EXCEPT ![d] = again]
           /\ UNCHANGED told
  <2>1. /\ again \in AskedLinks /\ again.stage = "load" /\ again.op = mine.op
        /\ again.doc = mine.doc
    BY <1>3 DEF AskedLinks
  <2> HIDE DEF again
  <2>2. RequestHolds(again, made)
    BY <1>1, <1>2, <2>1 DEF RequestHolds
  <2>3. RequestsHold' /\ OneApplied' /\ MadeHolds'
    BY <1>1, <1>2, <1>6, <2>1, <2>2, GoesOnHolds
  <2>4. LinkStoresTyped'
    BY <1>1, <1>4, <1>6 DEF LinksInv, LinkStoresTyped
  <2> QED
    BY <1>1, <2>3, <2>4 DEF LinksInv
<1>7. CASE /\ copy' = branch /\ served' = [served EXCEPT ![d] = branch]
           /\ Finishes(d, FALSE)
  <2>1. RequestsHold' /\ OneApplied' /\ MadeHolds' /\ told' \cup lost' \subseteq made'
    BY <1>1, <1>2, <1>7, FinishesHolds
  <2>2. LinkStoresTyped'
    BY <1>1, <1>4, <1>7, <2>1 DEF LinksInv, LinkStoresTyped
  <2> QED
    BY <1>1, <2>1, <2>2 DEF LinksInv
<1> QED
  BY <1>5, <1>6, <1>7 DEF ApplyLink

\* What is pushed is what was applied, over what it was applied to.
LEMMA PushLinkHolds ==
    ASSUME LinksInv, NEW d \in Doers, PushLink(d)
    PROVE  LinksInv' /\ OneLinkPerWrite
<1>1. /\ doer[d].stage = "applied" /\ branch = doer[d].onto /\ branch' = copy
      /\ Finishes(d, TRUE) /\ UNCHANGED <<copy, served, made, lost, links>>
  BY DEF PushLink
<1>2. RequestsHold' /\ OneApplied' /\ MadeHolds' /\ told' \cup lost' \subseteq made'
  BY <1>1, FinishesHolds
<1>3. LinkStoresTyped'
  BY <1>1, <1>2 DEF LinksInv, LinkStoresTyped
<1>4. ASSUME NEW e \in Doers, doer[e].stage = "applied",
             doer[e].to = Applied(doer[e], doer[e].based), NEW f \in Scopes
      PROVE  (branch[f] \ branch'[f]) \cup (branch'[f] \ branch[f]) \subseteq
                 IF f = doer[e].file THEN {doer[e].doc} ELSE {}
  <2>1. /\ e = d /\ copy = [doer[d].onto EXCEPT ![doer[d].file] = doer[d].to]
        /\ doer[d].based = doer[d].onto[doer[d].file]
    BY <1>1, <1>4 DEF LinksInv, OneApplied
  <2>2. branch \in LinksByFile
    BY DEF LinksInv, LinkStoresTyped
  <2>3. branch' = [branch EXCEPT ![doer[d].file] = Applied(doer[d], branch[doer[d].file])]
    BY <1>1, <1>4, <2>1
  <2>4. CASE f = doer[d].file
    <3>1. branch'[f] = Applied(doer[d], branch[f])
      BY <2>2, <2>3, <2>4 DEF LinksByFile
    <3> QED
      BY <2>1, <2>4, <3>1 DEF Applied
  <2>5. CASE f # doer[d].file
    <3>1. branch'[f] = branch[f]
      BY <2>2, <2>3, <2>5 DEF LinksByFile
    <3> QED
      BY <2>1, <2>5, <3>1
  <2> QED
    BY <2>4, <2>5
<1>5. OneLinkPerWrite
  BY <1>4 DEF OneLinkPerWrite
<1> QED
  BY <1>2, <1>3, <1>5 DEF LinksInv

LEMMA PushFailsHolds ==
    ASSUME LinksInv, NEW d \in Doers, PushFails(d)
    PROVE  LinksInv' /\ branch' = branch
<1> DEFINE x == Drafted(doer[d], "write", doer[d].based, doer[d].to)
<1>1. /\ doer[d].stage = "applied" /\ copy' = branch
      /\ served' = [served EXCEPT ![d] = branch]
      /\ UNCHANGED <<branch, made, lost, links>>
  BY DEF PushFails
<1>2. \A e \in Doers \ {d} : doer[e].stage # "applied"
  BY <1>1 DEF LinksInv, OneApplied
<1>3. RequestHolds(doer[d], made) /\ doer[d] \in AppliedLinks
  BY <1>1, RequestStages DEF LinksInv, RequestsHold
<1>4. doer[d].based \in SUBSET Docs /\ doer[d].to \in SUBSET Docs
  BY <1>3 DEF AppliedLinks
<1>5. RequestHolds(x, made) /\ x.stage = "write" /\ x.op = doer[d].op /\ x.doc = doer[d].doc
  BY <1>1, <1>3, <1>4, DraftedIsRequest
<1>6. Finishes(d, FALSE) \/ (doer' = [doer EXCEPT ![d] = x] /\ UNCHANGED told)
  BY DEF PushFails
<1> HIDE DEF x
<1>7. RequestsHold' /\ OneApplied' /\ MadeHolds' /\ told' \cup lost' \subseteq made'
  <2>1. CASE Finishes(d, FALSE)
    BY <1>1, <1>2, <2>1, FinishesHolds
  <2>2. CASE doer' = [doer EXCEPT ![d] = x] /\ UNCHANGED told
    BY <1>1, <1>2, <1>5, <2>2, GoesOnHolds
  <2> QED
    BY <1>6, <2>1, <2>2
<1>8. LinkStoresTyped'
  BY <1>1, <1>7 DEF LinksInv, LinkStoresTyped
<1> QED
  BY <1>1, <1>7, <1>8 DEF LinksInv

LEMMA DoerDiesHolds ==
    ASSUME LinksInv, NEW d \in Doers, DoerDies(d)
    PROVE  LinksInv' /\ branch' = branch
<1>1. /\ doer[d].stage # "none"
      /\ lost' = lost \cup (IF doer[d].op = "create" THEN {doer[d].doc} \cap made ELSE {})
      /\ copy' = IF \A e \in Doers \ {d} : doer[e].stage # "applied" THEN branch ELSE copy
      /\ served' = [served EXCEPT ![d] = copy']
      /\ doer' = [doer EXCEPT ![d] = NoRequest]
      /\ UNCHANGED <<branch, made, told, links>>
  BY DEF DoerDies
<1>2. NoRequest.stage = "none" /\ RequestHolds(NoRequest, made')
  BY DEF NoRequest, RequestHolds
<1>3. RequestsHold' /\ doer'[d] = NoRequest /\ \A e \in Doers \ {d} : doer'[e] = doer[e]
  BY <1>1, <1>2, RequestMoves
<1>4. copy' = copy \/ \A e \in Doers \ {d} : doer[e].stage # "applied"
  BY <1>1
<1>5. OneApplied'
  BY <1>2, <1>3, <1>4, AppliedStill
<1>6. RequestHolds(doer[d], made)
  BY DEF LinksInv, RequestsHold
<1>7. MadeHolds'
  BY <1>1, <1>3, <1>6, MadeStill DEF RequestHolds
<1>8. copy' \in LinksByFile
  BY <1>1 DEF LinksInv, LinkStoresTyped
<1>9. LinkStoresTyped'
  BY <1>1, <1>8 DEF LinksInv, LinkStoresTyped
<1> QED
  BY <1>1, <1>3, <1>5, <1>7, <1>9 DEF LinksInv

LEMMA RefreshLinksHolds ==
    ASSUME LinksInv, NEW d \in Doers, RefreshLinks(d)
    PROVE  LinksInv' /\ branch' = branch
<1>1. /\ copy' = (IF CopyFree THEN branch ELSE copy)
      /\ served' = [served EXCEPT ![d] = copy']
      /\ UNCHANGED <<branch, doer, made, told, lost, links>>
  BY DEF RefreshLinks
<1>2. OneApplied'
  BY <1>1 DEF LinksInv, OneApplied, CopyFree
<1>3. copy' \in LinksByFile
  BY <1>1 DEF LinksInv, LinkStoresTyped
<1>4. LinkStoresTyped' /\ RequestsHold' /\ MadeHolds'
  BY <1>1, <1>3 DEF LinksInv, LinkStoresTyped, RequestsHold, MadeHolds
<1> QED
  BY <1>1, <1>2, <1>4 DEF LinksInv

LEMMA PushByHandHolds ==
    ASSUME LinksInv, NEW file \in Scopes, NEW doc \in Docs, PushByHand(file, doc)
    PROVE  LinksInv' /\ links' # links
<1>1. /\ links < MaxLinks /\ links' = links + 1
      /\ branch' = [branch EXCEPT ![file] = IF doc \in @ THEN @ \ {doc} ELSE @ \cup {doc}]
      /\ UNCHANGED <<copy, served, doer, made, told, lost>>
  BY DEF PushByHand
<1>2. branch' \in LinksByFile
  BY <1>1 DEF LinksInv, LinkStoresTyped, LinksByFile
<1>3. LinkStoresTyped' /\ links' # links
  BY <1>1, <1>2, DocumentLinksAssumption DEF LinksInv, LinkStoresTyped
<1>4. RequestsHold' /\ OneApplied' /\ MadeHolds'
  BY <1>1 DEF LinksInv, RequestsHold, OneApplied, MadeHolds
<1> QED
  BY <1>3, <1>4 DEF LinksInv

LEMMA LinksStep ==
    LinksInv /\ [LinksNext]_linkVars => LinksInv' /\ (OneLinkPerWrite \/ UNCHANGED linkVars)
<1> SUFFICES ASSUME LinksInv, [LinksNext]_linkVars
             PROVE  LinksInv' /\ (OneLinkPerWrite \/ UNCHANGED linkVars)
  OBVIOUS
<1>1. branch' = branch \/ links' # links => OneLinkPerWrite
  BY DEF OneLinkPerWrite
<1>2. ASSUME NEW d \in Doers, NEW op \in Ops, NEW file \in Scopes, NEW doc \in Docs,
             AskLink(d, op, file, doc)
      PROVE  LinksInv' /\ OneLinkPerWrite
  BY <1>1, <1>2, AskLinkHolds
<1>3. ASSUME NEW d \in Doers,
             \/ CreateDocument(d) \/ CreateTaken(d) \/ LoadLinks(d) \/ LoadProject(d)
             \/ ApplyLink(d) \/ PushLink(d) \/ PushFails(d) \/ DoerDies(d) \/ RefreshLinks(d)
      PROVE  LinksInv' /\ OneLinkPerWrite
  BY <1>1, <1>3, CreateDocumentHolds, CreateTakenHolds, LoadLinksHolds, LoadProjectHolds,
     ApplyLinkHolds, PushLinkHolds, PushFailsHolds, DoerDiesHolds, RefreshLinksHolds
<1>4. ASSUME NEW file \in Scopes, NEW doc \in Docs, PushByHand(file, doc)
      PROVE  LinksInv' /\ OneLinkPerWrite
  BY <1>1, <1>4, PushByHandHolds
<1>5. CASE UNCHANGED linkVars
  BY <1>5 DEF linkVars, LinksInv, LinkStoresTyped, RequestsHold, OneApplied, MadeHolds
<1> QED
  BY <1>2, <1>3, <1>4, <1>5 DEF LinksNext, Ops

LEMMA AtMostOne ==
    ASSUME NEW S, \A x, y \in S : x = y
    PROVE  Cardinality(S) <= 1
<1>1. CASE S = {}
  <2>1. Cardinality(S) = 0
    BY <1>1, FS_EmptySet
  <2> QED
    BY <2>1
<1>2. CASE S # {}
  <2>1. PICK x : S = {x}
    BY <1>2
  <2>2. Cardinality(S) = 1
    BY <2>1, FS_Singleton
  <2> QED
    BY <2>2
<1> QED
  BY <1>1, <1>2

LEMMA LinksInvImplies == LinksInv => LinksTypeOK /\ CreatedAreToldOf
<1> SUFFICES ASSUME LinksInv PROVE LinksTypeOK /\ CreatedAreToldOf
  OBVIOUS
<1>1. {branch, copy} \cup {served[d] : d \in Doers} \subseteq [Scopes -> SUBSET Docs]
  BY DEF LinksInv, LinkStoresTyped, LinksByFile
<1>2. \A d \in Doers : doer[d].stage \in {"none", "creating", "load", "content", "write", "applied"}
  BY RequestStages DEF LinksInv, RequestsHold
<1>3. Cardinality({d \in Doers : doer[d].stage = "applied"}) <= 1
  <2>1. \A d, e \in {c \in Doers : doer[c].stage = "applied"} : d = e
    BY DEF LinksInv, OneApplied
  <2> QED
    BY <2>1, AtMostOne
<1>4. told \cup lost \subseteq made /\ links <= MaxLinks
  BY DEF LinksInv, LinkStoresTyped
<1>5. CreatedAreToldOf
  BY DEF LinksInv, MadeHolds, CreatedAreToldOf
<1> QED
  BY <1>1, <1>2, <1>3, <1>4, <1>5 DEF LinksTypeOK

\* For any processes, documents and pushes from outside, and requests that die
\* anywhere: a push changes the one link its request names in the file it names,
\* and a document that was made is told of, or its request died or went unheard
\* (use_cases/documents.py, write_back).
THEOREM LinksStayAccounted == LinksSpec => LinksAreAccounted
<1>1. LinksInit => LinksInv
  BY LinksInitially
<1>2. LinksInv /\ [LinksNext]_linkVars => LinksInv' /\ (OneLinkPerWrite \/ UNCHANGED linkVars)
  BY LinksStep
<1>3. LinksInv => LinksTypeOK /\ CreatedAreToldOf
  BY LinksInvImplies
<1> QED
  BY <1>1, <1>2, <1>3, PTL DEF LinksSpec, LinksAreAccounted

-----------------------------------------------------------------------------
(* The images of a concept view, and the pins on it. *)

\* A set of naturals has a least element: what an argument by induction on
\* commits, or on places in the list of formats, rests on.
LEMMA LeastOf ==
    ASSUME NEW T, T \subseteq Nat, T # {}
    PROVE  \E x \in T : \A y \in T : x <= y
<1>1. IsWellFoundedOn(OpToRel(<, Nat), Nat)
  BY NatLessThanWellFounded
<1>2. PICK x \in T : \A y \in T : ~(<<y, x>> \in OpToRel(<, Nat))
  BY <1>1, WFMin, Zenon
<1>3. \A y \in T : ~(y < x)
  BY <1>2 DEF OpToRel
<1> QED
  BY <1>3

\* The values of a slot, of an upload that is prepared, and where a pin can be.
Slots == [Paths -> Images \cup {None}]
Prepared ==
    [stage : {"prepared"}, image : Images, path : Paths \cup {None},
     saw : Images \cup {None}, pinned : SUBSET PinIds]

Published(b) == \E c \in DOMAIN log : \E f \in Paths : log[c].held[f] = b
Placed(pin) == pin \in [against : 1..Len(log), record : 0..Len(log)]

\* An upload rests on a slot it saw, and then on the image it committed.
UploadHolds(x) ==
    \/ x = Ready
    \/ /\ x \in Prepared /\ (x.path = None <=> x.saw = None)
       /\ x.saw # x.image /\ x.pinned \subseteq DOMAIN pins
    \/ x \in [stage : {"committed"}, image : Images] /\ Published(x.image)

\* The conjuncts of the invariant.
LogTyped == log \in Seq(Commits) /\ Len(log) \in 1..MaxCommits
UploadsHold ==
    upload = [u \in Uploads |-> upload[u]] /\ \A u \in Uploads : UploadHolds(upload[u])
BlobsHold == \A b \in blobs : b \in Images /\ Published(b)
PinsHold ==
    /\ DOMAIN pins \subseteq PinIds /\ pins = [p \in DOMAIN pins |-> pins[p]]
    /\ \A p \in DOMAIN pins : Placed(pins[p])
OneFile(held) == Cardinality(Files(held)) <= 1
ReportedHold == reported \subseteq DOMAIN pins /\ ReportedAreOrphans

ViewsInv ==
    LogTyped /\ UploadsHold /\ BlobsHold /\ PinsHold /\ ReportedHold /\ ReplacementsReplace

-----------------------------------------------------------------------------
\* The slot has finitely many paths, so finitely many files.
LEMMA PathsAreFinite ==
    IsFiniteSet(Paths) /\ \A held : IsFiniteSet(Files(held)) /\ Cardinality(Files(held)) \in Nat
<1>1. Formats \in Seq(Paths) /\ Paths = {Formats[k] : k \in DOMAIN Formats}
  BY ViewsAssumption DEF Paths, Range
<1>2. Formats \in [1..Len(Formats) -> Paths] /\ Len(Formats) \in Nat
  BY <1>1
<1>3. Formats \in Surjection(1..Len(Formats), Paths)
  BY <1>1, <1>2 DEF Surjection
<1>4. IsFiniteSet(1..Len(Formats))
  BY <1>2, FS_Interval
<1>5. IsFiniteSet(Paths)
  BY <1>3, <1>4, FS_Surjection
<1>6. \A held : Files(held) \in SUBSET Paths
  BY DEF Files
<1>7. \A T \in SUBSET Paths : IsFiniteSet(T)
  BY <1>5, FS_Subset
<1>8. \A held : IsFiniteSet(Files(held))
  BY <1>6, <1>7
<1> QED
  BY <1>5, <1>8, FS_CardinalityType

\* The file a slot is answered with is one it holds, when it holds any.
LEMMA ExistingIs ==
    ASSUME NEW held \in Slots
    PROVE  /\ Existing(held) = None => Files(held) = {} /\ ImageHeld(held) = None
           /\ Existing(held) # None =>
                /\ Existing(held) \in Paths /\ ImageHeld(held) = held[Existing(held)]
                /\ ImageHeld(held) \in Images
           /\ ImageHeld(held) = None => Existing(held) = None
<1>1. CASE Files(held) = {}
  BY <1>1 DEF Existing, ImageHeld
<1>2. CASE Files(held) # {}
  <2> DEFINE K == {k \in DOMAIN Formats : Formats[k] \in Files(held)}
             first(k) == Formats[k] \in Files(held) /\ \A j \in 1..(k - 1) : Formats[j] \notin Files(held)
  <2>1. DOMAIN Formats = 1..Len(Formats) /\ Len(Formats) \in Nat
    BY ViewsAssumption
  <2>2. K \subseteq Nat /\ K # {}
    <3>1. PICK f \in Paths : f \in Files(held)
      BY <1>2 DEF Files
    <3>2. PICK k \in DOMAIN Formats : Formats[k] = f
      BY DEF Paths, Range
    <3> QED
      BY <2>1, <3>1, <3>2
  <2>3. PICK k \in K : \A j \in K : k <= j
    <3> HIDE DEF K
    <3> QED
      BY <2>2, LeastOf
  <2>4. first(k) /\ k \in DOMAIN Formats
    BY <2>1, <2>3
  <2>5. first(CHOOSE i \in DOMAIN Formats : first(i)) /\ Existing(held) = Formats[CHOOSE i \in DOMAIN Formats : first(i)]
    <3>1. Existing(held) = Formats[CHOOSE i \in DOMAIN Formats : first(i)]
      BY <1>2, Zenon DEF Existing
    <3> HIDE DEF first
    <3> QED
      BY <2>4, <3>1
  <2>6. Existing(held) \in Files(held)
    BY <2>5
  <2>7. Existing(held) \in Paths /\ held[Existing(held)] # None
    BY <2>6 DEF Files
  <2>8. Existing(held) # None
    BY <2>7, ViewsAssumption DEF Paths
  <2> QED
    BY <2>7, <2>8 DEF ImageHeld, Slots
<1> QED
  BY <1>1, <1>2

\* The branch only grows, and what it grows by comes last in its history.
Grows(rec) == rec \in Commits /\ log' = Append(log, rec)

\* The branch is never empty, and every commit of it is a slot.
LEMMA LogFacts ==
    ASSUME LogTyped
    PROVE  /\ Len(log) \in Nat \ {0} /\ DOMAIN log = 1..Len(log)
           /\ \A c \in DOMAIN log : log[c] \in Commits /\ log[c].held \in Slots
           /\ Held \in Slots /\ Held = log[Len(log)].held
<1>1. log \in Seq(Commits) /\ Len(log) \in 1..MaxCommits /\ MaxCommits \in Nat
  BY ViewsAssumption DEF LogTyped
<1>2. Len(log) \in Nat \ {0} /\ DOMAIN log = 1..Len(log) /\ \A c \in DOMAIN log : log[c] \in Commits
  BY <1>1
<1>3. \A c \in Commits : c.held \in Slots
  BY DEF Commits, Slots
<1> QED
  BY <1>2, <1>3 DEF Held

\* A commit is appended: what was before it stays as it was.
LEMMA GrowsFacts ==
    ASSUME LogTyped, NEW rec, Grows(rec)
    PROVE  /\ log' \in Seq(Commits) /\ Len(log') = Len(log) + 1 /\ DOMAIN log' = 1..(Len(log) + 1)
           /\ \A c \in 1..Len(log) : log'[c] = log[c]
           /\ log'[Len(log) + 1] = rec
           /\ \A c \in 1..Len(log) : Before(c)' = Before(c)
           /\ \A c : c = Len(log) + 1 => Before(c)' = Held
<1>1. log \in Seq(Commits) /\ Len(log) \in Nat \ {0}
  BY LogFacts DEF LogTyped
<1>2. /\ log' \in Seq(Commits) /\ Len(log') = Len(log) + 1 /\ DOMAIN log' = 1..(Len(log) + 1)
      /\ \A c \in 1..Len(log) : log'[c] = log[c]
      /\ log'[Len(log) + 1] = rec
  BY <1>1 DEF Grows
<1>3. ASSUME NEW c \in 1..Len(log) PROVE Before(c)' = Before(c)
  BY <1>1, <1>2 DEF Before, Nothing
<1>4. ASSUME NEW c, c = Len(log) + 1 PROVE Before(c)' = Held
  BY <1>1, <1>2, <1>4 DEF Before, Held
<1> QED
  BY <1>2, <1>3, <1>4

\* The history before a commit is what it was, and the commit comes after.
LEMMA TouchesGrow ==
    ASSUME LogTyped, NEW rec, Grows(rec)
    PROVE  /\ \A e \in Touches : /\ e \in Touches' /\ e[1] \in 1..Len(log)
                                 /\ ImageAt(e)' = ImageAt(e)
           /\ \A e \in Touches' : e[1] <= Len(log) => e \in Touches
           /\ \A e \in Touches' : e[1] \in 1..(Len(log) + 1) /\ e[2] \in DOMAIN Formats
                                     /\ e = <<e[1], e[2]>>
<1>1. Len(log) \in Nat \ {0} /\ DOMAIN log = 1..Len(log)
  BY LogFacts
<1>2. ASSUME NEW e \in Touches
      PROVE  e \in Touches' /\ e[1] \in 1..Len(log) /\ ImageAt(e)' = ImageAt(e)
  <2>1. e \in (DOMAIN log) \X (DOMAIN Formats) /\ e[1] \in 1..Len(log)
        /\ log[e[1]].held[Formats[e[2]]] # Before(e[1])[Formats[e[2]]]
    BY <1>1 DEF Touches
  <2>2. e \in (DOMAIN log') \X (DOMAIN Formats)
    BY <1>1, <2>1, GrowsFacts
  <2>3. log'[e[1]] = log[e[1]] /\ Before(e[1])' = Before(e[1])
    BY <2>1, GrowsFacts
  <2> QED
    BY <2>1, <2>2, <2>3 DEF Touches, ImageAt
<1>3. ASSUME NEW e \in Touches'
      PROVE  /\ e[1] \in 1..(Len(log) + 1) /\ e[2] \in DOMAIN Formats /\ e = <<e[1], e[2]>>
             /\ e[1] <= Len(log) => e \in Touches
  <2>1. e \in (DOMAIN log') \X (DOMAIN Formats) /\ e[1] \in 1..(Len(log) + 1)
        /\ log'[e[1]].held[Formats[e[2]]] # (Before(e[1])')[Formats[e[2]]]
    BY GrowsFacts DEF Touches
  <2>2. ASSUME e[1] <= Len(log) PROVE e \in Touches
    <3>1. e[1] \in 1..Len(log)
      BY <1>1, <2>1, <2>2
    <3>2. log'[e[1]] = log[e[1]] /\ Before(e[1])' = Before(e[1])
      BY <3>1, GrowsFacts
    <3> QED
      BY <1>1, <2>1, <3>1, <3>2 DEF Touches
  <2> QED
    BY <2>1, <2>2
<1> QED
  BY <1>2, <1>3

\* A walk that stops goes on stopping, whatever is committed after.
LEMMA WalkStops ==
    ASSUME LogTyped, NEW rec, Grows(rec), NEW start \in 1..Len(log), ~Walk(start)
    PROVE  ~Walk(start)'
<1> SUFFICES ASSUME Walk(start)' PROVE FALSE
  OBVIOUS
<1>1. Len(log) \in Nat \ {0}
  BY LogFacts
<1>2. \E first \in Touches : first[1] = start
  <2>1. PICK first \in Touches' : first[1] = start
    BY DEF Walk
  <2> QED
    BY <1>1, <2>1, TouchesGrow
<1>3. PICK d \in Touches, e \in Touches :
          /\ Adjacent(d, e) /\ ~SameShape(ImageAt(d), ImageAt(e))
          /\ \E first \in Touches : first[1] = start /\ (first = d \/ Earlier(first, d))
  BY <1>2, Zenon DEF Walk
<1>4. d \in Touches' /\ e \in Touches' /\ ImageAt(d)' = ImageAt(d) /\ ImageAt(e)' = ImageAt(e)
      /\ e[1] \in 1..Len(log)
  BY TouchesGrow
<1>5. \A x \in Touches' : Earlier(x, e) => x \in Touches
  <2> SUFFICES ASSUME NEW x \in Touches', Earlier(x, e) PROVE x \in Touches
    OBVIOUS
  <2>1. x[1] \in 1..(Len(log) + 1)
    BY TouchesGrow
  <2>2. x[1] <= Len(log)
    BY <1>1, <1>4, <2>1 DEF Earlier
  <2> QED
    BY <2>2, TouchesGrow
<1>6. Adjacent(d, e)'
  BY <1>3, <1>5, Zenon DEF Adjacent
<1>7. \E first \in Touches' : first[1] = start /\ (first = d \/ Earlier(first, d))
  BY <1>3, TouchesGrow
<1> QED
  BY <1>3, <1>4, <1>6, <1>7, Zenon DEF Walk

\* A walk rests on nothing but the branch.
LEMMA WalkOfSameLog ==
    ASSUME UNCHANGED log, NEW start
    PROVE  Walk(start)' <=> Walk(start)
<1>1. Touches' = Touches /\ \A e : ImageAt(e)' = ImageAt(e)
  BY DEF Touches, ImageAt, Before
<1>2. \A d, e : Adjacent(d, e)' <=> Adjacent(d, e)
  BY <1>1, Zenon DEF Adjacent
<1> QED
  BY <1>1, <1>2, Zenon DEF Walk

\* The newest entry comes after every other, and nothing was touched since.
LEMMA NewestIs ==
    ASSUME LogTyped, Touches # {}
    PROVE  \E d \in Touches :
              /\ \A x \in Touches : x = d \/ Earlier(x, d)
              /\ \A x \in Touches : ~Earlier(d, x)
              /\ d[1] \in 1..Len(log) /\ d[2] \in DOMAIN Formats
              /\ log[d[1]].held = Held
<1> DEFINE L == Len(log)
           N == Len(Formats)
<1>1. L \in Nat \ {0} /\ DOMAIN log = 1..L
  BY LogFacts
<1>2. DOMAIN Formats = 1..N /\ N \in Nat
  BY ViewsAssumption
<1>3. ASSUME NEW e \in Touches PROVE e[1] \in 1..L /\ e[2] \in 1..N /\ e = <<e[1], e[2]>>
  BY <1>1, <1>2 DEF Touches
<1> DEFINE A == {L - e[1] : e \in Touches}
<1>4. A \subseteq Nat /\ A # {}
  BY <1>1, <1>3
<1>5. PICK a \in A : \A b \in A : a <= b
  <2> HIDE DEF A
  <2> QED
    BY <1>4, LeastOf
<1>6. PICK e0 \in Touches : a = L - e0[1]
  OBVIOUS
<1>7. ASSUME NEW e \in Touches PROVE e[1] <= e0[1]
  <2>1. L - e[1] \in A
    OBVIOUS
  <2>2. a <= L - e[1]
    BY <1>5, <2>1
  <2>3. e[1] \in 1..L /\ e0[1] \in 1..L
    BY <1>3
  <2> HIDE DEF A
  <2> QED
    BY <1>1, <1>6, <2>2, <2>3
<1> DEFINE B == {e[2] : e \in {x \in Touches : x[1] = e0[1]}}
<1>8. B \subseteq Nat /\ B # {}
  BY <1>2, <1>3
<1>9. PICK b \in B : \A i \in B : b <= i
  <2> HIDE DEF B
  <2> QED
    BY <1>8, LeastOf
<1>10. PICK d \in Touches : d[1] = e0[1] /\ d[2] = b
  OBVIOUS
<1>11. ASSUME NEW x \in Touches PROVE (x = d \/ Earlier(x, d)) /\ ~Earlier(d, x)
  <2>1. x[1] <= d[1] /\ (x[1] = d[1] => d[2] <= x[2])
    BY <1>7, <1>9, <1>10
  <2>2. x[1] \in Nat /\ x[2] \in Nat /\ d[1] \in Nat /\ d[2] \in Nat
    BY <1>1, <1>2, <1>3
  <2>3. x[1] = d[1] /\ x[2] = d[2] => x = d
    BY <1>3
  <2> QED
    BY <2>1, <2>2, <2>3 DEF Earlier
<1> HIDE DEF A, B
<1>12. log[d[1]].held = Held
  <2> SUFFICES ASSUME log[d[1]].held # Held PROVE FALSE
    OBVIOUS
  <2> DEFINE C == {c \in d[1]..L : log[c].held # log[d[1]].held}
  <2>1. d[1] \in 1..L
    BY <1>3
  <2>2. C \subseteq Nat /\ L \in C
    BY <1>1, <2>1, LogFacts
  <2>3. PICK c \in C : \A i \in C : c <= i
    <3> HIDE DEF C
    <3> QED
      BY <2>2, LeastOf
  <2>4. c # d[1] /\ c \in 2..L /\ c - 1 \in d[1]..L /\ c - 1 \in 1..L
    BY <1>1, <2>1, <2>3
  <2>5. c - 1 \notin C
    BY <2>3, <2>4
  <2>6. log[c - 1].held = log[d[1]].held
    BY <2>4, <2>5
  <2>7. Before(c) = log[d[1]].held /\ log[c].held # Before(c)
    BY <2>3, <2>4, <2>6 DEF Before
  <2>8. log[c].held \in Slots /\ Before(c) \in Slots
    BY <1>1, <2>1, <2>4, <2>7, LogFacts
  <2>9. PICK f \in Paths : log[c].held[f] # Before(c)[f]
    BY <2>7, <2>8 DEF Slots
  <2>10. PICK k \in DOMAIN Formats : Formats[k] = f
    BY DEF Paths, Range
  <2>11. <<c, k>> \in Touches
    BY <1>1, <2>4, <2>9, <2>10 DEF Touches
  <2>12. c <= d[1]
    BY <1>7, <1>10, <2>11
  <2> QED
    BY <1>1, <2>1, <2>3, <2>4, <2>12
<1> QED
  BY <1>2, <1>3, <1>11, <1>12

\* A slot of one file holds no other.
LEMMA TwoFiles ==
    ASSUME NEW held, OneFile(held), NEW f \in Files(held), NEW g \in Files(held)
    PROVE  f = g
<1> SUFFICES ASSUME f # g PROVE FALSE
  OBVIOUS
<1>1. IsFiniteSet(Files(held)) /\ Cardinality(Files(held)) \in Nat
  BY PathsAreFinite
<1>2. IsFiniteSet({f}) /\ Cardinality({f}) = 1
  BY FS_Singleton
<1>3. Cardinality({f} \cup {g}) = 2
  BY <1>2, FS_AddElement
<1>4. {f} \cup {g} \in SUBSET Files(held)
  OBVIOUS
<1>5. Cardinality({f} \cup {g}) <= Cardinality(Files(held))
  BY <1>1, <1>4, FS_Subset
<1> QED
  BY <1>1, <1>3, <1>5 DEF OneFile

\* An image of another shape in the place of the one there was orphans every
\* pin, whatever revision it is against.
LEMMA ShapeBreaks ==
    ASSUME LogTyped, NEW rec, Grows(rec), OneFile(Held), NEW start \in 1..Len(log),
           NEW path \in Paths, NEW image, ~SameShape(Held[path], image), Held[path] # None,
           rec.held[path] # Held[path],
           \A f \in Paths : rec.held[f] # Held[f] => rec.held[f] \in {None, image}
    PROVE  ~Walk(start)'
<1> SUFFICES ASSUME Walk(start)' PROVE FALSE
  OBVIOUS
<1> DEFINE L == Len(log)
           N == Len(Formats)
<1>1. L \in Nat \ {0} /\ DOMAIN Formats = 1..N /\ N \in Nat
  BY LogFacts, ViewsAssumption
<1>2. PICK first \in Touches : first[1] = start
  <2>1. PICK x \in Touches' : x[1] = start
    BY DEF Walk
  <2> QED
    BY <1>1, <2>1, TouchesGrow
<1>3. PICK d \in Touches :
        /\ \A x \in Touches : x = d \/ Earlier(x, d)
        /\ \A x \in Touches : ~Earlier(d, x)
        /\ d[1] \in 1..L /\ d[2] \in DOMAIN Formats
        /\ log[d[1]].held = Held
  BY <1>2, NewestIs
<1>4. ImageAt(d) \in {None, Held[path]}
  <2>1. Formats[d[2]] \in Paths /\ ImageAt(d) = Held[Formats[d[2]]]
    BY <1>3 DEF ImageAt, Paths, Range
  <2>2. CASE ImageAt(d) # None
    <3>1. Formats[d[2]] \in Files(Held) /\ path \in Files(Held)
      BY <2>1, <2>2 DEF Files
    <3>2. Formats[d[2]] = path
      BY <3>1, TwoFiles
    <3> QED
      BY <2>1, <3>2
  <2> QED
    BY <2>2
<1> DEFINE changed(k) == rec.held[Formats[k]] # Held[Formats[k]]
           K == {N - k : k \in {i \in 1..N : changed(i)}}
<1>5. K \subseteq Nat /\ K # {}
  <2>1. PICK k \in 1..N : Formats[k] = path
    BY <1>1 DEF Paths, Range
  <2> QED
    BY <1>1, <2>1
<1>6. PICK a \in K : \A b \in K : a <= b
  <2> HIDE DEF K
  <2> QED
    BY <1>5, LeastOf
<1>7. PICK k \in 1..N : changed(k) /\ a = N - k
  OBVIOUS
<1>8. ASSUME NEW i \in 1..N, changed(i) PROVE i <= k
  <2>1. N - i \in K
    BY <1>8
  <2>2. a <= N - i
    BY <1>6, <2>1
  <2> HIDE DEF K, changed
  <2> QED
    BY <1>1, <1>7, <2>2
<1>9. PICK e : e = <<L + 1, k>>
  OBVIOUS
<1>10. e \in Touches' /\ ImageAt(e)' \in {None, image}
  <2>1. L + 1 \in DOMAIN log' /\ log'[L + 1] = rec
    BY <1>1, GrowsFacts
  <2>2. PICK c : c = L + 1
    OBVIOUS
  <2>3. Before(c)' = Held
    BY <2>2, GrowsFacts
  <2>4. e = <<c, k>> /\ e \in (DOMAIN log') \X (DOMAIN Formats) /\ e[1] = c /\ e[2] = k
    BY <1>1, <1>9, <2>1, <2>2
  <2>5. log'[c].held[Formats[k]] # (Before(c)')[Formats[k]]
    BY <1>7, <2>1, <2>2, <2>3
  <2>6. Formats[k] \in Paths
    BY <1>1 DEF Paths, Range
  <2>7. rec.held[Formats[k]] \in {None, image}
    BY <1>7, <2>6
  <2> QED
    BY <2>1, <2>2, <2>4, <2>5, <2>7 DEF Touches, ImageAt
<1>11. Earlier(d, e)
  BY <1>1, <1>3, <1>9 DEF Earlier
<1>12. ASSUME NEW x \in Touches', Earlier(d, x), Earlier(x, e) PROVE FALSE
  <2>1. x[1] \in 1..(L + 1) /\ x[2] \in DOMAIN Formats /\ x = <<x[1], x[2]>>
    BY TouchesGrow
  <2>2. CASE x[1] <= L
    BY <1>3, <1>12, <2>2, TouchesGrow
  <2>3. CASE x[1] = L + 1
    <3>1. x[2] > k /\ x[2] \in 1..N
      BY <1>1, <1>9, <1>12, <2>1, <2>3 DEF Earlier
    <3>2. PICK c : c = L + 1
      OBVIOUS
    <3>3. Before(c)' = Held /\ log'[c] = rec
      BY <3>2, GrowsFacts
    <3>4. log'[c].held[Formats[x[2]]] # (Before(c)')[Formats[x[2]]]
      BY <2>3, <3>2 DEF Touches
    <3>5. changed(x[2])
      BY <3>3, <3>4
    <3> QED
      BY <1>1, <1>8, <3>1, <3>5
  <2> QED
    BY <1>1, <2>1, <2>2, <2>3
<1>13. Adjacent(d, e)'
  BY <1>11, <1>12, Zenon DEF Adjacent
<1>14. d \in Touches' /\ first \in Touches' /\ ImageAt(d)' = ImageAt(d)
  BY TouchesGrow
<1>15. SameShape(ImageAt(d)', ImageAt(e)')
  BY <1>2, <1>3, <1>10, <1>13, <1>14, Zenon DEF Walk
<1> QED
  BY <1>4, <1>10, <1>14, <1>15 DEF SameShape

-----------------------------------------------------------------------------
\* Where the walk of a pin starts.
Start(pin) == IF pin.record # 0 THEN pin.record ELSE pin.against

\* A pin that is placed is walked from a commit of the branch.
LEMMA StartIs ==
    ASSUME LogTyped, NEW pin, Placed(pin)
    PROVE  Start(pin) \in 1..Len(log) /\ (Orphaned(pin) <=> ~Walk(Start(pin)))
<1>1. Len(log) \in Nat \ {0}
  BY LogFacts
<1>2. Start(pin) \in 1..Len(log)
  BY <1>1 DEF Placed, Start
<1>3. Orphaned(pin) <=> ~Walk(Start(pin))
  BY Zenon DEF Orphaned, Start
<1> QED
  BY <1>2, <1>3

\* A commit keeps everything that rests on the branch.
LEMMA GrowsKeeps ==
    ASSUME LogTyped, NEW rec, Grows(rec)
    PROVE  /\ \A b : Published(b) => Published(b)'
           /\ \A f \in Paths : Published(rec.held[f])'
           /\ \A pin : Placed(pin) => Placed(pin)'
           /\ \A pin : Placed(pin) /\ Orphaned(pin) => Orphaned(pin)'
           /\ (\A c \in DOMAIN log' : OneFile(log'[c].held)) =>
                (\A c \in DOMAIN log : OneFile(log[c].held)) /\ OneFile(Held)
<1>1. Len(log) \in Nat \ {0} /\ DOMAIN log = 1..Len(log)
  BY LogFacts
<1>2. /\ Len(log') = Len(log) + 1 /\ DOMAIN log' = 1..(Len(log) + 1)
      /\ \A c \in 1..Len(log) : log'[c] = log[c]
      /\ log'[Len(log) + 1] = rec
  BY GrowsFacts
<1>3. ASSUME NEW b, Published(b) PROVE Published(b)'
  BY <1>1, <1>2, <1>3 DEF Published
<1>4. ASSUME NEW f \in Paths PROVE Published(rec.held[f])'
  BY <1>1, <1>2 DEF Published
<1>5. ASSUME NEW pin, Placed(pin) PROVE Placed(pin)'
  BY <1>1, <1>2, <1>5 DEF Placed
<1>6. ASSUME NEW pin, Placed(pin), Orphaned(pin) PROVE Orphaned(pin)'
  <2>1. PICK start : start = Start(pin)
    OBVIOUS
  <2>2. start \in 1..Len(log) /\ ~Walk(start)
    BY <1>6, <2>1, StartIs
  <2>3. ~Walk(start)'
    BY <2>2, WalkStops
  <2> QED
    BY <2>1, <2>3, Zenon DEF Orphaned, Start
<1>7. ASSUME \A c \in DOMAIN log' : OneFile(log'[c].held)
      PROVE  (\A c \in DOMAIN log : OneFile(log[c].held)) /\ OneFile(Held)
  <2>1. ASSUME NEW c \in DOMAIN log PROVE OneFile(log[c].held)
    <3>1. c \in DOMAIN log' /\ log'[c] = log[c]
      BY <1>1, <1>2
    <3> QED
      BY <1>7, <3>1
  <2> QED
    BY <1>1, <2>1, LogFacts
<1> QED
  BY <1>3, <1>4, <1>5, <1>6, <1>7

-----------------------------------------------------------------------------
\* ReplacementsReplace, of one commit.
Replaces(before, rec) ==
    rec.saw # None =>
        /\ \E f \in Paths : before[f] = rec.saw /\ rec.held[f] # before[f]
        /\ Cardinality(Files(rec.held)) <= Cardinality(Files(before))

\* A step that commits nothing leaves everything that rests on the branch.
LEMMA StillKeeps ==
    ASSUME ViewsInv, UNCHANGED log
    PROVE  /\ LogTyped' /\ ReplacementsReplace'
           /\ \A b : Published(b) => Published(b)'
           /\ \A pin : Placed(pin) => Placed(pin)'
           /\ \A pin : Orphaned(pin) => Orphaned(pin)'
           /\ (\A c \in DOMAIN log' : OneFile(log'[c].held)) <=>
                (\A c \in DOMAIN log : OneFile(log[c].held))
<1>1. LogTyped' /\ ReplacementsReplace'
  BY DEF ViewsInv, LogTyped, ReplacementsReplace
<1>2. \A b : Published(b) => Published(b)'
  BY DEF Published
<1>3. \A pin : Placed(pin) => Placed(pin)'
  BY DEF Placed
<1>4. ASSUME NEW pin, Orphaned(pin) PROVE Orphaned(pin)'
  <2>1. PICK start : start = Start(pin)
    OBVIOUS
  <2>2. Walk(start)' <=> Walk(start)
    BY WalkOfSameLog
  <2> QED
    BY <1>4, <2>1, <2>2, Zenon DEF Orphaned, Start
<1> QED
  BY <1>1, <1>2, <1>3, <1>4

\* A commit is typed, and replaces what it says.
LEMMA GrowsTyped ==
    ASSUME ViewsInv, NEW rec, Grows(rec), Room, Replaces(Held, rec)
    PROVE  LogTyped' /\ ReplacementsReplace'
<1>1. LogTyped /\ Len(log) \in Nat \ {0} /\ DOMAIN log = 1..Len(log) /\ MaxCommits \in Nat
      /\ Held = log[Len(log)].held
  BY LogFacts, ViewsAssumption DEF ViewsInv
<1>2. /\ log' \in Seq(Commits) /\ Len(log') = Len(log) + 1
      /\ \A c \in 1..Len(log) : log'[c] = log[c]
      /\ log'[Len(log) + 1] = rec
  BY <1>1, GrowsFacts
<1>3. LogTyped'
  BY <1>1, <1>2 DEF LogTyped, Room
<1>4. \A c \in 2..Len(log) : Replaces(log[c - 1].held, log[c])
  BY Zenon DEF ViewsInv, ReplacementsReplace, Replaces
<1>5. ASSUME NEW c \in 2..Len(log') PROVE Replaces(log'[c - 1].held, log'[c])
  <2>1. CASE c <= Len(log)
    <3>1. c \in 2..Len(log) /\ c - 1 \in 1..Len(log) /\ c \in 1..Len(log)
      BY <1>1, <1>2, <2>1
    <3>2. log'[c] = log[c] /\ log'[c - 1] = log[c - 1]
      BY <1>2, <3>1
    <3> QED
      BY <1>4, <3>1, <3>2
  <2>2. CASE c = Len(log) + 1
    <3>1. log'[c] = rec /\ log'[c - 1] = log[Len(log)]
      BY <1>1, <1>2, <2>2
    <3> QED
      BY <1>1, <3>1
  <2> QED
    BY <1>1, <1>2, <2>1, <2>2
<1>6. ReplacementsReplace'
  BY <1>5, Zenon DEF ReplacementsReplace, Replaces
<1> QED
  BY <1>3, <1>6

\* What the uploads, the mirror and the pins rest on stays there.
LEMMA UploadsKept ==
    ASSUME UploadsHold, \A b : Published(b) => Published(b)', DOMAIN pins \subseteq DOMAIN pins'
    PROVE  /\ \A x : UploadHolds(x) => UploadHolds(x)'
           /\ UNCHANGED upload => UploadsHold'
           /\ \A u \in Uploads : \A x :
                 upload' = [upload EXCEPT ![u] = x] /\ UploadHolds(x)' => UploadsHold'
<1>1. ASSUME NEW x, UploadHolds(x) PROVE UploadHolds(x)'
  <2>1. CASE x = Ready
    BY <2>1 DEF UploadHolds
  <2>2. CASE /\ x \in Prepared /\ (x.path = None <=> x.saw = None)
             /\ x.saw # x.image /\ x.pinned \subseteq DOMAIN pins
    BY <2>2 DEF UploadHolds
  <2>3. CASE x \in [stage : {"committed"}, image : Images] /\ Published(x.image)
    BY <2>3 DEF UploadHolds
  <2> QED
    BY <1>1, <2>1, <2>2, <2>3 DEF UploadHolds
<1>2. ASSUME UNCHANGED upload PROVE UploadsHold'
  BY <1>1, <1>2 DEF UploadsHold
<1>3. ASSUME NEW u \in Uploads, NEW x, upload' = [upload EXCEPT ![u] = x], UploadHolds(x)'
      PROVE  UploadsHold'
  <2>1. upload = [v \in Uploads |-> upload[v]] /\ \A v \in Uploads : UploadHolds(upload[v])
    BY DEF UploadsHold
  <2>2. upload' = [v \in Uploads |-> upload'[v]]
        /\ \A v \in Uploads : upload'[v] = IF v = u THEN x ELSE upload[v]
    BY <1>3, <2>1
  <2>3. ASSUME NEW v \in Uploads PROVE UploadHolds(upload[v])'
    <3>1. PICK y : y = upload'[v]
      OBVIOUS
    <3>2. UploadHolds(y)'
      BY <1>1, <1>3, <2>1, <2>2, <3>1
    <3> QED
      BY <3>1, <3>2
  <2> QED
    BY <2>2, <2>3 DEF UploadsHold
<1> QED
  BY <1>1, <1>2, <1>3

\* The mirror and the pins, when a step leaves them alone.
LEMMA PinsAndBlobsKept ==
    ASSUME \A b : Published(b) => Published(b)', \A pin : Placed(pin) => Placed(pin)'
    PROVE  /\ BlobsHold /\ UNCHANGED blobs => BlobsHold'
           /\ PinsHold /\ UNCHANGED pins => PinsHold'
<1>1. ASSUME BlobsHold, UNCHANGED blobs PROVE BlobsHold'
  BY <1>1 DEF BlobsHold
<1>2. ASSUME PinsHold, UNCHANGED pins PROVE PinsHold'
  BY <1>2 DEF PinsHold
<1> QED
  BY <1>1, <1>2

\* The pins reported stay orphans, while those that leave the report may not.
LEMMA ReportedKept ==
    ASSUME PinsHold, ReportedHold, DOMAIN pins \subseteq DOMAIN pins',
           \A pin : Placed(pin) /\ Orphaned(pin) => Orphaned(pin)',
           (\A c \in DOMAIN log' : OneFile(log'[c].held)) =>
               (\A c \in DOMAIN log : OneFile(log[c].held)),
           reported' \subseteq reported, \A p \in reported' : pins'[p] = pins[p]
    PROVE  ReportedHold'
<1>1. reported' \subseteq DOMAIN pins'
  BY DEF ReportedHold
<1>2. ASSUME \A c \in DOMAIN log' : OneFile(log'[c].held), NEW p \in reported'
      PROVE  Orphaned(pins[p])'
  <2>1. \A c \in DOMAIN log : OneFile(log[c].held)
    BY <1>2
  <2>2. p \in reported /\ p \in DOMAIN pins
    BY DEF ReportedHold
  <2>3. Orphaned(pins[p])
    BY <2>1, <2>2 DEF ReportedHold, ReportedAreOrphans, OneFile
  <2>4. PICK pin : pin = pins[p]
    OBVIOUS
  <2>5. Placed(pin) /\ Orphaned(pin) /\ pin = pins'[p]
    BY <2>2, <2>3, <2>4 DEF PinsHold
  <2> QED
    BY <2>5
<1>3. ReportedAreOrphans'
  BY <1>2 DEF ReportedAreOrphans, OneFile
<1> QED
  BY <1>1, <1>3 DEF ReportedHold

\* What one step does to the branch.
Extends == UNCHANGED log \/ \E rec : Grows(rec)

\* The revision shown as current is a commit of the branch, or none is.
LEMMA CurrentRevisionIs ==
    ASSUME LogTyped
    PROVE  CurrentRevision \in 0..Len(log)
<1>1. Len(log) \in Nat /\ DOMAIN log = 1..Len(log)
  BY LogFacts
<1>2. CASE \E e \in Touches : Newest(e) /\ ImageAt(e) # None
  <2>1. PICK e : e = CHOOSE x \in Touches : Newest(x)
    OBVIOUS
  <2>2. e \in Touches
    BY <1>2, <2>1, Zenon
  <2>3. CurrentRevision = e[1]
    BY <1>2, <2>1, Zenon DEF CurrentRevision
  <2> QED
    BY <1>1, <2>2, <2>3 DEF Touches
<1>3. CASE ~\E e \in Touches : Newest(e) /\ ImageAt(e) # None
  <2>1. CurrentRevision = 0
    BY <1>3, Zenon DEF CurrentRevision
  <2> QED
    BY <1>1, <2>1
<1> QED
  BY <1>2, <1>3

\* A step that commits nothing and moves no pin: what is left to show is of the
\* uploads, the mirror and the report.
LEMMA StillInv ==
    ASSUME ViewsInv, UNCHANGED <<log, pins>>, UploadsHold', BlobsHold',
           reported' = reported
    PROVE  ViewsInv' /\ Extends
<1>1. PinsHold'
  BY StillKeeps, PinsAndBlobsKept DEF ViewsInv
<1>2. ReportedHold'
  BY StillKeeps, ReportedKept DEF ViewsInv
<1> QED
  BY <1>1, <1>2, StillKeeps DEF ViewsInv, Extends

\* The slot as an upload sees it.
LEMMA HeldFacts ==
    ASSUME ViewsInv
    PROVE  /\ Held \in Slots
           /\ Existing(Held) = None <=> ImageHeld(Held) = None
           /\ Existing(Held) \in Paths \cup {None} /\ ImageHeld(Held) \in Images \cup {None}
           /\ Existing(Held) # None => ImageHeld(Held) = Held[Existing(Held)]
<1>1. Held \in Slots
  BY LogFacts DEF ViewsInv
<1> QED
  BY <1>1, ExistingIs

\* An upload keeps what it saw: the path and the image there.
LEMMA PrepareInv ==
    ASSUME ViewsInv, NEW u \in Uploads, NEW image \in Images, Prepare(u, image)
    PROVE  ViewsInv' /\ Extends
<1>1. PICK x : x = [stage |-> "prepared", image |-> image, path |-> Existing(Held),
                    saw |-> ImageHeld(Held), pinned |-> DOMAIN pins]
  OBVIOUS
<1>2. upload' = [upload EXCEPT ![u] = x] /\ UNCHANGED <<log, blobs, pins, reported>>
      /\ image # ImageHeld(Held)
  BY <1>1 DEF Prepare
<1>3. UploadHolds(x)'
  <2>1. x \in Prepared
    BY <1>1, HeldFacts DEF Prepared, ViewsInv, PinsHold
  <2>2. (x.path = None <=> x.saw = None) /\ x.saw # x.image /\ x.pinned = DOMAIN pins
    BY <1>1, <1>2, HeldFacts
  <2> QED
    BY <1>2, <2>1, <2>2 DEF UploadHolds
<1>4. UploadsHold' /\ BlobsHold'
  BY <1>2, <1>3, StillKeeps, UploadsKept, PinsAndBlobsKept DEF ViewsInv
<1> QED
  BY <1>2, <1>4, StillInv

\* A refused upload leaves nothing.
LEMMA RefuseUploadInv ==
    ASSUME ViewsInv, NEW u \in Uploads, RefuseUpload(u)
    PROVE  ViewsInv' /\ Extends
<1>1. upload' = [upload EXCEPT ![u] = Ready] /\ UNCHANGED <<log, blobs, pins, reported>>
  BY DEF RefuseUpload
<1>2. UploadHolds(Ready)'
  BY DEF UploadHolds
<1>3. PICK x : x = Ready
  OBVIOUS
<1>4. UploadsHold' /\ BlobsHold'
  BY <1>1, <1>2, <1>3, StillKeeps, UploadsKept, PinsAndBlobsKept DEF ViewsInv
<1> QED
  BY <1>1, <1>4, StillInv

\* What is mirrored after its commit is published by it.
LEMMA MirrorInv ==
    ASSUME ViewsInv, NEW u \in Uploads, Mirror(u)
    PROVE  ViewsInv' /\ Extends
<1>1. upload' = [upload EXCEPT ![u] = Ready] /\ UNCHANGED <<log, pins, reported>>
      /\ blobs' \subseteq blobs \cup {upload[u].image} /\ upload[u].stage = "committed"
  BY DEF Mirror
<1>2. upload[u].image \in Images /\ Published(upload[u].image)
  <2>1. UploadHolds(upload[u])
    BY DEF ViewsInv, UploadsHold
  <2> QED
    BY <1>1, <2>1 DEF UploadHolds, Ready, Prepared
<1>3. UploadHolds(Ready)'
  BY DEF UploadHolds
<1>4. PICK x : x = Ready
  OBVIOUS
<1>5. UploadsHold'
  BY <1>1, <1>3, <1>4, StillKeeps, UploadsKept DEF ViewsInv
<1>6. BlobsHold'
  <2>1. \A b \in blobs \cup {upload[u].image} : b \in Images /\ Published(b)
    BY <1>2 DEF ViewsInv, BlobsHold
  <2>2. \A b \in blobs' : b \in Images /\ Published(b)'
    BY <1>1, <2>1, StillKeeps
  <2> QED
    BY <2>2 DEF BlobsHold
<1> QED
  BY <1>1, <1>5, <1>6, StillInv

\* What is mirrored again is on the branch now.
LEMMA MirrorViewsInv ==
    ASSUME ViewsInv, MirrorViews \/ LoseBlobs
    PROVE  ViewsInv' /\ Extends
<1>1. UNCHANGED <<log, upload, pins, reported>>
      /\ blobs' \subseteq blobs \cup ({Held[f] : f \in Paths} \ {None})
  BY DEF MirrorViews, LoseBlobs
<1>2. \A b \in {Held[f] : f \in Paths} \ {None} : b \in Images /\ Published(b)
  <2>1. LogTyped
    BY DEF ViewsInv
  <2> QED
    BY <2>1, LogFacts DEF Published, Slots
<1>3. UploadsHold'
  BY <1>1, StillKeeps, UploadsKept DEF ViewsInv
<1>4. BlobsHold'
  <2>1. \A b \in blobs' : b \in Images /\ Published(b)
    BY <1>1, <1>2 DEF ViewsInv, BlobsHold
  <2>2. \A b \in blobs' : b \in Images /\ Published(b)'
    BY <1>1, <2>1, StillKeeps
  <2> QED
    BY <2>2 DEF BlobsHold
<1> QED
  BY <1>1, <1>3, <1>4, StillInv

\* A pin is placed at the current revision.
LEMMA PlacePinInv ==
    ASSUME ViewsInv, NEW p \in PinIds, PlacePin(p)
    PROVE  ViewsInv' /\ Extends
<1>1. /\ p \notin DOMAIN pins /\ CurrentRevision # 0
      /\ pins' = [q \in DOMAIN pins \cup {p} |->
                     IF q = p THEN [against |-> CurrentRevision, record |-> 0] ELSE pins[q]]
      /\ UNCHANGED <<log, upload, blobs, reported>>
  BY DEF PlacePin
<1>2. DOMAIN pins' = DOMAIN pins \cup {p} /\ \A q \in DOMAIN pins : pins'[q] = pins[q]
  BY <1>1
<1>3. UploadsHold' /\ BlobsHold'
  BY <1>1, <1>2, StillKeeps, UploadsKept, PinsAndBlobsKept DEF ViewsInv
<1>4. PinsHold'
  <2>1. LogTyped /\ Len(log) \in Nat
    BY LogFacts DEF ViewsInv
  <2>2. Placed(pins'[p])
    BY <1>1, <2>1, CurrentRevisionIs DEF Placed
  <2>3. \A q \in DOMAIN pins' : Placed(pins'[q])
    BY <1>2, <2>2 DEF ViewsInv, PinsHold
  <2>4. DOMAIN pins' \subseteq PinIds /\ pins' = [q \in DOMAIN pins' |-> pins'[q]]
    BY <1>1 DEF ViewsInv, PinsHold
  <2> QED
    BY <1>1, <2>3, <2>4 DEF PinsHold, Placed
<1>5. ReportedHold'
  <2>1. \A q \in reported' : pins'[q] = pins[q]
    BY <1>1, <1>2 DEF ViewsInv, ReportedHold
  <2> QED
    BY <1>1, <1>2, <2>1, StillKeeps, ReportedKept DEF ViewsInv
<1> QED
  BY <1>1, <1>3, <1>4, <1>5, StillKeeps DEF ViewsInv, Extends

\* A commit that leaves the uploads and the mirror alone.
LEMMA GrownInv ==
    ASSUME ViewsInv, NEW rec, Grows(rec), Room, Replaces(Held, rec),
           UNCHANGED <<upload, blobs>>, PinsHold', ReportedHold', DOMAIN pins' = DOMAIN pins
    PROVE  ViewsInv' /\ Extends
<1>1. LogTyped' /\ ReplacementsReplace'
  BY GrowsTyped
<1>2. UploadsHold' /\ BlobsHold'
  BY GrowsKeeps, UploadsKept, PinsAndBlobsKept DEF ViewsInv
<1> QED
  BY <1>1, <1>2 DEF ViewsInv, Extends

\* An image that is pushed saw none, and replaces what it likes.
LEMMA PushImageInv ==
    ASSUME ViewsInv, NEW image \in Images, PushImage(image)
    PROVE  ViewsInv' /\ Extends
<1>1. PICK rec : rec = [held |-> [Held EXCEPT ![FormatOf[image]] = image], saw |-> None]
  OBVIOUS
<1>2. log' = Append(log, rec) /\ UNCHANGED <<upload, blobs, pins, reported>> /\ Room
  BY <1>1 DEF PushImage, Committed
<1>3. rec \in Commits
  BY <1>1, HeldFacts, ViewsAssumption DEF Commits, Slots, Paths
<1>4. Grows(rec) /\ Replaces(Held, rec)
  BY <1>1, <1>2, <1>3 DEF Grows, Replaces
<1>5. PinsHold'
  BY <1>2, <1>4, GrowsKeeps, PinsAndBlobsKept DEF ViewsInv
<1>6. ReportedHold'
  <2>1. reported' \subseteq reported /\ \A p \in reported' : pins'[p] = pins[p]
    BY <1>2
  <2> QED
    BY <1>2, <1>4, <2>1, GrowsKeeps, ReportedKept DEF ViewsInv
<1> QED
  BY <1>2, <1>4, <1>5, <1>6, GrownInv

\* A removal takes the image it saw away.
LEMMA RemoveViewInv ==
    ASSUME ViewsInv, RemoveView
    PROVE  ViewsInv' /\ Extends
<1>1. PICK rec : rec = [held |-> [Held EXCEPT ![Existing(Held)] = None], saw |-> ImageHeld(Held)]
  OBVIOUS
<1>2. log' = Append(log, rec) /\ UNCHANGED <<upload, blobs, pins, reported>> /\ Room
      /\ Existing(Held) # None
  BY <1>1 DEF RemoveView, Committed
<1>3. rec \in Commits
  BY <1>1, HeldFacts DEF Commits, Slots
<1>4. Replaces(Held, rec)
  <2>1. PICK f \in Paths : f = Existing(Held)
    BY <1>2, HeldFacts
  <2>2. Held[f] = rec.saw /\ Held[f] # None /\ rec.held[f] = None
    BY <1>1, <1>2, <2>1, HeldFacts DEF Slots
  <2>3. Files(rec.held) \in SUBSET Files(Held)
    BY <1>1, <1>2, HeldFacts DEF Files, Slots
  <2>4. Cardinality(Files(rec.held)) <= Cardinality(Files(Held))
    BY <2>3, PathsAreFinite, FS_Subset
  <2> QED
    BY <2>2, <2>4 DEF Replaces
<1>5. Grows(rec)
  BY <1>2, <1>3 DEF Grows
<1>6. PinsHold'
  BY <1>2, <1>5, GrowsKeeps, PinsAndBlobsKept DEF ViewsInv
<1>7. ReportedHold'
  <2>1. reported' \subseteq reported /\ \A p \in reported' : pins'[p] = pins[p]
    BY <1>2
  <2> QED
    BY <1>2, <1>5, <2>1, GrowsKeeps, ReportedKept DEF ViewsInv
<1> QED
  BY <1>2, <1>4, <1>5, <1>6, <1>7, GrownInv

\* Both ways a person re-anchors a pin: it is placed anew, it leaves the report
\* and a commit that touches no file of the slot records it.
LEMMA ReanchoredInv ==
    ASSUME ViewsInv, NEW p \in DOMAIN pins, NEW pin, Placed(pin)', Room,
           pins' = [pins EXCEPT ![p] = pin], Committed(Held, None),
           reported' = reported \ {p}, UNCHANGED <<upload, blobs>>
    PROVE  ViewsInv' /\ Extends
<1>1. PICK rec : rec = [held |-> Held, saw |-> None]
  OBVIOUS
<1>2. rec \in Commits
  BY <1>1, HeldFacts DEF Commits, Slots
<1>3. Grows(rec) /\ Replaces(Held, rec)
  BY <1>1, <1>2 DEF Grows, Committed, Replaces
<1>4. /\ DOMAIN pins' = DOMAIN pins /\ pins'[p] = pin
      /\ \A q \in DOMAIN pins \ {p} : pins'[q] = pins[q]
      /\ pins' = [q \in DOMAIN pins' |-> pins'[q]]
  BY DEF ViewsInv, PinsHold
<1>5. PinsHold'
  <2>1. ASSUME NEW q \in DOMAIN pins' PROVE Placed(pins[q])'
    <3>1. PICK it : it = pins'[q]
      OBVIOUS
    <3>2. Placed(it)'
      BY <1>3, <1>4, <3>1, GrowsKeeps DEF ViewsInv, PinsHold
    <3> QED
      BY <3>1, <3>2
  <2> QED
    BY <1>4, <2>1 DEF PinsHold, ViewsInv
<1>6. ReportedHold'
  <2>1. reported' \subseteq reported /\ \A q \in reported' : pins'[q] = pins[q]
    BY <1>4 DEF ViewsInv, ReportedHold
  <2> QED
    BY <1>3, <1>4, <2>1, GrowsKeeps, ReportedKept DEF ViewsInv
<1> QED
  BY <1>3, <1>4, <1>5, <1>6, GrownInv

\* Either re-anchoring is at a commit of the branch.
LEMMA ReanchorInv ==
    ASSUME ViewsInv, NEW p \in PinIds, Reanchor(p) \/ RecordReanchoring(p)
    PROVE  ViewsInv' /\ Extends
<1>1. p \in DOMAIN pins /\ Placed(pins[p]) /\ Len(log) \in Nat \ {0} /\ CurrentRevision \in 0..Len(log)
  BY LogFacts, CurrentRevisionIs DEF Reanchor, RecordReanchoring, ViewsInv, PinsHold
<1>2. Len(log') = Len(log) + 1
  BY <1>1 DEF Reanchor, RecordReanchoring, Committed, ViewsInv, LogTyped
<1>3. CASE Reanchor(p)
  <2>1. PICK pin : pin = [pins[p] EXCEPT !.against = Len(log)]
    OBVIOUS
  <2>2. pins' = [pins EXCEPT ![p] = pin]
    BY <1>3, <2>1 DEF Reanchor
  <2>3. Placed(pin)'
    BY <1>1, <1>2, <2>1 DEF Placed
  <2> QED
    BY <1>1, <1>3, <2>2, <2>3, ReanchoredInv DEF Reanchor
<1>4. CASE RecordReanchoring(p)
  <2>1. PICK pin : pin = [pins[p] EXCEPT !.record = CurrentRevision]
    OBVIOUS
  <2>2. pins' = [pins EXCEPT ![p] = pin]
    BY <1>4, <2>1 DEF RecordReanchoring
  <2>3. Placed(pin)'
    BY <1>1, <1>2, <2>1 DEF Placed
  <2> QED
    BY <1>1, <1>4, <2>2, <2>3, ReanchoredInv DEF RecordReanchoring
<1> QED
  BY <1>3, <1>4

-----------------------------------------------------------------------------
\* The commit of an upload.
LEMMA CommitUploadInv ==
    ASSUME ViewsInv, NEW u \in Uploads, CommitUpload(u)
    PROVE  ViewsInv' /\ Extends
<1>1. PICK mine : mine = upload[u]
  OBVIOUS
<1>2. PICK format : format = FormatOf[mine.image]
  OBVIOUS
<1>3. PICK rec : rec = [held |-> [f \in Paths |-> IF f = format THEN mine.image
                                             ELSE IF f = mine.path THEN None
                                             ELSE Held[f]],
                        saw |-> mine.saw]
  OBVIOUS
<1>4. /\ mine.stage = "prepared" /\ Room /\ log' = Append(log, rec)
      /\ mine.path # None => Held[mine.path] = mine.saw
      /\ format # mine.path => Held[format] = None
      /\ reported' = OutcomeOrphans(mine)
      /\ upload' = [upload EXCEPT ![u] = [stage |-> "committed", image |-> mine.image]]
      /\ UNCHANGED <<blobs, pins>>
  BY <1>1, <1>2, <1>3 DEF CommitUpload, Replaceable, Committed
<1>5. mine \in Prepared /\ (mine.path = None <=> mine.saw = None)
      /\ mine.saw # mine.image /\ mine.pinned \subseteq DOMAIN pins
  BY <1>1, <1>4 DEF ViewsInv, UploadsHold, UploadHolds, Ready
<1>6. Held \in Slots /\ LogTyped /\ format \in Paths /\ mine.image \in Images
      /\ mine.saw \in Images \cup {None} /\ mine.path \in Paths \cup {None}
      /\ None \notin Images \cup Paths
  BY <1>2, <1>5, HeldFacts, ViewsAssumption DEF ViewsInv, Prepared, Paths
<1>7. rec.saw = mine.saw /\ rec.held \in Slots /\ rec.held[format] = mine.image
      /\ \A f \in Paths : rec.held[f] = IF f = format THEN mine.image
                                        ELSE IF f = mine.path THEN None ELSE Held[f]
  BY <1>3, <1>6 DEF Slots
<1>8. Grows(rec)
  BY <1>3, <1>4, <1>6, <1>7 DEF Grows, Commits, Slots
<1>9. mine.saw # None =>
        /\ mine.path \in Paths /\ Held[mine.path] = mine.saw /\ rec.held[mine.path] # Held[mine.path]
  BY <1>4, <1>5, <1>6, <1>7
<1>10. Replaces(Held, rec)
  <2> SUFFICES ASSUME mine.saw # None
               PROVE  Cardinality(Files(rec.held)) <= Cardinality(Files(Held))
    BY <1>7, <1>9 DEF Replaces
  <2>1. IsFiniteSet(Files(Held)) /\ Cardinality(Files(Held)) \in Nat
    BY PathsAreFinite
  <2>2. mine.path \in Files(Held)
    BY <1>9 DEF Files
  <2>3. Files(rec.held) = (Files(Held) \ {mine.path}) \cup {format}
    BY <1>6, <1>7 DEF Files
  <2>4. IsFiniteSet(Files(Held) \ {mine.path})
        /\ Cardinality(Files(Held) \ {mine.path}) = Cardinality(Files(Held)) - 1
    BY <2>1, <2>2, FS_RemoveElement
  <2>5. Cardinality((Files(Held) \ {mine.path}) \cup {format})
           \in {Cardinality(Files(Held)) - 1, Cardinality(Files(Held)) - 1 + 1}
    BY <2>4, FS_AddElement
  <2> QED
    BY <2>1, <2>3, <2>5
<1>11. LogTyped' /\ ReplacementsReplace'
  BY <1>4, <1>8, <1>10, GrowsTyped
<1>12. UploadsHold'
  <2>1. PICK x : x = [stage |-> "committed", image |-> mine.image]
    OBVIOUS
  <2>2. Published(mine.image)'
    BY <1>6, <1>7, <1>8, GrowsKeeps
  <2>3. UploadHolds(x)'
    BY <1>6, <2>1, <2>2 DEF UploadHolds
  <2> QED
    BY <1>4, <1>6, <1>8, <2>1, <2>3, GrowsKeeps, UploadsKept DEF ViewsInv
<1>13. BlobsHold' /\ PinsHold'
  BY <1>4, <1>6, <1>8, GrowsKeeps, PinsAndBlobsKept DEF ViewsInv
<1>14. ReportedHold'
  <2>1. reported' \subseteq DOMAIN pins'
    BY <1>4, <1>5 DEF OutcomeOrphans
  <2>2. ASSUME \A c \in DOMAIN log' : OneFile(log'[c].held), NEW p \in reported'
        PROVE  Orphaned(pins[p])'
    <3>1. mine.saw # None /\ ~SameShape(mine.saw, mine.image) /\ p \in DOMAIN pins
      BY <1>4, <1>5, <2>2 DEF OutcomeOrphans
    <3>2. PICK pin : pin = pins[p]
      OBVIOUS
    <3>3. Placed(pin) /\ pin = pins'[p]
      BY <1>4, <3>1, <3>2 DEF ViewsInv, PinsHold
    <3>4. PICK start : start = Start(pin)
      OBVIOUS
    <3>5. start \in 1..Len(log)
      BY <1>6, <3>3, <3>4, StartIs
    <3>6. OneFile(Held)
      BY <1>6, <1>8, <2>2, GrowsKeeps
    <3>7. PICK path \in Paths : path = mine.path
      BY <1>9, <3>1
    <3>8. Held[path] = mine.saw /\ Held[path] # None /\ rec.held[path] # Held[path]
      BY <1>9, <3>1, <3>7
    <3>9. \A f \in Paths : rec.held[f] # Held[f] => rec.held[f] \in {None, mine.image}
      BY <1>7
    <3>10. ~SameShape(Held[path], mine.image)
      BY <3>1, <3>8
    <3>11. ~Walk(start)'
      BY <1>6, <1>8, <3>5, <3>6, <3>8, <3>9, <3>10, ShapeBreaks
    <3>12. Orphaned(pin)'
      BY <3>4, <3>11, Zenon DEF Orphaned, Start
    <3> QED
      BY <3>3, <3>12
  <2>3. ReportedAreOrphans'
    BY <2>2 DEF ReportedAreOrphans, OneFile
  <2> QED
    BY <2>1, <2>3 DEF ReportedHold
<1> QED
  BY <1>8, <1>11, <1>12, <1>13, <1>14 DEF ViewsInv, Extends

-----------------------------------------------------------------------------
\* The first commit is the import of one image.
LEMMA ViewsInitially ==
    ASSUME ViewsInit PROVE ViewsInv
<1>1. PICK i \in Images : log = <<[held |-> [Nothing EXCEPT ![FormatOf[i]] = i], saw |-> None]>>
  BY DEF ViewsInit
<1>2. Nothing \in Slots /\ FormatOf[i] \in Paths
  BY ViewsAssumption DEF Nothing, Slots, Paths
<1>3. [Nothing EXCEPT ![FormatOf[i]] = i] \in Slots
  BY <1>2 DEF Slots
<1>4. log \in Seq(Commits) /\ Len(log) = 1
  BY <1>1, <1>3 DEF Commits, Slots
<1>5. LogTyped
  BY <1>4, ViewsAssumption DEF LogTyped
<1>6. ReplacementsReplace
  BY <1>4 DEF ReplacementsReplace
<1>7. UploadsHold /\ BlobsHold
  BY DEF ViewsInit, UploadsHold, UploadHolds, BlobsHold
<1>8. pins = <<>> /\ DOMAIN pins = {} /\ reported = {}
  BY DEF ViewsInit
<1>9. pins = [p \in DOMAIN pins |-> pins[p]]
  BY <1>8
<1>10. PinsHold /\ ReportedHold
  BY <1>8, <1>9 DEF PinsHold, ReportedHold, ReportedAreOrphans
<1> QED
  BY <1>5, <1>6, <1>7, <1>10 DEF ViewsInv

\* Every step keeps the invariant, and adds at most one commit.
LEMMA ViewsStep ==
    ASSUME ViewsInv, [ViewsNext]_viewVars
    PROVE  ViewsInv' /\ Extends
<1>1. CASE UNCHANGED viewVars
  <2>1. UNCHANGED <<log, upload, blobs, pins, reported>>
    BY <1>1 DEF viewVars
  <2>2. UploadsHold' /\ BlobsHold'
    BY <2>1, StillKeeps, UploadsKept, PinsAndBlobsKept DEF ViewsInv
  <2> QED
    BY <2>1, <2>2, StillInv
<1>2. CASE ViewsNext
  <2>1. ASSUME NEW u \in Uploads, NEW image \in Images, Prepare(u, image)
        PROVE  ViewsInv' /\ Extends
    BY <2>1, PrepareInv
  <2>2. ASSUME NEW u \in Uploads, CommitUpload(u) PROVE ViewsInv' /\ Extends
    BY <2>2, CommitUploadInv
  <2>3. ASSUME NEW u \in Uploads, RefuseUpload(u) PROVE ViewsInv' /\ Extends
    BY <2>3, RefuseUploadInv
  <2>4. ASSUME NEW u \in Uploads, Mirror(u) PROVE ViewsInv' /\ Extends
    BY <2>4, MirrorInv
  <2>5. ASSUME NEW image \in Images, PushImage(image) PROVE ViewsInv' /\ Extends
    BY <2>5, PushImageInv
  <2>6. ASSUME NEW p \in PinIds, PlacePin(p) PROVE ViewsInv' /\ Extends
    BY <2>6, PlacePinInv
  <2>7. ASSUME NEW p \in PinIds, Reanchor(p) \/ RecordReanchoring(p) PROVE ViewsInv' /\ Extends
    BY <2>7, ReanchorInv
  <2>8. CASE MirrorViews \/ LoseBlobs
    BY <2>8, MirrorViewsInv
  <2>9. CASE RemoveView
    BY <2>9, RemoveViewInv
  <2> QED
    BY <1>2, <2>1, <2>2, <2>3, <2>4, <2>5, <2>6, <2>7, <2>8, <2>9, Zenon DEF ViewsNext
<1> QED
  BY <1>1, <1>2

\* What the invariant says of the states.
LEMMA ViewsAreTyped ==
    ASSUME ViewsInv PROVE ViewsTypeOK /\ ReportedAreOrphans /\ BlobsArePublished
<1>1. LogTyped /\ Len(log) \in Nat \ {0} /\ Len(log) \in 1..MaxCommits /\ MaxCommits \in Nat
  BY LogFacts, ViewsAssumption DEF ViewsInv, LogTyped
<1>2. \A p \in DOMAIN pins : pins[p].against \in 1..MaxCommits /\ pins[p].record \in 0..MaxCommits
  <2> SUFFICES ASSUME NEW p \in DOMAIN pins
               PROVE  pins[p].against \in 1..MaxCommits /\ pins[p].record \in 0..MaxCommits
    OBVIOUS
  <2>1. pins[p] \in [against : 1..Len(log), record : 0..Len(log)]
    BY DEF ViewsInv, PinsHold, Placed
  <2> QED
    BY <1>1, <2>1
<1>3. \A u \in Uploads : upload[u].stage \in {"ready", "prepared", "committed"}
  BY DEF ViewsInv, UploadsHold, UploadHolds, Ready, Prepared
<1>4. blobs \subseteq Images /\ BlobsArePublished
  BY DEF ViewsInv, BlobsHold, BlobsArePublished, Published
<1> QED
  BY <1>1, <1>2, <1>3, <1>4 DEF ViewsTypeOK, ViewsInv, LogTyped, PinsHold, ReportedHold

\* What it says of the steps: a commit leaves an orphan one.
LEMMA OrphansStayOrphans ==
    ASSUME ViewsInv, Extends PROVE OrphansStay
<1> SUFFICES ASSUME NEW p \in DOMAIN pins, log' # log, pins'[p] = pins[p], Orphaned(pins[p])
             PROVE  Orphaned(pins[p])'
  BY DEF OrphansStay
<1>1. PICK rec : Grows(rec)
  BY DEF Extends
<1>2. PICK pin : pin = pins[p]
  OBVIOUS
<1>3. Placed(pin) /\ Orphaned(pin) /\ pin = pins'[p]
  BY <1>2 DEF ViewsInv, PinsHold
<1>4. Orphaned(pin)'
  BY <1>1, <1>3, GrowsKeeps DEF ViewsInv
<1> QED
  BY <1>3, <1>4

\* Whatever the images, their formats and the tolerance, and however many
\* commits: replacements replace, the mirror holds what was published, and pins
\* are orphaned aloud and for good.
THEOREM ViewsStayKept ==
    ViewsSpec => ViewsAreKept
<1>1. ViewsInit => ViewsInv
  BY ViewsInitially
<1>2. ViewsInv /\ [ViewsNext]_viewVars => ViewsInv'
  BY ViewsStep
<1>3. ViewsInv /\ [ViewsNext]_viewVars => [OrphansStay]_viewVars
  BY ViewsStep, OrphansStayOrphans
<1>4. ViewsInv => ViewsTypeOK /\ ReplacementsReplace /\ ReportedAreOrphans /\ BlobsArePublished
  BY ViewsAreTyped DEF ViewsInv
<1> QED
  BY <1>1, <1>2, <1>3, <1>4, PTL DEF ViewsSpec, ViewsAreKept

-----------------------------------------------------------------------------
(* What the stores' operators on texts are.                                *)

\* Each of a finite set of whole numbers has a place of its own, in their order, and
\* every place is taken.
LEMMA PlacesOf ==
    ASSUME NEW at, IsFiniteSet(at), at \subseteq Int
    PROVE  /\ Cardinality(at) \in Nat
           /\ \A i \in at : Place(at, i) \in 1..Cardinality(at)
           /\ \A i, j \in at : i < j => Place(at, i) < Place(at, j)
           /\ \A k \in 1..Cardinality(at) : \E i \in at : Place(at, i) = k
<1> DEFINE upto(i) == {j \in at : j <= i}
           N == Cardinality(at)
<1>1. N \in Nat
  BY FS_CardinalityType
<1>2. ASSUME NEW i PROVE IsFiniteSet(upto(i)) /\ Cardinality(upto(i)) \in Nat /\ Cardinality(upto(i)) <= N
  <2>1. upto(i) \in SUBSET at
    OBVIOUS
  <2> QED
    BY <2>1, FS_Subset, FS_CardinalityType
<1>3. ASSUME NEW i \in at PROVE Place(at, i) \in 1..N
  <2>1. upto(i) # {}
    OBVIOUS
  <2>2. Cardinality(upto(i)) # 0
    BY <1>2, <2>1, FS_EmptySet
  <2> QED
    BY <1>1, <1>2, <2>2 DEF Place
<1>4. ASSUME NEW i \in at, NEW j \in at, i < j PROVE Place(at, i) < Place(at, j)
  <2>1. upto(i) \in SUBSET upto(j) /\ upto(i) # upto(j)
    <3>1. j \in upto(j) /\ j \notin upto(i)
      BY <1>4
    <3>2. ASSUME NEW k \in upto(i) PROVE k \in upto(j)
      BY <1>4
    <3> QED
      BY <3>1, <3>2
  <2> HIDE DEF upto
  <2>2. Cardinality(upto(i)) <= Cardinality(upto(j)) /\ Cardinality(upto(i)) # Cardinality(upto(j))
    BY <1>2, <2>1, FS_Subset
  <2> QED
    BY <1>2, <2>2 DEF Place, upto
<1>5. ASSUME NEW k \in 1..N PROVE \E i \in at : Place(at, i) = k
  <2> DEFINE place == [i \in at |-> Place(at, i)]
  <2>1. place \in Injection(at, 1..N)
    BY <1>3, <1>4 DEF Injection, IsInjective
  <2>2. IsFiniteSet(1..N) /\ Cardinality(1..N) = N
    BY <1>1, FS_Interval
  <2> HIDE DEF place
  <2>3. place \in Surjection(at, 1..N)
    BY <2>1, <2>2, FS_Injection
  <2> QED
    BY <2>3 DEF Surjection, place
<1> QED
  BY <1>1, <1>3, <1>4, <1>5

Recurs(f, base, step, S) ==
    \A x \in S : /\ step[x] = x => f[x] = base[x]
                 /\ step[x] # x => f[x] = f[step[x]]

\* A function may be said by what one step leaves of its argument: where it ends, if it
\* does, has an answer, and so has all that leads there.
LEMMA TailRecursion ==
    ASSUME NEW S, NEW T, T # {}, NEW base \in [S -> T], NEW step \in [S -> S]
    PROVE  \E f \in [S -> T] : Recurs(f, base, step, S)
<1> DEFINE D == {x \in S : step[x] = x}
           leads(n, way, x, z) ==
             /\ way[0] = x /\ way[n] = z /\ z \in D
             /\ \A k \in 0..(n - 1) : way[k] \notin D /\ way[k + 1] = step[way[k]]
           ends(x) == {z \in S : \E n \in Nat : \E way \in [0..n -> S] : leads(n, way, x, z)}
           outcome(zs) == IF zs = {} THEN CHOOSE t : t \in T ELSE base[CHOOSE z : z \in zs]
           f == [x \in S |-> outcome(ends(x))]
<1> HIDE DEF D
<1>1. ASSUME NEW x \in S, x \in D PROVE ends(x) = {x}
  <2>1. x \in ends(x)
    <3> DEFINE way == [k \in 0..0 |-> x]
    <3>1. way \in [0..0 -> S] /\ way[0] = x
      OBVIOUS
    <3>2. \A k \in 0..(0 - 1) : FALSE
      OBVIOUS
    <3> HIDE DEF way
    <3>3. leads(0, way, x, x)
      BY <1>1, <3>1, <3>2
    <3> QED
      BY <3>1, <3>3
  <2>2. ASSUME NEW z \in ends(x) PROVE z = x
    <3>1. PICK n \in Nat : \E way \in [0..n -> S] : leads(n, way, x, z)
      OBVIOUS
    <3>2. PICK way \in [0..n -> S] : leads(n, way, x, z)
      BY <3>1
    <3>3. n = 0
      <4> SUFFICES ASSUME n # 0 PROVE FALSE
        OBVIOUS
      <4>1. 0 \in 0..(n - 1)
        OBVIOUS
      <4> QED
        BY <1>1, <3>2, <4>1
    <3> QED
      BY <3>2, <3>3
  <2> HIDE DEF ends
  <2> QED
    BY <2>1, <2>2
<1>2. ASSUME NEW x \in S, x \notin D PROVE ends(x) = ends(step[x])
  <2>0. step[x] \in S
    OBVIOUS
  <2>1. ASSUME NEW z \in ends(x) PROVE z \in ends(step[x])
    <3>1. PICK n \in Nat : \E way \in [0..n -> S] : leads(n, way, x, z)
      OBVIOUS
    <3>2. PICK way \in [0..n -> S] : leads(n, way, x, z)
      BY <3>1
    <3>3. n # 0
      BY <1>2, <3>2
    <3> DEFINE m == n - 1
               later == [k \in 0..m |-> way[k + 1]]
    <3>4. m \in Nat /\ 0 \in 0..(n - 1)
      BY <3>3
    <3>5. later \in [0..m -> S] /\ later[0] = step[x] /\ later[m] = z
      BY <3>2, <3>4
    <3>6. \A k \in 0..(m - 1) : later[k] \notin D /\ later[k + 1] = step[later[k]]
      <4> SUFFICES ASSUME NEW k \in 0..(m - 1)
                   PROVE  later[k] \notin D /\ later[k + 1] = step[later[k]]
        OBVIOUS
      <4>1. k + 1 \in 0..(n - 1) /\ k \in 0..m /\ k + 1 \in 0..m
        BY <3>4
      <4>2. later[k] = way[k + 1] /\ later[k + 1] = way[(k + 1) + 1]
        BY <4>1
      <4> HIDE DEF later, m
      <4> QED
        BY <3>2, <4>1, <4>2
    <3> HIDE DEF later, m
    <3>7. leads(m, later, step[x], z)
      BY <3>2, <3>5, <3>6
    <3> QED
      BY <3>4, <3>5, <3>7
  <2>2. ASSUME NEW z \in ends(step[x]) PROVE z \in ends(x)
    <3>1. PICK n \in Nat : \E way \in [0..n -> S] : leads(n, way, step[x], z)
      OBVIOUS
    <3>2. PICK way \in [0..n -> S] : leads(n, way, step[x], z)
      BY <3>1
    <3> DEFINE m == n + 1
               longer == [k \in 0..m |-> IF k = 0 THEN x ELSE way[k - 1]]
    <3>3. m \in Nat /\ m # 0
      OBVIOUS
    <3>4. longer \in [0..m -> S] /\ longer[0] = x /\ longer[m] = z
      BY <3>2, <3>3
    <3>5. \A k \in 0..(m - 1) : longer[k] \notin D /\ longer[k + 1] = step[longer[k]]
      <4> SUFFICES ASSUME NEW k \in 0..(m - 1)
                   PROVE  longer[k] \notin D /\ longer[k + 1] = step[longer[k]]
        OBVIOUS
      <4>1. k \in 0..m /\ k + 1 \in 0..m /\ (k + 1) - 1 = k /\ k \in 0..n
        OBVIOUS
      <4>2. longer[k + 1] = way[k]
        BY <4>1
      <4>3. CASE k = 0
        BY <1>2, <3>2, <3>4, <4>2, <4>3
      <4>4. CASE k # 0
        <5>1. longer[k] = way[k - 1] /\ k - 1 \in 0..(n - 1) /\ (k - 1) + 1 = k
          BY <4>1, <4>4
        <5> HIDE DEF longer, m
        <5> QED
          BY <3>2, <4>2, <5>1
      <4> QED
        BY <4>3, <4>4
    <3> HIDE DEF longer, m
    <3>6. leads(m, longer, x, z)
      BY <3>2, <3>4, <3>5
    <3> QED
      BY <3>3, <3>4, <3>6
  <2> HIDE DEF ends
  <2> QED
    BY <2>1, <2>2
<1> HIDE DEF ends
<1>3. ASSUME NEW x \in S PROVE f[x] = IF x \in D THEN base[x] ELSE f[step[x]]
  <2>1. f[x] = outcome(ends(x)) /\ step[x] \in S /\ f[step[x]] = outcome(ends(step[x]))
    OBVIOUS
  <2>2. outcome({x}) = base[x]
    OBVIOUS
  <2> HIDE DEF f, outcome
  <2> QED
    BY <1>1, <1>2, <2>1, <2>2
<1>4. ASSUME NEW x \in S PROVE outcome(ends(x)) \in T
  <2>1. ends(x) # {} => (CHOOSE z : z \in ends(x)) \in ends(x)
    OBVIOUS
  <2>2. ends(x) \subseteq S
    BY DEF ends
  <2>3. (CHOOSE t : t \in T) \in T
    OBVIOUS
  <2> QED
    BY <2>1, <2>2, <2>3
<1>5. f \in [S -> T]
  BY <1>4
<1> HIDE DEF f
<1>6. \A x \in S : x \in D <=> step[x] = x
  BY DEF D
<1> QED
  BY <1>3, <1>5, <1>6 DEF Recurs

\* A list with its first two joined.
Merged(values) == <<values[1] \o <<Break>> \o values[2]>> \o Tail(Tail(values))

LEMMA MergedIs ==
    ASSUME NEW values \in Seq(Texts), Len(values) >= 2
    PROVE  /\ Merged(values) \in Seq(Texts) /\ Len(Merged(values)) = Len(values) - 1
           /\ Merged(values)[1] = values[1] \o <<Break>> \o values[2]
           /\ \A k \in 2..Len(Merged(values)) : Merged(values)[k] = values[k + 1]
<1> DEFINE first == values[1] \o <<Break>> \o values[2]
           rest == Tail(Tail(values))
<1>1. values[1] \in Texts /\ values[2] \in Texts
  OBVIOUS
<1>2. first \in Texts
  BY <1>1, StoresAssumption DEF Texts
<1>3. rest \in Seq(Texts) /\ Len(rest) = Len(values) - 2
      /\ \A k \in 1..Len(rest) : rest[k] = values[k + 2]
  <2>1. PICK t : t = Tail(values)
    OBVIOUS
  <2>2. t \in Seq(Texts) /\ Len(t) = Len(values) - 1 /\ t # <<>>
        /\ \A k \in 1..Len(t) : t[k] = values[k + 1]
    BY <2>1
  <2>3. PICK u : u = Tail(t)
    OBVIOUS
  <2>4. u \in Seq(Texts) /\ Len(u) = Len(t) - 1 /\ \A k \in 1..Len(u) : u[k] = t[k + 1]
    BY <2>2, <2>3
  <2>5. \A k \in 1..Len(u) : u[k] = values[k + 2]
    <3> SUFFICES ASSUME NEW k \in 1..Len(u) PROVE u[k] = values[k + 2]
      OBVIOUS
    <3>1. k + 1 \in 1..Len(t) /\ (k + 1) + 1 = k + 2
      BY <2>2, <2>4
    <3> QED
      BY <2>2, <2>4, <3>1
  <2> QED
    BY <2>1, <2>2, <2>3, <2>4, <2>5
<1> HIDE DEF first, rest
<1>4. Merged(values) = <<first>> \o rest
  BY DEF Merged, first, rest
<1>5. <<first>> \in Seq(Texts) /\ Len(<<first>>) = 1 /\ <<first>>[1] = first
  BY <1>2
<1>6. /\ Merged(values) \in Seq(Texts) /\ Len(Merged(values)) = 1 + Len(rest)
      /\ Merged(values)[1] = first
      /\ \A k \in 2..(1 + Len(rest)) : Merged(values)[k] = rest[k - 1]
  BY <1>3, <1>4, <1>5
<1>7. \A k \in 2..(1 + Len(rest)) : rest[k - 1] = values[k + 1]
  <2> SUFFICES ASSUME NEW k \in 2..(1 + Len(rest)) PROVE rest[k - 1] = values[k + 1]
    OBVIOUS
  <2>1. k - 1 \in 1..Len(rest) /\ (k - 1) + 2 = k + 1
    BY <1>3
  <2> QED
    BY <1>3, <2>1
<1> QED
  BY <1>3, <1>6, <1>7 DEF first

\* Joining is what its definition says of it.
LEMMA JoinedIs ==
    ASSUME NEW values \in Seq(Texts)
    PROVE  /\ values = <<>> => Joined[values] = <<>>
           /\ Len(values) = 1 => Joined[values] = values[1]
           /\ Len(values) >= 2 => Joined[values] = Joined[Merged(values)]
<1> DEFINE S == Seq(Texts)
           base == [v \in S |-> IF v = <<>> THEN <<>> ELSE v[1]]
           step == [v \in S |-> IF Len(v) >= 2 THEN Merged(v) ELSE v]
<1>1. step \in [S -> S]
  BY MergedIs
<1>2. base \in [S -> Texts] /\ Texts # {}
  <2>1. <<>> \in Texts
    BY DEF Texts
  <2> QED
    BY <2>1
<1>3. PICK f \in [S -> Texts] : Recurs(f, base, step, S)
  <2> HIDE DEF S, base, step
  <2> QED
    BY <1>1, <1>2, TailRecursion
<1>4. ASSUME NEW v \in S
      PROVE  f[v] = IF v = <<>> THEN <<>> ELSE IF Len(v) = 1 THEN v[1]
                    ELSE f[<<v[1] \o <<Break>> \o v[2]>> \o Tail(Tail(v))]
  <2>1. f[v] = IF step[v] = v THEN base[v] ELSE f[step[v]]
    <3> HIDE DEF base, step
    <3> QED
      BY <1>3 DEF Recurs
  <2>2. CASE Len(v) <= 1
    BY <2>1, <2>2
  <2>3. CASE Len(v) >= 2
    <3>1. v \in Seq(Texts) /\ Len(v) \in Nat /\ v # <<>> /\ Len(v) # 1
      <4>1. v \in Seq(Texts)
        OBVIOUS
      <4>2. Len(v) \in Nat
        BY <4>1
      <4>3. Len(<<>>) = 0
        OBVIOUS
      <4>4. Len(v) # 1
        <5>1. \A n \in Nat : n >= 2 => n # 1
          OBVIOUS
        <5> QED
          BY <2>3, <4>2, <5>1
      <4>5. v # <<>>
        BY <2>3, <4>3
      <4> QED
        BY <4>1, <4>2, <4>4, <4>5
    <3>2. step[v] = Merged(v)
      BY <2>3
    <3>3. Len(Merged(v)) = Len(v) - 1
      BY <2>3, <3>1, MergedIs
    <3>4. f[v] = f[Merged(v)]
      <4> HIDE DEF step, base
      <4> QED
        BY <2>1, <3>1, <3>2, <3>3
    <3> QED
      BY <3>1, <3>4 DEF Merged
  <2> QED
    BY <2>2, <2>3
<1>5. f = [v \in S |-> f[v]]
  OBVIOUS
<1>6. f = [v \in Seq(Texts) |-> IF v = <<>> THEN <<>> ELSE IF Len(v) = 1 THEN v[1]
                                ELSE f[<<v[1] \o <<Break>> \o v[2]>> \o Tail(Tail(v))]]
  BY <1>4, <1>5
<1>7. Joined = [v \in Seq(Texts) |-> IF v = <<>> THEN <<>> ELSE IF Len(v) = 1 THEN v[1]
                                     ELSE Joined[<<v[1] \o <<Break>> \o v[2]>> \o Tail(Tail(v))]]
  BY <1>6, Zenon DEF Joined
<1>8. Joined[values] = IF values = <<>> THEN <<>> ELSE IF Len(values) = 1 THEN values[1]
                       ELSE Joined[<<values[1] \o <<Break>> \o values[2]>> \o Tail(Tail(values))]
  BY <1>7, Zenon
<1> QED
  BY <1>8 DEF Merged

\* Two places a text is cut at, with none between them, and what is between them.
Neighbours(text, i, j) ==
    /\ i \in Cuts(text) /\ j \in Cuts(text) /\ i < j
    /\ \A c \in Cuts(text) : c <= i \/ j <= c

Parts(text) == {p \in Texts : \E i, j \in Cuts(text) : Neighbours(text, i, j) /\ p = Between(text, i, j)}

\* A text is cut at its breaks and its ends.
LEMMA CutsAre ==
    ASSUME NEW text \in Texts
    PROVE  /\ Len(text) \in Nat /\ DOMAIN text = 1..Len(text)
           /\ IsFiniteSet(Cuts(text)) /\ Cuts(text) \subseteq Int
           /\ 0 \in Cuts(text) /\ Len(text) + 1 \in Cuts(text)
           /\ \A c \in Cuts(text) : 0 <= c /\ c <= Len(text) + 1
           /\ \A c \in 1..Len(text) : c \in Cuts(text) <=> text[c] = Break
<1>1. Len(text) \in Nat /\ DOMAIN text = 1..Len(text)
  BY DEF Texts
<1>2. IsFiniteSet(Cuts(text))
  <2>1. IsFiniteSet(0..(Len(text) + 1))
    BY <1>1, FS_Interval
  <2>2. Cuts(text) \subseteq 0..(Len(text) + 1)
    BY <1>1 DEF Cuts
  <2> QED
    BY <2>1, <2>2, FS_Subset
<1> QED
  BY <1>1, <1>2 DEF Cuts

\* What is between two of them is a text.
LEMMA BetweenIs ==
    ASSUME NEW text \in Texts, NEW i \in Cuts(text), NEW j \in Cuts(text), i < j
    PROVE  /\ Between(text, i, j) \in Texts
           /\ DOMAIN Between(text, i, j) = 1..(j - i - 1)
           /\ \A k \in 1..(j - i - 1) : Between(text, i, j)[k] = text[i + k]
<1>1. Len(text) \in Nat /\ DOMAIN text = 1..Len(text) /\ i \in Int /\ j \in Int
      /\ 0 <= i /\ j <= Len(text) + 1
  BY CutsAre
<1>2. \A k \in 1..(j - i - 1) : text[i + k] \in Letters
  <2> SUFFICES ASSUME NEW k \in 1..(j - i - 1) PROVE text[i + k] \in Letters
    OBVIOUS
  <2>1. i + k \in 1..Len(text)
    BY <1>1
  <2> QED
    BY <2>1 DEF Texts
<1>3. j - i - 1 \in Nat
  BY <1>1
<1>4. Between(text, i, j) = [k \in 1..(j - i - 1) |-> text[i + k]]
  BY DEF Between
<1>5. Between(text, i, j) \in Seq(Letters)
  BY <1>2, <1>3, <1>4
<1> QED
  BY <1>4, <1>5 DEF Texts

\* Splitting gives the parts.
LEMMA SplitIs ==
    ASSUME NEW text \in Texts PROVE Range(Split(text)) = Parts(text)
<1> DEFINE at == Cuts(text)
           N == Cardinality(at)
<1>1. IsFiniteSet(at) /\ at \subseteq Int
  BY CutsAre
<1>2. /\ N \in Nat
      /\ \A i \in at : Place(at, i) \in 1..N
      /\ \A i, j \in at : i < j => Place(at, i) < Place(at, j)
      /\ \A k \in 1..N : \E i \in at : Place(at, i) = k
  BY <1>1, PlacesOf
<1>3. ASSUME NEW k \in 1..N PROVE Cut(text, k) \in at /\ Place(at, Cut(text, k)) = k
  BY <1>2 DEF Cut
<1>4. ASSUME NEW i \in at, NEW k \in 1..N, Place(at, i) = k PROVE Cut(text, k) = i
  <2>1. PICK c \in at : c = Cut(text, k) /\ Place(at, c) = k
    BY <1>3
  <2>2. c \in Int /\ i \in Int /\ k \in Int
    BY <1>1, <1>2
  <2>3. ~(c < i)
    <3> HIDE DEF at, N
    <3> QED
      BY <1>2, <1>4, <2>1, <2>2
  <2>4. ~(i < c)
    <3> HIDE DEF at, N
    <3> QED
      BY <1>2, <1>4, <2>1, <2>2
  <2> QED
    BY <2>1, <2>2, <2>3, <2>4
<1>5. Split(text) = [k \in 1..(N - 1) |-> Between(text, Cut(text, k), Cut(text, k + 1))]
  BY DEF Split
<1>6. ASSUME NEW k \in 1..(N - 1)
      PROVE  Neighbours(text, Cut(text, k), Cut(text, k + 1))
  <2>1. k \in 1..N /\ k + 1 \in 1..N
    BY <1>2
  <2>2. PICK i \in at : i = Cut(text, k) /\ Place(at, i) = k
    BY <1>3, <2>1
  <2>3. PICK j \in at : j = Cut(text, k + 1) /\ Place(at, j) = k + 1
    BY <1>3, <2>1
  <2>4. i < j
    <3> HIDE DEF at, N
    <3> QED
      BY <1>1, <1>2, <2>1, <2>2, <2>3
  <2>5. ASSUME NEW c \in at, i < c, c < j PROVE FALSE
    <3>1. Place(at, c) \in Int /\ k < Place(at, c) /\ Place(at, c) < k + 1
      <4> HIDE DEF at, N
      <4> QED
        BY <1>2, <2>2, <2>3, <2>5
    <3> QED
      BY <2>1, <3>1
  <2>6. \A c \in at : c <= i \/ j <= c
    BY <1>1, <2>5
  <2> QED
    BY <2>2, <2>3, <2>4, <2>6 DEF Neighbours
<1>7. ASSUME NEW i \in at, NEW j \in at, Neighbours(text, i, j)
      PROVE  \E k \in 1..(N - 1) : i = Cut(text, k) /\ j = Cut(text, k + 1)
  <2>1. PICK k \in 1..N : Place(at, i) = k
    BY <1>2
  <2>2. Place(at, j) \in 1..N /\ k < Place(at, j)
    BY <1>2, <1>7, <2>1 DEF Neighbours
  <2>3. k \in 1..(N - 1) /\ k + 1 \in 1..N
    BY <1>2, <2>2
  <2>4. PICK c \in at : Place(at, c) = k + 1
    BY <1>2, <2>3
  <2>5. c = j
    <3>1. c <= i \/ j <= c
      BY <1>7 DEF Neighbours
    <3>2. ~(c < i) /\ c # i
      <4> HIDE DEF at, N
      <4> QED
        BY <1>2, <2>1, <2>4
    <3>3. ~(j < c)
      <4> HIDE DEF at, N
      <4> QED
        BY <1>2, <2>2, <2>3, <2>4
    <3> QED
      BY <1>1, <3>1, <3>2, <3>3
  <2> QED
    BY <1>4, <2>1, <2>3, <2>4, <2>5
<1>8. ASSUME NEW p \in Range(Split(text)) PROVE p \in Parts(text)
  <2>1. PICK k \in 1..(N - 1) : p = Between(text, Cut(text, k), Cut(text, k + 1))
    BY <1>5 DEF Range
  <2>2. Neighbours(text, Cut(text, k), Cut(text, k + 1))
    BY <1>6
  <2> QED
    BY <2>1, <2>2, BetweenIs DEF Neighbours, Parts
<1>9. ASSUME NEW p \in Parts(text) PROVE p \in Range(Split(text))
  <2>1. PICK i \in at, j \in at : Neighbours(text, i, j) /\ p = Between(text, i, j)
    BY DEF Parts
  <2>2. PICK k \in 1..(N - 1) : i = Cut(text, k) /\ j = Cut(text, k + 1)
    BY <1>7, <2>1
  <2>3. Split(text)[k] = p /\ k \in DOMAIN Split(text)
    BY <1>5, <2>1, <2>2
  <2> QED
    BY <2>3 DEF Range
<1> QED
  BY <1>8, <1>9

\* A text that is not broken is one part, itself.
LEMMA UnbrokenIs ==
    ASSUME NEW text \in Texts, Unbroken(text)
    PROVE  Parts(text) = {text} /\ Split(text) = <<text>>
<1>1. Len(text) \in Nat /\ DOMAIN text = 1..Len(text) /\ Cuts(text) = {0, Len(text) + 1}
  BY CutsAre DEF Cuts, Unbroken, Range
<1>2. Between(text, 0, Len(text) + 1) = text
  <2>1. text = [k \in 1..Len(text) |-> text[k]]
    BY DEF Texts
  <2>2. (Len(text) + 1) - 0 - 1 = Len(text) /\ \A k \in 1..Len(text) : 0 + k = k
    BY <1>1
  <2>3. Between(text, 0, Len(text) + 1) = [k \in 1..Len(text) |-> text[k]]
    BY <2>2 DEF Between
  <2> QED
    BY <2>1, <2>3
<1>3. \A i, j : Neighbours(text, i, j) <=> i = 0 /\ j = Len(text) + 1
  BY <1>1 DEF Neighbours
<1>4. Parts(text) = {text}
  BY <1>1, <1>2, <1>3 DEF Parts
<1>5. Cardinality(Cuts(text)) = 2
  <2>1. IsFiniteSet({0}) /\ Cardinality({0}) = 1
    BY FS_Singleton
  <2>2. Len(text) + 1 \notin {0} /\ Cuts(text) = {0} \cup {Len(text) + 1}
    BY <1>1
  <2>3. Cardinality(Cuts(text)) = 1 + 1
    BY <2>1, <2>2, FS_AddElement
  <2> QED
    BY <2>3
<1>6. DOMAIN Split(text) = 1..1 /\ Split(text) = [k \in 1..1 |-> Split(text)[k]]
  BY <1>5 DEF Split
<1>7. Split(text)[1] = text
  <2>1. Split(text)[1] \in Range(Split(text))
    BY <1>6 DEF Range
  <2> QED
    BY <1>4, <2>1, SplitIs
<1> QED
  BY <1>4, <1>6, <1>7

\* What comes before the break is the one's, what comes after it the other's.
JoinsTo(a, b, t) ==
    /\ t \in Texts /\ Len(a) \in Nat /\ Len(b) \in Nat /\ Len(t) = Len(a) + 1 + Len(b)
    /\ \A k \in 1..Len(a) : t[k] = a[k]
    /\ t[Len(a) + 1] = Break
    /\ \A k \in 1..Len(b) : t[Len(a) + 1 + k] = b[k]

\* That is what joining two texts makes of them.
LEMMA JoinOf ==
    ASSUME NEW a \in Texts, NEW b \in Texts
    PROVE  JoinsTo(a, b, a \o <<Break>> \o b)
<1>1. a \in Seq(Letters) /\ b \in Seq(Letters) /\ <<Break>> \in Seq(Letters)
  BY StoresAssumption DEF Texts
<1>2. PICK u : u = a \o <<Break>>
  OBVIOUS
<1>3. /\ u \in Seq(Letters) /\ Len(a) \in Nat /\ Len(u) = Len(a) + 1 /\ Len(b) \in Nat
      /\ \A k \in 1..Len(a) : u[k] = a[k]
      /\ u[Len(a) + 1] = Break
  BY <1>1, <1>2
<1>t. PICK t : t = a \o <<Break>> \o b
  OBVIOUS
<1>4. t = u \o b
  BY <1>2, <1>t
<1>5. /\ t \in Seq(Letters) /\ Len(t) = Len(u) + Len(b)
      /\ \A k \in 1..Len(u) : t[k] = u[k]
      /\ \A k \in 1..Len(b) : t[Len(u) + k] = b[k]
  <2>1. u \in Seq(Letters) /\ b \in Seq(Letters)
    BY <1>1, <1>3
  <2>2. t \in Seq(Letters)
    BY <1>4, <2>1
  <2>3. Len(t) = Len(u) + Len(b)
    BY <1>4, <2>1
  <2>4. \A k \in 1..Len(u) : t[k] = u[k]
    BY <1>4, <2>1
  <2>5. \A k \in 1..Len(b) : t[Len(u) + k] = b[k]
    BY <1>4, <2>1
  <2> QED
    BY <2>2, <2>3, <2>4, <2>5
<1>6. \A k \in 1..Len(a) : k \in 1..Len(u)
  BY <1>3
<1>7. Len(a) + 1 \in 1..Len(u)
  BY <1>3
<1> QED
  BY <1>3, <1>5, <1>6, <1>7, <1>t DEF Texts, JoinsTo

\* It is cut where each was, and is the parts of both.
LEMMA PartsJoin ==
    ASSUME NEW a \in Texts, NEW b \in Texts, NEW t, t = a \o <<Break>> \o b
    PROVE  Parts(t) = Parts(a) \cup Parts(b)
<1> DEFINE m == Len(a) + 1
<1>1. /\ t \in Texts /\ Len(a) \in Nat /\ Len(b) \in Nat /\ Len(t) = m + Len(b)
      /\ \A k \in 1..Len(a) : t[k] = a[k]
      /\ t[m] = Break
      /\ \A k \in 1..Len(b) : t[m + k] = b[k]
  <2>1. /\ t \in Texts /\ Len(a) \in Nat /\ Len(b) \in Nat /\ Len(t) = Len(a) + 1 + Len(b)
        /\ \A k \in 1..Len(a) : t[k] = a[k]
        /\ t[Len(a) + 1] = Break
        /\ \A k \in 1..Len(b) : t[Len(a) + 1 + k] = b[k]
    <3>1. JoinsTo(a, b, t)
      BY JoinOf, Zenon
    <3> QED
      BY <3>1 DEF JoinsTo
  <2> QED
    BY <2>1
<1>2. /\ Cuts(t) \subseteq Int /\ 0 \in Cuts(t) /\ m + Len(b) + 1 \in Cuts(t)
      /\ \A c \in Cuts(t) : 0 <= c /\ c <= m + Len(b) + 1
      /\ \A c \in 1..(m + Len(b)) : c \in Cuts(t) <=> t[c] = Break
  BY <1>1, CutsAre
<1>3. /\ Cuts(a) \subseteq Int /\ 0 \in Cuts(a) /\ m \in Cuts(a)
      /\ \A c \in Cuts(a) : 0 <= c /\ c <= m
      /\ \A c \in 1..Len(a) : c \in Cuts(a) <=> a[c] = Break
  BY CutsAre
<1>4. /\ Cuts(b) \subseteq Int /\ 0 \in Cuts(b) /\ Len(b) + 1 \in Cuts(b)
      /\ \A c \in Cuts(b) : 0 <= c /\ c <= Len(b) + 1
      /\ \A c \in 1..Len(b) : c \in Cuts(b) <=> b[c] = Break
  BY CutsAre
<1>m. m \in Int /\ m >= 1 /\ Len(a) = m - 1
  BY <1>1
<1>5. ASSUME NEW c \in Int, c <= m PROVE c \in Cuts(t) <=> c \in Cuts(a)
  <2>1. CASE c < 0
    BY <1>2, <1>3, <2>1
  <2>2. CASE c = 0
    BY <1>2, <1>3, <2>2
  <2>3. CASE c = m
    <3>1. m \in 1..(m + Len(b))
      BY <1>1, <1>m
    <3> QED
      BY <1>1, <1>2, <1>3, <2>3, <3>1
  <2>4. CASE 0 < c /\ c < m
    <3>1. c \in 1..Len(a) /\ c \in 1..(m + Len(b))
      BY <1>1, <1>m, <2>4
    <3> HIDE DEF m
    <3> QED
      BY <1>1, <1>2, <1>3, <3>1
  <2> HIDE DEF m
  <2> QED
    BY <1>m, <1>5, <2>1, <2>2, <2>3, <2>4
<1>6. ASSUME NEW c \in Int, c >= 0 PROVE m + c \in Cuts(t) <=> c \in Cuts(b)
  <2>1. CASE c = 0
    <3>1. m \in 1..(m + Len(b)) /\ m + 0 = m
      BY <1>1, <1>m
    <3> QED
      BY <1>1, <1>2, <1>4, <2>1, <3>1
  <2>2. CASE c > Len(b) + 1
    <3> HIDE DEF m
    <3>1. m + c > m + Len(b) + 1
      BY <1>1, <1>m, <2>2
    <3> QED
      BY <1>1, <1>m, <1>2, <1>4, <2>2, <3>1
  <2>3. CASE c = Len(b) + 1
    <3> HIDE DEF m
    <3>1. m + c = m + Len(b) + 1
      BY <1>1, <1>m, <2>3
    <3> QED
      BY <1>2, <1>4, <2>3, <3>1
  <2>4. CASE 0 < c /\ c < Len(b) + 1
    <3>1. c \in 1..Len(b) /\ m + c \in 1..(m + Len(b))
      BY <1>1, <1>m, <2>4
    <3> HIDE DEF m
    <3> QED
      BY <1>1, <1>2, <1>4, <3>1
  <2> HIDE DEF m
  <2> QED
    BY <1>1, <1>6, <2>1, <2>2, <2>3, <2>4
<1> HIDE DEF m
<1>7. ASSUME NEW i \in Int, NEW j \in Int, 0 <= i, i < j, j <= m
      PROVE  Between(t, i, j) = Between(a, i, j)
  <2> SUFFICES ASSUME NEW k \in 1..(j - i - 1) PROVE t[i + k] = a[i + k]
    BY DEF Between
  <2>1. i + k \in 1..Len(a)
    BY <1>7, <1>m
  <2> QED
    BY <1>1, <2>1
<1>8. ASSUME NEW i \in Int, NEW j \in Int, 0 <= i, i < j, j <= Len(b) + 1
      PROVE  Between(t, m + i, m + j) = Between(b, i, j)
  <2>1. (m + j) - (m + i) - 1 = j - i - 1
    BY <1>m
  <2>2. \A k \in 1..(j - i - 1) : t[(m + i) + k] = b[i + k]
    <3> SUFFICES ASSUME NEW k \in 1..(j - i - 1) PROVE t[(m + i) + k] = b[i + k]
      OBVIOUS
    <3>1. i + k \in 1..Len(b) /\ (m + i) + k = m + (i + k)
      BY <1>1, <1>8, <1>m
    <3> QED
      BY <1>1, <3>1
  <2> QED
    BY <2>1, <2>2 DEF Between
<1>9. ASSUME NEW p \in Parts(t) PROVE p \in Parts(a) \cup Parts(b)
  <2>1. PICK i \in Cuts(t), j \in Cuts(t) : Neighbours(t, i, j) /\ p = Between(t, i, j)
    BY DEF Parts
  <2>2. /\ i \in Int /\ j \in Int /\ i < j /\ 0 <= i /\ j <= m + Len(b) + 1
        /\ \A c \in Cuts(t) : c <= i \/ j <= c
    BY <1>2, <2>1 DEF Neighbours
  <2>3. m \in Cuts(t)
    BY <1>3, <1>5, <1>m
  <2>4. m <= i \/ j <= m
    BY <2>2, <2>3
  <2>5. CASE j <= m
    <3>1. i \in Cuts(a) /\ j \in Cuts(a)
      BY <1>5, <1>m, <2>2, <2>5
    <3>2. \A c \in Cuts(a) : c <= i \/ j <= c
      BY <1>3, <1>5, <2>2
    <3>3. Neighbours(a, i, j)
      BY <2>2, <3>1, <3>2 DEF Neighbours
    <3>4. p = Between(a, i, j)
      BY <1>7, <2>1, <2>2, <2>5
    <3> QED
      BY <3>1, <3>3, <3>4, BetweenIs, <2>2 DEF Parts
  <2>6. CASE m <= i
    <3>1. PICK x \in Int, y \in Int : i = m + x /\ j = m + y /\ 0 <= x /\ x < y /\ y <= Len(b) + 1
      <4>1. i - m \in Int /\ j - m \in Int /\ i = m + (i - m) /\ j = m + (j - m)
            /\ 0 <= i - m /\ i - m < j - m /\ j - m <= Len(b) + 1
        BY <1>1, <1>m, <2>2, <2>6
      <4> QED
        BY <4>1
    <3>2. x \in Cuts(b) /\ y \in Cuts(b)
      BY <1>6, <3>1
    <3>3. ASSUME NEW c \in Cuts(b) PROVE c <= x \/ y <= c
      <4>1. c \in Int /\ c >= 0 /\ m + c \in Cuts(t)
        BY <1>4, <1>6
      <4>2. m + c <= i \/ j <= m + c
        BY <2>2, <4>1
      <4> QED
        BY <1>m, <3>1, <4>1, <4>2
    <3>4. Neighbours(b, x, y)
      BY <3>1, <3>2, <3>3 DEF Neighbours
    <3>5. p = Between(b, x, y)
      BY <1>8, <2>1, <3>1
    <3> QED
      BY <3>1, <3>2, <3>4, <3>5, BetweenIs DEF Parts
  <2> QED
    BY <2>4, <2>5, <2>6
<1>10. ASSUME NEW p \in Parts(a) PROVE p \in Parts(t)
  <2>1. PICK i \in Cuts(a), j \in Cuts(a) : Neighbours(a, i, j) /\ p = Between(a, i, j)
    BY DEF Parts
  <2>2. /\ i \in Int /\ j \in Int /\ i < j /\ 0 <= i /\ j <= m
        /\ \A c \in Cuts(a) : c <= i \/ j <= c
    BY <1>3, <2>1 DEF Neighbours
  <2>3. i \in Cuts(t) /\ j \in Cuts(t)
    BY <1>5, <1>m, <2>2, <2>1
  <2>4. ASSUME NEW c \in Cuts(t) PROVE c <= i \/ j <= c
    BY <1>2, <1>5, <1>m, <2>2
  <2>5. Neighbours(t, i, j)
    BY <2>2, <2>3, <2>4 DEF Neighbours
  <2>6. p = Between(t, i, j)
    BY <1>7, <2>1, <2>2
  <2> QED
    BY <1>1, <2>2, <2>3, <2>5, <2>6, BetweenIs DEF Parts
<1>11. ASSUME NEW p \in Parts(b) PROVE p \in Parts(t)
  <2>1. PICK i \in Cuts(b), j \in Cuts(b) : Neighbours(b, i, j) /\ p = Between(b, i, j)
    BY DEF Parts
  <2>2. /\ i \in Int /\ j \in Int /\ i < j /\ 0 <= i /\ j <= Len(b) + 1
        /\ \A c \in Cuts(b) : c <= i \/ j <= c
    BY <1>4, <2>1 DEF Neighbours
  <2>3. j >= 0 /\ m + i < m + j
    BY <1>m, <2>2
  <2>4. m + i \in Cuts(t) /\ m + j \in Cuts(t)
    BY <1>6, <2>1, <2>2, <2>3
  <2>5. ASSUME NEW c \in Cuts(t) PROVE c <= m + i \/ m + j <= c
    <3>1. c \in Int
      BY <1>2
    <3>2. CASE c < m
      BY <1>m, <2>2, <3>1, <3>2
    <3>3. CASE c >= m
      <4>1. PICK d \in Int : c = m + d /\ d >= 0
        <5>1. c - m \in Int /\ c = m + (c - m) /\ c - m >= 0
          BY <1>m, <3>1, <3>3
        <5> QED
          BY <5>1
      <4>2. d \in Cuts(b)
        BY <1>6, <4>1
      <4>3. d <= i \/ j <= d
        BY <2>2, <4>2
      <4> QED
        BY <1>m, <2>2, <4>1, <4>3
    <3> QED
      BY <1>m, <3>1, <3>2, <3>3
  <2>6. Neighbours(t, m + i, m + j)
    BY <2>3, <2>4, <2>5 DEF Neighbours
  <2>7. p = Between(t, m + i, m + j)
    BY <1>8, <2>1, <2>2
  <2> QED
    BY <1>1, <2>3, <2>4, <2>6, <2>7, BetweenIs DEF Parts
<1> QED
  BY <1>9, <1>10, <1>11

LEMMA WithinSelf ==
    ASSUME NEW t \in Texts PROVE Within(t, t)
<1>1. Len(t) \in Nat /\ DOMAIN t = 1..Len(t)
  BY DEF Texts
<1>2. 0 \in 0..(Len(t) - Len(t)) /\ \A k \in DOMAIN t : t[0 + k] = t[k]
  BY <1>1
<1> QED
  BY <1>2 DEF Within

\* What is in a part is in the whole.
LEMMA WithinTrans ==
    ASSUME NEW a \in Texts, NEW b \in Texts, NEW c \in Texts, Within(a, b), Within(b, c)
    PROVE  Within(a, c)
<1>1. /\ Len(a) \in Nat /\ Len(b) \in Nat /\ Len(c) \in Nat
      /\ DOMAIN b = 1..Len(b) /\ DOMAIN c = 1..Len(c)
  BY DEF Texts
<1>2. PICK i \in 0..(Len(a) - Len(b)) : \A k \in DOMAIN b : a[i + k] = b[k]
  BY DEF Within
<1>3. PICK j \in 0..(Len(b) - Len(c)) : \A k \in DOMAIN c : b[j + k] = c[k]
  BY DEF Within
<1>4. i + j \in 0..(Len(a) - Len(c))
  BY <1>1
<1>5. ASSUME NEW k \in DOMAIN c PROVE a[(i + j) + k] = c[k]
  <2>1. j + k \in DOMAIN b /\ (i + j) + k = i + (j + k)
    BY <1>1
  <2> QED
    BY <1>2, <1>3, <2>1
<1> QED
  BY <1>4, <1>5 DEF Within

LEMMA WithinJoin ==
    ASSUME NEW a \in Texts, NEW b \in Texts
    PROVE  /\ a \o <<Break>> \o b \in Texts
           /\ Within(a \o <<Break>> \o b, a) /\ Within(a \o <<Break>> \o b, b)
<1>1. PICK t : t = a \o <<Break>> \o b
  OBVIOUS
<1>2. JoinsTo(a, b, t)
  BY <1>1, JoinOf, Zenon
<1>3. /\ t \in Texts /\ Len(a) \in Nat /\ Len(b) \in Nat /\ Len(t) = Len(a) + 1 + Len(b)
      /\ \A k \in 1..Len(a) : t[k] = a[k]
      /\ \A k \in 1..Len(b) : t[Len(a) + 1 + k] = b[k]
  BY <1>2 DEF JoinsTo
<1>4. DOMAIN a = 1..Len(a) /\ DOMAIN b = 1..Len(b)
  BY DEF Texts
<1>5. Within(t, a)
  <2>1. 0 \in 0..(Len(t) - Len(a)) /\ \A k \in DOMAIN a : t[0 + k] = a[k]
    BY <1>3, <1>4
  <2> QED
    BY <2>1 DEF Within
<1>6. Within(t, b)
  <2>1. Len(a) + 1 \in 0..(Len(t) - Len(b))
    BY <1>3
  <2>2. \A k \in DOMAIN b : t[(Len(a) + 1) + k] = b[k]
    BY <1>3, <1>4, Zenon
  <2> QED
    BY <2>1, <2>2, Zenon DEF Within
<1> QED
  BY <1>1, <1>3, <1>5, <1>6

\* Texts that are joined keep their parts, and gain none.
PartsKept(values) ==
    /\ Joined[values] \in Texts
    /\ Parts(Joined[values]) = UNION {Parts(values[k]) : k \in DOMAIN values}
    /\ \A k \in DOMAIN values : Within(Joined[values], values[k])

LEMMA JoinedKeeps ==
    ASSUME NEW values \in Seq(Texts), values # <<>>
    PROVE  PartsKept(values)
<1> DEFINE Lost(n) == \E v \in Seq(Texts) : v # <<>> /\ Len(v) = n /\ ~PartsKept(v)
           losing == {n \in Nat : Lost(n)}
<1>1. ASSUME losing # {} PROVE FALSE
  <2>1. PICK n \in losing : \A m \in losing : n <= m
    <3>1. losing \subseteq Nat
      OBVIOUS
    <3> HIDE DEF losing
    <3> QED
      BY <1>1, <3>1, LeastOf
  <2>2. PICK v \in Seq(Texts) : v # <<>> /\ Len(v) = n /\ ~PartsKept(v)
    BY <2>1
  <2>3. n \in Nat /\ n # 0 /\ DOMAIN v = 1..n
    BY <2>1, <2>2
  <2>4. CASE n = 1
    <3>1. Joined[v] = v[1] /\ DOMAIN v = {1} /\ v[1] \in Texts
      BY <2>2, <2>3, <2>4, JoinedIs
    <3>2. UNION {Parts(v[k]) : k \in DOMAIN v} = Parts(v[1])
      BY <3>1
    <3>3. Within(v[1], v[1])
      BY <3>1, WithinSelf
    <3> QED
      BY <2>2, <3>1, <3>2, <3>3 DEF PartsKept
  <2>5. CASE n >= 2
    <3>1. PICK w : w = Merged(v)
      OBVIOUS
    <3>2. PICK t : t = v[1] \o <<Break>> \o v[2]
      OBVIOUS
    <3>3. /\ w \in Seq(Texts) /\ Len(w) = n - 1 /\ w[1] = t
          /\ \A k \in 2..Len(w) : w[k] = v[k + 1]
      BY <2>2, <2>5, <3>1, <3>2, MergedIs
    <3>4. Joined[v] = Joined[w]
      BY <2>2, <2>5, <3>1, JoinedIs
    <3>5. PartsKept(w)
      <4>1. n - 1 \in Nat /\ n - 1 < n /\ n - 1 >= 1
        BY <2>3, <2>5
      <4>2. n - 1 \notin losing
        BY <2>1, <2>3, <4>1
      <4>3. w # <<>>
        BY <3>3, <4>1
      <4> QED
        BY <3>3, <4>1, <4>2, <4>3
    <3>6. /\ v[1] \in Texts /\ v[2] \in Texts /\ t \in Texts
          /\ Parts(t) = Parts(v[1]) \cup Parts(v[2])
          /\ Within(t, v[1]) /\ Within(t, v[2])
      <4>1. v[1] \in Texts /\ v[2] \in Texts
        BY <2>3, <2>5
      <4> QED
        BY <3>2, <4>1, PartsJoin, WithinJoin
    <3>7. DOMAIN w = 1..(n - 1)
      BY <3>3
    <3>w. Joined[w] \in Texts /\ \A k \in 1..(n - 1) : Within(Joined[w], w[k])
      BY <3>5, <3>7 DEF PartsKept
    <3>8. ASSUME NEW k \in DOMAIN v PROVE Within(Joined[w], v[k])
      <4>1. CASE k = 1 \/ k = 2
        <5>1. 1 \in 1..(n - 1)
          BY <2>3, <2>5
        <5>2. Within(Joined[w], t)
          BY <3>3, <3>w, <5>1
        <5> QED
          BY <3>6, <3>w, <4>1, <5>2, WithinTrans
      <4>2. CASE k \in 3..n
        <5>1. k - 1 \in 2..Len(w) /\ k - 1 \in 1..(n - 1) /\ (k - 1) + 1 = k
          BY <2>3, <3>3, <4>2
        <5> QED
          BY <3>3, <3>w, <5>1
      <4> QED
        BY <2>3, <4>1, <4>2
    <3>9. ASSUME NEW p PROVE (\E k \in DOMAIN w : p \in Parts(w[k])) <=> \E k \in DOMAIN v : p \in Parts(v[k])
      <4>1. ASSUME NEW k \in DOMAIN w, p \in Parts(w[k]) PROVE \E j \in DOMAIN v : p \in Parts(v[j])
        <5>1. CASE k = 1
          <6>1. 1 \in DOMAIN v /\ 2 \in DOMAIN v
            BY <2>3, <2>5
          <6>2. p \in Parts(v[1]) \/ p \in Parts(v[2])
            BY <3>3, <3>6, <4>1, <5>1
          <6> QED
            BY <6>1, <6>2
        <5>2. CASE k # 1
          <6>1. k \in 2..Len(w) /\ k + 1 \in DOMAIN v
            BY <2>3, <3>3, <3>7, <5>2
          <6> QED
            BY <3>3, <4>1, <6>1
        <5> QED
          BY <5>1, <5>2
      <4>2. ASSUME NEW k \in DOMAIN v, p \in Parts(v[k]) PROVE \E j \in DOMAIN w : p \in Parts(w[j])
        <5>1. CASE k = 1 \/ k = 2
          <6>1. 1 \in DOMAIN w
            BY <2>3, <2>5, <3>7
          <6>2. p \in Parts(w[1])
            BY <3>3, <3>6, <4>2, <5>1
          <6> QED
            BY <6>1, <6>2
        <5>2. CASE k \in 3..n
          <6>1. k - 1 \in 2..Len(w) /\ k - 1 \in DOMAIN w /\ (k - 1) + 1 = k
            BY <2>3, <3>3, <3>7, <5>2
          <6>2. w[k - 1] = v[k]
            BY <3>3, <6>1
          <6> QED
            BY <4>2, <6>1, <6>2
        <5> QED
          BY <2>3, <5>1, <5>2
      <4> QED
        BY <4>1, <4>2
    <3>10. UNION {Parts(w[k]) : k \in DOMAIN w} = UNION {Parts(v[k]) : k \in DOMAIN v}
      BY <3>9
    <3> QED
      BY <2>2, <3>4, <3>5, <3>8, <3>10 DEF PartsKept
  <2> QED
    BY <2>3, <2>4, <2>5
<1>2. Len(values) \in Nat
  OBVIOUS
<1>3. Len(values) \notin losing
  BY <1>1
<1> QED
  BY <1>2, <1>3

LEMMA LowerIs ==
    ASSUME NEW t \in Texts
    PROVE  /\ Lower(t) \in Texts /\ Len(Lower(t)) = Len(t) /\ DOMAIN Lower(t) = DOMAIN t
           /\ \A k \in DOMAIN t : Lower(t)[k] = LowerOf[t[k]]
<1>1. t \in Seq(Letters) /\ Len(t) \in Nat /\ DOMAIN t = 1..Len(t)
  BY DEF Texts
<1>2. \A k \in DOMAIN t : LowerOf[t[k]] \in Letters
  BY <1>1, StoresAssumption
<1>3. PICK u : u = [k \in 1..Len(t) |-> LowerOf[t[k]]]
  OBVIOUS
<1>4. u \in Seq(Letters) /\ Len(u) = Len(t)
  BY <1>1, <1>2, <1>3
<1>5. Lower(t) = u
  BY <1>1, <1>3 DEF Lower
<1> QED
  BY <1>1, <1>3, <1>4, <1>5 DEF Texts

LEMMA LowerWithin ==
    ASSUME NEW a \in Texts, NEW b \in Texts, Within(a, b)
    PROVE  Within(Lower(a), Lower(b))
<1>1. /\ Len(a) \in Nat /\ Len(b) \in Nat /\ DOMAIN a = 1..Len(a) /\ DOMAIN b = 1..Len(b)
  BY DEF Texts
<1>2. PICK i \in 0..(Len(a) - Len(b)) : \A k \in DOMAIN b : a[i + k] = b[k]
  BY DEF Within
<1>3. /\ Len(Lower(a)) = Len(a) /\ Len(Lower(b)) = Len(b) /\ DOMAIN Lower(b) = DOMAIN b
      /\ \A k \in DOMAIN a : Lower(a)[k] = LowerOf[a[k]]
      /\ \A k \in DOMAIN b : Lower(b)[k] = LowerOf[b[k]]
  BY LowerIs
<1>4. ASSUME NEW k \in DOMAIN b PROVE Lower(a)[i + k] = Lower(b)[k]
  <2>1. i + k \in DOMAIN a
    BY <1>1
  <2> QED
    BY <1>2, <1>3, <2>1
<1> QED
  BY <1>3, <1>4 DEF Within

\* A finite set of whole numbers has a greatest.
LEMMA GreatestOf ==
    ASSUME NEW n \in Nat, NEW T, T \subseteq 0..n, T # {}
    PROVE  \E x \in T : \A y \in T : y <= x
<1> DEFINE U == {i \in 0..n : n - i \in T}
<1>1. PICK x0 \in T : TRUE
  OBVIOUS
<1>2. n - x0 \in U
  BY <1>1
<1>3. U \subseteq Nat /\ U # {}
  BY <1>2
<1>4. PICK u \in U : \A y \in U : u <= y
  <2> HIDE DEF U
  <2> QED
    BY <1>3, LeastOf
<1>5. n - u \in T
  BY <1>4
<1>6. ASSUME NEW y \in T PROVE y <= n - u
  <2>1. y \in 0..n /\ n - y \in 0..n /\ n - (n - y) = y
    OBVIOUS
  <2>2. n - y \in U
    BY <2>1
  <2>3. u <= n - y /\ u \in 0..n
    BY <1>4, <2>2
  <2> QED
    BY <2>1, <2>3
<1> QED
  BY <1>5, <1>6

\* What is stripped is a piece of what it is stripped from.
LEMMA StripIs ==
    ASSUME NEW t \in Texts
    PROVE  Strip(t) \in Texts /\ Within(t, Strip(t))
<1> DEFINE solid == {i \in DOMAIN t : t[i] \notin {Blank, Break}}
<1>1. t \in Seq(Letters) /\ Len(t) \in Nat /\ DOMAIN t = 1..Len(t)
  BY DEF Texts
<1>2. CASE solid = {}
  <2>1. Strip(t) = <<>>
    BY <1>2 DEF Strip
  <2>2. <<>> \in Texts /\ Len(<<>>) = 0 /\ DOMAIN <<>> = {}
    BY DEF Texts
  <2>3. 0 \in 0..(Len(t) - Len(<<>>)) /\ \A k \in DOMAIN <<>> : t[0 + k] = <<>>[k]
    BY <1>1, <2>2
  <2>4. Within(t, <<>>)
    BY <2>3 DEF Within
  <2> QED
    BY <2>1, <2>2, <2>4
<1>3. CASE solid # {}
  <2>1. \E x \in solid : \A y \in solid : x <= y
    <3>1. solid \subseteq Nat
      BY <1>1
    <3> HIDE DEF solid
    <3> QED
      BY <1>3, <3>1, LeastOf
  <2>2. \E x \in solid : \A y \in solid : y <= x
    <3>1. solid \subseteq 0..Len(t)
      BY <1>1
    <3> HIDE DEF solid
    <3> QED
      BY <1>1, <1>3, <3>1, GreatestOf
  <2>3. PICK lo \in solid : lo = Min(solid) /\ \A y \in solid : lo <= y
    <3> HIDE DEF solid
    <3> QED
      BY <2>1 DEF Min
  <2>4. PICK hi \in solid : hi = Max(solid) /\ \A y \in solid : y <= hi
    <3> HIDE DEF solid
    <3>1. \E x \in solid : \A y \in solid : x >= y
      BY <2>2
    <3> QED
      BY <2>2, <3>1 DEF Max
  <2>5. lo \in 1..Len(t) /\ hi \in 1..Len(t) /\ lo <= hi
    BY <1>1, <2>3, <2>4
  <2>6. Strip(t) = Between(t, lo - 1, hi + 1)
    BY <1>3, <2>3, <2>4 DEF Strip
  <2> HIDE DEF solid
  <2> DEFINE n == hi - lo + 1
  <2>7. n \in Nat /\ (hi + 1) - (lo - 1) - 1 = n
    BY <2>5
  <2>8. Strip(t) = [k \in 1..n |-> t[(lo - 1) + k]]
    BY <2>6, <2>7 DEF Between
  <2>9. \A k \in 1..n : t[(lo - 1) + k] \in Letters
    <3> SUFFICES ASSUME NEW k \in 1..n PROVE t[(lo - 1) + k] \in Letters
      OBVIOUS
    <3>1. (lo - 1) + k \in 1..Len(t)
      BY <1>1, <2>5
    <3> QED
      BY <1>1, <3>1
  <2>10. lo - 1 \in 0..(Len(t) - n)
    BY <1>1, <2>5
  <2> HIDE DEF n
  <2>11. Strip(t) \in Seq(Letters) /\ Len(Strip(t)) = n /\ DOMAIN Strip(t) = 1..n
    BY <2>7, <2>8, <2>9
  <2>12. Within(t, Strip(t))
    BY <2>8, <2>10, <2>11 DEF Within
  <2> QED
    BY <2>11, <2>12 DEF Texts
<1> QED
  BY <1>2, <1>3

\* What is wanted is a piece of what was asked, in the same case.
LEMMA WantedIs ==
    ASSUME NEW t \in Texts
    PROVE  /\ Wanted(t) \in Texts
           /\ Wanted(t) = <<>> <=> Strip(t) = <<>>
           /\ Within(Lower(t), Wanted(t))
<1>1. Strip(t) \in Texts /\ Within(t, Strip(t))
  BY StripIs
<1>2. Lower(Strip(t)) \in Texts /\ Len(Lower(Strip(t))) = Len(Strip(t))
  BY <1>1, LowerIs
<1>3. Within(Lower(t), Lower(Strip(t)))
  BY <1>1, LowerWithin
<1>4. Lower(Strip(t)) = <<>> <=> Strip(t) = <<>>
  BY <1>1, <1>2 DEF Texts
<1> QED
  BY <1>2, <1>3, <1>4 DEF Wanted

\* What is searched holds the id, the name and the aliases.
LEMMA SearchableHolds ==
    ASSUME NEW id \in Texts, NEW name \in Texts, NEW aliases \in Texts, NEW part \in Texts,
           NEW key, key[2] = id, NEW row, row.name = name, row.aliases = aliases,
           Within(Lower(id), part) \/ Within(Lower(name), part) \/ Within(Lower(aliases), part)
    PROVE  Within(Searchable(key, row), part)
<1>1. PICK a : a = id \o <<Break>> \o name
  OBVIOUS
<1>2. PICK t : t = a \o <<Break>> \o aliases
  OBVIOUS
<1>3. a \in Texts /\ Within(a, id) /\ Within(a, name)
  BY <1>1, WithinJoin
<1>4. t \in Texts /\ Within(t, a) /\ Within(t, aliases)
  BY <1>2, <1>3, WithinJoin
<1>5. Within(t, id) /\ Within(t, name)
  BY <1>3, <1>4, WithinTrans
<1>6. /\ Lower(t) \in Texts /\ Lower(id) \in Texts /\ Lower(name) \in Texts /\ Lower(aliases) \in Texts
      /\ Within(Lower(t), Lower(id)) /\ Within(Lower(t), Lower(name))
      /\ Within(Lower(t), Lower(aliases))
  BY <1>4, <1>5, LowerIs, LowerWithin
<1>7. Within(Lower(t), part)
  BY <1>6, WithinTrans
<1>8. Searchable(key, row) = Lower(t)
  BY <1>1, <1>2 DEF Searchable
<1> QED
  BY <1>7, <1>8

LEMMA BeginsWithin ==
    ASSUME NEW a \in Texts, NEW b \in Texts, Begins(a, b) PROVE Within(a, b)
<1>1. Len(a) \in Nat /\ Len(b) \in Nat /\ DOMAIN b = 1..Len(b)
  BY DEF Texts
<1>2. 0 \in 0..(Len(a) - Len(b)) /\ \A k \in DOMAIN b : a[0 + k] = b[k]
  BY <1>1 DEF Begins
<1> QED
  BY <1>2 DEF Within

\* What is equal to a piece is one: an alias, wanted as what was asked is.
LEMMA WantedWithin ==
    ASSUME NEW a \in Texts, NEW b \in Texts, Within(a, b) PROVE Within(Lower(a), Wanted(b))
<1>1. Lower(a) \in Texts /\ Lower(b) \in Texts /\ Within(Lower(a), Lower(b))
  BY LowerIs, LowerWithin
<1>2. Wanted(b) \in Texts /\ Within(Lower(b), Wanted(b))
  BY WantedIs
<1> QED
  BY <1>1, <1>2, WithinTrans

\* No part of nothing is wanted.
LEMMA NothingWanted == Wanted(<<>>) = <<>>
<1>1. <<>> \in Texts /\ DOMAIN <<>> = {}
  BY DEF Texts
<1>2. Strip(<<>>) = <<>>
  BY <1>1 DEF Strip
<1> QED
  BY <1>1, <1>2, WantedIs

\* An alias that is not broken is read back from the row as it was given, and when none
\* is, nothing else is.
LEMMA AliasesFound ==
    ASSUME NEW values \in Seq(Texts), NEW want, want # <<>>
    PROVE  /\ \A k \in DOMAIN values : Unbroken(values[k]) /\ Wanted(values[k]) = want =>
                 \E v \in Range(Unjoined(Joined[values])) : Wanted(v) = want
           /\ (\A k \in DOMAIN values : Unbroken(values[k])) =>
                 \A v \in Range(Unjoined(Joined[values])) : v \in Range(values)
<1>1. CASE values = <<>>
  <2>0. Joined[values] = <<>>
    BY <1>1, JoinedIs, Zenon
  <2>1. Unjoined(Joined[values]) = <<>> /\ DOMAIN values = {}
    BY <1>1, <2>0 DEF Unjoined
  <2>2. Range(Unjoined(Joined[values])) = {}
    BY <2>1 DEF Range
  <2> QED
    BY <2>1, <2>2
<1>2. CASE values # <<>>
  <2>1. PICK t : t = Joined[values]
    OBVIOUS
  <2>2. /\ t \in Texts /\ Parts(t) = UNION {Parts(values[k]) : k \in DOMAIN values}
        /\ \A k \in DOMAIN values : Within(t, values[k])
    BY <1>2, <2>1, JoinedKeeps, Zenon DEF PartsKept
  <2>3. \A k \in DOMAIN values : values[k] \in Texts
    OBVIOUS
  <2>4. t # <<>> => Range(Unjoined(t)) = Parts(t)
    BY <2>2, SplitIs DEF Unjoined
  <2>5. t = <<>> => Range(Unjoined(t)) = {}
    BY DEF Unjoined, Range
  <2>6. ASSUME NEW k \in DOMAIN values, Unbroken(values[k]), Wanted(values[k]) = want
        PROVE  \E v \in Range(Unjoined(t)) : Wanted(v) = want
    <3>1. Parts(values[k]) = {values[k]}
      BY <2>3, <2>6, UnbrokenIs
    <3>2. values[k] \in Parts(t)
      BY <2>2, <3>1
    <3>3. t # <<>>
      <4> SUFFICES ASSUME t = <<>> PROVE FALSE
        OBVIOUS
      <4>1. PICK v \in Texts : v = values[k]
        BY <2>3
      <4>2. Within(t, v)
        BY <2>2, <4>1
      <4>3. Len(v) \in Nat /\ Len(t) = 0 /\ \E i \in 0..(Len(t) - Len(v)) : TRUE
        BY <4>2 DEF Within, Texts
      <4>4. Len(v) = 0
        BY <4>3
      <4>5. v = <<>>
        BY <4>4 DEF Texts
      <4> QED
        BY <2>6, <4>1, <4>5, NothingWanted
    <3> QED
      BY <2>4, <2>6, <3>2, <3>3
  <2>7. ASSUME \A k \in DOMAIN values : Unbroken(values[k]), NEW v \in Range(Unjoined(t))
        PROVE  v \in Range(values)
    <3>1. v \in Parts(t)
      BY <2>4, <2>5
    <3>2. PICK k \in DOMAIN values : v \in Parts(values[k])
      BY <2>2, <3>1
    <3>3. v = values[k]
      BY <2>3, <2>7, <3>2, UnbrokenIs
    <3> QED
      BY <3>3 DEF Range
  <2> QED
    BY <2>1, <2>6, <2>7
<1> QED
  BY <1>1, <1>2

\* What is stored is what was given, and what was suggested is about an asset.
RowsKept ==
    /\ DOMAIN given \subseteq Projects \X Ids /\ DOMAIN rows = DOMAIN given
    /\ \A k \in DOMAIN given :
          /\ given[k].name \in Named /\ given[k].aliases \in AliasLists
          /\ rows[k] = [name |-> given[k].name, aliases |-> Joined[given[k].aliases]]
    /\ proposed \subseteq Projects \X Ids \X Proposed

LEMMA RowIs ==
    ASSUME RowsKept, NEW k \in DOMAIN given
    PROVE  /\ k[2] \in Texts /\ given[k].name \in Texts /\ given[k].aliases \in Seq(Texts)
           /\ rows[k].name = given[k].name /\ rows[k].aliases = Joined[given[k].aliases]
           /\ rows[k].aliases \in Texts
           /\ \A i \in DOMAIN given[k].aliases : Within(rows[k].aliases, given[k].aliases[i])
<1>1. /\ k \in Projects \X Ids /\ given[k].name \in Named /\ given[k].aliases \in AliasLists
      /\ rows[k] = [name |-> given[k].name, aliases |-> Joined[given[k].aliases]]
  BY DEF RowsKept
<1>2. k[2] \in Texts /\ given[k].name \in Texts
  BY <1>1, StoresAssumption
<1>3. PICK list \in Seq(Texts) : list = given[k].aliases
  BY <1>1, StoresAssumption
<1>4. rows[k].name = given[k].name /\ rows[k].aliases = Joined[list]
  BY <1>1, <1>3
<1>5. Joined[list] \in Texts /\ \A i \in DOMAIN list : Within(Joined[list], list[i])
  <2>1. CASE list = <<>>
    <3>1. Joined[list] = <<>>
      BY <2>1, JoinedIs, Zenon
    <3>2. <<>> \in Texts /\ DOMAIN list = {}
      BY <2>1 DEF Texts
    <3> QED
      BY <3>1, <3>2
  <2>2. CASE list # <<>>
    BY <2>2, JoinedKeeps DEF PartsKept
  <2> QED
    BY <2>1, <2>2
<1> QED
  BY <1>2, <1>3, <1>4, <1>5

\* What a term may be looking for in an asset.
AnswersTo(k, term, suggested) ==
    \/ Lower(k[2]) = Wanted(term)
    \/ Begins(Lower(given[k].name), Wanted(term))
    \/ \E i \in DOMAIN given[k].aliases : Wanted(given[k].aliases[i]) = Wanted(term)
    \/ \E v \in suggested : Wanted(v) = Wanted(term)

\* Whatever answers a term is among the rows it is ranked with.
LEMMA NoneIsMissed ==
    ASSUME RowsKept, NEW scope, NEW term \in Texts, NEW matching,
           NEW k \in DOMAIN Scoped(given, scope), AnswersTo(k, term, Suggested(scope, k[2]))
    PROVE  k \in Candidates(scope, term, matching)
<1>1. k \in DOMAIN given /\ k \in DOMAIN Scoped(rows, scope)
  BY DEF Scoped, RowsKept
<1>2. Wanted(term) \in Texts
  BY WantedIs
<1>3. /\ k[2] \in Texts /\ given[k].name \in Texts /\ given[k].aliases \in Seq(Texts)
      /\ rows[k].name = given[k].name /\ rows[k].aliases \in Texts
      /\ \A i \in DOMAIN given[k].aliases : Within(rows[k].aliases, given[k].aliases[i])
  BY <1>1, RowIs
<1>4. PICK id \in Texts : id = k[2]
  BY <1>3
<1>5. PICK name \in Texts : name = given[k].name
  BY <1>3
<1>6. PICK joined \in Texts : joined = rows[k].aliases
  BY <1>3
<1>7. Lower(id) \in Texts /\ Lower(name) \in Texts
  BY LowerIs
<1>8. CASE Lower(k[2]) = Wanted(term)
  <2>1. Within(Lower(id), Wanted(term))
    BY <1>4, <1>7, <1>8, WithinSelf
  <2>2. Within(Searchable(k, rows[k]), Wanted(term))
    BY <1>2, <1>3, <1>4, <1>5, <1>6, <2>1, SearchableHolds
  <2> QED
    BY <1>1, <2>2 DEF Candidates
<1>9. CASE Begins(Lower(given[k].name), Wanted(term))
  <2>1. Within(Lower(name), Wanted(term))
    BY <1>2, <1>5, <1>7, <1>9, BeginsWithin
  <2>2. Within(Searchable(k, rows[k]), Wanted(term))
    BY <1>2, <1>3, <1>4, <1>5, <1>6, <2>1, SearchableHolds
  <2> QED
    BY <1>1, <2>2 DEF Candidates
<1>10. CASE \E i \in DOMAIN given[k].aliases : Wanted(given[k].aliases[i]) = Wanted(term)
  <2>1. PICK i \in DOMAIN given[k].aliases : Wanted(given[k].aliases[i]) = Wanted(term)
    BY <1>10
  <2>2. PICK alias \in Texts : alias = given[k].aliases[i]
    BY <1>3, <2>1
  <2>3. Within(joined, alias)
    BY <1>3, <1>6, <2>2
  <2>4. Within(Lower(joined), Wanted(term))
    BY <2>1, <2>2, <2>3, WantedWithin
  <2>5. Within(Searchable(k, rows[k]), Wanted(term))
    BY <1>2, <1>3, <1>4, <1>5, <1>6, <2>4, SearchableHolds
  <2> QED
    BY <1>1, <2>5 DEF Candidates
<1>11. CASE \E v \in Suggested(scope, k[2]) : Wanted(v) = Wanted(term)
  BY <1>1, <1>11 DEF Candidates
<1> QED
  BY <1>8, <1>9, <1>10, <1>11 DEF AnswersTo

\* As long as no alias of it is broken, a row is ranked as the asset that was given.
LEMMA RankedAlike ==
    ASSUME RowsKept, NEW k \in DOMAIN given, NEW term, NEW suggested,
           \A i \in DOMAIN given[k].aliases : Unbroken(given[k].aliases[i])
    PROVE  MatchKind(k[2], Entry(rows[k]), term, suggested) = MatchKind(k[2], given[k], term, suggested)
<1>1. /\ given[k].aliases \in Seq(Texts) /\ rows[k].name = given[k].name
      /\ rows[k].aliases = Joined[given[k].aliases]
  BY RowIs
<1>2. PICK list \in Seq(Texts) : list = given[k].aliases
  BY <1>1
<1>3. PICK read : read = Unjoined(Joined[list])
  OBVIOUS
<1>4. Entry(rows[k]).name = given[k].name /\ Entry(rows[k]).aliases = read
  BY <1>1, <1>2, <1>3 DEF Entry
<1>5. ASSUME Wanted(term) # <<>>
      PROVE  (\E v \in Range(read) : Wanted(v) = Wanted(term))
             <=> \E v \in Range(list) : Wanted(v) = Wanted(term)
  <2>1. /\ \A i \in DOMAIN list : Unbroken(list[i]) /\ Wanted(list[i]) = Wanted(term) =>
              \E v \in Range(read) : Wanted(v) = Wanted(term)
        /\ (\A i \in DOMAIN list : Unbroken(list[i])) => \A v \in Range(read) : v \in Range(list)
    BY <1>3, <1>5, AliasesFound
  <2>2. \A i \in DOMAIN list : Unbroken(list[i])
    BY <1>2
  <2>3. \A v \in Range(list) : \E i \in DOMAIN list : list[i] = v
    BY DEF Range
  <2> QED
    BY <2>1, <2>2, <2>3
<1> QED
  BY <1>2, <1>4, <1>5 DEF MatchKind

LEMMA OnlyAnswersRank ==
    ASSUME NEW k, NEW term, NEW suggested, MatchKind(k[2], given[k], term, suggested) # "none"
    PROVE  AnswersTo(k, term, suggested) /\ Wanted(term) # <<>>
<1>1. \A v \in Range(given[k].aliases) : \E i \in DOMAIN given[k].aliases : given[k].aliases[i] = v
  BY DEF Range
<1> QED
  BY <1>1 DEF MatchKind, AnswersTo

\* A search answers what ranking every row would.
LEMMA NothingIsLost ==
    ASSUME RowsKept PROVE NarrowingLosesNothing
<1> SUFFICES ASSUME \A k \in DOMAIN given : \A i \in DOMAIN given[k].aliases : Unbroken(given[k].aliases[i]),
                    NEW scope \in Projects \cup {<<>>}, NEW term \in Asked, NEW matching
             PROVE  Search(scope, term, matching) = Rank(Scoped(given, scope), scope, term)
  BY DEF NarrowingLosesNothing
<1>1. term \in Texts
  BY StoresAssumption
<1> DEFINE all == Scoped(given, scope)
           some == [k \in Candidates(scope, term, matching) |-> Entry(rows[k])]
           kind(entries, k) == MatchKind(k[2], entries[k], term, Suggested(scope, k[2]))
<1>2. \A k \in DOMAIN all : k \in DOMAIN given /\ all[k] = given[k]
  BY DEF Scoped
<1>3. \A k \in DOMAIN some : k \in DOMAIN all /\ some[k] = Entry(rows[k])
  BY DEF Scoped, Candidates, RowsKept
<1>4. \A k \in DOMAIN some : kind(some, k) = kind(all, k)
  BY <1>2, <1>3, RankedAlike
<1>5. ASSUME NEW k \in DOMAIN all, kind(all, k) # "none" PROVE k \in DOMAIN some /\ Wanted(term) # <<>>
  <2>1. AnswersTo(k, term, Suggested(scope, k[2])) /\ Wanted(term) # <<>>
    BY <1>2, <1>5, OnlyAnswersRank
  <2> QED
    BY <1>1, <2>1, NoneIsMissed
<1>6. Rank(all, scope, term) = {[key |-> k, kind |-> kind(all, k)] : k \in {x \in DOMAIN all : kind(all, x) # "none"}}
  BY DEF Rank
<1>7. Rank(some, scope, term) = {[key |-> k, kind |-> kind(some, k)] : k \in {x \in DOMAIN some : kind(some, x) # "none"}}
  BY DEF Rank
<1>8. Search(scope, term, matching) = IF Strip(term) = <<>> THEN {} ELSE Rank(some, scope, term)
  BY DEF Search
<1>9. Strip(term) = <<>> <=> Wanted(term) = <<>>
  BY <1>1, WantedIs
<1> HIDE DEF all, some, kind
<1>10. Rank(some, scope, term) = Rank(all, scope, term)
  BY <1>3, <1>4, <1>5, <1>6, <1>7
<1>11. Strip(term) = <<>> => Rank(all, scope, term) = {}
  BY <1>5, <1>6, <1>9
<1> QED
  BY <1>8, <1>10, <1>11 DEF all

\* Three words are something to look for.
LEMMA ProseIsSomething ==
    ASSUME NEW term \in Texts, Prose(term) PROVE Strip(term) # <<>>
<1> SUFFICES ASSUME Strip(term) = <<>> PROVE FALSE
  OBVIOUS
<1>1. Len(Strip(term)) - 1 = -1 /\ 1..(-1) = {}
  OBVIOUS
<1>2. {i \in 1..(Len(Strip(term)) - 1) : Strip(term)[i] \in {Blank, Break}
                                         /\ Strip(term)[i + 1] \notin {Blank, Break}} = {}
  BY <1>1
<1>3. Cardinality({}) = 0
  BY FS_EmptySet
<1> QED
  BY <1>2, <1>3 DEF Prose

\* What an asset answers by its id, its name or an alias does not leave the house.
LEMMA ResolvedStays ==
    ASSUME RowsKept PROVE WhatResolvesStaysHere
<1> SUFFICES ASSUME NEW scope \in Projects \cup {<<>>}, NEW term \in Asked,
                    Delegates(term, Search(scope, term, {})), NEW k \in DOMAIN Scoped(given, scope),
                    \/ Lower(k[2]) = Wanted(term)
                    \/ Begins(Lower(given[k].name), Wanted(term))
                    \/ \E i \in DOMAIN given[k].aliases : Wanted(given[k].aliases[i]) = Wanted(term)
                                                          /\ Unbroken(given[k].aliases[i])
             PROVE  FALSE
  BY DEF WhatResolvesStaysHere
<1>1. term \in Texts
  BY StoresAssumption
<1>2. Strip(term) # <<>> /\ Wanted(term) # <<>>
  BY <1>1, ProseIsSomething, WantedIs DEF Delegates
<1>3. k \in DOMAIN given
  BY DEF Scoped
<1>4. k \in Candidates(scope, term, {})
  <2>1. AnswersTo(k, term, Suggested(scope, k[2]))
    BY DEF AnswersTo
  <2> QED
    BY <1>1, <2>1, NoneIsMissed
<1>5. PICK kind : kind = MatchKind(k[2], Entry(rows[k]), term, Suggested(scope, k[2]))
  OBVIOUS
<1>6. kind \in Resolving
  <2>1. /\ given[k].aliases \in Seq(Texts) /\ Entry(rows[k]).name = given[k].name
        /\ Entry(rows[k]).aliases = Unjoined(Joined[given[k].aliases])
    BY <1>3, RowIs DEF Entry
  <2>2. CASE Lower(k[2]) = Wanted(term)
    BY <1>2, <1>5, <2>2 DEF MatchKind, Resolving
  <2>3. CASE Begins(Lower(given[k].name), Wanted(term))
    BY <1>2, <1>5, <2>1, <2>3 DEF MatchKind, Resolving
  <2>4. CASE \E i \in DOMAIN given[k].aliases : Wanted(given[k].aliases[i]) = Wanted(term)
                                                /\ Unbroken(given[k].aliases[i])
    <3> DEFINE list == given[k].aliases
    <3>0. /\ list \in Seq(Texts)
          /\ \E i \in DOMAIN list : Unbroken(list[i]) /\ Wanted(list[i]) = Wanted(term)
      BY <2>1, <2>4
    <3> HIDE DEF list
    <3>a. \E v \in Range(Unjoined(Joined[list])) : Wanted(v) = Wanted(term)
      BY <1>2, <3>0, AliasesFound
    <3>1. \E v \in Range(Entry(rows[k]).aliases) : Wanted(v) = Wanted(term)
      BY <2>1, <3>a DEF list
    <3> QED
      BY <1>2, <1>5, <3>1 DEF MatchKind, Resolving
  <2> QED
    BY <2>2, <2>3, <2>4
<1>7. [key |-> k, kind |-> kind] \in Search(scope, term, {})
  <2> DEFINE some == [x \in Candidates(scope, term, {}) |-> Entry(rows[x])]
  <2>1. Search(scope, term, {}) = Rank(some, scope, term)
    BY <1>2 DEF Search
  <2>2. k \in DOMAIN some /\ kind = MatchKind(k[2], some[k], term, Suggested(scope, k[2])) /\ kind # "none"
    BY <1>4, <1>5, <1>6 DEF Resolving
  <2> HIDE DEF some
  <2>3. [key |-> k, kind |-> kind] \in Rank(some, scope, term)
    BY <2>2 DEF Rank
  <2> QED
    BY <2>1, <2>3
<1>8. PICK hit : hit = [key |-> k, kind |-> kind]
  OBVIOUS
<1>9. hit \in Search(scope, term, {}) /\ hit.kind \in Resolving
  BY <1>6, <1>7, <1>8
<1> QED
  BY <1>9 DEF Delegates

-----------------------------------------------------------------------------
(* What both stores tell of the searches in vain.                          *)

KeyAt(m, i) == <<m[i].scope, TermKey(m[i].term)>>
SameAt(m, k) == {i \in DOMAIN m : KeyAt(m, i) = k}

\* The log is what was missed, as long as no term breaks, and the table counts each key
\* under its first spelling.
MissesKept ==
    /\ missed \in Seq([scope : Projects \cup {<<>>}, term : Asked])
    /\ (\A i \in DOMAIN missed : Unbroken(missed[i].term)) => lines = missed
    /\ DOMAIN table = {KeyAt(missed, i) : i \in DOMAIN missed}
    /\ \A k \in DOMAIN table : /\ table[k].term = missed[Min(SameAt(missed, k))].term
                               /\ table[k].count = Cardinality(SameAt(missed, k))

StoresKept == RowsKept /\ MissesKept

LEMMA LeastIs ==
    ASSUME NEW S, S \subseteq Int, NEW x \in S, \A y \in S : x <= y PROVE Min(S) = x
<1>1. \A z \in S : (\A y \in S : z <= y) => z = x
  OBVIOUS
<1> QED
  BY <1>1 DEF Min

LEMMA RowsStay ==
    ASSUME RowsKept, [StoresNext]_storeVars PROVE RowsKept'
<1>1. ASSUME NEW key \in Projects \X Ids, NEW name \in Named, NEW list \in AliasLists,
             Upsert(key, [name |-> name, aliases |-> list])
      PROVE  RowsKept'
  <2>1. /\ given' = [k \in DOMAIN given \cup {key} |->
                        IF k = key THEN [name |-> name, aliases |-> list] ELSE given[k]]
        /\ rows' = [k \in DOMAIN rows \cup {key} |->
                       IF k = key THEN [name |-> name, aliases |-> Joined[list]] ELSE rows[k]]
        /\ proposed' = proposed
    BY <1>1 DEF Upsert
  <2>2. DOMAIN given' = DOMAIN given \cup {key} /\ DOMAIN rows' = DOMAIN rows \cup {key}
    BY <2>1
  <2>3. ASSUME NEW k \in DOMAIN given'
        PROVE  /\ given'[k].name \in Named /\ given'[k].aliases \in AliasLists
               /\ rows'[k] = [name |-> given'[k].name, aliases |-> Joined[given'[k].aliases]]
    <3>1. CASE k = key
      <4>1. given'[k] = [name |-> name, aliases |-> list]
            /\ rows'[k] = [name |-> name, aliases |-> Joined[list]]
        BY <2>1, <2>2, <3>1
      <4> QED
        BY <4>1
    <3>2. CASE k # key
      <4>1. k \in DOMAIN given /\ k \in DOMAIN rows
        BY <2>2, <3>2 DEF RowsKept
      <4>2. given'[k] = given[k] /\ rows'[k] = rows[k]
        BY <2>1, <3>2, <4>1
      <4> QED
        BY <4>1, <4>2 DEF RowsKept
    <3> QED
      BY <3>1, <3>2
  <2> QED
    BY <2>1, <2>2, <2>3 DEF RowsKept
<1>2. ASSUME NEW key \in Projects \X Ids, Forget(key) PROVE RowsKept'
  <2>1. /\ given' = [k \in DOMAIN given \ {key} |-> given[k]]
        /\ rows' = [k \in DOMAIN rows \ {key} |-> rows[k]]
        /\ proposed' = proposed
    BY <1>2 DEF Forget
  <2>2. DOMAIN given' = DOMAIN given \ {key} /\ DOMAIN rows' = DOMAIN rows \ {key}
    BY <2>1
  <2>3. \A k \in DOMAIN given' : given'[k] = given[k] /\ rows'[k] = rows[k]
    BY <2>1, <2>2 DEF RowsKept
  <2> QED
    BY <2>1, <2>2, <2>3 DEF RowsKept
<1>3. ASSUME NEW key \in Projects \X Ids, NEW alias \in Proposed, Propose(key, alias) PROVE RowsKept'
  <2>1. <<key[1], key[2], alias>> \in Projects \X Ids \X Proposed
    BY <1>3
  <2> QED
    BY <1>3, <2>1 DEF Propose, RowsKept
<1>4. ASSUME NEW scope, NEW term, SearchAssets(scope, term) PROVE RowsKept'
  BY <1>4 DEF SearchAssets, RowsKept
<1>5. CASE UNCHANGED storeVars
  BY <1>5 DEF storeVars, RowsKept
<1> QED
  BY <1>1, <1>2, <1>3, <1>4, <1>5 DEF StoresNext

LEMMA MissesStay ==
    ASSUME MissesKept, [StoresNext]_storeVars PROVE MissesKept'
<1>1. ASSUME UNCHANGED <<lines, table, missed>> PROVE MissesKept'
  BY <1>1 DEF MissesKept
<1>2. ASSUME NEW scope \in Projects \cup {<<>>}, NEW term \in Asked, SearchAssets(scope, term)
      PROVE  MissesKept'
  <2>1. PICK miss : miss = [scope |-> scope, term |-> term]
    OBVIOUS
  <2>2. PICK m : m = missed
    OBVIOUS
  <2>3. PICK after : after = Append(m, miss)
    OBVIOUS
  <2>4. missed' = after /\ lines' = lines \o LinesOf(scope, term) /\ table' = Counted(scope, term)
    BY <1>2, <2>1, <2>2, <2>3 DEF SearchAssets
  <2> DEFINE R == [scope : Projects \cup {<<>>}, term : Asked]
             n == Len(m)
             key == <<scope, TermKey(term)>>
  <2>5. m \in Seq(R) /\ miss \in R
    BY <2>1, <2>2 DEF MissesKept
  <2>6. /\ after \in Seq(R) /\ n \in Nat /\ DOMAIN m = 1..n /\ DOMAIN after = 1..(n + 1)
        /\ after[n + 1] = miss /\ \A i \in 1..n : after[i] = m[i]
    <3> HIDE DEF R
    <3> QED
      BY <2>3, <2>5
  <2>7. (\A i \in DOMAIN after : Unbroken(after[i].term)) => lines' = after
    <3> SUFFICES ASSUME \A i \in DOMAIN after : Unbroken(after[i].term) PROVE lines' = after
      OBVIOUS
    <3>1. Unbroken(term)
      <4>1. n + 1 \in DOMAIN after /\ after[n + 1].term = term
        BY <2>1, <2>6
      <4> QED
        BY <4>1
    <3>2. \A i \in DOMAIN m : Unbroken(m[i].term)
      <4> SUFFICES ASSUME NEW i \in DOMAIN m PROVE Unbroken(m[i].term)
        OBVIOUS
      <4>1. i \in DOMAIN after /\ after[i] = m[i]
        BY <2>6
      <4> QED
        BY <4>1
    <3>3. lines = m
      BY <2>2, <3>2 DEF MissesKept
    <3>4. LinesOf(scope, term) = <<miss>>
      <4>1. Split(term) = <<term>>
        BY <3>1, UnbrokenIs, StoresAssumption
      <4>2. LinesOf(scope, term) = [i \in DOMAIN Split(term) |->
                                      IF i = 1 THEN [scope |-> scope, term |-> Split(term)[i]]
                                      ELSE [scope |-> Split(term)[i], term |-> <<>>]]
        BY DEF LinesOf
      <4>3. DOMAIN Split(term) = {1} /\ Split(term)[1] = term
        BY <4>1
      <4>4. LinesOf(scope, term) = [i \in {1} |-> miss]
        BY <2>1, <4>2, <4>3
      <4>5. <<miss>> = [i \in {1} |-> miss]
        OBVIOUS
      <4> QED
        BY <4>4, <4>5
    <3>5. m \o <<miss>> = after
      <4> HIDE DEF R
      <4> QED
        BY <2>3, <2>5
    <3> QED
      BY <2>4, <3>3, <3>4, <3>5
  <2>8. /\ \A i \in 1..n : KeyAt(after, i) = KeyAt(m, i)
        /\ KeyAt(after, n + 1) = key
    BY <2>1, <2>6 DEF KeyAt
  <2>9. /\ DOMAIN table = {KeyAt(m, i) : i \in 1..n}
        /\ \A k \in DOMAIN table : /\ table[k].term = m[Min(SameAt(m, k))].term
                                   /\ table[k].count = Cardinality(SameAt(m, k))
    BY <2>2, <2>6 DEF MissesKept
  <2>10. /\ DOMAIN table' = DOMAIN table \cup {key}
         /\ \A k \in DOMAIN table : k # key => table'[k] = table[k]
         /\ key \in DOMAIN table => table'[key] = [table[key] EXCEPT !.count = @ + 1]
         /\ key \notin DOMAIN table => table'[key] = [term |-> term, count |-> 1]
    BY <2>4 DEF Counted
  <2> HIDE DEF n, key, R
  <2>11. DOMAIN table' = {KeyAt(after, i) : i \in DOMAIN after}
    <3>1. ASSUME NEW k \in DOMAIN table' PROVE \E i \in DOMAIN after : KeyAt(after, i) = k
      <4>1. CASE k = key
        <5>1. n + 1 \in DOMAIN after
          BY <2>6
        <5> QED
          BY <2>8, <4>1, <5>1
      <4>2. CASE k \in DOMAIN table
        <5>1. PICK i \in 1..n : KeyAt(m, i) = k
          BY <2>9, <4>2
        <5>2. i \in DOMAIN after
          BY <2>6
        <5> QED
          BY <2>8, <5>1, <5>2
      <4> QED
        BY <2>10, <4>1, <4>2
    <3>2. ASSUME NEW i \in DOMAIN after PROVE KeyAt(after, i) \in DOMAIN table'
      <4>1. i \in 1..n \/ i = n + 1
        BY <2>6
      <4> QED
        BY <2>8, <2>9, <2>10, <4>1
    <3> QED
      BY <3>1, <3>2
  <2>12. ASSUME NEW k, k # key PROVE SameAt(after, k) = SameAt(m, k)
    <3>1. ASSUME NEW i \in SameAt(after, k) PROVE i \in SameAt(m, k)
      <4>1. i \in 1..(n + 1) /\ KeyAt(after, i) = k
        BY <2>6 DEF SameAt
      <4>2. i \in 1..n
        BY <2>6, <2>8, <2>12, <4>1
      <4> QED
        BY <2>6, <2>8, <4>1, <4>2 DEF SameAt
    <3>2. ASSUME NEW i \in SameAt(m, k) PROVE i \in SameAt(after, k)
      <4>1. i \in 1..n /\ KeyAt(m, i) = k
        BY <2>6 DEF SameAt
      <4>2. i \in DOMAIN after
        BY <2>6, <4>1
      <4> QED
        BY <2>8, <4>1, <4>2 DEF SameAt
    <3> QED
      BY <3>1, <3>2
  <2>13. SameAt(after, key) = SameAt(m, key) \cup {n + 1}
    <3>1. ASSUME NEW i \in SameAt(after, key) PROVE i \in SameAt(m, key) \cup {n + 1}
      <4>1. i \in 1..(n + 1) /\ KeyAt(after, i) = key
        BY <2>6 DEF SameAt
      <4>2. i \in 1..n \/ i = n + 1
        BY <2>6, <4>1
      <4> QED
        BY <2>6, <2>8, <4>1, <4>2 DEF SameAt
    <3>2. ASSUME NEW i \in SameAt(m, key) PROVE i \in SameAt(after, key)
      <4>1. i \in 1..n /\ KeyAt(m, i) = key
        BY <2>6 DEF SameAt
      <4>2. i \in DOMAIN after
        BY <2>6, <4>1
      <4> QED
        BY <2>8, <4>1, <4>2 DEF SameAt
    <3>3. n + 1 \in SameAt(after, key)
      <4>1. n + 1 \in DOMAIN after
        BY <2>6
      <4> QED
        BY <2>8, <4>1 DEF SameAt
    <3> QED
      BY <3>1, <3>2, <3>3
  <2>14. ASSUME NEW k PROVE SameAt(m, k) \subseteq 1..n
    BY <2>6 DEF SameAt
  <2>15. ASSUME NEW k \in DOMAIN table
         PROVE  /\ Min(SameAt(m, k)) \in SameAt(m, k)
                /\ \A i \in SameAt(m, k) : Min(SameAt(m, k)) <= i
    <3>1. PICK i \in 1..n : KeyAt(m, i) = k
      BY <2>9
    <3>2. i \in SameAt(m, k)
      BY <2>6, <3>1 DEF SameAt
    <3>3. SameAt(m, k) \subseteq Nat
      BY <2>14
    <3>4. \E x \in SameAt(m, k) : \A y \in SameAt(m, k) : x <= y
      BY <3>2, <3>3, LeastOf
    <3> QED
      BY <3>4 DEF Min
  <2>16. ASSUME NEW k \in DOMAIN table'
         PROVE  /\ table'[k].term = after[Min(SameAt(after, k))].term
                /\ table'[k].count = Cardinality(SameAt(after, k))
    <3>1. CASE k # key
      <4>1. k \in DOMAIN table /\ table'[k] = table[k] /\ SameAt(after, k) = SameAt(m, k)
        BY <2>10, <2>12, <3>1
      <4>2. after[Min(SameAt(m, k))] = m[Min(SameAt(m, k))]
        BY <2>6, <2>14, <2>15, <4>1
      <4> QED
        BY <2>9, <4>1, <4>2
    <3>2. CASE k = key /\ key \in DOMAIN table
      <4>1. PICK x \in SameAt(m, key) : x = Min(SameAt(m, key)) /\ \A i \in SameAt(m, key) : x <= i
        BY <2>15, <3>2
      <4>2. x \in 1..n /\ x < n + 1
        BY <2>6, <2>14
      <4>3. Min(SameAt(after, key)) = x
        <5>1. SameAt(m, key) \cup {n + 1} \subseteq Int
          BY <2>6, <2>14
        <5>2. x \in SameAt(m, key) \cup {n + 1} /\ \A i \in SameAt(m, key) \cup {n + 1} : x <= i
          BY <2>6, <4>1, <4>2
        <5> QED
          BY <2>13, <5>1, <5>2, LeastIs
      <4>4. Cardinality(SameAt(after, key)) = Cardinality(SameAt(m, key)) + 1
        <5>1. IsFiniteSet(SameAt(m, key))
          <6>1. IsFiniteSet(1..n) /\ SameAt(m, key) \in SUBSET (1..n)
            BY <2>6, <2>14, FS_Interval
          <6> QED
            BY <6>1, FS_Subset
        <5>2. n + 1 \notin SameAt(m, key)
          BY <2>6, <2>14
        <5> QED
          BY <2>13, <5>1, <5>2, FS_AddElement
      <4>5. table'[key] = [table[key] EXCEPT !.count = @ + 1]
        BY <2>10, <3>2
      <4>6. table'[key].term = table[key].term /\ table'[key].count = table[key].count + 1
        BY <4>5, <2>9
      <4>7. after[x] = m[x]
        BY <2>6, <4>2
      <4> QED
        BY <2>9, <3>2, <4>1, <4>3, <4>4, <4>6, <4>7
    <3>3. CASE k = key /\ key \notin DOMAIN table
      <4>1. SameAt(m, key) = {}
        BY <2>6, <2>9, <3>3 DEF SameAt
      <4>2. SameAt(after, key) = {n + 1}
        BY <2>13, <4>1
      <4>3. Min({n + 1}) = n + 1 /\ Cardinality({n + 1}) = 1
        <5>1. {n + 1} \subseteq Int /\ n + 1 \in {n + 1} /\ \A i \in {n + 1} : n + 1 <= i
          BY <2>6
        <5>2. Min({n + 1}) = n + 1
          BY <5>1, LeastIs
        <5>3. Cardinality({n + 1}) = 1
          BY FS_Singleton
        <5> QED
          BY <5>2, <5>3
      <4>4. after[n + 1].term = term
        BY <2>1, <2>6
      <4> QED
        BY <2>10, <3>3, <4>2, <4>3, <4>4
    <3> QED
      BY <3>1, <3>2, <3>3
  <2>17. after \in Seq([scope : Projects \cup {<<>>}, term : Asked])
    BY <2>6 DEF R
  <2> QED
    BY <2>4, <2>7, <2>11, <2>16, <2>17 DEF MissesKept
<1>3. CASE UNCHANGED storeVars
  BY <1>1, <1>3 DEF storeVars
<1> QED
  BY <1>1, <1>2, <1>3 DEF StoresNext, Upsert, Forget, Propose

\* The log and the table say the same.
LEMMA BothTellAlike ==
    ASSUME MissesKept PROVE StoresAgree
<1> SUFFICES ASSUME \A i \in DOMAIN missed : /\ Unbroken(missed[i].term)
                                             /\ Strip(missed[i].scope \o missed[i].term) # <<>>
             PROVE  SqliteMisses = PostgresMisses
  BY DEF StoresAgree
<1>1. lines = missed
  BY DEF MissesKept
<1> DEFINE alike(i) == {j \in DOMAIN missed : /\ missed[j].scope = missed[i].scope
                                              /\ Wanted(missed[j].term) = Wanted(missed[i].term)}
           counted(i) == [scope |-> missed[i].scope, term |-> missed[Min(alike(i))].term,
                       count |-> Cardinality(alike(i))]
           row(k) == [scope |-> k[1], term |-> table[k].term, count |-> table[k].count]
<1>2. {i \in DOMAIN lines : Strip(lines[i].scope \o lines[i].term) # <<>>} = DOMAIN missed
  BY <1>1
<1>3. SqliteMisses = {counted(i) : i \in DOMAIN missed}
  <2> DEFINE logged == {i \in DOMAIN lines : Strip(lines[i].scope \o lines[i].term) # <<>>}
             Like(i) == {j \in logged : /\ lines[j].scope = lines[i].scope
                                        /\ Wanted(lines[j].term) = Wanted(lines[i].term)}
             said(i) == [scope |-> lines[i].scope, term |-> lines[Min(Like(i))].term,
                         count |-> Cardinality(Like(i))]
  <2>1. SqliteMisses = {said(i) : i \in logged}
    BY DEF SqliteMisses
  <2>2. logged = DOMAIN missed
    BY <1>2
  <2>3. ASSUME NEW i PROVE Like(i) = alike(i)
    <3> HIDE DEF logged
    <3> QED
      BY <1>1, <2>2
  <2>4. ASSUME NEW i PROVE said(i) = counted(i)
    <3> HIDE DEF Like, alike
    <3> QED
      BY <1>1, <2>3
  <2> HIDE DEF said, counted, logged
  <2> QED
    BY <2>1, <2>2, <2>4
<1>4. PostgresMisses = {row(k) : k \in DOMAIN table}
  BY DEF PostgresMisses
<1>5. ASSUME NEW i \in DOMAIN missed PROVE KeyAt(missed, i) \in DOMAIN table /\ counted(i) = row(KeyAt(missed, i))
  <2>1. KeyAt(missed, i) \in DOMAIN table
    BY DEF MissesKept
  <2>2. alike(i) = SameAt(missed, KeyAt(missed, i)) /\ KeyAt(missed, i)[1] = missed[i].scope
    BY DEF SameAt, KeyAt, TermKey
  <2>3. PICK k : k = KeyAt(missed, i)
    OBVIOUS
  <2>4. /\ table[k].term = missed[Min(SameAt(missed, k))].term
        /\ table[k].count = Cardinality(SameAt(missed, k))
    BY <2>1, <2>3 DEF MissesKept
  <2> HIDE DEF alike
  <2> QED
    BY <2>1, <2>2, <2>3, <2>4
<1>6. \A k \in DOMAIN table : \E i \in DOMAIN missed : KeyAt(missed, i) = k
  BY DEF MissesKept
<1> HIDE DEF counted, row
<1>7. {counted(i) : i \in DOMAIN missed} = {row(k) : k \in DOMAIN table}
  BY <1>5, <1>6
<1> QED
  BY <1>3, <1>4, <1>7

\* Two stores of the search index answer alike, whatever their own text search finds,
\* lose nothing they hold and send nothing to the document platform that they resolve
\* themselves (the SQLite and PostgreSQL search indexes, and the lookup above them).
THEOREM StoresStayAlike == StoresSpec => []StoresAnswerAlike
<1>1. StoresInit => StoresKept
  <2> SUFFICES ASSUME StoresInit PROVE StoresKept
    OBVIOUS
  <2>1. DOMAIN <<>> = {} /\ <<>> \in Seq([scope : Projects \cup {<<>>}, term : Asked])
    OBVIOUS
  <2>2. RowsKept
    BY <2>1 DEF StoresInit, RowsKept
  <2>3. MissesKept
    BY <2>1 DEF StoresInit, MissesKept
  <2> QED
    BY <2>2, <2>3 DEF StoresKept
<1>2. StoresKept /\ [StoresNext]_storeVars => StoresKept'
  BY RowsStay, MissesStay DEF StoresKept
<1>3. StoresKept => StoresAnswerAlike
  BY NothingIsLost, ResolvedStays, BothTellAlike DEF StoresKept, StoresAnswerAlike
<1> QED
  BY <1>1, <1>2, <1>3, PTL DEF StoresSpec

=============================================================================
