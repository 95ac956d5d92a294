------------------------------ MODULE KeyCache ------------------------------
(***************************************************************************)
(* The issuer's published keys, kept between requests.  Two threads ask    *)
(* one cache and nothing locks it: the event loop verifying requests, and  *)
(* the background runner verifying its own credential.  Instants are kept  *)
(* as ages, and an age of Long is any longer one, or never.                *)
(***************************************************************************)
EXTENDS Integers

CONSTANTS
    Askers,
    Keys,
    Window,         \* offline_window_s
    Cooldown,       \* refresh_cooldown_s
    Timeout         \* how long one retrieval may take

ASSUME KeyCacheAssumption ==
    Window \in Nat /\ Cooldown \in Nat \ {0} /\ Timeout \in Nat

VARIABLES
    source,     \* [keys, up, changed, down]: what it publishes and since when
    cache,      \* [keys, retrieved, attempted]
    asker,      \* where each thread is
    answer      \* what was last answered

keyVars == <<source, cache, asker, answer>>

Long == Window + Cooldown + Timeout + 1
Ages == 0..Long
Older(age) == IF age = Long THEN Long ELSE age + 1
Credentials == [signer : Keys, named : BOOLEAN]
Idle == [stage |-> "idle"]
NoAnswer == [kind |-> "none"]

KeysTypeOK ==
    /\ source \in [keys : SUBSET Keys, gone : SUBSET Keys, up : BOOLEAN,
                   changed : [Keys -> Ages], down : Ages]
    /\ cache \in [keys : SUBSET Keys, retrieved : Ages, attempted : Ages]
    /\ cache.attempted <= cache.retrieved
    /\ \A a \in Askers : /\ asker[a].stage \in {"idle", "fetching", "answered"}
                         /\ asker[a].stage # "idle" => asker[a].for <= Timeout
    /\ answer.kind \in {"none", "accepted", "rejected", "unavailable"}

KeysInit ==
    /\ source \in {[keys |-> {k}, gone |-> {}, up |-> TRUE,
                    changed |-> [j \in Keys |-> Long], down |-> Long] : k \in Keys}
    /\ cache = [keys |-> {}, retrieved |-> Long, attempted |-> Long]
    /\ asker = [a \in Askers |-> Idle]
    /\ answer = NoAnswer

-----------------------------------------------------------------------------
\* _cached: by its identifier, or the only key of the set when it names none.
Found(keys, credential) ==
    IF credential.named THEN credential.signer \in keys ELSE keys = {credential.signer}

\* Mutant of MayAttempt: the cooldown runs from the last retrieval stored.
MayAttemptAgain(known) == known.retrieved > Window

\* _may_attempt
MayAttempt(known) == known.attempted >= Cooldown

\* Mutant of Retired: a key set that was retrieved once is never retired.
RetiredOnce(known) == known.keys = {}

\* _retire_if_beyond_window
Retired(known) == known.retrieved > Window

Busy(a) == \E b \in Askers \ {a} : asker[b].stage # "idle"

Said(a, kind, credential) == answer' = [kind |-> kind, by |-> credential, busy |-> Busy(a)]

Fetching(a, credential, why) ==
    /\ asker' = [asker EXCEPT ![a] =
          [stage |-> "fetching", credential |-> credential, why |-> why, for |-> 0, keys |-> {}]]
    /\ answer' = NoAnswer

AnswerWith(a, kind, credential) ==
    /\ asker' = [asker EXCEPT ![a] = Idle]
    /\ Said(a, kind, credential)

\* key_for, up to a retrieval; a retired set is retrieved whatever the cooldown.
Ask(a, credential) ==
    /\ asker[a].stage = "idle"
    /\ LET kept == ~Retired(cache) /\ Found(cache.keys, credential)
           fetch == Retired(cache) \/ (~kept /\ MayAttempt(cache))
       IN \/ /\ fetch
             /\ Fetching(a, credential, IF Retired(cache) THEN "retire" ELSE "rotate")
             /\ cache' = [cache EXCEPT !.attempted = 0]
          \/ /\ ~fetch
             /\ AnswerWith(a, IF kept THEN "accepted" ELSE "rejected", credential)
             /\ UNCHANGED cache
    /\ UNCHANGED source

\* JwksKeySource.fetch: the document as the source publishes it now.
Respond(a) ==
    /\ asker[a].stage = "fetching" /\ source.up
    /\ asker' = [asker EXCEPT ![a] = [@ EXCEPT !.stage = "answered", !.keys = source.keys]]
    /\ answer' = NoAnswer
    /\ UNCHANGED <<source, cache>>

\* refresh, when the source fails: nothing is replaced.
Unreachable(a) ==
    /\ asker[a].stage = "fetching" /\ ~source.up
    /\ AnswerWith(a, "unavailable", asker[a].credential)
    /\ UNCHANGED <<source, cache>>

\* Mutant of Stored: the stamp of the set before is kept.
StoredUnstamped(keys) == [cache EXCEPT !.keys = keys, !.retrieved = 0, !.attempted = Long]

\* refresh: the set is stamped with the last attempt's time, whoever made it.
Stored(keys) == [cache EXCEPT !.keys = keys, !.retrieved = cache.attempted]

\* key_for after a retrieval: found, or _rotate, or refused.
Store(a) ==
    LET mine == asker[a]
        found == Found(mine.keys, mine.credential)
        again == ~found /\ mine.why = "retire" /\ MayAttempt(cache)
    IN  /\ mine.stage = "answered"
        /\ \/ /\ again
              /\ Fetching(a, mine.credential, "rotate")
              /\ cache' = [Stored(mine.keys) EXCEPT !.attempted = 0]
           \/ /\ ~again
              /\ AnswerWith(a, IF found THEN "accepted" ELSE "rejected", mine.credential)
              /\ cache' = Stored(mine.keys)
        /\ UNCHANGED source

\* Time passes, but no retrieval outlives its timeout.
Tick ==
    /\ \A a \in Askers : asker[a].stage # "idle" => asker[a].for < Timeout
    /\ asker' = [a \in Askers |->
          IF asker[a].stage = "idle" THEN Idle ELSE [asker[a] EXCEPT !.for = @ + 1]]
    /\ cache' = [cache EXCEPT !.retrieved = Older(@), !.attempted = Older(@)]
    /\ source' = [source EXCEPT !.changed = [k \in Keys |-> Older(@[k])],
                                !.down = IF source.up THEN Older(@) ELSE 0]
    /\ answer' = NoAnswer

\* The source publishes a key it never published before, or withdraws one.
PublishKey(k) ==
    /\ k \notin source.keys \cup source.gone
    /\ source' = [source EXCEPT !.keys = @ \cup {k}, !.changed[k] = 0]
    /\ answer' = NoAnswer
    /\ UNCHANGED <<cache, asker>>

RevokeKey(k) ==
    /\ k \in source.keys
    /\ source' = [source EXCEPT !.keys = @ \ {k}, !.gone = @ \cup {k}, !.changed[k] = 0]
    /\ answer' = NoAnswer
    /\ UNCHANGED <<cache, asker>>

Outage ==
    /\ source' = [source EXCEPT !.up = ~@, !.down = 0]
    /\ answer' = NoAnswer
    /\ UNCHANGED <<cache, asker>>

KeysNext ==
    \/ \E a \in Askers : \/ \E c \in Credentials : Ask(a, c)
                         \/ Respond(a) \/ Unreachable(a) \/ Store(a)
    \/ \E k \in Keys : PublishKey(k) \/ RevokeKey(k)
    \/ Tick \/ Outage

KeysSpec == KeysInit /\ [][KeysNext]_keyVars

-----------------------------------------------------------------------------
\* "short enough that a revoked key stops being honoured": whoever retrieves and
\* stores when, a key withdrawn longer ago than the window and one retrieval is
\* accepted by nobody.
RevokedKeysRetire ==
    answer.kind = "accepted" =>
        \/ answer.by.signer \in source.keys
        \/ source.changed[answer.by.signer] <= Window + Timeout

\* "Rotation waits at most this long": with no other retrieval under way and no
\* outage since, a key published for a cooldown and one retrieval is known.
RotationIsNoticed ==
    answer.kind = "rejected" /\ answer.by.named /\ answer.by.signer \in source.keys =>
        \/ answer.busy
        \/ source.changed[answer.by.signer] < Cooldown + Timeout
        \/ source.down < Cooldown + Timeout

\* Keys that were revoked go out of use, and keys that are new come into it.
KeysAreCurrent ==
    /\ KeysTypeOK
    /\ RevokedKeysRetire
    /\ RotationIsNoticed

=============================================================================
