----------------------- MODULE IdempotentWritesProofs -----------------------
(***************************************************************************)
(* Theorems about IdempotentWrites, for any number of attempts, keys,      *)
(* targets, bodies and failures.                                           *)
(***************************************************************************)
EXTENDS IdempotentWrites, TLAPS

USE IdempotentAssumption

-----------------------------------------------------------------------------
(* Types.  What is recorded is what the operation came to, so an attempt   *)
(* that has been performed has come to something.                          *)

Performed == \A a \in Attempts : pc[a] = "performed" => result[a] \in Kinds

TypeInv == TypeOK /\ Performed

LEMMA BoundsAreNaturals ==
    /\ MaxClock \in Nat /\ MaxOutside \in Nat /\ MaxFaults \in Nat
    /\ MaxCrashes \in Nat /\ MaxDrops \in Nat /\ Lifetime \in Nat
  OBVIOUS

LEMMA DraftType ==
    ASSUME TypeOK, NEW a \in Attempts
    PROVE  /\ draft[a] \in Drafts
           /\ KeyOf(a) \in Keys /\ draft[a].target \in Targets /\ draft[a].body \in Bodies
  BY DEF TypeOK, KeyOf

LEMMA RecordOfType ==
    ASSUME TypeInv, NEW a \in Attempts, pc[a] = "performed"
    PROVE  RecordOf(a) \in Records
<1>1. started[a] + Lifetime \in Nat
  BY DEF TypeInv, TypeOK
<1> QED
  BY <1>1, DraftType DEF RecordOf, Records, TypeInv, Performed

LEMMA TypeInit == Init => TypeInv
  BY BoundsAreNaturals
     DEF Init, TypeInv, TypeOK, Performed, Contents, Stages

LEMMA TypeStep == TypeInv /\ [Next]_vars => TypeInv'
<1> SUFFICES ASSUME TypeInv, [Next]_vars PROVE TypeInv'
  OBVIOUS
<1> USE DEF TypeInv
<1>1. ASSUME NEW a \in Attempts, NEW d \in Drafts, NEW i \in Instances, Send(a, d, i)
      PROVE  TypeInv'
  BY <1>1 DEF Send, Move, TypeOK, Performed, Stages, environment
<1>2. ASSUME NEW a \in Attempts, TurnAway(a)
      PROVE  TypeInv'
  BY <1>2 DEF TurnAway, Reply, Move, TypeOK, Performed, Stages, environment
<1>3. ASSUME NEW a \in Attempts, Replay(a)
      PROVE  TypeInv'
  <2>1. store[KeyOf(a)] \in Records
    BY <1>3, DraftType DEF Replay, Recalled, Live, TypeOK
  <2> QED
    BY <1>3, <2>1 DEF Replay, Reply, Move, TypeOK, Performed, Stages, environment
<1>4. ASSUME NEW a \in Attempts, Begin(a)
      PROVE  TypeInv'
  BY <1>4 DEF Begin, Move, TypeOK, Performed, Stages, environment
<1>5. ASSUME NEW a \in Attempts, Perform(a)
      PROVE  TypeInv'
  <2>1. /\ files' \in [Targets -> Contents]
        /\ landed' \subseteq Attempts
        /\ faults' \in 0..MaxFaults
    BY <1>5, BoundsAreNaturals, DraftType DEF Perform, Fails, TypeOK, Contents
  <2>2. PICK kind \in Kinds : result' = [result EXCEPT ![a] = kind]
    BY <1>5 DEF Perform, Kinds
  <2>3. pc' = [pc EXCEPT ![a] = "performed"]
    BY <1>5 DEF Perform, Move
  <2>4. UNCHANGED <<store, draft, at, started, answer, clock, outside, crashes, drops>>
    BY <1>5 DEF Perform
  <2> QED
    BY <2>1, <2>2, <2>3, <2>4 DEF TypeOK, Performed, Stages
<1>6. ASSUME NEW a \in Attempts, Remember(a)
      PROVE  TypeInv'
  <2>1. RecordOf(a) \in Records
    BY <1>6, RecordOfType DEF Remember, Reply, Move
  <2>2. PICK what \in Records \cup {Failure} : answer' = [answer EXCEPT ![a] = what]
    BY <1>6, <2>1 DEF Remember, Reply
  <2>3. pc' = [pc EXCEPT ![a] = "answered"]
    BY <1>6 DEF Remember, Reply, Move
  <2>4. /\ store' \in [Keys -> Records \cup {Nothing}]
        /\ faults' \in 0..MaxFaults
    <3>1. CASE faults' = faults /\ store' = [store EXCEPT ![KeyOf(a)] = RecordOf(a)]
      BY <3>1, <2>1, DraftType DEF TypeOK
    <3>2. CASE Fails /\ store' = store
      BY <3>2, BoundsAreNaturals DEF Fails, TypeOK
    <3> QED
      BY <1>6, <3>1, <3>2 DEF Remember
  <2>5. UNCHANGED <<files, draft, at, started, result, landed, clock, outside, crashes,
                    drops>>
    BY <1>6 DEF Remember
  <2> QED
    BY <2>2, <2>3, <2>4, <2>5 DEF TypeOK, Performed, Stages
<1>7. ASSUME NEW i \in Instances, Crash(i)
      PROVE  TypeInv'
  BY <1>7, BoundsAreNaturals DEF Crash, TypeOK, Performed, Stages
<1>8. ASSUME NEW t \in Targets, OutsideEdit(t)
      PROVE  TypeInv'
  BY <1>8, BoundsAreNaturals DEF OutsideEdit, TypeOK, Performed, Contents, request
<1>9. CASE Drop
  BY <1>9, BoundsAreNaturals DEF Drop, TypeOK, Performed, request
<1>10. CASE Tick
  BY <1>10, BoundsAreNaturals DEF Tick, TypeOK, Performed, request
<1>11. CASE UNCHANGED vars
  BY <1>11 DEF vars, TypeOK, Performed, request, environment
<1> QED
  BY <1>1, <1>2, <1>3, <1>4, <1>5, <1>6, <1>7, <1>8, <1>9, <1>10, <1>11 DEF Next

\* The model is well typed: what the key table holds is always an outcome.
THEOREM KeysTypeCorrect == Spec => []TypeOK
<1> QED
  BY TypeInit, TypeStep, PTL DEF Spec, TypeInv

-----------------------------------------------------------------------------
(* Every success that is recorded, or told, is that of a write that landed *)
(* under the same key with the same body.                                  *)

Done(key, body) ==
    \E b \in landed : draft[b].key = key /\ draft[b].body = body

Landed ==
    \A a \in Attempts :
        /\ pc[a] = "performed" /\ result[a] = "ok" => a \in landed
        /\ a \in landed => pc[a] # "unsent"

Recorded ==
    \A k \in Keys : store[k].kind = "ok" => Done(k, store[k].body)

Told ==
    \A a \in Attempts : answer[a].kind = "ok" =>
        pc[a] = "answered" /\ Done(KeyOf(a), draft[a].body)

DoneInv == TypeInv /\ Landed /\ Recorded /\ Told

LEMMA DoneInit == Init => DoneInv
<1> SUFFICES ASSUME Init PROVE DoneInv
  OBVIOUS
<1>1. TypeInv
  BY TypeInit
<1>2. Landed /\ Recorded /\ Told
  BY DEF Init, Landed, Recorded, Told, Nothing
<1> QED
  BY <1>1, <1>2 DEF DoneInv

\* What is done stays done.
LEMMA DoneStays ==
    ASSUME DoneInv, landed \subseteq landed',
           \A b \in landed : draft'[b] = draft[b],
           NEW k, NEW body, Done(k, body)
    PROVE  Done(k, body)'
  BY DEF Done

LEMMA DoneStep == DoneInv /\ [Next]_vars => DoneInv'
<1> SUFFICES ASSUME DoneInv, [Next]_vars PROVE DoneInv'
  OBVIOUS
<1> USE DEF DoneInv
<1>1. TypeInv'
  BY TypeStep
<1>2. ASSUME NEW a \in Attempts, NEW d \in Drafts, NEW i \in Instances, Send(a, d, i)
      PROVE  DoneInv'
  <2>1. /\ pc[a] = "unsent" /\ pc' = [pc EXCEPT ![a] = "sent"]
        /\ draft' = [draft EXCEPT ![a] = d]
        /\ UNCHANGED <<store, result, answer, landed>>
    BY <1>2 DEF Send, Move
  <2>2. \A b \in landed : draft'[b] = draft[b]
    BY <2>1 DEF Landed, TypeInv, TypeOK
  <2>3. \A k, body : Done(k, body) => Done(k, body)'
    BY <2>1, <2>2, DoneStays
  <2>4. answer[a].kind # "ok"
    BY <2>1 DEF Told
  <2> QED
    BY <1>1, <2>1, <2>3, <2>4 DEF Landed, Recorded, Told, KeyOf, TypeInv, TypeOK
<1>3. ASSUME NEW a \in Attempts, TurnAway(a)
      PROVE  DoneInv'
  <2>1. /\ pc[a] = "sent" /\ pc' = [pc EXCEPT ![a] = "answered"]
        /\ answer' = [answer EXCEPT ![a] = TurnedAway]
        /\ UNCHANGED <<store, draft, result, landed>>
    BY <1>3 DEF TurnAway, Reply, Move
  <2> QED
    BY <1>1, <2>1 DEF Landed, Recorded, Told, Done, KeyOf, TurnedAway, TypeInv, TypeOK
<1>4. ASSUME NEW a \in Attempts, Replay(a)
      PROVE  DoneInv'
  <2>1. PICK what : answer' = [answer EXCEPT ![a] = what]
            /\ what = IF store[KeyOf(a)].body = draft[a].body
                      THEN store[KeyOf(a)] ELSE Mismatch
    BY <1>4 DEF Replay, Reply
  <2>2. /\ pc[a] = "sent" /\ pc' = [pc EXCEPT ![a] = "answered"]
        /\ UNCHANGED <<store, draft, result, landed>>
    BY <1>4 DEF Replay, Reply, Move
  <2>3. what.kind = "ok" => Done(KeyOf(a), draft[a].body)
    BY <2>1, DraftType DEF Mismatch, Recorded, TypeInv
  <2> QED
    BY <1>1, <2>1, <2>2, <2>3 DEF Landed, Recorded, Told, Done, KeyOf, TypeInv, TypeOK
<1>5. ASSUME NEW a \in Attempts, Begin(a)
      PROVE  DoneInv'
  <2>1. /\ pc[a] = "sent" /\ pc' = [pc EXCEPT ![a] = "running"]
        /\ UNCHANGED <<store, draft, result, answer, landed>>
    BY <1>5 DEF Begin, Move
  <2> QED
    BY <1>1, <2>1 DEF Landed, Recorded, Told, Done, KeyOf, TypeInv, TypeOK
<1>6. ASSUME NEW a \in Attempts, Perform(a)
      PROVE  DoneInv'
  <2>1. /\ pc[a] = "running" /\ pc' = [pc EXCEPT ![a] = "performed"]
        /\ UNCHANGED <<store, draft, answer>>
        /\ \/ landed' = landed \cup {a} /\ result' = [result EXCEPT ![a] = "ok"]
           \/ landed' = landed /\ result' = [result EXCEPT ![a] = "conflict"]
           \/ landed' = landed /\ result' = [result EXCEPT ![a] = "unavailable"]
    BY <1>6 DEF Perform, Move
  <2>2. \A k, body : Done(k, body) => Done(k, body)'
    BY <2>1, DoneStays
  <2>3. Landed'
    BY <2>1 DEF Landed, TypeInv, TypeOK
  <2>4. answer[a].kind # "ok"
    BY <2>1 DEF Told
  <2> QED
    BY <1>1, <2>1, <2>2, <2>3, <2>4 DEF Recorded, Told, KeyOf, TypeInv, TypeOK
<1>7. ASSUME NEW a \in Attempts, Remember(a)
      PROVE  DoneInv'
  <2>1. /\ pc[a] = "performed" /\ pc' = [pc EXCEPT ![a] = "answered"]
        /\ UNCHANGED <<draft, result, landed>>
        /\ \/ /\ answer' = [answer EXCEPT ![a] = RecordOf(a)]
              /\ store' = [store EXCEPT ![KeyOf(a)] = RecordOf(a)]
           \/ /\ answer' = [answer EXCEPT ![a] = Failure]
              /\ store' = store
    BY <1>7 DEF Remember, Reply, Move
  <2>2. RecordOf(a).kind = "ok" => Done(KeyOf(a), draft[a].body)
    BY <2>1 DEF RecordOf, Landed, Done, KeyOf
  <2>3. RecordOf(a).body = draft[a].body /\ Failure.kind # "ok"
    BY DEF RecordOf, Failure
  <2>4. \A k, body : Done(k, body) => Done(k, body)'
    BY <2>1, DoneStays
  <2>5. Recorded'
    BY <2>1, <2>2, <2>3, <2>4, DraftType DEF Recorded, TypeInv, TypeOK
  <2>6. Told'
    BY <2>1, <2>2, <2>3, <2>4 DEF Told, KeyOf, TypeInv, TypeOK
  <2>7. Landed'
    BY <2>1 DEF Landed, TypeInv, TypeOK
  <2> QED
    BY <1>1, <2>5, <2>6, <2>7
<1>8. ASSUME NEW i \in Instances, Crash(i)
      PROVE  DoneInv'
  <2>1. /\ \A a \in Attempts : pc'[a] = pc[a] \/ (pc'[a] = "lost" /\ pc[a] # "answered")
        /\ UNCHANGED <<store, draft, result, answer, landed>>
    BY <1>8 DEF Crash, Busy
  <2> QED
    BY <1>1, <2>1 DEF Landed, Recorded, Told, Done, KeyOf
<1>9. CASE Drop
  BY <1>1, <1>9 DEF Drop, request, Landed, Recorded, Told, Done, KeyOf, Nothing
<1>10. CASE UNCHANGED <<store, request, landed>>
  BY <1>1, <1>10 DEF request, Landed, Recorded, Told, Done, KeyOf
<1>11. CASE (\E t \in Targets : OutsideEdit(t)) \/ Tick \/ UNCHANGED vars
  BY <1>10, <1>11 DEF OutsideEdit, Tick, vars
<1> QED
  BY <1>2, <1>3, <1>4, <1>5, <1>6, <1>7, <1>8, <1>9, <1>11 DEF Next

\* A body goes to one target under a key.
OneTarget ==
    \A d, e \in Drafts : d.key = e.key /\ d.body = e.body => d.target = e.target

\* Nobody is told that a write succeeded unless that write was done, on however
\* many instances, as long as nobody sends one body to two targets under a key.
THEOREM OkIsDone == ASSUME OneTarget PROVE Spec => []OkMeansDone
<1>1. DoneInv => OkMeansDone
  <2> SUFFICES ASSUME DoneInv, NEW a \in Attempts, answer[a].kind = "ok"
               PROVE  \E b \in landed : draft[b].target = draft[a].target
                                        /\ draft[b].body = draft[a].body
    BY DEF OkMeansDone
  <2>1. PICK b \in landed : draft[b].key = draft[a].key /\ draft[b].body = draft[a].body
    BY DEF DoneInv, Told, Done, KeyOf
  <2>2. draft[a] \in Drafts /\ draft[b] \in Drafts
    BY DEF DoneInv, TypeInv, TypeOK
  <2> QED
    BY <2>1, <2>2 DEF OneTarget
<1> QED
  BY <1>1, DoneInit, DoneStep, PTL DEF Spec

-----------------------------------------------------------------------------
(* One instance: its event loop runs one handler at a time, so between the *)
(* look at a key and its record no other attempt can store an outcome.     *)
(* With two instances this is false (README, section 6).                   *)

OneInstance == \A i, j \in Instances : i = j

\* The caller was answered with an outcome that has not expired.
Standing(a) == answer[a].kind \in Kinds /\ Live(answer[a], clock) /\ drops = 0

Alone == \A a, b \in Attempts : pc[a] \in Busy /\ pc[b] \in Busy => a = b

Unanswered == \A a \in Attempts : pc[a] \in Busy => ~Live(store[KeyOf(a)], clock)

Stands ==
    \A a \in Attempts : Standing(a) => pc[a] = "answered" /\ store[KeyOf(a)] = answer[a]

StandInv == TypeInv /\ Alone /\ Unanswered /\ Stands

LEMMA StandInit == Init => StandInv
<1> SUFFICES ASSUME Init PROVE StandInv
  OBVIOUS
<1>1. TypeInv
  BY TypeInit
<1>2. Alone /\ Unanswered /\ Stands
  BY DEF Init, Alone, Unanswered, Stands, Standing, Live, Busy
<1> QED
  BY <1>1, <1>2 DEF StandInv

\* Time only makes records expire.
LEMMA LiveBefore ==
    ASSUME NEW record \in Records \cup {Nothing}, NEW now \in Nat, NEW later \in Nat,
           now <= later, Live(record, later)
    PROVE  Live(record, now)
<1>1. record \in Records /\ record.expires \in Nat
  BY DEF Live, Records
<1> QED
  BY <1>1 DEF Live

LEMMA StandStep ==
    ASSUME OneInstance, StandInv, [Next]_vars
    PROVE  StandInv'
<1> USE DEF StandInv
<1>1. TypeInv'
  BY TypeStep
<1>2. \A a, b \in Attempts : at[a] = at[b]
  BY DEF OneInstance, TypeInv, TypeOK
<1>3. ASSUME NEW a \in Attempts, NEW d \in Drafts, NEW i \in Instances, Send(a, d, i)
      PROVE  StandInv'
  <2>1. /\ pc[a] = "unsent" /\ pc' = [pc EXCEPT ![a] = "sent"]
        /\ draft' = [draft EXCEPT ![a] = d]
        /\ UNCHANGED <<store, answer, clock, drops>>
    BY <1>3 DEF Send, Move, environment
  <2>2. ~Standing(a)
    BY <2>1 DEF Stands
  <2> QED
    BY <1>1, <2>1, <2>2
       DEF Alone, Unanswered, Stands, Standing, KeyOf, Busy, TypeInv, TypeOK
<1>4. ASSUME NEW a \in Attempts, TurnAway(a)
      PROVE  StandInv'
  <2>1. /\ pc[a] = "sent" /\ pc' = [pc EXCEPT ![a] = "answered"]
        /\ answer' = [answer EXCEPT ![a] = TurnedAway]
        /\ UNCHANGED <<store, draft, clock, drops>>
    BY <1>4 DEF TurnAway, Reply, Move, environment
  <2>2. TurnedAway.kind \notin Kinds
    BY DEF TurnedAway, Kinds
  <2> QED
    BY <1>1, <2>1, <2>2
       DEF Alone, Unanswered, Stands, Standing, KeyOf, Busy, TypeInv, TypeOK
<1>5. ASSUME NEW a \in Attempts, Replay(a)
      PROVE  StandInv'
  <2>1. PICK what \in {store[KeyOf(a)], Mismatch} : answer' = [answer EXCEPT ![a] = what]
    BY <1>5 DEF Replay, Reply
  <2>2. /\ pc[a] = "sent" /\ pc' = [pc EXCEPT ![a] = "answered"]
        /\ UNCHANGED <<store, draft, clock, drops>>
    BY <1>5 DEF Replay, Reply, Move, environment
  <2>3. Mismatch.kind \notin Kinds
    BY DEF Mismatch, Kinds
  <2> QED
    BY <1>1, <2>1, <2>2, <2>3
       DEF Alone, Unanswered, Stands, Standing, KeyOf, Busy, TypeInv, TypeOK
<1>6. ASSUME NEW a \in Attempts, Begin(a)
      PROVE  StandInv'
  <2>1. /\ pc[a] = "sent" /\ pc' = [pc EXCEPT ![a] = "running"]
        /\ UNCHANGED <<store, draft, answer, clock, drops>>
    BY <1>6 DEF Begin, Move, environment
  <2>2. ~Live(store[KeyOf(a)], clock) /\ \A b \in Attempts : pc[b] \notin Busy
    BY <1>2, <1>6 DEF Begin, Recalled, LoopFree
  <2> QED
    BY <1>1, <2>1, <2>2
       DEF Alone, Unanswered, Stands, Standing, KeyOf, Busy, TypeInv, TypeOK
<1>7. ASSUME NEW a \in Attempts, Perform(a)
      PROVE  StandInv'
  <2>1. /\ pc[a] = "running" /\ pc' = [pc EXCEPT ![a] = "performed"]
        /\ UNCHANGED <<store, draft, answer, clock, drops>>
    BY <1>7 DEF Perform, Move
  <2> QED
    BY <1>1, <2>1 DEF Alone, Unanswered, Stands, Standing, KeyOf, Busy, TypeInv, TypeOK
<1>8. ASSUME NEW a \in Attempts, Remember(a)
      PROVE  StandInv'
  <2>1. /\ pc[a] = "performed" /\ pc' = [pc EXCEPT ![a] = "answered"]
        /\ UNCHANGED <<draft, clock, drops>>
    BY <1>8 DEF Remember, Reply, Move
  <2>2. \A b \in Attempts \ {a} : pc[b] \notin Busy
    BY <2>1 DEF Alone, Busy
  <2>3. \A b \in Attempts : Standing(b) => KeyOf(b) # KeyOf(a)
    BY <2>1 DEF Standing, Stands, Unanswered, Busy
  <2>4. Alone' /\ Unanswered'
    BY <2>1, <2>2 DEF Alone, Unanswered, Busy, TypeInv, TypeOK
  <2>5. Stands'
    <3>1. CASE /\ answer' = [answer EXCEPT ![a] = RecordOf(a)]
               /\ store' = [store EXCEPT ![KeyOf(a)] = RecordOf(a)]
      BY <2>1, <2>3, <3>1, DraftType DEF Stands, Standing, KeyOf, TypeInv, TypeOK
    <3>2. CASE answer' = [answer EXCEPT ![a] = Failure] /\ store' = store
      <4>1. Failure.kind \notin Kinds
        BY DEF Failure, Kinds
      <4> QED
        BY <2>1, <3>2, <4>1 DEF Stands, Standing, KeyOf, TypeInv, TypeOK
    <3> QED
      BY <1>8, <3>1, <3>2 DEF Remember, Reply
  <2> QED
    BY <1>1, <2>4, <2>5
<1>9. ASSUME NEW i \in Instances, Crash(i)
      PROVE  StandInv'
  <2>1. /\ \A a \in Attempts : pc'[a] = pc[a] \/ (pc'[a] = "lost" /\ pc[a] # "answered")
        /\ UNCHANGED <<store, draft, answer, clock, drops>>
    BY <1>9 DEF Crash, Busy
  <2> QED
    BY <1>1, <2>1 DEF Alone, Unanswered, Stands, Standing, KeyOf, Busy
<1>10. CASE Drop
  <2>1. /\ store' = [k \in Keys |-> Nothing] /\ drops' = drops + 1
        /\ UNCHANGED <<pc, draft, answer, clock>>
    BY <1>10 DEF Drop, request
  <2>2. drops' # 0
    BY <2>1 DEF TypeInv, TypeOK
  <2>3. Unanswered'
    BY <2>1, DraftType DEF Unanswered, Live, KeyOf, TypeInv
  <2> QED
    BY <1>1, <2>1, <2>2, <2>3 DEF Alone, Stands, Standing
<1>11. CASE Tick
  <2>1. clock' = clock + 1 /\ UNCHANGED <<store, pc, draft, answer, drops>>
    BY <1>11 DEF Tick, request
  <2>2. clock \in Nat /\ clock' \in Nat /\ clock <= clock'
    BY <2>1 DEF TypeInv, TypeOK
  <2>3. \A a \in Attempts : Live(store[KeyOf(a)], clock') => Live(store[KeyOf(a)], clock)
    BY <2>2, LiveBefore, DraftType DEF TypeInv, TypeOK
  <2>4. ASSUME NEW a \in Attempts, Standing(a)'
        PROVE  Standing(a)
    <3>1. answer[a] \in Records
      BY <2>1, <2>4 DEF Standing, Kinds, Nothing, Mismatch, TurnedAway, Failure, TypeInv,
         TypeOK
    <3> QED
      BY <2>1, <2>2, <2>4, <3>1, LiveBefore DEF Standing
  <2> QED
    BY <1>1, <2>1, <2>3, <2>4 DEF Alone, Unanswered, Stands, KeyOf
<1>12. CASE (\E t \in Targets : OutsideEdit(t)) \/ UNCHANGED vars
  <2>1. UNCHANGED <<store, pc, draft, answer, clock, drops>>
    BY <1>12 DEF OutsideEdit, vars, request, environment
  <2> QED
    BY <1>1, <2>1 DEF Alone, Unanswered, Stands, Standing, KeyOf
<1> QED
  BY <1>3, <1>4, <1>5, <1>6, <1>7, <1>8, <1>9, <1>10, <1>11, <1>12 DEF Next

\* On one instance a key answers what its first attempt was answered for as long
\* as the record lives, whatever is retried, fails or crashes.
THEOREM AnswersStandAlone == ASSUME OneInstance PROVE Spec => []AnswersStand
<1>1. StandInv /\ [Next]_vars => StandInv'
  BY StandStep
<1>2. StandInv => AnswersStand
  <2> SUFFICES ASSUME StandInv, NEW a \in Attempts, pc[a] = "answered",
                      answer[a] = RecordOf(a), Live(answer[a], clock), drops = 0
               PROVE  store[KeyOf(a)] = answer[a]
    BY DEF AnswersStand
  <2>1. answer[a].kind \in Kinds
    BY DEF StandInv, TypeInv, TypeOK, RecordOf, Records, Kinds, Nothing, Mismatch,
       TurnedAway, Failure
  <2> QED
    BY <2>1 DEF StandInv, Stands, Standing
<1> QED
  BY <1>1, <1>2, StandInit, PTL DEF Spec

\* On one instance no retry of a refused draft is applied while the refusal
\* lives: the key still answers it, so nothing runs under that key.
THEOREM RefusalsStickAlone == ASSUME OneInstance PROVE Spec => RefusalsStick
<1>1. StandInv /\ [Next]_vars => StandInv'
  BY StandStep
<1>2. ASSUME StandInv, [Next]_vars
      PROVE  [\A a \in Attempts :
                 Refused(a) => \A b \in landed' \ landed : draft[b] # draft[a]]_vars
  <2> SUFFICES ASSUME NEW a \in Attempts, Refused(a), NEW b \in landed', b \notin landed
               PROVE  draft[b] # draft[a]
    OBVIOUS
  <2>1. b \in Attempts
    BY <1>2, TypeStep DEF StandInv, TypeInv, TypeOK
  <2>2. pc[b] = "running"
    BY <1>2 DEF Next, Send, TurnAway, Replay, Begin, Perform, Remember, Crash, Drop,
       OutsideEdit, Tick, Move, vars
  <2>3. Standing(a)
    BY DEF Refused, Standing, Kinds
  <2>4. store[KeyOf(a)] = answer[a] /\ Live(answer[a], clock)
    BY <1>2, <2>3 DEF StandInv, Stands, Standing
  <2>5. ~Live(store[KeyOf(b)], clock)
    BY <1>2, <2>1, <2>2 DEF StandInv, Unanswered, Busy
  <2> QED
    BY <2>4, <2>5 DEF KeyOf
<1> QED
  BY <1>1, <1>2, StandInit, PTL DEF Spec, RefusalsStick

-----------------------------------------------------------------------------
(* A draft lands once, on however many instances and however often its     *)
(* record expires, is dropped or is never written, because no file holds   *)
(* again what a write that landed was composed against.  Every content a   *)
(* file has had was put there once (Chained), so the way back to one would *)
(* have to pass through the original, which no body is.                    *)

\* No file is put back to what it held before by commits past the service.
NothingComesBack ==
    /\ ~Reverts /\ Outsider # Original
    /\ MaxOutside <= 1 \/ \A body \in Bodies : BasedOn[body] # Outsider

Target(a) == draft[a].target
Base(a) == BasedOn[draft[a].body]

\* A write that landed put its body over what it was composed against.
Wrote(t, content) == \E a \in landed : Target(a) = t /\ draft[a].body = content

Chained ==
    \A a \in landed :
        \/ Base(a) = Original
        \/ Base(a) = Outsider /\ outside > 0
        \/ Wrote(Target(a), Base(a))

Placed ==
    \A t \in Targets :
        \/ files[t] = Original /\ \A a \in landed : Target(a) # t
        \/ files[t] = Outsider /\ outside > 0
        \/ Wrote(t, files[t])

Spent == \A a \in landed : files[Target(a)] # Base(a)

Sent == \A a \in landed : pc[a] \in {"performed", "answered", "lost"}

OnceInv == TypeInv /\ Sent /\ Chained /\ Placed /\ Spent /\ OneCommitPerDraft

LEMMA OnceInit == Init => OnceInv
<1> SUFFICES ASSUME Init PROVE OnceInv
  OBVIOUS
<1>1. TypeInv
  BY TypeInit
<1>2. Sent /\ Chained /\ Placed /\ Spent /\ OneCommitPerDraft
  BY DEF Init, Sent, Chained, Placed, Spent, OneCommitPerDraft
<1> QED
  BY <1>1, <1>2 DEF OnceInv

\* A step that lands nothing and leaves the files alone.
LEMMA OnceStands ==
    ASSUME OnceInv, TypeInv', landed' = landed, files' = files, outside' = outside,
           \A a \in landed : draft'[a] = draft[a] /\ pc'[a] \in {"performed", "answered", "lost"}
    PROVE  OnceInv'
<1>1. Sent' /\ Chained' /\ Placed' /\ Spent'
  BY DEF OnceInv, Sent, Chained, Placed, Spent, Wrote, Target, Base
<1>2. OneCommitPerDraft'
  BY DEF OnceInv, OneCommitPerDraft
<1> QED
  BY <1>1, <1>2 DEF OnceInv

LEMMA OnceLands ==
    ASSUME OnceInv, NothingComesBack, NEW a \in Attempts, pc[a] = "running", Holds(a),
           files' = [files EXCEPT ![draft[a].target] = draft[a].body],
           landed' = landed \cup {a}, UNCHANGED <<draft, outside>>
    PROVE  Chained' /\ Placed' /\ Spent' /\ OneCommitPerDraft'
<1> DEFINE t == Target(a)
           body == draft[a].body
<1>1. /\ t \in Targets /\ body \in Bodies /\ files[t] = Base(a)
      /\ body # Original /\ body # Outsider
      /\ files'[t] = body /\ \A u \in Targets \ {t} : files'[u] = files[u]
      /\ \A b \in landed : Target(b) \in Targets
  BY DraftType DEF OnceInv, TypeInv, TypeOK, Holds, Target, Base
\* Nothing that landed was composed against this body.
<1>2. \A b \in landed : Target(b) = t => Base(b) # body
  <2> SUFFICES ASSUME NEW b \in landed, Target(b) = t, Base(b) = body PROVE FALSE
    OBVIOUS
  <2>1. Wrote(t, body)
    BY <1>1 DEF OnceInv, Chained
  <2>2. PICK e \in landed : Target(e) = t /\ draft[e].body = body
    BY <2>1 DEF Wrote
  <2> QED
    BY <1>1, <2>2 DEF OnceInv, Spent, Base
<1>3. Base(a) # body
  <2> SUFFICES ASSUME Base(a) = body PROVE FALSE
    OBVIOUS
  <2>1. Wrote(t, body)
    BY <1>1 DEF OnceInv, Placed
  <2>2. PICK e \in landed : Target(e) = t /\ draft[e].body = body
    BY <2>1 DEF Wrote
  <2> QED
    BY <1>1, <2>2 DEF OnceInv, Spent, Base
<1>4. \A u, content : Wrote(u, content) => Wrote(u, content)'
  BY DEF Wrote, Target
<1>5. Chained'
  <2>1. Base(a) = Original \/ (Base(a) = Outsider /\ outside > 0) \/ Wrote(t, Base(a))
    BY <1>1 DEF OnceInv, Placed
  <2> QED
    BY <1>4, <2>1 DEF OnceInv, Chained, Target, Base
<1>6. Placed'
  <2>1. Wrote(t, body)'
    BY DEF Wrote, Target
  <2> QED
    BY <1>1, <1>4, <2>1 DEF OnceInv, Placed, Target
<1>7. Spent'
  BY <1>1, <1>2, <1>3 DEF OnceInv, Spent, Target, Base
<1>8. OneCommitPerDraft'
  BY <1>1 DEF OnceInv, Spent, OneCommitPerDraft, Target, Base
<1> QED
  BY <1>5, <1>6, <1>7, <1>8

LEMMA OnceStep ==
    ASSUME NothingComesBack, OnceInv, [Next]_vars
    PROVE  OnceInv'
<1>0. TypeInv /\ TypeInv'
  BY TypeStep DEF OnceInv
<1>1. ASSUME NEW a \in Attempts, NEW d \in Drafts, NEW i \in Instances, Send(a, d, i)
      PROVE  OnceInv'
  BY <1>0, <1>1, OnceStands DEF Send, Move, OnceInv, Sent, TypeInv, TypeOK, environment
<1>2. ASSUME NEW a \in Attempts, TurnAway(a) \/ Replay(a) \/ Begin(a)
      PROVE  OnceInv'
  <2>1. /\ pc[a] = "sent" /\ \A b \in Attempts \ {a} : pc'[b] = pc[b]
        /\ UNCHANGED <<files, draft, landed, outside>>
    BY <1>0, <1>2 DEF TurnAway, Replay, Begin, Reply, Move, TypeInv, TypeOK, environment
  <2> QED
    BY <1>0, <2>1, OnceStands DEF OnceInv, Sent, TypeInv, TypeOK
<1>3. ASSUME NEW a \in Attempts, Perform(a)
      PROVE  OnceInv'
  <2>1. /\ pc[a] = "running" /\ pc'[a] = "performed"
        /\ \A b \in Attempts \ {a} : pc'[b] = pc[b]
        /\ UNCHANGED <<draft, outside>>
    BY <1>0, <1>3 DEF Perform, Move, TypeInv, TypeOK
  <2>2. CASE UNCHANGED <<files, landed>>
    BY <1>0, <2>1, <2>2, OnceStands DEF OnceInv, Sent, TypeInv, TypeOK
  <2>3. CASE /\ Holds(a) /\ landed' = landed \cup {a}
             /\ files' = [files EXCEPT ![draft[a].target] = draft[a].body]
    <3>1. Chained' /\ Placed' /\ Spent' /\ OneCommitPerDraft'
      BY <2>1, <2>3, OnceLands
    <3>2. Sent'
      BY <1>0, <2>1, <2>3 DEF OnceInv, Sent, TypeInv, TypeOK
    <3> QED
      BY <1>0, <3>1, <3>2 DEF OnceInv
  <2> QED
    BY <1>3, <2>2, <2>3 DEF Perform
<1>4. ASSUME NEW a \in Attempts, Remember(a)
      PROVE  OnceInv'
  <2>1. /\ pc'[a] = "answered" /\ \A b \in Attempts \ {a} : pc'[b] = pc[b]
        /\ UNCHANGED <<files, draft, landed, outside>>
    BY <1>0, <1>4 DEF Remember, Reply, Move, TypeInv, TypeOK
  <2> QED
    BY <1>0, <2>1, OnceStands DEF OnceInv, Sent, TypeInv, TypeOK
<1>5. ASSUME NEW i \in Instances, Crash(i)
      PROVE  OnceInv'
  <2>1. /\ \A a \in Attempts : pc'[a] \in {pc[a], "lost"}
        /\ UNCHANGED <<files, draft, landed, outside>>
    BY <1>5 DEF Crash
  <2> QED
    BY <1>0, <2>1, OnceStands DEF OnceInv, Sent, TypeInv, TypeOK
<1>6. ASSUME NEW t \in Targets, OutsideEdit(t)
      PROVE  OnceInv'
  <2>1. /\ files' = [files EXCEPT ![t] = Outsider] /\ outside' = outside + 1
        /\ outside < MaxOutside /\ UNCHANGED <<pc, draft, landed>>
    BY <1>6 DEF OutsideEdit, NothingComesBack, request
  <2>2. outside \in Nat /\ MaxOutside \in Nat
    BY <1>0 DEF TypeInv, TypeOK
  \* The file cannot hold what somebody else left there before.
  <2>3. \A a \in landed : Base(a) # Outsider
    <3>1. CASE \A body \in Bodies : BasedOn[body] # Outsider
      BY <1>0, <3>1, DraftType DEF Base, TypeInv, TypeOK
    <3>2. CASE MaxOutside <= 1
      <4>1. outside = 0
        BY <2>1, <2>2, <3>2
      <4> SUFFICES ASSUME NEW a \in landed, Base(a) = Outsider PROVE FALSE
        OBVIOUS
      <4>2. Wrote(Target(a), Outsider)
        BY <4>1 DEF OnceInv, Chained, NothingComesBack
      <4>3. PICK e \in landed : draft[e].body = Outsider
        BY <4>2 DEF Wrote
      <4> QED
        BY <1>0, <4>3, DraftType DEF TypeInv, TypeOK
    <3> QED
      BY <3>1, <3>2 DEF NothingComesBack
  <2>4. Chained'
    BY <2>1, <2>2 DEF OnceInv, Chained, Wrote, Target, Base
  <2>5. Placed'
    BY <1>0, <2>1, <2>2 DEF OnceInv, Placed, Wrote, Target, TypeInv, TypeOK
  <2>6. Spent'
    BY <1>0, <2>1, <2>3 DEF OnceInv, Spent, Target, Base, TypeInv, TypeOK
  <2>7. Sent' /\ OneCommitPerDraft'
    BY <2>1 DEF OnceInv, Sent, OneCommitPerDraft
  <2> QED
    BY <1>0, <2>4, <2>5, <2>6, <2>7 DEF OnceInv
<1>7. CASE Drop \/ Tick \/ UNCHANGED vars
  BY <1>0, <1>7, OnceStands DEF Drop, Tick, vars, request, environment, OnceInv, Sent
<1> QED
  BY <1>1, <1>2, <1>3, <1>4, <1>5, <1>6, <1>7 DEF Next

\* However often a write is retried, on however many instances and whatever
\* becomes of its record, it is one commit.
THEOREM OneCommitEver ==
    ASSUME NothingComesBack
    PROVE  Spec => []OneCommitPerDraft
<1>1. OnceInv /\ [Next]_vars => OnceInv'
  BY OnceStep
<1>2. OnceInv => OneCommitPerDraft
  BY DEF OnceInv
<1> QED
  BY <1>1, <1>2, OnceInit, PTL DEF Spec

=============================================================================
