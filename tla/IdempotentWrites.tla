-------------------------- MODULE IdempotentWrites --------------------------
(***************************************************************************)
(* Keyed writes over HTTP: `once` and `applied` run a write at most once   *)
(* per idempotency key and replay what it answered, while the per-file     *)
(* precondition of the write itself refuses a second application when the  *)
(* record is gone.                                                         *)
(*                                                                         *)
(* A write is abstracted to a compare-and-swap on the file it targets,     *)
(* which is what EditLedger says write_back is.  A body is its own new     *)
(* content and names the content it was composed against.  Every handler   *)
(* is `async def` over synchronous code, so an instance serves one request *)
(* at a time; two instances share the key table during a rollover.         *)
(***************************************************************************)
EXTENDS Integers, FiniteSets

CONSTANTS
    Instances,      \* service processes over one database
    Attempts,       \* requests sent, retries included
    Keys, Targets, Bodies,
    Original,       \* what every target holds at first
    Outsider,       \* what a commit made past the service leaves in a file
    Drafts,         \* the writes callers hold: records of a key, a target, a body
    BasedOn,        \* [Bodies -> content the body was composed against]
    Lifetime,       \* how long a record is replayed
    MaxClock,       \* bound: ticks of the clock
    MaxOutside,     \* bound: files changed past the service
    MaxFaults,      \* bound: remote or index calls that fail
    MaxCrashes,     \* bound: instances killed
    MaxDrops,       \* bound: index rebuilds that drop the key table
    Reverts         \* whether an outside commit may put the first content back

Contents == Bodies \cup {Original, Outsider}

ASSUME IdempotentAssumption ==
    /\ Drafts \subseteq [key : Keys, target : Targets, body : Bodies]
    /\ BasedOn \in [Bodies -> Contents]
    /\ Lifetime \in Nat \ {0}
    /\ {MaxClock, MaxOutside, MaxFaults, MaxCrashes, MaxDrops} \subseteq Nat
    /\ Reverts \in BOOLEAN
    /\ Original \notin Bodies /\ Outsider \notin Bodies

VARIABLES
    files,      \* the content of every target on the branch
    store,      \* the idempotency_keys table
    pc,         \* where each attempt is
    draft,      \* what each attempt sends
    at,         \* the instance it was sent to
    started,    \* `now` of `once`
    result,     \* what the operation returned, before it is recorded
    answer,     \* what the caller was told
    landed,     \* the attempts whose write reached the branch
    clock,
    outside, faults, crashes, drops

request == <<pc, draft, at, started, result, answer>>
environment == <<clock, outside, faults, crashes, drops>>
vars == <<files, store, request, landed, environment>>

Kinds == {"ok", "conflict", "unavailable"}
Records == [body : Bodies, kind : Kinds, by : Attempts, expires : Nat]
Nothing == [kind |-> "nothing"]

\* Replies that are not a record: the key was used for another body, the
\* caller was not let in, or the handler failed.
Mismatch == [kind |-> "mismatch"]
TurnedAway == [kind |-> "unauthenticated"]
Failure == [kind |-> "internal"]

Stages == {"unsent", "sent", "running", "performed", "answered", "lost"}
Busy == {"running", "performed"}

TypeOK ==
    /\ files \in [Targets -> Contents]
    /\ store \in [Keys -> Records \cup {Nothing}]
    /\ pc \in [Attempts -> Stages]
    /\ draft \in [Attempts -> Drafts]
    /\ at \in [Attempts -> Instances]
    /\ started \in [Attempts -> 0..MaxClock]
    /\ result \in [Attempts -> Kinds \cup {"none"}]
    /\ answer \in [Attempts -> Records \cup {Nothing, Mismatch, TurnedAway, Failure}]
    /\ landed \subseteq Attempts
    /\ clock \in 0..MaxClock
    /\ outside \in 0..MaxOutside /\ faults \in 0..MaxFaults
    /\ crashes \in 0..MaxCrashes /\ drops \in 0..MaxDrops

Init ==
    /\ files = [t \in Targets |-> Original]
    /\ store = [k \in Keys |-> Nothing]
    /\ pc = [a \in Attempts |-> "unsent"]
    /\ \E d \in Drafts, i \in Instances :
          draft = [a \in Attempts |-> d] /\ at = [a \in Attempts |-> i]
    /\ started = [a \in Attempts |-> 0]
    /\ result = [a \in Attempts |-> "none"]
    /\ answer = [a \in Attempts |-> Nothing]
    /\ landed = {}
    /\ clock = 0 /\ outside = 0 /\ faults = 0 /\ crashes = 0 /\ drops = 0

-----------------------------------------------------------------------------
KeyOf(a) == draft[a].key

\* recall: the row of a key, unless it is past its bound.
Live(record, now) == record # Nothing /\ record.expires > now

\* The event loop of an attempt's instance is not inside another handler.
LoopFree(a) == \A b \in Attempts : ~(at[b] = at[a] /\ pc[b] \in Busy)

Fails == faults < MaxFaults /\ faults' = faults + 1

Move(a, from, to) ==
    /\ pc[a] = from
    /\ pc' = [pc EXCEPT ![a] = to]

Reply(a, from, what) ==
    /\ Move(a, from, "answered")
    /\ answer' = [answer EXCEPT ![a] = what]

-----------------------------------------------------------------------------
\* A caller sends a draft, for the first time or again, whatever became of the
\* attempts before.
Send(a, d, i) ==
    /\ Move(a, "unsent", "sent")
    /\ draft' = [draft EXCEPT ![a] = d]
    /\ at' = [at EXCEPT ![a] = i]
    /\ UNCHANGED <<files, store, started, result, answer, landed, environment>>

\* prepared_for, authorship and read_edit refuse before the key is looked at.
TurnAway(a) ==
    /\ LoopFree(a)
    /\ Reply(a, "sent", TurnedAway)
    /\ UNCHANGED <<files, store, draft, at, started, result, landed, environment>>

\* Mutant of Recalled: only a success is replayed.
RecalledSuccess(a) == Live(store[KeyOf(a)], clock) /\ store[KeyOf(a)].kind = "ok"

\* once: a live record answers without anything being run.
Recalled(a) == Live(store[KeyOf(a)], clock)

\* Mutant of Replay: the digest of the body is not compared.
ReplayAnyBody(a) ==
    /\ LoopFree(a) /\ Recalled(a)
    /\ Reply(a, "sent", store[KeyOf(a)])
    /\ UNCHANGED <<files, store, draft, at, started, result, landed, environment>>

Replay(a) ==
    /\ LoopFree(a) /\ Recalled(a)
    /\ Reply(a, "sent", LET record == store[KeyOf(a)] IN
                         IF record.body = draft[a].body THEN record ELSE Mismatch)
    /\ UNCHANGED <<files, store, draft, at, started, result, landed, environment>>

Begin(a) ==
    /\ LoopFree(a) /\ ~Recalled(a)
    /\ Move(a, "sent", "running")
    /\ started' = [started EXCEPT ![a] = clock]
    /\ UNCHANGED <<files, store, draft, at, result, answer, landed, environment>>

\* Mutant of Holds: no precondition.
HoldsAlways(a) == draft[a].target \in DOMAIN files

\* operation(): the write applies if the file still holds what its body was
\* composed against, and changes nothing otherwise.
Holds(a) == files[draft[a].target] = BasedOn[draft[a].body]

Perform(a) ==
    /\ Move(a, "running", "performed")
    /\ \/ /\ Holds(a)
          /\ files' = [files EXCEPT ![draft[a].target] = draft[a].body]
          /\ landed' = landed \cup {a}
          /\ result' = [result EXCEPT ![a] = "ok"]
          /\ UNCHANGED faults
       \/ /\ ~Holds(a)
          /\ result' = [result EXCEPT ![a] = "conflict"]
          /\ UNCHANGED <<files, landed, faults>>
       \/ /\ Fails
          /\ result' = [result EXCEPT ![a] = "unavailable"]
          /\ UNCHANGED <<files, landed>>
    /\ UNCHANGED <<store, draft, at, started, answer, clock, outside, crashes, drops>>

\* outcome_of: what the operation came to, good for Lifetime from its start.
RecordOf(a) ==
    [body |-> draft[a].body, kind |-> result[a], by |-> a,
     expires |-> started[a] + Lifetime]

\* remember is an unconditional upsert, and a failure of it is not a refusal:
\* the handler fails with the write done.
Remember(a) ==
    /\ \/ /\ Reply(a, "performed", RecordOf(a))
          /\ store' = [store EXCEPT ![KeyOf(a)] = RecordOf(a)]
          /\ UNCHANGED faults
       \/ /\ Fails
          /\ Reply(a, "performed", Failure)
          /\ UNCHANGED store
    /\ UNCHANGED <<files, draft, at, started, result, landed, clock, outside, crashes, drops>>

-----------------------------------------------------------------------------
Crash(i) ==
    /\ crashes < MaxCrashes
    /\ crashes' = crashes + 1
    /\ pc' = [a \in Attempts |->
                 IF at[a] = i /\ pc[a] \in Busy \cup {"sent"} THEN "lost" ELSE pc[a]]
    /\ UNCHANGED <<files, store, draft, at, started, result, answer, landed, clock,
                   outside, faults, drops>>

\* The index is dropped and rebuilt; it is the only thing that empties the
\* table, since nothing calls forget_expired.
Drop ==
    /\ drops < MaxDrops
    /\ drops' = drops + 1
    /\ store' = [k \in Keys |-> Nothing]
    /\ UNCHANGED <<files, request, landed, clock, outside, faults, crashes>>

OutsideEdit(t) ==
    /\ outside < MaxOutside
    /\ outside' = outside + 1
    /\ \E content \in {Outsider} \cup IF Reverts THEN {Original} ELSE {} :
          files' = [files EXCEPT ![t] = content]
    /\ UNCHANGED <<store, request, landed, clock, faults, crashes, drops>>

Tick ==
    /\ clock < MaxClock
    /\ clock' = clock + 1
    /\ UNCHANGED <<files, store, request, landed, outside, faults, crashes, drops>>

Next ==
    \/ \E a \in Attempts, d \in Drafts, i \in Instances : Send(a, d, i)
    \/ \E a \in Attempts :
          TurnAway(a) \/ Replay(a) \/ Begin(a) \/ Perform(a) \/ Remember(a)
    \/ \E i \in Instances : Crash(i)
    \/ \E t \in Targets : OutsideEdit(t)
    \/ Drop \/ Tick

Spec == Init /\ [][Next]_vars

-----------------------------------------------------------------------------
\* "A retried write creates one commit": however often a draft is sent, and
\* whatever became of its record, it reaches the branch at most once.
OneCommitPerDraft ==
    \A a, b \in landed : draft[a] = draft[b] => a = b

\* A caller told that a write succeeded asked for a write that was done: the
\* same body, to the same target.
OkMeansDone ==
    \A a \in Attempts : answer[a].kind = "ok" =>
        \E b \in landed : draft[b].target = draft[a].target /\ draft[b].body = draft[a].body

\* remember replaces "nothing that has not expired": what the first attempt
\* under a key was answered is what the key answers until the record expires.
AnswersStand ==
    \A a \in Attempts :
        /\ pc[a] = "answered" /\ answer[a] = RecordOf(a)
        /\ Live(answer[a], clock) /\ drops = 0
        => store[KeyOf(a)] = answer[a]

\* "A retried write that was refused the first time must be refused again
\* rather than succeed because the repository moved in between".
Refused(a) ==
    /\ answer[a].kind \in {"conflict", "unavailable"}
    /\ Live(answer[a], clock) /\ drops = 0

RefusalsStick ==
    [][\A a \in Attempts :
          Refused(a) => \A b \in landed' \ landed : draft[b] # draft[a]]_vars

=============================================================================
