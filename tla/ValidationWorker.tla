-------------------------- MODULE ValidationWorker --------------------------
(***************************************************************************)
(* The automation that validates exports: a pass over the exports of one   *)
(* pinned revision, which re-inspects what changed and commits what it     *)
(* found beside the specification.                                         *)
(*                                                                         *)
(* Specifications, digests and the record are read at the pinned revision; *)
(* the mesh is read from the file the working copy holds at that moment,   *)
(* while the event loop's fetches move the copy.  A commit is the          *)
(* compare-and-swap EditLedger specifies, at the copy's revision.  Time is *)
(* left out of a record; `push`, the number of outside pushes its pinned   *)
(* revision includes, stands for that revision.                            *)
(***************************************************************************)
EXTENDS Integers, Sequences, FiniteSets

CONSTANTS
    Workers,        \* passes under way: one per service process
    Exports, Assets,
    SpecOf,         \* [Exports -> Assets]: the specification discovered for it
    Contents,       \* what an export's file may hold
    Specs,          \* what a specification may say
    Passes,         \* [Contents -> SUBSET Specs]: the verdict of the rules
    Unreadable,     \* contents no inspector can read
    First,          \* the tree the branch starts from
    MaxPushes,      \* bound: commits pushed past the service
    MaxFaults,      \* bound: commits the remote does not answer
    MaxDeaths,      \* bound: passes ended by a crash or an unexpected error
    Reverts         \* whether an outside push may put former content back

NoRecord == [export |-> "none", hash |-> "none", spec |-> "none", passed |-> FALSE, push |-> 0]
Records == [export : Exports, hash : Contents, spec : Specs, passed : BOOLEAN,
            push : 0..MaxPushes]
Trees == [bytes : [Exports -> Contents], spec : [Assets -> Specs],
          record : [Assets -> Records \cup {NoRecord}], push : 0..MaxPushes]

\* The two digests a record carries are those of the revision it names.
OfOneRevision(record, a, trees) ==
    record # NoRecord =>
        /\ trees[record.push + 1].bytes[record.export] = record.hash
        /\ trees[record.push + 1].spec[a] = record.spec

ASSUME WorkerAssumption ==
    /\ SpecOf \in [Exports -> Assets]
    /\ Passes \in [Contents -> SUBSET Specs] /\ Unreadable \subseteq Contents
    /\ First \in Trees /\ First.push = 0
    /\ \A a \in Assets :
           First.record[a].push = 0 /\ OfOneRevision(First.record[a], a, <<First>>)
    /\ {MaxPushes, MaxFaults, MaxDeaths} \subseteq Nat
    /\ Reverts \in BOOLEAN

VARIABLES
    branch,     \* the tree at the tip of the remote's branch
    copy,       \* the tree checked out in the working copy
    pushed,     \* every tree an outside push made, in order (auxiliary)
    stage,      \* where each worker is
    pin,        \* the revision its pass is pinned to
    todo,       \* the exports it has still to look at
    export,     \* the export it is looking at
    found,      \* the record it is committing
    rows,       \* the validated export in each asset's index row
    faults, deaths

pass == <<stage, pin, todo, export, found>>
vars == <<branch, copy, pushed, pass, rows, faults, deaths>>

Stages == {"idle", "looking", "inspecting", "committing", "indexing"}

WorkerTypeOK ==
    /\ branch \in Trees /\ copy \in Trees /\ pushed \in Seq(Trees)
    /\ stage \in [Workers -> Stages]
    /\ pin \in [Workers -> Trees]
    /\ todo \in [Workers -> SUBSET Exports]
    /\ export \in [Workers -> Exports]
    /\ found \in [Workers -> Records \cup {NoRecord}]
    /\ rows \in [Assets -> Exports \cup {"none"}]
    /\ faults \in 0..MaxFaults /\ deaths \in 0..MaxDeaths

WorkerInit ==
    /\ branch = First /\ copy = First /\ pushed = <<First>>
    /\ stage = [w \in Workers |-> "idle"]
    /\ pin = [w \in Workers |-> First]
    /\ todo = [w \in Workers |-> {}]
    /\ \E e \in Exports : export = [w \in Workers |-> e]
    /\ found = [w \in Workers |-> NoRecord]
    /\ rows = [a \in Assets |-> First.record[a].export]
    /\ faults = 0 /\ deaths = 0

-----------------------------------------------------------------------------
Asset(w) == SpecOf[export[w]]

\* Mutant of RecordedAt: what was written is never read back.
RecordedAtUnread(w) == IF stage[w] \in Stages THEN NoRecord ELSE pin[w].record[Asset(w)]

\* recorded_validation: the record beside the specification, pinned.
RecordedAt(w) == pin[w].record[Asset(w)]

\* Mutant of NeedsValidation: the export's digest is not compared.
NeedsValidationByName(w) ==
    \/ RecordedAt(w).export # export[w]
    \/ RecordedAt(w).spec # pin[w].spec[Asset(w)]

NeedsValidation(w) ==
    \/ RecordedAt(w).export # export[w]
    \/ RecordedAt(w).hash # pin[w].bytes[export[w]]
    \/ RecordedAt(w).spec # pin[w].spec[Asset(w)]

\* The specification's digest is not among what makes a record worth a commit.
NeedsCommit(recorded, current) ==
    \/ recorded.export # current.export
    \/ recorded.hash # current.hash
    \/ recorded.passed # current.passed

Move(w, from, to) ==
    /\ stage[w] = from
    /\ stage' = [stage EXCEPT ![w] = to]

Done(w, from) ==
    /\ Move(w, from, "looking")
    /\ todo' = [todo EXCEPT ![w] = @ \ {export[w]}]

-----------------------------------------------------------------------------
\* validate_changed_exports: everything a pass reads, it reads at one revision.
Begin(w) ==
    /\ Move(w, "idle", "looking")
    /\ pin' = [pin EXCEPT ![w] = copy]
    /\ todo' = [todo EXCEPT ![w] = Exports]
    /\ UNCHANGED <<branch, copy, pushed, export, found, rows, faults, deaths>>

Look(w, e) ==
    /\ stage[w] = "looking" /\ e \in todo[w]
    /\ export' = [export EXCEPT ![w] = e]
    /\ Move(w, "looking", "inspecting")
    /\ UNCHANGED <<branch, copy, pushed, pin, todo, found, rows, faults, deaths>>

Skip(w) ==
    /\ ~NeedsValidation(w)
    /\ Done(w, "inspecting")
    /\ UNCHANGED <<branch, copy, pushed, pin, export, found, rows, faults, deaths>>

\* validate_export: the pinned specification's rules on the mesh the copy holds.
Verdict(w) == pin[w].spec[Asset(w)] \in Passes[copy.bytes[export[w]]]

Readable(w) == copy.bytes[export[w]] \notin Unreadable

\* Mutant of RecordOf: the digests are taken where the mesh is read.
RecordOfCopy(w) ==
    [export |-> export[w], hash |-> copy.bytes[export[w]], spec |-> pin[w].spec[Asset(w)],
     passed |-> Verdict(w), push |-> pin[w].push]

\* _record_of: the pinned digests, and the verdict on what the copy held.
RecordOf(w) ==
    [export |-> export[w], hash |-> pin[w].bytes[export[w]], spec |-> pin[w].spec[Asset(w)],
     passed |-> Verdict(w), push |-> pin[w].push]

\* validate_export under _validated: the mesh is inspected, and the record
\* committed if it says something new.
Inspect(w) ==
    /\ NeedsValidation(w)
    /\ \/ /\ ~Readable(w) \/ ~NeedsCommit(RecordedAt(w), RecordOf(w))
          /\ Done(w, "inspecting")
          /\ UNCHANGED found
       \/ /\ Readable(w)
          /\ NeedsCommit(RecordedAt(w), RecordOf(w))
          /\ Move(w, "inspecting", "committing")
          /\ found' = [found EXCEPT ![w] = RecordOf(w)]
          /\ UNCHANGED todo
    /\ UNCHANGED <<branch, copy, pushed, pin, export, rows, faults, deaths>>

\* Mutant of BasedOn: the precondition is what the copy holds now.
BasedOnCopy(w) == copy.record[Asset(w)]

\* _committed: the digest the edit is composed against, at the pinned revision.
BasedOn(w) == pin[w].record[Asset(w)]

\* write_back refuses: the record is not the one this pass read.
Conflict(w) ==
    /\ copy.record[Asset(w)] # BasedOn(w)
    /\ Done(w, "committing")
    /\ UNCHANGED <<branch, copy, pushed, pin, export, found, rows, faults, deaths>>

\* The push is rejected, the copy reset, and the edit tried again on the tip.
Rejected(w) ==
    /\ stage[w] = "committing"
    /\ copy.record[Asset(w)] = BasedOn(w)
    /\ copy # branch
    /\ copy' = branch
    /\ UNCHANGED <<branch, pushed, pass, rows, faults, deaths>>

Commit(w) ==
    /\ copy.record[Asset(w)] = BasedOn(w)
    /\ copy = branch
    /\ Move(w, "committing", "indexing")
    /\ branch' = [branch EXCEPT !.record[Asset(w)] = found[w]]
    /\ copy' = branch'
    /\ UNCHANGED <<pushed, pin, todo, export, found, rows, faults, deaths>>

Unavailable(w) ==
    /\ faults < MaxFaults /\ faults' = faults + 1
    /\ Done(w, "committing")
    /\ UNCHANGED <<branch, copy, pushed, pin, export, found, rows, deaths>>

\* Mutant of Index: the asset in the export's place.
IndexAsset(w) ==
    /\ Done(w, "indexing")
    /\ rows' = [rows EXCEPT ![Asset(w)] = Asset(w)]
    /\ UNCHANGED <<branch, copy, pushed, pin, export, found, faults, deaths>>

\* _index: the row names what was just validated.
Index(w) ==
    /\ Done(w, "indexing")
    /\ rows' = [rows EXCEPT ![Asset(w)] = found[w].export]
    /\ UNCHANGED <<branch, copy, pushed, pin, export, found, faults, deaths>>

End(w) ==
    /\ todo[w] = {}
    /\ Move(w, "looking", "idle")
    /\ UNCHANGED <<branch, copy, pushed, pin, todo, export, found, rows, faults, deaths>>

\* Anything but an operation's refusal ends the whole pass, as a crash does.
Die(w) ==
    /\ deaths < MaxDeaths /\ deaths' = deaths + 1
    /\ stage[w] # "idle"
    /\ Move(w, stage[w], "idle")
    /\ UNCHANGED <<branch, copy, pushed, pin, todo, export, found, rows, faults>>

-----------------------------------------------------------------------------
Sync ==
    /\ copy # branch
    /\ copy' = branch
    /\ UNCHANGED <<branch, pushed, pass, rows, faults, deaths>>

Push(tree) ==
    /\ branch.push < MaxPushes
    /\ branch' = [tree EXCEPT !.push = branch.push + 1]
    /\ pushed' = Append(pushed, branch')
    /\ UNCHANGED <<copy, pass, rows, faults, deaths>>

Fresh(values) == Reverts \/ values = {}

PushExport(e, content) ==
    /\ content # branch.bytes[e]
    /\ Fresh({i \in DOMAIN pushed : pushed[i].bytes[e] = content})
    /\ Push([branch EXCEPT !.bytes[e] = content])

PushSpec(a, said) ==
    /\ said # branch.spec[a]
    /\ Fresh({i \in DOMAIN pushed : pushed[i].spec[a] = said})
    /\ Push([branch EXCEPT !.spec[a] = said])

Advance(w) ==
    \/ Begin(w) \/ Skip(w) \/ Inspect(w)
    \/ Conflict(w) \/ Rejected(w) \/ Commit(w) \/ Index(w) \/ End(w)
    \/ \E e \in Exports : Look(w, e)

WorkerNext ==
    \/ \E w \in Workers : Advance(w) \/ Unavailable(w) \/ Die(w)
    \/ Sync
    \/ \E e \in Exports, content \in Contents : PushExport(e, content)
    \/ \E a \in Assets, said \in Specs : PushSpec(a, said)

WorkerSpec == WorkerInit /\ [][WorkerNext]_vars

\* The ticker starts a pass after every interval and fetches before it; a pass
\* that is not interrupted goes on.
WorkerFairness == WF_vars(Sync) /\ \A w \in Workers : WF_vars(Advance(w))

LiveWorkerSpec == WorkerSpec /\ WorkerFairness

-----------------------------------------------------------------------------
\* "Pinned once per pass, so a sync mid-run cannot give half of it one
\* revision and half another": whatever moves under a pass, the two digests a
\* committed record carries are those of one revision of the branch.
RecordsNameOneRevision ==
    \A a \in Assets : OfOneRevision(branch.record[a], a, pushed)

\* A pass pinned to an older revision, of this process or of the one being
\* replaced, never puts its record over one of a newer revision.
RecordsMoveForward ==
    \A a \in Assets :
       branch.record[a] # NoRecord => branch.record'[a].push >= branch.record[a].push

\* Whatever a racing fetch made a record say, once pushes stop every record
\* ends up with the verdict of its specification on the export the branch holds.
RecordIsTrue(e) ==
    LET record == branch.record[SpecOf[e]] IN
    /\ record # NoRecord
    /\ record.hash = branch.bytes[e]
    /\ record.passed <=> branch.spec[SpecOf[e]] \in Passes[branch.bytes[e]]

VerdictsComeTrue ==
    <>[](\A e \in Exports : branch.bytes[e] \in Unreadable \/ RecordIsTrue(e))

\* The worker does not commit for ever: "re-validating would commit the same
\* outcome again on every run".
CommitsStop == <>[](\A w \in Workers : stage[w] # "committing")

\* Records are of one revision, and none goes back.
RecordsHold ==
    [][/\ WorkerTypeOK'
       /\ RecordsNameOneRevision'
       /\ RecordsMoveForward]_vars

\* The worker's work ends, and ends with true records.
SweepsSettle ==
    /\ VerdictsComeTrue
    /\ CommitsStop

=============================================================================
