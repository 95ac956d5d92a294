-------------------------- MODULE HostedRepository --------------------------
(***************************************************************************)
(* One project's hosted repository: the remote branch, the working copy on *)
(* the shared volume, and the service instances that serve reads from it   *)
(* and write edits back to it as pushed commits.                           *)
(*                                                                         *)
(* A revision is its history, the sequence of commits that leads to it, so *)
(* two revisions are equal exactly when git would give them one object     *)
(* name, and "a is an ancestor of b" is "a is a prefix of b".  A commit is *)
(* who made it and the tree it records.  A file's content is abstracted to *)
(* its author: a write puts its own name at every path it changes, which   *)
(* tells contents apart exactly as far as the digests of D5 do.            *)
(*                                                                         *)
(* Sources: application/use_cases/hosted_repository.py (the use cases) and *)
(* adapters/outbound/git/repository_host.py (the adapter they run over).   *)
(***************************************************************************)
EXTENDS Integers, Sequences, FiniteSets

CONSTANTS
    Instances,      \* service processes that mount the volume
    Writes,         \* write-back requests, one edit each
    Paths,          \* files of the repository
    Original,       \* the author of the commit the branch starts from
    Outsider,       \* the author of every commit pushed past the service
    MaxAttempts,    \* write_back's `attempts`
    MaxOutside,     \* bound: commits pushed past the service
    MaxFaults,      \* bound: calls to git or to the disk that fail
    MaxCrashes,     \* bound: instances killed
    AcksGetLost,    \* whether a push that landed may still report a failure
    VolumeFails     \* whether writing a file on the volume may fail

ASSUME RepositoryAssumption ==
    /\ MaxAttempts \in Nat \ {0}
    /\ MaxOutside \in Nat /\ MaxFaults \in Nat /\ MaxCrashes \in Nat
    /\ AcksGetLost \in BOOLEAN /\ VolumeFails \in BOOLEAN
    /\ Original \notin Writes /\ Outsider \notin Writes

VARIABLES
    branch,     \* the configured branch, on the remote
    head,       \* HEAD of the working copy; NoRevision before the first clone
    tracking,   \* origin/<branch> in the working copy
    files,      \* the working copy's files
    index,      \* git's index, what the next commit records
    served,     \* _Held.served of each instance; NoRevision unless it is ready
    pc,         \* where each write-back is
    at,         \* the instance each write-back runs in
    basis,      \* what each caller read at the paths it edits (Edit.based_on)
    attempt,    \* _attempt_until's loop counter
    outside, faults, crashes    \* how much of each bound is used

copy == <<head, tracking, files, index>>
writing == <<pc, at, basis, attempt>>
environment == <<outside, faults, crashes>>
vars == <<branch, copy, served, writing, environment>>

-----------------------------------------------------------------------------
(* Revisions, trees and the words for where a write-back is.               *)

Authors == Writes \cup {Original, Outsider}
Tree == [Paths -> Authors]
CommitRecord == [by : Authors, tree : Tree]
NoRevision == <<>>
FirstCommit == [by |-> Original, tree |-> [p \in Paths |-> Original]]

Tip(revision) == revision[Len(revision)]
TreeAt(revision) == Tip(revision).tree

\* `tracking..HEAD` is empty, and a push is a fast-forward, when one history
\* is a prefix of the other.
Ancestor(older, newer) ==
    /\ Len(older) <= Len(newer)
    /\ \A k \in 1..Len(older) : older[k] = newer[k]

\* The tree with write w's content at every path w edits.
Edited(tree, w) == [p \in Paths |-> IF p \in DOMAIN basis[w] THEN w ELSE tree[p]]

\* Inside `with held.lock` of writer(), and inside its flock as well.
InCopy == {"attempt", "checked", "materialised", "staged", "committed",
           "rejected", "failed"}
InProcess == InCopy \cup {"waiting"}

Refused == {"conflict", "unavailable", "abandoned", "unmapped", "broken"}
Answered == Refused \cup {"applied"}
Stages == {"idle", "drafted", "queued", "lost"} \cup InProcess \cup Answered

Ready(i) == served[i] # NoRevision

\* Mutant of VolumeFree: a lock file whose existence is the lock, which a
\* killed process leaves behind.
VolumeFreeByLockFile == \A w \in Writes : pc[w] \notin InCopy \cup {"lost"}

\* No write-back of instance i is inside held.lock; none anywhere holds the
\* volume's lock file.  A killed process releases both.
ProcessFree(i) == \A w \in Writes : ~(pc[w] \in InProcess /\ at[w] = i)
VolumeFree == \A w \in Writes : pc[w] \notin InCopy

TypeOK ==
    /\ branch \in Seq(CommitRecord) \ {NoRevision}
    /\ head \in Seq(CommitRecord)
    /\ tracking \in Seq(CommitRecord)
    /\ files \in Tree /\ index \in Tree
    /\ served \in [Instances -> Seq(CommitRecord)]
    /\ pc \in [Writes -> Stages]
    /\ at \in [Writes -> Instances]
    /\ basis \in [Writes -> UNION {[S -> Authors] : S \in SUBSET Paths}]
    /\ attempt \in [Writes -> 0..MaxAttempts]
    /\ outside \in 0..MaxOutside
    /\ faults \in 0..MaxFaults
    /\ crashes \in 0..MaxCrashes

Init ==
    /\ branch = <<FirstCommit>>
    /\ head = NoRevision /\ tracking = NoRevision
    /\ files = FirstCommit.tree /\ index = FirstCommit.tree
    /\ served = [i \in Instances |-> NoRevision]
    /\ pc = [w \in Writes |-> "idle"]
    /\ at \in [Writes -> Instances]
    /\ basis = [w \in Writes |-> <<>>]
    /\ attempt = [w \in Writes |-> 0]
    /\ outside = 0 /\ faults = 0 /\ crashes = 0

-----------------------------------------------------------------------------
(* Pieces of the adapter several operations share.                         *)

CallAnswers == UNCHANGED faults
CallFails == faults < MaxFaults /\ faults' = faults + 1

\* Mutant of CheckedOut: `git reset` that leaves the index alone.
CheckedOutSoftly(revision) ==
    /\ head' = revision
    /\ files' = TreeAt(revision)
    /\ index' = index

\* Move the checkout to a revision: files and index become its tree.
CheckedOut(revision) ==
    /\ head' = revision
    /\ files' = TreeAt(revision)
    /\ index' = TreeAt(revision)

\* `_reset_to_remote` after a fetch that reached the remote, or did not.
ResetToRemote(reached) ==
    /\ tracking' = IF reached THEN branch ELSE tracking
    /\ CheckedOut(tracking')

Serve(i, revision) == served' = [served EXCEPT ![i] = revision]

Step(w, from, to) ==
    /\ pc[w] = from
    /\ pc' = [pc EXCEPT ![w] = to]

-----------------------------------------------------------------------------
(* What an instance does besides writing.  Each takes held.lock and so     *)
(* waits for this instance's writer, and none takes the volume's lock.     *)

\* clone, run at boot and again by every tick and webhook: adopt the copy the
\* volume holds, or obtain one.  `_adopt` serves whatever HEAD is.
CloneAdopts(i) ==
    /\ ProcessFree(i)
    /\ head # NoRevision
    /\ Serve(i, head)
    /\ UNCHANGED <<branch, copy, writing, environment>>

CloneObtains(i) ==
    /\ ProcessFree(i)
    /\ head = NoRevision
    /\ \/ /\ CallAnswers
          /\ ResetToRemote(TRUE)
          /\ Serve(i, branch)
       \/ /\ CallFails
          /\ UNCHANGED <<copy, served>>
    /\ UNCHANGED <<branch, writing, outside, crashes>>

\* refresh_project over fetch: the branch is fetched, and checked out unless
\* the copy holds commits the remote does not.  A failed fetch changes nothing.
Refresh(i) ==
    /\ Ready(i) /\ ProcessFree(i)
    /\ \/ /\ CallAnswers
          /\ IF Ancestor(head, branch)
             THEN ResetToRemote(TRUE)
             ELSE tracking' = branch /\ UNCHANGED <<head, files, index>>
          /\ Serve(i, head')
       \/ /\ CallFails
          /\ UNCHANGED <<copy, served>>
    /\ UNCHANGED <<branch, writing, outside, crashes>>

\* recover, as resume_project and the recovery drill call it, ready or not:
\* fetch if the remote answers, then discard what the remote does not have.
\* (A copy that is missing is cloned again: CloneObtains.)
Recover(i) ==
    /\ head # NoRevision /\ ProcessFree(i)
    /\ \/ CallAnswers /\ ResetToRemote(TRUE)
       \/ CallFails /\ ResetToRemote(FALSE)
    /\ Serve(i, head')
    /\ UNCHANGED <<branch, writing, outside, crashes>>

\* The process dies.  Its memory and both its locks are gone, its callers
\* never hear an answer, and the volume keeps what was on it.
Crash(i) ==
    /\ crashes < MaxCrashes
    /\ Ready(i)
    /\ crashes' = crashes + 1
    /\ Serve(i, NoRevision)
    /\ pc' = [w \in Writes |->
                 IF at[w] = i /\ pc[w] \in InProcess \cup {"queued"}
                 THEN "lost" ELSE pc[w]]
    /\ UNCHANGED <<branch, copy, at, basis, attempt, outside, faults>>

\* Somebody pushes to the branch without the service.
OutsidePush ==
    /\ outside < MaxOutside
    /\ \E p \in Paths :
          branch' = Append(branch, [by |-> Outsider,
                                    tree |-> [TreeAt(branch) EXCEPT ![p] = Outsider]])
    /\ outside' = outside + 1
    /\ UNCHANGED <<copy, served, writing, faults, crashes>>

-----------------------------------------------------------------------------
(* One write-back, in the order write_back, _attempt_until and _apply run. *)

\* A caller reads some paths at the revision an instance serves.
Draft(w, i) ==
    /\ Ready(i)
    /\ Step(w, "idle", "drafted")
    /\ \E scope \in SUBSET Paths \ {{}} :
          basis' = [basis EXCEPT ![w] = [p \in scope |-> TreeAt(served[i])[p]]]
    /\ UNCHANGED <<branch, copy, served, at, attempt, environment>>

\* The edit arrives at an instance, composed against what was read.  A person
\* with no git identity is refused before any lock is taken.
Submit(w, i) ==
    /\ Ready(i)
    /\ \/ Step(w, "drafted", "queued")
       \/ Step(w, "drafted", "unmapped")
    /\ at' = [at EXCEPT ![w] = i]
    /\ UNCHANGED <<branch, copy, served, basis, attempt, environment>>

\* writer(): held.lock first, then the volume's flock.
EnterProcess(w) ==
    /\ ProcessFree(at[w])
    /\ Step(w, "queued", "waiting")
    /\ UNCHANGED <<branch, copy, served, at, basis, attempt, environment>>

EnterCopy(w) ==
    /\ VolumeFree
    /\ Step(w, "waiting", "attempt")
    /\ attempt' = [attempt EXCEPT ![w] = 1]
    /\ UNCHANGED <<branch, copy, served, at, basis, environment>>

\* Mutant of Reset: the fetch alone, which spares commits the remote has not.
ResetByFetchAlone(w) ==
    /\ \/ /\ CallAnswers
          /\ IF Ancestor(head, branch)
             THEN ResetToRemote(TRUE)
             ELSE tracking' = branch /\ UNCHANGED <<head, files, index>>
       \/ CallFails /\ UNCHANGED copy
    /\ Serve(at[w], head')

\* _reset: recover, then a fetch that is allowed to fail.
Reset(w) ==
    /\ \/ CallAnswers /\ ResetToRemote(TRUE)
       \/ CallFails /\ ResetToRemote(FALSE)
    /\ Serve(at[w], head')

\* deadline.expired(), which only the start of an attempt asks.
Abandon(w) ==
    /\ Step(w, "attempt", "abandoned")
    /\ Reset(w)
    /\ UNCHANGED <<branch, at, basis, attempt, outside, crashes>>

\* Mutant of Unchanged: the precondition is not asked again on a retry.
UnchangedAtFirst(w) ==
    attempt[w] > 1 \/ \A p \in DOMAIN basis[w] : TreeAt(served[at[w]])[p] = basis[w][p]

\* head, then _change for every edit: what the instance serves must still hold
\* exactly what the caller read.
Unchanged(w) ==
    \A p \in DOMAIN basis[w] : TreeAt(served[at[w]])[p] = basis[w][p]

CheckPasses(w) ==
    /\ Step(w, "attempt", "checked")
    /\ Unchanged(w)
    /\ UNCHANGED <<branch, copy, served, at, basis, attempt, environment>>

CheckConflicts(w) ==
    /\ Step(w, "attempt", "conflict")
    /\ ~Unchanged(w)
    /\ UNCHANGED <<branch, copy, served, at, basis, attempt, environment>>

\* commit: write the files, `git add --all -- paths`, `git commit --allow-empty`.
Materialise(w) ==
    /\ Step(w, "checked", "materialised")
    /\ files' = Edited(files, w)
    /\ UNCHANGED <<branch, head, tracking, index, served, at, basis, attempt,
                   environment>>

\* A file cannot be written (OSError): the files before it have been, and the
\* caller leaves the writer's locks with no reset.
MaterialiseFails(w) ==
    /\ VolumeFails /\ CallFails
    /\ Step(w, "checked", "broken")
    /\ \E written \in SUBSET DOMAIN basis[w] \ {DOMAIN basis[w]} :
          files' = [p \in Paths |-> IF p \in written THEN w ELSE files[p]]
    /\ UNCHANGED <<branch, head, tracking, index, served, at, basis, attempt,
                   outside, crashes>>

Stage(w) ==
    /\ Step(w, "materialised", "staged")
    /\ index' = [p \in Paths |-> IF p \in DOMAIN basis[w] THEN files[p] ELSE index[p]]
    /\ UNCHANGED <<branch, head, tracking, files, served, at, basis, attempt,
                   environment>>

Commit(w) ==
    /\ Step(w, "staged", "committed")
    /\ head' = Append(head, [by |-> w, tree |-> index])
    /\ Serve(at[w], head')
    /\ UNCHANGED <<branch, tracking, files, index, at, basis, attempt, environment>>

\* `git add` or `git commit` fails, which reads as an unavailable repository.
CommitFails(w) ==
    /\ CallFails
    /\ Step(w, "materialised", "failed") \/ Step(w, "staged", "failed")
    /\ UNCHANGED <<branch, copy, served, at, basis, attempt, outside, crashes>>

\* Mutant of PushLands: `git push --force`.
PushForced(w) ==
    /\ Step(w, "committed", "applied")
    /\ branch' = head /\ tracking' = head
    /\ UNCHANGED <<head, files, index, served, at, basis, attempt, environment>>

\* push: the remote takes HEAD when it is ahead of the branch or level with it.
PushLands(w) ==
    /\ Ancestor(branch, head)
    /\ Step(w, "committed", "applied")
    /\ branch' = head /\ tracking' = head
    /\ UNCHANGED <<head, files, index, served, at, basis, attempt, environment>>

\* Mutant of PushRejected: a rejection read as success.
PushRejectedUnheard(w) ==
    /\ ~Ancestor(branch, head)
    /\ Step(w, "committed", "applied")
    /\ UNCHANGED <<branch, copy, served, at, basis, attempt, environment>>

\* The push is refused in the words of REJECTION_MARKERS, which a remote that
\* declines a push it could have taken (a hook, a locked ref) uses as well.
PushRejected(w) ==
    /\ \/ ~Ancestor(branch, head) /\ CallAnswers
       \/ Ancestor(branch, head) /\ CallFails
    /\ Step(w, "committed", "rejected")
    /\ UNCHANGED <<branch, copy, served, at, basis, attempt, outside, crashes>>

\* The push fails without being refused; it may have landed all the same.
PushFails(w) ==
    /\ Step(w, "committed", "failed")
    /\ CallFails
    /\ \/ UNCHANGED branch
       \/ AcksGetLost /\ Ancestor(branch, head) /\ branch' = head
    /\ UNCHANGED <<copy, served, at, basis, attempt, outside, crashes>>

\* Mutant of Retry: one attempt too many.
RetryOnceMore(w) ==
    /\ attempt[w] <= MaxAttempts
    /\ Step(w, "rejected", "attempt")
    /\ attempt' = [attempt EXCEPT ![w] = @ + 1]
    /\ Reset(w)
    /\ UNCHANGED <<branch, at, basis, outside, crashes>>

\* A rejected push is the retry signal, until the attempts run out.
Retry(w) ==
    /\ attempt[w] < MaxAttempts
    /\ Step(w, "rejected", "attempt")
    /\ attempt' = [attempt EXCEPT ![w] = @ + 1]
    /\ Reset(w)
    /\ UNCHANGED <<branch, at, basis, outside, crashes>>

GiveUp(w) ==
    /\ attempt[w] = MaxAttempts
    /\ Step(w, "rejected", "conflict")
    /\ Reset(w)
    /\ UNCHANGED <<branch, at, basis, attempt, outside, crashes>>

\* Mutant of ReportUnavailable: the answer without the reset.
ReportUnavailableAtOnce(w) ==
    /\ Step(w, "failed", "unavailable")
    /\ UNCHANGED <<branch, copy, served, at, basis, attempt, environment>>

\* An unavailable remote is not retried: reset, and say nothing was recorded.
ReportUnavailable(w) ==
    /\ Step(w, "failed", "unavailable")
    /\ Reset(w)
    /\ UNCHANGED <<branch, at, basis, attempt, outside, crashes>>

-----------------------------------------------------------------------------
Background(i) == CloneAdopts(i) \/ CloneObtains(i) \/ Refresh(i) \/ Recover(i)

\* What write-back w does on its own once it has been submitted.
WriteBack(w) ==
    \/ EnterProcess(w) \/ EnterCopy(w) \/ Abandon(w)
    \/ CheckPasses(w) \/ CheckConflicts(w)
    \/ Materialise(w) \/ MaterialiseFails(w) \/ Stage(w) \/ Commit(w) \/ CommitFails(w)
    \/ PushLands(w) \/ PushRejected(w) \/ PushFails(w)
    \/ Retry(w) \/ GiveUp(w) \/ ReportUnavailable(w)

Next ==
    \/ \E i \in Instances : Background(i) \/ Crash(i)
    \/ \E w \in Writes : WriteBack(w)
    \/ \E w \in Writes, i \in Instances : Draft(w, i) \/ Submit(w, i)
    \/ OutsidePush

Spec == Init /\ [][Next]_vars

\* A request thread keeps running while its process lives.  Nothing is assumed
\* of the ticker, of callers or of the remote.
FairSpec == Spec /\ \A w \in Writes : WF_vars(WriteBack(w))

-----------------------------------------------------------------------------
(* What the write path promises.                                           *)

\* The branch holds write w's commit, with w's content at the paths it edits.
Recorded(w) ==
    \E k \in 1..Len(branch) :
        /\ branch[k].by = w
        /\ \A p \in DOMAIN basis[w] : branch[k].tree[p] = w

\* "A caller SHALL NOT be told a write-back succeeded unless its commit exists
\* on the configured branch": an applied edit's content is on the remote.
AppliedIsRecorded == \A w \in Writes : pc[w] = "applied" => Recorded(w)

\* "No change was recorded": whichever way a write-back is refused, however
\* many commits it made and threw away, none of them is ever on the branch,
\* neither now nor carried there later by somebody else's push.
RefusedIsNotRecorded ==
    \A w \in Writes : pc[w] \in Refused =>
        \A k \in 1..Len(branch) : branch[k].by # w

\* "Concurrent edits conflict rather than overwrite": on the branch, the commit
\* of an edit replaces exactly the content its caller had read.
NoLostUpdate ==
    \A w \in Writes : \A k \in 2..Len(branch) :
        branch[k].by = w =>
            \A p \in DOMAIN basis[w] : branch[k - 1].tree[p] = basis[w][p]

\* One logical edit is one commit: the commit of an edit changes no path the
\* edit does not name.
OnlyNamedPaths ==
    \A w \in Writes : \A k \in 2..Len(branch) :
        branch[k].by = w =>
            \A p \in Paths \ DOMAIN basis[w] : branch[k].tree[p] = branch[k - 1].tree[p]

\* "After any failed write-back, the working copy SHALL be returned to the
\* state of the configured branch": with no write-back under way the volume
\* holds nothing uncommitted and nothing unpushed.
WorkingCopyReturned ==
    VolumeFree /\ head # NoRevision =>
        /\ Ancestor(head, branch)
        /\ files = TreeAt(head) /\ index = TreeAt(head)

\* "An edit SHALL NOT be considered applied until it exists in the repository":
\* every revision reads are answered from is on the configured branch.
ServedIsPublished == \A i \in Instances : Ready(i) => Ancestor(served[i], branch)

\* The boot step's promise: an instance with no write-back of its own under way
\* serves a revision of the configured branch, whatever a predecessor left.
ServedAtRestIsPublished ==
    VolumeFree => ServedIsPublished

\* Nothing published is ever taken back: no step forces the branch.
BranchOnlyGrows == [][Ancestor(branch, branch')]_branch

\* The working copy, the locks and the retries are invisible from outside: an
\* edit is applied by the one step that lands its push, and that step is a
\* compare-and-swap on the branch.
Outcome(w) ==
    CASE pc[w] = "idle" -> "none"
      [] pc[w] = "applied" -> "applied"
      [] pc[w] \in Refused -> "refused"
      [] OTHER -> "open"

Ledger == INSTANCE EditLedger WITH
    canon <- TreeAt(branch),
    seen <- basis,
    outcome <- [w \in Writes |-> Outcome(w)]

EditsAreAtomic == Ledger!Spec

\* A submitted write-back ends, in an answer or with its process.
EveryEditEnds ==
    \A w \in Writes : pc[w] = "queued" ~> pc[w] \in Answered \cup {"lost"}

\* The working copy is left as a write-back found it, and what it committed
\* is what it was asked to.
CopyIsClean ==
    /\ OnlyNamedPaths
    /\ WorkingCopyReturned

=============================================================================
