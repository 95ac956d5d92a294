----------------------- MODULE HostedRepositoryProofs -----------------------
(***************************************************************************)
(* Theorems about HostedRepository, for any number of instances, writes,   *)
(* paths, attempts and faults.                                             *)
(***************************************************************************)
EXTENDS HostedRepository, TLAPS

USE RepositoryAssumption

-----------------------------------------------------------------------------
(* Revisions.                                                              *)

LEMMA TipType ==
    ASSUME NEW r \in Seq(CommitRecord), r # NoRevision
    PROVE  /\ Len(r) \in Nat \ {0}
           /\ Tip(r) \in CommitRecord
           /\ TreeAt(r) \in Tree
<1>1. Len(r) \in Nat \ {0}
  BY DEF NoRevision
<1>2. r[Len(r)] \in CommitRecord
  BY <1>1
<1>3. Tip(r) \in CommitRecord
  BY <1>2 DEF Tip
<1> QED
  BY <1>1, <1>3 DEF TreeAt, CommitRecord

LEMMA FirstCommitType == FirstCommit \in CommitRecord /\ FirstCommit.tree \in Tree
  BY DEF FirstCommit, CommitRecord, Tree, Authors

LEMMA AppendType ==
    ASSUME NEW r \in Seq(CommitRecord), NEW c \in CommitRecord
    PROVE  /\ Append(r, c) \in Seq(CommitRecord) \ {NoRevision}
           /\ Len(Append(r, c)) = Len(r) + 1
           /\ Append(r, c)[Len(r) + 1] = c
           /\ \A k \in 1..Len(r) : Append(r, c)[k] = r[k]
  BY DEF NoRevision

LEMMA AncestorReflexive == ASSUME NEW r \in Seq(CommitRecord) PROVE Ancestor(r, r)
  BY DEF Ancestor

LEMMA AncestorTransitive ==
    ASSUME NEW a \in Seq(CommitRecord), NEW b \in Seq(CommitRecord),
           NEW c \in Seq(CommitRecord), Ancestor(a, b), Ancestor(b, c)
    PROVE  Ancestor(a, c)
  BY DEF Ancestor

-----------------------------------------------------------------------------
(* Types.  A reset checks out `tracking`, which has a tree only because a  *)
(* copy that exists has fetched once, and a write-back reads what its      *)
(* instance serves; Obtained is what makes both well defined.              *)

Obtained ==
    /\ head # NoRevision => tracking # NoRevision
    /\ \A i \in Instances : Ready(i) => head # NoRevision
    /\ \A w \in Writes : pc[w] \in InProcess \cup {"queued"} => Ready(at[w])

TypeInv == TypeOK /\ Obtained

\* A write-back that has been submitted finds a copy with a tree.
LEMMA SubmittedFindsCopy ==
    ASSUME TypeInv, NEW w \in Writes, pc[w] \in InProcess \cup {"queued"}
    PROVE  /\ head \in Seq(CommitRecord) \ {NoRevision}
           /\ tracking \in Seq(CommitRecord) \ {NoRevision}
           /\ at[w] \in Instances /\ Ready(at[w])
  BY DEF TypeInv, TypeOK, Obtained

\* Checking out a revision, which both kinds of reset do.
LEMMA ResetType ==
    ASSUME TypeOK, NEW reached \in BOOLEAN, ResetToRemote(reached),
           reached \/ tracking # NoRevision
    PROVE  /\ tracking' \in Seq(CommitRecord) \ {NoRevision}
           /\ head' = tracking'
           /\ files' \in Tree /\ index' \in Tree
  BY TipType DEF TypeOK, ResetToRemote, CheckedOut

\* What a copy and an instance look like after the instance has served HEAD.
Moved(i) ==
    /\ head' \in Seq(CommitRecord) \ {NoRevision}
    /\ tracking' \in Seq(CommitRecord) \ {NoRevision}
    /\ files' \in Tree /\ index' \in Tree
    /\ served' \in [Instances -> Seq(CommitRecord)]
    /\ served'[i] # NoRevision
    /\ \A j \in Instances : Ready(j) => served'[j] # NoRevision

LEMMA ServeMoves ==
    ASSUME TypeOK, NEW i \in Instances, Serve(i, head'),
           head' \in Seq(CommitRecord) \ {NoRevision},
           tracking' \in Seq(CommitRecord) \ {NoRevision},
           files' \in Tree, index' \in Tree
    PROVE  Moved(i)
  BY DEF TypeOK, Serve, Moved, Ready

\* A reset, whether or not the remote answered, of a copy that exists.
LEMMA ResetMoves ==
    ASSUME TypeOK, tracking # NoRevision, NEW i \in Instances, Serve(i, head'),
           ResetToRemote(TRUE) \/ ResetToRemote(FALSE)
    PROVE  Moved(i)
  BY ResetType, ServeMoves

\* A step that only moves the copy and one instance keeps every type.
LEMMA MovedKeepsTypes ==
    ASSUME TypeInv, NEW i \in Instances, Moved(i), faults' \in 0..MaxFaults,
           UNCHANGED <<branch, at, basis, outside, crashes>>,
           pc' \in [Writes -> Stages], attempt' \in [Writes -> 0..MaxAttempts],
           \A w \in Writes : pc'[w] \in InProcess \cup {"queued"} =>
                                  pc[w] \in InProcess \cup {"queued"}
    PROVE  TypeInv'
<1>1. TypeOK'
  BY DEF TypeInv, TypeOK, Moved
<1>2. Obtained'
  BY DEF TypeInv, TypeOK, Obtained, Moved, Ready
<1> QED
  BY <1>1, <1>2 DEF TypeInv

LEMMA FaultsType ==
    ASSUME TypeOK, CallAnswers \/ CallFails
    PROVE  faults' \in 0..MaxFaults
  BY DEF TypeOK, CallAnswers, CallFails

LEMMA TypeInit == Init => TypeInv
<1> SUFFICES ASSUME Init PROVE TypeInv
  OBVIOUS
<1>1. FirstCommit \in CommitRecord /\ FirstCommit.tree \in Tree
  BY FirstCommitType
<1>2. branch \in Seq(CommitRecord) \ {NoRevision}
  BY <1>1 DEF Init, NoRevision
<1>3. NoRevision \in Seq(CommitRecord)
  BY DEF NoRevision
<1>4. basis \in [Writes -> UNION {[S -> Authors] : S \in SUBSET Paths}]
  <2>1. <<>> \in [{} -> Authors]
    OBVIOUS
  <2> QED BY <2>1 DEF Init
<1>5. TypeOK
  <2>1. files \in Tree /\ index \in Tree
    BY <1>1 DEF Init
  <2>2. pc \in [Writes -> Stages] /\ at \in [Writes -> Instances]
    BY DEF Init, Stages
  <2>3. attempt \in [Writes -> 0..MaxAttempts]
    BY DEF Init
  <2>4. outside \in 0..MaxOutside /\ faults \in 0..MaxFaults /\ crashes \in 0..MaxCrashes
    BY DEF Init
  <2>5. /\ head \in Seq(CommitRecord) /\ tracking \in Seq(CommitRecord)
        /\ served \in [Instances -> Seq(CommitRecord)]
    BY <1>3 DEF Init
  <2> QED
    BY <1>2, <1>4, <2>1, <2>2, <2>3, <2>4, <2>5 DEF TypeOK
<1> QED
  BY <1>5 DEF Init, TypeInv, Obtained, Ready, InProcess, InCopy

LEMMA TypeStep == TypeInv /\ [Next]_vars => TypeInv'
<1> SUFFICES ASSUME TypeInv, [Next]_vars
             PROVE  TypeInv'
  OBVIOUS
<1>0. TypeOK
  BY DEF TypeInv
<1>1. ASSUME NEW i \in Instances, CloneAdopts(i)
      PROVE  TypeInv'
  BY <1>1 DEF CloneAdopts, Serve, TypeInv, TypeOK, Obtained, Ready, copy, writing,
              environment
<1>2. ASSUME NEW i \in Instances, CloneObtains(i)
      PROVE  TypeInv'
  <2>1. faults' \in 0..MaxFaults
    BY <1>0, <1>2, FaultsType DEF CloneObtains
  <2>2. CASE UNCHANGED <<copy, served>>
    BY <1>2, <2>1, <2>2 DEF CloneObtains, TypeInv, TypeOK, Obtained, Ready, copy, writing
  <2>3. CASE ResetToRemote(TRUE) /\ Serve(i, branch)
    <3>1. head' = branch
      BY <2>3 DEF ResetToRemote, CheckedOut
    <3>2. Moved(i)
      BY <1>0, <2>3, <3>1, ResetType, ServeMoves
    <3> QED
      BY <1>2, <2>1, <3>2, <1>0, MovedKeepsTypes DEF CloneObtains, writing, TypeOK
  <2> QED
    BY <1>2, <2>2, <2>3 DEF CloneObtains
<1>3. ASSUME NEW i \in Instances, Refresh(i)
      PROVE  TypeInv'
  <2>1. faults' \in 0..MaxFaults
    BY <1>0, <1>3, FaultsType DEF Refresh
  <2>2. CASE UNCHANGED <<copy, served>>
    BY <1>3, <2>1, <2>2 DEF Refresh, TypeInv, TypeOK, Obtained, Ready, copy, writing
  <2>3. CASE ~UNCHANGED <<copy, served>>
    <3>1. Serve(i, head')
      BY <1>3, <2>3 DEF Refresh
    <3>2. CASE ResetToRemote(TRUE)
      <4>1. Moved(i)
        BY <1>0, <3>1, <3>2, ResetType, ServeMoves
      <4> QED
        BY <1>3, <2>1, <4>1, <1>0, MovedKeepsTypes DEF Refresh, writing, TypeOK
    <3>3. CASE tracking' = branch /\ UNCHANGED <<head, files, index>>
      <4>1. head # NoRevision
        BY <1>3 DEF Refresh, TypeInv, Obtained
      <4>2. Moved(i)
        BY <1>0, <3>1, <3>3, <4>1, ServeMoves DEF TypeOK
      <4> QED
        BY <1>3, <2>1, <4>2, <1>0, MovedKeepsTypes DEF Refresh, writing, TypeOK
    <3> QED
      BY <1>3, <2>3, <3>2, <3>3 DEF Refresh
  <2> QED
    BY <2>2, <2>3
<1>4. ASSUME NEW i \in Instances, Recover(i)
      PROVE  TypeInv'
  <2>1. faults' \in 0..MaxFaults
    BY <1>0, <1>4, FaultsType DEF Recover
  <2>2. tracking # NoRevision
    BY <1>4 DEF Recover, TypeInv, Obtained
  <2>3. Moved(i)
    BY <1>0, <1>4, <2>2, ResetMoves DEF Recover
  <2> QED
    BY <1>4, <2>1, <2>3, <1>0, MovedKeepsTypes DEF Recover, writing, TypeOK
<1>5. ASSUME NEW i \in Instances, Crash(i)
      PROVE  TypeInv'
  <2>1. served' = [served EXCEPT ![i] = NoRevision] /\ NoRevision \in Seq(CommitRecord)
    BY <1>5 DEF Crash, Serve, NoRevision
  <2>2. pc' \in [Writes -> Stages]
    BY <1>0, <1>5 DEF Crash, TypeOK, Stages
  <2>3. \A w \in Writes : pc'[w] \in InProcess \cup {"queued"} =>
            pc'[w] = pc[w] /\ at[w] # i
    BY <1>0, <1>5 DEF Crash, TypeOK, InProcess, InCopy
  <2>4. TypeOK'
    BY <1>0, <1>5, <2>1, <2>2 DEF Crash, TypeOK, copy
  <2>5. Obtained'
    BY <1>5, <2>1, <2>3 DEF Crash, TypeInv, TypeOK, Obtained, Ready, copy
  <2> QED
    BY <2>4, <2>5 DEF TypeInv
<1>6. ASSUME NEW w \in Writes, NEW i \in Instances, Draft(w, i)
      PROVE  TypeInv'
  BY <1>6, TipType DEF Draft, Step, TypeInv, TypeOK, Obtained, Ready, Stages, copy,
                       environment, InProcess, InCopy, Tree
<1>7. ASSUME NEW w \in Writes, NEW i \in Instances, Submit(w, i)
      PROVE  TypeInv'
  BY <1>7 DEF Submit, Step, TypeInv, TypeOK, Obtained, Ready, Stages, copy,
              environment, InProcess, InCopy, Answered, Refused
<1>8. ASSUME OutsidePush
      PROVE  TypeInv'
  <2>1. branch' \in Seq(CommitRecord) \ {NoRevision}
    <3>1. PICK p \in Paths :
              branch' = Append(branch, [by |-> Outsider,
                                        tree |-> [TreeAt(branch) EXCEPT ![p] = Outsider]])
      BY <1>8 DEF OutsidePush
    <3>2. TreeAt(branch) \in Tree
      BY <1>0, TipType DEF TypeOK
    <3>3. [by |-> Outsider, tree |-> [TreeAt(branch) EXCEPT ![p] = Outsider]] \in CommitRecord
      BY <3>2 DEF CommitRecord, Tree, Authors
    <3> QED
      BY <1>0, <3>1, <3>3, AppendType DEF TypeOK
  <2>2. outside' \in 0..MaxOutside
    BY <1>0, <1>8 DEF OutsidePush, TypeOK
  <2> QED
    BY <1>8, <2>1, <2>2 DEF OutsidePush, TypeInv, TypeOK, Obtained, Ready, copy, writing
<1>9. ASSUME NEW w \in Writes, WriteBack(w)
      PROVE  TypeInv'
  <2> USE <1>0
  <2>1. CASE EnterProcess(w)
    BY <2>1 DEF EnterProcess, Step, TypeInv, TypeOK, Obtained, Ready, Stages, copy,
                environment, InProcess, InCopy
  <2>2. CASE EnterCopy(w)
    BY <2>2 DEF EnterCopy, Step, TypeInv, TypeOK, Obtained, Ready, Stages, copy,
                environment, InProcess, InCopy
  <2>3. ASSUME Reset(w), pc[w] \in InProcess, NEW to \in Stages \ {"queued"},
               pc' = [pc EXCEPT ![w] = to],
               attempt' \in [Writes -> 0..MaxAttempts],
               UNCHANGED <<branch, at, basis, outside, crashes>>
        PROVE  TypeInv'
    <3>1. tracking # NoRevision /\ at[w] \in Instances
      BY <2>3, SubmittedFindsCopy
    <3>2. Moved(at[w])
      BY <2>3, <3>1, ResetMoves DEF Reset
    <3>3. faults' \in 0..MaxFaults
      BY <2>3, FaultsType DEF Reset
    <3>4. /\ pc' \in [Writes -> Stages]
          /\ \A v \in Writes : pc'[v] \in InProcess \cup {"queued"} =>
                                    pc[v] \in InProcess \cup {"queued"}
      BY <2>3 DEF TypeOK
    <3> QED
      BY <2>3, <3>1, <3>2, <3>3, <3>4, MovedKeepsTypes
  <2>4. CASE Abandon(w) \/ GiveUp(w) \/ ReportUnavailable(w) \/ Retry(w)
    <3>1. pc[w] \in InProcess /\ Reset(w) /\ UNCHANGED <<branch, at, basis, outside, crashes>>
      BY <2>4 DEF Abandon, GiveUp, ReportUnavailable, Retry, Step, InProcess, InCopy
    <3>2. \E to \in {"abandoned", "conflict", "unavailable", "attempt"} :
              pc' = [pc EXCEPT ![w] = to]
      BY <2>4 DEF Abandon, GiveUp, ReportUnavailable, Retry, Step
    <3>3. attempt' \in [Writes -> 0..MaxAttempts]
      <4>1. CASE Retry(w)
        BY <4>1 DEF Retry, TypeOK
      <4>2. CASE UNCHANGED attempt
        BY <4>2 DEF TypeOK
      <4> QED
        BY <2>4, <4>1, <4>2 DEF Abandon, GiveUp, ReportUnavailable
    <3>4. {"abandoned", "conflict", "unavailable", "attempt"} \subseteq Stages \ {"queued"}
      BY DEF Stages, InProcess, InCopy, Answered, Refused
    <3> QED
      BY <2>3, <3>1, <3>2, <3>3, <3>4
  <2>5. CASE CheckPasses(w) \/ CheckConflicts(w)
    BY <2>5 DEF CheckPasses, CheckConflicts, Step, TypeInv, TypeOK, Obtained, Ready,
                Stages, copy, environment, InProcess, InCopy, Answered, Refused
  <2>6. CASE Materialise(w)
    BY <2>6 DEF Materialise, Edited, Tree, Authors, Step, TypeInv, TypeOK, Obtained,
                Ready, Stages, environment, InProcess, InCopy
  <2>11. CASE MaterialiseFails(w)
    <3>1. files' \in Tree
      BY <2>11 DEF MaterialiseFails, Tree, Authors, TypeOK
    <3>2. faults' \in 0..MaxFaults
      BY <2>11, FaultsType DEF MaterialiseFails
    <3> QED
      BY <2>11, <3>1, <3>2 DEF MaterialiseFails, Step, TypeInv, TypeOK, Obtained, Ready,
                              Stages, InProcess, InCopy, Answered, Refused
  <2>12. CASE CommitFails(w)
    <3>1. faults' \in 0..MaxFaults
      BY <2>12, FaultsType DEF CommitFails
    <3> QED
      BY <2>12, <3>1 DEF CommitFails, Step, TypeInv, TypeOK, Obtained, Ready, Stages, copy,
                        InProcess, InCopy
  <2>7. CASE Stage(w)
    BY <2>7 DEF Stage, Tree, Step, TypeInv, TypeOK, Obtained, Ready, Stages,
                environment, InProcess, InCopy
  <2>8. CASE Commit(w)
    <3>1. /\ head \in Seq(CommitRecord) /\ tracking \in Seq(CommitRecord) \ {NoRevision}
          /\ at[w] \in Instances
      BY <2>8, SubmittedFindsCopy DEF Commit, Step, InProcess, InCopy
    <3>2. [by |-> w, tree |-> index] \in CommitRecord
      BY DEF TypeOK, CommitRecord, Authors
    <3>3. Moved(at[w])
      BY <2>8, <3>1, <3>2, AppendType, ServeMoves DEF Commit, TypeOK
    <3> QED
      BY <2>8, <3>1, <3>3, MovedKeepsTypes
      DEF Commit, Step, TypeOK, environment, Stages, InProcess, InCopy
  <2>9. CASE PushLands(w)
    <3>1. head \in Seq(CommitRecord) \ {NoRevision}
      BY <2>9, SubmittedFindsCopy DEF PushLands, Step, InProcess, InCopy
    <3> QED
      BY <2>9, <3>1 DEF PushLands, Step, TypeInv, TypeOK, Obtained, Ready,
                        Stages, copy, environment, InProcess, InCopy, Answered, Refused
  <2>10. CASE PushFails(w) \/ PushRejected(w)
    <3>1. head \in Seq(CommitRecord) \ {NoRevision}
      BY <2>10, SubmittedFindsCopy DEF PushFails, PushRejected, Step, InProcess, InCopy
    <3>2. faults' \in 0..MaxFaults
      BY <2>10 DEF PushFails, PushRejected, CallFails, CallAnswers, TypeInv, TypeOK
    <3> QED
      BY <2>10, <3>1, <3>2 DEF PushFails, PushRejected, Step, TypeInv, TypeOK, Obtained,
                               Ready, Stages, copy, InProcess, InCopy
  <2> QED
    BY <1>9, <2>1, <2>2, <2>4, <2>5, <2>6, <2>7, <2>8, <2>9, <2>10, <2>11, <2>12
    DEF WriteBack
<1>10. CASE UNCHANGED vars
  BY <1>10 DEF vars, TypeInv, TypeOK, Obtained, Ready, copy, writing, environment
<1> QED
  BY <1>1, <1>2, <1>3, <1>4, <1>5, <1>6, <1>7, <1>8, <1>9, <1>10 DEF Next, Background

\* Every variable keeps its type, for any number of instances, writes and
\* paths: in particular a reset always has a revision to return to.
THEOREM TypeCorrect == Spec => []TypeOK
<1>1. Spec => []TypeInv
  BY TypeInit, TypeStep, PTL DEF Spec
<1>2. TypeInv => TypeOK
  BY DEF TypeInv
<1> QED
  BY <1>1, <1>2, PTL

-----------------------------------------------------------------------------
(* "No change was recorded" (RefusedIsNotRecorded), for any number of      *)
(* instances and through crashes, over a remote that does not lose the     *)
(* acknowledgement of a push.  The invariant has three parts.  One writer  *)
(* is inside the volume's lock (Exclusive).  A write that has made no      *)
(* commit, or whose commits were discarded, is nowhere: not on the branch, *)
(* not in the copy, not in `tracking`.  A write whose commit is in the     *)
(* copy is still not on the branch, and no other writer can push it there  *)
(* before it is discarded.                                                 *)

Quiet == {"idle", "drafted", "queued", "waiting", "attempt", "checked",
          "materialised", "staged"} \cup Refused
Pending == {"committed", "rejected", "failed"}

NoTrace(w, revision) == \A k \in 1..Len(revision) : revision[k].by # w

Exclusive == \A v, w \in Writes : pc[v] \in InCopy /\ pc[w] \in InCopy => v = w

Hidden ==
    \A w \in Writes :
        /\ pc[w] \in Quiet \cup Pending => NoTrace(w, branch) /\ NoTrace(w, tracking)
        /\ pc[w] \in Quiet => NoTrace(w, head)

RefusedInv == TypeInv /\ Exclusive /\ Hidden

LEMMA NoTraceAppend ==
    ASSUME NEW r \in Seq(CommitRecord), NEW c \in CommitRecord, NEW w,
           NoTrace(w, r), c.by # w
    PROVE  NoTrace(w, Append(r, c))
  BY AppendType DEF NoTrace

\* A step that only points the copy at revisions already known keeps every
\* write hidden, provided a write that comes to rest has been reset.
LEMMA HiddenKept ==
    ASSUME Hidden,
           branch' = branch,
           tracking' \in {tracking, branch},
           head' \in {head, tracking, branch},
           \A w \in Writes :
               /\ pc'[w] \in Quiet \cup Pending => pc[w] \in Quiet \cup Pending
               /\ pc'[w] \in Quiet => pc[w] \in Quiet \/ head' \in {tracking, branch}
    PROVE  Hidden'
  BY DEF Hidden, NoTrace

\* Where the copy can point after a step that resets it, or that does not.
LEMMA ResetPoints ==
    ASSUME ResetToRemote(TRUE) \/ ResetToRemote(FALSE)
    PROVE  tracking' \in {tracking, branch} /\ head' \in {tracking, branch}
  BY DEF ResetToRemote, CheckedOut

LEMMA RefusedInit == Init => RefusedInv
<1> SUFFICES ASSUME Init PROVE RefusedInv
  OBVIOUS
<1>1. Exclusive
  BY DEF Init, Exclusive, InCopy
<1>2. \A w \in Writes : NoTrace(w, branch) /\ NoTrace(w, tracking) /\ NoTrace(w, head)
  BY DEF Init, NoTrace, FirstCommit, NoRevision
<1> QED
  BY <1>1, <1>2, TypeInit DEF RefusedInv, Hidden

LEMMA ExclusiveStep ==
    ASSUME TypeInv, Exclusive, [Next]_vars
    PROVE  Exclusive'
<1> DEFINE Enters(w) == pc[w] \notin InCopy /\ pc'[w] \in InCopy
<1>1. ASSUME NEW w \in Writes, Enters(w)
      PROVE  VolumeFree /\ \A v \in Writes \ {w} : pc'[v] = pc[v]
  <2>1. CASE \E i \in Instances : Background(i) \/ Crash(i)
    BY <1>1, <2>1 DEF Background, CloneAdopts, CloneObtains, Refresh, Recover, Crash,
                      writing, TypeInv, TypeOK, InCopy
  <2>2. CASE OutsidePush \/ UNCHANGED vars
    BY <1>1, <2>2 DEF OutsidePush, writing, vars
  <2>3. CASE \E v \in Writes, i \in Instances : Draft(v, i) \/ Submit(v, i)
    BY <1>1, <2>3 DEF Draft, Submit, Step, TypeInv, TypeOK, InCopy
  <2>4. ASSUME NEW v \in Writes, WriteBack(v)
        PROVE  VolumeFree /\ \A u \in Writes \ {w} : pc'[u] = pc[u]
    <3>1. CASE EnterCopy(v)
      BY <1>1, <3>1 DEF EnterCopy, Step, TypeInv, TypeOK
    <3>2. CASE ~EnterCopy(v)
      BY <1>1, <2>4, <3>2
      DEF WriteBack, EnterProcess, Abandon, CheckPasses, CheckConflicts, Materialise,
          MaterialiseFails, CommitFails, Stage, Commit, PushLands, PushRejected,
          PushFails, Retry, GiveUp, ReportUnavailable, Step, TypeInv, TypeOK, InCopy
    <3> QED
      BY <3>1, <3>2
  <2> QED
    BY <2>1, <2>2, <2>3, <2>4 DEF Next
<1> QED
  BY <1>1 DEF Exclusive, VolumeFree

LEMMA HiddenStep ==
    ASSUME AcksGetLost = FALSE, RefusedInv, [Next]_vars
    PROVE  Hidden'
<1> USE DEF RefusedInv
<1>1. ASSUME NEW i \in Instances, Background(i)
      PROVE  Hidden'
  <2>1. /\ branch' = branch /\ tracking' \in {tracking, branch}
        /\ head' \in {head, tracking, branch} /\ pc' = pc
    BY <1>1, ResetPoints DEF Background, CloneAdopts, CloneObtains, Refresh, Recover,
                             copy, writing
  <2> QED
    BY <2>1, HiddenKept
<1>2. ASSUME NEW i \in Instances, Crash(i)
      PROVE  Hidden'
  <2>1. \A w \in Writes : pc'[w] = pc[w] \/ pc'[w] = "lost"
    BY <1>2 DEF Crash
  <2>2. \A w \in Writes : pc'[w] \in Quiet \cup Pending => pc[w] = pc'[w]
    BY <2>1 DEF Quiet, Pending, Refused
  <2> QED
    BY <1>2, <2>2, HiddenKept DEF Crash, copy
<1>3. ASSUME NEW w \in Writes, NEW i \in Instances, Draft(w, i) \/ Submit(w, i)
      PROVE  Hidden'
  <2>1. \A v \in Writes : v # w => pc'[v] = pc[v]
    BY <1>3 DEF Draft, Submit, Step, TypeInv, TypeOK
  <2>2. pc[w] \in Quiet
    BY <1>3 DEF Draft, Submit, Step, Quiet
  <2> QED
    BY <1>3, <2>1, <2>2, HiddenKept DEF Draft, Submit, copy
<1>4. ASSUME OutsidePush
      PROVE  Hidden'
  <2>1. PICK p \in Paths :
            branch' = Append(branch, [by |-> Outsider,
                                      tree |-> [TreeAt(branch) EXCEPT ![p] = Outsider]])
    BY <1>4 DEF OutsidePush
  <2>2. [by |-> Outsider, tree |-> [TreeAt(branch) EXCEPT ![p] = Outsider]] \in CommitRecord
    BY TipType DEF TypeInv, TypeOK, CommitRecord, Tree, Authors
  <2>3. \A w \in Writes : NoTrace(w, branch) => NoTrace(w, branch')
    BY <2>1, <2>2, NoTraceAppend DEF TypeInv, TypeOK
  <2> QED
    BY <1>4, <2>3 DEF OutsidePush, Hidden, copy, writing, NoTrace
<1>5. ASSUME NEW w \in Writes, WriteBack(w)
      PROVE  Hidden'
  <2>1. \A v \in Writes : v # w => pc'[v] = pc[v]
    BY <1>5 DEF WriteBack, EnterProcess, EnterCopy, Abandon, CheckPasses, CheckConflicts,
                Materialise, MaterialiseFails, CommitFails, Stage, Commit, PushLands,
                PushRejected, PushFails, Retry, GiveUp, ReportUnavailable, Step,
                TypeInv, TypeOK
  <2>2. CASE EnterProcess(w) \/ EnterCopy(w) \/ CheckPasses(w) \/ CheckConflicts(w)
               \/ Materialise(w) \/ Stage(w)
    <3>1. UNCHANGED <<branch, tracking, head>> /\ pc[w] \in Quiet
      BY <2>2 DEF EnterProcess, EnterCopy, CheckPasses, CheckConflicts, Materialise,
                  Stage, Step, copy, Quiet
    <3> QED
      BY <2>1, <3>1, HiddenKept
  <2>3. CASE Abandon(w) \/ Retry(w) \/ GiveUp(w) \/ ReportUnavailable(w)
    <3>1. /\ branch' = branch /\ pc[w] \in Quiet \cup Pending
          /\ tracking' \in {tracking, branch} /\ head' \in {tracking, branch}
      BY <2>3, ResetPoints DEF Abandon, Retry, GiveUp, ReportUnavailable, Reset, Step,
                               Quiet, Pending
    <3> QED
      BY <2>1, <3>1, HiddenKept
  <2>4. CASE Commit(w)
    <3>1. [by |-> w, tree |-> index] \in CommitRecord
      BY DEF TypeInv, TypeOK, CommitRecord, Authors
    <3>2. \A v \in Writes : v # w /\ NoTrace(v, head) => NoTrace(v, head')
      BY <2>4, <3>1, NoTraceAppend DEF Commit, TypeInv, TypeOK
    <3>3. /\ pc[w] = "staged" /\ pc'[w] = "committed"
          /\ UNCHANGED <<branch, tracking>>
      BY <2>4 DEF Commit, Step, TypeInv, TypeOK
    <3> QED
      BY <2>1, <3>2, <3>3 DEF Hidden, NoTrace, Quiet, Pending, Refused
  <2>5. CASE PushLands(w)
    <3>1. pc[w] = "committed" /\ pc'[w] = "applied" /\ pc[w] \in InCopy
      BY <2>5 DEF PushLands, Step, TypeInv, TypeOK, InCopy
    <3>2. \A v \in Writes : v # w => pc[v] \notin Pending
      BY <3>1 DEF Exclusive, Pending, InCopy
    <3>3. branch' = head /\ tracking' = head /\ head' = head
      BY <2>5 DEF PushLands
    <3> QED
      BY <2>1, <3>1, <3>2, <3>3 DEF Hidden, NoTrace, Quiet, Pending, Refused
  <2>7. CASE MaterialiseFails(w) \/ CommitFails(w)
    <3>1. UNCHANGED <<branch, tracking, head>> /\ pc[w] \in Quiet
      BY <2>7 DEF MaterialiseFails, CommitFails, Step, copy, Quiet
    <3> QED
      BY <2>1, <3>1, HiddenKept
  <2>6. CASE PushRejected(w) \/ PushFails(w)
    <3>1. /\ UNCHANGED <<branch, tracking, head>>
          /\ pc[w] = "committed" /\ pc'[w] \in {"rejected", "failed"}
      BY <2>6 DEF PushRejected, PushFails, Step, copy, TypeInv, TypeOK
    <3>2. pc[w] \in Pending /\ pc'[w] \notin Quiet
      BY <3>1 DEF Pending, Quiet, Refused
    <3> QED
      BY <2>1, <3>1, <3>2, HiddenKept
  <2> QED
    BY <1>5, <2>2, <2>3, <2>4, <2>5, <2>6, <2>7 DEF WriteBack
<1>6. CASE UNCHANGED vars
  BY <1>6, HiddenKept DEF vars, copy, writing
<1> QED
  BY <1>1, <1>2, <1>3, <1>4, <1>5, <1>6 DEF Next

\* Whatever instances, crashes, faults and retries there are, an edit whose
\* caller was refused is never on the branch, unless the remote can land a
\* push and report a failure.
THEOREM RefusedNeverRecorded ==
    ASSUME AcksGetLost = FALSE
    PROVE  Spec => []RefusedIsNotRecorded
<1>1. RefusedInv /\ [Next]_vars => RefusedInv'
  BY TypeStep, ExclusiveStep, HiddenStep DEF RefusedInv
<1>2. RefusedInv => RefusedIsNotRecorded
  BY DEF RefusedInv, Hidden, NoTrace, Quiet, RefusedIsNotRecorded
<1> QED
  BY RefusedInit, <1>1, <1>2, PTL DEF Spec

-----------------------------------------------------------------------------
(* The branch.                                                             *)

LEMMA BranchStep ==
    ASSUME TypeInv, [Next]_vars
    PROVE  Ancestor(branch, branch')
<1>1. CASE OutsidePush
  <2>1. PICK c : branch' = Append(branch, c)
    BY <1>1 DEF OutsidePush
  <2> QED
    BY <2>1 DEF Ancestor, TypeInv, TypeOK
<1>2. CASE \E w \in Writes : PushLands(w) \/ PushFails(w)
  BY <1>2, AncestorReflexive DEF PushLands, PushFails, TypeInv, TypeOK
<1>3. CASE UNCHANGED branch
  BY <1>3, AncestorReflexive DEF TypeInv, TypeOK
<1> QED
  BY <1>1, <1>2, <1>3
  DEF Next, Background, CloneAdopts, CloneObtains, Refresh, Recover, Crash, WriteBack,
      EnterProcess, EnterCopy, Abandon, CheckPasses, CheckConflicts, Materialise,
      MaterialiseFails, CommitFails, Stage, Commit, PushRejected, Retry, GiveUp,
      ReportUnavailable, Draft, Submit, vars

\* No step of any instance takes back a published commit.
THEOREM PublishedForever == Spec => BranchOnlyGrows
<1>1. Spec => []TypeInv
  BY TypeInit, TypeStep, PTL DEF Spec
<1>2. TypeInv /\ [Next]_vars => [Ancestor(branch, branch')]_branch
  BY BranchStep
<1> QED
  BY <1>1, <1>2, PTL DEF Spec, BranchOnlyGrows

-----------------------------------------------------------------------------
(***************************************************************************)
(* What the write path promises when one process mounts the volume, for    *)
(* any number of writes, paths, attempts, faults and crashes, and whether  *)
(* or not acknowledgements get lost.  With two instances the theorems are  *)
(* false (README, section 6): clone, refresh and recover wait for the      *)
(* writers of their own process only.                                      *)
(*                                                                         *)
(* The last part, the working copy and the refinement of EditLedger, also  *)
(* asks that the process is not killed: one that is leaves its commit and  *)
(* its index behind for the next write-back to push with its own.          *)
(***************************************************************************)
OneInstance == \A i, j \in Instances : i = j

\* Inside the locks, nothing but this write-back moves the copy.
LEMMA WriterIsAlone ==
    ASSUME OneInstance, TypeInv, NEW w \in Writes, pc[w] \in InCopy, NEW i \in Instances
    PROVE  ~Background(i)
<1>1. at[w] = i
  BY DEF OneInstance, TypeInv, TypeOK
<1>2. ~ProcessFree(i)
  BY <1>1 DEF ProcessFree, InProcess
<1> QED
  BY <1>2 DEF Background, CloneAdopts, CloneObtains, Refresh, Recover

\* A step of a write-back leaves every other write-back where it was.
LEMMA OthersStand ==
    ASSUME TypeInv, NEW w \in Writes, WriteBack(w)
    PROVE  /\ \A v \in Writes \ {w} : pc'[v] = pc[v]
           /\ UNCHANGED <<at, basis>>
  BY DEF WriteBack, EnterProcess, EnterCopy, Abandon, CheckPasses, CheckConflicts,
         Materialise, MaterialiseFails, CommitFails, Stage, Commit, PushLands,
         PushRejected, PushFails, Retry, GiveUp, ReportUnavailable, Step, TypeInv,
         TypeOK

LEMMA BasisPaths ==
    ASSUME TypeInv, NEW w \in Writes
    PROVE  DOMAIN basis[w] \subseteq Paths
<1>1. PICK S \in SUBSET Paths : basis[w] \in [S -> Authors]
  BY DEF TypeInv, TypeOK
<1> QED
  BY <1>1

-----------------------------------------------------------------------------
(* An applied edit is on the branch.  The invariant follows its content    *)
(* from the files to the index to the commit.                              *)

Carries(w, tree) == \A p \in DOMAIN basis[w] : tree[p] = w

Carried ==
    \A w \in Writes :
        /\ pc[w] = "materialised" => Carries(w, files)
        /\ pc[w] = "staged" => Carries(w, index)
        /\ pc[w] = "committed" => Tip(head).by = w /\ Carries(w, TreeAt(head))

AppliedInv == TypeInv /\ Exclusive /\ Carried /\ AppliedIsRecorded

LEMMA RecordedPersists ==
    ASSUME TypeInv, NEW w \in Writes, Recorded(w), Ancestor(branch, branch'),
           basis'[w] = basis[w]
    PROVE  Recorded(w)'
<1>1. PICK k \in 1..Len(branch) :
          branch[k].by = w /\ \A p \in DOMAIN basis[w] : branch[k].tree[p] = w
  BY DEF Recorded
<1>2. k \in 1..Len(branch') /\ branch'[k] = branch[k]
  BY <1>1 DEF Ancestor, TypeInv, TypeOK
<1> QED
  BY <1>1, <1>2 DEF Recorded

\* A step that leaves the copy alone and starts no write-back carries on.
LEMMA CarriedStands ==
    ASSUME Carried, UNCHANGED copy,
           \A w \in Writes : pc'[w] \in {"materialised", "staged", "committed"} =>
                                pc'[w] = pc[w] /\ basis'[w] = basis[w]
    PROVE  Carried'
  BY DEF Carried, Carries, copy, Tip, TreeAt

LEMMA CarriedStep ==
    ASSUME OneInstance, TypeInv, Exclusive, Carried, [Next]_vars
    PROVE  Carried'
<1>1. ASSUME NEW i \in Instances, Background(i)
      PROVE  Carried'
  <2>1. pc' = pc
    BY <1>1 DEF Background, CloneAdopts, CloneObtains, Refresh, Recover, writing
  <2>2. \A w \in Writes : pc[w] \notin InCopy
    BY <1>1, WriterIsAlone
  <2> QED
    BY <2>1, <2>2 DEF Carried, InCopy
<1>2. ASSUME NEW i \in Instances, Crash(i)
      PROVE  Carried'
  <2>1. \A w \in Writes : pc'[w] = pc[w] \/ pc'[w] = "lost"
    BY <1>2 DEF Crash
  <2> QED
    BY <1>2, <2>1, CarriedStands DEF Crash
<1>3. ASSUME NEW w \in Writes, NEW i \in Instances, Draft(w, i) \/ Submit(w, i)
      PROVE  Carried'
  <2>1. /\ \A v \in Writes \ {w} : pc'[v] = pc[v] /\ basis'[v] = basis[v]
        /\ pc'[w] \in {"drafted", "queued", "unmapped"}
        /\ UNCHANGED copy
    BY <1>3 DEF Draft, Submit, Step, TypeInv, TypeOK
  <2> QED
    BY <2>1, CarriedStands
<1>4. CASE OutsidePush \/ UNCHANGED vars
  BY <1>4, CarriedStands DEF OutsidePush, vars, writing
<1>5. ASSUME NEW w \in Writes, WriteBack(w)
      PROVE  Carried'
  <2>1. /\ \A v \in Writes \ {w} : pc'[v] = pc[v]
        /\ basis' = basis
    BY <1>5, OthersStand
  <2>2. CASE pc'[w] \notin {"materialised", "staged", "committed"}
    <3>1. CASE pc[w] \in InCopy
      <4>1. \A v \in Writes \ {w} : pc'[v] \notin InCopy
        BY <2>1, <3>1 DEF Exclusive
      <4> QED
        BY <2>2, <4>1 DEF Carried, InCopy
    <3>2. CASE pc[w] \notin InCopy
      <4>1. EnterProcess(w) \/ EnterCopy(w)
        BY <1>5, <3>2 DEF WriteBack, Abandon, CheckPasses, CheckConflicts, Materialise,
              MaterialiseFails, CommitFails, Stage, Commit, PushLands, PushRejected,
              PushFails, Retry, GiveUp, ReportUnavailable, Step, InCopy
      <4> QED
        BY <2>1, <2>2, <4>1, CarriedStands DEF EnterProcess, EnterCopy
    <3> QED
      BY <3>1, <3>2
  <2>3. CASE Materialise(w) \/ Stage(w) \/ Commit(w)
    <3>1. pc[w] \in InCopy
      BY <2>3 DEF Materialise, Stage, Commit, Step, InCopy
    <3>2. \A v \in Writes \ {w} : pc'[v] \notin InCopy
      BY <2>1, <3>1 DEF Exclusive
    <3>3. /\ pc'[w] = "materialised" => Carries(w, files)'
          /\ pc'[w] = "staged" => Carries(w, index)'
          /\ pc'[w] = "committed" => (Tip(head).by = w /\ Carries(w, TreeAt(head)))'
      <4>1. CASE Materialise(w)
        BY <4>1, <2>1, BasisPaths DEF Materialise, Step, Edited, Carries, TypeInv, TypeOK
      <4>2. CASE Stage(w)
        <5>1. /\ pc[w] = "materialised" /\ pc'[w] = "staged"
              /\ index' = [p \in Paths |-> IF p \in DOMAIN basis[w] THEN files[p] ELSE index[p]]
          BY <4>2 DEF Stage, Step, TypeInv, TypeOK
        <5> QED
          BY <5>1, <2>1, BasisPaths DEF Carried, Carries
      <4>3. CASE Commit(w)
        <5>1. /\ pc[w] = "staged" /\ pc'[w] = "committed"
              /\ head' = Append(head, [by |-> w, tree |-> index])
          BY <4>3 DEF Commit, Step, TypeInv, TypeOK
        <5>2. Tip(head') = [by |-> w, tree |-> index]
          BY <5>1, AppendType DEF Tip, TypeInv, TypeOK, CommitRecord, Authors
        <5> QED
          BY <5>1, <5>2, <2>1 DEF Carried, Carries, TreeAt
      <4> QED
        BY <2>3, <4>1, <4>2, <4>3
    <3> QED
      BY <3>2, <3>3 DEF Carried, InCopy
  <2>4. pc \in [Writes -> Stages]
    BY DEF TypeInv, TypeOK
  <2>5. CASE \/ EnterProcess(w) \/ EnterCopy(w) \/ Abandon(w) \/ CheckPasses(w)
            \/ CheckConflicts(w) \/ PushLands(w) \/ PushRejected(w) \/ PushFails(w)
            \/ Retry(w) \/ GiveUp(w) \/ ReportUnavailable(w)
            \/ MaterialiseFails(w) \/ CommitFails(w)
    <3>1. pc'[w] \notin {"materialised", "staged", "committed"}
      BY <2>4, <2>5 DEF EnterProcess, EnterCopy, Abandon, CheckPasses, CheckConflicts,
                        MaterialiseFails, CommitFails,
                        PushLands, PushRejected, PushFails, Retry, GiveUp,
                        ReportUnavailable, Step
    <3> QED
      BY <3>1, <2>2
  <2> QED
    BY <1>5, <2>3, <2>5 DEF WriteBack
<1> QED
  BY <1>1, <1>2, <1>3, <1>4, <1>5 DEF Next

LEMMA AppliedStep ==
    ASSUME AppliedInv, [Next]_vars
    PROVE  AppliedIsRecorded'
<1> SUFFICES ASSUME NEW w \in Writes, pc'[w] = "applied"
             PROVE  Recorded(w)'
  BY DEF AppliedIsRecorded
<1> USE DEF AppliedInv
<1>1. CASE pc[w] = "applied"
  <2>1. Recorded(w)
    BY <1>1 DEF AppliedIsRecorded
  <2>2. basis'[w] = basis[w]
    BY <1>1, OthersStand
    DEF Next, Background, CloneAdopts, CloneObtains, Refresh, Recover, Crash, OutsidePush,
        Draft, Submit, Step, vars, writing, TypeInv, TypeOK
  <2> QED
    BY <2>1, <2>2, RecordedPersists, BranchStep
<1>2. CASE pc[w] # "applied"
  <2>1. PushLands(w)
    <3>1. WriteBack(w)
      BY <1>2, OthersStand
      DEF Next, Background, CloneAdopts, CloneObtains, Refresh, Recover, Crash,
          OutsidePush, Draft, Submit, Step, vars, writing, TypeInv, TypeOK
    <3> QED
      BY <1>2, <3>1
      DEF WriteBack, EnterProcess, EnterCopy, Abandon, CheckPasses, CheckConflicts,
          Materialise, MaterialiseFails, CommitFails, Stage, Commit, PushRejected,
          PushFails, Retry, GiveUp, ReportUnavailable, Step, TypeInv, TypeOK
  <2>2. pc[w] = "committed" /\ branch' = head /\ basis' = basis
    BY <2>1 DEF PushLands, Step
  <2>3. Len(head) \in 1..Len(head)
    <3>1. pc[w] \in InProcess \cup {"queued"}
      BY <2>2 DEF InProcess, InCopy
    <3> QED
      BY <3>1, SubmittedFindsCopy, TipType
  <2>4. head[Len(head)].by = w /\ \A p \in DOMAIN basis[w] : head[Len(head)].tree[p] = w
    BY <2>2 DEF Carried, Carries, Tip, TreeAt
  <2> QED
    BY <2>2, <2>3, <2>4 DEF Recorded
<1> QED
  BY <1>1, <1>2

\* With one process on the volume, a caller told that an edit was applied can
\* find it on the branch, then and ever after.
THEOREM AppliedStaysRecorded ==
    ASSUME OneInstance
    PROVE  Spec => []AppliedIsRecorded
<1>1. Init => AppliedInv
  BY RefusedInit DEF AppliedInv, RefusedInv, Init, Carried, AppliedIsRecorded
<1>2. AppliedInv /\ [Next]_vars => AppliedInv'
  BY TypeStep, ExclusiveStep, CarriedStep, AppliedStep DEF AppliedInv
<1>3. AppliedInv => AppliedIsRecorded
  BY DEF AppliedInv
<1> QED
  BY <1>1, <1>2, <1>3, PTL DEF Spec

-----------------------------------------------------------------------------
(* No edit overwrites what its caller had not read.  What an instance      *)
(* serves is HEAD (Level), so a precondition that passed holds of HEAD     *)
(* until the commit (Checked); every history the service knows is Faithful *)
(* and an edit not yet composed is in none of them (Unread).               *)

Faithful(r) ==
    \A w \in Writes : \A k \in 2..Len(r) :
        r[k].by = w => \A p \in DOMAIN basis[w] : r[k - 1].tree[p] = basis[w][p]

Honest == Faithful(branch) /\ Faithful(head) /\ Faithful(tracking)

Unread ==
    \A w \in Writes : pc[w] = "idle" =>
        NoTrace(w, branch) /\ NoTrace(w, head) /\ NoTrace(w, tracking)

Level == \A i \in Instances : Ready(i) => served[i] = head

Checked ==
    \A w \in Writes : pc[w] \in {"checked", "materialised", "staged"} =>
        \A p \in DOMAIN basis[w] : TreeAt(head)[p] = basis[w][p]

HonestInv == TypeInv /\ Exclusive /\ Honest /\ Unread /\ Level /\ Checked

LEMMA FaithfulAppend ==
    ASSUME NEW r \in Seq(CommitRecord) \ {NoRevision}, NEW c \in CommitRecord,
           Faithful(r),
           \A w \in Writes : c.by = w =>
               \A p \in DOMAIN basis[w] : TreeAt(r)[p] = basis[w][p]
    PROVE  Faithful(Append(r, c))
<1>1. Len(r) \in Nat \ {0}
  BY TipType
<1> SUFFICES ASSUME NEW w \in Writes, NEW k \in 2..(Len(r) + 1),
                    Append(r, c)[k].by = w, NEW p \in DOMAIN basis[w]
             PROVE  Append(r, c)[k - 1].tree[p] = basis[w][p]
  BY AppendType DEF Faithful
<1>2. CASE k \in 2..Len(r)
  BY <1>1, <1>2, AppendType DEF Faithful
<1>3. CASE k = Len(r) + 1
  <2>1. Append(r, c)[k] = c /\ Append(r, c)[k - 1] = Tip(r)
    BY <1>1, <1>3, AppendType DEF Tip
  <2> QED
    BY <2>1 DEF TreeAt
<1> QED
  BY <1>1, <1>2, <1>3

\* A step that only points the copy at known revisions keeps them honest.
LEMMA KnownStaysHonest ==
    ASSUME Honest, Unread, basis' = basis,
           branch' \in {branch, head}, head' \in {branch, head, tracking},
           tracking' \in {branch, head, tracking},
           \A w \in Writes : pc'[w] = "idle" => pc[w] = "idle"
    PROVE  Honest' /\ Unread'
<1>1. Faithful(branch)' /\ Faithful(head)' /\ Faithful(tracking)'
  BY DEF Honest, Faithful
<1>2. Unread'
  BY DEF Unread, NoTrace
<1> QED
  BY <1>1, <1>2 DEF Honest

LEMMA HonestInit == Init => HonestInv
<1> SUFFICES ASSUME Init PROVE HonestInv
  OBVIOUS
<1>1. Honest
  BY DEF Init, Honest, Faithful, NoRevision
<1>2. Unread
  <2>1. \A w \in Writes : NoTrace(w, branch) /\ NoTrace(w, tracking) /\ NoTrace(w, head)
    BY RepositoryAssumption DEF Init, NoTrace, FirstCommit, NoRevision
  <2> QED
    BY <2>1 DEF Unread
<1>3. Level /\ Checked
  BY DEF Init, Level, Ready, Checked
<1> QED
  BY <1>1, <1>2, <1>3, RefusedInit DEF HonestInv, RefusedInv

LEMMA HonestStep ==
    ASSUME OneInstance, HonestInv, [Next]_vars
    PROVE  Honest' /\ Unread' /\ Level' /\ Checked'
<1> USE DEF HonestInv
<1>0. served \in [Instances -> Seq(CommitRecord)]
  BY DEF TypeInv, TypeOK
<1>1. ASSUME NEW i \in Instances, Background(i)
      PROVE  Honest' /\ Unread' /\ Level' /\ Checked'
  <2>1. /\ branch' = branch /\ tracking' \in {tracking, branch}
        /\ head' \in {head, tracking, branch} /\ UNCHANGED <<pc, basis>>
    BY <1>1, ResetPoints DEF Background, CloneAdopts, CloneObtains, Refresh, Recover,
                             copy, writing
  <2>2. Level'
    <3>1. Serve(i, head') \/ UNCHANGED <<head, served>>
      BY <1>1 DEF Background, CloneAdopts, CloneObtains, Refresh, Recover, copy,
                  ResetToRemote, CheckedOut
    <3>2. CASE Serve(i, head')
      BY <1>0, <3>2 DEF OneInstance, Level, Ready, Serve
    <3>3. CASE UNCHANGED <<head, served>>
      BY <3>3 DEF Level, Ready
    <3> QED
      BY <3>1, <3>2, <3>3
  <2>3. Checked'
    <3>1. \A w \in Writes : pc'[w] \notin InCopy
      BY <1>1, <2>1, WriterIsAlone
    <3> QED
      BY <3>1 DEF Checked, InCopy
  <2> QED
    BY <2>1, <2>2, <2>3, KnownStaysHonest
<1>2. ASSUME NEW i \in Instances, Crash(i)
      PROVE  Honest' /\ Unread' /\ Level' /\ Checked'
  <2>1. \A w \in Writes : pc'[w] = pc[w] \/ pc'[w] = "lost"
    BY <1>2 DEF Crash
  <2>2. UNCHANGED <<branch, head, tracking, basis>>
    BY <1>2 DEF Crash, copy
  <2>3. Level'
    BY <1>0, <1>2, <2>2 DEF Crash, Serve, Level, Ready
  <2> QED
    BY <2>1, <2>2, <2>3, KnownStaysHonest DEF Checked, TreeAt, Tip
<1>3. ASSUME NEW w \in Writes, NEW i \in Instances, Draft(w, i)
      PROVE  Honest' /\ Unread' /\ Level' /\ Checked'
  <2>1. /\ pc[w] = "idle" /\ pc'[w] = "drafted"
        /\ \A v \in Writes \ {w} : pc'[v] = pc[v] /\ basis'[v] = basis[v]
        /\ UNCHANGED <<branch, head, tracking, served>>
    BY <1>3 DEF Draft, Step, copy, TypeInv, TypeOK
  <2>2. NoTrace(w, branch) /\ NoTrace(w, head) /\ NoTrace(w, tracking)
    BY <2>1 DEF Unread
  <2>3. ASSUME NEW r \in {branch, head, tracking}
        PROVE  \A v \in Writes : \A k \in 2..Len(r) :
                   r[k].by = v => \A p \in DOMAIN basis'[v] : r[k - 1].tree[p] = basis'[v][p]
    <3>1. \A k \in 2..Len(r) : r[k].by # w
      <4>1. NoTrace(w, r) /\ Len(r) \in Nat
        BY <2>2 DEF TypeInv, TypeOK
      <4> QED
        BY <4>1 DEF NoTrace
    <3> QED
      BY <2>1, <3>1 DEF Honest, Faithful
  <2>4. Honest'
    BY <2>1, <2>3 DEF Honest, Faithful
  <2> QED
    BY <2>1, <2>4 DEF Unread, NoTrace, Level, Ready, Checked, TreeAt, Tip
<1>4. ASSUME NEW w \in Writes, NEW i \in Instances, Submit(w, i)
      PROVE  Honest' /\ Unread' /\ Level' /\ Checked'
  <2>1. /\ pc'[w] \in {"queued", "unmapped"}
        /\ \A v \in Writes \ {w} : pc'[v] = pc[v]
        /\ UNCHANGED <<branch, head, tracking, served, basis>>
    BY <1>4 DEF Submit, Step, copy, TypeInv, TypeOK
  <2> QED
    BY <2>1, KnownStaysHonest DEF Level, Ready, Checked, TreeAt, Tip
<1>5. CASE OutsidePush
  <2>1. PICK p \in Paths :
            branch' = Append(branch, [by |-> Outsider,
                                      tree |-> [TreeAt(branch) EXCEPT ![p] = Outsider]])
    BY <1>5 DEF OutsidePush
  <2> DEFINE c == [by |-> Outsider, tree |-> [TreeAt(branch) EXCEPT ![p] = Outsider]]
  <2>2. c \in CommitRecord /\ c.by \notin Writes
    <3>1. TreeAt(branch) \in Tree
      BY TipType DEF TypeInv, TypeOK
    <3>2. [TreeAt(branch) EXCEPT ![p] = Outsider] \in Tree
      BY <3>1 DEF Tree, Authors
    <3> QED
      BY <3>2, RepositoryAssumption DEF CommitRecord, Authors
  <2>3. UNCHANGED <<head, tracking, served, pc, basis>>
    BY <1>5 DEF OutsidePush, copy, writing
  <2>4. Faithful(branch')
    BY <2>1, <2>2, FaithfulAppend DEF Honest, TypeInv, TypeOK
  <2>5. \A w \in Writes : NoTrace(w, branch) => NoTrace(w, branch')
    BY <2>1, <2>2, NoTraceAppend DEF TypeInv, TypeOK
  <2> QED
    BY <2>3, <2>4, <2>5
    DEF Honest, Faithful, Unread, NoTrace, Level, Ready, Checked, TreeAt, Tip
<1>6. ASSUME NEW w \in Writes, WriteBack(w)
      PROVE  Honest' /\ Unread' /\ Level' /\ Checked'
  <2>1. /\ \A v \in Writes \ {w} : pc'[v] = pc[v]
        /\ basis' = basis
    BY <1>6, OthersStand
  <2>2. CASE EnterProcess(w) \/ EnterCopy(w) \/ CheckConflicts(w) \/ PushRejected(w)
               \/ PushFails(w) \/ MaterialiseFails(w) \/ CommitFails(w)
    <3>1. /\ pc'[w] \in {"waiting", "attempt", "conflict", "rejected", "failed", "broken"}
          /\ UNCHANGED <<head, tracking, served>> /\ branch' \in {branch, head}
      BY <2>2 DEF MaterialiseFails, CommitFails, EnterProcess, EnterCopy,
                  CheckConflicts, PushRejected, PushFails, Step, copy, TypeInv, TypeOK
    <3> QED
      BY <2>1, <3>1, KnownStaysHonest DEF Level, Ready, Checked, TreeAt, Tip
  <2>3. CASE Abandon(w) \/ Retry(w) \/ GiveUp(w) \/ ReportUnavailable(w)
    <3>1. /\ pc'[w] \in {"abandoned", "attempt", "conflict", "unavailable"}
          /\ pc[w] \in InCopy /\ Reset(w) /\ branch' = branch
      BY <2>3 DEF Abandon, Retry, GiveUp, ReportUnavailable, Step, InCopy, TypeInv, TypeOK
    <3>2. tracking' \in {tracking, branch} /\ head' \in {tracking, branch}
      BY <3>1, ResetPoints DEF Reset
    <3>3. Level'
      BY <1>0, <3>1 DEF Reset, Serve, OneInstance, Level, Ready, TypeInv, TypeOK
    <3>4. \A v \in Writes : pc'[v] \notin {"checked", "materialised", "staged"}
      BY <2>1, <3>1 DEF Exclusive, InCopy
    <3> QED
      BY <2>1, <3>1, <3>2, <3>3, <3>4, KnownStaysHonest DEF Checked
  <2>4. CASE CheckPasses(w)
    <3>1. /\ pc[w] = "attempt" /\ pc'[w] = "checked" /\ Unchanged(w)
          /\ UNCHANGED <<branch, head, tracking, served>>
      BY <2>4 DEF CheckPasses, Step, copy, TypeInv, TypeOK
    <3>2. served[at[w]] = head
      BY <3>1, SubmittedFindsCopy DEF Level, InProcess, InCopy
    <3> QED
      BY <2>1, <3>1, <3>2, KnownStaysHonest
      DEF Level, Ready, Checked, TreeAt, Tip, Unchanged
  <2>5. CASE Materialise(w) \/ Stage(w)
    <3>1. /\ pc[w] \in {"checked", "materialised"} /\ pc'[w] # "idle"
          /\ UNCHANGED <<branch, head, tracking, served>>
      BY <2>5 DEF Materialise, Stage, Step, TypeInv, TypeOK
    <3> QED
      BY <2>1, <3>1, KnownStaysHonest DEF Level, Ready, Checked, TreeAt, Tip
  <2>6. CASE Commit(w)
    <3> DEFINE c == [by |-> w, tree |-> index]
    <3>1. /\ pc[w] = "staged" /\ pc'[w] = "committed"
          /\ head' = Append(head, c) /\ Serve(at[w], head')
          /\ UNCHANGED <<branch, tracking>>
      BY <2>6 DEF Commit, Step, TypeInv, TypeOK
    <3>2. c \in CommitRecord
      BY DEF TypeInv, TypeOK, CommitRecord, Authors
    <3>3. head \in Seq(CommitRecord) \ {NoRevision}
      BY <3>1, SubmittedFindsCopy DEF InProcess, InCopy
    <3>4. Faithful(head')
      BY <3>1, <3>2, <3>3, FaithfulAppend DEF Checked, Honest
    <3>5. \A v \in Writes \ {w} : NoTrace(v, head) => NoTrace(v, head')
      BY <3>1, <3>2, <3>3, NoTraceAppend
    <3>6. Level'
      BY <1>0, <3>1 DEF Serve, OneInstance, Level, Ready, TypeInv, TypeOK
    <3>7. \A v \in Writes : pc'[v] \notin {"checked", "materialised", "staged"}
      BY <2>1, <3>1 DEF Exclusive, InCopy
    <3> HIDE DEF c
    <3> QED
      BY <2>1, <3>1, <3>4, <3>5, <3>6, <3>7 DEF Honest, Faithful, Unread, NoTrace, Checked
  <2>7. CASE PushLands(w)
    <3>1. /\ pc'[w] = "applied" /\ branch' = head /\ tracking' = head
          /\ UNCHANGED <<head, served>>
      BY <2>7 DEF PushLands, Step, TypeInv, TypeOK
    <3> QED
      BY <2>1, <3>1, KnownStaysHonest DEF Level, Ready, Checked, TreeAt, Tip
  <2> QED
    BY <1>6, <2>2, <2>3, <2>4, <2>5, <2>6, <2>7 DEF WriteBack
<1>7. CASE UNCHANGED vars
  BY <1>7, KnownStaysHonest DEF vars, copy, writing, Level, Ready, Checked, TreeAt, Tip
<1> QED
  BY <1>1, <1>2, <1>3, <1>4, <1>5, <1>6, <1>7 DEF Next

\* With one process on the volume, an edit on the branch replaced exactly the
\* content its caller had read, however the branch moved meanwhile.
THEOREM NoEditIsLost ==
    ASSUME OneInstance
    PROVE  Spec => []NoLostUpdate
<1>1. HonestInv /\ [Next]_vars => HonestInv'
  BY TypeStep, ExclusiveStep, HonestStep DEF HonestInv
<1>2. HonestInv => NoLostUpdate
  BY DEF HonestInv, Honest, Faithful, NoLostUpdate
<1> QED
  BY HonestInit, <1>1, <1>2, PTL DEF Spec

-----------------------------------------------------------------------------
(* Steps, seen from the copy and from the histories it knows.              *)

LEMMA NoCrash ==
    ASSUME MaxCrashes = 0, TypeInv, NEW i \in Instances
    PROVE  ~Crash(i)
  BY DEF Crash, TypeInv, TypeOK

\* What an instance does besides writing, seen from the copy.
LEMMA BackgroundMoves ==
    ASSUME NEW i \in Instances, Background(i)
    PROVE  /\ UNCHANGED <<branch, pc, basis>>
           /\ \/ ResetToRemote(TRUE) \/ ResetToRemote(FALSE)
              \/ UNCHANGED <<head, files, index>> /\ tracking' \in {tracking, branch}
  BY DEF Background, CloneAdopts, CloneObtains, Refresh, Recover, copy, writing

\* A write-back that is inside the copy, or gets there, is alone in it.
LEMMA AloneInCopy ==
    ASSUME TypeInv, Exclusive, NEW w \in Writes, WriteBack(w),
           pc[w] \in InCopy \/ pc'[w] \in InCopy
    PROVE  \A v \in Writes \ {w} : pc[v] \notin InCopy /\ pc'[v] \notin InCopy
<1>1. \A v \in Writes \ {w} : pc'[v] = pc[v]
  BY OthersStand
<1>2. CASE pc[w] \in InCopy
  BY <1>1, <1>2 DEF Exclusive
<1>3. CASE pc[w] \notin InCopy
  <2>1. VolumeFree
    BY <1>3 DEF WriteBack, EnterProcess, EnterCopy, Abandon, CheckPasses, CheckConflicts,
       Materialise, MaterialiseFails, CommitFails, Stage, Commit, PushLands, PushRejected,
       PushFails, Retry, GiveUp, ReportUnavailable, Step, TypeInv, TypeOK, InCopy
  <2> QED
    BY <1>1, <2>1 DEF VolumeFree
<1> QED
  BY <1>2, <1>3

\* How a step can change the histories the service knows.
LEMMA HistoryStep ==
    ASSUME TypeInv, [Next]_vars
    PROVE  \/ /\ basis' = basis
              /\ branch' \in {branch, head} /\ head' \in {branch, head, tracking}
              /\ tracking' \in {branch, head, tracking}
           \/ \E w \in Writes, i \in Instances : Draft(w, i)
           \/ \E i \in Instances : Crash(i)
           \/ OutsidePush
           \/ \E w \in Writes : Commit(w)
<1>1. ASSUME NEW i \in Instances, Background(i)
      PROVE  /\ basis' = basis
             /\ branch' \in {branch, head} /\ head' \in {branch, head, tracking}
             /\ tracking' \in {branch, head, tracking}
  BY <1>1, BackgroundMoves, ResetPoints
<1>2. ASSUME NEW w \in Writes, WriteBack(w), ~Commit(w)
      PROVE  /\ basis' = basis
             /\ branch' \in {branch, head} /\ head' \in {branch, head, tracking}
             /\ tracking' \in {branch, head, tracking}
  BY <1>2, ResetPoints
     DEF WriteBack, EnterProcess, EnterCopy, Abandon, CheckPasses, CheckConflicts,
         Materialise, MaterialiseFails, CommitFails, Stage, PushLands, PushRejected,
         PushFails, Retry, GiveUp, ReportUnavailable, Reset, copy
<1>3. ASSUME NEW w \in Writes, NEW i \in Instances, Submit(w, i)
      PROVE  UNCHANGED <<basis, branch, head, tracking>>
  BY <1>3 DEF Submit, copy
<1>4. CASE UNCHANGED vars
  BY <1>4 DEF vars, copy, writing
<1> QED
  BY <1>1, <1>2, <1>3, <1>4 DEF Next

-----------------------------------------------------------------------------
(* The commit of an edit changes no path the edit does not name.  Every    *)
(* history the service knows is Narrow, because the index holds nothing at *)
(* the other paths that HEAD does not.                                     *)

Narrow(r) ==
    \A w \in Writes : \A k \in 2..Len(r) :
        r[k].by = w =>
            \A p \in Paths \ DOMAIN basis[w] : r[k].tree[p] = r[k - 1].tree[p]

Narrowed == Narrow(branch) /\ Narrow(head) /\ Narrow(tracking)

IndexTidy ==
    head # NoRevision =>
        /\ (\A w \in Writes : pc[w] \notin {"staged", "failed"}) => index = TreeAt(head)
        /\ \A w \in Writes : pc[w] = "staged" =>
               \A p \in Paths \ DOMAIN basis[w] : index[p] = TreeAt(head)[p]

LEMMA NarrowAppend ==
    ASSUME NEW r \in Seq(CommitRecord) \ {NoRevision}, NEW c \in CommitRecord,
           Narrow(r),
           \A w \in Writes : c.by = w =>
               \A p \in Paths \ DOMAIN basis[w] : c.tree[p] = TreeAt(r)[p]
    PROVE  Narrow(Append(r, c))
<1>1. Len(r) \in Nat \ {0}
  BY TipType
<1> SUFFICES ASSUME NEW w \in Writes, NEW k \in 2..(Len(r) + 1),
                    Append(r, c)[k].by = w, NEW p \in Paths \ DOMAIN basis[w]
             PROVE  Append(r, c)[k].tree[p] = Append(r, c)[k - 1].tree[p]
  BY AppendType DEF Narrow
<1>2. CASE k \in 2..Len(r)
  BY <1>1, <1>2, AppendType DEF Narrow
<1>3. CASE k = Len(r) + 1
  <2>1. Append(r, c)[k] = c /\ Append(r, c)[k - 1] = Tip(r)
    BY <1>1, <1>3, AppendType DEF Tip
  <2> QED
    BY <2>1 DEF TreeAt
<1> QED
  BY <1>1, <1>2, <1>3

LEMMA NarrowStep ==
    ASSUME MaxCrashes = 0, HonestInv, Narrowed, IndexTidy, [Next]_vars
    PROVE  Narrowed'
<1> USE DEF HonestInv
<1>1. CASE /\ basis' = basis
           /\ branch' \in {branch, head} /\ head' \in {branch, head, tracking}
           /\ tracking' \in {branch, head, tracking}
  <2>1. \A r \in {branch, head, tracking} : Narrow(r)
    BY DEF Narrowed
  <2>2. \A r \in {branch', head', tracking'} : Narrow(r)
    BY <1>1, <2>1
  <2> QED
    BY <1>1, <2>2 DEF Narrowed, Narrow
<1>2. ASSUME NEW w \in Writes, NEW i \in Instances, Draft(w, i)
      PROVE  Narrowed'
  <2>1. /\ pc[w] = "idle"
        /\ \A v \in Writes \ {w} : basis'[v] = basis[v]
        /\ UNCHANGED <<branch, head, tracking>>
    BY <1>2 DEF Draft, Step, copy, TypeInv, TypeOK
  <2>2. ASSUME NEW r \in {branch, head, tracking}
        PROVE  \A k \in 2..Len(r) : r[k].by # w
    <3>1. NoTrace(w, r) /\ Len(r) \in Nat
      BY <2>1 DEF Unread, TypeInv, TypeOK
    <3> QED
      BY <3>1 DEF NoTrace
  <2> QED
    BY <2>1, <2>2 DEF Narrowed, Narrow
<1>3. CASE OutsidePush
  <2>1. PICK p \in Paths :
            branch' = Append(branch, [by |-> Outsider,
                                      tree |-> [TreeAt(branch) EXCEPT ![p] = Outsider]])
    BY <1>3 DEF OutsidePush
  <2> DEFINE c == [by |-> Outsider, tree |-> [TreeAt(branch) EXCEPT ![p] = Outsider]]
  <2>2. c \in CommitRecord /\ c.by \notin Writes
    <3>1. TreeAt(branch) \in Tree
      BY TipType DEF TypeInv, TypeOK
    <3>2. [TreeAt(branch) EXCEPT ![p] = Outsider] \in Tree
      BY <3>1 DEF Tree, Authors
    <3> QED
      BY <3>2, RepositoryAssumption DEF CommitRecord, Authors
  <2>3. UNCHANGED <<head, tracking, basis>>
    BY <1>3 DEF OutsidePush, copy, writing
  <2>4. Narrow(Append(branch, c))
    <3> HIDE DEF c
    <3> QED
      BY <2>2, NarrowAppend DEF Narrowed, TypeInv, TypeOK
  <2> QED
    BY <2>1, <2>3, <2>4 DEF Narrowed, Narrow
<1>4. ASSUME NEW w \in Writes, Commit(w)
      PROVE  Narrowed'
  <2> DEFINE c == [by |-> w, tree |-> index]
  <2>1. /\ pc[w] = "staged" /\ head' = Append(head, c)
        /\ UNCHANGED <<branch, tracking, basis>>
    BY <1>4 DEF Commit, Step
  <2>2. c \in CommitRecord /\ c.by = w
    BY DEF TypeInv, TypeOK, CommitRecord, Authors
  <2>3. head \in Seq(CommitRecord) \ {NoRevision}
    BY <2>1, SubmittedFindsCopy DEF InProcess, InCopy
  <2>4. \A p \in Paths \ DOMAIN basis[w] : c.tree[p] = TreeAt(head)[p]
    BY <2>1, <2>3 DEF IndexTidy
  <2>5. Narrow(Append(head, c))
    <3> HIDE DEF c
    <3> QED
      BY <2>2, <2>3, <2>4, NarrowAppend DEF Narrowed
  <2> HIDE DEF c
  <2> QED
    BY <2>1, <2>5 DEF Narrowed, Narrow
<1> QED
  BY <1>1, <1>2, <1>3, <1>4, HistoryStep, NoCrash

LEMMA IndexStep ==
    ASSUME OneInstance, MaxCrashes = 0, TypeInv, Exclusive, IndexTidy, [Next]_vars
    PROVE  IndexTidy'
<1>1. ASSUME index' = TreeAt(head'), \A w \in Writes : pc'[w] # "staged"
      PROVE  IndexTidy'
  BY <1>1 DEF IndexTidy, TreeAt, Tip
<1>2. ASSUME UNCHANGED <<head, index>>,
             \A w \in Writes : /\ pc[w] = "failed" => pc'[w] = "failed"
                               /\ pc[w] = "staged" <=> pc'[w] = "staged"
                               /\ pc[w] = "staged" => basis'[w] = basis[w]
      PROVE  IndexTidy'
  BY <1>2 DEF IndexTidy, TreeAt, Tip
<1>3. ASSUME NEW i \in Instances, Background(i)
      PROVE  IndexTidy'
  <2>1. \A w \in Writes : pc[w] \notin InCopy /\ pc'[w] = pc[w] /\ basis'[w] = basis[w]
    BY <1>3, WriterIsAlone, BackgroundMoves
  <2>2. CASE ResetToRemote(TRUE) \/ ResetToRemote(FALSE)
    BY <1>1, <2>1, <2>2 DEF ResetToRemote, CheckedOut, InCopy, TreeAt, Tip
  <2>3. CASE UNCHANGED <<head, index>>
    BY <1>2, <2>1, <2>3
  <2> QED
    BY <1>3, <2>2, <2>3, BackgroundMoves
<1>4. ASSUME NEW w \in Writes, NEW i \in Instances, Draft(w, i) \/ Submit(w, i)
      PROVE  IndexTidy'
  <2>1. /\ \A v \in Writes \ {w} : pc'[v] = pc[v] /\ basis'[v] = basis[v]
        /\ pc'[w] \in {"drafted", "queued", "unmapped"} /\ pc[w] \in {"idle", "drafted"}
        /\ UNCHANGED copy
    BY <1>4 DEF Draft, Submit, Step, TypeInv, TypeOK
  <2> QED
    BY <1>2, <2>1 DEF copy
<1>5. CASE OutsidePush \/ UNCHANGED vars
  BY <1>2, <1>5 DEF OutsidePush, vars, copy, writing
<1>6. ASSUME NEW w \in Writes, WriteBack(w)
      PROVE  IndexTidy'
  <2>1. (\A v \in Writes \ {w} : pc'[v] = pc[v]) /\ basis' = basis
    BY <1>6, OthersStand
  <2>2. CASE EnterProcess(w) \/ EnterCopy(w) \/ CheckPasses(w) \/ CheckConflicts(w)
               \/ Materialise(w) \/ MaterialiseFails(w)
               \/ PushLands(w) \/ PushRejected(w) \/ PushFails(w)
    <3>1. /\ UNCHANGED <<head, index>> /\ pc[w] \notin {"staged", "failed"}
          /\ pc'[w] # "staged"
      BY <2>2 DEF EnterProcess, EnterCopy, CheckPasses, CheckConflicts, Materialise,
         MaterialiseFails, PushLands, PushRejected, PushFails, Step, copy, TypeInv, TypeOK
    <3> QED
      BY <1>2, <2>1, <3>1
  <2>3. CASE CommitFails(w)
    <3>1. pc[w] \in InCopy /\ pc'[w] = "failed"
      BY <2>3 DEF CommitFails, Step, InCopy, TypeInv, TypeOK
    <3>2. \A v \in Writes : pc'[v] # "staged"
      BY <1>6, <3>1, AloneInCopy DEF InCopy
    <3> QED
      BY <3>1, <3>2 DEF IndexTidy
  <2>4. CASE Abandon(w) \/ Retry(w) \/ GiveUp(w) \/ ReportUnavailable(w)
    <3>1. pc[w] \in InCopy /\ pc'[w] # "staged"
          /\ (ResetToRemote(TRUE) \/ ResetToRemote(FALSE))
      BY <2>4 DEF Abandon, Retry, GiveUp, ReportUnavailable, Reset, Step, InCopy,
                  TypeInv, TypeOK
    <3>2. \A v \in Writes : pc'[v] # "staged"
      BY <1>6, <3>1, AloneInCopy DEF InCopy
    <3> QED
      BY <1>1, <3>1, <3>2 DEF ResetToRemote, CheckedOut, TreeAt, Tip
  <2>5. CASE Stage(w)
    <3>1. /\ pc[w] = "materialised" /\ pc'[w] = "staged" /\ head' = head
          /\ index' = [p \in Paths |-> IF p \in DOMAIN basis[w] THEN files[p] ELSE index[p]]
      BY <2>5 DEF Stage, Step, TypeInv, TypeOK
    <3>2. \A v \in Writes \ {w} : pc[v] \notin InCopy /\ pc'[v] \notin InCopy
      BY <1>6, <3>1, AloneInCopy DEF InCopy
    <3>3. head # NoRevision => index = TreeAt(head)
      BY <3>1, <3>2 DEF IndexTidy, InCopy
    <3> QED
      BY <2>1, <3>1, <3>2, <3>3 DEF IndexTidy, InCopy, TreeAt, Tip
  <2>6. CASE Commit(w)
    <3>1. /\ pc[w] = "staged" /\ pc'[w] = "committed" /\ index' = index
          /\ head' = Append(head, [by |-> w, tree |-> index])
      BY <2>6 DEF Commit, Step, TypeInv, TypeOK
    <3>2. \A v \in Writes : pc'[v] # "staged"
      BY <1>6, <3>1, AloneInCopy DEF InCopy
    <3>3. Tip(head') = [by |-> w, tree |-> index]
      BY <3>1, AppendType DEF Tip, TypeInv, TypeOK, CommitRecord, Authors
    <3> QED
      BY <1>1, <3>1, <3>2, <3>3 DEF TreeAt
  <2> QED
    BY <1>6, <2>2, <2>3, <2>4, <2>5, <2>6 DEF WriteBack
<1> QED
  BY <1>3, <1>4, <1>5, <1>6, NoCrash DEF Next

NamedInv == HonestInv /\ Narrowed /\ IndexTidy

LEMMA NamedInit == Init => NamedInv
  BY HonestInit DEF Init, NamedInv, Narrowed, Narrow, IndexTidy, NoRevision

LEMMA NamedStep ==
    ASSUME OneInstance, MaxCrashes = 0, NamedInv, [Next]_vars
    PROVE  NamedInv'
<1>1. HonestInv'
  BY TypeStep, ExclusiveStep, HonestStep DEF HonestInv, NamedInv
<1> QED
  BY <1>1, NarrowStep, IndexStep DEF NamedInv, HonestInv

\* With one process on the volume that is not killed, the commit of an edit
\* changes no path the edit does not name, whatever fails.
THEOREM NamedPathsOnly ==
    ASSUME OneInstance, MaxCrashes = 0
    PROVE  Spec => []OnlyNamedPaths
<1>1. NamedInv => OnlyNamedPaths
  BY DEF NamedInv, Narrowed, Narrow, OnlyNamedPaths
<1>2. NamedInv /\ [Next]_vars => NamedInv'
  BY NamedStep
<1> QED
  BY <1>1, <1>2, NamedInit, PTL DEF Spec

-----------------------------------------------------------------------------
(* The copy is returned.  HEAD is a commit of the branch, or one commit    *)
(* over one (Rooted), and the files are HEAD's but for what the write-back *)
(* under way has put in them (FilesTidy).                                  *)

Beyond(revision) ==
    \A k \in 1..(Len(revision) - 1) : k <= Len(branch) /\ branch[k] = revision[k]

Rooted ==
    /\ Ancestor(tracking, branch)
    /\ (\A w \in Writes : pc[w] \notin Pending) => Ancestor(head, branch)
    /\ \A w \in Writes : pc[w] = "committed" => Len(head) > 1 /\ Beyond(head)

LEMMA RootedStep ==
    ASSUME OneInstance, MaxCrashes = 0, TypeInv, Exclusive, Rooted, [Next]_vars
    PROVE  Rooted'
<1>0. /\ branch \in Seq(CommitRecord) /\ head \in Seq(CommitRecord)
      /\ tracking \in Seq(CommitRecord) /\ branch' \in Seq(CommitRecord)
  BY TypeStep DEF TypeInv, TypeOK
<1>1. \A r \in Seq(CommitRecord) : Ancestor(r, branch) => Ancestor(r, branch')
  BY <1>0, BranchStep, AncestorTransitive
<1>2. Ancestor(tracking, branch')
  BY <1>0, <1>1 DEF Rooted
\* The copy ends at a revision the remote has, with nobody's commit over it.
<1>3. ASSUME tracking' \in {tracking, branch}, head' \in {tracking, branch},
             \A w \in Writes : pc'[w] # "committed"
      PROVE  Rooted'
  BY <1>0, <1>1, <1>2, <1>3, AncestorReflexive DEF Rooted
\* HEAD stands, and so does whether a commit of ours is over the branch.
<1>4. ASSUME tracking' \in {tracking, branch}, head' = head,
             \A w \in Writes : /\ pc[w] \in Pending => pc'[w] \in Pending
                               /\ pc'[w] = "committed" => pc[w] = "committed"
      PROVE  Rooted'
  <2>1. Ancestor(tracking', branch')
    BY <1>0, <1>1, <1>2, <1>4, AncestorReflexive
  <2>2. (\A w \in Writes : pc'[w] \notin Pending) => Ancestor(head', branch')
    BY <1>0, <1>1, <1>4 DEF Rooted
  <2>3. ASSUME NEW w \in Writes, pc'[w] = "committed"
        PROVE  Len(head') > 1 /\ Beyond(head)'
    <3>1. Len(head) > 1 /\ Beyond(head)
      BY <1>4, <2>3 DEF Rooted
    <3>2. Ancestor(branch, branch') /\ Len(branch) \in Nat /\ Len(head) \in Nat
          /\ Len(branch') \in Nat
      BY <1>0, BranchStep
    <3> QED
      BY <1>4, <3>1, <3>2 DEF Beyond, Ancestor
  <2> QED
    BY <2>1, <2>2, <2>3 DEF Rooted
<1>5. ASSUME NEW i \in Instances, Background(i)
      PROVE  Rooted'
  <2>1. \A w \in Writes : pc[w] \notin InCopy /\ pc'[w] = pc[w]
    BY <1>5, WriterIsAlone, BackgroundMoves
  <2>2. CASE ResetToRemote(TRUE) \/ ResetToRemote(FALSE)
    BY <1>3, <2>1, <2>2, ResetPoints DEF InCopy
  <2>3. CASE UNCHANGED head /\ tracking' \in {tracking, branch}
    BY <1>4, <2>1, <2>3
  <2> QED
    BY <1>5, <2>2, <2>3, BackgroundMoves
<1>6. ASSUME NEW w \in Writes, NEW i \in Instances, Draft(w, i) \/ Submit(w, i)
      PROVE  Rooted'
  <2>1. /\ \A v \in Writes \ {w} : pc'[v] = pc[v]
        /\ pc'[w] \in {"drafted", "queued", "unmapped"} /\ pc[w] \in {"idle", "drafted"}
        /\ UNCHANGED copy
    BY <1>6 DEF Draft, Submit, Step, TypeInv, TypeOK
  <2> QED
    BY <1>4, <2>1 DEF copy, Pending
<1>7. CASE OutsidePush \/ UNCHANGED vars
  BY <1>4, <1>7 DEF OutsidePush, vars, copy, writing
<1>8. ASSUME NEW w \in Writes, WriteBack(w)
      PROVE  Rooted'
  <2>1. \A v \in Writes \ {w} : pc'[v] = pc[v]
    BY <1>8, OthersStand
  <2>2. CASE EnterProcess(w) \/ EnterCopy(w) \/ CheckPasses(w) \/ CheckConflicts(w)
               \/ Materialise(w) \/ MaterialiseFails(w) \/ Stage(w)
               \/ CommitFails(w) \/ PushRejected(w) \/ PushFails(w)
    <3>1. /\ UNCHANGED <<head, tracking>> /\ pc'[w] # "committed"
          /\ pc[w] \in Pending => pc'[w] \in Pending
      BY <2>2 DEF EnterProcess, EnterCopy, CheckPasses, CheckConflicts, Materialise,
         MaterialiseFails, Stage, CommitFails, PushRejected, PushFails, Step, copy, Pending,
         TypeInv, TypeOK
    <3> QED
      BY <1>4, <2>1, <3>1
  <2>3. CASE Abandon(w) \/ Retry(w) \/ GiveUp(w) \/ ReportUnavailable(w)
    <3>1. pc[w] \in InCopy /\ pc'[w] # "committed"
          /\ (ResetToRemote(TRUE) \/ ResetToRemote(FALSE))
      BY <2>3 DEF Abandon, Retry, GiveUp, ReportUnavailable, Reset, Step, InCopy,
                  TypeInv, TypeOK
    <3>2. \A v \in Writes : pc'[v] # "committed"
      BY <1>8, <3>1, AloneInCopy DEF InCopy
    <3> QED
      BY <1>3, <3>1, <3>2, ResetPoints
  <2>4. CASE Commit(w)
    <3>1. /\ pc[w] = "staged" /\ pc'[w] = "committed"
          /\ head' = Append(head, [by |-> w, tree |-> index])
          /\ UNCHANGED <<branch, tracking>>
      BY <2>4 DEF Commit, Step, TypeInv, TypeOK
    <3>2. head # NoRevision
      BY <3>1, SubmittedFindsCopy DEF InProcess, InCopy
    <3>3. \A v \in Writes \ {w} : pc[v] \notin InCopy /\ pc'[v] \notin InCopy
      BY <1>8, <3>1, AloneInCopy DEF InCopy
    <3>4. Ancestor(head, branch)
      BY <3>1, <3>3 DEF Rooted, Pending, InCopy
    <3>5. [by |-> w, tree |-> index] \in CommitRecord
      BY DEF TypeInv, TypeOK, CommitRecord, Authors
    <3>6. /\ Len(head') = Len(head) + 1 /\ \A k \in 1..Len(head) : head'[k] = head[k]
          /\ Len(head) \in Nat \ {0}
      BY <1>0, <3>1, <3>2, <3>5, AppendType, TipType
    <3>7. Len(head') > 1 /\ Beyond(head)'
      BY <3>1, <3>4, <3>6 DEF Beyond, Ancestor
    <3> QED
      BY <1>2, <3>1, <3>7 DEF Rooted, Pending
  <2>5. CASE PushLands(w)
    <3>1. /\ pc[w] = "committed" /\ pc'[w] = "applied"
          /\ branch' = head /\ tracking' = head /\ head' = head
      BY <2>5 DEF PushLands, Step, TypeInv, TypeOK
    <3>2. \A v \in Writes : pc'[v] # "committed"
      BY <1>8, <3>1, AloneInCopy DEF InCopy
    <3> QED
      BY <1>0, <3>1, <3>2, AncestorReflexive DEF Rooted
  <2> QED
    BY <1>8, <2>2, <2>3, <2>4, <2>5 DEF WriteBack
<1> QED
  BY <1>5, <1>6, <1>7, <1>8, NoCrash DEF Next

FilesTidy ==
    head # NoRevision =>
        /\ (\A w \in Writes : pc[w] \notin {"materialised", "staged", "failed"}) =>
               files = TreeAt(head)
        /\ \A w \in Writes : pc[w] = "materialised" =>
               \A p \in Paths \ DOMAIN basis[w] : files[p] = TreeAt(head)[p]
        /\ \A w \in Writes : pc[w] = "staged" => index = files

LEMMA FilesStep ==
    ASSUME OneInstance, MaxCrashes = 0, VolumeFails = FALSE,
           TypeInv, Exclusive, IndexTidy, FilesTidy, [Next]_vars
    PROVE  FilesTidy'
<1> DEFINE Writing == {"materialised", "staged"}
<1>1. ASSUME files' = TreeAt(head'), \A w \in Writes : pc'[w] \notin Writing
      PROVE  FilesTidy'
  BY <1>1 DEF FilesTidy, TreeAt, Tip
<1>2. ASSUME UNCHANGED <<head, files, index>>,
             \A w \in Writes : /\ pc[w] = "failed" => pc'[w] = "failed"
                               /\ pc[w] \in Writing \/ pc'[w] \in Writing =>
                                      pc[w] = pc'[w] /\ basis'[w] = basis[w]
      PROVE  FilesTidy'
  BY <1>2 DEF FilesTidy, TreeAt, Tip
<1>3. ASSUME NEW i \in Instances, Background(i)
      PROVE  FilesTidy'
  <2>1. \A w \in Writes : pc[w] \notin InCopy /\ pc'[w] = pc[w] /\ basis'[w] = basis[w]
    BY <1>3, WriterIsAlone, BackgroundMoves
  <2>2. CASE ResetToRemote(TRUE) \/ ResetToRemote(FALSE)
    BY <1>1, <2>1, <2>2 DEF ResetToRemote, CheckedOut, InCopy, TreeAt, Tip
  <2>3. CASE UNCHANGED <<head, files, index>>
    BY <1>2, <2>1, <2>3
  <2> QED
    BY <1>3, <2>2, <2>3, BackgroundMoves
<1>4. ASSUME NEW w \in Writes, NEW i \in Instances, Draft(w, i) \/ Submit(w, i)
      PROVE  FilesTidy'
  <2>1. /\ \A v \in Writes \ {w} : pc'[v] = pc[v] /\ basis'[v] = basis[v]
        /\ pc'[w] \in {"drafted", "queued", "unmapped"} /\ pc[w] \in {"idle", "drafted"}
        /\ UNCHANGED copy
    BY <1>4 DEF Draft, Submit, Step, TypeInv, TypeOK
  <2> QED
    BY <1>2, <2>1 DEF copy
<1>5. CASE OutsidePush \/ UNCHANGED vars
  BY <1>2, <1>5 DEF OutsidePush, vars, copy, writing
<1>6. ASSUME NEW w \in Writes, WriteBack(w)
      PROVE  FilesTidy'
  <2>1. (\A v \in Writes \ {w} : pc'[v] = pc[v]) /\ basis' = basis
    BY <1>6, OthersStand
  <2>2. CASE EnterProcess(w) \/ EnterCopy(w) \/ CheckPasses(w) \/ CheckConflicts(w)
               \/ PushLands(w) \/ PushRejected(w) \/ PushFails(w)
    <3>1. /\ UNCHANGED <<head, files, index>> /\ pc[w] \notin Writing \cup {"failed"}
          /\ pc'[w] \notin Writing
      BY <2>2 DEF EnterProcess, EnterCopy, CheckPasses, CheckConflicts, PushLands,
         PushRejected, PushFails, Step, copy, TypeInv, TypeOK
    <3> QED
      BY <1>2, <2>1, <3>1
  <2>3. CASE CommitFails(w)
    <3>1. pc[w] \in InCopy /\ pc'[w] = "failed"
      BY <2>3 DEF CommitFails, Step, InCopy, TypeInv, TypeOK
    <3>2. \A v \in Writes : pc'[v] \notin Writing
      BY <1>6, <3>1, AloneInCopy DEF InCopy
    <3> QED
      BY <3>1, <3>2 DEF FilesTidy
  <2>4. CASE Abandon(w) \/ Retry(w) \/ GiveUp(w) \/ ReportUnavailable(w)
    <3>1. pc[w] \in InCopy /\ pc'[w] \notin Writing
          /\ (ResetToRemote(TRUE) \/ ResetToRemote(FALSE))
      BY <2>4 DEF Abandon, Retry, GiveUp, ReportUnavailable, Reset, Step, InCopy,
                  TypeInv, TypeOK
    <3>2. \A v \in Writes : pc'[v] \notin Writing
      BY <1>6, <3>1, AloneInCopy DEF InCopy
    <3> QED
      BY <1>1, <3>1, <3>2 DEF ResetToRemote, CheckedOut, TreeAt, Tip
  <2>5. CASE Materialise(w)
    <3>1. /\ pc[w] = "checked" /\ pc'[w] = "materialised" /\ head' = head
          /\ files' = Edited(files, w)
      BY <2>5 DEF Materialise, Step, TypeInv, TypeOK
    <3>2. \A v \in Writes \ {w} : pc[v] \notin InCopy /\ pc'[v] \notin InCopy
      BY <1>6, <3>1, AloneInCopy DEF InCopy
    <3>3. head # NoRevision => files = TreeAt(head)
      BY <3>1, <3>2 DEF FilesTidy, InCopy
    <3> QED
      BY <2>1, <3>1, <3>2, <3>3 DEF FilesTidy, Edited, InCopy, TreeAt, Tip
  <2>6. CASE Stage(w)
    <3>1. /\ pc[w] = "materialised" /\ pc'[w] = "staged" /\ UNCHANGED <<head, files>>
          /\ index' = [p \in Paths |-> IF p \in DOMAIN basis[w] THEN files[p] ELSE index[p]]
      BY <2>6 DEF Stage, Step, TypeInv, TypeOK
    <3>2. \A v \in Writes \ {w} : pc[v] \notin InCopy /\ pc'[v] \notin InCopy
      BY <1>6, <3>1, AloneInCopy DEF InCopy
    <3>3. head # NoRevision => index' = files
      <4>1. head # NoRevision => index = TreeAt(head)
        BY <3>1, <3>2 DEF IndexTidy, InCopy
      <4>2. head # NoRevision => \A p \in Paths \ DOMAIN basis[w] : files[p] = index[p]
        BY <3>1, <4>1 DEF FilesTidy
      <4> QED
        BY <3>1, <4>2 DEF TypeInv, TypeOK, Tree
    <3> QED
      BY <2>1, <3>1, <3>2, <3>3 DEF FilesTidy, InCopy
  <2>7. CASE Commit(w)
    <3>1. /\ pc[w] = "staged" /\ pc'[w] = "committed" /\ files' = files
          /\ head' = Append(head, [by |-> w, tree |-> index])
      BY <2>7 DEF Commit, Step, TypeInv, TypeOK
    <3>2. \A v \in Writes : pc'[v] \notin Writing
      BY <1>6, <3>1, AloneInCopy DEF InCopy
    <3>3. Tip(head') = [by |-> w, tree |-> index]
      BY <3>1, AppendType DEF Tip, TypeInv, TypeOK, CommitRecord, Authors
    <3>4. head # NoRevision
      BY <3>1, SubmittedFindsCopy DEF InProcess, InCopy
    <3> QED
      BY <1>1, <3>1, <3>2, <3>3, <3>4 DEF FilesTidy, TreeAt
  <2>8. ~MaterialiseFails(w)
    BY DEF MaterialiseFails
  <2> QED
    BY <1>6, <2>2, <2>3, <2>4, <2>5, <2>6, <2>7, <2>8 DEF WriteBack
<1> QED
  BY <1>3, <1>4, <1>5, <1>6, NoCrash DEF Next


CopyInv == NamedInv /\ Rooted /\ FilesTidy

\* And where writing a file does not fail halfway, the working copy is back at
\* a commit of the branch, with nothing of a write-back left in it, whenever
\* no write-back is under way.
THEOREM CopyStaysClean ==
    ASSUME OneInstance, MaxCrashes = 0, VolumeFails = FALSE
    PROVE  Spec => []CopyIsClean
<1>1. Init => CopyInv
  BY NamedInit DEF Init, CopyInv, Rooted, FilesTidy, Ancestor, NoRevision
<1>2. CopyInv /\ [Next]_vars => CopyInv'
  BY NamedStep, RootedStep, FilesStep DEF CopyInv, NamedInv, HonestInv
<1>3. CopyInv => CopyIsClean
  <2> SUFFICES ASSUME CopyInv PROVE CopyIsClean
    OBVIOUS
  <2>1. OnlyNamedPaths
    BY DEF CopyInv, NamedInv, Narrowed, Narrow, OnlyNamedPaths
  <2>2. ASSUME VolumeFree, head # NoRevision
        PROVE  Ancestor(head, branch) /\ files = TreeAt(head) /\ index = TreeAt(head)
    BY <2>2 DEF CopyInv, NamedInv, Rooted, FilesTidy, IndexTidy, VolumeFree, InCopy, Pending
  <2> QED
    BY <2>1, <2>2 DEF CopyIsClean, WorkingCopyReturned
<1> QED
  BY <1>1, <1>2, <1>3, PTL DEF Spec

-----------------------------------------------------------------------------
(* Edits are compare-and-swaps.  Every step of the write path is a step of *)
(* EditLedger or none: the one that lands a push is Apply, because the     *)
(* commit over the branch is the edit's own and alone (Rooted, Hidden),    *)
(* holds its content at the paths it names (Carried) and nothing else      *)
(* (Narrowed), and stands on what its caller read (Honest).                *)

AtomicInv == NamedInv /\ Carried /\ Hidden /\ Rooted

Open == {"drafted", "queued", "lost"} \cup InProcess

LEMMA Outcomes ==
    ASSUME NEW w \in Writes
    PROVE  /\ pc[w] = "idle" => Outcome(w) = "none"
           /\ pc[w] \in Open => Outcome(w) = "open"
           /\ pc[w] \in Refused => Outcome(w) = "refused"
           /\ pc[w] = "applied" => Outcome(w) = "applied"
  BY DEF Outcome, Open, Refused, InProcess, InCopy

LEMMA OutcomesNext ==
    ASSUME NEW w \in Writes
    PROVE  /\ pc'[w] = "idle" => Outcome(w)' = "none"
           /\ pc'[w] \in Open => Outcome(w)' = "open"
           /\ pc'[w] \in Refused => Outcome(w)' = "refused"
           /\ pc'[w] = "applied" => Outcome(w)' = "applied"
  BY DEF Outcome, Open, Refused, InProcess, InCopy

LEMMA Stutters ==
    ASSUME UNCHANGED <<branch, basis>>, \A w \in Writes : Outcome(w)' = Outcome(w)
    PROVE  UNCHANGED Ledger!ledger
  BY DEF Ledger!ledger, TreeAt, Tip

LEMMA BecomesStep ==
    ASSUME NEW w \in Writes, NEW from, NEW to, Outcome(w) = from, Outcome(w)' = to,
           \A v \in Writes \ {w} : Outcome(v)' = Outcome(v)
    PROVE  Ledger!Becomes(w, from, to)
  BY DEF Ledger!Becomes

\* The push that lands.
LEMMA LandsAsApply ==
    ASSUME AtomicInv, NEW w \in Writes, PushLands(w)
    PROVE  Ledger!Apply(w)
<1> USE DEF AtomicInv, NamedInv, HonestInv
<1>1. /\ pc[w] = "committed" /\ pc'[w] = "applied" /\ basis' = basis
      /\ \A v \in Writes \ {w} : pc'[v] = pc[v]
      /\ branch' = head /\ Ancestor(branch, head)
  BY DEF PushLands, Step, TypeInv, TypeOK
<1>2. Ledger!Becomes(w, "open", "applied")
  <2>1. Outcome(w) = "open"
    BY <1>1, Outcomes DEF Open, InProcess, InCopy
  <2>2. Outcome(w)' = "applied"
    BY <1>1, OutcomesNext
  <2>3. \A v \in Writes \ {w} : Outcome(v)' = Outcome(v)
    BY <1>1 DEF Outcome
  <2> QED
    BY <2>1, <2>2, <2>3, BecomesStep
<1> DEFINE n == Len(head)
<1>3. /\ head \in Seq(CommitRecord) /\ branch \in Seq(CommitRecord) /\ Len(branch) \in Nat \ {0}
      /\ n \in Nat /\ n > 1
  BY <1>1, TipType DEF Rooted, TypeInv, TypeOK
<1>4. head[n].by = w /\ \A p \in DOMAIN basis[w] : head[n].tree[p] = w
  BY <1>1 DEF Carried, Carries, Tip, TreeAt
<1>5. Len(branch) = n - 1 /\ branch[n - 1] = head[n - 1]
  <2>1. n - 1 <= Len(branch) /\ branch[n - 1] = head[n - 1]
    BY <1>1, <1>3 DEF Rooted, Beyond
  <2>2. Len(branch) <= n
    BY <1>1 DEF Ancestor
  <2>3. Len(branch) # n
    BY <1>1, <1>3, <1>4 DEF Ancestor, Hidden, NoTrace, Pending
  <2> QED
    BY <1>3, <2>1, <2>2, <2>3
<1>6. TreeAt(branch) = head[n - 1].tree
  BY <1>5 DEF TreeAt, Tip
<1>7. \A p \in DOMAIN basis[w] : TreeAt(branch)[p] = basis[w][p]
  BY <1>3, <1>4, <1>6 DEF Honest, Faithful
<1>8. \A p \in Paths \ DOMAIN basis[w] : head[n].tree[p] = TreeAt(branch)[p]
  BY <1>3, <1>4, <1>6 DEF Narrowed, Narrow
<1>9. TreeAt(branch)' = head[n].tree
  BY <1>1 DEF TreeAt, Tip
<1>10. head[n].tree \in [Paths -> Authors]
  <2>1. TreeAt(head) \in Tree
    BY <1>3, TipType DEF NoRevision
  <2> QED
    BY <2>1 DEF TreeAt, Tip, Tree
<1>11. TreeAt(branch)' = [p \in Paths |-> IF p \in DOMAIN basis[w] THEN w ELSE TreeAt(branch)[p]]
  <2>1. \A p \in Paths : head[n].tree[p] = IF p \in DOMAIN basis[w] THEN w ELSE TreeAt(branch)[p]
    BY <1>4, <1>8
  <2> QED
    BY <1>9, <1>10, <2>1
<1> QED
  BY <1>1, <1>2, <1>7, <1>11 DEF Ledger!Apply

LEMMA DraftsAsCompose ==
    ASSUME TypeInv, NEW w \in Writes, NEW i \in Instances, Draft(w, i)
    PROVE  Ledger!Compose(w)
<1>1. /\ pc[w] = "idle" /\ pc'[w] = "drafted" /\ branch' = branch
      /\ \A v \in Writes \ {w} : pc'[v] = pc[v]
  BY DEF Draft, Step, TypeInv, TypeOK
<1>2. Ledger!Becomes(w, "none", "open")
  <2>1. Outcome(w) = "none" /\ Outcome(w)' = "open"
    BY <1>1, Outcomes, OutcomesNext DEF Open
  <2>2. \A v \in Writes \ {w} : Outcome(v)' = Outcome(v)
    BY <1>1 DEF Outcome
  <2> QED
    BY <2>1, <2>2, BecomesStep
<1>3. PICK scope \in SUBSET Paths \ {{}} :
          basis' = [basis EXCEPT ![w] = [p \in scope |-> TreeAt(served[i])[p]]]
  BY DEF Draft
<1>4. TreeAt(served[i]) \in Tree
  BY TipType DEF Draft, Ready, TypeInv, TypeOK
<1>5. [p \in scope |-> TreeAt(served[i])[p]] \in [scope -> Authors]
  BY <1>4 DEF Tree
<1>6. [p \in scope |-> TreeAt(served[i])[p]] \in Ledger!Bases
  BY <1>5 DEF Ledger!Bases, Ledger!Contents, Authors
<1>7. UNCHANGED TreeAt(branch)
  BY <1>1 DEF TreeAt, Tip
<1> QED
  BY <1>2, <1>3, <1>6, <1>7 DEF Ledger!Compose

LEMMA RefusalAsRefuse ==
    ASSUME NEW w \in Writes, pc[w] \in Open, pc'[w] \in Refused,
           \A v \in Writes \ {w} : pc'[v] = pc[v], UNCHANGED <<branch, basis>>
    PROVE  Ledger!Refuse(w)
<1>1. Outcome(w) = "open" /\ Outcome(w)' = "refused"
  BY Outcomes, OutcomesNext
<1>2. \A v \in Writes \ {w} : Outcome(v)' = Outcome(v)
  BY DEF Outcome
<1>3. Ledger!Becomes(w, "open", "refused")
  BY <1>1, <1>2, BecomesStep
<1> QED
  BY <1>3 DEF Ledger!Refuse, TreeAt, Tip

LEMMA OpenStutters ==
    ASSUME UNCHANGED <<branch, basis>>, NEW w \in Writes, pc[w] \in Open, pc'[w] \in Open,
           \A v \in Writes \ {w} : pc'[v] = pc[v]
    PROVE  UNCHANGED Ledger!ledger
<1>1. Outcome(w)' = Outcome(w)
  BY Outcomes, OutcomesNext
<1>2. \A v \in Writes \ {w} : Outcome(v)' = Outcome(v)
  BY DEF Outcome
<1> QED
  BY <1>1, <1>2, Stutters

LEMMA LedgerStep ==
    ASSUME MaxCrashes = 0, AcksGetLost = FALSE, AtomicInv, [Next]_vars
    PROVE  [Ledger!Next]_Ledger!ledger
<1> USE DEF AtomicInv, NamedInv, HonestInv
<1>1. ASSUME NEW i \in Instances, Background(i)
      PROVE  UNCHANGED Ledger!ledger
  BY <1>1, BackgroundMoves, Stutters DEF Outcome
<1>2. ASSUME NEW w \in Writes, NEW i \in Instances, Draft(w, i)
      PROVE  Ledger!Next
  BY <1>2, DraftsAsCompose DEF Ledger!Next
<1>3. ASSUME NEW w \in Writes, NEW i \in Instances, Submit(w, i)
      PROVE  [Ledger!Next]_Ledger!ledger
  <2>1. /\ pc[w] = "drafted" /\ pc'[w] \in {"queued", "unmapped"}
        /\ \A v \in Writes \ {w} : pc'[v] = pc[v]
        /\ UNCHANGED <<branch, basis>>
    BY <1>3 DEF Submit, Step, TypeInv, TypeOK
  <2>2. CASE pc'[w] = "queued"
    BY <2>1, <2>2, OpenStutters DEF Open
  <2>3. CASE pc'[w] = "unmapped"
    <3>1. Ledger!Refuse(w)
      BY <2>1, <2>3, RefusalAsRefuse DEF Open, Refused
    <3> QED
      BY <3>1 DEF Ledger!Next
  <2> QED
    BY <2>1, <2>2, <2>3
<1>4. CASE OutsidePush
  <2>1. PICK p \in Paths :
            branch' = Append(branch, [by |-> Outsider,
                                      tree |-> [TreeAt(branch) EXCEPT ![p] = Outsider]])
    BY <1>4 DEF OutsidePush
  <2> DEFINE c == [by |-> Outsider, tree |-> [TreeAt(branch) EXCEPT ![p] = Outsider]]
  <2>2. c \in CommitRecord
    BY TipType DEF TypeInv, TypeOK, CommitRecord, Tree, Authors
  <2>3. TreeAt(branch)' = c.tree
    BY <2>1, <2>2, AppendType DEF TreeAt, Tip, TypeInv, TypeOK
  <2>4. UNCHANGED <<pc, basis>>
    BY <1>4 DEF OutsidePush, writing
  <2>5. Ledger!Outside(p)
    BY <2>3, <2>4 DEF Ledger!Outside, Outcome
  <2> QED
    BY <2>5 DEF Ledger!Next
<1>5. ASSUME NEW w \in Writes, WriteBack(w)
      PROVE  [Ledger!Next]_Ledger!ledger
  <2>1. (\A v \in Writes \ {w} : pc'[v] = pc[v]) /\ basis' = basis
    BY <1>5, OthersStand
  <2>2. CASE PushLands(w)
    BY <2>2, LandsAsApply DEF Ledger!Next
  <2>3. CASE EnterProcess(w) \/ EnterCopy(w) \/ CheckPasses(w) \/ Materialise(w)
               \/ Stage(w) \/ Commit(w) \/ CommitFails(w) \/ PushRejected(w)
               \/ PushFails(w) \/ Retry(w)
    <3>1. pc[w] \in Open /\ pc'[w] \in Open /\ branch' = branch
      BY <2>3 DEF EnterProcess, EnterCopy, CheckPasses, Materialise, Stage, Commit,
         CommitFails, PushRejected, PushFails, Retry, Step, Open, InProcess, InCopy,
         TypeInv, TypeOK
    <3> QED
      BY <2>1, <3>1, OpenStutters
  <2>4. CASE Abandon(w) \/ CheckConflicts(w) \/ MaterialiseFails(w) \/ GiveUp(w)
               \/ ReportUnavailable(w)
    <3>1. pc[w] \in Open /\ pc'[w] \in Refused /\ branch' = branch
      BY <2>4 DEF Abandon, CheckConflicts, MaterialiseFails, GiveUp, ReportUnavailable,
         Step, Open, Refused, InProcess, InCopy, TypeInv, TypeOK
    <3>2. Ledger!Refuse(w)
      BY <2>1, <3>1, RefusalAsRefuse
    <3> QED
      BY <3>2 DEF Ledger!Next
  <2> QED
    BY <1>5, <2>2, <2>3, <2>4 DEF WriteBack
<1>6. CASE UNCHANGED vars
  BY <1>6, Stutters DEF vars, writing, Outcome
<1> QED
  BY <1>1, <1>2, <1>3, <1>4, <1>5, <1>6, NoCrash DEF Next

LEMMA LedgerInit == Init => Ledger!Init
<1> SUFFICES ASSUME Init PROVE Ledger!Init
  OBVIOUS
<1>1. TreeAt(branch) = [p \in Paths |-> Original]
  BY DEF Init, TreeAt, Tip, FirstCommit
<1>2. \A w \in Writes : Outcome(w) = "none"
  BY Outcomes DEF Init
<1> QED
  BY <1>1, <1>2 DEF Init, Ledger!Init

\* The write path implements EditLedger: seen from outside, an edit is applied
\* whole by one compare-and-swap on the branch or changes nothing.
THEOREM WritePathIsAtomic ==
    ASSUME OneInstance, MaxCrashes = 0, AcksGetLost = FALSE
    PROVE  Spec => EditsAreAtomic
<1>1. Init => AtomicInv
  BY NamedInit, RefusedInit
     DEF Init, AtomicInv, Carried, RefusedInv, Rooted, Ancestor, NoRevision
<1>2. AtomicInv /\ [Next]_vars => AtomicInv'
  BY NamedStep, CarriedStep, HiddenStep, RootedStep
     DEF AtomicInv, NamedInv, HonestInv, RefusedInv
<1>3. AtomicInv /\ [Next]_vars => [Ledger!Next]_Ledger!ledger
  BY LedgerStep
<1> QED
  BY <1>1, <1>2, <1>3, LedgerInit, PTL DEF Spec, EditsAreAtomic, Ledger!Spec

=============================================================================
