---------------------------- MODULE WorkerProofs ----------------------------
(***************************************************************************)
(* Theorems about the validation of exports: of ValidationWorker, for any  *)
(* workers, exports, assets, verdicts and number of pushes; and of         *)
(* Verdicts, for any constraints, defaults, meshes and severities.         *)
(***************************************************************************)
EXTENDS ValidationWorker, Verdicts, TLAPS

-----------------------------------------------------------------------------
\* A tree the branch held: its exports and specifications are those of a push, and
\* its records are of no later one.
Held(tree, trees) ==
    /\ tree \in Trees
    /\ tree.push + 1 \in 1..Len(trees)
    /\ trees[tree.push + 1].bytes = tree.bytes /\ trees[tree.push + 1].spec = tree.spec
    /\ \A a \in Assets : /\ tree.record[a].push <= tree.push
                         /\ OfOneRevision(tree.record[a], a, trees)

FoundHolds(w) ==
    stage[w] \in {"committing", "indexing"} =>
        found[w] = [export |-> export[w], hash |-> pin[w].bytes[export[w]],
                    spec |-> pin[w].spec[Asset(w)], passed |-> found[w].passed,
                    push |-> pin[w].push]

WorkerInv ==
    /\ WorkerTypeOK
    /\ Len(pushed) = branch.push + 1
    /\ Held(branch, pushed) /\ Held(copy, pushed)
    /\ \A w \in Workers : Held(pin[w], pushed) /\ FoundHolds(w)

-----------------------------------------------------------------------------
LEMMA TreeParts ==
    ASSUME NEW tree \in Trees
    PROVE  /\ tree = [bytes |-> tree.bytes, spec |-> tree.spec, record |-> tree.record,
                      push |-> tree.push]
           /\ tree.bytes \in [Exports -> Contents] /\ tree.spec \in [Assets -> Specs]
           /\ tree.record \in [Assets -> Records \cup {NoRecord}] /\ tree.push \in 0..MaxPushes
           /\ tree.push \in Nat
           /\ \A a \in Assets : tree.record[a].push \in Nat
<1>1. MaxPushes \in Nat
  BY WorkerAssumption
<1>2. \A r \in Records \cup {NoRecord} : r.push \in Nat
  BY <1>1 DEF Records, NoRecord
<1> QED
  BY <1>1, <1>2 DEF Trees

\* What a push adds leaves every earlier tree as it was.
LEMMA HeldLater ==
    ASSUME NEW trees \in Seq(Trees), NEW last \in Trees, NEW tree, Held(tree, trees)
    PROVE  Held(tree, Append(trees, last))
<1> DEFINE more == Append(trees, last)
<1>1. /\ Len(more) = Len(trees) + 1
      /\ \A i \in 1..Len(trees) : more[i] = trees[i]
  OBVIOUS
<1> HIDE DEF more
<1>2. Len(trees) \in Nat /\ tree.push \in Nat /\ \A a \in Assets : tree.record[a].push \in Nat
  BY TreeParts DEF Held
<1>3. \A a \in Assets : tree.record[a].push + 1 \in 1..Len(trees)
  BY <1>2 DEF Held
<1>4. \A a \in Assets : OfOneRevision(tree.record[a], a, more)
  BY <1>1, <1>3 DEF Held, OfOneRevision
<1>5. tree.push + 1 \in 1..Len(more) /\ more[tree.push + 1] = trees[tree.push + 1]
  BY <1>1, <1>2 DEF Held
<1>6. Held(tree, more)
  BY <1>4, <1>5 DEF Held
<1> QED
  BY <1>6 DEF more

LEMMA WorkerInitially == WorkerInit => WorkerInv
<1> SUFFICES ASSUME WorkerInit PROVE WorkerInv
  OBVIOUS
<1>1. /\ branch = First /\ copy = First /\ pushed = <<First>>
      /\ pin = [w \in Workers |-> First] /\ stage = [w \in Workers |-> "idle"]
  BY DEF WorkerInit
<1>2. First \in Trees /\ First.push = 0
  BY WorkerAssumption
<1>3. Held(First, <<First>>)
  <2>1. Len(<<First>>) = 1 /\ <<First>>[1] = First
    OBVIOUS
  <2> QED
    BY <1>2, <2>1, WorkerAssumption DEF Held
<1>4. WorkerTypeOK
  <2>1. \A a \in Assets : First.record[a].export \in Exports \cup {"none"}
    <3>1. \A r \in Records \cup {NoRecord} : r.export \in Exports \cup {"none"}
      BY DEF Records, NoRecord
    <3> QED
      BY <1>2, <3>1, TreeParts
  <2>2. pushed \in Seq(Trees)
    BY <1>1, <1>2
  <2>3. faults \in 0..MaxFaults /\ deaths \in 0..MaxDeaths
    BY WorkerAssumption DEF WorkerInit
  <2> QED
    BY <1>1, <1>2, <2>1, <2>2, <2>3 DEF WorkerInit, WorkerTypeOK, Stages
<1>5. Len(pushed) = branch.push + 1
  BY <1>1, <1>2
<1>6. \A w \in Workers : Held(pin[w], pushed) /\ FoundHolds(w)
  BY <1>1, <1>3 DEF FoundHolds
<1> QED
  BY <1>1, <1>3, <1>4, <1>5, <1>6 DEF WorkerInv

-----------------------------------------------------------------------------
LEMMA SameBranch ==
    ASSUME WorkerInv, branch' = branch
    PROVE  RecordsMoveForward
<1>1. \A a \in Assets : branch.record[a].push \in Nat
  BY TreeParts DEF WorkerInv, WorkerTypeOK
<1> QED
  BY <1>1 DEF RecordsMoveForward

\* A worker that is where it was, or is not about to commit.
LEMMA FoundStill ==
    ASSUME NEW x \in Workers, FoundHolds(x),
           \/ stage'[x] \notin {"committing", "indexing"}
           \/ /\ stage[x] \in {"committing", "indexing"}
              /\ pin'[x] = pin[x] /\ export'[x] = export[x] /\ found'[x] = found[x]
    PROVE  FoundHolds(x)'
BY DEF FoundHolds, Asset

LEMMA PassStep ==
    ASSUME WorkerInv, UNCHANGED <<branch, copy, pushed>>, WorkerTypeOK',
           \A x \in Workers : Held(pin'[x], pushed) /\ FoundHolds(x)'
    PROVE  WorkerInv' /\ RecordsMoveForward
<1>1. RecordsMoveForward
  BY SameBranch
<1>2. Held(branch', pushed') /\ Held(copy', pushed') /\ Len(pushed') = branch'.push + 1
  BY DEF WorkerInv
<1>3. \A x \in Workers : Held(pin'[x], pushed') /\ FoundHolds(x)'
  OBVIOUS
<1> QED
  BY <1>1, <1>2, <1>3 DEF WorkerInv

LEMMA BeginHolds ==
    ASSUME WorkerInv, NEW w \in Workers, Begin(w)
    PROVE  WorkerInv' /\ RecordsMoveForward
<1>1. /\ stage[w] = "idle" /\ stage' = [stage EXCEPT ![w] = "looking"]
      /\ pin' = [pin EXCEPT ![w] = copy] /\ todo' = [todo EXCEPT ![w] = Exports]
      /\ UNCHANGED <<branch, copy, pushed, export, found, rows, faults, deaths>>
  BY DEF Begin, Move
<1>2. WorkerTypeOK'
  BY <1>1 DEF WorkerInv, WorkerTypeOK, Stages
<1>3. \A x \in Workers : Held(pin'[x], pushed)
  BY <1>1 DEF WorkerInv, WorkerTypeOK
<1>4. ASSUME NEW x \in Workers
      PROVE  FoundHolds(x)'
  <2>1. CASE x = w
    BY <1>1, <2>1 DEF FoundHolds, WorkerInv, WorkerTypeOK
  <2>2. CASE x # w
    <3>1. stage'[x] = stage[x] /\ pin'[x] = pin[x]
      BY <1>1, <2>2 DEF WorkerInv, WorkerTypeOK
    <3> QED
      BY <1>1, <3>1, FoundStill DEF WorkerInv
  <2> QED
    BY <2>1, <2>2
<1> QED
  BY <1>1, <1>2, <1>3, <1>4, PassStep

\* A step of one worker after which it is not about to commit.
LEMMA QuietStep ==
    ASSUME WorkerInv, NEW w \in Workers, NEW to \in Stages \ {"committing", "indexing"},
           stage' = [stage EXCEPT ![w] = to],
           UNCHANGED <<branch, copy, pushed, pin, found>>,
           \A x \in Workers \ {w} : export'[x] = export[x],
           todo' \in [Workers -> SUBSET Exports], export' \in [Workers -> Exports],
           rows' \in [Assets -> Exports \cup {"none"}],
           faults' \in 0..MaxFaults, deaths' \in 0..MaxDeaths
    PROVE  WorkerInv' /\ RecordsMoveForward
<1>1. WorkerTypeOK'
  BY DEF WorkerInv, WorkerTypeOK
<1>2. \A x \in Workers : Held(pin'[x], pushed)
  BY DEF WorkerInv
<1>3. ASSUME NEW x \in Workers
      PROVE  FoundHolds(x)'
  <2>1. CASE x = w
    BY <2>1 DEF FoundHolds, WorkerInv, WorkerTypeOK
  <2>2. CASE x # w
    <3>1. stage'[x] = stage[x] /\ export'[x] = export[x]
      BY <2>2 DEF WorkerInv, WorkerTypeOK
    <3> QED
      BY <3>1, FoundStill DEF WorkerInv
  <2> QED
    BY <2>1, <2>2
<1> QED
  BY <1>1, <1>2, <1>3, PassStep

LEMMA TodoLess ==
    ASSUME WorkerInv, NEW w \in Workers, NEW e
    PROVE  [todo EXCEPT ![w] = @ \ {e}] \in [Workers -> SUBSET Exports]
BY DEF WorkerInv, WorkerTypeOK

LEMMA LookHolds ==
    ASSUME WorkerInv, NEW w \in Workers, NEW e \in Exports, Look(w, e)
    PROVE  WorkerInv' /\ RecordsMoveForward
<1>1. /\ stage' = [stage EXCEPT ![w] = "inspecting"]
      /\ export' = [export EXCEPT ![w] = e]
      /\ UNCHANGED <<branch, copy, pushed, pin, todo, found, rows, faults, deaths>>
  BY DEF Look, Move
<1>2. export' \in [Workers -> Exports] /\ \A x \in Workers \ {w} : export'[x] = export[x]
  BY <1>1 DEF WorkerInv, WorkerTypeOK
<1> QED
  BY <1>1, <1>2, QuietStep DEF WorkerInv, WorkerTypeOK, Stages

\* The export is left, with or without a record of it.
LEMMA DoneHolds ==
    ASSUME WorkerInv, NEW w \in Workers, NEW from, Done(w, from),
           UNCHANGED <<branch, copy, pushed, pin, export, found, deaths>>,
           rows' \in [Assets -> Exports \cup {"none"}], faults' \in 0..MaxFaults
    PROVE  WorkerInv' /\ RecordsMoveForward
<1>1. stage' = [stage EXCEPT ![w] = "looking"] /\ todo' \in [Workers -> SUBSET Exports]
  BY TodoLess DEF Done, Move
<1>2. export' \in [Workers -> Exports] /\ deaths' \in 0..MaxDeaths
  BY DEF WorkerInv, WorkerTypeOK
<1> QED
  BY <1>1, <1>2, QuietStep DEF Stages

LEMMA InspectHolds ==
    ASSUME WorkerInv, NEW w \in Workers, Inspect(w)
    PROVE  WorkerInv' /\ RecordsMoveForward
<1>1. UNCHANGED <<branch, copy, pushed, pin, export, rows, faults, deaths>>
  BY DEF Inspect
<1>2. CASE Done(w, "inspecting") /\ UNCHANGED found
  BY <1>1, <1>2, DoneHolds DEF WorkerInv, WorkerTypeOK
<1>3. CASE /\ Move(w, "inspecting", "committing")
           /\ found' = [found EXCEPT ![w] = RecordOf(w)]
           /\ UNCHANGED todo
  <2>1. stage' = [stage EXCEPT ![w] = "committing"]
    BY <1>3 DEF Move
  <2>2. RecordOf(w) \in Records
    <3>1. pin[w] \in Trees /\ export[w] \in Exports /\ Asset(w) \in Assets
      BY WorkerAssumption DEF WorkerInv, WorkerTypeOK, Asset
    <3>2. Verdict(w) \in BOOLEAN
      BY DEF Verdict
    <3>3. /\ pin[w].bytes[export[w]] \in Contents /\ pin[w].spec[Asset(w)] \in Specs
          /\ pin[w].push \in 0..MaxPushes
      BY <3>1, TreeParts
    <3> QED
      BY <3>1, <3>2, <3>3 DEF RecordOf, Records
  <2>3. WorkerTypeOK'
    BY <1>1, <1>3, <2>1, <2>2 DEF WorkerInv, WorkerTypeOK, Stages
  <2>4. ASSUME NEW x \in Workers
        PROVE  FoundHolds(x)'
    <3>1. CASE x = w
      <4>1. found'[w] = RecordOf(w)
        BY <1>3 DEF WorkerInv, WorkerTypeOK
      <4> QED
        BY <1>1, <3>1, <4>1 DEF FoundHolds, RecordOf, Asset
    <3>2. CASE x # w
      <4>1. stage'[x] = stage[x] /\ found'[x] = found[x]
        BY <1>3, <2>1, <3>2 DEF WorkerInv, WorkerTypeOK
      <4> QED
        BY <1>1, <4>1, FoundStill DEF WorkerInv
    <3> QED
      BY <3>1, <3>2
  <2>5. \A x \in Workers : Held(pin'[x], pushed)
    BY <1>1 DEF WorkerInv
  <2> QED
    BY <1>1, <2>3, <2>4, <2>5, PassStep
<1> QED
  BY <1>2, <1>3 DEF Inspect

LEMMA IndexHolds ==
    ASSUME WorkerInv, NEW w \in Workers, Index(w)
    PROVE  WorkerInv' /\ RecordsMoveForward
<1>1. Done(w, "indexing") /\ rows' = [rows EXCEPT ![Asset(w)] = found[w].export]
      /\ UNCHANGED <<branch, copy, pushed, pin, export, found, faults, deaths>>
  BY DEF Index
<1>2. \A r \in Records \cup {NoRecord} : r.export \in Exports \cup {"none"}
  BY DEF Records, NoRecord
<1>3. rows' \in [Assets -> Exports \cup {"none"}]
  BY <1>1, <1>2 DEF WorkerInv, WorkerTypeOK
<1> QED
  BY <1>1, <1>3, DoneHolds DEF WorkerInv, WorkerTypeOK

LEMMA OtherPassSteps ==
    ASSUME WorkerInv, NEW w \in Workers,
           Skip(w) \/ Conflict(w) \/ Unavailable(w) \/ End(w) \/ Die(w)
    PROVE  WorkerInv' /\ RecordsMoveForward
<1>1. CASE Skip(w)
  BY <1>1, DoneHolds DEF Skip, WorkerInv, WorkerTypeOK
<1>2. CASE Conflict(w)
  BY <1>2, DoneHolds DEF Conflict, WorkerInv, WorkerTypeOK
<1>3. CASE Unavailable(w)
  <2>1. faults' \in 0..MaxFaults
    BY <1>3, WorkerAssumption DEF Unavailable, WorkerInv, WorkerTypeOK
  <2> QED
    BY <1>3, <2>1, DoneHolds DEF Unavailable, WorkerInv, WorkerTypeOK
<1>4. CASE End(w)
  BY <1>4, QuietStep DEF End, Move, WorkerInv, WorkerTypeOK, Stages
<1>5. CASE Die(w)
  <2>1. deaths' \in 0..MaxDeaths
    BY <1>5, WorkerAssumption DEF Die, WorkerInv, WorkerTypeOK
  <2> QED
    BY <1>5, <2>1, QuietStep DEF Die, Move, WorkerInv, WorkerTypeOK, Stages
<1> QED
  BY <1>1, <1>2, <1>3, <1>4, <1>5

-----------------------------------------------------------------------------
\* The working copy is brought to the branch, by a fetch or by a rejected push.
LEMMA CopyFollows ==
    ASSUME WorkerInv, copy' = branch,
           UNCHANGED <<branch, pushed, pass, rows, faults, deaths>>
    PROVE  WorkerInv' /\ RecordsMoveForward
<1>1. UNCHANGED <<stage, pin, todo, export, found>>
  BY DEF pass
<1>2. WorkerTypeOK'
  BY <1>1 DEF WorkerInv, WorkerTypeOK
<1>3. RecordsMoveForward
  BY SameBranch
<1>4. /\ Held(branch', pushed') /\ Held(copy', pushed')
      /\ Len(pushed') = branch'.push + 1
  BY DEF WorkerInv
<1>5. \A x \in Workers : Held(pin'[x], pushed') /\ FoundHolds(x)'
  BY <1>1 DEF WorkerInv, FoundHolds, Asset
<1> QED
  BY <1>2, <1>3, <1>4, <1>5 DEF WorkerInv

\* What is committed is of the pinned revision; and the record it replaces, which
\* is the one the pinned revision held, is of none that is later.
LEMMA CommitHolds ==
    ASSUME WorkerInv, NEW w \in Workers, Commit(w)
    PROVE  WorkerInv' /\ RecordsMoveForward
<1> DEFINE a == Asset(w)
<1>1. /\ stage[w] = "committing" /\ stage' = [stage EXCEPT ![w] = "indexing"]
      /\ copy.record[a] = pin[w].record[a] /\ copy = branch
      /\ branch' = [branch EXCEPT !.record[a] = found[w]] /\ copy' = branch'
      /\ UNCHANGED <<pushed, pin, todo, export, found, rows, faults, deaths>>
  BY DEF Commit, Move, BasedOn
<1>2. /\ export[w] \in Exports /\ a \in Assets /\ pin[w] \in Trees /\ branch \in Trees
      /\ found[w] \in Records \cup {NoRecord}
  BY WorkerAssumption DEF WorkerInv, WorkerTypeOK, Asset
<1>3. /\ found[w].export = export[w] /\ found[w].hash = pin[w].bytes[export[w]]
      /\ found[w].spec = pin[w].spec[a] /\ found[w].push = pin[w].push
  <2>1. FoundHolds(w)
    BY DEF WorkerInv
  <2> QED
    BY <1>1, <2>1 DEF FoundHolds
<1> HIDE DEF a
<1>4. /\ branch'.bytes = branch.bytes /\ branch'.spec = branch.spec
      /\ branch'.push = branch.push
      /\ branch'.record = [branch.record EXCEPT ![a] = found[w]]
      /\ branch' \in Trees
  <2>1. /\ branch = [bytes |-> branch.bytes, spec |-> branch.spec, record |-> branch.record,
                     push |-> branch.push]
        /\ branch.record \in [Assets -> Records \cup {NoRecord}]
    BY <1>2, TreeParts
  <2>2. branch' = [bytes |-> branch.bytes, spec |-> branch.spec,
                   record |-> [branch.record EXCEPT ![a] = found[w]], push |-> branch.push]
    BY <1>1, <2>1
  <2>3. [branch.record EXCEPT ![a] = found[w]] \in [Assets -> Records \cup {NoRecord}]
    BY <1>2, <2>1
  <2>4. /\ branch.bytes \in [Exports -> Contents] /\ branch.spec \in [Assets -> Specs]
        /\ branch.push \in 0..MaxPushes
    BY <1>2, TreeParts
  <2> QED
    BY <2>2, <2>3, <2>4 DEF Trees
<1>5. pin[w].push \in Nat /\ branch.push \in Nat /\ \A b \in Assets : branch.record[b].push \in Nat
  BY <1>2, TreeParts
<1>6. Held(pin[w], pushed) /\ Held(branch, pushed)
  BY DEF WorkerInv
<1>7. Len(pushed) = branch.push + 1
  BY DEF WorkerInv
<1>8. OfOneRevision(found[w], a, pushed) /\ found[w].push <= branch.push
  BY <1>2, <1>3, <1>5, <1>6, <1>7 DEF OfOneRevision, Held
<1>9. branch.record \in [Assets -> Records \cup {NoRecord}]
  BY <1>2, TreeParts
<1>10. Held(branch', pushed')
  <2>1. ASSUME NEW b \in Assets
        PROVE  /\ branch'.record[b].push <= branch'.push
               /\ OfOneRevision(branch'.record[b], b, pushed')
    BY <1>1, <1>2, <1>4, <1>6, <1>8, <1>9 DEF Held
  <2> QED
    BY <1>1, <1>4, <1>6, <2>1 DEF Held
<1>11. RecordsMoveForward
  <2>1. branch.record[a].push <= found[w].push
    BY <1>1, <1>2, <1>3, <1>6 DEF Held
  <2> QED
    BY <1>2, <1>4, <1>5, <1>9, <2>1 DEF RecordsMoveForward
<1>12. WorkerTypeOK'
  BY <1>1, <1>4 DEF WorkerInv, WorkerTypeOK, Stages
<1>13. ASSUME NEW x \in Workers
       PROVE  FoundHolds(x)'
  <2>1. stage'[x] \in {"committing", "indexing"} => stage[x] \in {"committing", "indexing"}
    BY <1>1 DEF WorkerInv, WorkerTypeOK
  <2> QED
    BY <1>1, <2>1, FoundStill DEF WorkerInv
<1>14. \A x \in Workers : Held(pin'[x], pushed')
  BY <1>1 DEF WorkerInv
<1> QED
  BY <1>1, <1>4, <1>7, <1>10, <1>11, <1>12, <1>13, <1>14 DEF WorkerInv

LEMMA PushHolds ==
    ASSUME WorkerInv, NEW tree \in Trees, tree.record = branch.record, Push(tree)
    PROVE  WorkerInv' /\ RecordsMoveForward
<1>1. /\ branch.push < MaxPushes /\ branch' = [tree EXCEPT !.push = branch.push + 1]
      /\ pushed' = Append(pushed, branch')
      /\ UNCHANGED <<copy, stage, pin, todo, export, found, rows, faults, deaths>>
  BY DEF Push, pass
<1>2. /\ branch \in Trees /\ pushed \in Seq(Trees) /\ Len(pushed) = branch.push + 1
      /\ branch.push \in Nat /\ MaxPushes \in Nat
      /\ branch.record \in [Assets -> Records \cup {NoRecord}]
      /\ \A a \in Assets : branch.record[a].push \in Nat
  BY TreeParts, WorkerAssumption DEF WorkerInv, WorkerTypeOK
<1>3. branch' = [bytes |-> tree.bytes, spec |-> tree.spec, record |-> tree.record,
                 push |-> branch.push + 1]
  BY <1>1, TreeParts
<1>4. branch' \in Trees
  <2>1. branch.push + 1 \in 0..MaxPushes
    BY <1>1, <1>2
  <2>2. /\ tree.bytes \in [Exports -> Contents] /\ tree.spec \in [Assets -> Specs]
        /\ tree.record \in [Assets -> Records \cup {NoRecord}]
    BY TreeParts
  <2> QED
    BY <1>3, <2>1, <2>2 DEF Trees
<1>5. /\ branch'.push = branch.push + 1 /\ branch'.record = branch.record
  BY <1>3
<1>6. /\ pushed' \in Seq(Trees) /\ Len(pushed') = Len(pushed) + 1
      /\ pushed'[Len(pushed')] = branch'
      /\ \A i \in 1..Len(pushed) : pushed'[i] = pushed[i]
  BY <1>1, <1>2, <1>4
<1>7. /\ Held(copy, pushed') /\ \A x \in Workers : Held(pin[x], pushed')
      /\ Held(branch, pushed')
  BY <1>1, <1>2, <1>4, HeldLater DEF WorkerInv
<1>8. Held(branch', pushed')
  <2>1. \A a \in Assets : /\ branch'.record[a].push <= branch'.push
                          /\ OfOneRevision(branch'.record[a], a, pushed')
    BY <1>2, <1>5, <1>7 DEF Held
  <2>2. branch'.push + 1 = Len(pushed') /\ branch'.push + 1 \in 1..Len(pushed')
    BY <1>2, <1>5, <1>6
  <2>3. pushed'[branch'.push + 1] = branch'
    BY <1>6, <2>2
  <2> QED
    BY <1>4, <2>1, <2>2, <2>3 DEF Held
<1>9. WorkerTypeOK'
  BY <1>1, <1>4, <1>6 DEF WorkerInv, WorkerTypeOK
<1>10. \A x \in Workers : FoundHolds(x)'
  BY <1>1 DEF WorkerInv, FoundHolds, Asset
<1>11. RecordsMoveForward
  BY <1>2, <1>5 DEF RecordsMoveForward
<1>12. Len(pushed') = branch'.push + 1 /\ Held(copy', pushed') /\ \A x \in Workers : Held(pin'[x], pushed')
  BY <1>1, <1>2, <1>5, <1>6, <1>7
<1> QED
  BY <1>8, <1>9, <1>10, <1>11, <1>12 DEF WorkerInv

LEMMA PushedTrees ==
    ASSUME NEW tree \in Trees
    PROVE  /\ \A e \in Exports, content \in Contents :
                 /\ [tree EXCEPT !.bytes[e] = content] \in Trees
                 /\ [tree EXCEPT !.bytes[e] = content].record = tree.record
           /\ \A a \in Assets, said \in Specs :
                 /\ [tree EXCEPT !.spec[a] = said] \in Trees
                 /\ [tree EXCEPT !.spec[a] = said].record = tree.record
<1>1. ASSUME NEW e \in Exports, NEW content \in Contents
      PROVE  /\ [tree EXCEPT !.bytes[e] = content] \in Trees
             /\ [tree EXCEPT !.bytes[e] = content].record = tree.record
  <2>1. [tree EXCEPT !.bytes[e] = content] =
            [bytes |-> [tree.bytes EXCEPT ![e] = content], spec |-> tree.spec,
             record |-> tree.record, push |-> tree.push]
    BY TreeParts
  <2>2. [tree.bytes EXCEPT ![e] = content] \in [Exports -> Contents]
    BY TreeParts
  <2> QED
    BY <2>1, <2>2, TreeParts DEF Trees
<1>2. ASSUME NEW a \in Assets, NEW said \in Specs
      PROVE  /\ [tree EXCEPT !.spec[a] = said] \in Trees
             /\ [tree EXCEPT !.spec[a] = said].record = tree.record
  <2>1. [tree EXCEPT !.spec[a] = said] =
            [bytes |-> tree.bytes, spec |-> [tree.spec EXCEPT ![a] = said],
             record |-> tree.record, push |-> tree.push]
    BY TreeParts
  <2>2. [tree.spec EXCEPT ![a] = said] \in [Assets -> Specs]
    BY TreeParts
  <2> QED
    BY <2>1, <2>2, TreeParts DEF Trees
<1> QED
  BY <1>1, <1>2

LEMMA WorkerStep == WorkerInv /\ [WorkerNext]_vars => WorkerInv' /\ (RecordsMoveForward \/ UNCHANGED vars)
<1> SUFFICES ASSUME WorkerInv, [WorkerNext]_vars
             PROVE  WorkerInv' /\ (RecordsMoveForward \/ UNCHANGED vars)
  OBVIOUS
<1>1. ASSUME NEW w \in Workers, Advance(w) \/ Unavailable(w) \/ Die(w)
      PROVE  WorkerInv' /\ RecordsMoveForward
  <2>1. CASE Begin(w)
    BY <2>1, BeginHolds
  <2>2. CASE Inspect(w)
    BY <2>2, InspectHolds
  <2>3. CASE Rejected(w)
    BY <2>3, CopyFollows DEF Rejected
  <2>4. CASE Commit(w)
    BY <2>4, CommitHolds
  <2>5. CASE Index(w)
    BY <2>5, IndexHolds
  <2>6. CASE \E e \in Exports : Look(w, e)
    BY <2>6, LookHolds
  <2>7. CASE Skip(w) \/ Conflict(w) \/ Unavailable(w) \/ End(w) \/ Die(w)
    BY <2>7, OtherPassSteps
  <2> QED
    BY <1>1, <2>1, <2>2, <2>3, <2>4, <2>5, <2>6, <2>7 DEF Advance
<1>2. CASE Sync
  BY <1>2, CopyFollows DEF Sync
<1>3. ASSUME NEW e \in Exports, NEW content \in Contents, PushExport(e, content)
      PROVE  WorkerInv' /\ RecordsMoveForward
  <2>1. branch \in Trees /\ Push([branch EXCEPT !.bytes[e] = content])
    BY <1>3 DEF PushExport, WorkerInv, WorkerTypeOK
  <2> QED
    BY <2>1, PushedTrees, PushHolds
<1>4. ASSUME NEW a \in Assets, NEW said \in Specs, PushSpec(a, said)
      PROVE  WorkerInv' /\ RecordsMoveForward
  <2>1. branch \in Trees /\ Push([branch EXCEPT !.spec[a] = said])
    BY <1>4 DEF PushSpec, WorkerInv, WorkerTypeOK
  <2> QED
    BY <2>1, PushedTrees, PushHolds
<1>5. CASE UNCHANGED vars
  <2>1. UNCHANGED <<branch, copy, pushed, stage, pin, todo, export, found, rows, faults, deaths>>
    BY <1>5 DEF vars, pass
  <2> QED
    BY <1>5, <2>1 DEF WorkerInv, WorkerTypeOK, FoundHolds, Asset
<1> QED
  BY <1>1, <1>2, <1>3, <1>4, <1>5 DEF WorkerNext

\* For any passes under way at once, wherever they are interrupted and whatever is
\* pushed and fetched under them: a committed record's digests are those of one
\* revision, and no record is replaced by one of an older revision
\* (validate_export.py, validate_changed_exports).
THEOREM RecordsStayTrue == WorkerSpec => RecordsHold
<1>1. WorkerInit => WorkerInv
  BY WorkerInitially
<1>2. WorkerInv /\ [WorkerNext]_vars => WorkerInv' /\ (RecordsMoveForward \/ UNCHANGED vars)
  BY WorkerStep
<1>3. WorkerInv => WorkerTypeOK /\ RecordsNameOneRevision
  BY DEF WorkerInv, RecordsNameOneRevision, Held
<1> QED
  BY <1>1, <1>2, <1>3, PTL DEF WorkerSpec, RecordsHold

-----------------------------------------------------------------------------
(* What an export is judged by. *)

\* What each rule about clips finds.
ClipAbsent(spec, facts) == \E q \in spec.clips : \A c \in facts.clips : c.name # q.name

RateDiffers(spec, facts) ==
    \E q \in spec.clips : \E c \in facts.clips :
        c.name = q.name /\ \E x \in q.rate : \E y \in c.rate : x # y

TooShort(spec, facts) ==
    \E q \in spec.clips : \E c \in facts.clips :
        c.name = q.name /\ \E x \in q.seconds : \E y \in c.seconds : y < x

RootStays(spec, facts) ==
    \E q \in spec.clips : \E c \in facts.clips :
        c.name = q.name /\ TRUE \in q.root /\ FALSE \in c.root

LoopOpens(spec, facts) ==
    \E q \in spec.clips : \E c \in facts.clips :
        c.name = q.name /\ TRUE \in q.loop /\ FALSE \in c.closed

\* Unanimated, rule by rule.
LEMMA AnimatedParts ==
    ASSUME NEW spec, NEW facts, NEW r
    PROVE  r \in Unanimated(spec, facts) <=>
              \/ r = "clip_missing" /\ ClipAbsent(spec, facts)
              \/ r = "frame_rate" /\ RateDiffers(spec, facts)
              \/ r = "duration" /\ TooShort(spec, facts)
              \/ r = "root_motion" /\ RootStays(spec, facts)
              \/ r = "loop" /\ LoopOpens(spec, facts)
  BY Zenon DEF Unanimated, ClipAbsent, RateDiffers, TooShort, RootStays, LoopOpens

\* A clip as a format shows it.
Seen(c, in) ==
    [name |-> c.name,
     rate |-> IF "clip rate" \in Available(in) THEN c.rate ELSE {},
     seconds |-> IF "clip duration" \in Available(in) THEN c.seconds ELSE {},
     root |-> IF "clip root" \in Available(in) THEN c.root ELSE {},
     closed |-> IF "clip loop" \in Available(in) THEN c.closed ELSE {}]

\* FactsOf, fact by fact.
LEMMA FactsParts ==
    ASSUME NEW m, NEW in
    PROVE  /\ FactsOf(m, in).format = in
           /\ FactsOf(m, in).triangles = m.triangles
           /\ FactsOf(m, in).levels = m.levels
           /\ FactsOf(m, in).misnamed = m.misnamed
           /\ "transforms" \in Available(in) => FactsOf(m, in).applied = {m.applied}
           /\ "scale" \in Available(in) => FactsOf(m, in).scale = {m.scale}
           /\ "empties" \in Available(in) => FactsOf(m, in).empties = m.empties
           /\ "bones" \in Available(in) => FactsOf(m, in).bones = {m.bones}
           /\ "skinning" \in Available(in) => FactsOf(m, in).skinned = {m.skinned}
           /\ "clips" \in Available(in) => FactsOf(m, in).clips = {Seen(c, in) : c \in m.clips}
<1> DEFINE known == {Seen(c, in) : c \in IF "clips" \in Available(in) THEN m.clips ELSE {}}
<1>1. FactsOf(m, in) =
        [format |-> in, triangles |-> m.triangles, levels |-> m.levels, misnamed |-> m.misnamed,
         applied |-> IF "transforms" \in Available(in) THEN {m.applied} ELSE {},
         scale |-> IF "scale" \in Available(in) THEN {m.scale} ELSE {},
         empties |-> IF "empties" \in Available(in) THEN m.empties ELSE {},
         bones |-> IF "bones" \in Available(in) THEN {m.bones} ELSE {},
         skinned |-> IF "skinning" \in Available(in) THEN {m.skinned} ELSE {},
         clips |-> known]
  BY Zenon DEF FactsOf, Seen
<1>2. "clips" \in Available(in) => known = {Seen(c, in) : c \in m.clips}
  OBVIOUS
<1> HIDE DEF known
<1> QED
  BY <1>1, <1>2
\* A fact two formats yield is the same in both.
LEMMA FactsAlike ==
    ASSUME NEW m, NEW one, NEW two, NEW f, NEW g,
           f = FactsOf(m, one), g = FactsOf(m, two)
    PROVE  /\ f.triangles = g.triangles /\ f.levels = g.levels /\ f.misnamed = g.misnamed
           /\ "scale" \in Available(one) \cap Available(two) => f.scale = g.scale
           /\ "transforms" \in Available(one) \cap Available(two) => f.applied = g.applied
           /\ "empties" \in Available(one) \cap Available(two) => f.empties = g.empties
           /\ "bones" \in Available(one) \cap Available(two) => f.bones = g.bones
           /\ "skinning" \in Available(one) \cap Available(two) => f.skinned = g.skinned
<1>1. /\ f.triangles = m.triangles /\ f.levels = m.levels /\ f.misnamed = m.misnamed
      /\ "scale" \in Available(one) => f.scale = {m.scale}
      /\ "transforms" \in Available(one) => f.applied = {m.applied}
      /\ "empties" \in Available(one) => f.empties = m.empties
      /\ "bones" \in Available(one) => f.bones = {m.bones}
      /\ "skinning" \in Available(one) => f.skinned = {m.skinned}
  BY FactsParts, Zenon
<1>2. /\ g.triangles = m.triangles /\ g.levels = m.levels /\ g.misnamed = m.misnamed
      /\ "scale" \in Available(two) => g.scale = {m.scale}
      /\ "transforms" \in Available(two) => g.applied = {m.applied}
      /\ "empties" \in Available(two) => g.empties = m.empties
      /\ "bones" \in Available(two) => g.bones = {m.bones}
      /\ "skinning" \in Available(two) => g.skinned = {m.skinned}
  BY FactsParts, Zenon
<1> QED
  BY <1>1, <1>2

\* A clip found wrong is found wrong again where nothing asked for it is lost and what
\* is read of it is the same.
LEMMA UnanimatedStays ==
    ASSUME NEW spec, NEW more, NEW f, NEW g, NEW r, r \in Unanimated(spec, f),
           \A q \in spec.clips : \E p \in more.clips :
              /\ p.name = q.name
              /\ q.rate \subseteq p.rate /\ q.seconds \subseteq p.seconds
              /\ p.root = q.root /\ p.loop = q.loop,
           \A c \in f.clips : \E d \in g.clips :
              /\ d.name = c.name
              /\ r = "frame_rate" => d.rate = c.rate
              /\ r = "duration" => d.seconds = c.seconds
              /\ r = "root_motion" => d.root = c.root
              /\ r = "loop" => d.closed = c.closed,
           \A d \in g.clips : \E c \in f.clips : c.name = d.name
    PROVE  r \in Unanimated(more, g)
<1>1. CASE r = "clip_missing"
  <2>1. ClipAbsent(spec, f)
    BY <1>1, AnimatedParts
  <2>2. ClipAbsent(more, g)
    BY <2>1 DEF ClipAbsent
  <2> QED
    BY <1>1, <2>2, AnimatedParts
<1>2. CASE r = "frame_rate"
  <2>1. RateDiffers(spec, f)
    BY <1>2, AnimatedParts
  <2>2. RateDiffers(more, g)
    BY <1>2, <2>1 DEF RateDiffers
  <2> QED
    BY <1>2, <2>2, AnimatedParts
<1>3. CASE r = "duration"
  <2>1. TooShort(spec, f)
    BY <1>3, AnimatedParts
  <2>2. TooShort(more, g)
    BY <1>3, <2>1 DEF TooShort
  <2> QED
    BY <1>3, <2>2, AnimatedParts
<1>4. CASE r = "root_motion"
  <2>1. RootStays(spec, f)
    BY <1>4, AnimatedParts
  <2>2. RootStays(more, g)
    <3>1. PICK q \in spec.clips, c \in f.clips :
              c.name = q.name /\ TRUE \in q.root /\ FALSE \in c.root
      BY <2>1, Zenon DEF RootStays
    <3>2. PICK p \in more.clips : p.name = q.name /\ p.root = q.root
      BY Zenon
    <3>3. PICK d \in g.clips : d.name = c.name /\ d.root = c.root
      BY <1>4, Zenon
    <3>4. d.name = p.name /\ TRUE \in p.root /\ FALSE \in d.root
      BY <3>1, <3>2, <3>3, Zenon
    <3> QED
      BY <3>4, Zenon DEF RootStays
  <2> QED
    BY <1>4, <2>2, AnimatedParts
<1>5. CASE r = "loop"
  <2>1. LoopOpens(spec, f)
    BY <1>5, AnimatedParts
  <2>2. LoopOpens(more, g)
    <3>1. PICK q \in spec.clips, c \in f.clips :
              c.name = q.name /\ TRUE \in q.loop /\ FALSE \in c.closed
      BY <2>1, Zenon DEF LoopOpens
    <3>2. PICK p \in more.clips : p.name = q.name /\ p.loop = q.loop
      BY Zenon
    <3>3. PICK d \in g.clips : d.name = c.name /\ d.closed = c.closed
      BY <1>5, Zenon
    <3>4. d.name = p.name /\ TRUE \in p.loop /\ FALSE \in d.closed
      BY <3>1, <3>2, <3>3, Zenon
    <3> QED
      BY <3>4, Zenon DEF LoopOpens
  <2> QED
    BY <1>5, <2>2, AnimatedParts
<1> QED
  BY <1>1, <1>2, <1>3, <1>4, <1>5, AnimatedParts

\* Consumes, where a rule reads what a format may not yield.
LEMMA ConsumedFacts ==
    /\ "scale" \in Consumes["unit_scale"] /\ "transforms" \in Consumes["transforms"]
    /\ "empties" \in Consumes["socket"]
    /\ "bones" \in Consumes["bone_budget"] /\ "skinning" \in Consumes["not_skinned"]
    /\ \A r \in {"clip_missing", "frame_rate", "duration", "root_motion", "loop"} :
          "clips" \in Consumes[r]
    /\ "clip rate" \in Consumes["frame_rate"] /\ "clip duration" \in Consumes["duration"]
    /\ "clip root" \in Consumes["root_motion"] /\ "clip loop" \in Consumes["loop"]
<1>1. /\ Consumes["unit_scale"] = {"scale"}
      /\ Consumes["transforms"] = {"transforms", "objects"}
      /\ Consumes["socket"] = {"empties"}
      /\ Consumes["bone_budget"] = {"bones"} /\ Consumes["not_skinned"] = {"skinning"}
  BY DEF Consumes
<1>2. /\ Consumes["clip_missing"] = {"clips"}
      /\ Consumes["frame_rate"] = {"clips", "clip rate"}
      /\ Consumes["duration"] = {"clips", "clip duration"}
      /\ Consumes["root_motion"] = {"clips", "clip root"}
      /\ Consumes["loop"] = {"clips", "clip loop"}
  BY DEF Consumes
<1> QED
  BY <1>1, <1>2

\* A rule broken in one format is broken in every other that yields its facts.
LEMMA BrokenInAnyFormat ==
    ASSUME NEW spec, NEW m, NEW one, NEW two, NEW r \in Rules \ {"unsuitable"},
           Consumes[r] \subseteq Available(one), Consumes[r] \subseteq Available(two),
           r \in Broken(spec, FactsOf(m, one))
    PROVE  r \in Broken(spec, FactsOf(m, two))
<1> DEFINE f == FactsOf(m, one)
           g == FactsOf(m, two)
<1>1. /\ f.triangles = g.triangles /\ f.levels = g.levels /\ f.misnamed = g.misnamed
      /\ "scale" \in Consumes[r] => f.scale = g.scale
      /\ "transforms" \in Consumes[r] => f.applied = g.applied
      /\ "empties" \in Consumes[r] => f.empties = g.empties
      /\ "bones" \in Consumes[r] => f.bones = g.bones
      /\ "skinning" \in Consumes[r] => f.skinned = g.skinned
  <2> HIDE DEF f, g
  <2>1. f = FactsOf(m, one) /\ g = FactsOf(m, two)
    BY DEF f, g
  <2> QED
    BY <2>1, FactsAlike
<1>2. \A k \in Consumes[r] : k \in Available(one) /\ k \in Available(two)
  OBVIOUS
<1>3. CASE r \in OverBudget(spec, f)
  <2> HIDE DEF f, g
  <2>1. r \in OverBudget(spec, g)
    BY <1>1, <1>3 DEF OverBudget, ClaimedLevel
  <2> QED
    BY <2>1 DEF Broken, g
<1>4. CASE r \in Unconventional(spec, f)
  <2>1. r = "unit_scale" => f.scale = g.scale
    BY <1>1, ConsumedFacts
  <2>2. r = "transforms" => f.applied = g.applied
    BY <1>1, ConsumedFacts
  <2> HIDE DEF f, g
  <2>3. r \in Unconventional(spec, g)
    BY <1>1, <1>4, <2>1, <2>2 DEF Unconventional
  <2> QED
    BY <2>3 DEF Broken, g
<1>5. CASE r \in SocketMissing(spec, f)
  <2>1. r = "socket"
    BY <1>5 DEF SocketMissing
  <2>2. f.empties = g.empties
    BY <1>1, <2>1, ConsumedFacts
  <2> HIDE DEF f, g
  <2>3. r \in SocketMissing(spec, g)
    BY <1>5, <2>2 DEF SocketMissing
  <2> QED
    BY <2>3 DEF Broken, g
<1>6. CASE r \in Misrigged(spec, f)
  <2>1. r = "bone_budget" => f.bones = g.bones
    BY <1>1, ConsumedFacts
  <2>2. r = "not_skinned" => f.skinned = g.skinned
    BY <1>1, ConsumedFacts
  <2> HIDE DEF f, g
  <2>3. r \in Misrigged(spec, g)
    BY <1>6, <2>1, <2>2 DEF Misrigged
  <2> QED
    BY <2>3 DEF Broken, g
<1>7. CASE r \in Unanimated(spec, f)
  <2>1. r \in {"clip_missing", "frame_rate", "duration", "root_motion", "loop"}
    BY <1>7, AnimatedParts
  <2>2. "clips" \in Consumes[r]
    BY <2>1, ConsumedFacts
  <2>3. /\ f.clips = {Seen(c, one) : c \in m.clips}
        /\ g.clips = {Seen(c, two) : c \in m.clips}
    BY <1>2, <2>2, FactsParts
  <2>4. ASSUME NEW c \in f.clips
        PROVE  \E d \in g.clips :
                  /\ d.name = c.name
                  /\ r = "frame_rate" => d.rate = c.rate
                  /\ r = "duration" => d.seconds = c.seconds
                  /\ r = "root_motion" => d.root = c.root
                  /\ r = "loop" => d.closed = c.closed
    <3>1. PICK x \in m.clips : c = Seen(x, one)
      BY <2>3
    <3>2. /\ r = "frame_rate" => Seen(x, two).rate = Seen(x, one).rate
          /\ r = "duration" => Seen(x, two).seconds = Seen(x, one).seconds
          /\ r = "root_motion" => Seen(x, two).root = Seen(x, one).root
          /\ r = "loop" => Seen(x, two).closed = Seen(x, one).closed
      BY <1>2, ConsumedFacts DEF Seen
    <3>3. Seen(x, two).name = Seen(x, one).name
      BY DEF Seen
    <3> QED
      BY <2>3, <3>1, <3>2, <3>3
  <2>5. ASSUME NEW d \in g.clips PROVE \E c \in f.clips : c.name = d.name
    <3>1. PICK x \in m.clips : d = Seen(x, two)
      BY <2>3
    <3>2. Seen(x, two).name = Seen(x, one).name
      BY DEF Seen
    <3> QED
      BY <2>3, <3>1, <3>2
  <2> HIDE DEF f, g
  <2>6. r \in Unanimated(spec, g)
    BY <1>7, <2>4, <2>5, UnanimatedStays
  <2> QED
    BY <2>6 DEF Broken, g
<1>8. CASE r \in Unsuited(spec, f)
  BY <1>8 DEF Unsuited
<1> QED
  BY <1>3, <1>4, <1>5, <1>6, <1>7, <1>8 DEF Broken, f

\* The fields of a report that the properties compare.
LEMMA ReportParts ==
    ASSUME NEW spec, NEW facts
    PROVE  /\ Report(spec, facts).violated = Broken(spec, facts) \ NotEvaluated(facts)
           /\ Report(spec, facts).passedRules =
                Rules \ (Report(spec, facts).violated \cup NotEvaluated(facts))
  BY DEF Report

\* OtherFormatsAgree, of any two formats.
LEMMA FormatsAgree == OtherFormatsAgree
<1> SUFFICES ASSUME UNCHANGED <<own, defaults, mesh>>,
                    NEW r, r \in Judged(own, defaults, mesh, format).violated \ {"unsuitable"},
                    r \in Judged(own, defaults, mesh, format').passedRules
             PROVE  FALSE
  BY Zenon DEF OtherFormatsAgree
<1> DEFINE spec == Merge(own, defaults)
           f == FactsOf(mesh, format)
           g == FactsOf(mesh, format')
<1>1. Judged(own, defaults, mesh, format) = Report(spec, f)
      /\ Judged(own, defaults, mesh, format') = Report(spec, g)
  BY DEF Judged
<1>2. f.format = format /\ g.format = format'
  BY FactsParts
<1>3. r \in Broken(spec, f) /\ r \notin NotEvaluated(f)
      /\ r \in Rules /\ r \notin Broken(spec, g) \ NotEvaluated(g) /\ r \notin NotEvaluated(g)
  BY <1>1, ReportParts
<1>4. Consumes[r] \subseteq Available(format) /\ Consumes[r] \subseteq Available(format')
  BY <1>2, <1>3 DEF NotEvaluated
<1> QED
  BY <1>3, <1>4, BrokenInAnyFormat
-----------------------------------------------------------------------------
\* A section the file does not have declares nothing.
VerdictsInv ==
    /\ own = [f \in DOMAIN Blank |-> own[f]]
    /\ \A f \in DOMAIN own : SectionOf(f) \notin sections => own[f] = {}

\* What a state's clip is required to be.
Required(s, pattern, rate) ==
    [state |-> s.name, name |-> CHOOSE n \in ClipName(s, pattern) : TRUE,
     rate |-> IF s.rate # {} THEN s.rate ELSE rate, root |-> s.root, loop |-> s.loop,
     seconds |-> {n \div r : n \in s.frames, r \in IF s.rate # {} THEN s.rate ELSE rate}]

\* The states that ask for a clip.
Animated(states, pattern) == {x \in states : ClipName(x, pattern) # {}}

\* Merge, field by field.
LEMMA MergeParts ==
    ASSUME NEW asset, NEW project
    PROVE  /\ Merge(asset, project).budget = Pick(asset, project, "budget")
           /\ Merge(asset, project).lods = Pick(asset, project, "lods")
           /\ Merge(asset, project).scale = Pick(asset, project, "scale")
           /\ Merge(asset, project).naming = Pick(asset, project, "naming")
           /\ Merge(asset, project).bones = Pick(asset, project, "bones")
           /\ Merge(asset, project).sockets = asset["sockets"]
           /\ Merge(asset, project).rigged <=> asset["rig"] # {}
           /\ Merge(asset, project).skinned <=>
                asset["rig"] # {} /\ FALSE \notin Pick(asset, project, "skinned")
           /\ Merge(asset, project).clips =
                {Required(s, Pick(asset, project, "pattern"), Pick(asset, project, "rate")) :
                    s \in Animated(asset["states"], Pick(asset, project, "pattern"))}
<1> DEFINE clips == RequiredClips(asset, Pattern(asset, project), Pick(asset, project, "rate"))
           skins == asset["rig"] # {} /\ FALSE \notin Pick(asset, project, "skinned")
           rig == asset["rig"] # {}
<1>1. Merge(asset, project) =
        [budget |-> Pick(asset, project, "budget"), lods |-> Pick(asset, project, "lods"),
         scale |-> Pick(asset, project, "scale"), naming |-> Pick(asset, project, "naming"),
         bones |-> Pick(asset, project, "bones"), rigged |-> rig, skinned |-> skins,
         sockets |-> asset["sockets"], clips |-> clips]
  BY Zenon DEF Merge, Bones
<1>2. clips = {Required(s, Pick(asset, project, "pattern"), Pick(asset, project, "rate")) :
                  s \in Animated(asset["states"], Pick(asset, project, "pattern"))}
  <2> DEFINE p == Pick(asset, project, "pattern")
             t == Pick(asset, project, "rate")
  <2>1. clips = RequiredClips(asset, p, t)
    BY DEF Pattern
  <2> HIDE DEF clips, p, t
  <2>2. RequiredClips(asset, p, t) = {Required(s, p, t) : s \in Animated(asset["states"], p)}
    BY DEF RequiredClips, Required, Animated
  <2> QED
    BY <2>1, <2>2 DEF p, t
<1>3. skins \in BOOLEAN /\ rig \in BOOLEAN
  OBVIOUS
<1> HIDE DEF clips, skins, rig
<1>4. /\ Merge(asset, project).budget = Pick(asset, project, "budget")
      /\ Merge(asset, project).lods = Pick(asset, project, "lods")
      /\ Merge(asset, project).scale = Pick(asset, project, "scale")
      /\ Merge(asset, project).naming = Pick(asset, project, "naming")
      /\ Merge(asset, project).bones = Pick(asset, project, "bones")
      /\ Merge(asset, project).sockets = asset["sockets"]
      /\ Merge(asset, project).rigged = rig
      /\ Merge(asset, project).skinned = skins
      /\ Merge(asset, project).clips = clips
  BY <1>1
<1> QED
  BY <1>2, <1>4, Zenon DEF rig, skins

\* LintedStatesAreChecked, in every state.
LEMMA LintedStates == LintedStatesAreChecked
<1> SUFFICES ASSUME "state_constrains_nothing" \notin Lint,
                    NEW s \in own["states"], s.animated
             PROVE  \E r \in Merge(own, defaults).clips : r.state = s.name
  BY Zenon DEF LintedStatesAreChecked
<1>1. s.clip # {} \/ Pick(own, defaults, "pattern") # {}
  BY Zenon DEF Lint
<1>2. ClipName(s, Pick(own, defaults, "pattern")) # {}
  BY <1>1 DEF ClipName
<1>3. Required(s, Pick(own, defaults, "pattern"), Pick(own, defaults, "rate")).state = s.name
  BY DEF Required
<1>4. Required(s, Pick(own, defaults, "pattern"), Pick(own, defaults, "rate"))
        \in Merge(own, defaults).clips
  BY <1>2, MergeParts, Zenon DEF Animated
<1> QED
  BY <1>3, <1>4
\* VerdictsAreExplained: what the difference compares, with what it is not held to, is
\* every field of an asset.
LEMMA Explained ==
    ASSUME VerdictsInv, VerdictsInv'
    PROVE  VerdictsAreExplained
<1> SUFFICES ASSUME UNCHANGED <<defaults, mesh, format>>,
                    sections \subseteq sections',
                    own["rig"] = own'["rig"], own["skinned"] = own'["skinned"],
                    \A s \in own["states"], t \in own'["states"] : s.name = t.name => s = t,
                    Changed(FieldsOf(own, sections), FieldsOf(own', sections')) = {}
             PROVE  own = own'
  BY Zenon DEF VerdictsAreExplained
<1> DEFINE before == FieldsOf(own, sections)
           after == FieldsOf(own', sections')
<1>1. \A f \in DOMAIN after : after[f] = IF f \in DOMAIN before THEN before[f] ELSE {}
  BY DEF Changed
<1>2. /\ DOMAIN before = (IF "constraints" \in sections THEN Compared ELSE {})
                             \cup (IF "design" \in sections THEN Designed ELSE {})
      /\ DOMAIN after = (IF "constraints" \in sections' THEN Compared ELSE {})
                             \cup (IF "design" \in sections' THEN Designed ELSE {})
      /\ \A f \in DOMAIN before :
            before[f] = IF f = "states" THEN {s.name : s \in own["states"]} ELSE own[f]
      /\ \A f \in DOMAIN after :
            after[f] = IF f = "states" THEN {s.name : s \in own'["states"]} ELSE own'[f]
  BY DEF FieldsOf
<1> HIDE DEF before, after
<1>3. DOMAIN own = Constrained \cup Designed /\ DOMAIN own' = Constrained \cup Designed
  BY DEF VerdictsInv, Blank
<1>4. /\ "constraints" \notin sections => \A f \in Constrained : own[f] = {}
      /\ "design" \notin sections => \A f \in Designed : own[f] = {}
      /\ "constraints" \notin sections' => \A f \in Constrained : own'[f] = {}
      /\ "design" \notin sections' => \A f \in Designed : own'[f] = {}
  <2>1. Constrained \cap Designed = {}
    BY DEF Constrained, Designed
  <2> QED
    BY <1>3, <2>1 DEF VerdictsInv, SectionOf
<1>5. ASSUME NEW f \in Compared PROVE own[f] = own'[f]
  <2>1. f \in Constrained /\ f \notin Designed /\ f # "states"
    BY DEF Compared, Constrained, Designed
  <2>2. CASE "constraints" \in sections'
    <3>1. f \in DOMAIN after /\ after[f] = own'[f]
      BY <1>2, <2>1, <2>2
    <3>2. CASE "constraints" \in sections
      BY <1>1, <1>2, <2>1, <3>1, <3>2
    <3>3. CASE "constraints" \notin sections
      <4>1. f \notin DOMAIN before
        BY <1>2, <2>1, <3>3
      <4> QED
        BY <1>1, <1>4, <2>1, <3>1, <3>3, <4>1
    <3> QED
      BY <3>2, <3>3
  <2>3. CASE "constraints" \notin sections'
    BY <1>4, <2>1, <2>3
  <2> QED
    BY <2>2, <2>3
<1>6. own["sockets"] = own'["sockets"] /\ own["states"] = own'["states"]
  <2>1. /\ "sockets" \in Designed /\ "states" \in Designed
        /\ "sockets" \notin Compared /\ "states" \notin Compared
    BY DEF Designed, Compared
  <2>2. CASE "design" \notin sections'
    BY <1>4, <2>1, <2>2
  <2>3. CASE "design" \in sections'
    <3>1. /\ "sockets" \in DOMAIN after /\ after["sockets"] = own'["sockets"]
          /\ "states" \in DOMAIN after /\ after["states"] = {s.name : s \in own'["states"]}
      BY <1>2, <2>1, <2>3
    <3>2. CASE "design" \notin sections
      <4>1. "sockets" \notin DOMAIN before /\ "states" \notin DOMAIN before
        BY <1>2, <2>1, <3>2
      <4>2. own'["sockets"] = {} /\ {s.name : s \in own'["states"]} = {}
        BY <1>1, <3>1, <4>1
      <4>3. own'["states"] = {}
        BY <4>2
      <4> QED
        BY <1>4, <2>1, <3>2, <4>2, <4>3
    <3>3. CASE "design" \in sections
      <4>1. /\ "sockets" \in DOMAIN before /\ before["sockets"] = own["sockets"]
            /\ "states" \in DOMAIN before /\ before["states"] = {s.name : s \in own["states"]}
        BY <1>2, <2>1, <3>3
      <4>2. /\ own'["sockets"] = own["sockets"]
            /\ {s.name : s \in own'["states"]} = {s.name : s \in own["states"]}
        BY <1>1, <3>1, <4>1
      <4>3. own["states"] \subseteq own'["states"] /\ own'["states"] \subseteq own["states"]
        BY <4>2
      <4> QED
        BY <4>2, <4>3
    <3> QED
      BY <3>2, <3>3
  <2> QED
    BY <2>2, <2>3
<1>7. Constrained \cup Designed = Compared \cup {"rig", "skinned", "sockets", "states"}
  BY DEF Constrained, Designed, Compared
<1>8. \A f \in DOMAIN own : own[f] = own'[f]
  BY <1>3, <1>5, <1>6, <1>7
<1> QED
  BY <1>3, <1>8 DEF VerdictsInv
\* More is asked of an export: what was asked still is.
AsksMore(spec, more) ==
    /\ spec.budget \subseteq more.budget /\ spec.lods \subseteq more.lods
    /\ spec.scale \subseteq more.scale /\ spec.naming \subseteq more.naming
    /\ spec.bones \subseteq more.bones /\ spec.sockets \subseteq more.sockets
    /\ spec.rigged => more.rigged
    /\ spec.skinned => more.skinned
    /\ \A q \in spec.clips : \E p \in more.clips :
          /\ p.name = q.name
          /\ q.rate \subseteq p.rate /\ q.seconds \subseteq p.seconds
          /\ p.root = q.root /\ p.loop = q.loop

\* An export that breaks a rule of a specification breaks it of one that asks more.
LEMMA MoreBreaks ==
    ASSUME NEW spec, NEW more, NEW facts, AsksMore(spec, more)
    PROVE  Broken(spec, facts) \subseteq Broken(more, facts)
<1>1. OverBudget(spec, facts) \subseteq OverBudget(more, facts)
  BY DEF AsksMore, OverBudget, ClaimedLevel
<1>2. Unconventional(spec, facts) \subseteq Unconventional(more, facts)
  BY DEF AsksMore, Unconventional
<1>3. SocketMissing(spec, facts) \subseteq SocketMissing(more, facts)
  BY DEF AsksMore, SocketMissing
<1>4. Unanimated(spec, facts) \subseteq Unanimated(more, facts)
  BY UnanimatedStays DEF AsksMore
<1>5. Misrigged(spec, facts) \subseteq Misrigged(more, facts)
  BY DEF AsksMore, Misrigged
<1>6. Unsuited(spec, facts) \subseteq Unsuited(more, facts)
  BY DEF AsksMore, Unsuited
<1> QED
  BY <1>1, <1>2, <1>3, <1>4, <1>5, <1>6 DEF Broken

\* What a clip is required to be, once a convention or a rate is declared.
LEMMA RequiredGrows ==
    ASSUME NEW s, NEW pattern, NEW wider, NEW rate, NEW faster,
           ClipName(s, pattern) # {},
           pattern = wider \/ pattern = {}, rate = faster \/ rate = {}
    PROVE  /\ ClipName(s, wider) # {}
           /\ Required(s, wider, faster).name = Required(s, pattern, rate).name
           /\ Required(s, pattern, rate).rate \subseteq Required(s, wider, faster).rate
           /\ Required(s, pattern, rate).seconds \subseteq Required(s, wider, faster).seconds
           /\ Required(s, wider, faster).root = Required(s, pattern, rate).root
           /\ Required(s, wider, faster).loop = Required(s, pattern, rate).loop
<1>1. ClipName(s, wider) = ClipName(s, pattern)
  BY DEF ClipName
<1>2. CASE rate = faster \/ s.rate # {}
  BY <1>1, <1>2 DEF Required
<1>3. CASE rate = {} /\ s.rate = {}
  BY <1>1, <1>3 DEF Required
<1> QED
  BY <1>1, <1>2, <1>3

\* DeclaringOnlyAdds: what nothing declared is asked for, and nothing else is lost.
LEMMA DeclaringAdds ==
    ASSUME VerdictsInv, VerdictsInv'
    PROVE  DeclaringOnlyAdds
<1> SUFFICES ASSUME UNCHANGED <<defaults, mesh, format>>,
                    \A f \in DOMAIN own :
                       \/ own[f] = own'[f]
                       \/ f \in Designed /\ own[f] \subseteq own'[f]
                       \/ f \in Constrained \ {"skinned"} /\ own[f] = {} /\ defaults[f] = {}
             PROVE  Judged(own, defaults, mesh, format).violated
                        \subseteq Judged(own', defaults, mesh, format).violated
  BY Zenon DEF DeclaringOnlyAdds
<1> DEFINE P(f) == Pick(own, defaults, f)
           Q(f) == Pick(own', defaults, f)
           spec == Merge(own, defaults)
           more == Merge(own', defaults)
           facts == FactsOf(mesh, format)
<1>1. DOMAIN own = Constrained \cup Designed
  BY DEF VerdictsInv, Blank
<1>2. ASSUME NEW f \in Constrained PROVE P(f) = Q(f) \/ (f # "skinned" /\ P(f) = {})
  <2>1. f \notin Designed
    BY DEF Constrained, Designed
  <2> QED
    BY <1>1, <2>1 DEF Pick
<1>3. own["states"] \subseteq own'["states"] /\ own["sockets"] \subseteq own'["sockets"]
  <2>1. "states" \in Designed \ Constrained /\ "sockets" \in Designed \ Constrained
    BY DEF Constrained, Designed
  <2> QED
    BY <1>1, <2>1
<1>4. own["rig"] # {} => own'["rig"] # {}
  <2>1. "rig" \in Constrained \ Designed
    BY DEF Constrained, Designed
  <2> QED
    BY <1>1, <2>1
<1>5. /\ P("budget") \subseteq Q("budget") /\ P("lods") \subseteq Q("lods")
      /\ P("scale") \subseteq Q("scale") /\ P("naming") \subseteq Q("naming")
      /\ P("bones") \subseteq Q("bones") /\ P("skinned") = Q("skinned")
      /\ P("pattern") = Q("pattern") \/ P("pattern") = {}
      /\ P("rate") = Q("rate") \/ P("rate") = {}
  <2>1. {"budget", "lods", "scale", "naming", "bones", "skinned", "pattern", "rate"}
            \subseteq Constrained
    BY DEF Constrained
  <2> HIDE DEF P, Q
  <2> QED
    BY <1>2, <2>1
<1>6. ASSUME NEW q \in spec.clips
      PROVE  \E p \in more.clips :
                /\ p.name = q.name
                /\ q.rate \subseteq p.rate /\ q.seconds \subseteq p.seconds
                /\ p.root = q.root /\ p.loop = q.loop
  <2>1. spec.clips = {Required(s, P("pattern"), P("rate")) :
                          s \in Animated(own["states"], P("pattern"))}
    BY MergeParts, Zenon
  <2>2. more.clips = {Required(s, Q("pattern"), Q("rate")) :
                          s \in Animated(own'["states"], Q("pattern"))}
    BY MergeParts, Zenon
  <2> HIDE DEF spec, more, P, Q
  <2>3. PICK s \in Animated(own["states"], P("pattern")) :
            q = Required(s, P("pattern"), P("rate"))
    BY <1>6, <2>1
  <2>4. s \in own["states"] /\ ClipName(s, P("pattern")) # {}
    BY DEF Animated
  <2> DEFINE p == Required(s, Q("pattern"), Q("rate"))
  <2>5. /\ ClipName(s, Q("pattern")) # {}
        /\ p.name = q.name
        /\ q.rate \subseteq p.rate /\ q.seconds \subseteq p.seconds
        /\ p.root = q.root /\ p.loop = q.loop
    BY <1>5, <2>3, <2>4, RequiredGrows
  <2>6. p \in more.clips
    BY <1>3, <2>2, <2>4, <2>5 DEF Animated
  <2> QED
    BY <2>5, <2>6
<1>7. AsksMore(spec, more)
  <2>1. /\ spec.budget = P("budget") /\ spec.lods = P("lods") /\ spec.scale = P("scale")
        /\ spec.naming = P("naming") /\ spec.bones = P("bones")
        /\ spec.sockets = own["sockets"]
        /\ spec.rigged <=> own["rig"] # {}
        /\ spec.skinned <=> own["rig"] # {} /\ FALSE \notin P("skinned")
    BY MergeParts, Zenon
  <2>2. /\ more.budget = Q("budget") /\ more.lods = Q("lods") /\ more.scale = Q("scale")
        /\ more.naming = Q("naming") /\ more.bones = Q("bones")
        /\ more.sockets = own'["sockets"]
        /\ more.rigged <=> own'["rig"] # {}
        /\ more.skinned <=> own'["rig"] # {} /\ FALSE \notin Q("skinned")
    BY MergeParts, Zenon
  <2> HIDE DEF spec, more, P, Q
  <2>3. (spec.rigged => more.rigged) /\ (spec.skinned => more.skinned)
    BY <1>4, <1>5, <2>1, <2>2, Zenon
  <2>4. /\ spec.budget \subseteq more.budget /\ spec.lods \subseteq more.lods
        /\ spec.scale \subseteq more.scale /\ spec.naming \subseteq more.naming
        /\ spec.bones \subseteq more.bones /\ spec.sockets \subseteq more.sockets
    BY <1>3, <1>5, <2>1, <2>2
  <2> QED
    BY <1>6, <2>3, <2>4, Zenon DEF AsksMore
<1>8. Broken(spec, facts) \subseteq Broken(more, facts)
  <2> HIDE DEF spec, more, facts
  <2> QED
    BY <1>7, MoreBreaks
<1>9. /\ Judged(own, defaults, mesh, format) = Report(spec, facts)
      /\ Judged(own', defaults, mesh, format) = Report(more, facts)
  BY DEF Judged
<1> HIDE DEF spec, more, facts
<1> QED
  BY <1>8, <1>9, ReportParts

-----------------------------------------------------------------------------
\* A field is declared with its section, and dropped with it.
LEMMA VerdictsInvStays ==
    ASSUME VerdictsInv, [VerdictsNext]_verdictVars
    PROVE  VerdictsInv'
<1>1. ASSUME NEW field, Declare(field) PROVE VerdictsInv'
  <2>1. PICK value : own' = [own EXCEPT ![field] = value]
    BY <1>1 DEF Declare
  <2>2. sections' = sections \cup {SectionOf(field)}
    BY <1>1 DEF Declare
  <2>3. ASSUME NEW f \in DOMAIN own', SectionOf(f) \notin sections' PROVE own'[f] = {}
    <3>1. f # field /\ f \in DOMAIN own
      BY <2>1, <2>2, <2>3
    <3>2. own[f] = {}
      BY <2>2, <2>3, <3>1 DEF VerdictsInv
    <3> QED
      BY <2>1, <3>1, <3>2
  <2>4. own' = [f \in DOMAIN Blank |-> own'[f]]
    BY <2>1 DEF VerdictsInv
  <2> QED
    BY <2>3, <2>4 DEF VerdictsInv
<1>2. ASSUME NEW section, Drop(section) PROVE VerdictsInv'
  BY <1>2 DEF VerdictsInv, Drop
<1>3. ASSUME UNCHANGED <<own, sections>> PROVE VerdictsInv'
  BY <1>3 DEF VerdictsInv
<1> QED
  BY <1>1, <1>2, <1>3 DEF VerdictsNext, Configure, Export, verdictVars

\* VerdictsFollowDeclarations, for any constraints, defaults, meshes and severities:
\* an export's verdict follows from what is declared, in any format and at any
\* revision.
THEOREM VerdictsFollow == VerdictsSpec => VerdictsFollowDeclarations
<1>1. VerdictsInit => VerdictsInv
  BY DEF VerdictsInit, VerdictsInv, Blank
<1>2. VerdictsInv /\ [VerdictsNext]_verdictVars => VerdictsInv'
  BY VerdictsInvStays
<1>3. VerdictsInv /\ VerdictsInv' => OtherFormatsAgree /\ DeclaringOnlyAdds /\ VerdictsAreExplained
  BY FormatsAgree, DeclaringAdds, Explained
<1>4. LintedStatesAreChecked
  BY LintedStates
<1> QED
  BY <1>1, <1>2, <1>3, <1>4, PTL DEF VerdictsSpec, VerdictsFollowDeclarations

=============================================================================
