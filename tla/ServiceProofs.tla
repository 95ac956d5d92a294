---------------------------- MODULE ServiceProofs ----------------------------
(***************************************************************************)
(* Theorems about what a service process does of its own accord: the sweep *)
(* of its runner, for any number of projects and commits, the migrations   *)
(* it applies when it starts, for any number of files, and what the server *)
(* of an agent records, for any agents, people, allowance and window.      *)
(***************************************************************************)
EXTENDS Runner, Migrations, AgentWrites, FiniteSetTheorems, TLAPS

-----------------------------------------------------------------------------
(* The runner: a queue of distinct entries. *)

LEMMA QueueGrows ==
    ASSUME NEW S, NEW s \in Seq(S), IsInjective(s), NEW e \in S, e \notin ToSet(s)
    PROVE  /\ Append(s, e) \in Seq(S)
           /\ IsInjective(Append(s, e))
           /\ ToSet(Append(s, e)) = ToSet(s) \cup {e}
<1>1. /\ Append(s, e) \in Seq(S) /\ Len(Append(s, e)) = Len(s) + 1
      /\ \A i \in 1..Len(s) : Append(s, e)[i] = s[i]
      /\ Append(s, e)[Len(s) + 1] = e
      /\ DOMAIN Append(s, e) = 1..(Len(s) + 1) /\ DOMAIN s = 1..Len(s) /\ Len(s) \in Nat
  OBVIOUS
<1> QED
  BY <1>1 DEF IsInjective, ToSet

LEMMA QueueShrinks ==
    ASSUME NEW S, NEW s \in Seq(S), IsInjective(s), s # <<>>
    PROVE  /\ Tail(s) \in Seq(S) /\ Head(s) \in S
           /\ IsInjective(Tail(s))
           /\ Head(s) \in ToSet(s) /\ ToSet(Tail(s)) = ToSet(s) \ {Head(s)}
<1>1. /\ Tail(s) \in Seq(S) /\ Len(Tail(s)) = Len(s) - 1
      /\ \A i \in 1..(Len(s) - 1) : Tail(s)[i] = s[i + 1]
      /\ Head(s) = s[1] /\ Len(s) \in Nat \ {0}
      /\ DOMAIN Tail(s) = 1..(Len(s) - 1) /\ DOMAIN s = 1..Len(s)
  OBVIOUS
<1>2. IsInjective(Tail(s))
  BY <1>1 DEF IsInjective
<1>3. \A i \in 2..Len(s) : s[i] # s[1] /\ s[i] = Tail(s)[i - 1]
  BY <1>1 DEF IsInjective
<1>4. ToSet(Tail(s)) = ToSet(s) \ {Head(s)}
  <2>1. ASSUME NEW e \in ToSet(Tail(s)) PROVE e \in ToSet(s) /\ e # Head(s)
    <3>1. PICK i \in 1..(Len(s) - 1) : e = s[i + 1]
      BY <1>1, <2>1 DEF ToSet
    <3>2. i + 1 \in 2..Len(s)
      BY <1>1, <3>1
    <3> QED
      BY <1>1, <1>3, <3>1, <3>2 DEF ToSet
  <2>2. ASSUME NEW e \in ToSet(s), e # Head(s) PROVE e \in ToSet(Tail(s))
    <3>1. PICK i \in 1..Len(s) : e = s[i]
      BY <1>1, <2>2 DEF ToSet
    <3>2. i \in 2..Len(s)
      BY <1>1, <2>2, <3>1
    <3>3. i - 1 \in DOMAIN Tail(s) /\ e = Tail(s)[i - 1]
      BY <1>1, <1>3, <3>1, <3>2
    <3> QED
      BY <3>3 DEF ToSet
  <2> QED
    BY <2>1, <2>2
<1>5. Head(s) \in ToSet(s) /\ Head(s) \in S
  BY <1>1 DEF ToSet
<1> QED
  BY <1>1, <1>2, <1>4, <1>5

-----------------------------------------------------------------------------
Places == [at : {"waiting", "syncing", "fetched", "putting"}, project : Projects \cup {Resting}]
Threads == [at : {"waiting", "took", "running"}, project : Projects \cup {Resting}]

Typed ==
    /\ branch \in [Projects -> Nat] /\ fetched \in [Projects -> Nat]
    /\ begun \in [Projects -> Nat]
    /\ \A p \in Projects : begun[p] <= fetched[p] /\ fetched[p] <= branch[p]
    /\ hooks \subseteq Projects /\ pending \subseteq Projects /\ done \in BOOLEAN
    /\ queue \in Seq(Projects)
    /\ driver \in [Drivers -> Places] /\ thread \in Threads
    /\ \A d \in Drivers : driver[d].at # "waiting" => driver[d].project \in Projects
    /\ thread.at # "waiting" => thread.project \in Projects

\* A pending name is in one place: in the queue, on its way there, or just taken.
Queued ==
    /\ IsInjective(queue) /\ ToSet(queue) \subseteq pending
    /\ \A d \in Drivers : driver[d].at = "putting" =>
           /\ driver[d].project \in pending \ ToSet(queue)
           /\ \A e \in Drivers \ {d} :
                  driver[e].at = "putting" => driver[e].project # driver[d].project
           /\ thread.at = "took" => thread.project # driver[d].project
    /\ thread.at = "took" => thread.project \in pending \ ToSet(queue)

Owed ==
    /\ done => pending = {}
    /\ \A p \in Projects :
           \/ begun[p] = fetched[p]
           \/ \E d \in Drivers : driver[d] = At("fetched", p)
           \/ p \in pending

SweptInv == Typed /\ Queued /\ Owed

LEMMA SweptInit == RunnerInit => SweptInv
<1> SUFFICES ASSUME RunnerInit PROVE SweptInv
  OBVIOUS
<1>1. Waiting \in Places /\ Waiting \in Threads /\ Waiting.at = "waiting"
  BY DEF Waiting, At, Places, Threads
<1>2. Typed
  BY <1>1 DEF RunnerInit, Typed
<1>3. Queued
  BY <1>1 DEF RunnerInit, Queued, IsInjective, ToSet
<1>4. Owed
  BY DEF RunnerInit, Owed
<1> QED
  BY <1>2, <1>3, <1>4 DEF SweptInv

\* A driver moves.
LEMMA DriverMoves ==
    ASSUME driver \in [Drivers -> Places], NEW d \in Drivers, NEW place \in Places,
           \A e \in Drivers : driver[e].at # "waiting" => driver[e].project \in Projects,
           place.at # "waiting" => place.project \in Projects,
           driver' = [driver EXCEPT ![d] = place]
    PROVE  /\ driver' \in [Drivers -> Places]
           /\ \A e \in Drivers : driver'[e].at # "waiting" => driver'[e].project \in Projects
  OBVIOUS

\* A driver leaves or takes a place where it owes no entry to the queue.
LEMMA DriverKeeps ==
    ASSUME Typed, Queued, NEW d \in Drivers, NEW place, place.at # "putting",
           driver' = [driver EXCEPT ![d] = place], UNCHANGED <<queue, pending, thread>>
    PROVE  Queued'
<1>1. driver'[d] = place /\ \A e \in Drivers \ {d} : driver'[e] = driver[e]
  BY DEF Typed
<1> QED
  BY <1>1 DEF Queued

LEMMA TypedStep == ASSUME SweptInv, [RunnerNext]_runnerVars PROVE Typed'
<1> USE DEF SweptInv
<1>0. /\ Waiting \in Places /\ Waiting \in Threads /\ Waiting.at = "waiting"
      /\ Drivers = {"ticker", "loop"}
      /\ \A at, p : At(at, p).at = at /\ At(at, p).project = p
      /\ \A p \in Projects : /\ At("syncing", p) \in Places /\ At("fetched", p) \in Places
                             /\ At("putting", p) \in Places /\ At("took", p) \in Threads
                             /\ At("running", p) \in Threads
  BY DEF Waiting, At, Places, Threads, Drivers
<1>1. ASSUME NEW p \in Projects, CommitLands(p) PROVE Typed'
  BY <1>1 DEF CommitLands, Typed
<1>2. ASSUME NEW p \in Projects, HookLost(p) PROVE Typed'
  BY <1>2 DEF HookLost, Typed
<1>3. ASSUME NEW p \in Projects, Notified(p) \/ Tick(p) PROVE Typed'
  <2>1. PICK d \in Drivers : driver' = [driver EXCEPT ![d] = At("syncing", p)]
    BY <1>3 DEF Notified, Tick, Drivers
  <2>2. /\ driver' \in [Drivers -> Places]
        /\ \A e \in Drivers : driver'[e].at # "waiting" => driver'[e].project \in Projects
    BY <1>0, <2>1, DriverMoves DEF Typed
  <2>3. /\ hooks' \subseteq Projects
        /\ UNCHANGED <<branch, fetched, begun, queue, pending, done, thread>>
    BY <1>3 DEF Notified, Tick, Typed
  <2> QED
    BY <2>2, <2>3 DEF Typed
<1>4. ASSUME NEW d \in Drivers, Unobtained(d) \/ Put(d) PROVE Typed'
  <2>1. /\ driver' \in [Drivers -> Places]
        /\ \A e \in Drivers : driver'[e].at # "waiting" => driver'[e].project \in Projects
    BY <1>0, <1>4, DriverMoves DEF Unobtained, Put, Typed
  <2>2. queue' \in Seq(Projects)
    <3>1. driver[d].project \in Projects
      BY <1>4 DEF Unobtained, Put, Typed
    <3>2. Append(queue, driver[d].project) \in Seq(Projects)
      BY <3>1 DEF Typed
    <3> QED
      BY <1>4, <3>2 DEF Unobtained, Put, Typed
  <2>3. UNCHANGED <<branch, fetched, begun, hooks, pending, done, thread>>
    BY <1>4 DEF Unobtained, Put
  <2> QED
    BY <2>1, <2>2, <2>3 DEF Typed
<1>5. ASSUME NEW d \in Drivers, Refreshed(d) PROVE Typed'
  <2> DEFINE p == driver[d].project
  <2>1. p \in Projects /\ driver' = [driver EXCEPT ![d] = At("fetched", p)]
    BY <1>5 DEF Refreshed, Typed
  <2>2. /\ driver' \in [Drivers -> Places]
        /\ \A e \in Drivers : driver'[e].at # "waiting" => driver'[e].project \in Projects
    BY <1>0, <2>1, DriverMoves DEF Typed
  <2>3. /\ fetched' \in {fetched, [fetched EXCEPT ![p] = branch[p]]}
        /\ UNCHANGED <<branch, begun, hooks, queue, pending, done, thread>>
    BY <1>5 DEF Refreshed
  <2>4. /\ fetched \in [Projects -> Nat] /\ branch \in [Projects -> Nat]
        /\ begun \in [Projects -> Nat]
        /\ \A q \in Projects : begun[q] <= fetched[q] /\ fetched[q] <= branch[q]
    BY DEF Typed
  <2>5. fetched' \in [Projects -> Nat]
    BY <2>1, <2>3, <2>4
  <2>6. ASSUME NEW q \in Projects PROVE begun[q] <= fetched'[q] /\ fetched'[q] <= branch[q]
    <3>1. fetched'[q] = fetched[q] \/ fetched'[q] = branch[q]
      BY <2>1, <2>3, <2>4
    <3>2. begun[q] \in Nat /\ fetched[q] \in Nat /\ branch[q] \in Nat
      BY <2>4
    <3> QED
      BY <2>4, <3>1, <3>2
  <2>7. /\ branch' = branch /\ begun' = begun /\ hooks' = hooks /\ queue' = queue
        /\ pending' = pending /\ done' = done /\ thread' = thread
    BY <2>3
  <2>8. /\ hooks \subseteq Projects /\ pending \subseteq Projects /\ done \in BOOLEAN
        /\ queue \in Seq(Projects) /\ thread \in Threads
        /\ (thread.at # "waiting" => thread.project \in Projects)
    BY DEF Typed
  <2> HIDE DEF p
  <2> QED
    BY <2>2, <2>4, <2>5, <2>6, <2>7, <2>8 DEF Typed
<1>6. ASSUME NEW d \in Drivers, Submit(d) PROVE Typed'
  <2>1. driver[d].project \in Projects
    BY <1>6 DEF Submit, Typed
  <2>2. /\ driver' \in [Drivers -> Places]
        /\ \A e \in Drivers : driver'[e].at # "waiting" => driver'[e].project \in Projects
    BY <1>0, <1>6, <2>1, DriverMoves DEF Submit, Typed
  <2>3. /\ pending' \subseteq Projects /\ done' \in BOOLEAN
        /\ UNCHANGED <<branch, fetched, begun, hooks, queue, thread>>
    BY <1>6, <2>1 DEF Submit, Typed
  <2> QED
    BY <2>2, <2>3 DEF Typed
<1>7. CASE Take
  BY <1>0, <1>7, QueueShrinks DEF Take, Typed, Queued
<1>8. CASE Started
  BY <1>0, <1>8 DEF Started, Dropped, Typed
<1>9. ASSUME NEW raised \in BOOLEAN, Finished(raised) PROVE Typed'
  BY <1>0, <1>9 DEF Finished, Dropped, Typed
<1>10. CASE UNCHANGED runnerVars
  BY <1>10 DEF runnerVars, Typed
<1> QED
  BY <1>1, <1>2, <1>3, <1>4, <1>5, <1>6, <1>7, <1>8, <1>9, <1>10 DEF RunnerNext

LEMMA QueuedStep == ASSUME SweptInv, [RunnerNext]_runnerVars PROVE Queued'
<1> USE DEF SweptInv
<1>0. /\ Waiting.at = "waiting" /\ Drivers = {"ticker", "loop"}
      /\ \A at, p : At(at, p).at = at /\ At(at, p).project = p
  BY DEF Waiting, At, Drivers
<1>1. CASE \E p \in Projects : CommitLands(p) \/ HookLost(p)
  BY <1>1 DEF CommitLands, HookLost, Queued
<1>3. ASSUME NEW p \in Projects, Notified(p) \/ Tick(p) PROVE Queued'
  <2>1. PICK d \in Drivers : driver' = [driver EXCEPT ![d] = At("syncing", p)]
    BY <1>3 DEF Notified, Tick, Drivers
  <2>2. UNCHANGED <<queue, pending, thread>> /\ At("syncing", p).at # "putting"
    BY <1>0, <1>3 DEF Notified, Tick
  <2> QED
    BY <2>1, <2>2, DriverKeeps
<1>4. ASSUME NEW d \in Drivers, Unobtained(d) \/ Refreshed(d) PROVE Queued'
  <2>1. /\ \/ driver' = [driver EXCEPT ![d] = Waiting]
           \/ driver' = [driver EXCEPT ![d] = At("fetched", driver[d].project)]
        /\ UNCHANGED <<queue, pending, thread>>
    BY <1>4 DEF Unobtained, Refreshed
  <2>2. Waiting.at # "putting" /\ At("fetched", driver[d].project).at # "putting"
    BY <1>0
  <2> QED
    BY <2>1, <2>2, DriverKeeps
<1>5. ASSUME NEW d \in Drivers, Put(d) PROVE Queued'
  <2> DEFINE p == driver[d].project
  <2>1. /\ queue' = Append(queue, p) /\ driver' = [driver EXCEPT ![d] = Waiting]
        /\ driver[d].at = "putting" /\ UNCHANGED <<pending, thread>>
    BY <1>5 DEF Put
  <2>2. p \in Projects /\ p \notin ToSet(queue) /\ p \in pending
    BY <2>1 DEF Queued, Typed
  <2>3. IsInjective(queue') /\ ToSet(queue') = ToSet(queue) \cup {p}
    BY <2>1, <2>2, QueueGrows DEF Queued, Typed
  <2> QED
    BY <1>0, <2>1, <2>2, <2>3 DEF Queued, Typed
<1>6. ASSUME NEW d \in Drivers, Submit(d) PROVE Queued'
  <2> DEFINE p == driver[d].project
  <2>1. CASE p \notin pending
    <3>1. /\ pending' = pending \cup {p} /\ UNCHANGED <<queue, thread>>
          /\ driver' = [driver EXCEPT ![d] = At("putting", p)]
      BY <1>6, <2>1 DEF Submit, Submitting
    <3>2. /\ driver'[d] = At("putting", p)
          /\ \A e \in Drivers \ {d} : driver'[e] = driver[e]
      BY <3>1 DEF Typed
    <3>3. \A e \in Drivers \ {d} : driver[e].at = "putting" => driver[e].project # p
      BY <2>1 DEF Queued
    <3>4. thread.at = "took" => thread.project # p
      BY <2>1 DEF Queued
    <3>5. p \notin ToSet(queue)
      BY <2>1 DEF Queued
    <3>6. driver'[d].at = "putting" /\ driver'[d].project = p /\ p \in pending'
      BY <1>0, <3>1, <3>2
    <3>7. /\ queue' = queue /\ thread' = thread /\ pending \subseteq pending'
          /\ IsInjective(queue) /\ ToSet(queue) \subseteq pending
          /\ (thread.at = "took" => thread.project \in pending \ ToSet(queue))
      BY <3>1 DEF Queued
    <3>8. ASSUME NEW e \in Drivers, driver'[e].at = "putting"
          PROVE  /\ driver'[e].project \in pending' \ ToSet(queue)
                 /\ \A g \in Drivers \ {e} :
                        driver'[g].at = "putting" => driver'[g].project # driver'[e].project
                 /\ thread.at = "took" => thread.project # driver'[e].project
      <4>1. CASE e = d
        BY <3>2, <3>3, <3>4, <3>5, <3>6, <4>1
      <4>2. CASE e # d
        <5>1. driver'[e] = driver[e] /\ driver[e].at = "putting" /\ driver[e].project # p
          BY <3>2, <3>3, <3>8, <4>2
        <5>2. /\ driver[e].project \in pending \ ToSet(queue)
              /\ \A g \in Drivers \ {e} :
                     driver[g].at = "putting" => driver[g].project # driver[e].project
              /\ thread.at = "took" => thread.project # driver[e].project
          BY <5>1 DEF Queued
        <5> HIDE DEF p
        <5> QED
          BY <3>2, <3>6, <3>7, <5>1, <5>2
      <4> QED
        BY <4>1, <4>2
    <3> HIDE DEF p
    <3> QED
      BY <3>7, <3>8 DEF Queued
  <2>2. CASE p \in pending
    <3>1. /\ UNCHANGED <<queue, pending, thread>>
          /\ driver' = [driver EXCEPT ![d] = Waiting]
      BY <1>6, <2>2 DEF Submit, Submitting
    <3> QED
      BY <1>0, <3>1, DriverKeeps
  <2> QED
    BY <2>1, <2>2
<1>7. CASE Take
  <2>1. /\ thread' = At("took", Head(queue)) /\ queue' = Tail(queue)
        /\ queue # <<>> /\ UNCHANGED <<pending, driver>>
    BY <1>7 DEF Take
  <2>2. /\ IsInjective(queue') /\ Head(queue) \in ToSet(queue)
        /\ ToSet(queue') = ToSet(queue) \ {Head(queue)}
    BY <2>1, QueueShrinks DEF Queued, Typed
  <2> QED
    BY <1>0, <2>1, <2>2 DEF Queued
<1>8. CASE Started
  BY <1>0, <1>8 DEF Started, Dropped, Queued, Typed
<1>9. ASSUME NEW raised \in BOOLEAN, Finished(raised) PROVE Queued'
  BY <1>0, <1>9 DEF Finished, Dropped, Queued
<1>10. CASE UNCHANGED runnerVars
  BY <1>10 DEF runnerVars, Queued
<1> QED
  BY <1>1, <1>3, <1>4, <1>5, <1>6, <1>7, <1>8, <1>9, <1>10 DEF RunnerNext

LEMMA OwedStep == ASSUME SweptInv, [RunnerNext]_runnerVars PROVE Owed'
<1> USE DEF SweptInv
<1>0. \A at, p : At(at, p).at = at /\ At(at, p).project = p
  BY DEF At
<1>1. CASE \E p \in Projects : CommitLands(p) \/ HookLost(p)
  BY <1>1 DEF CommitLands, HookLost, Owed
<1>3. ASSUME NEW p \in Projects, Notified(p) \/ Tick(p) PROVE Owed'
  <2>1. PICK d \in Drivers : driver[d].at = "waiting" /\ driver' = [driver EXCEPT ![d] = At("syncing", p)]
    BY <1>3 DEF Notified, Tick, Drivers
  <2>2. UNCHANGED <<fetched, begun, pending, done>>
    BY <1>3 DEF Notified, Tick
  <2> QED
    BY <1>0, <2>1, <2>2 DEF Owed, Typed
<1>4. ASSUME NEW d \in Drivers, Unobtained(d) \/ Put(d) PROVE Owed'
  BY <1>0, <1>4 DEF Unobtained, Put, Owed, Typed
<1>5. ASSUME NEW d \in Drivers, Refreshed(d) PROVE Owed'
  <2> DEFINE p == driver[d].project
  <2>1. /\ driver[d].at = "syncing" /\ driver' = [driver EXCEPT ![d] = At("fetched", p)]
        /\ fetched' \in {fetched, [fetched EXCEPT ![p] = branch[p]]}
        /\ UNCHANGED <<begun, pending, done>>
    BY <1>5 DEF Refreshed
  <2>2. driver'[d] = At("fetched", p) /\ \A e \in Drivers \ {d} : driver'[e] = driver[e]
    BY <2>1 DEF Typed
  <2>3. \A q \in Projects : q # p => fetched'[q] = fetched[q]
    BY <2>1 DEF Typed
  <2>4. \A q \in Projects : driver[d] # At("fetched", q)
    BY <1>0, <2>1
  <2>5. ASSUME NEW q \in Projects
        PROVE  \/ begun[q] = fetched'[q]
               \/ \E e \in Drivers : driver'[e] = At("fetched", q)
               \/ q \in pending
    <3>1. CASE q = p
      BY <2>2, <3>1
    <3>2. CASE q # p
      BY <2>2, <2>3, <2>4, <3>2 DEF Owed
    <3> QED
      BY <3>1, <3>2
  <2> HIDE DEF p
  <2> QED
    BY <2>1, <2>5 DEF Owed
<1>6. ASSUME NEW d \in Drivers, Submit(d) PROVE Owed'
  BY <1>0, <1>6 DEF Submit, Submitting, Owed, Typed
<1>7. CASE Take
  BY <1>7 DEF Take, Owed
<1>8. CASE Started
  BY <1>8 DEF Started, Dropped, Owed, Typed
<1>9. ASSUME NEW raised \in BOOLEAN, Finished(raised) PROVE Owed'
  BY <1>9 DEF Finished, Dropped, Owed
<1>10. CASE UNCHANGED runnerVars
  BY <1>10 DEF runnerVars, Owed
<1> QED
  BY <1>1, <1>3, <1>4, <1>5, <1>6, <1>7, <1>8, <1>9, <1>10 DEF RunnerNext

\* Whatever the ticker, the notifications and the thread do to each other, a
\* runner that says it is done owes no pass for anything a sync had fetched.
THEOREM DoneIsSwept == RunnerSpec => []SweepsAreDone
<1>1. SweptInv /\ [RunnerNext]_runnerVars => SweptInv'
  BY TypedStep, QueuedStep, OwedStep DEF SweptInv
<1>2. SweptInv => SweepsAreDone
  BY DEF SweptInv, Typed, Queued, Owed, SweepsAreDone, RunnerTypeOK, DoneMeansSwept, Places,
         Threads
<1> QED
  BY <1>1, <1>2, SweptInit, PTL DEF RunnerSpec

-----------------------------------------------------------------------------
(* Migrations: the files are 1..LastFile.                                      *)

LastFile == Cardinality(Files)

\* What is left to drop, and what is left to apply.
Down(m) == [i \in 1..(m + 1) |-> (m + 1) - i]
Up(m) == [i \in 1..(LastFile - m) |-> m + i]

LEMMA FilesNumbered == LastFile \in Nat \ {0} /\ Files = 1..LastFile
<1>1. LastFile \in Nat /\ Files = 1..LastFile
  BY MigrationsAssumption, FS_CardinalityType DEF LastFile
<1> QED
  BY <1>1, MigrationsAssumption

LEMMA SameLists ==
    ASSUME NEW S, NEW s \in Seq(S), NEW t \in Seq(S), Len(s) = Len(t),
           \A i \in 1..Len(s) : s[i] = t[i]
    PROVE  s = t
  OBVIOUS

LEMMA EmptyList == ASSUME NEW S, NEW s \in Seq(S) PROVE s = <<>> <=> Len(s) = 0
  OBVIOUS

LEMMA RestOf ==
    ASSUME NEW S, NEW s \in Seq(S), s # <<>> PROVE Tail(s) \in Seq(S)
  OBVIOUS

LEMMA ListOf ==
    ASSUME NEW S, NEW n \in Nat, NEW s \in [1..n -> S] PROVE s \in Seq(S) /\ Len(s) = n
  OBVIOUS

LEMMA DownMoves ==
    ASSUME NEW m \in 0..LastFile
    PROVE  /\ Down(m) # <<>> /\ Head(Down(m)) = m
           /\ m > 0 => Tail(Down(m)) = Down(m - 1) /\ Tail(Down(m)) # <<>>
           /\ m = 0 => Tail(Down(m)) = <<>>
<1>1. LastFile \in Nat /\ m \in Nat
  BY FilesNumbered
<1>2. /\ Down(m) \in Seq(0..LastFile) /\ Len(Down(m)) = m + 1 /\ Down(m)[1] = m
      /\ \A i \in 1..m : Down(m)[i + 1] = m - i
  BY <1>1 DEF Down
<1>3. /\ Tail(Down(m)) \in Seq(0..LastFile) /\ Len(Tail(Down(m))) = m
      /\ \A i \in 1..m : Tail(Down(m))[i] = m - i
  BY <1>1, <1>2
<1>4. ASSUME m > 0 PROVE Tail(Down(m)) = Down(m - 1)
  <2>1. /\ Down(m - 1) \in Seq(0..LastFile) /\ Len(Down(m - 1)) = m
        /\ \A i \in 1..m : Down(m - 1)[i] = m - i
    BY <1>1, <1>4 DEF Down
  <2> QED
    BY <1>1, <1>3, <2>1, SameLists
<1>5. Tail(Down(m)) = <<>> <=> m = 0
  BY <1>3, EmptyList
<1>6. Down(m) # <<>> /\ Head(Down(m)) = m
  BY <1>1, <1>2
<1> QED
  BY <1>1, <1>4, <1>5, <1>6

LEMMA UpMoves ==
    ASSUME NEW m \in 0..LastFile
    PROVE  /\ Up(m) = <<>> <=> m = LastFile
           /\ m < LastFile => Head(Up(m)) = m + 1 /\ Tail(Up(m)) = Up(m + 1)
<1>1. LastFile \in Nat /\ m \in Nat /\ m <= LastFile /\ LastFile - m \in Nat
  BY FilesNumbered
<1>2. /\ Up(m) \in Seq(1..LastFile) /\ Len(Up(m)) = LastFile - m
      /\ \A i \in 1..(LastFile - m) : Up(m)[i] = m + i
  BY <1>1 DEF Up
<1>3. ASSUME m < LastFile PROVE Head(Up(m)) = m + 1 /\ Tail(Up(m)) = Up(m + 1)
  <2>1. /\ Tail(Up(m)) \in Seq(1..LastFile) /\ Len(Tail(Up(m))) = (LastFile - m) - 1
        /\ \A i \in 1..((LastFile - m) - 1) : Tail(Up(m))[i] = Up(m)[i + 1]
    BY <1>1, <1>2, <1>3
  <2>2. \A i \in 1..((LastFile - m) - 1) : Tail(Up(m))[i] = m + (i + 1)
    BY <1>1, <1>2, <2>1
  <2>3. /\ Up(m + 1) \in Seq(1..LastFile) /\ Len(Up(m + 1)) = (LastFile - m) - 1
        /\ \A i \in 1..((LastFile - m) - 1) : Up(m + 1)[i] = m + (i + 1)
    <3>1. LastFile - (m + 1) = (LastFile - m) - 1 /\ (LastFile - m) - 1 \in Nat
      BY <1>1, <1>3
    <3>2. \A i \in 1..((LastFile - m) - 1) : (m + 1) + i = m + (i + 1) /\ (m + 1) + i \in 1..LastFile
      BY <1>1, <1>3
    <3>3. Up(m + 1) = [i \in 1..((LastFile - m) - 1) |-> m + (i + 1)]
      BY <3>1, <3>2 DEF Up
    <3>4. \A i \in 1..((LastFile - m) - 1) : m + (i + 1) \in 1..LastFile
      BY <3>2
    <3>5. Up(m + 1) \in [1..((LastFile - m) - 1) -> 1..LastFile]
      BY <3>3, <3>4
    <3>6. Up(m + 1) \in Seq(1..LastFile) /\ Len(Up(m + 1)) = (LastFile - m) - 1
      BY <3>1, <3>5, ListOf
    <3> QED
      BY <3>3, <3>6
  <2>4. Head(Up(m)) = m + 1
    BY <1>1, <1>2, <1>3
  <2>5. \A i \in 1..Len(Tail(Up(m))) : Tail(Up(m))[i] = Up(m + 1)[i]
    BY <2>1, <2>2, <2>3
  <2>6. Tail(Up(m)) = Up(m + 1)
    BY <2>1, <2>3, <2>5, SameLists
  <2> QED
    BY <2>4, <2>6
<1> QED
  BY <1>1, <1>2, <1>3

LEMMA ListsStart == TablesIn = Down(LastFile) /\ MigrationsIn = Up(0)
<1>1. LastFile \in Nat /\ Files = 1..LastFile
  BY FilesNumbered
<1>2. MigrationsIn = [i \in 1..LastFile |-> i] /\ Up(0) = [i \in 1..LastFile |-> i]
  BY <1>1 DEF MigrationsIn, Up
<1>3. /\ MigrationsIn \in Seq(0..LastFile) /\ Len(MigrationsIn) = LastFile
  BY <1>1, <1>2
<1>4. /\ Reverse(MigrationsIn) \in Seq(0..LastFile) /\ Len(Reverse(MigrationsIn)) = LastFile
      /\ \A i \in 1..LastFile : Reverse(MigrationsIn)[i] = (LastFile + 1) - i
  <2>1. \A i \in 1..LastFile : (LastFile - i) + 1 \in 1..LastFile /\ (LastFile - i) + 1 = (LastFile + 1) - i
    BY <1>1
  <2>2. Reverse(MigrationsIn) = [i \in 1..LastFile |-> MigrationsIn[(LastFile - i) + 1]]
    BY <1>3 DEF Reverse
  <2>3. Reverse(MigrationsIn) = [i \in 1..LastFile |-> (LastFile + 1) - i]
    BY <1>2, <2>1, <2>2
  <2>4. \A i \in 1..LastFile : (LastFile + 1) - i \in 0..LastFile
    BY <1>1
  <2> QED
    BY <1>1, <2>3, <2>4
<1>5. /\ TablesIn \in Seq(0..LastFile) /\ Len(TablesIn) = LastFile + 1
      /\ \A i \in 1..(LastFile + 1) : TablesIn[i] = (LastFile + 1) - i
  <2>1. <<LedgerTable>> \in Seq(0..LastFile) /\ Len(<<LedgerTable>>) = 1 /\ <<LedgerTable>>[1] = 0
    BY <1>1 DEF LedgerTable
  <2> DEFINE tables_ == Reverse(MigrationsIn)  ledger_ == <<LedgerTable>>
  <2>2. /\ tables_ \o ledger_ \in Seq(0..LastFile) /\ Len(tables_ \o ledger_) = LastFile + 1
        /\ \A i \in 1..(LastFile + 1) :
              (tables_ \o ledger_)[i] = IF i <= LastFile THEN tables_[i] ELSE ledger_[i - LastFile]
    <3> HIDE DEF tables_, ledger_
    <3> QED
      BY <1>1, <1>4, <2>1 DEF tables_, ledger_
  <2> QED
    BY <1>1, <1>4, <2>1, <2>2 DEF TablesIn
<1>6. /\ Down(LastFile) \in Seq(0..LastFile) /\ Len(Down(LastFile)) = LastFile + 1
      /\ \A i \in 1..(LastFile + 1) : Down(LastFile)[i] = (LastFile + 1) - i
  BY <1>1 DEF Down
<1>7. TablesIn = Down(LastFile)
  BY <1>5, <1>6, SameLists
<1> QED
  BY <1>2, <1>7

LEMMA VersionRead ==
    ASSUME NEW k \in Nat, ledger.versions = 1..k PROVE RecordedVersion = k
<1>1. CASE k = 0
  BY <1>1 DEF RecordedVersion, NoVersion
<1>2. CASE k > 0
  <2> DEFINE versions == ledger.versions
             newest == CHOOSE v \in versions : \A w \in versions : w <= v
  <2>1. k \in versions /\ \A w \in versions : w <= k
    BY <1>2
  <2>2. newest \in versions /\ \A w \in versions : w <= newest
    BY <2>1
  <2>3. newest = k
    BY <2>1, <2>2
  <2>4. RecordedVersion = newest
    BY <2>1 DEF RecordedVersion
  <2> QED
    BY <2>3, <2>4
<1> QED
  BY <1>1, <1>2

-----------------------------------------------------------------------------
Steps == {"none", "dropping", "reading", "applying", "rebuilding"}
Processes == [stage : Steps, recovering : BOOLEAN, left : Seq(0..LastFile), present : SUBSET Files]

SchemaTyped ==
    /\ tables \subseteq Files
    /\ ledger \in [exists : BOOLEAN, versions : SUBSET Files]
    /\ rows \in [Files -> SUBSET Nat] /\ epoch \in Nat /\ torn \in BOOLEAN
    /\ \A f \in Files : rows[f] \subseteq 0..epoch /\ (rows[f] # {} => f \in tables)
    /\ release \in [Releases -> Processes]
    /\ told \in [code : {"none", "failed", "migrated", "recovered"}, at : Nat]

\* The ledger holds a first stretch of the files, even while it is torn.
LedgerHolds ==
    /\ \E k \in 0..LastFile : ledger.versions = 1..k
    /\ ledger.exists \/ ledger.versions = {}
    /\ ~torn => ledger.versions \subseteq tables

Fresh(f) == rows[f] \subseteq {epoch}

\* A recovery that is dropping has emptied what it dropped.
IsDropping(x) ==
    /\ x.recovering /\ torn
    /\ \E m \in 0..LastFile : x.left = Down(m) /\ \A f \in Files : f > m => Fresh(f)

\* A process that applies has found or recorded the files before the next.
IsApplying(x) ==
    /\ ledger.exists
    /\ x.present \subseteq ledger.versions
    /\ \E m \in 0..LastFile : x.left = Up(m) /\ 1..m \subseteq ledger.versions

ProcessHolds(r) ==
    LET x == release[r]
    IN  /\ x.recovering => \A q \in Releases \ {r} : release[q].stage = "none"
        /\ x.stage = "none" => ~x.recovering
        /\ x.stage = "dropping" => IsDropping(x)
        /\ x.stage = "applying" => IsApplying(x)
        /\ x.stage = "rebuilding" => x.recovering /\ ledger.versions = Files
        /\ x.recovering /\ x.stage # "dropping" => ~torn /\ \A f \in Files : Fresh(f)

ToldHolds == ReleaseCodeIsTrue /\ RecoveryStartsOver

SchemaInv == SchemaTyped /\ LedgerHolds /\ (\A r \in Releases : ProcessHolds(r)) /\ ToldHolds

LEMMA SchemaStarts == SchemaInit => SchemaInv
<1> SUFFICES ASSUME SchemaInit PROVE SchemaInv
  OBVIOUS
<1>1. Done \in Processes /\ Done.stage = "none" /\ ~Done.recovering
  BY DEF Done, Processes, Steps
<1>2. LastFile \in Nat /\ 0 \in 0..LastFile /\ {} = 1..0
  BY FilesNumbered
<1>3. SchemaTyped
  BY <1>1 DEF SchemaInit, SchemaTyped, Untold, NoVersion
<1>4. LedgerHolds
  BY <1>2 DEF SchemaInit, LedgerHolds
<1>5. \A r \in Releases : ProcessHolds(r)
  BY <1>1 DEF SchemaInit, ProcessHolds
<1>6. ToldHolds
  BY DEF SchemaInit, ToldHolds, ReleaseCodeIsTrue, RecoveryStartsOver, Untold
<1> QED
  BY <1>3, <1>4, <1>5, <1>6 DEF SchemaInv

\* The processes that do not move, when none of them was at work ...
LEMMA OthersRest ==
    ASSUME SchemaInv, NEW r \in Releases,
           \A q \in Releases \ {r} : release[q].stage = "none" /\ release'[q] = release[q]
    PROVE  \A q \in Releases \ {r} : ProcessHolds(q)'
<1> TAKE q \in Releases \ {r}
<1>1. release'[q].stage = "none" /\ ~release'[q].recovering
  BY DEF SchemaInv, ProcessHolds
<1> QED
  BY <1>1 DEF ProcessHolds

\* ... and when none was recovering.
LEMMA OthersApply ==
    ASSUME SchemaInv, NEW r \in Releases,
           \A q \in Releases : ~release[q].recovering,
           \A q \in Releases \ {r} : release'[q] = release[q],
           ledger.versions \subseteq ledger'.versions, ledger.exists => ledger'.exists
    PROVE  \A q \in Releases \ {r} : ProcessHolds(q)'
<1> TAKE q \in Releases \ {r}
<1>1. /\ ~release'[q].recovering /\ release'[q] = release[q]
      /\ release[q].stage # "dropping" /\ release[q].stage # "rebuilding"
      /\ release[q].stage = "applying" => IsApplying(release[q])
  BY DEF SchemaInv, ProcessHolds, IsDropping
<1>2. release[q].stage = "applying" => IsApplying(release[q])'
  BY <1>1 DEF IsApplying
<1> QED
  BY <1>1, <1>2 DEF ProcessHolds

LEMMA LeftToApply ==
    ASSUME SchemaInv, NEW r \in Releases, release[r].stage = "applying"
    PROVE  /\ ledger.exists /\ release[r].present \subseteq ledger.versions
           /\ \E m \in 0..LastFile :
                 /\ release[r].left = Up(m) /\ 1..m \subseteq ledger.versions
                 /\ release[r].left = <<>> <=> m = LastFile
                 /\ m < LastFile => /\ Head(release[r].left) = m + 1
                                    /\ Tail(release[r].left) = Up(m + 1) /\ m + 1 \in 0..LastFile
<1>1. IsApplying(release[r])
  BY DEF SchemaInv, ProcessHolds
<1>2. PICK m \in 0..LastFile : release[r].left = Up(m) /\ 1..m \subseteq ledger.versions
  BY <1>1 DEF IsApplying
<1>3. m < LastFile => m + 1 \in 0..LastFile
  BY FilesNumbered
<1> QED
  BY <1>1, <1>2, <1>3, UpMoves DEF IsApplying

\* Nobody is recovering while a process that is not goes on.
LEMMA NobodyRecovers ==
    ASSUME SchemaInv, NEW r \in Releases, release[r].stage # "none", ~release[r].recovering
    PROVE  \A q \in Releases : ~release[q].recovering
  BY DEF SchemaInv, ProcessHolds

LEMMA OthersAreIdle ==
    ASSUME SchemaInv, NEW r \in Releases, release[r].recovering
    PROVE  \A q \in Releases \ {r} : release[q].stage = "none"
  BY DEF SchemaInv, ProcessHolds

\* A process moves.
LEMMA ProcessMoves ==
    ASSUME release \in [Releases -> Processes], NEW r \in Releases, NEW x \in Processes,
           release' = [release EXCEPT ![r] = x]
    PROVE  /\ release' \in [Releases -> Processes] /\ release'[r] = x
           /\ \A q \in Releases \ {r} : release'[q] = release[q]
  OBVIOUS

LEMMA MigrateHolds == ASSUME SchemaInv, NEW r \in Releases, Migrate(r) PROVE SchemaInv'
<1>1. /\ release' = [release EXCEPT ![r] = [Done EXCEPT !.stage = "reading"]]
      /\ told' = Untold /\ UNCHANGED <<tables, ledger, rows, torn, epoch>>
      /\ \A q \in Releases : ~release[q].recovering
  BY DEF Migrate
<1> DEFINE x == [Done EXCEPT !.stage = "reading"]
<1>2. x \in Processes /\ x.stage = "reading" /\ ~x.recovering
  <2>1. <<>> \in Seq(0..LastFile)
    OBVIOUS
  <2> QED
    BY <2>1 DEF Done, Processes, Steps
<1>3. /\ release' \in [Releases -> Processes] /\ release'[r] = x
      /\ \A q \in Releases \ {r} : release'[q] = release[q]
  BY <1>1, <1>2, ProcessMoves DEF SchemaInv, SchemaTyped
<1> HIDE DEF x
<1>4. SchemaTyped' /\ ToldHolds'
  BY <1>1, <1>3 DEF SchemaInv, SchemaTyped, ToldHolds, ReleaseCodeIsTrue, RecoveryStartsOver,
                    Untold, NoVersion
<1>5. LedgerHolds'
  BY <1>1 DEF SchemaInv, LedgerHolds
<1>6. \A q \in Releases \ {r} : ProcessHolds(q)'
  BY <1>1, <1>3, OthersApply
<1>7. ProcessHolds(r)'
  BY <1>2, <1>3 DEF ProcessHolds
<1> QED
  BY <1>4, <1>5, <1>6, <1>7 DEF SchemaInv

LEMMA RecoverHolds == ASSUME SchemaInv, NEW r \in Releases, Recover(r) PROVE SchemaInv'
<1> DEFINE x == [Done EXCEPT !.stage = "dropping", !.recovering = TRUE, !.left = TablesIn]
<1>1. /\ release' = [release EXCEPT ![r] = x]
      /\ told' = Untold /\ torn' = TRUE /\ epoch' = epoch + 1
      /\ UNCHANGED <<tables, ledger, rows>>
      /\ \A q \in Releases \ {r} : release[q].stage = "none"
  BY DEF Recover, Quiet
<1>2. /\ x \in Processes /\ x.stage = "dropping" /\ x.recovering
      /\ x.left = Down(LastFile)
  <2>1. Down(LastFile) \in Seq(0..LastFile)
    <3>1. LastFile \in Nat
      BY FilesNumbered
    <3>2. Down(LastFile) \in [1..(LastFile + 1) -> 0..LastFile]
      BY <3>1 DEF Down
    <3> QED
      BY <3>1, <3>2, ListOf
  <2> QED
    BY <2>1, ListsStart DEF Done, Processes, Steps
<1>3. /\ release' \in [Releases -> Processes] /\ release'[r] = x
      /\ \A q \in Releases \ {r} : release'[q] = release[q]
  BY <1>1, <1>2, ProcessMoves DEF SchemaInv, SchemaTyped
<1> HIDE DEF x
<1>4. \A f \in Files : rows[f] \subseteq 0..(epoch + 1)
  <2>1. epoch \in Nat /\ \A f \in Files : rows[f] \subseteq 0..epoch
    BY DEF SchemaInv, SchemaTyped
  <2>2. 0..epoch \subseteq 0..(epoch + 1)
    BY <2>1
  <2> QED
    BY <2>1, <2>2
<1>5. SchemaTyped' /\ ToldHolds'
  BY <1>1, <1>3, <1>4 DEF SchemaInv, SchemaTyped, ToldHolds, ReleaseCodeIsTrue,
                          RecoveryStartsOver, Untold, NoVersion
<1>6. LedgerHolds'
  BY <1>1 DEF SchemaInv, LedgerHolds
<1>7. \A q \in Releases \ {r} : ProcessHolds(q)'
  BY <1>1, <1>3, OthersRest
<1>8. ProcessHolds(r)'
  <2>1. IsDropping(release[r])'
    <3>1. LastFile \in 0..LastFile /\ \A f \in Files : ~(f > LastFile)
      BY FilesNumbered
    <3> QED
      BY <1>1, <1>2, <1>3, <3>1 DEF IsDropping
  <2> QED
    BY <1>1, <1>2, <1>3, <2>1 DEF ProcessHolds
<1> QED
  BY <1>5, <1>6, <1>7, <1>8 DEF SchemaInv

LEMMA DropTableHolds == ASSUME SchemaInv, NEW r \in Releases, DropTable(r) PROVE SchemaInv'
<1> DEFINE t == Head(release[r].left)
           left == Tail(release[r].left)
           x == [release[r] EXCEPT !.left = left,
                                   !.stage = IF left = <<>> THEN "reading" ELSE @]
<1>1. release[r].stage = "dropping" /\ release[r] \in Processes /\ release[r].recovering
  BY DEF DropTable, SchemaInv, SchemaTyped, ProcessHolds, IsDropping
<1>2. /\ release' = [release EXCEPT ![r] = x]
      /\ told' = Untold /\ torn' = (left # <<>>) /\ epoch' = epoch
      /\ \/ /\ t = 0 /\ ledger' = [exists |-> FALSE, versions |-> {}]
            /\ UNCHANGED <<tables, rows>>
         \/ /\ t # 0 /\ tables' = tables \ {t} /\ rows' = [rows EXCEPT ![t] = {}]
            /\ ledger' = ledger
  BY <1>1 DEF DropTable, LedgerTable, SchemaInv, SchemaTyped, Processes
<1>3. PICK m \in 0..LastFile : release[r].left = Down(m) /\ \A f \in Files : f > m => Fresh(f)
  BY <1>1 DEF SchemaInv, ProcessHolds, IsDropping
<1>4. /\ LastFile \in Nat /\ Files = 1..LastFile /\ m \in Nat
      /\ t = m /\ release[r].left # <<>>
      /\ m > 0 => left = Down(m - 1) /\ left # <<>>
      /\ m = 0 => left = <<>>
  <2>1. /\ Down(m) # <<>> /\ Head(Down(m)) = m
        /\ m > 0 => Tail(Down(m)) = Down(m - 1) /\ Tail(Down(m)) # <<>>
        /\ m = 0 => Tail(Down(m)) = <<>>
    BY DownMoves
  <2> QED
    BY <1>3, <2>1, FilesNumbered
<1>5. /\ x \in Processes /\ x.recovering /\ x.left = left
      /\ x.stage = IF m = 0 THEN "reading" ELSE "dropping"
  <2>1. release[r].left \in Seq(0..LastFile) /\ release[r].left # <<>>
    BY <1>1, <1>4 DEF Processes
  <2>2. left \in Seq(0..LastFile)
    BY <2>1, RestOf
  <2>3. left = <<>> <=> m = 0
    BY <1>4
  <2> HIDE DEF left
  <2>4. /\ x \in Processes /\ x.recovering = release[r].recovering /\ x.left = left
        /\ x.stage = IF left = <<>> THEN "reading" ELSE release[r].stage
    BY <1>1, <2>2 DEF Processes, Steps
  <2> QED
    BY <1>1, <2>3, <2>4
<1>6. /\ release' \in [Releases -> Processes]
      /\ release'[r].recovering /\ release'[r].left = left
      /\ release'[r].stage = IF m = 0 THEN "reading" ELSE "dropping"
      /\ \A q \in Releases \ {r} : release'[q] = release[q]
  BY <1>2, <1>5, ProcessMoves DEF SchemaInv, SchemaTyped
<1> HIDE DEF x, t, left
<1>7. \A q \in Releases \ {r} : ProcessHolds(q)'
  BY <1>1, <1>6, OthersAreIdle, OthersRest
<1>8. CASE m = 0
  <2>1. /\ torn' = FALSE /\ ledger' = [exists |-> FALSE, versions |-> {}]
        /\ UNCHANGED <<tables, rows, epoch>> /\ \A f \in Files : Fresh(f)
    <3>1. \A f \in Files : f > m
      BY <1>4, <1>8
    <3> QED
      BY <1>2, <1>3, <1>4, <1>8, <3>1
  <2>2. SchemaTyped' /\ ToldHolds'
    BY <1>2, <1>6, <2>1 DEF SchemaInv, SchemaTyped, ToldHolds, ReleaseCodeIsTrue,
                            RecoveryStartsOver, Untold, NoVersion
  <2>3. LedgerHolds'
    <3>1. {} = 1..0 /\ 0 \in 0..LastFile
      BY <1>4
    <3> QED
      BY <2>1, <3>1 DEF LedgerHolds
  <2>4. ProcessHolds(r)'
    <3>1. \A q \in Releases \ {r} : release'[q].stage = "none"
      BY <1>1, <1>6, OthersAreIdle
    <3>2. release'[r].stage = "reading" /\ \A f \in Files : Fresh(f)'
      BY <1>6, <1>8, <2>1 DEF Fresh
    <3> QED
      BY <1>6, <2>1, <3>1, <3>2 DEF ProcessHolds
  <2> QED
    BY <1>7, <2>2, <2>3, <2>4 DEF SchemaInv
<1>9. CASE m > 0
  <2>1. /\ torn' = TRUE /\ ledger' = ledger /\ epoch' = epoch
        /\ tables' = tables \ {m} /\ rows' = [rows EXCEPT ![m] = {}]
    BY <1>2, <1>4, <1>9
  <2>2. /\ rows' \in [Files -> SUBSET Nat]
        /\ \A f \in Files : rows'[f] = IF f = m THEN {} ELSE rows[f]
    BY <2>1 DEF SchemaInv, SchemaTyped
  <2>3. SchemaTyped' /\ ToldHolds'
    BY <1>2, <1>6, <2>1, <2>2 DEF SchemaInv, SchemaTyped, ToldHolds, ReleaseCodeIsTrue,
                            RecoveryStartsOver, Untold, NoVersion
  <2>4. LedgerHolds'
    BY <2>1 DEF SchemaInv, LedgerHolds
  <2>5. IsDropping(release[r])'
    <3>1. m - 1 \in 0..LastFile /\ release'[r].left = Down(m - 1)
      BY <1>4, <1>6, <1>9
    <3>2. ASSUME NEW f \in Files, f > m - 1 PROVE rows'[f] \subseteq {epoch}
      <4>1. f = m \/ f > m
        BY <1>4, <3>2
      <4> QED
        BY <1>3, <2>2, <4>1 DEF Fresh
    <3> QED
      BY <1>6, <2>1, <3>1, <3>2 DEF IsDropping, Fresh
  <2>6. ProcessHolds(r)'
    <3>1. \A q \in Releases \ {r} : release'[q].stage = "none"
      BY <1>1, <1>6, OthersAreIdle
    <3>2. release'[r].stage = "dropping"
      BY <1>4, <1>6, <1>9
    <3> QED
      BY <1>6, <2>5, <3>1, <3>2 DEF ProcessHolds
  <2> QED
    BY <1>7, <2>3, <2>4, <2>6 DEF SchemaInv
<1> QED
  BY <1>4, <1>8, <1>9

LEMMA AppliedVersionsHolds ==
    ASSUME SchemaInv, NEW r \in Releases, AppliedVersions(r) PROVE SchemaInv'
<1> DEFINE x == [release[r] EXCEPT !.stage = "applying", !.present = ledger.versions,
                                   !.left = MigrationsIn]
<1>1. release[r].stage = "reading" /\ release[r] \in Processes
  BY DEF AppliedVersions, SchemaInv, SchemaTyped
<1>2. /\ release' = [release EXCEPT ![r] = x]
      /\ ledger' = [ledger EXCEPT !.exists = TRUE]
      /\ told' = Untold /\ UNCHANGED <<tables, rows, torn, epoch>>
  BY <1>1 DEF AppliedVersions, LedgerCreated, SchemaInv, SchemaTyped, Processes
<1>3. ledger'.exists /\ ledger'.versions = ledger.versions /\ ledger.versions \subseteq Files
  BY <1>2 DEF SchemaInv, SchemaTyped
<1>4. LastFile \in Nat /\ Files = 1..LastFile /\ 0 \in 0..LastFile /\ 1..0 = {}
  BY FilesNumbered
<1>5. /\ x \in Processes /\ x.recovering = release[r].recovering
      /\ x.stage = "applying" /\ x.left = Up(0) /\ x.present = ledger.versions
  <2>1. MigrationsIn \in [1..LastFile -> 0..LastFile]
    BY <1>4 DEF MigrationsIn
  <2>2. MigrationsIn \in Seq(0..LastFile)
    BY <1>4, <2>1, ListOf
  <2> QED
    BY <1>1, <1>3, <2>2, ListsStart DEF Processes, Steps
<1>6. /\ release' \in [Releases -> Processes] /\ release'[r] = x
      /\ \A q \in Releases \ {r} : release'[q] = release[q]
  BY <1>2, <1>5, ProcessMoves DEF SchemaInv, SchemaTyped
<1> HIDE DEF x
<1>7. SchemaTyped' /\ ToldHolds'
  BY <1>2, <1>6 DEF SchemaInv, SchemaTyped, ToldHolds, ReleaseCodeIsTrue, RecoveryStartsOver,
                    Untold, NoVersion
<1>8. LedgerHolds'
  BY <1>2, <1>3 DEF SchemaInv, LedgerHolds
<1>9. \A q \in Releases \ {r} : ProcessHolds(q)'
  <2>1. CASE release[r].recovering
    BY <1>6, <2>1, OthersAreIdle, OthersRest
  <2>2. CASE ~release[r].recovering
    BY <1>1, <1>3, <1>6, <2>2, NobodyRecovers, OthersApply
  <2> QED
    BY <2>1, <2>2
<1>10. ProcessHolds(r)'
  <2>1. IsApplying(release[r])'
    BY <1>2, <1>3, <1>4, <1>5, <1>6 DEF IsApplying
  <2>2. release[r].recovering => ~torn /\ \A f \in Files : Fresh(f)
    BY <1>1 DEF SchemaInv, ProcessHolds
  <2>3. release[r].recovering => \A q \in Releases \ {r} : release'[q].stage = "none"
    BY <1>6, OthersAreIdle
  <2> QED
    BY <1>2, <1>5, <1>6, <2>1, <2>2, <2>3 DEF ProcessHolds, Fresh
<1> QED
  BY <1>7, <1>8, <1>9, <1>10 DEF SchemaInv

\* A process that stays where it is and takes the next file.
LEMMA NextFile ==
    ASSUME SchemaInv, NEW r \in Releases, release[r].stage = "applying",
           release[r].left # <<>>,
           release' = [release EXCEPT ![r].left = Tail(@)],
           ledger' \in [exists : BOOLEAN, versions : SUBSET Files],
           ledger'.exists = ledger.exists, ledger.versions \subseteq ledger'.versions,
           Head(release[r].left) \in ledger'.versions,
           UNCHANGED <<rows, torn, epoch>>
    PROVE  /\ release' \in [Releases -> Processes]
           /\ \A q \in Releases : ProcessHolds(q)'
<1> DEFINE left == Tail(release[r].left)
           x == [release[r] EXCEPT !.left = left]
<1>1. release[r] \in Processes /\ release' = [release EXCEPT ![r] = x]
  BY DEF SchemaInv, SchemaTyped
<1>2. PICK m \in 0..LastFile :
          /\ release[r].left = Up(m) /\ 1..m \subseteq ledger.versions
          /\ release[r].left = <<>> <=> m = LastFile
          /\ m < LastFile => /\ Head(release[r].left) = m + 1
                             /\ left = Up(m + 1) /\ m + 1 \in 0..LastFile
  BY LeftToApply
<1>3. /\ m \in Nat /\ m < LastFile /\ Head(release[r].left) = m + 1 /\ left = Up(m + 1)
      /\ m + 1 \in 0..LastFile
  BY <1>2, FilesNumbered
<1>4. left \in Seq(0..LastFile)
  BY <1>1, RestOf DEF Processes
<1>5. /\ x \in Processes /\ x.recovering = release[r].recovering /\ x.stage = "applying"
      /\ x.left = left /\ x.present = release[r].present
  <2> HIDE DEF left
  <2> QED
    BY <1>1, <1>4 DEF Processes
<1>6. /\ release' \in [Releases -> Processes]
      /\ release'[r].recovering = release[r].recovering /\ release'[r].stage = "applying"
      /\ release'[r].left = left /\ release'[r].present = release[r].present
      /\ \A q \in Releases \ {r} : release'[q] = release[q]
  BY <1>1, <1>5, ProcessMoves DEF SchemaInv, SchemaTyped
<1>7. 1..(m + 1) \subseteq ledger'.versions
  <2>1. \A i \in 1..(m + 1) : i \in 1..m \/ i = m + 1
    BY <1>3
  <2> QED
    BY <1>2, <1>3, <2>1
<1>8. IsApplying(release[r])'
  BY <1>3, <1>6, <1>7, LeftToApply DEF IsApplying
<1>9. ProcessHolds(r)'
  <2>1. release[r].recovering => /\ \A q \in Releases \ {r} : release'[q].stage = "none"
                                 /\ ~torn /\ \A f \in Files : Fresh(f)
    BY <1>6, OthersAreIdle DEF SchemaInv, ProcessHolds
  <2> QED
    BY <1>6, <1>8, <2>1 DEF ProcessHolds, Fresh
<1>10. \A q \in Releases \ {r} : ProcessHolds(q)'
  <2>1. CASE release[r].recovering
    BY <1>6, <2>1, OthersAreIdle, OthersRest
  <2>2. CASE ~release[r].recovering
    BY <1>6, <2>2, NobodyRecovers, OthersApply
  <2> QED
    BY <2>1, <2>2
<1> QED
  BY <1>6, <1>9, <1>10

LEMMA SkipOneHolds == ASSUME SchemaInv, NEW r \in Releases, SkipOne(r) PROVE SchemaInv'
<1>1. /\ release[r].stage = "applying" /\ release[r].left # <<>>
      /\ Head(release[r].left) \in release[r].present
      /\ release' = [release EXCEPT ![r].left = Tail(@)]
      /\ told' = Untold /\ UNCHANGED <<tables, ledger, rows, torn, epoch>>
  BY DEF SkipOne, Skips
<1>2. Head(release[r].left) \in ledger'.versions
  BY <1>1, LeftToApply
<1>3. ledger \in [exists : BOOLEAN, versions : SUBSET Files]
  BY DEF SchemaInv, SchemaTyped
<1>4. release' \in [Releases -> Processes] /\ \A q \in Releases : ProcessHolds(q)'
  BY <1>1, <1>2, <1>3, NextFile
<1>5. SchemaTyped' /\ ToldHolds'
  BY <1>1, <1>4 DEF SchemaInv, SchemaTyped, ToldHolds, ReleaseCodeIsTrue, RecoveryStartsOver,
                    Untold, NoVersion
<1>6. LedgerHolds'
  BY <1>1 DEF SchemaInv, LedgerHolds
<1> QED
  BY <1>4, <1>5, <1>6 DEF SchemaInv

LEMMA ApplyOneHolds == ASSUME SchemaInv, NEW r \in Releases, ApplyOne(r) PROVE SchemaInv'
<1> DEFINE f == Head(release[r].left)
<1>1. /\ release[r].stage = "applying" /\ release[r].left # <<>> /\ f \notin ledger.versions
      /\ release' = [release EXCEPT ![r].left = Tail(@)]
      /\ tables' = tables \cup {f} /\ ledger' = [ledger EXCEPT !.versions = @ \cup {f}]
      /\ told' = Untold /\ UNCHANGED <<rows, torn, epoch>>
  BY DEF ApplyOne, Recorded
<1>2. PICK m \in 0..LastFile : m < LastFile /\ f = m + 1 /\ 1..m \subseteq ledger.versions
  BY <1>1, LeftToApply, FilesNumbered
<1>3. LastFile \in Nat /\ Files = 1..LastFile /\ m \in Nat /\ f \in Files /\ f \in 0..LastFile
  BY <1>2, FilesNumbered
<1> HIDE DEF f
<1>4. /\ ledger \in [exists : BOOLEAN, versions : SUBSET Files]
      /\ ledger' \in [exists : BOOLEAN, versions : SUBSET Files]
      /\ ledger'.exists = ledger.exists /\ ledger'.versions = ledger.versions \cup {f}
  BY <1>1, <1>3 DEF SchemaInv, SchemaTyped
<1>5. release' \in [Releases -> Processes] /\ \A q \in Releases : ProcessHolds(q)'
  BY <1>1, <1>3, <1>4, NextFile DEF f
<1>6. SchemaTyped' /\ ToldHolds'
  BY <1>1, <1>3, <1>4, <1>5 DEF SchemaInv, SchemaTyped, ToldHolds, ReleaseCodeIsTrue,
                    RecoveryStartsOver, Untold, NoVersion
<1>7. LedgerHolds'
  <2>1. PICK k \in 0..LastFile : ledger.versions = 1..k
    BY DEF SchemaInv, LedgerHolds
  <2>2. k = m
    <3>1. k \in Nat /\ ~(m + 1 \in 1..k) /\ 1..m \subseteq 1..k
      BY <1>1, <1>2, <1>3, <2>1
    <3>2. m = 0 \/ m \in 1..m
      BY <1>3
    <3> QED
      BY <1>3, <3>1, <3>2
  <2>3. ledger'.versions = 1..f
    BY <1>2, <1>3, <1>4, <2>1, <2>2
  <2>4. ~torn' => ledger'.versions \subseteq tables'
    BY <1>1, <1>4 DEF SchemaInv, LedgerHolds
  <2>5. ledger'.exists
    BY <1>1, <1>4, LeftToApply
  <2> QED
    BY <1>3, <2>3, <2>4, <2>5 DEF LedgerHolds
<1> QED
  BY <1>5, <1>6, <1>7 DEF SchemaInv

LEMMA DoneIsOver == Done \in Processes /\ Done.stage = "none" /\ ~Done.recovering
<1>1. <<>> \in Seq(0..LastFile)
  OBVIOUS
<1> QED
  BY <1>1 DEF Done, Processes, Steps

LEMMA LedgerRead ==
    ASSUME SchemaInv PROVE RecordedVersion \in 0..LastFile /\ ledger.versions = 1..RecordedVersion
<1>1. PICK k \in 0..LastFile : ledger.versions = 1..k
  BY DEF SchemaInv, LedgerHolds
<1>2. k \in Nat
  BY FilesNumbered
<1> QED
  BY <1>1, <1>2, VersionRead

\* A process that ends, however.
LEMMA ProcessEnds ==
    ASSUME SchemaInv, NEW r \in Releases, release[r].stage # "none",
           release' = [release EXCEPT ![r] = Done],
           UNCHANGED <<ledger, torn, epoch>>
    PROVE  release' \in [Releases -> Processes] /\ \A q \in Releases : ProcessHolds(q)'
<1>1. /\ release' \in [Releases -> Processes] /\ release'[r] = Done
      /\ \A q \in Releases \ {r} : release'[q] = release[q]
  BY DoneIsOver, ProcessMoves DEF SchemaInv, SchemaTyped
<1>2. ProcessHolds(r)'
  BY <1>1, DoneIsOver DEF ProcessHolds
<1>3. \A q \in Releases \ {r} : ProcessHolds(q)'
  <2>1. CASE release[r].recovering
    BY <1>1, <2>1, OthersAreIdle, OthersRest
  <2>2. CASE ~release[r].recovering
    BY <1>1, <2>2, NobodyRecovers, OthersApply
  <2> QED
    BY <2>1, <2>2
<1> QED
  BY <1>1, <1>2, <1>3

LEMMA FileFailsHolds == ASSUME SchemaInv, NEW r \in Releases, FileFails(r) PROVE SchemaInv'
<1> DEFINE f == Head(release[r].left)
<1>1. /\ release[r].stage = "applying"
      /\ ledger' = IF f \in ledger.versions THEN [ledger EXCEPT !.versions = @ \cup {f}] ELSE ledger
      /\ told' = [code |-> "failed", at |-> RecordedVersion]
      /\ release' = [release EXCEPT ![r] = Done]
      /\ UNCHANGED <<tables, rows, torn, epoch>>
  BY DEF FileFails, Recorded, LeftAt
<1>2. ledger' = ledger
  <2>1. ledger \in [exists : BOOLEAN, versions : SUBSET Files]
    BY DEF SchemaInv, SchemaTyped
  <2> HIDE DEF f
  <2>2. f \in ledger.versions => [ledger EXCEPT !.versions = @ \cup {f}] = ledger
    <3>1. f \in ledger.versions => ledger.versions \cup {f} = ledger.versions
      OBVIOUS
    <3> QED
      BY <2>1, <3>1
  <2> QED
    BY <1>1, <2>2
<1>3. release' \in [Releases -> Processes] /\ \A q \in Releases : ProcessHolds(q)'
  BY <1>1, <1>2, ProcessEnds
<1>4. RecordedVersion \in Nat /\ RecordedVersion' = RecordedVersion
  BY <1>2, LedgerRead, FilesNumbered DEF RecordedVersion
<1>5. SchemaTyped' /\ ToldHolds'
  BY <1>1, <1>2, <1>3, <1>4 DEF SchemaInv, SchemaTyped, ToldHolds, ReleaseCodeIsTrue,
                    RecoveryStartsOver
<1>6. LedgerHolds'
  BY <1>1, <1>2 DEF SchemaInv, LedgerHolds
<1> QED
  BY <1>3, <1>5, <1>6 DEF SchemaInv

LEMMA AppliedHolds == ASSUME SchemaInv, NEW r \in Releases, Applied(r) PROVE SchemaInv'
<1>1. /\ release[r].stage = "applying" /\ release[r].left = <<>>
      /\ UNCHANGED <<tables, ledger, rows, torn, epoch>>
  BY DEF Applied
<1>2. ledger.versions = Files /\ LastFile \in Nat
  <2>1. PICK m \in 0..LastFile : m = LastFile /\ 1..m \subseteq ledger.versions
    BY <1>1, LeftToApply
  <2> QED
    BY <2>1, FilesNumbered DEF SchemaInv, SchemaTyped
<1>3. LedgerHolds'
  BY <1>1 DEF SchemaInv, LedgerHolds
<1>4. ~torn => tables = Files
  BY <1>2 DEF SchemaInv, SchemaTyped, LedgerHolds
<1>5. RecordedVersion \in Nat /\ RecordedVersion' = RecordedVersion
  BY <1>1, LedgerRead, FilesNumbered DEF RecordedVersion
<1>6. CASE release[r].recovering
  <2> DEFINE x == [release[r] EXCEPT !.stage = "rebuilding"]
  <2>1. release[r] \in Processes /\ release' = [release EXCEPT ![r] = x] /\ told' = told
    BY <1>1, <1>6 DEF Applied, SchemaInv, SchemaTyped
  <2>2. x \in Processes /\ x.recovering /\ x.stage = "rebuilding"
    BY <1>6, <2>1 DEF Processes, Steps
  <2>3. /\ release' \in [Releases -> Processes]
        /\ release'[r].recovering /\ release'[r].stage = "rebuilding"
        /\ \A q \in Releases \ {r} : release'[q] = release[q]
    BY <2>1, <2>2, ProcessMoves DEF SchemaInv, SchemaTyped
  <2> HIDE DEF x
  <2>4. SchemaTyped' /\ ToldHolds'
    BY <1>1, <1>5, <2>1, <2>3 DEF SchemaInv, SchemaTyped, ToldHolds, ReleaseCodeIsTrue,
                    RecoveryStartsOver
  <2>5. \A q \in Releases \ {r} : ProcessHolds(q)'
    BY <1>6, <2>3, OthersAreIdle, OthersRest
  <2>6. ProcessHolds(r)'
    <3>1. /\ \A q \in Releases \ {r} : release'[q].stage = "none"
          /\ ~torn /\ \A f \in Files : Fresh(f)
      BY <1>1, <1>6, <2>3, OthersAreIdle DEF SchemaInv, ProcessHolds
    <3> QED
      BY <1>1, <1>2, <2>3, <3>1 DEF ProcessHolds, Fresh
  <2> QED
    BY <1>3, <2>4, <2>5, <2>6 DEF SchemaInv
<1>7. CASE ~release[r].recovering
  <2>1. /\ release' = [release EXCEPT ![r] = Done]
        /\ told' = [code |-> "migrated", at |-> RecordedVersion]
    BY <1>1, <1>7 DEF Applied
  <2>2. release' \in [Releases -> Processes] /\ \A q \in Releases : ProcessHolds(q)'
    BY <1>1, <2>1, ProcessEnds
  <2>3. SchemaTyped' /\ ToldHolds'
    BY <1>1, <1>4, <1>5, <2>1, <2>2 DEF SchemaInv, SchemaTyped, ToldHolds, ReleaseCodeIsTrue,
                    RecoveryStartsOver
  <2> QED
    BY <1>3, <2>2, <2>3 DEF SchemaInv
<1> QED
  BY <1>6, <1>7

LEMMA RebuildHolds == ASSUME SchemaInv, NEW r \in Releases, Rebuild(r) PROVE SchemaInv'
<1>1. /\ release[r].stage = "rebuilding" /\ rows' = [rows EXCEPT ![1] = @ \cup {epoch}]
      /\ release' = [release EXCEPT ![r] = Done]
      /\ told' = [code |-> "recovered", at |-> RecordedVersion]
      /\ UNCHANGED <<tables, ledger, torn, epoch>>
  BY DEF Rebuild
<1>2. /\ release[r].recovering /\ ledger.versions = Files
      /\ ~torn /\ \A f \in Files : Fresh(f)
  BY <1>1 DEF SchemaInv, ProcessHolds
<1>3. tables = Files
  BY <1>2 DEF SchemaInv, SchemaTyped, LedgerHolds
<1>4. 1 \in Files /\ rows \in [Files -> SUBSET Nat] /\ epoch \in Nat
  BY FilesNumbered DEF SchemaInv, SchemaTyped
<1>5. /\ rows' \in [Files -> SUBSET Nat] /\ epoch \in rows'[1]
      /\ \A f \in Files : rows'[f] \subseteq {epoch}
  BY <1>1, <1>2, <1>4 DEF Fresh
<1>6. \A f \in Files : rows'[f] \subseteq 0..epoch
  BY <1>4, <1>5
<1>7. release' \in [Releases -> Processes] /\ \A q \in Releases : ProcessHolds(q)'
  BY <1>1, <1>2, ProcessEnds
<1>8. RecordedVersion \in Nat
  BY LedgerRead, FilesNumbered
<1>9. SchemaTyped'
  BY <1>1, <1>3, <1>5, <1>6, <1>7, <1>8 DEF SchemaInv, SchemaTyped
<1>10. ToldHolds'
  BY <1>1, <1>3, <1>5 DEF ToldHolds, ReleaseCodeIsTrue, RecoveryStartsOver
<1>11. LedgerHolds'
  BY <1>1 DEF SchemaInv, LedgerHolds
<1> QED
  BY <1>7, <1>9, <1>10, <1>11 DEF SchemaInv

LEMMA DiesHolds == ASSUME SchemaInv, NEW r \in Releases, Dies(r) PROVE SchemaInv'
<1>1. /\ release[r].stage # "none" /\ release' = [release EXCEPT ![r] = Done]
      /\ told' = Untold /\ UNCHANGED <<tables, ledger, rows, torn, epoch>>
  BY DEF Dies
<1>2. release' \in [Releases -> Processes] /\ \A q \in Releases : ProcessHolds(q)'
  BY <1>1, ProcessEnds
<1>3. SchemaTyped' /\ ToldHolds'
  BY <1>1, <1>2 DEF SchemaInv, SchemaTyped, ToldHolds, ReleaseCodeIsTrue, RecoveryStartsOver,
                    Untold, NoVersion
<1>4. LedgerHolds'
  BY <1>1 DEF SchemaInv, LedgerHolds
<1> QED
  BY <1>2, <1>3, <1>4 DEF SchemaInv

LEMMA ServiceWritesHolds == ASSUME SchemaInv, NEW g \in Files, ServiceWrites(g) PROVE SchemaInv'
<1>1. /\ g \in tables /\ rows' = [rows EXCEPT ![g] = @ \cup {epoch}]
      /\ told' = Untold /\ UNCHANGED <<tables, ledger, release, torn, epoch>>
  BY DEF ServiceWrites
<1>2. rows \in [Files -> SUBSET Nat] /\ epoch \in Nat /\ epoch \in 0..epoch
  BY DEF SchemaInv, SchemaTyped
<1>3. /\ rows' \in [Files -> SUBSET Nat]
      /\ \A f \in Files : rows'[f] = IF f = g THEN rows[g] \cup {epoch} ELSE rows[f]
  BY <1>1, <1>2
<1>4. \A f \in Files : Fresh(f) => Fresh(f)'
  BY <1>1, <1>3 DEF Fresh
<1>5. SchemaTyped' /\ ToldHolds'
  BY <1>1, <1>2, <1>3 DEF SchemaInv, SchemaTyped, ToldHolds, ReleaseCodeIsTrue, RecoveryStartsOver,
                    Untold, NoVersion
<1>6. LedgerHolds'
  BY <1>1 DEF SchemaInv, LedgerHolds
<1>7. ASSUME NEW r \in Releases PROVE ProcessHolds(r)'
  <2>1. ProcessHolds(r)
    BY DEF SchemaInv
  <2>2. IsDropping(release[r]) => IsDropping(release[r])'
    BY <1>1, <1>4 DEF IsDropping
  <2>3. IsApplying(release[r]) => IsApplying(release[r])'
    BY <1>1 DEF IsApplying
  <2> QED
    BY <1>1, <1>4, <2>1, <2>2, <2>3 DEF ProcessHolds
<1> QED
  BY <1>5, <1>6, <1>7 DEF SchemaInv

LEMMA SchemaRests == ASSUME SchemaInv, UNCHANGED schemaVars PROVE SchemaInv'
  BY DEF schemaVars, SchemaInv, SchemaTyped, LedgerHolds, ProcessHolds, IsDropping, IsApplying, Fresh,
         ToldHolds, ReleaseCodeIsTrue, RecoveryStartsOver, RecordedVersion

\* Whatever fails or dies, and however many release steps run at once, the
\* ledger says what the schema is, a release goes on only with the whole of it,
\* and a recovery that ends has left nothing from before it.
THEOREM LedgerSaysTheSchema == SchemaSpec => []SchemaIsRecorded
<1>1. SchemaInv /\ [SchemaNext]_schemaVars => SchemaInv'
  BY MigrateHolds, RecoverHolds, DropTableHolds, AppliedVersionsHolds, SkipOneHolds, ApplyOneHolds,
     FileFailsHolds, AppliedHolds, RebuildHolds, DiesHolds, ServiceWritesHolds, SchemaRests
     DEF SchemaNext
<1>2. SchemaInv => SchemaIsRecorded
  <2> SUFFICES ASSUME SchemaInv PROVE SchemaIsRecorded
    OBVIOUS
  <2>1. SchemaTypeOK
    BY DEF SchemaInv, SchemaTyped, LedgerHolds, SchemaTypeOK, Processes, Steps
  <2>2. LedgerIsTrue
    BY LedgerRead DEF SchemaInv, LedgerHolds, LedgerIsTrue
  <2> QED
    BY <2>1, <2>2 DEF SchemaInv, ToldHolds, SchemaIsRecorded
<1> QED
  BY <1>1, <1>2, SchemaStarts, PTL DEF SchemaSpec

-----------------------------------------------------------------------------
(* The observations of agents. *)

\* One call is under way at a time, and nothing comes between an append's read and
\* its write: what no lock grants.
OneAtATime == AtOnce = 1 /\ Quick

\* What a specification file may hold, and where a call may be.
Notes ==
    [by : Signed, via : {NamedAs[g] : g \in Agents} \ {None},
     text : {s.text : s \in Sayings}, about : {s.about : s \in Sayings},
     anchored : BOOLEAN, at : Nat, open : BOOLEAN, reopened : BOOLEAN]

FileStates ==
    [notes : Seq(Notes), hand : Nat, merge : {"none", "marked", "unmerged"}, whole : BOOLEAN]

Calls == {NoWrite} \cup [stage : {"checked", "read"}, note : Notes, seen : FileStates]

\* No note is of a later instant, and what is anchored exists.
FileOK ==
    /\ spec \in FileStates
    /\ \A i \in 1..Len(spec.notes) : /\ spec.notes[i].at <= now
                                     /\ spec.notes[i].anchored <=> spec.notes[i].about \in Parts
    /\ now \in Nat /\ written \in Nat /\ written <= MaxNotes
    /\ credential.who \in Signed \cup {None} /\ credential.verified \in BOOLEAN

\* Those of a person's notes that were recorded from an instant on, and those of one
\* window.
Since(notes, who, t) == {i \in 1..Len(notes) : notes[i].by = who /\ t <= notes[i].at}

HeldIn(notes, who, t) ==
    {i \in 1..Len(notes) : notes[i].by = who /\ notes[i].at \in t..(t + Span)}

SpansOK == \A p \in Signed : \A t \in Nat : Cardinality(HeldIn(spec.notes, p, t)) <= Allowance

\* What a call under way may rely on when it comes to write.
CallOK(g) ==
    /\ agent[g] # NoWrite =>
          /\ \A h \in Agents : h # g => agent[h] = NoWrite
          /\ written < MaxNotes
          /\ agent[g].note.at <= now
          /\ agent[g].note.anchored <=> agent[g].note.about \in Parts
          /\ Cardinality(Since(spec.notes, agent[g].note.by, agent[g].note.at - Span)) < Allowance
          /\ \A i \in Twins(spec.notes, agent[g].note) : spec.notes[i].reopened
    /\ agent[g].stage = "read" => agent[g].seen = spec /\ spec.merge = "none"

\* The inductive invariant: what is true of the file, with what each call may rely on.
AgentsInv ==
    /\ FileOK
    /\ agent \in [Agents -> Calls]
    /\ \A g \in Agents : CallOK(g)
    /\ SpansOK
    /\ OneOpenTwin

-----------------------------------------------------------------------------
\* The fields of a note, of a file and of a call.
LEMMA NoteFields ==
    ASSUME NEW n \in Notes
    PROVE  /\ n.by \in Signed /\ n.via \in {NamedAs[g] : g \in Agents} \ {None}
           /\ n.at \in Nat /\ n.open \in BOOLEAN /\ n.reopened \in BOOLEAN /\ n.anchored \in BOOLEAN
  BY DEF Notes

LEMMA FileFields ==
    ASSUME NEW f \in FileStates
    PROVE  /\ f.notes \in Seq(Notes) /\ f.hand \in Nat /\ f.whole \in BOOLEAN
           /\ f.merge \in {"none", "marked", "unmerged"}
           /\ Len(f.notes) \in Nat /\ DOMAIN f.notes = 1..Len(f.notes)
           /\ \A i \in 1..Len(f.notes) : f.notes[i] \in Notes
<1>1. f.notes \in Seq(Notes) /\ f.hand \in Nat /\ f.whole \in BOOLEAN
      /\ f.merge \in {"none", "marked", "unmerged"}
  BY DEF FileStates
<1> QED
  BY <1>1

LEMMA CallFields ==
    ASSUME NEW c \in Calls
    PROVE  /\ c.stage \in {"none", "checked", "read"}
           /\ c = NoWrite <=> c.stage = "none"
           /\ c # NoWrite => /\ c \in [stage : {"checked", "read"}, note : Notes, seen : FileStates]
                             /\ c.note \in Notes /\ c.seen \in FileStates
  BY DEF Calls, NoWrite

\* AgentsTypeOK follows from the invariant.
LEMMA AgentsTypes == AgentsInv => AgentsTypeOK
<1> SUFFICES ASSUME AgentsInv PROVE AgentsTypeOK
  OBVIOUS
<1>1. DOMAIN spec.notes = 1..Len(spec.notes) /\ \A i \in DOMAIN spec.notes : spec.notes[i] \in Notes
  BY FileFields DEF AgentsInv, FileOK
<1>2. \A g \in Agents : agent[g].stage \in {"none", "checked", "read"}
  BY CallFields DEF AgentsInv
<1>3. ASSUME NEW i \in DOMAIN spec.notes
      PROVE  /\ spec.notes[i].by \in Signed
             /\ spec.notes[i].via \in {NamedAs[g] : g \in Agents} \ {None}
             /\ spec.notes[i].at \in 0..now
             /\ spec.notes[i].anchored <=> spec.notes[i].about \in Parts
  <2>1. spec.notes[i].at <= now /\ now \in Nat
        /\ (spec.notes[i].anchored <=> spec.notes[i].about \in Parts)
    BY <1>1 DEF AgentsInv, FileOK
  <2> QED
    BY <1>1, <2>1, NoteFields
<1>4. /\ spec.merge \in {"none", "marked", "unmerged"} /\ written <= MaxNotes
      /\ credential.who \in Signed \cup {None} /\ credential.verified \in BOOLEAN
  BY FileFields DEF AgentsInv, FileOK
<1> QED
  BY <1>2, <1>3, <1>4, Zenon DEF AgentsTypeOK

\* So does WithinAllowance.
LEMMA AgentsWithin == AgentsInv => WithinAllowance
<1> SUFFICES ASSUME AgentsInv, NEW p \in Signed, NEW t \in 0..now
             PROVE  Cardinality({i \in DOMAIN spec.notes :
                        spec.notes[i].by = p /\ spec.notes[i].at \in t..(t + Span)}) <= Allowance
  BY Zenon DEF WithinAllowance
<1>1. t \in Nat
  BY DEF AgentsInv, FileOK
<1>2. DOMAIN spec.notes = 1..Len(spec.notes)
  BY FileFields DEF AgentsInv, FileOK
<1> QED
  BY <1>1, <1>2, Zenon DEF AgentsInv, SpansOK, HeldIn

-----------------------------------------------------------------------------
\* Notes that differ only in whether they are open count alike.
SameNotes(one, two) ==
    /\ Len(one) = Len(two)
    /\ \A i \in 1..Len(one) : /\ one[i].by = two[i].by /\ one[i].at = two[i].at
                              /\ one[i].via = two[i].via /\ one[i].about = two[i].about
                              /\ one[i].text = two[i].text /\ one[i].anchored = two[i].anchored

\* So the windows hold as many.
LEMMA SameCounts ==
    ASSUME NEW one, NEW two, SameNotes(one, two), NEW who, NEW t
    PROVE  /\ Since(one, who, t) = Since(two, who, t)
           /\ HeldIn(one, who, t) = HeldIn(two, who, t)
  BY DEF SameNotes, Since, HeldIn

\* What nothing is appended by keeps every call's grounds.
LEMMA CallStays ==
    ASSUME AgentsInv, NEW g \in Agents, agent'[g] = agent[g],
           \A h \in Agents : agent[h] = NoWrite => agent'[h] = NoWrite,
           written' = written, now' \in Nat, now <= now',
           SameNotes(spec.notes, spec'.notes),
           agent[g] # NoWrite =>
              \A i \in Twins(spec'.notes, agent[g].note) : spec'.notes[i].reopened,
           agent[g].stage = "read" => spec' = spec
    PROVE  CallOK(g)'
<1>1. CallOK(g) /\ agent[g] \in Calls
  BY DEF AgentsInv
<1>2. CASE agent[g] = NoWrite
  <2>1. agent[g].stage # "read"
    BY <1>2 DEF NoWrite
  <2> QED
    BY <1>2, <2>1 DEF CallOK
<1>3. CASE agent[g] # NoWrite
  <2>1. agent[g].note.at \in Nat /\ now \in Nat
    BY <1>1, <1>3, CallFields, NoteFields DEF AgentsInv, FileOK
  <2>2. Since(spec.notes, agent[g].note.by, agent[g].note.at - Span)
            = Since(spec'.notes, agent[g].note.by, agent[g].note.at - Span)
    BY SameCounts
  <2>3. agent'[g].note.at <= now'
    BY <1>1, <1>3, <2>1 DEF CallOK
  <2>4. Cardinality(Since(spec'.notes, agent'[g].note.by, agent'[g].note.at - Span)) < Allowance
    BY <1>1, <1>3, <2>2 DEF CallOK
  <2>5. \A i \in Twins(spec'.notes, agent'[g].note) : spec'.notes[i].reopened
    BY <1>3
  <2>6. /\ \A h \in Agents : h # g => agent'[h] = NoWrite
        /\ written' < MaxNotes
        /\ agent'[g].note.anchored <=> agent'[g].note.about \in Parts
    BY <1>1, <1>3, Zenon DEF CallOK
  <2>7. agent'[g].stage = "read" => agent'[g].seen = spec' /\ spec'.merge = "none"
    BY <1>1 DEF CallOK
  <2> QED
    BY <2>3, <2>4, <2>5, <2>6, <2>7, Zenon DEF CallOK
<1> QED
  BY <1>2, <1>3

-----------------------------------------------------------------------------
\* The invariant holds at first,
LEMMA AgentsInitHolds == AgentsInit => AgentsInv
<1> SUFFICES ASSUME AgentsInit PROVE AgentsInv
  OBVIOUS
<1>1. spec = [notes |-> <<>>, hand |-> 0, merge |-> "none", whole |-> TRUE]
      /\ spec.notes = <<>> /\ Len(spec.notes) = 0 /\ spec.merge = "none"
  BY DEF AgentsInit
<1>2. FileOK
  <2>1. spec \in FileStates
    BY <1>1 DEF FileStates
  <2>2. credential.who \in Signed /\ credential.verified \in BOOLEAN
    BY DEF AgentsInit
  <2>3. now = 0 /\ written = 0
    BY DEF AgentsInit
  <2> QED
    BY <1>1, <2>1, <2>2, <2>3, AgentsAssumption DEF FileOK
<1>3. \A g \in Agents : CallOK(g)
  BY DEF AgentsInit, CallOK, NoWrite
<1>4. SpansOK
  <2> SUFFICES ASSUME NEW p \in Signed, NEW t \in Nat
               PROVE  Cardinality(HeldIn(spec.notes, p, t)) <= Allowance
    BY DEF SpansOK
  <2>1. HeldIn(spec.notes, p, t) = {}
    BY <1>1 DEF HeldIn
  <2>2. Cardinality(HeldIn(spec.notes, p, t)) = 0
    BY <2>1, FS_EmptySet, Zenon
  <2> QED
    BY <2>2, AgentsAssumption
<1>5. OneOpenTwin
  BY <1>1 DEF OneOpenTwin
<1>6. agent \in [Agents -> Calls]
  BY DEF AgentsInit, Calls
<1> QED
  BY <1>2, <1>3, <1>4, <1>5, <1>6 DEF AgentsInv
-----------------------------------------------------------------------------
\* Nothing is under way while another call is.
LEMMA NobodyElse ==
    ASSUME OneAtATime, AgentsInv, Cardinality({h \in Agents : agent[h].stage # "none"}) < AtOnce
    PROVE  \A h \in Agents : agent[h] = NoWrite
<1> DEFINE busy == {h \in Agents : agent[h].stage # "none"}
<1>1. IsFiniteSet(busy)
  BY AgentsAssumption, FS_Subset
<1>2. Cardinality(busy) = 0
  BY <1>1, FS_CardinalityType DEF OneAtATime
<1>3. busy = {}
  BY <1>1, <1>2, FS_EmptySet
<1> QED
  BY <1>3, CallFields DEF AgentsInv

\* A file that is left alone holds the same notes.
LEMMA SameNotesItself == ASSUME NEW notes PROVE SameNotes(notes, notes)
  BY DEF SameNotes

\* A step that leaves the file alone keeps what is said of the file.
LEMMA FileStays ==
    ASSUME AgentsInv, spec' = spec, written' = written, now' \in Nat, now <= now',
           credential'.who \in Signed \cup {None}, credential'.verified \in BOOLEAN
    PROVE  FileOK' /\ SpansOK' /\ OneOpenTwin'
<1>1. FileOK'
  <2>1. ASSUME NEW i \in 1..Len(spec.notes) PROVE spec.notes[i].at <= now'
    <3>1. spec.notes[i].at \in Nat /\ spec.notes[i].at <= now /\ now \in Nat
      BY FileFields, NoteFields DEF AgentsInv, FileOK
    <3> QED
      BY <3>1
  <2> QED
    BY <2>1, Zenon DEF AgentsInv, FileOK
<1>2. SpansOK' /\ OneOpenTwin'
  BY DEF AgentsInv, SpansOK, HeldIn, OneOpenTwin
<1> QED
  BY <1>1, <1>2

\* record_observation, up to the append: its checks are what the call relies on.
LEMMA RecordHolds ==
    ASSUME OneAtATime, AgentsInv, NEW g \in Agents, NEW said \in Sayings, RecordObservation(g, said)
    PROVE  AgentsInv'
<1> DEFINE note == Candidate(g, said)
<1>1. /\ written < MaxNotes /\ MayWrite(g)
      /\ Cardinality({h \in Agents : agent[h].stage # "none"}) < AtOnce
      /\ Cardinality(Window(spec.notes, credential.who)) < Allowance
      /\ Twins(spec.notes, note) = {}
      /\ agent' = [agent EXCEPT ![g] = [stage |-> "checked", note |-> note, seen |-> spec]]
      /\ spec' = spec /\ credential' = credential /\ now' = now /\ written' = written
  BY Zenon DEF RecordObservation
<1>2. \A h \in Agents : agent[h] = NoWrite
  BY <1>1, NobodyElse
<1>3. /\ note.by = credential.who /\ note.via = NamedAs[g] /\ note.text = said.text
      /\ note.about = said.about /\ note.anchored = (said.about \in Parts) /\ note.at = now
      /\ note.open = TRUE /\ note.reopened = FALSE
      /\ note = [by |-> note.by, via |-> note.via, text |-> note.text, about |-> note.about,
                 anchored |-> note.anchored, at |-> note.at, open |-> note.open,
                 reopened |-> note.reopened]
  BY DEF Candidate, Anchored
<1>4. spec \in FileStates /\ now \in Nat
  BY DEF AgentsInv, FileOK
<1>5. note \in Notes
  <2>1. credential.who \in Signed /\ NamedAs[g] \in {NamedAs[h] : h \in Agents} \ {None}
    BY <1>1 DEF AgentsInv, FileOK, MayWrite
  <2> HIDE DEF note
  <2>2. note.text \in {s.text : s \in Sayings} /\ note.about \in {s.about : s \in Sayings}
    BY <1>3, Zenon
  <2>3. note.anchored \in BOOLEAN /\ note.open \in BOOLEAN /\ note.reopened \in BOOLEAN
    <3>1. (said.about \in Parts) \in BOOLEAN
      OBVIOUS
    <3>2. note.anchored \in BOOLEAN
      BY <1>3, <3>1, Zenon
    <3>3. note.open \in BOOLEAN /\ note.reopened \in BOOLEAN
      BY <1>3
    <3> QED
      BY <3>2, <3>3, Zenon
  <2>4. note.by \in Signed /\ note.via \in {NamedAs[h] : h \in Agents} \ {None} /\ note.at \in Nat
    BY <1>3, <1>4, <2>1
  <2> QED
    BY <1>3, <2>2, <2>3, <2>4, Zenon DEF Notes
<1>6. Since(spec.notes, note.by, note.at - Span) = Window(spec.notes, credential.who)
  <2>1. DOMAIN spec.notes = 1..Len(spec.notes)
    BY <1>4, FileFields
  <2> HIDE DEF note
  <2> QED
    BY <1>3, <2>1 DEF Since, Window
<1> DEFINE call == [stage |-> "checked", note |-> note, seen |-> spec]
<1>7. call \in Calls /\ call.stage = "checked" /\ call.note = note
  <2> HIDE DEF note
  <2> QED
    BY <1>4, <1>5 DEF Calls
<1>8. agent'[g] = call /\ (\A h \in Agents : h # g => agent'[h] = NoWrite)
      /\ agent' \in [Agents -> Calls]
  <2>1. agent' = [agent EXCEPT ![g] = call]
    BY <1>1
  <2> HIDE DEF call
  <2> QED
    BY <1>2, <1>7, <2>1 DEF AgentsInv
<1> HIDE DEF note, call
<1>9. CallOK(g)'
  <2>1. note.anchored <=> note.about \in Parts
    BY <1>3
  <2>2. note.at <= now
    BY <1>3, <1>4
  <2> QED
    BY <1>1, <1>6, <1>7, <1>8, <2>1, <2>2 DEF CallOK
<1>10. ASSUME NEW h \in Agents, h # g PROVE CallOK(h)'
  BY <1>8, <1>10 DEF CallOK, NoWrite
<1>11. FileOK' /\ SpansOK' /\ OneOpenTwin'
  <2>1. credential.who \in Signed \cup {None} /\ credential.verified \in BOOLEAN
    BY DEF AgentsInv, FileOK
  <2> QED
    BY <1>1, <1>4, <2>1, FileStays
<1> QED
  BY <1>8, <1>9, <1>10, <1>11 DEF AgentsInv

\* append, up to the write: a file in a merge ends the call.
LEMMA ReadHolds ==
    ASSUME OneAtATime, AgentsInv, NEW g \in Agents, ReadToAppend(g)
    PROVE  AgentsInv'
<1>1. /\ agent[g].stage = "checked"
      /\ spec' = spec /\ credential' = credential /\ now' = now /\ written' = written
  BY Zenon DEF ReadToAppend
<1>2. agent[g] \in Calls /\ agent[g] # NoWrite
  BY <1>1, CallFields DEF AgentsInv, NoWrite
<1>3. \A h \in Agents : h # g => agent[h] = NoWrite
  BY <1>2, Zenon DEF AgentsInv, CallOK
<1>4. spec \in FileStates /\ now \in Nat
  BY DEF AgentsInv, FileOK
<1>5. FileOK' /\ SpansOK' /\ OneOpenTwin'
  <2>1. credential.who \in Signed \cup {None} /\ credential.verified \in BOOLEAN
    BY DEF AgentsInv, FileOK
  <2> QED
    BY <1>1, <1>4, <2>1, FileStays
<1>6. CASE spec.whole /\ Mergeable
  <2> DEFINE call == [agent[g] EXCEPT !.stage = "read", !.seen = spec]
  <2>1. agent' = [agent EXCEPT ![g] = call]
    BY <1>6, Zenon DEF ReadToAppend, Document
  <2>2. agent[g] \in [stage : {"checked", "read"}, note : Notes, seen : FileStates]
    BY <1>2, CallFields
  <2>3. call \in Calls /\ call.stage = "read" /\ call.seen = spec /\ call.note = agent[g].note
    BY <1>4, <2>2 DEF Calls
  <2> HIDE DEF call
  <2>4. agent'[g] = call /\ (\A h \in Agents : h # g => agent'[h] = NoWrite)
        /\ agent' \in [Agents -> Calls]
    BY <1>3, <2>1, <2>3 DEF AgentsInv
  <2>5. spec.merge = "none"
    BY <1>6 DEF Mergeable
  <2>6. CallOK(g)
    BY DEF AgentsInv
  <2>7. CallOK(g)'
    BY <1>1, <1>2, <2>3, <2>4, <2>5, <2>6 DEF CallOK
  <2>8. ASSUME NEW h \in Agents, h # g PROVE CallOK(h)'
    BY <2>4, <2>8 DEF CallOK, NoWrite
  <2> QED
    BY <1>5, <2>4, <2>7, <2>8 DEF AgentsInv
<1>7. CASE ~(spec.whole /\ Mergeable)
  <2>1. agent' = [agent EXCEPT ![g] = NoWrite]
    BY <1>7, Zenon DEF ReadToAppend
  <2>2. (\A h \in Agents : agent'[h] = NoWrite) /\ agent' \in [Agents -> Calls]
    BY <1>3, <2>1 DEF AgentsInv, Calls
  <2>3. \A h \in Agents : CallOK(h)'
    BY <2>2 DEF CallOK, NoWrite
  <2> QED
    BY <1>5, <2>2, <2>3 DEF AgentsInv
<1> QED
  BY <1>6, <1>7
\* What is appended counts in the windows that it was counted for.
LEMMA WindowGrows ==
    ASSUME NEW notes \in Seq(Notes), NEW note \in Notes, NEW who, NEW t \in Nat,
           Cardinality(HeldIn(notes, who, t)) <= Allowance,
           note.by = who => Cardinality(Since(notes, who, note.at - Span)) < Allowance
    PROVE  Cardinality(HeldIn(Append(notes, note), who, t)) <= Allowance
<1> DEFINE more == Append(notes, note)
           n == Len(notes) + 1
<1>1. /\ Len(notes) \in Nat /\ Len(more) = n /\ more[n] = note
      /\ \A i \in 1..Len(notes) : more[i] = notes[i]
  OBVIOUS
<1>2. \A i \in 1..Len(notes) : notes[i].at \in Nat
  BY NoteFields
<1>3. note.at \in Nat /\ Span \in Nat
  BY NoteFields, AgentsAssumption
<1>4. IsFiniteSet(1..Len(notes))
  <2>1. 1 \in Int /\ Len(notes) \in Int
    BY <1>1
  <2> QED
    BY <2>1, FS_Interval, Zenon
<1>5. HeldIn(notes, who, t) \subseteq 1..Len(notes) /\ IsFiniteSet(HeldIn(notes, who, t))
  BY <1>4, FS_Subset DEF HeldIn
<1> HIDE DEF more
<1>6. CASE note.by = who /\ note.at \in t..(t + Span)
  <2> DEFINE before == Since(notes, who, note.at - Span)
  <2>1. before \subseteq 1..Len(notes) /\ IsFiniteSet(before)
    BY <1>4, FS_Subset DEF Since
  <2>2. HeldIn(notes, who, t) \subseteq before
    BY <1>2, <1>3, <1>6 DEF HeldIn, Since
  <2>3. HeldIn(more, who, t) \subseteq HeldIn(notes, who, t) \cup {n}
    BY <1>1 DEF HeldIn
  <2>4. Cardinality(HeldIn(notes, who, t)) < Allowance
    BY <1>6, <2>1, <2>2, FS_Subset, FS_CardinalityType, AgentsAssumption
  <2>5. n \notin HeldIn(notes, who, t)
    BY <1>1, <1>5
  <2>6. /\ IsFiniteSet(HeldIn(notes, who, t) \cup {n})
        /\ Cardinality(HeldIn(notes, who, t) \cup {n}) = Cardinality(HeldIn(notes, who, t)) + 1
    BY <1>5, <2>5, FS_AddElement
  <2>7. Cardinality(HeldIn(more, who, t)) <= Cardinality(HeldIn(notes, who, t) \cup {n})
    BY <2>3, <2>6, FS_Subset
  <2>8. IsFiniteSet(HeldIn(more, who, t))
    BY <2>3, <2>6, FS_Subset
  <2> QED
    BY <1>5, <2>4, <2>6, <2>7, <2>8, FS_CardinalityType, AgentsAssumption DEF more
<1>7. CASE ~(note.by = who /\ note.at \in t..(t + Span))
  <2>1. HeldIn(more, who, t) = HeldIn(notes, who, t)
    BY <1>1, <1>7 DEF HeldIn
  <2> QED
    BY <2>1 DEF more
<1> QED
  BY <1>6, <1>7

\* The write: it is where all that the call relied on is used.
LEMMA AppendHolds ==
    ASSUME OneAtATime, AgentsInv, NEW g \in Agents, AppendNote(g)
    PROVE  AgentsInv' /\ OnlyTheirNote /\ MergesAreLeftAlone
<1> DEFINE note == agent[g].note
<1>1. /\ agent[g].stage = "read"
      /\ spec' = [spec EXCEPT !.notes = Append(agent[g].seen.notes, note),
                              !.hand = agent[g].seen.hand, !.whole = TRUE]
      /\ agent' = [agent EXCEPT ![g] = NoWrite]
      /\ written' = written + 1
      /\ credential' = credential /\ now' = now
  BY Zenon DEF AppendNote
<1>2. agent[g] \in Calls /\ agent[g] # NoWrite
  BY <1>1, CallFields DEF AgentsInv, NoWrite
<1>3. /\ \A h \in Agents : h # g => agent[h] = NoWrite
      /\ written < MaxNotes
      /\ note.at <= now
      /\ note.anchored <=> note.about \in Parts
      /\ Cardinality(Since(spec.notes, note.by, note.at - Span)) < Allowance
      /\ \A i \in Twins(spec.notes, note) : spec.notes[i].reopened
      /\ agent[g].seen = spec /\ spec.merge = "none"
  BY <1>1, <1>2, Zenon DEF AgentsInv, CallOK
<1>4. spec \in FileStates /\ now \in Nat /\ written \in Nat
  BY DEF AgentsInv, FileOK
<1>5. note \in Notes
  BY <1>2, CallFields
<1> HIDE DEF note
<1> DEFINE n == Len(spec.notes) + 1
<1>6. /\ spec'.notes = Append(spec.notes, note) /\ spec'.hand = spec.hand /\ spec' \in FileStates
  <2>1. spec' = [spec EXCEPT !.notes = Append(spec.notes, note), !.hand = spec.hand, !.whole = TRUE]
    BY <1>1, <1>3 DEF note
  <2>2. Append(spec.notes, note) \in Seq(Notes)
    BY <1>4, <1>5, FileFields
  <2> QED
    BY <1>4, <2>1, <2>2 DEF FileStates
<1>7. /\ spec.notes \in Seq(Notes) /\ Len(spec.notes) \in Nat
      /\ Len(spec'.notes) = n /\ spec'.notes[n] = note
      /\ \A i \in 1..Len(spec.notes) : spec'.notes[i] = spec.notes[i]
      /\ DOMAIN spec'.notes = 1..n /\ DOMAIN spec.notes = 1..Len(spec.notes)
  <2>1. spec.notes \in Seq(Notes)
    BY <1>4, FileFields
  <2> QED
    BY <1>6, <2>1
<1>8. FileOK'
  <2>1. ASSUME NEW i \in 1..n
        PROVE  /\ spec'.notes[i].at <= now
               /\ spec'.notes[i].anchored <=> spec'.notes[i].about \in Parts
    <3>1. CASE i = n
      BY <1>3, <1>7, <3>1
    <3>2. CASE i \in 1..Len(spec.notes)
      <4>1. spec'.notes[i] = spec.notes[i]
        BY <1>7, <3>2
      <4>2. /\ spec.notes[i].at <= now
            /\ spec.notes[i].anchored <=> spec.notes[i].about \in Parts
        BY <3>2 DEF AgentsInv, FileOK
      <4> QED
        BY <4>1, <4>2
    <3> QED
      BY <1>7, <3>1, <3>2
  <2>2. credential.who \in Signed \cup {None} /\ credential.verified \in BOOLEAN
    BY DEF AgentsInv, FileOK
  <2>3. written' \in Nat /\ written' <= MaxNotes
    BY <1>1, <1>3, <1>4, AgentsAssumption
  <2> QED
    BY <1>1, <1>4, <1>6, <1>7, <2>1, <2>2, <2>3 DEF FileOK
<1>9. agent' \in [Agents -> Calls] /\ \A h \in Agents : agent'[h] = NoWrite
  BY <1>1, <1>3 DEF AgentsInv, Calls
<1>10. \A h \in Agents : CallOK(h)'
  BY <1>9 DEF CallOK, NoWrite
<1>11. SpansOK'
  <2> SUFFICES ASSUME NEW p \in Signed, NEW t \in Nat
               PROVE  Cardinality(HeldIn(spec'.notes, p, t)) <= Allowance
    BY DEF SpansOK
  <2>1. Cardinality(HeldIn(spec.notes, p, t)) <= Allowance
    BY DEF AgentsInv, SpansOK
  <2>2. note.by = p => Cardinality(Since(spec.notes, p, note.at - Span)) < Allowance
    BY <1>3
  <2> QED
    BY <1>5, <1>6, <1>7, <2>1, <2>2, WindowGrows
<1>12. OneOpenTwin'
  <2> SUFFICES ASSUME NEW i \in 1..n, NEW j \in 1..n, i # j,
                      spec'.notes[i].open, spec'.notes[j].open,
                      spec'.notes[i].via = spec'.notes[j].via,
                      spec'.notes[i].about = spec'.notes[j].about,
                      Same[spec'.notes[i].text] = Same[spec'.notes[j].text]
               PROVE  spec'.notes[i].reopened \/ spec'.notes[j].reopened
    BY <1>7, Zenon DEF OneOpenTwin
  <2>1. ASSUME NEW k \in 1..Len(spec.notes), spec.notes[k].open,
               spec.notes[k].via = note.via, spec.notes[k].about = note.about,
               Same[spec.notes[k].text] = Same[note.text]
        PROVE  spec.notes[k].reopened
    <3>1. k \in Twins(spec.notes, note)
      BY <1>7, <2>1, Zenon DEF Twins
    <3> QED
      BY <1>3, <3>1, Zenon
  <2>2. CASE i = n
    <3>1. j \in 1..Len(spec.notes) /\ spec'.notes[i] = note /\ spec'.notes[j] = spec.notes[j]
      BY <1>7, <2>2
    <3> QED
      BY <2>1, <3>1, Zenon
  <2>3. CASE j = n
    <3>1. i \in 1..Len(spec.notes) /\ spec'.notes[j] = note /\ spec'.notes[i] = spec.notes[i]
      BY <1>7, <2>3
    <3> QED
      BY <2>1, <3>1, Zenon
  <2>4. CASE i # n /\ j # n
    <3>1. /\ i \in 1..Len(spec.notes) /\ spec'.notes[i] = spec.notes[i]
          /\ j \in 1..Len(spec.notes) /\ spec'.notes[j] = spec.notes[j]
      BY <1>7, <2>4
    <3> QED
      BY <1>7, <3>1, Zenon DEF AgentsInv, OneOpenTwin
  <2> QED
    BY <2>2, <2>3, <2>4
<1>13. OnlyTheirNote
  <2>1. Front(Append(spec.notes, note)) = spec.notes
    BY <1>5, <1>7 DEF Front
  <2> QED
    BY <1>6, <2>1 DEF OnlyTheirNote
<1>14. MergesAreLeftAlone
  BY <1>3 DEF MergesAreLeftAlone
<1> QED
  BY <1>8, <1>9, <1>10, <1>11, <1>12, <1>13, <1>14 DEF AgentsInv
\* What people do to the notes of a file: nothing but close some and reopen some.
Turned(one, two) ==
    /\ SameNotes(one, two)
    /\ \A i \in 1..Len(one) :
          \/ two[i].open = one[i].open /\ two[i].reopened = one[i].reopened
          \/ one[i].open = TRUE /\ two[i].open = FALSE
          \/ one[i].open = FALSE /\ two[i].open = TRUE /\ two[i].reopened = TRUE

\* A person's change to the file, between two calls or before an append reads it.
LEMMA HandHolds ==
    ASSUME OneAtATime, AgentsInv, NEW file \in FileStates, ByHand(file), Turned(spec.notes, file.notes)
    PROVE  AgentsInv'
<1>1. /\ spec' = file /\ agent' = agent /\ credential' = credential /\ now' = now
      /\ written' = written
      /\ \A g \in Agents : agent[g].stage # "read"
  BY Zenon DEF ByHand, Settled, OneAtATime
<1>2. spec \in FileStates /\ now \in Nat
  BY DEF AgentsInv, FileOK
<1>3. /\ Len(spec.notes) = Len(spec'.notes)
      /\ DOMAIN spec.notes = 1..Len(spec.notes) /\ DOMAIN spec'.notes = 1..Len(spec.notes)
      /\ SameNotes(spec.notes, spec'.notes)
  BY <1>1, <1>2, FileFields DEF Turned, SameNotes
<1>4. ASSUME NEW i \in 1..Len(spec.notes)
      PROVE  /\ spec'.notes[i].at = spec.notes[i].at /\ spec'.notes[i].via = spec.notes[i].via
             /\ spec'.notes[i].about = spec.notes[i].about
             /\ spec'.notes[i].text = spec.notes[i].text
             /\ spec'.notes[i].anchored = spec.notes[i].anchored
  BY <1>3 DEF SameNotes
<1>5. ASSUME NEW i \in 1..Len(spec.notes), spec'.notes[i].open
      PROVE  \/ spec'.notes[i].reopened
             \/ spec.notes[i].open /\ spec'.notes[i].reopened = spec.notes[i].reopened
  BY <1>1, <1>5, Zenon DEF Turned
<1>6. FileOK'
  <2>1. ASSUME NEW i \in 1..Len(spec'.notes)
        PROVE  /\ spec'.notes[i].at <= now'
               /\ spec'.notes[i].anchored <=> spec'.notes[i].about \in Parts
    <3>1. i \in 1..Len(spec.notes)
      BY <1>3
    <3>2. /\ spec.notes[i].at <= now
          /\ spec.notes[i].anchored <=> spec.notes[i].about \in Parts
      BY <3>1 DEF AgentsInv, FileOK
    <3> QED
      BY <1>1, <1>4, <3>1, <3>2
  <2> QED
    BY <1>1, <2>1, Zenon DEF AgentsInv, FileOK
<1>7. SpansOK'
  <2> SUFFICES ASSUME NEW p \in Signed, NEW t \in Nat
               PROVE  Cardinality(HeldIn(spec'.notes, p, t)) <= Allowance
    BY DEF SpansOK
  <2>1. HeldIn(spec'.notes, p, t) = HeldIn(spec.notes, p, t)
    BY <1>3, SameCounts
  <2> QED
    BY <2>1 DEF AgentsInv, SpansOK
<1>8. OneOpenTwin'
  <2> SUFFICES ASSUME NEW i \in 1..Len(spec.notes), NEW j \in 1..Len(spec.notes), i # j,
                      spec'.notes[i].open, spec'.notes[j].open,
                      spec'.notes[i].via = spec'.notes[j].via,
                      spec'.notes[i].about = spec'.notes[j].about,
                      Same[spec'.notes[i].text] = Same[spec'.notes[j].text],
                      ~spec'.notes[i].reopened, ~spec'.notes[j].reopened
               PROVE  FALSE
    BY <1>3, Zenon DEF OneOpenTwin
  <2>1. /\ spec.notes[i].open /\ spec'.notes[i].reopened = spec.notes[i].reopened
        /\ spec.notes[j].open /\ spec'.notes[j].reopened = spec.notes[j].reopened
    BY <1>5, Zenon
  <2>2. /\ spec.notes[i].via = spec.notes[j].via /\ spec.notes[i].about = spec.notes[j].about
        /\ Same[spec.notes[i].text] = Same[spec.notes[j].text]
    BY <1>4, Zenon
  <2>3. spec.notes[i].reopened \/ spec.notes[j].reopened
    BY <1>3, <2>1, <2>2, Zenon DEF AgentsInv, OneOpenTwin
  <2> QED
    BY <2>1, <2>3, Zenon
<1>9. ASSUME NEW g \in Agents PROVE CallOK(g)'
  <2>1. ASSUME agent[g] # NoWrite, NEW i \in Twins(spec'.notes, agent[g].note)
        PROVE  spec'.notes[i].reopened
    <3>1. i \in 1..Len(spec.notes) /\ spec'.notes[i].open
      BY <1>3, <2>1, Zenon DEF Twins
    <3>2. CASE spec'.notes[i].reopened
      BY <3>2
    <3>3. CASE spec.notes[i].open /\ spec'.notes[i].reopened = spec.notes[i].reopened
      <4>1. i \in Twins(spec.notes, agent[g].note)
        BY <1>3, <1>4, <2>1, <3>1, <3>3, Zenon DEF Twins
      <4>2. spec.notes[i].reopened
        BY <2>1, <4>1, Zenon DEF AgentsInv, CallOK
      <4> QED
        BY <3>3, <4>2, Zenon
    <3> QED
      BY <1>5, <3>1, <3>2, <3>3, Zenon
  <2> QED
    BY <1>1, <1>2, <1>3, <2>1, CallStays
<1> QED
  BY <1>1, <1>6, <1>7, <1>8, <1>9 DEF AgentsInv

\* What a person turns or edits.
LEMMA EditHolds ==
    ASSUME OneAtATime, AgentsInv, PersonEdits
    PROVE  AgentsInv'
<1>1. spec \in FileStates
  BY DEF AgentsInv, FileOK
<1>2. ASSUME NEW i \in DOMAIN spec.notes,
             ByHand([spec EXCEPT !.notes[i].open = ~@, !.notes[i].reopened = ~spec.notes[i].open])
      PROVE  AgentsInv'
  <2> DEFINE note == spec.notes[i]
             turned == [note EXCEPT !.open = ~note.open, !.reopened = ~note.open]
             notes == [spec.notes EXCEPT ![i] = turned]
             file == [spec EXCEPT !.notes = notes]
  <2>1. i \in 1..Len(spec.notes) /\ note \in Notes /\ spec.notes \in Seq(Notes)
        /\ Len(spec.notes) \in Nat
    BY <1>1, FileFields
  <2>2. /\ turned \in Notes /\ turned.by = note.by /\ turned.at = note.at
        /\ turned.via = note.via /\ turned.about = note.about /\ turned.text = note.text
        /\ turned.anchored = note.anchored
        /\ turned.open = ~note.open /\ turned.reopened = ~note.open
    <3>1. note \in Notes
      BY <2>1
    <3> HIDE DEF note
    <3> QED
      BY <3>1 DEF Notes
  <2>3. [spec EXCEPT !.notes[i].open = ~@, !.notes[i].reopened = ~spec.notes[i].open] = file
    <3>1. note = [by |-> note.by, via |-> note.via, text |-> note.text, about |-> note.about,
                  anchored |-> note.anchored, at |-> note.at, open |-> note.open,
                  reopened |-> note.reopened]
      <4>1. note \in Notes
        BY <2>1
      <4> HIDE DEF note
      <4> QED
        BY <4>1 DEF Notes
    <3> QED
      BY <1>1, <2>1, <3>1 DEF FileStates
  <2> HIDE DEF turned
  <2>4. /\ notes \in Seq(Notes) /\ Len(notes) = Len(spec.notes) /\ notes[i] = turned
        /\ \A j \in 1..Len(spec.notes) : j # i => notes[j] = spec.notes[j]
    BY <2>1, <2>2
  <2> HIDE DEF notes
  <2>5. file \in FileStates /\ file.notes = notes
    BY <1>1, <2>4 DEF FileStates
  <2>6. note.open \in BOOLEAN
    BY <2>1, NoteFields
  <2>7. SameNotes(spec.notes, notes)
    BY <2>2, <2>4 DEF SameNotes
  <2>8. Turned(spec.notes, notes)
    BY <2>2, <2>4, <2>6, <2>7 DEF Turned
  <2> HIDE DEF file, note
  <2> QED
    BY <1>2, <2>3, <2>5, <2>8, HandHolds
<1>3. ASSUME NEW file \in FileStates, ByHand(file), file.notes = spec.notes PROVE AgentsInv'
  BY <1>3, SameNotesItself, HandHolds DEF Turned
<1>4. CASE ByHand([spec EXCEPT !.hand = @ + 1])
  <2>1. [spec EXCEPT !.hand = @ + 1] \in FileStates /\ [spec EXCEPT !.hand = @ + 1].notes = spec.notes
    BY <1>1 DEF FileStates
  <2> QED
    BY <1>3, <1>4, <2>1
<1>5. CASE ByHand([spec EXCEPT !.whole = TRUE])
  <2>1. [spec EXCEPT !.whole = TRUE] \in FileStates /\ [spec EXCEPT !.whole = TRUE].notes = spec.notes
    BY <1>1 DEF FileStates
  <2> QED
    BY <1>3, <1>5, <2>1
<1> QED
  BY <1>2, <1>4, <1>5, Zenon DEF PersonEdits
\* What a merge does to the file.
LEMMA MergeHolds ==
    ASSUME OneAtATime, AgentsInv, PersonMerges
    PROVE  AgentsInv'
<1>1. spec \in FileStates
  BY DEF AgentsInv, FileOK
<1>2. PICK file : ByHand(file)
            /\ \/ file = [spec EXCEPT !.merge = "marked"]
               \/ file = [spec EXCEPT !.merge = "unmerged", !.hand = @ + 1]
               \/ file = [spec EXCEPT !.merge = "none"]
  BY Zenon DEF PersonMerges
<1>3. file \in FileStates /\ file.notes = spec.notes
  <2>1. ASSUME NEW m \in {"marked", "unmerged", "none"}, NEW n \in {spec.hand, spec.hand + 1}
        PROVE  /\ [spec EXCEPT !.merge = m, !.hand = n] \in FileStates
               /\ [spec EXCEPT !.merge = m, !.hand = n].notes = spec.notes
    <3>1. n \in Nat
      BY <1>1, FileFields
    <3> QED
      BY <1>1, <3>1 DEF FileStates
  <2>2. \A m : [spec EXCEPT !.merge = m] = [spec EXCEPT !.merge = m, !.hand = spec.hand]
    BY <1>1 DEF FileStates
  <2> QED
    BY <1>2, <2>1, <2>2
<1> QED
  BY <1>2, <1>3, SameNotesItself, HandHolds DEF Turned

\* A server that stops.
LEMMA DeathHolds ==
    ASSUME OneAtATime, AgentsInv, NEW g \in Agents, AgentDies(g)
    PROVE  AgentsInv'
<1>1. /\ agent[g].stage # "none" /\ agent' = [agent EXCEPT ![g] = NoWrite]
      /\ spec' = spec \/ spec' = [spec EXCEPT !.whole = FALSE]
      /\ credential' = credential /\ now' = now /\ written' = written
  BY Zenon DEF AgentDies
<1>2. spec \in FileStates /\ now \in Nat
  BY DEF AgentsInv, FileOK
<1>3. \A h \in Agents : h # g => agent[h] = NoWrite
  <2>1. agent[g] # NoWrite
    BY <1>1 DEF NoWrite
  <2> QED
    BY <2>1, Zenon DEF AgentsInv, CallOK
<1>4. agent' \in [Agents -> Calls] /\ \A h \in Agents : agent'[h] = NoWrite
  BY <1>1, <1>3 DEF AgentsInv, Calls
<1>5. \A h \in Agents : CallOK(h)'
  BY <1>4 DEF CallOK, NoWrite
<1>6. spec' \in FileStates /\ spec'.notes = spec.notes
  BY <1>1, <1>2 DEF FileStates
<1>7. FileOK' /\ SpansOK' /\ OneOpenTwin'
  BY <1>1, <1>6, Zenon DEF AgentsInv, FileOK, SpansOK, OneOpenTwin
<1> QED
  BY <1>4, <1>5, <1>7 DEF AgentsInv

\* Time passing, and signing in and out.
LEMMA IdleHolds ==
    ASSUME AgentsInv, UNCHANGED <<spec, agent, written>>, now' \in Nat, now <= now',
           credential'.who \in Signed \cup {None}, credential'.verified \in BOOLEAN
    PROVE  AgentsInv'
<1>1. FileOK' /\ SpansOK' /\ OneOpenTwin'
  BY FileStays
<1>2. ASSUME NEW g \in Agents PROVE CallOK(g)'
  <2>1. agent[g] # NoWrite => \A i \in Twins(spec'.notes, agent[g].note) : spec'.notes[i].reopened
    BY Zenon DEF AgentsInv, CallOK
  <2> QED
    BY <2>1, SameNotesItself, CallStays
<1> QED
  BY <1>1, <1>2 DEF AgentsInv

\* and at every step.
LEMMA AgentsInvStays ==
    ASSUME OneAtATime, AgentsInv, [AgentsNext]_agentVars
    PROVE  AgentsInv'
<1>1. now \in Nat /\ credential.who \in Signed \cup {None} /\ credential.verified \in BOOLEAN
  BY DEF AgentsInv, FileOK
<1>2. CASE Credit
  <2>1. credential' \in [who : Signed \cup {None}, verified : BOOLEAN]
        /\ UNCHANGED <<spec, agent, written, now>>
    BY <1>2 DEF Credit
  <2>2. credential'.who \in Signed \cup {None} /\ credential'.verified \in BOOLEAN
    BY <2>1
  <2> QED
    BY <1>1, <2>1, <2>2, IdleHolds
<1>3. CASE AgentsTick
  BY <1>1, <1>3, IdleHolds DEF AgentsTick
<1>4. CASE UNCHANGED agentVars
  BY <1>1, <1>4, IdleHolds DEF agentVars
<1> QED
  BY <1>2, <1>3, <1>4, RecordHolds, ReadHolds, AppendHolds, DeathHolds, EditHolds, MergeHolds, Zenon
     DEF AgentsNext

\* Only an append writes.
LEMMA WrittenByAppend ==
    ASSUME OneAtATime, AgentsInv, [AgentsNext]_agentVars
    PROVE  OnlyTheirNote /\ MergesAreLeftAlone
<1>1. written' = written \/ \E g \in Agents : AppendNote(g)
  BY Zenon DEF AgentsNext, RecordObservation, ReadToAppend, AgentDies, PersonEdits, PersonMerges,
               ByHand, Credit, AgentsTick, agentVars
<1>2. ASSUME written' = written PROVE OnlyTheirNote /\ MergesAreLeftAlone
  BY <1>2 DEF OnlyTheirNote, MergesAreLeftAlone
<1> QED
  BY <1>1, <1>2, AppendHolds

\* AgentsAreBounded, for any agents, people, allowance and window, where one call is
\* under way at a time: none is over its allowance in any window, none repeats an open
\* note, and an append changes nothing but what it adds, in no unresolved merge.
THEOREM AgentsStayBounded == ASSUME OneAtATime PROVE AgentsSpec => AgentsAreBounded
<1>1. AgentsInit => AgentsInv
  BY AgentsInitHolds
<1>2. AgentsInv /\ [AgentsNext]_agentVars => AgentsInv'
  BY AgentsInvStays
<1>3. AgentsInv /\ [AgentsNext]_agentVars => OnlyTheirNote /\ MergesAreLeftAlone
  BY WrittenByAppend
<1>4. AgentsInv => AgentsTypeOK /\ WithinAllowance /\ OneOpenTwin
  BY AgentsTypes, AgentsWithin DEF AgentsInv
<1> QED
  BY <1>1, <1>2, <1>3, <1>4, PTL DEF AgentsSpec, AgentsAreBounded
=============================================================================
