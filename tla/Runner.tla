------------------------------- MODULE Runner -------------------------------
(***************************************************************************)
(* The background runner and what feeds it: a ticker that syncs every      *)
(* project for ever, notifications that sync one at once and may be lost,  *)
(* one queue, one thread.  A sync fetches, then submits; a pass works on   *)
(* the working copy as it is when it starts.                               *)
(***************************************************************************)
EXTENDS Naturals, SequencesExt

CONSTANTS Projects, MaxCommits

ASSUME RunnerAssumption == MaxCommits \in Nat

VARIABLES
    branch,     \* the commits on each project's remote
    fetched,    \* how many of them the working copy has
    begun,      \* how many the last pass began with
    validated,  \* how many the last pass that did not raise began with
    hooks,      \* notifications under way
    driver,     \* what the ticker's thread and the event loop are at
    queue, pending, done,
    thread      \* what the runner's thread is at

runnerVars == <<branch, fetched, begun, validated, hooks, driver, queue, pending, done, thread>>

Drivers == {"ticker", "loop"}
At(stage, p) == [at |-> stage, project |-> p]
Resting == CHOOSE p \in Projects : TRUE
Waiting == At("waiting", Resting)

RunnerTypeOK ==
    /\ \A p \in Projects : begun[p] <= fetched[p] /\ fetched[p] <= branch[p]
    /\ ToSet(queue) \subseteq pending /\ pending \subseteq Projects
    /\ IsInjective(queue)
    /\ \A d \in Drivers : driver[d].at \in {"waiting", "syncing", "fetched", "putting"}
    /\ thread.at \in {"waiting", "took", "running"}
    /\ hooks \subseteq Projects /\ done \in BOOLEAN

RunnerInit ==
    /\ branch = [p \in Projects |-> 0]
    /\ fetched = branch /\ begun = branch /\ validated = branch
    /\ hooks = {}
    /\ driver = [d \in Drivers |-> Waiting]
    /\ queue = <<>> /\ pending = {} /\ done = TRUE
    /\ thread = Waiting

-----------------------------------------------------------------------------
CommitLands(p) ==
    /\ branch[p] < MaxCommits
    /\ branch' = [branch EXCEPT ![p] = @ + 1]
    /\ hooks' \in {hooks, hooks \cup {p}}
    /\ UNCHANGED <<fetched, begun, validated, driver, queue, pending, done, thread>>

HookLost(p) ==
    /\ p \in hooks
    /\ hooks' = hooks \ {p}
    /\ UNCHANGED <<branch, fetched, begun, validated, driver, queue, pending, done, thread>>

\* repository_notified: the sync runs on the event loop.
Notified(p) ==
    /\ p \in hooks /\ driver["loop"].at = "waiting"
    /\ hooks' = hooks \ {p}
    /\ driver' = [driver EXCEPT !["loop"] = At("syncing", p)]
    /\ UNCHANGED <<branch, fetched, begun, validated, queue, pending, done, thread>>

\* The schedule's next sync.
Tick(p) ==
    /\ driver["ticker"].at = "waiting"
    /\ driver' = [driver EXCEPT !["ticker"] = At("syncing", p)]
    /\ UNCHANGED <<branch, fetched, begun, validated, hooks, queue, pending, done, thread>>

\* _obtain fails: the attempt is journalled and nothing is submitted.
Unobtained(d) ==
    /\ driver[d].at = "syncing"
    /\ driver' = [driver EXCEPT ![d] = Waiting]
    /\ UNCHANGED <<branch, fetched, begun, validated, hooks, queue, pending, done, thread>>

\* refresh_and_record, whether or not the remote answered.
Refreshed(d) ==
    LET p == driver[d].project
    IN  /\ driver[d].at = "syncing"
        /\ fetched' \in {fetched, [fetched EXCEPT ![p] = branch[p]]}
        /\ driver' = [driver EXCEPT ![d] = At("fetched", p)]
        /\ UNCHANGED <<branch, begun, validated, hooks, queue, pending, done, thread>>

RefreshReaches(d) == Refreshed(d) /\ fetched'[driver[d].project] = branch[driver[d].project]

\* Mutant of Submitting: only a sync that brought something submits.
SubmittingNews(p) == p \notin pending /\ fetched[p] > begun[p]

\* Mutant of Submitting: a name already queued is queued again.
SubmittingAgain(p) == TRUE

\* submit: one entry of a name in the queue.
Submitting(p) == p \notin pending

\* submit, under the guard ...
Submit(d) ==
    LET p == driver[d].project
    IN  /\ driver[d].at = "fetched"
        /\ \/ /\ Submitting(p)
              /\ pending' = pending \cup {p} /\ done' = FALSE
              /\ driver' = [driver EXCEPT ![d] = At("putting", p)]
           \/ /\ ~Submitting(p)
              /\ driver' = [driver EXCEPT ![d] = Waiting]
              /\ UNCHANGED <<pending, done>>
        /\ UNCHANGED <<branch, fetched, begun, validated, hooks, queue, thread>>

\* ... and after it.
Put(d) ==
    /\ driver[d].at = "putting"
    /\ queue' = Append(queue, driver[d].project)
    /\ driver' = [driver EXCEPT ![d] = Waiting]
    /\ UNCHANGED <<branch, fetched, begun, validated, hooks, pending, done, thread>>

\* _drain: taken off the queue.
Take ==
    /\ thread.at = "waiting" /\ queue # <<>>
    /\ thread' = At("took", Head(queue))
    /\ queue' = Tail(queue)
    /\ UNCHANGED <<branch, fetched, begun, validated, hooks, driver, pending, done>>

\* Mutant of Dropped: the name leaves once its pass is over.
DroppedLate(p, when) == IF when = "after" THEN pending \ {p} ELSE pending

\* The name leaves _pending before the pass runs.
Dropped(p, when) == IF when = "before" THEN pending \ {p} ELSE pending

\* _started, and the pass begins.
Started ==
    LET p == thread.project
    IN  /\ thread.at = "took"
        /\ pending' = Dropped(p, "before")
        /\ begun' = [begun EXCEPT ![p] = fetched[p]]
        /\ thread' = At("running", p)
        /\ UNCHANGED <<branch, fetched, validated, hooks, driver, queue, done>>

\* _run and _finished, whatever the pass raised.
Finished(raised) ==
    LET p == thread.project
    IN  /\ thread.at = "running"
        /\ validated' = IF raised THEN validated ELSE [validated EXCEPT ![p] = begun[p]]
        /\ pending' = Dropped(p, "after")
        /\ done' = (done \/ pending' = {})
        /\ thread' = Waiting
        /\ UNCHANGED <<branch, fetched, begun, hooks, driver, queue>>

RunnerNext ==
    \/ \E p \in Projects : CommitLands(p) \/ HookLost(p) \/ Notified(p) \/ Tick(p)
    \/ \E d \in Drivers : Unobtained(d) \/ Refreshed(d) \/ Submit(d) \/ Put(d)
    \/ Take \/ Started \/ \E raised \in BOOLEAN : Finished(raised)

\* The ticker never stops, a thread that can go on does, and what fails now and
\* then - a fetch, a pass - succeeds now and then.
RunnerFairness ==
    /\ \A p \in Projects : SF_runnerVars(Tick(p))
    /\ \A d \in Drivers : /\ WF_runnerVars(Submit(d)) /\ WF_runnerVars(Put(d))
                          /\ WF_runnerVars((Unobtained(d) \/ Refreshed(d)))
    /\ \A p \in Projects :
          SF_runnerVars(driver["ticker"].project = p /\ RefreshReaches("ticker"))
    /\ WF_runnerVars(Take) /\ WF_runnerVars(Started)
    /\ WF_runnerVars(\E raised \in BOOLEAN : Finished(raised))
    /\ \A p \in Projects : SF_runnerVars(thread.project = p /\ Finished(FALSE))

RunnerSpec == RunnerInit /\ [][RunnerNext]_runnerVars /\ RunnerFairness

-----------------------------------------------------------------------------
\* "Block until nothing is queued or running": when the runner says it is done,
\* every submission that returned has had a pass that began after it, so no
\* pass is owed for anything a sync had fetched.
DoneMeansSwept ==
    done => \A p \in Projects :
        \/ begun[p] = fetched[p]
        \/ \E d \in Drivers : driver[d] = At("fetched", p)

\* "a webhook is lost ...; a timer is not": with every notification lost and any
\* fetch or pass failing now and then, every commit is validated in the end.
TimerCatchesUp == \A p \in Projects : []<>(validated[p] = branch[p])

\* What the runner says it did it did.
SweepsAreDone ==
    /\ RunnerTypeOK
    /\ DoneMeansSwept

=============================================================================
