----------------------------- MODULE HostedIndex -----------------------------
(***************************************************************************)
(* The search index of a hosted project and what one service process says  *)
(* of it: the sync that moves the served revision and submits a pass, the  *)
(* runner that rebuilds the rows when the journal says they are not        *)
(* current, the readers that answer from the rows, and the write-backs     *)
(* that move HEAD meanwhile.                                               *)
(*                                                                         *)
(* Commits are numbered as they are made, and a specification's content is *)
(* the number of the commit that wrote it.  HostedRepository says how HEAD *)
(* moves; here a write-back is its commit, and the push or the reset that  *)
(* ends it.  An unreadable specification has no row and is forgotten, as a *)
(* removed one is: both are Nothing.                                       *)
(***************************************************************************)
EXTENDS Integers, Sequences

CONSTANTS
    Specs,          \* specification files
    MaxCommits,     \* bound: commits made
    MaxRaises,      \* bound: calls to the database or the remote that raise
    MaxRefusals,    \* bound: rebuilds refused before their first row
    MaxRestarts,    \* bound: restarts of the process
    PushesRace,     \* whether a push may be refused, and its commit discarded
    EntryReads      \* whether single entries are read, and refreshed when stale

ASSUME IndexAssumption ==
    /\ {MaxCommits, MaxRaises, MaxRefusals, MaxRestarts} \subseteq Nat
    /\ MaxCommits > 0
    /\ PushesRace \in BOOLEAN /\ EntryReads \in BOOLEAN

VARIABLES
    trees,      \* the content of every specification at every commit made
    published,  \* the remote's branch
    head, base, \* HEAD of the copy (0: no copy), and the branch it is ahead of
    ready,      \* whether this process serves HEAD
    writer,     \* the thread whose commit is not pushed yet
    syncing,    \* whether a sync has fetched and is about to submit
    pending,    \* BackgroundWork._pending
    runner,     \* where the runner's pass is
    noted, pin, \* the revision a rebuild will record, and the one it reads
    todo,       \* the specifications a rebuild has still to look at
    rows,       \* the index: content, and fingerprint of the file it came from
    built, rebuilding,  \* the journal: indexed revision, rebuild under way
    reader,     \* where the read in hand is, and what it holds
    answer,     \* the last exhaustive answer
    raises, refusals, restarts

repository == <<trees, published, head, base, ready, writer>>
journal == <<built, rebuilding>>
pass == <<pending, runner, noted, pin, todo>>
reads == <<reader, answer>>
environment == <<raises, refusals, restarts>>
vars == <<repository, syncing, pass, rows, journal, reads, environment>>

-----------------------------------------------------------------------------
Nothing == 0
Commits == 1..MaxCommits
Tree == [Specs -> Commits \cup {Nothing}]
Row == [content : Commits, file : Commits \cup {Nothing}]
NoRow == [content |-> Nothing, file |-> Nothing]
Rows == [Specs -> Row \cup {NoRow}]

\* Reads in hand: none, a listing not yet answered, an entry's revision, and
\* an entry found stale with the file it will be re-read for.
NoRead == [stage |-> "idle"]
Readers ==
    {NoRead}
    \cup [stage : {"listed"}, rows : Rows]
    \cup [stage : {"pinned"}, at : Commits]
    \cup [stage : {"stale"}, at : Commits, spec : Specs, file : Commits \cup {Nothing}]

NoAnswer == [kind |-> "none"]
Unavailable == [kind |-> "unavailable"]

TypeOK ==
    /\ trees \in Seq(Tree) /\ Len(trees) \in Commits
    /\ published \in 1..Len(trees)
    /\ head \in 0..Len(trees) /\ base \in 0..Len(trees)
    /\ ready \in BOOLEAN /\ (ready => head # 0)
    /\ writer \in {"none", "loop", "runner"}
    /\ syncing \in BOOLEAN /\ pending \in BOOLEAN
    /\ runner \in {"waiting", "started", "building", "noted", "rows", "validating"}
    /\ noted \in 0..Len(trees) /\ pin \in 0..Len(trees)
    /\ todo \subseteq Specs
    /\ rows \in Rows
    /\ built \in 0..Len(trees) /\ rebuilding \in BOOLEAN
    /\ reader \in Readers
    /\ answer \in {NoAnswer, Unavailable} \cup [kind : {"listing"}, rows : Rows]
    /\ raises \in 0..MaxRaises /\ refusals \in 0..MaxRefusals
    /\ restarts \in 0..MaxRestarts

Init ==
    /\ trees = <<[s \in Specs |-> 1]>> /\ published = 1
    /\ head = 0 /\ base = 0 /\ ready = FALSE /\ writer = "none"
    /\ syncing = FALSE /\ pending = FALSE
    /\ runner = "waiting" /\ noted = 0 /\ pin = 0 /\ todo = {}
    /\ rows = [s \in Specs |-> NoRow]
    /\ built = 0 /\ rebuilding = FALSE
    /\ reader = NoRead /\ answer = NoAnswer
    /\ raises = 0 /\ refusals = 0 /\ restarts = 0

Raises == raises < MaxRaises /\ raises' = raises + 1

-----------------------------------------------------------------------------
(* HEAD moves.                                                             *)

\* A tree with one specification rewritten, or removed, on top of another.
Committed(parent) ==
    /\ Len(trees) < MaxCommits
    /\ \E s \in Specs, content \in {Len(trees) + 1, Nothing} :
          trees' = Append(trees, [trees[parent] EXCEPT ![s] = content])

OutsidePush ==
    /\ PushesRace \/ head = base
    /\ Committed(published)
    /\ published' = Len(trees')
    /\ UNCHANGED <<head, base, ready, writer, syncing, pass, rows, journal, reads,
                   environment>>

\* A write-back commits: in a handler, on the event loop that reads run on, or
\* in the validation the runner ends its pass with.  HEAD is served at once.
Commit(thread) ==
    /\ ready /\ writer = "none"
    /\ PushesRace \/ base = published
    /\ IF thread = "loop" THEN reader = NoRead ELSE runner = "validating"
    /\ Committed(head)
    /\ head' = Len(trees')
    /\ writer' = thread
    /\ UNCHANGED <<published, base, ready, syncing, pass, rows, journal, reads,
                   environment>>

PushLands ==
    /\ writer # "none" /\ published = base
    /\ published' = head /\ base' = head
    /\ writer' = "none"
    /\ UNCHANGED <<trees, head, ready, syncing, pass, rows, journal, reads, environment>>

PushRefused ==
    /\ writer # "none" /\ PushesRace
    /\ head' \in {base, published} /\ base' = head'
    /\ writer' = "none"
    /\ UNCHANGED <<trees, published, ready, syncing, pass, rows, journal, reads,
                   environment>>

\* sync: clone or adopt the copy, then fetch.  A fetch that fails, or that finds
\* unpushed commits, leaves HEAD alone; a clone that fails leaves nothing to
\* serve, and the pass is submitted all the same.
Sync ==
    /\ ~syncing /\ writer = "none"
    /\ \/ /\ head' = IF head = base THEN published ELSE head
          /\ base' = IF head = base THEN published ELSE base
          /\ UNCHANGED raises
       \/ Raises /\ UNCHANGED <<head, base>>
    /\ ready' = (head' # 0) /\ syncing' = TRUE
    /\ UNCHANGED <<trees, published, writer, pass, rows, journal, reads, refusals,
                   restarts>>

SyncSubmits ==
    /\ syncing
    /\ syncing' = FALSE /\ pending' = TRUE
    /\ UNCHANGED <<repository, runner, noted, pin, todo, rows, journal, reads,
                   environment>>

-----------------------------------------------------------------------------
(* One pass of the runner: indexed_first, rebuild_and_record, rebuild_index. *)

\* The project leaves _pending before the job runs.
Start ==
    /\ runner = "waiting" /\ pending
    /\ runner' = "started" /\ pending' = FALSE
    /\ UNCHANGED <<repository, syncing, noted, pin, todo, rows, journal, reads,
                   environment>>

\* in_sync, the comparison /status publishes.
InSync == ready /\ built = head

\* Mutant of Skip: an index that was ever built is current enough.
SkipOnceBuilt ==
    /\ runner = "started" /\ ready /\ built # 0
    /\ runner' = "validating"
    /\ UNCHANGED <<repository, syncing, pending, noted, pin, todo, rows, journal, reads,
                   environment>>

Skip ==
    /\ runner = "started" /\ InSync
    /\ runner' = "validating"
    /\ UNCHANGED <<repository, syncing, pending, noted, pin, todo, rows, journal, reads,
                   environment>>

\* With nothing to serve, asking for the revision served raises ProjectNotReady,
\* and the job ends before the journal is touched.
NotReady ==
    /\ runner = "started" /\ ~ready
    /\ runner' = "waiting"
    /\ UNCHANGED <<repository, syncing, pending, noted, pin, todo, rows, journal, reads,
                   environment>>

Build ==
    /\ runner = "started" /\ ready /\ ~InSync
    /\ runner' = "building" /\ rebuilding' = TRUE
    /\ UNCHANGED <<repository, syncing, pending, noted, pin, todo, rows, built, reads,
                   environment>>

\* revision = _revision_of(project): what will be recorded.
Note ==
    /\ runner = "building"
    /\ runner' = "noted" /\ noted' = head
    /\ UNCHANGED <<repository, syncing, pending, pin, todo, rows, journal, reads,
                   environment>>

\* rebuild_project_index asks the host again what is served, and reads that.
Pin ==
    /\ runner = "noted"
    /\ runner' = "rows" /\ pin' = head
    /\ todo' = {s \in Specs : trees[head][s] # Nothing \/ rows[s] # NoRow}
    /\ UNCHANGED <<repository, syncing, pending, noted, rows, journal, reads,
                   environment>>

\* Mutant of RowsAt: a rebuild that writes the rows it can and forgets none.
RowsKept(s) ==
    IF trees[pin][s] = Nothing
    THEN rows[s]
    ELSE [content |-> trees[pin][s], file |-> trees[head][s]]

\* The row of a specification at the pinned revision; its fingerprint is the
\* working copy's.
RowsAt(s) ==
    IF trees[pin][s] = Nothing
    THEN NoRow
    ELSE [content |-> trees[pin][s], file |-> trees[head][s]]

\* One upsert, or, once every specification has been read, one forget.
WriteRow(s) ==
    /\ runner = "rows" /\ s \in todo
    /\ trees[pin][s] = Nothing => \A t \in todo : trees[pin][t] = Nothing
    /\ rows' = [rows EXCEPT ![s] = RowsAt(s)]
    /\ todo' = todo \ {s}
    /\ UNCHANGED <<repository, syncing, pending, runner, noted, pin, journal, reads,
                   environment>>

\* Mutant of Finish: the revision served at the end is recorded.
FinishAtHead ==
    /\ runner = "rows" /\ todo = {}
    /\ runner' = "validating"
    /\ built' = head /\ rebuilding' = FALSE
    /\ UNCHANGED <<repository, syncing, pending, noted, pin, todo, rows, reads,
                   environment>>

\* journal.built: the revision noted before the rows were read.
Finish ==
    /\ runner = "rows" /\ todo = {}
    /\ runner' = "validating"
    /\ built' = noted /\ rebuilding' = FALSE
    /\ UNCHANGED <<repository, syncing, pending, noted, pin, todo, rows, reads,
                   environment>>

\* A refusal, before the first row: the project file does not load.  The pass
\* goes on to its validation.
Refuse ==
    /\ runner = "noted" /\ refusals < MaxRefusals
    /\ refusals' = refusals + 1
    /\ runner' = "validating" /\ rebuilding' = FALSE
    /\ UNCHANGED <<repository, syncing, pending, noted, pin, todo, rows, built, reads,
                   raises, restarts>>

\* Mutant of Raise: the flag is taken down on the way out.
RaiseUnflagged ==
    /\ runner = "rows" /\ Raises
    /\ runner' = "waiting" /\ todo' = {} /\ rebuilding' = FALSE
    /\ UNCHANGED <<repository, syncing, pending, noted, pin, rows, built, reads,
                   refusals, restarts>>

\* Anything else ends the job, and the runner goes back to its queue with the
\* rows half written.
Raise ==
    /\ runner = "rows" /\ Raises
    /\ runner' = "waiting" /\ todo' = {}
    /\ UNCHANGED <<repository, syncing, pending, noted, pin, rows, journal, reads,
                   refusals, restarts>>

\* The validation that ends the pass is done, and its write-back if it had one.
EndPass ==
    /\ runner = "validating" /\ writer # "runner"
    /\ runner' = "waiting"
    /\ UNCHANGED <<repository, syncing, pending, noted, pin, todo, rows, journal, reads,
                   environment>>

-----------------------------------------------------------------------------
(* Reads, one at a time on the event loop.                                 *)

\* A listing or a search reads the rows ...
List ==
    /\ ready /\ reader = NoRead /\ writer # "loop"
    /\ reader' = [stage |-> "listed", rows |-> rows]
    /\ UNCHANGED <<repository, syncing, pass, rows, journal, answer, environment>>

\* ... and served_from_index then asks whether they are being rebuilt.
AnswerList ==
    /\ reader.stage = "listed"
    /\ answer' = IF rebuilding THEN Unavailable
                 ELSE [kind |-> "listing", rows |-> reader.rows]
    /\ reader' = NoRead
    /\ UNCHANGED <<repository, syncing, pass, rows, journal, environment>>

\* read_at_revision pins HEAD, current_entry compares the row's fingerprint
\* with the file's, and _reread writes the row from the pinned revision.
ReadEntry ==
    /\ EntryReads
    /\ ready /\ reader = NoRead /\ writer # "loop"
    /\ reader' = [stage |-> "pinned", at |-> head]
    /\ UNCHANGED <<repository, syncing, pass, rows, journal, answer, environment>>

CompareEntry(s) ==
    /\ reader.stage = "pinned"
    /\ reader' = IF rows[s] = NoRow \/ rows[s].file = trees[head][s]
                 THEN NoRead
                 ELSE [stage |-> "stale", at |-> reader.at, spec |-> s,
                       file |-> trees[head][s]]
    /\ UNCHANGED <<repository, syncing, pass, rows, journal, answer, environment>>

RefreshEntry ==
    /\ reader.stage = "stale"
    /\ LET content == trees[reader.at][reader.spec] IN
       rows' = IF content = Nothing THEN rows
               ELSE [rows EXCEPT ![reader.spec] =
                        [content |-> content, file |-> reader.file]]
    /\ reader' = NoRead
    /\ UNCHANGED <<repository, syncing, pass, journal, answer, environment>>

-----------------------------------------------------------------------------
\* The process restarts: the copy and the rows survive it, the journal and the
\* queue do not.
Restart ==
    /\ restarts < MaxRestarts
    /\ restarts' = restarts + 1
    /\ ready' = FALSE /\ writer' = "none" /\ syncing' = FALSE
    /\ pending' = FALSE /\ runner' = "waiting" /\ todo' = {}
    /\ built' = 0 /\ rebuilding' = FALSE
    /\ reader' = NoRead /\ answer' = NoAnswer
    /\ UNCHANGED <<trees, published, head, base, noted, pin, rows, raises, refusals>>

Pass ==
    \/ Start \/ Skip \/ NotReady \/ Build \/ Note \/ Pin
    \/ Finish \/ Refuse \/ Raise \/ EndPass
    \/ \E s \in Specs : WriteRow(s)

Read ==
    \/ List \/ AnswerList \/ ReadEntry \/ RefreshEntry
    \/ \E s \in Specs : CompareEntry(s)

Next ==
    \/ OutsidePush \/ Commit("loop") \/ Commit("runner") \/ PushLands \/ PushRefused
    \/ Sync \/ SyncSubmits
    \/ Pass \/ Read
    \/ Restart

Spec == Init /\ [][Next]_vars

\* The ticker calls sync for ever, the runner drains its queue for ever, and a
\* push that is under way ends.
FairSpec ==
    /\ Spec
    /\ WF_vars(Sync) /\ WF_vars(SyncSubmits)
    /\ WF_vars(Pass)
    /\ WF_vars(PushLands \/ PushRefused)

-----------------------------------------------------------------------------
\* The rows are those of a revision: each specification's content, and no other.
WholeAt(index, revision) == \A s \in Specs : index[s].content = trees[revision][s]

\* "Whether the index matches the working copy's current revision": when the
\* journal says so, and no rebuild is under way, it does.
InSyncIsTrue == InSync /\ ~rebuilding => WholeAt(rows, head)

\* Once a process has built the index, rows that are of no revision at all are
\* never behind a journal that says no rebuild is under way.
PartialIsFlagged ==
    built # 0 /\ ~rebuilding => \E r \in 1..Len(trees) : WholeAt(rows, r)

\* "Reads that cannot be served from the partial index SHALL report
\* unavailability rather than an incomplete answer": a listing is the listing
\* of one revision.
ListingsAreWhole ==
    answer.kind = "listing" => \E r \in 1..Len(trees) : WholeAt(answer.rows, r)

\* Whatever fails on the way, the index ends up being, and being known to be,
\* that of the revision served.
CatchesUp == <>[](InSync /\ ~rebuilding /\ WholeAt(rows, head))

\* With readers refreshing entries of their own, the journal at least settles:
\* a rebuild always ends, and no refusal to read rows outlives it.
JournalSettles == <>[](InSync /\ ~rebuilding)

=============================================================================
