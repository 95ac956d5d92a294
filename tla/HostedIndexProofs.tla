-------------------------- MODULE HostedIndexProofs --------------------------
(***************************************************************************)
(* Theorems about HostedIndex, for any number of specifications, commits,  *)
(* failures and restarts.                                                  *)
(***************************************************************************)
EXTENDS HostedIndex, TLAPS

USE IndexAssumption

-----------------------------------------------------------------------------
(* Types.  A rebuild and a reader look a revision up in the commits made;  *)
(* Placed is what makes those revisions exist.                             *)

Rebuilding == {"building", "noted", "rows"}

Placed ==
    /\ head = 0 <=> base = 0
    /\ writer # "none" => ready
    /\ runner \in Rebuilding => ready
    /\ runner = "rows" => pin # 0
    /\ reader.stage \in {"pinned", "stale"} => reader.at \in 1..Len(trees) /\ head # 0

TypeInv == TypeOK /\ Placed

\* A commit extends the trees by one and leaves the others as they were.
LEMMA CommittedGrows ==
    ASSUME TypeOK, NEW parent \in 1..Len(trees), Committed(parent)
    PROVE  /\ trees' \in Seq(Tree)
           /\ Len(trees') = Len(trees) + 1
           /\ Len(trees') \in Commits
           /\ \A k \in 1..Len(trees) : trees'[k] = trees[k]
<1>1. trees \in Seq(Tree) /\ Len(trees) \in Nat
  BY DEF TypeOK
<1>2. PICK s \in Specs, content \in {Len(trees) + 1, Nothing} :
          trees' = Append(trees, [trees[parent] EXCEPT ![s] = content])
  BY DEF Committed
<1>3. content \in Commits \cup {Nothing}
  BY <1>1 DEF Committed, Commits, Nothing
<1>4. [trees[parent] EXCEPT ![s] = content] \in Tree
  BY <1>1, <1>3 DEF Tree
<1> QED
  BY <1>1, <1>2, <1>4 DEF Committed, Commits

LEMMA RowAtType ==
    ASSUME TypeInv, runner = "rows", NEW s \in Specs
    PROVE  /\ RowsAt(s) \in Row \cup {NoRow}
           /\ RowsAt(s).content = trees[pin][s]
<1>1. trees[pin] \in Tree /\ trees[head] \in Tree
  BY DEF TypeInv, TypeOK, Placed, Rebuilding
<1> QED
  BY <1>1 DEF RowsAt, Tree, Row, NoRow, Nothing, Commits

LEMMA TypeInit == Init => TypeInv
<1> SUFFICES ASSUME Init PROVE TypeInv
  OBVIOUS
<1>1. trees \in Seq(Tree) /\ Len(trees) = 1 /\ 1 \in Commits
  BY DEF Init, Tree, Commits
<1>2. rows \in Rows
  BY DEF Init, Rows
<1>3. /\ reader \in Readers /\ reader.stage = "idle"
      /\ answer \in {NoAnswer, Unavailable} \cup [kind : {"listing"}, rows : Rows]
  BY DEF Init, Readers, NoRead
<1>4. {MaxRaises, MaxRefusals, MaxRestarts} \subseteq Nat
  OBVIOUS
<1>5. /\ rebuilding \in BOOLEAN /\ ~ready /\ ready \in BOOLEAN
      /\ syncing \in BOOLEAN /\ pending \in BOOLEAN
  BY Zenon DEF Init
<1>6. /\ built = 0 /\ noted = 0 /\ pin = 0 /\ head = 0 /\ base = 0 /\ published = 1
      /\ writer = "none" /\ runner = "waiting" /\ todo = {}
      /\ raises = 0 /\ refusals = 0 /\ restarts = 0
  BY Zenon DEF Init
<1>7. TypeOK
  BY <1>1, <1>2, <1>3, <1>4, <1>5, <1>6 DEF TypeOK
<1>8. Placed
  BY <1>3, <1>6 DEF Placed, Rebuilding
<1> QED
  BY <1>7, <1>8 DEF TypeInv

LEMMA TypeStep == TypeInv /\ [Next]_vars => TypeInv'
<1> SUFFICES ASSUME TypeInv, [Next]_vars PROVE TypeInv'
  OBVIOUS
<1> USE DEF TypeInv
<1>1. CASE OutsidePush
  <2>1. published \in 1..Len(trees)
    BY DEF TypeOK
  <2>2. /\ trees' \in Seq(Tree) /\ Len(trees') = Len(trees) + 1
        /\ Len(trees') \in Commits /\ Len(trees) \in Nat
    BY <1>1, <2>1, CommittedGrows DEF OutsidePush, TypeOK
  <2>3. TypeOK'
    BY <1>1, <2>2 DEF OutsidePush, TypeOK, pass, journal, reads, environment
  <2>4. Placed'
    BY <1>1, <2>2 DEF OutsidePush, TypeOK, Placed, pass, journal, reads, environment
  <2> QED
    BY <2>3, <2>4
<1>2. CASE \E thread \in {"loop", "runner"} : Commit(thread)
  <2>1. head \in 1..Len(trees)
    BY <1>2 DEF Commit, TypeOK
  <2>2. /\ trees' \in Seq(Tree) /\ Len(trees') = Len(trees) + 1
        /\ Len(trees') \in Commits /\ Len(trees) \in Nat
    BY <1>2, <2>1, CommittedGrows DEF Commit, TypeOK
  <2>3. TypeOK'
    BY <1>2, <2>1, <2>2 DEF Commit, TypeOK, pass, journal, reads, environment
  <2>4. Placed'
    BY <1>2, <2>1, <2>2 DEF Commit, TypeOK, Placed, pass, journal, reads, environment
  <2> QED
    BY <2>3, <2>4
<1>3. CASE PushLands
  BY <1>3 DEF PushLands, TypeOK, Placed, pass, journal, reads, environment
<1>4. CASE PushRefused
  BY <1>4 DEF PushRefused, TypeOK, Placed, pass, journal, reads, environment
<1>5. CASE Sync
  <2>1. /\ head' \in 0..Len(trees) /\ base' \in 0..Len(trees)
        /\ raises' \in 0..MaxRaises
    BY <1>5 DEF Sync, Raises, TypeOK
  <2>2. /\ ready' \in BOOLEAN /\ (ready' => head' # 0)
        /\ syncing' \in BOOLEAN
    BY <1>5, Zenon DEF Sync
  <2>3. UNCHANGED <<trees, published, writer, pass, rows, journal, reads, refusals,
                    restarts>>
    BY <1>5 DEF Sync
  <2>4. TypeOK'
    BY <2>1, <2>2, <2>3 DEF TypeOK, pass, journal, reads
  <2>5. Placed'
    BY <1>5 DEF Sync, Raises, TypeOK, Placed, pass, journal, reads, environment
  <2> QED
    BY <2>4, <2>5
<1>6. CASE SyncSubmits
  BY <1>6 DEF SyncSubmits, TypeOK, Placed, repository, journal, reads, environment
<1>7. CASE Pass
  <2>1. ASSUME NEW s \in Specs, WriteRow(s)
        PROVE  TypeInv'
    <3>1. rows' \in Rows
      BY <2>1, RowAtType DEF WriteRow, TypeOK, Rows
    <3> QED
      BY <2>1, <3>1 DEF WriteRow, TypeOK, Placed, repository, journal, reads, environment
  <2>2. CASE Start
    BY <2>2 DEF Start, TypeOK, Placed, Rebuilding, repository, pass,
            journal, reads, environment
  <2>3. CASE Skip
    BY <2>3 DEF Skip, TypeOK, Placed, Rebuilding, repository, pass,
            journal, reads, environment
  <2>4. CASE NotReady
    BY <2>4 DEF NotReady, TypeOK, Placed, Rebuilding, repository, pass,
            journal, reads, environment
  <2>5. CASE Build
    BY <2>5 DEF Build, TypeOK, Placed, Rebuilding, repository, pass,
            journal, reads, environment
  <2>6. CASE Note
    BY <2>6 DEF Note, TypeOK, Placed, Rebuilding, repository, pass,
            journal, reads, environment
  <2>7. CASE Pin
    BY <2>7 DEF Pin, TypeOK, Placed, Rebuilding, repository, pass,
            journal, reads, environment
  <2>8. CASE Finish
    BY <2>8 DEF Finish, TypeOK, Placed, Rebuilding, repository, pass,
            journal, reads, environment
  <2>9. CASE Refuse
    <3>1. rebuilding' \in BOOLEAN
      BY <2>9, Zenon DEF Refuse
    <3> QED
      BY <2>9, <3>1 DEF Refuse, TypeOK, Placed, Rebuilding, repository, pass,
              journal, reads, environment
  <2>10. CASE Raise
    BY <2>10 DEF Raise, Raises, TypeOK, Placed, Rebuilding, repository, pass,
            journal, reads, environment
  <2>11. CASE EndPass
    BY <2>11 DEF EndPass, TypeOK, Placed, Rebuilding, repository, pass,
            journal, reads, environment
  <2> QED
    BY <1>7, <2>1, <2>2, <2>3, <2>4, <2>5, <2>6, <2>7, <2>8, <2>9, <2>10, <2>11 DEF Pass
<1>8. CASE Read
  <2>1. CASE List
    <3>1. reader' \in Readers /\ reader'.stage = "listed"
      BY <2>1 DEF List, Readers, TypeOK
    <3> QED
      BY <2>1, <3>1 DEF List, TypeOK, Placed, repository, pass, journal, environment
  <2>2. CASE AnswerList
    <3>1. reader' \in Readers /\ reader'.stage = "idle"
      BY <2>2 DEF AnswerList, Readers, NoRead
    <3>2. reader.rows \in Rows
      BY <2>2 DEF AnswerList, Readers, NoRead, TypeOK
    <3> QED
      BY <2>2, <3>1, <3>2
         DEF AnswerList, TypeOK, Placed, repository, pass, journal, environment
  <2>3. CASE ReadEntry
    <3>1. /\ reader' \in Readers /\ reader'.at = head
      BY <2>3 DEF ReadEntry, Readers, TypeOK, Commits
    <3> QED
      BY <2>3, <3>1 DEF ReadEntry, TypeOK, Placed, repository, pass, journal, environment
  <2>4. ASSUME NEW s \in Specs, CompareEntry(s)
        PROVE  TypeInv'
    <3>1. reader.at \in Commits /\ reader.at \in 1..Len(trees)
      BY <2>4 DEF CompareEntry, Readers, NoRead, TypeOK, Placed
    <3>2. trees[head][s] \in Commits \cup {Nothing}
      BY <2>4 DEF CompareEntry, TypeOK, Placed, Tree
    <3>3. reader' \in Readers /\ (reader' # NoRead => reader'.at \in 1..Len(trees))
      BY <2>4, <3>1, <3>2 DEF CompareEntry, Readers
    <3> QED
      BY <2>4, <3>3 DEF CompareEntry, NoRead, TypeOK, Placed, repository, pass, journal,
            environment
  <2>5. CASE RefreshEntry
    <3>1. /\ reader.stage = "stale" /\ reader.at \in Commits
          /\ reader.at \in 1..Len(trees) /\ reader.spec \in Specs
          /\ reader.file \in Commits \cup {Nothing}
      BY <2>5 DEF RefreshEntry, Readers, NoRead, TypeOK, Placed
    <3>2. trees[reader.at][reader.spec] \in Commits \cup {Nothing}
      BY <3>1 DEF TypeOK, Tree
    <3>3. rows' \in Rows
      BY <2>5, <3>1, <3>2 DEF RefreshEntry, TypeOK, Rows, Row
    <3>4. reader' \in Readers /\ reader'.stage = "idle"
      BY <2>5 DEF RefreshEntry, NoRead, Readers
    <3> QED
      BY <2>5, <3>3, <3>4 DEF RefreshEntry, NoRead, TypeOK, Placed, repository, pass,
            journal, environment
  <2> QED
    BY <1>8, <2>1, <2>2, <2>3, <2>4, <2>5 DEF Read
<1>9. CASE Restart
  <2>1. /\ reader' \in Readers /\ reader'.stage = "idle"
        /\ answer' \in {NoAnswer, Unavailable} \cup [kind : {"listing"}, rows : Rows]
    BY <1>9 DEF Restart, NoRead, Readers
  <2>2. /\ rebuilding' \in BOOLEAN /\ ~ready' /\ ready' \in BOOLEAN
        /\ syncing' \in BOOLEAN /\ pending' \in BOOLEAN
    BY <1>9, Zenon DEF Restart
  <2>3. /\ built' = 0 /\ writer' = "none" /\ runner' = "waiting" /\ todo' = {}
        /\ restarts < MaxRestarts /\ restarts' = restarts + 1
        /\ UNCHANGED <<trees, published, head, base, noted, pin, rows, raises, refusals>>
    BY <1>9, Zenon DEF Restart
  <2> QED
    BY <2>1, <2>2, <2>3 DEF TypeOK, Placed, Rebuilding
<1>10. CASE UNCHANGED vars
  BY <1>10 DEF vars, TypeOK, Placed, repository, pass, journal, reads, environment
<1> QED
  BY <1>1, <1>2, <1>3, <1>4, <1>5, <1>6, <1>7, <1>8, <1>9, <1>10 DEF Next

\* The model is well typed: every revision a rebuild or a reader looks up is
\* one that was committed.
THEOREM IndexTypeCorrect == Spec => []TypeOK
<1> QED
  BY TypeInit, TypeStep, PTL DEF Spec, TypeInv

-----------------------------------------------------------------------------
(* What steps leave alone.                                                 *)

\* A commit that was made stays what it was.
LEMMA TreesKept ==
    ASSUME TypeInv, [Next]_vars
    PROVE  /\ Len(trees) \in Nat /\ Len(trees') \in Nat /\ Len(trees) <= Len(trees')
           /\ \A k \in 1..Len(trees) : trees'[k] = trees[k]
<1> USE DEF TypeInv
<1>1. Len(trees) \in Nat
  BY DEF TypeOK
<1>2. CASE OutsidePush
  <2>1. published \in 1..Len(trees)
    BY DEF TypeOK
  <2> QED
    BY <1>1, <1>2, <2>1, CommittedGrows DEF OutsidePush
<1>3. CASE \E thread \in {"loop", "runner"} : Commit(thread)
  <2>1. head \in 1..Len(trees)
    BY <1>3 DEF Commit, TypeOK
  <2> QED
    BY <1>1, <1>3, <2>1, CommittedGrows DEF Commit
<1>4. CASE trees' = trees
  BY <1>1, <1>4
<1>5. OutsidePush \/ (\E thread \in {"loop", "runner"} : Commit(thread)) \/ trees' = trees
  BY DEF Next, Pass, Read, PushLands, PushRefused, Sync, SyncSubmits, Start, Skip,
         NotReady, Build, Note, Pin, WriteRow, Finish, Refuse, Raise, EndPass, List,
         AnswerList, ReadEntry, CompareEntry, RefreshEntry, Restart, vars, repository
<1> QED
  BY <1>2, <1>3, <1>4, <1>5

\* With no entry read, a read writes nothing.
NoEntry == reader.stage \in {"idle", "listed"}

LEMMA NoEntryStep ==
    ASSUME EntryReads = FALSE, NoEntry, [Next]_vars
    PROVE  /\ NoEntry'
           /\ Read => UNCHANGED <<repository, syncing, pass, rows, journal>>
<1>1. CASE Read
  BY <1>1 DEF Read, List, AnswerList, ReadEntry, CompareEntry, RefreshEntry, NoEntry,
              NoRead
<1>2. CASE Restart
  BY <1>2 DEF Restart, NoEntry, NoRead, Read, List, AnswerList, ReadEntry, CompareEntry,
              RefreshEntry
<1>3. CASE ~Read /\ ~Restart
  <2>1. reader' = reader
    BY <1>3 DEF Next, Pass, OutsidePush, Commit, PushLands, PushRefused, Sync,
        SyncSubmits, Start, Skip, NotReady, Build, Note, Pin, WriteRow, Finish, Refuse,
        Raise, EndPass, vars, reads
  <2> QED
    BY <1>3, <2>1 DEF NoEntry
<1> QED
  BY <1>1, <1>2, <1>3

\* A rebuild in hand has written the rows it has no more to do.
RowsSoFar ==
    runner = "rows" =>
        \A s \in Specs \ todo : rows[s].content = trees[pin][s]

LEMMA RowsSoFarStep ==
    ASSUME EntryReads = FALSE, TypeInv, NoEntry, RowsSoFar, [Next]_vars
    PROVE  RowsSoFar'
<1>1. \A k \in 1..Len(trees) : trees'[k] = trees[k]
  BY TreesKept
<1>2. ASSUME runner = "rows", UNCHANGED <<runner, rows, todo, pin>>
      PROVE  RowsSoFar'
  <2>1. pin \in 1..Len(trees)
    BY <1>2 DEF TypeInv, TypeOK, Placed
  <2> QED
    BY <1>1, <1>2, <2>1 DEF RowsSoFar
<1>3. CASE runner' # "rows"
  BY <1>3 DEF RowsSoFar
<1>4. ASSUME NEW s \in Specs, WriteRow(s)
      PROVE  RowsSoFar'
  <2>1. RowsAt(s).content = trees[pin][s]
    BY <1>4, RowAtType DEF WriteRow
  <2> QED
    BY <1>4, <2>1 DEF WriteRow, RowsSoFar, TypeInv, TypeOK, Rows, repository
<1>5. CASE Pin
  BY <1>5 DEF Pin, RowsSoFar, NoRow, Nothing, repository
<1>6. CASE Read
  BY <1>2, <1>3, <1>6, NoEntryStep DEF pass
<1>7. CASE runner = "rows" /\ runner' = "rows"
  <2>1. \/ Read \/ (\E s \in Specs : WriteRow(s))
        \/ UNCHANGED <<runner, rows, todo, pin>>
    BY <1>7 DEF Next, Pass, OutsidePush, Commit, PushLands, PushRefused, Sync,
        SyncSubmits, Start, Skip, NotReady, Build, Note, Pin, Finish, Refuse,
        Raise, EndPass, Restart, vars, pass
  <2> QED
    BY <1>2, <1>4, <1>6, <1>7, <2>1
<1>8. CASE runner # "rows" /\ runner' = "rows"
  <2>1. Pin \/ Read
    BY <1>8 DEF Next, Pass, OutsidePush, Commit, PushLands, PushRefused, Sync,
        SyncSubmits, Start, Skip, NotReady, Build, Note, WriteRow, Finish, Refuse,
        Raise, EndPass, Restart, vars, pass
  <2> QED
    BY <1>5, <1>6, <2>1
<1> QED
  BY <1>3, <1>7, <1>8

-----------------------------------------------------------------------------
(* A partial index is flagged, as long as no rebuild is refused: nothing    *)
(* but a rebuild writes rows, and nothing but its end takes the flag down.  *)

FlagInv ==
    /\ TypeInv /\ NoEntry /\ RowsSoFar /\ PartialIsFlagged
    /\ runner \in Rebuilding => rebuilding

LEMMA FlagInit == Init => FlagInv
<1> SUFFICES ASSUME Init PROVE FlagInv
  OBVIOUS
<1>1. built = 0 /\ runner = "waiting" /\ reader.stage = "idle"
  BY Zenon DEF Init, NoRead
<1> QED
  BY <1>1, TypeInit DEF FlagInv, NoEntry, RowsSoFar, PartialIsFlagged, Rebuilding

\* Rows that were those of a revision still are when nothing writes them.
LEMMA WholeStays ==
    ASSUME TypeInv, [Next]_vars, UNCHANGED rows,
           \E r \in 1..Len(trees) : WholeAt(rows, r)
    PROVE  (\E r \in 1..Len(trees) : WholeAt(rows, r))'
<1>1. PICK r \in 1..Len(trees) : WholeAt(rows, r)
  OBVIOUS
<1>2. r \in 1..Len(trees') /\ trees'[r] = trees[r]
  BY TreesKept
<1>3. WholeAt(rows, r)'
  BY <1>1, <1>2 DEF WholeAt
<1> QED
  BY <1>2, <1>3

LEMMA FlagStep ==
    ASSUME MaxRefusals = 0, EntryReads = FALSE, FlagInv, [Next]_vars
    PROVE  FlagInv'
<1>1. TypeInv' /\ NoEntry' /\ RowsSoFar'
  BY TypeStep, NoEntryStep, RowsSoFarStep DEF FlagInv
<1>2. CASE Finish
  <2>1. pin \in 1..Len(trees) /\ WholeAt(rows, pin)
    BY <1>2 DEF Finish, FlagInv, TypeInv, TypeOK, Placed, RowsSoFar, WholeAt
  <2>2. UNCHANGED rows /\ runner' = "validating"
    BY <1>2 DEF Finish
  <2>3. (\E r \in 1..Len(trees) : WholeAt(rows, r))'
    BY <2>1, <2>2, WholeStays DEF FlagInv
  <2> QED
    BY <1>1, <2>2, <2>3 DEF FlagInv, PartialIsFlagged, Rebuilding
<1>3. CASE Restart
  <2>1. built' = 0 /\ runner' = "waiting"
    BY <1>3, Zenon DEF Restart
  <2> QED
    BY <1>1, <2>1 DEF FlagInv, PartialIsFlagged, Rebuilding
<1>4. ASSUME NEW s \in Specs, WriteRow(s)
      PROVE  FlagInv'
  <2>1. rebuilding' /\ runner' = runner
    BY <1>4 DEF WriteRow, journal, FlagInv, Rebuilding
  <2> QED
    BY <1>1, <2>1 DEF FlagInv, PartialIsFlagged
<1>5. CASE Build
  BY <1>1, <1>5 DEF Build, FlagInv, PartialIsFlagged
<1>6. ASSUME UNCHANGED <<rows, journal>>, runner' \in Rebuilding => runner \in Rebuilding
      PROVE  FlagInv'
  BY <1>1, <1>6, WholeStays DEF FlagInv, PartialIsFlagged, journal
<1>7. ~Refuse
  BY DEF Refuse, FlagInv, TypeInv, TypeOK
<1>8. \/ Finish \/ Restart \/ Build \/ (\E s \in Specs : WriteRow(s))
      \/ /\ UNCHANGED <<rows, journal>>
         /\ runner' \in Rebuilding => runner \in Rebuilding
  <2>1. CASE Read
    BY <2>1, NoEntryStep DEF FlagInv, pass
  <2>2. CASE Pass
    BY <2>2, <1>7 DEF Pass, Start, Skip, NotReady, Note, Pin, Raise, EndPass, Rebuilding
  <2>3. CASE ~Read /\ ~Pass /\ ~Restart
    BY <2>3 DEF Next, OutsidePush, Commit, PushLands, PushRefused, Sync, SyncSubmits,
        vars, pass
  <2> QED
    BY <2>1, <2>2, <2>3
<1> QED
  BY <1>2, <1>3, <1>4, <1>5, <1>6, <1>8

\* Rows of no revision at all are never behind a journal that says no rebuild is
\* under way, when no rebuild is refused and no reader writes rows.
THEOREM PartialStaysFlagged ==
    ASSUME MaxRefusals = 0, EntryReads = FALSE
    PROVE  Spec => []PartialIsFlagged
<1>1. FlagInv /\ [Next]_vars => FlagInv'
  BY FlagStep
<1>2. FlagInv => PartialIsFlagged
  BY DEF FlagInv
<1> QED
  BY <1>1, <1>2, FlagInit, PTL DEF Spec

-----------------------------------------------------------------------------
(* The journal's word on the rows, as long as HEAD never goes back and no   *)
(* reader writes rows.  The revision recorded is noted before the one read  *)
(* is pinned, so it is the older of the two; HEAD only moves on, so when it *)
(* is still the noted revision it was the pinned one as well.               *)

HeadMovesOn ==
    /\ base <= head /\ base <= published
    /\ built <= head
    /\ runner \in {"noted", "rows"} => noted <= head
    /\ runner = "rows" => noted <= pin /\ pin <= head

\* An index that is current is the whole one of HEAD, and is not being rebuilt.
CurrentIsWhole ==
    built # 0 /\ built = head => WholeAt(rows, head) /\ runner \notin Rebuilding

SyncInv == TypeInv /\ NoEntry /\ RowsSoFar /\ HeadMovesOn /\ CurrentIsWhole

LEMMA SyncInit == Init => SyncInv
<1> SUFFICES ASSUME Init PROVE SyncInv
  OBVIOUS
<1>1. /\ built = 0 /\ head = 0 /\ base = 0 /\ published = 1
      /\ runner = "waiting" /\ reader.stage = "idle"
  BY Zenon DEF Init, NoRead
<1> QED
  BY <1>1, TypeInit DEF SyncInv, NoEntry, RowsSoFar, HeadMovesOn, CurrentIsWhole

\* HEAD never goes back.
LEMMA HeadStep ==
    ASSUME PushesRace = FALSE, EntryReads = FALSE, SyncInv, [Next]_vars
    PROVE  /\ head <= head' /\ base' <= head' /\ base' <= published'
<1> USE DEF SyncInv, TypeInv, HeadMovesOn
<1>1. head \in Int /\ base \in Int /\ published \in Int /\ published <= Len(trees)
  BY DEF TypeOK
<1>2. Len(trees) \in Int /\ head <= Len(trees)
  BY DEF TypeOK
<1>3. CASE OutsidePush
  <2>1. published \in 1..Len(trees)
    BY DEF TypeOK
  <2>2. Len(trees') = Len(trees) + 1
    BY <1>3, <2>1, CommittedGrows DEF OutsidePush
  <2> QED
    BY <1>1, <1>2, <1>3, <2>2 DEF OutsidePush
<1>4. CASE \E thread \in {"loop", "runner"} : Commit(thread)
  <2>1. head \in 1..Len(trees)
    BY <1>4 DEF Commit, TypeOK
  <2>2. Len(trees') = Len(trees) + 1
    BY <1>4, <2>1, CommittedGrows DEF Commit
  <2> QED
    BY <1>1, <1>2, <1>4, <2>2 DEF Commit
<1>5. CASE PushLands \/ Sync
  BY <1>1, <1>5 DEF PushLands, Sync
<1>6. ~PushRefused
  BY DEF PushRefused
<1>7. CASE UNCHANGED <<published, head, base>>
  BY <1>1, <1>7
<1>8. \/ OutsidePush \/ (\E thread \in {"loop", "runner"} : Commit(thread))
      \/ PushLands \/ Sync \/ UNCHANGED <<published, head, base>>
  BY <1>6 DEF Next, Pass, Read, SyncSubmits, Start, Skip, NotReady, Build, Note, Pin,
     WriteRow, Finish, Refuse, Raise, EndPass, List, AnswerList, ReadEntry, CompareEntry,
     RefreshEntry, Restart, vars, repository
<1> QED
  BY <1>3, <1>4, <1>5, <1>7, <1>8

\* A step that leaves the rebuild alone keeps what is said of it.
LEMMA SyncStands ==
    ASSUME PushesRace = FALSE, EntryReads = FALSE, SyncInv, [Next]_vars,
           UNCHANGED <<rows, built, noted, pin>>,
           runner' = runner \/ runner' \notin Rebuilding
    PROVE  HeadMovesOn' /\ CurrentIsWhole'
<1>0. /\ head <= head' /\ base' <= head' /\ base' <= published'
      /\ TypeInv'
  BY HeadStep, TypeStep DEF SyncInv
<1> USE DEF SyncInv, TypeInv, Rebuilding
<1>1. /\ head \in Int /\ built \in Int /\ noted \in Int /\ pin \in Int
      /\ head \in 0..Len(trees)
  BY DEF TypeOK
<1>2. head' \in Int /\ head <= head' /\ base' <= head' /\ base' <= published'
  BY <1>0 DEF TypeOK
<1>3. HeadMovesOn'
  BY <1>1, <1>2 DEF HeadMovesOn
<1>4. CASE built # head
  BY <1>1, <1>2, <1>4 DEF HeadMovesOn, CurrentIsWhole
<1>5. CASE built = head /\ head' = head /\ built # 0
  <2>1. WholeAt(rows, head) /\ runner \notin Rebuilding
    BY <1>5 DEF CurrentIsWhole
  <2>2. head \in 1..Len(trees)
    BY <1>1, <1>5
  <2>3. trees'[head] = trees[head]
    BY <2>2, TreesKept
  <2> QED
    BY <1>3, <1>5, <2>1, <2>3 DEF CurrentIsWhole, WholeAt
<1> QED
  BY <1>1, <1>2, <1>3, <1>4, <1>5 DEF CurrentIsWhole

LEMMA SyncStep ==
    ASSUME PushesRace = FALSE, EntryReads = FALSE, SyncInv, [Next]_vars
    PROVE  SyncInv'
<1> USE DEF SyncInv
<1>1. TypeInv' /\ NoEntry' /\ RowsSoFar'
  BY TypeStep, NoEntryStep, RowsSoFarStep
<1>2. /\ head \in Int /\ built \in Int /\ noted \in Int /\ pin \in Int
      /\ head \in 0..Len(trees)
  BY DEF TypeInv, TypeOK
<1>3. CASE Finish
  <2>1. built' = noted /\ noted <= pin /\ pin <= head /\ WholeAt(rows, pin)
    BY <1>3 DEF Finish, HeadMovesOn, RowsSoFar, WholeAt
  <2>2. runner' = "validating" /\ UNCHANGED <<trees, published, head, base, rows>>
    BY <1>3 DEF Finish, repository
  <2>3. HeadMovesOn'
    BY <1>2, <2>1, <2>2 DEF HeadMovesOn
  <2>4. CurrentIsWhole'
    BY <1>2, <2>1, <2>2 DEF CurrentIsWhole, WholeAt, Rebuilding
  <2> QED
    BY <1>1, <2>3, <2>4
<1>4. CASE Restart
  <2>1. built' = 0 /\ runner' = "waiting" /\ UNCHANGED <<head, base, published>>
    BY <1>4, Zenon DEF Restart
  <2>2. head \in Nat
    BY DEF TypeInv, TypeOK
  <2> QED
    BY <1>1, <2>1, <2>2 DEF HeadMovesOn, CurrentIsWhole
<1>5. ASSUME NEW s \in Specs, WriteRow(s)
      PROVE  SyncInv'
  <2>1. UNCHANGED <<trees, published, head, base, built, noted, pin, runner>>
    BY <1>5 DEF WriteRow, repository, journal
  <2>2. runner \in Rebuilding
    BY <1>5 DEF WriteRow, Rebuilding
  <2> QED
    BY <1>1, <2>1, <2>2 DEF HeadMovesOn, CurrentIsWhole
<1>6. CASE Build \/ Note \/ Pin
  <2>1. /\ UNCHANGED <<trees, published, head, base, rows, built>>
        /\ built = 0 \/ built # head
    BY <1>6 DEF Build, Note, Pin, repository, journal, InSync, CurrentIsWhole, Rebuilding
  <2>2. HeadMovesOn'
    BY <1>2, <1>6, <2>1 DEF Build, Note, Pin, HeadMovesOn
  <2> QED
    BY <1>1, <2>1, <2>2 DEF CurrentIsWhole
<1>7. CASE /\ UNCHANGED <<rows, built, noted, pin>>
           /\ runner' = runner \/ runner' \notin Rebuilding
  BY <1>1, <1>7, SyncStands
<1>8. \/ Finish \/ Restart \/ (\E s \in Specs : WriteRow(s)) \/ Build \/ Note \/ Pin
      \/ /\ UNCHANGED <<rows, built, noted, pin>>
         /\ runner' = runner \/ runner' \notin Rebuilding
  <2>1. CASE Read
    BY <2>1, NoEntryStep DEF pass, journal
  <2>2. CASE Pass
    BY <2>2 DEF Pass, Start, Skip, NotReady, Refuse, Raise, EndPass, Rebuilding, journal
  <2>3. CASE ~Read /\ ~Pass /\ ~Restart
    BY <2>3 DEF Next, OutsidePush, Commit, PushLands, PushRefused, Sync, SyncSubmits,
        vars, pass, journal
  <2> QED
    BY <2>1, <2>2, <2>3
<1> QED
  BY <1>3, <1>4, <1>5, <1>6, <1>7, <1>8

\* /status says the index is in sync only when every row is HEAD's and none is
\* missing or left over, when no commit is thrown away and no reader writes rows.
THEOREM InSyncStaysTrue ==
    ASSUME PushesRace = FALSE, EntryReads = FALSE
    PROVE  Spec => []InSyncIsTrue
<1>1. SyncInv /\ [Next]_vars => SyncInv'
  BY SyncStep
<1>2. SyncInv => InSyncIsTrue
  BY DEF SyncInv, TypeInv, TypeOK, CurrentIsWhole, InSyncIsTrue, InSync
<1> QED
  BY <1>1, <1>2, SyncInit, PTL DEF Spec

=============================================================================
