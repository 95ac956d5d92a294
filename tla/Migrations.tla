----------------------------- MODULE Migrations -----------------------------
(***************************************************************************)
(* The release step and the recovery: numbered files, each applied in a    *)
(* transaction that records it in a ledger table; and drop, migrate,       *)
(* rebuild.  A connection is autocommit, so a process that dies leaves     *)
(* every statement it had issued.                                          *)
(***************************************************************************)
EXTENDS Naturals, FiniteSets, SequencesExt

CONSTANTS
    Releases,       \* processes running migrate.py or recover.py
    Files,          \* 1..n: the migrations, each creating one table
    MaxEpochs,      \* recoveries begun
    Overlapping     \* two release steps may run at once

ASSUME MigrationsAssumption ==
    /\ IsFiniteSet(Files) /\ Files = 1..Cardinality(Files) /\ Files # {}
    /\ Overlapping \in BOOLEAN

VARIABLES
    tables,     \* the tables that exist
    ledger,     \* [exists, versions]: schema_migrations
    rows,       \* in each table, the epochs its rows were written in
    release,    \* what each process is at
    told,       \* how the last process ended
    torn,       \* a recovery died among its drops, and none has ended since
    epoch

schemaVars == <<tables, ledger, rows, release, told, torn, epoch>>

Done == [stage |-> "none", recovering |-> FALSE, left |-> <<>>, present |-> {}]
LedgerTable == 0
NoVersion == 0
Untold == [code |-> "none", at |-> NoVersion]

SchemaTypeOK ==
    /\ tables \subseteq Files
    /\ ledger.exists \/ ledger.versions = {}
    /\ \A f \in Files : rows[f] \subseteq 0..epoch /\ (rows[f] # {} => f \in tables)
    /\ \A r \in Releases :
          release[r].stage \in {"none", "dropping", "reading", "applying", "rebuilding"}

SchemaInit ==
    /\ tables = {} /\ ledger = [exists |-> FALSE, versions |-> {}]
    /\ rows = [f \in Files |-> {}]
    /\ release = [r \in Releases |-> Done]
    /\ told = Untold /\ torn = FALSE /\ epoch = 0

-----------------------------------------------------------------------------
\* migrations_in: sorted by file name.
MigrationsIn == [i \in Files |-> i]

\* Mutant of TablesIn: a list of tables that one migration was never added to.
TablesListed == Reverse(Tail(MigrationsIn)) \o <<LedgerTable>>

\* tables_in: the last created first, the ledger last.
TablesIn == Reverse(MigrationsIn) \o <<LedgerTable>>

Quiet(r) == \A q \in Releases \ {r} : release[q].stage = "none"

\* migrate.py
Migrate(r) ==
    /\ release[r].stage = "none" /\ (Overlapping \/ Quiet(r))
    /\ \A q \in Releases : ~release[q].recovering
    /\ release' = [release EXCEPT ![r] = [Done EXCEPT !.stage = "reading"]]
    /\ told' = Untold
    /\ UNCHANGED <<tables, ledger, rows, torn, epoch>>

\* recover.py, run by an operator: drop_schema first.
Recover(r) ==
    /\ release[r].stage = "none" /\ Quiet(r) /\ epoch < MaxEpochs
    /\ release' = [release EXCEPT ![r] =
          [Done EXCEPT !.stage = "dropping", !.recovering = TRUE, !.left = TablesIn]]
    /\ epoch' = epoch + 1
    /\ told' = Untold /\ torn' = TRUE
    /\ UNCHANGED <<tables, ledger, rows>>

\* drop_schema: DROP TABLE IF EXISTS, one at a time.
DropTable(r) ==
    LET t == Head(release[r].left)
        left == Tail(release[r].left)
    IN  /\ release[r].stage = "dropping"
        /\ IF t = LedgerTable
           THEN /\ ledger' = [exists |-> FALSE, versions |-> {}]
                /\ UNCHANGED <<tables, rows>>
           ELSE /\ tables' = tables \ {t} /\ rows' = [rows EXCEPT ![t] = {}]
                /\ UNCHANGED ledger
        /\ release' = [release EXCEPT ![r].left = left,
                                      ![r].stage = IF left = <<>> THEN "reading" ELSE @]
        /\ told' = Untold
        /\ torn' = (left # <<>>)
        /\ UNCHANGED epoch

\* Mutant of LedgerCreated: the statement is not run.
LedgerAssumed == ledger

\* LEDGER: CREATE TABLE IF NOT EXISTS.
LedgerCreated == [ledger EXCEPT !.exists = TRUE]

\* applied_versions: the ledger is created when there is none.
AppliedVersions(r) ==
    /\ release[r].stage = "reading"
    /\ ledger' = LedgerCreated
    /\ release' = [release EXCEPT ![r].stage = "applying", ![r].present = ledger.versions,
                                  ![r].left = MigrationsIn]
    /\ told' = Untold
    /\ UNCHANGED <<tables, rows, torn, epoch>>

\* recorded_version
RecordedVersion == IF ledger.versions = {} THEN NoVersion
                   ELSE CHOOSE v \in ledger.versions : \A w \in ledger.versions : w <= v

\* Mutant of LeftAt: the runner tells what it remembers.
LeftAtRemembered(r) == Head(release[r].left) - 1

\* MigrationFailed: the version the ledger records once the file rolled back.
LeftAt(r) == RecordedVersion

\* apply_to: a version present when the run began is skipped.
Skips(r) == release[r].left # <<>> /\ Head(release[r].left) \in release[r].present

SkipOne(r) ==
    /\ release[r].stage = "applying" /\ Skips(r)
    /\ release' = [release EXCEPT ![r].left = Tail(@)]
    /\ told' = Untold
    /\ UNCHANGED <<tables, ledger, rows, torn, epoch>>

\* Mutant of Recorded: a failing statement leaves the version recorded.
RecordedFirst(f, ok) == [ledger EXCEPT !.versions = @ \cup {f}]

\* _apply_one: the statements and the ledger's row, in one transaction.
Recorded(f, ok) == IF ok THEN [ledger EXCEPT !.versions = @ \cup {f}] ELSE ledger

ApplyOne(r) ==
    LET f == Head(release[r].left)
    IN  /\ release[r].stage = "applying" /\ release[r].left # <<>> /\ ~Skips(r)
        /\ f \notin ledger.versions
        /\ tables' = tables \cup {f}
        /\ ledger' = Recorded(f, TRUE)
        /\ release' = [release EXCEPT ![r].left = Tail(@)]
        /\ told' = Untold
        /\ UNCHANGED <<rows, torn, epoch>>

\* The database refuses a file, or another run has recorded it: nothing of it
\* lands, and the release must not continue.
FileFails(r) ==
    LET f == Head(release[r].left)
    IN  /\ release[r].stage = "applying" /\ release[r].left # <<>> /\ ~Skips(r)
        /\ ledger' = Recorded(f, f \in ledger.versions)
        /\ told' = [code |-> "failed", at |-> LeftAt(r)]
        /\ release' = [release EXCEPT ![r] = Done]
        /\ UNCHANGED <<tables, rows, torn, epoch>>

\* Every file is there: a recovery goes on to the rows.
Applied(r) ==
    /\ release[r].stage = "applying" /\ release[r].left = <<>>
    /\ IF release[r].recovering
       THEN /\ release' = [release EXCEPT ![r].stage = "rebuilding"]
            /\ UNCHANGED told
       ELSE /\ release' = [release EXCEPT ![r] = Done]
            /\ told' = [code |-> "migrated", at |-> RecordedVersion]
    /\ UNCHANGED <<tables, ledger, rows, torn, epoch>>

\* rebuild_from, for every copy: the index is the first file's table.
Rebuild(r) ==
    /\ release[r].stage = "rebuilding"
    /\ rows' = [rows EXCEPT ![1] = @ \cup {epoch}]
    /\ release' = [release EXCEPT ![r] = Done]
    /\ told' = [code |-> "recovered", at |-> RecordedVersion]
    /\ UNCHANGED <<tables, ledger, torn, epoch>>

Dies(r) ==
    /\ release[r].stage # "none"
    /\ release' = [release EXCEPT ![r] = Done]
    /\ told' = Untold
    /\ UNCHANGED <<tables, ledger, rows, torn, epoch>>

\* A service instance writes a row, while a recovery runs too.
ServiceWrites(f) ==
    /\ f \in tables
    /\ rows' = [rows EXCEPT ![f] = @ \cup {epoch}]
    /\ told' = Untold
    /\ UNCHANGED <<tables, ledger, release, torn, epoch>>

SchemaNext ==
    \/ \E r \in Releases :
          \/ Migrate(r) \/ Recover(r) \/ DropTable(r) \/ AppliedVersions(r) \/ SkipOne(r)
          \/ ApplyOne(r) \/ FileFails(r) \/ Applied(r) \/ Rebuild(r) \/ Dies(r)
    \/ \E f \in Files : ServiceWrites(f)

SchemaSpec == SchemaInit /\ [][SchemaNext]_schemaVars

-----------------------------------------------------------------------------
\* "the recorded version after a failure is the schema that is really there":
\* whoever fails, dies or runs at once, the ledger holds a first stretch of the
\* files and their tables exist - but for a recovery that died among its drops.
LedgerIsTrue ==
    ~torn => /\ ledger.versions = 1..RecordedVersion
             /\ ledger.versions \subseteq tables

\* The release step lets a release go on only with the whole schema in place,
\* and a failure names the version the schema is at.
ReleaseCodeIsTrue ==
    /\ told.code \in {"migrated", "recovered"} /\ ~torn => tables = Files
    /\ told.code = "failed" => told.at = RecordedVersion

\* "a row from before the loss": a recovery that ends leaves no row older than
\* itself, in any table, and the index built anew.
RecoveryStartsOver ==
    told.code = "recovered" => /\ \A f \in Files : rows[f] \subseteq {epoch}
                               /\ epoch \in rows[1]

\* The ledger says what the schema is, and recovery leaves nothing of it
\* behind.
SchemaIsRecorded ==
    /\ SchemaTypeOK
    /\ LedgerIsTrue
    /\ ReleaseCodeIsTrue
    /\ RecoveryStartsOver

=============================================================================
