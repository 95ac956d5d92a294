------------------------------- MODULE Outbox -------------------------------
(***************************************************************************)
(* The file that keeps reported validation outcomes until they can be      *)
(* delivered.  Every operation reads the whole file and writes the whole   *)
(* file, and nothing locks it: a hook, an agent and `canon report flush`   *)
(* are processes of their own.  A line that holds no readable record is    *)
(* Garbled.                                                                *)
(***************************************************************************)
EXTENDS Integers, SequencesExt, Positions

CONSTANTS
    Reporters,      \* processes using the outbox
    Outcomes,       \* records [key, said]: the run's identity and its verdict
    Capacity,
    OneAtATime,     \* no two processes use the file at once
    OutboxFaults,   \* of {"die", "disk", "tear", "garble"}
    MaxReports, MaxOutboxFaults

ASSUME OutboxAssumption ==
    /\ Capacity \in Nat \ {0} /\ OneAtATime \in BOOLEAN
    /\ \A o \in Outcomes : o.key # "garbled"

Garbled == [key |-> "garbled", said |-> "nothing"]

VARIABLES
    reports,           \* the lines of .canon/reports.ndjson
    reporter,       \* what each process is doing
    destination,    \* "none", "up" or "down"
    due,            \* reports of each outcome less deliveries of it
    owed,           \* outcomes retained and neither delivered, replaced nor dropped
    quiet,          \* damaged lines gone from the file and announced to nobody
    tally           \* [reports, faults]

outboxVars == <<reports, reporter, destination, due, owed, quiet, tally>>

Free == [stage |-> "idle", outcome |-> Garbled, left |-> <<>>, bad |-> 0, skipped |-> 0]
Stages == {"idle", "retaining", "retained", "delivering"}

OutboxTypeOK ==
    /\ \A i \in DOMAIN reports : reports[i] \in Outcomes \cup {Garbled}
    /\ Len(reports) <= Capacity
    /\ \A i, j \in DOMAIN reports :
          reports[i].key = reports[j].key /\ reports[i] # Garbled => i = j
    /\ \A p \in Reporters : reporter[p].stage \in Stages
    /\ destination \in {"none", "up", "down"}
    /\ owed \subseteq Outcomes

OutboxInit ==
    /\ reports = <<>>
    /\ reporter = [p \in Reporters |-> Free]
    /\ destination \in {"none", "up", "down"}
    /\ due = [o \in Outcomes |-> 0]
    /\ owed = {}
    /\ quiet = 0
    /\ tally = [reports |-> 0, faults |-> 0]

-----------------------------------------------------------------------------
\* _parsed: the readable records of these lines.
Parsed(lines) == Picked(lines, {i \in DOMAIN lines : lines[i] # Garbled})
Unreadable(lines) == Len(lines) - Len(Parsed(lines))

\* Mutant of Retained: a report of the same run is appended.
RetainedAgain(lines, o) == Append(Parsed(lines), o)

\* _retain: the record of the same run is replaced where it stands.
Retained(lines, o) ==
    LET kept == Parsed(lines)
    IN  IF \E i \in DOMAIN kept : kept[i].key = o.key
        THEN [i \in DOMAIN kept |-> IF kept[i].key = o.key THEN o ELSE kept[i]]
        ELSE Append(kept, o)

\* _write: the last Capacity of them.
Bounded(lines) ==
    SubSeq(lines, IF Len(lines) > Capacity THEN Len(lines) - Capacity + 1 ELSE 1, Len(lines))

Turn(p) == OneAtATime => \A q \in Reporters \ {p} : reporter[q].stage = "idle"

\* What the answer says was skipped is heard.
Answer(p, skipped, gone) ==
    /\ reporter' = [reporter EXCEPT ![p] = Free]
    /\ quiet' = LET q == quiet + gone - skipped IN IF q < 0 THEN 0 ELSE q

\* report: the file as _retain reads it.
Report(p, o) ==
    /\ reporter[p].stage = "idle" /\ Turn(p)
    /\ tally.reports < MaxReports
    /\ reporter' = [reporter EXCEPT ![p] =
          [stage |-> "retaining", outcome |-> o, left |-> reports,
           bad |-> Unreadable(reports), skipped |-> Unreadable(reports)]]
    /\ tally' = [tally EXCEPT !.reports = @ + 1]
    /\ due' = [due EXCEPT ![o] = @ + 1]
    /\ UNCHANGED <<reports, destination, owed, quiet>>

\* _retain: written down first.
Retain(p) ==
    LET mine == reporter[p]
        lines == Retained(mine.left, mine.outcome)
    IN  /\ mine.stage = "retaining"
        /\ reports' = Bounded(lines)
        /\ owed' = ((owed \cup {mine.outcome})
                       \ {o \in Outcomes : o.key = mine.outcome.key /\ o # mine.outcome})
                       \ (ToSet(lines) \ ToSet(reports'))
        /\ quiet' = quiet + mine.bad
        /\ reporter' = [reporter EXCEPT ![p] = [@ EXCEPT !.stage = "retained"]]
        /\ UNCHANGED <<destination, due, tally>>

\* Mutant of Carried: a flush forgets what the report before it skipped.
CarriedAnew(p) == Unreadable(reports)

\* The lines skipped so far in this operation.
Carried(p) == reporter[p].skipped + Unreadable(reports)

\* _flush up to the first delivery; nothing retained, nothing written.
Flush(p) ==
    /\ \/ reporter[p].stage = "idle" /\ Turn(p)
       \/ reporter[p].stage = "retained"
    /\ LET skipped == Carried(p)
       IN  \/ /\ Parsed(reports) = <<>>
              /\ Answer(p, skipped, 0)
           \/ /\ Parsed(reports) # <<>>
              /\ reporter' = [reporter EXCEPT ![p] =
                    [@ EXCEPT !.stage = "delivering", !.left = Parsed(reports),
                              !.bad = Unreadable(reports), !.skipped = skipped]]
              /\ UNCHANGED quiet
    /\ UNCHANGED <<reports, destination, due, owed, tally>>

\* _sent, and the destination took it.
Deliver(p) ==
    /\ reporter[p].stage = "delivering" /\ reporter[p].left # <<>>
    /\ destination = "up"
    /\ due' = [due EXCEPT ![Head(reporter[p].left)] = @ - 1]
    /\ owed' = owed \ {Head(reporter[p].left)}
    /\ reporter' = [reporter EXCEPT ![p].left = Tail(@)]
    /\ UNCHANGED <<reports, destination, quiet, tally>>

\* Mutant of Kept: the one the destination refused is taken for delivered.
KeptAfter(left) == IF left = <<>> THEN <<>> ELSE Tail(left)

\* Mutant of Kept: a pass that stopped keeps what it delivered as well.
KeptWhole(left) == Parsed(reports)

\* _attempt: from the one that was not taken on.
Kept(left) == left

\* _flush, once a delivery failed or none is left.
Rewrite(p) ==
    /\ reporter[p].stage = "delivering"
    /\ reporter[p].left = <<>> \/ destination # "up"
    /\ reports' = Bounded(Kept(reporter[p].left))
    /\ Answer(p, reporter[p].skipped, reporter[p].bad)
    /\ UNCHANGED <<destination, due, owed, tally>>

Fault(kind) ==
    /\ kind \in OutboxFaults /\ tally.faults < MaxOutboxFaults
    /\ tally' = [tally EXCEPT !.faults = @ + 1]

\* The file cannot be read or written: OutcomeReportUnavailable.
DiskFails(p) ==
    /\ reporter[p].stage # "idle" /\ Fault("disk")
    /\ reporter' = [reporter EXCEPT ![p] = Free] /\ quiet' = 0
    /\ UNCHANGED <<reports, destination, due, owed>>

Die(p) ==
    /\ reporter[p].stage # "idle" /\ Fault("die")
    /\ reporter' = [reporter EXCEPT ![p] = Free] /\ quiet' = 0
    /\ UNCHANGED <<reports, destination, due, owed>>

\* A kill inside write_text, which truncates before it writes, loses the file.
Tear(p) ==
    /\ reporter[p].stage \in {"retaining", "delivering"} /\ Fault("tear")
    /\ reporter' = [reporter EXCEPT ![p] = Free] /\ quiet' = 0
    /\ reports' = <<>> /\ owed' = {}
    /\ UNCHANGED <<destination, due>>

\* A line damaged by something else.
Garble(i) ==
    /\ i \in DOMAIN reports /\ reports[i] # Garbled /\ Fault("garble")
    /\ reports' = [reports EXCEPT ![i] = Garbled]
    /\ owed' = owed \ {reports[i]}
    /\ UNCHANGED <<reporter, destination, due, quiet>>

Weather ==
    /\ destination # "none"
    /\ destination' = IF destination = "up" THEN "down" ELSE "up"
    /\ UNCHANGED <<reports, reporter, due, owed, quiet, tally>>

OutboxNext ==
    \/ \E p \in Reporters : \/ \E o \in Outcomes : Report(p, o)
                            \/ Retain(p) \/ Flush(p) \/ Deliver(p) \/ Rewrite(p)
                            \/ DiskFails(p) \/ Die(p) \/ Tear(p)
    \/ \E i \in 1..Capacity : Garble(i)
    \/ Weather

OutboxSpec == OutboxInit /\ [][OutboxNext]_outboxVars

-----------------------------------------------------------------------------
\* "a delivery that dies halfway - or a process that does - leaves the outcome
\* where the next flush will find it": whatever is retained and neither
\* delivered, replaced, crowded out, damaged nor torn is in the file.
RetainedUntilDelivered == owed \subseteq ToSet(reports)

\* A flush that lives takes what it delivered out of the file, so an outcome is
\* delivered again only after it was reported again or a pass died.
DeliveredOnce == \A o \in Outcomes : due[o] >= -tally.faults

\* "a pass that then reported nothing would have healed it silently": with no
\* operation under way, a damaged line that has left the file was announced by
\* the operation that dropped it, unless that one ended without an answer.
HealedAloud == (\A p \in Reporters : reporter[p].stage = "idle") => quiet = 0

\* An outcome that was set aside is delivered, once, and nothing is lost in
\* silence.
OutcomesAreDelivered ==
    /\ OutboxTypeOK
    /\ RetainedUntilDelivered
    /\ DeliveredOnce
    /\ HealedAloud

=============================================================================
