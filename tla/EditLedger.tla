----------------------------- MODULE EditLedger -----------------------------
(***************************************************************************)
(* What the hosted repository promises the people who edit through it,     *)
(* with no copy, no lock, no remote and no retry: one tree of files, and   *)
(* edits that are applied whole or not at all.  An edit is applied by a    *)
(* compare-and-swap: every file it changes still holds, at that moment,    *)
(* what its author had read.                                               *)
(***************************************************************************)
CONSTANTS Writes, Paths, Original, Outsider

VARIABLES
    canon,      \* the content of every path on the configured branch
    seen,       \* what each edit was composed against, at the paths it changes
    outcome     \* what each edit has come to

ledger == <<canon, seen, outcome>>

Contents == Writes \cup {Original, Outsider}
Bases == UNION {[S -> Contents] : S \in SUBSET Paths \ {{}}}

Init ==
    /\ canon = [p \in Paths |-> Original]
    /\ seen = [w \in Writes |-> <<>>]
    /\ outcome = [w \in Writes |-> "none"]

Becomes(w, from, to) ==
    /\ outcome[w] = from
    /\ outcome' = [outcome EXCEPT ![w] = to]

\* The author may have read anything, current or not.
Compose(w) ==
    /\ Becomes(w, "none", "open")
    /\ \E basis \in Bases : seen' = [seen EXCEPT ![w] = basis]
    /\ UNCHANGED canon

Apply(w) ==
    /\ \A p \in DOMAIN seen[w] : canon[p] = seen[w][p]
    /\ Becomes(w, "open", "applied")
    /\ canon' = [p \in Paths |-> IF p \in DOMAIN seen[w] THEN w ELSE canon[p]]
    /\ UNCHANGED seen

Refuse(w) ==
    /\ Becomes(w, "open", "refused")
    /\ UNCHANGED <<canon, seen>>

Outside(p) ==
    /\ canon' = [canon EXCEPT ![p] = Outsider]
    /\ UNCHANGED <<seen, outcome>>

Next ==
    \/ \E w \in Writes : Compose(w) \/ Apply(w) \/ Refuse(w)
    \/ \E p \in Paths : Outside(p)

Spec == Init /\ [][Next]_ledger

=============================================================================
