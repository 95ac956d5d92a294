------------------------- MODULE MCValidationWorker -------------------------
(***************************************************************************)
(* Model values for ValidationWorker: two assets with one export each.     *)
(***************************************************************************)
EXTENDS ValidationWorker, TLC

CONSTANTS e1, e2, a1, a2, c1, c2, c3, s1, s2

OneEach == [e \in Exports |-> IF e = e1 THEN a1 ELSE a2]

\* c1 meets both specifications, c2 only the first, c3 cannot be read.
Verdicts == (c1 :> {s1, s2}) @@ (c2 :> {s1}) @@ (c3 :> {})

Unvalidated ==
    [bytes |-> [e \in Exports |-> c1], spec |-> [a \in Assets |-> s1],
     record |-> [a \in Assets |-> NoRecord], push |-> 0]

=============================================================================
