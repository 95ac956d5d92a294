----------------------------- MODULE Positions -----------------------------
(***************************************************************************)
(* What a filter leaves of a sequence, said by the positions it keeps.     *)
(***************************************************************************)
EXTENDS Integers, Sequences, FiniteSets

\* How many of these positions come no later than this one.
Place(at, i) == Cardinality({j \in at : j <= i})

\* The items at these positions, in their order.
Picked(s, at) == [k \in 1..Cardinality(at) |-> s[CHOOSE i \in at : Place(at, i) = k]]

=============================================================================
