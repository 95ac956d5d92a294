------------------------- MODULE MCIdempotentWrites -------------------------
(***************************************************************************)
(* Model values for IdempotentWrites: which drafts callers hold.           *)
(***************************************************************************)
EXTENDS IdempotentWrites, TLC

CONSTANTS k1, k2, t1, t2, b1, b2

\* Two people, each with a key, one after the other on one file.
HonestDrafts ==
    {[key |-> k1, target |-> t1, body |-> b1], [key |-> k2, target |-> t1, body |-> b2]}

\* The second has a key of their own, and uses the first one's as well.
ContestedKey == HonestDrafts \cup {[key |-> k1, target |-> t1, body |-> b2]}

\* One body, sent to two files under one key.
TwoTargets ==
    {[key |-> k1, target |-> t1, body |-> b1], [key |-> k1, target |-> t2, body |-> b1]}

OneDraft == {[key |-> k1, target |-> t1, body |-> b1]}

\* b1 starts from the original, b2 from b1.
Chained == [b \in Bodies |-> IF b = b1 THEN Original ELSE b1]

Symmetry == Permutations(Attempts) \cup Permutations(Instances)

=============================================================================
