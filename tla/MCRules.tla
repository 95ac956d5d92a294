------------------------------ MODULE MCRules ------------------------------
(***************************************************************************)
(* Model values for the concept views of an asset, the issuer's cached     *)
(* keys, a workstation's outbox and a browser's tabs, checked in one run:  *)
(* the initial state chooses which of them lives, and the others stay      *)
(* where they began.                                                       *)
(***************************************************************************)
EXTENDS ConceptViews, KeyCache, Outbox, SessionTabs

CONSTANTS i1, i2, i3, i4

VARIABLE part

sharedVars == <<viewVars, keyVars, outboxVars, tabVars, part>>

Init ==
    /\ part \in {"views", "keys", "outbox", "tabs"}
    /\ ViewsInit /\ (part # "views" => ImageHeld(Held) = i1)
    /\ KeysInit /\ (part # "keys" => source.keys = {CHOOSE k \in Keys : TRUE})
    /\ OutboxInit /\ (part # "outbox" => destination = "none")
    /\ TabsInit

Next ==
    /\ UNCHANGED part
    /\ \/ part = "views" /\ ViewsNext /\ UNCHANGED <<keyVars, outboxVars, tabVars>>
       \/ part = "keys" /\ KeysNext /\ UNCHANGED <<viewVars, outboxVars, tabVars>>
       \/ part = "outbox" /\ OutboxNext /\ UNCHANGED <<viewVars, keyVars, tabVars>>
       \/ part = "tabs" /\ TabsNext /\ UNCHANGED <<viewVars, keyVars, outboxVars>>

Spec == Init /\ [][Next]_sharedVars

-----------------------------------------------------------------------------
\* Four images: two of one format, one of another, one nothing can read.
Encodings == (i1 :> "png") @@ (i2 :> "png") @@ (i3 :> "jpg") @@ (i4 :> "png")
Shapes == (i1 :> 10) @@ (i2 :> 11) @@ (i3 :> 12) @@ (i4 :> 0)
KnownFormats == <<"jpg", "png">>

SomeOutcomes ==
    [key : {"k1", "k2"}, said : {"passed"}] \cup {[key |-> "k2", said |-> "failed"]}

\* The uploads of one part and the threads, processes and tabs of the others are
\* the same model values, so that one permutation stands for all.
Symmetry == UNION {Permutations(S) : S \in {Uploads \cup Askers \cup Reporters \cup Tabs, Keys}}

=============================================================================
