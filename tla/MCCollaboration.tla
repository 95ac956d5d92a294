--------------------------- MODULE MCCollaboration ---------------------------
(***************************************************************************)
(* Model values for AssetRequests, Annotations and Suggestions, checked in *)
(* one run: the initial state chooses which of them lives, and the others  *)
(* stay where they began.                                                  *)
(***************************************************************************)
EXTENDS AssetRequests, Annotations, Suggestions, TLC

CONSTANTS author, owner, director, r1, a1, wip, final, front, side, a2, image

VARIABLE part

collaborationVars == <<requestVars, annotationVars, suggestionVars, part>>

Init ==
    /\ part \in {"requests", "annotations", "suggestions"}
    /\ RequestsInit /\ (part # "requests" => status[a1] = wip)
    /\ AnnotationsInit /\ SuggestionsInit

Next ==
    /\ UNCHANGED part
    /\ \/ part = "requests" /\ RequestsNext /\ UNCHANGED <<annotationVars, suggestionVars>>
       \/ part = "annotations" /\ AnnotationsNext /\ UNCHANGED <<requestVars, suggestionVars>>
       \/ part = "suggestions" /\ SuggestionsNext /\ UNCHANGED <<requestVars, annotationVars>>

Spec == Init /\ [][Next]_collaborationVars

-----------------------------------------------------------------------------
Actors ==
    [p \in People |->
        [id |-> p, kind |-> "person", tenant |-> None, projects |-> {"p"},
         roles |-> IF p = director THEN {"ART_DIRECTOR"} ELSE {}]]

Owners == [a \in Assets |-> owner]

Moves(p, states) == {[by |-> p, op |-> "transition", to |-> s] : s \in states}

SomeActs ==
    {[by |-> author, op |-> "raise", asset |-> a1, wants |-> final],
     [by |-> author, op |-> "raise", asset |-> None, wants |-> final],
     [by |-> director, op |-> "assign", to |-> author]}
    \cup Moves(author, {"accepted", "withdrawn"})
    \cup Moves(owner, {"accepted", "fulfilled", "declined", "withdrawn"})
    \cup Moves(director, {"fulfilled"})

Call(p, op) ==
    [by |-> p, op |-> op, via |-> None, id |-> "n1", text |-> "said", reply |-> "n1",
     view |-> front, rule |-> "rule"]

SomeCalls ==
    {Call(author, op) : op \in {"create", "delete"}}
    \cup {Call(owner, op) : op \in {"reply", "resolve", "reopen"}}
    \cup {Call(director, "promote"),
          [Call(director, "promote") EXCEPT !.via = "agent"],
          [Call(author, "edit") EXCEPT !.text = "meant"],
          [Call(author, "move") EXCEPT !.view = side],
          Call(owner, "reanchor")}

\* One image that two assets' views share; a person may type a term in another
\* form, or nothing that is a term.
SomeViews == [a \in Catalogue |-> {image}]
Normalised == [t \in Terms |-> t] @@ ("T 2" :> "t2") @@ ("!" :> None)
SomeNames == [a \in Catalogue |-> "name"]
SomeDeciders == [p \in Deciders |-> Actors[p]]
ArtOwners == (a1 :> author) @@ (a2 :> owner)

\* The sessions of one part, the writers of another and the callers of the third
\* are the same model values, so that one permutation stands for all.
Symmetry == Permutations(Sessions \cup Writers \cup Callers)

=============================================================================
