------------------------------ MODULE MCShared ------------------------------
(***************************************************************************)
(* Model values for what agents write into a working copy, and for the     *)
(* links to documents and the cards that show them, checked in one run     *)
(* with the keyed writes: the initial state chooses which of them lives,   *)
(* and the others stay where they began.                                   *)
(***************************************************************************)
EXTENDS MCIdempotentWrites, AgentWrites, DocumentLinks, DocumentCards

VARIABLE part

partVars == <<vars, agentVars, linkVars, cardVars, part>>

PartInit ==
    /\ part \in {"keyed", "agents", "links", "cards"}
    /\ Init /\ AgentsInit /\ LinksInit /\ CardsInit

PartNext ==
    /\ UNCHANGED part
    /\ \/ part = "keyed" /\ Next /\ UNCHANGED <<agentVars, linkVars, cardVars>>
       \/ part = "agents" /\ AgentsNext /\ UNCHANGED <<vars, linkVars, cardVars>>
       \/ part = "links" /\ LinksNext /\ UNCHANGED <<vars, agentVars, cardVars>>
       \/ part = "cards" /\ CardsNext /\ UNCHANGED <<vars, agentVars, linkVars>>

PartSpec == PartInit /\ [][PartNext]_partVars

-----------------------------------------------------------------------------
\* Two server processes of one agent, and one person they act for.
AllAgents == [g \in Agents |-> "agent"]
SomeSigned ==
    [p \in Signed |-> [id |-> p, kind |-> "person", tenant |-> None, projects |-> {"p"},
                       roles |-> {}]]
SomeSayings ==
    {[text |-> "A", about |-> "head"], [text |-> "a", about |-> "head"],
     [text |-> "b", about |-> "tail"]}
Lowered == [t \in {"A", "a", "b"} |-> IF t = "A" THEN "a" ELSE t]

\* The agents of one part, the processes of another and the viewers of the third
\* are the same model values, so that one permutation stands for all.
SharedSymmetry == Symmetry \cup Permutations(Agents \cup Doers \cup Viewers)

=============================================================================
