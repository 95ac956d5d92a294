----------------------------- MODULE MCServices -----------------------------
(***************************************************************************)
(* Model values for the runner, the release step and a browser's           *)
(* annotation screen.  The initial state chooses which of them lives; the  *)
(* others stay where they began.                                           *)
(***************************************************************************)
EXTENDS Runner, Migrations, AnnotationScreen

VARIABLE part

servicesVars == <<runnerVars, schemaVars, screenVars, part>>

Init ==
    /\ part \in {"runner", "schema", "screen"}
    /\ RunnerInit /\ SchemaInit /\ ScreenInit

RunnerLives == part = "runner" /\ RunnerNext /\ UNCHANGED <<schemaVars, screenVars>>
SchemaLives == part = "schema" /\ SchemaNext /\ UNCHANGED <<runnerVars, screenVars>>
ScreenLives == part = "screen" /\ ScreenNext /\ UNCHANGED <<runnerVars, schemaVars>>

Next == UNCHANGED part /\ (RunnerLives \/ SchemaLives \/ ScreenLives)

\* The runner is scheduled as it is when it runs alone; the other parts promise
\* nothing that takes fairness, and the runner takes no step beside them.
Spec == Init /\ [][Next]_servicesVars /\ (part = "runner" => RunnerFairness)

=============================================================================
