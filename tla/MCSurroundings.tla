--------------------------- MODULE MCSurroundings ---------------------------
(***************************************************************************)
(* Model values for who a caller is taken for, whose names commits bear,   *)
(* what an export is judged by and which preview of it is shown, checked   *)
(* in one run with the instance that is killed: the initial state chooses  *)
(* which of them lives, and the others stay where they began.              *)
(***************************************************************************)
EXTENDS MCHostedRepository, Identities, GitAuthors, Verdicts, Previews

VARIABLE part

partVars == <<vars, identityVars, authorVars, verdictVars, previewVars, part>>

PartInit ==
    /\ part \in {"repository", "identities", "authors", "verdicts", "previews"}
    /\ Init /\ IdentitiesInit /\ AuthorsInit /\ VerdictsInit /\ PreviewsInit
    /\ part # "identities" => holding.org = "studio"
    /\ part # "verdicts" => defaults["bones"] = {} /\ mesh.scale = 1

PartNext ==
    /\ UNCHANGED part
    /\ \/ part = "repository" /\ Next /\ UNCHANGED <<identityVars, authorVars, verdictVars, previewVars>>
       \/ part = "identities" /\ IdentitiesNext /\ UNCHANGED <<vars, authorVars, verdictVars, previewVars>>
       \/ part = "authors" /\ AuthorsNext /\ UNCHANGED <<vars, identityVars, verdictVars, previewVars>>
       \/ part = "verdicts" /\ VerdictsNext /\ UNCHANGED <<vars, identityVars, authorVars, previewVars>>
       \/ part = "previews" /\ PreviewsNext /\ UNCHANGED <<vars, identityVars, authorVars, verdictVars>>

PartSpec == PartInit /\ [][PartNext]_partVars

-----------------------------------------------------------------------------
(* People: one role of this application, and roles of another. *)

RoleOf(app, key) == [app |-> app, key |-> key]
SomeHoldings ==
    {[roles |-> {RoleOf("canon", "lead")}, orgs |-> {"studio"}, org |-> "studio"],
     [roles |-> {RoleOf("canon", "lead")}, orgs |-> {"other"}, org |-> "other"],
     [roles |-> {RoleOf("else", "lead"), RoleOf("else", "guest")}, orgs |-> {"studio", "other"},
      org |-> "other"]}
Groups == [key \in {"lead"} |-> "ART_DIRECTOR"]

\* Two people, with addresses that differ in case only, and an empty one.
SomeAddresses == {"e", "E", "f", ""}
Lowered == [a \in SomeAddresses |-> IF a = "E" THEN "e" ELSE a]
SomeBindings ==
    [subject : {"ana", "bob"},
     emails : {<<>>, <<"e">>, <<"E">>, <<"f", "E">>, <<"">>, <<"E", "e">>}]

-----------------------------------------------------------------------------
(* Specifications: budgets of one and two triangles, two states. *)

State(name, animated, clip, frames, root, loop) ==
    [name |-> name, animated |-> animated, clip |-> clip, rate |-> {}, frames |-> frames,
     root |-> root, loop |-> loop]
SomeValues ==
    [f \in DOMAIN Blank |-> {{}} \cup
        CASE f \in {"budget", "scale", "bones", "rate"} -> {{1}}
          [] f = "lods" -> {{<<0, 1>>}, {<<0, 1>>, <<1, 1>>}, {<<0, 2>>, <<1, 1>>}}
          [] f \in {"naming", "pattern"} -> {{"on"}}
          [] f = "rig" -> {{"rig"}}
          [] f = "skinned" -> {{FALSE}}
          [] f = "states" -> {{State("walk", TRUE, {}, {2}, {}, {TRUE})},
                              {State("walk", FALSE, {}, {}, {}, {})},
                              {State("walk", TRUE, {"run"}, {}, {TRUE}, {})}}
          [] f = "sockets" -> {{"s"}}]
NoDefaults == [f \in Constrained |-> {}]
SomeDefaults ==
    {NoDefaults, [NoDefaults EXCEPT !["bones"] = {1}, !["pattern"] = {"on"}, !["budget"] = {1}]}

Clip(name, rate, seconds, closed) ==
    [name |-> name, rate |-> rate, seconds |-> seconds, root |-> {}, closed |-> closed]
SomeMeshes ==
    {[triangles |-> 2, levels |-> {0}, misnamed |-> TRUE, applied |-> FALSE, scale |-> 2,
      empties |-> {}, bones |-> 2, skinned |-> FALSE,
      clips |-> {Clip("walk", {2}, {1}, {FALSE}), Clip("run", {}, {1}, {FALSE})}],
     [triangles |-> 2, levels |-> {1}, misnamed |-> FALSE, applied |-> TRUE, scale |-> 1,
      empties |-> {"s"}, bones |-> 1, skinned |-> TRUE,
      clips |-> {Clip("walk", {1}, {2}, {TRUE})}]}

=============================================================================
