------------------------------ MODULE MCFiles ------------------------------
(***************************************************************************)
(* Model values for an asset's file and for the stores that find assets,   *)
(* checked in one run with the working copy the files live in: the initial *)
(* state chooses which of them lives, and the others stay where they began. *)
(***************************************************************************)
EXTENDS MCHostedRepository, SearchStores, SpecFiles

VARIABLE part

partVars == <<vars, storeVars, fileVars, part>>

PartInit ==
    /\ part \in {"repository", "stores", "files"}
    /\ Init /\ StoresInit /\ FilesInit

PartNext ==
    /\ UNCHANGED part
    /\ \/ part = "repository" /\ Next /\ UNCHANGED <<storeVars, fileVars>>
       \/ part = "stores" /\ StoresNext /\ UNCHANGED <<vars, fileVars>>
       \/ part = "files" /\ FilesNext /\ UNCHANGED <<vars, storeVars>>

PartSpec == PartInit /\ [][PartNext]_partVars

-----------------------------------------------------------------------------
(* Letters of both cases, a blank and a line break. *)

LetterCase == [x \in {"a", "A", "b", "_", "|"} |-> IF x = "A" THEN "a" ELSE x]
SomeProjects == {<<"p">>}
SomeIds == {<<"a">>, <<"b", "a">>}
SomeNames == {<<"A", "b">>}
SomeAliasLists ==
    {<<>>, << <<"b", "_", "a", "_", "A">>, <<"_", "b", "b">> >>, << <<"b", "|", "b">> >>}
SomeProposed == {<<"a", "_", "b", "_", "A">>}
SomeAsked ==
    {<<"_">>, <<"b", "_", "A", "_", "a", "_">>, <<"b", "b">>, <<"b", "b", "_">>,
     <<"a", "_", "b", "_", "a">>, <<"b", "|", "b">>}

\* A budget that is declared or not.
SomeLimits == {{}, {1}}

=============================================================================
