----------------------------- MODULE SpecFiles -----------------------------
(***************************************************************************)
(* An asset's yaml, which people write by hand and the program edits: what *)
(* is read of it when some of it cannot be, and what an edit of one block  *)
(* leaves of the rest.                                                     *)
(***************************************************************************)
EXTENDS Integers, Sequences, FiniteSets, Functions, Positions

CONSTANTS
    Words,      \* aliases
    Notes,      \* ids of annotations
    Sayings,    \* what an annotation says, its state and target included
    Extras,     \* keys this version does not know
    Limits,     \* values of a constraint
    MaxItems    \* bound: entries of the yaml's lists together

Bad == "not a text"     \* an entry of the wrong type
Supported == 1          \* SCHEMA_VERSION

ASSUME FilesAssumption == Bad \notin Words /\ MaxItems \in Nat

VARIABLES
    yaml,       \* [version, aliases, notes, rig, extras]
    meant       \* what the last edit meant the yaml to say, if it is an edit's: a set of at most one

fileVars == <<yaml, meant>>

\* How a person may have written an annotation: as this program does, with a comment or
\* without; otherwise, in a way that reads the same; with no usable target; with a value
\* of the wrong type; or without its id.
Forms == {"ours", "commented", "otherwise", "unanchored", "mistyped", "nameless"}

-----------------------------------------------------------------------------
(* Reading. *)

Lists == Seq(Words \cup {Bad})
Wrong(list) == {i \in DOMAIN list : list[i] = Bad}

\* Mutant of Dropped: one entry of the wrong type costs the whole list.
DroppedList(list) == <<>>

\* _drop_invalid, _drop: the parser's places are those of the list before any was
\* dropped, so each is where an entry further on has moved to, by as many as there
\* are wrong ones before it.
Dropped(list) ==
    Picked(list, DOMAIN list \ {i + Place(Wrong(list), i) - 1 : i \in Wrong(list)})

\* _parse: whatever is wrong with what remains is found when it is parsed again.
Repaired[list \in Lists] == IF Wrong(list) = {} THEN list ELSE Repaired[Dropped(list)]

\* check_schema_version, and a required key that is missing cannot be dropped.
IsReadable(f) ==
    /\ f.version <= Supported
    /\ \A i \in DOMAIN f.notes : f.notes[i].form # "nameless"

\* _annotations: one with no usable anchor is reported and left out.
Anchored(node) == node.form \in {"ours", "commented", "otherwise"}

\* to_asset
ReadOf(f) ==
    LET read == Picked(f.notes, {i \in DOMAIN f.notes : Anchored(f.notes[i])})
    IN  [aliases |-> Repaired[f.aliases],
         notes |-> [i \in DOMAIN read |-> [id |-> read[i].id, says |-> read[i].says]],
         bones |-> f.rig.bones, skeleton |-> f.rig.skeleton]

-----------------------------------------------------------------------------
(* Writing. *)

\* Mutant of SetAliases: nothing is taken out of the sequence.
SetAliasesAdding(existing, wanted) ==
    existing \o Picked(wanted, {i \in DOMAIN wanted : wanted[i] \notin Range(existing)})

\* _set_aliases: in place.
SetAliases(existing, wanted) ==
    Picked(existing, {i \in DOMAIN existing : existing[i] \in Range(wanted)})
        \o Picked(wanted, {i \in DOMAIN wanted : wanted[i] \notin Range(existing)})

Rendered(note) == [id |-> note.id, says |-> note.says, form |-> "ours"]

\* _matches: the node says exactly what would be written.
Matches(node, note) ==
    node.form \in {"ours", "commented"} /\ node.id = note.id /\ node.says = note.says

\* Mutant of SetNotes: the list is written anew.
SetNotesAfresh(existing, wanted) == [i \in DOMAIN wanted |-> Rendered(wanted[i])]

\* _set_annotations, _by_id: the last node of an id, when it matches.
SetNotes(existing, wanted) ==
    [i \in DOMAIN wanted |->
        LET last == {j \in DOMAIN existing :
                       /\ existing[j].id = wanted[i].id
                       /\ \A k \in DOMAIN existing : existing[k].id = wanted[i].id => k <= j}
        IN  IF \E j \in last : Matches(existing[j], wanted[i])
            THEN existing[CHOOSE j \in last : TRUE]
            ELSE Rendered(wanted[i])]

\* _set_constraints, _set_nested: the members that changed.
SetRig(rig, before, after) ==
    [rig EXCEPT !.bones = IF after.bones # before.bones THEN after.bones ELSE @,
                !.skeleton = IF after.skeleton # before.skeleton THEN after.skeleton ELSE @]

\* render: the blocks that changed, compared with what the yaml was read as.
Render(f, asset) ==
    LET before == ReadOf(f)
    IN  [f EXCEPT
            !.aliases = IF asset.aliases # before.aliases THEN SetAliases(@, asset.aliases) ELSE @,
            !.notes = IF asset.notes # before.notes THEN SetNotes(@, asset.notes) ELSE @,
            !.rig = SetRig(@, before, asset)]

\* The bound, which the code does not have.
Room == Len(yaml.aliases) + Len(yaml.notes) < MaxItems

Edit(asset) ==
    /\ IsReadable(yaml)
    /\ asset # ReadOf(yaml)
    /\ yaml' = Render(yaml, asset)
    /\ meant' = {asset}

\* accept_suggestion
AcceptAlias(w) ==
    /\ w \notin Range(ReadOf(yaml).aliases) /\ Room
    /\ Edit([ReadOf(yaml) EXCEPT !.aliases = Append(@, w)])

Annotate(n, s) ==
    /\ n \notin {yaml.notes[i].id : i \in DOMAIN yaml.notes} /\ Room
    /\ Edit([ReadOf(yaml) EXCEPT !.notes = Append(@, [id |-> n, says |-> s])])

\* A reply, a state, a moved anchor: what one annotation says.
Amend(i, s) ==
    /\ i \in DOMAIN ReadOf(yaml).notes
    /\ Edit([ReadOf(yaml) EXCEPT !.notes[i].says = s])

Withdraw(i) ==
    /\ i \in DOMAIN ReadOf(yaml).notes
    /\ Edit([ReadOf(yaml) EXCEPT !.notes = Picked(@, DOMAIN @ \ {i})])

\* promote: a constraint is decided.
Promote(value) == Edit([ReadOf(yaml) EXCEPT !.bones = value])

-----------------------------------------------------------------------------
(* People. *)

ByHand(f) == yaml' = f /\ meant' = {}

AliasByHand ==
    /\ Room
    /\ \E w \in Words \cup {Bad} : ByHand([yaml EXCEPT !.aliases = Append(@, w)])

NoteByHand ==
    /\ Room
    /\ \E n \in Notes \ {yaml.notes[i].id : i \in DOMAIN yaml.notes}, s \in Sayings, form \in Forms :
          ByHand([yaml EXCEPT !.notes = Append(@, [id |-> n, says |-> s, form |-> form])])

RigByHand == \E v \in Limits, x \in Extras :
    ByHand([yaml EXCEPT !.rig = [bones |-> v, skeleton |-> v, extra |-> x]])

\* A newer version of the program wrote the yaml.
Upgrade == \E x \in Extras : ByHand([yaml EXCEPT !.version = 2, !.extras = {x}])

FilesInit ==
    /\ yaml = [version |-> 1, aliases |-> <<>>, notes |-> <<>>, extras |-> {},
               rig |-> [bones |-> {}, skeleton |-> {}, extra |-> "none"]]
    /\ meant = {}

FilesNext ==
    \/ \E w \in Words : AcceptAlias(w)
    \/ \E n \in Notes, s \in Sayings : Annotate(n, s)
    \/ \E i \in 1..MaxItems : Withdraw(i) \/ \E s \in Sayings : Amend(i, s)
    \/ \E value \in Limits : Promote(value)
    \/ AliasByHand \/ NoteByHand \/ RigByHand \/ Upgrade

FilesSpec == FilesInit /\ [][FilesNext]_fileVars

-----------------------------------------------------------------------------
\* What an edit wrote is what is read back, whatever else was in the yaml: the
\* aliases in any order, the annotations in theirs.
WrittenIsRead ==
    \A asset \in meant : /\ IsReadable(yaml)
                         /\ Range(ReadOf(yaml).aliases) = Range(asset.aliases)
                         /\ [ReadOf(yaml) EXCEPT !.aliases = <<>>] = [asset EXCEPT !.aliases = <<>>]

\* One entry of the wrong type costs the reader nothing else: every other is read, in
\* its order.  (Two in one list cost a third: the places of the first list are dropped
\* from one that has moved up.)
OneBadEntryCostsItself ==
    Cardinality(Wrong(yaml.aliases)) <= 1 =>
        ReadOf(yaml).aliases = Picked(yaml.aliases, DOMAIN yaml.aliases \ Wrong(yaml.aliases))

\* An edit leaves alone what it is not about: the blocks it changes nothing of, the
\* members and keys it does not know, and every other annotation that was written as
\* this program writes them, with the comments beside it.
OnlyWhatChangedIsWritten ==
    meant' # {} =>
     LET before == ReadOf(yaml)
         after == ReadOf(yaml')
     IN  /\ yaml'.version = yaml.version /\ yaml'.extras = yaml.extras
         /\ yaml'.rig.extra = yaml.rig.extra /\ yaml'.rig.skeleton = yaml.rig.skeleton
         /\ before.bones = after.bones => yaml'.rig = yaml.rig
         /\ before.aliases = after.aliases => yaml'.aliases = yaml.aliases
         /\ before.notes = after.notes => yaml'.notes = yaml.notes
         /\ \A i \in DOMAIN yaml.notes :
               /\ yaml.notes[i].form = "commented"
               /\ [id |-> yaml.notes[i].id, says |-> yaml.notes[i].says] \in Range(after.notes)
               => yaml.notes[i] \in Range(yaml'.notes)

\* What is written is read back, and what cannot be read or is not edited is
\* left alone.
FilesAreKept ==
    [][/\ WrittenIsRead'
       /\ OneBadEntryCostsItself'
       /\ OnlyWhatChangedIsWritten]_fileVars

=============================================================================
