------------------------------ MODULE Previews ------------------------------
(***************************************************************************)
(* The preview of an asset: stored beside each validation as an object and *)
(* then a sidecar, numbered by how many sidecars there are, and chosen     *)
(* among all that are stored when a viewer asks.  One worker, which may be *)
(* killed between any two of its calls.                                    *)
(***************************************************************************)
EXTENDS Naturals, SequencesExt

CONSTANTS
    Exports,    \* paths of the asset's exports
    Digests,   \* digests of what they may hold: numbers, ordered as their keys are
    MaxPuts     \* bound: previews stored

ASSUME PreviewsAssumption == Digests \subseteq Nat /\ MaxPuts \in Nat

VARIABLES
    exported,   \* [Exports -> Digests], on the branch
    edited,     \* the specification was edited since the last recorded validation
    objects,    \* the previews stored
    sidecars,   \* [previews -> [export, ordinal]], of those that have one
    judged,     \* the record beside the asset: a set of at most one
    working,    \* the validation under way: a set of at most one
    puts        \* the previews stored, sidecar and all, in order

previewVars == <<exported, edited, objects, sidecars, judged, working, puts>>

-----------------------------------------------------------------------------
\* Mutant of Order: the sidecar is written first.
OrderReversed == <<"sidecar", "object">>

\* put_preview
Order == <<"object", "sidecar">>

\* Mutant of NextOrdinal: previews are not numbered.
NextOrdinalZero(stored) == IF stored = {} THEN 0 ELSE 0

\* _next_ordinal: how many previews the asset has.
NextOrdinal(stored) == Cardinality(stored)

\* What the worker does of a validation, in order: it stores, then it commits.
Steps == Order \o <<"commit">>

ExportAgain ==
    /\ \E e \in Exports : \E c \in Digests \ {exported[e]} :
           exported' = [exported EXCEPT ![e] = c]
    /\ UNCHANGED <<edited, objects, sidecars, judged, working, puts>>

EditSpecification ==
    /\ ~edited
    /\ edited' = TRUE
    /\ UNCHANGED <<exported, objects, sidecars, judged, working, puts>>

\* _considered: what the record was taken of is not judged again.
Needed(e) == edited \/ ~\E j \in judged : j.export = e /\ j.content = exported[e]

\* validate_export: the verdict is known, and a preview is emitted whatever it is;
\* failing to emit one fails nothing else.
Judge(e) ==
    /\ working = {} /\ Needed(e) /\ Len(puts) < MaxPuts
    /\ \E passed, emitted \in BOOLEAN :
           working' = {[export |-> e, content |-> exported[e], passed |-> passed,
                        step |-> IF emitted THEN 1 ELSE Len(Steps)]}
    /\ UNCHANGED <<exported, edited, objects, sidecars, judged, puts>>

PutObject(v) ==
    /\ objects' = objects \cup {v.content}
    /\ UNCHANGED sidecars

PutSidecar(v) ==
    /\ sidecars' = [p \in DOMAIN sidecars \cup {v.content} |->
                        IF p = v.content
                        THEN [export |-> v.export, ordinal |-> NextOrdinal(DOMAIN sidecars)]
                        ELSE sidecars[p]]
    /\ UNCHANGED objects

Put(v) ==
    /\ \/ Steps[v.step] = "object" /\ PutObject(v)
       \/ Steps[v.step] = "sidecar" /\ PutSidecar(v)
    /\ working' = {[v EXCEPT !.step = @ + 1]}
    /\ puts' = IF Steps[v.step + 1] = "commit" THEN Append(puts, v.content) ELSE puts
    /\ UNCHANGED <<exported, edited, judged>>

\* The store refuses: there is no preview, and the validation goes on.
PutFails(v) ==
    /\ Steps[v.step] # "commit"
    /\ working' = {[v EXCEPT !.step = Len(Steps)]}
    /\ UNCHANGED <<exported, edited, objects, sidecars, judged, puts>>

\* _committed: the record lands, or its write-back is refused.
Record(v) ==
    /\ Steps[v.step] = "commit"
    /\ \/ /\ judged' = {[export |-> v.export, content |-> v.content, passed |-> v.passed]}
          /\ edited' = FALSE
       \/ UNCHANGED <<judged, edited>>
    /\ working' = {}
    /\ UNCHANGED <<exported, objects, sidecars, puts>>

PreviewsCrash ==
    /\ working # {}
    /\ working' = {}
    /\ UNCHANGED <<exported, edited, objects, sidecars, judged, puts>>

-----------------------------------------------------------------------------
\* preview_for: the last by ordinal, and by key among equals.
PreviewFor ==
    {p \in DOMAIN sidecars :
        \A q \in DOMAIN sidecars \ {p} :
            \/ sidecars[q].ordinal < sidecars[p].ordinal
            \/ sidecars[q].ordinal = sidecars[p].ordinal /\ q < p}

\* get_preview_descriptor: nothing is shown of an asset whose record is not a pass.
Displayed == IF \E j \in judged : j.passed THEN PreviewFor ELSE {}

\* read_preview
Readable == Displayed \cap objects

PreviewsInit ==
    /\ exported \in [Exports -> {CHOOSE c \in Digests : \A d \in Digests : c <= d}]
    /\ edited = FALSE
    /\ objects = {} /\ sidecars = <<>> /\ judged = {} /\ working = {} /\ puts = <<>>

PreviewsNext ==
    \/ ExportAgain \/ EditSpecification \/ PreviewsCrash
    \/ \E e \in Exports : Judge(e)
    \/ \E v \in working : Put(v) \/ PutFails(v) \/ Record(v)

PreviewsSpec == PreviewsInit /\ [][PreviewsNext]_previewVars

-----------------------------------------------------------------------------
\* A preview a viewer is told of can be read, whenever the worker was killed.
DisplayedCanBeRead == Readable = Displayed

\* As long as no content was stored a second time, the preview displayed is the one
\* stored last, however the validations before it ended.
FreshIsDisplayed ==
    puts # <<>> /\ IsInjective(puts) /\ Displayed # {} => Displayed = {Last(puts)}

\* The preview that is shown can be read and is the last one put.
PreviewsAreFresh ==
    /\ DisplayedCanBeRead
    /\ FreshIsDisplayed

=============================================================================
