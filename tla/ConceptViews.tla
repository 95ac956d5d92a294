---------------------------- MODULE ConceptViews ----------------------------
(***************************************************************************)
(* One concept view of one asset: the images its slot holds, one file per  *)
(* format; uploads that validate, commit and then mirror; the history read *)
(* back from the commits; and the annotations pinned to it, carried or     *)
(* orphaned by the shapes along that history.  Two uploads to an empty     *)
(* slot, of two formats, each find their own path free: see the README.    *)
(***************************************************************************)
EXTENDS Integers, Sequences, FiniteSets, Functions, Policy

CONSTANTS
    Uploads,        \* uploads under way
    Images,
    FormatOf,       \* [Images -> Formats]
    ShapeOf,        \* [Images -> aspect ratio; 0 when it cannot be inspected]
    Formats,        \* a sequence: the extensions, in the order they are tried
    Tolerance,
    PinIds,
    MaxCommits      \* bound: commits on the branch

ASSUME ViewsAssumption ==
    /\ Formats \in Seq(Range(Formats)) /\ None \notin Images \cup Range(Formats)
    /\ \A i \in Images : FormatOf[i] \in Range(Formats) /\ ShapeOf[i] \in Nat
    /\ Tolerance \in Nat /\ MaxCommits \in Nat \ {0}

VARIABLES
    log,        \* the branch: after each commit, the slot's file of each format
    upload,     \* where each upload is
    blobs,      \* the mirror
    pins,       \* the annotations on the view: the revision each is against
    reported    \* the pins the last replacement reported as orphaned

viewVars == <<log, upload, blobs, pins, reported>>

Paths == Range(Formats)
Ready == [stage |-> "ready"]
Commits == [held : [Paths -> Images \cup {None}], saw : Images \cup {None}]

ViewsTypeOK ==
    /\ log \in Seq(Commits) /\ Len(log) \in 1..MaxCommits
    /\ blobs \subseteq Images
    /\ DOMAIN pins \subseteq PinIds /\ reported \subseteq DOMAIN pins
    /\ \A p \in DOMAIN pins : pins[p].against \in 1..MaxCommits
                                 /\ pins[p].record \in 0..MaxCommits
    /\ \A u \in Uploads : upload[u].stage \in {"ready", "prepared", "committed"}

Nothing == [f \in Paths |-> None]
Files(held) == {f \in Paths : held[f] # None}

ViewsInit ==
    /\ log \in {<<[held |-> [Nothing EXCEPT ![FormatOf[i]] = i], saw |-> None]>> : i \in Images}
    /\ upload = [u \in Uploads |-> Ready]
    /\ blobs = {} /\ pins = <<>> /\ reported = {}

Held == log[Len(log)].held

-----------------------------------------------------------------------------
\* _existing: the first format the slot holds a file of.
Existing(held) ==
    IF Files(held) = {} THEN None
    ELSE Formats[CHOOSE k \in DOMAIN Formats :
                    Formats[k] \in Files(held) /\ \A j \in 1..(k - 1) : Formats[j] \notin Files(held)]

ImageHeld(held) == IF Existing(held) = None THEN None ELSE held[Existing(held)]

SameShape(before, after) ==
    /\ before # None /\ after # None
    /\ ShapeOf[before] # 0 /\ ShapeOf[after] # 0
    /\ ShapeOf[after] - ShapeOf[before] \in -Tolerance..Tolerance

Before(c) == IF c = 1 THEN Nothing ELSE log[c - 1].held

\* list_view_revisions: every commit that touched a file of the slot, once for
\* each file, as a commit and the place of the file's format.
Touches ==
    {e \in (DOMAIN log) \X (DOMAIN Formats) :
        log[e[1]].held[Formats[e[2]]] # Before(e[1])[Formats[e[2]]]}

ImageAt(e) == log[e[1]].held[Formats[e[2]]]

\* The history's order: of one commit, from the last format tried to the first.
Earlier(d, e) == d[1] < e[1] \/ (d[1] = e[1] /\ d[2] > e[2])
Newest(e) == ~\E later \in Touches : Earlier(e, later)
Adjacent(d, e) == Earlier(d, e) /\ ~\E x \in Touches : Earlier(d, x) /\ Earlier(x, e)

\* marked_current: the newest entry, unless it is a removal.
CurrentRevision ==
    IF \E e \in Touches : Newest(e) /\ ImageAt(e) # None
    THEN (CHOOSE e \in Touches : Newest(e))[1]
    ELSE 0

\* Mutant of Walk: only the two ends of the history are compared.
WalkEnds(start) ==
    \E first, last \in Touches :
        first[1] = start /\ Newest(last) /\ SameShape(ImageAt(first), ImageAt(last))

\* _walk: carried while every step from there keeps the shape.
Walk(start) ==
    /\ \E first \in Touches : first[1] = start
    /\ \A d, e \in Touches :
          /\ Adjacent(d, e)
          /\ \E first \in Touches : first[1] = start /\ (first = d \/ Earlier(first, d))
          => SameShape(ImageAt(d), ImageAt(e))

\* anchor_state_for: a recorded re-anchoring is where the walk starts.
Orphaned(pin) == ~Walk(IF pin.record # 0 THEN pin.record ELSE pin.against)

-----------------------------------------------------------------------------
Committed(held, saw) == log' = Append(log, [held |-> held, saw |-> saw])
Room == Len(log) < MaxCommits

\* Everything is validated, against the slot as it is now, before any write;
\* an image that is there already is answered as unchanged.
Prepare(u, image) ==
    /\ upload[u].stage = "ready"
    /\ ShapeOf[image] # 0
    /\ image # ImageHeld(Held)
    /\ upload' = [upload EXCEPT ![u] =
          [stage |-> "prepared", image |-> image, path |-> Existing(Held),
           saw |-> ImageHeld(Held), pinned |-> DOMAIN pins]]
    /\ UNCHANGED <<log, blobs, pins, reported>>

\* Mutant of Replaceable: the slot is not looked at again.
ReplaceableAnyway(mine) == mine.stage = "prepared"

\* _recheck and the preconditions of the edits: what was seen is still there,
\* and a path of another format is still free.
Replaceable(mine) ==
    /\ mine.path # None => Held[mine.path] = mine.saw
    /\ FormatOf[mine.image] # mine.path => Held[FormatOf[mine.image]] = None

\* Mutant of OutcomeOrphans: without the tolerance.
OutcomeOrphansStrict(mine) ==
    IF mine.saw = None \/ ShapeOf[mine.saw] = ShapeOf[mine.image] THEN {}
    ELSE mine.pinned

\* _annotation_outcome: the pins the uploader is told were orphaned.
OutcomeOrphans(mine) ==
    IF mine.saw = None \/ SameShape(mine.saw, mine.image) THEN {}
    ELSE mine.pinned

CommitUpload(u) ==
    LET mine == upload[u] IN
    /\ mine.stage = "prepared" /\ Replaceable(mine) /\ Room
    /\ Committed([f \in Paths |-> IF f = FormatOf[mine.image] THEN mine.image
                                  ELSE IF f = mine.path THEN None
                                  ELSE Held[f]],
                 mine.saw)
    /\ reported' = OutcomeOrphans(mine)
    /\ upload' = [upload EXCEPT ![u] = [stage |-> "committed", image |-> mine.image]]
    /\ UNCHANGED <<blobs, pins>>

\* The slot changed, or the write-back was refused: nothing was mirrored.
RefuseUpload(u) ==
    /\ upload[u].stage = "prepared"
    /\ upload' = [upload EXCEPT ![u] = Ready]
    /\ UNCHANGED <<log, blobs, pins, reported>>

\* Mutant of Mirror: mirrored as soon as it is validated.
MirrorFirst(u) ==
    /\ upload[u].stage \in {"prepared", "committed"}
    /\ blobs' = blobs \cup {upload[u].image}
    /\ upload' = [upload EXCEPT ![u] = Ready]
    /\ UNCHANGED <<log, pins, reported>>

\* _mirror: after the commit, and never a reason to fail it.
Mirror(u) ==
    /\ upload[u].stage = "committed"
    /\ blobs' \in {blobs, blobs \cup {upload[u].image}}
    /\ upload' = [upload EXCEPT ![u] = Ready]
    /\ UNCHANGED <<log, pins, reported>>

\* Mutant of MirrorViews: a path without a file is mirrored too.
MirrorViewsUnread ==
    /\ blobs' = blobs \cup {Held[f] : f \in Paths}
    /\ blobs' # blobs
    /\ UNCHANGED <<log, upload, pins, reported>>

\* mirror_views: every file the branch holds now.
MirrorViews ==
    /\ blobs' = blobs \cup ({Held[f] : f \in Paths} \ {None})
    /\ blobs' # blobs
    /\ UNCHANGED <<log, upload, pins, reported>>

LoseBlobs ==
    /\ blobs # {} /\ blobs' = {}
    /\ UNCHANGED <<log, upload, pins, reported>>

RemoveView ==
    /\ Existing(Held) # None /\ Room
    /\ Committed([Held EXCEPT ![Existing(Held)] = None], ImageHeld(Held))
    /\ UNCHANGED <<upload, blobs, pins, reported>>

\* Somebody pushes an image, one that cannot be inspected perhaps.
PushImage(image) ==
    /\ Held[FormatOf[image]] # image /\ Room
    /\ Committed([Held EXCEPT ![FormatOf[image]] = image], None)
    /\ UNCHANGED <<upload, blobs, pins, reported>>

\* create_annotation: against the revision the caller was shown.
PlacePin(p) ==
    /\ p \notin DOMAIN pins /\ CurrentRevision # 0
    /\ pins' = [q \in DOMAIN pins \cup {p} |->
                   IF q = p THEN [against |-> CurrentRevision, record |-> 0] ELSE pins[q]]
    /\ UNCHANGED <<log, upload, blobs, reported>>

\* annotations.reanchor_annotation: against the revision of the whole branch,
\* which its own commit then moves on.
Reanchor(p) ==
    /\ p \in DOMAIN pins /\ Room
    /\ pins' = [pins EXCEPT ![p].against = Len(log)]
    /\ Committed(Held, None)
    /\ reported' = reported \ {p}
    /\ UNCHANGED <<upload, blobs>>

\* view_revisions.reanchor_annotation: a file of its own, which must be new.
RecordReanchoring(p) ==
    /\ p \in DOMAIN pins /\ pins[p].record = 0 /\ CurrentRevision # 0 /\ Room
    /\ pins' = [pins EXCEPT ![p].record = CurrentRevision]
    /\ Committed(Held, None)
    /\ reported' = reported \ {p}
    /\ UNCHANGED <<upload, blobs>>

ViewsNext ==
    \/ \E u \in Uploads : \/ \E image \in Images : Prepare(u, image)
                          \/ CommitUpload(u) \/ RefuseUpload(u) \/ Mirror(u)
    \/ \E image \in Images : PushImage(image)
    \/ \E p \in PinIds : PlacePin(p) \/ Reanchor(p) \/ RecordReanchoring(p)
    \/ MirrorViews \/ LoseBlobs \/ RemoveView

ViewsSpec == ViewsInit /\ [][ViewsNext]_viewVars

-----------------------------------------------------------------------------
\* "The existing view SHALL be replaced rather than a second view created": an
\* upload that saw an image replaces that one, and adds no file beside it.
ReplacementsReplace ==
    \A c \in 2..Len(log) :
        LET before == log[c - 1].held
            after == log[c].held
        IN log[c].saw # None =>
              /\ \E f \in Paths : before[f] = log[c].saw /\ after[f] # before[f]
              /\ Cardinality(Files(after)) <= Cardinality(Files(before))

\* "The system SHALL NOT re-anchor an orphaned annotation automatically": an
\* orphan stays one, whatever images follow, until a person re-anchors it.
OrphansStay ==
    \A p \in DOMAIN pins :
       log' # log /\ pins'[p] = pins[p] /\ Orphaned(pins[p])
           => Orphaned(pins[p])'

\* "The outcome is never silent": while the slot has never held two files at
\* once, a pin the uploader is told was orphaned is one for every reader of the
\* history.
ReportedAreOrphans ==
    (\A c \in DOMAIN log : Cardinality(Files(log[c].held)) <= 1)
        => \A p \in reported : Orphaned(pins[p])

\* "No view SHALL exist in blob storage without existing in the repository."
BlobsArePublished ==
    \A b \in blobs : \E c \in DOMAIN log : \E f \in Paths : log[c].held[f] = b

\* Images replace what they should, and pins are orphaned aloud and for good.
ViewsAreKept ==
    [][/\ ViewsTypeOK'
       /\ ReplacementsReplace'
       /\ ReportedAreOrphans'
       /\ BlobsArePublished'
       /\ OrphansStay]_viewVars

=============================================================================
