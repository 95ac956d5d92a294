-------------------------- MODULE AnnotationScreen --------------------------
(***************************************************************************)
(* One person annotating in one tab: the query cache, the view model that  *)
(* shows a pin before it is recorded, and a service other people write to. *)
(* A listing is what the service holds when it answers; the revision in a  *)
(* cache key only says which answer is remembered.                         *)
(***************************************************************************)
EXTENDS Naturals

CONSTANTS
    Sheets,         \* assets
    Mine, Theirs,   \* the pins this person, and others, may record
    Calm            \* nothing is sent, and no sheet left, before the last act's answers are in

Nothing == "nothing"

ASSUME ScreenAssumption ==
    /\ Calm \in BOOLEAN
    /\ Mine \cap Theirs = {} /\ Nothing \notin Mine \cup Theirs \cup Sheets

VARIABLES
    service,    \* [pins, at]: what each asset holds, and the revisions so far
    cache,      \* remembered listings: [sheet, rev] -> listing
    reads,      \* loads under way: [by, sheet, rev, stage, listing]
    screen,     \* the view model
    write,      \* the write under way, or NoWrite
    acked       \* pins whose recording the person was told of, by asset

screenVars == <<service, cache, reads, screen, write, acked>>

Latest == 0
NoWrite == [stage |-> "none", sheet |-> Nothing, id |-> Nothing, rev |-> Latest]
NoRead == [stage |-> "none", sheet |-> Nothing, rev |-> Latest,
           listing |-> [sheet |-> Nothing, pins |-> {}, rev |-> Latest]]
Blank == [sheet |-> Nothing, shown |-> {}, rev |-> Latest, draft |-> Nothing,
          pending |-> {}, state |-> "idle"]

\* Two loads may be under way: the page's own and the view model's.
Readers == {"page", "model"}

ScreenTypeOK ==
    /\ \A k \in DOMAIN cache : cache[k].sheet = k.sheet
    /\ \A r \in Readers : reads[r].stage \in {"none", "asked", "answered"}
    /\ screen.state \in {"idle", "pending", "failed"}
    /\ screen.pending \subseteq Mine /\ screen.draft \in Mine \cup {Nothing}
    /\ screen.state = "idle" => screen.pending = {}

ScreenInit ==
    /\ service = [pins |-> [s \in Sheets |-> {}], at |-> 1]
    /\ cache = <<>>
    /\ reads = [r \in Readers |-> NoRead]
    /\ screen = Blank
    /\ write = NoWrite
    /\ acked = [s \in Sheets |-> {}]

-----------------------------------------------------------------------------
AtRest == write.stage = "none" /\ \A r \in Readers : reads[r].stage = "none"

Listed(s) == [sheet |-> s, pins |-> service.pins[s], rev |-> service.at]

\* hydrate: the listing says which asset it is of.
Hydrated(listing) ==
    [screen EXCEPT !.sheet = listing.sheet, !.shown = listing.pins,
                   !.rev = listing.rev, !.pending = {}]

\* QueryCache.read: the entry, the same load when it is under way, or a load.
Begin(r, s, rev) ==
    LET k == [sheet |-> s, rev |-> rev]
        same == {q \in Readers : reads[q].stage # "none" /\ reads[q].sheet = s
                                 /\ reads[q].rev = rev}
    IN  reads' = [reads EXCEPT ![r] =
            IF k \in DOMAIN cache
            THEN [stage |-> "answered", sheet |-> s, rev |-> rev, listing |-> cache[k]]
            ELSE IF same # {} THEN reads[CHOOSE q \in same : TRUE]
            ELSE [NoRead EXCEPT !.stage = "asked", !.sheet = s, !.rev = rev]]

\* The page's load, and attach: another asset, or this one again.
Open(s) ==
    /\ reads["page"].stage = "none" /\ (Calm => write.stage = "none")
    /\ screen' = [Blank EXCEPT !.sheet = s]
    /\ Begin("page", s, Latest)
    /\ UNCHANGED <<service, cache, write, acked>>

\* The service answers one load.
AnswerRead(r) ==
    /\ reads[r].stage = "asked"
    /\ reads' = [reads EXCEPT ![r] = [@ EXCEPT !.stage = "answered", !.listing = Listed(reads[r].sheet)]]
    /\ UNCHANGED <<service, cache, screen, write, acked>>

Remembered(k, listing) ==
    [j \in DOMAIN cache \cup {k} |-> IF j = k THEN listing ELSE cache[j]]

\* read: the answer is remembered; the page's hydrates its own sheet, the view
\* model's whatever sheet is open by now.
Receive(r) ==
    LET got == reads[r]
    IN  /\ got.stage = "answered"
        /\ cache' = Remembered([sheet |-> got.sheet, rev |-> got.rev], got.listing)
        /\ reads' = [reads EXCEPT ![r] = NoRead]
        /\ screen' = IF r = "model" \/ screen.sheet = got.sheet
                     THEN Hydrated(got.listing) ELSE screen
        /\ UNCHANGED <<service, write, acked>>

\* compose and setDraftText: pin n, not yet sent.
Compose(n) ==
    /\ screen.sheet # Nothing
    /\ n \notin UNION {service.pins[s] : s \in Sheets}
    /\ n # write.id
    /\ screen' = [screen EXCEPT !.draft = n]
    /\ UNCHANGED <<service, cache, reads, write, acked>>

\* submit: shown at once.
SubmitDraft ==
    /\ screen.draft # Nothing /\ write.stage = "none"
    /\ Calm => AtRest
    /\ write' = [NoWrite EXCEPT !.stage = "sent", !.sheet = screen.sheet, !.id = screen.draft]
    /\ screen' = [screen EXCEPT !.shown = @ \cup {screen.draft},
                                !.pending = @ \cup {screen.draft}, !.state = "pending"]
    /\ UNCHANGED <<service, cache, reads, acked>>

\* create_annotation records it, or refuses.
Record ==
    /\ write.stage = "sent"
    /\ service' = [service EXCEPT !.pins[write.sheet] = @ \cup {write.id}, !.at = @ + 1]
    /\ write' = [write EXCEPT !.stage = "recorded", !.rev = service.at + 1]
    /\ UNCHANGED <<cache, reads, screen, acked>>

RefuseWrite ==
    /\ write.stage = "sent"
    /\ write' = [write EXCEPT !.stage = "refused"]
    /\ UNCHANGED <<service, cache, reads, screen, acked>>

\* Mutant of Invalidated: only the listing at the revision just left.
InvalidatedExactly(s) == {[sheet |-> s, rev |-> screen.rev]} \cap DOMAIN cache

\* invalidatedBy('annotate'): the asset's threads at every revision.
Invalidated(s) == {k \in DOMAIN cache : k.sheet = s}

Forget(s) == cache' = [k \in DOMAIN cache \ Invalidated(s) |-> cache[k]]

\* Mutant of Unplaced: the pin of a refused write is left where it was shown.
UnplacedOnlyPending(vm, n) == [vm EXCEPT !.pending = @ \ {n}, !.state = "failed"]

\* #settled, refused: the pin goes, the draft stays.
Unplaced(vm, n) ==
    [vm EXCEPT !.pending = @ \ {n}, !.shown = @ \ {n}, !.state = "failed"]

\* Mutant of Placed: a pin that is recorded stays among the pending ones.
PlacedPending(vm, w) == [vm EXCEPT !.state = "idle", !.rev = w.rev, !.draft = Nothing]

\* Mutant of Placed: the draft is kept for the next pin.
PlacedKept(vm, w) == [vm EXCEPT !.pending = @ \ {w.id}, !.state = "idle", !.rev = w.rev]

\* #settled, recorded.
Placed(vm, w) ==
    [vm EXCEPT !.pending = @ \ {w.id}, !.state = "idle", !.rev = w.rev, !.draft = Nothing]

\* CanonApi.write and #settled: what the write made untrue is forgotten either way,
\* and what was recorded is read again.
Settled ==
    /\ write.stage \in {"recorded", "refused"}
    /\ LET left == IF write.stage = "refused" THEN Unplaced(screen, write.id)
                   ELSE Placed(screen, write)
       IN  /\ screen' = left
           /\ \/ write.stage = "refused" /\ UNCHANGED <<reads, acked>>
              \/ /\ write.stage = "recorded" /\ reads["model"].stage = "none"
                 /\ reads' = [reads EXCEPT !["model"] =
                       [NoRead EXCEPT !.stage = "asked", !.sheet = left.sheet, !.rev = left.rev]]
                 /\ acked' = [acked EXCEPT ![write.sheet] = @ \cup {write.id}]
    /\ Forget(write.sheet)
    /\ write' = NoWrite
    /\ UNCHANGED service

\* discard: nothing was recorded.
Discard ==
    /\ screen.draft # Nothing
    /\ screen' = [screen EXCEPT !.draft = Nothing]
    /\ UNCHANGED <<service, cache, reads, write, acked>>

\* Somebody else records a pin.
OthersRecord(s, n) ==
    /\ n \notin UNION {service.pins[t] : t \in Sheets}
    /\ service' = [service EXCEPT !.pins[s] = @ \cup {n}, !.at = @ + 1]
    /\ UNCHANGED <<cache, reads, screen, write, acked>>

\* QueryCache.clear: signing out.
SignOutClears ==
    /\ cache' = <<>>
    /\ UNCHANGED <<service, reads, screen, write, acked>>

ScreenNext ==
    \/ \E s \in Sheets : Open(s) \/ \E n \in Theirs : OthersRecord(s, n)
    \/ \E r \in Readers : AnswerRead(r) \/ Receive(r)
    \/ \E n \in Mine : Compose(n)
    \/ SubmitDraft \/ Record \/ RefuseWrite \/ Settled \/ Discard \/ SignOutClears

ScreenSpec == ScreenInit /\ [][ScreenNext]_screenVars

-----------------------------------------------------------------------------
\* A pin the person was told is recorded is on the sheet whenever the screen is
\* at rest on it, and in every listing remembered for it.
RecordedPinsShow ==
    /\ AtRest /\ screen.sheet # Nothing => acked[screen.sheet] \subseteq screen.shown
    /\ write.stage = "none" =>
          \A k \in DOMAIN cache : acked[k.sheet] \subseteq cache[k].pins

\* "When the write fails, the pin SHALL be removed": at rest no pin is shown that
\* the service does not hold for this very asset.
NoGhostPins ==
    AtRest /\ screen.sheet # Nothing => screen.shown \subseteq service.pins[screen.sheet]

\* "the failure SHALL be reported with the text preserved", and only then: what
\* is being composed is never a pin the service holds.
DraftsAreUnsent ==
    write.stage = "none" => screen.draft \notin UNION {service.pins[s] : s \in Sheets}

\* The screen shows the pins that were recorded, no others, and the drafts
\* that were not.
PinsAreTrue ==
    /\ ScreenTypeOK
    /\ RecordedPinsShow
    /\ NoGhostPins
    /\ DraftsAreUnsent

=============================================================================
