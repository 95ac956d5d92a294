---------------------------- MODULE BrowserProofs ----------------------------
(***************************************************************************)
(* Theorems about the web client, for any sheets, pins, tabs, persons and  *)
(* number of tokens: the pins a screen shows, and the session of the tabs  *)
(* of one browser.  Each holds under the patience its module names: a      *)
(* screen that is Calm, tabs that are Patient.                             *)
(***************************************************************************)
EXTENDS AnnotationScreen, SessionTabs, TLAPS

-----------------------------------------------------------------------------
(* The pins on a screen.                                                   *)

Pins == Mine \cup Theirs
Places == Sheets \cup {Nothing}
Listings == [sheet : Places, pins : SUBSET Pins, rev : Nat]
Loads == [stage : {"none", "asked", "answered"}, sheet : Places, rev : Nat, listing : Listings]
Writes == [stage : {"none", "sent", "recorded", "refused"}, sheet : Places,
           id : Mine \cup {Nothing}, rev : Nat]
Screens == [sheet : Places, shown : SUBSET Pins, rev : Nat, draft : Mine \cup {Nothing},
            pending : SUBSET Mine, state : {"idle", "pending", "failed"}]

\* A listing of sheet s taken after what the person was told of, and before now.
ListingHolds(l, s, told, held) ==
    /\ s \in Sheets /\ l \in Listings /\ l.sheet = s
    /\ told[s] \subseteq l.pins /\ l.pins \subseteq held[s]

LoadHolds(load, told, held) ==
    /\ load \in Loads
    /\ load.stage # "none" => load.sheet \in Sheets
    /\ load.stage = "answered" => ListingHolds(load.listing, load.sheet, told, held)

ScreenTyped ==
    /\ service \in [pins : [Sheets -> SUBSET Pins], at : Nat]
    /\ acked \in [Sheets -> SUBSET Pins]
    /\ \A s \in Sheets : acked[s] \subseteq service.pins[s]
    /\ screen \in Screens /\ write \in Writes

LoadsHold ==
    /\ reads = [r \in Readers |-> reads[r]]
    /\ \A r \in Readers : LoadHolds(reads[r], acked, service.pins)

CacheHolds ==
    \A k \in DOMAIN cache :
        k.rev \in Nat /\ ListingHolds(cache[k], k.sheet, acked, service.pins)

\* The pin being written is on no sheet before it is recorded, and the screen stays
\* on the sheet it is written to.
WriteHolds(w, vm, held) ==
    /\ w.stage = "none" => vm.pending = {}
    /\ w.stage # "none" =>
           /\ w.sheet \in Sheets /\ vm.sheet = w.sheet /\ w.id \in Mine
           /\ vm.pending \subseteq {w.id} /\ vm.state = "pending"
    /\ w.stage \in {"sent", "refused"} => \A s \in Sheets : w.id \notin held[s]
    /\ w.stage = "recorded" => w.id \in held[w.sheet]
    /\ w.stage # "recorded" => \A s \in Sheets : vm.draft \notin held[s]
    /\ vm.draft # Nothing => vm.sheet \in Sheets

\* What is shown lies between what the person was told of and what is held, but for
\* the pin being written.
ShownHolds(vm, w, told, held) ==
    /\ told[vm.sheet] \subseteq vm.shown
    /\ w.stage = "none" => vm.shown \subseteq held[vm.sheet]
    /\ w.stage # "none" => vm.shown \subseteq held[vm.sheet] \cup {w.id}

Awaited == \/ reads["model"].stage # "none"
           \/ reads["page"].stage # "none" /\ reads["page"].sheet = screen.sheet

ScreenInv ==
    /\ ScreenTyped
    /\ LoadsHold
    /\ CacheHolds
    /\ WriteHolds(write, screen, service.pins)
    /\ write.stage # "none" => \A r \in Readers : reads[r].stage = "none"
    /\ screen.sheet # Nothing => Awaited \/ ShownHolds(screen, write, acked, service.pins)

-----------------------------------------------------------------------------
LEMMA ListingLater ==
    ASSUME NEW l, NEW s, NEW told, NEW held, NEW more, ListingHolds(l, s, told, held),
           \A t \in Sheets : held[t] \subseteq more[t]
    PROVE  ListingHolds(l, s, told, more)
BY DEF ListingHolds

LEMMA LoadLater ==
    ASSUME NEW load, NEW told, NEW held, NEW more, LoadHolds(load, told, held),
           \A t \in Sheets : held[t] \subseteq more[t]
    PROVE  LoadHolds(load, told, more)
BY ListingLater DEF LoadHolds

LEMMA NoLoadHolds ==
    ASSUME NEW told, NEW held, NEW s \in Places, NEW n \in Nat
    PROVE  /\ LoadHolds(NoRead, told, held) /\ NoRead.stage = "none"
           /\ s \in Sheets =>
                LET load == [NoRead EXCEPT !.stage = "asked", !.sheet = s, !.rev = n]
                IN  LoadHolds(load, told, held) /\ load.stage = "asked" /\ load.sheet = s
<1>1. NoRead \in Loads /\ NoRead.stage = "none"
  BY DEF NoRead, Loads, Listings, Places, Latest
<1>2. ASSUME s \in Sheets
      PROVE  LET load == [NoRead EXCEPT !.stage = "asked", !.sheet = s, !.rev = n]
             IN  load \in Loads /\ load.stage = "asked" /\ load.sheet = s
  BY <1>1, <1>2 DEF Loads
<1> QED
  BY <1>1, <1>2 DEF LoadHolds

LEMMA ListedHolds ==
    ASSUME ScreenTyped, NEW s \in Sheets
    PROVE  ListingHolds(Listed(s), s, acked, service.pins)
BY DEF ScreenTyped, ListingHolds, Listed, Listings, Places

\* A sheet's listing is on the screen.
LEMMA HydratedShows ==
    ASSUME ScreenTyped, NEW l, NEW s, ListingHolds(l, s, acked, service.pins),
           write.stage = "none", WriteHolds(write, screen, service.pins)
    PROVE  /\ Hydrated(l) \in Screens
           /\ WriteHolds(write, Hydrated(l), service.pins)
           /\ ShownHolds(Hydrated(l), write, acked, service.pins)
<1> DEFINE vm == Hydrated(l)
<1>1. vm \in Screens /\ vm.sheet = s /\ vm.shown = l.pins /\ vm.draft = screen.draft
      /\ vm.pending = {}
  BY DEF ScreenTyped, ListingHolds, Hydrated, Screens, Listings
<1> QED
  BY <1>1 DEF WriteHolds, ShownHolds, ListingHolds

-----------------------------------------------------------------------------
LEMMA ScreenInitHolds == ScreenInit => ScreenInv
<1> SUFFICES ASSUME ScreenInit PROVE ScreenInv
  OBVIOUS
<1>1. ScreenTyped
  BY DEF ScreenInit, ScreenTyped, Blank, NoWrite, Screens, Writes, Places, Pins, Latest
<1>2. LoadsHold
  BY NoLoadHolds DEF ScreenInit, LoadsHold, Readers, Places
<1>3. CacheHolds
  BY DEF ScreenInit, CacheHolds
<1>4. WriteHolds(write, screen, service.pins)
  BY ScreenAssumption DEF ScreenInit, WriteHolds, NoWrite, Blank
<1> QED
  BY <1>1, <1>2, <1>3, <1>4 DEF ScreenInit, ScreenInv, Blank, NoWrite

LEMMA OpenKeeps ==
    ASSUME Calm, ScreenInv, NEW s \in Sheets, Open(s)
    PROVE  ScreenInv'
<1> DEFINE vm == [Blank EXCEPT !.sheet = s]
<1>1. UNCHANGED <<service, cache, write, acked>> /\ screen' = vm /\ Begin("page", s, Latest)
      /\ write.stage = "none"
  BY DEF Open
<1>2. vm \in Screens /\ vm.draft = Nothing /\ vm.pending = {} /\ vm.sheet = s
  BY DEF Blank, Screens, Places, Latest
<1>3. ScreenTyped'
  BY <1>1, <1>2 DEF ScreenInv, ScreenTyped
<1>4. PICK load : /\ reads' = [reads EXCEPT !["page"] = load]
                  /\ LoadHolds(load, acked, service.pins)
                  /\ load.stage # "none" /\ load.sheet = s
  <2> DEFINE k == [sheet |-> s, rev |-> Latest]
             same == {q \in Readers : reads[q].stage # "none" /\ reads[q].sheet = s
                                       /\ reads[q].rev = Latest}
  <2>1. CASE k \in DOMAIN cache
    <3> DEFINE load == [stage |-> "answered", sheet |-> s, rev |-> Latest, listing |-> cache[k]]
    <3>1. reads' = [reads EXCEPT !["page"] = load]
      BY <1>1, <2>1 DEF Begin
    <3>2. ListingHolds(cache[k], s, acked, service.pins)
      BY <2>1 DEF ScreenInv, CacheHolds
    <3>3. load \in Loads
      BY <3>2 DEF Loads, ListingHolds, Latest, Places
    <3>4. LoadHolds(load, acked, service.pins) /\ load.stage # "none" /\ load.sheet = s
      BY <3>2, <3>3 DEF LoadHolds
    <3> HIDE DEF load
    <3> QED
      BY <3>1, <3>4
  <2>2. CASE k \notin DOMAIN cache /\ same # {}
    <3> DEFINE q == CHOOSE q \in same : TRUE
    <3>1. q \in same
      BY <2>2
    <3>2. reads' = [reads EXCEPT !["page"] = reads[q]]
      BY <1>1, <2>2 DEF Begin
    <3> HIDE DEF q
    <3>3. LoadHolds(reads[q], acked, service.pins) /\ reads[q].stage # "none" /\ reads[q].sheet = s
      BY <3>1 DEF ScreenInv, LoadsHold
    <3> QED
      BY <3>2, <3>3
  <2>3. CASE k \notin DOMAIN cache /\ same = {}
    <3> DEFINE load == [NoRead EXCEPT !.stage = "asked", !.sheet = s, !.rev = Latest]
    <3>1. reads' = [reads EXCEPT !["page"] = load]
      BY <1>1, <2>3 DEF Begin
    <3>2. LoadHolds(load, acked, service.pins) /\ load.stage = "asked" /\ load.sheet = s
      BY NoLoadHolds DEF Places, Latest
    <3> QED
      BY <3>1, <3>2
  <2> QED
    BY <2>1, <2>2, <2>3
<1>5. "page" \in Readers /\ \A r \in Readers : reads'[r] = IF r = "page" THEN load ELSE reads[r]
  BY <1>4 DEF ScreenInv, LoadsHold, Readers
<1>6. LoadsHold'
  <2>1. reads' = [r \in Readers |-> reads'[r]]
    BY <1>4 DEF ScreenInv, LoadsHold
  <2>2. \A r \in Readers : LoadHolds(reads'[r], acked, service.pins)
    BY <1>4, <1>5 DEF ScreenInv, LoadsHold
  <2> QED
    BY <1>1, <2>1, <2>2 DEF LoadsHold
<1>7. CacheHolds'
  BY <1>1 DEF ScreenInv, CacheHolds
<1>8. WriteHolds(write, vm, service.pins)
  <2>1. \A t \in Sheets : Nothing \notin service.pins[t]
    BY ScreenAssumption DEF ScreenInv, ScreenTyped, Pins
  <2> QED
    BY <1>1, <1>2, <2>1 DEF WriteHolds
<1>9. Awaited'
  BY <1>1, <1>2, <1>4, <1>5 DEF Awaited
<1> QED
  BY <1>1, <1>3, <1>6, <1>7, <1>8, <1>9 DEF ScreenInv
LEMMA AnswerReadKeeps ==
    ASSUME ScreenInv, NEW r \in Readers, AnswerRead(r)
    PROVE  ScreenInv'
<1> DEFINE load == [reads[r] EXCEPT !.stage = "answered", !.listing = Listed(reads[r].sheet)]
<1>1. UNCHANGED <<service, cache, screen, write, acked>> /\ reads[r].stage = "asked"
      /\ reads' = [reads EXCEPT ![r] = load]
  BY DEF AnswerRead
<1>2. LoadHolds(load, acked, service.pins) /\ load.stage = "answered" /\ load.sheet = reads[r].sheet
  <2>1. reads[r] \in Loads /\ reads[r].sheet \in Sheets
    BY <1>1 DEF ScreenInv, LoadsHold, LoadHolds
  <2>2. ListingHolds(Listed(reads[r].sheet), reads[r].sheet, acked, service.pins)
    BY <2>1, ListedHolds DEF ScreenInv
  <2>3. load \in Loads /\ load.stage = "answered" /\ load.sheet = reads[r].sheet
        /\ load.listing = Listed(reads[r].sheet)
    BY <2>1, <2>2 DEF Loads, ListingHolds
  <2> QED
    BY <2>1, <2>2, <2>3 DEF LoadHolds
<1> HIDE DEF load
<1>3. \A q \in Readers : reads'[q] = IF q = r THEN load ELSE reads[q]
  BY <1>1 DEF ScreenInv, LoadsHold
<1>4. LoadsHold'
  <2>1. reads' = [q \in Readers |-> reads'[q]]
    BY <1>1 DEF ScreenInv, LoadsHold
  <2>2. \A q \in Readers : LoadHolds(reads'[q], acked, service.pins)
    BY <1>2, <1>3 DEF ScreenInv, LoadsHold
  <2> QED
    BY <1>1, <2>1, <2>2 DEF LoadsHold
<1>5. Awaited => Awaited'
  BY <1>1, <1>2, <1>3 DEF Awaited, Readers
<1>6. write.stage = "none"
  BY <1>1 DEF ScreenInv
<1> QED
  BY <1>1, <1>4, <1>5, <1>6 DEF ScreenInv, ScreenTyped, CacheHolds

LEMMA ReceiveKeeps ==
    ASSUME ScreenInv, NEW r \in Readers, Receive(r)
    PROVE  ScreenInv'
<1> DEFINE got == reads[r]
           k == [sheet |-> got.sheet, rev |-> got.rev]
<1>1. /\ UNCHANGED <<service, write, acked>> /\ got.stage = "answered"
      /\ cache' = Remembered(k, got.listing)
      /\ reads' = [reads EXCEPT ![r] = NoRead]
      /\ screen' = IF r = "model" \/ screen.sheet = got.sheet
                   THEN Hydrated(got.listing) ELSE screen
  BY DEF Receive
<1>2. got \in Loads /\ ListingHolds(got.listing, got.sheet, acked, service.pins)
  BY <1>1 DEF ScreenInv, LoadsHold, LoadHolds
<1>3. write.stage = "none"
  BY <1>1 DEF ScreenInv
<1>4. /\ Hydrated(got.listing) \in Screens
      /\ WriteHolds(write, Hydrated(got.listing), service.pins)
      /\ ShownHolds(Hydrated(got.listing), write, acked, service.pins)
  BY <1>2, <1>3, HydratedShows DEF ScreenInv
<1>5. \A q \in Readers : reads'[q] = IF q = r THEN NoRead ELSE reads[q]
  BY <1>1 DEF ScreenInv, LoadsHold
<1>6. ScreenTyped'
  BY <1>1, <1>4 DEF ScreenInv, ScreenTyped
<1>7. LoadsHold'
  <2>1. reads' = [q \in Readers |-> reads'[q]]
    BY <1>1 DEF ScreenInv, LoadsHold
  <2>2. LoadHolds(NoRead, acked, service.pins)
    BY NoLoadHolds DEF Places
  <2>3. \A q \in Readers : LoadHolds(reads'[q], acked, service.pins)
    BY <1>5, <2>2 DEF ScreenInv, LoadsHold
  <2> QED
    BY <1>1, <2>1, <2>3 DEF LoadsHold
<1>8. CacheHolds'
  <2>1. k.sheet = got.sheet /\ k.rev \in Nat
    BY <1>2 DEF Loads
  <2>2. /\ DOMAIN cache' = DOMAIN cache \cup {k}
        /\ \A j \in DOMAIN cache' : cache'[j] = IF j = k THEN got.listing ELSE cache[j]
    BY <1>1 DEF Remembered
  <2>3. \A j \in DOMAIN cache' :
          j.rev \in Nat /\ ListingHolds(cache'[j], j.sheet, acked, service.pins)
    BY <1>2, <2>1, <2>2 DEF ScreenInv, CacheHolds
  <2> QED
    BY <1>1, <2>3 DEF CacheHolds
<1>9. WriteHolds(write, screen, service.pins)'
  BY <1>1, <1>4 DEF ScreenInv
<1>10. screen'.sheet # Nothing => Awaited' \/ ShownHolds(screen', write, acked, service.pins)
  <2>1. CASE r = "model" \/ screen.sheet = got.sheet
    BY <1>1, <1>4, <2>1
  <2>2. CASE ~(r = "model" \/ screen.sheet = got.sheet)
    <3>1. r = "page" /\ screen' = screen /\ reads'["model"] = reads["model"]
      BY <1>1, <1>5, <2>2 DEF Readers
    <3>2. Awaited => Awaited'
      BY <2>2, <3>1 DEF Awaited
    <3> QED
      BY <3>1, <3>2 DEF ScreenInv
  <2> QED
    BY <2>1, <2>2
<1> QED
  BY <1>1, <1>3, <1>6, <1>7, <1>8, <1>9, <1>10 DEF ScreenInv

\* What stays true whenever only the draft is another.
LEMMA DraftKeeps ==
    ASSUME ScreenInv, NEW n \in Mine \cup {Nothing}, \A s \in Sheets : n \notin service.pins[s],
           n # Nothing => screen.sheet # Nothing, screen' = [screen EXCEPT !.draft = n],
           UNCHANGED <<service, cache, reads, write, acked>>
    PROVE  ScreenInv'
<1>1. /\ screen' \in Screens /\ screen'.sheet = screen.sheet /\ screen'.shown = screen.shown
      /\ screen'.pending = screen.pending /\ screen'.state = screen.state /\ screen'.draft = n
      /\ n # Nothing => screen.sheet \in Sheets
  BY DEF ScreenInv, ScreenTyped, Screens, Places
<1>2. ScreenTyped' /\ LoadsHold' /\ CacheHolds'
  BY <1>1 DEF ScreenInv, ScreenTyped, LoadsHold, CacheHolds
<1>3. WriteHolds(write, screen, service.pins)'
  BY <1>1 DEF ScreenInv, WriteHolds
<1>4. Awaited' <=> Awaited
  BY <1>1 DEF Awaited
<1>5. ShownHolds(screen, write, acked, service.pins) => ShownHolds(screen', write, acked, service.pins)
  BY <1>1 DEF ShownHolds
<1> QED
  BY <1>1, <1>2, <1>3, <1>4, <1>5 DEF ScreenInv

LEMMA ComposeKeeps ==
    ASSUME ScreenInv, NEW n \in Mine, Compose(n)
    PROVE  ScreenInv'
<1>1. \A s \in Sheets : n \notin service.pins[s]
  BY DEF Compose
<1> QED
  BY <1>1, DraftKeeps DEF Compose

LEMMA DiscardKeeps ==
    ASSUME ScreenInv, Discard
    PROVE  ScreenInv'
<1>1. \A s \in Sheets : Nothing \notin service.pins[s]
  BY ScreenAssumption DEF ScreenInv, ScreenTyped, Pins
<1> QED
  BY <1>1, DraftKeeps DEF Discard

LEMMA SubmitDraftKeeps ==
    ASSUME Calm, ScreenInv, SubmitDraft
    PROVE  ScreenInv'
<1> DEFINE n == screen.draft
<1>1. /\ UNCHANGED <<service, cache, reads, acked>> /\ n # Nothing /\ AtRest
      /\ write' = [NoWrite EXCEPT !.stage = "sent", !.sheet = screen.sheet, !.id = n]
      /\ screen' = [screen EXCEPT !.shown = @ \cup {n}, !.pending = @ \cup {n}, !.state = "pending"]
  BY DEF SubmitDraft
<1>2. screen \in Screens /\ n \in Mine /\ screen.pending = {} /\ \A s \in Sheets : n \notin service.pins[s]
  BY <1>1 DEF ScreenInv, ScreenTyped, AtRest, WriteHolds, Screens
<1>3. /\ write' \in Writes /\ write'.stage = "sent" /\ write'.sheet = screen.sheet /\ write'.id = n
  BY <1>1, <1>2 DEF NoWrite, Writes, Screens, Latest
<1>4. /\ screen' \in Screens /\ screen'.sheet = screen.sheet /\ screen'.shown = screen.shown \cup {n}
      /\ screen'.pending = {n} /\ screen'.state = "pending" /\ screen'.draft = n
  BY <1>1, <1>2 DEF Screens, Pins
<1>5. ScreenTyped' /\ LoadsHold' /\ CacheHolds'
  BY <1>1, <1>3, <1>4 DEF ScreenInv, ScreenTyped, LoadsHold, CacheHolds
<1>6. screen.sheet \in Sheets /\ screen.sheet # Nothing
  BY <1>1, ScreenAssumption DEF ScreenInv, WriteHolds
<1>7. WriteHolds(write, screen, service.pins)'
  BY <1>1, <1>2, <1>3, <1>4, <1>6 DEF WriteHolds
<1>8. ShownHolds(screen, write, acked, service.pins)
  BY <1>1, <1>6 DEF ScreenInv, AtRest, Awaited, Readers
<1>9. ShownHolds(screen, write, acked, service.pins)'
  BY <1>1, <1>3, <1>4, <1>8 DEF ShownHolds, AtRest
<1> QED
  BY <1>1, <1>5, <1>7, <1>9 DEF ScreenInv, AtRest

\* The service holds one more pin on one sheet.
LEMMA HeldMore ==
    ASSUME ScreenTyped, NEW s \in Sheets, NEW n \in Pins,
           service' = [service EXCEPT !.pins[s] = @ \cup {n}, !.at = @ + 1]
    PROVE  /\ service' \in [pins : [Sheets -> SUBSET Pins], at : Nat]
           /\ \A t \in Sheets : service'.pins[t] =
                 IF t = s THEN service.pins[s] \cup {n} ELSE service.pins[t]
           /\ \A t \in Sheets : service.pins[t] \subseteq service'.pins[t]
           /\ service'.at = service.at + 1
<1>1. /\ service \in [pins : [Sheets -> SUBSET Pins], at : Nat]
      /\ service.pins \in [Sheets -> SUBSET Pins] /\ service.at \in Nat
  BY DEF ScreenTyped
<1> DEFINE more == [service.pins EXCEPT ![s] = @ \cup {n}]
<1>2. service' = [pins |-> more, at |-> service.at + 1]
  BY <1>1
<1>3. more \in [Sheets -> SUBSET Pins]
  BY <1>1
<1> QED
  BY <1>1, <1>2, <1>3

\* Loads, remembered listings and acknowledgements outlast what is added.
LEMMA HeldMoreKeeps ==
    ASSUME ScreenInv, \A t \in Sheets : service.pins[t] \subseteq service'.pins[t],
           service' \in [pins : [Sheets -> SUBSET Pins], at : Nat],
           UNCHANGED <<cache, reads, acked>>, screen' = screen, write' \in Writes
    PROVE  ScreenTyped' /\ LoadsHold' /\ CacheHolds'
<1>1. ScreenTyped'
  BY DEF ScreenInv, ScreenTyped
<1>2. \A r \in Readers : LoadHolds(reads[r], acked, service'.pins)
  BY LoadLater DEF ScreenInv, LoadsHold
<1>3. LoadsHold'
  BY <1>2 DEF ScreenInv, LoadsHold
<1>4. \A k \in DOMAIN cache : k.rev \in Nat /\ ListingHolds(cache[k], k.sheet, acked, service'.pins)
  BY ListingLater DEF ScreenInv, CacheHolds
<1>5. CacheHolds'
  BY <1>4 DEF CacheHolds
<1> QED
  BY <1>1, <1>3, <1>5

LEMMA RecordKeeps ==
    ASSUME ScreenInv, Record
    PROVE  ScreenInv'
<1> DEFINE n == write.id
           s == write.sheet
<1>1. /\ UNCHANGED <<cache, reads, screen, acked>> /\ write.stage = "sent"
      /\ service' = [service EXCEPT !.pins[s] = @ \cup {n}, !.at = @ + 1]
      /\ write' = [write EXCEPT !.stage = "recorded", !.rev = service.at + 1]
  BY DEF Record
<1>2. write \in Writes /\ s \in Sheets /\ n \in Pins /\ service.at \in Nat
  BY <1>1 DEF ScreenInv, ScreenTyped, WriteHolds, Pins
<1>3. write' \in Writes /\ write'.stage = "recorded" /\ write'.sheet = s /\ write'.id = n
  <2>1. write' = [write EXCEPT !.stage = "recorded", !.rev = service.at + 1]
    BY <1>1
  <2>2. service.at + 1 \in Nat
    BY <1>2
  <2> HIDE <1>1
  <2> QED
    BY <1>2, <2>1, <2>2 DEF Writes
<1>4. /\ service' \in [pins : [Sheets -> SUBSET Pins], at : Nat]
      /\ n \in service'.pins[s]
      /\ \A t \in Sheets : service.pins[t] \subseteq service'.pins[t]
  BY <1>1, <1>2, HeldMore DEF ScreenInv
<1>5. ScreenTyped' /\ LoadsHold' /\ CacheHolds'
  BY <1>1, <1>3, <1>4, HeldMoreKeeps
<1>6. WriteHolds(write, screen, service.pins)'
  BY <1>1, <1>3, <1>4 DEF ScreenInv, WriteHolds
<1>7. \A r \in Readers : reads[r].stage = "none"
  BY <1>1 DEF ScreenInv
<1>8. screen.sheet \in Sheets /\ ShownHolds(screen, write, acked, service.pins)
  <2>1. screen.sheet \in Sheets /\ screen.sheet # Nothing
    BY <1>1, ScreenAssumption DEF ScreenInv, WriteHolds
  <2> QED
    BY <1>7, <2>1 DEF ScreenInv, Awaited, Readers
<1>9. ShownHolds(screen, write, acked, service.pins)'
  BY <1>1, <1>3, <1>4, <1>8 DEF ShownHolds
<1> QED
  BY <1>1, <1>5, <1>6, <1>7, <1>9 DEF ScreenInv

LEMMA RefuseWriteKeeps ==
    ASSUME ScreenInv, RefuseWrite
    PROVE  ScreenInv'
<1>1. /\ UNCHANGED <<service, cache, reads, screen, acked>> /\ write.stage = "sent"
      /\ write' = [write EXCEPT !.stage = "refused"]
  BY DEF RefuseWrite
<1>2. write' \in Writes /\ write'.stage = "refused" /\ write'.sheet = write.sheet /\ write'.id = write.id
  BY <1>1 DEF ScreenInv, ScreenTyped, Writes
<1>3. ScreenTyped' /\ LoadsHold' /\ CacheHolds'
  BY <1>1, <1>2 DEF ScreenInv, ScreenTyped, LoadsHold, CacheHolds
<1>4. WriteHolds(write, screen, service.pins)'
  BY <1>1, <1>2 DEF ScreenInv, WriteHolds
<1>5. Awaited' <=> Awaited
  BY <1>1 DEF Awaited
<1>6. ShownHolds(screen, write, acked, service.pins) => ShownHolds(screen, write, acked, service.pins)'
  BY <1>1, <1>2 DEF ShownHolds
<1> QED
  BY <1>1, <1>3, <1>4, <1>5, <1>6 DEF ScreenInv

LEMMA OthersRecordKeeps ==
    ASSUME ScreenInv, NEW s \in Sheets, NEW n \in Theirs, OthersRecord(s, n)
    PROVE  ScreenInv'
<1>1. /\ UNCHANGED <<cache, reads, screen, write, acked>>
      /\ service' = [service EXCEPT !.pins[s] = @ \cup {n}, !.at = @ + 1]
  BY DEF OthersRecord
<1>2. /\ service' \in [pins : [Sheets -> SUBSET Pins], at : Nat]
      /\ \A t \in Sheets : service.pins[t] \subseteq service'.pins[t]
      /\ \A t \in Sheets : service'.pins[t] \subseteq service.pins[t] \cup {n}
  BY <1>1, HeldMore DEF ScreenInv, Pins
<1>3. write \in Writes /\ write.id # n /\ screen.draft # n
  BY ScreenAssumption DEF ScreenInv, ScreenTyped, Writes, Screens
<1>4. ScreenTyped' /\ LoadsHold' /\ CacheHolds'
  BY <1>1, <1>2, <1>3, HeldMoreKeeps
<1>5. WriteHolds(write, screen, service.pins)'
  BY <1>1, <1>2, <1>3 DEF ScreenInv, WriteHolds
<1>6. Awaited' <=> Awaited
  BY <1>1 DEF Awaited
<1>7. screen.sheet # Nothing => screen.sheet \in Sheets
  BY DEF ScreenInv, ScreenTyped, Screens, Places
<1>8. screen.sheet # Nothing /\ ShownHolds(screen, write, acked, service.pins)
        => ShownHolds(screen, write, acked, service.pins)'
  BY <1>1, <1>2, <1>7 DEF ShownHolds
<1> QED
  BY <1>1, <1>4, <1>5, <1>6, <1>8 DEF ScreenInv

LEMMA SignOutClearsKeeps ==
    ASSUME ScreenInv, SignOutClears
    PROVE  ScreenInv'
<1>1. CacheHolds'
  BY DEF SignOutClears, CacheHolds
<1>2. UNCHANGED <<service, reads, screen, write, acked>>
  BY DEF SignOutClears
<1> QED
  BY <1>1, <1>2 DEF ScreenInv, ScreenTyped, LoadsHold, Awaited, ShownHolds, WriteHolds

\* The listings of the sheet written to are forgotten, so that no other sheet's is
\* asked for what was just acknowledged.
LEMMA ForgottenKeeps ==
    ASSUME CacheHolds, NEW s, Forget(s), service' = service,
           \A t \in Sheets : t # s => acked'[t] = acked[t]
    PROVE  CacheHolds'
<1>1. /\ DOMAIN cache' = DOMAIN cache \ Invalidated(s)
      /\ \A k \in DOMAIN cache' : cache'[k] = cache[k]
  BY DEF Forget
<1>2. \A k \in DOMAIN cache' :
        k.rev \in Nat /\ k.sheet # s /\ ListingHolds(cache[k], k.sheet, acked, service.pins)
  BY <1>1 DEF CacheHolds, Invalidated
<1>3. \A k \in DOMAIN cache' :
        k.rev \in Nat /\ ListingHolds(cache'[k], k.sheet, acked', service.pins)
  BY <1>1, <1>2 DEF ListingHolds
<1> QED
  BY <1>3 DEF CacheHolds

LEMMA SettledKeeps ==
    ASSUME ScreenInv, Settled
    PROVE  ScreenInv'
<1> DEFINE n == write.id
           s == write.sheet
<1>1. /\ service' = service /\ Forget(s) /\ write' = NoWrite
      /\ write.stage \in {"recorded", "refused"}
  BY DEF Settled
<1>2. /\ screen \in Screens /\ write \in Writes /\ s \in Sheets /\ s # Nothing /\ screen.sheet = s
      /\ n \in Mine /\ screen.pending \subseteq {n}
      /\ \A r \in Readers : reads[r].stage = "none"
  BY <1>1, ScreenAssumption DEF ScreenInv, ScreenTyped, WriteHolds
<1>3. NoWrite \in Writes /\ NoWrite.stage = "none"
  BY DEF NoWrite, Writes, Places, Latest
<1>4. ShownHolds(screen, write, acked, service.pins)
  BY <1>2 DEF ScreenInv, Awaited, Readers
<1>5. \A t \in Sheets : Nothing \notin service.pins[t]
  BY ScreenAssumption DEF ScreenInv, ScreenTyped, Pins
<1>6. CASE write.stage = "refused"
  <2>1. UNCHANGED <<reads, acked>> /\ screen' = Unplaced(screen, n)
    BY <1>6 DEF Settled
  <2>2. /\ screen' \in Screens /\ screen'.sheet = s /\ screen'.shown = screen.shown \ {n}
        /\ screen'.pending = screen.pending \ {n} /\ screen'.draft = screen.draft
    BY <1>2, <2>1 DEF Unplaced, Screens
  <2>3. ScreenTyped' /\ LoadsHold'
    BY <1>1, <1>3, <2>1, <2>2 DEF ScreenInv, ScreenTyped, LoadsHold
  <2>4. CacheHolds'
    BY <1>1, <2>1, ForgottenKeeps DEF ScreenInv
  <2>5. WriteHolds(write, screen, service.pins)'
    BY <1>1, <1>2, <1>3, <1>6, <2>2 DEF ScreenInv, WriteHolds
  <2>6. \A t \in Sheets : n \notin service.pins[t]
    BY <1>6 DEF ScreenInv, WriteHolds
  <2>7. ShownHolds(screen, write, acked, service.pins)'
    BY <1>1, <1>2, <1>3, <1>4, <1>6, <2>1, <2>2, <2>6 DEF ScreenInv, ScreenTyped, ShownHolds
  <2> QED
    BY <1>1, <1>3, <2>3, <2>4, <2>5, <2>7 DEF ScreenInv
<1>7. CASE write.stage = "recorded"
  <2> DEFINE load == [NoRead EXCEPT !.stage = "asked", !.sheet = screen'.sheet, !.rev = screen'.rev]
  <2>1. /\ screen' = Placed(screen, write)
        /\ reads' = [reads EXCEPT !["model"] = load]
        /\ acked' = [acked EXCEPT ![s] = @ \cup {n}]
    BY <1>7 DEF Settled
  <2>2. /\ screen' \in Screens /\ screen'.sheet = s /\ screen'.pending = screen.pending \ {n}
        /\ screen'.draft = Nothing /\ screen'.rev \in Nat
    BY <1>2, <2>1 DEF Placed, Screens, Writes
  <2>3. /\ acked' \in [Sheets -> SUBSET Pins]
        /\ \A t \in Sheets : acked'[t] \subseteq service.pins[t]
        /\ \A t \in Sheets : t # s => acked'[t] = acked[t]
    BY <1>2, <1>7, <2>1 DEF ScreenInv, ScreenTyped, WriteHolds, Pins
  <2>4. ScreenTyped'
    BY <1>1, <1>3, <2>2, <2>3 DEF ScreenInv, ScreenTyped
  <2>5. LoadHolds(load, acked', service.pins) /\ load.stage = "asked"
    <3>1. \A m \in Nat, t \in Sheets :
            LET asked == [NoRead EXCEPT !.stage = "asked", !.sheet = t, !.rev = m]
            IN  LoadHolds(asked, acked, service.pins) /\ asked.stage = "asked"
      BY NoLoadHolds DEF Places
    <3>2. load \in Loads /\ load.stage = "asked" /\ load.sheet \in Sheets
      <4>1. LoadHolds(load, acked, service.pins) /\ load.stage = "asked"
        BY <1>2, <2>2, <3>1
      <4> HIDE DEF load
      <4> QED
        BY <4>1 DEF LoadHolds
    <3> HIDE DEF load
    <3> QED
      BY <3>2 DEF LoadHolds
  <2> HIDE DEF load
  <2>6. \A r \in Readers : reads'[r] = IF r = "model" THEN load ELSE reads[r]
    BY <2>1 DEF ScreenInv, LoadsHold
  <2>7. LoadsHold'
    <3>1. reads' = [r \in Readers |-> reads'[r]]
      BY <2>1 DEF ScreenInv, LoadsHold
    <3>2. \A r \in Readers : LoadHolds(reads'[r], acked', service.pins)
      BY <1>2, <2>5, <2>6 DEF ScreenInv, LoadsHold, LoadHolds
    <3> QED
      BY <1>1, <3>1, <3>2 DEF LoadsHold
  <2>8. CacheHolds'
    BY <1>1, <2>3, ForgottenKeeps DEF ScreenInv
  <2>9. WriteHolds(write, screen, service.pins)'
    BY <1>1, <1>2, <1>3, <1>5, <2>2 DEF ScreenInv, WriteHolds
  <2>10. Awaited'
    BY <2>5, <2>6 DEF Awaited, Readers
  <2> QED
    BY <1>1, <1>3, <2>4, <2>7, <2>8, <2>9, <2>10 DEF ScreenInv
<1> QED
  BY <1>1, <1>6, <1>7

LEMMA ScreenStep == ASSUME Calm, ScreenInv, [ScreenNext]_screenVars PROVE ScreenInv'
<1>1. CASE ScreenNext
  BY <1>1, OpenKeeps, OthersRecordKeeps, AnswerReadKeeps, ReceiveKeeps, ComposeKeeps,
     SubmitDraftKeeps, RecordKeeps, RefuseWriteKeeps, SettledKeeps, DiscardKeeps,
     SignOutClearsKeeps DEF ScreenNext
<1>2. CASE UNCHANGED screenVars
  BY <1>2 DEF screenVars, ScreenInv, ScreenTyped, LoadsHold, CacheHolds, WriteHolds, Awaited,
     ShownHolds
<1> QED
  BY <1>1, <1>2

LEMMA ScreenInvImplies == ScreenInv => PinsAreTrue
<1> SUFFICES ASSUME ScreenInv PROVE PinsAreTrue
  OBVIOUS
<1>1. ScreenTypeOK
  <2>1. \A k \in DOMAIN cache : cache[k].sheet = k.sheet
    BY DEF ScreenInv, CacheHolds, ListingHolds
  <2>2. \A r \in Readers : reads[r].stage \in {"none", "asked", "answered"}
    BY DEF ScreenInv, LoadsHold, LoadHolds, Loads
  <2>3. screen \in Screens /\ (screen.state = "idle" => screen.pending = {})
    BY DEF ScreenInv, ScreenTyped, WriteHolds
  <2> QED
    BY <2>1, <2>2, <2>3 DEF ScreenTypeOK, Screens
<1>2. RecordedPinsShow
  <2>1. AtRest /\ screen.sheet # Nothing => acked[screen.sheet] \subseteq screen.shown
    BY DEF ScreenInv, AtRest, Awaited, ShownHolds, Readers
  <2>2. \A k \in DOMAIN cache : acked[k.sheet] \subseteq cache[k].pins
    BY DEF ScreenInv, CacheHolds, ListingHolds
  <2> QED
    BY <2>1, <2>2 DEF RecordedPinsShow
<1>3. NoGhostPins
  BY DEF NoGhostPins, ScreenInv, AtRest, Awaited, ShownHolds, Readers
<1>4. DraftsAreUnsent
  BY DEF DraftsAreUnsent, ScreenInv, WriteHolds
<1> QED
  BY <1>1, <1>2, <1>3, <1>4 DEF PinsAreTrue

\* A pin the person was told is recorded is on its sheet whenever the screen is at
\* rest on it and in every listing remembered for it, no pin is shown that the
\* service does not hold, and what is being composed has not been sent, as long as
\* nothing is sent or left before the last answer is in.
THEOREM PinsStayTrue == ASSUME Calm PROVE ScreenSpec => []PinsAreTrue
<1>1. ScreenInit => ScreenInv
  BY ScreenInitHolds
<1>2. ScreenInv /\ [ScreenNext]_screenVars => ScreenInv'
  BY ScreenStep
<1>3. ScreenInv => PinsAreTrue
  BY ScreenInvImplies
<1> QED
  BY <1>1, <1>2, <1>3, PTL DEF ScreenSpec

-----------------------------------------------------------------------------
(* The session of the tabs of one browser.                                 *)

Held == Tokens \cup {Absent}
Someone == Persons \cup {Absent}
Flights == [stage : {"none", "queued", "asking", "answered"}, token : Held,
            answer : {"none", "renewed", "refused", "unavailable"}, then : {"rest", "expire"}]
TabStates == [kind : {"anonymous", "active", "expired"}, who : Someone, token : Held,
              age : {"fresh", "due", "lapsed"}, timer : {"none", "lead", "retry"},
              flight : Flights]
Announcements == [spent : Tokens, token : Tokens]

\* A session in itself: whoever has nothing has no token, and a lapsed session that
\* could be renewed has a timer or a renewal in flight.
SessionSound(s) ==
    /\ s \in TabStates
    /\ s.kind = "anonymous" <=> s.who = Absent
    /\ s.kind = "anonymous" => s.token = Absent
    /\ s.timer # "none" => s.token # Absent
    /\ s.kind = "expired" /\ s.token # Absent => s.timer # "none" \/ s.flight.stage # "none"

\* A renewal in flight: what it is queued with is what the tab holds, or the tab has
\* become active with something newer.
FlightSound(s) ==
    /\ s.flight.answer # "none" <=> s.flight.stage = "answered"
    /\ s.flight.stage = "queued" => s.token = s.flight.token \/ s.kind = "active"
    /\ s.flight.stage \in {"queued", "asking"} => s.flight.token \in Tokens
    /\ s.flight.answer = "renewed" => s.flight.token \in Tokens /\ s.token \in Tokens

\* What the tab holds, and what it is about to, is its own person's.
TabOwned(s, p, owns) ==
    /\ s.who \in {p, Absent}
    /\ s.token # Absent => owns[s.token] = p
    /\ s.flight.answer = "renewed" => owns[s.flight.token] = p

\* The issuer knows every token there is.
TabKnown(s, n) ==
    /\ s.token # Absent => s.token < n
    /\ s.flight.token # Absent => s.flight.token < n

\* A token that is asked with and still taken is the tab's, and one that was
\* taken is not any more.
TabServed(s, valid, gone) ==
    /\ s.flight.stage = "asking" /\ s.flight.token \in valid => s.token = s.flight.token
    /\ s.flight.answer = "renewed" => s.flight.token \in valid \cup gone /\ s.token \notin valid

NewsHold(q, mine, owns, n, valid) ==
    /\ \A i \in DOMAIN q :
          /\ q[i].spent < n /\ q[i].token < n /\ q[i].spent \notin valid
          /\ owns[q[i].token] = owns[q[i].spent]
          /\ q[i].token # mine
    /\ \A i, j \in DOMAIN q : q[i].token = q[j].token => i = j

\* The issuer takes it, or has ended it; or its successor is announced, after the
\* first few announcements, or about to be.
Live(k, q, after, known, tabs) ==
    \/ k \in known
    \/ \E j \in DOMAIN q : j > after /\ q[j].spent = k
    \/ \E u \in Tabs : tabs[u].flight.answer = "renewed" /\ tabs[u].token = k

Known == issuer.valid \cup issuer.gone

StoresTyped ==
    /\ tab = [t \in Tabs |-> tab[t]]
    /\ news \in [Tabs -> Seq(Announcements)]
    /\ issuer \in [next : 1..MaxTokens + 1, valid : SUBSET Tokens, gone : SUBSET Tokens]
    /\ \A k \in issuer.valid \cup issuer.gone : k < issuer.next
    /\ issuer.valid \cap issuer.gone = {}
    /\ owner \in [Tokens -> Someone] /\ person \in [Tabs -> Someone]
    /\ lock \in Tabs \cup {Absent}

Exclusively ==
    \A t \in Tabs : (tab[t].flight.stage \in {"asking", "answered"}) <=> (lock = t)

TabsSound == \A t \in Tabs : SessionSound(tab[t]) /\ FlightSound(tab[t])

TabsOwned == \A t \in Tabs : TabOwned(tab[t], person[t], owner)

TabsKnown == \A t \in Tabs : TabKnown(tab[t], issuer.next)

TabsServed == \A t \in Tabs : TabServed(tab[t], issuer.valid, issuer.gone)

NewsSound ==
    \A t \in Tabs : NewsHold(news[t], tab[t].token, owner, issuer.next, issuer.valid)

\* What a tab was just given, nobody else has or has heard of; nor of what it spent.
AnswersFresh ==
    \A t \in Tabs : tab[t].flight.answer = "renewed" =>
        /\ \A u \in Tabs :
              /\ tab[u].token # tab[t].flight.token
              /\ \A i \in DOMAIN news[u] : news[u][i].token # tab[t].flight.token
        /\ \A i \in DOMAIN news[t] : news[t][i].spent # tab[t].token

\* Whatever a tab holds or is told of, it is on the way to what the issuer takes.
TokensLive ==
    \A t \in Tabs :
        /\ tab[t].token # Absent => Live(tab[t].token, news[t], 0, Known, tab)
        /\ \A i \in DOMAIN news[t] : Live(news[t][i].token, news[t], i, Known, tab)

TabsRest ==
    /\ StoresTyped /\ TabsSound /\ TabsOwned /\ TabsKnown /\ TabsServed
    /\ NewsSound /\ AnswersFresh /\ TokensLive

TabsInv == TabsRest /\ Exclusively

-----------------------------------------------------------------------------
(* What the operations on one session do. *)

LEMMA AbsentIsNothing == Absent \notin Tokens /\ Absent \notin Persons /\ Absent \notin Tabs
BY TabsAssumption DEF Tokens

LEMMA PlannedIs ==
    ASSUME NEW s \in TabStates
    PROVE  /\ Planned(s) \in TabStates
           /\ Planned(s).kind = s.kind /\ Planned(s).who = s.who /\ Planned(s).token = s.token
           /\ Planned(s).age = s.age /\ Planned(s).flight = s.flight
           /\ (Planned(s).timer = "none") <=> (s.token = Absent)
<1> DEFINE timer == IF s.token = Absent THEN "none"
                      ELSE IF s.kind = "expired" THEN "retry" ELSE "lead"
<1>1. timer \in {"none", "lead", "retry"} /\ ((timer = "none") <=> (s.token = Absent))
  OBVIOUS
<1>2. Planned(s) = [s EXCEPT !.timer = timer]
  BY DEF Planned
<1> HIDE DEF timer
<1> QED
  BY <1>1, <1>2 DEF TabStates

LEMMA ActiveIs ==
    ASSUME NEW s \in TabStates, NEW p \in Someone, NEW k \in Held
    PROVE  LET a == Active(s, p, k)
           IN  /\ a \in TabStates /\ a.kind = "active" /\ a.who = p /\ a.token = k
               /\ a.flight = s.flight /\ (a.timer = "none" <=> k = Absent)
<1> DEFINE b == [s EXCEPT !.kind = "active", !.who = p, !.token = k, !.age = "fresh"]
<1>1. b \in TabStates /\ b.kind = "active" /\ b.who = p /\ b.token = k /\ b.flight = s.flight
  BY DEF TabStates
<1>2. Active(s, p, k) = Planned(b)
  BY DEF Active
<1> HIDE DEF b
<1> QED
  BY <1>1, <1>2, PlannedIs

LEMMA ExpiredIs ==
    ASSUME NEW s \in TabStates
    PROVE  LET e == Expired(s)
           IN  /\ e \in TabStates /\ e.who = s.who /\ e.token = s.token /\ e.flight = s.flight
               /\ e.kind = IF s.who = Absent THEN "anonymous" ELSE "expired"
               /\ e.timer = "none" <=> s.token = Absent
<1> DEFINE b == [s EXCEPT !.kind = IF s.who = Absent THEN "anonymous" ELSE "expired"]
<1>1. /\ b \in TabStates /\ b.who = s.who /\ b.token = s.token /\ b.flight = s.flight
      /\ b.kind = IF s.who = Absent THEN "anonymous" ELSE "expired"
  BY DEF TabStates
<1>2. Expired(s) = Planned(b)
  BY DEF Expired
<1> HIDE DEF b
<1> QED
  BY <1>1, <1>2, PlannedIs

LEMMA RevokedIs ==
    ASSUME NEW s \in TabStates
    PROVE  LET e == Revoked(s)
           IN  /\ e \in TabStates /\ e.who = s.who /\ e.token = Absent /\ e.flight = s.flight
               /\ e.kind = IF s.who = Absent THEN "anonymous" ELSE "expired"
               /\ e.timer = "none"
<1> DEFINE b == [s EXCEPT !.token = Absent]
<1>1. b \in TabStates /\ b.who = s.who /\ b.token = Absent /\ b.flight = s.flight
  BY DEF TabStates, Held
<1>2. Revoked(s) = Expired(b)
  BY DEF Revoked
<1> HIDE DEF b
<1> QED
  BY <1>1, <1>2, ExpiredIs

\* A renewal is started, or the one in flight is told what to do when it is over.
LEMMA RunKeeps ==
    ASSUME NEW s, SessionSound(s) \/ (s \in TabStates /\ s.kind # "anonymous" /\ s.who # Absent
                                 /\ s.token # Absent),
           FlightSound(s), NEW then \in {"rest", "expire"}
    PROVE  LET r == Run(s, then)
           IN  /\ r \in TabStates /\ r.kind = s.kind /\ r.who = s.who /\ r.token = s.token
               /\ r.timer = s.timer /\ r.age = s.age
               /\ FlightSound(r) /\ r.flight.answer = s.flight.answer
               /\ s.token # Absent => r.flight.stage # "none"
               /\ s.token = Absent \/ s.flight.stage # "none" => r.flight.stage = s.flight.stage
               /\ r.flight.stage \in {"asking", "answered"} <=> s.flight.stage \in {"asking", "answered"}
               /\ r.flight.token \in {s.flight.token, s.token}
               /\ s.flight.stage # "none" => r.flight.token = s.flight.token
<1> DEFINE r == Run(s, then)
<1>0. s \in TabStates /\ s.flight \in Flights
  BY DEF SessionSound, TabStates
<1>1. CASE s.flight.stage # "none"
  <2> DEFINE next == IF then = "rest" THEN s.flight.then ELSE then
  <2>1. r = [s EXCEPT !.flight = [s.flight EXCEPT !.then = next]]
    BY <1>1 DEF Run
  <2>2. next \in {"rest", "expire"}
    BY <1>0 DEF Flights
  <2> HIDE DEF next
  <2> DEFINE f == [s.flight EXCEPT !.then = next]
  <2>3. f \in Flights /\ f.stage = s.flight.stage /\ f.token = s.flight.token /\ f.answer = s.flight.answer
    BY <1>0, <2>2 DEF Flights
  <2> HIDE DEF f
  <2>4. /\ r \in TabStates /\ r.kind = s.kind /\ r.who = s.who /\ r.token = s.token
        /\ r.timer = s.timer /\ r.age = s.age /\ r.flight = f
    BY <1>0, <2>1, <2>3 DEF TabStates, f
  <2> QED
    BY <1>1, <2>3, <2>4 DEF FlightSound
<1>2. CASE s.flight.stage = "none" /\ s.token = Absent
  BY <1>0, <1>2 DEF Run
<1>3. CASE s.flight.stage = "none" /\ s.token # Absent
  <2> DEFINE f == [NoFlight EXCEPT !.stage = "queued", !.token = s.token, !.then = then]
  <2>1. r = [s EXCEPT !.flight = f]
    BY <1>3 DEF Run
  <2>2. s.token \in Tokens
    BY <1>0, <1>3 DEF TabStates, Held
  <2>3. f \in Flights /\ f.stage = "queued" /\ f.token = s.token /\ f.answer = "none"
    BY <2>2 DEF NoFlight, Flights, Held
  <2> HIDE DEF f
  <2>4. /\ r \in TabStates /\ r.kind = s.kind /\ r.who = s.who /\ r.token = s.token
        /\ r.timer = s.timer /\ r.age = s.age /\ r.flight = f
    BY <1>0, <2>1, <2>3 DEF TabStates
  <2>5. s.flight.answer = "none"
    BY <1>0, <1>3 DEF FlightSound
  <2> QED
    BY <1>3, <2>2, <2>3, <2>4, <2>5 DEF FlightSound
<1> QED
  BY <1>1, <1>2, <1>3

\* ensureFresh: nothing, or a renewal that is due.
LEMMA EnsureFreshKeeps ==
    ASSUME NEW s, SessionSound(s) \/ (s \in TabStates /\ s.kind # "anonymous" /\ s.who # Absent
                                 /\ s.token # Absent),
           FlightSound(s)
    PROVE  LET r == EnsureFresh(s)
           IN  /\ SessionSound(r) /\ FlightSound(r)
               /\ r.who = s.who /\ r.token = s.token /\ r.flight.answer = s.flight.answer
               /\ r.flight.stage \in {"asking", "answered"} <=> s.flight.stage \in {"asking", "answered"}
               /\ r.flight.token \in {s.flight.token, s.token}
               /\ s.flight.stage # "none" => r.flight.token = s.flight.token
               /\ s.flight.stage # "none" => r.flight.stage = s.flight.stage
<1>1. s \in TabStates
  BY DEF SessionSound
<1>2. CASE s.flight.stage = "none" /\ ~Due(s)
  <2>1. EnsureFresh(s) = s
    BY <1>2 DEF EnsureFresh
  <2>2. SessionSound(s)
    BY <1>2 DEF SessionSound, Due, TabStates
  <2> QED
    BY <2>1, <2>2
<1>3. CASE ~(s.flight.stage = "none" /\ ~Due(s))
  <2> DEFINE r == Run(s, "rest")
  <2>1. EnsureFresh(s) = r
    BY <1>3 DEF EnsureFresh
  <2>2. /\ r \in TabStates /\ r.kind = s.kind /\ r.who = s.who /\ r.token = s.token
        /\ r.timer = s.timer /\ FlightSound(r) /\ r.flight.answer = s.flight.answer
        /\ s.token # Absent => r.flight.stage # "none"
        /\ s.token = Absent \/ s.flight.stage # "none" => r.flight.stage = s.flight.stage
        /\ r.flight.stage \in {"asking", "answered"} <=> s.flight.stage \in {"asking", "answered"}
        /\ r.flight.token \in {s.flight.token, s.token}
        /\ s.flight.stage # "none" => r.flight.token = s.flight.token
    BY RunKeeps
  <2> HIDE DEF r
  <2>3. SessionSound(r)
    BY <2>2 DEF SessionSound
  <2> QED
    BY <2>1, <2>2, <2>3
<1> QED
  BY <1>2, <1>3

\* A session with nothing in flight that it could hide behind.
Rested(s) ==
    /\ s \in TabStates
    /\ s.kind = "anonymous" <=> s.who = Absent
    /\ s.kind = "anonymous" => s.token = Absent
    /\ s.timer # "none" => s.token # Absent
    /\ s.kind = "expired" /\ s.token # Absent => s.timer # "none"

\* The renewal is over.
LEMMA LandedIs ==
    ASSUME NEW s, Rested(s)
    PROVE  LET l == Landed(s)
           IN  /\ SessionSound(l) /\ FlightSound(l) /\ l.flight = NoFlight
               /\ l.who = s.who /\ l.token = s.token
<1> DEFINE rest == [s EXCEPT !.flight = NoFlight]
<1>1. NoFlight \in Flights /\ NoFlight.stage = "none" /\ NoFlight.answer = "none"
  BY DEF NoFlight, Flights, Held
<1>2. /\ rest \in TabStates /\ rest.kind = s.kind /\ rest.who = s.who /\ rest.token = s.token
      /\ rest.timer = s.timer /\ rest.flight = NoFlight
  BY <1>1 DEF Rested, TabStates
<1>3. Landed(s) = rest \/ Landed(s) = Expired(rest)
  BY DEF Landed
<1> HIDE DEF rest
<1>4. SessionSound(rest) /\ FlightSound(rest)
  BY <1>1, <1>2 DEF Rested, SessionSound, FlightSound
<1>5. LET e == Expired(rest)
      IN  /\ SessionSound(e) /\ FlightSound(e) /\ e.flight = NoFlight
          /\ e.who = s.who /\ e.token = s.token
  <2> DEFINE e == Expired(rest)
  <2>1. /\ e \in TabStates /\ e.who = rest.who /\ e.token = rest.token /\ e.flight = rest.flight
        /\ e.kind = IF rest.who = Absent THEN "anonymous" ELSE "expired"
        /\ e.timer = "none" <=> rest.token = Absent
    BY <1>2, ExpiredIs
  <2> HIDE DEF e
  <2>2. SessionSound(e) /\ FlightSound(e)
    BY <1>1, <1>2, <2>1 DEF Rested, SessionSound, FlightSound
  <2> QED
    BY <1>2, <2>1, <2>2 DEF e
<1> QED
  BY <1>2, <1>3, <1>4, <1>5

\* What a page finds in its storage.
LEMMA RestoredIs ==
    ASSUME NEW s, SessionSound(s)
    PROVE  LET r == Restored(s)
           IN  /\ SessionSound(r) /\ FlightSound(r) /\ r.flight = NoFlight
               /\ r.who \in {s.who, Absent} /\ r.token = s.token
<1> DEFINE kind == IF s.kind = "active" /\ s.age = "lapsed" THEN "expired" ELSE
                   IF s.token = Absent /\ s.kind = "expired" THEN "anonymous" ELSE s.kind
           who == IF s.token = Absent /\ s.kind = "expired" THEN Absent ELSE s.who
           b == [s EXCEPT !.kind = kind, !.who = who, !.flight = NoFlight]
<1>1. NoFlight \in Flights /\ NoFlight.stage = "none" /\ NoFlight.answer = "none"
  BY DEF NoFlight, Flights, Held
<1>2. /\ s \in TabStates /\ kind \in {"anonymous", "active", "expired"} /\ who \in Someone
      /\ (kind = "anonymous" <=> who = Absent) /\ (kind = "anonymous" => s.token = Absent)
  BY DEF SessionSound, TabStates, Someone
<1>3. who \in {s.who, Absent}
  OBVIOUS
<1>4. Restored(s) = Planned(b)
  BY DEF Restored
<1> HIDE DEF kind, who
<1>5. /\ b \in TabStates /\ b.kind = kind /\ b.who = who /\ b.token = s.token /\ b.flight = NoFlight
  BY <1>1, <1>2 DEF TabStates
<1> HIDE DEF b
<1>6. /\ Planned(b) \in TabStates /\ Planned(b).kind = kind /\ Planned(b).who = who
      /\ Planned(b).token = s.token /\ Planned(b).flight = NoFlight
      /\ (Planned(b).timer = "none") <=> (s.token = Absent)
  BY <1>5, PlannedIs
<1>7. SessionSound(Planned(b)) /\ FlightSound(Planned(b))
  BY <1>1, <1>2, <1>6 DEF SessionSound, FlightSound
<1> QED
  BY <1>3, <1>4, <1>6, <1>7

-----------------------------------------------------------------------------
(* A step that announces nothing. *)

StoresStep ==
    /\ StoresTyped' /\ news' = news /\ issuer.next <= issuer'.next
    /\ \A k \in Tokens : k < issuer.next => owner'[k] = owner[k]
    /\ \A k \in issuer'.valid : k \in issuer.valid \/ k >= issuer.next
    /\ \A k \in Known :
          k \in Known' \/ \E u \in Tabs : tab'[u].flight.answer = "renewed" /\ tab'[u].token = k

\* What one tab does: it keeps its token, or has none, or was given a new one, and
\* what it spent is with it until it says so.
TabStep(u) ==
    /\ SessionSound(tab'[u]) /\ FlightSound(tab'[u])
    /\ TabOwned(tab'[u], person'[u], owner')
    /\ TabKnown(tab'[u], issuer'.next)
    /\ TabServed(tab'[u], issuer'.valid, issuer'.gone)
    /\ \/ tab'[u].token \in {tab[u].token, Absent}
       \/ /\ tab'[u].token \in issuer'.valid /\ tab'[u].token >= issuer.next
          /\ \A v \in Tabs : tab'[v].flight.answer = "renewed" => tab'[v].flight.token < issuer.next
    /\ tab'[u].flight.answer = "renewed" =>
          /\ tab'[u].token = tab[u].token
          /\ \/ tab[u].flight.answer = "renewed" /\ tab'[u].flight.token = tab[u].flight.token
             \/ /\ tab'[u].flight.token = issuer.next
                /\ \A i \in DOMAIN news[u] : news[u][i].spent # tab[u].token
    /\ tab[u].flight.answer = "renewed" =>
          \/ tab'[u].flight.answer = "renewed" /\ tab'[u].token = tab[u].token
          \/ tab[u].token \in issuer'.gone

LEMMA OneTab ==
    ASSUME TabsRest, NEW t \in Tabs, NEW s, tab' = [tab EXCEPT ![t] = s]
    PROVE  /\ tab' = [u \in Tabs |-> tab'[u]]
           /\ \A u \in Tabs : tab'[u] = IF u = t THEN s ELSE tab[u]
BY DEF TabsRest, StoresTyped

LEMMA KnownTokens ==
    ASSUME TabsRest
    PROVE  /\ issuer.next \in Nat
           /\ \A u \in Tabs : tab[u].token \in Held /\ tab[u].flight.token \in Held
           /\ \A u \in Tabs : tab[u].token # Absent =>
                 tab[u].token \in Tokens /\ tab[u].token < issuer.next
           /\ \A u \in Tabs : tab[u].flight.answer = "renewed" =>
                 /\ tab[u].flight.token \in Tokens /\ tab[u].flight.token < issuer.next
                 /\ tab[u].token \in Tokens
           /\ \A u \in Tabs : \A i \in DOMAIN news[u] :
                 /\ news[u][i].spent \in Tokens /\ news[u][i].token \in Tokens
                 /\ news[u][i].spent < issuer.next /\ news[u][i].token < issuer.next
<1>1. issuer.next \in Nat
  BY TabsAssumption DEF TabsRest, StoresTyped
<1>2. \A u \in Tabs : tab[u].token \in Held /\ tab[u].flight.token \in Held
  BY DEF TabsRest, TabsSound, SessionSound, TabStates, Flights
<1>3. \A u \in Tabs : tab[u].token # Absent =>
                 tab[u].token \in Tokens /\ tab[u].token < issuer.next
  BY <1>2 DEF TabsRest, TabsKnown, TabKnown, Held
<1>4. \A u \in Tabs : tab[u].flight.answer = "renewed" =>
                 /\ tab[u].flight.token \in Tokens /\ tab[u].flight.token < issuer.next
                 /\ tab[u].token \in Tokens
  BY AbsentIsNothing DEF TabsRest, TabsKnown, TabKnown, TabsSound, FlightSound
<1>5. \A u \in Tabs : \A i \in DOMAIN news[u] :
                 /\ news[u][i].spent \in Tokens /\ news[u][i].token \in Tokens
                 /\ news[u][i].spent < issuer.next /\ news[u][i].token < issuer.next
  <2> TAKE u \in Tabs
  <2> TAKE i \in DOMAIN news[u]
  <2>1. news[u] \in Seq(Announcements)
    BY DEF TabsRest, StoresTyped
  <2>2. news[u][i] \in Announcements
    BY <2>1
  <2> QED
    BY <2>2 DEF TabsRest, NewsSound, NewsHold, Announcements
<1> QED
  BY <1>1, <1>2, <1>3, <1>4, <1>5

LEMMA Stands ==
    ASSUME TabsRest, StoresStep, NEW u \in Tabs, tab'[u] = tab[u], person'[u] = person[u],
           TabServed(tab[u], issuer'.valid, issuer'.gone)
    PROVE  TabStep(u)
<1>1. SessionSound(tab[u]) /\ FlightSound(tab[u])
  BY DEF TabsRest, TabsSound
<1>2. TabOwned(tab[u], person[u], owner')
  BY KnownTokens DEF TabsRest, TabsOwned, TabOwned, StoresStep
<1>3. TabKnown(tab[u], issuer'.next)
  <2>1. issuer.next \in Nat /\ issuer'.next \in Nat /\ issuer.next <= issuer'.next
    BY KnownTokens, TabsAssumption DEF StoresStep, StoresTyped
  <2>2. TabKnown(tab[u], issuer.next) /\ tab[u].token \in Held /\ tab[u].flight.token \in Held
    BY KnownTokens DEF TabsRest, TabsKnown
  <2> QED
    BY <2>1, <2>2 DEF TabKnown, Held, Tokens
<1> QED
  BY <1>1, <1>2, <1>3 DEF TabStep

LEMMA LiveLater ==
    ASSUME NEW known, NEW tabs, NEW more, NEW then, NEW k, NEW q, NEW after,
           Live(k, q, after, known, tabs),
           \A x \in known :
               x \in more \/ \E u \in Tabs : then[u].flight.answer = "renewed" /\ then[u].token = x,
           \A u \in Tabs : tabs[u].flight.answer = "renewed" =>
               \/ then[u].flight.answer = "renewed" /\ then[u].token = tabs[u].token
               \/ tabs[u].token \in more
    PROVE  Live(k, q, after, more, then)
BY DEF Live

LEMMA QuietStep ==
    ASSUME TabsRest, StoresStep, \A u \in Tabs : TabStep(u)
    PROVE  TabsRest'
<1>1. TabsSound' /\ TabsOwned' /\ TabsKnown' /\ TabsServed'
  BY DEF TabStep, TabsSound, TabsOwned, TabsKnown, TabsServed
<1>2. StoresTyped' /\ news' = news /\ issuer'.next \in Nat /\ issuer.next <= issuer'.next
  BY TabsAssumption DEF StoresStep, StoresTyped
<1>3. NewsSound'
  <2> SUFFICES ASSUME NEW t \in Tabs
               PROVE  NewsHold(news[t], tab'[t].token, owner', issuer'.next, issuer'.valid)
    BY <1>2 DEF NewsSound
  <2>1. NewsHold(news[t], tab[t].token, owner, issuer.next, issuer.valid)
    BY DEF TabsRest, NewsSound
  <2>2. \A i \in DOMAIN news[t] :
          /\ news[t][i].spent < issuer'.next /\ news[t][i].token < issuer'.next
          /\ news[t][i].spent \notin issuer'.valid
          /\ owner'[news[t][i].token] = owner'[news[t][i].spent]
    <3> TAKE i \in DOMAIN news[t]
    <3>1. /\ news[t][i].spent \in Tokens /\ news[t][i].token \in Tokens
          /\ news[t][i].spent < issuer.next /\ news[t][i].token < issuer.next
          /\ news[t][i].spent \notin issuer.valid
          /\ owner[news[t][i].token] = owner[news[t][i].spent]
      BY <2>1, KnownTokens DEF NewsHold
    <3>2. news[t][i].spent \notin issuer'.valid
      BY <3>1, KnownTokens DEF StoresStep, Tokens
    <3>3. owner'[news[t][i].token] = owner'[news[t][i].spent]
      BY <3>1 DEF StoresStep
    <3> QED
      BY <1>2, <3>1, <3>2, <3>3, KnownTokens DEF Tokens
  <2>3. \A i \in DOMAIN news[t] : news[t][i].token # tab'[t].token
    <3> TAKE i \in DOMAIN news[t]
    <3>1. /\ news[t][i].token \in Tokens /\ news[t][i].token < issuer.next
          /\ news[t][i].token # tab[t].token
      BY <2>1, KnownTokens DEF NewsHold
    <3>2. \/ tab'[t].token \in {tab[t].token, Absent}
          \/ tab'[t].token \in Tokens /\ tab'[t].token >= issuer.next
      BY <1>2 DEF TabStep, StoresTyped
    <3> QED
      BY <3>1, <3>2, KnownTokens, AbsentIsNothing DEF Tokens
  <2> QED
    BY <2>1, <2>2, <2>3 DEF NewsHold
<1>4. AnswersFresh'
  <2> SUFFICES ASSUME NEW t \in Tabs, tab'[t].flight.answer = "renewed"
               PROVE  /\ \A u \in Tabs :
                           /\ tab'[u].token # tab'[t].flight.token
                           /\ \A i \in DOMAIN news[u] : news[u][i].token # tab'[t].flight.token
                      /\ \A i \in DOMAIN news[t] : news[t][i].spent # tab'[t].token
    BY <1>2 DEF AnswersFresh
  <2> DEFINE n == tab'[t].flight.token
  <2>1. /\ tab'[t].token = tab[t].token
        /\ \/ tab[t].flight.answer = "renewed" /\ n = tab[t].flight.token
           \/ /\ n = issuer.next
              /\ \A i \in DOMAIN news[t] : news[t][i].spent # tab[t].token
    BY DEF TabStep
  <2> HIDE DEF n
  <2>2. n \in Tokens
    BY <1>1 DEF TabsSound, FlightSound, n
  <2>3. \A u \in Tabs : \A i \in DOMAIN news[u] : news[u][i].token # n
    BY <2>1, KnownTokens DEF TabsRest, AnswersFresh, Tokens
  <2>4. \A i \in DOMAIN news[t] : news[t][i].spent # tab'[t].token
    BY <2>1 DEF TabsRest, AnswersFresh
  <2>5. \A u \in Tabs : tab[u].token # n
    BY <2>1, <2>2, KnownTokens, AbsentIsNothing DEF TabsRest, AnswersFresh, Tokens
  <2>6. \A u \in Tabs : tab'[u].token # n
    <3> TAKE u \in Tabs
    <3>1. CASE tab'[u].token \in {tab[u].token, Absent}
      BY <2>2, <2>5, <3>1, AbsentIsNothing
    <3>2. CASE ~(tab'[u].token \in {tab[u].token, Absent})
      <4>1. tab'[u].token \in Tokens /\ tab'[u].token >= issuer.next /\ n < issuer.next
        BY <1>2, <3>2 DEF TabStep, StoresTyped, n
      <4> QED
        BY <2>2, <4>1, KnownTokens DEF Tokens
    <3> QED
      BY <3>1, <3>2
  <2> QED
    BY <2>3, <2>4, <2>6 DEF n
<1>5. TokensLive'
  <2>1. \A u \in Tabs : tab[u].flight.answer = "renewed" =>
          \/ tab'[u].flight.answer = "renewed" /\ tab'[u].token = tab[u].token
          \/ tab[u].token \in Known'
    BY DEF TabStep, Known
  <2>2. \A k \in Known :
          k \in Known' \/ \E u \in Tabs : tab'[u].flight.answer = "renewed" /\ tab'[u].token = k
    BY DEF StoresStep
  <2>3. \A k, q, i : Live(k, q, i, Known, tab) => Live(k, q, i, Known', tab')
    BY <2>1, <2>2, LiveLater
  <2>4. \A t \in Tabs : \A i \in DOMAIN news[t] : Live(news[t][i].token, news[t], i, Known', tab')
    BY <2>3 DEF TabsRest, TokensLive
  <2>5. ASSUME NEW t \in Tabs, tab'[t].token # Absent
        PROVE  Live(tab'[t].token, news[t], 0, Known', tab')
    <3>1. CASE tab'[t].token = tab[t].token
      BY <2>3, <2>5, <3>1 DEF TabsRest, TokensLive
    <3>2. CASE tab'[t].token # tab[t].token
      <4>1. tab'[t].token \in Known'
        BY <2>5, <3>2 DEF TabStep, Known
      <4> QED
        BY <4>1 DEF Live
    <3> QED
      BY <3>1, <3>2
  <2> QED
    BY <1>2, <2>4, <2>5 DEF TokensLive
<1> QED
  BY <1>1, <1>2, <1>3, <1>4, <1>5 DEF TabsRest

-----------------------------------------------------------------------------
(* The actions. *)

LEMMA TabsInitHolds == TabsInit => TabsInv
<1> SUFFICES ASSUME TabsInit PROVE TabsInv
  OBVIOUS
<1>1. /\ Anonymous \in TabStates /\ Anonymous.kind = "anonymous" /\ Anonymous.who = Absent
      /\ Anonymous.token = Absent /\ Anonymous.timer = "none" /\ Anonymous.flight = NoFlight
      /\ NoFlight.stage = "none" /\ NoFlight.answer = "none" /\ NoFlight.token = Absent
  BY DEF Anonymous, NoFlight, TabStates, Flights, Held, Someone
<1>2. StoresTyped
  BY TabsAssumption DEF TabsInit, StoresTyped, Someone
<1>3. Exclusively
  BY <1>1, AbsentIsNothing DEF TabsInit, Exclusively
<1>4. TabsSound /\ TabsOwned /\ TabsKnown /\ TabsServed
  BY <1>1 DEF TabsInit, TabsSound, SessionSound, FlightSound, TabsOwned, TabOwned, TabsKnown,
     TabKnown, TabsServed, TabServed
<1>5. NewsSound /\ AnswersFresh /\ TokensLive
  BY <1>1 DEF TabsInit, NewsSound, NewsHold, AnswersFresh, TokensLive
<1> QED
  BY <1>2, <1>3, <1>4, <1>5 DEF TabsInv, TabsRest

\* A tab works on its own session: nothing is spent, given or told.
LEMMA InPlace ==
    ASSUME TabsRest, NEW t \in Tabs, NEW s, tab' = [tab EXCEPT ![t] = s],
           UNCHANGED <<news, issuer, owner, person>>, lock' \in Tabs \cup {Absent},
           SessionSound(s), FlightSound(s), s.who = tab[t].who, s.token \in {tab[t].token, Absent},
           TabKnown(s, issuer.next),
           s.flight.stage = "asking" /\ s.flight.token \in issuer.valid => s.token = s.flight.token,
           s.flight.answer = "renewed" <=> tab[t].flight.answer = "renewed",
           s.flight.answer = "renewed" =>
               s.token = tab[t].token /\ s.flight.token = tab[t].flight.token
    PROVE  TabsRest'
<1>1. tab' = [u \in Tabs |-> tab'[u]] /\ \A u \in Tabs : tab'[u] = IF u = t THEN s ELSE tab[u]
  BY OneTab
<1>2. StoresStep
  <2>1. StoresTyped'
    BY <1>1 DEF TabsRest, StoresTyped
  <2>2. Known' = Known /\ issuer.next \in Nat
    BY KnownTokens DEF Known
  <2> QED
    BY <2>1, <2>2 DEF StoresStep
<1>3. TabStep(t)
  <2>1. TabOwned(s, person[t], owner)
    BY DEF TabsRest, TabsOwned, TabOwned
  <2>2. TabServed(s, issuer.valid, issuer.gone)
    BY DEF TabsRest, TabsServed, TabServed
  <2> QED
    BY <1>1, <2>1, <2>2 DEF TabStep
<1>4. \A u \in Tabs \ {t} : TabStep(u)
  BY <1>1, <1>2, Stands DEF TabsRest, TabsServed
<1> QED
  BY <1>2, <1>3, <1>4, QuietStep

\* The same, when it does not touch the lock either.
LEMMA InPlaceUnlocked ==
    ASSUME TabsInv, NEW t \in Tabs, NEW s, tab' = [tab EXCEPT ![t] = s],
           UNCHANGED <<news, issuer, owner, person, lock>>,
           SessionSound(s), FlightSound(s), s.who = tab[t].who, s.token \in {tab[t].token, Absent},
           TabKnown(s, issuer.next),
           s.flight.stage \in {"asking", "answered"} <=> tab[t].flight.stage \in {"asking", "answered"},
           s.flight.stage = "asking" /\ s.flight.token \in issuer.valid => s.token = s.flight.token,
           s.flight.answer = "renewed" <=> tab[t].flight.answer = "renewed",
           s.flight.answer = "renewed" =>
               s.token = tab[t].token /\ s.flight.token = tab[t].flight.token
    PROVE  TabsInv'
<1>1. lock' \in Tabs \cup {Absent}
  BY DEF TabsInv, TabsRest, StoresTyped
<1>2. TabsRest'
  BY <1>1, InPlace DEF TabsInv
<1>3. Exclusively'
  BY OneTab DEF TabsInv, Exclusively
<1> QED
  BY <1>2, <1>3 DEF TabsInv

LEMMA TabOf ==
    ASSUME TabsRest, NEW t \in Tabs
    PROVE  /\ SessionSound(tab[t]) /\ FlightSound(tab[t]) /\ tab[t] \in TabStates
           /\ tab[t].flight \in Flights
           /\ TabOwned(tab[t], person[t], owner) /\ TabKnown(tab[t], issuer.next)
           /\ TabServed(tab[t], issuer.valid, issuer.gone)
BY DEF TabsRest, TabsSound, TabsOwned, TabsKnown, TabsServed, SessionSound, TabStates

LEMMA AgeKeeps ==
    ASSUME TabsInv, NEW t \in Tabs, Age(t)
    PROVE  TabsInv'
<1> DEFINE s == [tab[t] EXCEPT !.age = IF tab[t].age = "fresh" THEN "due" ELSE "lapsed"]
<1>1. tab' = [tab EXCEPT ![t] = s] /\ UNCHANGED <<news, issuer, owner, person, lock>>
  BY DEF Age, Set
<1>2. /\ SessionSound(tab[t]) /\ FlightSound(tab[t]) /\ tab[t] \in TabStates
      /\ TabKnown(tab[t], issuer.next) /\ TabServed(tab[t], issuer.valid, issuer.gone)
  BY TabOf DEF TabsInv
<1>3. /\ s \in TabStates /\ s.kind = tab[t].kind /\ s.who = tab[t].who /\ s.token = tab[t].token
      /\ s.timer = tab[t].timer /\ s.flight = tab[t].flight
  BY <1>2 DEF TabStates
<1> HIDE DEF s
<1>4. SessionSound(s) /\ FlightSound(s)
  BY <1>2, <1>3 DEF SessionSound, FlightSound
<1>5. TabKnown(s, issuer.next)
  BY <1>2, <1>3 DEF TabKnown
<1>6. s.flight.stage = "asking" /\ s.flight.token \in issuer.valid => s.token = s.flight.token
  BY <1>2, <1>3 DEF TabServed
<1> QED
  BY <1>1, <1>3, <1>4, <1>5, <1>6, InPlaceUnlocked

\* A renewal that is due is started.
LEMMA StartedKeeps ==
    ASSUME TabsInv, NEW t \in Tabs, NEW s, NEW r, tab' = [tab EXCEPT ![t] = r],
           UNCHANGED <<news, issuer, owner, person, lock>>,
           s.who = tab[t].who, s.token = tab[t].token, s.flight = tab[t].flight,
           SessionSound(r), FlightSound(r), r.who = s.who, r.token = s.token,
           r.flight.answer = s.flight.answer,
           r.flight.stage \in {"asking", "answered"} <=> s.flight.stage \in {"asking", "answered"},
           r.flight.token \in {s.flight.token, s.token},
           s.flight.stage # "none" => r.flight.token = s.flight.token,
           s.flight.stage # "none" => r.flight.stage = s.flight.stage
    PROVE  TabsInv'
<1>1. TabKnown(tab[t], issuer.next) /\ TabServed(tab[t], issuer.valid, issuer.gone)
      /\ FlightSound(tab[t])
  BY TabOf DEF TabsInv
<1>2. TabKnown(r, issuer.next)
  BY <1>1 DEF TabKnown
<1>3. r.flight.stage = "asking" /\ r.flight.token \in issuer.valid => r.token = r.flight.token
  BY <1>1 DEF TabServed
<1>4. r.flight.answer = "renewed" => r.flight.token = tab[t].flight.token
  BY <1>1 DEF FlightSound
<1> QED
  BY <1>2, <1>3, <1>4, InPlaceUnlocked

LEMMA FireKeeps ==
    ASSUME TabsInv, NEW t \in Tabs, Fire(t)
    PROVE  TabsInv'
<1> DEFINE s == [tab[t] EXCEPT !.timer = "none"]
           r == EnsureFresh(s)
<1>1. tab' = [tab EXCEPT ![t] = r] /\ UNCHANGED <<news, issuer, owner, person, lock>>
      /\ tab[t].timer # "none"
  BY DEF Fire, Set
<1>2. SessionSound(tab[t]) /\ FlightSound(tab[t]) /\ tab[t] \in TabStates
  BY TabOf DEF TabsInv
<1>3. /\ s \in TabStates /\ s.kind = tab[t].kind /\ s.who = tab[t].who /\ s.token = tab[t].token
      /\ s.flight = tab[t].flight
  BY <1>2 DEF TabStates
<1> HIDE DEF s
<1>4. s.kind # "anonymous" /\ s.who # Absent /\ s.token # Absent /\ FlightSound(s)
  BY <1>1, <1>2, <1>3 DEF SessionSound, FlightSound
<1>5. /\ SessionSound(r) /\ FlightSound(r)
      /\ r.who = s.who /\ r.token = s.token /\ r.flight.answer = s.flight.answer
      /\ r.flight.stage \in {"asking", "answered"} <=> s.flight.stage \in {"asking", "answered"}
      /\ r.flight.token \in {s.flight.token, s.token}
      /\ s.flight.stage # "none" => r.flight.token = s.flight.token
      /\ s.flight.stage # "none" => r.flight.stage = s.flight.stage
  BY <1>3, <1>4, EnsureFreshKeeps
<1> HIDE DEF r
<1> QED
  BY <1>1, <1>3, <1>5, StartedKeeps

LEMMA VisitKeeps ==
    ASSUME TabsInv, NEW t \in Tabs, Visit(t)
    PROVE  TabsInv'
<1> DEFINE s == tab[t]
           r == EnsureFresh(s)
<1>1. tab' = [tab EXCEPT ![t] = r] /\ UNCHANGED <<news, issuer, owner, person, lock>>
  BY DEF Visit, Set
<1>2. SessionSound(s) /\ FlightSound(s)
  BY TabOf DEF TabsInv
<1>3. /\ SessionSound(r) /\ FlightSound(r)
      /\ r.who = s.who /\ r.token = s.token /\ r.flight.answer = s.flight.answer
      /\ r.flight.stage \in {"asking", "answered"} <=> s.flight.stage \in {"asking", "answered"}
      /\ r.flight.token \in {s.flight.token, s.token}
      /\ s.flight.stage # "none" => r.flight.token = s.flight.token
      /\ s.flight.stage # "none" => r.flight.stage = s.flight.stage
  BY <1>2, EnsureFreshKeeps
<1> HIDE DEF r
<1> QED
  BY <1>1, <1>3, StartedKeeps

LEMMA ApiRefusesKeeps ==
    ASSUME TabsInv, NEW t \in Tabs, ApiRefuses(t)
    PROVE  TabsInv'
<1> DEFINE s == tab[t]
<1>1. UNCHANGED <<news, issuer, owner, person, lock>> /\ s.kind = "active"
  BY DEF ApiRefuses
<1>2. SessionSound(s) /\ FlightSound(s) /\ s \in TabStates /\ TabKnown(s, issuer.next)
      /\ TabServed(s, issuer.valid, issuer.gone)
  BY TabOf DEF TabsInv
<1>3. CASE s.flight.stage = "none" /\ s.token = Absent /\ s.age = "lapsed"
  <2> DEFINE r == Revoked(s)
  <2>1. tab' = [tab EXCEPT ![t] = r]
    BY <1>3 DEF ApiRefuses, Set
  <2>2. /\ r \in TabStates /\ r.who = s.who /\ r.token = Absent /\ r.flight = s.flight
        /\ r.kind = IF s.who = Absent THEN "anonymous" ELSE "expired"
        /\ r.timer = "none"
    BY <1>2, RevokedIs
  <2> HIDE DEF r
  <2>3. SessionSound(r) /\ FlightSound(r) /\ TabKnown(r, issuer.next) /\ r.flight.answer # "renewed"
        /\ s.flight.answer # "renewed"
    BY <1>2, <1>3, <2>2 DEF SessionSound, FlightSound, TabKnown
  <2> QED
    BY <1>1, <1>3, <2>1, <2>2, <2>3, InPlaceUnlocked
<1>4. CASE s.flight.stage = "none" /\ s.token = Absent /\ s.age # "lapsed"
  <2>1. tab' = [tab EXCEPT ![t] = s]
    BY <1>4 DEF ApiRefuses, Set
  <2>2. s.flight.stage = "asking" /\ s.flight.token \in issuer.valid => s.token = s.flight.token
    BY <1>2 DEF TabServed
  <2> QED
    BY <1>1, <1>2, <2>1, <2>2, InPlaceUnlocked
<1>5. CASE ~(s.flight.stage = "none" /\ s.token = Absent)
  <2> DEFINE r == Run(s, "expire")
  <2>1. tab' = [tab EXCEPT ![t] = r]
    BY <1>5 DEF ApiRefuses, Set
  <2>2. /\ r \in TabStates /\ r.kind = s.kind /\ r.who = s.who /\ r.token = s.token
        /\ r.timer = s.timer /\ FlightSound(r) /\ r.flight.answer = s.flight.answer
        /\ s.token # Absent => r.flight.stage # "none"
        /\ s.token = Absent \/ s.flight.stage # "none" => r.flight.stage = s.flight.stage
        /\ r.flight.stage \in {"asking", "answered"} <=> s.flight.stage \in {"asking", "answered"}
        /\ r.flight.token \in {s.flight.token, s.token}
        /\ s.flight.stage # "none" => r.flight.token = s.flight.token
    BY <1>2, RunKeeps
  <2> HIDE DEF r
  <2>3. SessionSound(r)
    BY <1>1, <1>2, <2>2 DEF SessionSound
  <2> QED
    BY <1>1, <2>1, <2>2, <2>3, StartedKeeps
<1> QED
  BY <1>3, <1>4, <1>5

LEMMA SignOutKeeps ==
    ASSUME Patient, TabsInv, NEW t \in Tabs, SignOut(t)
    PROVE  TabsInv'
<1> DEFINE s == [Anonymous EXCEPT !.flight = tab[t].flight]
<1>1. /\ tab' = [tab EXCEPT ![t] = s] /\ tab[t].flight.stage = "none"
      /\ person' = [person EXCEPT ![t] = Absent] /\ UNCHANGED <<lock, news, issuer, owner>>
  BY DEF SignOut, Set
<1>2. TabsRest /\ Exclusively /\ FlightSound(tab[t]) /\ tab[t].flight \in Flights
      /\ TabKnown(tab[t], issuer.next)
  BY TabOf DEF TabsInv
<1>3. /\ s \in TabStates /\ s.kind = "anonymous" /\ s.who = Absent /\ s.token = Absent
      /\ s.timer = "none" /\ s.flight = tab[t].flight
  BY <1>2 DEF Anonymous, TabStates, Held, Someone
<1> HIDE DEF s
<1>4. tab' = [u \in Tabs |-> tab'[u]] /\ \A u \in Tabs : tab'[u] = IF u = t THEN s ELSE tab[u]
  BY <1>1, <1>2, OneTab
<1>5. person' \in [Tabs -> Someone] /\ \A u \in Tabs \ {t} : person'[u] = person[u]
  BY <1>1, <1>2 DEF TabsRest, StoresTyped, Someone
<1>6. StoresStep
  <2>1. StoresTyped'
    BY <1>1, <1>2, <1>4, <1>5 DEF TabsRest, StoresTyped
  <2>2. Known' = Known /\ issuer.next \in Nat
    BY <1>1, <1>2, KnownTokens DEF Known
  <2> QED
    BY <1>1, <2>1, <2>2 DEF StoresStep
<1>7. TabStep(t)
  <2>1. SessionSound(s) /\ FlightSound(s) /\ s.flight.answer = "none" /\ tab[t].flight.answer = "none"
    BY <1>1, <1>2, <1>3 DEF SessionSound, FlightSound, Flights
  <2>2. TabOwned(s, person'[t], owner) /\ TabKnown(s, issuer.next)
        /\ TabServed(s, issuer.valid, issuer.gone)
    BY <1>1, <1>2, <1>3, <2>1 DEF TabOwned, TabKnown, TabServed
  <2> QED
    BY <1>1, <1>3, <1>4, <2>1, <2>2 DEF TabStep
<1>8. \A u \in Tabs \ {t} : TabStep(u)
  BY <1>1, <1>2, <1>4, <1>5, <1>6, Stands DEF TabsRest, TabsServed
<1>9. TabsRest'
  BY <1>2, <1>6, <1>7, <1>8, QuietStep
<1>10. Exclusively'
  BY <1>1, <1>2, <1>3, <1>4 DEF Exclusively
<1> QED
  BY <1>9, <1>10 DEF TabsInv

LEMMA SignInKeeps ==
    ASSUME Patient, TabsInv, NEW t \in Tabs, NEW p \in Persons, NEW renewable \in BOOLEAN,
           SignIn(t, p, renewable)
    PROVE  TabsInv'
<1> DEFINE k == IF renewable THEN issuer.next ELSE Absent
           s == Active(tab[t], p, k)
<1>1. /\ tab' = [tab EXCEPT ![t] = s] /\ tab[t].flight.stage = "none"
      /\ renewable => issuer.next <= MaxTokens
      /\ issuer' = IF renewable
                   THEN [issuer EXCEPT !.next = @ + 1, !.valid = @ \cup {k}] ELSE issuer
      /\ owner' = IF renewable THEN [owner EXCEPT ![k] = p] ELSE owner
      /\ person' = [person EXCEPT ![t] = p] /\ UNCHANGED <<lock, news>>
  BY DEF SignIn, Set
<1>2. /\ TabsRest /\ Exclusively /\ FlightSound(tab[t]) /\ tab[t] \in TabStates
      /\ TabKnown(tab[t], issuer.next)
  BY TabOf DEF TabsInv
<1>3. /\ issuer.next \in 1..MaxTokens + 1 /\ issuer.valid \in SUBSET Tokens
      /\ issuer.gone \in SUBSET Tokens /\ issuer.next \in Nat /\ MaxTokens \in Nat
      /\ issuer \in [next : 1..MaxTokens + 1, valid : SUBSET Tokens, gone : SUBSET Tokens]
      /\ \A x \in issuer.valid \cup issuer.gone : x < issuer.next
      /\ issuer.valid \cap issuer.gone = {}
      /\ owner \in [Tokens -> Someone] /\ person \in [Tabs -> Someone]
  BY <1>2, KnownTokens, TabsAssumption DEF TabsRest, StoresTyped
<1>4. k \in Held /\ (renewable => k \in Tokens)
  BY <1>1, <1>3 DEF Held, Tokens
<1>5. /\ s \in TabStates /\ s.kind = "active" /\ s.who = p /\ s.token = k
      /\ s.flight = tab[t].flight /\ (s.timer = "none" <=> k = Absent)
  BY <1>2, <1>4, ActiveIs DEF Someone
<1>6. tab' = [u \in Tabs |-> tab'[u]] /\ \A u \in Tabs : tab'[u] = IF u = t THEN s ELSE tab[u]
  BY <1>1, <1>2, OneTab
<1>7. /\ issuer' \in [next : 1..MaxTokens + 1, valid : SUBSET Tokens, gone : SUBSET Tokens]
      /\ issuer'.next = (IF renewable THEN issuer.next + 1 ELSE issuer.next)
      /\ issuer'.valid = (IF renewable THEN issuer.valid \cup {k} ELSE issuer.valid)
      /\ issuer'.gone = issuer.gone
  <2>1. CASE renewable
    <3>1. issuer.next + 1 \in 1..MaxTokens + 1 /\ issuer.valid \cup {k} \in SUBSET Tokens
      BY <1>1, <1>3, <1>4, <2>1
    <3> QED
      BY <1>1, <1>3, <2>1, <3>1
  <2>2. CASE ~renewable
    BY <1>1, <1>3, <2>2
  <2> QED
    BY <2>1, <2>2
<1>8. /\ owner' \in [Tokens -> Someone] /\ (renewable => owner'[k] = p)
      /\ \A x \in Tokens : x < issuer.next => owner'[x] = owner[x]
  <2>1. CASE renewable
    <3>1. owner' = [owner EXCEPT ![k] = p] /\ k \in Tokens /\ k = issuer.next
      BY <1>1, <1>4, <2>1
    <3> QED
      BY <1>3, <3>1 DEF Someone, Tokens
  <2>2. CASE ~renewable
    BY <1>1, <1>3, <2>2
  <2> QED
    BY <2>1, <2>2
<1>9. person' \in [Tabs -> Someone] /\ person'[t] = p /\ \A u \in Tabs \ {t} : person'[u] = person[u]
  BY <1>1, <1>3 DEF Someone
<1> HIDE DEF s
<1>10. StoresStep
  <2>1. \A x \in issuer'.valid \cup issuer'.gone : x < issuer'.next
    BY <1>3, <1>7 DEF Tokens
  <2>2. issuer'.valid \cap issuer'.gone = {}
    BY <1>3, <1>7
  <2>3. StoresTyped'
    BY <1>1, <1>2, <1>6, <1>7, <1>8, <1>9, <2>1, <2>2 DEF TabsRest, StoresTyped
  <2>4. issuer.next <= issuer'.next /\ Known \subseteq Known'
    BY <1>3, <1>7 DEF Known
  <2>5. \A x \in issuer'.valid : x \in issuer.valid \/ x >= issuer.next
    BY <1>3, <1>7
  <2> QED
    BY <1>1, <1>8, <2>3, <2>4, <2>5 DEF StoresStep
<1>11. tab[t].flight.answer = "none"
  BY <1>1, <1>2 DEF FlightSound, TabStates, Flights
<1>12. TabStep(t)
  <2>1. p # Absent
    BY AbsentIsNothing
  <2>2. SessionSound(s) /\ FlightSound(s)
    BY <1>1, <1>2, <1>5, <1>11, <2>1 DEF SessionSound, FlightSound
  <2>3. TabOwned(s, person'[t], owner')
    BY <1>5, <1>8, <1>9, <1>11 DEF TabOwned
  <2>4. TabKnown(s, issuer'.next)
    <3>1. s.token # Absent => s.token < issuer'.next
      BY <1>3, <1>5, <1>7
    <3>2. tab[t].flight.token # Absent => tab[t].flight.token \in Tokens /\ tab[t].flight.token < issuer.next
      BY <1>2 DEF TabKnown, TabStates, Flights, Held
    <3>3. s.flight.token # Absent => s.flight.token < issuer'.next
      BY <1>3, <1>5, <1>7, <3>2 DEF Tokens
    <3> QED
      BY <3>1, <3>3 DEF TabKnown
  <2>5. TabServed(s, issuer'.valid, issuer'.gone)
    BY <1>1, <1>5, <1>11 DEF TabServed
  <2>6. \/ s.token = Absent
        \/ s.token \in issuer'.valid /\ s.token >= issuer.next
    BY <1>3, <1>5, <1>7
  <2>7. \A v \in Tabs : tab'[v].flight.answer = "renewed" => tab'[v].flight.token < issuer.next
    BY <1>2, <1>5, <1>6, <1>11, KnownTokens
  <2> QED
    BY <1>5, <1>6, <1>11, <2>2, <2>3, <2>4, <2>5, <2>6, <2>7 DEF TabStep
<1>13. \A u \in Tabs \ {t} : TabStep(u)
  <2> TAKE u \in Tabs \ {t}
  <2>1. TabServed(tab[u], issuer.valid, issuer.gone) /\ tab[u].flight \in Flights
        /\ TabKnown(tab[u], issuer.next) /\ tab[u].token \in Held
    BY <1>2, TabOf DEF TabStates
  <2>3. TabServed(tab[u], issuer'.valid, issuer'.gone)
    <3>1. CASE renewable
      <4>1. issuer'.valid = issuer.valid \cup {issuer.next} /\ issuer'.gone = issuer.gone
        BY <1>7, <3>1
      <4>2. issuer.next \in Tokens /\ issuer.next # Absent
        BY <1>4, <3>1, AbsentIsNothing
      <4>3. tab[u].flight.token # issuer.next
        BY <1>3, <2>1, <4>2 DEF TabKnown, Flights, Held, Tokens
      <4>4. tab[u].token # issuer.next
        BY <1>3, <2>1, <4>2 DEF TabKnown, Held, Tokens
      <4> QED
        BY <2>1, <4>1, <4>3, <4>4 DEF TabServed
    <3>2. CASE ~renewable
      BY <1>1, <2>1, <3>2
    <3> QED
      BY <3>1, <3>2
  <2> QED
    BY <1>2, <1>6, <1>9, <1>10, <2>3, Stands
<1>14. TabsRest'
  BY <1>2, <1>10, <1>12, <1>13, QuietStep
<1>15. Exclusively'
  BY <1>1, <1>2, <1>5, <1>6 DEF Exclusively
<1> QED
  BY <1>14, <1>15 DEF TabsInv

LEMMA AcquireKeeps ==
    ASSUME TabsInv, NEW t \in Tabs, Acquire(t)
    PROVE  TabsInv'
<1>1. tab[t].flight.stage = "queued" /\ lock = Absent /\ UNCHANGED <<news, issuer, owner, person>>
  BY DEF Acquire
<1>2. /\ TabsRest /\ Exclusively /\ SessionSound(tab[t]) /\ FlightSound(tab[t]) /\ tab[t] \in TabStates
      /\ tab[t].flight \in Flights /\ TabKnown(tab[t], issuer.next)
  BY TabOf DEF TabsInv
<1>3. tab[t].flight.answer = "none"
  BY <1>1, <1>2 DEF FlightSound, Flights
<1>4. CASE tab[t].token # tab[t].flight.token
  <2> DEFINE s == Landed(tab[t])
  <2>1. tab' = [tab EXCEPT ![t] = s] /\ lock' = lock
    BY <1>4 DEF Acquire, Set
  <2>2. Rested(tab[t])
    BY <1>1, <1>2, <1>4 DEF Rested, SessionSound, FlightSound
  <2>3. SessionSound(s) /\ FlightSound(s) /\ s.flight = NoFlight /\ s.who = tab[t].who /\ s.token = tab[t].token
    BY <2>2, LandedIs
  <2> HIDE DEF s
  <2>4. s.flight.stage = "none" /\ s.flight.answer = "none" /\ s.flight.token = Absent
    BY <2>3 DEF NoFlight
  <2>5. TabKnown(s, issuer.next)
    BY <1>2, <2>3, <2>4 DEF TabKnown
  <2> QED
    BY <1>1, <1>3, <2>1, <2>3, <2>4, <2>5, InPlaceUnlocked
<1>5. CASE tab[t].token = tab[t].flight.token
  <2> DEFINE f == [tab[t].flight EXCEPT !.stage = "asking"]
             s == [tab[t] EXCEPT !.flight.stage = "asking"]
  <2>1. tab' = [tab EXCEPT ![t] = s] /\ lock' = t
    BY <1>5 DEF Acquire, Set
  <2>2. f \in Flights /\ f.stage = "asking" /\ f.token = tab[t].flight.token /\ f.answer = "none"
    BY <1>2, <1>3 DEF Flights
  <2>3. s = [tab[t] EXCEPT !.flight = f]
    BY <1>2 DEF TabStates
  <2> HIDE DEF f, s
  <2>4. /\ s \in TabStates /\ s.kind = tab[t].kind /\ s.who = tab[t].who /\ s.token = tab[t].token
        /\ s.timer = tab[t].timer /\ s.flight = f
    BY <1>2, <2>2, <2>3 DEF TabStates
  <2>5. SessionSound(s) /\ FlightSound(s)
    BY <1>1, <1>2, <2>2, <2>4 DEF SessionSound, FlightSound
  <2>6. TabKnown(s, issuer.next)
    BY <1>2, <2>2, <2>4 DEF TabKnown
  <2>7. TabsRest'
    BY <1>1, <1>2, <1>3, <1>5, <2>1, <2>2, <2>4, <2>5, <2>6, InPlace
  <2>8. Exclusively'
    BY <1>1, <1>2, <2>1, <2>2, <2>4, OneTab, AbsentIsNothing DEF Exclusively
  <2> QED
    BY <2>7, <2>8 DEF TabsInv
<1> QED
  BY <1>4, <1>5

\* The answer is in.
LEMMA AnsweredIs ==
    ASSUME TabsRest, NEW t \in Tabs, NEW kind \in {"renewed", "refused", "unavailable"},
           NEW k \in Held, tab[t].flight.stage = "asking", Answered(t, kind, k)
    PROVE  \E s \in TabStates :
               /\ tab' = [tab EXCEPT ![t] = s]
               /\ s.kind = tab[t].kind /\ s.who = tab[t].who /\ s.token = tab[t].token
               /\ s.timer = tab[t].timer /\ s.flight.stage = "answered"
               /\ s.flight.answer = kind /\ s.flight.token = k
               /\ SessionSound(s)
               /\ (kind = "renewed" => k \in Tokens /\ s.token \in Tokens) => FlightSound(s)
<1> DEFINE f == [tab[t].flight EXCEPT !.stage = "answered", !.answer = kind, !.token = k]
           s == [tab[t] EXCEPT !.flight = f]
<1>1. tab' = [tab EXCEPT ![t] = s]
  BY DEF Answered, Set
<1>2. SessionSound(tab[t]) /\ tab[t] \in TabStates /\ tab[t].flight \in Flights
  BY TabOf
<1>3. f \in Flights /\ f.stage = "answered" /\ f.token = k /\ f.answer = kind
  BY <1>2 DEF Flights
<1> HIDE DEF f
<1>4. /\ s \in TabStates /\ s.kind = tab[t].kind /\ s.who = tab[t].who /\ s.token = tab[t].token
      /\ s.timer = tab[t].timer /\ s.flight = f
  BY <1>2, <1>3 DEF TabStates
<1> HIDE DEF s
<1>5. SessionSound(s)
  BY <1>2, <1>3, <1>4 DEF SessionSound
<1>6. (kind = "renewed" => k \in Tokens /\ s.token \in Tokens) => FlightSound(s)
  BY <1>3, <1>4 DEF FlightSound
<1> QED
  BY <1>1, <1>3, <1>4, <1>5, <1>6

LEMMA UnansweredKeeps ==
    ASSUME TabsInv, NEW t \in Tabs, Unanswered(t)
    PROVE  TabsInv'
<1>1. /\ tab[t].flight.stage = "asking" /\ Answered(t, "unavailable", Absent)
      /\ UNCHANGED <<lock, news, issuer, owner, person>>
  BY DEF Unanswered
<1>2. PICK s \in TabStates :
               /\ tab' = [tab EXCEPT ![t] = s]
               /\ s.kind = tab[t].kind /\ s.who = tab[t].who /\ s.token = tab[t].token
               /\ s.timer = tab[t].timer /\ s.flight.stage = "answered"
               /\ s.flight.answer = "unavailable" /\ s.flight.token = Absent
               /\ SessionSound(s) /\ FlightSound(s)
  BY <1>1, AnsweredIs DEF TabsInv, Held
<1>3. FlightSound(tab[t]) /\ TabKnown(tab[t], issuer.next)
  BY TabOf DEF TabsInv
<1>4. TabKnown(s, issuer.next) /\ tab[t].flight.answer # "renewed"
  BY <1>1, <1>2, <1>3 DEF TabKnown, FlightSound
<1> QED
  BY <1>1, <1>2, <1>4, InPlaceUnlocked

\* The issuer takes a token no longer.
LEMMA RetiredKeeps ==
    ASSUME TabsRest, NEW gone, gone \in SUBSET issuer.valid,
           issuer' = [issuer EXCEPT !.valid = @ \ gone, !.gone = @ \cup gone],
           UNCHANGED <<news, owner, person>>, lock' \in Tabs \cup {Absent},
           tab' = [u \in Tabs |-> tab'[u]]
    PROVE  /\ StoresStep
           /\ \A u \in Tabs : TabServed(tab[u], issuer'.valid, issuer'.gone)
           /\ issuer'.next = issuer.next /\ issuer'.valid \subseteq issuer.valid
<1>1. /\ issuer \in [next : 1..MaxTokens + 1, valid : SUBSET Tokens, gone : SUBSET Tokens]
      /\ issuer.next \in Nat
  BY KnownTokens DEF TabsRest, StoresTyped
<1>2. /\ issuer' \in [next : 1..MaxTokens + 1, valid : SUBSET Tokens, gone : SUBSET Tokens]
      /\ issuer'.next = issuer.next /\ issuer'.valid = issuer.valid \ gone
      /\ issuer'.gone = issuer.gone \cup gone
  BY <1>1
<1>3. Known' = Known
  BY <1>2 DEF Known
<1>4. StoresTyped'
  BY <1>2 DEF TabsRest, StoresTyped
<1>5. StoresStep
  BY <1>1, <1>2, <1>3, <1>4 DEF StoresStep
<1>6. \A u \in Tabs : TabServed(tab[u], issuer'.valid, issuer'.gone)
  BY <1>2 DEF TabsRest, TabsServed, TabServed
<1> QED
  BY <1>2, <1>5, <1>6

LEMMA RefusedKeeps ==
    ASSUME TabsInv, NEW t \in Tabs, Refused(t)
    PROVE  TabsInv'
<1> DEFINE k == tab[t].flight.token
           gone == {k} \cap issuer.valid
<1>1. /\ tab[t].flight.stage = "asking" /\ Answered(t, "refused", Absent)
      /\ UNCHANGED <<lock, news, owner, person>>
      /\ issuer' = [issuer EXCEPT !.valid = @ \ {k}, !.gone = @ \cup gone]
  BY DEF Refused
<1>2. /\ TabsRest /\ Exclusively /\ FlightSound(tab[t]) /\ TabKnown(tab[t], issuer.next)
      /\ TabOwned(tab[t], person[t], owner)
  BY TabOf DEF TabsInv
<1>3. PICK s \in TabStates :
               /\ tab' = [tab EXCEPT ![t] = s]
               /\ s.kind = tab[t].kind /\ s.who = tab[t].who /\ s.token = tab[t].token
               /\ s.timer = tab[t].timer /\ s.flight.stage = "answered"
               /\ s.flight.answer = "refused" /\ s.flight.token = Absent
               /\ SessionSound(s) /\ FlightSound(s)
  BY <1>1, <1>2, AnsweredIs DEF Held
<1>4. tab' = [u \in Tabs |-> tab'[u]] /\ \A u \in Tabs : tab'[u] = IF u = t THEN s ELSE tab[u]
  BY <1>2, <1>3, OneTab
<1>5. issuer.valid \ {k} = issuer.valid \ gone
  OBVIOUS
<1>6. gone \in SUBSET issuer.valid
  OBVIOUS
<1>7. lock' \in Tabs \cup {Absent}
  BY <1>1, <1>2 DEF TabsRest, StoresTyped
<1>8. /\ StoresStep /\ issuer'.next = issuer.next
      /\ \A u \in Tabs : TabServed(tab[u], issuer'.valid, issuer'.gone)
  <2> HIDE DEF gone
  <2>1. issuer' = [issuer EXCEPT !.valid = @ \ gone, !.gone = @ \cup gone]
    BY <1>1, <1>5
  <2> QED
    BY <1>1, <1>2, <1>4, <1>6, <1>7, <2>1, RetiredKeeps
<1>9. TabStep(t)
  <2>1. TabOwned(s, person'[t], owner') /\ TabKnown(s, issuer'.next)
        /\ TabServed(s, issuer'.valid, issuer'.gone)
    BY <1>1, <1>2, <1>3, <1>8 DEF TabOwned, TabKnown, TabServed
  <2>2. tab[t].flight.answer # "renewed"
    BY <1>1, <1>2 DEF FlightSound
  <2> QED
    BY <1>3, <1>4, <2>1, <2>2 DEF TabStep
<1>10. \A u \in Tabs \ {t} : TabStep(u)
  BY <1>1, <1>2, <1>4, <1>8, Stands
<1>11. TabsRest'
  BY <1>2, <1>8, <1>9, <1>10, QuietStep
<1>12. Exclusively'
  BY <1>1, <1>2, <1>3, <1>4 DEF Exclusively
<1> QED
  BY <1>11, <1>12 DEF TabsInv

LEMMA EndSessionKeeps ==
    ASSUME TabsInv, NEW k \in Tokens, EndSession(k)
    PROVE  TabsInv'
<1>1. /\ UNCHANGED <<tab, lock, news, owner, person>>
      /\ issuer' = [issuer EXCEPT !.valid = @ \ {k}, !.gone = @ \cup {k}]
      /\ {k} \in SUBSET issuer.valid
  BY DEF EndSession
<1>2. TabsRest /\ Exclusively /\ lock' \in Tabs \cup {Absent} /\ tab' = [u \in Tabs |-> tab'[u]]
  BY <1>1 DEF TabsInv, TabsRest, StoresTyped
<1>3. StoresStep /\ \A u \in Tabs : TabServed(tab[u], issuer'.valid, issuer'.gone)
  BY <1>1, <1>2, RetiredKeeps
<1>4. \A u \in Tabs : TabStep(u)
  BY <1>1, <1>2, <1>3, Stands
<1>5. TabsRest'
  BY <1>2, <1>3, <1>4, QuietStep
<1> QED
  BY <1>1, <1>2, <1>5 DEF TabsInv, Exclusively

LEMMA RenewedKeeps ==
    ASSUME TabsInv, NEW t \in Tabs, NEW heard \in BOOLEAN, Renewed(t, heard)
    PROVE  TabsInv'
<1> DEFINE k == tab[t].flight.token
           n == issuer.next
           kind == IF heard THEN "renewed" ELSE "unavailable"
           given == IF heard THEN n ELSE Absent
<1>1. /\ tab[t].flight.stage = "asking" /\ k \in issuer.valid /\ n <= MaxTokens
      /\ issuer' = [issuer EXCEPT !.next = n + 1, !.valid = (@ \ {k}) \cup {n},
                                  !.gone = IF heard THEN @ ELSE @ \cup {k}]
      /\ owner' = [owner EXCEPT ![n] = owner[k]]
      /\ UNCHANGED <<lock, news, person>>
      /\ Answered(t, kind, given)
  BY DEF Renewed
<1>2. /\ TabsRest /\ Exclusively /\ FlightSound(tab[t]) /\ TabKnown(tab[t], issuer.next)
      /\ TabOwned(tab[t], person[t], owner) /\ TabServed(tab[t], issuer.valid, issuer.gone)
  BY TabOf DEF TabsInv
<1>3. /\ issuer \in [next : 1..MaxTokens + 1, valid : SUBSET Tokens, gone : SUBSET Tokens]
      /\ n \in Nat /\ MaxTokens \in Nat /\ n \in Tokens
      /\ k \in Tokens /\ k < n
      /\ \A x \in issuer.valid \cup issuer.gone : x < issuer.next
      /\ issuer.valid \cap issuer.gone = {}
      /\ owner \in [Tokens -> Someone]
  BY <1>1, <1>2, KnownTokens, TabsAssumption DEF TabsRest, StoresTyped, Tokens
<1>4. tab[t].token = k
  BY <1>1, <1>2 DEF TabServed
<1>5. /\ issuer' \in [next : 1..MaxTokens + 1, valid : SUBSET Tokens, gone : SUBSET Tokens]
      /\ issuer'.next = n + 1
      /\ issuer'.valid = (issuer.valid \ {k}) \cup {n}
      /\ issuer'.gone = IF heard THEN issuer.gone ELSE issuer.gone \cup {k}
  <2>1. n + 1 \in 1..MaxTokens + 1 /\ (issuer.valid \ {k}) \cup {n} \in SUBSET Tokens
        /\ issuer.gone \cup {k} \in SUBSET Tokens
    BY <1>1, <1>3
  <2> QED
    BY <1>1, <1>3, <2>1
<1>6. /\ owner' \in [Tokens -> Someone] /\ owner'[n] = owner[k]
      /\ \A x \in Tokens : x < n => owner'[x] = owner[x]
  BY <1>1, <1>3 DEF Tokens
<1>7. kind \in {"renewed", "refused", "unavailable"} /\ given \in Held
  BY <1>3 DEF Held
<1>8. PICK s \in TabStates :
               /\ tab' = [tab EXCEPT ![t] = s]
               /\ s.kind = tab[t].kind /\ s.who = tab[t].who /\ s.token = tab[t].token
               /\ s.timer = tab[t].timer /\ s.flight.stage = "answered"
               /\ s.flight.answer = kind /\ s.flight.token = given
               /\ SessionSound(s)
               /\ (kind = "renewed" => given \in Tokens /\ s.token \in Tokens) => FlightSound(s)
  <2> HIDE DEF kind, given
  <2> QED
    BY <1>1, <1>2, <1>7, AnsweredIs
<1>9. tab' = [u \in Tabs |-> tab'[u]] /\ \A u \in Tabs : tab'[u] = IF u = t THEN s ELSE tab[u]
  BY <1>2, <1>8, OneTab
<1>10. s.flight.answer = "renewed" <=> heard
  BY <1>8
<1>11. SessionSound(s) /\ FlightSound(s)
  BY <1>3, <1>4, <1>8
<1>12. StoresStep
  <2>1. \A x \in issuer'.valid \cup issuer'.gone : x < issuer'.next
    BY <1>3, <1>5 DEF Tokens
  <2>2. issuer'.valid \cap issuer'.gone = {}
    <3>1. n \notin issuer.gone
      BY <1>3
    <3> QED
      BY <1>3, <1>5, <3>1
  <2>3. StoresTyped'
    BY <1>1, <1>2, <1>5, <1>6, <1>9, <2>1, <2>2 DEF TabsRest, StoresTyped
  <2>4. \A x \in Known : x \in Known' \/ (x = k /\ heard)
    BY <1>5 DEF Known
  <2>5. heard => tab'[t].flight.answer = "renewed" /\ tab'[t].token = k
    BY <1>4, <1>8, <1>9, <1>10
  <2>6. \A x \in issuer'.valid : x \in issuer.valid \/ x >= n
    BY <1>3, <1>5
  <2> QED
    BY <1>1, <1>3, <1>5, <1>6, <2>3, <2>4, <2>5, <2>6 DEF StoresStep
<1>13. TabStep(t)
  <2>1. TabOwned(s, person'[t], owner')
    <3>1. k # Absent /\ owner[k] = person[t]
      BY <1>2, <1>3, <1>4, AbsentIsNothing DEF TabOwned
    <3>2. owner'[k] = person[t] /\ owner'[n] = person[t]
      BY <1>3, <1>6, <3>1
    <3> QED
      BY <1>1, <1>2, <1>4, <1>8, <1>10, <3>2 DEF TabOwned
  <2>2. TabKnown(s, issuer'.next)
    BY <1>3, <1>4, <1>5, <1>8 DEF TabKnown, Tokens
  <2>3. TabServed(s, issuer'.valid, issuer'.gone)
    BY <1>3, <1>4, <1>5, <1>8, <1>10 DEF TabServed, Tokens
  <2>4. s.flight.answer = "renewed" =>
          s.flight.token = n /\ \A i \in DOMAIN news[t] : news[t][i].spent # tab[t].token
    BY <1>1, <1>2, <1>4, <1>8, <1>10 DEF TabsRest, NewsSound, NewsHold
  <2>5. tab[t].flight.answer # "renewed"
    BY <1>1, <1>2 DEF FlightSound
  <2> QED
    BY <1>8, <1>9, <1>11, <2>1, <2>2, <2>3, <2>4, <2>5 DEF TabStep
<1>14. \A u \in Tabs \ {t} : TabStep(u)
  <2> TAKE u \in Tabs \ {t}
  <2>1. tab[u].flight.stage \notin {"asking", "answered"}
    BY <1>1, <1>2 DEF Exclusively
  <2>2. tab[u].flight.answer # "renewed"
    BY <1>2, <2>1, TabOf DEF FlightSound
  <2>3. TabServed(tab[u], issuer'.valid, issuer'.gone)
    BY <2>1, <2>2 DEF TabServed
  <2> QED
    BY <1>1, <1>2, <1>9, <1>12, <2>3, Stands
<1>15. TabsRest'
  BY <1>2, <1>12, <1>13, <1>14, QuietStep
<1>16. Exclusively'
  BY <1>1, <1>2, <1>8, <1>9 DEF Exclusively
<1> QED
  BY <1>15, <1>16 DEF TabsInv

\* What came of a renewal that brought nothing.
LEMMA SettledWithout ==
    ASSUME TabsInv, NEW t \in Tabs, Settle(t), tab[t].flight.answer # "renewed"
    PROVE  TabsInv'
<1> DEFINE s == tab[t]
           b == IF s.flight.answer = "refused" THEN Revoked(s) ELSE RetryLater(s)
           l == Landed(b)
<1>1. /\ TabsRest /\ Exclusively /\ SessionSound(s) /\ FlightSound(s) /\ s \in TabStates
      /\ s.flight \in Flights /\ TabKnown(s, issuer.next)
  BY TabOf DEF TabsInv
<1>2. /\ s.flight.stage = "answered" /\ lock' = Absent /\ UNCHANGED <<issuer, owner, person>>
      /\ s.flight.answer \in {"refused", "unavailable"}
  BY <1>1 DEF Settle, FlightSound, Flights
<1>3. tab' = [tab EXCEPT ![t] = l]
  <2>1. CASE s.flight.answer = "refused"
    BY <2>1 DEF Settle, Set
  <2>2. CASE s.flight.answer = "unavailable"
    BY <2>2 DEF Settle, Set
  <2> QED
    BY <1>2, <2>1, <2>2
<1>4. news' = news
  <2>1. news' = [u \in Tabs |-> news[u]]
    BY DEF Settle
  <2>2. news = [u \in Tabs |-> news[u]]
    BY <1>1 DEF TabsRest, StoresTyped
  <2> QED
    BY <2>1, <2>2
<1>5. Rested(b) /\ b.who = s.who /\ b.token \in {s.token, Absent}
  <2>1. CASE s.flight.answer = "refused"
    <3>1. /\ b = Revoked(s)
          /\ Revoked(s) \in TabStates /\ Revoked(s).who = s.who /\ Revoked(s).token = Absent
          /\ Revoked(s).kind = IF s.who = Absent THEN "anonymous" ELSE "expired"
          /\ Revoked(s).timer = "none"
      BY <1>1, <2>1, RevokedIs
    <3> HIDE DEF b
    <3> QED
      BY <1>1, <3>1 DEF Rested, SessionSound
  <2>2. CASE s.flight.answer = "unavailable"
    <3> DEFINE timer == IF s.token = Absent THEN "none" ELSE "retry"
    <3>1. b = [s EXCEPT !.timer = timer]
      BY <2>2 DEF RetryLater
    <3>2. timer \in {"none", "retry"} /\ (timer = "none" <=> s.token = Absent)
      OBVIOUS
    <3> HIDE DEF b, timer
    <3>3. /\ b \in TabStates /\ b.kind = s.kind /\ b.who = s.who /\ b.token = s.token
          /\ b.timer = timer
      BY <1>1, <3>1, <3>2 DEF TabStates
    <3> QED
      BY <1>1, <3>2, <3>3 DEF Rested, SessionSound
  <2> QED
    BY <1>2, <2>1, <2>2
<1> HIDE DEF b
<1>6. SessionSound(l) /\ FlightSound(l) /\ l.flight = NoFlight /\ l.who = b.who /\ l.token = b.token
  BY <1>5, LandedIs
<1> HIDE DEF l
<1>7. l.flight.stage = "none" /\ l.flight.answer = "none" /\ l.flight.token = Absent
  BY <1>6 DEF NoFlight
<1>8. TabKnown(l, issuer.next)
  BY <1>1, <1>5, <1>6, <1>7 DEF TabKnown
<1>9. TabsRest'
  BY <1>1, <1>2, <1>3, <1>4, <1>5, <1>6, <1>7, <1>8, InPlace
<1>10. Exclusively'
  BY <1>1, <1>2, <1>3, <1>7, OneTab, AbsentIsNothing DEF Exclusively
<1> QED
  BY <1>9, <1>10 DEF TabsInv

\* One more announcement at the end.
LEMMA ToldOneMore ==
    ASSUME NEW q \in Seq(Announcements), NEW m \in Announcements
    PROVE  /\ Append(q, m) \in Seq(Announcements)
           /\ DOMAIN Append(q, m) = DOMAIN q \cup {Len(q) + 1}
           /\ Len(q) + 1 \notin DOMAIN q /\ \A i \in DOMAIN q : i < Len(q) + 1
           /\ \A i \in DOMAIN q : Append(q, m)[i] = q[i]
           /\ Append(q, m)[Len(q) + 1] = m
           /\ Len(q) + 1 > 0
OBVIOUS

LEMMA SettledWith ==
    ASSUME TabsInv, NEW t \in Tabs, Settle(t), tab[t].flight.answer = "renewed"
    PROVE  TabsInv'
<1> DEFINE s == tab[t]
           n == tab[t].flight.token
           m == [spent |-> tab[t].token, token |-> tab[t].flight.token]
           a == Active(tab[t], owner[n], n)
           l == Landed(a)
<1>1. /\ TabsRest /\ Exclusively /\ SessionSound(s) /\ FlightSound(s) /\ s \in TabStates
      /\ TabOwned(s, person[t], owner) /\ TabKnown(s, issuer.next)
      /\ TabServed(s, issuer.valid, issuer.gone)
  BY TabOf DEF TabsInv
<1>2. /\ s.flight.stage = "answered" /\ lock' = Absent /\ UNCHANGED <<issuer, owner, person>>
      /\ news' = [u \in Tabs |-> IF u # t THEN Append(news[u], m) ELSE news[u]]
      /\ tab' = [tab EXCEPT ![t] = l]
  BY DEF Settle, Set
<1>3. /\ n \in Tokens /\ s.token \in Tokens /\ s.token # Absent /\ n < issuer.next
      /\ s.token < issuer.next /\ m \in Announcements /\ m.spent = s.token /\ m.token = n
  BY <1>1, KnownTokens, AbsentIsNothing DEF FlightSound, Announcements
<1>4. /\ owner[n] = person[t] /\ owner[s.token] = person[t] /\ person[t] # Absent
      /\ person[t] \in Someone /\ s.who = person[t]
  BY <1>1, <1>3 DEF TabOwned, SessionSound, TabsRest, StoresTyped
<1>5. n \in issuer.valid \cup issuer.gone /\ s.token \notin issuer.valid
  BY <1>1 DEF TabServed
<1>6. /\ a \in TabStates /\ a.kind = "active" /\ a.who = person[t] /\ a.token = n
      /\ a.timer # "none"
  BY <1>1, <1>3, <1>4, ActiveIs, AbsentIsNothing DEF Held
<1> HIDE DEF a
<1>7. Rested(a)
  BY <1>3, <1>4, <1>6, AbsentIsNothing DEF Rested
<1>8. SessionSound(l) /\ FlightSound(l) /\ l.flight = NoFlight /\ l.who = person[t] /\ l.token = n
  BY <1>6, <1>7, LandedIs
<1> HIDE DEF l
<1>9. l.flight.stage = "none" /\ l.flight.answer = "none" /\ l.flight.token = Absent
  BY <1>8 DEF NoFlight
<1>10. tab' = [u \in Tabs |-> tab'[u]] /\ \A u \in Tabs : tab'[u] = IF u = t THEN l ELSE tab[u]
  BY <1>1, <1>2, OneTab
<1>11. \A u \in Tabs \ {t} : tab[u].flight.stage \notin {"asking", "answered"}
                             /\ tab[u].flight.answer # "renewed"
  BY <1>1, <1>2, TabOf DEF Exclusively, FlightSound
<1>12. \A u \in Tabs : tab'[u].flight.answer # "renewed"
  BY <1>9, <1>10, <1>11
<1>13. \A u \in Tabs : news[u] \in Seq(Announcements)
  BY <1>1 DEF TabsRest, StoresTyped
<1>14. /\ news'[t] = news[t]
       /\ \A u \in Tabs \ {t} : news'[u] = Append(news[u], m)
  BY <1>2
<1> HIDE DEF m, n
<1>15. StoresTyped'
  <2>1. news' \in [Tabs -> Seq(Announcements)]
    BY <1>2, <1>3, <1>13
  <2> QED
    BY <1>1, <1>2, <1>10, <2>1 DEF TabsRest, StoresTyped
<1>16. Exclusively'
  BY <1>2, <1>9, <1>10, <1>11, AbsentIsNothing DEF Exclusively
<1>17. TabsSound' /\ TabsOwned' /\ TabsKnown' /\ TabsServed'
  <2>1. TabOwned(l, person[t], owner)
    BY <1>4, <1>8, <1>9 DEF TabOwned
  <2>2. TabKnown(l, issuer.next) /\ TabServed(l, issuer.valid, issuer.gone)
    BY <1>3, <1>8, <1>9 DEF TabKnown, TabServed
  <2> QED
    BY <1>1, <1>2, <1>8, <1>10, <2>1, <2>2 DEF TabsRest, TabsSound, TabsOwned, TabsKnown, TabsServed
<1>18. \A u \in Tabs :
         /\ tab[u].token # n
         /\ \A i \in DOMAIN news[u] : news[u][i].token # n
  BY <1>1 DEF TabsRest, AnswersFresh, n
<1>19. NewsSound'
  <2> SUFFICES ASSUME NEW u \in Tabs
               PROVE  NewsHold(news'[u], tab'[u].token, owner, issuer.next, issuer.valid)
    BY <1>2 DEF NewsSound
  <2>1. NewsHold(news[u], tab[u].token, owner, issuer.next, issuer.valid)
    BY <1>1 DEF TabsRest, NewsSound
  <2>2. CASE u = t
    BY <1>8, <1>10, <1>14, <1>18, <2>1, <2>2 DEF NewsHold
  <2>3. CASE u # t
    <3> DEFINE q == news[u]
               r == news'[u]
    <3>1. /\ DOMAIN r = DOMAIN q \cup {Len(q) + 1}
          /\ \A i \in DOMAIN q : r[i] = q[i]
          /\ r[Len(q) + 1] = m
      BY <1>3, <1>13, <1>14, <2>3, ToldOneMore
    <3>2. tab'[u].token = tab[u].token
      BY <1>10, <2>3
    <3>3. \A i \in DOMAIN r :
            /\ r[i].spent < issuer.next /\ r[i].token < issuer.next /\ r[i].spent \notin issuer.valid
            /\ owner[r[i].token] = owner[r[i].spent]
            /\ r[i].token # tab[u].token
      BY <1>3, <1>4, <1>5, <1>18, <2>1, <3>1 DEF NewsHold
    <3>4. \A i, j \in DOMAIN r : r[i].token = r[j].token => i = j
      BY <1>3, <1>18, <2>1, <3>1 DEF NewsHold
    <3> QED
      BY <3>2, <3>3, <3>4 DEF NewsHold
  <2> QED
    BY <2>2, <2>3
<1>20. AnswersFresh'
  BY <1>12 DEF AnswersFresh
<1>21. TokensLive'
  <2>1. Known' = Known /\ n \in Known
    BY <1>2, <1>5 DEF Known, n
  <2>2. \A u \in Tabs : tab[u].flight.answer = "renewed" => u = t
    BY <1>11
  <2>3. \A u \in Tabs \ {t} :
          /\ DOMAIN news'[u] = DOMAIN news[u] \cup {Len(news[u]) + 1}
          /\ \A i \in DOMAIN news[u] : i < Len(news[u]) + 1 /\ news'[u][i] = news[u][i]
          /\ news'[u][Len(news[u]) + 1] = m /\ Len(news[u]) + 1 > 0
    BY <1>3, <1>13, <1>14, ToldOneMore
  <2>4. ASSUME NEW u \in Tabs \ {t}, NEW k, NEW i \in DOMAIN news[u] \cup {0},
               Live(k, news[u], i, Known, tab)
        PROVE  Live(k, news'[u], i, Known, tab')
    BY <1>3, <2>2, <2>3, <2>4 DEF Live
  <2>5. ASSUME NEW u \in Tabs \ {t}, tab'[u].token # Absent
        PROVE  Live(tab'[u].token, news'[u], 0, Known, tab')
    BY <1>1, <1>10, <2>4, <2>5 DEF TabsRest, TokensLive
  <2>6. ASSUME NEW u \in Tabs \ {t}, NEW i \in DOMAIN news'[u]
        PROVE  Live(news'[u][i].token, news'[u], i, Known, tab')
    <3>1. CASE i \in DOMAIN news[u]
      BY <1>1, <2>3, <2>4, <3>1 DEF TabsRest, TokensLive
    <3>2. CASE i = Len(news[u]) + 1
      BY <1>3, <2>1, <2>3, <3>2 DEF Live
    <3> QED
      BY <2>3, <2>6, <3>1, <3>2
  <2>7. Live(tab'[t].token, news'[t], 0, Known, tab')
    BY <1>8, <1>10, <2>1 DEF Live
  <2>8. ASSUME NEW i \in DOMAIN news'[t]
        PROVE  Live(news'[t][i].token, news'[t], i, Known, tab')
    <3>1. i \in DOMAIN news[t] /\ Live(news[t][i].token, news[t], i, Known, tab)
      BY <1>1, <1>14, <2>8 DEF TabsRest, TokensLive
    <3>2. news[t][i].token # tab[t].token
      BY <1>1, <3>1 DEF TabsRest, NewsSound, NewsHold
    <3> QED
      BY <1>14, <2>2, <3>1, <3>2 DEF Live
  <2> QED
    BY <2>1, <2>5, <2>6, <2>7, <2>8 DEF TokensLive
<1> QED
  BY <1>15, <1>16, <1>17, <1>19, <1>20, <1>21 DEF TabsInv, TabsRest

\* The first announcement is heard.
LEMMA ToldOneLess ==
    ASSUME NEW q \in Seq(Announcements), q # <<>>
    PROVE  /\ Tail(q) \in Seq(Announcements) /\ Head(q) = q[1] /\ 1 \in DOMAIN q
           /\ Head(q) \in Announcements
           /\ \A i \in DOMAIN Tail(q) : i + 1 \in DOMAIN q /\ Tail(q)[i] = q[i + 1] /\ i \in Nat /\ i > 0
           /\ \A i \in DOMAIN q : i \in Nat /\ i >= 1 /\ (i > 1 => i - 1 \in DOMAIN Tail(q))
OBVIOUS

LEMMA LiveAfterHead ==
    ASSUME NEW q \in Seq(Announcements), q # <<>>, NEW k, NEW i \in Nat, i >= 1, NEW known, NEW tabs,
           Live(k, q, i, known, tabs)
    PROVE  Live(k, Tail(q), i - 1, known, tabs)
<1>1. CASE \E j \in DOMAIN q : j > i /\ q[j].spent = k
  <2>1. PICK j \in DOMAIN q : j > i /\ q[j].spent = k
    BY <1>1
  <2>2. j \in Nat /\ j - 1 \in DOMAIN Tail(q) /\ j - 1 > i - 1 /\ Tail(q)[j - 1] = q[j]
    <3>1. j \in Nat /\ j - 1 \in DOMAIN Tail(q)
      BY <2>1, ToldOneLess
    <3>2. Tail(q)[j - 1] = q[(j - 1) + 1]
      BY <3>1, ToldOneLess
    <3>3. (j - 1) + 1 = j /\ j - 1 > i - 1
      BY <2>1, <3>1
    <3> QED
      BY <3>1, <3>2, <3>3
  <2> QED
    BY <2>1, <2>2 DEF Live
<1> QED
  BY <1>1 DEF Live

LEMMA HearKeeps ==
    ASSUME TabsInv, NEW t \in Tabs, Hear(t)
    PROVE  TabsInv'
<1> DEFINE m == Head(news[t])
           s == IF Adopts(tab[t], m.spent) THEN Active(tab[t], owner[m.token], m.token) ELSE tab[t]
<1>1. /\ news[t] # <<>> /\ news' = [news EXCEPT ![t] = Tail(news[t])]
      /\ tab' = [tab EXCEPT ![t] = s]
      /\ UNCHANGED <<lock, issuer, owner, person>>
  BY DEF Hear, Set
<1>2. /\ TabsRest /\ Exclusively /\ SessionSound(tab[t]) /\ FlightSound(tab[t]) /\ tab[t] \in TabStates
      /\ TabOwned(tab[t], person[t], owner) /\ TabKnown(tab[t], issuer.next)
      /\ TabServed(tab[t], issuer.valid, issuer.gone)
      /\ NewsHold(news[t], tab[t].token, owner, issuer.next, issuer.valid)
  BY TabOf DEF TabsInv, TabsRest, NewsSound
<1>3. /\ news[t] \in Seq(Announcements) /\ news \in [Tabs -> Seq(Announcements)]
      /\ Tail(news[t]) \in Seq(Announcements) /\ m = news[t][1] /\ 1 \in DOMAIN news[t]
      /\ m \in Announcements
  BY <1>1, <1>2, ToldOneLess DEF TabsRest, StoresTyped
<1>4. \A i \in DOMAIN Tail(news[t]) :
        i + 1 \in DOMAIN news[t] /\ Tail(news[t])[i] = news[t][i + 1] /\ i \in Nat /\ i > 0
  BY <1>1, <1>3, ToldOneLess
<1>5. \A u \in Tabs : news'[u] = IF u = t THEN Tail(news[t]) ELSE news[u]
  BY <1>1, <1>3
<1>6. /\ m.token \in Tokens /\ m.spent \in Tokens /\ m.token < issuer.next
      /\ owner[m.token] = owner[m.spent] /\ m.spent \notin issuer.valid
  BY <1>2, <1>3 DEF NewsHold, Announcements
<1>7. /\ SessionSound(s) /\ FlightSound(s) /\ s.flight = tab[t].flight
      /\ TabOwned(s, person[t], owner) /\ TabKnown(s, issuer.next)
      /\ TabServed(s, issuer.valid, issuer.gone)
      /\ tab[t].flight.answer = "renewed" => s = tab[t]
      /\ (s.token = tab[t].token /\ tab[t].token # m.spent) \/ (s.token = m.token /\ tab[t].token = m.spent)
  <2>1. CASE tab[t].token = m.spent
    <3> DEFINE a == Active(tab[t], owner[m.token], m.token)
    <3>1. s = a
      BY <2>1 DEF Adopts
    <3>2. tab[t].token \in Tokens /\ tab[t].token # Absent
      BY <1>6, <2>1, AbsentIsNothing
    <3>3. tab[t].who # Absent /\ tab[t].who = person[t] /\ owner[m.token] = person[t] /\ person[t] \in Someone
      BY <1>2, <1>6, <2>1, <3>2 DEF SessionSound, TabOwned, TabsRest, StoresTyped
    <3>4. /\ a \in TabStates /\ a.kind = "active" /\ a.who = person[t] /\ a.token = m.token
          /\ a.flight = tab[t].flight /\ (a.timer = "none" <=> m.token = Absent)
      BY <1>2, <1>6, <3>3, ActiveIs DEF Held
    <3> HIDE DEF a, m
    <3>5. tab[t].flight.answer # "renewed"
      BY <1>2, <1>3, <2>1 DEF TabsRest, AnswersFresh
    <3>6. SessionSound(a) /\ FlightSound(a)
      BY <1>2, <1>6, <3>2, <3>3, <3>4, AbsentIsNothing DEF SessionSound, FlightSound
    <3>7. TabOwned(a, person[t], owner) /\ TabKnown(a, issuer.next)
      BY <1>2, <1>6, <3>3, <3>4, <3>5 DEF TabOwned, TabKnown
    <3>8. TabServed(a, issuer.valid, issuer.gone)
      BY <1>2, <1>6, <2>1, <3>4, <3>5 DEF TabServed
    <3> QED
      BY <2>1, <3>1, <3>4, <3>5, <3>6, <3>7, <3>8
  <2>2. CASE tab[t].token # m.spent
    BY <1>2, <2>2 DEF Adopts
  <2> QED
    BY <2>1, <2>2
<1> HIDE DEF s, m
<1>8. tab' = [u \in Tabs |-> tab'[u]] /\ \A u \in Tabs : tab'[u] = IF u = t THEN s ELSE tab[u]
  BY <1>1, <1>2, OneTab
<1>9. StoresTyped'
  <2>1. news' \in [Tabs -> Seq(Announcements)]
    BY <1>1, <1>3
  <2> QED
    BY <1>1, <1>2, <1>8, <2>1 DEF TabsRest, StoresTyped
<1>10. Exclusively'
  BY <1>1, <1>2, <1>7, <1>8 DEF Exclusively
<1>11. TabsSound' /\ TabsOwned' /\ TabsKnown' /\ TabsServed'
  BY <1>1, <1>2, <1>7, <1>8 DEF TabsRest, TabsSound, TabsOwned, TabsKnown, TabsServed
<1>12. \A i, j \in DOMAIN news[t] : news[t][i].token = news[t][j].token => i = j
  BY <1>2 DEF NewsHold
<1>13. NewsSound'
  <2>1. NewsHold(Tail(news[t]), s.token, owner, issuer.next, issuer.valid)
    <3> DEFINE q == Tail(news[t])
    <3>1. \A i \in DOMAIN q :
            /\ q[i].spent < issuer.next /\ q[i].token < issuer.next /\ q[i].spent \notin issuer.valid
            /\ owner[q[i].token] = owner[q[i].spent]
            /\ q[i].token # tab[t].token
      BY <1>2, <1>4 DEF NewsHold
    <3>2. \A i \in DOMAIN q : q[i].token # m.token
      BY <1>3, <1>4, <1>12
    <3>3. \A i, j \in DOMAIN q : q[i].token = q[j].token => i = j
      <4> SUFFICES ASSUME NEW i \in DOMAIN q, NEW j \in DOMAIN q, q[i].token = q[j].token
                   PROVE  i = j
        OBVIOUS
      <4>1. i + 1 \in DOMAIN news[t] /\ j + 1 \in DOMAIN news[t] /\ i \in Nat /\ j \in Nat
            /\ news[t][i + 1].token = news[t][j + 1].token
        BY <1>4
      <4>2. i + 1 = j + 1
        BY <1>12, <4>1
      <4> QED
        BY <4>1, <4>2
    <3>4. \A i \in DOMAIN q : q[i].token # s.token
      BY <1>7, <3>1, <3>2
    <3> HIDE DEF q
    <3>5. NewsHold(q, s.token, owner, issuer.next, issuer.valid)
      BY <3>1, <3>3, <3>4 DEF NewsHold
    <3> QED
      BY <3>5 DEF q
  <2> QED
    BY <1>1, <1>2, <1>5, <1>8, <2>1 DEF TabsRest, NewsSound
<1>14. AnswersFresh'
  <2> SUFFICES ASSUME NEW u \in Tabs, tab'[u].flight.answer = "renewed"
               PROVE  /\ \A v \in Tabs :
                           /\ tab'[v].token # tab'[u].flight.token
                           /\ \A i \in DOMAIN news'[v] : news'[v][i].token # tab'[u].flight.token
                      /\ \A i \in DOMAIN news'[u] : news'[u][i].spent # tab'[u].token
    BY DEF AnswersFresh
  <2>1. tab[u].flight.answer = "renewed" /\ tab'[u] = tab[u]
    BY <1>7, <1>8
  <2>2. /\ \A v \in Tabs :
             /\ tab[v].token # tab[u].flight.token
             /\ \A i \in DOMAIN news[v] : news[v][i].token # tab[u].flight.token
        /\ \A i \in DOMAIN news[u] : news[u][i].spent # tab[u].token
    BY <1>2, <2>1 DEF TabsRest, AnswersFresh
  <2>3. \A v \in Tabs : \A i \in DOMAIN news'[v] : \E j \in DOMAIN news[v] : news'[v][i] = news[v][j]
    BY <1>4, <1>5
  <2>4. s.token # tab[u].flight.token
    BY <1>3, <1>7, <2>2
  <2> QED
    BY <1>8, <2>1, <2>2, <2>3, <2>4
<1>15. TokensLive'
  <2>1. Known' = Known
    BY <1>1 DEF Known
  <2>2. \A u \in Tabs : tab[u].flight.answer = "renewed" => tab'[u] = tab[u]
    BY <1>7, <1>8
  <2>3. \A k, q, i : Live(k, q, i, Known, tab) => Live(k, q, i, Known, tab')
    BY <2>2 DEF Live
  <2>4. ASSUME NEW u \in Tabs \ {t}
        PROVE  /\ tab'[u].token # Absent => Live(tab'[u].token, news'[u], 0, Known, tab')
               /\ \A i \in DOMAIN news'[u] : Live(news'[u][i].token, news'[u], i, Known, tab')
    BY <1>2, <1>5, <1>8, <2>3 DEF TabsRest, TokensLive
  <2>5. ASSUME NEW i \in DOMAIN Tail(news[t])
        PROVE  Live(Tail(news[t])[i].token, Tail(news[t]), i, Known, tab')
    <3>1. /\ i + 1 \in DOMAIN news[t] /\ Tail(news[t])[i] = news[t][i + 1] /\ i \in Nat
          /\ Live(news[t][i + 1].token, news[t], i + 1, Known, tab)
      BY <1>2, <1>4, <2>5 DEF TabsRest, TokensLive
    <3>2. Live(news[t][i + 1].token, Tail(news[t]), (i + 1) - 1, Known, tab)
      BY <1>1, <1>3, <3>1, LiveAfterHead
    <3>3. (i + 1) - 1 = i
      BY <3>1
    <3> QED
      BY <2>3, <3>1, <3>2, <3>3
  <2>6. ASSUME s.token # Absent
        PROVE  Live(s.token, Tail(news[t]), 0, Known, tab')
    <3>1. CASE s.token = m.token
      <4>1. Live(m.token, news[t], 1, Known, tab)
        BY <1>2, <1>3 DEF TabsRest, TokensLive
      <4>2. Live(m.token, Tail(news[t]), 1 - 1, Known, tab)
        BY <1>1, <1>3, <4>1, LiveAfterHead
      <4> QED
        BY <2>3, <3>1, <4>2
    <3>2. CASE s.token = tab[t].token /\ tab[t].token # m.spent
      <4>1. Live(s.token, news[t], 0, Known, tab)
        BY <1>2, <2>6, <3>2 DEF TabsRest, TokensLive
      <4>2. \A j \in DOMAIN news[t] : news[t][j].spent = s.token => j > 1
        BY <1>1, <1>3, <3>2, ToldOneLess
      <4>3. Live(s.token, news[t], 1, Known, tab)
        BY <4>1, <4>2 DEF Live
      <4>4. Live(s.token, Tail(news[t]), 1 - 1, Known, tab)
        BY <1>1, <1>3, <4>3, LiveAfterHead
      <4> QED
        BY <2>3, <4>4
    <3> QED
      BY <1>7, <3>1, <3>2
  <2> QED
    BY <1>5, <1>8, <2>1, <2>4, <2>5, <2>6 DEF TokensLive
<1> QED
  BY <1>9, <1>10, <1>11, <1>13, <1>14, <1>15 DEF TabsInv, TabsRest

\* A page takes over what a tab's storage holds, its own or another's.
LEMMA ReopenKeeps ==
    ASSUME TabsInv, NEW t \in Tabs, NEW u \in Tabs, Reopen(t, u)
    PROVE  TabsInv'
<1> DEFINE s == Restored(tab[t])
           k == tab[u].token
           lost == IF tab[u].flight.answer = "renewed" THEN {k} ELSE {}
<1>1. /\ t # u => tab[t].token \in issuer.valid \cup {Absent}
      /\ tab' = [tab EXCEPT ![u] = s]
      /\ person' = [person EXCEPT ![u] = person[t]]
      /\ lock' = IF lock = u THEN Absent ELSE lock
      /\ news' = IF t = u THEN news ELSE [news EXCEPT ![u] = <<>>]
      /\ issuer' = IF tab[u].flight.answer = "renewed" THEN [issuer EXCEPT !.gone = @ \cup {k}]
                                                     ELSE issuer
      /\ owner' = owner
  BY DEF Reopen, Set
<1>2. /\ TabsRest /\ Exclusively /\ SessionSound(tab[t]) /\ FlightSound(tab[u])
      /\ TabOwned(tab[t], person[t], owner) /\ TabKnown(tab[t], issuer.next)
      /\ TabServed(tab[u], issuer.valid, issuer.gone)
  BY TabOf DEF TabsInv
<1>3. /\ SessionSound(s) /\ FlightSound(s) /\ s.flight = NoFlight /\ s.who \in {tab[t].who, Absent}
      /\ s.token = tab[t].token
  BY <1>2, RestoredIs
<1> HIDE DEF s
<1>4. s.flight.stage = "none" /\ s.flight.answer = "none" /\ s.flight.token = Absent
  BY <1>3 DEF NoFlight
<1>5. tab' = [v \in Tabs |-> tab'[v]] /\ \A v \in Tabs : tab'[v] = IF v = u THEN s ELSE tab[v]
  BY <1>1, <1>2, OneTab
<1>6. /\ issuer \in [next : 1..MaxTokens + 1, valid : SUBSET Tokens, gone : SUBSET Tokens]
      /\ \A x \in issuer.valid \cup issuer.gone : x < issuer.next
      /\ issuer.valid \cap issuer.gone = {}
      /\ person \in [Tabs -> Someone] /\ news \in [Tabs -> Seq(Announcements)]
      /\ issuer.next \in Nat
  BY <1>2, KnownTokens DEF TabsRest, StoresTyped
<1>7. lost \subseteq Tokens /\ \A x \in lost : x < issuer.next /\ x \notin issuer.valid
  BY <1>2, KnownTokens, AbsentIsNothing DEF TabServed
<1>8. /\ issuer' \in [next : 1..MaxTokens + 1, valid : SUBSET Tokens, gone : SUBSET Tokens]
      /\ issuer'.next = issuer.next /\ issuer'.valid = issuer.valid
      /\ issuer'.gone = issuer.gone \cup lost
  <2>1. CASE tab[u].flight.answer = "renewed"
    <3>1. k \in Tokens
      BY <1>7, <2>1
    <3>2. issuer.gone \cup {k} \in SUBSET Tokens
      BY <1>6, <3>1
    <3> QED
      BY <1>1, <1>6, <2>1, <3>2
  <2>2. CASE tab[u].flight.answer # "renewed"
    BY <1>1, <1>6, <2>2
  <2> QED
    BY <2>1, <2>2
<1>9. /\ person' \in [Tabs -> Someone] /\ person'[u] = person[t]
      /\ \A v \in Tabs \ {u} : person'[v] = person[v]
  BY <1>1, <1>6
<1>10. /\ news' \in [Tabs -> Seq(Announcements)]
       /\ t = u => news' = news
       /\ t # u => news'[u] = <<>> /\ \A v \in Tabs \ {u} : news'[v] = news[v]
  <2>1. CASE t = u
    BY <1>1, <1>6, <2>1
  <2>2. CASE t # u
    <3>1. news' = [news EXCEPT ![u] = <<>>] /\ <<>> \in Seq(Announcements)
      BY <1>1, <2>2
    <3> QED
      BY <1>6, <2>2, <3>1
  <2> QED
    BY <2>1, <2>2
<1>11. StoresTyped'
  <2>1. lock' \in Tabs \cup {Absent}
    BY <1>1, <1>2 DEF TabsRest, StoresTyped
  <2>2. \A x \in issuer'.valid \cup issuer'.gone : x < issuer'.next
    BY <1>6, <1>7, <1>8
  <2>3. issuer'.valid \cap issuer'.gone = {}
    BY <1>6, <1>7, <1>8
  <2> QED
    BY <1>1, <1>2, <1>5, <1>8, <1>9, <1>10, <2>1, <2>2, <2>3 DEF TabsRest, StoresTyped
<1>12. Exclusively'
  BY <1>1, <1>2, <1>4, <1>5, AbsentIsNothing DEF Exclusively
<1>13. \A v \in Tabs : TabServed(tab[v], issuer'.valid, issuer'.gone)
  BY <1>2, <1>8 DEF TabsRest, TabsServed, TabServed
<1>14. /\ TabOwned(s, person'[u], owner) /\ TabKnown(s, issuer.next)
       /\ TabServed(s, issuer'.valid, issuer'.gone)
  BY <1>2, <1>3, <1>4, <1>9 DEF TabOwned, TabKnown, TabServed
<1>15. \A x \in Known : x \in Known'
  BY <1>8 DEF Known
<1>16. tab[u].flight.answer = "renewed" => tab[u].token \in issuer'.gone
  BY <1>8
<1> HIDE DEF lost
<1>17. CASE t = u
  <2>1. StoresStep
    BY <1>1, <1>6, <1>8, <1>10, <1>11, <1>15, <1>17 DEF StoresStep
  <2>2. TabStep(u)
    BY <1>1, <1>3, <1>4, <1>5, <1>8, <1>14, <1>16, <1>17 DEF TabStep
  <2>3. \A v \in Tabs \ {u} : TabStep(v)
    BY <1>2, <1>5, <1>9, <1>13, <2>1, Stands
  <2>4. TabsRest'
    BY <1>2, <2>1, <2>2, <2>3, QuietStep
  <2> QED
    BY <1>12, <2>4 DEF TabsInv
<1>18. CASE t # u
  <2>1. TabsSound' /\ TabsOwned' /\ TabsKnown' /\ TabsServed'
    BY <1>1, <1>2, <1>3, <1>5, <1>8, <1>9, <1>13, <1>14
       DEF TabsRest, TabsSound, TabsOwned, TabsKnown, TabsServed
  <2>2. NewsSound'
    <3>1. NewsHold(<<>>, s.token, owner, issuer.next, issuer.valid)
      BY DEF NewsHold
    <3> QED
      BY <1>1, <1>2, <1>5, <1>8, <1>10, <1>18, <3>1 DEF TabsRest, NewsSound
  <2>3. AnswersFresh'
    <3> SUFFICES ASSUME NEW v \in Tabs, tab'[v].flight.answer = "renewed"
                 PROVE  /\ \A w \in Tabs :
                             /\ tab'[w].token # tab'[v].flight.token
                             /\ \A i \in DOMAIN news'[w] : news'[w][i].token # tab'[v].flight.token
                        /\ \A i \in DOMAIN news'[v] : news'[v][i].spent # tab'[v].token
      BY DEF AnswersFresh
    <3>1. v # u /\ tab'[v] = tab[v] /\ tab[v].flight.answer = "renewed"
      BY <1>4, <1>5
    <3>2. /\ \A w \in Tabs :
               /\ tab[w].token # tab[v].flight.token
               /\ \A i \in DOMAIN news[w] : news[w][i].token # tab[v].flight.token
          /\ \A i \in DOMAIN news[v] : news[v][i].spent # tab[v].token
      BY <1>2, <3>1 DEF TabsRest, AnswersFresh
    <3>3. \A w \in Tabs : tab'[w].token # tab[v].flight.token
      BY <1>3, <1>5, <3>2
    <3>4. \A w \in Tabs : \A i \in DOMAIN news'[w] : news'[w][i].token # tab[v].flight.token
      <4> TAKE w \in Tabs
      <4>1. CASE w = u
        BY <1>10, <1>18, <4>1
      <4>2. CASE w # u
        BY <1>10, <1>18, <3>2, <4>2
      <4> QED
        BY <4>1, <4>2
    <3>5. \A i \in DOMAIN news'[v] : news'[v][i].spent # tab[v].token
      BY <1>10, <1>18, <3>1, <3>2
    <3> QED
      BY <3>1, <3>3, <3>4, <3>5
  <2>4. TokensLive'
    <3>1. \A v \in Tabs : tab[v].flight.answer = "renewed" =>
            \/ tab'[v].flight.answer = "renewed" /\ tab'[v].token = tab[v].token
            \/ tab[v].token \in Known'
      BY <1>5, <1>16 DEF Known
    <3>2. \A x, q, i : Live(x, q, i, Known, tab) => Live(x, q, i, Known', tab')
      BY <1>15, <3>1, LiveLater
    <3>3. ASSUME NEW v \in Tabs \ {u}
          PROVE  /\ tab'[v].token # Absent => Live(tab'[v].token, news'[v], 0, Known', tab')
                 /\ \A i \in DOMAIN news'[v] : Live(news'[v][i].token, news'[v], i, Known', tab')
      BY <1>2, <1>5, <1>10, <1>18, <3>2 DEF TabsRest, TokensLive
    <3>4. s.token # Absent => Live(s.token, news'[u], 0, Known', tab')
      BY <1>1, <1>3, <1>8, <1>18 DEF Live, Known
    <3>5. \A i \in DOMAIN news'[u] : Live(news'[u][i].token, news'[u], i, Known', tab')
      BY <1>10, <1>18
    <3> QED
      BY <1>5, <3>3, <3>4, <3>5 DEF TokensLive
  <2> QED
    BY <1>11, <1>12, <2>1, <2>2, <2>3, <2>4 DEF TabsInv, TabsRest
<1> QED
  BY <1>17, <1>18

LEMMA TabsStep == ASSUME Patient, TabsInv, [TabsNext]_tabVars PROVE TabsInv'
<1>1. CASE TabsNext
  <2>1. ASSUME NEW t \in Tabs, Settle(t)
        PROVE  TabsInv'
    BY <2>1, SettledWith, SettledWithout
  <2> QED
    BY <1>1, <2>1, SignInKeeps, SignOutKeeps, AgeKeeps, FireKeeps, VisitKeeps, HearKeeps,
       ApiRefusesKeeps, AcquireKeeps, RefusedKeeps, UnansweredKeeps, RenewedKeeps, ReopenKeeps,
       EndSessionKeeps DEF TabsNext
<1>2. CASE UNCHANGED tabVars
  BY <1>2 DEF tabVars, TabsInv, TabsRest, StoresTyped, Exclusively, TabsSound, TabsOwned,
     TabsKnown, TabsServed, NewsSound, AnswersFresh, TokensLive, Known
<1> QED
  BY <1>1, <1>2

LEMMA TabsInvImplies == TabsInv => TabsStaySignedIn
<1> SUFFICES ASSUME TabsInv PROVE TabsStaySignedIn
  OBVIOUS
<1>1. TabsTypeOK
  <2>1. \A t \in Tabs :
          /\ tab[t].kind \in {"anonymous", "active", "expired"}
          /\ (tab[t].kind = "anonymous") <=> (tab[t].who = Absent)
          /\ tab[t].kind = "anonymous" => tab[t].token = Absent
          /\ tab[t].timer # "none" => tab[t].token # Absent
    BY DEF TabsInv, TabsRest, TabsSound, SessionSound, TabStates
  <2> QED
    BY <2>1 DEF TabsTypeOK, TabsInv, TabsRest, StoresTyped, Exclusively
<1>2. HeldTokensAreLive
  <2> SUFFICES ASSUME NEW t \in Tabs, tab[t].token # Absent
               PROVE  \/ tab[t].token \in issuer.valid \cup issuer.gone
                      \/ \E i \in DOMAIN news[t] : news[t][i].spent = tab[t].token
                      \/ \E u \in Tabs : /\ tab[u].flight.answer = "renewed"
                                         /\ tab[u].token = tab[t].token
    BY DEF HeldTokensAreLive
  <2>1. Live(tab[t].token, news[t], 0, Known, tab)
    BY DEF TabsInv, TabsRest, TokensLive
  <2> QED
    BY <2>1 DEF Live, Known
<1>3. OwnCredential
  BY DEF OwnCredential, TabsInv, TabsRest, TabsOwned, TabOwned
<1>4. LapsesAreRetried
  BY DEF LapsesAreRetried, TabsInv, TabsRest, TabsSound, SessionSound
<1> QED
  BY <1>1, <1>2, <1>3, <1>4 DEF TabsStaySignedIn

\* Every tab of a browser holds the token the issuer will take, or is about to be told
\* of it, unless the issuer ended the session or its answer was lost; it is its own
\* person's; and a session that lapsed is renewed or has a timer set: however many
\* tabs renew, reload and are duplicated, as long as nobody signs in or out while
\* their tab is renewing.
THEOREM TabsRemainSignedIn == ASSUME Patient PROVE TabsSpec => []TabsStaySignedIn
<1>1. TabsInit => TabsInv
  BY TabsInitHolds
<1>2. TabsInv /\ [TabsNext]_tabVars => TabsInv'
  BY TabsStep
<1>3. TabsInv => TabsStaySignedIn
  BY TabsInvImplies
<1> QED
  BY <1>1, <1>2, <1>3, PTL DEF TabsSpec

=============================================================================
