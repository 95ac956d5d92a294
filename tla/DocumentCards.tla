--------------------------- MODULE DocumentCards ---------------------------
(***************************************************************************)
(* The cards that show linked documents, resolved with the viewer's own    *)
(* authority and kept a while.  One process lists for one viewer at a time *)
(* and time passes while the platform answers.  Ages stop at Longest,      *)
(* which stands for any longer.                                            *)
(***************************************************************************)
EXTENDS Integers, FiniteSets

CONSTANTS
    Viewers, Linked,
    Ttl,            \* DEFAULT_CARD_TTL
    Slow            \* how long one listing may take

ASSUME CardsAssumption == Ttl \in Nat \ {0} /\ Slow \in 0..(Ttl - 1)

VARIABLES
    rights,     \* SUBSET (Viewers \X Linked): who may read what, on the platform
    barred,     \* [Viewers \X Linked -> Ages]: since when each may not
    title,      \* [Linked -> Ages]: since when the document has its title
    cards,      \* the cache, by key: [age, titled] of a readable card
    listing,    \* the listing under way
    shown       \* what a viewer was last shown of a document

cardVars == <<rights, barred, title, cards, listing, shown>>

Longest == Ttl + Slow + 1
CardAges == 0..Longest
Aged(age) == IF age = Longest THEN Longest ELSE age + 1
Pairs == Viewers \X Linked
NoListing == [stage |-> "none", for |-> 0]
NotShown == [state |-> "none"]

CardsTypeOK ==
    /\ rights \subseteq Pairs /\ barred \in [Pairs -> CardAges] /\ title \in [Linked -> CardAges]
    /\ DOMAIN cards \subseteq Pairs /\ \A k \in DOMAIN cards : cards[k].age \in CardAges
    /\ listing.stage \in {"none", "asking", "answered"} /\ listing.for \in 0..Slow
    /\ shown.state \in {"none", "readable", "unreachable", "missing", "forbidden"}

CardsInit ==
    /\ rights = Pairs /\ barred = [p \in Pairs |-> 0] /\ title = [d \in Linked |-> Longest]
    /\ cards = <<>> /\ listing = NoListing /\ shown = NotShown

-----------------------------------------------------------------------------
\* Mutant of CardKey: a card is kept by its document.
CardKeyOf(v, d) == d

\* _key
CardKey(v, d) == <<v, d>>

Kept(v, d) == CardKey(v, d) \in DOMAIN cards

\* Mutant of Warm: an entry is kept for as long as somebody looks.
WarmStill(entry) == TRUE

\* CardCache.get
Warm(entry) == entry.age < Ttl

Card(v, d, state, titled) == [viewer |-> v, doc |-> d, state |-> state, titled |-> titled]

\* _cards: a warm entry is shown; the platform is asked for the rest.
ListCard(v, d) ==
    /\ listing.stage = "none"
    /\ IF Kept(v, d) /\ Warm(cards[CardKey(v, d)])
       THEN /\ shown' = Card(v, d, "readable", cards[CardKey(v, d)].titled)
            /\ UNCHANGED <<cards, listing>>
       ELSE /\ cards' = [k \in DOMAIN cards \ {CardKey(v, d)} |-> cards[k]]
            /\ listing' = [stage |-> "asking", viewer |-> v, doc |-> d, for |-> 0,
                           state |-> "none", titled |-> 0]
            /\ shown' = NotShown
    /\ UNCHANGED <<rights, barred, title>>

\* Mutant of Stamped: a card's age is counted from the answer.
StampedLate(age) == 0

\* A card's age is counted from when its listing began.
Stamped(age) == age

\* _resolved and _state_of: what the platform says at some moment of the call, or
\* that it did not answer.
Answer(state) ==
    /\ listing.stage = "asking"
    /\ <<listing.viewer, listing.doc>> \in rights => state # "forbidden"
    /\ state = "readable" => <<listing.viewer, listing.doc>> \in rights
    /\ listing' = [listing EXCEPT !.stage = "answered", !.state = state,
                        !.titled = IF state = "readable" THEN title[listing.doc] ELSE 0]
    /\ shown' = NotShown
    /\ UNCHANGED <<rights, barred, title, cards>>

\* _card, once the summaries and the other links are in: only a readable one is
\* kept.
Resolved ==
    LET k == CardKey(listing.viewer, listing.doc)
    IN  /\ listing.stage = "answered"
        /\ shown' = Card(listing.viewer, listing.doc, listing.state, listing.titled)
        /\ cards' = IF listing.state # "readable" THEN cards
                    ELSE [l \in DOMAIN cards \cup {k} |->
                             IF l = k THEN [age |-> Stamped(listing.for), titled |-> listing.titled]
                             ELSE cards[l]]
        /\ listing' = NoListing
        /\ UNCHANGED <<rights, barred, title>>

\* CardCache lives in the process.
CardsRestart ==
    /\ cards' = <<>> /\ listing' = NoListing /\ shown' = NotShown
    /\ UNCHANGED <<rights, barred, title>>

Bar(v, d) ==
    /\ <<v, d>> \in rights
    /\ rights' = rights \ {<<v, d>>} /\ barred' = [barred EXCEPT ![<<v, d>>] = 0]
    /\ shown' = NotShown
    /\ UNCHANGED <<title, cards, listing>>

Grant(v, d) ==
    /\ <<v, d>> \notin rights /\ rights' = rights \cup {<<v, d>>}
    /\ barred' = [barred EXCEPT ![<<v, d>>] = 0]
    /\ shown' = NotShown
    /\ UNCHANGED <<title, cards, listing>>

Retitle(d) ==
    /\ title' = [title EXCEPT ![d] = 0] /\ shown' = NotShown
    /\ UNCHANGED <<rights, barred, cards, listing>>

CardsTick ==
    /\ IF listing.stage = "none" THEN UNCHANGED listing
       ELSE /\ listing.for < Slow
            /\ listing' = [listing EXCEPT !.for = @ + 1,
                               !.titled = IF listing.state = "readable" THEN Aged(@) ELSE @]
    /\ barred' = [p \in Pairs |-> IF p \in rights THEN 0 ELSE Aged(barred[p])]
    /\ title' = [d \in Linked |-> Aged(title[d])]
    /\ cards' = [k \in DOMAIN cards |-> [age |-> Aged(cards[k].age), titled |-> Aged(cards[k].titled)]]
    /\ shown' = NotShown
    /\ UNCHANGED rights

CardsNext ==
    \/ \E v \in Viewers, d \in Linked : ListCard(v, d) \/ Bar(v, d) \/ Grant(v, d)
    \/ \E state \in {"readable", "unreachable", "missing", "forbidden"} : Answer(state)
    \/ Resolved \/ CardsRestart
    \/ \E d \in Linked : Retitle(d)
    \/ CardsTick

CardsSpec == CardsInit /\ [][CardsNext]_cardVars

-----------------------------------------------------------------------------
\* "a resolved title or summary SHALL NOT be shown to a person who has not been":
\* whatever others were shown, a viewer barred for as long as a card is kept is
\* shown nothing of the document.
BarredSeeNothing ==
    shown.state = "readable" =>
        \/ <<shown.viewer, shown.doc>> \in rights
        \/ barred[<<shown.viewer, shown.doc>>] < Ttl

\* "the newly displayed title SHALL be the current one": a title replaced as
\* long ago as a card is kept is shown to nobody, however slowly it was answered.
TitlesCatchUp ==
    shown.state = "readable" =>
        shown.titled = title[shown.doc] \/ title[shown.doc] < Ttl

\* A card shows what its viewer may see, as it is now.
CardsAreAllowed ==
    /\ CardsTypeOK
    /\ BarredSeeNothing
    /\ TitlesCatchUp

=============================================================================
