---------------------------- MODULE Suggestions ----------------------------
(***************************************************************************)
(* Aliases a model suggests for an image, and the people who accept or     *)
(* reject them.  Three stores: the specifications, in the repository; the  *)
(* derived records and the decisions, in the index, both keyed by the      *)
(* image and not by the asset.  Each call reads and writes them one at a   *)
(* time, and may die in between.                                           *)
(***************************************************************************)
EXTENDS Integers, FiniteSets, Policy

CONSTANTS
    Callers,        \* calls under way
    Catalogue,
    Images,
    ImagesOf,       \* [Catalogue -> SUBSET Images]: the concept views of each
    Terms,          \* normalised terms
    Written,        \* what a person may type instead of a suggestion
    Normal,         \* [Terms \cup Written -> Terms \cup {None}]: normalise
    NameOf,         \* the normalised name of each
    Deciders,          \* the identified callers
    DeciderActor,     \* [Deciders -> actor]
    ArtOwner,       \* [Catalogue -> Deciders]
    MaxAsked,       \* bound: answers of the model and decisions begun
    MaxOutside      \* bound: edits made outside, and indexes dropped

ASSUME SuggestionsAssumption ==
    /\ None \notin Terms \cup Written /\ \A t \in Terms : Normal[t] = t
    /\ \A w \in Written : Normal[w] \in Terms \cup {None}
    /\ MaxAsked \in Nat /\ MaxOutside \in Nat

VARIABLES
    aliases,    \* [Catalogue -> SUBSET Terms]: the branch
    derived,    \* the record of each image, where there is one
    decisions,  \* what was decided of each image's values
    call,       \* where each call is
    ever,       \* <<asset, term>>: what was ever declared
    offered,    \* the values last presented as pending, and of which image
    asked, outside

suggestionVars == <<aliases, derived, decisions, call, ever, offered, asked, outside>>

NoCall == [stage |-> "none"]
Values == Images \X Terms
Unoffered == [image |-> None, values |-> {}]

SuggestionsTypeOK ==
    /\ aliases \in [Catalogue -> SUBSET Terms]
    /\ DOMAIN derived \subseteq Images /\ DOMAIN decisions \subseteq Values
    /\ \A i \in DOMAIN derived : derived[i].asset \in Catalogue /\ derived[i].terms \subseteq Terms
    /\ \A k \in DOMAIN decisions : /\ decisions[k].state \in {"accepted", "rejected"}
                                   /\ decisions[k].by \in Deciders
                                   /\ decisions[k].written \in Terms
    /\ \A c \in Callers : call[c].stage \in {"none", "asking", "listing", "loaded", "checked",
                                             "written", "rejecting"}
    /\ offered.values \subseteq Terms
    /\ asked \in 0..MaxAsked /\ outside \in 0..MaxOutside

SuggestionsInit ==
    /\ aliases = [a \in Catalogue |-> {}]
    /\ derived = <<>> /\ decisions = <<>>
    /\ call = [c \in Callers |-> NoCall]
    /\ ever = {} /\ offered = Unoffered
    /\ asked = 0 /\ outside = 0

-----------------------------------------------------------------------------
\* decided and pending: by the image and the value.
Pending(i) ==
    {v \in derived[i].terms : <<i, v>> \notin DOMAIN decisions}

\* excluded_terms, of the specification as it was loaded.
Excluded(a) == {NameOf[a]} \cup aliases[a]

Goes(c, stage) == call' = [call EXCEPT ![c].stage = stage]
Ends(c) == call' = [call EXCEPT ![c] = NoCall]

Starts(c, what) == call[c].stage = "none" /\ call' = [call EXCEPT ![c] = what]

Counted == asked < MaxAsked /\ asked' = asked + 1

\* describe_view: an image that was described is not described again.
Describe(c, a, i) ==
    /\ i \in ImagesOf[a]
    /\ Starts(c, [stage |-> IF i \in DOMAIN derived THEN "listing" ELSE "asking",
                 asset |-> a, image |-> i, excluded |-> Excluded(a)])
    /\ offered' = Unoffered
    /\ UNCHANGED <<aliases, derived, decisions, ever, asked, outside>>

\* Mutant of PutDerived: a new record starts with nothing decided of its image.
PutDerivedAfresh(i, a, terms) ==
    /\ derived' = [j \in DOMAIN derived \cup {i} |->
                      IF j = i THEN [asset |-> a, terms |-> terms] ELSE derived[j]]
    /\ decisions' = [k \in {l \in DOMAIN decisions : l[1] # i} |-> decisions[k]]

\* put_derived: the image's row, replaced when another call made it meanwhile.
PutDerived(i, a, terms) ==
    /\ derived' = [j \in DOMAIN derived \cup {i} |->
                      IF j = i THEN [asset |-> a, terms |-> terms] ELSE derived[j]]
    /\ UNCHANGED decisions

\* The model answered both prompts, with terms.
Generate(c, terms) ==
    /\ call[c].stage = "asking"
    /\ PutDerived(call[c].image, call[c].asset, terms \ call[c].excluded)
    /\ Goes(c, "listing") /\ Counted
    /\ offered' = Unoffered
    /\ UNCHANGED <<aliases, ever, outside>>

\* It did not, or not with a list of terms: nothing is recorded.
ModelUnavailable(c) ==
    /\ call[c].stage = "asking"
    /\ Ends(c) /\ offered' = Unoffered
    /\ UNCHANGED <<aliases, derived, decisions, ever, asked, outside>>

\* _generation: what is presented as undecided, by this record and these decisions.
ListPending(c) ==
    /\ call[c].stage = "listing"
    /\ offered' = IF call[c].image \in DOMAIN derived
                  THEN [image |-> call[c].image, values |-> Pending(call[c].image)]
                  ELSE Unoffered
    /\ Ends(c)
    /\ UNCHANGED <<aliases, derived, decisions, ever, asked, outside>>

\* _person and _permitted: nobody automated, and the art discipline's owner.
MayAccept(p, a, via) ==
    /\ DeciderActor[p].kind = "person" /\ via = None
    /\ Decide(DeciderActor[p], "accept_suggested_alias",
              [project |-> "p", tenant |-> None, author |-> None, owner |-> ArtOwner[a],
               assignee |-> None, mapped |-> TRUE], via)

\* accept_suggestion: the specification, and who may change it.  That the image
\* is one of this asset's is not asked.
AcceptSuggestion(c, a, i, v, w, p, via) ==
    /\ Counted
    /\ Starts(c, [stage |-> "loaded", asset |-> a, image |-> i, value |-> v, text |-> w,
                 by |-> p, read |-> aliases[a]])
    /\ MayAccept(p, a, via)
    /\ offered' = Unoffered
    /\ UNCHANGED <<aliases, derived, decisions, ever, outside>>

\* _recorded and _accepted_term: suggested, and not rejected.
Acceptable(i, v) ==
    /\ i \in DOMAIN derived /\ v \in derived[i].terms
    /\ <<i, v>> \in DOMAIN decisions => decisions[<<i, v>>].state = "accepted"

\* Mutant of TermOf: the person's wording as it was typed.
TermOfVerbatim(mine) == IF mine.text = None THEN mine.value ELSE mine.text

\* _accepted_term: the person's wording, normalised.
TermOf(mine) == Normal[IF mine.text = None THEN mine.value ELSE mine.text]

CheckSuggestion(c) ==
    LET mine == call[c]
    IN  /\ mine.stage = "loaded"
        /\ IF Acceptable(mine.image, mine.value) /\ TermOf(mine) # None
           THEN Goes(c, "checked") ELSE Ends(c)
        /\ offered' = Unoffered
        /\ UNCHANGED <<aliases, derived, decisions, ever, asked, outside>>

\* Mutant of Applicable: the file is written over whatever it holds now.
ApplicableAnyway(mine) == TRUE

\* write_back: the file is as it was read.
Applicable(mine) == aliases[mine.asset] = mine.read

\* _with_alias and _commit: the file as it was read, with the term in it; a term
\* it holds already is not committed.
WriteAlias(c) ==
    LET mine == call[c]
        now == mine.read \cup {TermOf(mine)}
    IN  /\ mine.stage = "checked"
        /\ \/ TermOf(mine) \in mine.read /\ UNCHANGED aliases
           \/ /\ TermOf(mine) \notin mine.read /\ Applicable(mine)
              /\ aliases' = [aliases EXCEPT ![mine.asset] = now]
        /\ ever' = ever \cup {<<mine.asset, t>> : t \in now}
        /\ \/ Goes(c, "written")
           \/ aliases' # aliases /\ Ends(c)
        /\ offered' = Unoffered
        /\ UNCHANGED <<derived, decisions, asked, outside>>

\* The write-back is refused, as a conflict or unreachable.
WriteRefused(c) ==
    /\ call[c].stage = "checked" /\ TermOf(call[c]) \notin call[c].read
    /\ Ends(c) /\ offered' = Unoffered
    /\ UNCHANGED <<aliases, derived, decisions, ever, asked, outside>>

\* record_decision: an upsert, by the image and the value.
DecisionRecorded(k, state, p, w) ==
    decisions' = [l \in DOMAIN decisions \cup {k} |->
                     IF l = k THEN [state |-> state, by |-> p, written |-> w] ELSE decisions[l]]

\* Mutant of Decided: the acceptance is recorded as soon as it is allowed.
DecidedFirst(mine) == mine.stage = "checked"

\* An acceptance is recorded once the write-back has answered.
Decided(mine) == mine.stage = "written"

RecordAcceptance(c) ==
    LET mine == call[c]
    IN  /\ Decided(mine)
        /\ DecisionRecorded(<<mine.image, mine.value>>, "accepted", mine.by, TermOf(mine))
        /\ Ends(c) /\ offered' = Unoffered
        /\ UNCHANGED <<aliases, derived, ever, asked, outside>>

\* reject_suggestion: any identified person, of any value suggested, decided or not.
RejectSuggestion(c, i, v, p, via) ==
    /\ Counted
    /\ Starts(c, [stage |-> "rejecting", image |-> i, value |-> v, by |-> p])
    /\ DeciderActor[p].kind = "person" /\ via = None
    /\ i \in DOMAIN derived /\ v \in derived[i].terms
    /\ offered' = Unoffered
    /\ UNCHANGED <<aliases, derived, decisions, ever, outside>>

RecordRejection(c) ==
    LET mine == call[c]
    IN  /\ mine.stage = "rejecting"
        /\ DecisionRecorded(<<mine.image, mine.value>>, "rejected", mine.by, mine.value)
        /\ Ends(c) /\ offered' = Unoffered
        /\ UNCHANGED <<aliases, derived, ever, asked, outside>>

CallerDies(c) ==
    /\ call[c].stage # "none"
    /\ Ends(c) /\ offered' = Unoffered
    /\ UNCHANGED <<aliases, derived, decisions, ever, asked, outside>>

\* A person edits a specification by hand.
EditByHand(a, t) ==
    /\ outside < MaxOutside /\ outside' = outside + 1
    /\ aliases' = [aliases EXCEPT ![a] = IF t \in @ THEN @ \ {t} ELSE @ \cup {t}]
    /\ ever' = ever \cup {<<a, s>> : s \in aliases'[a]}
    /\ offered' = Unoffered
    /\ UNCHANGED <<derived, decisions, call, asked>>

\* clear, clear_derived: the index dropped, decisions and all.
ClearDerived ==
    /\ outside < MaxOutside /\ outside' = outside + 1
    /\ derived # <<>>
    /\ derived' = <<>> /\ decisions' = <<>>
    /\ offered' = Unoffered
    /\ UNCHANGED <<aliases, call, ever, asked>>

SuggestionsNext ==
    \/ \E c \in Callers :
          \/ \E a \in Catalogue, i \in Images : Describe(c, a, i)
          \/ \E terms \in SUBSET Terms : Generate(c, terms)
          \/ ModelUnavailable(c) \/ ListPending(c)
          \/ \E a \in Catalogue, i \in Images, v \in Terms, w \in Written \cup {None},
                p \in Deciders, via \in {None, "agent"} : AcceptSuggestion(c, a, i, v, w, p, via)
          \/ CheckSuggestion(c) \/ WriteAlias(c) \/ WriteRefused(c) \/ RecordAcceptance(c)
          \/ \E i \in Images, v \in Terms, p \in Deciders, via \in {None, "agent"} :
                RejectSuggestion(c, i, v, p, via)
          \/ RecordRejection(c) \/ CallerDies(c)
    \/ \E a \in Catalogue, t \in Terms : EditByHand(a, t)
    \/ ClearDerived

SuggestionsSpec == SuggestionsInit /\ [][SuggestionsNext]_suggestionVars

-----------------------------------------------------------------------------
\* "If writing an accepted value cannot complete ... the suggestion SHALL remain
\* unaccepted": a value is recorded as accepted only when its term has been
\* declared, by an owner's own act, whoever dies or is refused on the way.
AcceptedWasDeclared ==
    \A k \in DOMAIN decisions :
        decisions[k].state = "accepted"
            => \E d \in ever : /\ d[2] = decisions[k].written
                              /\ MayAccept(decisions[k].by, d[1], None)

\* "Once accepted, a value SHALL remain in the specification": two people who
\* accept at once, and one who edits by hand, keep each other's aliases.
AliasesSurvive ==
    outside' = outside => \A a \in Catalogue : aliases[a] \subseteq aliases'[a]

\* "a rejected suggestion ... SHALL NOT be presented again for the same unchanged
\* source": not even when two calls describe the image at once.
RejectedNotOffered ==
    \A k \in DOMAIN decisions :
       decisions[k].state = "rejected" /\ outside' = outside
           => /\ k \in DOMAIN decisions'
              /\ ~(offered'.image = k[1] /\ k[2] \in offered'.values)

\* A decision about a suggestion is somebody's, is kept and is carried out.
SuggestionsAreSettled ==
    [][/\ SuggestionsTypeOK'
       /\ AcceptedWasDeclared'
       /\ AliasesSurvive
       /\ RejectedNotOffered]_suggestionVars

=============================================================================
