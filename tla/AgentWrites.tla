---------------------------- MODULE AgentWrites ----------------------------
(***************************************************************************)
(* What agents record through the local server: observations, written into *)
(* the specification file of a working copy that its owner edits and merges *)
(* meanwhile.  Each agent is a process of its own and nothing locks the    *)
(* file: it is read for the checks, read again to be edited, and written   *)
(* whole.                                                                  *)
(***************************************************************************)
EXTENDS Integers, FiniteSets, SequencesExt, Policy

CONSTANTS
    Agents,         \* server processes
    NamedAs,        \* [Agents -> an agent's identifier, or None]
    Signed,         \* the people a credential on this machine may name
    SignedActor,    \* [Signed -> actor]
    Sayings,        \* what an agent may say: [text, about]
    Same,           \* [texts -> texts]: normalized
    Parts,          \* the targets that exist on the asset
    Allowance,      \* WriteLimits.observations
    Span,           \* WriteLimits.window_seconds
    AtOnce,         \* calls under way at a time
    Quick,          \* nothing happens between an append's read and its write
    MaxNotes,       \* bound: observations ever written
    MaxTime, MaxHands   \* bounds: the clock, and what people do to the file

ASSUME AgentsAssumption ==
    /\ IsFiniteSet(Agents)
    /\ Allowance \in Nat \ {0} /\ Span \in Nat \ {0} /\ AtOnce \in Nat \ {0}
    /\ Quick \in BOOLEAN /\ MaxNotes \in Nat /\ MaxTime \in Nat /\ MaxHands \in Nat

VARIABLES
    spec,       \* [notes, hand, merge, whole]: the file, and git's word on it
    agent,      \* where each call is
    credential, \* whom the stored credential names, and whether that is verified
    now, hands, written

agentVars == <<spec, agent, credential, now, hands, written>>

NoWrite == [stage |-> "none"]

AgentsTypeOK ==
    /\ \A i \in DOMAIN spec.notes :
          /\ spec.notes[i].by \in Signed /\ spec.notes[i].via \in {NamedAs[g] : g \in Agents} \ {None}
          /\ spec.notes[i].at \in 0..now
          /\ spec.notes[i].anchored <=> spec.notes[i].about \in Parts
    /\ spec.merge \in {"none", "marked", "unmerged"}
    /\ \A g \in Agents : agent[g].stage \in {"none", "checked", "read"}
    /\ credential.who \in Signed \cup {None} /\ credential.verified \in BOOLEAN
    /\ written <= MaxNotes

AgentsInit ==
    /\ spec = [notes |-> <<>>, hand |-> 0, merge |-> "none", whole |-> TRUE]
    /\ agent = [g \in Agents |-> NoWrite]
    /\ credential \in [who : Signed, verified : {TRUE}]
    /\ now = 0 /\ hands = 0 /\ written = 0

-----------------------------------------------------------------------------
\* Between an append's read and its write.
Settled == Quick => \A g \in Agents : agent[g].stage # "read"

\* _identified, _agent and _authorized.
MayWrite(g) ==
    /\ credential.who # None /\ credential.verified
    /\ SignedActor[credential.who].kind = "person"
    /\ NamedAs[g] # None
    /\ Decide(SignedActor[credential.who], "create_annotation",
              [project |-> "p", tenant |-> None, author |-> None, owner |-> None,
               assignee |-> None, mapped |-> TRUE], NamedAs[g])

\* Mutant of Window: what was resolved since no longer counts.
WindowOpen(notes, who) ==
    {i \in DOMAIN notes : notes[i].by = who /\ notes[i].open /\ now - Span <= notes[i].at}

\* _within: what this person's agents recorded, at the instants of the window.
Window(notes, who) ==
    {i \in DOMAIN notes : notes[i].by = who /\ now - Span <= notes[i].at}

\* Mutant of Twins: the wording is compared as it was typed.
Verbatim(notes, note) ==
    {i \in DOMAIN notes : /\ notes[i].open /\ notes[i].via = note.via
                          /\ notes[i].about = note.about /\ notes[i].text = note.text}

\* materially_same
Twins(notes, note) ==
    {i \in DOMAIN notes : /\ notes[i].open /\ notes[i].via = note.via
                          /\ notes[i].about = note.about /\ Same[notes[i].text] = Same[note.text]}

\* Mutant of Anchored: whatever was named is taken for a target of the asset.
AnchoredAnyway(about) == about # None

\* target_for: what the asset has is anchored, anything else kept as given.
Anchored(about) == about \in Parts

\* _candidate and observation.
Candidate(g, said) ==
    [by |-> credential.who, via |-> NamedAs[g], text |-> said.text, about |-> said.about,
     anchored |-> Anchored(said.about), at |-> now, open |-> TRUE, reopened |-> FALSE]

\* record_observation, up to the append: refused, suppressed as a duplicate, or
\* on its way.
RecordObservation(g, said) ==
    LET note == Candidate(g, said)
    IN  /\ agent[g].stage = "none" /\ Settled
        /\ written < MaxNotes
        /\ Cardinality({h \in Agents : agent[h].stage # "none"}) < AtOnce
        /\ MayWrite(g) /\ spec.whole /\ spec.merge # "marked"
        /\ Cardinality(Window(spec.notes, credential.who)) < Allowance
        /\ said.text # None /\ said.about # None
        /\ Twins(spec.notes, note) = {}
        /\ agent' = [agent EXCEPT ![g] = [stage |-> "checked", note |-> note, seen |-> spec]]
        /\ UNCHANGED <<spec, credential, now, hands, written>>

\* Mutant of Mergeable: only the markers are looked for.
MergeableUnmarked == spec.merge # "marked"

\* _mergeable
Mergeable == spec.merge = "none"

\* Mutant of Document: the file as it was when the checks were made.
DocumentChecked(g) == agent[g].seen

\* _document: the file as it is now.
Document(g) == spec

\* append, up to the write: refused unless the file parses and is in no merge.
ReadToAppend(g) ==
    /\ agent[g].stage = "checked" /\ Settled
    /\ IF spec.whole /\ Mergeable
       THEN agent' = [agent EXCEPT ![g].stage = "read", ![g].seen = Document(g)]
       ELSE agent' = [agent EXCEPT ![g] = NoWrite]
    /\ UNCHANGED <<spec, credential, now, hands, written>>

\* edited and _write: the whole file, with one entry more.
AppendNote(g) ==
    /\ agent[g].stage = "read"
    /\ spec' = [spec EXCEPT !.notes = Append(agent[g].seen.notes, agent[g].note),
                            !.hand = agent[g].seen.hand, !.whole = TRUE]
    /\ agent' = [agent EXCEPT ![g] = NoWrite]
    /\ written' = written + 1
    /\ UNCHANGED <<credential, now, hands>>

\* The server is stopped, and while it writes the file is cut short.
AgentDies(g) ==
    /\ agent[g].stage # "none"
    /\ agent' = [agent EXCEPT ![g] = NoWrite]
    /\ \/ UNCHANGED spec
       \/ agent[g].stage = "read" /\ spec' = [spec EXCEPT !.whole = FALSE]
    /\ UNCHANGED <<credential, now, hands, written>>

-----------------------------------------------------------------------------
ByHand(file) ==
    /\ Settled /\ hands < MaxHands /\ hands' = hands + 1
    /\ spec' = file
    /\ UNCHANGED <<agent, credential, now, written>>

\* A person closes an observation or reopens it, edits anything else, or puts
\* back a file that was cut short.
PersonEdits ==
    \/ \E i \in DOMAIN spec.notes :
          ByHand([spec EXCEPT !.notes[i].open = ~@,
                              !.notes[i].reopened = ~spec.notes[i].open])
    \/ ByHand([spec EXCEPT !.hand = @ + 1])
    \/ ~spec.whole /\ ByHand([spec EXCEPT !.whole = TRUE])

\* A merge conflicts in the file; its markers are edited away; git is told.
PersonMerges ==
    \/ spec.merge = "none" /\ ByHand([spec EXCEPT !.merge = "marked"])
    \/ spec.merge = "marked" /\ ByHand([spec EXCEPT !.merge = "unmerged", !.hand = @ + 1])
    \/ spec.merge = "unmerged" /\ ByHand([spec EXCEPT !.merge = "none"])

\* Signing in and out, and the issuer being reachable or not.
Credit ==
    /\ Settled
    /\ credential' \in [who : Signed \cup {None}, verified : BOOLEAN]
    /\ UNCHANGED <<spec, agent, now, hands, written>>

AgentsTick ==
    /\ Settled /\ now < MaxTime /\ now' = now + 1
    /\ UNCHANGED <<spec, agent, credential, hands, written>>

AgentsNext ==
    \/ \E g \in Agents : \/ \E said \in Sayings : RecordObservation(g, said)
                         \/ ReadToAppend(g) \/ AppendNote(g) \/ AgentDies(g)
    \/ PersonEdits \/ PersonMerges \/ Credit \/ AgentsTick

AgentsSpec == AgentsInit /\ [][AgentsNext]_agentVars

-----------------------------------------------------------------------------
\* "The system SHALL limit how many observations an automated caller may record
\* within a period": no window of that length, wherever it begins, holds more,
\* though people close, reopen and edit them meanwhile.
WithinAllowance ==
    \A p \in Signed, t \in 0..now :
        Cardinality({i \in DOMAIN spec.notes :
                        spec.notes[i].by = p /\ spec.notes[i].at \in t..(t + Span)}) <= Allowance

\* "no second observation SHALL be created": an agent holds no two open ones that
\* say the same of one target, unless a person reopened one of them.
OneOpenTwin ==
    \A i, j \in DOMAIN spec.notes :
        LET a == spec.notes[i]
            b == spec.notes[j]
        IN  /\ i # j /\ a.open /\ b.open /\ a.via = b.via
            /\ a.about = b.about /\ Same[a.text] = Same[b.text]
            => a.reopened \/ b.reopened

\* "the only change SHALL be the added observation": what a person saved between
\* the checks and the write is in the file the agent leaves.
OnlyTheirNote ==
    written' # written =>
       /\ spec'.hand = spec.hand
       /\ Front(spec'.notes) = spec.notes

\* A file in an unresolved merge is left alone, though its markers are gone.
MergesAreLeftAlone ==
    written' # written => spec.merge = "none"

\* An agent stays within its allowance, repeats nobody and touches only its
\* own note.
AgentsAreBounded ==
    [][/\ AgentsTypeOK'
       /\ WithinAllowance'
       /\ OneOpenTwin'
       /\ OnlyTheirNote
       /\ MergesAreLeftAlone]_agentVars

=============================================================================
