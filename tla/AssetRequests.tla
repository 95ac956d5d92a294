---------------------------- MODULE AssetRequests ----------------------------
(***************************************************************************)
(* Asset requests: an ask with an owner and an ending, kept with its whole *)
(* history as one file of the repository, and the inbox derived from those *)
(* files minus what each person dismissed in the index.                    *)
(*                                                                         *)
(* A handler reads the request once to decide who may act on it and what   *)
(* status its asset has, and again to move it; other service processes and *)
(* fetches come between.  The write is EditLedger's compare-and-swap.      *)
(* Nothing is ever notified: no Notifier is wired.                         *)
(***************************************************************************)
EXTENDS Integers, Sequences, FiniteSets, Policy

CONSTANTS
    Sessions,       \* handlers under way, over every service process
    People,
    ActorOf,        \* [People -> actor]
    Ids,            \* request identifiers callers choose
    Assets, Statuses,
    OwnerOf,        \* [Assets -> owner of the request's discipline, or None]
    Acts,           \* what callers ask for: who, and to do what
    Readers,        \* bound: the people who dismiss items
    MaxEvents       \* bound: events of one request's history

States == {"open", "accepted", "fulfilled", "declined", "withdrawn"}

\* What callers may ask for.
Askable(act) ==
    /\ act.by \in People
    /\ \/ /\ act.op = "raise"
          /\ act.asset \in Assets \cup {None} /\ act.wants \in Statuses \cup {None}
       \/ act.op = "assign" /\ act.to \in People \cup {None}
       \/ act.op = "transition" /\ act.to \in States

ASSUME RequestsAssumption ==
    /\ None \notin People /\ None \notin Assets /\ None \notin Statuses
    /\ OwnerOf \in [Assets -> People \cup {None}]
    /\ \A p \in People : ActorOf[p].id = p
    /\ \A act \in Acts : Askable(act)
    /\ Readers \subseteq People /\ MaxEvents \in Nat \ {0}

\* Mutant of Transitions: a declined request can be taken up again.
TransitionsAgain ==
    [s \in States |->
        CASE s = "open" -> {"accepted", "declined", "withdrawn"}
          [] s = "accepted" -> {"fulfilled", "declined", "withdrawn"}
          [] s = "declined" -> {"accepted"}
          [] OTHER -> {}]

Transitions ==
    [s \in States |->
        CASE s = "open" -> {"accepted", "declined", "withdrawn"}
          [] s = "accepted" -> {"fulfilled", "declined", "withdrawn"}
          [] OTHER -> {}]

Events == [kind : {"raised", "assigned", "transitioned"}, actor : People, state : States,
           assignee : People \cup {None}]
Absent == [history |-> <<>>]
Requests == [author : People, asset : Assets \cup {None}, wants : Statuses \cup {None},
             assignee : People \cup {None}, state : States, history : Seq(Events)]

VARIABLES
    ledger,     \* the request files on the branch
    status,     \* the status each asset's specification gives it
    reached,    \* the statuses each asset has had (auxiliary)
    session,    \* where each handler is, and what it has read
    dismissed,  \* the dismissals table: what each person has dismissed
    looked      \* what each person ever dismissed (auxiliary)

requestVars == <<ledger, status, reached, session, dismissed, looked>>

Idle == [stage |-> "idle"]
SessionRecords ==
    [stage : {"asked"}, id : Ids, act : Acts, status : Statuses \cup {None}]
        \cup [stage : {"writing"}, id : Ids, basedOn : Requests \cup {Absent}, new : Requests]

RequestsTypeOK ==
    /\ \A id \in Ids : ledger[id] = Absent \/
          /\ ledger[id] \in Requests
          /\ Len(ledger[id].history) \in 1..MaxEvents
    /\ status \in [Assets -> Statuses]
    /\ reached \in [Assets -> SUBSET Statuses]
    /\ \A s \in Sessions : session[s] \in SessionRecords \cup {Idle}
    /\ dismissed \in [People -> SUBSET Ids] /\ looked \in [People -> SUBSET Ids]

RequestsInit ==
    /\ ledger = [id \in Ids |-> Absent]
    /\ status \in [Assets -> Statuses]
    /\ reached = [a \in Assets |-> {status[a]}]
    /\ session = [s \in Sessions |-> Idle]
    /\ dismissed = [p \in People |-> {}] /\ looked = dismissed

-----------------------------------------------------------------------------
\* discipline_owners: nobody owns an asset that is not there.
Owner(asset) == IF asset \in Assets THEN OwnerOf[asset] ELSE None

StatusOf(request) ==
    IF request.wants # None /\ request.asset \in Assets THEN status[request.asset] ELSE None

\* Mutant of Raised: the raising is not an event of the history.
RaisedUnheard(p, act) ==
    [author |-> p, asset |-> act.asset, wants |-> act.wants, assignee |-> Owner(act.asset),
     state |-> "open", history |-> <<>>]

\* raise_request: assigned to the asset's owner, never to its author by default.
Raised(p, act) ==
    [author |-> p, asset |-> act.asset, wants |-> act.wants, assignee |-> Owner(act.asset),
     state |-> "open",
     history |-> <<[kind |-> "raised", actor |-> p, state |-> "open",
                    assignee |-> Owner(act.asset)]>>]

\* reassign: in any state, a terminal one included.
Reassigned(request, p, to) ==
    [request EXCEPT !.assignee = to,
        !.history = Append(@, [kind |-> "assigned", actor |-> p, state |-> request.state,
                               assignee |-> to])]

Moved(request, p, to) ==
    [request EXCEPT !.state = to,
        !.history = Append(@, [kind |-> "transitioned", actor |-> p, state |-> to,
                               assignee |-> None])]

\* Mutant of Fulfils: an unknown status does not stand in the way.
FulfilsUnknown(request, seen) == request.wants = None \/ seen \in {request.wants, None}

Fulfils(request, seen) == request.wants = None \/ seen = request.wants

\* may_transition: the reasons a decline must carry are the caller's input.
MayTransition(request, p, to, seen) ==
    /\ to \in Transitions[request.state]
    /\ to = "withdrawn" => p = request.author
    /\ to = "fulfilled" => Fulfils(request, seen)

\* _subject_for: what policy is asked about.
SubjectOf(request) ==
    [tenant |-> None, project |-> "p", author |-> request.author,
     assignee |-> request.assignee, owner |-> Owner(request.asset), mapped |-> TRUE]

\* _operation_for: a withdrawal is the raising side of the matrix.
OperationFor(act) ==
    IF act.op = "transition" /\ act.to = "withdrawn" THEN "raise_request" ELSE "decide_request"

Enter(s, from, record) ==
    /\ session[s].stage = from
    /\ session' = [session EXCEPT ![s] = record]

-----------------------------------------------------------------------------
\* _raise: composed against nothing, so the file must not exist.
Raise(s, id, act) ==
    /\ act.op = "raise"
    /\ Enter(s, "idle", [stage |-> "writing", id |-> id, basedOn |-> Absent,
                         new |-> Raised(act.by, act)])
    /\ UNCHANGED <<ledger, status, reached, dismissed, looked>>

\* Mutant of Ask: the policy is not asked.
AskAnyway(s, id, act) ==
    /\ act.op # "raise"
    /\ ledger[id] # Absent
    /\ Enter(s, "idle", [stage |-> "asked", id |-> id, act |-> act,
                         status |-> StatusOf(ledger[id])])
    /\ UNCHANGED <<ledger, status, reached, dismissed, looked>>

\* _decide: the request as it is now decides who may act, and its asset's
\* status now is what the operation will be told.
Ask(s, id, act) ==
    /\ act.op # "raise"
    /\ ledger[id] # Absent
    /\ Decide(ActorOf[act.by], OperationFor(act), SubjectOf(ledger[id]), None)
    /\ Enter(s, "idle", [stage |-> "asked", id |-> id, act |-> act,
                         status |-> StatusOf(ledger[id])])
    /\ UNCHANGED <<ledger, status, reached, dismissed, looked>>

\* assign_request and transition_request: the request is read again, and moved.
Compose(s) ==
    LET asked == session[s]
        current == ledger[asked.id]
        draft(new) == [stage |-> "writing", id |-> asked.id, basedOn |-> current, new |-> new]
    IN
    /\ asked.stage = "asked"
    /\ Len(current.history) < MaxEvents
    /\ \/ /\ asked.act.op = "assign"
          /\ Enter(s, "asked", draft(Reassigned(current, asked.act.by, asked.act.to)))
       \/ /\ asked.act.op = "transition"
          /\ MayTransition(current, asked.act.by, asked.act.to, asked.status)
          /\ Enter(s, "asked", draft(Moved(current, asked.act.by, asked.act.to)))
    /\ UNCHANGED <<ledger, status, reached, dismissed, looked>>

\* A move that the domain refuses, or a history at its bound.
Refuse(s) ==
    LET asked == session[s] IN
    /\ asked.stage = "asked"
    /\ \/ asked.act.op = "transition"
             /\ ~MayTransition(ledger[asked.id], asked.act.by, asked.act.to, asked.status)
       \/ Len(ledger[asked.id].history) >= MaxEvents
    /\ Enter(s, "asked", Idle)
    /\ UNCHANGED <<ledger, status, reached, dismissed, looked>>

\* Mutant of StillBasedOn: the last writer wins.
StillBasedOnAny(s) == session[s].id \in Ids

StillBasedOn(s) == ledger[session[s].id] = session[s].basedOn

\* _record: one commit of one file.
Record(s) ==
    /\ session[s].stage = "writing"
    /\ StillBasedOn(s)
    /\ ledger' = [ledger EXCEPT ![session[s].id] = session[s].new]
    /\ Enter(s, "writing", Idle)
    /\ UNCHANGED <<status, reached, dismissed, looked>>

\* A conflict, or a remote that does not answer.
Refused(s) ==
    /\ session[s].stage = "writing"
    /\ Enter(s, "writing", Idle)
    /\ UNCHANGED <<ledger, status, reached, dismissed, looked>>

-----------------------------------------------------------------------------
Concerns(request, p) == request # Absent /\ p \in {request.assignee, request.author}

\* Mutant of Unread: an item is gone once anybody has dismissed it.
UnreadByAnyone(p) ==
    {id \in Ids : Concerns(ledger[id], p) /\ \A q \in People : id \notin dismissed[q]}

\* unread_items: derived, nothing is stored to answer it.
Unread(p) == {id \in Ids : Concerns(ledger[id], p) /\ id \notin dismissed[p]}

\* dismiss_item: by anybody, of any request there is.
Dismiss(p, id) ==
    /\ ledger[id] # Absent
    /\ dismissed' = [dismissed EXCEPT ![p] = @ \cup {id}]
    /\ looked' = [looked EXCEPT ![p] = @ \cup {id}]
    /\ UNCHANGED <<ledger, status, reached, session>>

\* A rebuild of the index, the dismissals table with it.
DropDismissals ==
    /\ dismissed' = [p \in People |-> {}]
    /\ UNCHANGED <<ledger, status, reached, session, looked>>

\* A person changes an asset's status; no request does.
MoveAsset(a, to) ==
    /\ to # status[a]
    /\ status' = [status EXCEPT ![a] = to]
    /\ reached' = [reached EXCEPT ![a] = @ \cup {to}]
    /\ UNCHANGED <<ledger, session, dismissed, looked>>

RequestsNext ==
    \/ \E s \in Sessions, id \in Ids, act \in Acts :
          Raise(s, id, act) \/ Ask(s, id, act)
    \/ \E s \in Sessions : Compose(s) \/ Refuse(s) \/ Record(s) \/ Refused(s)
    \/ \E p \in Readers, id \in Ids : Dismiss(p, id)
    \/ \E a \in Assets, to \in Statuses : MoveAsset(a, to)
    \/ DropDismissals

RequestsSpec == RequestsInit /\ [][RequestsNext]_requestVars

-----------------------------------------------------------------------------
Recorded == {id \in Ids : ledger[id] # Absent}

\* The record of a request and its history never tell two stories: replaying
\* the history through the lifecycle gives the state and the assignee, one
\* ending at most, a withdrawal only by the author.
Replays(request) ==
    LET h == request.history
        assignments == {i \in DOMAIN h : h[i].kind # "transitioned"}
        last == CHOOSE i \in assignments : \A j \in assignments : j <= i
    IN
    /\ h[1].kind = "raised" /\ h[1].actor = request.author /\ h[1].state = "open"
    /\ h[Len(h)].state = request.state
    /\ h[last].assignee = request.assignee
    /\ \A i \in 2..Len(h) :
          /\ h[i].kind = "assigned" => h[i].state = h[i - 1].state
          /\ h[i].kind = "transitioned" =>
                h[i].state # "open" /\ h[i - 1].state \in {"open", "accepted"}
          /\ h[i].kind = "transitioned" /\ h[i].state = "withdrawn" =>
                h[i].actor = request.author

HistoriesReplay == \A id \in Recorded : Replays(ledger[id])

\* "Every request ... with the same state, assignee and history": whatever two
\* processes do at once, no event of a request is lost or rewritten.
NothingIsRewritten ==
    \A id \in Recorded :
       LET old == ledger[id].history
           new == ledger'[id].history
       IN Len(new) >= Len(old) /\ SubSeq(new, 1, Len(old)) = old

\* A request that asks for a status is fulfilled only if its asset has had it,
\* and so never while it names no asset.
FulfilledWasReached ==
    \A id \in Recorded :
        ledger[id].state = "fulfilled" /\ ledger[id].wants # None =>
            ledger[id].asset \in Assets /\ ledger[id].wants \in reached[ledger[id].asset]

\* Only somebody responsible decides: the assignee, the discipline's owner or a
\* director.  The assignee is the one the handler read first, which a
\* reassignment since may have replaced, so: at some point before the decision.
Responsible(request, p, i) ==
    \/ p = Owner(request.asset) \/ Director(ActorOf[p])
    \/ \E j \in 1..(i - 1) :
          request.history[j].kind # "transitioned" /\ request.history[j].assignee = p

DecidersWereResponsible ==
    \A id \in Recorded : \A i \in 2..Len(ledger[id].history) :
        LET event == ledger[id].history[i] IN
        \/ event.kind = "transitioned" /\ event.state = "withdrawn"
        \/ Responsible(ledger[id], event.actor, i)

\* "When one of them dismisses it, it SHALL remain unread for the other", and
\* a rebuild of the index costs nobody an item.
UnreadUntilDismissed ==
    \A p \in People, id \in Ids :
        Concerns(ledger[id], p) /\ id \notin looked[p] => id \in Unread(p)

\* What a request's history says is what happened, by those who could make it
\* happen.
RequestsAreHonoured ==
    [][/\ RequestsTypeOK'
       /\ HistoriesReplay'
       /\ FulfilledWasReached'
       /\ DecidersWereResponsible'
       /\ UnreadUntilDismissed'
       /\ NothingIsRewritten]_requestVars

=============================================================================
