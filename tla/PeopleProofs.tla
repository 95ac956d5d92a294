---------------------------- MODULE PeopleProofs ----------------------------
(***************************************************************************)
(* Theorems about AssetRequests, Suggestions, Identities, Annotations, the *)
(* Outbox, GitAuthors and SpecFiles: any people, assets, callers,          *)
(* processes and instances, any length of a history, of a discussion, of   *)
(* the outbox, of a mapping or of a yaml's lists, any number of calls      *)
(* under way at once, and any time a token lives.                          *)
(***************************************************************************)
EXTENDS AssetRequests, Suggestions, Identities, Annotations, Outbox,
        GitAuthors, SpecFiles, FiniteSetTheorems, WellFoundedInduction, TLAPS

-----------------------------------------------------------------------------
(* Asset requests: an invariant of every history and of every handler.     *)

AskedRecords == [stage : {"asked"}, id : Ids, act : Acts, status : Statuses \cup {None}]
DraftRecords ==
    [stage : {"writing"}, id : Ids, basedOn : Requests \cup {Absent}, new : Requests]
Seen == [Assets -> SUBSET Statuses]

\* Replays, with its last assignment named.
Assignments(h) == {i \in 1..Len(h) : h[i].kind # "transitioned"}
AssigneeIn(h, p) ==
    \E l \in Assignments(h) : h[l].assignee = p /\ \A j \in Assignments(h) : j <= l
Follows(r, i) ==
    LET h == r.history IN
    /\ h[i].kind = "assigned" => h[i].state = h[i - 1].state
    /\ h[i].kind = "transitioned" =>
          h[i].state # "open" /\ h[i - 1].state \in {"open", "accepted"}
    /\ h[i].kind = "transitioned" /\ h[i].state = "withdrawn" => h[i].actor = r.author

Told(r) ==
    LET h == r.history IN
    /\ r \in Requests /\ Len(h) \in 1..MaxEvents
    /\ h[1].kind = "raised" /\ h[1].actor = r.author /\ h[1].state = "open"
    /\ h[Len(h)].state = r.state
    /\ AssigneeIn(h, r.assignee)
    /\ \A i \in 2..Len(h) : Follows(r, i)

Had(asset, wanted, seen) == asset \in Assets /\ wanted \in seen[asset]

Earned(r, seen) == r.state = "fulfilled" /\ r.wants # None => Had(r.asset, r.wants, seen)

Withdrawal(event) == event.kind = "transitioned" /\ event.state = "withdrawn"

DecidedRightly(r) ==
    \A i \in 2..Len(r.history) :
        Withdrawal(r.history[i]) \/ Responsible(r, r.history[i].actor, i)

Good(r, seen) == Told(r) /\ Earned(r, seen) /\ DecidedRightly(r)

\* What a writer composed on what it read.
Continues(old, new) ==
    /\ new.author = old.author /\ new.asset = old.asset /\ new.wants = old.wants
    /\ Len(old.history) <= Len(new.history)
    /\ \A i \in 1..Len(old.history) : new.history[i] = old.history[i]

\* Whoever was allowed to decide of a request stays allowed as its history grows.
MayAct(x, r, seen) ==
    /\ x.act.op # "raise"
    /\ OperationFor(x.act) = "decide_request" => Responsible(r, x.act.by, Len(r.history) + 1)
    /\ x.status # None => Had(r.asset, x.status, seen)

SessionHolds(x, files, seen) ==
    \/ x = Idle
    \/ x \in AskedRecords /\ files[x.id] # Absent /\ MayAct(x, files[x.id], seen)
    \/ x \in DraftRecords /\ Good(x.new, seen)
          /\ (x.basedOn # Absent => Continues(x.basedOn, x.new))

FilesHold == \A id \in Ids : ledger[id] = Absent \/ Good(ledger[id], reached)
SessionsHold == \A s \in Sessions : SessionHolds(session[s], ledger, reached)
StatusHolds ==
    /\ status \in [Assets -> Statuses] /\ reached \in Seen
    /\ \A a \in Assets : status[a] \in reached[a]
InboxHolds ==
    /\ dismissed \in [People -> SUBSET Ids] /\ looked \in [People -> SUBSET Ids]
    /\ \A p \in People : dismissed[p] \subseteq looked[p]
Shaped == ledger = [id \in Ids |-> ledger[id]] /\ session = [s \in Sessions |-> session[s]]

RequestsInv == Shaped /\ FilesHold /\ SessionsHold /\ StatusHolds /\ InboxHolds

-----------------------------------------------------------------------------
(* Histories. *)

LEMMA GoodIsThere == ASSUME NEW r, NEW seen, Good(r, seen) PROVE r # Absent /\ Len(r.history) >= 1
<1>1. Absent.history = <<>> /\ Len(<<>>) = 0
  BY DEF Absent
<1>2. Len(r.history) \in 1..MaxEvents /\ MaxEvents \in Nat
  BY RequestsAssumption DEF Good, Told
<1> QED
  BY <1>1, <1>2

LEMMA ToldReplays == ASSUME NEW r, Told(r) PROVE Replays(r)
<1> DEFINE h == r.history
           A == {i \in DOMAIN h : h[i].kind # "transitioned"}
<1>1. h \in Seq(Events) /\ DOMAIN h = 1..Len(h) /\ Len(h) \in Nat
  BY DEF Told, Requests
<1>2. A = Assignments(h) /\ A \subseteq Nat
  BY <1>1 DEF Assignments
<1>3. PICK l \in A : h[l].assignee = r.assignee /\ \A j \in A : j <= l
  BY <1>2 DEF Told, AssigneeIn
<1> DEFINE last == CHOOSE i \in A : \A j \in A : j <= i
<1>4. last \in A /\ \A j \in A : j <= last
  BY <1>3
<1>5. last = l
  <2>1. last \in Nat /\ l \in Nat /\ last <= l /\ l <= last
    BY <1>2, <1>3, <1>4
  <2> HIDE DEF last
  <2> QED
    BY <2>1
<1>6. h[last].assignee = r.assignee
  BY <1>3, <1>5
<1> HIDE DEF last
<1>7. /\ h[1].kind = "raised" /\ h[1].actor = r.author /\ h[1].state = "open"
      /\ h[Len(h)].state = r.state
      /\ \A i \in 2..Len(h) : Follows(r, i)
  BY DEF Told
<1> QED
  BY <1>6, <1>7 DEF Replays, Follows, last

LEMMA RaisedIsGood ==
    ASSUME NEW act \in Acts, act.op = "raise", NEW seen PROVE Good(Raised(act.by, act), seen)
<1> DEFINE r == Raised(act.by, act)
           e == [kind |-> "raised", actor |-> act.by, state |-> "open", assignee |-> Owner(act.asset)]
<1>1. /\ act.by \in People /\ act.asset \in Assets \cup {None} /\ act.wants \in Statuses \cup {None}
      /\ Owner(act.asset) \in People \cup {None} /\ MaxEvents \in Nat \ {0}
  BY RequestsAssumption DEF Askable, Owner
<1>2. e \in Events /\ <<e>> \in Seq(Events) /\ Len(<<e>>) = 1 /\ <<e>>[1] = e
  BY <1>1 DEF Events, States
<1>3. r = [author |-> act.by, asset |-> act.asset, wants |-> act.wants,
           assignee |-> Owner(act.asset), state |-> "open", history |-> <<e>>]
  BY DEF Raised
<1>4. r \in Requests /\ r.history = <<e>> /\ Len(r.history) = 1 /\ r.history[1] = e
      /\ r.author = act.by /\ r.state = "open" /\ r.assignee = Owner(act.asset)
  BY <1>1, <1>2, <1>3 DEF Requests, States
<1>5. e.kind = "raised" /\ e.actor = act.by /\ e.state = "open" /\ e.assignee = Owner(act.asset)
  OBVIOUS
<1> HIDE DEF r, e
<1>6. AssigneeIn(r.history, r.assignee)
  <2>1. Assignments(r.history) = {1}
    BY <1>4, <1>5 DEF Assignments
  <2> QED
    BY <1>4, <1>5, <2>1 DEF AssigneeIn
<1>7. Told(r)
  BY <1>1, <1>4, <1>5, <1>6 DEF Told
<1>8. Earned(r, seen) /\ DecidedRightly(r)
  BY <1>4 DEF Earned, DecidedRightly
<1> QED
  BY <1>7, <1>8 DEF Good, r

LEMMA GoodLater ==
    ASSUME NEW r, NEW seen, NEW later, Good(r, seen), \A a \in Assets : seen[a] \subseteq later[a]
    PROVE  Good(r, later)
  BY DEF Good, Earned, Had

LEMMA TransitionsAre ==
    \A s \in States : /\ Transitions[s] \subseteq States \ {"open"}
                      /\ Transitions[s] # {} => s \in {"open", "accepted"}
  BY DEF Transitions, States

\* One more event, of which the move was allowed.
LEMMA OneMoreEvent ==
    ASSUME NEW r, NEW seen, Good(r, seen), NEW e \in Events, NEW new \in Requests,
           Len(r.history) < MaxEvents,
           new.author = r.author, new.asset = r.asset, new.wants = r.wants,
           new.history = Append(r.history, e), new.state = e.state,
           Withdrawal(e) \/ Responsible(r, e.actor, Len(r.history) + 1),
           \/ e.kind = "assigned" /\ new.assignee = e.assignee /\ e.state = r.state
           \/ /\ e.kind = "transitioned" /\ new.assignee = r.assignee
              /\ e.state \in Transitions[r.state] /\ (e.state = "withdrawn" => e.actor = r.author)
              /\ e.state = "fulfilled" /\ r.wants # None => Had(r.asset, r.wants, seen)
    PROVE  Good(new, seen) /\ Continues(r, new)
<1> DEFINE h == r.history
           n == Len(h)
           k == new.history
<1>1. /\ r \in Requests /\ h \in Seq(Events) /\ n \in Nat /\ n >= 1 /\ n < MaxEvents
      /\ MaxEvents \in Nat
  BY RequestsAssumption, GoodIsThere DEF Good, Told, Requests
<1>2. /\ Len(k) = n + 1 /\ k[n + 1] = e /\ \A i \in 1..n : k[i] = h[i]
      /\ Len(new.history) = n + 1
  BY <1>1
<1>3. /\ h[1].kind = "raised" /\ h[1].actor = r.author /\ h[1].state = "open" /\ h[n].state = r.state
      /\ AssigneeIn(h, r.assignee) /\ \A i \in 2..n : Follows(r, i)
  BY DEF Good, Told
<1> HIDE DEF h, n, k
<1>4. Continues(r, new)
  BY <1>1, <1>2 DEF Continues, h, k, n
<1>5. AssigneeIn(k, new.assignee)
  <2>1. CASE e.kind = "assigned" /\ new.assignee = e.assignee
    <3>1. n + 1 \in Assignments(k) /\ \A j \in Assignments(k) : j <= n + 1
      BY <1>1, <1>2, <2>1 DEF Assignments
    <3> QED
      BY <1>2, <2>1, <3>1 DEF AssigneeIn
  <2>2. CASE e.kind = "transitioned" /\ new.assignee = r.assignee
    <3>1. Assignments(k) = Assignments(h)
      BY <1>1, <1>2, <2>2 DEF Assignments, n
    <3>2. Assignments(h) \subseteq 1..n
      BY DEF Assignments, n
    <3> QED
      BY <1>2, <1>3, <2>2, <3>1, <3>2 DEF AssigneeIn
  <2> QED
    BY <2>1, <2>2
<1>6. ASSUME NEW i \in 2..(n + 1) PROVE Follows(new, i)
  <2>1. CASE i \in 2..n
    <3>1. k[i] = h[i] /\ k[i - 1] = h[i - 1]
      BY <1>1, <1>2, <2>1
    <3> QED
      BY <1>3, <2>1, <3>1 DEF Follows, h, k
  <2>2. CASE i = n + 1
    <3>1. k[i] = e /\ k[i - 1] = h[n]
      BY <1>1, <1>2, <2>2
    <3>2. r.state \in States
      BY <1>1 DEF Requests
    <3>3. e.kind = "assigned" \/ (e.kind = "transitioned" /\ e.state # "open"
                                    /\ r.state \in {"open", "accepted"})
      BY <3>2, TransitionsAre
    <3>4. e.kind = "assigned" => e.kind # "transitioned" /\ e.state = r.state
      OBVIOUS
    <3>5. e.kind = "transitioned" /\ e.state = "withdrawn" => e.actor = new.author
      OBVIOUS
    <3> QED
      BY <1>3, <3>1, <3>3, <3>4, <3>5 DEF Follows, k
  <2> QED
    BY <1>1, <2>1, <2>2
<1>7. Told(new)
  <2>1. 1 \in 1..n /\ n + 1 \in 1..MaxEvents
    BY <1>1
  <2> QED
    BY <1>2, <1>3, <1>5, <1>6, <2>1 DEF Told, k
<1>8. Earned(new, seen)
  BY DEF Good, Earned
<1>9. ASSUME NEW i \in 2..(n + 1) PROVE Withdrawal(k[i]) \/ Responsible(new, k[i].actor, i)
  <2>1. \A p : Responsible(r, p, i) => Responsible(new, p, i)
    <3>1. \A j \in 1..(i - 1) : k[j] = h[j]
      BY <1>1, <1>2
    <3> QED
      BY <3>1 DEF Responsible, h, k
  <2>2. CASE i \in 2..n
    BY <1>1, <1>2, <2>1, <2>2 DEF Good, DecidedRightly, h, n
  <2>3. CASE i = n + 1
    BY <1>2, <2>1, <2>3 DEF n, h
  <2> QED
    BY <1>1, <2>2, <2>3
<1>10. DecidedRightly(new)
  BY <1>2, <1>9 DEF DecidedRightly, k
<1> QED
  BY <1>4, <1>7, <1>8, <1>10 DEF Good

LEMMA SameStart ==
    ASSUME NEW S, NEW h \in Seq(S), NEW k \in Seq(S), Len(h) <= Len(k),
           \A i \in 1..Len(h) : k[i] = h[i]
    PROVE  Len(k) >= Len(h) /\ SubSeq(k, 1, Len(h)) = h
<1>1. Len(h) \in Nat /\ Len(k) \in Nat
  OBVIOUS
<1> DEFINE g == SubSeq(k, 1, Len(h))
<1>2. g \in Seq(S) /\ Len(g) = Len(h) /\ \A i \in 1..Len(h) : g[i] = h[i]
  BY <1>1
<1> HIDE DEF g
<1>3. g = h
  BY <1>2
<1> QED
  BY <1>1, <1>3 DEF g

-----------------------------------------------------------------------------
(* Steps. *)

LEMMA SessionLater ==
    ASSUME NEW x, NEW files, NEW seen, NEW later, SessionHolds(x, files, seen),
           \A a \in Assets : seen[a] \subseteq later[a]
    PROVE  SessionHolds(x, files, later)
  BY GoodLater DEF SessionHolds, MayAct, Had

LEMMA RequestsStart == RequestsInit => RequestsInv
<1> SUFFICES ASSUME RequestsInit PROVE RequestsInv
  OBVIOUS
<1>1. Shaped /\ FilesHold /\ SessionsHold
  BY DEF RequestsInit, Shaped, FilesHold, SessionsHold, SessionHolds
<1>2. StatusHolds
  BY DEF RequestsInit, StatusHolds, Seen
<1>3. InboxHolds
  BY DEF RequestsInit, InboxHolds
<1> QED
  BY <1>1, <1>2, <1>3 DEF RequestsInv

\* A step of one handler that changes only where it is.
LEMMA OneSessionMoves ==
    ASSUME RequestsInv, NEW s \in Sessions, NEW x, session' = [session EXCEPT ![s] = x],
           SessionHolds(x, ledger, reached), UNCHANGED <<ledger, status, reached, dismissed, looked>>
    PROVE  RequestsInv'
<1>1. session' = [t \in Sessions |-> session'[t]]
      /\ \A t \in Sessions : session'[t] = IF t = s THEN x ELSE session[t]
  BY DEF RequestsInv, Shaped
<1>2. \A t \in Sessions : SessionHolds(session'[t], ledger', reached')
  BY <1>1 DEF RequestsInv, SessionsHold
<1>3. SessionsHold'
  BY <1>2 DEF SessionsHold
<1>4. Shaped' /\ FilesHold' /\ StatusHolds' /\ InboxHolds'
  BY <1>1 DEF RequestsInv, Shaped, FilesHold, StatusHolds, InboxHolds
<1> QED
  BY <1>3, <1>4 DEF RequestsInv

LEMMA RaiseHolds ==
    ASSUME RequestsInv, NEW s \in Sessions, NEW id \in Ids, NEW act \in Acts, Raise(s, id, act)
    PROVE  RequestsInv'
<1> DEFINE x == [stage |-> "writing", id |-> id, basedOn |-> Absent, new |-> Raised(act.by, act)]
<1>1. Good(Raised(act.by, act), reached)
  BY RaisedIsGood DEF Raise
<1>2. x \in DraftRecords /\ x.basedOn = Absent /\ x.new = Raised(act.by, act)
  BY <1>1 DEF DraftRecords, Good, Told
<1>3. /\ session' = [session EXCEPT ![s] = x] /\ UNCHANGED <<ledger, status, reached, dismissed, looked>>
  BY DEF Raise, Enter
<1> HIDE DEF x
<1>4. SessionHolds(x, ledger, reached)
  BY <1>1, <1>2 DEF SessionHolds
<1> QED
  BY <1>3, <1>4, OneSessionMoves

LEMMA AskHolds ==
    ASSUME RequestsInv, NEW s \in Sessions, NEW id \in Ids, NEW act \in Acts, Ask(s, id, act)
    PROVE  RequestsInv'
<1> DEFINE r == ledger[id]
           x == [stage |-> "asked", id |-> id, act |-> act, status |-> StatusOf(r)]
<1>1. /\ act.op # "raise" /\ r # Absent
      /\ Decide(ActorOf[act.by], OperationFor(act), SubjectOf(r), None)
      /\ session' = [session EXCEPT ![s] = x] /\ UNCHANGED <<ledger, status, reached, dismissed, looked>>
  BY DEF Ask, Enter
<1>2. Good(r, reached) /\ r \in Requests
  BY <1>1 DEF RequestsInv, FilesHold, Good, Told
<1>3. act.by \in People /\ act.by # None /\ ActorOf[act.by].id = act.by
  BY RequestsAssumption DEF Askable
<1>4. /\ StatusOf(r) \in Statuses \cup {None}
      /\ StatusOf(r) # None => Had(r.asset, StatusOf(r), reached)
  BY DEF StatusOf, Had, RequestsInv, StatusHolds
<1>5. ASSUME OperationFor(act) = "decide_request"
      PROVE  Responsible(r, act.by, Len(r.history) + 1)
  <2>1. RoleRule(ActorOf[act.by], "decide_request", SubjectOf(r))
    BY <1>1, <1>5 DEF Decide, ReadOnly
  <2>2. \/ act.by = Owner(r.asset) \/ Director(ActorOf[act.by])
        \/ act.by = r.assignee
    BY <1>3, <2>1 DEF RoleRule, SubjectOf, ByAnyone, ByAuthor, ByAuthorOrOwner, ByOwner,
                      ByAssigneeOrOwner
  <2>3. CASE act.by = r.assignee
    <3>1. PICK l \in Assignments(r.history) : r.history[l].assignee = act.by
      BY <1>2, <2>3 DEF Good, Told, AssigneeIn
    <3>2. l \in 1..((Len(r.history) + 1) - 1) /\ r.history[l].kind # "transitioned"
      <4>1. Len(r.history) \in Nat
        BY <1>2 DEF Requests
      <4> QED
        BY <3>1, <4>1 DEF Assignments
    <3> QED
      BY <3>1, <3>2 DEF Responsible
  <2> QED
    BY <2>2, <2>3 DEF Responsible
<1>6. x \in AskedRecords /\ x.id = id /\ x.act = act /\ x.status = StatusOf(r)
  BY <1>4 DEF AskedRecords
<1> HIDE DEF x
<1>7. SessionHolds(x, ledger, reached)
  BY <1>1, <1>4, <1>5, <1>6 DEF SessionHolds, MayAct
<1> QED
  BY <1>1, <1>7, OneSessionMoves

LEMMA StagesAre ==
    /\ Idle.stage = "idle" /\ \A x \in AskedRecords : x.stage = "asked"
    /\ \A x \in DraftRecords : x.stage = "writing"
  BY DEF Idle, AskedRecords, DraftRecords

\* What a handler that was allowed to ask makes of the request as it is now.
LEMMA AskedMoves ==
    ASSUME NEW seen, NEW r, Good(r, seen), NEW x \in AskedRecords, MayAct(x, r, seen),
           Len(r.history) < MaxEvents
    PROVE  /\ x.act.op = "assign" =>
                /\ Good(Reassigned(r, x.act.by, x.act.to), seen)
                /\ Continues(r, Reassigned(r, x.act.by, x.act.to))
           /\ x.act.op = "transition" /\ MayTransition(r, x.act.by, x.act.to, x.status) =>
                /\ Good(Moved(r, x.act.by, x.act.to), seen)
                /\ Continues(r, Moved(r, x.act.by, x.act.to))
<1> DEFINE p == x.act.by
           to == x.act.to
<1>1. /\ x.act \in Acts /\ Askable(x.act) /\ p \in People /\ x.act.op # "raise"
      /\ r \in Requests /\ r.history \in Seq(Events) /\ r.state \in States
  BY RequestsAssumption DEF AskedRecords, MayAct, Good, Told, Askable, Requests
<1>2. ASSUME x.act.op = "assign"
      PROVE  /\ Good(Reassigned(r, p, to), seen) /\ Continues(r, Reassigned(r, p, to))
  <2> DEFINE e == [kind |-> "assigned", actor |-> p, state |-> r.state, assignee |-> to]
             new == Reassigned(r, p, to)
  <2>1. to \in People \cup {None} /\ OperationFor(x.act) = "decide_request"
    BY <1>1, <1>2 DEF Askable, OperationFor
  <2>2. e \in Events /\ e.kind = "assigned" /\ e.actor = p /\ e.state = r.state /\ e.assignee = to
    BY <1>1, <2>1 DEF Events
  <2>3. new = [r EXCEPT !.assignee = to, !.history = Append(r.history, e)]
    BY DEF Reassigned
  <2> HIDE DEF e, new
  <2>4. Append(r.history, e) \in Seq(Events)
    BY <1>1, <2>2
  <2>5. /\ new \in Requests /\ new.author = r.author /\ new.asset = r.asset /\ new.wants = r.wants
        /\ new.history = Append(r.history, e) /\ new.state = r.state /\ new.assignee = to
    BY <1>1, <2>1, <2>3, <2>4 DEF Requests
  <2>6. Responsible(r, p, Len(r.history) + 1)
    BY <2>1 DEF MayAct
  <2>7. Good(new, seen) /\ Continues(r, new)
    BY <2>2, <2>5, <2>6, OneMoreEvent
  <2> QED
    BY <2>7 DEF new
<1>3. ASSUME x.act.op = "transition", MayTransition(r, p, to, x.status)
      PROVE  /\ Good(Moved(r, p, to), seen) /\ Continues(r, Moved(r, p, to))
  <2> DEFINE e == [kind |-> "transitioned", actor |-> p, state |-> to, assignee |-> None]
             new == Moved(r, p, to)
  <2>1. /\ to \in States /\ to \in Transitions[r.state] /\ (to = "withdrawn" => p = r.author)
        /\ to = "fulfilled" => Fulfils(r, x.status)
        /\ to # "withdrawn" => OperationFor(x.act) = "decide_request"
    BY <1>1, <1>3 DEF Askable, MayTransition, OperationFor
  <2>2. /\ e \in Events /\ e.kind = "transitioned" /\ e.actor = p /\ e.state = to
    BY <1>1, <2>1 DEF Events
  <2>3. new = [r EXCEPT !.state = to, !.history = Append(r.history, e)]
    BY DEF Moved
  <2> HIDE DEF e, new
  <2>4. Append(r.history, e) \in Seq(Events)
    BY <1>1, <2>2
  <2>5. /\ new \in Requests /\ new.author = r.author /\ new.asset = r.asset /\ new.wants = r.wants
        /\ new.history = Append(r.history, e) /\ new.state = to /\ new.assignee = r.assignee
    BY <1>1, <2>1, <2>3, <2>4 DEF Requests
  <2>6. Withdrawal(e) \/ Responsible(r, p, Len(r.history) + 1)
    BY <2>1, <2>2 DEF MayAct, Withdrawal
  <2>7. to = "fulfilled" /\ r.wants # None => Had(r.asset, r.wants, seen)
    BY <2>1 DEF Fulfils, MayAct
  <2>8. Good(new, seen) /\ Continues(r, new)
    BY <2>1, <2>2, <2>5, <2>6, <2>7, OneMoreEvent
  <2> QED
    BY <2>8 DEF new
<1> QED
  BY <1>2, <1>3

LEMMA ComposeHolds ==
    ASSUME RequestsInv, NEW s \in Sessions, Compose(s) PROVE RequestsInv'
<1> DEFINE x == session[s]
           r == ledger[x.id]
<1>1. x \in AskedRecords /\ x.id \in Ids /\ r # Absent /\ MayAct(x, r, reached)
  <2>1. x.stage = "asked"
    BY DEF Compose
  <2>2. SessionHolds(x, ledger, reached)
    BY DEF RequestsInv, SessionsHold
  <2>3. x \in AskedRecords /\ r # Absent /\ MayAct(x, r, reached)
    BY <2>1, <2>2, StagesAre DEF SessionHolds
  <2> QED
    BY <2>3 DEF AskedRecords
<1>2. Good(r, reached) /\ r \in Requests /\ Len(r.history) < MaxEvents
  BY <1>1 DEF RequestsInv, FilesHold, Compose, Good, Told
<1>3. PICK new :
        /\ session' = [session EXCEPT ![s] = [stage |-> "writing", id |-> x.id, basedOn |-> r, new |-> new]]
        /\ \/ x.act.op = "assign" /\ new = Reassigned(r, x.act.by, x.act.to)
           \/ /\ x.act.op = "transition" /\ new = Moved(r, x.act.by, x.act.to)
              /\ MayTransition(r, x.act.by, x.act.to, x.status)
  BY DEF Compose, Enter
<1>4. Good(new, reached) /\ Continues(r, new)
  BY <1>1, <1>2, <1>3, AskedMoves
<1> DEFINE y == [stage |-> "writing", id |-> x.id, basedOn |-> r, new |-> new]
<1>5. y \in DraftRecords /\ y.basedOn = r /\ y.new = new
  BY <1>1, <1>2, <1>4 DEF DraftRecords, Good, Told
<1>6. session' = [session EXCEPT ![s] = y] /\ UNCHANGED <<ledger, status, reached, dismissed, looked>>
  BY <1>3 DEF Compose
<1> HIDE DEF y, x, r
<1>7. SessionHolds(y, ledger, reached)
  BY <1>4, <1>5 DEF SessionHolds
<1> QED
  BY <1>6, <1>7, OneSessionMoves

\* A write that was based on the request as it is.
LEMMA RecordHolds ==
    ASSUME RequestsInv, NEW s \in Sessions, Record(s)
    PROVE  /\ RequestsInv'
           /\ \A id \in Ids : ledger[id] # Absent => Continues(ledger[id], ledger'[id])
<1> DEFINE x == session[s]
<1>1. x \in DraftRecords /\ x.id \in Ids /\ Good(x.new, reached)
      /\ (x.basedOn # Absent => Continues(x.basedOn, x.new))
  <2>1. x.stage = "writing" /\ SessionHolds(x, ledger, reached)
    BY DEF Record, RequestsInv, SessionsHold
  <2>2. x \in DraftRecords /\ Good(x.new, reached)
        /\ (x.basedOn # Absent => Continues(x.basedOn, x.new))
    BY <2>1, StagesAre DEF SessionHolds
  <2> QED
    BY <2>2 DEF DraftRecords
<1>2. /\ ledger[x.id] = x.basedOn /\ ledger' = [ledger EXCEPT ![x.id] = x.new]
      /\ session' = [session EXCEPT ![s] = Idle] /\ UNCHANGED <<status, reached, dismissed, looked>>
  BY DEF Record, StillBasedOn, Enter
<1>3. /\ ledger' = [id \in Ids |-> ledger'[id]] /\ session' = [t \in Sessions |-> session'[t]]
      /\ \A id \in Ids : ledger'[id] = IF id = x.id THEN x.new ELSE ledger[id]
      /\ \A t \in Sessions : session'[t] = IF t = s THEN Idle ELSE session[t]
  BY <1>2 DEF RequestsInv, Shaped
<1> HIDE DEF x
<1>4. \A id \in Ids : ledger[id] # Absent => Continues(ledger[id], ledger'[id])
  <2> SUFFICES ASSUME NEW id \in Ids, ledger[id] # Absent PROVE Continues(ledger[id], ledger'[id])
    OBVIOUS
  <2>1. CASE id = x.id
    BY <1>1, <1>2, <1>3, <2>1
  <2>2. CASE id # x.id
    <3>1. Len(ledger[id].history) \in Nat
      BY DEF RequestsInv, FilesHold, Good, Told, Requests
    <3> QED
      BY <1>3, <2>2, <3>1 DEF Continues
  <2> QED
    BY <2>1, <2>2
<1>5. FilesHold'
  BY <1>1, <1>2, <1>3 DEF RequestsInv, FilesHold
<1>6. ASSUME NEW t \in Sessions PROVE SessionHolds(session'[t], ledger', reached')
  <2> DEFINE y == session[t]
  <2>1. CASE t = s
    BY <1>3, <2>1 DEF SessionHolds
  <2>2. CASE t # s /\ y \in AskedRecords /\ ledger[y.id] # Absent /\ MayAct(y, ledger[y.id], reached)
    <3> DEFINE old == ledger[y.id]
               new == ledger'[y.id]
    <3>1. y.id \in Ids
      BY <2>2 DEF AskedRecords
    <3>2. Continues(old, new) /\ Good(old, reached)
      BY <1>4, <2>2, <3>1 DEF RequestsInv, FilesHold
    <3>3. new # Absent /\ Good(new, reached)
      BY <1>1, <1>3, <2>2, <3>1, <3>2, GoodIsThere
    <3>4. Len(old.history) \in Nat /\ Len(new.history) \in Nat /\ Len(old.history) <= Len(new.history)
      <4>1. \A r : Good(r, reached) => Len(r.history) \in Nat
        BY DEF Good, Told, Requests
      <4> HIDE DEF old, new
      <4> QED
        BY <3>2, <3>3, <4>1 DEF Continues
    <3>5. \A p : Responsible(old, p, Len(old.history) + 1) => Responsible(new, p, Len(new.history) + 1)
      <4>1. old.asset = new.asset
            /\ \A j \in 1..Len(old.history) : new.history[j] = old.history[j]
        BY <3>2 DEF Continues
      <4>2. /\ \A j \in 1..((Len(old.history) + 1) - 1) :
                  j \in 1..((Len(new.history) + 1) - 1) /\ new.history[j] = old.history[j]
        BY <3>4, <4>1
      <4> HIDE DEF old, new
      <4> QED
        BY <4>1, <4>2 DEF Responsible
    <3>6. MayAct(y, new, reached)
      BY <2>2, <3>2, <3>5 DEF MayAct, Continues
    <3>7. session'[t] = y
      BY <1>3, <2>2
    <3> HIDE DEF y
    <3>8. SessionHolds(y, ledger', reached')
      BY <1>2, <2>2, <3>3, <3>6 DEF SessionHolds
    <3> QED
      BY <3>7, <3>8
  <2>3. CASE t # s /\ ~(y \in AskedRecords /\ ledger[y.id] # Absent /\ MayAct(y, ledger[y.id], reached))
    <3>1. SessionHolds(y, ledger, reached) /\ session'[t] = y
      BY <1>3, <2>3 DEF RequestsInv, SessionsHold
    <3> QED
      BY <1>2, <2>3, <3>1 DEF SessionHolds
  <2> QED
    BY <2>1, <2>2, <2>3
<1>7. SessionsHold'
  BY <1>6 DEF SessionsHold
<1>8. Shaped' /\ StatusHolds' /\ InboxHolds'
  BY <1>2, <1>3 DEF RequestsInv, Shaped, StatusHolds, InboxHolds
<1> QED
  BY <1>4, <1>5, <1>7, <1>8 DEF RequestsInv

LEMMA InboxMoves ==
    ASSUME RequestsInv, UNCHANGED <<ledger, status, reached, session>>, InboxHolds'
    PROVE  RequestsInv'
  BY DEF RequestsInv, Shaped, FilesHold, SessionsHold, StatusHolds

LEMMA MoveAssetHolds ==
    ASSUME RequestsInv, NEW a \in Assets, NEW to \in Statuses, MoveAsset(a, to) PROVE RequestsInv'
<1>1. /\ status' = [status EXCEPT ![a] = to] /\ reached' = [reached EXCEPT ![a] = reached[a] \cup {to}]
      /\ UNCHANGED <<ledger, session, dismissed, looked>>
  BY DEF MoveAsset
<1>2. StatusHolds' /\ \A b \in Assets : reached[b] \subseteq reached'[b]
  BY <1>1 DEF RequestsInv, StatusHolds, Seen
<1>3. FilesHold'
  BY <1>1, <1>2, GoodLater DEF RequestsInv, FilesHold
<1>4. \A s \in Sessions : SessionHolds(session[s], ledger, reached')
  BY <1>2, SessionLater DEF RequestsInv, SessionsHold
<1>5. SessionsHold'
  BY <1>1, <1>4 DEF SessionsHold
<1> QED
  BY <1>1, <1>2, <1>3, <1>5 DEF RequestsInv, Shaped, InboxHolds

LEMMA RequestsStep ==
    RequestsInv /\ [RequestsNext]_requestVars =>
        /\ RequestsInv'
        /\ \A id \in Ids : ledger[id] # Absent =>
              ledger'[id] = ledger[id] \/ Continues(ledger[id], ledger'[id])
<1> SUFFICES ASSUME RequestsInv, [RequestsNext]_requestVars
             PROVE  /\ RequestsInv'
                    /\ \A id \in Ids : ledger[id] # Absent =>
                          ledger'[id] = ledger[id] \/ Continues(ledger[id], ledger'[id])
  OBVIOUS
<1>1. ASSUME NEW s \in Sessions, NEW id \in Ids, NEW act \in Acts, Raise(s, id, act) \/ Ask(s, id, act)
      PROVE  RequestsInv' /\ ledger' = ledger
  BY <1>1, RaiseHolds, AskHolds DEF Raise, Ask
<1>2. ASSUME NEW s \in Sessions, Compose(s) PROVE RequestsInv' /\ ledger' = ledger
  BY <1>2, ComposeHolds DEF Compose
<1>3. ASSUME NEW s \in Sessions, Refuse(s) \/ Refused(s) PROVE RequestsInv' /\ ledger' = ledger
  <2>1. session' = [session EXCEPT ![s] = Idle] /\ UNCHANGED <<ledger, status, reached, dismissed, looked>>
    BY <1>3 DEF Refuse, Refused, Enter
  <2>2. SessionHolds(Idle, ledger, reached)
    BY DEF SessionHolds
  <2> QED
    BY <2>1, <2>2, OneSessionMoves
<1>4. ASSUME NEW s \in Sessions, Record(s)
      PROVE  RequestsInv' /\ \A id \in Ids : ledger[id] # Absent => Continues(ledger[id], ledger'[id])
  BY <1>4, RecordHolds
<1>5. ASSUME NEW p \in Readers, NEW id \in Ids, Dismiss(p, id) PROVE RequestsInv' /\ ledger' = ledger
  <2>1. /\ dismissed' = [dismissed EXCEPT ![p] = dismissed[p] \cup {id}]
        /\ looked' = [looked EXCEPT ![p] = looked[p] \cup {id}]
        /\ UNCHANGED <<ledger, status, reached, session>>
    BY <1>5 DEF Dismiss
  <2>2. InboxHolds'
    BY <2>1 DEF RequestsInv, InboxHolds
  <2> QED
    BY <2>1, <2>2, InboxMoves
<1>6. ASSUME NEW a \in Assets, NEW to \in Statuses, MoveAsset(a, to) PROVE RequestsInv' /\ ledger' = ledger
  BY <1>6, MoveAssetHolds DEF MoveAsset
<1>7. CASE DropDismissals
  <2>1. InboxHolds' /\ UNCHANGED <<ledger, status, reached, session>>
    BY <1>7 DEF DropDismissals, RequestsInv, InboxHolds
  <2> QED
    BY <2>1, InboxMoves
<1>8. CASE UNCHANGED requestVars
  BY <1>8, InboxMoves DEF requestVars, RequestsInv, InboxHolds
<1> QED
  BY <1>1, <1>2, <1>3, <1>4, <1>5, <1>6, <1>7, <1>8 DEF RequestsNext

LEMMA RequestsImply ==
    RequestsInv => RequestsTypeOK /\ HistoriesReplay /\ FulfilledWasReached
                     /\ DecidersWereResponsible /\ UnreadUntilDismissed
<1> SUFFICES ASSUME RequestsInv PROVE RequestsTypeOK /\ HistoriesReplay /\ FulfilledWasReached
                     /\ DecidersWereResponsible /\ UnreadUntilDismissed
  OBVIOUS
<1>1. \A id \in Recorded : id \in Ids /\ Good(ledger[id], reached)
  BY DEF Recorded, RequestsInv, FilesHold
<1>2. HistoriesReplay
  BY <1>1, ToldReplays DEF HistoriesReplay, Good
<1>3. FulfilledWasReached
  BY <1>1 DEF FulfilledWasReached, Good, Earned, Had
<1>4. DecidersWereResponsible
  BY <1>1 DEF DecidersWereResponsible, Good, DecidedRightly, Withdrawal
<1>5. UnreadUntilDismissed
  BY DEF UnreadUntilDismissed, Unread, RequestsInv, InboxHolds
<1>6. RequestsTypeOK
  <2>1. \A s \in Sessions : session[s] \in SessionRecords \cup {Idle}
    BY DEF RequestsInv, SessionsHold, SessionHolds, SessionRecords, AskedRecords, DraftRecords
  <2>2. \A id \in Ids : ledger[id] = Absent \/
          (ledger[id] \in Requests /\ Len(ledger[id].history) \in 1..MaxEvents)
    BY DEF RequestsInv, FilesHold, Good, Told
  <2> QED
    BY <2>1, <2>2 DEF RequestsTypeOK, RequestsInv, StatusHolds, InboxHolds, Seen
<1> QED
  BY <1>2, <1>3, <1>4, <1>5, <1>6

LEMMA NothingRewrites ==
    RequestsInv /\ RequestsInv' /\ [RequestsNext]_requestVars => NothingIsRewritten
<1> SUFFICES ASSUME RequestsInv, RequestsInv', [RequestsNext]_requestVars, NEW id \in Recorded
             PROVE  /\ Len(ledger'[id].history) >= Len(ledger[id].history)
                    /\ SubSeq(ledger'[id].history, 1, Len(ledger[id].history)) = ledger[id].history
  BY DEF NothingIsRewritten
<1> DEFINE h == ledger[id].history
           k == ledger'[id].history
<1>1. id \in Ids /\ ledger[id] # Absent
  BY DEF Recorded
<1>2. ledger'[id] = ledger[id] \/ Continues(ledger[id], ledger'[id])
  BY <1>1, RequestsStep
<1>3. Good(ledger[id], reached)
  BY <1>1 DEF RequestsInv, FilesHold
<1>4. h \in Seq(Events) /\ Len(h) \in Nat /\ Len(h) >= 1
  BY <1>3, GoodIsThere DEF Good, Told, Requests
<1>5. Len(h) <= Len(k) /\ \A i \in 1..Len(h) : k[i] = h[i]
  BY <1>2, <1>4 DEF Continues
<1>6. k \in Seq(Events)
  <2>1. ledger'[id] # Absent
    <3>1. Absent.history = <<>> /\ Len(<<>>) = 0
      BY DEF Absent
    <3> QED
      BY <1>4, <1>5, <3>1
  <2>2. Good(ledger'[id], reached')
    BY <1>1, <2>1 DEF RequestsInv, FilesHold
  <2> QED
    BY <2>2 DEF Good, Told, Requests
<1> HIDE DEF h, k
<1>7. Len(k) >= Len(h) /\ SubSeq(k, 1, Len(h)) = h
  BY <1>4, <1>5, <1>6, SameStart
<1> QED
  BY <1>7 DEF h, k

\* For any people, assets, service processes and lengths of history: the state of a
\* request is what its history says, every decision in it was made by somebody
\* responsible, what was fulfilled had been reached, no event is lost or rewritten
\* by two handlers at once, and an item stays unread until its reader dismisses it.
THEOREM RequestsStayHonoured == RequestsSpec => RequestsAreHonoured
<1>1. RequestsInit => RequestsInv
  BY RequestsStart
<1>2. RequestsInv /\ [RequestsNext]_requestVars => RequestsInv'
  BY RequestsStep
<1>3. RequestsInv => /\ RequestsTypeOK
                     /\ HistoriesReplay
                     /\ FulfilledWasReached
                     /\ DecidersWereResponsible
                     /\ UnreadUntilDismissed
  BY RequestsImply
<1>4. RequestsInv /\ RequestsInv' /\ [RequestsNext]_requestVars => NothingIsRewritten
  BY NothingRewrites
<1> QED
  BY <1>1, <1>2, <1>3, <1>4, PTL DEF RequestsSpec, RequestsAreHonoured

-----------------------------------------------------------------------------
(* Suggestions: what an acceptance has written was declared, by one who may. *)

Describing ==
    [stage : {"asking", "listing"}, asset : Catalogue, image : Images,
     excluded : SUBSET (Terms \cup {NameOf[a] : a \in Catalogue})]
Accepting ==
    [stage : {"loaded", "checked", "written"}, asset : Catalogue, image : Images, value : Terms,
     text : Written \cup {None}, by : Deciders, read : SUBSET Terms]
Rejecting == [stage : {"rejecting"}, image : Images, value : Terms, by : Deciders]

\* An acceptance under way is an owner's, of a term that is one, and what it has
\* written was declared.
CallHolds(x, declared) ==
    \/ x = NoCall
    \/ x \in Describing
    \/ x \in Rejecting
    \/ /\ x \in Accepting
       /\ MayAccept(x.by, x.asset, None)
       /\ x.stage # "loaded" => TermOf(x) \in Terms
       /\ x.stage = "written" => <<x.asset, TermOf(x)>> \in declared

Records == [asset : Catalogue, terms : SUBSET Terms]
Decisions == [state : {"accepted", "rejected"}, by : Deciders, written : Terms]

StoresTyped ==
    /\ aliases \in [Catalogue -> SUBSET Terms]
    /\ DOMAIN derived \subseteq Images /\ derived \in [DOMAIN derived -> Records]
    /\ DOMAIN decisions \subseteq Values /\ decisions \in [DOMAIN decisions -> Decisions]
    /\ offered.values \subseteq Terms
    /\ asked \in 0..MaxAsked /\ outside \in 0..MaxOutside

CallsHold ==
    /\ call = [c \in Callers |-> call[c]]
    /\ \A c \in Callers : CallHolds(call[c], ever)

SuggestionsInv == StoresTyped /\ CallsHold /\ AcceptedWasDeclared

LEMMA CallStages ==
    ASSUME NEW x, NEW declared, CallHolds(x, declared)
    PROVE  /\ x.stage \in {"asking", "listing"} => x \in Describing
           /\ x.stage \in {"loaded", "checked", "written"} =>
                /\ x \in Accepting /\ MayAccept(x.by, x.asset, None)
                /\ x.stage # "loaded" => TermOf(x) \in Terms
                /\ x.stage = "written" => <<x.asset, TermOf(x)>> \in declared
           /\ x.stage = "rejecting" => x \in Rejecting
           /\ x.stage \in {"none", "asking", "listing", "loaded", "checked", "written", "rejecting"}
<1>1. NoCall.stage = "none"
  BY DEF NoCall
<1>2. \A y \in Describing : y.stage \in {"asking", "listing"}
  BY DEF Describing
<1>3. \A y \in Accepting : y.stage \in {"loaded", "checked", "written"}
  BY DEF Accepting
<1>4. \A y \in Rejecting : y.stage = "rejecting"
  BY DEF Rejecting
<1> QED
  BY <1>1, <1>2, <1>3, <1>4 DEF CallHolds

LEMMA CallLater ==
    ASSUME NEW x, NEW declared, NEW later, CallHolds(x, declared), declared \subseteq later
    PROVE  CallHolds(x, later)
  BY DEF CallHolds

\* What a step declares stays declared, and one call at most moves.
LEMMA OneCallMoves ==
    ASSUME CallsHold, NEW c \in Callers, NEW x, call' = [call EXCEPT ![c] = x],
           ever \subseteq ever', CallHolds(x, ever')
    PROVE  CallsHold'
<1>1. /\ call' = [d \in Callers |-> call'[d]]
      /\ \A d \in Callers : call'[d] = IF d = c THEN x ELSE call[d]
  BY DEF CallsHold
<1>2. \A d \in Callers : CallHolds(call[d], ever')
  BY CallLater DEF CallsHold
<1> QED
  BY <1>1, <1>2 DEF CallsHold

LEMMA NoCallMoves ==
    ASSUME CallsHold, call' = call, ever \subseteq ever' PROVE CallsHold'
<1>1. \A d \in Callers : CallHolds(call[d], ever')
  BY CallLater DEF CallsHold
<1> QED
  BY <1>1 DEF CallsHold

LEMMA CallEnds ==
    ASSUME CallsHold, NEW c \in Callers, Ends(c), ever \subseteq ever' PROVE CallsHold'
<1>1. call' = [call EXCEPT ![c] = NoCall] /\ CallHolds(NoCall, ever')
  BY DEF Ends, CallHolds
<1> QED
  BY <1>1, OneCallMoves

LEMMA DeclaredStays ==
    ASSUME AcceptedWasDeclared, decisions' = decisions, ever \subseteq ever'
    PROVE  AcceptedWasDeclared'
  BY DEF AcceptedWasDeclared

LEMMA NothingOffered ==
    ASSUME offered' = Unoffered PROVE offered'.values = {} /\ offered'.values \subseteq Terms
  BY DEF Unoffered

\* A step that neither stores nor declares anything.
LEMMA OnlyCalls ==
    ASSUME SuggestionsInv, UNCHANGED <<aliases, derived, decisions, ever, outside>>,
           offered'.values \subseteq Terms, asked' \in 0..MaxAsked, CallsHold'
    PROVE  SuggestionsInv'
<1>1. AcceptedWasDeclared'
  BY DeclaredStays DEF SuggestionsInv
<1>2. StoresTyped'
  BY DEF SuggestionsInv, StoresTyped
<1> QED
  BY <1>1, <1>2 DEF SuggestionsInv

LEMMA SuggestionsStart == SuggestionsInit => SuggestionsInv
<1> SUFFICES ASSUME SuggestionsInit PROVE SuggestionsInv
  OBVIOUS
<1>1. /\ DOMAIN derived = {} /\ derived \in [{} -> Records]
      /\ DOMAIN decisions = {} /\ decisions \in [{} -> Decisions]
      /\ MaxAsked \in Nat /\ MaxOutside \in Nat /\ offered.values = {}
  BY SuggestionsAssumption DEF SuggestionsInit, Unoffered
<1>2. StoresTyped
  BY <1>1 DEF SuggestionsInit, StoresTyped
<1>3. CallsHold
  BY DEF SuggestionsInit, CallsHold, CallHolds
<1>4. AcceptedWasDeclared
  BY <1>1 DEF AcceptedWasDeclared
<1> QED
  BY <1>2, <1>3, <1>4 DEF SuggestionsInv

LEMMA CountedStays ==
    ASSUME SuggestionsInv, Counted PROVE asked' \in 0..MaxAsked
  BY SuggestionsAssumption DEF Counted, SuggestionsInv, StoresTyped

LEMMA DescribeHolds ==
    ASSUME SuggestionsInv, NEW c \in Callers, NEW a \in Catalogue, NEW i \in Images, Describe(c, a, i)
    PROVE  SuggestionsInv'
<1> DEFINE x == [stage |-> IF i \in DOMAIN derived THEN "listing" ELSE "asking",
                 asset |-> a, image |-> i, excluded |-> Excluded(a)]
<1>1. /\ call' = [call EXCEPT ![c] = x] /\ offered' = Unoffered
      /\ UNCHANGED <<aliases, derived, decisions, ever, asked, outside>>
  BY DEF Describe, Starts
<1>2. x \in Describing
  BY DEF Describing, Excluded, SuggestionsInv, StoresTyped
<1> HIDE DEF x
<1>3. CallsHold'
  BY <1>1, <1>2, OneCallMoves DEF SuggestionsInv, CallHolds
<1>4. asked' \in 0..MaxAsked
  BY <1>1 DEF SuggestionsInv, StoresTyped
<1> QED
  BY <1>1, <1>3, <1>4, NothingOffered, OnlyCalls

LEMMA GenerateHolds ==
    ASSUME SuggestionsInv, NEW c \in Callers, NEW terms \in SUBSET Terms, Generate(c, terms)
    PROVE  SuggestionsInv'
<1> DEFINE x == call[c]
           r == [asset |-> x.asset, terms |-> terms \ x.excluded]
<1>1. /\ x.stage = "asking" /\ call' = [call EXCEPT ![c].stage = "listing"]
      /\ derived' = [j \in DOMAIN derived \cup {x.image} |-> IF j = x.image THEN r ELSE derived[j]]
      /\ offered' = Unoffered /\ UNCHANGED <<aliases, decisions, ever, outside>>
  BY DEF Generate, PutDerived, Goes
<1>2. x \in Describing
  BY <1>1, CallStages DEF SuggestionsInv, CallsHold
<1>3. x.image \in Images /\ r \in Records
  BY <1>2 DEF Describing, Records
<1>4. [x EXCEPT !.stage = "listing"] \in Describing
  BY <1>2 DEF Describing
<1>5. CallsHold'
  <2>1. call' = [call EXCEPT ![c] = [x EXCEPT !.stage = "listing"]]
    BY <1>1
  <2> QED
    BY <1>1, <1>4, <2>1, OneCallMoves DEF SuggestionsInv, CallHolds
<1> HIDE DEF x, r
<1>6. DOMAIN derived' \subseteq Images /\ derived' \in [DOMAIN derived' -> Records]
  <2>1. DOMAIN derived' = DOMAIN derived \cup {x.image}
    BY <1>1
  <2>2. \A j \in DOMAIN derived : j \in Images /\ derived[j] \in Records
    BY DEF SuggestionsInv, StoresTyped
  <2> QED
    BY <1>1, <1>3, <2>1, <2>2
<1>7. asked' \in 0..MaxAsked
  BY CountedStays DEF Generate
<1>8. StoresTyped'
  BY <1>1, <1>6, <1>7, NothingOffered DEF SuggestionsInv, StoresTyped
<1>9. AcceptedWasDeclared'
  BY <1>1, DeclaredStays DEF SuggestionsInv
<1> QED
  BY <1>5, <1>8, <1>9 DEF SuggestionsInv

\* A call that ends without a trace.
LEMMA EndedHolds ==
    ASSUME SuggestionsInv, NEW c \in Callers, Ends(c), offered' = Unoffered,
           UNCHANGED <<aliases, derived, decisions, ever, asked, outside>>
    PROVE  SuggestionsInv'
<1>1. CallsHold'
  BY CallEnds DEF SuggestionsInv
<1>2. asked' \in 0..MaxAsked
  BY DEF SuggestionsInv, StoresTyped
<1> QED
  BY <1>1, <1>2, NothingOffered, OnlyCalls

LEMMA ListPendingHolds ==
    ASSUME SuggestionsInv, NEW c \in Callers, ListPending(c) PROVE SuggestionsInv'
<1>1. /\ offered' = Unoffered \/ (call[c].image \in DOMAIN derived
                                  /\ offered' = [image |-> call[c].image, values |-> Pending(call[c].image)])
      /\ Ends(c) /\ UNCHANGED <<aliases, derived, decisions, ever, asked, outside>>
  BY DEF ListPending
<1>2. offered'.values \subseteq Terms
  <2>1. ASSUME NEW i \in DOMAIN derived PROVE Pending(i) \subseteq Terms
    BY DEF Pending, SuggestionsInv, StoresTyped, Records
  <2> QED
    BY <1>1, <2>1, NothingOffered
<1>3. CallsHold'
  BY <1>1, CallEnds DEF SuggestionsInv
<1>4. asked' \in 0..MaxAsked
  BY <1>1 DEF SuggestionsInv, StoresTyped
<1> QED
  BY <1>1, <1>2, <1>3, <1>4, OnlyCalls

LEMMA AcceptHolds ==
    ASSUME SuggestionsInv, NEW c \in Callers, NEW a \in Catalogue, NEW i \in Images, NEW v \in Terms,
           NEW w \in Written \cup {None}, NEW p \in Deciders, NEW via \in {None, "agent"},
           AcceptSuggestion(c, a, i, v, w, p, via)
    PROVE  SuggestionsInv'
<1> DEFINE x == [stage |-> "loaded", asset |-> a, image |-> i, value |-> v, text |-> w,
                 by |-> p, read |-> aliases[a]]
<1>1. /\ call' = [call EXCEPT ![c] = x] /\ offered' = Unoffered
      /\ UNCHANGED <<aliases, derived, decisions, ever, outside>>
      /\ MayAccept(p, a, via) /\ via = None
  BY DEF AcceptSuggestion, Starts, MayAccept
<1>2. x \in Accepting /\ x.stage = "loaded" /\ x.by = p /\ x.asset = a
  BY DEF Accepting, SuggestionsInv, StoresTyped
<1> HIDE DEF x
<1>3. CallHolds(x, ever')
  BY <1>1, <1>2 DEF CallHolds
<1>4. CallsHold'
  BY <1>1, <1>3, OneCallMoves DEF SuggestionsInv
<1>5. asked' \in 0..MaxAsked
  BY CountedStays DEF AcceptSuggestion
<1> QED
  BY <1>1, <1>4, <1>5, NothingOffered, OnlyCalls

LEMMA TermsAre ==
    ASSUME NEW x \in Accepting PROVE TermOf(x) \in Terms \cup {None}
<1>1. x.value \in Terms /\ x.text \in Written \cup {None}
  BY DEF Accepting
<1>2. Normal[x.value] = x.value /\ (x.text \in Written => Normal[x.text] \in Terms \cup {None})
  BY <1>1, SuggestionsAssumption
<1> QED
  BY <1>1, <1>2 DEF TermOf

LEMMA CheckHolds ==
    ASSUME SuggestionsInv, NEW c \in Callers, CheckSuggestion(c) PROVE SuggestionsInv'
<1> DEFINE x == call[c]
           y == [x EXCEPT !.stage = "checked"]
<1>1. /\ x.stage = "loaded" /\ offered' = Unoffered
      /\ UNCHANGED <<aliases, derived, decisions, ever, asked, outside>>
      /\ \/ TermOf(x) # None /\ call' = [call EXCEPT ![c].stage = "checked"]
         \/ Ends(c)
  BY DEF CheckSuggestion, Goes
<1>2. x \in Accepting /\ MayAccept(x.by, x.asset, None)
  BY <1>1, CallStages DEF SuggestionsInv, CallsHold
<1>3. CASE Ends(c)
  BY <1>1, <1>3, EndedHolds
<1>4. CASE TermOf(x) # None /\ call' = [call EXCEPT ![c].stage = "checked"]
  <2>1. y \in Accepting /\ y.by = x.by /\ y.asset = x.asset /\ y.stage = "checked"
        /\ y.text = x.text /\ y.value = x.value
    BY <1>2 DEF Accepting
  <2>2. TermOf(y) = TermOf(x) /\ TermOf(x) \in Terms
    BY <1>2, <1>4, <2>1, TermsAre DEF TermOf
  <2>3. call' = [call EXCEPT ![c] = y]
    BY <1>4
  <2> HIDE DEF x, y
  <2>4. CallHolds(y, ever')
    BY <1>2, <2>1, <2>2 DEF CallHolds
  <2>5. CallsHold'
    BY <1>1, <2>3, <2>4, OneCallMoves DEF SuggestionsInv
  <2>6. asked' \in 0..MaxAsked
    BY <1>1 DEF SuggestionsInv, StoresTyped
  <2> QED
    BY <1>1, <2>5, <2>6, NothingOffered, OnlyCalls
<1> QED
  BY <1>1, <1>3, <1>4

LEMMA WriteAliasHolds ==
    ASSUME SuggestionsInv, NEW c \in Callers, WriteAlias(c)
    PROVE  SuggestionsInv' /\ \A a \in Catalogue : aliases[a] \subseteq aliases'[a]
<1> DEFINE x == call[c]
           now == x.read \cup {TermOf(x)}
           y == [x EXCEPT !.stage = "written"]
<1>1. /\ x.stage = "checked" /\ offered' = Unoffered
      /\ UNCHANGED <<derived, decisions, asked, outside>>
      /\ ever' = ever \cup {<<x.asset, t>> : t \in now}
      /\ \/ UNCHANGED aliases
         \/ aliases[x.asset] = x.read /\ aliases' = [aliases EXCEPT ![x.asset] = now]
      /\ call' = [call EXCEPT ![c].stage = "written"] \/ Ends(c)
  BY DEF WriteAlias, Applicable, Goes
<1>2. x \in Accepting /\ MayAccept(x.by, x.asset, None) /\ TermOf(x) \in Terms
  BY <1>1, CallStages DEF SuggestionsInv, CallsHold
<1>3. x.asset \in Catalogue /\ now \in SUBSET Terms /\ x.read \subseteq now
  BY <1>2 DEF Accepting
<1>4. ever \subseteq ever' /\ <<x.asset, TermOf(x)>> \in ever'
  BY <1>1
<1>5. y \in Accepting /\ y.by = x.by /\ y.asset = x.asset /\ y.stage = "written"
        /\ y.text = x.text /\ y.value = x.value
  BY <1>2 DEF Accepting
<1>6. TermOf(y) = TermOf(x)
  BY <1>5 DEF TermOf
<1>7. call' = [call EXCEPT ![c] = y] \/ Ends(c)
  BY <1>1
<1> HIDE DEF x, y, now
<1>8. CallsHold'
  <2>1. CASE Ends(c)
    BY <1>4, <2>1, CallEnds DEF SuggestionsInv
  <2>2. CASE call' = [call EXCEPT ![c] = y]
    <3>1. CallHolds(y, ever')
      BY <1>2, <1>4, <1>5, <1>6 DEF CallHolds
    <3> QED
      BY <1>4, <2>2, <3>1, OneCallMoves DEF SuggestionsInv
  <2> QED
    BY <1>7, <2>1, <2>2
<1>9. aliases' \in [Catalogue -> SUBSET Terms] /\ \A a \in Catalogue : aliases[a] \subseteq aliases'[a]
  BY <1>1, <1>3 DEF SuggestionsInv, StoresTyped
<1>10. StoresTyped'
  BY <1>1, <1>9, NothingOffered DEF SuggestionsInv, StoresTyped
<1>11. AcceptedWasDeclared'
  BY <1>1, <1>4, DeclaredStays DEF SuggestionsInv
<1> QED
  BY <1>8, <1>9, <1>10, <1>11 DEF SuggestionsInv

\* One decision more, or another about the same value.
LEMMA DecisionHolds ==
    ASSUME SuggestionsInv, NEW c \in Callers, NEW k \in Values, NEW state \in {"accepted", "rejected"},
           NEW p \in Deciders, NEW w \in Terms, DecisionRecorded(k, state, p, w),
           state = "accepted" => \E d \in ever : d[2] = w /\ MayAccept(p, d[1], None),
           Ends(c), offered' = Unoffered, UNCHANGED <<aliases, derived, ever, asked, outside>>
    PROVE  SuggestionsInv' /\ DOMAIN decisions \subseteq DOMAIN decisions'
<1> DEFINE r == [state |-> state, by |-> p, written |-> w]
<1>1. decisions' = [l \in DOMAIN decisions \cup {k} |-> IF l = k THEN r ELSE decisions[l]]
  BY DEF DecisionRecorded
<1>2. r \in Decisions /\ r.state = state /\ r.by = p /\ r.written = w
  BY DEF Decisions
<1> HIDE DEF r
<1>3. /\ DOMAIN decisions' = DOMAIN decisions \cup {k}
      /\ \A l \in DOMAIN decisions' : decisions'[l] = IF l = k THEN r ELSE decisions[l]
  BY <1>1
<1>4. \A l \in DOMAIN decisions : l \in Values /\ decisions[l] \in Decisions
  BY DEF SuggestionsInv, StoresTyped
<1>5. decisions' \in [DOMAIN decisions' -> Decisions] /\ DOMAIN decisions' \subseteq Values
  BY <1>1, <1>2, <1>3, <1>4
<1>6. StoresTyped'
  BY <1>5, NothingOffered DEF SuggestionsInv, StoresTyped
<1>7. CallsHold'
  BY CallEnds DEF SuggestionsInv
<1>8. AcceptedWasDeclared'
  BY <1>2, <1>3 DEF SuggestionsInv, AcceptedWasDeclared
<1> QED
  BY <1>3, <1>6, <1>7, <1>8 DEF SuggestionsInv

LEMMA RecordAcceptanceHolds ==
    ASSUME SuggestionsInv, NEW c \in Callers, RecordAcceptance(c)
    PROVE  SuggestionsInv' /\ DOMAIN decisions \subseteq DOMAIN decisions'
<1> DEFINE x == call[c]
<1>1. /\ x.stage = "written" /\ Ends(c) /\ offered' = Unoffered
      /\ UNCHANGED <<aliases, derived, ever, asked, outside>>
      /\ DecisionRecorded(<<x.image, x.value>>, "accepted", x.by, TermOf(x))
  BY DEF RecordAcceptance, Decided
<1>2. x \in Accepting /\ MayAccept(x.by, x.asset, None) /\ TermOf(x) \in Terms
      /\ <<x.asset, TermOf(x)>> \in ever
  BY <1>1, CallStages DEF SuggestionsInv, CallsHold
<1>3. <<x.image, x.value>> \in Values /\ x.by \in Deciders
  BY <1>2 DEF Accepting, Values
<1>4. \E d \in ever : d[2] = TermOf(x) /\ MayAccept(x.by, d[1], None)
  BY <1>2
<1> HIDE DEF x
<1> QED
  BY <1>1, <1>2, <1>3, <1>4, DecisionHolds

LEMMA RejectHolds ==
    ASSUME SuggestionsInv, NEW c \in Callers, NEW i \in Images, NEW v \in Terms, NEW p \in Deciders,
           NEW via \in {None, "agent"}, RejectSuggestion(c, i, v, p, via)
    PROVE  SuggestionsInv'
<1> DEFINE x == [stage |-> "rejecting", image |-> i, value |-> v, by |-> p]
<1>1. /\ call' = [call EXCEPT ![c] = x] /\ offered' = Unoffered
      /\ UNCHANGED <<aliases, derived, decisions, ever, outside>>
  BY DEF RejectSuggestion, Starts
<1>2. x \in Rejecting
  BY DEF Rejecting
<1> HIDE DEF x
<1>3. CallsHold'
  BY <1>1, <1>2, OneCallMoves DEF SuggestionsInv, CallHolds
<1>4. asked' \in 0..MaxAsked
  BY CountedStays DEF RejectSuggestion
<1> QED
  BY <1>1, <1>3, <1>4, NothingOffered, OnlyCalls

LEMMA RecordRejectionHolds ==
    ASSUME SuggestionsInv, NEW c \in Callers, RecordRejection(c)
    PROVE  SuggestionsInv' /\ DOMAIN decisions \subseteq DOMAIN decisions'
<1> DEFINE x == call[c]
<1>1. /\ x.stage = "rejecting" /\ Ends(c) /\ offered' = Unoffered
      /\ UNCHANGED <<aliases, derived, ever, asked, outside>>
      /\ DecisionRecorded(<<x.image, x.value>>, "rejected", x.by, x.value)
  BY DEF RecordRejection
<1>2. x \in Rejecting
  BY <1>1, CallStages DEF SuggestionsInv, CallsHold
<1>3. <<x.image, x.value>> \in Values /\ x.by \in Deciders /\ x.value \in Terms
  BY <1>2 DEF Rejecting, Values
<1> HIDE DEF x
<1> QED
  BY <1>1, <1>3, DecisionHolds

LEMMA EditByHandHolds ==
    ASSUME SuggestionsInv, NEW a \in Catalogue, NEW t \in Terms, EditByHand(a, t)
    PROVE  SuggestionsInv' /\ outside' # outside
<1>1. /\ outside < MaxOutside /\ outside' = outside + 1 /\ offered' = Unoffered
      /\ aliases' = [aliases EXCEPT ![a] = IF t \in aliases[a] THEN aliases[a] \ {t}
                                           ELSE aliases[a] \cup {t}]
      /\ ever \subseteq ever' /\ UNCHANGED <<derived, decisions, call, asked>>
  BY DEF EditByHand
<1>2. aliases' \in [Catalogue -> SUBSET Terms]
  BY <1>1 DEF SuggestionsInv, StoresTyped
<1>3. outside' \in 0..MaxOutside /\ outside' # outside
  BY <1>1, SuggestionsAssumption DEF SuggestionsInv, StoresTyped
<1>4. StoresTyped'
  BY <1>1, <1>2, <1>3, NothingOffered DEF SuggestionsInv, StoresTyped
<1>5. CallsHold' /\ AcceptedWasDeclared'
  BY <1>1, NoCallMoves, DeclaredStays DEF SuggestionsInv
<1> QED
  BY <1>3, <1>4, <1>5 DEF SuggestionsInv

LEMMA ClearHolds ==
    ASSUME SuggestionsInv, ClearDerived PROVE SuggestionsInv' /\ outside' # outside
<1>1. /\ outside < MaxOutside /\ outside' = outside + 1 /\ offered' = Unoffered
      /\ derived' = <<>> /\ decisions' = <<>> /\ UNCHANGED <<aliases, call, ever, asked>>
  BY DEF ClearDerived
<1>2. /\ DOMAIN derived' = {} /\ derived' \in [{} -> Records]
      /\ DOMAIN decisions' = {} /\ decisions' \in [{} -> Decisions]
  BY <1>1
<1>3. outside' \in 0..MaxOutside /\ outside' # outside
  BY <1>1, SuggestionsAssumption DEF SuggestionsInv, StoresTyped
<1>4. StoresTyped'
  BY <1>1, <1>2, <1>3, NothingOffered DEF SuggestionsInv, StoresTyped
<1>5. CallsHold'
  BY <1>1, NoCallMoves DEF SuggestionsInv
<1>6. AcceptedWasDeclared'
  BY <1>2 DEF AcceptedWasDeclared
<1> QED
  BY <1>3, <1>4, <1>5, <1>6 DEF SuggestionsInv

\* A step keeps the aliases, and offers nothing that was decided.
Settles == AliasesSurvive /\ RejectedNotOffered

LEMMA QuietSettles ==
    ASSUME SuggestionsInv, offered' = Unoffered, DOMAIN decisions \subseteq DOMAIN decisions',
           \A a \in Catalogue : aliases[a] \subseteq aliases'[a]
    PROVE  Settles
<1>1. offered'.values = {}
  BY NothingOffered
<1> QED
  BY <1>1 DEF Settles, AliasesSurvive, RejectedNotOffered

LEMMA OutsideSettles ==
    ASSUME outside' # outside PROVE Settles
  BY DEF Settles, AliasesSurvive, RejectedNotOffered

LEMMA SuggestionsStep ==
    SuggestionsInv /\ [SuggestionsNext]_suggestionVars =>
        SuggestionsInv' /\ (Settles \/ UNCHANGED suggestionVars)
<1> SUFFICES ASSUME SuggestionsInv, [SuggestionsNext]_suggestionVars
             PROVE  SuggestionsInv' /\ (Settles \/ UNCHANGED suggestionVars)
  OBVIOUS
<1> DEFINE Quiet == offered' = Unoffered /\ UNCHANGED <<aliases, decisions>>
<1>0. Quiet => Settles
  BY QuietSettles
<1> HIDE DEF Quiet
<1>1. ASSUME NEW c \in Callers, NEW a \in Catalogue, NEW i \in Images, Describe(c, a, i)
      PROVE  SuggestionsInv' /\ Settles
  <2>1. Quiet
    BY <1>1 DEF Quiet, Describe
  <2> QED
    BY <1>0, <1>1, <2>1, DescribeHolds
<1>2. ASSUME NEW c \in Callers, NEW terms \in SUBSET Terms, Generate(c, terms)
      PROVE  SuggestionsInv' /\ Settles
  <2>1. Quiet
    BY <1>2 DEF Quiet, Generate, PutDerived
  <2> QED
    BY <1>0, <1>2, <2>1, GenerateHolds
<1>3. ASSUME NEW c \in Callers, ModelUnavailable(c) \/ WriteRefused(c) \/ CallerDies(c)
      PROVE  SuggestionsInv' /\ Settles
  <2>1. Quiet /\ Ends(c) /\ offered' = Unoffered
        /\ UNCHANGED <<aliases, derived, decisions, ever, asked, outside>>
    BY <1>3 DEF Quiet, ModelUnavailable, WriteRefused, CallerDies
  <2> QED
    BY <1>0, <2>1, EndedHolds
<1>4. ASSUME NEW c \in Callers, ListPending(c)
      PROVE  SuggestionsInv' /\ Settles
  <2>1. /\ UNCHANGED <<aliases, decisions>>
        /\ \/ offered' = Unoffered
           \/ offered' = [image |-> call[c].image, values |-> Pending(call[c].image)]
    BY <1>4 DEF ListPending
  <2>2. \A k \in DOMAIN decisions : ~(offered'.image = k[1] /\ k[2] \in offered'.values)
    <3>1. CASE offered' = Unoffered
      BY <3>1, NothingOffered
    <3>2. CASE offered' = [image |-> call[c].image, values |-> Pending(call[c].image)]
      <4>1. offered'.image = call[c].image /\ offered'.values = Pending(call[c].image)
        BY <3>2
      <4>2. \A k \in DOMAIN decisions : k = <<k[1], k[2]>>
        BY DEF SuggestionsInv, StoresTyped, Values
      <4> QED
        BY <4>1, <4>2 DEF Pending
    <3> QED
      BY <2>1, <3>1, <3>2
  <2>3. Settles
    BY <2>1, <2>2 DEF Settles, AliasesSurvive, RejectedNotOffered
  <2> QED
    BY <1>4, <2>3, ListPendingHolds
<1>5. ASSUME NEW c \in Callers, NEW a \in Catalogue, NEW i \in Images, NEW v \in Terms,
             NEW w \in Written \cup {None}, NEW p \in Deciders, NEW via \in {None, "agent"},
             AcceptSuggestion(c, a, i, v, w, p, via)
      PROVE  SuggestionsInv' /\ Settles
  <2>1. Quiet
    BY <1>5 DEF Quiet, AcceptSuggestion
  <2> QED
    BY <1>0, <1>5, <2>1, AcceptHolds
<1>6. ASSUME NEW c \in Callers, CheckSuggestion(c) PROVE SuggestionsInv' /\ Settles
  <2>1. Quiet
    BY <1>6 DEF Quiet, CheckSuggestion
  <2> QED
    BY <1>0, <1>6, <2>1, CheckHolds
<1>7. ASSUME NEW c \in Callers, WriteAlias(c) PROVE SuggestionsInv' /\ Settles
  <2>1. offered' = Unoffered /\ UNCHANGED decisions
    BY <1>7 DEF WriteAlias
  <2> QED
    BY <1>7, <2>1, WriteAliasHolds, QuietSettles
<1>8. ASSUME NEW c \in Callers, RecordAcceptance(c) \/ RecordRejection(c)
      PROVE  SuggestionsInv' /\ Settles
  <2>1. offered' = Unoffered /\ UNCHANGED aliases
    BY <1>8 DEF RecordAcceptance, RecordRejection
  <2> QED
    BY <1>8, <2>1, RecordAcceptanceHolds, RecordRejectionHolds, QuietSettles
<1>9. ASSUME NEW c \in Callers, NEW i \in Images, NEW v \in Terms, NEW p \in Deciders,
             NEW via \in {None, "agent"}, RejectSuggestion(c, i, v, p, via)
      PROVE  SuggestionsInv' /\ Settles
  <2>1. Quiet
    BY <1>9 DEF Quiet, RejectSuggestion
  <2> QED
    BY <1>0, <1>9, <2>1, RejectHolds
<1>10. ASSUME NEW a \in Catalogue, NEW t \in Terms, EditByHand(a, t)
       PROVE  SuggestionsInv' /\ Settles
  BY <1>10, EditByHandHolds, OutsideSettles
<1>11. CASE ClearDerived
  BY <1>11, ClearHolds, OutsideSettles
<1>12. CASE UNCHANGED suggestionVars
  <2>1. CallsHold' /\ AcceptedWasDeclared' /\ StoresTyped'
    BY <1>12 DEF suggestionVars, SuggestionsInv, CallsHold, AcceptedWasDeclared, StoresTyped
  <2> QED
    BY <1>12, <2>1 DEF SuggestionsInv
<1> QED
  BY <1>1, <1>2, <1>3, <1>4, <1>5, <1>6, <1>7, <1>8, <1>9, <1>10, <1>11, <1>12 DEF SuggestionsNext

LEMMA SuggestionsImply == SuggestionsInv => SuggestionsTypeOK /\ AcceptedWasDeclared
<1> SUFFICES ASSUME SuggestionsInv PROVE SuggestionsTypeOK
  BY DEF SuggestionsInv
<1>1. \A c \in Callers : call[c].stage \in {"none", "asking", "listing", "loaded", "checked",
                                             "written", "rejecting"}
  BY CallStages DEF SuggestionsInv, CallsHold
<1>2. \A i \in DOMAIN derived : derived[i].asset \in Catalogue /\ derived[i].terms \subseteq Terms
  BY DEF SuggestionsInv, StoresTyped, Records
<1>3. \A k \in DOMAIN decisions : /\ decisions[k].state \in {"accepted", "rejected"}
                                   /\ decisions[k].by \in Deciders
                                   /\ decisions[k].written \in Terms
  BY DEF SuggestionsInv, StoresTyped, Decisions
<1> QED
  BY <1>1, <1>2, <1>3 DEF SuggestionsInv, StoresTyped, SuggestionsTypeOK

\* For any assets, images, terms and people, and calls that die anywhere: what is
\* recorded as accepted was declared by somebody who may, two acceptances keep each
\* other's aliases, and what was decided is not offered again.
THEOREM SuggestionsStaySettled == SuggestionsSpec => SuggestionsAreSettled
<1>1. SuggestionsInit => SuggestionsInv
  BY SuggestionsStart
<1>2. SuggestionsInv /\ [SuggestionsNext]_suggestionVars =>
        SuggestionsInv' /\ (Settles \/ UNCHANGED suggestionVars)
  BY SuggestionsStep
<1>3. SuggestionsInv => SuggestionsTypeOK /\ AcceptedWasDeclared
  BY SuggestionsImply
<1>4. Settles => AliasesSurvive /\ RejectedNotOffered
  BY DEF Settles
<1> QED
  BY <1>1, <1>2, <1>3, <1>4, PTL DEF SuggestionsSpec, SuggestionsAreSettled

-----------------------------------------------------------------------------
(* Identities: everything said of a caller is bounded by what it rests on.  *)

\* What a token says of the person was so when it was issued.
Directing(actor) == "ART_DIRECTOR" \in actor.roles
TokenHolds(t, ages) ==
    /\ t \in Tokens
    /\ t.claims.type = "access" /\ t.claims.sub = Person
    /\ "ART_DIRECTOR" \in RolesFrom(HeldBy(t.claims)) => ages.role <= t.age
    /\ Admits(t.claims) => ages.member <= t.age

\* What is remembered of the provider's answer was so within a token's life.
EntryHolds(e, ages) ==
    /\ e = [actor |-> e.actor, age |-> e.age] /\ e.age \in Ages
    /\ e.actor.id = Person /\ e.actor.kind = "person"
    /\ Directing(e.actor) => ages.role <= Life + e.age

ServerHolds(s, ages) ==
    /\ s = [credential |-> s.credential, entry |-> s.entry]
    /\ \A t \in s.credential : TokenHolds(t, ages)
    /\ \A e \in s.entry : EntryHolds(e, ages)
    /\ s.entry # {} => s.credential # {}

SaidHolds(r, ages) ==
    /\ MayActInRole(r, "ART_DIRECTOR") =>
           ages.role <= Life + (IF r.source = "cache" THEN CacheTtl ELSE 0)
    /\ r.source = "request" /\ r.actor.kind = "person" /\ Project \in r.actor.projects =>
           ages.member <= Life
    /\ r.actor.kind = "automation" => r.actor.id \in ServiceClients /\ r.actor.roles = {}
    /\ r.actor.id \in Clients => r.actor.kind = "automation"

SinceTyped(ages) == ages = [w \in {"role", "member"} |-> ages[w]]
                    /\ ages.role \in Ages /\ ages.member \in Ages

SinceHolds ==
    /\ holding \in Holdings /\ SinceTyped(since)
    /\ Directs(holding) => since.role = 0
    /\ Belongs(holding) => since.member = 0

TokensHold == \A t \in stored : TokenHolds(t, since)
ServersHold ==
    /\ \A s \in server : ServerHolds(s, since)
    /\ \A s, other \in server : s = other
AnswersHold == \A r \in said : SaidHolds(r, since)

BackgroundHolds ==
    /\ attributed = [to |-> attributed.to, remembered |-> attributed.to]
    /\ attributed.to \subseteq ServiceClients

IdentitiesInv == SinceHolds /\ TokensHold /\ ServersHold /\ AnswersHold /\ BackgroundHolds

-----------------------------------------------------------------------------
LEMMA LongIsNat == Long \in Nat /\ \A a \in Ages : a \in Nat /\ a <= Long /\ Older(a) \in Ages
<1>1. Life \in Nat /\ CacheTtl \in Nat
  BY IdentitiesAssumption
<1> QED
  BY <1>1 DEF Long, Ages, Older

LEMMA OlderIsMonotone ==
    ASSUME NEW a \in Ages, NEW b \in Ages, a <= b
    PROVE  Older(a) <= Older(b)
BY LongIsNat DEF Older

\* Nothing said is falsified by the issuer's still saying it.
LEMMA SinceShrinks ==
    ASSUME NEW h, NEW ages, SinceTyped(ages)
    PROVE  /\ SinceTyped(Lapsed(h, ages))
           /\ Lapsed(h, ages).role <= ages.role /\ Lapsed(h, ages).member <= ages.member
           /\ Directs(h) => Lapsed(h, ages).role = 0
           /\ Belongs(h) => Lapsed(h, ages).member = 0
<1> DEFINE later == Lapsed(h, ages)
<1>1. 0 \in Ages /\ ages.role \in Nat /\ ages.member \in Nat
  BY LongIsNat DEF SinceTyped, Ages
<1>2. /\ later = [w \in {"role", "member"} |-> later[w]]
      /\ later.role = (IF Directs(h) THEN 0 ELSE ages.role)
      /\ later.member = (IF Belongs(h) THEN 0 ELSE ages.member)
  BY DEF Lapsed, SinceTyped
<1> HIDE DEF later
<1>3. SinceTyped(later) /\ later.role <= ages.role /\ later.member <= ages.member
  BY <1>1, <1>2 DEF SinceTyped
<1>4. (Directs(h) => later.role = 0) /\ (Belongs(h) => later.member = 0)
  BY <1>2
<1> QED
  BY <1>3, <1>4 DEF later

LEMMA HoldsStill ==
    ASSUME NEW ages, NEW later, SinceTyped(ages), SinceTyped(later),
           later.role <= ages.role, later.member <= ages.member
    PROVE  /\ \A t : TokenHolds(t, ages) => TokenHolds(t, later)
           /\ \A s : ServerHolds(s, ages) => ServerHolds(s, later)
           /\ \A r : SaidHolds(r, ages) => SaidHolds(r, later)
<1>1. /\ ages.role \in Nat /\ ages.member \in Nat /\ later.role \in Nat /\ later.member \in Nat
      /\ Life \in Nat /\ CacheTtl \in Nat
  BY LongIsNat, IdentitiesAssumption DEF SinceTyped
<1>2. ASSUME NEW t, TokenHolds(t, ages)
      PROVE  TokenHolds(t, later)
  <2>1. t.age \in Ages
    BY <1>2 DEF TokenHolds, Tokens
  <2>2. t.age \in Nat
    BY <2>1, LongIsNat
  <2> QED
    BY <1>1, <1>2, <2>2 DEF TokenHolds
<1>3. ASSUME NEW e, EntryHolds(e, ages)
      PROVE  EntryHolds(e, later)
  <2>1. e.age \in Nat
    BY <1>3, LongIsNat DEF EntryHolds
  <2> QED
    BY <1>1, <1>3, <2>1 DEF EntryHolds
<1>4. ASSUME NEW s, ServerHolds(s, ages)
      PROVE  ServerHolds(s, later)
  BY <1>2, <1>3, <1>4 DEF ServerHolds
<1>5. ASSUME NEW r, SaidHolds(r, ages)
      PROVE  SaidHolds(r, later)
  BY <1>1, <1>5 DEF SaidHolds
<1> QED
  BY <1>2, <1>4, <1>5

-----------------------------------------------------------------------------
\* What a described person's token makes, and what anything else does.
LEMMA TokensMakePeople ==
    ASSUME NEW t, NEW ages, TokenHolds(t, ages), NEW a \in ActorFrom(t.claims)
    PROVE  /\ a.id = Person /\ a.kind = "person"
           /\ Directing(a) => ages.role <= t.age
           /\ Project \in a.projects => ages.member <= t.age
<1>1. a \in PersonIn(t.claims)
  BY DEF TokenHolds, ActorFrom
<1>2. /\ a.id = t.claims.sub /\ a.kind = "person" /\ a.roles = RolesFrom(HeldBy(t.claims))
      /\ a.projects = IF Admits(t.claims) THEN {Project} ELSE {}
  BY <1>1 DEF PersonIn
<1> QED
  BY <1>2 DEF TokenHolds, Directing

LEMMA ClientsMakeAutomation ==
    ASSUME NEW claims, NEW a \in AutomationIn(claims)
    PROVE  /\ a.kind = "automation" /\ a.roles = {}
           /\ a.id \in ServiceClients
<1>1. PICK c \in ClientIn(claims) \cap ServiceClients :
          a = [id |-> claims.sub, kind |-> "automation", roles |-> {}, projects |-> {Project},
               tenant |-> None]
  BY DEF AutomationIn
<1>2. c = claims.sub
  BY DEF ClientIn
<1> QED
  BY <1>1, <1>2

LEMMA OthersAreNobody ==
    ASSUME NEW t \in Others, NEW a \in ActorFrom(t.claims)
    PROVE  a.kind = "automation" /\ a.roles = {} /\ a.id \in ServiceClients
<1>1. CASE t = Issued("id", TRUE)
  <2>1. t.claims.type = "id"
    BY <1>1 DEF Issued
  <2> QED
    BY <2>1 DEF ActorFrom
<1>2. CASE t = Issued("access", FALSE)
  <2>1. t.claims.type = "access" /\ t.claims.described = FALSE
    BY <1>2 DEF Issued
  <2> QED
    BY <2>1 DEF ActorFrom, PersonIn
<1>3. CASE \E s \in Services : t = ServiceToken(s)
  <2>1. t.claims.type = "service"
    BY <1>3 DEF ServiceToken
  <2>2. a \in AutomationIn(t.claims)
    BY <2>1 DEF ActorFrom
  <2> QED
    BY <2>2, ClientsMakeAutomation
<1> QED
  BY <1>1, <1>2, <1>3 DEF Others

\* What is issued is what the issuer holds now.
LEMMA IssuedHolds ==
    ASSUME holding \in Holdings, SinceTyped(since),
           Directs(holding) => since.role = 0, Belongs(holding) => since.member = 0
    PROVE  TokenHolds(Issued("access", TRUE), since)
<1> DEFINE claims == Issued("access", TRUE).claims
<1>1. /\ Issued("access", TRUE) = [claims |-> claims, age |-> 0]
      /\ claims = [type |-> "access", sub |-> Person, prefixed |-> FALSE, claimed |-> "absent",
                   described |-> TRUE, roles |-> holding.roles, orgs |-> holding.orgs,
                   org |-> holding.org]
  BY DEF Issued
<1> HIDE DEF claims
<1>2. /\ holding.roles \subseteq UNION {h.roles : h \in Holdings}
      /\ holding.orgs \subseteq UNION {h.orgs : h \in Holdings}
      /\ holding.org \in {h.org : h \in Holdings}
  <2>1. holding.roles \in {h.roles : h \in Holdings} /\ holding.orgs \in {h.orgs : h \in Holdings}
    OBVIOUS
  <2> QED
    BY <2>1
<1>3. 0 \in Ages
  BY LongIsNat DEF Ages
<1>4. [claims |-> claims, age |-> 0] \in Tokens
  <2> DEFINE keys == UNION {h.roles : h \in Holdings}
             orgs == UNION {h.orgs : h \in Holdings}
             main == {h.org : h \in Holdings}
  <2> HIDE DEF keys, orgs, main
  <2>1. holding.roles \subseteq keys /\ holding.orgs \subseteq orgs /\ holding.org \in main
    BY <1>2 DEF keys, orgs, main
  <2>2. claims \in [type : {"access", "id", "service"}, sub : Clients \cup {Person},
                    prefixed : BOOLEAN, claimed : Clients \cup {"absent", ""},
                    described : BOOLEAN, roles : SUBSET keys, orgs : SUBSET orgs,
                    org : main \cup {None}]
    BY <1>1, <2>1
  <2> QED
    BY <1>3, <2>2 DEF Tokens, keys, orgs, main
<1>5. "ART_DIRECTOR" \in RolesFrom(HeldBy(claims)) => since.role <= 0
  <2> SUFFICES ASSUME "ART_DIRECTOR" \in RolesFrom(HeldBy(claims))
               PROVE  Directs(holding)
    BY <1>3, LongIsNat
  <2>1. PICK k \in HeldBy(claims) \cap DOMAIN GroupRoles : GroupRoles[k] = "ART_DIRECTOR"
    BY DEF RolesFrom
  <2>2. PICK r \in claims.roles : r.app = App /\ r.key = k
    BY <2>1 DEF HeldBy
  <2> QED
    BY <1>1, <2>1, <2>2 DEF Directs
<1>6. Admits(claims) => since.member <= 0
  <2> SUFFICES ASSUME Admits(claims)
               PROVE  Belongs(holding)
    BY <1>3, LongIsNat
  <2>1. PICK r \in claims.roles : r.app = App
    BY DEF Admits, HeldBy
  <2> QED
    BY <1>1, <2>1 DEF Admits, Belongs
<1> DEFINE t == Issued("access", TRUE)
<1>10. t = [claims |-> claims, age |-> 0]
  BY <1>1
<1> HIDE DEF t
<1>7. t \in Tokens /\ t.claims = claims /\ t.age = 0
  BY <1>4, <1>10
<1>8. claims.type = "access" /\ claims.sub = Person
  BY <1>1
<1>9. TokenHolds(t, since)
  BY <1>5, <1>6, <1>7, <1>8 DEF TokenHolds
<1> QED
  BY <1>9 DEF t

\* What a provider that verified a credential of ours may have answered.
LEMMA HeardHolds ==
    ASSUME NEW tokens, NEW ages, \A t \in tokens : TokenHolds(t, ages), SinceTyped(ages),
           NEW heard \in Heard(tokens), NEW a \in heard
    PROVE  /\ tokens # {}
           /\ a.id = Person /\ a.kind = "person"
           /\ Directing(a) => ages.role <= Life
           /\ Project \in a.projects => ages.member <= Life
<1>1. PICK t \in tokens : heard = Verified(t)
  BY DEF Heard
<1>2. t.age <= Life /\ a \in ActorFrom(t.claims)
  BY <1>1 DEF Verified
<1>3. t.age \in Nat /\ ages.role \in Nat /\ ages.member \in Nat /\ Life \in Nat
  BY <1>1, LongIsNat, IdentitiesAssumption DEF TokenHolds, Tokens, SinceTyped
<1> QED
  BY <1>1, <1>2, <1>3, TokensMakePeople

-----------------------------------------------------------------------------
LEMMA IdentitiesInitially == IdentitiesInit => IdentitiesInv
<1> SUFFICES ASSUME IdentitiesInit PROVE IdentitiesInv
  OBVIOUS
<1> DEFINE longest == [w \in {"role", "member"} |-> Long]
<1>1. SinceTyped(longest)
  BY LongIsNat DEF SinceTyped, Ages
<1>2. since = Lapsed(holding, longest)
  BY DEF IdentitiesInit
<1> HIDE DEF longest
<1>3. SinceHolds
  BY <1>1, <1>2, SinceShrinks DEF SinceHolds, IdentitiesInit
<1> QED
  BY <1>3 DEF IdentitiesInit, IdentitiesInv, TokensHold, ServersHold, AnswersHold, BackgroundHolds

LEMMA AdministerKeeps ==
    ASSUME IdentitiesInv, Administer
    PROVE  IdentitiesInv'
<1>1. /\ holding' \in Holdings /\ since' = Lapsed(holding', since)
      /\ UNCHANGED <<stored, server, said, attributed>>
  BY DEF Administer
<1>2. SinceTyped(since)
  BY DEF IdentitiesInv, SinceHolds
<1>3. /\ SinceTyped(since') /\ since'.role <= since.role /\ since'.member <= since.member
      /\ (Directs(holding') => since'.role = 0) /\ (Belongs(holding') => since'.member = 0)
  BY <1>1, <1>2, SinceShrinks
<1>4. /\ \A t : TokenHolds(t, since) => TokenHolds(t, since')
      /\ \A s : ServerHolds(s, since) => ServerHolds(s, since')
      /\ \A r : SaidHolds(r, since) => SaidHolds(r, since')
  BY <1>2, <1>3, HoldsStill
<1>5. SinceHolds'
  BY <1>1, <1>3 DEF SinceHolds
<1>6. TokensHold' /\ ServersHold' /\ AnswersHold'
  BY <1>1, <1>4 DEF IdentitiesInv, TokensHold, ServersHold, AnswersHold
<1>7. BackgroundHolds'
  BY <1>1 DEF IdentitiesInv, BackgroundHolds
<1> QED
  BY <1>5, <1>6, <1>7 DEF IdentitiesInv

LEMMA SignInKeeps ==
    ASSUME IdentitiesInv, SignIn
    PROVE  IdentitiesInv'
<1>1. /\ stored' = {Issued("access", TRUE)} /\ said' = {}
      /\ UNCHANGED <<holding, since, server, attributed>>
  BY DEF SignIn
<1>2. TokenHolds(Issued("access", TRUE), since)
  BY IssuedHolds DEF IdentitiesInv, SinceHolds
<1>3. SinceHolds' /\ ServersHold' /\ BackgroundHolds'
  BY <1>1 DEF IdentitiesInv, SinceHolds, ServersHold, BackgroundHolds
<1>4. TokensHold' /\ AnswersHold'
  BY <1>1, <1>2 DEF TokensHold, AnswersHold
<1> QED
  BY <1>3, <1>4 DEF IdentitiesInv

LEMMA SignOutKeeps ==
    ASSUME IdentitiesInv, SignOut
    PROVE  IdentitiesInv'
BY DEF SignOut, IdentitiesInv, SinceHolds, TokensHold, ServersHold, AnswersHold, BackgroundHolds

LEMMA StopServerKeeps ==
    ASSUME IdentitiesInv, StopServer
    PROVE  IdentitiesInv'
BY DEF StopServer, IdentitiesInv, SinceHolds, TokensHold, ServersHold, AnswersHold, BackgroundHolds

LEMMA StartServerKeeps ==
    ASSUME IdentitiesInv, StartServer
    PROVE  IdentitiesInv'
<1>1. /\ server' = {[credential |-> stored, entry |-> {}]}
      /\ UNCHANGED <<holding, since, stored, said, attributed>>
  BY DEF StartServer
<1>2. ServerHolds([credential |-> stored, entry |-> {}], since)
  BY DEF ServerHolds, IdentitiesInv, TokensHold
<1>3. ServersHold'
  BY <1>1, <1>2 DEF ServersHold
<1>4. SinceHolds' /\ TokensHold' /\ AnswersHold' /\ BackgroundHolds'
  BY <1>1 DEF IdentitiesInv, SinceHolds, TokensHold, AnswersHold, BackgroundHolds
<1> QED
  BY <1>3, <1>4 DEF IdentitiesInv

\* A request is its own token's: the person's, of late, or a listed client's.
LEMMA AuthenticateKeeps ==
    ASSUME IdentitiesInv, Authenticate
    PROVE  IdentitiesInv'
<1>1. PICK tokens \in {stored} \cup {{t} : t \in Others} : \E heard \in Heard(tokens) :
          said' = {[actor |-> a, verified |-> TRUE, source |-> "request"] : a \in heard}
  BY DEF Authenticate
<1>2. PICK heard \in Heard(tokens) :
          said' = {[actor |-> a, verified |-> TRUE, source |-> "request"] : a \in heard}
  BY <1>1
<1>3. UNCHANGED <<holding, since, stored, server, attributed>>
  BY DEF Authenticate
<1>4. SinceTyped(since) /\ Person \notin Clients /\ Life \in Nat
  BY IdentitiesAssumption DEF IdentitiesInv, SinceHolds
<1>5. ASSUME NEW a \in heard
      PROVE  SaidHolds([actor |-> a, verified |-> TRUE, source |-> "request"], since)
  <2> DEFINE r == [actor |-> a, verified |-> TRUE, source |-> "request"]
  <2>0. r.actor = a /\ r.source = "request"
    OBVIOUS
  <2> HIDE DEF r
  <2>1. CASE tokens = stored
    <3>1. /\ a.id = Person /\ a.kind = "person"
          /\ Directing(a) => since.role <= Life
          /\ Project \in a.projects => since.member <= Life
      BY <1>2, <1>4, <1>5, <2>1, HeardHolds DEF IdentitiesInv, TokensHold
    <3> QED
      BY <1>4, <2>0, <3>1 DEF SaidHolds, MayActInRole, Directing
  <2>2. CASE \E t \in Others : tokens = {t}
    <3>1. PICK t \in Others : a \in ActorFrom(t.claims)
      BY <1>2, <1>5, <2>2 DEF Heard, Verified
    <3>2. a.kind = "automation" /\ a.roles = {} /\ a.id \in ServiceClients
      BY <3>1, OthersAreNobody
    <3> QED
      BY <2>0, <3>2 DEF SaidHolds, MayActInRole
  <2> QED
    BY <1>1, <2>1, <2>2 DEF r
<1>6. AnswersHold'
  BY <1>2, <1>3, <1>5 DEF AnswersHold
<1>7. SinceHolds' /\ TokensHold' /\ ServersHold' /\ BackgroundHolds'
  BY <1>3 DEF IdentitiesInv, SinceHolds, TokensHold, ServersHold, BackgroundHolds
<1> QED
  BY <1>6, <1>7 DEF IdentitiesInv

LEMMA AttributeBackgroundKeeps ==
    ASSUME IdentitiesInv, AttributeBackground
    PROVE  IdentitiesInv'
<1>1. UNCHANGED <<holding, since, stored, server, said>>
  BY DEF AttributeBackground
<1>2. PICK s \in Services, heard \in BOOLEAN :
          LET actors == IF heard THEN ActorFrom(ServiceToken(s).claims) ELSE {}
              subject == IF attributed.remembered # {} THEN attributed.remembered
                         ELSE {a.id : a \in {x \in actors : x.kind = "automation"}}
          IN  attributed' = [to |-> subject, remembered |-> subject]
  BY DEF AttributeBackground
<1> DEFINE actors == IF heard THEN ActorFrom(ServiceToken(s).claims) ELSE {}
           subject == IF attributed.remembered # {} THEN attributed.remembered
                      ELSE {a.id : a \in {x \in actors : x.kind = "automation"}}
<1>3. ASSUME NEW a \in actors
      PROVE  a.id \in ServiceClients
  <2>1. ServiceToken(s) \in Others
    BY DEF Others
  <2> QED
    BY <1>3, <2>1, OthersAreNobody
<1>4. attributed' = [to |-> subject, remembered |-> subject]
  BY <1>2
<1>5. attributed.remembered \subseteq ServiceClients
  BY DEF IdentitiesInv, BackgroundHolds
<1> HIDE DEF actors
<1>6. subject \subseteq ServiceClients
  BY <1>3, <1>5
<1> HIDE DEF subject
<1>7. BackgroundHolds'
  BY <1>4, <1>6 DEF BackgroundHolds
<1>8. SinceHolds' /\ TokensHold' /\ ServersHold' /\ AnswersHold'
  BY <1>1 DEF IdentitiesInv, SinceHolds, TokensHold, ServersHold, AnswersHold
<1> QED
  BY <1>7, <1>8 DEF IdentitiesInv

\* The local server: what the provider says now, or what it last said.
LEMMA ResolveKeeps ==
    ASSUME IdentitiesInv, Resolve
    PROVE  IdentitiesInv'
<1> DEFINE entriesOf(s, heard) ==
               IF heard = {} THEN s.entry ELSE {[actor |-> a, age |-> 0] : a \in heard}
           saidOf(s, heard) ==
               CASE heard # {} -> {[actor |-> a, verified |-> TRUE, source |-> "provider"] :
                                       a \in heard}
                 [] heard = {} /\ s.entry # {} -> {FromCache(e) : e \in s.entry}
                 [] OTHER -> {[actor |-> LocalActor, verified |-> FALSE, source |-> "local"]}
<1>1. PICK s \in server, heard \in Heard(Asked(server)) :
          /\ server' = {[s EXCEPT !.entry = entriesOf(s, heard)]}
          /\ said' = saidOf(s, heard)
  BY DEF Resolve
<1>2. UNCHANGED <<holding, since, stored, attributed>>
  BY DEF Resolve
<1>3. /\ ServerHolds(s, since)
      /\ \A t \in Asked(server) : TokenHolds(t, since)
  BY <1>1 DEF IdentitiesInv, ServersHold, ServerHolds, Asked
<1>4. /\ SinceTyped(since) /\ {Person, LocalId} \cap Clients = {} /\ Life \in Nat
      /\ CacheTtl \in Nat /\ since.role \in Nat
  BY IdentitiesAssumption, LongIsNat DEF IdentitiesInv, SinceHolds, SinceTyped
<1>5. ASSUME NEW a \in heard
      PROVE  /\ a.id = Person /\ a.kind = "person"
             /\ Directing(a) => since.role <= Life
  BY <1>1, <1>3, <1>4, <1>5, HeardHolds
<1>6. ASSUME heard # {}
      PROVE  Asked(server) # {}
  BY <1>1, <1>3, <1>4, <1>6, HeardHolds
<1>7. ServersHold'
  <2> DEFINE entries == entriesOf(s, heard)
             later == [s EXCEPT !.entry = entries]
  <2>1. Asked(server) = s.credential
    BY <1>1 DEF Asked, IdentitiesInv, ServersHold
  <2>2. s = [credential |-> s.credential, entry |-> s.entry]
    BY <1>3 DEF ServerHolds
  <2>3. later = [credential |-> s.credential, entry |-> entries]
    BY <2>2
  <2>4. ASSUME NEW e \in entries
        PROVE  EntryHolds(e, since)
    <3>1. CASE heard = {}
      BY <1>3, <2>4, <3>1 DEF ServerHolds
    <3>2. CASE heard # {}
      <4>1. PICK a \in heard : e = [actor |-> a, age |-> 0]
        BY <2>4, <3>2
      <4>2. 0 \in Ages
        BY LongIsNat DEF Ages
      <4>3. e.actor = a /\ e.age = 0 /\ e = [actor |-> e.actor, age |-> e.age]
        BY <4>1
      <4> QED
        BY <1>4, <1>5, <4>2, <4>3 DEF EntryHolds
    <3> QED
      BY <3>1, <3>2
  <2>5. entries # {} => s.credential # {}
    <3>1. CASE heard = {}
      BY <1>3, <3>1 DEF ServerHolds
    <3>2. CASE heard # {}
      BY <1>6, <2>1, <3>2
    <3> QED
      BY <3>1, <3>2
  <2> HIDE DEF entries
  <2>6. \A t \in s.credential : TokenHolds(t, since)
    BY <1>3 DEF ServerHolds
  <2>7. later.credential = s.credential /\ later.entry = entries
    BY <2>3
  <2>8. later = [credential |-> later.credential, entry |-> later.entry]
    BY <2>3
  <2> HIDE DEF later
  <2>9. ServerHolds(later, since)
    BY <2>4, <2>5, <2>6, <2>7, <2>8 DEF ServerHolds
  <2>10. server' = {later}
    BY <1>1 DEF later, entries
  <2> QED
    BY <1>2, <2>9, <2>10 DEF ServersHold
<1>8. AnswersHold'
  <2>1. CASE heard # {}
    <3>1. said' = {[actor |-> a, verified |-> TRUE, source |-> "provider"] : a \in heard}
      BY <1>1, <2>1
    <3>2. ASSUME NEW a \in heard
          PROVE  SaidHolds([actor |-> a, verified |-> TRUE, source |-> "provider"], since)
      BY <1>4, <1>5, <3>2 DEF SaidHolds, MayActInRole, Directing
    <3> QED
      BY <1>2, <3>1, <3>2 DEF AnswersHold
  <2>2. CASE heard = {} /\ s.entry # {}
    <3>1. said' = {FromCache(e) : e \in s.entry}
      BY <1>1, <2>2
    <3>2. ASSUME NEW e \in s.entry
          PROVE  SaidHolds(FromCache(e), since)
      <4>1. EntryHolds(e, since) /\ e.age \in Nat
        BY <1>3, <3>2, LongIsNat DEF ServerHolds, EntryHolds
      <4>2. /\ FromCache(e).actor = e.actor /\ FromCache(e).source = "cache"
        BY DEF FromCache
      <4>3. MayActInRole(FromCache(e), "ART_DIRECTOR") => since.role <= Life + CacheTtl
        <5>1. Directing(e.actor) => since.role <= Life + e.age
          BY <4>1 DEF EntryHolds
        <5>2. MayActInRole(FromCache(e), "ART_DIRECTOR") => FromCache(e).verified /\ Directing(e.actor)
          BY <4>2 DEF MayActInRole, Directing
        <5>3. FromCache(e).verified => e.age <= CacheTtl
          BY Zenon DEF FromCache, IsFresh
        <5> QED
          BY <1>4, <4>1, <5>1, <5>2, <5>3
      <4>4. e.actor.id = Person /\ e.actor.kind = "person"
        BY <4>1 DEF EntryHolds
      <4> HIDE DEF FromCache
      <4> QED
        BY <1>4, <4>2, <4>3, <4>4 DEF SaidHolds
    <3> QED
      BY <1>2, <3>1, <3>2 DEF AnswersHold
  <2>3. CASE heard = {} /\ s.entry = {}
    <3>1. said' = {[actor |-> LocalActor, verified |-> FALSE, source |-> "local"]}
      BY <1>1, <2>3
    <3>2. SaidHolds([actor |-> LocalActor, verified |-> FALSE, source |-> "local"], since)
      BY <1>4 DEF SaidHolds, MayActInRole, LocalActor
    <3> QED
      BY <1>2, <3>1, <3>2 DEF AnswersHold
  <2> QED
    BY <2>1, <2>2, <2>3
<1>9. SinceHolds' /\ TokensHold' /\ BackgroundHolds'
  BY <1>2 DEF IdentitiesInv, SinceHolds, TokensHold, BackgroundHolds
<1> QED
  BY <1>7, <1>8, <1>9 DEF IdentitiesInv

\* What is said ages no faster than what it rests on.
LEMMA HoldsLater ==
    ASSUME NEW ages, NEW later, SinceTyped(ages), SinceTyped(later),
           later.role <= Older(ages.role), later.member <= Older(ages.member)
    PROVE  /\ \A t : TokenHolds(t, ages) => TokenHolds([t EXCEPT !.age = Older(@)], later)
           /\ \A e : EntryHolds(e, ages) => EntryHolds([e EXCEPT !.age = Older(@)], later)
<1>1. /\ ages.role \in Ages /\ ages.member \in Ages
      /\ later.role \in Nat /\ later.member \in Nat
      /\ Older(ages.role) \in Nat /\ Older(ages.member) \in Nat
      /\ Life \in Nat /\ CacheTtl \in Nat
  BY LongIsNat, IdentitiesAssumption DEF SinceTyped
<1>2. ASSUME NEW t, TokenHolds(t, ages)
      PROVE  TokenHolds([t EXCEPT !.age = Older(@)], later)
  <2> DEFINE u == [t EXCEPT !.age = Older(@)]
  <2>1. t \in Tokens /\ t.age \in Ages /\ t = [claims |-> t.claims, age |-> t.age]
    BY <1>2 DEF TokenHolds, Tokens
  <2>2. Older(t.age) \in Ages /\ Older(t.age) \in Nat
    BY <2>1, LongIsNat
  <2>3. u = [claims |-> t.claims, age |-> Older(t.age)]
    BY <2>1
  <2>4. u \in Tokens /\ u.claims = t.claims /\ u.age = Older(t.age)
    BY <2>1, <2>2, <2>3 DEF Tokens
  <2> HIDE DEF u
  <2>5. "ART_DIRECTOR" \in RolesFrom(HeldBy(u.claims)) => later.role <= u.age
    <3>1. ages.role <= t.age => Older(ages.role) <= Older(t.age)
      BY <1>1, <2>1, OlderIsMonotone
    <3> QED
      BY <1>1, <1>2, <2>2, <2>4, <3>1 DEF TokenHolds
  <2>6. Admits(u.claims) => later.member <= u.age
    <3>1. ages.member <= t.age => Older(ages.member) <= Older(t.age)
      BY <1>1, <2>1, OlderIsMonotone
    <3> QED
      BY <1>1, <1>2, <2>2, <2>4, <3>1 DEF TokenHolds
  <2>7. TokenHolds(u, later)
    BY <1>2, <2>4, <2>5, <2>6 DEF TokenHolds
  <2> QED
    BY <2>7 DEF u
<1>3. ASSUME NEW e, EntryHolds(e, ages)
      PROVE  EntryHolds([e EXCEPT !.age = Older(@)], later)
  <2> DEFINE f == [e EXCEPT !.age = Older(@)]
  <2>1. e = [actor |-> e.actor, age |-> e.age] /\ e.age \in Ages
    BY <1>3 DEF EntryHolds
  <2>2. Older(e.age) \in Ages
    BY <2>1, LongIsNat
  <2>3. f = [actor |-> e.actor, age |-> Older(e.age)]
    BY <2>1
  <2>4. f = [actor |-> f.actor, age |-> f.age] /\ f.actor = e.actor /\ f.age = Older(e.age)
    BY <2>3
  <2> HIDE DEF f
  <2>5. ages.role <= Life + e.age => later.role <= Life + f.age
    BY <1>1, <2>1, <2>4, LongIsNat DEF Older, Long, Ages
  <2>6. EntryHolds(f, later)
    BY <1>3, <2>2, <2>4, <2>5 DEF EntryHolds
  <2> QED
    BY <2>6 DEF f
<1> QED
  BY <1>2, <1>3

LEMMA TickKeeps ==
    ASSUME IdentitiesInv, IdentitiesTick
    PROVE  IdentitiesInv'
<1> DEFINE older == [w \in {"role", "member"} |-> Older(since[w])]
           aged(s) == [credential |-> {[t EXCEPT !.age = Older(@)] : t \in s.credential},
                       entry |-> {[e EXCEPT !.age = Older(@)] : e \in s.entry}]
<1>1. /\ since' = Lapsed(holding, older)
      /\ stored' = {[t EXCEPT !.age = Older(@)] : t \in stored}
      /\ server' = {aged(s) : s \in server}
      /\ said' = {}
      /\ UNCHANGED <<holding, attributed>>
  BY DEF IdentitiesTick
<1>2. SinceTyped(since) /\ holding \in Holdings
  BY DEF IdentitiesInv, SinceHolds
<1>3. SinceTyped(older) /\ older.role = Older(since.role) /\ older.member = Older(since.member)
  BY <1>2, LongIsNat DEF SinceTyped
<1> HIDE DEF older
<1>4. /\ SinceTyped(since')
      /\ since'.role <= Older(since.role) /\ since'.member <= Older(since.member)
      /\ (Directs(holding) => since'.role = 0) /\ (Belongs(holding) => since'.member = 0)
  BY <1>1, <1>3, SinceShrinks
<1>5. /\ \A t : TokenHolds(t, since) => TokenHolds([t EXCEPT !.age = Older(@)], since')
      /\ \A e : EntryHolds(e, since) => EntryHolds([e EXCEPT !.age = Older(@)], since')
  BY <1>2, <1>4, HoldsLater
<1>6. SinceHolds'
  BY <1>1, <1>2, <1>4 DEF SinceHolds
<1>7. TokensHold'
  BY <1>1, <1>5 DEF IdentitiesInv, TokensHold
<1>8. ASSUME NEW s \in server
      PROVE  ServerHolds(aged(s), since')
  <2>1. ServerHolds(s, since)
    BY <1>8 DEF IdentitiesInv, ServersHold
  <2> DEFINE x == aged(s)
  <2>2. /\ x = [credential |-> x.credential, entry |-> x.entry]
        /\ x.credential = {[t EXCEPT !.age = Older(@)] : t \in s.credential}
        /\ x.entry = {[e EXCEPT !.age = Older(@)] : e \in s.entry}
    OBVIOUS
  <2> HIDE DEF x
  <2>3. \A t \in x.credential : TokenHolds(t, since')
    BY <1>5, <2>1, <2>2 DEF ServerHolds
  <2>4. \A e \in x.entry : EntryHolds(e, since')
    BY <1>5, <2>1, <2>2 DEF ServerHolds
  <2>5. ASSUME x.entry # {}
        PROVE  x.credential # {}
    <3>1. s.entry # {}
      BY <2>2, <2>5
    <3>2. PICK t \in s.credential : TRUE
      BY <2>1, <3>1 DEF ServerHolds
    <3>3. [t EXCEPT !.age = Older(@)] \in x.credential
      BY <2>2, <3>2
    <3> QED
      BY <3>3
  <2>6. ServerHolds(x, since')
    BY <2>2, <2>3, <2>4, <2>5 DEF ServerHolds
  <2> QED
    BY <2>6 DEF x
<1>9. \A s, other \in server : s = other
  BY DEF IdentitiesInv, ServersHold
<1> HIDE DEF aged
<1>10. ServersHold'
  BY <1>1, <1>8, <1>9 DEF ServersHold
<1>11. AnswersHold' /\ BackgroundHolds'
  BY <1>1 DEF IdentitiesInv, AnswersHold, BackgroundHolds
<1> QED
  BY <1>6, <1>7, <1>10, <1>11 DEF IdentitiesInv

-----------------------------------------------------------------------------
LEMMA IdentitiesInvImplies == IdentitiesInv => IdentitiesLapse
<1> SUFFICES ASSUME IdentitiesInv PROVE IdentitiesLapse
  OBVIOUS
<1>1. IdentitiesTypeOK
  <2>1. holding \in Holdings /\ since \in [{"role", "member"} -> Ages]
    BY DEF IdentitiesInv, SinceHolds, SinceTyped
  <2>2. stored \subseteq Tokens
    BY DEF IdentitiesInv, TokensHold, TokenHolds
  <2>3. ASSUME NEW s \in server, NEW e \in s.entry
        PROVE  e.age \in Ages /\ \E t \in s.credential : e.actor.id = t.claims.sub
    <3>1. ServerHolds(s, since)
      BY DEF IdentitiesInv, ServersHold
    <3>2. PICK t \in s.credential : TokenHolds(t, since)
      BY <2>3, <3>1 DEF ServerHolds
    <3> QED
      BY <2>3, <3>1, <3>2 DEF ServerHolds, TokenHolds, EntryHolds
  <2>4. attributed.to = attributed.remembered \/ attributed.remembered = {}
    BY DEF IdentitiesInv, BackgroundHolds
  <2> QED
    BY <2>1, <2>2, <2>3, <2>4 DEF IdentitiesTypeOK
<1>2. \A r \in said : SaidHolds(r, since)
  BY DEF IdentitiesInv, AnswersHold
<1>3. RolesLapse /\ MembersOnly
  BY <1>2 DEF RolesLapse, MembersOnly, SaidHolds
<1>4. AutomationIsListed
  BY <1>2 DEF AutomationIsListed, SaidHolds, IdentitiesInv, BackgroundHolds
<1> QED
  BY <1>1, <1>3, <1>4 DEF IdentitiesLapse

LEMMA IdentitiesStep == IdentitiesInv /\ [IdentitiesNext]_identityVars => IdentitiesInv'
<1> SUFFICES ASSUME IdentitiesInv, [IdentitiesNext]_identityVars
             PROVE  IdentitiesInv'
  OBVIOUS
<1>1. CASE Administer
  BY <1>1, AdministerKeeps
<1>2. CASE SignIn
  BY <1>2, SignInKeeps
<1>3. CASE SignOut
  BY <1>3, SignOutKeeps
<1>4. CASE Authenticate
  BY <1>4, AuthenticateKeeps
<1>5. CASE StartServer
  BY <1>5, StartServerKeeps
<1>6. CASE StopServer
  BY <1>6, StopServerKeeps
<1>7. CASE Resolve
  BY <1>7, ResolveKeeps
<1>8. CASE AttributeBackground
  BY <1>8, AttributeBackgroundKeeps
<1>9. CASE IdentitiesTick
  BY <1>9, TickKeeps
<1>10. CASE UNCHANGED identityVars
  BY <1>10 DEF identityVars, IdentitiesInv, SinceHolds, TokensHold, ServersHold, AnswersHold,
               BackgroundHolds
<1> QED
  BY <1>1, <1>2, <1>3, <1>4, <1>5, <1>6, <1>7, <1>8, <1>9, <1>10 DEF IdentitiesNext

\* Whatever the issuer takes back and whenever, and whatever is cached of it, nobody
\* acts as an art director, or is let in, on a word older than a token's life and,
\* at the local server, the time its cache vouches for what it resolved; automation
\* is a listed client without a role, and background work is recorded under no other
\* (claims.py, actor_checks.py, resolve_actor.py, identity.py).
THEOREM IdentitiesStayOfLate == IdentitiesSpec => []IdentitiesLapse
<1>1. IdentitiesInit => IdentitiesInv
  BY IdentitiesInitially
<1>2. IdentitiesInv /\ [IdentitiesNext]_identityVars => IdentitiesInv'
  BY IdentitiesStep
<1>3. IdentitiesInv => IdentitiesLapse
  BY IdentitiesInvImplies
<1> QED
  BY <1>1, <1>2, <1>3, PTL DEF IdentitiesSpec

-----------------------------------------------------------------------------
(* Annotations: what a filter leaves, and which entry is the first.        *)

\* A set of numbers has a least one.
LEMMA LeastOf ==
    ASSUME NEW T, T \subseteq Nat, T # {}
    PROVE  \E x \in T : \A y \in T : x <= y
<1>1. IsWellFoundedOn(OpToRel(<, Nat), Nat)
  BY NatLessThanWellFounded
<1>2. PICK x \in T : \A y \in T : ~(<<y, x>> \in OpToRel(<, Nat))
  BY <1>1, WFMin, Zenon
<1>3. \A y \in T : ~(y < x)
  BY <1>2 DEF OpToRel
<1> QED
  BY <1>3

\* Each position kept has a place of its own, in their order, and every place is taken.
LEMMA PlacesAre ==
    ASSUME NEW n \in Nat, NEW at, at \subseteq 1..n
    PROVE  /\ Cardinality(at) \in Nat /\ Cardinality(at) <= n
           /\ \A i \in at : Place(at, i) \in 1..Cardinality(at)
           /\ \A i, j \in at : i < j => Place(at, i) < Place(at, j)
           /\ \A k \in 1..Cardinality(at) : \E i \in at : Place(at, i) = k
<1> DEFINE upto(i) == {j \in at : j <= i}
           N == Cardinality(at)
<1>1. IsFiniteSet(at) /\ N \in Nat /\ N <= n
  <2>1. IsFiniteSet(1..n) /\ Cardinality(1..n) = n
    BY FS_Interval
  <2> QED
    BY <2>1, FS_Subset, FS_CardinalityType
<1>2. ASSUME NEW i PROVE IsFiniteSet(upto(i)) /\ Cardinality(upto(i)) \in Nat /\ Cardinality(upto(i)) <= N
  <2>1. upto(i) \in SUBSET at
    OBVIOUS
  <2> QED
    BY <1>1, <2>1, FS_Subset, FS_CardinalityType
<1>3. ASSUME NEW i \in at PROVE Place(at, i) \in 1..N
  <2>1. upto(i) # {}
    OBVIOUS
  <2>2. Cardinality(upto(i)) # 0
    BY <1>2, <2>1, FS_EmptySet
  <2> QED
    BY <1>1, <1>2, <2>2 DEF Place
<1>4. ASSUME NEW i \in at, NEW j \in at, i < j PROVE Place(at, i) < Place(at, j)
  <2>1. upto(i) \in SUBSET upto(j) /\ upto(i) # upto(j)
    <3>1. j \in upto(j) /\ j \notin upto(i)
      BY <1>4
    <3>2. ASSUME NEW k \in upto(i) PROVE k \in upto(j)
      BY <1>4
    <3> QED
      BY <3>1, <3>2
  <2> HIDE DEF upto
  <2>2. Cardinality(upto(i)) <= Cardinality(upto(j)) /\ Cardinality(upto(i)) # Cardinality(upto(j))
    BY <1>2, <2>1, FS_Subset
  <2> QED
    BY <1>2, <2>2 DEF Place, upto
<1>5. ASSUME NEW k \in 1..N PROVE \E i \in at : Place(at, i) = k
  <2> DEFINE place == [i \in at |-> Place(at, i)]
  <2>1. place \in Injection(at, 1..N)
    BY <1>3, <1>4 DEF Injection, IsInjective
  <2>2. IsFiniteSet(1..N) /\ Cardinality(1..N) = N
    BY <1>1, FS_Interval
  <2> HIDE DEF place
  <2>3. place \in Surjection(at, 1..N)
    BY <2>1, <2>2, FS_Injection
  <2> QED
    BY <2>3 DEF Surjection, place
<1> QED
  BY <1>1, <1>3, <1>4, <1>5

\* What is picked keeps its order and is all there.
LEMMA PickedParts ==
    ASSUME NEW S, NEW s \in Seq(S), NEW at, at \subseteq DOMAIN s
    PROVE  /\ Picked(s, at) \in Seq(S)
           /\ Len(Picked(s, at)) = Cardinality(at) /\ Len(Picked(s, at)) <= Len(s)
           /\ DOMAIN Picked(s, at) = 1..Cardinality(at)
           /\ \A k \in 1..Cardinality(at) :
                 \E i \in at : Place(at, i) = k /\ Picked(s, at)[k] = s[i]
           /\ \A i \in at : /\ Place(at, i) \in 1..Cardinality(at)
                            /\ Picked(s, at)[Place(at, i)] = s[i]
           /\ \A i, j \in at : i < j => Place(at, i) < Place(at, j)
<1> DEFINE N == Cardinality(at)
           from(k) == CHOOSE i \in at : Place(at, i) = k
<1>1. Len(s) \in Nat /\ DOMAIN s = 1..Len(s)
  OBVIOUS
<1>2. /\ N \in Nat /\ N <= Len(s)
      /\ \A i \in at : Place(at, i) \in 1..N
      /\ \A i, j \in at : i < j => Place(at, i) < Place(at, j)
      /\ \A k \in 1..N : \E i \in at : Place(at, i) = k
  BY <1>1, PlacesAre
<1>3. ASSUME NEW k \in 1..N PROVE from(k) \in at /\ Place(at, from(k)) = k
  BY <1>2
<1>4. ASSUME NEW i \in at PROVE from(Place(at, i)) = i
  <2>1. from(Place(at, i)) \in at /\ Place(at, from(Place(at, i))) = Place(at, i)
    BY <1>2, <1>3
  <2>2. \A j \in at : Place(at, j) = Place(at, i) => j = i
    BY <1>1, <1>2
  <2> QED
    BY <2>1, <2>2, Zenon
<1> HIDE DEF from
<1>5. Picked(s, at) = [k \in 1..N |-> s[from(k)]]
  BY Zenon DEF Picked, from
<1>6. Picked(s, at) \in Seq(S) /\ Len(Picked(s, at)) = N
  BY <1>1, <1>2, <1>3, <1>5
<1> HIDE DEF N
<1> QED
  BY <1>2, <1>3, <1>4, <1>5, <1>6 DEF N

-----------------------------------------------------------------------------
(* An invariant of the specification file and of what each request has     *)
(* composed: it keeps the threads of the file it was loaded from.          *)

Whole == [pins : Seq(Pins), rules : SUBSET Rules]

\* The first entry of an identifier, where thread_of finds it.
First(pins, id, i) ==
    /\ i \in DOMAIN pins /\ pins[i].id = id
    /\ \A j \in DOMAIN pins : pins[j].id = id => i <= j

\* What one operation may do to a specification.
KeepsThread(old, new, deed, id) ==
    /\ Len(new.replies) >= Len(old.replies)
    /\ SubSeq(new.replies, 1, Len(old.replies)) = old.replies
    /\ new.text # old.text => deed.by = old.author /\ deed.op = "edit"
    /\ old.state = "promoted" => new.state = "promoted"
    /\ old.state = "resolved" => new.state # "promoted"
    /\ new.state = "promoted" /\ old.state # "promoted" => deed.op = "promote" /\ deed.id = id

KeepsThreads(old, new, deed) ==
    /\ \A i \in DOMAIN old.pins :
          ~Present(new.pins, old.pins[i].id) => Thread(old.pins, old.pins[i].id).replies = <<>>
    /\ \A id : Present(old.pins, id) /\ Present(new.pins, id) =>
          KeepsThread(Thread(old.pins, id), Thread(new.pins, id), deed, id)
    /\ deed.op = "promote" => deed.rule \in new.rules
    /\ \/ new.rules \subseteq old.rules
       \/ /\ deed.op = "promote" /\ deed.via = None
          /\ Director(StaffActor[deed.by]) /\ StaffActor[deed.by].kind # "automation"

WriterOK(w) ==
    \/ writer[w] = Away
    \/ /\ writer[w].stage = "writing"
       /\ writer[w].call \in Calls /\ writer[w].attempt \in 1..ReplayAttempts
    \/ /\ writer[w].stage = "composed"
       /\ writer[w].call \in Calls /\ writer[w].attempt \in 1..ReplayAttempts
       /\ writer[w].new \in Whole
       /\ KeepsThreads(writer[w].base, writer[w].new, writer[w].call)

AnnotationsInv ==
    /\ file \in Whole
    /\ views \subseteq Views /\ calls \in 0..MaxCalls
    /\ writer = [w \in Writers |-> writer[w]]
    /\ \A w \in Writers : WriterOK(w)

-----------------------------------------------------------------------------
\* The first entry of an identifier is the thread thread_of answers with.
LEMMA FirstIsFound ==
    ASSUME NEW pins \in Seq(Pins), NEW id, NEW i, First(pins, id, i)
    PROVE  Thread(pins, id) = pins[i] /\ Present(pins, id)
<1>1. DOMAIN pins = 1..Len(pins) /\ Len(pins) \in Nat
  OBVIOUS
<1>2. \A j : First(pins, id, j) => j = i
  BY <1>1 DEF First
<1>3. (CHOOSE j \in DOMAIN pins :
            pins[j].id = id /\ \A k \in DOMAIN pins : pins[k].id = id => j <= k) = i
  BY <1>2, Zenon DEF First
<1> QED
  BY <1>3, Zenon DEF Thread, Present, First

\* An identifier that is in the file has a first entry.
LEMMA PresentHasFirst ==
    ASSUME NEW pins \in Seq(Pins), NEW id, Present(pins, id)
    PROVE  \E i \in 1..Len(pins) : First(pins, id, i) /\ Thread(pins, id) = pins[i]
<1> DEFINE at == {i \in DOMAIN pins : pins[i].id = id}
<1>1. DOMAIN pins = 1..Len(pins) /\ Len(pins) \in Nat
  OBVIOUS
<1>2. at \subseteq Nat /\ at # {}
  BY <1>1 DEF Present
<1>3. PICK i \in at : \A j \in at : i <= j
  BY <1>2, LeastOf
<1>4. First(pins, id, i)
  BY <1>3 DEF First
<1> QED
  BY <1>1, <1>4, FirstIsFound

\* The thread of an identifier is an annotation, and bears that identifier.
LEMMA ThreadIsPin ==
    ASSUME NEW pins \in Seq(Pins), NEW id, Present(pins, id)
    PROVE  Thread(pins, id) \in Pins /\ Thread(pins, id).id = id
<1>1. PICK i \in 1..Len(pins) : First(pins, id, i) /\ Thread(pins, id) = pins[i]
  BY PresentHasFirst
<1> QED
  BY <1>1 DEF First

\* An annotation written at the end hides no thread that was there.
LEMMA AppendedThreads ==
    ASSUME NEW pins \in Seq(Pins), NEW pin \in Pins, NEW id, Present(pins, id)
    PROVE  /\ Append(pins, pin) \in Seq(Pins)
           /\ Present(Append(pins, pin), id)
           /\ Thread(Append(pins, pin), id) = Thread(pins, id)
<1> DEFINE more == Append(pins, pin)
<1>1. /\ more \in Seq(Pins) /\ DOMAIN more = 1..(Len(pins) + 1) /\ Len(pins) \in Nat
      /\ DOMAIN pins = 1..Len(pins)
      /\ \A j \in 1..Len(pins) : more[j] = pins[j]
  OBVIOUS
<1>2. PICK i \in 1..Len(pins) : First(pins, id, i) /\ Thread(pins, id) = pins[i]
  BY PresentHasFirst
<1> HIDE DEF more
<1>3. First(more, id, i)
  BY <1>1, <1>2 DEF First
<1>4. Thread(more, id) = more[i] /\ Present(more, id)
  BY <1>1, <1>3, FirstIsFound
<1> QED
  BY <1>1, <1>2, <1>4 DEF more

\* Writing an annotation back changes its own thread and no other.
LEMMA ReplacedThreads ==
    ASSUME NEW pins \in Seq(Pins), NEW pin \in Pins, NEW id, Present(pins, id)
    PROVE  /\ Replaced(pins, pin) \in Seq(Pins)
           /\ Present(Replaced(pins, pin), id)
           /\ Thread(Replaced(pins, pin), id) = IF id = pin.id THEN pin ELSE Thread(pins, id)
<1> DEFINE new == Replaced(pins, pin)
<1>1. /\ new \in Seq(Pins) /\ DOMAIN new = DOMAIN pins /\ DOMAIN pins = 1..Len(pins)
      /\ \A j \in DOMAIN pins : new[j] = IF pins[j].id = pin.id THEN pin ELSE pins[j]
  BY DEF Replaced
<1> HIDE DEF new
<1>2. PICK i \in 1..Len(pins) : First(pins, id, i) /\ Thread(pins, id) = pins[i]
  BY PresentHasFirst
<1>3. \A j \in DOMAIN pins : new[j].id = pins[j].id
  BY <1>1
<1>4. First(new, id, i)
  BY <1>1, <1>2, <1>3 DEF First
<1>5. Thread(new, id) = new[i] /\ Present(new, id)
  BY <1>1, <1>4, FirstIsFound
<1> QED
  BY <1>1, <1>2, <1>5 DEF new, First

\* A withdrawal takes the entries of one identifier and leaves every other thread.
LEMMA LeftThreads ==
    ASSUME NEW pins \in Seq(Pins), NEW gone
    PROVE  /\ Without(pins, gone) \in Seq(Pins)
           /\ ~Present(Without(pins, gone), gone)
           /\ \A id : Present(pins, id) /\ id # gone =>
                 /\ Present(Without(pins, gone), id)
                 /\ Thread(Without(pins, gone), id) = Thread(pins, id)
<1> DEFINE at == {i \in DOMAIN pins : pins[i].id # gone}
           left == Picked(pins, at)
           N == Cardinality(at)
<1>1. left = Without(pins, gone)
  BY DEF Without
<1>2. DOMAIN pins = 1..Len(pins) /\ Len(pins) \in Nat /\ at \subseteq DOMAIN pins
  OBVIOUS
<1>3. /\ left \in Seq(Pins) /\ DOMAIN left = 1..N
      /\ \A k \in 1..N : \E i \in at : Place(at, i) = k /\ left[k] = pins[i]
      /\ \A i \in at : Place(at, i) \in 1..N /\ left[Place(at, i)] = pins[i]
      /\ \A i, j \in at : i < j => Place(at, i) < Place(at, j)
  <2> HIDE DEF at
  <2> QED
    BY <1>2, PickedParts
<1> HIDE DEF left, N
<1>4. ~Present(left, gone)
  BY <1>3 DEF Present
<1>5. ASSUME NEW id, Present(pins, id), id # gone
      PROVE  Present(left, id) /\ Thread(left, id) = Thread(pins, id)
  <2>1. PICK i \in 1..Len(pins) : First(pins, id, i) /\ Thread(pins, id) = pins[i]
    BY <1>5, PresentHasFirst
  <2>2. i \in at
    BY <1>5, <2>1 DEF First
  <2>3. ASSUME NEW k \in 1..N, left[k].id = id PROVE Place(at, i) <= k
    <3>1. PICK j \in at : Place(at, j) = k /\ left[k] = pins[j]
      BY <1>3
    <3>2. i <= j
      BY <2>1, <2>3, <3>1 DEF First
    <3>3. i = j \/ i < j
      BY <1>2, <3>2
    <3>4. Place(at, i) \in 1..N /\ Place(at, j) \in 1..N
      BY <1>3, <2>2
    <3> HIDE DEF at
    <3>5. CASE i = j
      BY <3>1, <3>4, <3>5
    <3>6. CASE i < j
      BY <1>3, <2>2, <3>1, <3>4, <3>6
    <3> QED
      BY <3>3, <3>5, <3>6
  <2>4. Place(at, i) \in 1..N /\ left[Place(at, i)] = pins[i]
    BY <1>3, <2>2
  <2> HIDE DEF at
  <2>5. First(left, id, Place(at, i))
    BY <1>3, <2>1, <2>3, <2>4 DEF First
  <2> QED
    BY <1>3, <2>1, <2>4, <2>5, FirstIsFound
<1> QED
  BY <1>1, <1>3, <1>4, <1>5

-----------------------------------------------------------------------------
(* What each operation does with the specification it loaded. *)

\* An annotation is the record of its fields.
LEMMA PinFields ==
    ASSUME NEW pin \in Pins
    PROVE  /\ pin = [id |-> pin.id, author |-> pin.author, text |-> pin.text, view |-> pin.view,
                     state |-> pin.state, replies |-> pin.replies]
           /\ pin.id \in {c.id : c \in Calls} /\ pin.author \in Staff /\ pin.text \in Texts
           /\ pin.view \in Views /\ pin.state \in {"open", "resolved", "promoted"}
           /\ pin.replies \in Seq(Replies) /\ Len(pin.replies) \in Nat
           /\ SubSeq(pin.replies, 1, Len(pin.replies)) = pin.replies
<1>1. pin = [id |-> pin.id, author |-> pin.author, text |-> pin.text, view |-> pin.view,
             state |-> pin.state, replies |-> pin.replies]
      /\ pin.id \in {c.id : c \in Calls} /\ pin.author \in Staff /\ pin.text \in Texts
      /\ pin.view \in Views /\ pin.state \in {"open", "resolved", "promoted"}
      /\ pin.replies \in Seq(Replies)
  BY DEF Pins
<1>2. SubSeq(pin.replies, 1, Len(pin.replies)) = pin.replies /\ Len(pin.replies) \in Nat
  BY <1>1
<1> QED
  BY <1>1, <1>2

\* A specification is its annotations and its rules.
LEMMA WholeFields ==
    ASSUME NEW f \in Whole
    PROVE  /\ f.pins \in Seq(Pins) /\ f.rules \in SUBSET Rules
           /\ \A pins \in Seq(Pins) : /\ [f EXCEPT !.pins = pins] \in Whole
                                      /\ [f EXCEPT !.pins = pins].pins = pins
                                      /\ [f EXCEPT !.pins = pins].rules = f.rules
  BY DEF Whole

\* An untouched thread is kept.
LEMMA SameThread ==
    ASSUME NEW pin \in Pins, NEW deed, NEW id
    PROVE  KeepsThread(pin, pin, deed, id)
  BY PinFields DEF KeepsThread

\* An operation on one annotation keeps the threads when it keeps that one.
LEMMA ReplacingKeeps ==
    ASSUME NEW old \in Whole, NEW new \in Whole, NEW deed, NEW pin \in Pins,
           new.pins = Replaced(old.pins, pin), Present(old.pins, pin.id),
           KeepsThread(Thread(old.pins, pin.id), pin, deed, pin.id),
           deed.op = "promote" => deed.rule \in new.rules,
           \/ new.rules \subseteq old.rules
           \/ /\ deed.op = "promote" /\ deed.via = None
              /\ Director(StaffActor[deed.by]) /\ StaffActor[deed.by].kind # "automation"
    PROVE  KeepsThreads(old, new, deed)
<1>1. old.pins \in Seq(Pins) /\ DOMAIN old.pins = 1..Len(old.pins)
  BY WholeFields
<1>2. ASSUME NEW i \in DOMAIN old.pins PROVE Present(new.pins, old.pins[i].id)
  <2>1. Present(old.pins, old.pins[i].id)
    BY DEF Present
  <2> QED
    BY <1>1, <2>1, ReplacedThreads
<1>3. ASSUME NEW id, Present(old.pins, id)
      PROVE  KeepsThread(Thread(old.pins, id), Thread(new.pins, id), deed, id)
  <2>1. Thread(new.pins, id) = IF id = pin.id THEN pin ELSE Thread(old.pins, id)
    BY <1>1, <1>3, ReplacedThreads
  <2>2. Thread(old.pins, id) \in Pins
    BY <1>1, <1>3, ThreadIsPin
  <2> QED
    BY <2>1, <2>2, SameThread
<1> QED
  BY <1>2, <1>3, Zenon DEF KeepsThreads

\* A new annotation at the end keeps every thread.
LEMMA AppendingKeeps ==
    ASSUME NEW old \in Whole, NEW deed, NEW pin \in Pins, deed.op # "promote"
    PROVE  /\ [old EXCEPT !.pins = Append(old.pins, pin)] \in Whole
           /\ KeepsThreads(old, [old EXCEPT !.pins = Append(old.pins, pin)], deed)
<1> DEFINE new == [old EXCEPT !.pins = Append(old.pins, pin)]
<1>1. old.pins \in Seq(Pins) /\ Append(old.pins, pin) \in Seq(Pins)
  BY WholeFields
<1>2. new \in Whole /\ new.pins = Append(old.pins, pin) /\ new.rules = old.rules
  BY <1>1, WholeFields
<1> HIDE DEF new
<1>3. ASSUME NEW id, Present(old.pins, id)
      PROVE  Present(new.pins, id) /\ KeepsThread(Thread(old.pins, id), Thread(new.pins, id), deed, id)
  <2>1. Present(new.pins, id) /\ Thread(new.pins, id) = Thread(old.pins, id)
    BY <1>1, <1>2, <1>3, AppendedThreads
  <2>2. Thread(old.pins, id) \in Pins
    BY <1>1, <1>3, ThreadIsPin
  <2> QED
    BY <2>1, <2>2, SameThread
<1>4. \A i \in DOMAIN old.pins : Present(new.pins, old.pins[i].id)
  BY <1>3, Zenon DEF Present
<1>5. new.rules \subseteq old.rules
  BY <1>2
<1>6. KeepsThreads(old, new, deed)
  BY <1>3, <1>4, <1>5, Zenon DEF KeepsThreads
<1> QED
  BY <1>2, <1>6 DEF new

\* Withdrawing an annotation nobody answered keeps every other thread.
LEMMA WithdrawingKeeps ==
    ASSUME NEW old \in Whole, NEW deed, NEW gone, deed.op # "promote",
           Thread(old.pins, gone).replies = <<>>
    PROVE  /\ [old EXCEPT !.pins = Without(old.pins, gone)] \in Whole
           /\ KeepsThreads(old, [old EXCEPT !.pins = Without(old.pins, gone)], deed)
<1> DEFINE new == [old EXCEPT !.pins = Without(old.pins, gone)]
<1>1. old.pins \in Seq(Pins)
  BY WholeFields
<1>2. /\ Without(old.pins, gone) \in Seq(Pins)
      /\ ~Present(Without(old.pins, gone), gone)
      /\ \A id : Present(old.pins, id) /\ id # gone =>
            /\ Present(Without(old.pins, gone), id)
            /\ Thread(Without(old.pins, gone), id) = Thread(old.pins, id)
  BY <1>1, LeftThreads
<1>3. new \in Whole /\ new.pins = Without(old.pins, gone) /\ new.rules = old.rules
  BY <1>2, WholeFields
<1> HIDE DEF new
<1>4. ASSUME NEW i \in DOMAIN old.pins, ~Present(new.pins, old.pins[i].id)
      PROVE  Thread(old.pins, old.pins[i].id).replies = <<>>
  <2>1. Present(old.pins, old.pins[i].id)
    BY DEF Present
  <2>2. old.pins[i].id = gone
    BY <1>2, <1>3, <1>4, <2>1
  <2> QED
    BY <2>2
<1>5. ASSUME NEW id, Present(old.pins, id), Present(new.pins, id)
      PROVE  KeepsThread(Thread(old.pins, id), Thread(new.pins, id), deed, id)
  <2>1. id # gone
    BY <1>2, <1>3, <1>5
  <2>2. Thread(new.pins, id) = Thread(old.pins, id) /\ Thread(old.pins, id) \in Pins
    BY <1>1, <1>2, <1>3, <1>5, <2>1, ThreadIsPin
  <2> QED
    BY <2>2, SameThread
<1>6. new.rules \subseteq old.rules
  BY <1>3
<1>7. KeepsThreads(old, new, deed)
  BY <1>4, <1>5, <1>6, Zenon DEF KeepsThreads
<1> QED
  BY <1>3, <1>7 DEF new

-----------------------------------------------------------------------------
Writing(w) == w \in Writers /\ writer[w].stage = "writing"
Stepped(w) == writer' = [writer EXCEPT ![w] = writer'[w]] /\ WriterOK(w)'

\* What a request holds before and after it composed its edit.
LEMMA WriterFields ==
    ASSUME AnnotationsInv, NEW w \in Writers, writer[w].stage \in {"writing", "composed"}
    PROVE  /\ writer[w].call \in Calls /\ writer[w].attempt \in 1..ReplayAttempts
           /\ writer[w].stage = "composed" =>
                 writer[w].new \in Whole
                 /\ KeepsThreads(writer[w].base, writer[w].new, writer[w].call)
<1>1. WriterOK(w)
  BY DEF AnnotationsInv
<1>2. writer[w] # Away
  BY DEF Away
<1> QED
  BY <1>1, <1>2, Zenon DEF WriterOK

\* A step of one request writes what it says there.
LEMMA StepMoves ==
    ASSUME AnnotationsInv, NEW w \in Writers, NEW record, NEW from, Step(w, from, record)
    PROVE  writer' = [writer EXCEPT ![w] = writer'[w]] /\ writer'[w] = record
  BY DEF AnnotationsInv, Step

\* A request that composed an edit that keeps the threads holds what it should.
LEMMA ComposedMoves ==
    ASSUME AnnotationsInv, NEW w, Writing(w), NEW new \in Whole,
           KeepsThreads(file, new, writer[w].call), Composed(w, new)
    PROVE  Stepped(w)
<1> DEFINE record == [stage |-> "composed", call |-> writer[w].call,
                      attempt |-> writer[w].attempt, base |-> file, new |-> new]
<1>1. writer[w].call \in Calls /\ writer[w].attempt \in 1..ReplayAttempts
  BY WriterFields DEF Writing
<1>2. /\ writer' = [writer EXCEPT ![w] = writer'[w]]
      /\ writer'[w] = IF new = file THEN Away ELSE record
  BY StepMoves DEF Composed, Writing
<1>3. CASE new = file
  BY <1>2, <1>3, Zenon DEF Stepped, WriterOK
<1>4. CASE new # file
  <2>1. writer'[w] = record
    BY <1>2, <1>4
  <2> QED
    BY <1>1, <1>2, <2>1 DEF Stepped, WriterOK
<1> QED
  BY <1>3, <1>4

\* An operation that writes one annotation back as it should be.
LEMMA PinWritten ==
    ASSUME AnnotationsInv, NEW w, Writing(w), NEW deed, deed = writer[w].call, Found(deed),
           NEW pin \in Pins, pin.id = deed.id, KeepsThread(Pin(deed), pin, deed, deed.id),
           deed.op # "promote", With(w, pin)
    PROVE  Stepped(w)
<1> DEFINE new == [file EXCEPT !.pins = Replaced(file.pins, pin)]
<1>1. file \in Whole /\ file.pins \in Seq(Pins)
  BY WholeFields DEF AnnotationsInv
<1>2. Replaced(file.pins, pin) \in Seq(Pins)
  BY <1>1, ReplacedThreads DEF Found
<1>3. new \in Whole /\ new.pins = Replaced(file.pins, pin) /\ new.rules = file.rules
  BY <1>1, <1>2, WholeFields
<1>4. Composed(w, new)
  BY Zenon DEF With
<1> HIDE DEF new
<1>5. new.rules \subseteq file.rules
  BY <1>3
<1>6. KeepsThreads(file, new, deed)
  BY <1>1, <1>3, <1>5, ReplacingKeeps DEF Found, Pin
<1> QED
  BY <1>3, <1>4, <1>6, ComposedMoves

\* create_annotation: written at the end, whatever else is there.
LEMMA CreateMoves ==
    ASSUME AnnotationsInv, NEW w, Writing(w), CreateAnnotation(w, writer[w].call)
    PROVE  Stepped(w)
<1> DEFINE deed == writer[w].call
           pin == [id |-> deed.id, author |-> deed.by, text |-> deed.text,
                   view |-> deed.view, state |-> "open", replies |-> <<>>]
<1>1. deed \in Calls
  BY WriterFields DEF Writing
<1>2. deed.op = "create" /\ deed.view \in views
      /\ Composed(w, [file EXCEPT !.pins = Append(file.pins, pin)])
  BY DEF CreateAnnotation
<1>3. deed.by \in Staff /\ deed.view \in Views
  BY <1>1, <1>2, AnnotationsAssumption DEF AnnotationsInv
<1>4. deed.text \in Texts
  BY <1>1, <1>2 DEF Texts
<1> HIDE DEF deed
<1>5. pin \in Pins
  BY <1>1, <1>3, <1>4 DEF Pins
<1>6. file \in Whole
  BY DEF AnnotationsInv
<1> HIDE DEF pin
<1>7. /\ [file EXCEPT !.pins = Append(file.pins, pin)] \in Whole
      /\ KeepsThreads(file, [file EXCEPT !.pins = Append(file.pins, pin)], deed)
  BY <1>2, <1>5, <1>6, AppendingKeeps
<1> QED
  BY <1>2, <1>7, ComposedMoves DEF deed

\* The annotation an operation loaded is one, with the identifier call for.
LEMMA LoadedPin ==
    ASSUME AnnotationsInv, NEW deed, Found(deed)
    PROVE  Pin(deed) \in Pins /\ Pin(deed).id = deed.id
<1>1. file.pins \in Seq(Pins)
  BY WholeFields DEF AnnotationsInv
<1> QED
  BY <1>1, ThreadIsPin DEF Found, Pin

\* reply_to: one more reply, or the one that is there already.
LEMMA ReplyMoves ==
    ASSUME AnnotationsInv, NEW w, Writing(w), ReplyToAnnotation(w, writer[w].call)
    PROVE  Stepped(w)
<1> DEFINE deed == writer[w].call
           pin == Pin(deed)
           answers == pin.replies
           more == [pin EXCEPT !.replies = Append(answers, [id |-> deed.reply, by |-> deed.by])]
<1>1. deed \in Calls
  BY WriterFields DEF Writing
<1>2. deed.op = "reply" /\ Found(deed)
      /\ With(w, IF \E i \in DOMAIN answers : answers[i].id = deed.reply THEN pin ELSE more)
  BY Zenon DEF ReplyToAnnotation
<1>3. pin \in Pins /\ pin.id = deed.id
  BY <1>2, LoadedPin
<1>4. [id |-> deed.reply, by |-> deed.by] \in Replies
  BY <1>1, <1>2, AnnotationsAssumption DEF Replies
<1> HIDE DEF deed, pin
<1>5. CASE With(w, pin)
  <2>1. KeepsThread(pin, pin, deed, deed.id)
    BY <1>3, SameThread
  <2> QED
    BY <1>2, <1>3, <1>5, <2>1, PinWritten DEF deed, pin
<1>6. CASE With(w, more)
  <2> DEFINE reply == [id |-> deed.reply, by |-> deed.by]
  <2>1. /\ pin.replies \in Seq(Replies) /\ pin.state \in {"open", "resolved", "promoted"}
        /\ Append(pin.replies, reply) \in Seq(Replies)
    BY <1>3, <1>4, PinFields
  <2>4. more = [pin EXCEPT !.replies = Append(pin.replies, reply)]
    OBVIOUS
  <2> HIDE DEF more, reply
  <2>5. /\ more.replies = Append(pin.replies, reply)
        /\ more.id = pin.id /\ more.text = pin.text /\ more.state = pin.state /\ more \in Pins
    BY <1>3, <2>1, <2>4, PinFields DEF Pins
  <2>2. /\ Len(more.replies) >= Len(pin.replies)
        /\ SubSeq(more.replies, 1, Len(pin.replies)) = pin.replies
    BY <1>4, <2>1, <2>5 DEF reply
  <2>3. KeepsThread(pin, more, deed, deed.id)
    BY <2>1, <2>2, <2>5 DEF KeepsThread
  <2> QED
    BY <1>2, <1>3, <1>6, <2>3, <2>5, PinWritten DEF deed, pin
<1> QED
  BY <1>2, <1>5, <1>6, Zenon

\* Only the author's contributions are edited.
LEMMA AuthorEdits ==
    ASSUME NEW deed \in Calls, NEW author, Permitted(deed, "edit_contribution", author)
    PROVE  deed.by = author
<1>1. StaffActor[deed.by].id = deed.by
  BY AnnotationsAssumption
<1>2. StaffActor[deed.by].id = author
  BY SMT DEF Permitted, Decide, RoleRule, ReadOnly, ByAnyone, ByAuthor, ByAuthorOrOwner,
            ByOwner, ByAssigneeOrOwner
<1> QED
  BY <1>1, <1>2

\* A director in person, and nobody else, promotes.
LEMMA DirectorPromotes ==
    ASSUME NEW deed \in Calls, NEW author, Permitted(deed, "promote_to_rule", author)
    PROVE  /\ deed.via = None /\ Director(StaffActor[deed.by])
           /\ StaffActor[deed.by].kind # "automation"
<1>1. "promote_to_rule" \in HumanOnly /\ "promote_to_rule" \notin ReadOnly
  BY DEF HumanOnly, ByDirector, ReadOnly
<1>2. deed.via = None /\ StaffActor[deed.by].kind # "automation"
  BY <1>1 DEF Permitted, Decide, NeedsPerson
<1>3. Director(StaffActor[deed.by])
  BY SMT DEF Permitted, Decide, RoleRule, ReadOnly, ByAnyone, ByAuthor, ByAuthorOrOwner,
            ByOwner, ByAssigneeOrOwner
<1> QED
  BY <1>2, <1>3

\* edit_annotation: the words change, and only at their author's request.
LEMMA EditMoves ==
    ASSUME AnnotationsInv, NEW w, Writing(w), EditAnnotation(w, writer[w].call)
    PROVE  Stepped(w)
<1> DEFINE deed == writer[w].call
           pin == Pin(deed)
           new == [pin EXCEPT !.text = deed.text]
<1>1. deed \in Calls
  BY WriterFields DEF Writing
<1>2. /\ deed.op = "edit" /\ Found(deed) /\ With(w, new)
      /\ Permitted(deed, "edit_contribution", pin.author)
  BY Zenon DEF EditAnnotation
<1>3. pin \in Pins /\ pin.id = deed.id
  BY <1>2, LoadedPin
<1>4. deed.text \in Texts
  BY <1>1, <1>2 DEF Texts
<1>5. deed.by = pin.author
  BY <1>1, <1>2, AuthorEdits
<1> HIDE DEF deed, pin
<1>6. /\ new \in Pins /\ new.id = deed.id /\ new.replies = pin.replies
      /\ new.state = pin.state
  BY <1>3, <1>4, PinFields DEF Pins
<1> HIDE DEF new
<1>7. KeepsThread(pin, new, deed, deed.id)
  BY <1>2, <1>3, <1>5, <1>6, PinFields DEF KeepsThread
<1> QED
  BY <1>2, <1>6, <1>7, PinWritten DEF deed, pin

\* delete_annotation: only where nobody replied.
LEMMA DeleteMoves ==
    ASSUME AnnotationsInv, NEW w, Writing(w), DeleteAnnotation(w, writer[w].call)
    PROVE  Stepped(w)
<1> DEFINE deed == writer[w].call
           new == [file EXCEPT !.pins = Without(file.pins, deed.id)]
<1>1. /\ deed.op = "delete" /\ Thread(file.pins, deed.id).replies = <<>>
      /\ Composed(w, new)
  BY DEF DeleteAnnotation, Pin
<1>2. file \in Whole
  BY DEF AnnotationsInv
<1> HIDE DEF deed
<1>3. new \in Whole /\ KeepsThreads(file, new, deed)
  BY <1>1, <1>2, WithdrawingKeeps
<1> QED
  BY <1>1, <1>3, ComposedMoves DEF deed

\* Where an annotation is pinned is nobody's words.
LEMMA ViewWritten ==
    ASSUME AnnotationsInv, NEW w, Writing(w), NEW deed, deed = writer[w].call, Found(deed),
           deed.op \in {"move", "reanchor"}, deed.view \in views,
           With(w, [Pin(deed) EXCEPT !.view = deed.view])
    PROVE  Stepped(w)
<1> DEFINE pin == Pin(deed)
           new == [pin EXCEPT !.view = deed.view]
<1>1. pin \in Pins /\ pin.id = deed.id
  BY LoadedPin
<1>2. deed.view \in Views
  BY DEF AnnotationsInv
<1>3. With(w, new)
  BY Zenon
<1> HIDE DEF pin
<1>4. /\ new \in Pins /\ new.id = deed.id /\ new.replies = pin.replies
      /\ new.state = pin.state /\ new.text = pin.text
  BY <1>1, <1>2, PinFields DEF Pins
<1> HIDE DEF new
<1>5. KeepsThread(pin, new, deed, deed.id)
  BY <1>1, <1>4, PinFields DEF KeepsThread
<1> QED
  BY <1>3, <1>4, <1>5, PinWritten DEF pin

\* A resolution, or a reopening, of what is not promoted.
LEMMA StateWritten ==
    ASSUME AnnotationsInv, NEW w, Writing(w), NEW deed, deed = writer[w].call, Found(deed),
           deed.op \in {"resolve", "reopen"}, NEW state \in {"open", "resolved"},
           Pin(deed).state # "promoted", With(w, [Pin(deed) EXCEPT !.state = state])
    PROVE  Stepped(w)
<1> DEFINE pin == Pin(deed)
           new == [pin EXCEPT !.state = state]
<1>1. pin \in Pins /\ pin.id = deed.id
  BY LoadedPin
<1>2. With(w, new) /\ pin.state # "promoted"
  BY Zenon
<1> HIDE DEF pin
<1>3. /\ new \in Pins /\ new.id = deed.id /\ new.replies = pin.replies
      /\ new.state = state /\ new.text = pin.text
  BY <1>1, PinFields DEF Pins
<1> HIDE DEF new
<1>4. KeepsThread(pin, new, deed, deed.id)
  BY <1>1, <1>2, <1>3, PinFields DEF KeepsThread
<1> QED
  BY <1>2, <1>3, <1>4, PinWritten DEF pin

\* promote: the rule and the retired annotation together, by a director in person.
LEMMA PromoteMoves ==
    ASSUME AnnotationsInv, NEW w, Writing(w), PromoteAnnotation(w, writer[w].call)
    PROVE  Stepped(w)
<1> DEFINE deed == writer[w].call
           pin == Pin(deed)
           retired == [pin EXCEPT !.state = "promoted"]
           new == [pins |-> Replaced(file.pins, retired), rules |-> file.rules \cup {deed.rule}]
<1>1. deed \in Calls
  BY WriterFields DEF Writing
<1>2. /\ deed.op = "promote" /\ Found(deed) /\ Composed(w, new) /\ pin.state = "open"
      /\ Permitted(deed, "promote_to_rule", pin.author)
  BY Zenon DEF PromoteAnnotation
<1>3. pin \in Pins /\ pin.id = deed.id
  BY <1>2, LoadedPin
<1>4. /\ deed.via = None /\ Director(StaffActor[deed.by])
      /\ StaffActor[deed.by].kind # "automation"
  BY <1>1, <1>2, DirectorPromotes
<1>5. deed.rule \in Rules
  BY <1>1, <1>2 DEF Rules
<1>6. file \in Whole /\ file.pins \in Seq(Pins) /\ file.rules \in SUBSET Rules
  BY WholeFields DEF AnnotationsInv
<1>7. Present(file.pins, deed.id) /\ pin = Thread(file.pins, deed.id)
  BY <1>2 DEF Found, Pin
<1> HIDE DEF deed, pin
<1>8. /\ retired \in Pins /\ retired.id = deed.id /\ retired.replies = pin.replies
      /\ retired.state = "promoted" /\ retired.text = pin.text
  BY <1>3, PinFields DEF Pins
<1> HIDE DEF retired
<1>9. KeepsThread(pin, retired, deed, deed.id)
  BY <1>2, <1>3, <1>8, PinFields DEF KeepsThread
<1>10. Replaced(file.pins, retired) \in Seq(Pins)
  BY <1>6, <1>7, <1>8, ReplacedThreads
<1>11. /\ new \in Whole /\ new.pins = Replaced(file.pins, retired)
       /\ deed.rule \in new.rules
  BY <1>5, <1>6, <1>10 DEF Whole
<1> HIDE DEF new
<1>12. KeepsThreads(file, new, deed)
  BY <1>2, <1>4, <1>6, <1>7, <1>8, <1>9, <1>11, ReplacingKeeps
<1> QED
  BY <1>2, <1>11, <1>12, ComposedMoves DEF deed

\* Whatever the operation, what it composes keeps the threads it loaded.
LEMMA LoadMoves ==
    ASSUME AnnotationsInv, NEW w \in Writers, Load(w)
    PROVE  Stepped(w)
<1> DEFINE deed == writer[w].call
<1>1. Writing(w)
  BY DEF Load, Writing
<1>2. CASE CreateAnnotation(w, deed)
  BY <1>1, <1>2, CreateMoves
<1>3. CASE ReplyToAnnotation(w, deed)
  BY <1>1, <1>3, ReplyMoves
<1>4. CASE EditAnnotation(w, deed)
  BY <1>1, <1>4, EditMoves
<1>5. CASE DeleteAnnotation(w, deed)
  BY <1>1, <1>5, DeleteMoves
<1>6. CASE MoveAnnotation(w, deed)
  BY <1>1, <1>6, ViewWritten DEF MoveAnnotation
<1>7. CASE ReanchorAnnotation(w, deed)
  BY <1>1, <1>7, ViewWritten DEF ReanchorAnnotation
<1>8. CASE ResolveAnnotation(w, deed)
  BY <1>1, <1>8, StateWritten DEF ResolveAnnotation
<1>9. CASE ReopenAnnotation(w, deed)
  BY <1>1, <1>9, StateWritten DEF ReopenAnnotation
<1>10. CASE PromoteAnnotation(w, deed)
  BY <1>1, <1>10, PromoteMoves
<1> QED
  BY <1>2, <1>3, <1>4, <1>5, <1>6, <1>7, <1>8, <1>9, <1>10, Zenon DEF Load

\* A request comes in with its first attempt ahead of it.
LEMMA ArriveMoves ==
    ASSUME AnnotationsInv, NEW w \in Writers, NEW deed \in Calls, Arrive(w, deed)
    PROVE  Stepped(w)
<1>1. /\ writer' = [writer EXCEPT ![w] = writer'[w]]
      /\ writer'[w] = [stage |-> "writing", call |-> deed, attempt |-> 1]
  BY StepMoves DEF Arrive
<1> QED
  BY <1>1 DEF Stepped, WriterOK, ReplayAttempts

\* A request that ends, however it does, holds nothing.
LEMMA EndedMoves ==
    ASSUME AnnotationsInv, NEW w \in Writers, Reject(w) \/ Commit(w) \/ Unreachable(w)
    PROVE  Stepped(w) /\ writer'[w] = Away
<1>1. \E from : Step(w, from, Away)
  BY Zenon DEF Reject, Commit, Unreachable
<1>2. writer' = [writer EXCEPT ![w] = writer'[w]] /\ writer'[w] = Away
  BY <1>1, StepMoves
<1> QED
  BY <1>2, Zenon DEF Stepped, WriterOK

\* A conflict is replayed at most once, on nothing of what was loaded.
LEMMA ConflictMoves ==
    ASSUME AnnotationsInv, NEW w \in Writers, Conflict(w)
    PROVE  Stepped(w)
<1> DEFINE mine == writer[w]
           again == [stage |-> "writing", call |-> mine.call, attempt |-> mine.attempt + 1]
<1>1. mine.call \in Calls /\ mine.attempt \in 1..ReplayAttempts
  BY WriterFields DEF Conflict
<1>2. /\ writer' = [writer EXCEPT ![w] = writer'[w]]
      /\ writer'[w] = IF mine.attempt = ReplayAttempts THEN Away ELSE again
  BY StepMoves DEF Conflict
<1>3. CASE mine.attempt = ReplayAttempts
  BY <1>2, <1>3, Zenon DEF Stepped, WriterOK
<1>4. CASE mine.attempt # ReplayAttempts
  <2>1. writer'[w] = again /\ mine.attempt + 1 \in 1..ReplayAttempts
    BY <1>1, <1>2, <1>4 DEF ReplayAttempts
  <2> HIDE DEF mine
  <2> QED
    BY <1>1, <1>2, <2>1 DEF Stepped, WriterOK, mine
<1> QED
  BY <1>3, <1>4

-----------------------------------------------------------------------------
\* One writer's step leaves the others as they were.
LEMMA OneWriterMoves ==
    ASSUME AnnotationsInv, NEW w \in Writers, Stepped(w)
    PROVE  /\ writer' = [v \in Writers |-> writer'[v]]
           /\ \A v \in Writers : WriterOK(v)'
<1>1. writer = [v \in Writers |-> writer[v]] /\ \A v \in Writers : WriterOK(v)
  BY DEF AnnotationsInv
<1>2. \A v \in Writers : v # w => writer'[v] = writer[v]
  BY <1>1, Zenon DEF Stepped
<1>3. \A v \in Writers : WriterOK(v)'
  BY <1>1, <1>2, Zenon DEF Stepped, WriterOK
<1>4. writer' = [v \in Writers |-> writer'[v]]
  BY <1>1 DEF Stepped
<1> QED
  BY <1>3, <1>4

\* The invariant holds of an empty specification.
LEMMA AnnotationsStart == AnnotationsInit => AnnotationsInv
<1> SUFFICES ASSUME AnnotationsInit PROVE AnnotationsInv
  OBVIOUS
<1>1. file \in Whole
  BY DEF AnnotationsInit, Whole
<1>2. views \subseteq Views /\ calls \in 0..MaxCalls
  BY AnnotationsAssumption DEF AnnotationsInit
<1>3. writer = [w \in Writers |-> writer[w]] /\ \A w \in Writers : writer[w] = Away
  BY DEF AnnotationsInit
<1> QED
  BY <1>1, <1>2, <1>3, Zenon DEF AnnotationsInv, WriterOK

\* Every step of every request keeps the invariant.
LEMMA AnnotationsStep == AnnotationsInv /\ [AnnotationsNext]_annotationVars => AnnotationsInv'
<1> SUFFICES ASSUME AnnotationsInv, [AnnotationsNext]_annotationVars PROVE AnnotationsInv'
  OBVIOUS
<1> USE DEF AnnotationsInv
<1>1. ASSUME NEW w \in Writers, Stepped(w), file' \in Whole, UNCHANGED views,
             calls' \in 0..MaxCalls
      PROVE  AnnotationsInv'
  BY <1>1, OneWriterMoves
<1>2. ASSUME UNCHANGED writer, file' \in Whole, views' \subseteq Views, UNCHANGED calls
      PROVE  AnnotationsInv'
  BY <1>2, Zenon DEF WriterOK
<1>3. ASSUME NEW w \in Writers, NEW deed \in Calls, Arrive(w, deed) PROVE AnnotationsInv'
  <2>1. calls' \in 0..MaxCalls
    BY <1>3, AnnotationsAssumption DEF Arrive
  <2> QED
    BY <1>1, <1>3, <2>1, ArriveMoves DEF Arrive
<1>4. ASSUME NEW w \in Writers, Load(w) PROVE AnnotationsInv'
  BY <1>1, <1>4, LoadMoves DEF Load
<1>5. ASSUME NEW w \in Writers, Reject(w) \/ Unreachable(w) PROVE AnnotationsInv'
  BY <1>1, <1>5, EndedMoves DEF Reject, Unreachable
<1>6. ASSUME NEW w \in Writers, Commit(w) PROVE AnnotationsInv'
  <2>1. file' \in Whole
    BY <1>6, WriterFields DEF Commit, Step
  <2> QED
    BY <1>1, <1>6, <2>1, EndedMoves DEF Commit
<1>7. ASSUME NEW w \in Writers, Conflict(w) PROVE AnnotationsInv'
  BY <1>1, <1>7, ConflictMoves DEF Conflict
<1>8. CASE DropRules
  <2>1. file' \in Whole
    BY <1>8 DEF DropRules, Whole
  <2> QED
    BY <1>2, <1>8, <2>1 DEF DropRules
<1>9. ASSUME NEW view \in Fleeting, ChangeViews(view) PROVE AnnotationsInv'
  <2>1. views' \subseteq Views
    BY <1>9, AnnotationsAssumption DEF ChangeViews
  <2> QED
    BY <1>2, <1>9, <2>1 DEF ChangeViews
<1>10. CASE UNCHANGED annotationVars
  BY <1>2, <1>10 DEF annotationVars
<1> QED
  BY <1>3, <1>4, <1>5, <1>6, <1>7, <1>8, <1>9, <1>10, Zenon DEF AnnotationsNext

\* The invariant contains the type invariant.
LEMMA AnnotationsTyped == AnnotationsInv => AnnotationsTypeOK
<1> SUFFICES ASSUME AnnotationsInv PROVE AnnotationsTypeOK
  OBVIOUS
<1>1. file.pins \in Seq(Pins) /\ file.rules \in SUBSET Rules
  BY WholeFields DEF AnnotationsInv
<1>2. \A i \in DOMAIN file.pins : file.pins[i] \in Pins
  BY <1>1
<1>3. views \subseteq Views /\ calls \in 0..MaxCalls
  BY DEF AnnotationsInv
<1>4. ASSUME NEW w \in Writers
      PROVE  \/ writer[w] = Away
             \/ /\ writer[w].stage \in {"writing", "composed"}
                /\ writer[w].call \in Calls /\ writer[w].attempt \in 1..ReplayAttempts
  BY Zenon DEF AnnotationsInv, WriterOK
<1> QED
  BY <1>1, <1>2, <1>3, <1>4 DEF AnnotationsTypeOK

\* What a step must keep of the discussion.
StepKeeps == WordsSurvive /\ ExitsAreFinal /\ RulesAreDirected

\* A commit lands the edit that was composed on the very file it replaces.
LEMMA CommitKeeps ==
    ASSUME AnnotationsInv, NEW w \in Writers, Commit(w)
    PROVE  StepKeeps
<1> DEFINE deed == writer[w].call
<1>1. /\ deed \in Calls /\ writer[w].stage = "composed"
      /\ KeepsThreads(file, file', deed)
  BY WriterFields DEF Commit, Step
<1>2. CommittedBy(deed)
  BY <1>1, EndedMoves, Zenon DEF CommittedBy
<1> HIDE DEF deed
<1>3. WordsSurvive
  <2>1. ASSUME NEW i \in DOMAIN file.pins, ~Present(file'.pins, file.pins[i].id)
        PROVE  Thread(file.pins, file.pins[i].id).replies = <<>>
    BY <1>1, <2>1, Zenon DEF KeepsThreads
  <2>2. ASSUME NEW id \in KeptPins
        PROVE  KeepsThread(Thread(file.pins, id), Thread(file'.pins, id), deed, id)
    BY <1>1, Zenon DEF KeepsThreads, KeptPins
  <2> QED
    BY <1>1, <1>2, <2>1, <2>2, Zenon DEF WordsSurvive, KeepsThread
<1>4. ExitsAreFinal
  <2>1. ASSUME NEW id \in KeptPins
        PROVE  KeepsThread(Thread(file.pins, id), Thread(file'.pins, id), deed, id)
    BY <1>1, Zenon DEF KeepsThreads, KeptPins
  <2>2. deed.op = "promote" => deed.rule \in file'.rules
    BY <1>1, Zenon DEF KeepsThreads
  <2> QED
    BY <1>1, <1>2, <2>1, <2>2, Zenon DEF ExitsAreFinal, KeepsThread
<1>5. RulesAreDirected
  BY <1>1, <1>2, Zenon DEF KeepsThreads, RulesAreDirected
<1> QED
  BY <1>3, <1>4, <1>5 DEF StepKeeps

\* A step that leaves the annotations alone, and writes no rule.
LEMMA QuietStepKeeps ==
    ASSUME AnnotationsInv, file'.pins = file.pins, file'.rules \subseteq file.rules
    PROVE  StepKeeps
<1>1. file.pins \in Seq(Pins)
  BY WholeFields DEF AnnotationsInv
<1>2. ASSUME NEW i \in DOMAIN file.pins PROVE Present(file'.pins, file.pins[i].id)
  BY DEF Present
<1>3. ASSUME NEW id \in KeptPins, NEW deed
      PROVE  KeepsThread(Thread(file.pins, id), Thread(file'.pins, id), deed, id)
             /\ Thread(file'.pins, id) = Thread(file.pins, id)
  <2>1. Thread(file.pins, id) \in Pins
    BY <1>1, ThreadIsPin DEF KeptPins
  <2> QED
    BY <2>1, SameThread
<1>4. WordsSurvive
  BY <1>2, <1>3, Zenon DEF WordsSurvive, KeepsThread
<1>5. ExitsAreFinal
  BY <1>3, Zenon DEF ExitsAreFinal, KeepsThread
<1> QED
  BY <1>4, <1>5 DEF StepKeeps, RulesAreDirected

\* No step takes a reply, another's words or an exit back.
LEMMA EveryStepKeeps ==
    AnnotationsInv /\ [AnnotationsNext]_annotationVars => StepKeeps
<1> SUFFICES ASSUME AnnotationsInv, [AnnotationsNext]_annotationVars PROVE StepKeeps
  OBVIOUS
<1>1. ASSUME UNCHANGED file PROVE StepKeeps
  BY <1>1, QuietStepKeeps
<1>2. ASSUME NEW w \in Writers, NEW deed \in Calls, Arrive(w, deed) PROVE StepKeeps
  BY <1>1, <1>2 DEF Arrive
<1>3. ASSUME NEW w \in Writers, Load(w) \/ Reject(w) \/ Conflict(w) \/ Unreachable(w)
      PROVE  StepKeeps
  BY <1>1, <1>3 DEF Load, Reject, Conflict, Unreachable
<1>4. ASSUME NEW w \in Writers, Commit(w) PROVE StepKeeps
  BY <1>4, CommitKeeps
<1>5. CASE DropRules
  <2>1. file'.pins = file.pins /\ file'.rules \subseteq file.rules
    BY <1>5 DEF DropRules, AnnotationsInv, Whole
  <2> QED
    BY <2>1, QuietStepKeeps
<1>6. ASSUME NEW view \in Fleeting, ChangeViews(view) PROVE StepKeeps
  BY <1>1, <1>6 DEF ChangeViews
<1>7. CASE UNCHANGED annotationVars
  BY <1>1, <1>7 DEF annotationVars
<1> QED
  BY <1>2, <1>3, <1>4, <1>5, <1>6, <1>7, Zenon DEF AnnotationsNext

\* The discussion on an annotation survives every race of the requests that
\* write it, and its one exit is final: for any people, calls and views.
THEOREM ThreadsStayKept == AnnotationsSpec => ThreadsAreKept
<1>1. AnnotationsInit => AnnotationsInv
  BY AnnotationsStart
<1>2. AnnotationsInv /\ [AnnotationsNext]_annotationVars => AnnotationsInv'
  BY AnnotationsStep
<1>3. AnnotationsInv /\ AnnotationsInv' /\ [AnnotationsNext]_annotationVars =>
         [AnnotationsTypeOK' /\ WordsSurvive /\ ExitsAreFinal /\ RulesAreDirected]_annotationVars
  BY AnnotationsTyped, EveryStepKeeps, PTL DEF StepKeeps
<1> QED
  BY <1>1, <1>2, <1>3, PTL DEF AnnotationsSpec, ThreadsAreKept

-----------------------------------------------------------------------------
(* The outbox: an invariant of the file and of the one process using it.   *)

Lines == Outcomes \cup {Garbled}

\* No run is reported by two lines.
Single(lines) ==
    \A i, j \in DOMAIN lines :
        lines[i].key = lines[j].key /\ lines[i] # Garbled => i = j

\* What a process read may since have been damaged where it stands.
Damaged(lines, left) ==
    /\ DOMAIN lines = DOMAIN left
    /\ \A i \in DOMAIN lines : lines[i] = left[i] \/ lines[i] = Garbled

\* Neither delivered more often than it was reported, a pass that died apart.
Outstanding(o) == due[o] + tally.faults >= 1

ReporterTyped(x) ==
    /\ x.stage \in Stages /\ x.outcome \in Lines /\ x.left \in Seq(Lines)
    /\ x.bad \in Nat /\ x.skipped \in Nat
    /\ x = [stage |-> x.stage, outcome |-> x.outcome, left |-> x.left, bad |-> x.bad,
            skipped |-> x.skipped]

\* What the one process that uses the file holds of it.
Retaining(x) ==
    /\ x.outcome \in Outcomes /\ Single(x.left) /\ Len(x.left) <= Capacity
    /\ Damaged(reports, x.left)
    /\ \A o \in (ToSet(x.left) \cup {x.outcome}) \cap Outcomes : Outstanding(o)
    /\ quiet + x.bad <= x.skipped
Delivering(x) ==
    /\ x.left \in Seq(Outcomes) /\ Single(x.left) /\ Len(x.left) <= Capacity
    /\ owed \subseteq ToSet(x.left)
    /\ \A o \in ToSet(x.left) : Outstanding(o)
    /\ quiet + x.bad <= x.skipped
Settled == \A o \in ToSet(reports) \cap Outcomes : Outstanding(o)

ReporterHolds(x) ==
    /\ ReporterTyped(x)
    /\ x.stage = "idle" => x = Free
    /\ x.stage = "retaining" => Retaining(x)
    /\ x.stage = "retained" => Settled /\ quiet <= x.skipped
    /\ x.stage = "delivering" => Delivering(x)

OutboxTyped ==
    /\ reports \in Seq(Lines) /\ Len(reports) <= Capacity /\ Single(reports)
    /\ destination \in {"none", "up", "down"}
    /\ owed \subseteq Outcomes /\ owed \subseteq ToSet(reports)
    /\ quiet \in Nat /\ tally = [reports |-> tally.reports, faults |-> tally.faults]
    /\ tally.faults \in Nat
    /\ due = [o \in Outcomes |-> due[o]]
    /\ \A o \in Outcomes : due[o] \in Int /\ due[o] + tally.faults >= 0

Busy(p) == p \in Reporters /\ reporter[p].stage # "idle"

OutboxInv ==
    /\ OutboxTyped
    /\ reporter = [p \in Reporters |-> reporter[p]]
    /\ \A p \in Reporters : ReporterHolds(reporter[p])
    /\ \A p, q : Busy(p) /\ Busy(q) => p = q
    /\ (\A p : ~Busy(p)) => quiet = 0 /\ Settled

-----------------------------------------------------------------------------
\* A damaged line is no outcome.
LEMMA GarbledApart == \A o \in Outcomes : o # Garbled
<1> SUFFICES ASSUME NEW o \in Outcomes PROVE o # Garbled
  OBVIOUS
<1>1. o.key # "garbled"
  BY OutboxAssumption
<1>2. Garbled.key = "garbled"
  BY DEF Garbled
<1> QED
  BY <1>1, <1>2

\* _parsed: the outcomes of these lines and nothing else, at most one of a run.
LEMMA ParsedParts ==
    ASSUME NEW lines \in Seq(Lines)
    PROVE  /\ Parsed(lines) \in Seq(Outcomes) /\ Len(Parsed(lines)) <= Len(lines)
           /\ ToSet(Parsed(lines)) = ToSet(lines) \cap Outcomes
           /\ Single(lines) => Single(Parsed(lines))
           /\ Unreadable(lines) \in Nat
<1> DEFINE at == {i \in DOMAIN lines : lines[i] # Garbled}
           N == Cardinality(at)
           kept == Picked(lines, at)
<1>1. kept = Parsed(lines)
  BY DEF Parsed
<1>2. at \subseteq DOMAIN lines /\ DOMAIN lines = 1..Len(lines) /\ Len(lines) \in Nat
  OBVIOUS
<1>3. /\ kept \in Seq(Lines) /\ Len(kept) = N /\ Len(kept) <= Len(lines)
      /\ DOMAIN kept = 1..N
      /\ \A k \in 1..N : \E i \in at : Place(at, i) = k /\ kept[k] = lines[i]
      /\ \A i \in at : Place(at, i) \in 1..N /\ kept[Place(at, i)] = lines[i]
  <2> HIDE DEF at
  <2> QED
    BY <1>2, PickedParts
<1> HIDE DEF N, kept
<1>4. ASSUME NEW k \in 1..N PROVE kept[k] \in Outcomes /\ kept[k] \in ToSet(lines)
  <2>1. PICK i \in at : kept[k] = lines[i]
    BY <1>3
  <2>2. i \in DOMAIN lines /\ lines[i] \in Lines /\ lines[i] # Garbled
    BY <1>2, <2>1
  <2> QED
    BY <2>1, <2>2 DEF Lines, ToSet
<1>5. kept \in Seq(Outcomes)
  BY <1>3, <1>4
<1>6. ToSet(kept) = ToSet(lines) \cap Outcomes
  <2>1. ASSUME NEW o \in ToSet(kept) PROVE o \in ToSet(lines) \cap Outcomes
    BY <1>3, <1>4, <2>1 DEF ToSet
  <2>2. ASSUME NEW o \in ToSet(lines) \cap Outcomes PROVE o \in ToSet(kept)
    <3>1. PICK i \in DOMAIN lines : lines[i] = o
      BY DEF ToSet
    <3>2. i \in at
      BY <3>1, GarbledApart
    <3> HIDE DEF at
    <3> QED
      BY <1>3, <3>1, <3>2 DEF ToSet
  <2> QED
    BY <2>1, <2>2
<1>7. ASSUME Single(lines) PROVE Single(kept)
  <2> SUFFICES ASSUME NEW k \in 1..N, NEW l \in 1..N, kept[k].key = kept[l].key PROVE k = l
    BY <1>3 DEF Single
  <2>1. PICK i \in at : Place(at, i) = k /\ kept[k] = lines[i]
    BY <1>3
  <2>2. PICK j \in at : Place(at, j) = l /\ kept[l] = lines[j]
    BY <1>3
  <2>3. i = j
    BY <1>7, <2>1, <2>2 DEF Single
  <2> QED
    BY <2>1, <2>2, <2>3
<1>8. Len(kept) \in Nat
  BY <1>5
<1> QED
  BY <1>1, <1>2, <1>3, <1>5, <1>6, <1>7, <1>8 DEF Unreadable

\* _write: the end of what was to be written, all of it where it fits.
LEMMA BoundedParts ==
    ASSUME NEW S, NEW lines \in Seq(S)
    PROVE  /\ Bounded(lines) \in Seq(S) /\ Len(Bounded(lines)) <= Capacity
           /\ ToSet(Bounded(lines)) \subseteq ToSet(lines)
           /\ Single(lines) => Single(Bounded(lines))
           /\ Len(lines) <= Capacity => Bounded(lines) = lines
<1> DEFINE n == Len(lines)
           from == IF n > Capacity THEN n - Capacity + 1 ELSE 1
           last == SubSeq(lines, from, n)
<1>1. n \in Nat /\ Capacity \in Nat \ {0} /\ lines \in [1..n -> S] /\ DOMAIN lines = 1..n
  BY OutboxAssumption
<1>2. from \in 1..(n + 1) /\ n - from + 1 <= Capacity /\ n - from + 1 \in Nat
  BY <1>1
<1>3. last = Bounded(lines)
  BY DEF Bounded
<1> HIDE DEF n, from
<1>4. /\ last \in Seq(S) /\ Len(last) = n - from + 1 /\ DOMAIN last = 1..(n - from + 1)
      /\ \A i \in 1..(n - from + 1) : last[i] = lines[i + from - 1] /\ i + from - 1 \in 1..n
  BY <1>1, <1>2
<1> HIDE DEF last
<1>5. ToSet(last) \subseteq ToSet(lines)
  BY <1>1, <1>4 DEF ToSet
<1>6. ASSUME Single(lines) PROVE Single(last)
  <2> SUFFICES ASSUME NEW i \in 1..(n - from + 1), NEW j \in 1..(n - from + 1),
                      last[i].key = last[j].key, last[i] # Garbled
               PROVE  i = j
    BY <1>4 DEF Single
  <2>1. i + from - 1 = j + from - 1
    BY <1>1, <1>4, <1>6 DEF Single
  <2> QED
    BY <1>2, <2>1
<1>7. ASSUME n <= Capacity PROVE last = lines
  <2>1. from = 1
    BY <1>1, <1>7 DEF from
  <2>2. Len(last) = n /\ \A i \in 1..n : last[i] = lines[i]
    BY <1>1, <1>4, <2>1
  <2> QED
    BY <1>1, <1>4, <2>1, <2>2
<1> QED
  BY <1>2, <1>3, <1>4, <1>5, <1>6, <1>7 DEF n

\* _retain: the outcome is there, and every outcome of another run with it.
LEMMA RetainedParts ==
    ASSUME NEW lines \in Seq(Lines), NEW o \in Outcomes, Single(lines)
    PROVE  /\ Retained(lines, o) \in Seq(Outcomes) /\ Single(Retained(lines, o))
           /\ o \in ToSet(Retained(lines, o))
           /\ ToSet(Retained(lines, o)) \subseteq ToSet(lines) \cup {o}
           /\ \A x \in ToSet(lines) \cap Outcomes :
                 x.key # o.key => x \in ToSet(Retained(lines, o))
<1> DEFINE kept == Parsed(lines)
           over == [i \in DOMAIN kept |-> IF kept[i].key = o.key THEN o ELSE kept[i]]
           more == Append(kept, o)
           there == \E i \in DOMAIN kept : kept[i].key = o.key
<1>1. kept \in Seq(Outcomes) /\ ToSet(kept) = ToSet(lines) \cap Outcomes /\ Single(kept)
  BY ParsedParts
<1>2. Retained(lines, o) = IF there THEN over ELSE more
  BY DEF Retained
<1> HIDE DEF kept
<1>3. DOMAIN kept = 1..Len(kept) /\ Len(kept) \in Nat /\ \A i \in DOMAIN kept : kept[i] \in Outcomes
  BY <1>1
<1>4. \A i \in DOMAIN kept : kept[i] \in ToSet(kept)
  BY DEF ToSet
<1>5. CASE there
  <2>1. /\ over \in Seq(Outcomes) /\ DOMAIN over = DOMAIN kept
        /\ \A i \in DOMAIN kept : over[i] = IF kept[i].key = o.key THEN o ELSE kept[i]
    BY <1>1, <1>3
  <2> HIDE DEF over
  <2>2. Single(over)
    BY <1>1, <1>3, <2>1, GarbledApart DEF Single
  <2>3. o \in ToSet(over)
    BY <1>5, <2>1 DEF ToSet
  <2>4. ASSUME NEW x \in ToSet(over) PROVE x \in ToSet(lines) \cup {o}
    BY <1>1, <1>4, <2>1, <2>4 DEF ToSet
  <2>5. ASSUME NEW x \in ToSet(kept), x.key # o.key PROVE x \in ToSet(over)
    BY <2>1, <2>5 DEF ToSet
  <2> QED
    BY <1>1, <1>2, <1>5, <2>1, <2>2, <2>3, <2>4, <2>5
<1>6. CASE ~there
  <2>1. /\ more \in Seq(Outcomes) /\ DOMAIN more = 1..(Len(kept) + 1)
        /\ \A i \in DOMAIN kept : more[i] = kept[i]
        /\ more[Len(kept) + 1] = o
    BY <1>1, <1>3
  <2> HIDE DEF more
  <2>2. \A i \in DOMAIN more : i \in DOMAIN kept \/ i = Len(kept) + 1
    BY <1>3, <2>1
  <2>3. Single(more)
    <3> SUFFICES ASSUME NEW i \in DOMAIN more, NEW j \in DOMAIN more,
                        more[i].key = more[j].key
                 PROVE  i = j
      BY DEF Single
    <3> QED
      BY <1>1, <1>3, <1>6, <2>1, <2>2, GarbledApart DEF Single
  <2>4. o \in ToSet(more)
    BY <1>3, <2>1 DEF ToSet
  <2>5. ASSUME NEW x \in ToSet(more) PROVE x \in ToSet(lines) \cup {o}
    BY <1>1, <1>4, <2>1, <2>2, <2>5 DEF ToSet
  <2>6. ASSUME NEW x \in ToSet(kept) PROVE x \in ToSet(more)
    BY <1>3, <2>1, <2>6 DEF ToSet
  <2> QED
    BY <1>1, <1>2, <1>6, <2>1, <2>3, <2>4, <2>5, <2>6
<1> QED
  BY <1>5, <1>6

-----------------------------------------------------------------------------
\* The constant OneAtATime, as the theorem assumes it.
LEMMA TheOthersWait ==
    ASSUME OutboxInv, OneAtATime, NEW p \in Reporters,
           Busy(p) \/ Turn(p)
    PROVE  \A q \in Reporters \ {p} : reporter[q].stage = "idle"
  BY Zenon DEF OutboxInv, Busy, Turn

\* A process that is doing nothing holds nothing.
LEMMA FreeIsIdle == Free.stage = "idle" /\ ReporterTyped(Free)
  BY DEF Free, ReporterTyped, Stages, Lines

\* A step of the one process that uses the file.
LEMMA OnlyOne ==
    ASSUME OutboxInv, NEW p \in Reporters,
           \A q \in Reporters \ {p} : reporter[q].stage = "idle",
           NEW x, reporter' = [reporter EXCEPT ![p] = x],
           OutboxTyped', ReporterHolds(x)',
           x.stage = "idle" => quiet' = 0 /\ Settled'
    PROVE  OutboxInv'
<1>1. reporter = [q \in Reporters |-> reporter[q]] /\ \A q \in Reporters : ReporterHolds(reporter[q])
  BY DEF OutboxInv
<1>2. reporter'[p] = x /\ \A q \in Reporters \ {p} : reporter'[q] = reporter[q]
  BY <1>1
<1>3. reporter' = [q \in Reporters |-> reporter'[q]]
  BY <1>1
<1>4. \A q \in Reporters \ {p} : reporter'[q] = Free
  BY <1>1, <1>2, Zenon DEF ReporterHolds
<1>5. ASSUME NEW q \in Reporters PROVE ReporterHolds(reporter[q])'
  <2>1. CASE q = p
    BY <1>2, <2>1
  <2>2. CASE q # p
    <3>1. reporter'[q] = Free /\ reporter'[q].stage = "idle" /\ ReporterTyped(reporter'[q])
      BY <1>4, <2>2, FreeIsIdle
    <3>2. /\ reporter'[q].stage # "retaining" /\ reporter'[q].stage # "retained"
          /\ reporter'[q].stage # "delivering"
      BY <3>1
    <3> QED
      BY <3>1, <3>2, Zenon DEF ReporterHolds, ReporterTyped
  <2> QED
    BY <2>1, <2>2
<1>6. \A q : Busy(q)' => q = p /\ x.stage # "idle"
  BY <1>2, <1>4, FreeIsIdle, Zenon DEF Busy
<1>7. (\A q : ~Busy(q)') => x.stage = "idle"
  BY <1>2, Zenon DEF Busy
<1> QED
  BY <1>3, <1>5, <1>6, <1>7, Zenon DEF OutboxInv

\* With no operation under way, what left the file was announced.
LEMMA NobodyBusy ==
    ASSUME OutboxInv, NEW p \in Reporters, reporter[p].stage = "idle",
           \A q \in Reporters \ {p} : reporter[q].stage = "idle"
    PROVE  quiet = 0 /\ Settled /\ reporter[p] = Free
<1>1. \A q : ~Busy(q)
  BY Zenon DEF Busy
<1>2. ReporterHolds(reporter[p])
  BY DEF OutboxInv
<1> QED
  BY <1>1, <1>2, Zenon DEF OutboxInv, ReporterHolds

\* The count of an outcome, as the invariant has it.
LEMMA OutstandingNow ==
    ASSUME OutboxTyped, NEW o \in Outcomes
    PROVE  due[o] \in Int /\ tally.faults \in Nat /\ due[o] + tally.faults >= 0
  BY DEF OutboxTyped

\* report keeps the invariant.
LEMMA ReportHolds ==
    ASSUME OutboxInv, OneAtATime, NEW p \in Reporters, NEW o \in Outcomes, Report(p, o)
    PROVE  OutboxInv'
<1> DEFINE bad == Unreadable(reports)
<1>0. PICK x : x = [stage |-> "retaining", outcome |-> o, left |-> reports, bad |-> bad,
                    skipped |-> bad]
  OBVIOUS
<1>1. \A q \in Reporters \ {p} : reporter[q].stage = "idle"
  BY TheOthersWait DEF Report
<1>2. quiet = 0 /\ Settled
  BY <1>1, NobodyBusy DEF Report
<1>3. OutboxTyped
  BY DEF OutboxInv
<1>4. reporter' = [reporter EXCEPT ![p] = x]
  BY <1>0, Zenon DEF Report
<1>5. bad \in Nat
  BY <1>3, ParsedParts DEF OutboxTyped
<1>6. UNCHANGED <<reports, destination, owed, quiet>> /\ tally' = [tally EXCEPT !.reports = @ + 1]
      /\ due' = [due EXCEPT ![o] = @ + 1]
  BY DEF Report
<1>7. tally'.faults = tally.faults /\ tally' = [reports |-> tally'.reports, faults |-> tally'.faults]
  BY <1>3, <1>6 DEF OutboxTyped
<1>8. \A z \in Outcomes : due'[z] = IF z = o THEN due[z] + 1 ELSE due[z]
  BY <1>3, <1>6 DEF OutboxTyped
<1>15. due' = [z \in Outcomes |-> due'[z]]
  BY <1>3, <1>6 DEF OutboxTyped
<1>16. \A z \in Outcomes : due'[z] \in Int /\ due'[z] + tally'.faults >= 0
  BY <1>3, <1>7, <1>8, OutstandingNow
<1>9. OutboxTyped'
  BY <1>3, <1>6, <1>7, <1>15, <1>16 DEF OutboxTyped, Single
<1> HIDE DEF bad
<1>10. ASSUME NEW z \in (ToSet(reports) \cup {o}) \cap Outcomes PROVE Outstanding(z)'
  <2>1. z # o => Outstanding(z)
    BY <1>2 DEF Settled
  <2> QED
    BY <1>3, <1>7, <1>8, <2>1, OutstandingNow DEF Outstanding
<1>11. ReporterTyped(x)
  BY <1>0, <1>3, <1>5 DEF ReporterTyped, Stages, Lines, OutboxTyped
<1>12. Retaining(x)'
  BY <1>0, <1>2, <1>3, <1>5, <1>6, <1>10 DEF Retaining, Damaged, OutboxTyped, Single
<1>13. ReporterHolds(x)'
  BY <1>0, <1>11, <1>12 DEF ReporterHolds, ReporterTyped
<1>14. x.stage # "idle"
  BY <1>0
<1> QED
  BY <1>1, <1>4, <1>9, <1>13, <1>14, OnlyOne

\* _retain keeps the invariant.
LEMMA RetainHolds ==
    ASSUME OutboxInv, OneAtATime, NEW p \in Reporters, Retain(p)
    PROVE  OutboxInv'
<1> DEFINE mine == reporter[p]
           lines == Retained(mine.left, mine.outcome)
<1>0. PICK x : x = [mine EXCEPT !.stage = "retained"]
  OBVIOUS
<1>1. mine.stage = "retaining" /\ Busy(p)
  BY DEF Retain, Busy
<1>2. \A q \in Reporters \ {p} : reporter[q].stage = "idle"
  BY <1>1, TheOthersWait
<1>3. OutboxTyped /\ ReporterTyped(mine) /\ Retaining(mine)
  BY <1>1, Zenon DEF OutboxInv, ReporterHolds
<1>4. /\ reports' = Bounded(lines)
      /\ owed' = ((owed \cup {mine.outcome})
                    \ {o \in Outcomes : o.key = mine.outcome.key /\ o # mine.outcome})
                    \ (ToSet(lines) \ ToSet(reports'))
      /\ quiet' = quiet + mine.bad
      /\ reporter' = [reporter EXCEPT ![p] = x]
      /\ UNCHANGED <<destination, due, tally>>
  BY <1>0 DEF Retain
<1> HIDE DEF mine
<1>5. /\ lines \in Seq(Outcomes) /\ Single(lines) /\ mine.outcome \in ToSet(lines)
      /\ ToSet(lines) \subseteq ToSet(mine.left) \cup {mine.outcome}
      /\ \A z \in ToSet(mine.left) \cap Outcomes :
            z.key # mine.outcome.key => z \in ToSet(lines)
  BY <1>3, RetainedParts DEF Retaining, ReporterTyped
<1> HIDE DEF lines
<1>6. /\ reports' \in Seq(Outcomes) /\ Len(reports') <= Capacity /\ Single(reports')
      /\ ToSet(reports') \subseteq ToSet(lines)
  BY <1>4, <1>5, BoundedParts
<1>7. ASSUME NEW z \in owed PROVE z \in ToSet(mine.left) /\ z \in Outcomes
  <2>1. z \in Outcomes /\ z \in ToSet(reports)
    BY <1>3 DEF OutboxTyped
  <2>2. PICK i \in DOMAIN reports : reports[i] = z
    BY <2>1 DEF ToSet
  <2>3. i \in DOMAIN mine.left /\ mine.left[i] = z
    BY <1>3, <2>1, <2>2, GarbledApart DEF Retaining, Damaged
  <2> QED
    BY <2>1, <2>3 DEF ToSet
<1>8. owed' \subseteq Outcomes /\ owed' \subseteq ToSet(reports')
  <2> SUFFICES ASSUME NEW z \in owed' PROVE z \in Outcomes /\ z \in ToSet(reports')
    OBVIOUS
  <2>1. z \in Outcomes
    BY <1>3, <1>4, <1>7 DEF Retaining
  <2>3. z = mine.outcome \/ (z \in owed /\ z.key # mine.outcome.key)
    BY <1>4, <2>1
  <2>2. z \in ToSet(lines)
    BY <1>5, <1>7, <2>1, <2>3
  <2> QED
    BY <1>4, <2>1, <2>2
<1>9. reports' \in Seq(Lines) /\ ToSet(reports') \subseteq Outcomes
  BY <1>6 DEF Lines, ToSet
<1>10. quiet' \in Nat
  BY <1>3, <1>4 DEF OutboxTyped, ReporterTyped
<1>11. OutboxTyped'
  BY <1>3, <1>4, <1>6, <1>8, <1>9, <1>10 DEF OutboxTyped, Single
<1>12. ASSUME NEW z \in ToSet(reports') \cap Outcomes PROVE Outstanding(z)'
  <2>1. Outstanding(z)
    BY <1>3, <1>5, <1>6 DEF Retaining
  <2> QED
    BY <1>4, <2>1 DEF Outstanding
<1>13. ReporterTyped(x) /\ x.stage = "retained" /\ x.skipped = mine.skipped
  BY <1>0, <1>3 DEF ReporterTyped, Stages
<1>14. Settled'
  BY <1>12 DEF Settled
<1>15. quiet' <= x.skipped
  BY <1>3, <1>4, <1>13 DEF Retaining
<1>16. ReporterHolds(x)'
  BY <1>13, <1>14, <1>15 DEF ReporterHolds, ReporterTyped
<1> QED
  BY <1>2, <1>4, <1>11, <1>13, <1>16, OnlyOne

\* An answer leaves nothing damaged unannounced that was announced in it.
LEMMA AnswerHolds ==
    ASSUME OutboxInv, OneAtATime, NEW p \in Reporters,
           \A q \in Reporters \ {p} : reporter[q].stage = "idle",
           NEW skipped \in Nat, NEW gone \in Nat, Answer(p, skipped, gone),
           quiet + gone <= skipped, quiet' \in Nat => OutboxTyped', Settled'
    PROVE  OutboxInv'
<1>1. quiet \in Nat
  BY DEF OutboxInv, OutboxTyped
<1>2. quiet' = 0 /\ reporter' = [reporter EXCEPT ![p] = Free]
  BY <1>1 DEF Answer
<1>3. OutboxTyped'
  BY <1>2
<1>4. Free.stage = "idle" /\ ReporterTyped(Free)
  BY FreeIsIdle
<1>5. ReporterHolds(Free)'
  <2>1. Free.stage # "retaining" /\ Free.stage # "retained" /\ Free.stage # "delivering"
    BY <1>4
  <2>2. ReporterTyped(Free)'
    BY <1>4 DEF ReporterTyped, Free
  <2> QED
    BY <1>4, <2>1, <2>2, Zenon DEF ReporterHolds
<1> QED
  BY <1>2, <1>3, <1>5, OnlyOne, Zenon

\* _flush, up to its first delivery, keeps the invariant.
LEMMA FlushHolds ==
    ASSUME OutboxInv, OneAtATime, NEW p \in Reporters, Flush(p)
    PROVE  OutboxInv'
<1> DEFINE mine == reporter[p]
           bad == Unreadable(reports)
           skipped == Carried(p)
           left == Parsed(reports)
<1>0. PICK x : x = [mine EXCEPT !.stage = "delivering", !.left = left, !.bad = bad,
                                !.skipped = skipped]
  OBVIOUS
<1>1. UNCHANGED <<reports, destination, due, owed, tally>>
  BY DEF Flush
<1>2. mine.stage \in {"idle", "retained"} /\ (Busy(p) \/ Turn(p))
  BY DEF Flush, Busy
<1>3. \A q \in Reporters \ {p} : reporter[q].stage = "idle"
  BY <1>2, TheOthersWait
<1>4. OutboxTyped /\ ReporterHolds(mine) /\ ReporterTyped(mine)
  BY DEF OutboxInv, ReporterHolds
<1>5. /\ left \in Seq(Outcomes) /\ Len(left) <= Capacity /\ Single(left) /\ bad \in Nat
      /\ ToSet(left) = ToSet(reports) \cap Outcomes
  <2>1. reports \in Seq(Lines) /\ Len(reports) <= Capacity /\ Single(reports) /\ Len(reports) \in Nat
    BY <1>4 DEF OutboxTyped
  <2>2. /\ left \in Seq(Outcomes) /\ Len(left) <= Len(reports) /\ bad \in Nat
        /\ ToSet(left) = ToSet(reports) \cap Outcomes /\ Single(left)
    BY <2>1, ParsedParts
  <2>3. Capacity \in Nat /\ Len(left) \in Nat
    BY <2>2, OutboxAssumption
  <2> QED
    BY <2>1, <2>2, <2>3
<1>6. Settled /\ quiet <= mine.skipped
  <2>1. CASE mine.stage = "retained"
    BY <1>4, <2>1, Zenon DEF ReporterHolds
  <2>2. CASE mine.stage = "idle"
    <3>1. quiet = 0 /\ Settled /\ mine.skipped \in Nat
      BY <1>3, <1>4, <2>2, NobodyBusy DEF ReporterTyped
    <3> QED
      BY <3>1
  <2> QED
    BY <1>2, <2>1, <2>2
<1>7. skipped = mine.skipped + bad
  BY DEF Carried
<1>8. mine.skipped \in Nat /\ quiet \in Nat
  BY <1>4 DEF ReporterTyped, OutboxTyped
<1> HIDE DEF skipped, bad
<1>9. skipped \in Nat /\ quiet + bad <= skipped /\ quiet + 0 <= skipped
  BY <1>5, <1>6, <1>7, <1>8
<1>10. ASSUME quiet' \in Nat PROVE OutboxTyped'
  BY <1>1, <1>4, <1>10 DEF OutboxTyped, Single
<1>11. Settled'
  BY <1>1, <1>6 DEF Settled, Outstanding
<1>12. CASE left = <<>> /\ Answer(p, skipped, 0)
  BY <1>3, <1>9, <1>10, <1>11, <1>12, AnswerHolds
<1>13. CASE reporter' = [reporter EXCEPT ![p] = x] /\ UNCHANGED quiet
  <2> HIDE DEF mine, left
  <2>1. /\ x.stage = "delivering" /\ x.left = left /\ x.bad = bad /\ x.skipped = skipped
        /\ x = [stage |-> x.stage, outcome |-> x.outcome, left |-> x.left, bad |-> x.bad,
                skipped |-> x.skipped] /\ x.outcome \in Lines
    BY <1>0, <1>4 DEF ReporterTyped
  <2>2. left \in Seq(Lines)
    BY <1>5 DEF Lines
  <2>3. ReporterTyped(x)
    BY <1>5, <1>9, <2>1, <2>2 DEF ReporterTyped, Stages
  <2>4. owed \subseteq ToSet(left)
    BY <1>4, <1>5 DEF OutboxTyped
  <2>5. \A o \in ToSet(left) : Outstanding(o)'
    BY <1>1, <1>5, <1>6 DEF Settled, Outstanding
  <2>6. Delivering(x)'
    BY <1>1, <1>5, <1>9, <1>13, <2>1, <2>4, <2>5 DEF Delivering, Single
  <2>7. ReporterHolds(x)'
    BY <2>1, <2>3, <2>6 DEF ReporterHolds, ReporterTyped
  <2>8. x.stage # "idle"
    BY <2>1
  <2>9. OutboxTyped'
    BY <1>8, <1>10, <1>13
  <2> QED
    BY <1>3, <1>13, <2>7, <2>8, <2>9, OnlyOne
<1> QED
  BY <1>0, <1>12, <1>13 DEF Flush, skipped, bad

\* _sent keeps the invariant: the outcome taken is the first and the only one of its run.
LEMMA DeliverHolds ==
    ASSUME OutboxInv, OneAtATime, NEW p \in Reporters, Deliver(p)
    PROVE  OutboxInv'
<1> DEFINE mine == reporter[p]
<1>0. PICK x, o : x = [mine EXCEPT !.left = Tail(mine.left)] /\ o = Head(mine.left)
  OBVIOUS
<1>1. mine.stage = "delivering" /\ Busy(p) /\ mine.left # <<>>
  BY DEF Deliver, Busy
<1>2. \A q \in Reporters \ {p} : reporter[q].stage = "idle"
  BY <1>1, TheOthersWait
<1>3. OutboxTyped /\ ReporterTyped(mine) /\ Delivering(mine)
  BY <1>1, Zenon DEF OutboxInv, ReporterHolds
<1>4. /\ due' = [due EXCEPT ![o] = @ - 1] /\ owed' = owed \ {o}
      /\ reporter' = [reporter EXCEPT ![p] = x]
      /\ UNCHANGED <<reports, destination, quiet, tally>>
  <2>1. /\ due' = [due EXCEPT ![Head(mine.left)] = @ - 1] /\ owed' = owed \ {Head(mine.left)}
        /\ UNCHANGED <<reports, destination, quiet, tally>>
    BY Zenon DEF Deliver
  <2>2. reporter' = [reporter EXCEPT ![p] = [mine EXCEPT !.left = Tail(mine.left)]]
    BY DEF Deliver
  <2> HIDE DEF mine
  <2> QED
    BY <1>0, <2>1, <2>2
<1> HIDE DEF mine
<1> DEFINE rest == Tail(mine.left)
<1>5. /\ o \in Outcomes /\ rest \in Seq(Outcomes) /\ o = mine.left[1]
      /\ Len(rest) = Len(mine.left) - 1 /\ Len(mine.left) \in Nat \ {0}
      /\ DOMAIN mine.left = 1..Len(mine.left) /\ DOMAIN rest = 1..(Len(mine.left) - 1)
      /\ \A i \in DOMAIN rest : rest[i] = mine.left[i + 1]
  BY <1>0, <1>1, <1>3 DEF Delivering
<1>6. x = [mine EXCEPT !.left = rest]
  BY <1>0
<1> HIDE DEF rest
<1>7. \A i \in DOMAIN rest : i + 1 \in DOMAIN mine.left /\ 1 \in DOMAIN mine.left
  BY <1>5
<1>8. \A i \in DOMAIN mine.left : i = 1 \/ (i - 1 \in DOMAIN rest /\ mine.left[i] = rest[i - 1])
  BY <1>5
<1>9. Single(rest)
  <2> SUFFICES ASSUME NEW i \in DOMAIN rest, NEW j \in DOMAIN rest,
                      rest[i].key = rest[j].key, rest[i] # Garbled
               PROVE  i = j
    BY DEF Single
  <2>1. i + 1 = j + 1
    BY <1>3, <1>5, <1>7 DEF Delivering, Single
  <2> QED
    BY <1>5, <2>1
<1>10. ToSet(rest) \subseteq ToSet(mine.left) /\ ToSet(mine.left) \subseteq ToSet(rest) \cup {o}
  <2>1. ASSUME NEW z \in ToSet(rest) PROVE z \in ToSet(mine.left)
    BY <1>5, <1>7, <2>1 DEF ToSet
  <2>2. ASSUME NEW z \in ToSet(mine.left) PROVE z \in ToSet(rest) \cup {o}
    BY <1>5, <1>8, <2>2 DEF ToSet
  <2> QED
    BY <2>1, <2>2
<1>11. o \notin ToSet(rest)
  <2> SUFFICES ASSUME NEW i \in DOMAIN rest, rest[i] = o PROVE FALSE
    BY DEF ToSet
  <2>1. mine.left[i + 1] = mine.left[1]
    BY <1>5
  <2>2. i + 1 = 1
    BY <1>3, <1>5, <1>7, <2>1, GarbledApart DEF Delivering, Single
  <2> QED
    BY <1>5, <2>2
<1>12. \A z \in Outcomes : due'[z] = IF z = o THEN due[z] - 1 ELSE due[z]
  BY <1>3, <1>4 DEF OutboxTyped
<1>13. Outstanding(o)
  <2>1. o \in ToSet(mine.left)
    BY <1>5 DEF ToSet
  <2> QED
    BY <1>3, <2>1 DEF Delivering
<1>14. \A z \in Outcomes : due'[z] \in Int /\ due'[z] + tally.faults >= 0
  BY <1>3, <1>12, <1>13, OutstandingNow DEF Outstanding
<1>15. OutboxTyped'
  BY <1>3, <1>4, <1>14 DEF OutboxTyped, Single
<1>16. ASSUME NEW z \in ToSet(rest) PROVE Outstanding(z)'
  <2>1. z \in Outcomes /\ z # o /\ Outstanding(z)
    <3>1. z \in ToSet(mine.left) /\ z # o
      BY <1>10, <1>11
    <3>2. z \in Outcomes
      BY <1>5 DEF ToSet
    <3> QED
      BY <1>3, <3>1, <3>2 DEF Delivering
  <2> QED
    BY <1>4, <1>12, <2>1 DEF Outstanding
<1>17. /\ x.stage = "delivering" /\ x.left = rest /\ x.bad = mine.bad
       /\ x.skipped = mine.skipped /\ x.outcome = mine.outcome
       /\ x = [stage |-> x.stage, outcome |-> x.outcome, left |-> x.left, bad |-> x.bad,
               skipped |-> x.skipped]
  BY <1>1, <1>3, <1>6 DEF ReporterTyped, mine
<1>18. ReporterTyped(x)
  BY <1>3, <1>5, <1>17 DEF ReporterTyped, Stages, Lines
<1>19. Len(rest) <= Capacity
  BY <1>3, <1>5, OutboxAssumption DEF Delivering
<1>20. Delivering(x)'
  BY <1>3, <1>4, <1>5, <1>9, <1>10, <1>16, <1>17, <1>19 DEF Delivering, Single
<1>21. ReporterHolds(x)'
  BY <1>17, <1>18, <1>20 DEF ReporterHolds, ReporterTyped
<1>22. x.stage # "idle"
  BY <1>17
<1> QED
  BY <1>2, <1>4, <1>15, <1>21, <1>22, OnlyOne

\* _attempt keeps the invariant: what is written back is what was not taken.
LEMMA RewriteHolds ==
    ASSUME OutboxInv, OneAtATime, NEW p \in Reporters, Rewrite(p)
    PROVE  OutboxInv'
<1> DEFINE mine == reporter[p]
<1>1. mine.stage = "delivering" /\ Busy(p)
  BY DEF Rewrite, Busy
<1>2. \A q \in Reporters \ {p} : reporter[q].stage = "idle"
  BY <1>1, TheOthersWait
<1>3. OutboxTyped /\ ReporterTyped(mine) /\ Delivering(mine)
  BY <1>1, Zenon DEF OutboxInv, ReporterHolds
<1>4. /\ reports' = Bounded(mine.left) /\ Answer(p, mine.skipped, mine.bad)
      /\ UNCHANGED <<destination, due, owed, tally>>
  BY DEF Rewrite, Kept
<1> HIDE DEF mine
<1>5. reports' = mine.left
  BY <1>3, <1>4, BoundedParts DEF Delivering
<1>6. mine.left \in Seq(Lines)
  BY <1>3 DEF ReporterTyped
<1>7. ASSUME quiet' \in Nat PROVE OutboxTyped'
  BY <1>3, <1>4, <1>5, <1>6, <1>7 DEF OutboxTyped, Delivering, Single
<1>8. Settled'
  BY <1>3, <1>4, <1>5 DEF Settled, Delivering, Outstanding
<1>9. mine.skipped \in Nat /\ mine.bad \in Nat /\ quiet + mine.bad <= mine.skipped
  BY <1>3 DEF ReporterTyped, Delivering
<1> QED
  BY <1>2, <1>4, <1>7, <1>8, <1>9, AnswerHolds

\* A fault is counted.
LEMMA FaultCounts ==
    ASSUME OutboxTyped, NEW kind, Fault(kind)
    PROVE  /\ tally' = [reports |-> tally'.reports, faults |-> tally'.faults]
           /\ tally'.faults = tally.faults + 1 /\ tally'.faults \in Nat
<1>1. tally = [reports |-> tally.reports, faults |-> tally.faults] /\ tally.faults \in Nat
  BY DEF OutboxTyped
<1>2. tally' = [tally EXCEPT !.faults = @ + 1]
  BY DEF Fault
<1> QED
  BY <1>1, <1>2

\* An operation that ends without an answer.
LEMMA OperationEnds ==
    ASSUME OutboxInv, OneAtATime, NEW p \in Reporters, DiskFails(p) \/ Die(p) \/ Tear(p)
    PROVE  OutboxInv'
<1>1. Busy(p)
  BY DEF DiskFails, Die, Tear, Busy
<1>2. \A q \in Reporters \ {p} : reporter[q].stage = "idle"
  BY <1>1, TheOthersWait
<1>3. OutboxTyped
  BY DEF OutboxInv
<1>4. \E kind : Fault(kind)
  BY Zenon DEF DiskFails, Die, Tear
<1>5. /\ tally' = [reports |-> tally'.reports, faults |-> tally'.faults]
      /\ tally'.faults = tally.faults + 1 /\ tally'.faults \in Nat
  BY <1>3, <1>4, FaultCounts
<1>6. /\ reporter' = [reporter EXCEPT ![p] = Free] /\ quiet' = 0
      /\ UNCHANGED <<destination, due>>
      /\ UNCHANGED <<reports, owed>> \/ (reports' = <<>> /\ owed' = {})
  BY DEF DiskFails, Die, Tear
<1>7. /\ reports' \in Seq(Lines) /\ Len(reports') <= Capacity /\ Single(reports')
      /\ owed' \subseteq Outcomes /\ owed' \subseteq ToSet(reports')
  <2>1. CASE UNCHANGED <<reports, owed>>
    BY <1>3, <2>1 DEF OutboxTyped, Single
  <2>2. CASE reports' = <<>> /\ owed' = {}
    BY <2>2, OutboxAssumption DEF Single
  <2> QED
    BY <1>6, <2>1, <2>2
<1>8. \A o \in Outcomes : due'[o] \in Int /\ due'[o] + tally'.faults >= 1
  BY <1>3, <1>5, <1>6, OutstandingNow
<1>9. OutboxTyped'
  BY <1>3, <1>5, <1>6, <1>7, <1>8 DEF OutboxTyped, Single
<1>10. Settled'
  BY <1>8 DEF Settled, Outstanding
<1>11. Free.stage = "idle" /\ ReporterHolds(Free)'
  <2>1. Free.stage = "idle" /\ ReporterTyped(Free)
    BY FreeIsIdle
  <2>2. Free.stage # "retaining" /\ Free.stage # "retained" /\ Free.stage # "delivering"
    BY <2>1
  <2>3. ReporterTyped(Free)'
    BY <2>1 DEF ReporterTyped, Free
  <2> QED
    BY <2>1, <2>2, <2>3, Zenon DEF ReporterHolds
<1> QED
  BY <1>2, <1>6, <1>9, <1>10, <1>11, OnlyOne

\* A line damaged by something else keeps the invariant.
LEMMA GarbleHolds ==
    ASSUME OutboxInv, NEW i, Garble(i)
    PROVE  OutboxInv'
<1>1. OutboxTyped
  BY DEF OutboxInv
<1>2. /\ i \in DOMAIN reports /\ reports[i] # Garbled
      /\ reports' = [reports EXCEPT ![i] = Garbled] /\ owed' = owed \ {reports[i]}
      /\ UNCHANGED <<reporter, destination, due, quiet>>
  BY DEF Garble
<1>3. /\ tally' = [reports |-> tally'.reports, faults |-> tally'.faults]
      /\ tally'.faults = tally.faults + 1 /\ tally'.faults \in Nat
  BY <1>1, FaultCounts DEF Garble
<1>4. /\ reports' \in Seq(Lines) /\ Len(reports') = Len(reports)
      /\ DOMAIN reports' = DOMAIN reports
      /\ \A j \in DOMAIN reports : reports'[j] = IF j = i THEN Garbled ELSE reports[j]
  BY <1>1, <1>2 DEF OutboxTyped, Lines
<1>5. \A o \in Outcomes : due'[o] \in Int /\ due'[o] + tally'.faults >= 1
  BY <1>1, <1>2, <1>3, OutstandingNow
<1>6. Single(reports')
  <2> SUFFICES ASSUME NEW j \in DOMAIN reports, NEW k \in DOMAIN reports,
                      reports'[j].key = reports'[k].key, reports'[j] # Garbled
               PROVE  j = k
    BY <1>4 DEF Single
  <2>1. reports'[j] = reports[j] /\ reports[j] \in Outcomes
    BY <1>1, <1>4 DEF OutboxTyped, Lines
  <2>2. reports[j].key # Garbled.key
    BY <2>1, OutboxAssumption DEF Garbled
  <2>3. reports'[k] = reports[k]
    BY <1>4, <2>1, <2>2
  <2> QED
    BY <1>1, <2>1, <2>3 DEF OutboxTyped, Single
<1>7. owed' \subseteq Outcomes /\ owed' \subseteq ToSet(reports')
  <2> SUFFICES ASSUME NEW z \in owed' PROVE z \in Outcomes /\ z \in ToSet(reports')
    OBVIOUS
  <2>1. z \in Outcomes /\ z # reports[i] /\ z \in ToSet(reports)
    BY <1>1, <1>2 DEF OutboxTyped
  <2>2. PICK j \in DOMAIN reports : reports[j] = z
    BY <2>1 DEF ToSet
  <2> QED
    BY <1>4, <2>1, <2>2 DEF ToSet
<1>8. OutboxTyped'
  <2>1. \A o \in Outcomes : due'[o] \in Int /\ due'[o] + tally'.faults >= 0
    BY <1>3, <1>5
  <2> QED
    BY <1>1, <1>2, <1>3, <1>4, <1>6, <1>7, <2>1 DEF OutboxTyped, Single
<1>9. Settled'
  BY <1>5 DEF Settled, Outstanding
<1>10. ASSUME NEW p \in Reporters PROVE ReporterHolds(reporter[p])'
  <2> DEFINE x == reporter[p]
  <2>1. ReporterHolds(x)
    BY DEF OutboxInv
  <2>2. x' = x
    BY <1>2
  <2> HIDE DEF x
  <2>3. ReporterTyped(x)'
    BY <2>1, <2>2, Zenon DEF ReporterHolds, ReporterTyped
  <2>4. ASSUME Retaining(x), ReporterTyped(x) PROVE Retaining(x)'
    <3>1. Damaged(reports, x.left)'
      BY <1>2, <1>4, <2>2, <2>4 DEF Retaining, Damaged
    <3>2. \A o \in (ToSet(x.left) \cup {x.outcome}) \cap Outcomes : Outstanding(o)'
      BY <1>5 DEF Outstanding
    <3> QED
      BY <1>2, <2>2, <2>4, <3>1, <3>2 DEF Retaining, Single
  <2>5. ASSUME Delivering(x), ReporterTyped(x) PROVE Delivering(x)'
    <3>1. owed' \subseteq ToSet(x.left)
      BY <1>2, <2>5 DEF Delivering
    <3>2. \A o \in ToSet(x.left) : Outstanding(o)'
      BY <1>5, <2>5 DEF Outstanding, Delivering, ToSet
    <3> QED
      BY <1>2, <2>2, <2>5, <3>1, <3>2 DEF Delivering, Single
  <2>6. quiet' = quiet
    BY <1>2
  <2> QED
    BY <1>9, <2>1, <2>2, <2>3, <2>4, <2>5, <2>6, Zenon DEF ReporterHolds, x
<1> QED
  BY <1>2, <1>8, <1>9, <1>10 DEF OutboxInv, Busy

\* The destination comes and goes.
LEMMA WeatherHolds ==
    ASSUME OutboxInv, Weather
    PROVE  OutboxInv'
<1>1. UNCHANGED <<reports, reporter, due, owed, quiet, tally>>
      /\ destination' \in {"none", "up", "down"}
  BY DEF Weather
<1>2. OutboxTyped'
  BY <1>1 DEF OutboxInv, OutboxTyped, Single
<1>3. ASSUME NEW p \in Reporters PROVE ReporterHolds(reporter[p])'
  BY <1>1 DEF OutboxInv, ReporterHolds, ReporterTyped, Retaining, Delivering, Settled, Outstanding,
              Damaged, Single
<1>4. Settled => Settled'
  BY <1>1 DEF Settled, Outstanding
<1> QED
  BY <1>1, <1>2, <1>3, <1>4 DEF OutboxInv, Busy

\* The invariant holds of an empty outbox.
LEMMA OutboxStart == OutboxInit => OutboxInv
<1> SUFFICES ASSUME OutboxInit PROVE OutboxInv
  OBVIOUS
<1>1. OutboxTyped
  BY OutboxAssumption DEF OutboxInit, OutboxTyped, Single
<1>2. reporter = [p \in Reporters |-> reporter[p]] /\ \A p \in Reporters : reporter[p] = Free
  BY DEF OutboxInit
<1>3. ReporterHolds(Free)
  BY FreeIsIdle DEF ReporterHolds
<1>4. \A p : ~Busy(p)
  BY <1>2, FreeIsIdle DEF Busy
<1>5. quiet = 0 /\ Settled
  BY DEF OutboxInit, Settled, ToSet
<1> QED
  BY <1>1, <1>2, <1>3, <1>4, <1>5, Zenon DEF OutboxInv

\* Every step keeps the invariant while one process at a time uses the file.
LEMMA OutboxStep ==
    ASSUME OneAtATime, OutboxInv, [OutboxNext]_outboxVars
    PROVE  OutboxInv'
<1>1. CASE UNCHANGED outboxVars
  <2>1. UNCHANGED <<reports, reporter, destination, due, owed, quiet, tally>>
    BY <1>1 DEF outboxVars
  <2>2. OutboxTyped'
    BY <2>1 DEF OutboxInv, OutboxTyped, Single
  <2>3. ASSUME NEW p \in Reporters PROVE ReporterHolds(reporter[p])'
    BY <2>1 DEF OutboxInv, ReporterHolds, ReporterTyped, Retaining, Delivering, Settled,
                Outstanding, Damaged, Single
  <2>4. Settled => Settled'
    BY <2>1 DEF Settled, Outstanding
  <2> QED
    BY <2>1, <2>2, <2>3, <2>4 DEF OutboxInv, Busy
<1> QED
  BY <1>1, ReportHolds, RetainHolds, FlushHolds, DeliverHolds, RewriteHolds, OperationEnds,
     GarbleHolds, WeatherHolds, Zenon DEF OutboxNext

\* The invariant implies what a run checks.
LEMMA OutboxImplies == OutboxInv => OutcomesAreDelivered
<1> SUFFICES ASSUME OutboxInv PROVE OutcomesAreDelivered
  OBVIOUS
<1>1. OutboxTyped
  BY DEF OutboxInv
<1>2. \A i \in DOMAIN reports : reports[i] \in Lines
  BY <1>1 DEF OutboxTyped
<1>3. \A p \in Reporters : reporter[p].stage \in Stages
  BY Zenon DEF OutboxInv, ReporterHolds, ReporterTyped
<1>4. OutboxTypeOK
  BY <1>1, <1>2, <1>3 DEF OutboxTypeOK, OutboxTyped, Single, Lines
<1>5. RetainedUntilDelivered
  BY <1>1 DEF OutboxTyped, RetainedUntilDelivered
<1>6. DeliveredOnce
  <2>1. ASSUME NEW o \in Outcomes PROVE due[o] >= -tally.faults
    BY <1>1, OutstandingNow
  <2> QED
    BY <2>1 DEF DeliveredOnce
<1>7. HealedAloud
  BY DEF OutboxInv, HealedAloud, Busy
<1> QED
  BY <1>4, <1>5, <1>6, <1>7 DEF OutcomesAreDelivered

\* While no two processes use the file at once, whatever kills them, fails the
\* disk or damages a line: what was set aside is in the file until it is
\* delivered, is delivered once unless a pass died, and is not dropped in silence
\* (outbox.py report, flush, _retain, _parsed, _write).
THEOREM OutcomesStayDelivered ==
    ASSUME OneAtATime PROVE OutboxSpec => []OutcomesAreDelivered
<1>1. OutboxInit => OutboxInv
  BY OutboxStart
<1>2. OutboxInv /\ [OutboxNext]_outboxVars => OutboxInv'
  BY OutboxStep
<1>3. OutboxInv => OutcomesAreDelivered
  BY OutboxImplies
<1> QED
  BY <1>1, <1>2, <1>3, PTL DEF OutboxSpec

-----------------------------------------------------------------------------
(* Commit authors. *)

AuthorsTyped == mapping \in Seq(Bindings) /\ log \in Seq(Addresses)

\* The entry that is found is the first of those looked for.
LEMMA FirstOfIs ==
    ASSUME AuthorsTyped, NEW places, places \subseteq DOMAIN mapping
    PROVE  /\ places = {} <=> FirstOf(places) = {}
           /\ places # {} =>
                \E n \in places : FirstOf(places) = {mapping[n]} /\ \A k \in places : n <= k
<1>1. CASE places = {}
  BY <1>1 DEF FirstOf
<1>2. CASE places # {}
  <2>1. places \subseteq Nat
    BY DEF AuthorsTyped
  <2>2. \E n \in places : \A k \in places : n <= k
    BY <1>2, <2>1, LeastOf
  <2>3. PICK n : n = CHOOSE i \in places : \A k \in places : i <= k
    OBVIOUS
  <2>4. n \in places /\ \A k \in places : n <= k
    BY <2>2, <2>3
  <2>5. FirstOf(places) = {mapping[n]}
    BY <1>2, <2>3 DEF FirstOf
  <2> QED
    BY <1>2, <2>4, <2>5
<1> QED
  BY <1>1, <1>2

\* An address is bound, or not, by how it is compared.
LEMMA BoundByForm ==
    ASSUME AuthorsTyped, NEW email, NEW other, Normalise[email] = Normalise[other]
    PROVE  BindingForEmail(email) = {} <=> BindingForEmail(other) = {}
<1>1. \A binding : Owns(binding, email) <=> Owns(binding, other)
  BY DEF Owns
<1>2. {n \in DOMAIN mapping : Owns(mapping[n], email)} = {n \in DOMAIN mapping : Owns(mapping[n], other)}
  BY <1>1
<1> QED
  BY <1>2 DEF BindingForEmail

\* The address somebody's commits are authored with leads back to their entry.
LEMMA AuthorsCome ==
    ASSUME AuthorsTyped PROVE AuthorsComeBack
<1> SUFFICES ASSUME Clean, NEW b \in Bindings, NEW email \in AuthorOf(b.subject)
             PROVE  Credited(email) = {b.subject}
  BY DEF AuthorsComeBack
<1> DEFINE named == {n \in DOMAIN mapping : mapping[n].subject = b.subject}
           owning == {n \in DOMAIN mapping : Owns(mapping[n], email)}
<1>1. PICK x \in FirstOf(named) : x.emails # <<>> /\ email = Head(x.emails)
  BY DEF AuthorOf, BindingForSubject
<1>2. PICK n \in named : x = mapping[n]
  <2>1. named \subseteq DOMAIN mapping /\ named # {}
    BY <1>1, FirstOfIs
  <2> HIDE DEF named
  <2> QED
    BY <1>1, <2>1, FirstOfIs
<1>3. n \in DOMAIN mapping /\ mapping[n] \in Bindings /\ mapping[n].subject = b.subject
  BY <1>2 DEF AuthorsTyped
<1>4. mapping[n].emails \in Seq(Addresses) /\ mapping[n].emails # <<>> /\ email = mapping[n].emails[1]
      /\ 1 \in DOMAIN mapping[n].emails
  <2>1. mapping[n].emails \in Seq(Addresses)
    BY <1>3, GitAuthorsAssumption
  <2> QED
    BY <1>1, <1>2, <2>1
<1>5. n \in owning
  BY <1>3, <1>4 DEF Owns
<1>6. PICK k \in owning : FirstOf(owning) = {mapping[k]}
  <2>1. owning \subseteq DOMAIN mapping /\ owning # {}
    BY <1>5
  <2> HIDE DEF owning
  <2> QED
    BY <2>1, FirstOfIs
<1>7. k = n
  <2> SUFFICES ASSUME k # n PROVE FALSE
    OBVIOUS
  <2>1. PICK m \in DOMAIN mapping[k].emails : Normalise[mapping[k].emails[m]] = Normalise[email]
    BY DEF Owns
  <2>2. Normalise[email] \in Keys(mapping[k])
    BY <2>1 DEF Keys, Range
  <2>3. Normalise[email] \in Keys(mapping[n])
    BY <1>4 DEF Keys, Range
  <2>4. DuplicateEmails
    BY <1>3, <2>2, <2>3 DEF DuplicateEmails
  <2> QED
    BY <2>4 DEF Clean
<1>8. BindingForEmail(email) = {mapping[n]}
  BY <1>6, <1>7 DEF BindingForEmail
<1> QED
  BY <1>3, <1>8 DEF Credited

\* The authors listed are those missing, once each: the first commit of each.
LEMMA UnmappedAre ==
    ASSUME AuthorsTyped PROVE UnmappedOnce
<1> DEFINE at == {n \in DOMAIN log : BindingForEmail(log[n]) = {} /\ Unseen(n)}
           missing == {Normalise[e] : e \in {x \in Range(log) : Credited(x) = {}}}
           key == [n \in at |-> Normalise[log[n]]]
<1>1. log \in Seq(Addresses) /\ DOMAIN log = 1..Len(log) /\ Len(log) \in Nat /\ at \subseteq DOMAIN log
  BY DEF AuthorsTyped
<1>2. \A x : Credited(x) = {} <=> BindingForEmail(x) = {}
  BY DEF Credited
<1>3. ASSUME NEW n \in at PROVE key[n] \in missing
  <2>1. log[n] \in Range(log) /\ Credited(log[n]) = {}
    BY <1>2 DEF Range
  <2> QED
    BY <2>1
<1>4. ASSUME NEW i \in at, NEW j \in at, i < j, key[i] = key[j] PROVE FALSE
  <2>1. i \in 1..(j - 1)
    BY <1>1, <1>4
  <2>2. log[i] \in Missing(j - 1)
    BY <2>1 DEF Missing
  <2> QED
    BY <1>4, <2>2 DEF Unseen
<1>5. ASSUME NEW y \in missing PROVE \E n \in at : key[n] = y
  <2>1. PICK x \in Range(log) : Credited(x) = {} /\ y = Normalise[x]
    OBVIOUS
  <2> DEFINE T == {n \in DOMAIN log : Normalise[log[n]] = y}
  <2>2. T # {} /\ T \subseteq Nat
    BY <1>1, <2>1 DEF Range
  <2>3. PICK n \in T : \A k \in T : n <= k
    <3> HIDE DEF T
    <3> QED
      BY <2>2, LeastOf
  <2>4. BindingForEmail(log[n]) = {}
    BY <1>2, <2>1, BoundByForm
  <2>5. Unseen(n)
    <3> SUFFICES ASSUME NEW k \in 1..(n - 1), Normalise[log[k]] = Normalise[log[n]] PROVE FALSE
      BY DEF Unseen, Missing
    <3>1. k \in T /\ k < n
      BY <1>1
    <3> QED
      BY <1>1, <2>3, <3>1
  <2> QED
    BY <2>3, <2>4, <2>5
<1>6. UnmappedAuthors = Picked(log, at)
  BY DEF UnmappedAuthors
<1> HIDE DEF at, missing
<1>7. key \in Bijection(at, missing)
  <2>1. \A i, j \in at : key[i] = key[j] => i = j
    BY <1>1, <1>4
  <2>2. key \in [at -> missing]
    BY <1>3
  <2>3. \A y \in missing : \E n \in at : key[n] = y
    BY <1>5
  <2> HIDE DEF key
  <2> QED
    BY <2>1, <2>2, <2>3 DEF Bijection, Injection, Surjection, IsInjective
<1>8. Cardinality(at) = Cardinality(missing)
  <2>1. IsFiniteSet(1..Len(log))
    BY <1>1, FS_Interval
  <2>2. IsFiniteSet(at)
    BY <1>1, <2>1, FS_Subset
  <2>3. ExistsBijection(at, missing)
    BY <1>7 DEF ExistsBijection
  <2> HIDE DEF key
  <2> QED
    BY <2>2, <2>3, FS_Bijection
<1>9. Len(UnmappedAuthors) = Cardinality(missing)
  BY <1>1, <1>6, <1>8, PickedParts
<1>10. {Normalise[e] : e \in Range(UnmappedAuthors)} = missing
  <2>1. /\ DOMAIN Picked(log, at) = 1..Cardinality(at)
        /\ \A k \in 1..Cardinality(at) : \E n \in at : Picked(log, at)[k] = log[n]
        /\ \A n \in at : /\ Place(at, n) \in 1..Cardinality(at)
                         /\ Picked(log, at)[Place(at, n)] = log[n]
    BY <1>1, PickedParts
  <2>2. ASSUME NEW e \in Range(Picked(log, at)) PROVE Normalise[e] \in missing
    <3>1. PICK i \in at : e = log[i]
      BY <2>1 DEF Range
    <3> QED
      BY <1>3, <3>1
  <2>3. ASSUME NEW y \in missing PROVE \E e \in Range(Picked(log, at)) : y = Normalise[e]
    <3>1. PICK i \in at : Normalise[log[i]] = y
      BY <1>5
    <3>2. Place(at, i) \in DOMAIN Picked(log, at) /\ Picked(log, at)[Place(at, i)] = log[i]
      BY <2>1, Zenon
    <3>3. log[i] \in Range(Picked(log, at))
      BY <3>2, Zenon DEF Range
    <3> QED
      BY <3>1, <3>3
  <2> QED
    BY <1>6, <2>2, <2>3
<1> QED
  BY <1>9, <1>10 DEF UnmappedOnce, missing

\* However the file is edited and whoever commits: a commit made for somebody is
\* shown as theirs while the checks of the mapping pass, and the people the
\* mapping lacks are listed, once each (actors.py resolve_git_author,
\* unmapped_authors).
THEOREM AuthorsStayKnown == AuthorsSpec => []AuthorsAreKnown
<1>1. AuthorsInit => AuthorsTyped
  BY DEF AuthorsInit, AuthorsTyped
<1>2. AuthorsTyped /\ [AuthorsNext]_authorVars => AuthorsTyped'
  <2> SUFFICES ASSUME AuthorsTyped, [AuthorsNext]_authorVars PROVE AuthorsTyped'
    OBVIOUS
  <2>1. CASE Remap
    <3>1. \A n \in 0..2 : \A m \in [1..n -> Bindings] : m \in Seq(Bindings)
      OBVIOUS
    <3> QED
      BY <2>1, <3>1 DEF Remap, AuthorsTyped
  <2>2. ASSUME NEW b \in Bindings, CommitAs(b.subject) PROVE AuthorsTyped'
    <3> DEFINE named == {n \in DOMAIN mapping : mapping[n].subject = b.subject}
    <3>1. PICK email \in AuthorOf(b.subject) : log' = Append(log, email)
      BY <2>2 DEF CommitAs
    <3>2. PICK x \in FirstOf(named) : x.emails # <<>> /\ email = Head(x.emails)
      BY <3>1 DEF AuthorOf, BindingForSubject
    <3>3. x \in Bindings
      <4>1. named \subseteq DOMAIN mapping /\ named # {}
        BY <3>2, FirstOfIs
      <4> HIDE DEF named
      <4>2. \E n \in DOMAIN mapping : x = mapping[n]
        BY <3>2, <4>1, FirstOfIs
      <4> QED
        BY <4>2 DEF AuthorsTyped
    <3>4. x.emails \in Seq(Addresses)
      BY <3>3, GitAuthorsAssumption
    <3>5. email \in Addresses
      BY <3>2, <3>4
    <3> QED
      BY <2>2, <3>1, <3>5 DEF CommitAs, AuthorsTyped
  <2>3. ASSUME NEW email \in Strangers, CommitOutside(email) PROVE AuthorsTyped'
    BY <2>3, GitAuthorsAssumption DEF CommitOutside, AuthorsTyped
  <2>4. CASE UNCHANGED authorVars
    BY <2>4 DEF authorVars, AuthorsTyped
  <2> QED
    BY <2>1, <2>2, <2>3, <2>4 DEF AuthorsNext
<1>3. AuthorsTyped => AuthorsAreKnown
  BY AuthorsCome, UnmappedAre DEF AuthorsAreKnown
<1> QED
  BY <1>1, <1>2, <1>3, PTL DEF AuthorsSpec

-----------------------------------------------------------------------------
(* Specification files: the reading's repair ends, with nothing wrong.     *)

\* The readings of a list, each of what the one before left, up to one with nothing wrong.
Repairs(list) ==
    {last \in Lists :
        \E n \in Nat : \E reading \in [0..n -> Lists] :
            /\ reading[0] = list /\ reading[n] = last
            /\ Wrong(last) = {}
            /\ \A k \in 0..(n - 1) : Wrong(reading[k]) # {} /\ reading[k + 1] = Dropped(reading[k])}

\* There are n numbers up to n.
LEMMA UpTo == ASSUME NEW n \in Nat PROVE IsFiniteSet(1..n) /\ Cardinality(1..n) = n
BY FS_Interval

\* What _drop_invalid leaves is a shorter list, while something is wrong.
LEMMA DroppedParts ==
    ASSUME NEW list \in Lists
    PROVE  /\ Dropped(list) \in Lists
           /\ Wrong(list) # {} => Len(Dropped(list)) < Len(list)
<1> DEFINE W == Wrong(list)
           at == DOMAIN list \ {i + Place(W, i) - 1 : i \in W}
           S == Words \cup {Bad}
<1>1. list \in Seq(S) /\ DOMAIN list = 1..Len(list) /\ Len(list) \in Nat /\ W \subseteq DOMAIN list
      /\ at \subseteq DOMAIN list
  BY DEF Lists, Wrong
<1>2. Dropped(list) = Picked(list, at)
  BY DEF Dropped
<1> HIDE DEF at
<1>3. Dropped(list) \in Seq(S) /\ Len(Dropped(list)) = Cardinality(at)
  BY <1>1, <1>2, PickedParts
<1> USE DEF at
<1>4. ASSUME W # {} PROVE Cardinality(at) < Len(list)
  <2>1. PICK i \in W : \A j \in W : i <= j
    <3>1. W \subseteq Nat
      BY <1>1
    <3> HIDE DEF W
    <3> QED
      BY <1>4, <3>1, LeastOf
  <2>2. {j \in W : j <= i} = {i}
    BY <1>1, <2>1
  <2>3. Place(W, i) = 1
    BY <2>2, FS_Singleton DEF Place
  <2>4. i \in DOMAIN list /\ i \notin at
    BY <1>1, <2>1, <2>3
  <2>5. IsFiniteSet(DOMAIN list) /\ Cardinality(DOMAIN list) = Len(list)
    <3>1. IsFiniteSet(1..Len(list)) /\ Cardinality(1..Len(list)) = Len(list)
      BY <1>1, UpTo
    <3> QED
      BY <1>1, <3>1
  <2> HIDE DEF at, W
  <2>6. at # DOMAIN list
    BY <2>4
  <2>7. Cardinality(at) <= Len(list) /\ Cardinality(at) # Len(list)
    BY <1>1, <2>5, <2>6, FS_Subset
  <2>8. Cardinality(at) \in Nat
    BY <1>1, <2>5, FS_Subset, FS_CardinalityType
  <2> QED
    BY <1>1, <2>7, <2>8
<1> QED
  BY <1>3, <1>4 DEF Lists

\* A list with nothing wrong is read as it is; another, as what is left of it.
LEMMA RepairsAre ==
    ASSUME NEW list \in Lists
    PROVE  /\ Wrong(list) = {} => Repairs(list) = {list}
           /\ Wrong(list) # {} => Repairs(list) = Repairs(Dropped(list))
<1>1. ASSUME Wrong(list) = {} PROVE Repairs(list) = {list}
  <2>1. list \in Repairs(list)
    <3> DEFINE one == [k \in 0..0 |-> list]
    <3>1. one \in [0..0 -> Lists] /\ one[0] = list
      OBVIOUS
    <3>2. \A k \in 0..(0 - 1) : FALSE
      OBVIOUS
    <3> HIDE DEF one
    <3> QED
      BY <1>1, <3>1, <3>2 DEF Repairs
  <2>2. ASSUME NEW last \in Repairs(list) PROVE last = list
    <3>1. PICK n \in Nat : \E reading \in [0..n -> Lists] :
            /\ reading[0] = list /\ reading[n] = last
            /\ Wrong(last) = {}
            /\ \A k \in 0..(n - 1) : Wrong(reading[k]) # {} /\ reading[k + 1] = Dropped(reading[k])
      BY DEF Repairs
    <3>2. n = 0
      <4> SUFFICES ASSUME n # 0 PROVE FALSE
        OBVIOUS
      <4>1. 0 \in 0..(n - 1)
        OBVIOUS
      <4> QED
        BY <1>1, <3>1, <4>1
    <3> QED
      BY <3>1, <3>2
  <2> QED
    BY <2>1, <2>2
<1>2. ASSUME Wrong(list) # {} PROVE Repairs(list) = Repairs(Dropped(list))
  <2>0. Dropped(list) \in Lists
    BY DroppedParts
  <2>1. ASSUME NEW last \in Repairs(list) PROVE last \in Repairs(Dropped(list))
    <3>1. PICK n \in Nat : \E reading \in [0..n -> Lists] :
            /\ reading[0] = list /\ reading[n] = last
            /\ Wrong(last) = {}
            /\ \A k \in 0..(n - 1) : Wrong(reading[k]) # {} /\ reading[k + 1] = Dropped(reading[k])
      BY DEF Repairs
    <3>2. PICK reading \in [0..n -> Lists] :
            /\ reading[0] = list /\ reading[n] = last
            /\ Wrong(last) = {}
            /\ \A k \in 0..(n - 1) : Wrong(reading[k]) # {} /\ reading[k + 1] = Dropped(reading[k])
      BY <3>1
    <3>3. n # 0
      BY <1>2, <3>2
    <3> DEFINE m == n - 1
               later == [k \in 0..m |-> reading[k + 1]]
    <3>4. m \in Nat /\ 0 \in 0..(n - 1)
      BY <3>3
    <3>5. later \in [0..m -> Lists] /\ later[0] = Dropped(list) /\ later[m] = last
      BY <3>2, <3>4
    <3>6. \A k \in 0..(m - 1) : Wrong(later[k]) # {} /\ later[k + 1] = Dropped(later[k])
      <4> SUFFICES ASSUME NEW k \in 0..(m - 1)
                   PROVE  Wrong(later[k]) # {} /\ later[k + 1] = Dropped(later[k])
        OBVIOUS
      <4>1. k + 1 \in 0..(n - 1) /\ k \in 0..m /\ k + 1 \in 0..m
        BY <3>4
      <4>2. later[k] = reading[k + 1] /\ later[k + 1] = reading[(k + 1) + 1]
        BY <4>1
      <4> HIDE DEF later, m
      <4> QED
        BY <3>2, <4>1, <4>2
    <3> HIDE DEF later, m
    <3>7. last \in Lists
      BY DEF Repairs
    <3> QED
      BY <3>2, <3>4, <3>5, <3>6, <3>7 DEF Repairs
  <2>2. ASSUME NEW last \in Repairs(Dropped(list)) PROVE last \in Repairs(list)
    <3>1. PICK n \in Nat : \E reading \in [0..n -> Lists] :
            /\ reading[0] = Dropped(list) /\ reading[n] = last
            /\ Wrong(last) = {}
            /\ \A k \in 0..(n - 1) : Wrong(reading[k]) # {} /\ reading[k + 1] = Dropped(reading[k])
      BY DEF Repairs
    <3>2. PICK reading \in [0..n -> Lists] :
            /\ reading[0] = Dropped(list) /\ reading[n] = last
            /\ Wrong(last) = {}
            /\ \A k \in 0..(n - 1) : Wrong(reading[k]) # {} /\ reading[k + 1] = Dropped(reading[k])
      BY <3>1
    <3> DEFINE m == n + 1
               longer == [k \in 0..m |-> IF k = 0 THEN list ELSE reading[k - 1]]
    <3>3. m \in Nat /\ m # 0
      OBVIOUS
    <3>4. longer \in [0..m -> Lists] /\ longer[0] = list /\ longer[m] = last
      BY <3>2, <3>3
    <3>5. \A k \in 0..(m - 1) : Wrong(longer[k]) # {} /\ longer[k + 1] = Dropped(longer[k])
      <4> SUFFICES ASSUME NEW k \in 0..(m - 1)
                   PROVE  Wrong(longer[k]) # {} /\ longer[k + 1] = Dropped(longer[k])
        OBVIOUS
      <4>1. k \in 0..m /\ k + 1 \in 0..m /\ (k + 1) - 1 = k /\ k \in 0..n
        OBVIOUS
      <4>2. longer[k + 1] = reading[k]
        BY <4>1
      <4>3. CASE k = 0
        BY <1>2, <3>2, <3>4, <4>2, <4>3
      <4>4. CASE k # 0
        <5>1. longer[k] = reading[k - 1] /\ k - 1 \in 0..(n - 1) /\ (k - 1) + 1 = k
          BY <4>1, <4>4
        <5> HIDE DEF longer, m
        <5> QED
          BY <3>2, <4>2, <5>1
      <4> QED
        BY <4>3, <4>4
    <3> HIDE DEF longer, m
    <3>6. last \in Lists
      BY DEF Repairs
    <3> QED
      BY <3>2, <3>3, <3>4, <3>5, <3>6 DEF Repairs
  <2> QED
    BY <2>1, <2>2
<1> QED
  BY <1>1, <1>2

\* So the repair is what its definition says of it.
LEMMA RepairedIs ==
    Repaired = [list \in Lists |-> IF Wrong(list) = {} THEN list ELSE Repaired[Dropped(list)]]
<1> DEFINE g == [list \in Lists |-> CHOOSE last : last \in Repairs(list)]
<1>1. ASSUME NEW list \in Lists
      PROVE  g[list] = IF Wrong(list) = {} THEN list ELSE g[Dropped(list)]
  <2>1. CASE Wrong(list) = {}
    <3>1. g[list] = CHOOSE last : last \in {list}
      BY <2>1, RepairsAre
    <3> QED
      BY <2>1, <3>1
  <2>2. CASE Wrong(list) # {}
    <3>1. Dropped(list) \in Lists
      BY DroppedParts
    <3>2. g[Dropped(list)] = CHOOSE last : last \in Repairs(Dropped(list))
      BY <3>1
    <3>3. Repairs(list) = Repairs(Dropped(list))
      BY <2>2, RepairsAre
    <3>4. g[list] = CHOOSE last : last \in Repairs(Dropped(list))
      BY <3>3
    <3> QED
      BY <2>2, <3>2, <3>4
  <2> QED
    BY <2>1, <2>2
<1>2. g = [list \in Lists |-> g[list]]
  OBVIOUS
<1> HIDE DEF g
<1>3. g = [list \in Lists |-> IF Wrong(list) = {} THEN list ELSE g[Dropped(list)]]
  BY <1>1, <1>2
<1> QED
  BY <1>3, Zenon DEF Repaired

\* Every place of a sequence picks the whole of it.
LEMMA PickedWhole ==
    ASSUME NEW S, NEW s \in Seq(S) PROVE Picked(s, DOMAIN s) = s
<1> DEFINE at == DOMAIN s
<1>1. DOMAIN s = 1..Len(s) /\ Len(s) \in Nat
  OBVIOUS
<1>2. ASSUME NEW i \in at PROVE Place(at, i) = i
  <2>1. {j \in at : j <= i} = 1..i /\ i \in Nat
    BY <1>1
  <2> QED
    BY <2>1, UpTo DEF Place
<1>3. Cardinality(at) = Len(s)
  <2>1. Cardinality(1..Len(s)) = Len(s)
    BY <1>1, UpTo
  <2> QED
    BY <1>1, <2>1
<1>4. /\ Picked(s, at) \in Seq(S) /\ Len(Picked(s, at)) = Cardinality(at)
      /\ \A i \in at : Picked(s, at)[Place(at, i)] = s[i]
  BY PickedParts
<1> HIDE DEF at
<1>5. \A i \in at : Picked(s, at)[i] = s[i]
  BY <1>2, <1>4
<1> QED
  BY <1>1, <1>3, <1>4, <1>5 DEF at

\* What is read of a list has nothing wrong in it; of a list with nothing wrong, it is
\* the list; of a list with one thing wrong, it is everything else.
LEMMA RepairedParts ==
    ASSUME NEW list \in Lists
    PROVE  /\ Repaired[list] \in Seq(Words)
           /\ Wrong(list) = {} => Repaired[list] = list
           /\ \A i : Wrong(list) = {i} => Repaired[list] = Picked(list, DOMAIN list \ {i})
<1>1. ASSUME NEW l \in Lists
      PROVE Repaired[l] = IF Wrong(l) = {} THEN l ELSE Repaired[Dropped(l)]
  BY RepairedIs, Zenon
<1>2. ASSUME NEW l \in Lists, Wrong(l) = {} PROVE l \in Seq(Words)
  <2>1. \A i \in DOMAIN l : l[i] \in Words
    BY <1>2 DEF Lists, Wrong
  <2> QED
    BY <2>1 DEF Lists
<1>3. \A l \in Lists : Repaired[l] \in Seq(Words)
  <2> DEFINE ofLength(n) == \E l \in Lists : Len(l) = n /\ Repaired[l] \notin Seq(Words)
             T == {n \in Nat : ofLength(n)}
  <2> SUFFICES ASSUME T # {} PROVE FALSE
    BY DEF Lists
  <2>1. PICK n \in T : \A m \in T : n <= m
    <3> HIDE DEF ofLength
    <3>1. T \subseteq Nat
      OBVIOUS
    <3> HIDE DEF T
    <3> QED
      BY <3>1, LeastOf
  <2>2. PICK l \in Lists : Len(l) = n /\ Repaired[l] \notin Seq(Words)
    OBVIOUS
  <2>3. Wrong(l) # {}
    BY <1>1, <1>2, <2>2
  <2>4. Repaired[Dropped(l)] \notin Seq(Words)
    BY <1>1, <2>2, <2>3
  <2>5. Dropped(l) \in Lists /\ Len(Dropped(l)) < n /\ Len(Dropped(l)) \in Nat /\ n \in Nat
    BY <2>2, <2>3, DroppedParts DEF Lists
  <2>6. Len(Dropped(l)) \in T
    BY <2>4, <2>5
  <2> HIDE DEF T
  <2> QED
    BY <2>1, <2>5, <2>6
<1>4. ASSUME NEW i, Wrong(list) = {i} PROVE Repaired[list] = Picked(list, DOMAIN list \ {i})
  <2>1. list \in Seq(Words \cup {Bad}) /\ DOMAIN list = 1..Len(list) /\ Len(list) \in Nat
        /\ i \in DOMAIN list
    BY <1>4 DEF Lists, Wrong
  <2>2. {j \in {i} : j <= i} = {i}
    BY <2>1
  <2>3. Place({i}, i) = 1
    BY <2>2, FS_Singleton DEF Place
  <2>4. Dropped(list) = Picked(list, DOMAIN list \ {i})
    <3>1. {k + Place(Wrong(list), k) - 1 : k \in Wrong(list)} = {i}
      BY <1>4, <2>1, <2>3
    <3> QED
      BY <3>1, Zenon DEF Dropped
  <2>5. Dropped(list) \in Lists
    BY DroppedParts
  <2>6. Wrong(Dropped(list)) = {}
    <3> DEFINE at == DOMAIN list \ {i}
    <3>1. \A k \in at : list[k] # Bad
      BY <1>4 DEF Wrong
    <3>2. at \subseteq DOMAIN list
      OBVIOUS
    <3> HIDE DEF at
    <3>3. /\ DOMAIN Picked(list, at) = 1..Cardinality(at)
          /\ \A k \in 1..Cardinality(at) : \E j \in at : Picked(list, at)[k] = list[j]
      BY <2>1, <3>2, PickedParts
    <3>4. \A k \in DOMAIN Picked(list, at) : Picked(list, at)[k] # Bad
      BY <3>1, <3>3
    <3> QED
      BY <2>4, <3>4 DEF Wrong, at
  <2>7. Wrong(list) # {}
    BY <1>4
  <2> QED
    BY <1>1, <2>4, <2>5, <2>6, <2>7
<1> QED
  BY <1>1, <1>3, <1>4

\* One entry of the wrong type costs the reader nothing else.
LEMMA OneBadEntry ==
    ASSUME yaml.aliases \in Lists PROVE OneBadEntryCostsItself
<1> DEFINE list == yaml.aliases
<1> SUFFICES ASSUME Cardinality(Wrong(list)) <= 1
             PROVE  Repaired[list] = Picked(list, DOMAIN list \ Wrong(list))
  BY DEF OneBadEntryCostsItself, ReadOf
<1>1. list \in Seq(Words \cup {Bad}) /\ DOMAIN list = 1..Len(list) /\ Len(list) \in Nat
  BY DEF Lists
<1>2. IsFiniteSet(Wrong(list)) /\ Cardinality(Wrong(list)) \in Nat
  <2>1. IsFiniteSet(1..Len(list))
    BY <1>1, UpTo
  <2>2. Wrong(list) \subseteq 1..Len(list)
    BY <1>1 DEF Wrong
  <2> QED
    BY <2>1, <2>2, FS_Subset, FS_CardinalityType
<1>3. CASE Cardinality(Wrong(list)) = 0
  <2>1. Wrong(list) = {}
    BY <1>2, <1>3, FS_EmptySet
  <2>2. Repaired[list] = list
    BY <2>1, RepairedParts
  <2>3. Picked(list, DOMAIN list) = list
    BY <1>1, PickedWhole
  <2> QED
    BY <2>1, <2>2, <2>3
<1>4. CASE Cardinality(Wrong(list)) = 1
  <2>1. PICK i : Wrong(list) = {i}
    BY <1>2, <1>4, FS_Singleton
  <2> QED
    BY <2>1, RepairedParts
<1> QED
  BY <1>2, <1>3, <1>4

-----------------------------------------------------------------------------
(* What an edit writes is what is read back.                               *)

Said == [id : Notes, says : Sayings]
Nodes == [id : Notes, says : Sayings, form : Forms]
Figures == Limits \cup {{}}
Readings == [aliases : Seq(Words), notes : Seq(Said), bones : Figures, skeleton : Figures]
Files == [version : Nat, aliases : Lists, notes : Seq(Nodes), extras : SUBSET Extras,
          rig : [bones : Figures, skeleton : Figures, extra : Extras \cup {"none"}]]

\* An id is on one annotation.
Distinct(notes) == \A i, j \in DOMAIN notes : notes[i].id = notes[j].id => i = j

\* The annotations read are those with an anchor, each as it stands.
LEMMA NotesRead ==
    ASSUME NEW f \in Files
    PROVE  /\ ReadOf(f).notes \in Seq(Said)
           /\ \A k \in DOMAIN ReadOf(f).notes : \E i \in DOMAIN f.notes :
                 ReadOf(f).notes[k] = [id |-> f.notes[i].id, says |-> f.notes[i].says]
           /\ Distinct(f.notes) => Distinct(ReadOf(f).notes)
           /\ (\A i \in DOMAIN f.notes : Anchored(f.notes[i])) =>
                 ReadOf(f).notes = [i \in DOMAIN f.notes |-> [id |-> f.notes[i].id, says |-> f.notes[i].says]]
<1> DEFINE at == {i \in DOMAIN f.notes : Anchored(f.notes[i])}
           read == Picked(f.notes, at)
           notes == [k \in DOMAIN read |-> [id |-> read[k].id, says |-> read[k].says]]
<1>1. f.notes \in Seq(Nodes) /\ at \subseteq DOMAIN f.notes
  BY DEF Files
<1>2. ReadOf(f).notes = notes
  BY DEF ReadOf
<1> HIDE DEF at
<1>3. /\ read \in Seq(Nodes)
      /\ DOMAIN read = 1..Cardinality(at)
      /\ \A k \in 1..Cardinality(at) : \E i \in at : Place(at, i) = k /\ read[k] = f.notes[i]
      /\ \A i, j \in at : i < j => Place(at, i) < Place(at, j)
  <2>1. PICK list : list = f.notes
    OBVIOUS
  <2>2. list \in Seq(Nodes) /\ at \subseteq DOMAIN list
    BY <1>1, <2>1
  <2>3. /\ Picked(list, at) \in Seq(Nodes)
        /\ DOMAIN Picked(list, at) = 1..Cardinality(at)
        /\ \A k \in 1..Cardinality(at) : \E i \in at : Place(at, i) = k /\ Picked(list, at)[k] = list[i]
        /\ \A i, j \in at : i < j => Place(at, i) < Place(at, j)
    BY <2>2, PickedParts
  <2> QED
    BY <2>1, <2>3
<1> HIDE DEF read
<1>4. notes \in Seq(Said)
  <2>1. /\ Len(read) \in Nat /\ DOMAIN read = 1..Len(read)
        /\ \A k \in 1..Len(read) : read[k] \in Nodes
    <3>1. read \in Seq(Nodes)
      BY <1>3
    <3> QED
      BY <3>1
  <2> QED
    BY <2>1 DEF Nodes, Said
<1>5. ASSUME NEW k \in DOMAIN notes
      PROVE  \E i \in DOMAIN f.notes : notes[k] = [id |-> f.notes[i].id, says |-> f.notes[i].says]
  <2>1. PICK i \in at : read[k] = f.notes[i]
    BY <1>3
  <2> QED
    BY <1>1, <2>1
<1>6. ASSUME Distinct(f.notes), NEW k \in DOMAIN notes, NEW m \in DOMAIN notes, notes[k].id = notes[m].id
      PROVE  k = m
  <2>1. PICK i \in at : Place(at, i) = k /\ read[k] = f.notes[i]
    BY <1>3
  <2>2. PICK j \in at : Place(at, j) = m /\ read[m] = f.notes[j]
    BY <1>3
  <2>3. f.notes[i].id = f.notes[j].id
    BY <1>6, <2>1, <2>2
  <2>4. i = j
    BY <1>1, <1>6, <2>3 DEF Distinct
  <2> QED
    BY <2>1, <2>2, <2>4
<1>7. ASSUME \A i \in DOMAIN f.notes : Anchored(f.notes[i])
      PROVE  read = f.notes
  <2>1. at = DOMAIN f.notes
    BY <1>1, <1>7 DEF at
  <2> QED
    BY <1>1, <2>1, PickedWhole DEF read
<1>8. Distinct(f.notes) => Distinct(notes)
  BY <1>6 DEF Distinct
<1>9. (\A i \in DOMAIN f.notes : Anchored(f.notes[i])) =>
         notes = [i \in DOMAIN f.notes |-> [id |-> f.notes[i].id, says |-> f.notes[i].says]]
  BY <1>7
<1> HIDE DEF notes
<1> QED
  BY <1>2, <1>4, <1>5, <1>8, <1>9

\* _set_aliases leaves exactly the aliases wanted.
LEMMA AliasesSet ==
    ASSUME NEW existing \in Lists, NEW wanted \in Seq(Words)
    PROVE  /\ SetAliases(existing, wanted) \in Seq(Words)
           /\ Range(SetAliases(existing, wanted)) = Range(wanted)
<1> DEFINE kept == {i \in DOMAIN existing : existing[i] \in Range(wanted)}
           new == {i \in DOMAIN wanted : wanted[i] \notin Range(existing)}
           a == Picked(existing, kept)
           b == Picked(wanted, new)
<1>1. existing \in Seq(Words \cup {Bad}) /\ kept \subseteq DOMAIN existing /\ new \subseteq DOMAIN wanted
  BY DEF Lists
<1>2. \A i \in kept : existing[i] \in Range(wanted)
  OBVIOUS
<1>3. \A i \in DOMAIN wanted : wanted[i] \in Range(existing) => \E j \in kept : existing[j] = wanted[i]
  BY DEF Range
<1>4. \A i \in DOMAIN wanted : wanted[i] \notin Range(existing) => i \in new
  OBVIOUS
<1>5. Range(wanted) \subseteq Words
  BY DEF Range
<1>6. SetAliases(existing, wanted) = a \o b
  BY DEF SetAliases
<1> HIDE DEF kept, new
<1>7. /\ a \in Seq(Words \cup {Bad}) /\ Len(a) = Cardinality(kept)
      /\ DOMAIN a = 1..Cardinality(kept)
      /\ \A k \in 1..Cardinality(kept) : \E i \in kept : a[k] = existing[i]
      /\ \A i \in kept : Place(kept, i) \in 1..Cardinality(kept) /\ a[Place(kept, i)] = existing[i]
  BY <1>1, PickedParts
<1>8. /\ b \in Seq(Words) /\ Len(b) = Cardinality(new)
      /\ DOMAIN b = 1..Cardinality(new)
      /\ \A k \in 1..Cardinality(new) : \E i \in new : b[k] = wanted[i]
      /\ \A i \in new : Place(new, i) \in 1..Cardinality(new) /\ b[Place(new, i)] = wanted[i]
  BY <1>1, PickedParts
<1> HIDE DEF a, b
<1>9. \A k \in DOMAIN a : a[k] \in Range(wanted)
  BY <1>2, <1>7
<1>10. a \in Seq(Words)
  <2>1. \A k \in 1..Len(a) : a[k] \in Words
    BY <1>5, <1>7, <1>9
  <2> QED
    BY <1>7, <2>1
<1>11. \A k \in DOMAIN b : b[k] \in Range(wanted)
  BY <1>1, <1>8 DEF Range
<1>12. ASSUME NEW k \in DOMAIN (a \o b) PROVE (a \o b)[k] \in Range(wanted)
  <2>1. k \in 1..(Len(a) + Len(b)) /\ DOMAIN a = 1..Len(a) /\ DOMAIN b = 1..Len(b)
    BY <1>8, <1>10
  <2>2. CASE k <= Len(a)
    BY <1>8, <1>9, <1>10, <2>1, <2>2
  <2>3. CASE k > Len(a)
    <3>1. (a \o b)[k] = b[k - Len(a)] /\ k - Len(a) \in DOMAIN b
      BY <1>8, <1>10, <2>1, <2>3
    <3> QED
      BY <1>11, <3>1
  <2> QED
    BY <1>10, <2>1, <2>2, <2>3
<1>13. ASSUME NEW i \in DOMAIN wanted PROVE \E k \in DOMAIN (a \o b) : (a \o b)[k] = wanted[i]
  <2>1. /\ DOMAIN (a \o b) = 1..(Len(a) + Len(b))
        /\ Len(a) \in Nat /\ Len(b) \in Nat
        /\ \A k \in 1..Len(a) : (a \o b)[k] = a[k]
        /\ \A k \in 1..Len(b) : (a \o b)[Len(a) + k] = b[k]
    <3>1. a \in Seq(Words) /\ b \in Seq(Words)
      BY <1>8, <1>10
    <3>2. \A k \in 1..Len(b) : Len(a) + k \in 1..(Len(a) + Len(b)) /\ (a \o b)[Len(a) + k] = b[k]
      BY <3>1
    <3> QED
      BY <3>1, <3>2
  <2>2. CASE wanted[i] \in Range(existing)
    <3>1. PICK j \in kept : existing[j] = wanted[i]
      BY <1>3, <2>2
    <3>2. Place(kept, j) \in 1..Len(a) /\ a[Place(kept, j)] = wanted[i]
      BY <1>7, <3>1
    <3> QED
      BY <2>1, <3>2
  <2>3. CASE wanted[i] \notin Range(existing)
    <3>1. i \in new
      BY <1>4, <2>3
    <3>2. Place(new, i) \in 1..Len(b) /\ b[Place(new, i)] = wanted[i]
      BY <1>8, <3>1
    <3>3. Len(a) + Place(new, i) \in DOMAIN (a \o b)
      BY <2>1, <3>2
    <3> QED
      BY <2>1, <3>2, <3>3
  <2> QED
    BY <2>2, <2>3
<1>14. a \o b \in Seq(Words)
  BY <1>8, <1>10
<1>15. Range(a \o b) = Range(wanted)
  BY <1>12, <1>13, Zenon DEF Range
<1> QED
  BY <1>6, <1>14, <1>15

\* _set_annotations writes the annotations wanted, and keeps the node of each that
\* says so already.
LEMMA NotesSet ==
    ASSUME NEW existing \in Seq(Nodes), NEW wanted \in Seq(Said)
    PROVE  LET set == SetNotes(existing, wanted)
           IN  /\ set \in Seq(Nodes) /\ DOMAIN set = DOMAIN wanted
               /\ \A i \in DOMAIN wanted :
                     /\ set[i].id = wanted[i].id /\ set[i].says = wanted[i].says
                     /\ set[i].form \in {"ours", "commented"}
                     /\ \A j \in DOMAIN existing :
                           Distinct(existing) /\ Matches(existing[j], wanted[i]) => set[i] = existing[j]
<1> DEFINE set == SetNotes(existing, wanted)
           lasts(i) == {j \in DOMAIN existing :
                         /\ existing[j].id = wanted[i].id
                         /\ \A k \in DOMAIN existing : existing[k].id = wanted[i].id => k <= j}
<1>1. /\ Len(wanted) \in Nat /\ DOMAIN wanted = 1..Len(wanted)
      /\ DOMAIN existing = 1..Len(existing) /\ Len(existing) \in Nat
      /\ \A i \in DOMAIN wanted : wanted[i] \in Said
      /\ \A j \in DOMAIN existing : existing[j] \in Nodes
  OBVIOUS
<1>2. set = [i \in DOMAIN wanted |->
               IF \E j \in lasts(i) : Matches(existing[j], wanted[i])
               THEN existing[CHOOSE j \in lasts(i) : TRUE] ELSE Rendered(wanted[i])]
  BY Zenon DEF SetNotes
<1>3. ASSUME NEW i, NEW j \in lasts(i) PROVE (CHOOSE k \in lasts(i) : TRUE) = j
  <2>1. \A k \in lasts(i) : k = j
    BY <1>1
  <2> HIDE DEF lasts
  <2> QED
    BY <2>1
<1>4. ASSUME NEW i \in DOMAIN wanted
      PROVE  /\ set[i] \in Nodes
             /\ set[i].id = wanted[i].id /\ set[i].says = wanted[i].says
             /\ set[i].form \in {"ours", "commented"}
  <2>1. CASE \E j \in lasts(i) : Matches(existing[j], wanted[i])
    <3>1. PICK j \in lasts(i) : Matches(existing[j], wanted[i])
      BY <2>1
    <3>2. j \in DOMAIN existing
      OBVIOUS
    <3>3. set[i] = existing[j]
      <4> HIDE DEF lasts, set
      <4> QED
        BY <1>2, <1>3, <2>1, <3>1
    <3> QED
      BY <1>1, <3>1, <3>2, <3>3 DEF Matches
  <2>2. CASE ~ \E j \in lasts(i) : Matches(existing[j], wanted[i])
    <3>1. set[i] = Rendered(wanted[i])
      <4> HIDE DEF lasts, set
      <4> QED
        BY <1>2, <2>2
    <3> QED
      BY <1>1, <3>1 DEF Rendered, Nodes, Said, Forms
  <2> QED
    BY <2>1, <2>2
<1>5. ASSUME NEW i \in DOMAIN wanted, NEW j \in DOMAIN existing, Distinct(existing),
             Matches(existing[j], wanted[i])
      PROVE  set[i] = existing[j]
  <2>1. j \in lasts(i)
    <3>1. existing[j].id = wanted[i].id
      BY <1>5 DEF Matches
    <3>2. \A k \in DOMAIN existing : existing[k].id = wanted[i].id => k <= j
      BY <1>1, <1>5, <3>1 DEF Distinct
    <3> QED
      BY <3>1, <3>2
  <2> HIDE DEF lasts, set
  <2> QED
    BY <1>2, <1>3, <1>5, <2>1
<1>6. DOMAIN set = DOMAIN wanted
  BY <1>2
<1> HIDE DEF set
<1>7. set \in Seq(Nodes)
  <2>1. set = [i \in 1..Len(wanted) |-> set[i]]
    BY <1>1, <1>2
  <2>2. \A i \in 1..Len(wanted) : set[i] \in Nodes
    BY <1>1, <1>4
  <2> QED
    BY <1>1, <2>1, <2>2
<1> QED
  BY <1>4, <1>5, <1>6, <1>7 DEF set

\* The yaml is well formed, and an id is on one annotation.
FilesInv == yaml \in Files /\ Distinct(yaml.notes)

\* What an operation makes of what it read.
Proposed(asset) ==
    LET before == ReadOf(yaml)
    IN  /\ asset \in Readings
        /\ Distinct(asset.notes)
        /\ asset.skeleton = before.skeleton
        /\ asset.aliases = before.aliases \/ Range(asset.aliases) # Range(before.aliases)

\* What is read is a reading.
LEMMA ReadingIs ==
    ASSUME NEW f \in Files PROVE ReadOf(f) \in Readings /\ ReadOf(f).aliases = Repaired[f.aliases]
<1>1. Repaired[f.aliases] \in Seq(Words)
  BY RepairedParts DEF Files
<1>2. ReadOf(f).notes \in Seq(Said)
  BY NotesRead
<1>3. ReadOf(f) = [aliases |-> Repaired[f.aliases], notes |-> ReadOf(f).notes,
                   bones |-> f.rig.bones, skeleton |-> f.rig.skeleton]
  BY DEF ReadOf
<1> QED
  BY <1>1, <1>2, <1>3 DEF Readings, Files

\* Rendering what is wanted gives a yaml that is read as that.
LEMMA RenderReads ==
    ASSUME NEW f \in Files, IsReadable(f), Distinct(f.notes),
           NEW asset \in Readings, Distinct(asset.notes), asset.skeleton = ReadOf(f).skeleton
    PROVE  LET g == Render(f, asset)
           IN  /\ g \in Files /\ Distinct(g.notes) /\ IsReadable(g)
               /\ Range(ReadOf(g).aliases) = Range(asset.aliases)
               /\ ReadOf(g).notes = asset.notes
               /\ ReadOf(g).bones = asset.bones /\ ReadOf(g).skeleton = asset.skeleton
               /\ g.version = f.version /\ g.extras = f.extras
               /\ g.rig.extra = f.rig.extra /\ g.rig.skeleton = f.rig.skeleton
               /\ asset.bones = ReadOf(f).bones => g.rig = f.rig
               /\ asset.aliases = ReadOf(f).aliases => g.aliases = f.aliases
               /\ asset.notes = ReadOf(f).notes => g.notes = f.notes
               /\ \A i \in DOMAIN f.notes :
                     /\ f.notes[i].form = "commented"
                     /\ [id |-> f.notes[i].id, says |-> f.notes[i].says] \in Range(asset.notes)
                     => f.notes[i] \in Range(g.notes)
<1> DEFINE before == ReadOf(f)
           spelt == IF asset.aliases # before.aliases
                      THEN SetAliases(f.aliases, asset.aliases) ELSE f.aliases
           notes == IF asset.notes # before.notes THEN SetNotes(f.notes, asset.notes) ELSE f.notes
           rig == [bones |-> asset.bones, skeleton |-> f.rig.skeleton, extra |-> f.rig.extra]
           g == Render(f, asset)
<1>1. /\ f.aliases \in Lists /\ f.notes \in Seq(Nodes)
      /\ asset.aliases \in Seq(Words) /\ asset.notes \in Seq(Said)
      /\ before \in Readings /\ before.aliases = Repaired[f.aliases]
      /\ before.bones = f.rig.bones /\ before.skeleton = f.rig.skeleton
      /\ asset.bones \in Figures
  BY ReadingIs DEF Files, Readings, ReadOf
<1>2. g = [version |-> f.version, aliases |-> spelt, notes |-> notes, extras |-> f.extras, rig |-> rig]
  <2>1. f = [version |-> f.version, aliases |-> f.aliases, notes |-> f.notes, extras |-> f.extras,
             rig |-> f.rig]
    BY DEF Files
  <2>2. f.rig = [bones |-> f.rig.bones, skeleton |-> f.rig.skeleton, extra |-> f.rig.extra]
    BY DEF Files
  <2>3. SetRig(f.rig, before, asset) = rig
    <3>1. PICK old : old = f.rig
      OBVIOUS
    <3>2. (IF asset.bones # before.bones THEN asset.bones ELSE old.bones) = asset.bones
      BY <1>1, <3>1
    <3>3. (IF asset.skeleton # before.skeleton THEN asset.skeleton ELSE old.skeleton) = old.skeleton
      BY <1>1, <3>1
    <3> HIDE DEF before, rig
    <3>4. SetRig(old, before, asset) = [old EXCEPT !.bones = asset.bones, !.skeleton = old.skeleton]
      BY <3>2, <3>3 DEF SetRig
    <3>5. old = [bones |-> old.bones, skeleton |-> old.skeleton, extra |-> old.extra]
      BY <2>2, <3>1
    <3> QED
      BY <3>1, <3>4, <3>5 DEF rig
  <2>4. g = [f EXCEPT !.aliases = spelt, !.notes = notes, !.rig = SetRig(f.rig, before, asset)]
    BY DEF Render
  <2> HIDE DEF g, spelt, notes, rig
  <2> QED
    BY <2>1, <2>3, <2>4
<1>3. spelt \in Lists /\ Range(Repaired[spelt]) = Range(asset.aliases)
      /\ (asset.aliases = before.aliases => spelt = f.aliases)
  <2>1. CASE asset.aliases = before.aliases
    BY <1>1, <2>1
  <2>2. CASE asset.aliases # before.aliases
    <3>1. spelt = SetAliases(f.aliases, asset.aliases)
      BY <2>2
    <3> HIDE DEF spelt
    <3>2. spelt \in Seq(Words) /\ Range(spelt) = Range(asset.aliases)
      BY <1>1, <3>1, AliasesSet
    <3>3. spelt \in Lists /\ Wrong(spelt) = {}
      BY <3>2, FilesAssumption DEF Lists, Wrong
    <3>4. Repaired[spelt] = spelt
      BY <3>3, RepairedParts
    <3> QED
      BY <2>2, <3>2, <3>3, <3>4
  <2> QED
    BY <2>1, <2>2
<1>4. /\ notes \in Seq(Nodes) /\ Distinct(notes)
      /\ \A i \in DOMAIN notes : notes[i].form # "nameless"
      /\ ReadOf(g).notes = asset.notes
      /\ asset.notes = before.notes => notes = f.notes
      /\ \A i \in DOMAIN f.notes :
            /\ f.notes[i].form = "commented"
            /\ [id |-> f.notes[i].id, says |-> f.notes[i].says] \in Range(asset.notes)
            => f.notes[i] \in Range(notes)
  <2>1. CASE asset.notes = before.notes
    <3>1. notes = f.notes
      BY <2>1
    <3>2. ReadOf(g).notes = ReadOf(f).notes
      <4> HIDE DEF g, spelt, notes, rig
      <4> QED
        BY <1>2, <3>1 DEF ReadOf
    <3>3. \A i \in DOMAIN f.notes : f.notes[i] \in Range(f.notes)
      BY DEF Range
    <3> HIDE DEF g, spelt, notes, rig
    <3> QED
      BY <1>1, <2>1, <3>1, <3>2, <3>3 DEF IsReadable
  <2>2. CASE asset.notes # before.notes
    <3>1. notes = SetNotes(f.notes, asset.notes)
      BY <2>2
    <3> HIDE DEF notes, spelt, rig
    <3>2. /\ notes \in Seq(Nodes) /\ DOMAIN notes = DOMAIN asset.notes
          /\ \A i \in DOMAIN asset.notes :
                /\ notes[i].id = asset.notes[i].id /\ notes[i].says = asset.notes[i].says
                /\ notes[i].form \in {"ours", "commented"}
                /\ \A j \in DOMAIN f.notes :
                      Distinct(f.notes) /\ Matches(f.notes[j], asset.notes[i]) => notes[i] = f.notes[j]
      BY <1>1, <3>1, NotesSet
    <3>3. Distinct(notes)
      BY <3>2 DEF Distinct
    <3>4. ReadOf(g).notes = [i \in DOMAIN notes |-> [id |-> notes[i].id, says |-> notes[i].says]]
      <4>1. g \in Files /\ g.notes = notes
        <5> HIDE DEF g
        <5> QED
          BY <1>1, <1>2, <1>3, <3>2 DEF Files, rig
      <4>2. \A i \in DOMAIN g.notes : Anchored(g.notes[i])
        BY <3>2, <4>1 DEF Anchored
      <4> HIDE DEF g
      <4> QED
        BY <4>1, <4>2, NotesRead
    <3>5. ReadOf(g).notes = asset.notes
      <4>1. \A i \in DOMAIN asset.notes : asset.notes[i] = [id |-> notes[i].id, says |-> notes[i].says]
        <5> SUFFICES ASSUME NEW i \in DOMAIN asset.notes
                     PROVE  asset.notes[i] = [id |-> notes[i].id, says |-> notes[i].says]
          OBVIOUS
        <5>1. PICK x : x = asset.notes[i]
          OBVIOUS
        <5>2. x \in Said
          BY <1>1, <5>1
        <5>3. x = [id |-> x.id, says |-> x.says]
          BY <5>2 DEF Said
        <5>4. notes[i].id = x.id /\ notes[i].says = x.says
          BY <3>2, <5>1
        <5> QED
          BY <5>1, <5>3, <5>4
      <4>2. asset.notes = [i \in DOMAIN asset.notes |-> asset.notes[i]]
        BY <1>1
      <4> QED
        BY <3>2, <3>4, <4>1, <4>2
    <3>6. ASSUME NEW i \in DOMAIN f.notes, f.notes[i].form = "commented",
                 [id |-> f.notes[i].id, says |-> f.notes[i].says] \in Range(asset.notes)
          PROVE  f.notes[i] \in Range(notes)
      <4>1. PICK k \in DOMAIN asset.notes :
               asset.notes[k] = [id |-> f.notes[i].id, says |-> f.notes[i].says]
        BY <3>6 DEF Range
      <4>2. Matches(f.notes[i], asset.notes[k])
        BY <3>6, <4>1 DEF Matches
      <4>3. notes[k] = f.notes[i] /\ k \in DOMAIN notes
        BY <3>2, <4>2
      <4> QED
        BY <4>3 DEF Range
    <3> HIDE DEF g
    <3> QED
      BY <2>2, <3>2, <3>3, <3>5, <3>6
  <2> QED
    BY <2>1, <2>2
<1>5. rig \in [bones : Figures, skeleton : Figures, extra : Extras \cup {"none"}]
      /\ (asset.bones = before.bones => rig = f.rig)
  <2>1. f.rig \in [bones : Figures, skeleton : Figures, extra : Extras \cup {"none"}]
    BY DEF Files
  <2> QED
    BY <1>1, <2>1
<1>6. /\ g.version = f.version /\ g.extras = f.extras
      /\ g.aliases = spelt /\ g.notes = notes /\ g.rig = rig
  <2> HIDE DEF g, spelt, notes, rig
  <2> QED
    BY <1>2
<1>7. g \in Files
  <2>1. f.version \in Nat /\ f.extras \in SUBSET Extras
    BY DEF Files
  <2> HIDE DEF g, spelt, notes, rig
  <2> QED
    BY <1>2, <1>3, <1>4, <1>5, <2>1 DEF Files
<1>8. IsReadable(g)
  <2> HIDE DEF g, spelt, notes, rig
  <2> QED
    BY <1>4, <1>6 DEF IsReadable
<1>9. /\ ReadOf(g).aliases = Repaired[spelt]
      /\ ReadOf(g).bones = rig.bones /\ ReadOf(g).skeleton = rig.skeleton
  <2> HIDE DEF g, spelt, notes, rig
  <2> QED
    BY <1>6 DEF ReadOf
<1>10. rig.bones = asset.bones /\ rig.skeleton = f.rig.skeleton /\ rig.extra = f.rig.extra
  OBVIOUS
<1>11. asset.skeleton = f.rig.skeleton
  BY <1>1
<1> HIDE DEF g, spelt, notes, rig
<1> QED
  BY <1>3, <1>4, <1>5, <1>6, <1>7, <1>8, <1>9, <1>10, <1>11 DEF g

\* An edit that proposes a reading keeps all of this.
LEMMA EditKeeps ==
    ASSUME FilesInv, NEW asset, Edit(asset), Proposed(asset)
    PROVE  FilesInv' /\ WrittenIsRead' /\ OnlyWhatChangedIsWritten
<1>1. /\ IsReadable(yaml) /\ yaml' = Render(yaml, asset) /\ meant' = {asset}
      /\ yaml \in Files /\ Distinct(yaml.notes)
      /\ asset \in Readings /\ Distinct(asset.notes) /\ asset.skeleton = ReadOf(yaml).skeleton
      /\ asset.aliases = ReadOf(yaml).aliases \/ Range(asset.aliases) # Range(ReadOf(yaml).aliases)
  BY DEF Edit, FilesInv, Proposed
<1>2. PICK f : f = yaml
  OBVIOUS
<1>3. PICK g : g = yaml'
  OBVIOUS
<1>4. /\ f \in Files /\ IsReadable(f) /\ Distinct(f.notes)
      /\ asset.skeleton = ReadOf(f).skeleton /\ g = Render(f, asset)
  BY <1>1, <1>2, <1>3
<1>5. /\ g \in Files /\ Distinct(g.notes) /\ IsReadable(g)
      /\ Range(ReadOf(g).aliases) = Range(asset.aliases)
      /\ ReadOf(g).notes = asset.notes
      /\ ReadOf(g).bones = asset.bones /\ ReadOf(g).skeleton = asset.skeleton
      /\ g.version = f.version /\ g.extras = f.extras
      /\ g.rig.extra = f.rig.extra /\ g.rig.skeleton = f.rig.skeleton
      /\ asset.bones = ReadOf(f).bones => g.rig = f.rig
      /\ asset.aliases = ReadOf(f).aliases => g.aliases = f.aliases
      /\ asset.notes = ReadOf(f).notes => g.notes = f.notes
      /\ \A i \in DOMAIN f.notes :
            /\ f.notes[i].form = "commented"
            /\ [id |-> f.notes[i].id, says |-> f.notes[i].says] \in Range(asset.notes)
            => f.notes[i] \in Range(g.notes)
  BY <1>1, <1>4, RenderReads
<1>6. FilesInv'
  BY <1>3, <1>5 DEF FilesInv
<1>7. WrittenIsRead'
  <2>1. ReadOf(g) \in Readings
    BY <1>5, ReadingIs
  <2>2. [ReadOf(g) EXCEPT !.aliases = <<>>] = [asset EXCEPT !.aliases = <<>>]
    <3>1. PICK r : r = ReadOf(g)
      OBVIOUS
    <3>2. /\ r \in Readings /\ asset \in Readings /\ r.notes = asset.notes
          /\ r.bones = asset.bones /\ r.skeleton = asset.skeleton
      BY <1>1, <1>5, <2>1, <3>1
    <3>3. [r EXCEPT !.aliases = <<>>] = [asset EXCEPT !.aliases = <<>>]
      BY <3>2 DEF Readings
    <3> QED
      BY <3>1, <3>3
  <2> QED
    BY <1>1, <1>3, <1>5, <2>2 DEF WrittenIsRead
<1>8. OnlyWhatChangedIsWritten
  <2>1. ReadOf(f).aliases = ReadOf(g).aliases => g.aliases = f.aliases
    BY <1>1, <1>2, <1>5
  <2>2. ReadOf(yaml) = ReadOf(f) /\ ReadOf(yaml') = ReadOf(g)
    BY <1>2, <1>3
  <2> QED
    BY <1>2, <1>3, <1>5, <2>1, <2>2 DEF OnlyWhatChangedIsWritten
<1> QED
  BY <1>6, <1>7, <1>8

\* Each operation proposes a reading: an alias that is new.
LEMMA AcceptAliasKeeps ==
    ASSUME FilesInv, NEW w \in Words, AcceptAlias(w)
    PROVE  FilesInv' /\ WrittenIsRead' /\ OnlyWhatChangedIsWritten
<1> DEFINE asset == [ReadOf(yaml) EXCEPT !.aliases = Append(@, w)]
<1>1. PICK r : r = ReadOf(yaml)
  OBVIOUS
<1>2. r \in Readings /\ Distinct(r.notes) /\ w \notin Range(r.aliases) /\ Edit(asset)
  BY <1>1, ReadingIs, NotesRead DEF AcceptAlias, FilesInv
<1>3. asset = [r EXCEPT !.aliases = Append(@, w)]
  BY <1>1
<1>4. r.aliases \in Seq(Words)
  BY <1>2 DEF Readings
<1> HIDE DEF asset
<1>5. asset.aliases = Append(r.aliases, w) /\ asset.notes = r.notes /\ asset.skeleton = r.skeleton
      /\ asset \in Readings
  <2>1. PICK longer : longer = Append(r.aliases, w)
    OBVIOUS
  <2>2. longer \in Seq(Words)
    BY <1>4, <2>1
  <2>3. asset = [r EXCEPT !.aliases = longer]
    BY <1>3, <2>1
  <2>4. asset.aliases = longer /\ asset.notes = r.notes /\ asset.skeleton = r.skeleton
        /\ asset \in Readings
    BY <1>2, <2>2, <2>3 DEF Readings
  <2> QED
    BY <2>1, <2>4
<1>6. w \in Range(asset.aliases)
  <2>1. Len(r.aliases) + 1 \in DOMAIN Append(r.aliases, w)
        /\ Append(r.aliases, w)[Len(r.aliases) + 1] = w
    BY <1>4
  <2> QED
    BY <1>5, <2>1 DEF Range
<1>7. Proposed(asset)
  BY <1>1, <1>2, <1>5, <1>6 DEF Proposed
<1> QED
  BY <1>2, <1>7, EditKeeps

\* An annotation that is new.
LEMMA AnnotateKeeps ==
    ASSUME FilesInv, NEW n \in Notes, NEW s \in Sayings, Annotate(n, s)
    PROVE  FilesInv' /\ WrittenIsRead' /\ OnlyWhatChangedIsWritten
<1> DEFINE asset == [ReadOf(yaml) EXCEPT !.notes = Append(@, [id |-> n, says |-> s])]
           entry == [id |-> n, says |-> s]
<1>1. PICK r : r = ReadOf(yaml)
  OBVIOUS
<1>2. r \in Readings /\ Distinct(r.notes) /\ Edit(asset)
  BY <1>1, ReadingIs, NotesRead DEF Annotate, FilesInv
<1>3. \A k \in DOMAIN r.notes : r.notes[k].id # n
  <2>1. n \notin {yaml.notes[i].id : i \in DOMAIN yaml.notes}
    BY DEF Annotate
  <2>2. \A k \in DOMAIN r.notes : \E i \in DOMAIN yaml.notes :
           r.notes[k] = [id |-> yaml.notes[i].id, says |-> yaml.notes[i].says]
    BY <1>1, NotesRead DEF FilesInv
  <2>3. ASSUME NEW k \in DOMAIN r.notes PROVE r.notes[k].id # n
    <3>1. PICK i \in DOMAIN yaml.notes :
             r.notes[k] = [id |-> yaml.notes[i].id, says |-> yaml.notes[i].says]
      BY <2>2
    <3>2. r.notes[k].id = yaml.notes[i].id
      BY <3>1
    <3> QED
      BY <2>1, <3>2
  <2> QED
    BY <2>3
<1>4. asset = [r EXCEPT !.notes = Append(@, entry)]
  BY <1>1
<1>5. r.notes \in Seq(Said) /\ entry \in Said
  BY <1>2 DEF Readings, Said
<1> HIDE DEF asset
<1>6. asset.notes = Append(r.notes, entry) /\ asset.aliases = r.aliases
      /\ asset.skeleton = r.skeleton /\ asset \in Readings
  <2>1. PICK longer : longer = Append(r.notes, entry)
    OBVIOUS
  <2>2. longer \in Seq(Said)
    BY <1>5, <2>1
  <2>3. asset = [r EXCEPT !.notes = longer]
    BY <1>4, <2>1
  <2>4. asset.notes = longer /\ asset.aliases = r.aliases /\ asset.skeleton = r.skeleton
        /\ asset \in Readings
    BY <1>2, <2>2, <2>3 DEF Readings
  <2> QED
    BY <2>1, <2>4
<1>7. Distinct(asset.notes)
  <2>1. entry.id = n
    OBVIOUS
  <2> HIDE DEF entry
  <2> QED
    BY <1>2, <1>3, <1>5, <1>6, <2>1 DEF Distinct
<1>8. Proposed(asset)
  BY <1>1, <1>6, <1>7 DEF Proposed
<1> QED
  BY <1>2, <1>8, EditKeeps

\* One that says something else.
LEMMA AmendKeeps ==
    ASSUME FilesInv, NEW i, NEW s \in Sayings, Amend(i, s)
    PROVE  FilesInv' /\ WrittenIsRead' /\ OnlyWhatChangedIsWritten
<1> DEFINE asset == [ReadOf(yaml) EXCEPT !.notes[i].says = s]
<1>1. PICK r : r = ReadOf(yaml)
  OBVIOUS
<1>2. r \in Readings /\ Distinct(r.notes) /\ Edit(asset) /\ i \in DOMAIN r.notes
  BY <1>1, ReadingIs, NotesRead DEF Amend, FilesInv
<1>3. asset = [r EXCEPT !.notes = [r.notes EXCEPT ![i] = [r.notes[i] EXCEPT !.says = s]]]
  BY <1>1
<1>4. r.notes \in Seq(Said) /\ r.notes[i] \in Said
  BY <1>2 DEF Readings
<1>5. PICK new : new = [r.notes[i] EXCEPT !.says = s]
  OBVIOUS
<1>6. new \in Said /\ new.id = r.notes[i].id
  BY <1>4, <1>5 DEF Said
<1> HIDE DEF asset
<1>7. /\ asset.notes = [r.notes EXCEPT ![i] = new] /\ asset.aliases = r.aliases
      /\ asset.skeleton = r.skeleton /\ asset.notes \in Seq(Said)
  BY <1>2, <1>3, <1>4, <1>5, <1>6 DEF Readings
<1>8. asset \in Readings
  BY <1>2, <1>3, <1>7 DEF Readings
<1>9. Distinct(asset.notes)
  BY <1>2, <1>4, <1>6, <1>7 DEF Distinct
<1>10. Proposed(asset)
  BY <1>1, <1>7, <1>8, <1>9 DEF Proposed
<1> QED
  BY <1>2, <1>10, EditKeeps

\* One fewer.
LEMMA WithdrawKeeps ==
    ASSUME FilesInv, NEW i, Withdraw(i)
    PROVE  FilesInv' /\ WrittenIsRead' /\ OnlyWhatChangedIsWritten
<1> DEFINE asset == [ReadOf(yaml) EXCEPT !.notes = Picked(@, DOMAIN @ \ {i})]
<1>1. PICK r : r = ReadOf(yaml)
  OBVIOUS
<1>2. r \in Readings /\ Distinct(r.notes) /\ Edit(asset)
  BY <1>1, ReadingIs, NotesRead DEF Withdraw, FilesInv
<1>3. asset = [r EXCEPT !.notes = Picked(r.notes, DOMAIN r.notes \ {i})]
  BY <1>1
<1>4. PICK notes : notes = r.notes
  OBVIOUS
<1>5. PICK at : at = DOMAIN notes \ {i}
  OBVIOUS
<1>6. notes \in Seq(Said) /\ at \subseteq DOMAIN notes
  BY <1>2, <1>4, <1>5 DEF Readings
<1>7. PICK left : left = Picked(notes, at)
  OBVIOUS
<1>8. /\ left \in Seq(Said)
      /\ DOMAIN left = 1..Cardinality(at)
      /\ \A k \in 1..Cardinality(at) : \E j \in at : Place(at, j) = k /\ left[k] = notes[j]
  BY <1>6, <1>7, PickedParts
<1> HIDE DEF asset
<1>9. asset.notes = left /\ asset.aliases = r.aliases /\ asset.skeleton = r.skeleton
      /\ asset \in Readings
  BY <1>2, <1>3, <1>4, <1>5, <1>7, <1>8 DEF Readings
<1>10. Distinct(left)
  <2> SUFFICES ASSUME NEW k \in DOMAIN left, NEW m \in DOMAIN left, left[k].id = left[m].id
               PROVE  k = m
    BY DEF Distinct
  <2>1. PICK j \in at : Place(at, j) = k /\ left[k] = notes[j]
    BY <1>8
  <2>2. PICK l \in at : Place(at, l) = m /\ left[m] = notes[l]
    BY <1>8
  <2>3. j = l
    BY <1>2, <1>4, <1>6, <2>1, <2>2 DEF Distinct
  <2> QED
    BY <2>1, <2>2, <2>3
<1>11. Proposed(asset)
  BY <1>1, <1>9, <1>10 DEF Proposed
<1> QED
  BY <1>2, <1>11, EditKeeps

\* A constraint decided.
LEMMA PromoteKeeps ==
    ASSUME FilesInv, NEW value \in Limits, Promote(value)
    PROVE  FilesInv' /\ WrittenIsRead' /\ OnlyWhatChangedIsWritten
<1> DEFINE asset == [ReadOf(yaml) EXCEPT !.bones = value]
<1>1. PICK r : r = ReadOf(yaml)
  OBVIOUS
<1>2. r \in Readings /\ Distinct(r.notes) /\ Edit(asset)
  BY <1>1, ReadingIs, NotesRead DEF Promote, FilesInv
<1>3. asset = [r EXCEPT !.bones = value]
  BY <1>1
<1> HIDE DEF asset
<1>4. asset.notes = r.notes /\ asset.aliases = r.aliases /\ asset.skeleton = r.skeleton
      /\ asset \in Readings
  BY <1>2, <1>3 DEF Readings, Figures
<1>5. Proposed(asset)
  BY <1>1, <1>2, <1>4 DEF Proposed
<1> QED
  BY <1>2, <1>5, EditKeeps

\* A person may write anything, an id twice excepted.
LEMMA ByHandKeeps ==
    ASSUME FilesInv, AliasByHand \/ NoteByHand \/ RigByHand \/ Upgrade
    PROVE  FilesInv' /\ WrittenIsRead' /\ OnlyWhatChangedIsWritten
<1>1. PICK f : f = yaml
  OBVIOUS
<1>2. f \in Files /\ Distinct(f.notes)
  BY <1>1 DEF FilesInv
<1>3. f.aliases \in Seq(Words \cup {Bad}) /\ f.notes \in Seq(Nodes)
  BY <1>2 DEF Files, Lists
<1>4. ASSUME NEW g, g \in Files, Distinct(g.notes), ByHand(g)
      PROVE  FilesInv' /\ WrittenIsRead' /\ OnlyWhatChangedIsWritten
  <2>1. yaml' = g /\ meant' = {}
    BY <1>4 DEF ByHand
  <2>2. FilesInv'
    BY <1>4, <2>1 DEF FilesInv
  <2>3. WrittenIsRead' /\ OnlyWhatChangedIsWritten
    BY <2>1 DEF WrittenIsRead, OnlyWhatChangedIsWritten
  <2> QED
    BY <2>2, <2>3
<1>5. CASE AliasByHand
  <2>1. PICK w \in Words \cup {Bad} : ByHand([f EXCEPT !.aliases = Append(@, w)])
    BY <1>1, <1>5 DEF AliasByHand
  <2>2. PICK g : g = [f EXCEPT !.aliases = Append(@, w)]
    OBVIOUS
  <2>3. g \in Files /\ g.notes = f.notes
    <3>1. PICK longer : longer = Append(f.aliases, w)
      OBVIOUS
    <3>2. longer \in Lists
      BY <1>3, <3>1 DEF Lists
    <3>3. g = [f EXCEPT !.aliases = longer]
      BY <2>2, <3>1
    <3> QED
      BY <1>2, <3>2, <3>3 DEF Files
  <2> QED
    BY <1>2, <1>4, <2>1, <2>2, <2>3
<1>6. CASE NoteByHand
  <2>1. PICK n \in Notes \ {f.notes[i].id : i \in DOMAIN f.notes}, s \in Sayings, form \in Forms :
          ByHand([f EXCEPT !.notes = Append(@, [id |-> n, says |-> s, form |-> form])])
    BY <1>1, <1>6 DEF NoteByHand
  <2>2. PICK node : node = [id |-> n, says |-> s, form |-> form]
    OBVIOUS
  <2>3. PICK g : g = [f EXCEPT !.notes = Append(@, node)]
    OBVIOUS
  <2>4. node \in Nodes /\ node.id = n
    BY <2>2 DEF Nodes
  <2>5. g \in Files /\ g.notes = Append(f.notes, node)
    <3>1. PICK longer : longer = Append(f.notes, node)
      OBVIOUS
    <3>2. longer \in Seq(Nodes)
      BY <1>3, <2>4, <3>1
    <3>3. g = [f EXCEPT !.notes = longer]
      BY <2>3, <3>1
    <3>4. g \in Files /\ g.notes = longer
      BY <1>2, <3>2, <3>3 DEF Files
    <3> QED
      BY <3>1, <3>4
  <2>6. Distinct(g.notes)
    BY <1>2, <1>3, <2>4, <2>5 DEF Distinct
  <2> QED
    BY <1>4, <2>1, <2>2, <2>3, <2>5, <2>6
<1>7. CASE RigByHand
  <2>1. PICK v \in Limits, x \in Extras :
          ByHand([f EXCEPT !.rig = [bones |-> v, skeleton |-> v, extra |-> x]])
    BY <1>1, <1>7 DEF RigByHand
  <2>2. PICK rig : rig = [bones |-> v, skeleton |-> v, extra |-> x]
    OBVIOUS
  <2>3. PICK g : g = [f EXCEPT !.rig = rig]
    OBVIOUS
  <2>4. rig \in [bones : Figures, skeleton : Figures, extra : Extras \cup {"none"}]
    BY <2>2 DEF Figures
  <2>5. g \in Files /\ g.notes = f.notes
    BY <1>2, <2>3, <2>4 DEF Files
  <2> QED
    BY <1>2, <1>4, <2>1, <2>2, <2>3, <2>5
<1>8. CASE Upgrade
  <2>1. PICK x \in Extras : ByHand([f EXCEPT !.version = 2, !.extras = {x}])
    BY <1>1, <1>8 DEF Upgrade
  <2>2. PICK g : g = [f EXCEPT !.version = 2, !.extras = {x}]
    OBVIOUS
  <2>3. g \in Files /\ g.notes = f.notes
    BY <1>2, <2>2 DEF Files
  <2> QED
    BY <1>2, <1>4, <2>1, <2>2, <2>3
<1> QED
  BY <1>5, <1>6, <1>7, <1>8

\* However a yaml is written by hand and edited: what an edit writes is read back,
\* one bad entry costs the reader itself alone, and an edit leaves alone what it is
\* not about (schema.py, writer.py).
THEOREM FilesStayKept == FilesSpec => FilesAreKept
<1>1. FilesInit => FilesInv
  <2> SUFFICES ASSUME FilesInit PROVE FilesInv
    OBVIOUS
  <2>1. <<>> \in Lists /\ <<>> \in Seq(Nodes) /\ {} \in SUBSET Extras /\ {} \in Figures /\ 1 \in Nat
    BY DEF Lists, Figures
  <2>2. PICK rig : rig = [bones |-> {}, skeleton |-> {}, extra |-> "none"]
    OBVIOUS
  <2>3. rig \in [bones : Figures, skeleton : Figures, extra : Extras \cup {"none"}]
    BY <2>1, <2>2
  <2>4. yaml = [version |-> 1, aliases |-> <<>>, notes |-> <<>>, extras |-> {}, rig |-> rig]
    BY <2>2 DEF FilesInit
  <2>5. yaml \in Files
    BY <2>1, <2>3, <2>4 DEF Files
  <2>6. Distinct(yaml.notes)
    BY <2>4 DEF Distinct
  <2> QED
    BY <2>5, <2>6 DEF FilesInv
<1>2. FilesInv /\ [FilesNext]_fileVars => FilesInv'
  <2> SUFFICES ASSUME FilesInv, [FilesNext]_fileVars PROVE FilesInv'
    OBVIOUS
  <2>1. CASE UNCHANGED fileVars
    BY <2>1 DEF fileVars, FilesInv
  <2> QED
    BY <2>1, AcceptAliasKeeps, AnnotateKeeps, AmendKeeps, WithdrawKeeps, PromoteKeeps, ByHandKeeps,
       Zenon DEF FilesNext
<1>3. FilesInv /\ FilesNext => WrittenIsRead' /\ OnlyWhatChangedIsWritten
  BY AcceptAliasKeeps, AnnotateKeeps, AmendKeeps, WithdrawKeeps, PromoteKeeps, ByHandKeeps,
     Zenon DEF FilesNext
<1>4. FilesInv => OneBadEntryCostsItself
  BY OneBadEntry DEF FilesInv, Files
<1>5. FilesInv /\ FilesInv' /\ [FilesNext]_fileVars
         => [WrittenIsRead' /\ OneBadEntryCostsItself' /\ OnlyWhatChangedIsWritten]_fileVars
  <2> SUFFICES ASSUME FilesInv, FilesInv', FilesNext
               PROVE  WrittenIsRead' /\ OneBadEntryCostsItself' /\ OnlyWhatChangedIsWritten
    OBVIOUS
  <2>1. OneBadEntryCostsItself'
    BY <1>4, PTL
  <2> QED
    BY <1>3, <2>1
<1> QED
  BY <1>1, <1>2, <1>5, PTL DEF FilesSpec, FilesAreKept

=============================================================================
