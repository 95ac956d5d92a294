---------------------------- MODULE SessionTabs ----------------------------
(***************************************************************************)
(* A person's session in the tabs of one browser, renewed by spending a    *)
(* refresh token the issuer rotates.  Renewals hold one lock; what a       *)
(* renewal brought is announced to the other tabs, by a channel that is    *)
(* not the lock.  An access token's age is fresh, due or lapsed.           *)
(***************************************************************************)
EXTENDS Naturals, Sequences

CONSTANTS
    Tabs, Persons, Absent,
    MaxTokens,      \* rotations before the issuer ends the session
    MaxReloads,     \* reloads and duplications of tabs
    Patient         \* nobody signs in or out while their tab is renewing

ASSUME TabsAssumption ==
    /\ MaxTokens \in Nat /\ MaxReloads \in Nat /\ Patient \in BOOLEAN
    /\ Absent \notin Tabs /\ Absent \notin Persons /\ Absent \notin 1..MaxTokens

VARIABLES
    tab,        \* each tab's SessionStore and SessionRenewal
    lock,       \* the tab that holds the Web Lock
    news,       \* announcements on their way to each tab: [spent, token]
    issuer,     \* [next, valid, gone]: gone is what it ended, or answered unheard
    owner,      \* whose session each token renews
    person,     \* who last signed in, and has not signed out, in each tab
    reloads

tabVars == <<tab, lock, news, issuer, owner, person, reloads>>

Tokens == 1..MaxTokens
NoFlight == [stage |-> "none", token |-> Absent, answer |-> "none", then |-> "rest"]
Anonymous == [kind |-> "anonymous", who |-> Absent, token |-> Absent, age |-> "fresh",
              timer |-> "none", flight |-> NoFlight]

TabsTypeOK ==
    /\ \A t \in Tabs :
          /\ tab[t].kind \in {"anonymous", "active", "expired"}
          /\ (tab[t].kind = "anonymous") <=> (tab[t].who = Absent)
          /\ tab[t].kind = "anonymous" => tab[t].token = Absent
          /\ tab[t].timer # "none" => tab[t].token # Absent
          /\ (tab[t].flight.stage \in {"asking", "answered"}) <=> (lock = t)
    /\ lock \in Tabs \cup {Absent}
    /\ issuer.valid \cap issuer.gone = {}

TabsInit ==
    /\ tab = [t \in Tabs |-> Anonymous]
    /\ lock = Absent /\ news = [t \in Tabs |-> <<>>]
    /\ issuer = [next |-> 1, valid |-> {}, gone |-> {}]
    /\ owner = [k \in Tokens |-> Absent]
    /\ person = [t \in Tabs |-> Absent]
    /\ reloads = 0

-----------------------------------------------------------------------------
\* Mutant of Planned: a session with nothing to renew it is planned for too.
PlannedAnyway(s) == [s EXCEPT !.timer = IF s.kind = "expired" THEN "retry" ELSE "lead"]

\* #plan and #delayFor: on every session the store moves to.
Planned(s) ==
    [s EXCEPT !.timer = IF s.token = Absent THEN "none"
                        ELSE IF s.kind = "expired" THEN "retry" ELSE "lead"]

\* Mutant of RetryLater: an unanswered renewal plans nothing.
RetryNever(s) == [s EXCEPT !.timer = "none"]

\* #retryLater
RetryLater(s) == [s EXCEPT !.timer = IF s.token = Absent THEN "none" ELSE "retry"]

\* signIn, renew: whatever the session was.
Active(s, p, k) ==
    Planned([s EXCEPT !.kind = "active", !.who = p, !.token = k, !.age = "fresh"])

\* #expiredOrAnonymous
Expired(s) ==
    Planned([s EXCEPT !.kind = IF s.who = Absent THEN "anonymous" ELSE "expired"])

\* revoke
Revoked(s) == Expired([s EXCEPT !.token = Absent])

\* renewalDue
Due(s) == s.token # Absent /\ (s.kind = "expired" \/ (s.kind = "active" /\ s.age # "fresh"))

\* #run, unless a renewal is in flight.
Run(s, then) ==
    IF s.flight.stage # "none" THEN [s EXCEPT !.flight.then = IF then = "rest" THEN @ ELSE then]
    ELSE IF s.token = Absent THEN s
    ELSE [s EXCEPT !.flight = [NoFlight EXCEPT !.stage = "queued", !.token = s.token,
                                               !.then = then]]

\* ensureFresh
EnsureFresh(s) == IF s.flight.stage = "none" /\ ~Due(s) THEN s ELSE Run(s, "rest")

Set(t, s) == tab' = [tab EXCEPT ![t] = s]

\* signIn: a credential with a refresh token, or without one.
SignIn(t, p, renewable) ==
    /\ Patient => tab[t].flight.stage = "none"
    /\ renewable => issuer.next <= MaxTokens
    /\ LET k == IF renewable THEN issuer.next ELSE Absent
       IN  /\ Set(t, Active(tab[t], p, k))
           /\ issuer' = IF renewable
                        THEN [issuer EXCEPT !.next = @ + 1, !.valid = @ \cup {k}]
                        ELSE issuer
           /\ owner' = IF renewable THEN [owner EXCEPT ![k] = p] ELSE owner
    /\ person' = [person EXCEPT ![t] = p]
    /\ UNCHANGED <<lock, news, reloads>>

\* signOut
SignOut(t) ==
    /\ tab[t].kind # "anonymous"
    /\ Patient => tab[t].flight.stage = "none"
    /\ Set(t, [Anonymous EXCEPT !.flight = tab[t].flight])
    /\ person' = [person EXCEPT ![t] = Absent]
    /\ UNCHANGED <<lock, news, issuer, owner, reloads>>

\* The access token grows old.
Age(t) ==
    /\ tab[t].kind = "active" /\ tab[t].age # "lapsed"
    /\ Set(t, [tab[t] EXCEPT !.age = IF @ = "fresh" THEN "due" ELSE "lapsed"])
    /\ UNCHANGED <<lock, news, issuer, owner, person, reloads>>

\* The timer fires, no sooner than planned.
Fire(t) ==
    /\ \/ tab[t].timer = "retry"
       \/ tab[t].timer = "lead" /\ tab[t].age # "fresh"
    /\ Set(t, EnsureFresh([tab[t] EXCEPT !.timer = "none"]))
    /\ UNCHANGED <<lock, news, issuer, owner, person, reloads>>

\* +layout's load: before the frame reads anything.
Visit(t) ==
    /\ Set(t, EnsureFresh(tab[t]))
    /\ UNCHANGED <<lock, news, issuer, owner, person, reloads>>

\* A write is refused: renewNow, and expire when that did not help.
ApiRefuses(t) ==
    /\ tab[t].kind = "active"
    /\ Set(t, IF tab[t].flight.stage = "none" /\ tab[t].token = Absent
              THEN (IF tab[t].age = "lapsed" THEN Revoked(tab[t]) ELSE tab[t])
              ELSE Run(tab[t], "expire"))
    /\ UNCHANGED <<lock, news, issuer, owner, person, reloads>>

\* renewNow's caller, once the renewal is over.
Landed(s) ==
    LET rest == [s EXCEPT !.flight = NoFlight]
        authenticated == s.kind = "active" /\ s.age # "lapsed"
    IN  IF s.flight.then = "expire" /\ ~authenticated THEN Expired(rest) ELSE rest

\* exclusive, and the first line of #renew.
Acquire(t) ==
    /\ tab[t].flight.stage = "queued" /\ lock = Absent
    /\ IF tab[t].token # tab[t].flight.token
       THEN Set(t, Landed(tab[t])) /\ UNCHANGED lock
       ELSE Set(t, [tab[t] EXCEPT !.flight.stage = "asking"]) /\ lock' = t
    /\ UNCHANGED <<news, issuer, owner, person, reloads>>

Answered(t, kind, k) ==
    Set(t, [tab[t] EXCEPT !.flight = [@ EXCEPT !.stage = "answered", !.answer = kind,
                                               !.token = k]])

\* refreshSession: the issuer rotates a token it knows, and the answer may be
\* lost on its way; it refuses any other.
Renewed(t, heard) ==
    LET k == tab[t].flight.token
        n == issuer.next
    IN  /\ tab[t].flight.stage = "asking" /\ k \in issuer.valid /\ n <= MaxTokens
        /\ issuer' = [issuer EXCEPT !.next = n + 1, !.valid = (@ \ {k}) \cup {n},
                                    !.gone = IF heard THEN @ ELSE @ \cup {k}]
        /\ owner' = [owner EXCEPT ![n] = owner[k]]
        /\ IF heard THEN Answered(t, "renewed", n) ELSE Answered(t, "unavailable", Absent)
        /\ UNCHANGED <<lock, news, person, reloads>>

Refused(t) ==
    LET k == tab[t].flight.token
    IN  /\ tab[t].flight.stage = "asking"
        /\ k \notin issuer.valid \/ issuer.next > MaxTokens
        /\ Answered(t, "refused", Absent)
        /\ issuer' = [issuer EXCEPT !.valid = @ \ {k}, !.gone = @ \cup ({k} \cap issuer.valid)]
        /\ UNCHANGED <<lock, news, owner, person, reloads>>

Unanswered(t) ==
    /\ tab[t].flight.stage = "asking"
    /\ Answered(t, "unavailable", Absent)
    /\ UNCHANGED <<lock, news, issuer, owner, person, reloads>>

\* #renew, after the await: what it held when it asked is not looked at again.
Settle(t) ==
    LET s == tab[t]
    IN  /\ s.flight.stage = "answered"
        /\ Set(t, Landed(CASE s.flight.answer = "renewed" ->
                                Active(s, owner[s.flight.token], s.flight.token)
                           [] s.flight.answer = "refused" -> Revoked(s)
                           [] s.flight.answer = "unavailable" -> RetryLater(s)))
        /\ news' = [u \in Tabs |->
              IF s.flight.answer = "renewed" /\ u # t
              THEN Append(news[u], [spent |-> s.token, token |-> s.flight.token])
              ELSE news[u]]
        /\ lock' = Absent
        /\ UNCHANGED <<issuer, owner, person, reloads>>

\* Mutant of Adopts: any announcement is adopted by a tab with a session.
AdoptsAny(s, spent) == s.kind # "anonymous"

\* Mutant of Adopts: none is.
AdoptsNone(s, spent) == FALSE

\* #adopt: by a tab that holds the token that was spent.
Adopts(s, spent) == s.token = spent

Hear(t) ==
    /\ news[t] # <<>>
    /\ news' = [news EXCEPT ![t] = Tail(@)]
    /\ LET m == Head(news[t])
       IN  Set(t, IF Adopts(tab[t], m.spent) THEN Active(tab[t], owner[m.token], m.token)
                                             ELSE tab[t])
    /\ UNCHANGED <<lock, issuer, owner, person, reloads>>

\* #restored, and watch: what a page finds in its session storage.
Restored(s) ==
    Planned([s EXCEPT !.kind = IF @ = "active" /\ s.age = "lapsed" THEN "expired" ELSE
                               IF s.token = Absent /\ @ = "expired" THEN "anonymous" ELSE @,
                      !.who = IF s.token = Absent /\ s.kind = "expired" THEN Absent ELSE @,
                      !.flight = NoFlight])

\* Tab u becomes a page that starts with what t's storage holds: t reloaded, or
\* duplicated into u while t knows the last token.  What u awaited is lost.
Reopen(t, u) ==
    LET gone == tab[u].flight
        k == tab[u].token
    IN  /\ reloads < MaxReloads
        /\ t # u => tab[t].token \in issuer.valid \cup {Absent}
        /\ Set(u, Restored(tab[t]))
        /\ person' = [person EXCEPT ![u] = person[t]]
        /\ lock' = IF lock = u THEN Absent ELSE lock
        /\ issuer' = IF gone.answer = "renewed" THEN [issuer EXCEPT !.gone = @ \cup {k}]
                                                ELSE issuer
        /\ news' = IF t = u THEN news ELSE [news EXCEPT ![u] = <<>>]
        /\ reloads' = reloads + 1
        /\ UNCHANGED owner

\* The issuer ends a session of its own accord.
EndSession(k) ==
    /\ k \in issuer.valid
    /\ issuer' = [issuer EXCEPT !.valid = @ \ {k}, !.gone = @ \cup {k}]
    /\ UNCHANGED <<tab, lock, news, owner, person, reloads>>

TabsNext ==
    \/ \E t \in Tabs :
          \/ \E p \in Persons, renewable \in BOOLEAN : SignIn(t, p, renewable)
          \/ SignOut(t) \/ Age(t) \/ Fire(t) \/ Visit(t) \/ Hear(t) \/ ApiRefuses(t)
          \/ Acquire(t) \/ Refused(t) \/ Unanswered(t) \/ Settle(t)
          \/ \E heard \in BOOLEAN : Renewed(t, heard)
          \/ \E u \in Tabs : Reopen(t, u)
    \/ \E k \in Tokens : EndSession(k)

TabsSpec == TabsInit /\ [][TabsNext]_tabVars

-----------------------------------------------------------------------------
\* "two concurrent renewals would spend the same one twice, and the second would
\* be refused": a tab holds the token the issuer will take, or the announcement
\* of its successor is under way, or it is about to store that itself - unless
\* the issuer ended the session or its answer was lost.
HeldTokensAreLive ==
    \A t \in Tabs :
        LET k == tab[t].token
        IN  k # Absent =>
            \/ k \in issuer.valid \cup issuer.gone
            \/ \E i \in DOMAIN news[t] : news[t][i].spent = k
            \/ \E u \in Tabs : /\ tab[u].flight.answer = "renewed" /\ tab[u].token = k

\* A tab acts as the person who signed in there, whoever else signs in, renews
\* and is announced in the tabs beside it.
OwnCredential ==
    \A t \in Tabs : /\ tab[t].who \in {person[t], Absent}
                    /\ tab[t].token # Absent => owner[tab[t].token] = person[t]

\* "an outage that ends does not leave the session to lapse with nothing
\* retrying": a session that has lapsed and could be renewed has a timer set, or
\* a renewal in flight.
LapsesAreRetried ==
    \A t \in Tabs :
        tab[t].kind = "expired" /\ tab[t].token # Absent
            => tab[t].timer # "none" \/ tab[t].flight.stage # "none"

\* Tabs that share a browser hold live tokens of their own person.
TabsStaySignedIn ==
    /\ TabsTypeOK
    /\ HeldTokensAreLive
    /\ OwnCredential
    /\ LapsesAreRetried

=============================================================================
