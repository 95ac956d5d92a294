----------------------------- MODULE Identities -----------------------------
(***************************************************************************)
(* Who somebody is taken to be: claims of a verified token made into an    *)
(* actor; a request authenticated by its own token; the local server,      *)
(* which read the machine's credential once and falls back to what it last *)
(* resolved.  Keys are had or not at any moment (KeyCache).  Ages stop at   *)
(* Long.                                                                   *)
(***************************************************************************)
EXTENDS Integers, Policy

\* Subjects that are no client's: those begin with "client:".
Person == "ana"
LocalId == "local"

CONSTANTS
    Clients, ServiceClients,    \* services, and those this deployment admits
    App, Organisation,          \* client_id and organisation of the deployment
    GroupRoles,     \* [group keys -> roles]
    Holdings,       \* what the issuer may say of the person: [roles, orgs, org]
    Life,           \* how long a token is accepted, leeway included
    CacheTtl        \* DEFAULT_TTL_SECONDS

ASSUME IdentitiesAssumption ==
    /\ ServiceClients \subseteq Clients /\ Clients \cap {Person, LocalId} = {}
    /\ Life \in Nat /\ CacheTtl \in Nat
    /\ \A h \in Holdings : DOMAIN h = {"roles", "orgs", "org"}

VARIABLES
    holding,    \* what the issuer holds of the person
    since,      \* [{"role", "member"} -> Ages]: since when it does not
    stored,     \* the token a browser or a machine keeps: a set of at most one
    server,     \* the local server: [credential, entry], or empty when it is off
    said,       \* what somebody was just taken for
    attributed  \* whom background work was last recorded under, and is remembered as

identityVars == <<holding, since, stored, server, said, attributed>>

Project == "p"
Long == Life + CacheTtl + 1
Ages == 0..Long
Older(age) == IF age = Long THEN Long ELSE age + 1

-----------------------------------------------------------------------------
(* From claims to an actor. *)

\* Mutant of HeldBy: another application's keys count as this one's.
HeldAnywhere(claims) == {r.key : r \in {x \in claims.roles : x.app \in STRING}}

\* held_by: this application's keys among the roles the claims list.
HeldBy(claims) == {r.key : r \in {x \in claims.roles : x.app = App}}

RolesFrom(keys) == {GroupRoles[k] : k \in keys \cap DOMAIN GroupRoles}

\* Mutant of Admits: belonging to the organisation is enough.
AdmitsMembers(claims) == Organisation \in claims.orgs

Admits(claims) == Organisation \in claims.orgs /\ HeldBy(claims) # {}

TenantOf(claims) == IF Admits(claims) THEN Organisation ELSE claims.org

PersonIn(claims) ==
    {[id |-> claims.sub, kind |-> "person", roles |-> RolesFrom(HeldBy(claims)),
      projects |-> IF Admits(claims) THEN {Project} ELSE {}, tenant |-> TenantOf(claims)] :
        x \in {y \in {claims} : y.described}}

\* Mutant of ClientIn: the claim alone names the client.
ClientClaimed(claims) ==
    IF claims.claimed = "absent" THEN {claims.sub} ELSE {claims.claimed}

\* client_in: the client a subject names; a claim beside it must say the same.
ClientIn(claims) ==
    IF claims.prefixed /\ claims.claimed \in {"absent", claims.sub} THEN {claims.sub} ELSE {}

AutomationIn(claims) ==
    {[id |-> claims.sub, kind |-> "automation", roles |-> {}, projects |-> {Project},
      tenant |-> None] : c \in ClientIn(claims) \cap ServiceClients}

\* actor_from: at most one actor; none when the claims describe nobody.
ActorFrom(claims) ==
    CASE claims.type = "access" -> PersonIn(claims)
      [] claims.type = "service" -> AutomationIn(claims)
      [] OTHER -> {}

\* Mutant of Verified: a token's validity period is not looked at.
VerifiedAlways(token) == IF token.age <= Long THEN ActorFrom(token.claims) ELSE {}

\* CyberdyneAuth.resolve, once the keys are had.
Verified(token) == IF token.age <= Life THEN ActorFrom(token.claims) ELSE {}

\* What a provider may answer of a credential: an actor, or an exception.
Heard(tokens) == {{}} \cup {Verified(t) : t \in tokens}

-----------------------------------------------------------------------------
(* The issuer, the browser and the machine. *)

Issued(type, described) ==
    [claims |-> [type |-> type, sub |-> Person, prefixed |-> FALSE, claimed |-> "absent",
                 described |-> described, roles |-> IF described THEN holding.roles ELSE {},
                 orgs |-> holding.orgs, org |-> holding.org],
     age |-> 0]

\* What a service's credential says of its client: in its subject, and beside it.
Services == [sub : Clients, prefixed : BOOLEAN, claimed : Clients \cup {"absent", ""}]

ServiceToken(s) ==
    [claims |-> [type |-> "service", sub |-> s.sub, prefixed |-> s.prefixed,
                 claimed |-> s.claimed, described |-> FALSE, roles |-> {}, orgs |-> {}, org |-> None],
     age |-> 0]

\* What else may be presented: an identity token, an access token without roles, a
\* service's credential.
Others ==
    {Issued("id", TRUE), Issued("access", FALSE)} \cup {ServiceToken(s) : s \in Services}

Directs(h) ==
    \E r \in h.roles :
        r.app = App /\ r.key \in DOMAIN GroupRoles /\ GroupRoles[r.key] = "ART_DIRECTOR"
Belongs(h) == Organisation \in h.orgs /\ \E r \in h.roles : r.app = App

Lapsed(h, ages) ==
    [ages EXCEPT !.role = IF Directs(h) THEN 0 ELSE @, !.member = IF Belongs(h) THEN 0 ELSE @]

Administer ==
    /\ holding' \in Holdings \ {holding}
    /\ since' = Lapsed(holding', since)
    /\ UNCHANGED <<stored, server, said, attributed>>

\* A browser's sign-in, or `canon login`.
SignIn ==
    /\ stored' = {Issued("access", TRUE)}
    /\ said' = {}
    /\ UNCHANGED <<holding, since, server, attributed>>

SignOut ==
    /\ stored # {}
    /\ stored' = {}
    /\ UNCHANGED <<holding, since, server, said, attributed>>

-----------------------------------------------------------------------------
(* Taking somebody for somebody. *)

\* authenticate: a request is its own token's, or nobody's.
Authenticate ==
    /\ \E tokens \in {stored} \cup {{t} : t \in Others} : \E heard \in Heard(tokens) :
           said' = {[actor |-> a, verified |-> TRUE, source |-> "request"] : a \in heard}
    /\ UNCHANGED <<holding, since, stored, server, attributed>>

\* writing_resolver: the credential is read once, when the server starts.
StartServer ==
    /\ server = {}
    /\ server' = {[credential |-> stored, entry |-> {}]}
    /\ UNCHANGED <<holding, since, stored, said, attributed>>

StopServer ==
    /\ server # {}
    /\ server' = {}
    /\ said' = {}
    /\ UNCHANGED <<holding, since, stored, attributed>>

LocalActor ==
    [id |-> LocalId, kind |-> "local", roles |-> {}, projects |-> {Project}, tenant |-> None]

\* IdentityCache.is_fresh
IsFresh(entry) == entry.age <= CacheTtl

\* Mutant of FromCache: what was resolved once is vouched for.
FromCacheVerified(entry) == [actor |-> entry.actor, verified |-> TRUE, source |-> "cache"]

FromCache(entry) == [actor |-> entry.actor, verified |-> IsFresh(entry), source |-> "cache"]

\* Mutant of Asked: the machine's credential is read for every answer.
AskedAgain(s) == IF s = {} THEN {} ELSE stored

Asked(s) == UNION {x.credential : x \in s}

\* ActorResolver.resolve: the provider, what it last said, or nobody in particular.
Resolve ==
    /\ \E s \in server, heard \in Heard(Asked(server)) :
           LET entries == IF heard = {} THEN s.entry ELSE {[actor |-> a, age |-> 0] : a \in heard}
           IN  /\ server' = {[s EXCEPT !.entry = entries]}
               /\ said' = CASE heard # {} ->
                                   {[actor |-> a, verified |-> TRUE, source |-> "provider"] :
                                        a \in heard}
                            [] heard = {} /\ s.entry # {} -> {FromCache(e) : e \in s.entry}
                            [] OTHER -> {[actor |-> LocalActor, verified |-> FALSE,
                                          source |-> "local"]}
    /\ UNCHANGED <<holding, since, stored, attributed>>

\* background_identity: the first subject that is automation's is kept; until then, a default.
AttributeBackground ==
    /\ \E s \in {x \in Services : x.prefixed /\ x.claimed = "absent"}, heard \in BOOLEAN :
           LET actors == IF heard THEN ActorFrom(ServiceToken(s).claims) ELSE {}
               subject == IF attributed.remembered # {} THEN attributed.remembered
                          ELSE {a.id : a \in {x \in actors : x.kind = "automation"}}
           IN  attributed' = [to |-> subject, remembered |-> subject]
    /\ UNCHANGED <<holding, since, stored, server, said>>

-----------------------------------------------------------------------------
IdentitiesTick ==
    /\ since' = Lapsed(holding, [w \in {"role", "member"} |-> Older(since[w])])
    /\ stored' = {[t EXCEPT !.age = Older(@)] : t \in stored}
    /\ server' = {[credential |-> {[t EXCEPT !.age = Older(@)] : t \in s.credential},
                   entry |-> {[e EXCEPT !.age = Older(@)] : e \in s.entry}] : s \in server}
    /\ said' = {}
    /\ UNCHANGED <<holding, attributed>>

IdentitiesInit ==
    /\ holding \in Holdings
    /\ since = Lapsed(holding, [w \in {"role", "member"} |-> Long])
    /\ stored = {} /\ server = {} /\ said = {}
    /\ attributed = [to |-> {}, remembered |-> {}]

IdentitiesNext ==
    \/ Administer \/ SignIn \/ SignOut
    \/ Authenticate \/ StartServer \/ StopServer \/ Resolve
    \/ AttributeBackground \/ IdentitiesTick

IdentitiesSpec == IdentitiesInit /\ [][IdentitiesNext]_identityVars

-----------------------------------------------------------------------------
Tokens == [claims : [type : {"access", "id", "service"}, sub : Clients \cup {Person},
                     prefixed : BOOLEAN, claimed : Clients \cup {"absent", ""},
                     described : BOOLEAN, roles : SUBSET UNION {h.roles : h \in Holdings},
                     orgs : SUBSET UNION {h.orgs : h \in Holdings},
                     org : {h.org : h \in Holdings} \cup {None}],
           age : Ages]

\* The server's identity is the credential's it was started with: what it last
\* resolved is the person that credential names, whoever has signed in since.
IdentitiesTypeOK ==
    /\ holding \in Holdings /\ since \in [{"role", "member"} -> Ages]
    /\ stored \subseteq Tokens
    /\ \A s \in server : \A e \in s.entry :
           e.age \in Ages /\ \E t \in s.credential : e.actor.id = t.claims.sub
    /\ attributed.to = attributed.remembered \/ attributed.remembered = {}

\* A role is not exercised on a word the issuer has taken back: over HTTP no longer
\* than the token lives, and at the local server no longer than that and the time
\* its cache vouches for what it resolved.
RolesLapse ==
    \A r \in said :
        MayActInRole(r, "ART_DIRECTOR") =>
            since.role <= Life + (IF r.source = "cache" THEN CacheTtl ELSE 0)

\* Whoever is let into the project belongs to the organisation and holds a role of
\* this application there, or did so within the life of the token presented.
MembersOnly ==
    \A r \in said :
        r.source = "request" /\ r.actor.kind = "person" /\ Project \in r.actor.projects =>
            since.member <= Life

\* Automation is a client this deployment lists, it holds no role, and background
\* work is never recorded under anybody else.
AutomationIsListed ==
    /\ \A r \in said :
           r.actor.kind = "automation" => r.actor.id \in ServiceClients /\ r.actor.roles = {}
    /\ \A r \in said : r.actor.id \in Clients => r.actor.kind = "automation"
    /\ attributed.to \subseteq ServiceClients

\* A caller is taken for what the issuer said of late, and no more.
IdentitiesLapse ==
    /\ IdentitiesTypeOK
    /\ RolesLapse
    /\ MembersOnly
    /\ AutomationIsListed

=============================================================================
