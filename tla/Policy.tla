------------------------------- MODULE Policy -------------------------------
(***************************************************************************)
(* The operation matrix: who may do what to which subject.  An actor is    *)
(* who the identity provider says somebody is; a subject is what the       *)
(* operation is performed on, already resolved.                            *)
(***************************************************************************)

None == "none"

ReadOnly ==
    {"read_project", "search_assets", "lookup_asset", "compile_spec", "validate_export"}

ByAnyone == {"create_annotation", "reply_in_thread", "raise_request"}
ByAuthor == {"edit_contribution", "withdraw_contribution", "move_annotation"}
ByAuthorOrOwner == {"resolve_issue", "reopen_issue"}
ByOwner == {"accept_suggested_alias", "transition_asset_status"}
ByAssigneeOrOwner == {"decide_request"}
ByDirector == {"promote_to_rule"}

Mutating ==
    ByAnyone \cup ByAuthor \cup ByAuthorOrOwner \cup ByOwner \cup ByAssigneeOrOwner
        \cup ByDirector

\* The operations no automated caller may perform.
HumanOnly == ByDirector \cup ByOwner \cup ByAssigneeOrOwner \cup ByAuthorOrOwner

Operations == ReadOnly \cup Mutating

\* tenants_agree: a project that names no tenant asks no tenancy question.
TenantsAgree(tenant, subject) == subject.tenant = None \/ tenant = subject.tenant

MayRead(actor, subject) ==
    TenantsAgree(actor.tenant, subject) /\ subject.project \in actor.projects

Director(actor) == "ART_DIRECTOR" \in actor.roles

\* _RULES: the role rule of each mutating operation.
RoleRule(actor, operation, subject) ==
    \/ operation \in ByAnyone
    \/ operation \in ByAuthor \cup ByAuthorOrOwner /\ actor.id = subject.author
    \/ operation \in ByAuthorOrOwner \cup ByOwner \cup ByAssigneeOrOwner
          /\ actor.id = subject.owner
    \/ operation \in ByAssigneeOrOwner /\ actor.id = subject.assignee
    \/ operation \in Operations \ (ReadOnly \cup ByAnyone \cup ByAuthor) /\ Director(actor)

\* Mutant of NeedsPerson: only the service credential counts as automated.
NeedsPersonOfCredential(actor, operation, via) ==
    operation \in HumanOnly /\ actor.kind = "automation" /\ via \in STRING

\* A service credential, or an agent acting for a person.
NeedsPerson(actor, operation, via) ==
    operation \in HumanOnly /\ (actor.kind = "automation" \/ via # None)

Decide(actor, operation, subject, via) ==
    /\ MayRead(actor, subject)
    /\ \/ operation \in ReadOnly
       \/ /\ ~NeedsPerson(actor, operation, via)
          /\ subject.mapped
          /\ RoleRule(actor, operation, subject)

\* may_author_durable_content: never by an automated caller.
MayAuthorDurable(actor, via) == actor.kind # "automation" /\ via = None

\* may_act_in_role: a role is exercised on a verified identity alone.
MayActInRole(resolution, role) == resolution.verified /\ role \in resolution.actor.roles

=============================================================================
