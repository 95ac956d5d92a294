--------------------------- MODULE DocumentLinks ---------------------------
(***************************************************************************)
(* Links from an asset, and from its project, to documents of another      *)
(* platform.  A link is written into the asset's specification or into the *)
(* project's file.  Two processes share a working copy: requests read at   *)
(* their own served revision, or from the working copy, while the other's  *)
(* commit is applied there and not pushed yet.                             *)
(***************************************************************************)
EXTENDS Naturals, FiniteSets

CONSTANTS
    Doers,          \* processes, each with one request at a time
    Docs,           \* documents of the platform
    LinkAttempts,       \* WRITE_ATTEMPTS
    MaxLinks        \* bound: links and documents asked for, and pushes from outside

ASSUME DocumentLinksAssumption == LinkAttempts \in Nat \ {0} /\ MaxLinks \in Nat

Scopes == {"asset", "project"}

VARIABLES
    branch,     \* [Scopes -> SUBSET Docs]: what is pushed
    copy,       \* [Scopes -> SUBSET Docs]: the working copy
    served,     \* [Doers -> [Scopes -> SUBSET Docs]]: each process's revision
    doer,       \* where each request is
    made,       \* documents the platform created here
    told,       \* those somebody was told of
    lost,       \* those whose request died, or whose answer never came
    links

linkVars == <<branch, copy, served, doer, made, told, lost, links>>

NoRequest == [stage |-> "none"]

LinksTypeOK ==
    /\ {branch, copy} \cup {served[d] : d \in Doers} \subseteq
           [Scopes -> SUBSET Docs]
    /\ \A d \in Doers : doer[d].stage \in {"none", "creating", "load", "content", "write",
                                           "applied"}
    /\ Cardinality({d \in Doers : doer[d].stage = "applied"}) <= 1
    /\ told \cup lost \subseteq made /\ links <= MaxLinks

LinksInit ==
    /\ branch = [f \in Scopes |-> {}] /\ copy = branch
    /\ served = [d \in Doers |-> branch]
    /\ doer = [d \in Doers |-> NoRequest]
    /\ made = {} /\ told = {} /\ lost = {} /\ links = 0

-----------------------------------------------------------------------------
\* _added and without_document.
Applied(mine, set) == IF mine.op = "unlink" THEN set \ {mine.doc} ELSE set \cup {mine.doc}

\* Mutant of ToldOf: a document whose link was not written is not named.
ToldOfLinked(mine, linked) == told \cup (IF linked THEN {mine.doc} \cap made ELSE {})

\* create_document_for_asset: the answer, or DocumentCreatedButNotLinked, names it.
ToldOf(mine, linked) == told \cup (IF mine.op = "create" THEN {mine.doc} ELSE {})

\* What a request has read, and would write.
Drafted(mine, stage, based, to) ==
    [stage |-> stage, op |-> mine.op, file |-> mine.file, doc |-> mine.doc,
     attempt |-> mine.attempt, based |-> based, to |-> to]

Finishes(d, linked) ==
    /\ doer' = [doer EXCEPT ![d] = NoRequest]
    /\ told' = ToldOf(doer[d], linked)

\* link_document and unlink_document, and create_document_for_asset.
AskLink(d, op, file, doc) ==
    /\ doer[d].stage = "none" /\ links < MaxLinks /\ links' = links + 1
    /\ op = "create" => file = "asset" /\ doc \notin made
    /\ doer' = [doer EXCEPT ![d] =
          [stage |-> IF op = "create" THEN "creating" ELSE "load", op |-> op, file |-> file,
           doc |-> doc, attempt |-> 1]]
    /\ UNCHANGED <<branch, copy, served, made, told, lost>>

\* The platform creates the document and answers, answers too late, or refuses.
CreateDocument(d) ==
    /\ doer[d].stage = "creating" /\ doer[d].doc \notin made
    /\ \/ /\ made' = made \cup {doer[d].doc}
          /\ doer' = [doer EXCEPT ![d].stage = "load"]
          /\ UNCHANGED lost
       \/ /\ made' = made \cup {doer[d].doc} /\ lost' = lost \cup {doer[d].doc}
          /\ doer' = [doer EXCEPT ![d] = NoRequest]
       \/ doer' = [doer EXCEPT ![d] = NoRequest] /\ UNCHANGED <<made, lost>>
    /\ UNCHANGED <<branch, copy, served, told, links>>

\* Another request of somebody's made this document first.
CreateTaken(d) ==
    /\ doer[d].stage = "creating" /\ doer[d].doc \in made
    /\ doer' = [doer EXCEPT ![d] = NoRequest]
    /\ UNCHANGED <<branch, copy, served, made, told, lost, links>>

\* _load, or _write_project's first read: at this process's served revision.  A
\* link to remove that is not there is not found.
LoadLinks(d) ==
    LET mine == doer[d]
        read == served[d][mine.file]
        missing == mine.op = "unlink" /\ mine.attempt = 1 /\ mine.doc \notin
                       IF mine.file = "asset" THEN read ELSE copy[mine.file]
        settled == mine.file = "asset" /\ mine.op = "unlink" /\ Applied(mine, read) = read
    IN  /\ mine.stage = "load"
        /\ IF missing \/ settled
           THEN Finishes(d, FALSE)
           ELSE /\ doer' = [doer EXCEPT ![d] =
                      Drafted(mine, IF mine.file = "asset" THEN "write" ELSE "content", read,
                              Applied(mine, read))]
                /\ UNCHANGED told
        /\ UNCHANGED <<branch, copy, served, made, lost, links>>

\* load_project: the project's links, from the working copy as it is.
LoadProject(d) ==
    /\ doer[d].stage = "content"
    /\ doer' = [doer EXCEPT ![d] = Drafted(@, "write", @.based, Applied(@, copy["project"]))]
    /\ UNCHANGED <<branch, copy, served, made, told, lost, links>>

\* Mutant of CopyFree: a process minds only its own lock.
CopyFreeHere == TRUE

\* The volume lock that a write holds from its fetch to its push.
CopyFree == \A d \in Doers : doer[d].stage # "applied"

\* Mutant of Current: the file is written over whatever is pushed.
CurrentAnyway(mine) == TRUE

\* write_back's precondition, once it has fetched.
Current(mine) == mine.based = branch[mine.file]

\* write_back: fetched, adopted, judged; and applied to the working copy.
ApplyLink(d) ==
    LET mine == doer[d]
    IN  /\ mine.stage = "write" /\ CopyFree
        /\ IF Current(mine)
           THEN /\ copy' = [branch EXCEPT ![mine.file] = mine.to]
                /\ served' = [served EXCEPT ![d] = copy']
                /\ doer' = [doer EXCEPT ![d] =
                      [stage |-> "applied", op |-> mine.op, file |-> mine.file, doc |-> mine.doc,
                       attempt |-> mine.attempt, based |-> mine.based, to |-> mine.to, onto |-> branch]]
                /\ UNCHANGED told
           ELSE /\ copy' = branch /\ served' = [served EXCEPT ![d] = branch]
                /\ IF mine.file = "asset" /\ mine.attempt < LinkAttempts
                   THEN /\ doer' = [doer EXCEPT ![d] =
                              [stage |-> "load", op |-> mine.op, file |-> mine.file,
                               doc |-> mine.doc, attempt |-> mine.attempt + 1]]
                        /\ UNCHANGED told
                   ELSE Finishes(d, FALSE)
        /\ UNCHANGED <<branch, made, lost, links>>

PushLink(d) ==
    /\ doer[d].stage = "applied" /\ branch = doer[d].onto
    /\ branch' = copy
    /\ Finishes(d, TRUE)
    /\ UNCHANGED <<copy, served, made, lost, links>>

\* A push refused, or unanswered: the copy is put back; judged again, or ended.
PushFails(d) ==
    /\ doer[d].stage = "applied"
    /\ copy' = branch /\ served' = [served EXCEPT ![d] = branch]
    /\ \/ Finishes(d, FALSE)
       \/ /\ doer' = [doer EXCEPT ![d] = Drafted(@, "write", @.based, @.to)]
          /\ UNCHANGED told
    /\ UNCHANGED <<branch, made, lost, links>>

\* The process stops; its successor adopts the checkout it finds.
DoerDies(d) ==
    /\ doer[d].stage # "none"
    /\ lost' = lost \cup (IF doer[d].op = "create" THEN {doer[d].doc} \cap made ELSE {})
    /\ copy' = IF \A e \in Doers \ {d} : doer[e].stage # "applied" THEN branch ELSE copy
    /\ served' = [served EXCEPT ![d] = copy']
    /\ doer' = [doer EXCEPT ![d] = NoRequest]
    /\ UNCHANGED <<branch, made, told, links>>

\* The runner's refresh.  The copy is reset unless it holds a commit the remote
\* does not; either way what it holds is served.
RefreshLinks(d) ==
    /\ doer[d].stage # "applied"
    /\ copy' = IF CopyFree THEN branch ELSE copy
    /\ served' = [served EXCEPT ![d] = copy']
    /\ UNCHANGED <<branch, doer, made, told, lost, links>>

\* A person pushes a link, or pushes one away.
PushByHand(file, doc) ==
    /\ links < MaxLinks /\ links' = links + 1
    /\ branch' = [branch EXCEPT ![file] = IF doc \in @ THEN @ \ {doc} ELSE @ \cup {doc}]
    /\ UNCHANGED <<copy, served, doer, made, told, lost>>

LinksNext ==
    \/ \E d \in Doers :
          \/ \E op \in {"link", "unlink", "create"}, file \in Scopes, doc \in Docs :
                AskLink(d, op, file, doc)
          \/ CreateDocument(d) \/ CreateTaken(d) \/ LoadLinks(d) \/ LoadProject(d)
          \/ ApplyLink(d) \/ PushLink(d) \/ PushFails(d) \/ DoerDies(d) \/ RefreshLinks(d)
    \/ \E file \in Scopes, doc \in Docs : PushByHand(file, doc)

LinksSpec == LinksInit /\ [][LinksNext]_linkVars

-----------------------------------------------------------------------------
\* "the change SHALL appear as a modification to that asset's specification":
\* a push changes the one link its request names, in the file it names, whatever
\* was linked, unlinked or refused since it was read, as long as a project's file
\* was the same in the working copy as at the revision its digest was taken from.
OneLinkPerWrite ==
    \A d \in Doers :
        /\ doer[d].stage = "applied" /\ branch' = copy /\ branch' # branch /\ links' = links
        /\ doer[d].to = Applied(doer[d], doer[d].based)
      => \A f \in Scopes : LET gone == branch[f] \ branch'[f]
                               new == branch'[f] \ branch[f]
                           IN  gone \cup new \subseteq
                                   IF f = doer[d].file THEN {doer[d].doc} ELSE {}

\* "If the document is created but the link cannot be written, the system SHALL
\* report the failure and": no document is made that nobody is told of, unless
\* the request's process died or the platform's own answer was lost.
CreatedAreToldOf ==
    \A doc \in made :
        \/ doc \in told \cup lost
        \/ \E d \in Doers : doer[d].stage # "none" /\ doer[d].op = "create" /\ doer[d].doc = doc

\* A link is one change of one file, and a document that was made is told of.
LinksAreAccounted ==
    [][/\ LinksTypeOK'
       /\ CreatedAreToldOf'
       /\ OneLinkPerWrite]_linkVars

=============================================================================
