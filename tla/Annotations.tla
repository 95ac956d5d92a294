----------------------------- MODULE Annotations -----------------------------
(***************************************************************************)
(* Annotations and their two exits.  Every annotation of an asset lives in *)
(* the asset's specification file, beside the rules a promotion writes, so *)
(* every operation is one edit of that whole file: load it, permit and     *)
(* apply the operation to what was loaded, commit it against what was      *)
(* loaded, and on a conflict load and apply it once more.                  *)
(***************************************************************************)
EXTENDS Integers, Sequences, FiniteSets, Policy, Positions

CONSTANTS
    Writers,            \* requests under way, over every service process
    Staff, StaffActor,  \* people, and the actor each one is
    KindOwner,          \* who owns the annotations' discipline on the asset
    Views,              \* the view slots an anchor may name
    Fleeting,           \* bound: the views that come and go
    Calls,              \* bound: the operations callers ask for
    MaxCalls            \* bound: how many are made

ASSUME AnnotationsAssumption ==
    /\ \A p \in Staff : StaffActor[p].id = p
    /\ \A call \in Calls : call.by \in Staff
    /\ Fleeting \subseteq Views /\ MaxCalls \in Nat

ReplayAttempts == 2

VARIABLES
    file,       \* the specification on the branch: its annotations and rules
    views,      \* the views the asset has, files of their own
    writer,     \* where each request is, and what it has loaded
    calls       \* how many calls were made

annotationVars == <<file, views, writer, calls>>

Texts == {c.text : c \in {d \in Calls : d.op \in {"create", "edit"}}}
Replies == [id : {c.reply : c \in {d \in Calls : d.op = "reply"}}, by : Staff]
Pins ==
    [id : {c.id : c \in Calls}, author : Staff, text : Texts, view : Views,
     state : {"open", "resolved", "promoted"}, replies : Seq(Replies)]
Rules == {c.rule : c \in {d \in Calls : d.op = "promote"}}
Away == [stage |-> "away"]

AnnotationsTypeOK ==
    /\ \A i \in DOMAIN file.pins : file.pins[i] \in Pins
    /\ file.rules \subseteq Rules
    /\ views \subseteq Views /\ calls \in 0..MaxCalls
    /\ \A w \in Writers :
          \/ writer[w] = Away
          \/ /\ writer[w].stage \in {"writing", "composed"}
             /\ writer[w].call \in Calls /\ writer[w].attempt \in 1..ReplayAttempts

AnnotationsInit ==
    /\ file = [pins |-> <<>>, rules |-> {}]
    /\ views = Views /\ calls = 0
    /\ writer = [w \in Writers |-> Away]

-----------------------------------------------------------------------------
Present(pins, id) == \E i \in DOMAIN pins : pins[i].id = id

\* thread_of: the first entry of that identifier.
Thread(pins, id) ==
    pins[CHOOSE i \in DOMAIN pins :
            pins[i].id = id /\ \A j \in DOMAIN pins : pins[j].id = id => i <= j]

\* replaced: every entry of that identifier.
Replaced(pins, pin) ==
    [i \in DOMAIN pins |-> IF pins[i].id = pin.id THEN pin ELSE pins[i]]

Without(pins, id) == Picked(pins, {i \in DOMAIN pins : pins[i].id # id})

\* Mutant of Permitted: whoever the agent acts for is asked about alone.
PermittedForAgents(call, operation, author) ==
    Decide(StaffActor[call.by], operation,
           [tenant |-> None, project |-> "p", author |-> author, assignee |-> None,
            owner |-> KindOwner, mapped |-> TRUE],
           None)

\* _permitted, asked of the annotation as it was loaded.
Permitted(call, operation, author) ==
    Decide(StaffActor[call.by], operation,
           [tenant |-> None, project |-> "p", author |-> author, assignee |-> None,
            owner |-> KindOwner, mapped |-> TRUE],
           call.via)

\* The annotation a call is about, as it was loaded.
Found(call) == Present(file.pins, call.id)
Pin(call) == Thread(file.pins, call.id)

Step(w, from, record) ==
    /\ writer[w].stage = from
    /\ writer' = [writer EXCEPT ![w] = record]

\* A specification that changed nothing is answered without a commit.
Composed(w, new) ==
    Step(w, "writing",
         IF new = file THEN Away
         ELSE [stage |-> "composed", call |-> writer[w].call, attempt |-> writer[w].attempt,
               base |-> file, new |-> new])

With(w, pin) == Composed(w, [file EXCEPT !.pins = Replaced(@, pin)])

-----------------------------------------------------------------------------
\* A draft already recorded is answered with what is there; that is asked
\* once, before the load the write is based on.
Arrive(w, call) ==
    /\ call.op = "create" => ~Found(call)
    /\ Step(w, "away", [stage |-> "writing", call |-> call, attempt |-> 1])
    /\ calls < MaxCalls /\ calls' = calls + 1
    /\ UNCHANGED <<file, views>>

\* What each operation does with the specification it loaded.
CreateAnnotation(w, call) ==
    /\ call.op = "create"
    /\ Permitted(call, "create_annotation", None) /\ call.view \in views
    /\ Composed(w, [file EXCEPT !.pins =
          Append(@, [id |-> call.id, author |-> call.by, text |-> call.text,
                     view |-> call.view, state |-> "open", replies |-> <<>>])])

ReplyToAnnotation(w, call) ==
    /\ call.op = "reply" /\ Found(call)
    /\ Permitted(call, "reply_in_thread", None)
    /\ LET said == Pin(call).replies IN
       With(w, IF \E i \in DOMAIN said : said[i].id = call.reply THEN Pin(call)
               ELSE [Pin(call) EXCEPT !.replies =
                        Append(said, [id |-> call.reply, by |-> call.by])])

EditAnnotation(w, call) ==
    /\ call.op = "edit" /\ Found(call)
    /\ Permitted(call, "edit_contribution", Pin(call).author)
    /\ With(w, [Pin(call) EXCEPT !.text = call.text])

DeleteAnnotation(w, call) ==
    /\ call.op = "delete" /\ Found(call)
    /\ Permitted(call, "withdraw_contribution", Pin(call).author)
    /\ Pin(call).replies = <<>>
    /\ Composed(w, [file EXCEPT !.pins = Without(@, call.id)])

MoveAnnotation(w, call) ==
    /\ call.op = "move" /\ Found(call)
    /\ Permitted(call, "move_annotation", Pin(call).author) /\ call.view \in views
    /\ With(w, [Pin(call) EXCEPT !.view = call.view])

\* Anybody who may author may rescue an orphan, a service credential never.
ReanchorAnnotation(w, call) ==
    /\ call.op = "reanchor" /\ Found(call)
    /\ StaffActor[call.by].kind # "automation"
    /\ Permitted(call, "create_annotation", None) /\ call.view \in views
    /\ With(w, [Pin(call) EXCEPT !.view = call.view])

ResolveAnnotation(w, call) ==
    /\ call.op = "resolve" /\ Found(call)
    /\ Permitted(call, "resolve_issue", Pin(call).author)
    /\ Pin(call).state = "open"
    /\ With(w, [Pin(call) EXCEPT !.state = "resolved"])

\* Mutant of ReopenAnnotation: a promoted one is reopened like a resolved one.
ReopenAnyAnnotation(w, call) ==
    /\ call.op = "reopen" /\ Found(call)
    /\ Permitted(call, "reopen_issue", Pin(call).author)
    /\ With(w, [Pin(call) EXCEPT !.state = "open"])

ReopenAnnotation(w, call) ==
    /\ call.op = "reopen" /\ Found(call)
    /\ Permitted(call, "reopen_issue", Pin(call).author)
    /\ Pin(call).state # "promoted"
    /\ With(w, [Pin(call) EXCEPT !.state = "open"])

\* The rule and the retired annotation, in one file and so in one commit.
PromoteAnnotation(w, call) ==
    /\ call.op = "promote" /\ Found(call)
    /\ Permitted(call, "promote_to_rule", Pin(call).author)
    /\ Pin(call).state = "open"
    /\ Composed(w, [pins |-> Replaced(file.pins, [Pin(call) EXCEPT !.state = "promoted"]),
                    rules |-> file.rules \cup {call.rule}])

\* _load, then the operation on what was loaded.
Load(w) ==
    LET call == writer[w].call IN
    /\ writer[w].stage = "writing"
    /\ \/ CreateAnnotation(w, call)
       \/ ReplyToAnnotation(w, call)
       \/ EditAnnotation(w, call)
       \/ DeleteAnnotation(w, call)
       \/ MoveAnnotation(w, call)
       \/ ReanchorAnnotation(w, call)
       \/ ResolveAnnotation(w, call)
       \/ ReopenAnnotation(w, call)
       \/ PromoteAnnotation(w, call)
    /\ UNCHANGED <<file, views, calls>>

\* The operation is refused, or the project cannot be read.
Reject(w) ==
    /\ Step(w, "writing", Away)
    /\ UNCHANGED <<file, views, calls>>

\* Mutant of Commit: the precondition is not asked for.
CommitOver(w) ==
    /\ Step(w, "composed", Away)
    /\ file' = writer[w].new
    /\ UNCHANGED <<views, calls>>

\* _commit: one edit of one file, based on what was loaded.
Commit(w) ==
    /\ Step(w, "composed", Away)
    /\ file = writer[w].base
    /\ file' = writer[w].new
    /\ UNCHANGED <<views, calls>>

\* Mutant of Conflict: replayed for as long as it conflicts.
ConflictAgain(w) ==
    LET mine == writer[w] IN
    /\ mine.stage = "composed" /\ mine.attempt <= ReplayAttempts
    /\ Step(w, "composed", [stage |-> "writing", call |-> mine.call,
                            attempt |-> mine.attempt + 1])
    /\ UNCHANGED <<file, views, calls>>

\* A conflict is replayed once against what is there now, and then told.
Conflict(w) ==
    LET mine == writer[w] IN
    /\ mine.stage = "composed"
    /\ Step(w, "composed",
            IF mine.attempt = ReplayAttempts THEN Away
            ELSE [stage |-> "writing", call |-> mine.call, attempt |-> mine.attempt + 1])
    /\ UNCHANGED <<file, views, calls>>

Unreachable(w) ==
    /\ Step(w, "composed", Away)
    /\ UNCHANGED <<file, views, calls>>

\* A person edits the rules in the file itself, and pushes.
DropRules ==
    /\ file.rules # {}
    /\ file' = [file EXCEPT !.rules = {}]
    /\ UNCHANGED <<views, writer, calls>>

\* A view is removed from the asset, or added to it.
ChangeViews(view) ==
    /\ views' = IF view \in views THEN views \ {view} ELSE views \cup {view}
    /\ UNCHANGED <<file, writer, calls>>

AnnotationsNext ==
    \/ \E w \in Writers : \/ \E call \in Calls : Arrive(w, call)
                          \/ Load(w) \/ Reject(w) \/ Commit(w) \/ Conflict(w) \/ Unreachable(w)
    \/ \E view \in Fleeting : ChangeViews(view)
    \/ DropRules

AnnotationsSpec == AnnotationsInit /\ [][AnnotationsNext]_annotationVars

-----------------------------------------------------------------------------
\* Who is committing: the one request whose composed edit this step lands.
CommittedBy(call) ==
    \E w \in Writers : writer[w].stage = "composed" /\ writer[w].call = call
                          /\ writer'[w] = Away

KeptPins == {id \in {c.id : c \in Calls} : Present(file.pins, id) /\ Present(file'.pins, id)}

\* The discussion survives every race: no reply is lost, an annotation that was
\* answered is never withdrawn, and nobody's words but the author's are changed.
WordsSurvive ==
    /\ \A i \in DOMAIN file.pins :
          LET pin == file.pins[i] IN
          ~Present(file'.pins, pin.id) => Thread(file.pins, pin.id).replies = <<>>
    /\ \A id \in KeptPins :
          LET old == Thread(file.pins, id)
              new == Thread(file'.pins, id)
          IN /\ Len(new.replies) >= Len(old.replies)
             /\ SubSeq(new.replies, 1, Len(old.replies)) = old.replies
             /\ new.text # old.text =>
                   \E c \in Calls : CommittedBy(c) /\ c.by = old.author /\ c.op = "edit"

\* "SHALL NOT allow an annotation to be both": one exit, taken from open; a
\* promoted annotation stays so, and retires in the very step its rule is written.
ExitsAreFinal ==
    \A id \in KeptPins :
       LET old == Thread(file.pins, id)
           new == Thread(file'.pins, id)
       IN /\ old.state = "promoted" => new.state = "promoted"
          /\ old.state = "resolved" => new.state # "promoted"
          /\ new.state = "promoted" /\ old.state # "promoted" =>
                \E c \in Calls : c.op = "promote" /\ c.id = id /\ CommittedBy(c)
                                    /\ c.rule \in file'.rules

\* "Promotion SHALL NOT be invocable by an automated caller": whatever is
\* replayed, a rule appears in the specification only by a director in person.
RulesAreDirected ==
    file'.rules \subseteq file.rules \/
    \E c \in Calls : c.op = "promote" /\ CommittedBy(c) /\ c.via = None
                        /\ Director(StaffActor[c.by])
                        /\ StaffActor[c.by].kind # "automation"

\* A thread keeps its words and its one exit, and makes rules only by a
\* director's hand.
ThreadsAreKept ==
    [][/\ AnnotationsTypeOK'
       /\ WordsSurvive
       /\ ExitsAreFinal
       /\ RulesAreDirected]_annotationVars

=============================================================================
