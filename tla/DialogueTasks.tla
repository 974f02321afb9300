--------------------------- MODULE DialogueTasks ---------------------------
(***************************************************************************)
(* Dialogue tasks and routing questions of one conversation: the plans     *)
(* that dialogue/store.py applies, together with the outbound messages     *)
(* that carry answers and questions to the user (outbound/store.py) and a  *)
(* reader that pages through a task's history.                             *)
(*                                                                         *)
(* A plan is one transaction.  A plan that conflicts is rolled back, and a *)
(* plan id that was applied before yields its stored result or a conflict: *)
(* both leave the tables as they are and are stuttering steps here.  What  *)
(* a caller read before it made the plan may be stale, so revisions and    *)
(* candidates are arbitrary.                                               *)
(***************************************************************************)
EXTENDS Naturals, FiniteSets, Sequences, Functions

CONSTANTS Inputs,       \* inputs of the conversation
          Actor,        \* input -> who wrote it
          Questions,    \* ids of routing questions
          Texts,        \* question texts, has_more_candidates included
          Messages,     \* outbound messages, and their external ids once confirmed
          None,
          MaxTasks,     \* bound on the tasks that are created
          MaxRevision,  \* bound on the revisions of a question
          MaxRoutes,    \* bound on the inputs of a plan
          PageSize      \* limit of get_task_context

Tasks == 1 .. MaxTasks
Actors == {Actor[i] : i \in Inputs}

ASSUME DialogueAssumption ==
    /\ IsFiniteSet(Inputs)
    /\ MaxTasks \in Nat /\ MaxRevision \in Nat \ {0} /\ MaxRoutes \in Nat
    /\ PageSize \in Nat \ {0}
    /\ None \notin Inputs \cup Questions \cup Messages
    /\ Inputs \cap Messages = {}    \* what users write and what the system sends

VARIABLES
    db,      \* the tables: task, question, input, history, focus, outbound
    pager    \* a caller that reads a task's history page by page

vars == <<db, pager>>

Terminal == {"closed", "cancelled"}
Candidates == SUBSET (Tasks \X (1 .. 2))

TaskRow == [status: {"absent", "active"} \cup Terminal, revision: 0 .. 2]
QuestionRow ==
    [status: {"absent", "pending", "resolved"}, revision: 0 .. MaxRevision + 1,
     actor: Actors \cup {None}, text: Texts \cup {None}, offers: Candidates,
     resolved: 0 .. MaxTasks]
InputRow == [known: BOOLEAN, task: 0 .. MaxTasks, question: Questions \cup {None}]
OutboundRow ==
    [status: {"absent", "queued", "sending", "uncertain", "sent", "cancelled", "dead_letter"},
     task: 0 .. MaxTasks, question: Questions \cup {None}, revision: 0 .. MaxRevision,
     confirmed: BOOLEAN,     \* in dialogue_confirmed_references
     shown: Candidates]      \* history: the candidates when the text was made

NoTask == [status |-> "absent", revision |-> 0]
NoQuestion == [status |-> "absent", revision |-> 0, actor |-> None, text |-> None,
               offers |-> {}, resolved |-> 0]
NoInput == [known |-> FALSE, task |-> 0, question |-> None]
NoOutbound == [status |-> "absent", task |-> 0, question |-> None, revision |-> 0,
               confirmed |-> FALSE, shown |-> {}]

\* dialogue_messages in the order of their sequence numbers.
Entry == [task: Tasks, role: {"user", "assistant"}, source: Inputs \cup Messages]

Idle == [task |-> 0, through |-> 0, cursor |-> 0, read |-> <<>>, target |-> <<>>]

Init ==
    /\ db = [task |-> [t \in Tasks |-> NoTask],
             question |-> [q \in Questions |-> NoQuestion],
             input |-> [i \in Inputs |-> NoInput],
             history |-> <<>>,
             focus |-> [a \in Actors |-> 0],
             outbound |-> [m \in Messages |-> NoOutbound],
             local |-> [i \in Inputs |-> 0]]    \* local_tasks of the plan
    /\ pager = Idle

----------------------------------------------------------------------------
\* Parts of a route.  Every operator maps the tables to the tables.

UserEntry(i, t) == [task |-> t, role |-> "user", source |-> i]

\* _insert_input.
InsertInput(d, i, t, q) ==
    [d EXCEPT !.input[i] = [known |-> TRUE, task |-> t, question |-> q]]

\* _attach_input: _insert_input and _insert_input_message.
AttachInput(d, i, t) ==
    [InsertInput(d, i, t, None) EXCEPT !.history = Append(@, UserEntry(i, t))]

SetFocus(d, i, t) == [d EXCEPT !.focus[Actor[i]] = t]

NewTask(d) == CHOOSE t \in Tasks : /\ d.task[t].status = "absent"
                                   /\ \A u \in 1 .. t - 1 : d.task[u].status # "absent"
CanCreate(d) == \E t \in Tasks : d.task[t].status = "absent"
CreateTask(d, i) ==
    [d EXCEPT !.task[NewTask(d)] = [status |-> "active", revision |-> 1],
              !.local[i] = NewTask(d)]

\* _resolve_task_target: a task id, or the key of a task this plan created.
Target(d, r) == IF r.target \in Tasks THEN r.target ELSE d.local[r.target]

Active(d, t) == t # 0 /\ d.task[t].status = "active"

\* The UPDATEs of _suppress_task_outbound, _suppress_question_outbound and
\* _suppress_question_generation_outbound: messages that are not admitted yet.
Suppress(d, concerned) ==
    [d EXCEPT !.outbound = [m \in Messages |->
        IF m \in concerned /\ d.outbound[m].status = "queued"
        THEN [d.outbound[m] EXCEPT !.status = "cancelled"] ELSE d.outbound[m]]]

SuppressTask(d, t) == Suppress(d, {m \in Messages : d.outbound[m].task = t})
SuppressQuestion(d, q) == Suppress(d, {m \in Messages : d.outbound[m].question = q})
SuppressGeneration(d, q, rev) ==
    Suppress(d, {m \in Messages : d.outbound[m].question = q /\ d.outbound[m].revision = rev})

----------------------------------------------------------------------------
\* The routes: the set of results, empty when the plan conflicts.

Create(d, r) ==
    IF CanCreate(d)
    THEN LET t == NewTask(d) IN
         {SetFocus(AttachInput(CreateTask(d, r.input), r.input, t), r.input, t)}
    ELSE {}

Status(d, r) ==
    IF r.target \in Tasks /\ d.task[r.target].status # "absent"
    THEN {InsertInput(d, r.input, r.target, None)} ELSE {}

\* Mutated form: the task's status is not looked at.
AttachAnyTask(d, r) ==
    LET t == Target(d, r) IN
    IF t # 0 /\ d.task[t].status # "absent"
    THEN {SetFocus(AttachInput(d, r.input, t), r.input, t)} ELSE {}

Attach(d, r) ==
    LET t == Target(d, r) IN
    IF Active(d, t) THEN {SetFocus(AttachInput(d, r.input, t), r.input, t)} ELSE {}

\* close and cancel.
Finish(d, r) ==
    LET t == Target(d, r)
        finished == [status |-> IF r.action = "close" THEN "closed" ELSE "cancelled",
                     revision |-> d.task[t].revision + 1]
    IN IF Active(d, t)
       THEN {SuppressTask([AttachInput(d, r.input, t) EXCEPT !.task[t] = finished], t)} ELSE {}

\* A message of the store that the input replies to, by its confirmed reference.
RepliesTo(d, m, q) == m # None /\ d.outbound[m].confirmed /\ d.outbound[m].question = q

\* _question_candidates: all candidates are active at the revision they name.
Fresh(d, offers) ==
    \A c \in offers : d.task[c[1]] = [status |-> "active", revision |-> c[2]]

\* _create_or_extend_question, then _insert_input.
AskOrExtend(d, r) ==
    LET old == d.question[r.question]
        asked(a) == [status |-> "pending", revision |-> old.revision + 1, actor |-> a,
                     text |-> r.text, offers |-> r.offers, resolved |-> 0]
        waiting(e) == InsertInput(e, r.input, 0, r.question)
        changed == old.text # r.text \/ old.offers # r.offers
        conflict == IF old.status = "absent" THEN r.revision # 0
                    ELSE \/ old.status = "resolved"
                         \/ r.revision \notin {0, old.revision}
                         \/ old.actor # Actor[r.input] /\ ~RepliesTo(d, r.reply, r.question)
                         \/ changed /\ (r.revision = 0 \/ old.revision = MaxRevision)
    IN IF conflict \/ ~Fresh(d, r.offers) THEN {}
       ELSE IF old.status = "absent" THEN {waiting([d EXCEPT !.question[r.question] = asked(Actor[r.input])])}
       ELSE IF ~changed THEN {waiting(d)}
       ELSE {waiting(SuppressGeneration([d EXCEPT !.question[r.question] = asked(old.actor)],
                                        r.question, old.revision))}

\* The evidence _resolve_question asks for: a reply to the confirmed message of
\* this revision, or the asker's own words once such a message was confirmed.
Delivered(d, q, rev) ==
    \E m \in Messages : RepliesTo(d, m, q) /\ d.outbound[m].revision = rev

\* Mutated form: a reply to an earlier generation of the question is accepted.
AnsweredAny(d, r) ==
    IF r.reply # None THEN RepliesTo(d, r.reply, r.question)
    ELSE d.question[r.question].actor = Actor[r.input] /\ Delivered(d, r.question, r.revision)

Answered(d, r) ==
    IF r.reply # None
    THEN RepliesTo(d, r.reply, r.question) /\ d.outbound[r.reply].revision = r.revision
    ELSE d.question[r.question].actor = Actor[r.input] /\ Delivered(d, r.question, r.revision)

\* The inputs that wait for the question.
Waiting(d, q) == {i \in Inputs : d.input[i].known /\ d.input[i].question = q /\ d.input[i].task = 0}

\* The members of S as a sequence in some order: the order of dialogue_inputs.sequence
\* is not told apart.
InSomeOrder(S) == CHOOSE s \in Bijection(1 .. Cardinality(S), S) : TRUE

\* Mutated form: only the input that answers is assigned.
AssignOnlyAnswer(d, r, t) ==
    SuppressQuestion(AttachInput(
        [d EXCEPT !.question[r.question].status = "resolved",
                  !.question[r.question].revision = @ + 1,
                  !.question[r.question].resolved = t], r.input, t), r.question)

\* The writes of _resolve_question: the question, the waiting inputs with their
\* messages, the question's outbound messages, the input that answers.
Assign(d, r, t) ==
    LET q == d.question[r.question]
        waiting == InSomeOrder(Waiting(d, r.question))
        moved == [d EXCEPT
                    !.question[r.question] = [q EXCEPT !.status = "resolved",
                                                       !.revision = q.revision + 1,
                                                       !.resolved = t],
                    !.input = [i \in Inputs |->
                        IF i \in Waiting(d, r.question) THEN [d.input[i] EXCEPT !.task = t]
                        ELSE d.input[i]],
                    !.history = @ \o [n \in 1 .. Len(waiting) |-> UserEntry(waiting[n], t)]]
    IN AttachInput(SuppressQuestion(moved, r.question), r.input, t)

ResolveQuestion(d, r) ==
    LET q == d.question[r.question]
        pending == /\ q.status = "pending" /\ q.revision = r.revision
                   /\ Answered(d, r) /\ Waiting(d, r.question) # {}
        t == r.target
        chosen == t \in Tasks /\ \E c \in q.offers :
                     c[1] = t /\ d.task[t] = [status |-> "active", revision |-> c[2]]
    IN CASE pending /\ chosen -> {SetFocus(Assign(d, r, t), r.input, t)}
         [] pending /\ t = r.input /\ CanCreate(d) ->
              {SetFocus(Assign(CreateTask(d, r.input), r, NewTask(d)), r.input, NewTask(d))}
         [] OTHER -> {}

Route(d, r) ==
    CASE r.action = "create" -> Create(d, r)
      [] r.action = "status" -> Status(d, r)
      [] r.action = "attach" -> Attach(d, r)
      [] r.action = "question" -> AskOrExtend(d, r)
      [] r.action = "resolve_question" -> ResolveQuestion(d, r)
      [] r.action \in {"close", "cancel"} -> Finish(d, r)

\* DialogueRoute, with the fields that its action uses.  The candidates of a
\* question are tasks at the revision of an active task.
Creating(i) == [action |-> "create", input |-> i, target |-> 0, question |-> None,
                revision |-> 0, text |-> None, offers |-> {}, reply |-> None]
OnTask(i, a, t) == [Creating(i) EXCEPT !.action = a, !.target = t]
Asking(i, q, rev, x, offered, m) ==
    [Creating(i) EXCEPT !.action = "question", !.question = q, !.revision = rev, !.text = x,
                        !.offers = {<<t, 1>> : t \in offered}, !.reply = m]
Answering(i, q, rev, t, m) ==
    [Creating(i) EXCEPT !.action = "resolve_question", !.question = q, !.revision = rev,
                        !.target = t, !.reply = m]

Routes(i) ==
    {Creating(i)}
    \cup {OnTask(i, a, t) : a \in {"status", "attach", "close", "cancel"}, t \in Tasks \cup Inputs}
    \cup {Asking(i, q, rev, x, offered, m) :
            q \in Questions, rev \in 0 .. MaxRevision, x \in Texts,
            offered \in SUBSET Tasks, m \in Messages \cup {None}}
    \cup {Answering(i, q, rev, t, m) :
            q \in Questions, rev \in 1 .. MaxRevision, t \in Tasks \cup {i},
            m \in Messages \cup {None}}

\* One more input of the plan: inputs that are assigned already are a conflict.
Routed(d) == UNION {Route(d, r) : r \in UNION {Routes(i) : i \in {j \in Inputs : ~d.input[j].known}}}

\* What the plans of n inputs may lead to.
Outcomes[n \in 0 .. MaxRoutes] ==
    IF n = 0 THEN {db} ELSE UNION {Routed(d) : d \in Outcomes[n - 1]}

\* apply_dialogue_plan.
ApplyPlan ==
    /\ \E n \in 1 .. MaxRoutes : \E d \in Outcomes[n] :
          db' = [d EXCEPT !.local = [i \in Inputs |-> 0]]
    /\ UNCHANGED pager

----------------------------------------------------------------------------
\* Outbound messages of the dialogue.  "queued" stands for queued, leased and
\* retrying: the lease protocol is in Outbound.

\* _validate_task_reference and _task_admission_is_current.
Current(o) ==
    IF o.task # 0 THEN db.task[o.task] = [status |-> "active", revision |-> o.revision]
    ELSE /\ db.question[o.question].status = "pending"
         /\ db.question[o.question].revision = o.revision

Row(m, status) == [db EXCEPT !.outbound[m].status = status]

Enqueue(m) ==
    /\ db.outbound[m].status = "absent"
    /\ \/ \E t \in Tasks : LET o == [NoOutbound EXCEPT !.task = t, !.revision = 1,
                                                       !.status = "queued"] IN
            Current(o) /\ db' = [db EXCEPT !.outbound[m] = o]
       \/ \E q \in Questions : LET o == [NoOutbound EXCEPT !.question = q,
                                           !.revision = db.question[q].revision,
                                           !.shown = db.question[q].offers,
                                           !.status = "queued"] IN
            /\ db.question[q].status = "pending"
            /\ db' = [db EXCEPT !.outbound[m] = o]
    /\ UNCHANGED pager

MarkSending(m) ==
    /\ db.outbound[m].status = "queued"
    /\ db' = Row(m, IF Current(db.outbound[m]) THEN "sending" ELSE "cancelled")
    /\ UNCHANGED pager

\* _project_confirmed_dialogue_message.
Confirmed(d, m, hasId) ==
    LET o == d.outbound[m] IN
    [d EXCEPT
        !.outbound[m] = [o EXCEPT !.status = "sent", !.confirmed = hasId],
        !.history = IF o.task = 0 THEN @
                    ELSE Append(@, [task |-> o.task, role |-> "assistant", source |-> m])]

\* mark_sent, with or without an external id the dialogue can use.
MarkSent(m) ==
    /\ db.outbound[m].status = "sending"
    /\ \E hasId \in BOOLEAN : db' = Confirmed(db, m, hasId)
    /\ UNCHANGED pager

\* mark_uncertain, mark_retry and mark_dead_letter.
NotSent(m) ==
    /\ db.outbound[m].status = "sending"
    /\ \E s \in {"uncertain", "queued", "dead_letter"} : db' = Row(m, s)
    /\ UNCHANGED pager

\* resolve_outbound: an operator's "sent" is not projected into the dialogue.
Reconcile(m) ==
    /\ db.outbound[m].status = "uncertain"
    /\ \E s \in {"sent", "queued", "dead_letter"} : db' = Row(m, s)
    /\ UNCHANGED pager

----------------------------------------------------------------------------
\* get_task_context, page by page.  Positions in history are sequence numbers.

\* The rows a caller may see: those of the task; with through_input_id, user
\* messages only up to that input.
Visible(n, t, through) ==
    /\ db.history[n].task = t
    /\ through # 0 => db.history[n].role = "assistant" \/ n <= through

\* The newest PageSize visible rows below the cursor, oldest first.
Page(t, through, cursor) ==
    LET rows == SelectSeq([n \in 1 .. Len(db.history) |-> n],
                          LAMBDA n : Visible(n, t, through) /\ (cursor # 0 => n < cursor))
    IN [rows |-> SubSeq(rows, 1 + (IF Len(rows) > PageSize THEN Len(rows) - PageSize ELSE 0), Len(rows)),
        older |-> Len(rows) > PageSize]

NextBefore(page) == page.rows[1]

\* The first page, without or with a boundary input, whose message must exist.
OpenContext(t, through) ==
    LET page == Page(t, through, 0) IN
    /\ pager = Idle
    /\ db.task[t].status # "absent"
    /\ through # 0 => db.history[through].task = t /\ db.history[through].role = "user"
    /\ page.older
    /\ pager' = [task |-> t, through |-> through, cursor |-> NextBefore(page), read |-> page.rows,
                 target |-> SelectSeq([n \in 1 .. Len(db.history) |-> n],
                                      LAMBDA n : Visible(n, t, through))]
    /\ UNCHANGED db

NextPage ==
    LET page == Page(pager.task, pager.through, pager.cursor) IN
    /\ pager.cursor # 0
    /\ pager' = [pager EXCEPT !.read = page.rows \o @,
                              !.cursor = IF page.older THEN NextBefore(page) ELSE 0]
    /\ UNCHANGED db

CloseContext ==
    /\ pager # Idle /\ pager.cursor = 0
    /\ pager' = Idle
    /\ UNCHANGED db

----------------------------------------------------------------------------
Next ==
    \/ ApplyPlan
    \/ \E m \in Messages :
         Enqueue(m) \/ MarkSending(m) \/ MarkSent(m) \/ NotSent(m) \/ Reconcile(m)
    \/ \E t \in Tasks, n \in 0 .. Len(db.history) : OpenContext(t, n)
    \/ NextPage
    \/ CloseContext

Spec == Init /\ [][Next]_vars

----------------------------------------------------------------------------
\* Properties.

TypeOK ==
    /\ db.task \in [Tasks -> TaskRow]
    /\ db.question \in [Questions -> QuestionRow]
    /\ db.input \in [Inputs -> InputRow]
    /\ db.history \in Seq(Entry)
    /\ db.focus \in [Actors -> 0 .. MaxTasks]
    /\ db.outbound \in [Messages -> OutboundRow]

\* An input waits exactly while its question is pending; once the question is resolved
\* every input that waited belongs to the task that was chosen.
InputsFollowQuestion ==
    \A i \in Inputs : db.input[i].question # None =>
        LET q == db.question[db.input[i].question] IN
        /\ (db.input[i].task = 0) <=> (q.status = "pending")
        /\ q.status = "resolved" => db.input[i].task = q.resolved

\* The history of a task has the message of each of its inputs at most once, and
\* no message of an input that belongs elsewhere.
HistoryOfItsInputs ==
    /\ \A n \in 1 .. Len(db.history) : db.history[n].role = "user" =>
          db.input[db.history[n].source].task = db.history[n].task
    /\ \A n, k \in 1 .. Len(db.history) :
          db.history[n].source = db.history[k].source => n = k

\* A reader that pages back through a history reads every message that was there when
\* it began, once and in order, whatever is appended between its pages.
PagesAreComplete ==
    pager # Idle /\ pager.cursor = 0 => pager.read = pager.target

\* The tables keep their types and agree with each other, and a paged read with them.
DialogueConsistent == TypeOK /\ InputsFollowQuestion /\ HistoryOfItsInputs /\ PagesAreComplete

\* A question is decided by what the user saw: when an existing task is chosen, a
\* confirmed message offered that task at its present revision, also when the question
\* was refreshed while an older message was on its way.
ChosenFromWhatWasShown ==
    [][\A q \in Questions :
         db.question[q].status = "pending" /\ db'.question[q].status = "resolved" =>
             LET t == db'.question[q].resolved IN
             db.task[t].status # "absent" =>
                 \E m \in Messages : /\ db.outbound[m].question = q /\ db.outbound[m].confirmed
                                     /\ <<t, db.task[t].revision>> \in db.outbound[m].shown]_vars

\* The tables implement DialogueContract: plans, questions and replies give an input
\* to a task once, and nothing is said to a task that was closed or cancelled.
Contract == INSTANCE DialogueContract WITH
    home <- [i \in Inputs |-> db.input[i].task],
    life <- [t \in Tasks |-> db.task[t].status],
    said <- [t \in Tasks |-> {i \in Inputs : \E n \in 1 .. Len(db.history) :
                                db.history[n] = UserEntry(i, t)}]

KeepsContract == Contract!Spec

============================================================================
