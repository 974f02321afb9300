--------------------------- MODULE CodexAppServer ---------------------------
(***************************************************************************)
(* CodexAppServerBackend and its JsonRpcStdioClient: callers that send     *)
(* prompts to one native thread of a codex app-server process, capture,    *)
(* pause and abort the turns, the reader of the process's output, the tool *)
(* calls the process makes, and the replacement of a client that failed.   *)
(*                                                                         *)
(* A step ends at an await.  An outstanding request is the future that its *)
(* caller waits for; when the caller gives up, the answer belongs to       *)
(* nobody, which is what the unique JSON-RPC ids achieve, and what is left *)
(* of the request is a turn that it may still start.  The process is       *)
(* external: it may answer, refuse, speak or die at any time.              *)
(***************************************************************************)
EXTENDS Naturals, FiniteSets

CONSTANTS Callers,     \* coroutines that use the backend
          Uses,        \* the operations each of them uses
          Nobody,      \* not a caller
          MaxTurns,    \* bound on the turns of the thread
          Capacity,    \* max_concurrent_dynamic_tool_calls
          MaxFaults    \* bound on deaths of the process, failed starts and shutdowns

ASSUME CodexConstants ==
    /\ Uses \in [Callers -> SUBSET {"send", "capture", "find", "cut", "close", "shutdown"}]
    /\ Nobody \notin Callers
    /\ {MaxTurns, Capacity} \subseteq Nat \ {0}
    /\ MaxFaults \in Nat

\* A session has one runner at a time, and only the runner sends.
ASSUME OneSender == \A c, d \in Callers : "send" \in Uses[c] \cap Uses[d] => c = d

VARIABLES
    client,     \* the backend's client with its turns and tasks
    lock,       \* who holds _lifecycle_lock
    call,       \* what each caller is at
    up,         \* the process runs
    late,       \* a turn/start that was given up may yet be served
    native,     \* the turns as the process knows them
    owed,       \* ended turns whose turn/completed is not sent yet
    by,         \* the execution context of the send that started a turn
    received,   \* turns whose receipt a send has returned
    outcome,    \* what callers were told of a turn
    faults

vars == <<client, lock, call, up, late, native, owed, by, received, outcome, faults>>

server == <<up, late, native, owed, by>>
told == <<received, outcome>>

Turns == 1 .. MaxTurns
Contexts == 1 .. MaxTurns + 1
LateContext == MaxTurns + 2      \* of a send that has given up
Slots == 1 .. Capacity

\* TurnState and the task of a server request.
NoTurn == [tracked |-> FALSE, ack |-> FALSE, ctx |-> 0, done |-> FALSE,
           failure |-> FALSE, error |-> FALSE, asked |-> FALSE]
NoTool == [stage |-> "none", turn |-> 0]

\* A JsonRpcStdioClient; asks are its turn interrupt tasks.
NewClient == [on |-> TRUE, failed |-> FALSE, reading |-> TRUE, loaded |-> FALSE,
              prepared |-> 0, last |-> 0, ignored |-> 0,
              turn |-> [n \in Turns |-> NoTurn],
              tool |-> [s \in Slots |-> NoTool],
              ask |-> [n \in Turns |-> "none"]]
NoClient == [NewClient EXCEPT !.on = FALSE]

Reply(is, n) == [is |-> is, turn |-> n]
Waiting == Reply("wait", 0)
Idle == [stage |-> "idle", goal |-> "none", turn |-> 0, ctx |-> 0, fut |-> Reply("none", 0)]

Init ==
    /\ client = [NewClient EXCEPT !.loaded = TRUE]
    /\ lock = Nobody
    /\ call = [c \in Callers |-> Idle]
    /\ up = TRUE
    /\ late = FALSE /\ owed = {}
    /\ native = [n \in Turns |-> "absent"]
    /\ by = [n \in Turns |-> 0]
    /\ received = {}
    /\ outcome = [n \in Turns |-> "none"]
    /\ faults = 0

\* The error of a request of call f.  pause and abort go on after an interrupt that raised,
\* and abort after an archiving that did, as after an answer.
Error(f) ==
    Reply(IF f.stage = "asking" /\ f.goal \in {"stop", "cut", "archive"} THEN "done" ELSE "error", 0)

At(c, stage, goal) == call[c].stage = stage /\ call[c].goal = goal
Resolved(c) == call[c].stage \in {"resuming", "asking"} /\ call[c].fut.is # "wait"

----------------------------------------------------------------------------
\* The client's bookkeeping, as functions of the client and of the calls.

\* acknowledge_turn_context and fail_turn_context wake the tool calls that wait for the
\* binding; only the acknowledged turn's go on.
Woken(k, n) ==
    [s \in Slots |-> IF k.tool[s].stage # "waiting" THEN k.tool[s]
                     ELSE IF k.tool[s].turn = n THEN [k.tool[s] EXCEPT !.stage = "check"]
                     ELSE NoTool]
FailContext(k) == [k EXCEPT !.prepared = 0, !.tool = Woken(k, 0)]

\* Mutated form: the turns of the failed client are left waiting.
FailClientOnly(k) ==
    [FailContext(k) EXCEPT !.failed = TRUE, !.ask = [n \in Turns |-> "none"]]

\* _mark_failed: nobody is left waiting for a process that will not answer.
FailClient(k) ==
    [FailContext(k) EXCEPT
        !.failed = TRUE,
        !.ask = [n \in Turns |-> "none"],
        !.turn = [n \in Turns |->
            IF @[n].tracked /\ ~@[n].done
            THEN [@[n] EXCEPT !.done = TRUE, !.failure = TRUE, !.error = TRUE] ELSE @[n]]]

\* Turns whose failure is being answered with an interrupt; the end of that task marks
\* the TurnState done, also for a capture that holds it after its release.
Failing == {n \in Turns : client.ask[n] = "failure"}
WakeOrphans(f, S) ==
    [c \in Callers |-> IF f[c].stage = "orphaned" /\ f[c].turn \in S
                       THEN [f[c] EXCEPT !.stage = "woken", !.fut = Reply("raised", 0)] ELSE f[c]]

FailCalls(f) ==
    WakeOrphans([c \in Callers |-> IF f[c].fut.is = "wait"
                                   THEN [f[c] EXCEPT !.fut = Error(f[c])] ELSE f[c]],
                Failing)

\* release_turn.
Release(k, n) ==
    IF ~k.turn[n].tracked THEN k
    ELSE [k EXCEPT !.turn[n] = NoTurn,
                   !.last = IF @ = n THEN 0 ELSE @,
                   !.ignored = IF k.turn[n].failure THEN n ELSE @]

\* release_thread.
ReleaseThread(k) ==
    [FailContext(k) EXCEPT !.last = 0, !.ignored = 0, !.loaded = FALSE,
                           !.turn = [n \in Turns |-> NoTurn]]

Verdict(t) == IF t.failure \/ t.error THEN "raised" ELSE "completed"

\* A capture keeps the TurnState it waits for when another caller releases the turn: it
\* has its result if the turn was done, and will only time out if it was not.
Detached(f, k, S) ==
    [c \in Callers |->
        IF f[c].stage # "waiting" \/ f[c].turn \notin S THEN f[c]
        ELSE IF k.turn[f[c].turn].done
             THEN [f[c] EXCEPT !.stage = "woken", !.fut = Reply(Verdict(k.turn[f[c].turn]), 0)]
             ELSE [f[c] EXCEPT !.stage = "orphaned"]]

----------------------------------------------------------------------------
\* Requests.

Asked(goal) ==
    IF goal = "start" THEN "start"
    ELSE IF goal \in {"history", "find", "check", "recheck"} THEN "list"
    ELSE IF goal \in {"stop", "cut"} THEN "interrupt"
    ELSE "archive"

\* request: on a failed client it raises at once.
Issue(c, f) ==
    LET g == [f EXCEPT !.stage = "asking", !.fut = Waiting]
    IN  call' = [call EXCEPT ![c] = IF client.failed THEN [g EXCEPT !.fut = Error(g)] ELSE g]

Back(c) == call' = [call EXCEPT ![c] = Idle]

Asking(c) == call[c].stage \in {"resuming", "asking"} /\ call[c].fut.is = "wait"

\* What the callers in S leave behind when they give up; of several such requests the
\* process may serve the last, as long as a turn is left.
Unused == {n \in Turns : native[n] = "absent"}
LeftBy(S) ==
    LET T == {c \in S : At(c, "asking", "start") /\ Asking(c)}
    IN  late \/ (up /\ Unused # {} /\ T # {})

\* Mutated form: a request waits for its answer without a timeout.
RequestTimesOutNever(c) == FALSE /\ UNCHANGED vars

\* The wait_for of a request ends it; an answer that comes later finds no future.
RequestTimesOut(c) ==
    /\ Asking(c)
    /\ call' = [call EXCEPT ![c].fut = Error(call[c])]
    /\ late' = LeftBy({c})
    /\ UNCHANGED <<client, lock, up, native, owed, by, told, faults>>

----------------------------------------------------------------------------
\* ensure_initialized and ensure_thread.

InUse == {client.prepared} \cup {call[c].ctx : c \in Callers} \cup {by[n] : n \in Turns}
Free == Contexts \ InUse

\* Call f of c with client k: wait for the lock to replace the client, or go on without
\* a pause, and resume the thread in the process first if it has to be.
Go(c, k, f) ==
    /\ client' = k
    /\ IF ~k.on \/ k.failed
       THEN call' = [call EXCEPT ![c] = [f EXCEPT !.stage = "ensure"]]
       ELSE IF k.loaded THEN Issue(c, f)
       ELSE call' = [call EXCEPT ![c] = [f EXCEPT !.stage = "resuming", !.fut = Waiting]]

\* prepare_turn_context; the thread has one binding at a time.
Prepare(c, f) ==
    IF client.prepared # 0
    THEN Back(c) /\ UNCHANGED client
    ELSE Go(c, [client EXCEPT !.prepared = f.ctx], [f EXCEPT !.goal = "start"])

\* send: a client that is there is not looked at before the binding is made on it.
BeginSend(c) ==
    /\ "send" \in Uses[c] /\ call[c] = Idle /\ Free # {}
    /\ LET x == CHOOSE x \in Free : \A y \in Free : x <= y
           f == [Idle EXCEPT !.goal = "prepare", !.ctx = x]
       IN  IF client.on THEN Prepare(c, f) ELSE Go(c, client, f)
    /\ UNCHANGED <<lock, server, told, faults>>

\* The lock is free again and the client can be used.
Ready(c) ==
    /\ call[c].stage = "ensure" /\ client.on /\ ~client.failed
    /\ IF call[c].goal = "prepare" THEN Prepare(c, call[c]) ELSE Go(c, client, call[c])
    /\ UNCHANGED <<lock, server, told, faults>>

Resume(c) ==
    /\ call[c].stage = "resuming" /\ Resolved(c)
    /\ IF call[c].fut.is = "done"
       THEN client' = [client EXCEPT !.loaded = TRUE] /\ Issue(c, call[c])
       ELSE /\ client' = IF call[c].goal = "start" THEN FailContext(client) ELSE client
            /\ Back(c)
    /\ UNCHANGED <<lock, server, told, faults>>

\* One caller at a time replaces a missing or failed client.
Replace(c) ==
    /\ call[c].stage = "ensure" /\ lock = Nobody
    /\ ~client.on \/ client.failed
    /\ lock' = c
    /\ call' = [FailCalls(call) EXCEPT ![c].stage = IF client.on THEN "closing" ELSE "initializing"]
    /\ client' = IF client.on THEN FailClient(client) ELSE client
    /\ late' = LeftBy(Callers)
    /\ UNCHANGED <<up, native, owed, by, told, faults>>

BeginShutdown(c) ==
    /\ "shutdown" \in Uses[c] /\ call[c] = Idle /\ lock = Nobody /\ client.on
    /\ faults < MaxFaults /\ faults' = faults + 1
    /\ lock' = c
    /\ call' = [FailCalls(call) EXCEPT ![c].stage = "closing", ![c].goal = "shutdown"]
    /\ client' = FailClient(client)
    /\ late' = LeftBy(Callers)
    /\ UNCHANGED <<up, native, owed, by, told>>

\* The process is gone, with what it was asked and what it had to say.
Gone == up' = FALSE /\ late' = FALSE /\ owed' = {}

\* The rest of close, after the process has ended and the tasks are cancelled.  By then
\* every coroutine that the failure woke has run: the event loop is first in, first out.
CloseEnds(c) ==
    /\ call[c].stage = "closing"
    /\ \A d \in Callers : ~Resolved(d) /\ call[d].stage # "woken"
                          /\ ~(call[d].stage = "waiting" /\ client.turn[call[d].turn].done)
    /\ client' = NoClient
    /\ Gone
    /\ IF call[c].goal = "shutdown" THEN lock' = Nobody /\ Back(c)
       ELSE UNCHANGED lock /\ call' = [call EXCEPT ![c].stage = "initializing"]
    /\ UNCHANGED <<native, by, told, faults>>

\* A new client is started, and the caller that waited for it goes on; or it cannot be.
Initialize(c) ==
    /\ call[c].stage = "initializing"
    /\ lock' = Nobody
    /\ \/ /\ IF call[c].goal = "prepare"
             THEN Go(c, [NewClient EXCEPT !.prepared = call[c].ctx],
                        [call[c] EXCEPT !.goal = "start"])
             ELSE Go(c, NewClient, call[c])
          /\ up' = TRUE /\ UNCHANGED faults
       \/ /\ faults < MaxFaults /\ faults' = faults + 1
          /\ Back(c) /\ UNCHANGED <<client, up>>
    /\ UNCHANGED <<late, native, owed, by, told>>

----------------------------------------------------------------------------
\* The rest of _send, after turn/start was answered.

Started(c) ==
    LET n == call[c].fut.turn
        k == [client EXCEPT !.turn[n].tracked = TRUE, !.last = n]
    IN
    /\ At(c, "asking", "start") /\ Resolved(c)
    /\ IF call[c].fut.is # "turn"
       THEN client' = FailContext(client) /\ UNCHANGED received
       ELSE IF client.prepared = 0       \* "binding was lost before turn/start ACK"
       THEN client' = k /\ UNCHANGED received
       ELSE /\ client' = [k EXCEPT !.turn[n].ack = TRUE, !.turn[n].ctx = client.prepared,
                                   !.prepared = 0, !.tool = Woken(client, n)]
            /\ received' = received \cup {n}
    /\ Back(c)
    /\ UNCHANGED <<lock, server, outcome, faults>>

----------------------------------------------------------------------------
\* capture_delivery: of the turn that is still tracked, or from the history.

Begin(c, n, goal) ==
    /\ call[c] = Idle /\ n \in received
    /\ Go(c, client, [Idle EXCEPT !.goal = goal, !.turn = n])

BeginCapture(c, n) ==
    /\ "capture" \in Uses[c]
    /\ \/ /\ client.on /\ client.last = n
          /\ call[c] = Idle /\ n \in received
          /\ call' = [call EXCEPT ![c].stage = "waiting", ![c].turn = n]
          /\ UNCHANGED client
       \/ /\ ~(client.on /\ client.last = n)
          /\ Begin(c, n, "history")
    /\ UNCHANGED <<lock, server, told, faults>>

\* The caller is told v of its turn, and the turn is released.
Tell(c, v) ==
    LET n == call[c].turn
    IN  /\ outcome' = [outcome EXCEPT ![n] = IF @ \in {"none", "raised"} THEN v ELSE @]
        /\ client' = Release(client, n)
        /\ call' = Detached([call EXCEPT ![c] = Idle], client, {n})

Captured(c) ==
    /\ \/ /\ call[c].stage = "waiting" /\ client.turn[call[c].turn].done
          /\ Tell(c, Verdict(client.turn[call[c].turn]))
       \/ /\ call[c].stage = "woken"
          /\ Tell(c, call[c].fut.is)
    /\ UNCHANGED <<lock, server, received, faults>>

\* turn_timeout_s is over, or the watchdog has seen no progress for too long.
CaptureTimesOut(c) ==
    /\ \/ call[c].stage = "orphaned"
       \/ call[c].stage = "waiting" /\ ~client.turn[call[c].turn].done
    /\ Back(c)
    /\ UNCHANGED <<client, lock, server, told, faults>>

\* What capture_thread_turn and _pause_result_for_observed_turn make of a finished turn;
\* a completed one may exceed the output limit or lack its final message.
Verdicts(status, goal) ==
    IF status = "completed" THEN {"completed", "raised"}
    ELSE IF status = "interrupted" /\ goal # "history" THEN {"interrupted"}
    ELSE {"raised"}

\* What the history shows: a turn that has not ended is worth interrupting to a pause that
\* looks for it, and to a capture or a pause that waits for its end no better than no answer.
Finished == {"completed", "failed", "interrupted"}
Seen(status, goal) ==
    IF status \in Finished \/ (status = "running" /\ goal = "find") THEN status ELSE "error"

\* thread/turns/list was answered, for a capture or for a pause.
Listed(c) ==
    LET r == call[c].fut  goal == call[c].goal IN
    /\ call[c].stage = "asking" /\ Asked(goal) = "list" /\ Resolved(c)
    /\ \/ /\ r.is \in Finished
          /\ \E v \in Verdicts(r.is, goal) : Tell(c, v)
       \/ /\ r.is = "error"
          /\ Back(c)
          /\ UNCHANGED <<client, outcome>>
       \/ /\ r.is = "running" \/ (r.is = "error" /\ goal = "check")
          /\ Issue(c, [call[c] EXCEPT !.goal = IF goal = "find" THEN "stop" ELSE "recheck"])
          /\ UNCHANGED <<client, outcome>>
    /\ UNCHANGED <<lock, server, received, faults>>

----------------------------------------------------------------------------
\* pause_delivery interrupts and reconciles; abort_delivery interrupts, archives and
\* releases the thread whatever was answered; close releases only what was archived.

BeginControl(c, n, goal) ==
    /\ goal \in Uses[c]
    /\ Begin(c, n, goal)
    /\ UNCHANGED <<lock, server, told, faults>>

Interrupted(c) ==
    /\ call[c].stage = "asking" /\ Asked(call[c].goal) = "interrupt" /\ Resolved(c)
    /\ Issue(c, [call[c] EXCEPT !.goal = IF @ = "stop" THEN "check" ELSE "archive"])
    /\ UNCHANGED <<client, lock, server, told, faults>>

Archived(c) ==
    /\ call[c].stage = "asking" /\ Asked(call[c].goal) = "archive" /\ Resolved(c)
    /\ IF call[c].goal = "archive" \/ call[c].fut.is = "done"
       THEN /\ client' = ReleaseThread(client)
            /\ call' = Detached([call EXCEPT ![c] = Idle], client, Turns)
       ELSE Back(c) /\ UNCHANGED client
    /\ UNCHANGED <<lock, server, told, faults>>

----------------------------------------------------------------------------
\* _read_stdout, frame by frame.  The reader of a failed client goes on until it is
\* closed.  That a frame waits in the pipe is the process being slow to send it.

\* The end of a turn interrupt task; one that fails costs the client, and with it the
\* process if _interrupt_failed_turn is then waiting for an answer too.
AskEnds(n, ok) ==
    LET k == [client EXCEPT !.ask[n] = "none"] IN
    IF ok
    THEN /\ client' = IF n \in Failing /\ k.turn[n].tracked
                      THEN [k EXCEPT !.turn[n].done = TRUE] ELSE k
         /\ call' = WakeOrphans(call, {n} \cap Failing)
         /\ UNCHANGED <<up, late>>
    ELSE /\ client' = FailClient(client) /\ call' = FailCalls(call)
         /\ IF Failing # {} THEN up' = FALSE /\ late' = FALSE
            ELSE late' = LeftBy(Callers) /\ UNCHANGED up

\* A request of a turn interrupt task, which a failed client refuses.
Stays == UNCHANGED <<up, late, owed>>

Ask(k, n, kind) ==
    LET j == [k EXCEPT !.turn[n].asked = TRUE] IN
    IF k.turn[n].asked THEN client' = k /\ Stays
    ELSE IF ~k.failed THEN client' = [j EXCEPT !.ask[n] = kind] /\ Stays
    ELSE /\ client' = FailClient(j)
         /\ IF kind = "failure" THEN Gone ELSE Stays

\* Notifications of a turn that was released after it failed are ignored.
Ignored(n) == client.ignored = n /\ Stays /\ UNCHANGED client

HandleDelta(n) ==
    LET k == [client EXCEPT !.turn[n].tracked = TRUE] IN
    \/ client' = k /\ Stays
    \/ Ask([k EXCEPT !.turn[n].error = TRUE], n, "limit")    \* max_turn_output_bytes

\* Mutated form: only a failed turn is kept from being a success.
HandleCompletedLenient(n, status) ==
    LET t == client.turn[n] IN
    [client EXCEPT !.turn[n] =
        [t EXCEPT !.tracked = TRUE, !.done = TRUE,
                  !.failure = t.failure \/ status = "failed",
                  !.error = t.error \/ status = "failed"]]
HandleCompleted(n, status) ==
    LET t == client.turn[n] IN
    [client EXCEPT !.turn[n] =
        [t EXCEPT !.tracked = TRUE, !.done = TRUE,
                  !.failure = t.failure \/ status # "completed",
                  !.error = t.error \/ status # "completed"]]

HandleError(n) ==
    LET k == [client EXCEPT !.turn[n].tracked = TRUE] IN
    IF k.turn[n].done \/ k.turn[n].failure
    THEN client' = k /\ Stays
    ELSE Ask([k EXCEPT !.turn[n].failure = TRUE, !.turn[n].error = TRUE], n, "failure")

\* The output ends, or a write finds the pipe closed.
Broken ==
    /\ client.on /\ ~up /\ client.reading
    /\ client' = [FailClient(client) EXCEPT !.reading = FALSE]
    /\ call' = FailCalls(call)
    /\ UNCHANGED <<lock, server, told, faults>>

\* A turn interrupt was refused, or not answered in time.
AskTimesOut(n) ==
    /\ client.ask[n] # "none"
    /\ AskEnds(n, FALSE)
    /\ owed' = IF up' THEN owed ELSE {}
    /\ UNCHANGED <<lock, native, by, told, faults>>

----------------------------------------------------------------------------
\* _handle_server_request for item/tool/call.

\* Mutated form: a turn counts as active before its start was acknowledged.
ActiveUnacknowledged(t) == t.tracked /\ ~t.done /\ ~t.failure /\ ~t.error
Active(t) == t.tracked /\ t.ack /\ ~t.done /\ ~t.failure /\ ~t.error

\* contextual_turn_for_tool_call: only an active turn's tools run.
Checked(n) == IF Active(client.turn[n]) THEN [stage |-> "running", turn |-> n] ELSE NoTool

\* _start_server_request, or _reject_server_request at the limit.  While a binding is
\* being made the tool call waits for it.
HandleTool(n) ==
    LET S == {s \in Slots : client.tool[s].stage = "none"} IN
    /\ client' = IF S = {} THEN client
                 ELSE [client EXCEPT !.tool[CHOOSE s \in S : \A r \in S : s <= r] =
                          IF client.prepared # 0 THEN [stage |-> "waiting", turn |-> n]
                          ELSE Checked(n)]
    /\ Stays

\* A tool call that waited for the binding, which was acknowledged for its turn.
ToolGoesOn(s) ==
    /\ client.tool[s].stage = "check"
    /\ client' = [client EXCEPT !.tool[s] = Checked(client.tool[s].turn)]
    /\ UNCHANGED <<lock, call, server, told, faults>>

\* The tool is done, or the binding was not acknowledged in time.
ToolEnds(s) ==
    /\ client.tool[s].stage \in {"running", "waiting"}
    /\ client' = [client EXCEPT !.tool[s] = NoTool]
    /\ UNCHANGED <<lock, call, server, told, faults>>

----------------------------------------------------------------------------
\* The process (external).  It answers requests in any order; that it refuses one is the
\* same to its caller as a timeout.

NextTurn == CHOOSE n \in Unused : \A m \in Unused : n <= m

\* A new turn for the send with context x.
Starts(x) ==
    /\ Unused # {} /\ \A m \in Turns : native[m] # "running"
    /\ native' = [native EXCEPT ![NextTurn] = "running"]
    /\ by' = [by EXCEPT ![NextTurn] = x]
    /\ late' = (late /\ x # LateContext /\ Unused # {NextTurn})

Stopped(n) ==
    IF native[n] = "running"
    THEN native' = [native EXCEPT ![n] = "interrupted"] /\ owed' = owed \cup {n}
    ELSE UNCHANGED <<native, owed>>

Serve(c) ==
    LET Answer(is, n) == call' = [call EXCEPT ![c].fut = Reply(is, n)]
        what == IF call[c].stage = "resuming" THEN "resume" ELSE Asked(call[c].goal)
        n == call[c].turn
    IN
    /\ up /\ Asking(c)
    /\ \/ what = "start" /\ Starts(call[c].ctx) /\ Answer("turn", NextTurn) /\ UNCHANGED owed
       \/ what = "interrupt" /\ Stopped(n) /\ Answer("done", 0) /\ UNCHANGED <<late, by>>
       \/ what = "list" /\ Answer(Seen(native[n], call[c].goal), 0) /\ UNCHANGED <<late, native, owed, by>>
       \/ /\ what \in {"resume", "archive"} /\ Answer("done", 0)
          /\ UNCHANGED <<late, native, owed, by>>
    /\ UNCHANGED <<client, lock, up, told, faults>>

ServeLate ==
    /\ up /\ late /\ Starts(LateContext)
    /\ UNCHANGED <<client, lock, call, up, owed, told, faults>>

\* A turn interrupt of the client is answered.
ServeAsk(n) ==
    /\ up /\ client.ask[n] # "none"
    /\ Stopped(n) /\ AskEnds(n, TRUE)
    /\ UNCHANGED <<lock, by, told, faults>>

\* A running turn says something, fails for good or calls a tool.
Speak(n) ==
    /\ up /\ client.on /\ native[n] = "running"
    /\ \/ HandleTool(n)
       \/ Ignored(n)
       \/ client.ignored # n /\ (HandleDelta(n) \/ HandleError(n))
    /\ UNCHANGED <<lock, call, native, by, told, faults>>

\* A turn ends; then the process says so.
Ends(n) ==
    /\ up /\ native[n] = "running"
    /\ \E status \in Finished : native' = [native EXCEPT ![n] = status]
    /\ owed' = owed \cup {n}
    /\ UNCHANGED <<client, lock, call, up, late, by, told, faults>>

Announce(n) ==
    /\ up /\ client.on /\ n \in owed
    /\ owed' = owed \ {n}
    /\ client' = IF client.ignored = n THEN client ELSE HandleCompleted(n, native[n])
    /\ UNCHANGED <<lock, call, up, late, native, by, told, faults>>

Dies ==
    /\ up /\ faults < MaxFaults
    /\ faults' = faults + 1 /\ Gone
    /\ UNCHANGED <<client, lock, call, native, by, told>>

----------------------------------------------------------------------------
GoOn(c) ==
    \/ Ready(c) \/ Resume(c) \/ Replace(c) \/ CloseEnds(c) \/ Initialize(c)
    \/ Started(c) \/ Captured(c) \/ CaptureTimesOut(c) \/ Listed(c)
    \/ Interrupted(c) \/ Archived(c) \/ RequestTimesOut(c)

Next ==
    \/ \E c \in Callers :
          \/ BeginSend(c) \/ BeginShutdown(c) \/ GoOn(c)
          \/ \E n \in Turns : BeginCapture(c, n)
          \/ \E n \in Turns, goal \in {"find", "cut", "close"} : BeginControl(c, n, goal)
    \/ \E c \in Callers : Serve(c)
    \/ \E n \in Turns : ServeAsk(n) \/ Speak(n) \/ Ends(n) \/ Announce(n) \/ AskTimesOut(n)
    \/ ServeLate \/ Dies \/ Broken
    \/ \E s \in Slots : ToolGoesOn(s) \/ ToolEnds(s)

Spec == Init /\ [][Next]_vars

\* A call that can go on does, if only because a request or a capture times out; and
\* asyncio.Lock serves its waiters first in, first out.
FairSpec ==
    /\ Spec
    /\ \A c \in Callers : WF_vars(GoOn(c)) /\ SF_vars(Ready(c) \/ Replace(c))

----------------------------------------------------------------------------
\* Properties.

Statuses == {"absent", "running"} \cup Finished

TypeOK ==
    /\ client.prepared \in Contexts \cup {0}
    /\ client.last \in Turns \cup {0}
    /\ \A n \in Turns : client.turn[n].ctx \in Contexts \cup {0}
    /\ \A c \in Callers : call[c].turn \in Turns \cup {0}
    /\ lock \in Callers \cup {Nobody}
    /\ native \in [Turns -> Statuses]
    /\ \A n \in Turns : (native[n] = "absent") = (by[n] = 0)

\* When the client fails, nobody goes on waiting for it: every request has its error and
\* every capture of a tracked turn finds the turn done.
FailureWakesEveryone ==
    client.failed =>
        \A c \in Callers : /\ call[c].fut.is # "wait"
                           /\ call[c].stage = "waiting" => client.turn[call[c].turn].done

\* _lifecycle_lock is held by exactly the caller that replaces the client.
LockIsHeld ==
    \A c \in Callers : (lock = c) = (call[c].stage \in {"closing", "initializing"})

ClientConsistent == TypeOK /\ FailureWakesEveryone /\ LockIsHeld

\* A caller is told completed or interrupted only of a turn that is: transport failures,
\* interrupts, late answers and turns of a replaced client are never taken for success.
OutcomesAreNative ==
    \A n \in Turns :
        outcome[n] \in {"completed", "interrupted"} => native[n] = outcome[n]

\* "A tool callback that arrives before the start acknowledgment waits for it, then must
\* carry the exact acknowledged turn ID": a tool starts only in a turn whose receipt was
\* returned and whose outcome was not, with the context of the send that started the turn.
ToolsRunInTheirTurn ==
    [][\A s \in Slots :
          client.tool[s].stage # "running" /\ client'.tool[s].stage = "running" =>
              LET n == client'.tool[s].turn
              IN  n \in received /\ outcome[n] = "none" /\ client.turn[n].ctx = by[n]]_vars

\* Whatever the process does, every send, capture, pause, abort and close returns.
EveryCallReturns == \A c \in Callers : []<>(call[c] = Idle)

=============================================================================
