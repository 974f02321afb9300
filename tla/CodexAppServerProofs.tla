------------------------ MODULE CodexAppServerProofs ------------------------
(***************************************************************************)
(* Proofs about CodexAppServer, for any number of callers of which one     *)
(* sends, any number of turns and tool slots, and any number of faults.    *)
(***************************************************************************)
EXTENDS CodexAppServer, WellFoundedInduction, TLAPS

\* Most steps are first-order reasoning; those that are not name their prover.
USE Zenon

TurnState == [tracked : BOOLEAN, ack : BOOLEAN, ctx : Contexts \cup {0},
              done : BOOLEAN, failure : BOOLEAN, error : BOOLEAN, asked : BOOLEAN]
ToolTask == [stage : {"none", "waiting", "check", "running"}, turn : Turns \cup {0}]
Client == [on : BOOLEAN, failed : BOOLEAN, reading : BOOLEAN, loaded : BOOLEAN,
           prepared : Contexts \cup {0}, last : Turns \cup {0}, ignored : Turns \cup {0},
           turn : [Turns -> TurnState], tool : [Slots -> ToolTask],
           ask : [Turns -> {"none", "limit", "failure"}]]

Stages == {"idle", "ensure", "closing", "initializing", "resuming", "asking",
           "waiting", "woken", "orphaned"}
TurnGoals == {"history", "find", "stop", "check", "recheck", "cut", "archive", "close"}
Goals == {"none", "shutdown", "prepare", "start"} \cup TurnGoals
Kinds == {"none", "wait", "error", "done", "turn", "running", "raised"} \cup Finished
Future == [is : Kinds, turn : Turns \cup {0}]
Call == [stage : Stages, goal : Goals, turn : Turns \cup {0}, ctx : Contexts \cup {0},
         fut : Future]

Types ==
    /\ client \in Client
    /\ call \in [Callers -> Call]
    /\ lock \in Callers \cup {Nobody}
    /\ up \in BOOLEAN /\ late \in BOOLEAN
    /\ native \in [Turns -> Statuses]
    /\ owed \subseteq Turns
    /\ by \in [Turns -> Contexts \cup {0, LateContext}]
    /\ received \subseteq Turns
    /\ outcome \in [Turns -> {"none", "completed", "interrupted", "raised"}]

\* What a call g of caller c may look like.
Sends(c, g) ==
    /\ g.ctx # 0 <=> g.goal \in {"prepare", "start"}
    /\ g.ctx # 0 => "send" \in Uses[c]
    /\ g.goal \in TurnGoals => g.turn # 0
Shape(c, g) ==
    /\ Sends(c, g)
    /\ g.fut.is = "turn" => g.stage = "asking" /\ g.goal = "start" /\ g.fut.turn \in Turns
    /\ g.fut.is = "wait" => g.stage \in {"resuming", "asking"}
    /\ g.fut.is \in Finished => g.turn # 0
    /\ g.stage \in {"waiting", "woken", "orphaned"} => g.turn # 0 /\ g.goal = "none"
    /\ g.stage = "woken" => g.fut.is \in {"completed", "raised"}

\* What a call knows of the turns: its context is that of no turn with a receipt, its own
\* turn has one, and what it was answered is so.
Recalls(g) ==
    /\ g.ctx # 0 => \A n \in received : by[n] # g.ctx
    /\ g.goal = "prepare" => \A n \in Turns : by[n] # g.ctx
    /\ g.turn # 0 => g.turn \in received
Knows(g) ==
    /\ Recalls(g)
    /\ g.fut.is = "turn" => g.fut.turn \notin received /\ by[g.fut.turn] = g.ctx
    /\ g.fut.is \in Finished => native[g.turn] = g.fut.is

\* How a call stands to the client k.
Sees(g, k) ==
    /\ k.failed /\ k.prepared # 0 /\ g.goal = "start" => g.stage = "ensure"
    /\ g.stage = "waiting" => k.turn[g.turn].ack
    /\ k.failed => g.fut.is # "wait" /\ (g.stage = "waiting" => k.turn[g.turn].done)
    /\ ~k.on => g.stage \in {"idle", "ensure", "initializing", "orphaned"}
    /\ g.stage = "closing" => k.on /\ k.failed
    /\ g.stage = "initializing" => ~k.on

Held(c, g, l) == l = c <=> g.stage \in {"closing", "initializing"}

CallOK(c, g, k, l) == Shape(c, g) /\ Knows(g) /\ Sees(g, k) /\ Held(c, g, l)

\* A turn as the process and the callers know it.
NativeOK(n) ==
    /\ native[n] = "absent" <=> by[n] = 0
    /\ n \in received => native[n] # "absent"
    /\ n \in owed => native[n] \in Finished
    /\ outcome[n] # "none" => n \in received
    /\ outcome[n] \in {"completed", "interrupted"} => native[n] = outcome[n]

\* A turn as the client k knows it.  Only a TurnState whose start was acknowledged, or will
\* be, has to agree with the process: no other is captured.
Bound(k, n) == k.prepared # 0 /\ by[n] = k.prepared
Agrees(k, n) ==
    /\ k.ask[n] = "failure" => k.turn[n].failure
    /\ k.turn[n].done /\ ~k.turn[n].failure /\ ~k.turn[n].error => native[n] = "completed"
TurnOK(k, n) ==
    /\ k.turn[n].ack => /\ k.turn[n].tracked /\ k.turn[n].ctx = by[n]
                        /\ n \in received /\ outcome[n] = "none"
    /\ k.last = n /\ n \in received => k.turn[n].ack
    /\ k.failed /\ k.turn[n].ack => k.turn[n].done
    /\ native[n] = "absent" => ~k.turn[n].tracked /\ ~k.turn[n].done /\ k.ask[n] = "none"
    /\ k.turn[n].ack \/ Bound(k, n) => Agrees(k, n)

ToolsOK(k) == \A s \in Slots : k.tool[s].stage # "none" => k.tool[s].turn \in Turns

\* The binding of client k is that of a send that is under way.
Binds(k, f) ==
    k.prepared # 0 => \E c \in Callers : f[c].goal = "start" /\ f[c].ctx = k.prepared

ClientOK(k, f) == (~k.on => k = NoClient) /\ ToolsOK(k) /\ Binds(k, f)

IInv ==
    /\ Types
    /\ ClientOK(client, call)
    /\ \A n \in Turns : NativeOK(n) /\ TurnOK(client, n)
    /\ \A c \in Callers : CallOK(c, call[c], client, lock)

----------------------------------------------------------------------------
\* Numbers and records.

\* A set of naturals has a least element, so the least free context, unused turn and
\* empty slot exist whenever there is one.
LEMMA Least ==
    ASSUME NEW S, S \subseteq Nat, S # {}
    PROVE  \E x \in S : \A y \in S : x <= y
<1>. DEFINE R == OpToRel(<, Nat)
<1>1. IsWellFoundedOn(R, Nat)
  BY NatLessThanWellFounded
<1>2. \A x, y \in Nat : y < x => <<y, x>> \in R
  BY SMT DEF OpToRel
<1>. HIDE DEF R
<1>3. \E x \in S : \A y \in S : ~(<<y, x>> \in R)
  BY <1>1, WFMin
<1>4. \A x, y \in Nat : ~(y < x) => x <= y
  BY SMT
<1>. QED  BY <1>2, <1>3, <1>4

LEMMA Numbers ==
    /\ Turns \subseteq Nat /\ 0 \notin Turns
    /\ Contexts \subseteq Nat /\ 0 \notin Contexts
    /\ LateContext \notin Contexts /\ LateContext # 0
    /\ Slots \subseteq Nat
BY CodexConstants, SMT DEF Turns, Contexts, LateContext, Slots

LEMMA LeastFree ==
    ASSUME Free # {}
    PROVE  (CHOOSE x \in Free : \A y \in Free : x <= y) \in Free
<1>1. Free \subseteq Nat
  BY Numbers DEF Free
<1>. QED  BY <1>1, Least

LEMMA LeastUnused ==
    ASSUME Unused # {}
    PROVE  NextTurn \in Unused
<1>1. Unused \subseteq Nat
  BY Numbers DEF Unused
<1>. QED  BY <1>1, Least DEF NextTurn

LEMMA NoTurnFields ==
    /\ NoTurn \in TurnState
    /\ ~NoTurn.tracked /\ ~NoTurn.ack /\ ~NoTurn.done /\ ~NoTurn.failure /\ ~NoTurn.error
BY SMT DEF NoTurn, TurnState

LEMMA NoToolFields ==
    NoTool \in ToolTask /\ NoTool.stage = "none"
BY DEF NoTool, ToolTask

LEMMA NewClientFields ==
    /\ NewClient \in Client /\ NewClient.on /\ ~NewClient.failed /\ ~NewClient.loaded
    /\ NewClient.prepared = 0 /\ NewClient.last = 0
    /\ \A n \in Turns : NewClient.turn[n] = NoTurn /\ NewClient.ask[n] = "none"
    /\ \A s \in Slots : NewClient.tool[s] = NoTool
BY NoTurnFields, NoToolFields, SMT DEF NewClient, Client

LEMMA NoClientFields ==
    /\ NoClient \in Client /\ ~NoClient.on /\ ~NoClient.failed
    /\ NoClient.prepared = 0 /\ NoClient.last = 0
    /\ \A n \in Turns : NoClient.turn[n] = NoTurn /\ NoClient.ask[n] = "none"
    /\ \A s \in Slots : NoClient.tool[s] = NoTool
BY NewClientFields DEF NoClient, Client

LEMMA ClientFields ==
    ASSUME NEW k \in Client
    PROVE  /\ k.on \in BOOLEAN /\ k.failed \in BOOLEAN /\ k.loaded \in BOOLEAN
           /\ k.prepared \in Contexts \cup {0}
           /\ k.last \in Turns \cup {0} /\ k.ignored \in Turns \cup {0}
           /\ \A n \in Turns : k.turn[n] \in TurnState /\ k.ask[n] \in {"none", "limit", "failure"}
           /\ \A s \in Slots : k.tool[s] \in ToolTask
BY DEF Client

LEMMA IdleFields ==
    /\ Idle \in Call /\ Idle.stage = "idle" /\ Idle.goal = "none" /\ Idle.turn = 0
    /\ Idle.ctx = 0 /\ Idle.fut.is = "none" /\ Idle.fut = Reply("none", 0)
BY DEF Idle, Call, Future, Reply, Stages, Goals, Kinds

LEMMA ReplyFields ==
    ASSUME NEW is \in Kinds, NEW n \in Turns \cup {0}
    PROVE  /\ Reply(is, n).is = is /\ Reply(is, n).turn = n
           /\ Reply(is, n) \in Future
BY DEF Reply, Future

LEMMA CallFields ==
    ASSUME NEW g \in Call
    PROVE  /\ g.stage \in Stages /\ g.goal \in Goals /\ g.turn \in Turns \cup {0}
           /\ g.ctx \in Contexts \cup {0} /\ g.fut \in Future
           /\ g.fut.is \in Kinds /\ g.fut.turn \in Turns \cup {0}
BY DEF Call, Future

----------------------------------------------------------------------------
\* What the client's bookkeeping does to its fields.

\* Nothing but the binding and the tool calls changes from k to j.
SameTurns(k, j) == j.turn = k.turn /\ j.ask = k.ask /\ j.last = k.last
NoToolStarts(k, j) ==
    \A s \in Slots : j.tool[s].stage = "running" => k.tool[s].stage = "running"

LEMMA WokenTools ==
    ASSUME NEW k \in Client, ToolsOK(k), NEW n \in Turns \cup {0}, NEW s \in Slots
    PROVE  /\ Woken(k, n) \in [Slots -> ToolTask]
           /\ Woken(k, n)[s].stage = "running" => k.tool[s].stage = "running"
           /\ Woken(k, n)[s].stage # "none" => Woken(k, n)[s].turn \in Turns
<1>1. \A r \in Slots : k.tool[r] \in ToolTask
  BY ClientFields
<1>2. \A r \in Slots : [k.tool[r] EXCEPT !.stage = "check"] \in ToolTask
  BY <1>1 DEF ToolTask
<1>3. \A r \in Slots : Woken(k, n)[r] \in ToolTask
  BY <1>1, <1>2, NoToolFields DEF Woken
<1>4. /\ [k.tool[s] EXCEPT !.stage = "check"].stage = "check"
      /\ [k.tool[s] EXCEPT !.stage = "check"].turn = k.tool[s].turn
  BY <1>1 DEF ToolTask
<1>. QED  BY <1>3, <1>4, NoToolFields DEF Woken, ToolsOK

LEMMA FailContextFields ==
    ASSUME NEW k \in Client, ToolsOK(k)
    PROVE  LET j == FailContext(k) IN
           /\ j \in Client /\ ToolsOK(j) /\ SameTurns(k, j) /\ NoToolStarts(k, j)
           /\ j.prepared = 0 /\ j.on = k.on /\ j.failed = k.failed /\ j.loaded = k.loaded
           /\ j.reading = k.reading /\ j.ignored = k.ignored
<1>. DEFINE w == Woken(k, 0)
            j == FailContext(k)
<1>1. w \in [Slots -> ToolTask] /\ \A s \in Slots :
         /\ w[s].stage = "running" => k.tool[s].stage = "running"
         /\ w[s].stage # "none" => w[s].turn \in Turns
  <2>1. Slots # {}
    BY CodexConstants, SMT DEF Slots
  <2>. QED  BY <2>1, WokenTools
<1>2. j = [k EXCEPT !.prepared = 0, !.tool = w]
  BY DEF FailContext
<1>. HIDE DEF w, j
<1>3. j \in Client /\ j.tool = w /\ j.prepared = 0 /\ SameTurns(k, j)
      /\ j.on = k.on /\ j.failed = k.failed /\ j.loaded = k.loaded
      /\ j.reading = k.reading /\ j.ignored = k.ignored
  BY <1>1, <1>2 DEF Client, SameTurns
<1>4. ToolsOK(j) /\ NoToolStarts(k, j)
  BY <1>1, <1>3 DEF ToolsOK, NoToolStarts
<1>. QED  BY <1>3, <1>4 DEF j

\* _mark_failed ends every turn that is tracked; a turn that it changes counts as failed.
Ended(t, u) ==
    /\ u.tracked = t.tracked /\ u.ack = t.ack /\ u.ctx = t.ctx
    /\ t.tracked => u.done
    /\ t.failure => u.failure
    /\ u = t \/ (t.tracked /\ u.failure /\ u.error)

LEMMA FailClientFields ==
    ASSUME NEW k \in Client, ToolsOK(k)
    PROVE  LET j == FailClient(k) IN
           /\ j \in Client /\ ToolsOK(j) /\ NoToolStarts(k, j)
           /\ j.failed /\ j.prepared = 0 /\ j.on = k.on /\ j.last = k.last
           /\ \A n \in Turns : Ended(k.turn[n], j.turn[n]) /\ j.ask[n] = "none"
<1>. DEFINE h == FailContext(k)
            j == FailClient(k)
            e == [n \in Turns |->
                    IF h.turn[n].tracked /\ ~h.turn[n].done
                    THEN [h.turn[n] EXCEPT !.done = TRUE, !.failure = TRUE, !.error = TRUE]
                    ELSE h.turn[n]]
            a == [n \in Turns |-> "none"]
<1>1. /\ h \in Client /\ ToolsOK(h) /\ SameTurns(k, h) /\ NoToolStarts(k, h)
      /\ h.prepared = 0 /\ h.on = k.on
  BY FailContextFields
<1>. HIDE DEF h
<1>2. ASSUME NEW n \in Turns
      PROVE  e[n] \in TurnState /\ Ended(h.turn[n], e[n])
  <2>1. h.turn[n] \in TurnState
    BY <1>1, ClientFields
  <2>. QED  BY <2>1 DEF TurnState, Ended
<1>3. j = [h EXCEPT !.failed = TRUE, !.ask = a, !.turn = e]
  BY DEF FailClient, h
<1>4. e \in [Turns -> TurnState] /\ a \in [Turns -> {"none", "limit", "failure"}]
      /\ \A n \in Turns : a[n] = "none"
  BY <1>2
<1>. HIDE DEF j, e, a
<1>5. j \in Client /\ j.turn = e /\ j.ask = a /\ j.failed /\ j.prepared = h.prepared
      /\ j.on = h.on /\ j.last = h.last /\ j.tool = h.tool
  BY <1>1, <1>3, <1>4 DEF Client
<1>6. ToolsOK(j) /\ NoToolStarts(k, j)
  BY <1>1, <1>5 DEF ToolsOK, NoToolStarts
<1>. QED  BY <1>1, <1>2, <1>4, <1>5, <1>6 DEF j, SameTurns

LEMMA ReleaseFields ==
    ASSUME NEW k \in Client, NEW n \in Turns
    PROVE  LET j == Release(k, n) IN
           /\ j \in Client /\ j.tool = k.tool /\ j.ask = k.ask
           /\ j.prepared = k.prepared /\ j.on = k.on /\ j.failed = k.failed
           /\ j.last = k.last \/ j.last = 0
           /\ k.turn[n].tracked => j.turn[n] = NoTurn /\ j.last # n
           /\ \A m \in Turns : j.turn[m] = k.turn[m] \/ (m = n /\ j.turn[m] = NoTurn)
<1>. DEFINE j == Release(k, n)
            x == IF k.last = n THEN 0 ELSE k.last
            y == IF k.turn[n].failure THEN n ELSE k.ignored
            u == [k.turn EXCEPT ![n] = NoTurn]
<1>1. CASE ~k.turn[n].tracked
  BY <1>1 DEF Release
<1>2. CASE k.turn[n].tracked
  <2>1. x \in Turns \cup {0} /\ y \in Turns \cup {0} /\ x # n /\ (x = k.last \/ x = 0)
    BY ClientFields, Numbers
  <2>2. u \in [Turns -> TurnState] /\ u[n] = NoTurn /\ \A m \in Turns \ {n} : u[m] = k.turn[m]
    BY NoTurnFields DEF Client
  <2>3. j = [k EXCEPT !.turn = u, !.last = x, !.ignored = y]
    BY <1>2, SMT DEF Release, Client
  <2>. HIDE DEF j, x, y, u
  <2>4. j \in Client /\ j.turn = u /\ j.last = x /\ j.tool = k.tool /\ j.ask = k.ask
        /\ j.prepared = k.prepared /\ j.on = k.on /\ j.failed = k.failed
    BY <2>1, <2>2, <2>3 DEF Client
  <2>. QED  BY <2>1, <2>2, <2>4 DEF j
<1>. QED  BY <1>1, <1>2

LEMMA ReleaseThreadFields ==
    ASSUME NEW k \in Client, ToolsOK(k)
    PROVE  LET j == ReleaseThread(k) IN
           /\ j \in Client /\ ToolsOK(j) /\ NoToolStarts(k, j)
           /\ j.prepared = 0 /\ j.last = 0 /\ j.on = k.on /\ j.failed = k.failed
           /\ j.ask = k.ask /\ \A n \in Turns : j.turn[n] = NoTurn
<1>. DEFINE h == FailContext(k)
            j == ReleaseThread(k)
            u == [n \in Turns |-> NoTurn]
<1>1. /\ h \in Client /\ ToolsOK(h) /\ SameTurns(k, h) /\ NoToolStarts(k, h)
      /\ h.prepared = 0 /\ h.on = k.on /\ h.failed = k.failed
  BY FailContextFields
<1>2. u \in [Turns -> TurnState]
  BY NoTurnFields
<1>3. j = [h EXCEPT !.last = 0, !.ignored = 0, !.loaded = FALSE, !.turn = u]
  BY DEF ReleaseThread
<1>. HIDE DEF h, j, u
<1>4. j \in Client /\ j.tool = h.tool /\ j.ask = h.ask /\ j.turn = u /\ j.last = 0
      /\ j.prepared = h.prepared /\ j.on = h.on /\ j.failed = h.failed
  BY <1>1, <1>2, <1>3 DEF Client
<1>. QED  BY <1>1, <1>4 DEF j, u, ToolsOK, NoToolStarts, SameTurns

----------------------------------------------------------------------------
\* What the calls and the turns keep when something else changes.

World == UNCHANGED <<native, by, received, outcome>>

\* The action of ToolsRunInTheirTurn.
ToolStep ==
    \A s \in Slots :
        client.tool[s].stage # "running" /\ client'.tool[s].stage = "running" =>
            LET n == client'.tool[s].turn
            IN  n \in received /\ outcome[n] = "none" /\ client.turn[n].ctx = by[n]

LEMMA NoToolStep ==
    ASSUME NoToolStarts(client, client')
    PROVE  ToolStep
BY DEF NoToolStarts, ToolStep

\* Only one caller sends.
LEMMA Sender ==
    ASSUME NEW c \in Callers, NEW d \in Callers, NEW g, NEW h,
           Sends(c, g), Sends(d, h), g.ctx # 0, h.ctx # 0
    PROVE  c = d
BY OneSender DEF Sends

LEMMA CallOf ==
    ASSUME IInv, NEW c \in Callers
    PROVE  /\ call[c] \in Call /\ CallOK(c, call[c], client, lock)
           /\ Shape(c, call[c]) /\ Sends(c, call[c]) /\ Knows(call[c])
           /\ Recalls(call[c]) /\ Sees(call[c], client) /\ Held(c, call[c], lock)
BY DEF IInv, Types, CallOK, Shape, Knows

\* The send that the binding belongs to is the only one.
LEMMA Binder ==
    ASSUME IInv, client.prepared # 0, NEW c \in Callers,
           call[c].goal \in {"prepare", "start"}
    PROVE  call[c].goal = "start" /\ call[c].ctx = client.prepared
<1>1. PICK d \in Callers : call[d].goal = "start" /\ call[d].ctx = client.prepared
  BY DEF IInv, ClientOK, Binds
<1>2. Sends(c, call[c]) /\ Sends(d, call[d])
  BY CallOf
<1>3. call[c].ctx # 0 /\ call[d].ctx # 0
  BY <1>1, <1>2 DEF Sends
<1>4. c = d
  BY <1>2, <1>3, Sender
<1>. QED  BY <1>1, <1>4

\* Where the turns and what is known of them stay as they are.
LEMMA Conclude ==
    ASSUME IInv, World, owed' \subseteq owed,
           up' \in BOOLEAN, late' \in BOOLEAN, lock' \in Callers \cup {Nobody},
           client' \in Client, call' \in [Callers -> Call], ClientOK(client', call'),
           \A n \in Turns : TurnOK(client', n),
           \A c \in Callers : CallOK(c, call'[c], client', lock')
    PROVE  IInv'
<1>1. Types'
  BY DEF IInv, Types, World
<1>3. ASSUME NEW n \in Turns PROVE NativeOK(n)'
  BY DEF IInv, NativeOK, World
<1>4. ASSUME NEW n \in Turns PROVE TurnOK(client, n)'
  <2>1. TurnOK(client', n)
    OBVIOUS
  <2>. QED  BY <2>1 DEF TurnOK, Bound, Agrees, World
<1>5. ASSUME NEW c \in Callers PROVE CallOK(c, call[c], client, lock)'
  <2>1. CallOK(c, call'[c], client', lock')
    OBVIOUS
  <2>. QED  BY <2>1 DEF CallOK, Shape, Sends, Knows, Recalls, Sees, Held, World
<1>6. ClientOK(client, call)'
  BY DEF ClientOK, ToolsOK, Binds, NoClient, NewClient
<1>. QED  BY <1>1, <1>3, <1>4, <1>5, <1>6 DEF IInv

\* The client stays on or off, failed or not, and loses no mark of a turn.
Mild(k, j) ==
    /\ j.on = k.on /\ j.failed = k.failed
    /\ \A n \in Turns : /\ k.turn[n].ack => j.turn[n].ack
                        /\ k.turn[n].done => j.turn[n].done

LEMMA SeesKept ==
    ASSUME NEW c \in Callers, NEW g \in Call, NEW k, NEW j, Shape(c, g), Sees(g, k), Mild(k, j),
           j.prepared = 0 \/ j.prepared = k.prepared \/ ~j.failed \/ g.goal # "start"
    PROVE  Sees(g, j)
<1>1. g.stage = "waiting" => g.turn \in Turns
  BY CallFields DEF Shape
<1>. QED  BY <1>1 DEF Sees, Mild

\* One call changes, and the client mildly.
LEMMA OneCall ==
    ASSUME IInv, World, owed' \subseteq owed, up' \in BOOLEAN, late' \in BOOLEAN, lock' = lock,
           NEW c \in Callers, NEW g \in Call, call' = [call EXCEPT ![c] = g],
           call[c].stage \notin {"closing", "initializing"},
           g.stage \notin {"closing", "initializing"},
           client' \in Client, Mild(client, client'), ToolsOK(client'),
           ~client'.on => client' = NoClient,
           \A n \in Turns : TurnOK(client', n),
           Shape(c, g), Knows(g), Sees(g, client'),
           \/ client'.prepared = 0
           \/ client'.prepared = client.prepared /\ call[c].goal # "start"
           \/ client'.prepared = client.prepared /\ g.goal = call[c].goal /\ g.ctx = call[c].ctx
           \/ g.goal = "start" /\ g.ctx = client'.prepared
    PROVE  IInv'
<1>1. call \in [Callers -> Call] /\ lock \in Callers \cup {Nobody}
  BY DEF IInv, Types
<1>2. call' \in [Callers -> Call] /\ call'[c] = g /\ \A d \in Callers \ {c} : call'[d] = call[d]
  BY <1>1
<1>3. Binds(client', call')
  <2>. SUFFICES ASSUME client'.prepared # 0
                PROVE  \E d \in Callers : call'[d].goal = "start" /\ call'[d].ctx = client'.prepared
    BY DEF Binds
  <2>1. CASE g.goal = "start" /\ g.ctx = client'.prepared
    BY <2>1, <1>2
  <2>2. CASE /\ client'.prepared = client.prepared
             /\ call[c].goal # "start" \/ (g.goal = call[c].goal /\ g.ctx = call[c].ctx)
    <3>1. PICK d \in Callers : call[d].goal = "start" /\ call[d].ctx = client.prepared
      BY <2>2 DEF IInv, ClientOK, Binds
    <3>2. CASE d = c
      BY <3>1, <3>2, <2>2, <1>2
    <3>3. CASE d # c
      BY <3>1, <3>3, <2>2, <1>2
    <3>. QED  BY <3>2, <3>3
  <2>. QED  BY <2>1, <2>2
<1>4. CallOK(c, g, client', lock')
  <2>1. Held(c, call[c], lock)
    BY CallOf
  <2>2. Held(c, g, lock')
    BY <2>1 DEF Held
  <2>. QED  BY <2>2 DEF CallOK
<1>5. ASSUME NEW d \in Callers \ {c} PROVE CallOK(d, call[d], client', lock')
  <2>1. /\ call[d] \in Call /\ Shape(d, call[d]) /\ Knows(call[d])
        /\ Sees(call[d], client) /\ Held(d, call[d], lock) /\ Sends(d, call[d])
    BY CallOf
  <2>2. client'.prepared # 0 /\ call[d].goal = "start" => client'.prepared = client.prepared
    <3>. SUFFICES ASSUME client'.prepared # 0, call[d].goal = "start",
                         g.goal = "start" /\ g.ctx = client'.prepared
                  PROVE  FALSE
      OBVIOUS
    <3>1. call[d].ctx # 0 /\ g.ctx # 0 /\ Sends(c, g)
      BY <2>1 DEF Sends, Shape
    <3>. QED  BY <3>1, <2>1, Sender
  <2>3. Sees(call[d], client')
    BY <2>1, <2>2, SeesKept
  <2>. QED  BY <2>1, <2>3 DEF CallOK
<1>6. \A d \in Callers : CallOK(d, call'[d], client', lock')
  BY <1>2, <1>4, <1>5
<1>. QED  BY <1>1, <1>2, <1>3, <1>6, Conclude DEF ClientOK

\* Nothing that the calls or the turns depend on changes in the client.
LEMMA MildRefl ==
    ASSUME NEW k
    PROVE  Mild(k, k) /\ NoToolStarts(k, k)
BY DEF Mild, NoToolStarts

\* Without a binding, and otherwise the same turns.
LEMMA TurnsKept ==
    ASSUME NEW k, NEW j, SameTurns(k, j), j.failed = k.failed, NEW n \in Turns, TurnOK(k, n),
           Bound(j, n) => Bound(k, n)
    PROVE  TurnOK(j, n)
BY DEF TurnOK, SameTurns, Agrees

\* A call goes on to g, and nothing else happens.
LEMMA JustCall ==
    ASSUME IInv, UNCHANGED <<client, lock, up, native, owed, by, received, outcome>>,
           late' \in BOOLEAN,
           NEW c \in Callers, NEW g \in Call, call' = [call EXCEPT ![c] = g],
           call[c].stage \notin {"closing", "initializing"},
           g.stage \notin {"closing", "initializing"},
           Shape(c, g), Knows(g), Sees(g, client),
           \/ call[c].goal # "start"
           \/ g.goal = call[c].goal /\ g.ctx = call[c].ctx
    PROVE  IInv' /\ ToolStep
<1>1. World /\ owed' \subseteq owed /\ up' \in BOOLEAN /\ client' \in Client
  BY DEF World, IInv, Types
<1>2. Mild(client, client') /\ NoToolStarts(client, client')
  BY MildRefl
<1>3. ToolsOK(client') /\ (~client'.on => client' = NoClient) /\ \A n \in Turns : TurnOK(client', n)
  BY DEF IInv, ClientOK
<1>. QED  BY <1>1, <1>2, <1>3, OneCall, NoToolStep

----------------------------------------------------------------------------
\* Requests.

LEMMA IdleOK ==
    ASSUME NEW c \in Callers, NEW k
    PROVE  Shape(c, Idle) /\ Knows(Idle) /\ Sees(Idle, k)
<1>1. Shape(c, Idle)
  BY IdleFields DEF Shape, Sends, TurnGoals, Finished
<1>2. Knows(Idle)
  BY IdleFields DEF Knows, Recalls, Finished
<1>3. Sees(Idle, k)
  BY IdleFields DEF Sees
<1>. QED  BY <1>1, <1>2, <1>3

LEMMA ErrorFields ==
    ASSUME NEW f
    PROVE  Error(f) \in Future /\ Error(f).is \in {"error", "done"}
<1>1. \A x \in {"error", "done"} : x \in Kinds
  BY DEF Kinds
<1>2. \A x \in {"error", "done"} : Reply(x, 0).is = x /\ Reply(x, 0) \in Future
  BY <1>1, ReplyFields
<1>. QED  BY <1>2 DEF Error

LEMMA WaitingFields ==
    Waiting \in Future /\ Waiting.is = "wait"
<1>1. "wait" \in Kinds
  BY DEF Kinds
<1>. QED  BY <1>1, ReplyFields DEF Waiting

\* g is call f at another stage, or with another answer.
Still(f, g) == g.goal = f.goal /\ g.turn = f.turn /\ g.ctx = f.ctx

Staged(f, st) == [f EXCEPT !.stage = st]
Answered(f, r) == [f EXCEPT !.fut = r]
StagedAnswered(f, st, r) == [f EXCEPT !.stage = st, !.fut = r]

LEMMA StagedFields ==
    ASSUME NEW f \in Call, NEW st \in Stages
    PROVE  LET g == Staged(f, st) IN
           g \in Call /\ g.stage = st /\ g.fut = f.fut /\ Still(f, g)
BY DEF Call, Still, Staged

LEMMA AnsweredFields ==
    ASSUME NEW f \in Call, NEW r \in Future
    PROVE  LET g == Answered(f, r) IN
           g \in Call /\ g.stage = f.stage /\ g.fut = r /\ Still(f, g)
BY DEF Call, Still, Answered

LEMMA StagedAnsweredFields ==
    ASSUME NEW f \in Call, NEW st \in Stages, NEW r \in Future
    PROVE  LET g == StagedAnswered(f, st, r) IN
           g \in Call /\ g.stage = st /\ g.fut = r /\ Still(f, g)
BY DEF Call, Still, StagedAnswered

LEMMA IssueFields ==
    ASSUME NEW c \in Callers, NEW f \in Call, Issue(c, f)
    PROVE  \E g \in Call :
              /\ call' = [call EXCEPT ![c] = g] /\ g.stage = "asking" /\ Still(f, g)
              /\ client.failed => g.fut.is \in {"error", "done"}
              /\ ~client.failed => g.fut.is = "wait"
<1>. DEFINE h == StagedAnswered(f, "asking", Waiting)
            e == Answered(h, Error(h))
<1>1. call' = [call EXCEPT ![c] = IF client.failed THEN e ELSE h]
  BY DEF Issue, StagedAnswered, Answered
<1>2. h \in Call /\ h.stage = "asking" /\ Still(f, h) /\ h.fut.is = "wait"
  <2>1. "asking" \in Stages
    BY DEF Stages
  <2>2. Waiting \in Future /\ Waiting.is = "wait"
    BY WaitingFields
  <2>3. h \in Call /\ h.stage = "asking" /\ h.fut = Waiting /\ Still(f, h)
    BY <2>1, <2>2, StagedAnsweredFields, SMT
  <2>. QED  BY <2>2, <2>3
<1>. HIDE DEF h
<1>3. e \in Call /\ e.stage = "asking" /\ Still(h, e) /\ e.fut = Error(h)
  <2>1. Error(h) \in Future
    BY ErrorFields
  <2>. QED  BY <2>1, <1>2, AnsweredFields
<1>4. e.fut.is \in {"error", "done"}
  BY <1>3, ErrorFields
<1>. HIDE DEF e
<1>5. Still(f, e)
  BY <1>2, <1>3 DEF Still
<1>6. CASE client.failed
  <2>1. call' = [call EXCEPT ![c] = e]
    BY <1>1, <1>6
  <2>. QED  BY <2>1, <1>6, <1>3, <1>4, <1>5
<1>7. CASE ~client.failed
  <2>1. call' = [call EXCEPT ![c] = h]
    BY <1>1, <1>7
  <2>. QED  BY <2>1, <1>7, <1>2
<1>. QED  BY <1>6, <1>7

\* A call that goes on, to ask or to wait for the lock.
LEMMA GoFields ==
    ASSUME NEW c \in Callers, NEW f \in Call, NEW k \in Client, Go(c, k, f),
           k.loaded => k.failed = client.failed
    PROVE  client' = k /\ \E g \in Call :
              /\ call' = [call EXCEPT ![c] = g] /\ Still(f, g)
              /\ ~k.on \/ k.failed => g.stage = "ensure" /\ g.fut = f.fut
              /\ k.on /\ ~k.failed => g.stage \in {"resuming", "asking"} /\ g.fut.is = "wait"
<1>0. "ensure" \in Stages /\ "resuming" \in Stages
  BY DEF Stages
<1>1. CASE ~k.on \/ k.failed
  <2>1. call' = [call EXCEPT ![c] = Staged(f, "ensure")]
    BY <1>1 DEF Go, Staged
  <2>. QED  BY <2>1, <1>0, <1>1, StagedFields DEF Go
<1>2. CASE k.on /\ ~k.failed /\ k.loaded
  <2>1. Issue(c, f)
    BY <1>2 DEF Go
  <2>2. ~client.failed
    BY <1>2
  <2>. QED  BY <2>1, <2>2, <1>2, IssueFields DEF Go
<1>3. CASE k.on /\ ~k.failed /\ ~k.loaded
  <2>1. call' = [call EXCEPT ![c] = StagedAnswered(f, "resuming", Waiting)]
    BY <1>3 DEF Go, StagedAnswered
  <2>. DEFINE g == StagedAnswered(f, "resuming", Waiting)
  <2>2. Waiting \in Future /\ Waiting.is = "wait"
    BY WaitingFields
  <2>3. g \in Call /\ g.stage = "resuming" /\ g.fut = Waiting /\ Still(f, g)
    BY <1>0, <2>2, StagedAnsweredFields, SMT
  <2>. HIDE DEF g
  <2>4. call' = [call EXCEPT ![c] = g]
    BY <2>1 DEF g
  <2>. QED  BY <2>2, <2>3, <2>4, <1>3 DEF Go
<1>. QED  BY <1>1, <1>2, <1>3

\* The shape of a call that asks or waits for the lock, and what it knows.
LEMMA StillOK ==
    ASSUME NEW c \in Callers, NEW f, NEW g, Sends(c, f), Recalls(f), Still(f, g),
           g.stage \in {"ensure", "resuming", "asking"},
           g.fut.is \in {"none", "error", "done", "running"}
             \/ (g.fut.is = "wait" /\ g.stage # "ensure")
    PROVE  Shape(c, g) /\ Knows(g)
<1>1. Shape(c, g)
  BY DEF Shape, Sends, Still, Finished
<1>2. Knows(g)
  BY DEF Knows, Recalls, Still, Finished
<1>. QED  BY <1>1, <1>2

----------------------------------------------------------------------------
\* Steps of one call that leave the client alone.

\* A call that returns without having made a binding.
LEMMA JustBack ==
    ASSUME IInv, UNCHANGED <<client, lock, up, late, native, owed, by, received, outcome>>,
           NEW c \in Callers, Back(c), call[c].stage \notin {"closing", "initializing"},
           call[c].goal # "start"
    PROVE  IInv' /\ ToolStep
<1>1. call' = [call EXCEPT ![c] = Idle] /\ late' \in BOOLEAN
  BY DEF Back, IInv, Types
<1>2. Idle \in Call /\ Idle.stage \notin {"closing", "initializing"}
  BY IdleFields
<1>. QED  BY <1>1, <1>2, IdleOK, JustCall

\* A call f of caller c that asks or waits for the lock again, with the same client.
LEMMA JustGo ==
    ASSUME IInv, UNCHANGED <<client, lock, up, late, native, owed, by, received, outcome>>,
           NEW c \in Callers, NEW f \in Call, NEW g \in Call, call' = [call EXCEPT ![c] = g],
           call[c].stage \notin {"closing", "initializing"},
           Sends(c, f), Recalls(f), Still(f, g), call[c].goal # "start" \/ Still(call[c], f),
           g.stage \in {"ensure", "resuming", "asking"},
           g.goal # "start" \/ client.prepared = 0 \/ ~client.failed \/ g.stage = "ensure",
           \/ g.fut.is \in {"none", "error", "done"} /\ (~client.on => g.stage = "ensure")
           \/ g.fut.is = "wait" /\ client.on /\ ~client.failed /\ g.stage # "ensure"
    PROVE  IInv' /\ ToolStep
<1>1. late' \in BOOLEAN
  BY DEF IInv, Types
<1>2. Shape(c, g) /\ Knows(g)
  BY StillOK
<1>3. Sees(g, client)
  BY DEF Sees
<1>4. call[c].goal # "start" \/ (g.goal = call[c].goal /\ g.ctx = call[c].ctx)
  BY DEF Still
<1>. QED  BY <1>1, <1>2, <1>3, <1>4, JustCall

LEMMA IssueStep ==
    ASSUME IInv, UNCHANGED <<client, lock, up, late, native, owed, by, received, outcome>>,
           NEW c \in Callers, NEW f \in Call, Issue(c, f), call[c].stage = "asking",
           Sends(c, f), Recalls(f), call[c].goal # "start", f.goal # "start"
    PROVE  IInv' /\ ToolStep
<1>1. PICK g \in Call :
         /\ call' = [call EXCEPT ![c] = g] /\ g.stage = "asking" /\ Still(f, g)
         /\ client.failed => g.fut.is \in {"error", "done"}
         /\ ~client.failed => g.fut.is = "wait"
  BY IssueFields
<1>2. client.on
  BY CallOf DEF Sees
<1>3. g.goal # "start"
  BY <1>1 DEF Still
<1>. QED  BY <1>1, <1>2, <1>3, JustGo

LEMMA RequestTimesOutStep ==
    ASSUME IInv, NEW c \in Callers, RequestTimesOut(c)
    PROVE  IInv' /\ ToolStep
<1>. DEFINE g == Answered(call[c], Error(call[c]))
<1>1. /\ call[c] \in Call /\ Shape(c, call[c]) /\ Sends(c, call[c]) /\ Recalls(call[c])
      /\ Sees(call[c], client)
  BY CallOf
<1>2. g \in Call /\ g.stage = call[c].stage /\ g.fut.is \in {"error", "done"} /\ Still(call[c], g)
  BY <1>1, ErrorFields, AnsweredFields
<1>3. call' = [call EXCEPT ![c] = g]
  BY DEF RequestTimesOut, Answered
<1>. HIDE DEF g
<1>4. g.stage \in {"resuming", "asking"} /\ call[c].fut.is = "wait"
  BY <1>2 DEF RequestTimesOut, Asking
<1>5. Shape(c, g) /\ Knows(g)
  BY <1>1, <1>2, <1>4, StillOK
<1>6. Sees(g, client)
  BY <1>1, <1>2, <1>4 DEF Sees, Still
<1>7. late' \in BOOLEAN
  BY DEF RequestTimesOut, LeftBy, IInv, Types
<1>. QED  BY <1>2, <1>3, <1>4, <1>5, <1>6, <1>7, JustCall DEF RequestTimesOut, Still, told

LEMMA CaptureTimesOutStep ==
    ASSUME IInv, NEW c \in Callers, CaptureTimesOut(c)
    PROVE  IInv' /\ ToolStep
<1>1. call[c].stage \in {"orphaned", "waiting"} /\ Back(c)
  BY DEF CaptureTimesOut
<1>2. call[c].goal # "start"
  BY <1>1, CallOf DEF Shape
<1>. QED  BY <1>1, <1>2, JustBack DEF CaptureTimesOut, server, told

\* Goals and what is asked for them.
LEMMA AskedGoals ==
    ASSUME NEW goal \in Goals
    PROVE  /\ Asked(goal) = "start" <=> goal = "start"
           /\ Asked(goal) = "list" <=> goal \in {"history", "find", "check", "recheck"}
           /\ Asked(goal) = "interrupt" <=> goal \in {"stop", "cut"}
BY DEF Asked

\* A call that turns to another goal about its turn.
Retargeted(f, goal) == [f EXCEPT !.goal = goal]

LEMMA Retargets ==
    ASSUME NEW c \in Callers, NEW f \in Call, f.goal \in TurnGoals, Sends(c, f), Recalls(f),
           NEW goal \in TurnGoals
    PROVE  LET g == Retargeted(f, goal) IN
           g \in Call /\ g.goal = goal /\ Sends(c, g) /\ Recalls(g)
<1>. DEFINE g == Retargeted(f, goal)
<1>1. goal \in Goals
  BY DEF Goals
<1>2. /\ g \in Call /\ g.goal = goal /\ g.turn = f.turn /\ g.ctx = f.ctx /\ g.fut = f.fut
  BY <1>1 DEF Call, Retargeted
<1>. HIDE DEF g
<1>3. goal \notin {"prepare", "start"} /\ f.goal \notin {"prepare", "start"}
  BY DEF TurnGoals
<1>. QED  BY <1>2, <1>3 DEF Sends, Recalls, g

LEMMA InterruptedStep ==
    ASSUME IInv, NEW c \in Callers, Interrupted(c)
    PROVE  IInv' /\ ToolStep
<1>. DEFINE goal == IF call[c].goal = "stop" THEN "check" ELSE "archive"
            f == Retargeted(call[c], goal)
<1>1. call[c] \in Call /\ Sends(c, call[c]) /\ Recalls(call[c])
  BY CallOf
<1>2. call[c].goal \in {"stop", "cut"} /\ call[c].stage = "asking"
  <2>1. call[c].goal \in Goals
    BY <1>1, CallFields
  <2>. QED  BY <2>1, AskedGoals DEF Interrupted
<1>3. call[c].goal \in TurnGoals /\ goal \in TurnGoals /\ goal # "start"
  BY <1>2 DEF TurnGoals
<1>4. Issue(c, f)
  BY DEF Interrupted, Retargeted
<1>. HIDE DEF goal
<1>5. f \in Call /\ f.goal = goal /\ Sends(c, f) /\ Recalls(f)
  BY <1>1, <1>3, Retargets
<1>. HIDE DEF f
<1>6. call[c].goal # "start" /\ f.goal # "start"
  BY <1>2, <1>3, <1>5
<1>. QED  BY <1>2, <1>4, <1>5, <1>6, IssueStep DEF Interrupted, server, told

\* Call f goes on with the client as it is.
LEMMA GoStep ==
    ASSUME IInv, UNCHANGED <<lock, up, late, native, owed, by, received, outcome>>,
           NEW c \in Callers, NEW f \in Call, Go(c, client, f),
           call[c].stage \notin {"closing", "initializing"},
           Sends(c, f), Recalls(f), call[c].goal # "start" \/ Still(call[c], f),
           ~client.on \/ client.failed => f.fut.is = "none"
    PROVE  IInv' /\ ToolStep
<1>1. client \in Client
  BY DEF IInv, Types
<1>2. client' = client /\ \E g \in Call :
         /\ call' = [call EXCEPT ![c] = g] /\ Still(f, g)
         /\ ~client.on \/ client.failed => g.stage = "ensure" /\ g.fut = f.fut
         /\ client.on /\ ~client.failed => g.stage \in {"resuming", "asking"} /\ g.fut.is = "wait"
  BY <1>1, GoFields
<1>3. PICK g \in Call :
         /\ call' = [call EXCEPT ![c] = g] /\ Still(f, g)
         /\ ~client.on \/ client.failed => g.stage = "ensure" /\ g.fut = f.fut
         /\ client.on /\ ~client.failed => g.stage \in {"resuming", "asking"} /\ g.fut.is = "wait"
  BY <1>2
<1>4. g.stage \in {"ensure", "resuming", "asking"}
  BY <1>3
<1>5. g.goal # "start" \/ client.prepared = 0 \/ ~client.failed \/ g.stage = "ensure"
  BY <1>3
<1>6. \/ g.fut.is \in {"none", "error", "done"} /\ (~client.on => g.stage = "ensure")
      \/ g.fut.is = "wait" /\ client.on /\ ~client.failed /\ g.stage # "ensure"
  BY <1>3
<1>. QED  BY <1>2, <1>3, <1>4, <1>5, <1>6, JustGo

\* A call about turn n, which has a receipt.
LEMMA NewCall ==
    ASSUME NEW c \in Callers, NEW n \in Turns, n \in received, NEW goal \in TurnGoals
    PROVE  LET f == [Idle EXCEPT !.goal = goal, !.turn = n]
           IN  f \in Call /\ Sends(c, f) /\ Recalls(f) /\ f.fut.is = "none"
<1>. DEFINE f == [Idle EXCEPT !.goal = goal, !.turn = n]
<1>1. goal \in Goals /\ goal \notin {"prepare", "start"}
  BY DEF Goals, TurnGoals
<1>2. f \in Call /\ f.goal = goal /\ f.turn = n /\ f.ctx = 0 /\ f.fut.is = "none"
  <2>1. Idle \in Call /\ Idle.ctx = 0 /\ Idle.fut.is = "none"
    BY IdleFields
  <2>. QED  BY <2>1, <1>1 DEF Call
<1>. HIDE DEF f
<1>3. n # 0
  BY Numbers
<1>. QED  BY <1>1, <1>2, <1>3 DEF Sends, Recalls, f

LEMMA BeginStep ==
    ASSUME IInv, NEW c \in Callers, NEW n \in Turns, NEW goal \in TurnGoals, Begin(c, n, goal),
           UNCHANGED <<lock, server, told, faults>>
    PROVE  IInv' /\ ToolStep
<1>. DEFINE f == [Idle EXCEPT !.goal = goal, !.turn = n]
<1>1. f \in Call /\ Sends(c, f) /\ Recalls(f) /\ f.fut.is = "none"
  BY NewCall DEF Begin
<1>2. Go(c, client, f)
  BY DEF Begin
<1>. HIDE DEF f
<1>3. call[c].stage \notin {"closing", "initializing"} /\ call[c].goal # "start"
  BY IdleFields DEF Begin
<1>. QED  BY <1>1, <1>2, <1>3, GoStep DEF server, told

LEMMA BeginControlStep ==
    ASSUME IInv, NEW c \in Callers, NEW n \in Turns, NEW goal \in {"find", "cut", "close"},
           BeginControl(c, n, goal)
    PROVE  IInv' /\ ToolStep
<1>1. goal \in TurnGoals
  BY DEF TurnGoals
<1>. QED  BY <1>1, BeginStep DEF BeginControl

LEMMA BeginCaptureStep ==
    ASSUME IInv, NEW c \in Callers, NEW n \in Turns, BeginCapture(c, n)
    PROVE  IInv' /\ ToolStep
<1>1. CASE ~(client.on /\ client.last = n) /\ Begin(c, n, "history")
  <2>1. "history" \in TurnGoals
    BY DEF TurnGoals
  <2>. QED  BY <1>1, <2>1, BeginStep DEF BeginCapture
<1>2. CASE /\ client.on /\ client.last = n /\ call[c] = Idle /\ n \in received
           /\ call' = [call EXCEPT ![c].stage = "waiting", ![c].turn = n]
           /\ UNCHANGED client
  <2>. DEFINE g == [Idle EXCEPT !.stage = "waiting", !.turn = n]
  <2>1. call \in [Callers -> Call]
    BY DEF IInv, Types
  <2>2. call' = [call EXCEPT ![c] = g]
    BY <1>2, <2>1
  <2>3. /\ g \in Call /\ g.stage = "waiting" /\ g.turn = n /\ g.ctx = 0 /\ g.goal = "none"
        /\ g.fut.is = "none"
    <3>1. Idle \in Call /\ Idle.ctx = 0 /\ Idle.goal = "none" /\ Idle.fut.is = "none"
      BY IdleFields
    <3>2. "waiting" \in Stages
      BY DEF Stages
    <3>. QED  BY <3>1, <3>2 DEF Call
  <2>. HIDE DEF g
  <2>4. n # 0
    BY Numbers
  <2>5. Shape(c, g)
    BY <2>3, <2>4 DEF Shape, Sends, TurnGoals, Finished
  <2>6. Knows(g)
    BY <2>3, <2>4, <1>2 DEF Knows, Recalls, Finished
  <2>7. client.turn[n].ack /\ (client.failed => client.turn[n].done)
    <3>1. TurnOK(client, n)
      BY DEF IInv
    <3>. QED  BY <3>1, <1>2 DEF TurnOK
  <2>8. Sees(g, client)
    BY <2>3, <2>7, <1>2 DEF Sees
  <2>9. call[c].stage \notin {"closing", "initializing"} /\ call[c].goal # "start"
    BY <1>2, IdleFields
  <2>10. late' \in BOOLEAN /\ g.stage \notin {"closing", "initializing"}
    BY <2>3 DEF BeginCapture, server, IInv, Types
  <2>. QED  BY <1>2, <2>2, <2>3, <2>5, <2>6, <2>8, <2>9, <2>10, JustCall
              DEF BeginCapture, server, told
<1>. QED  BY <1>1, <1>2 DEF BeginCapture

----------------------------------------------------------------------------
\* The binding of a send.

WithBinding(k, x) == [k EXCEPT !.prepared = x]

LEMMA WithBindingFields ==
    ASSUME NEW k \in Client, NEW x \in Contexts \cup {0}
    PROVE  LET j == WithBinding(k, x) IN
           /\ j \in Client /\ SameTurns(k, j) /\ j.tool = k.tool /\ j.prepared = x
           /\ j.on = k.on /\ j.failed = k.failed /\ j.loaded = k.loaded
BY DEF Client, SameTurns, WithBinding

\* A call that prepares, once its binding is made.
LEMMA ToStart ==
    ASSUME NEW c \in Callers, NEW f \in Call, f.goal = "prepare", Sends(c, f), Recalls(f)
    PROVE  LET h == Retargeted(f, "start") IN
           /\ h \in Call /\ h.goal = "start" /\ h.ctx = f.ctx /\ h.fut = f.fut
           /\ Sends(c, h) /\ Recalls(h)
<1>. DEFINE h == Retargeted(f, "start")
<1>1. "start" \in Goals /\ "start" \notin TurnGoals
  BY DEF Goals, TurnGoals
<1>2. h \in Call /\ h.goal = "start" /\ h.turn = f.turn /\ h.ctx = f.ctx /\ h.fut = f.fut
  BY <1>1 DEF Call, Retargeted
<1>. HIDE DEF h
<1>. QED  BY <1>1, <1>2 DEF Sends, Recalls, h

LEMMA PrepareStep ==
    ASSUME IInv, UNCHANGED <<lock, up, late, native, owed, by, received, outcome>>,
           NEW c \in Callers, NEW f \in Call, Prepare(c, f), client.on,
           f.goal = "prepare", Sends(c, f), Recalls(f), client.failed => f.fut.is = "none",
           call[c].stage \notin {"closing", "initializing"}, call[c].goal # "start"
    PROVE  IInv' /\ ToolStep
<1>1. CASE client.prepared # 0
  BY <1>1, JustBack DEF Prepare
<1>2. CASE client.prepared = 0
  <2>. DEFINE k == WithBinding(client, f.ctx)
              h == Retargeted(f, "start")
  <2>1. Go(c, k, h)
    BY <1>2 DEF Prepare, WithBinding, Retargeted
  <2>2. /\ h \in Call /\ h.goal = "start" /\ h.ctx = f.ctx /\ h.fut = f.fut
        /\ Sends(c, h) /\ Recalls(h)
    BY ToStart
  <2>3. client \in Client /\ f.ctx \in Contexts \cup {0} /\ f.ctx # 0
    BY CallFields DEF IInv, Types, Sends
  <2>4. /\ k \in Client /\ SameTurns(client, k) /\ k.tool = client.tool /\ k.prepared = f.ctx
        /\ k.on = client.on /\ k.failed = client.failed
    BY <2>3, WithBindingFields
  <2>. HIDE DEF k, h
  <2>5. client' = k /\ \E g \in Call :
              /\ call' = [call EXCEPT ![c] = g] /\ Still(h, g)
              /\ ~k.on \/ k.failed => g.stage = "ensure" /\ g.fut = h.fut
              /\ k.on /\ ~k.failed => g.stage \in {"resuming", "asking"} /\ g.fut.is = "wait"
    BY <2>1, <2>2, <2>4, GoFields
  <2>6. PICK g \in Call :
              /\ call' = [call EXCEPT ![c] = g] /\ Still(h, g)
              /\ k.failed => g.stage = "ensure" /\ g.fut = h.fut
              /\ ~k.failed => g.stage \in {"resuming", "asking"} /\ g.fut.is = "wait"
    BY <2>4, <2>5
  <2>7. /\ g.stage \in {"ensure", "resuming", "asking"}
        /\ g.fut.is \in {"none", "error", "done", "running"}
             \/ (g.fut.is = "wait" /\ g.stage # "ensure")
    BY <2>2, <2>4, <2>6
  <2>8. Shape(c, g) /\ Knows(g)
    BY <2>2, <2>6, <2>7, StillOK
  <2>9. Sees(g, client') /\ g.goal = "start" /\ g.ctx = client'.prepared
    BY <2>2, <2>4, <2>5, <2>6, <2>7 DEF Sees, Still
  <2>10. Mild(client, client') /\ NoToolStarts(client, client') /\ ToolsOK(client') /\ client'.on
    BY <2>4, <2>5 DEF Mild, SameTurns, NoToolStarts, ToolsOK, IInv, ClientOK
  <2>11. ASSUME NEW n \in Turns PROVE TurnOK(client', n)
    <3>1. ~Bound(k, n)
      BY <2>4 DEF Bound, Recalls
    <3>2. TurnOK(client, n)
      BY DEF IInv
    <3>3. TurnOK(k, n)
      BY <2>4, <3>1, <3>2, TurnsKept
    <3>. QED  BY <3>3, <2>5
  <2>12. World /\ owed' \subseteq owed /\ up' \in BOOLEAN /\ late' \in BOOLEAN
    BY DEF World, IInv, Types
  <2>13. client' \in Client /\ g.stage \notin {"closing", "initializing"} /\ lock' = lock
    BY <2>4, <2>5, <2>7
  <2>14. IInv'
    BY <2>6, <2>8, <2>9, <2>10, <2>11, <2>12, <2>13, OneCall
  <2>. QED  BY <2>10, <2>14, NoToolStep
<1>. QED  BY <1>1, <1>2

LEMMA BeginSendStep ==
    ASSUME IInv, NEW c \in Callers, BeginSend(c)
    PROVE  IInv' /\ ToolStep
<1>. DEFINE x == CHOOSE x \in Free : \A y \in Free : x <= y
            f == [Idle EXCEPT !.goal = "prepare", !.ctx = x]
<1>1. x \in Free
  BY LeastFree DEF BeginSend
<1>2. IF client.on THEN Prepare(c, f) ELSE Go(c, client, f)
  BY DEF BeginSend
<1>. HIDE DEF x
<1>3. x \in Contexts /\ x # 0 /\ \A n \in Turns : by[n] # x
  BY <1>1, Numbers DEF Free, InUse
<1>4. f \in Call /\ f.goal = "prepare" /\ f.turn = 0 /\ f.ctx = x /\ f.fut.is = "none"
  <2>1. Idle \in Call /\ Idle.turn = 0 /\ Idle.fut.is = "none"
    BY IdleFields
  <2>2. "prepare" \in Goals
    BY DEF Goals
  <2>. QED  BY <2>1, <2>2, <1>3 DEF Call
<1>. HIDE DEF f
<1>5. Sends(c, f) /\ Recalls(f)
  <2>1. "prepare" \notin TurnGoals /\ received \subseteq Turns
    BY DEF TurnGoals, IInv, Types
  <2>. QED  BY <2>1, <1>3, <1>4 DEF Sends, Recalls, BeginSend
<1>6. call[c].stage \notin {"closing", "initializing"} /\ call[c].goal # "start"
  BY IdleFields DEF BeginSend
<1>7. CASE client.on
  BY <1>2, <1>4, <1>5, <1>6, <1>7, PrepareStep DEF BeginSend, server, told
<1>8. CASE ~client.on
  BY <1>2, <1>4, <1>5, <1>6, <1>8, GoStep DEF BeginSend, server, told
<1>. QED  BY <1>7, <1>8

LEMMA ReadyStep ==
    ASSUME IInv, NEW c \in Callers, Ready(c)
    PROVE  IInv' /\ ToolStep
<1>1. call[c] \in Call /\ Sends(c, call[c]) /\ Recalls(call[c])
  BY CallOf
<1>2. call[c].stage = "ensure" /\ client.on /\ ~client.failed
  BY DEF Ready
<1>3. CASE call[c].goal = "prepare"
  BY <1>1, <1>2, <1>3, PrepareStep DEF Ready, server, told
<1>4. CASE call[c].goal # "prepare"
  <2>1. Still(call[c], call[c])
    BY DEF Still
  <2>. QED  BY <1>1, <1>2, <1>4, <2>1, GoStep DEF Ready, server, told
<1>. QED  BY <1>3, <1>4

\* A send that returns gives its binding up.
LEMMA GivesUpStep ==
    ASSUME IInv, UNCHANGED <<lock, up, late, native, owed, by, received, outcome>>,
           NEW c \in Callers, Back(c), call[c].stage \notin {"closing", "initializing"},
           client.on, client' = FailContext(client)
    PROVE  IInv' /\ ToolStep
<1>1. client \in Client /\ ToolsOK(client)
  BY DEF IInv, Types, ClientOK
<1>2. /\ client' \in Client /\ ToolsOK(client') /\ SameTurns(client, client')
      /\ NoToolStarts(client, client') /\ client'.prepared = 0
      /\ client'.on = client.on /\ client'.failed = client.failed
  BY <1>1, FailContextFields
<1>3. Mild(client, client')
  BY <1>2 DEF Mild, SameTurns
<1>4. ASSUME NEW n \in Turns PROVE TurnOK(client', n)
  <2>1. ~Bound(client', n) /\ TurnOK(client, n)
    BY <1>2 DEF Bound, IInv
  <2>2. PICK j : j = client'
    OBVIOUS
  <2>3. TurnOK(j, n)
    BY <1>2, <2>1, <2>2, TurnsKept
  <2>. QED  BY <2>2, <2>3
<1>5. World /\ owed' \subseteq owed /\ up' \in BOOLEAN /\ late' \in BOOLEAN
  BY DEF World, IInv, Types
<1>6. call' = [call EXCEPT ![c] = Idle] /\ Idle \in Call /\ Idle.stage \notin {"closing", "initializing"}
  BY IdleFields DEF Back
<1>7. Shape(c, Idle) /\ Knows(Idle) /\ Sees(Idle, client')
  BY IdleOK
<1>8. IInv'
  BY <1>2, <1>3, <1>4, <1>5, <1>6, <1>7, OneCall
<1>. QED  BY <1>2, <1>8, NoToolStep

LEMMA ResumeStep ==
    ASSUME IInv, NEW c \in Callers, Resume(c)
    PROVE  IInv' /\ ToolStep
<1>1. /\ call[c] \in Call /\ Shape(c, call[c]) /\ Sends(c, call[c]) /\ Recalls(call[c])
      /\ Sees(call[c], client)
  BY CallOf
<1>2. call[c].stage = "resuming" /\ client.on
  BY <1>1 DEF Resume, Sees
<1>3. client \in Client /\ ToolsOK(client)
  BY DEF IInv, Types, ClientOK
<1>4. CASE call[c].fut.is = "done"
  <2>. DEFINE k == [client EXCEPT !.loaded = TRUE]
  <2>1. client' = k /\ Issue(c, call[c])
    BY <1>4 DEF Resume
  <2>2. /\ k \in Client /\ SameTurns(client, k) /\ k.tool = client.tool
        /\ k.on = client.on /\ k.failed = client.failed /\ k.prepared = client.prepared
    BY <1>3 DEF Client, SameTurns
  <2>. HIDE DEF k
  <2>3. PICK g \in Call :
            /\ call' = [call EXCEPT ![c] = g] /\ g.stage = "asking" /\ Still(call[c], g)
            /\ client.failed => g.fut.is \in {"error", "done"}
            /\ ~client.failed => g.fut.is = "wait"
    BY <1>1, <2>1, IssueFields
  <2>4. Shape(c, g) /\ Knows(g)
    BY <1>1, <2>3, StillOK
  <2>5. Sees(g, k)
    BY <1>1, <1>2, <2>2, <2>3 DEF Sees, Still
  <2>6. Mild(client, k) /\ NoToolStarts(client, k) /\ ToolsOK(k)
    BY <1>3, <2>2 DEF Mild, SameTurns, NoToolStarts, ToolsOK
  <2>7. ASSUME NEW n \in Turns PROVE TurnOK(k, n)
    <3>1. TurnOK(client, n) /\ (Bound(k, n) => Bound(client, n))
      BY <2>2 DEF IInv, Bound
    <3>. QED  BY <2>2, <3>1, TurnsKept
  <2>8. World /\ owed' \subseteq owed /\ up' \in BOOLEAN /\ late' \in BOOLEAN /\ lock' = lock
    BY DEF Resume, server, told, World, IInv, Types
  <2>9. client' \in Client /\ Mild(client, client') /\ ToolsOK(client') /\ client'.on
        /\ (\A n \in Turns : TurnOK(client', n)) /\ Sees(g, client')
        /\ client'.prepared = client.prepared /\ NoToolStarts(client, client')
    BY <2>1, <2>2, <2>5, <2>6, <2>7, <1>2
  <2>10. g.goal = call[c].goal /\ g.ctx = call[c].ctx /\ g.stage \notin {"closing", "initializing"}
         /\ call[c].stage \notin {"closing", "initializing"}
    BY <1>2, <2>3 DEF Still
  <2>11. IInv'
    BY <2>3, <2>4, <2>8, <2>9, <2>10, OneCall
  <2>. QED  BY <2>9, <2>11, NoToolStep
<1>5. CASE call[c].fut.is # "done" /\ call[c].goal = "start"
  BY <1>2, <1>5, GivesUpStep DEF Resume, server, told
<1>6. CASE call[c].fut.is # "done" /\ call[c].goal # "start"
  BY <1>2, <1>6, JustBack DEF Resume, server, told
<1>. QED  BY <1>4, <1>5, <1>6

----------------------------------------------------------------------------
\* The answer to turn/start.

\* From k to j only turn n changes, and what is named.
OnlyTurn(k, j, n) == \A m \in Turns \ {n} : j.turn[m] = k.turn[m]

SetTurn(k, n, t) == [k EXCEPT !.turn[n] = t]
LEMMA SetTurnFields ==
    ASSUME NEW k \in Client, NEW n \in Turns, NEW t \in TurnState
    PROVE  LET j == SetTurn(k, n, t) IN
           /\ j \in Client /\ j.turn[n] = t /\ OnlyTurn(k, j, n)
           /\ j.tool = k.tool /\ j.ask = k.ask /\ j.last = k.last /\ j.prepared = k.prepared
           /\ j.on = k.on /\ j.failed = k.failed
<1>. DEFINE u == [k.turn EXCEPT ![n] = t]
            j == SetTurn(k, n, t)
<1>1. u \in [Turns -> TurnState] /\ u[n] = t /\ \A m \in Turns \ {n} : u[m] = k.turn[m]
  BY DEF Client
<1>2. j = [k EXCEPT !.turn = u]
  BY DEF SetTurn
<1>. HIDE DEF u, j
<1>3. /\ j \in Client /\ j.turn = u
      /\ j.tool = k.tool /\ j.ask = k.ask /\ j.last = k.last /\ j.prepared = k.prepared
      /\ j.on = k.on /\ j.failed = k.failed
  BY <1>1, <1>2 DEF Client
<1>. QED  BY <1>1, <1>3 DEF j, OnlyTurn

Track(k, n) == SetTurn(k, n, [k.turn[n] EXCEPT !.tracked = TRUE])
LEMMA TrackFields ==
    ASSUME NEW k \in Client, NEW n \in Turns
    PROVE  LET j == Track(k, n) t == k.turn[n] IN
           /\ j \in Client /\ OnlyTurn(k, j, n)
           /\ j.turn[n].tracked /\ j.turn[n].ack = t.ack /\ j.turn[n].ctx = t.ctx
           /\ j.turn[n].done = t.done /\ j.turn[n].failure = t.failure
           /\ j.turn[n].error = t.error /\ j.turn[n].asked = t.asked
           /\ j.tool = k.tool /\ j.ask = k.ask /\ j.last = k.last /\ j.prepared = k.prepared
           /\ j.on = k.on /\ j.failed = k.failed
<1>. DEFINE t == k.turn[n]
            u == [t EXCEPT !.tracked = TRUE]
<1>1. t \in TurnState
  BY ClientFields
<1>. HIDE DEF t
<1>2. /\ u \in TurnState /\ u.tracked /\ u.ack = t.ack /\ u.ctx = t.ctx /\ u.done = t.done
      /\ u.failure = t.failure /\ u.error = t.error /\ u.asked = t.asked
  BY <1>1 DEF TurnState
<1>3. Track(k, n) = SetTurn(k, n, u)
  BY DEF Track, t
<1>. HIDE DEF u
<1>. DEFINE j == SetTurn(k, n, u)
<1>4. /\ j \in Client /\ j.turn[n] = u /\ OnlyTurn(k, j, n)
      /\ j.tool = k.tool /\ j.ask = k.ask /\ j.last = k.last /\ j.prepared = k.prepared
      /\ j.on = k.on /\ j.failed = k.failed
  BY <1>2, SetTurnFields, SMT
<1>. HIDE DEF j
<1>5. Track(k, n) = j
  BY <1>3 DEF j
<1>. QED  BY <1>2, <1>4, <1>5 DEF t

Latest(k, n) == [Track(k, n) EXCEPT !.last = n]
LEMMA LatestFields ==
    ASSUME NEW k \in Client, NEW n \in Turns
    PROVE  LET j == Latest(k, n) t == k.turn[n] IN
           /\ j \in Client /\ OnlyTurn(k, j, n) /\ j.last = n
           /\ j.turn[n].tracked /\ j.turn[n].ack = t.ack /\ j.turn[n].ctx = t.ctx
           /\ j.turn[n].done = t.done /\ j.turn[n].failure = t.failure
           /\ j.turn[n].error = t.error
           /\ j.tool = k.tool /\ j.ask = k.ask /\ j.prepared = k.prepared
           /\ j.on = k.on /\ j.failed = k.failed
<1>. DEFINE h == Track(k, n)
            j == Latest(k, n)
<1>1. h \in Client
  BY TrackFields
<1>2. j = [h EXCEPT !.last = n]
  BY DEF Latest
<1>3. h.turn[n].tracked /\ OnlyTurn(k, h, n)
      /\ h.turn[n].ack = k.turn[n].ack /\ h.turn[n].ctx = k.turn[n].ctx
      /\ h.turn[n].done = k.turn[n].done /\ h.turn[n].failure = k.turn[n].failure
      /\ h.turn[n].error = k.turn[n].error
      /\ h.tool = k.tool /\ h.ask = k.ask /\ h.prepared = k.prepared
      /\ h.on = k.on /\ h.failed = k.failed
  BY TrackFields
<1>. HIDE DEF h, j
<1>4. /\ j \in Client /\ j.last = n /\ j.turn = h.turn /\ j.tool = h.tool /\ j.ask = h.ask
      /\ j.prepared = h.prepared /\ j.on = h.on /\ j.failed = h.failed
  BY <1>1, <1>2 DEF Client
<1>5. OnlyTurn(k, j, n)
  BY <1>3, <1>4 DEF OnlyTurn
<1>. QED  BY <1>3, <1>4, <1>5 DEF j

Acknowledged(k, n) ==
    [Latest(k, n) EXCEPT !.turn[n].ack = TRUE, !.turn[n].ctx = k.prepared, !.prepared = 0,
                         !.tool = Woken(k, n)]
LEMMA AcknowledgedFields ==
    ASSUME NEW k \in Client, ToolsOK(k), NEW n \in Turns
    PROVE  LET j == Acknowledged(k, n) t == k.turn[n] IN
           /\ j \in Client /\ ToolsOK(j) /\ NoToolStarts(k, j)
           /\ OnlyTurn(k, j, n) /\ j.last = n
           /\ j.turn[n].tracked /\ j.turn[n].ack /\ j.turn[n].ctx = k.prepared
           /\ j.turn[n].done = t.done /\ j.turn[n].failure = t.failure
           /\ j.turn[n].error = t.error
           /\ j.ask = k.ask /\ j.prepared = 0 /\ j.on = k.on /\ j.failed = k.failed
<1>. DEFINE h == Latest(k, n)
            v == h.turn[n]
            u == [v EXCEPT !.ack = TRUE, !.ctx = k.prepared]
            i == SetTurn(h, n, u)
            w == Woken(k, n)
            j == Acknowledged(k, n)
<1>1. /\ h \in Client /\ OnlyTurn(k, h, n) /\ h.last = n
      /\ v.tracked /\ v.done = k.turn[n].done /\ v.failure = k.turn[n].failure
      /\ v.error = k.turn[n].error
      /\ h.ask = k.ask /\ h.on = k.on /\ h.failed = k.failed
  BY LatestFields
<1>2. v \in TurnState /\ k.prepared \in Contexts \cup {0}
  BY <1>1, ClientFields
<1>3. w \in [Slots -> ToolTask] /\ \A s \in Slots :
         /\ w[s].stage = "running" => k.tool[s].stage = "running"
         /\ w[s].stage # "none" => w[s].turn \in Turns
  <2>1. Slots # {}
    BY CodexConstants, SMT DEF Slots
  <2>. QED  BY <2>1, WokenTools
<1>4. j = [i EXCEPT !.prepared = 0, !.tool = w]
  <2>1. h.turn \in [Turns -> TurnState] /\ DOMAIN h.turn = Turns
    BY <1>1 DEF Client
  <2>. HIDE DEF h, w
  <2>2. j = [[[[h EXCEPT !.turn[n].ack = TRUE] EXCEPT !.turn[n].ctx = k.prepared]
                 EXCEPT !.prepared = 0] EXCEPT !.tool = w]
    BY DEF Acknowledged, h, w
  <2>3. [[h EXCEPT !.turn[n].ack = TRUE] EXCEPT !.turn[n].ctx = k.prepared] = i
    BY <1>1, <2>1 DEF SetTurn, Client
  <2>. QED  BY <2>2, <2>3
<1>. HIDE DEF h, w, j, v
<1>5. /\ u \in TurnState /\ u.tracked = v.tracked /\ u.ack /\ u.ctx = k.prepared
      /\ u.done = v.done /\ u.failure = v.failure /\ u.error = v.error
  BY <1>2 DEF TurnState
<1>. HIDE DEF u
<1>6. /\ i \in Client /\ i.turn[n] = u /\ OnlyTurn(h, i, n) /\ i.ask = h.ask /\ i.last = h.last
      /\ i.on = h.on /\ i.failed = h.failed
  BY <1>1, <1>5, SetTurnFields
<1>. HIDE DEF i
<1>7. /\ j \in Client /\ j.turn = i.turn /\ j.tool = w /\ j.prepared = 0 /\ j.ask = i.ask
      /\ j.last = i.last /\ j.on = i.on /\ j.failed = i.failed
  BY <1>3, <1>4, <1>6 DEF Client
<1>8. OnlyTurn(k, j, n) /\ ToolsOK(j) /\ NoToolStarts(k, j)
  BY <1>1, <1>3, <1>6, <1>7 DEF OnlyTurn, ToolsOK, NoToolStarts
<1>. QED  BY <1>1, <1>5, <1>6, <1>7, <1>8 DEF j

\* Of the client that knows turn n as one of a send whose binding was lost.
LEMMA LatestOK ==
    ASSUME IInv, NEW n \in Turns, n \notin received, native[n] # "absent", client.prepared = 0
    PROVE  LET j == Latest(client, n) IN
           /\ j \in Client /\ Mild(client, j) /\ ToolsOK(j) /\ NoToolStarts(client, j)
           /\ j.prepared = 0 /\ j.on = client.on /\ \A m \in Turns : TurnOK(j, m)
<1>. DEFINE j == Latest(client, n)
<1>0. client \in Client /\ ToolsOK(client)
  BY DEF IInv, Types, ClientOK
<1>1. /\ j \in Client /\ OnlyTurn(client, j, n) /\ j.last = n
      /\ j.turn[n].tracked /\ j.turn[n].ack = client.turn[n].ack
      /\ j.turn[n].done = client.turn[n].done
      /\ j.tool = client.tool /\ j.ask = client.ask /\ j.prepared = client.prepared
      /\ j.on = client.on /\ j.failed = client.failed
  BY <1>0, LatestFields
<1>. HIDE DEF j
<1>2. Mild(client, j) /\ ToolsOK(j) /\ NoToolStarts(client, j)
  BY <1>0, <1>1 DEF Mild, OnlyTurn, ToolsOK, NoToolStarts
<1>3. ASSUME NEW m \in Turns PROVE TurnOK(j, m)
  <2>1. TurnOK(client, m) /\ ~Bound(j, m)
    BY <1>1 DEF IInv, Bound
  <2>2. CASE m = n
    BY <2>1, <2>2, <1>1 DEF TurnOK
  <2>3. CASE m # n
    <3>1. j.turn[m] = client.turn[m]
      BY <2>3, <1>1 DEF OnlyTurn
    <3>. QED  BY <2>1, <2>3, <3>1, <1>1 DEF TurnOK, Agrees
  <2>. QED  BY <2>2, <2>3
<1>. QED  BY <1>1, <1>2, <1>3 DEF j

\* The turn was started by the send whose binding it is, and nobody has its receipt.
LEMMA AcknowledgedStep ==
    ASSUME IInv, NEW c \in Callers, At(c, "asking", "start"), call[c].fut.is = "turn",
           client.prepared # 0, Back(c), UNCHANGED <<lock, server, outcome, faults>>,
           client' = Acknowledged(client, call[c].fut.turn),
           received' = received \cup {call[c].fut.turn}
    PROVE  IInv' /\ ToolStep
<1>. DEFINE n == call[c].fut.turn
<1>0. client \in Client /\ ToolsOK(client) /\ call \in [Callers -> Call]
  BY DEF IInv, Types, ClientOK
<1>1. /\ call[c] \in Call /\ Shape(c, call[c]) /\ Sends(c, call[c]) /\ Knows(call[c])
      /\ Sees(call[c], client)
  BY CallOf
<1>2. n \in Turns /\ n \notin received /\ by[n] = call[c].ctx /\ ~client.failed /\ client.on
  BY <1>1 DEF Shape, Knows, Sees, At
<1>3. call[c].ctx = client.prepared
  BY Binder DEF At
<1>. HIDE DEF n
<1>4. client' = Acknowledged(client, n) /\ received' = received \cup {n}
  BY DEF n
<1>. DEFINE j == Acknowledged(client, n)
<1>5. /\ j \in Client /\ ToolsOK(j) /\ NoToolStarts(client, j)
      /\ OnlyTurn(client, j, n) /\ j.last = n
      /\ j.turn[n].tracked /\ j.turn[n].ack /\ j.turn[n].ctx = client.prepared
      /\ j.turn[n].done = client.turn[n].done /\ j.turn[n].failure = client.turn[n].failure
      /\ j.turn[n].error = client.turn[n].error
      /\ j.ask = client.ask /\ j.prepared = 0 /\ j.on = client.on /\ j.failed = client.failed
  BY <1>0, <1>2, AcknowledgedFields
<1>. HIDE DEF j
<1>6. client' = j /\ UNCHANGED <<lock, up, late, native, owed, by, outcome>>
  BY <1>4 DEF j, server
<1>7. call' = [call EXCEPT ![c] = Idle] /\ Idle \in Call
  BY IdleFields DEF Back
<1>8. Types'
  BY <1>0, <1>2, <1>4, <1>5, <1>6, <1>7 DEF IInv, Types
<1>9. ClientOK(client, call)'
  BY <1>2, <1>5, <1>6 DEF ClientOK, Binds, ToolsOK
<1>10. ASSUME NEW m \in Turns PROVE NativeOK(m)' /\ TurnOK(client, m)'
  <2>1. NativeOK(m) /\ TurnOK(client, m)
    BY DEF IInv
  <2>2. CASE m = n
    <3>1. Bound(client, n) /\ native[n] # "absent"
      BY <1>2, <1>3, <2>1, <2>2 DEF Bound, NativeOK
    <3>2. Agrees(client, n)
      BY <3>1, <2>1, <2>2 DEF TurnOK
    <3>3. Agrees(client, m)'
      BY <2>2, <3>2, <1>5, <1>6 DEF Agrees
    <3>4. NativeOK(m)'
      BY <2>1, <2>2, <3>1, <1>2, <1>4, <1>6 DEF NativeOK
    <3>5. outcome[n] = "none"
      BY <2>1, <2>2, <1>2 DEF NativeOK
    <3>6. TurnOK(client, m)'
      BY <2>2, <3>1, <3>3, <3>5, <1>2, <1>3, <1>4, <1>5, <1>6 DEF TurnOK
    <3>. QED  BY <3>4, <3>6
  <2>3. CASE m # n
    <3>1. j.turn[m] = client.turn[m]
      BY <2>3, <1>5 DEF OnlyTurn
    <3>2. m \in received' <=> m \in received
      BY <2>3, <1>4
    <3>3. NativeOK(m)'
      BY <2>1, <3>2, <1>6 DEF NativeOK
    <3>4. TurnOK(client, m)'
      BY <2>1, <2>3, <3>1, <3>2, <1>2, <1>5, <1>6 DEF TurnOK, Bound, Agrees
    <3>. QED  BY <3>3, <3>4
  <2>. QED  BY <2>2, <2>3
<1>11. Mild(client, j)
  BY <1>5, <1>2 DEF Mild, OnlyTurn
<1>12. ASSUME NEW d \in Callers PROVE CallOK(d, call[d], client, lock)'
  <2>1. CASE d = c
    <3>1. call'[d] = Idle
      BY <2>1, <1>0, <1>7
    <3>2. Shape(d, Idle) /\ Sees(Idle, j)
      BY IdleOK
    <3>3. Knows(call[d])'
      BY <3>1, IdleFields DEF Knows, Recalls, Finished
    <3>4. Held(c, call[c], lock)
      BY CallOf
    <3>5. Held(d, Idle, lock)
      BY <2>1, <3>4, IdleFields DEF Held, At
    <3>. QED  BY <3>1, <3>2, <3>3, <3>5, <1>6 DEF CallOK, Shape, Sends, Sees, Held
  <2>2. CASE d # c
    <3>1. call'[d] = call[d]
      BY <2>2, <1>0, <1>7
    <3>2. /\ call[d] \in Call /\ Shape(d, call[d]) /\ Sends(d, call[d]) /\ Knows(call[d])
          /\ Sees(call[d], client) /\ Held(d, call[d], lock)
      BY CallOf
    <3>3. call[d].ctx = 0
      <4>1. call[c].ctx # 0
        BY <1>3
      <4>. QED  BY <4>1, <3>2, <1>1, <2>2, Sender
    <3>4. call[d].goal \notin {"prepare", "start"} /\ call[d].fut.is # "turn"
      BY <3>2, <3>3 DEF Sends, Shape
    <3>5. Sees(call[d], j)
      BY <3>2, <3>4, <1>11, SeesKept
    <3>6. Knows(call[d])'
      BY <3>1, <3>2, <3>3, <3>4, <1>4, <1>6 DEF Knows, Recalls
    <3>. QED  BY <3>1, <3>2, <3>5, <3>6, <1>6 DEF CallOK, Shape, Sends, Sees, Held
  <2>. QED  BY <2>1, <2>2
<1>13. IInv'
  BY <1>8, <1>9, <1>10, <1>12 DEF IInv
<1>. QED  BY <1>5, <1>6, <1>13, NoToolStep

LEMMA StartedStep ==
    ASSUME IInv, NEW c \in Callers, Started(c)
    PROVE  IInv' /\ ToolStep
<1>. DEFINE n == call[c].fut.turn
            k == [client EXCEPT !.turn[n].tracked = TRUE, !.last = n]
<1>1. /\ call[c] \in Call /\ Shape(c, call[c]) /\ Sends(c, call[c]) /\ Knows(call[c])
      /\ Sees(call[c], client)
  BY CallOf
<1>2. At(c, "asking", "start") /\ Back(c) /\ UNCHANGED <<lock, server, outcome, faults>>
  BY DEF Started
<1>3. client.on /\ call[c].stage = "asking"
  BY <1>1, <1>2 DEF At, Sees
<1>4. CASE call[c].fut.is # "turn"
  BY <1>2, <1>3, <1>4, GivesUpStep DEF Started, server
<1>5. CASE call[c].fut.is = "turn" /\ client.prepared = 0
  <2>1. client' = Latest(client, n) /\ received' = received
    BY <1>5 DEF Started, Latest, Track, SetTurn
  <2>2. n \in Turns /\ n \notin received /\ native[n] # "absent"
    <3>1. n \in Turns /\ n \notin received /\ by[n] = call[c].ctx /\ call[c].ctx # 0
      BY <1>1, <1>2, <1>5 DEF Shape, Knows, Sends, At
    <3>2. NativeOK(n)
      BY <3>1 DEF IInv
    <3>. QED  BY <3>1, <3>2 DEF NativeOK
  <2>. HIDE DEF n
  <2>3. /\ client' \in Client /\ Mild(client, client') /\ ToolsOK(client')
        /\ NoToolStarts(client, client')
        /\ client'.prepared = 0 /\ client'.on = client.on /\ \A m \in Turns : TurnOK(client', m)
    <3>. DEFINE j == Latest(client, n)
    <3>1. /\ j \in Client /\ Mild(client, j) /\ ToolsOK(j) /\ NoToolStarts(client, j)
          /\ j.prepared = 0 /\ j.on = client.on /\ \A m \in Turns : TurnOK(j, m)
      BY <1>5, <2>2, LatestOK
    <3>. HIDE DEF j
    <3>2. client' = j
      BY <2>1 DEF j
    <3>. QED  BY <3>1, <3>2
  <2>4. World /\ owed' \subseteq owed /\ up' \in BOOLEAN /\ late' \in BOOLEAN /\ lock' = lock
    BY <1>2, <2>1 DEF server, World, IInv, Types
  <2>5. call' = [call EXCEPT ![c] = Idle] /\ Idle \in Call
        /\ Idle.stage \notin {"closing", "initializing"}
    BY <1>2, IdleFields DEF Back
  <2>6. Shape(c, Idle) /\ Knows(Idle) /\ Sees(Idle, client')
    BY IdleOK
  <2>7. IInv'
    BY <1>3, <2>3, <2>4, <2>5, <2>6, OneCall
  <2>. QED  BY <2>3, <2>7, NoToolStep
<1>6. CASE call[c].fut.is = "turn" /\ client.prepared # 0
  <2>1. client' = Acknowledged(client, n) /\ received' = received \cup {n}
    BY <1>6 DEF Started, Acknowledged, Latest, Track, SetTurn
  <2>. QED  BY <1>2, <1>6, <2>1, AcknowledgedStep
<1>. QED  BY <1>4, <1>5, <1>6

----------------------------------------------------------------------------
\* Captures and releases.

LEMMA TurnOf ==
    ASSUME IInv, NEW n \in Turns
    PROVE  NativeOK(n) /\ TurnOK(client, n) /\ client.turn[n] \in TurnState
BY ClientFields DEF IInv, Types

\* What a turn that is acknowledged and done was.
LEMMA VerdictOK ==
    ASSUME IInv, NEW n \in Turns, client.turn[n].ack, client.turn[n].done
    PROVE  LET v == Verdict(client.turn[n]) IN
           v \in {"completed", "raised"} /\ (v = "completed" => native[n] = "completed")
<1>1. TurnOK(client, n)
  BY TurnOf
<1>2. Agrees(client, n)
  BY <1>1 DEF TurnOK
<1>. QED  BY <1>2 DEF Verdict, Agrees

\* A capture whose turn is released under it.
LEMMA DetachedOK ==
    ASSUME IInv, NEW d \in Callers, NEW f, NEW S \in SUBSET Turns,
           f[d] \in Call, Shape(d, f[d]), Knows(f[d]), Sees(f[d], client),
           NEW k, k.on = client.on, k.failed = client.failed,
           k.prepared = 0 \/ k.prepared = client.prepared,
           \A n \in Turns \ S : k.turn[n] = client.turn[n]
    PROVE  LET h == Detached(f, client, S)[d] IN
           /\ h \in Call /\ Shape(d, h) /\ Knows(h) /\ Sees(h, k) /\ Still(f[d], h)
           /\ h.stage \in {"closing", "initializing"} <=> f[d].stage \in {"closing", "initializing"}
<1>. DEFINE g == f[d]
            h == Detached(f, client, S)[d]
            v == Verdict(client.turn[g.turn])
            w == StagedAnswered(g, "woken", Reply(v, 0))
            o == Staged(g, "orphaned")
<1>1. h = IF g.stage # "waiting" \/ g.turn \notin S THEN g
          ELSE IF client.turn[g.turn].done THEN w ELSE o
  BY DEF Detached, StagedAnswered, Staged
<1>. HIDE DEF h
<1>2. g \in Call /\ Shape(d, g) /\ Knows(g) /\ Sees(g, client)
  OBVIOUS
<1>. HIDE DEF g
<1>3. CASE g.stage # "waiting" \/ g.turn \notin S
  <2>1. h = g
    BY <1>1, <1>3
  <2>2. g.stage = "waiting" => k.turn[g.turn] = client.turn[g.turn]
    <3>1. g.stage = "waiting" => g.turn \in Turns
      BY <1>2, CallFields DEF Shape
    <3>. QED  BY <1>3, <3>1
  <2>3. Sees(g, k)
    BY <1>2, <2>2 DEF Sees
  <2>. QED  BY <1>2, <2>1, <2>3 DEF Still, g, h
<1>4. CASE g.stage = "waiting" /\ g.turn \in S
  <2>1. client.on /\ g.turn \in Turns /\ g.turn # 0 /\ g.goal = "none" /\ client.turn[g.turn].ack
        /\ (client.failed => g.fut.is # "wait" /\ client.turn[g.turn].done)
    BY <1>2, <1>4 DEF Sees, Shape
  <2>2. CASE client.turn[g.turn].done
    <3>1. v \in {"completed", "raised"} /\ (v = "completed" => native[g.turn] = "completed")
      BY <2>1, <2>2, VerdictOK
    <3>2. Reply(v, 0) \in Future /\ Reply(v, 0).is = v
      <4>1. v \in Kinds
        BY <3>1 DEF Kinds, Finished
      <4>. QED  BY <4>1, ReplyFields
    <3>. HIDE DEF v
    <3>3. PICK r : r = Reply(v, 0)
      OBVIOUS
    <3>4. w = StagedAnswered(g, "woken", r) /\ "woken" \in Stages /\ r \in Future /\ r.is = v
      BY <3>2, <3>3 DEF Stages
    <3>. HIDE DEF w
    <3>5. w \in Call /\ w.stage = "woken" /\ w.fut.is = v /\ Still(g, w)
      BY <1>2, <3>4, StagedAnsweredFields, SMT
    <3>6. h = w
      BY <1>1, <1>4, <2>2
    <3>7. Shape(d, w)
      BY <1>2, <2>1, <3>1, <3>5 DEF Shape, Sends, Still, Finished
    <3>8. Knows(w)
      BY <1>2, <3>1, <3>5 DEF Knows, Recalls, Still, Finished
    <3>9. Sees(w, k)
      BY <2>1, <3>1, <3>5 DEF Sees, Still
    <3>. QED  BY <1>4, <3>5, <3>6, <3>7, <3>8, <3>9 DEF g, h
  <2>3. CASE ~client.turn[g.turn].done
    <3>1. "orphaned" \in Stages
      BY DEF Stages
    <3>2. o \in Call /\ o.stage = "orphaned" /\ o.fut = g.fut /\ Still(g, o)
      BY <1>2, <3>1, StagedFields
    <3>3. h = o
      BY <1>1, <1>4, <2>3
    <3>. HIDE DEF o
    <3>4. Shape(d, o)
      BY <1>2, <1>4, <2>1, <3>2 DEF Shape, Sends, Still
    <3>5. Knows(o)
      BY <1>2, <3>2 DEF Knows, Recalls, Still
    <3>6. Sees(o, k)
      BY <1>2, <2>1, <2>3, <3>2 DEF Sees, Still
    <3>. QED  BY <1>4, <3>2, <3>3, <3>4, <3>5, <3>6 DEF g, h
  <2>. QED  BY <2>2, <2>3
<1>. QED  BY <1>3, <1>4

\* Call c returns, and the captures of the turns in S are detached.
LEMMA ReleasedCalls ==
    ASSUME IInv, NEW c \in Callers, NEW S \in SUBSET Turns,
           call[c].stage \notin {"closing", "initializing"},
           NEW k, k.on = client.on, k.failed = client.failed,
           k.prepared = 0 \/ (k.prepared = client.prepared /\ call[c].goal # "start"),
           \A n \in Turns \ S : k.turn[n] = client.turn[n]
    PROVE  LET f == Detached([call EXCEPT ![c] = Idle], client, S) IN
           /\ f \in [Callers -> Call] /\ Binds(k, f)
           /\ \A d \in Callers : CallOK(d, f[d], k, lock)
<1>. DEFINE e == [call EXCEPT ![c] = Idle]
            f == Detached(e, client, S)
<1>1. e[c] = Idle /\ \A d \in Callers \ {c} : e[d] = call[d]
  BY DEF IInv, Types
<1>. HIDE DEF e
<1>2. ASSUME NEW d \in Callers
      PROVE  /\ e[d] \in Call /\ Shape(d, e[d]) /\ Knows(e[d]) /\ Sees(e[d], client)
             /\ Held(d, e[d], lock)
  <2>1. call[d] \in Call /\ Shape(d, call[d]) /\ Knows(call[d]) /\ Sees(call[d], client)
        /\ Held(d, call[d], lock)
    BY CallOf
  <2>2. CASE d = c
    <3>1. Idle \in Call /\ Shape(d, Idle) /\ Knows(Idle) /\ Sees(Idle, client)
      BY IdleOK, IdleFields
    <3>2. Held(d, Idle, lock)
      BY <2>1, <2>2, IdleFields DEF Held
    <3>. QED  BY <1>1, <2>2, <3>1, <3>2
  <2>3. CASE d # c
    BY <1>1, <2>1, <2>3
  <2>. QED  BY <2>2, <2>3
<1>3. ASSUME NEW d \in Callers
      PROVE  /\ f[d] \in Call /\ Shape(d, f[d]) /\ Knows(f[d]) /\ Sees(f[d], k) /\ Still(e[d], f[d])
             /\ f[d].stage \in {"closing", "initializing"} <=> e[d].stage \in {"closing", "initializing"}
  <2>1. k.prepared = 0 \/ k.prepared = client.prepared
    OBVIOUS
  <2>. QED  BY <1>2, <2>1, DetachedOK
<1>4. f \in [Callers -> Call]
  <2>1. f = [d \in Callers |-> f[d]]
    BY DEF Detached
  <2>. HIDE DEF f
  <2>. QED  BY <1>3, <2>1
<1>. HIDE DEF f
<1>5. ASSUME NEW d \in Callers PROVE CallOK(d, f[d], k, lock)
  BY <1>2, <1>3 DEF CallOK, Held
<1>6. Binds(k, f)
  <2>. SUFFICES ASSUME k.prepared # 0
                PROVE  \E d \in Callers : f[d].goal = "start" /\ f[d].ctx = k.prepared
    BY DEF Binds
  <2>1. PICK d \in Callers : call[d].goal = "start" /\ call[d].ctx = client.prepared
    BY DEF IInv, ClientOK, Binds
  <2>2. k.prepared = client.prepared /\ call[c].goal # "start"
    OBVIOUS
  <2>3. e[d] = call[d]
    BY <1>1, <2>1, <2>2
  <2>4. f[d].goal = e[d].goal /\ f[d].ctx = e[d].ctx
    BY <1>3 DEF Still
  <2>. QED  BY <2>1, <2>2, <2>3, <2>4
<1>. QED  BY <1>4, <1>5, <1>6 DEF f, e

LEMMA ArchivedStep ==
    ASSUME IInv, NEW c \in Callers, Archived(c)
    PROVE  IInv' /\ ToolStep
<1>1. call[c].stage = "asking" /\ UNCHANGED <<lock, server, told, faults>>
  BY DEF Archived
<1>2. client.on /\ call[c].goal # "start"
  <2>1. Sees(call[c], client)
    BY CallOf
  <2>2. Asked("start") = "start" /\ Asked(call[c].goal) = "archive"
    BY DEF Asked, Archived
  <2>. QED  BY <1>1, <2>1, <2>2 DEF Sees
<1>3. CASE call[c].goal = "archive" \/ call[c].fut.is = "done"
  <2>. DEFINE k == ReleaseThread(client)
              f == Detached([call EXCEPT ![c] = Idle], client, Turns)
  <2>1. client' = k /\ call' = f
    BY <1>3 DEF Archived
  <2>2. client \in Client /\ ToolsOK(client)
    BY DEF IInv, Types, ClientOK
  <2>3. /\ k \in Client /\ ToolsOK(k) /\ NoToolStarts(client, k)
        /\ k.prepared = 0 /\ k.last = 0 /\ k.on = client.on /\ k.failed = client.failed
        /\ k.ask = client.ask /\ \A n \in Turns : k.turn[n] = NoTurn
    BY <2>2, ReleaseThreadFields
  <2>. HIDE DEF k
  <2>4. /\ f \in [Callers -> Call] /\ Binds(k, f)
        /\ \A d \in Callers : CallOK(d, f[d], k, lock)
    BY <1>1, <2>3, ReleasedCalls
  <2>. HIDE DEF f
  <2>5. ASSUME NEW n \in Turns PROVE TurnOK(k, n)
    <3>1. TurnOK(client, n) /\ ~Bound(k, n) /\ k.last # n
      BY <2>3, TurnOf, Numbers DEF Bound
    <3>. QED  BY <2>3, <3>1, NoTurnFields DEF TurnOK
  <2>6. ClientOK(k, f)
    BY <1>2, <2>3, <2>4 DEF ClientOK
  <2>7. World /\ owed' \subseteq owed /\ up' \in BOOLEAN /\ late' \in BOOLEAN
        /\ lock' \in Callers \cup {Nobody} /\ lock' = lock
    BY <1>1 DEF server, told, World, IInv, Types
  <2>8. /\ client' \in Client /\ call' \in [Callers -> Call] /\ ClientOK(client', call')
        /\ \A n \in Turns : TurnOK(client', n)
        /\ \A d \in Callers : CallOK(d, call'[d], client', lock')
    BY <2>1, <2>3, <2>4, <2>5, <2>6, <2>7
  <2>9. IInv'
    BY <2>7, <2>8, Conclude
  <2>. QED  BY <2>1, <2>3, <2>9, NoToolStep
<1>4. CASE ~(call[c].goal = "archive" \/ call[c].fut.is = "done")
  BY <1>1, <1>2, <1>4, JustBack DEF Archived, server, told
<1>. QED  BY <1>3, <1>4

\* A caller is told v, which is so, and its turn is released.
LEMMA TellStep ==
    ASSUME IInv, NEW c \in Callers, NEW v \in {"completed", "interrupted", "raised"}, Tell(c, v),
           UNCHANGED <<lock, server, received, faults>>,
           call[c].stage \in {"waiting", "woken", "asking"}, call[c].goal # "start",
           call[c].turn # 0, v # "raised" => native[call[c].turn] = v
    PROVE  IInv' /\ ToolStep
<1>. DEFINE n == call[c].turn
            k == Release(client, n)
            f == Detached([call EXCEPT ![c] = Idle], client, {n})
<1>1. client' = k /\ call' = f
      /\ outcome' = [outcome EXCEPT ![n] = IF @ \in {"none", "raised"} THEN v ELSE @]
      /\ UNCHANGED <<lock, up, late, native, owed, by, received>>
  BY DEF Tell, server
<1>2. call[c] \in Call /\ Recalls(call[c]) /\ Sees(call[c], client)
  BY CallOf
<1>3. n \in Turns /\ n \in received /\ client.on /\ (v # "raised" => native[n] = v)
  BY <1>2, CallFields DEF Recalls, Sees
<1>. HIDE DEF n
<1>4. client \in Client /\ ToolsOK(client)
  BY DEF IInv, Types, ClientOK
<1>5. /\ k \in Client /\ k.tool = client.tool /\ k.ask = client.ask
      /\ k.prepared = client.prepared /\ k.on = client.on /\ k.failed = client.failed
      /\ k.last = client.last \/ k.last = 0
      /\ client.turn[n].tracked => k.turn[n] = NoTurn /\ k.last # n
      /\ \A m \in Turns : k.turn[m] = client.turn[m] \/ (m = n /\ k.turn[m] = NoTurn)
  BY <1>3, <1>4, ReleaseFields
<1>. HIDE DEF k
<1>6. {n} \in SUBSET Turns /\ \A m \in Turns \ {n} : k.turn[m] = client.turn[m]
  BY <1>3, <1>5
<1>7. /\ f \in [Callers -> Call] /\ Binds(k, f)
      /\ \A d \in Callers : CallOK(d, f[d], k, lock)
  BY <1>5, <1>6, ReleasedCalls
<1>. HIDE DEF f
<1>8. outcome \in [Turns -> {"none", "completed", "interrupted", "raised"}]
  BY DEF IInv, Types
<1>9. /\ outcome' \in [Turns -> {"none", "completed", "interrupted", "raised"}]
      /\ \A m \in Turns \ {n} : outcome'[m] = outcome[m]
      /\ outcome'[n] = v \/ outcome'[n] = outcome[n]
  BY <1>1, <1>3, <1>8
<1>10. Types'
  BY <1>1, <1>5, <1>7, <1>9 DEF IInv, Types
<1>11. ClientOK(client, call)'
  BY <1>1, <1>3, <1>4, <1>5, <1>7 DEF ClientOK, Binds, ToolsOK
<1>12. ~Bound(client, n)
  <2>. SUFFICES ASSUME client.prepared # 0, by[n] = client.prepared PROVE FALSE
    BY DEF Bound
  <2>1. PICK d \in Callers : call[d].goal = "start" /\ call[d].ctx = client.prepared
    BY DEF IInv, ClientOK, Binds
  <2>2. Recalls(call[d])
    BY CallOf
  <2>. QED  BY <1>3, <2>1, <2>2 DEF Recalls
<1>13. ASSUME NEW m \in Turns PROVE NativeOK(m)' /\ TurnOK(client, m)'
  <2>1. NativeOK(m) /\ TurnOK(client, m)
    BY TurnOf
  <2>2. CASE m = n
    <3>1. ~k.turn[m].ack /\ (k.last # m)
      BY <1>3, <1>5, <2>1, <2>2, NoTurnFields, Numbers DEF TurnOK
    <3>2. NativeOK(m)'
      BY <1>1, <1>3, <1>9, <2>1, <2>2 DEF NativeOK
    <3>3. ~Bound(client, m)' /\ native[m] # "absent"
      BY <1>1, <1>3, <1>5, <1>12, <2>1, <2>2 DEF Bound, NativeOK
    <3>. QED  BY <1>1, <3>1, <3>2, <3>3 DEF TurnOK
  <2>3. CASE m # n
    <3>1. k.turn[m] = client.turn[m] /\ outcome'[m] = outcome[m]
      BY <1>5, <1>9, <2>3
    <3>2. k.last = m => client.last = m
      BY <1>5, Numbers
    <3>3. NativeOK(m)'
      BY <1>1, <2>1, <3>1 DEF NativeOK
    <3>4. TurnOK(client, m)'
      BY <1>1, <1>5, <2>1, <3>1, <3>2 DEF TurnOK, Bound, Agrees
    <3>. QED  BY <3>3, <3>4
  <2>. QED  BY <2>2, <2>3
<1>14. ASSUME NEW d \in Callers PROVE CallOK(d, call[d], client, lock)'
  BY <1>1, <1>7 DEF CallOK, Shape, Sends, Knows, Recalls, Sees, Held
<1>15. IInv'
  BY <1>10, <1>11, <1>13, <1>14 DEF IInv
<1>16. NoToolStarts(client, client')
  BY <1>1, <1>5 DEF NoToolStarts
<1>. QED  BY <1>15, <1>16, NoToolStep

LEMMA CapturedStep ==
    ASSUME IInv, NEW c \in Callers, Captured(c)
    PROVE  IInv' /\ ToolStep
<1>1. call[c] \in Call /\ Shape(c, call[c]) /\ Knows(call[c]) /\ Sees(call[c], client)
  BY CallOf
<1>2. call[c].stage \in {"waiting", "woken"} /\ UNCHANGED <<lock, server, received, faults>>
  BY DEF Captured
<1>3. call[c].turn # 0 /\ call[c].turn \in Turns /\ call[c].goal # "start"
  BY <1>1, <1>2, CallFields DEF Shape
<1>4. CASE call[c].stage = "waiting"
  <2>1. client.turn[call[c].turn].done /\ Tell(c, Verdict(client.turn[call[c].turn]))
    BY <1>4 DEF Captured
  <2>2. client.turn[call[c].turn].ack
    BY <1>1, <1>4 DEF Sees
  <2>3. PICK v : v = Verdict(client.turn[call[c].turn])
    OBVIOUS
  <2>4. v \in {"completed", "raised"} /\ (v = "completed" => native[call[c].turn] = "completed")
    BY <1>3, <2>1, <2>2, <2>3, VerdictOK
  <2>5. Tell(c, v)
    BY <2>1, <2>3
  <2>. QED  BY <1>2, <1>3, <2>4, <2>5, TellStep
<1>5. CASE call[c].stage = "woken"
  <2>1. Tell(c, call[c].fut.is)
    BY <1>5 DEF Captured
  <2>2. call[c].fut.is \in {"completed", "raised"}
    BY <1>1, <1>5 DEF Shape
  <2>3. call[c].fut.is = "completed" => native[call[c].turn] = "completed"
    BY <1>1 DEF Knows, Finished
  <2>. QED  BY <1>2, <1>3, <2>1, <2>2, <2>3, TellStep
<1>. QED  BY <1>2, <1>4, <1>5

LEMMA ListedStep ==
    ASSUME IInv, NEW c \in Callers, Listed(c)
    PROVE  IInv' /\ ToolStep
<1>. DEFINE r == call[c].fut
            goal == call[c].goal
            next == IF goal = "find" THEN "stop" ELSE "recheck"
            f == Retargeted(call[c], next)
<1>1. /\ call[c] \in Call /\ Shape(c, call[c]) /\ Sends(c, call[c]) /\ Knows(call[c])
      /\ Recalls(call[c])
  BY CallOf
<1>2. call[c].stage = "asking" /\ UNCHANGED <<lock, server, received, faults>>
  BY DEF Listed
<1>3. goal \in {"history", "find", "check", "recheck"}
  BY <1>1, CallFields, AskedGoals DEF Listed
<1>4. goal \in TurnGoals /\ next \in TurnGoals /\ goal # "start" /\ next # "start"
  BY <1>3 DEF TurnGoals
<1>5. call[c].turn # 0
  BY <1>1, <1>4 DEF Sends
<1>6. CASE r.is \in Finished /\ \E v \in Verdicts(r.is, goal) : Tell(c, v)
  <2>1. PICK v \in Verdicts(r.is, goal) : Tell(c, v)
    BY <1>6
  <2>2. native[call[c].turn] = r.is
    BY <1>1, <1>6 DEF Knows
  <2>3. v \in {"completed", "interrupted", "raised"} /\ (v # "raised" => native[call[c].turn] = v)
    BY <2>1, <2>2 DEF Verdicts
  <2>. QED  BY <1>2, <1>4, <1>5, <2>1, <2>3, TellStep
<1>7. CASE Back(c) /\ UNCHANGED <<client, outcome>>
  BY <1>2, <1>4, <1>7, JustBack DEF server
<1>8. CASE Issue(c, f) /\ UNCHANGED <<client, outcome>>
  <2>. HIDE DEF next
  <2>1. f \in Call /\ f.goal = next /\ Sends(c, f) /\ Recalls(f)
    BY <1>1, <1>4, Retargets
  <2>. HIDE DEF f
  <2>. QED  BY <1>2, <1>4, <1>8, <2>1, IssueStep DEF server
<1>9. \/ r.is \in Finished /\ \E v \in Verdicts(r.is, goal) : Tell(c, v)
      \/ Back(c) /\ UNCHANGED <<client, outcome>>
      \/ Issue(c, f) /\ UNCHANGED <<client, outcome>>
  BY DEF Listed, Retargeted
<1>. QED  BY <1>6, <1>7, <1>8, <1>9

----------------------------------------------------------------------------
\* The client fails.

\* The end of a failed turn's interrupt raises in the captures that hold the turn.
LEMMA WakeOrphansOK ==
    ASSUME NEW d \in Callers, NEW f, NEW S, f[d] \in Call, Shape(d, f[d]), Knows(f[d])
    PROVE  LET h == WakeOrphans(f, S)[d] IN
           /\ h \in Call /\ Shape(d, h) /\ Knows(h) /\ Still(f[d], h)
           /\ \/ h = f[d] /\ (f[d].stage # "orphaned" \/ f[d].turn \notin S)
              \/ f[d].stage = "orphaned" /\ h.stage = "woken" /\ h.fut.is = "raised" /\ f[d].turn \in S
<1>. DEFINE g == f[d]
            r == Reply("raised", 0)
            w == StagedAnswered(g, "woken", r)
            h == WakeOrphans(f, S)[d]
<1>1. h = IF g.stage = "orphaned" /\ g.turn \in S THEN w ELSE g
  BY DEF WakeOrphans, StagedAnswered
<1>2. r \in Future /\ r.is = "raised" /\ "woken" \in Stages
  <2>1. "raised" \in Kinds
    BY DEF Kinds
  <2>. QED  BY <2>1, ReplyFields DEF Stages
<1>3. g \in Call /\ Shape(d, g) /\ Knows(g)
  OBVIOUS
<1>. HIDE DEF g, r, h
<1>4. CASE g.stage = "orphaned" /\ g.turn \in S
  <2>1. w \in Call /\ w.stage = "woken" /\ w.fut = r /\ Still(g, w)
    BY <1>2, <1>3, StagedAnsweredFields, SMT
  <2>. HIDE DEF w
  <2>2. h = w
    BY <1>1, <1>4
  <2>3. Shape(d, w)
    BY <1>2, <1>3, <1>4, <2>1 DEF Shape, Sends, Still, Finished
  <2>4. Knows(w)
    BY <1>2, <1>3, <2>1 DEF Knows, Recalls, Still, Finished
  <2>. QED  BY <1>2, <1>4, <2>1, <2>2, <2>3, <2>4 DEF g, h
<1>5. CASE ~(g.stage = "orphaned" /\ g.turn \in S)
  <2>1. h = g
    BY <1>1, <1>5
  <2>. QED  BY <1>3, <1>5, <2>1 DEF g, h, Still
<1>. QED  BY <1>4, <1>5

\* Every request of the failed client has its error.
LEMMA FailCallsOK ==
    ASSUME IInv, NEW d \in Callers
    PROVE  LET g == call[d] h == FailCalls(call)[d] IN
           /\ h \in Call /\ Shape(d, h) /\ Knows(h) /\ Still(g, h) /\ h.fut.is # "wait"
           /\ \/ h.stage = g.stage
              \/ g.stage = "orphaned" /\ h.stage = "woken" /\ Failing # {}
<1>. DEFINE g == call[d]
            e == Answered(g, Error(g))
            f == [c \in Callers |-> IF call[c].fut.is = "wait"
                                    THEN [call[c] EXCEPT !.fut = Error(call[c])] ELSE call[c]]
            h == WakeOrphans(f, Failing)[d]
<1>1. FailCalls(call)[d] = h
  BY DEF FailCalls
<1>2. f[d] = IF g.fut.is = "wait" THEN e ELSE g
  BY DEF Answered
<1>. HIDE DEF f
<1>3. /\ g \in Call /\ Shape(d, g) /\ Knows(g) /\ Sends(d, g) /\ Recalls(g)
  BY CallOf
<1>. HIDE DEF g
<1>4. f[d] \in Call /\ Shape(d, f[d]) /\ Knows(f[d]) /\ Still(g, f[d])
      /\ f[d].stage = g.stage /\ f[d].fut.is # "wait"
  <2>1. CASE g.fut.is = "wait"
    <3>1. e \in Call /\ e.stage = g.stage /\ e.fut.is \in {"error", "done"} /\ Still(g, e)
      BY <1>3, ErrorFields, AnsweredFields
    <3>. HIDE DEF e
    <3>2. e.stage \in {"resuming", "asking"}
      BY <1>3, <2>1, <3>1 DEF Shape
    <3>3. Shape(d, e) /\ Knows(e)
      BY <1>3, <3>1, <3>2, StillOK
    <3>. QED  BY <1>2, <2>1, <3>1, <3>3
  <2>2. CASE g.fut.is # "wait"
    BY <1>2, <1>3, <2>2 DEF Still
  <2>. QED  BY <2>1, <2>2
<1>5. /\ h \in Call /\ Shape(d, h) /\ Knows(h) /\ Still(f[d], h)
      /\ \/ h = f[d]
         \/ f[d].stage = "orphaned" /\ h.stage = "woken" /\ h.fut.is = "raised" /\ f[d].turn \in Failing
  BY <1>4, WakeOrphansOK
<1>. HIDE DEF h
<1>. QED  BY <1>1, <1>4, <1>5 DEF g, Still

\* How a call h that the failure was told to stands to the client k that failed.
LEMMA SeesFailure ==
    ASSUME IInv, client.on, NEW d \in Callers, NEW h, NEW k, h.turn = call[d].turn,
           h.fut.is # "wait",
           h.stage = call[d].stage \/ h.stage \in {"closing", "woken"},
           k.on, k.failed, k.prepared = 0,
           \A n \in Turns : Ended(client.turn[n], k.turn[n])
    PROVE  Sees(h, k)
<1>1. call[d] \in Call /\ Shape(d, call[d]) /\ Sees(call[d], client)
  BY CallOf
<1>2. ASSUME h.stage = "waiting" PROVE k.turn[h.turn].ack /\ k.turn[h.turn].done
  <2>1. call[d].turn \in Turns /\ client.turn[call[d].turn].ack
    BY <1>1, <1>2, CallFields DEF Shape, Sees
  <2>2. client.turn[call[d].turn].tracked
    BY <2>1, TurnOf DEF TurnOK
  <2>. QED  BY <2>1, <2>2 DEF Ended
<1>3. h.stage # "initializing"
  BY <1>1 DEF Sees
<1>. QED  BY <1>2, <1>3 DEF Sees

\* The turns of a client that fails.
LEMMA FailedTurns ==
    ASSUME NEW n \in Turns, NEW b, TurnOK(b, n),
           NEW k, k.failed, k.prepared = 0, k.last = b.last,
           Ended(b.turn[n], k.turn[n]), k.ask[n] = "none"
    PROVE  TurnOK(k, n)
<1>1. TurnOK(b, n)
  OBVIOUS
<1>2. ~Bound(k, n)
  BY DEF Bound
<1>3. k.turn[n].ack => k.turn[n].done
  BY <1>1 DEF TurnOK, Ended
<1>4. k.turn[n].ack => Agrees(k, n)
  BY <1>1 DEF TurnOK, Ended, Agrees
<1>5. native[n] = "absent" => ~k.turn[n].tracked /\ ~k.turn[n].done
  BY <1>1 DEF TurnOK, Ended
<1>. QED  BY <1>1, <1>2, <1>3, <1>4, <1>5 DEF TurnOK, Ended

\* The client fails, and caller c goes on to close it, or nobody does.
LEMMA FailingStep ==
    ASSUME IInv, World, owed' \subseteq owed, up' \in BOOLEAN, late' \in BOOLEAN,
           client.on, NEW k, k = FailClient(client),
           client' = k \/ client' = [k EXCEPT !.reading = FALSE],
           NEW f, f \in [Callers -> Call], call' = f, lock' \in Callers \cup {Nobody},
           \A d \in Callers : /\ Shape(d, f[d]) /\ Knows(f[d]) /\ f[d].fut.is # "wait"
                              /\ f[d].turn = call[d].turn /\ Held(d, f[d], lock')
                              /\ f[d].stage = call[d].stage \/ f[d].stage \in {"closing", "woken"}
    PROVE  IInv' /\ ToolStep
<1>1. client \in Client /\ ToolsOK(client)
  BY DEF IInv, Types, ClientOK
<1>2. /\ k \in Client /\ ToolsOK(k) /\ NoToolStarts(client, k)
      /\ k.failed /\ k.prepared = 0 /\ k.on = client.on /\ k.last = client.last
      /\ \A n \in Turns : Ended(client.turn[n], k.turn[n]) /\ k.ask[n] = "none"
  BY <1>1, FailClientFields
<1>3. PICK j : j = client'
  OBVIOUS
<1>4. /\ j \in Client /\ j.failed /\ j.prepared = 0 /\ j.on /\ j.last = client.last
      /\ j.turn = k.turn /\ j.tool = k.tool /\ j.ask = k.ask
  <2>1. [k EXCEPT !.reading = FALSE] \in Client
        /\ [k EXCEPT !.reading = FALSE].failed = k.failed
        /\ [k EXCEPT !.reading = FALSE].prepared = k.prepared
        /\ [k EXCEPT !.reading = FALSE].on = k.on
        /\ [k EXCEPT !.reading = FALSE].last = k.last
        /\ [k EXCEPT !.reading = FALSE].turn = k.turn
        /\ [k EXCEPT !.reading = FALSE].tool = k.tool
        /\ [k EXCEPT !.reading = FALSE].ask = k.ask
    BY <1>2 DEF Client
  <2>. QED  BY <1>2, <1>3, <2>1
<1>5. ToolsOK(j) /\ NoToolStarts(client, j)
  BY <1>2, <1>4 DEF ToolsOK, NoToolStarts
<1>6. \A n \in Turns : Ended(client.turn[n], j.turn[n]) /\ j.ask[n] = "none"
  BY <1>2, <1>4
<1>7. \A n \in Turns : TurnOK(j, n)
  BY <1>4, <1>6, TurnOf, FailedTurns
<1>8. ASSUME NEW d \in Callers PROVE CallOK(d, f[d], j, lock')
  <2>1. PICK h : h = f[d]
    OBVIOUS
  <2>2. /\ h.turn = call[d].turn /\ h.fut.is # "wait"
        /\ h.stage = call[d].stage \/ h.stage \in {"closing", "woken"}
    BY <2>1
  <2>3. Sees(h, j)
    BY <1>4, <1>6, <2>2, SeesFailure
  <2>. QED  BY <2>1, <2>3 DEF CallOK
<1>9. ClientOK(j, f)
  BY <1>4, <1>5 DEF ClientOK, Binds
<1>10. IInv'
  BY <1>3, <1>4, <1>7, <1>8, <1>9, Conclude
<1>. QED  BY <1>3, <1>5, <1>10, NoToolStep

\* The failure that the calls are told of, when nobody takes the lock.
LEMMA FailStep ==
    ASSUME IInv, World, owed' \subseteq owed, up' \in BOOLEAN, late' \in BOOLEAN, lock' = lock,
           client.on,
           client' = FailClient(client) \/ client' = [FailClient(client) EXCEPT !.reading = FALSE],
           call' = FailCalls(call)
    PROVE  IInv' /\ ToolStep
<1>. DEFINE f == FailCalls(call)
            k == FailClient(client)
<1>1. ASSUME NEW d \in Callers
      PROVE  /\ f[d] \in Call /\ Shape(d, f[d]) /\ Knows(f[d]) /\ f[d].fut.is # "wait"
             /\ f[d].turn = call[d].turn /\ Held(d, f[d], lock')
             /\ f[d].stage = call[d].stage \/ f[d].stage \in {"closing", "woken"}
  <2>1. /\ f[d] \in Call /\ Shape(d, f[d]) /\ Knows(f[d]) /\ Still(call[d], f[d])
        /\ f[d].fut.is # "wait"
        /\ f[d].stage = call[d].stage \/ (call[d].stage = "orphaned" /\ f[d].stage = "woken")
    BY FailCallsOK
  <2>. HIDE DEF f
  <2>2. Held(d, call[d], lock)
    BY CallOf
  <2>. QED  BY <2>1, <2>2 DEF Held, Still
<1>2. f \in [Callers -> Call]
  <2>1. f = [d \in Callers |-> f[d]]
    BY DEF FailCalls, WakeOrphans
  <2>. HIDE DEF f
  <2>. QED  BY <1>1, <2>1
<1>3. lock' \in Callers \cup {Nobody}
  BY DEF IInv, Types
<1>. HIDE DEF f, k
<1>4. call' = f /\ (client' = k \/ client' = [k EXCEPT !.reading = FALSE]) /\ k = FailClient(client)
  BY DEF f, k
<1>. QED  BY <1>1, <1>2, <1>3, <1>4, FailingStep

LEMMA BrokenStep ==
    ASSUME IInv, Broken
    PROVE  IInv' /\ ToolStep
<1>1. World /\ owed' \subseteq owed /\ up' \in BOOLEAN /\ late' \in BOOLEAN /\ lock' = lock
  BY DEF Broken, server, told, World, IInv, Types
<1>. QED  BY <1>1, FailStep DEF Broken

LEMMA AskTimesOutStep ==
    ASSUME IInv, NEW n \in Turns, AskTimesOut(n)
    PROVE  IInv' /\ ToolStep
<1>1. client.on
  BY NoClientFields DEF AskTimesOut, IInv, ClientOK
<1>2. World /\ lock' = lock /\ owed' \subseteq owed
  BY DEF AskTimesOut, told, World
<1>3. client' = FailClient(client) /\ call' = FailCalls(call)
  BY DEF AskTimesOut, AskEnds
<1>4. up' \in BOOLEAN /\ late' \in BOOLEAN
  BY DEF AskTimesOut, AskEnds, LeftBy, IInv, Types
<1>. QED  BY <1>1, <1>2, <1>3, <1>4, FailStep

\* A call that takes the lock, to close the client or to start one.
LEMMA TakesLock ==
    ASSUME NEW c \in Callers, NEW h \in Call, Shape(c, h), Knows(h),
           h.stage \in {"idle", "ensure"}, h.fut.is # "wait",
           NEW st \in {"closing", "initializing"},
           NEW g, g = Staged(h, st) \/ (g = [Staged(h, st) EXCEPT !.goal = "shutdown"] /\ h.ctx = 0)
    PROVE  /\ g \in Call /\ Shape(c, g) /\ Knows(g) /\ g.fut = h.fut /\ g.turn = h.turn
           /\ g.stage = st /\ g.ctx = h.ctx
<1>. DEFINE e == Staged(h, st)
            s == [e EXCEPT !.goal = "shutdown"]
<1>1. st \in Stages
  BY DEF Stages
<1>2. e \in Call /\ e.stage = st /\ e.fut = h.fut /\ Still(h, e)
  BY <1>1, StagedFields
<1>. HIDE DEF e
<1>3. s \in Call /\ s.stage = st /\ s.fut = e.fut /\ s.goal = "shutdown" /\ s.turn = e.turn /\ s.ctx = e.ctx
  <2>1. "shutdown" \in Goals
    BY DEF Goals
  <2>. QED  BY <1>2, <2>1 DEF Call
<1>. HIDE DEF s
<1>4. g = e \/ (g = s /\ h.ctx = 0)
  BY DEF e, s
<1>5. /\ g \in Call /\ g.stage = st /\ g.fut = h.fut /\ g.turn = h.turn /\ g.ctx = h.ctx
      /\ g.goal = h.goal \/ (g.goal = "shutdown" /\ h.ctx = 0)
  BY <1>2, <1>3, <1>4 DEF Still
<1>6. Shape(c, g)
  <2>1. "shutdown" \notin TurnGoals
    BY DEF TurnGoals
  <2>. QED  BY <1>5, <2>1 DEF Shape, Sends
<1>7. Knows(g)
  BY <1>5 DEF Knows, Recalls
<1>. QED  BY <1>5, <1>6, <1>7

\* The client fails because caller c is going to close it.
LEMMA ClosingStep ==
    ASSUME IInv, World, owed' \subseteq owed, up' \in BOOLEAN, late' \in BOOLEAN, client.on,
           NEW c \in Callers, lock = Nobody, lock' = c, client' = FailClient(client),
           call[c].stage \in {"idle", "ensure"},
           NEW g, call' = [FailCalls(call) EXCEPT ![c] = g],
           \/ g = Staged(FailCalls(call)[c], "closing")
           \/ /\ g = [Staged(FailCalls(call)[c], "closing") EXCEPT !.goal = "shutdown"]
              /\ call[c].ctx = 0
    PROVE  IInv' /\ ToolStep
<1>. DEFINE e == FailCalls(call)
            f == [e EXCEPT ![c] = g]
            k == FailClient(client)
<1>1. ASSUME NEW d \in Callers
      PROVE  /\ e[d] \in Call /\ Shape(d, e[d]) /\ Knows(e[d]) /\ Still(call[d], e[d])
             /\ e[d].fut.is # "wait"
             /\ e[d].stage = call[d].stage \/ (call[d].stage = "orphaned" /\ e[d].stage = "woken")
  BY FailCallsOK
<1>2. DOMAIN e = Callers /\ e = [d \in Callers |-> e[d]]
  BY DEF FailCalls, WakeOrphans
<1>. HIDE DEF e
<1>3. e[c].stage \in {"idle", "ensure"} /\ e[c].ctx = call[c].ctx
  BY <1>1 DEF Still
<1>4. g = Staged(e[c], "closing")
      \/ (g = [Staged(e[c], "closing") EXCEPT !.goal = "shutdown"] /\ e[c].ctx = 0)
  BY <1>3 DEF e
<1>5. "closing" \in {"closing", "initializing"}
  OBVIOUS
<1>6. /\ g \in Call /\ Shape(c, g) /\ Knows(g) /\ g.fut = e[c].fut /\ g.turn = e[c].turn
      /\ g.stage = "closing"
  <2>1. PICK h : h = e[c]
    OBVIOUS
  <2>2. /\ h \in Call /\ Shape(c, h) /\ Knows(h) /\ h.stage \in {"idle", "ensure"}
        /\ h.fut.is # "wait"
    BY <1>1, <1>3, <2>1
  <2>3. g = Staged(h, "closing")
        \/ (g = [Staged(h, "closing") EXCEPT !.goal = "shutdown"] /\ h.ctx = 0)
    BY <1>4, <2>1
  <2>4. /\ g \in Call /\ Shape(c, g) /\ Knows(g) /\ g.fut = h.fut /\ g.turn = h.turn
        /\ g.stage = "closing"
    BY SMT, <1>5, <2>2, <2>3, TakesLock
  <2>. QED  BY <2>1, <2>4
<1>7. f \in [Callers -> Call] /\ f[c] = g /\ \A d \in Callers \ {c} : f[d] = e[d]
  BY <1>1, <1>2, <1>6
<1>8. call' = f
  BY DEF e
<1>. HIDE DEF f, k
<1>9. ASSUME NEW d \in Callers
      PROVE  /\ Shape(d, f[d]) /\ Knows(f[d]) /\ f[d].fut.is # "wait"
             /\ f[d].turn = call[d].turn /\ Held(d, f[d], lock')
             /\ f[d].stage = call[d].stage \/ f[d].stage \in {"closing", "woken"}
  <2>1. CASE d = c
    BY <1>1, <1>6, <1>7, <2>1 DEF Held, Still
  <2>2. CASE d # c
    <3>1. Held(d, call[d], Nobody) /\ Nobody \notin Callers
      BY CallOf, CodexConstants
    <3>. QED  BY <1>1, <1>7, <2>2, <3>1 DEF Held, Still
  <2>. QED  BY <2>1, <2>2
<1>10. client' = k /\ k = FailClient(client)
  BY DEF k
<1>. QED  BY <1>7, <1>8, <1>9, <1>10, FailingStep

LEMMA ReplaceStep ==
    ASSUME IInv, NEW c \in Callers, Replace(c)
    PROVE  IInv' /\ ToolStep
<1>1. World /\ owed' \subseteq owed /\ up' \in BOOLEAN /\ late' \in BOOLEAN
  BY DEF Replace, told, World, LeftBy, IInv, Types
<1>2. call[c].stage = "ensure" /\ lock = Nobody /\ lock' = c
  BY DEF Replace
<1>. DEFINE e == FailCalls(call)
<1>3. DOMAIN e = Callers
  BY DEF FailCalls, WakeOrphans
<1>4. CASE client.on
  <2>. DEFINE g == Staged(e[c], "closing")
  <2>1. call' = [e EXCEPT ![c] = g] /\ client' = FailClient(client)
    BY <1>3, <1>4 DEF Replace, Staged
  <2>. HIDE DEF g
  <2>2. g = Staged(FailCalls(call)[c], "closing")
    BY DEF g
  <2>. QED  BY <1>1, <1>2, <1>4, <2>1, <2>2, ClosingStep
<1>5. CASE ~client.on
  <2>. DEFINE g == Staged(e[c], "initializing")
  <2>1. call' = [e EXCEPT ![c] = g] /\ client' = client
    BY <1>3, <1>5 DEF Replace, Staged
  <2>2. client = NoClient /\ Failing = {}
    BY <1>5, NoClientFields DEF IInv, ClientOK, Failing
  <2>3. ASSUME NEW d \in Callers
        PROVE  /\ e[d] \in Call /\ Shape(d, e[d]) /\ Knows(e[d]) /\ Still(call[d], e[d])
               /\ e[d].fut.is # "wait" /\ e[d].stage = call[d].stage
    BY <2>2, FailCallsOK
  <2>. HIDE DEF e
  <2>4. "initializing" \in {"closing", "initializing"} /\ e[c].stage = "ensure"
    BY <1>2, <2>3
  <2>5. /\ g \in Call /\ Shape(c, g) /\ Knows(g) /\ g.fut = e[c].fut /\ g.stage = "initializing"
    <3>1. PICK h : h = e[c]
      OBVIOUS
    <3>2. /\ h \in Call /\ Shape(c, h) /\ Knows(h) /\ h.stage \in {"idle", "ensure"}
          /\ h.fut.is # "wait" /\ g = Staged(h, "initializing")
      BY <2>3, <2>4, <3>1
    <3>. HIDE DEF g
    <3>3. g \in Call /\ Shape(c, g) /\ Knows(g) /\ g.fut = h.fut /\ g.stage = "initializing"
      BY SMT, <2>4, <3>2, TakesLock
    <3>. QED  BY <3>1, <3>3
  <2>. HIDE DEF g
  <2>6. e = [d \in Callers |-> e[d]]
    BY DEF e, FailCalls, WakeOrphans
  <2>7. call' \in [Callers -> Call] /\ call'[c] = g /\ \A d \in Callers \ {c} : call'[d] = e[d]
    BY <2>1, <2>3, <2>5, <2>6, <1>3
  <2>8. ASSUME NEW d \in Callers PROVE CallOK(d, call'[d], client', lock')
    <3>1. CASE d = c
      <4>1. Sees(g, client) /\ Held(c, g, c)
        BY <1>5, <2>2, <2>3, <2>5, NoClientFields DEF Sees, Held
      <4>. QED  BY <1>2, <2>1, <2>5, <2>7, <3>1, <4>1 DEF CallOK
    <3>2. CASE d # c
      <4>1. Held(d, call[d], Nobody) /\ Sees(call[d], client) /\ Nobody \notin Callers
        BY <1>2, CallOf, CodexConstants
      <4>2. Sees(e[d], client) /\ Held(d, e[d], c)
        BY <2>3, <3>2, <4>1 DEF Sees, Still, Held
      <4>. QED  BY <1>2, <2>1, <2>3, <2>7, <3>2, <4>2 DEF CallOK
    <3>. QED  BY <3>1, <3>2
  <2>9. ClientOK(client', call')
    BY <2>1, <2>2, NoClientFields DEF IInv, ClientOK, Binds
  <2>10. client' \in Client /\ \A n \in Turns : TurnOK(client', n)
    BY <2>1, TurnOf DEF IInv, Types
  <2>11. IInv'
    BY <1>1, <1>2, <2>7, <2>8, <2>9, <2>10, Conclude
  <2>. QED  BY <2>1, <2>11, MildRefl, NoToolStep
<1>. QED  BY <1>4, <1>5

LEMMA BeginShutdownStep ==
    ASSUME IInv, NEW c \in Callers, BeginShutdown(c)
    PROVE  IInv' /\ ToolStep
<1>1. World /\ owed' \subseteq owed /\ up' \in BOOLEAN /\ late' \in BOOLEAN
  BY DEF BeginShutdown, told, World, LeftBy, IInv, Types
<1>2. call[c].stage = "idle" /\ call[c].ctx = 0 /\ lock = Nobody /\ lock' = c /\ client.on
      /\ client' = FailClient(client)
  BY IdleFields DEF BeginShutdown
<1>. DEFINE e == FailCalls(call)
            h == Staged(e[c], "closing")
            g == [h EXCEPT !.goal = "shutdown"]
<1>3. DOMAIN e = Callers
  BY DEF FailCalls, WakeOrphans
<1>4. call' = [e EXCEPT ![c] = g]
  <2>1. call' = [e EXCEPT ![c].stage = "closing", ![c].goal = "shutdown"]
    BY DEF BeginShutdown
  <2>. HIDE DEF e
  <2>. QED  BY <1>3, <2>1 DEF Staged
<1>. HIDE DEF g
<1>5. g = [Staged(FailCalls(call)[c], "closing") EXCEPT !.goal = "shutdown"]
  BY DEF g
<1>. QED  BY <1>1, <1>2, <1>4, <1>5, ClosingStep

\* When the client has been closed nobody waits for anything but a new one.
LEMMA CloseEndsStep ==
    ASSUME IInv, NEW c \in Callers, CloseEnds(c)
    PROVE  IInv' /\ ToolStep
<1>1. /\ call[c] \in Call /\ Shape(c, call[c]) /\ Knows(call[c]) /\ Sees(call[c], client)
      /\ Held(c, call[c], lock)
  BY CallOf
<1>2. call[c].stage = "closing" /\ client.on /\ client.failed /\ lock = c
  BY <1>1 DEF CloseEnds, Sees, Held
<1>3. client' = NoClient /\ World /\ owed' \subseteq owed /\ up' \in BOOLEAN /\ late' \in BOOLEAN
  BY DEF CloseEnds, Gone, told, World
<1>4. call \in [Callers -> Call]
  BY DEF IInv, Types
<1>5. ASSUME NEW d \in Callers \ {c}
      PROVE  /\ call[d] \in Call /\ Shape(d, call[d]) /\ Knows(call[d]) /\ Sees(call[d], NoClient)
             /\ d # lock /\ call[d].stage \notin {"closing", "initializing"}
  <2>1. /\ call[d] \in Call /\ Shape(d, call[d]) /\ Knows(call[d]) /\ Sees(call[d], client)
        /\ Held(d, call[d], lock)
    BY CallOf
  <2>2. call[d].stage \notin {"closing", "initializing"} /\ d # lock
    BY <1>2, <2>1 DEF Held
  <2>3. call[d].fut.is # "wait"
    BY <1>2, <2>1 DEF Sees
  <2>4. call[d].stage \notin {"resuming", "asking"}
    BY <2>3 DEF CloseEnds, Resolved
  <2>5. call[d].stage \notin {"waiting", "woken"}
    BY <1>2, <2>1 DEF CloseEnds, Sees
  <2>6. call[d].stage \in {"idle", "ensure", "orphaned"}
    <3>1. call[d].stage \in Stages
      BY <2>1, CallFields
    <3>. QED  BY <2>2, <2>4, <2>5, <3>1 DEF Stages
  <2>7. Sees(call[d], NoClient)
    BY <2>6, NoClientFields DEF Sees
  <2>. QED  BY <2>1, <2>2, <2>7
<1>6. PICK g \in Call :
         /\ call' = [call EXCEPT ![c] = g] /\ Shape(c, g) /\ Knows(g) /\ Sees(g, NoClient)
         /\ Held(c, g, lock') /\ lock' \in {c, Nobody}
  <2>1. CASE call[c].goal = "shutdown"
    <3>1. call' = [call EXCEPT ![c] = Idle] /\ lock' = Nobody /\ Idle \in Call
      BY <2>1, IdleFields DEF CloseEnds, Back
    <3>2. Shape(c, Idle) /\ Knows(Idle) /\ Sees(Idle, NoClient)
      BY IdleOK
    <3>3. Held(c, Idle, Nobody)
      BY IdleFields, CodexConstants DEF Held
    <3>. QED  BY <3>1, <3>2, <3>3
  <2>2. CASE call[c].goal # "shutdown"
    <3>. DEFINE g == Staged(call[c], "initializing")
    <3>1. call' = [call EXCEPT ![c] = g] /\ lock' = lock
      BY <1>4, <2>2 DEF CloseEnds, Staged
    <3>2. "initializing" \in Stages
      BY DEF Stages
    <3>3. g \in Call /\ g.stage = "initializing" /\ g.fut = call[c].fut /\ Still(call[c], g)
      BY <1>1, <3>2, StagedFields
    <3>. HIDE DEF g
    <3>4. Shape(c, g)
      BY <1>1, <1>2, <3>3 DEF Shape, Sends, Still
    <3>5. Knows(g)
      BY <1>1, <3>3 DEF Knows, Recalls, Still
    <3>6. Sees(g, NoClient) /\ Held(c, g, lock)
      BY <1>2, <3>3, NoClientFields DEF Sees, Held
    <3>. QED  BY <1>2, <3>1, <3>3, <3>4, <3>5, <3>6
  <2>. QED  BY <2>1, <2>2
<1>7. call' \in [Callers -> Call] /\ call'[c] = g /\ \A d \in Callers \ {c} : call'[d] = call[d]
  BY <1>4, <1>6
<1>8. ASSUME NEW d \in Callers PROVE CallOK(d, call'[d], client', lock')
  <2>1. CASE d = c
    BY <1>3, <1>6, <1>7, <2>1 DEF CallOK
  <2>2. CASE d # c
    <3>1. Held(d, call[d], lock')
      BY <1>2, <1>5, <1>6, <2>2, CodexConstants DEF Held
    <3>. QED  BY <1>3, <1>5, <1>7, <2>2, <3>1 DEF CallOK
  <2>. QED  BY <2>1, <2>2
<1>9. ASSUME NEW n \in Turns PROVE TurnOK(NoClient, n)
  <2>1. ~Bound(NoClient, n) /\ NoClient.last # n
    BY NoClientFields, Numbers DEF Bound
  <2>. QED  BY <2>1, NoClientFields, NoTurnFields DEF TurnOK
<1>10. NoClient \in Client /\ ClientOK(NoClient, call') /\ NoToolStarts(client, NoClient)
  BY NoClientFields, NoToolFields DEF ClientOK, Binds, ToolsOK, NoToolStarts
<1>11. lock' \in Callers \cup {Nobody}
  BY <1>6
<1>12. client' \in Client /\ ClientOK(client', call') /\ NoToolStarts(client, client')
       /\ \A n \in Turns : TurnOK(client', n)
  BY <1>3, <1>9, <1>10
<1>13. IInv'
  BY <1>3, <1>7, <1>8, <1>11, <1>12, Conclude
<1>. QED  BY <1>12, <1>13, NoToolStep

\* A new client k, for the caller f of c that started it.
LEMMA NewClientStep ==
    ASSUME IInv, World, owed' \subseteq owed, up' \in BOOLEAN, late' \in BOOLEAN,
           NEW c \in Callers, call[c].stage = "initializing", lock' = Nobody,
           NEW k \in Client, NEW f \in Call, Go(c, k, f), k.on, ~k.failed, ~k.loaded, k.last = 0,
           \A n \in Turns : k.turn[n] = NoTurn /\ k.ask[n] = "none" /\ ~Bound(k, n),
           \A s \in Slots : k.tool[s] = NoTool,
           Sends(c, f), Recalls(f), k.prepared # 0 => f.goal = "start" /\ f.ctx = k.prepared
    PROVE  IInv' /\ ToolStep
<1>1. client' = k /\ \E g \in Call :
              /\ call' = [call EXCEPT ![c] = g] /\ Still(f, g)
              /\ ~k.on \/ k.failed => g.stage = "ensure" /\ g.fut = f.fut
              /\ k.on /\ ~k.failed => g.stage \in {"resuming", "asking"} /\ g.fut.is = "wait"
  BY GoFields
<1>2. PICK g \in Call :
         /\ call' = [call EXCEPT ![c] = g] /\ Still(f, g)
         /\ g.stage \in {"resuming", "asking"} /\ g.fut.is = "wait"
  BY <1>1
<1>3. call \in [Callers -> Call]
  BY DEF IInv, Types
<1>4. call' \in [Callers -> Call] /\ call'[c] = g /\ \A d \in Callers \ {c} : call'[d] = call[d]
  BY <1>2, <1>3
<1>5. lock = c /\ ~client.on
  BY CallOf DEF Held, Sees
<1>6. ASSUME NEW d \in Callers PROVE CallOK(d, call'[d], k, Nobody)
  <2>1. CASE d = c
    <3>1. Shape(c, g) /\ Knows(g)
      BY <1>2, StillOK
    <3>2. Sees(g, k) /\ Held(c, g, Nobody)
      BY <1>2, CodexConstants DEF Sees, Held
    <3>. QED  BY <1>4, <2>1, <3>1, <3>2 DEF CallOK
  <2>2. CASE d # c
    <3>1. Shape(d, call[d]) /\ Knows(call[d]) /\ Sees(call[d], client) /\ Held(d, call[d], lock)
      BY CallOf
    <3>2. call[d].stage \in {"idle", "ensure", "orphaned"}
      BY <1>5, <2>2, <3>1 DEF Sees, Held
    <3>3. Sees(call[d], k) /\ Held(d, call[d], Nobody)
      BY <3>2, CodexConstants DEF Sees, Held
    <3>. QED  BY <1>4, <2>2, <3>1, <3>3 DEF CallOK
  <2>. QED  BY <2>1, <2>2
<1>7. ClientOK(k, call') /\ NoToolStarts(client, k)
  <2>1. Binds(k, call')
    BY <1>2, <1>4 DEF Binds, Still
  <2>. QED  BY <2>1, NoToolFields DEF ClientOK, ToolsOK, NoToolStarts
<1>8. ASSUME NEW n \in Turns PROVE TurnOK(k, n)
  BY NoTurnFields, Numbers DEF TurnOK
<1>9. client' \in Client /\ ClientOK(client', call') /\ NoToolStarts(client, client')
      /\ (\A n \in Turns : TurnOK(client', n))
      /\ (\A d \in Callers : CallOK(d, call'[d], client', lock'))
      /\ lock' \in Callers \cup {Nobody}
  BY <1>1, <1>6, <1>7, <1>8
<1>10. IInv'
  BY <1>4, <1>9, Conclude
<1>. QED  BY <1>9, <1>10, NoToolStep

LEMMA InitializeStep ==
    ASSUME IInv, NEW c \in Callers, Initialize(c)
    PROVE  IInv' /\ ToolStep
<1>1. call[c] \in Call /\ Sends(c, call[c]) /\ Recalls(call[c]) /\ Sees(call[c], client)
      /\ Held(c, call[c], lock)
  BY CallOf
<1>2. call[c].stage = "initializing" /\ ~client.on /\ lock = c /\ lock' = Nobody
  BY <1>1 DEF Initialize, Sees, Held
<1>3. World /\ owed' \subseteq owed /\ late' \in BOOLEAN
  BY DEF Initialize, told, World, IInv, Types
<1>4. /\ NewClient \in Client /\ NewClient.on /\ ~NewClient.failed /\ ~NewClient.loaded
      /\ NewClient.prepared = 0 /\ NewClient.last = 0
      /\ \A n \in Turns : NewClient.turn[n] = NoTurn /\ NewClient.ask[n] = "none"
      /\ \A s \in Slots : NewClient.tool[s] = NoTool
  BY NewClientFields
<1>5. CASE up' = TRUE /\ call[c].goal = "prepare"
           /\ Go(c, [NewClient EXCEPT !.prepared = call[c].ctx], [call[c] EXCEPT !.goal = "start"])
  <2>. DEFINE k == WithBinding(NewClient, call[c].ctx)
              h == Retargeted(call[c], "start")
  <2>1. Go(c, k, h)
    BY <1>5 DEF WithBinding, Retargeted
  <2>2. h \in Call /\ h.goal = "start" /\ h.ctx = call[c].ctx /\ Sends(c, h) /\ Recalls(h)
    BY <1>1, <1>5, ToStart
  <2>3. call[c].ctx \in Contexts \cup {0}
    BY <1>1, CallFields
  <2>4. /\ k \in Client /\ SameTurns(NewClient, k) /\ k.tool = NewClient.tool
        /\ k.prepared = call[c].ctx
        /\ k.on = NewClient.on /\ k.failed = NewClient.failed /\ k.loaded = NewClient.loaded
    BY <1>4, <2>3, WithBindingFields
  <2>. HIDE DEF k, h
  <2>5. \A n \in Turns : ~Bound(k, n)
    BY <1>1, <1>5, <2>4 DEF Recalls, Bound
  <2>6. /\ k.on /\ ~k.failed /\ ~k.loaded /\ k.last = 0
        /\ \A n \in Turns : k.turn[n] = NoTurn /\ k.ask[n] = "none" /\ ~Bound(k, n)
        /\ \A s \in Slots : k.tool[s] = NoTool
    BY <1>4, <2>4, <2>5 DEF SameTurns
  <2>7. up' \in BOOLEAN /\ (k.prepared # 0 => h.goal = "start" /\ h.ctx = k.prepared)
    BY <1>5, <2>2, <2>4
  <2>. QED  BY <1>2, <1>3, <2>1, <2>2, <2>4, <2>6, <2>7, NewClientStep
<1>6. CASE up' = TRUE /\ Go(c, NewClient, call[c])
  <2>1. \A n \in Turns : ~Bound(NewClient, n)
    BY <1>4 DEF Bound
  <2>2. up' \in BOOLEAN
    BY <1>6
  <2>. QED  BY <1>1, <1>2, <1>3, <1>4, <1>6, <2>1, <2>2, NewClientStep
<1>7. CASE Back(c) /\ UNCHANGED <<client, up>>
  <2>1. call' = [call EXCEPT ![c] = Idle] /\ Idle \in Call /\ call \in [Callers -> Call]
    BY <1>7, IdleFields DEF Back, IInv, Types
  <2>2. call' \in [Callers -> Call] /\ call'[c] = Idle /\ \A d \in Callers \ {c} : call'[d] = call[d]
    BY <2>1
  <2>3. ASSUME NEW d \in Callers PROVE CallOK(d, call'[d], client, Nobody)
    <3>1. CASE d = c
      <4>1. Held(c, Idle, Nobody)
        BY IdleFields, CodexConstants DEF Held
      <4>. QED  BY <2>2, <3>1, <4>1, IdleOK DEF CallOK
    <3>2. CASE d # c
      <4>1. Shape(d, call[d]) /\ Knows(call[d]) /\ Sees(call[d], client) /\ Held(d, call[d], lock)
        BY CallOf
      <4>2. Held(d, call[d], Nobody)
        BY <1>2, <3>2, <4>1, CodexConstants DEF Held
      <4>. QED  BY <2>2, <3>2, <4>1, <4>2 DEF CallOK
    <3>. QED  BY <3>1, <3>2
  <2>4. client = NoClient
    BY <1>2 DEF IInv, ClientOK
  <2>5. ClientOK(client, call')
    BY <2>4, NoClientFields DEF IInv, ClientOK, Binds
  <2>6. /\ client' \in Client /\ ClientOK(client', call') /\ NoToolStarts(client, client')
        /\ \A n \in Turns : TurnOK(client', n)
        /\ \A d \in Callers : CallOK(d, call'[d], client', lock')
        /\ lock' \in Callers \cup {Nobody} /\ up' \in BOOLEAN
    BY <1>2, <1>7, <2>3, <2>5, TurnOf, MildRefl DEF IInv, Types
  <2>7. IInv'
    BY <1>3, <2>2, <2>6, Conclude
  <2>. QED  BY <2>6, <2>7, NoToolStep
<1>8. \/ /\ up' = TRUE /\ call[c].goal = "prepare"
         /\ Go(c, [NewClient EXCEPT !.prepared = call[c].ctx], [call[c] EXCEPT !.goal = "start"])
      \/ up' = TRUE /\ Go(c, NewClient, call[c])
      \/ Back(c) /\ UNCHANGED <<client, up>>
  BY DEF Initialize
<1>. QED  BY <1>5, <1>6, <1>7, <1>8

----------------------------------------------------------------------------
\* The process starts and ends turns.

\* A turn starts for the send with context x, and running turns end.
Moves(x) ==
    /\ native' \in [Turns -> Statuses] /\ by' \in [Turns -> Contexts \cup {0, LateContext}]
    /\ x # 0 /\ UNCHANGED <<received, outcome>>
    /\ \A n \in Turns :
          \/ native'[n] = native[n] /\ by'[n] = by[n]
          \/ native[n] = "absent" /\ native'[n] = "running" /\ by'[n] = x
          \/ native[n] = "running" /\ native'[n] \in Finished /\ by'[n] = by[n]

LEMMA MovedTurn ==
    ASSUME IInv, NEW x, Moves(x), NEW n \in Turns, NEW k, TurnOK(k, n)
    PROVE  TurnOK(k, n)'
<1>1. NativeOK(n)
  BY TurnOf
<1>2. "absent" \notin Finished /\ "running" \notin Finished /\ "completed" \in Finished
  BY DEF Finished
<1>3. \/ native'[n] = native[n] /\ by'[n] = by[n]
      \/ native[n] = "absent" /\ native'[n] = "running" /\ by'[n] = x
      \/ native[n] = "running" /\ native'[n] \in Finished /\ by'[n] = by[n]
  BY DEF Moves
<1>4. k.turn[n].ack => by'[n] = by[n]
  BY <1>1, <1>3 DEF TurnOK, NativeOK
<1>5. Agrees(k, n) => Agrees(k, n)'
  BY <1>2, <1>3 DEF Agrees
<1>6. native[n] = "absent" => Agrees(k, n)'
  BY DEF TurnOK, Agrees
<1>7. Bound(k, n)' => Bound(k, n) \/ native[n] = "absent"
  BY <1>3 DEF Bound
<1>8. native'[n] = "absent" => native[n] = "absent"
  BY <1>2, <1>3
<1>9. received' = received /\ outcome' = outcome
  BY DEF Moves
<1>. QED  BY <1>4, <1>5, <1>6, <1>7, <1>8, <1>9 DEF TurnOK

LEMMA MovedCall ==
    ASSUME IInv, NEW x, Moves(x), NEW c \in Callers, NEW g \in Call, Shape(c, g), Knows(g),
           g.goal = "prepare" => g.ctx # x
    PROVE  Knows(g)'
<1>0. received' = received /\ received \subseteq Turns
  BY DEF Moves, IInv, Types
<1>1. ASSUME NEW n \in Turns
      PROVE  /\ n \in received => native[n] # "absent"
             /\ native[n] = "absent" <=> by[n] = 0
             /\ native[n] # "absent" => by'[n] = by[n]
             /\ by'[n] = by[n] \/ by'[n] = x
             /\ native[n] \in Finished => native'[n] = native[n]
  <2>1. NativeOK(n)
    BY TurnOf
  <2>. QED  BY <2>1 DEF NativeOK, Moves, Finished
<1>2. g.ctx # 0 => \A n \in received : by'[n] # g.ctx
  BY <1>0, <1>1 DEF Knows, Recalls
<1>3. g.goal = "prepare" => \A n \in Turns : by'[n] # g.ctx
  BY <1>1 DEF Knows, Recalls
<1>4. g.fut.is = "turn" => by'[g.fut.turn] = g.ctx
  BY <1>1 DEF Knows, Shape, Sends
<1>5. g.fut.is \in Finished => native'[g.turn] = g.fut.is
  <2>1. g.fut.is \in Finished => g.turn \in Turns /\ native[g.turn] = g.fut.is
    BY <1>0 DEF Shape, Knows, Recalls
  <2>. QED  BY <1>1, <2>1
<1>. QED  BY <1>0, <1>2, <1>3, <1>4, <1>5 DEF Knows, Recalls

\* Where the turns move, and what is known before is still so.
LEMMA ConcludeMove ==
    ASSUME IInv, NEW x, Moves(x), owed' \subseteq Turns, \A n \in owed' : native'[n] \in Finished,
           up' \in BOOLEAN, late' \in BOOLEAN, lock' = lock,
           client' \in Client, call' \in [Callers -> Call], ClientOK(client', call'),
           \A n \in Turns : TurnOK(client', n),
           \A c \in Callers : /\ Shape(c, call'[c]) /\ Sees(call'[c], client')
                              /\ Held(c, call'[c], lock) /\ Knows(call[c])'
    PROVE  IInv'
<1>1. Types'
  BY DEF IInv, Types, Moves
<1>2. ASSUME NEW n \in Turns PROVE NativeOK(n)'
  <2>1. NativeOK(n) /\ Moves(x)
    BY TurnOf
  <2>2. "absent" \notin Finished /\ "running" \notin Finished
    BY DEF Finished
  <2>3. received' = received /\ outcome' = outcome
        /\ \/ native'[n] = native[n] /\ by'[n] = by[n]
           \/ native[n] = "absent" /\ native'[n] = "running" /\ by'[n] = x /\ x # 0
           \/ native[n] = "running" /\ native'[n] \in Finished /\ by'[n] = by[n]
    BY DEF Moves
  <2>. QED  BY <2>1, <2>2, <2>3 DEF NativeOK
<1>3. ASSUME NEW n \in Turns PROVE TurnOK(client, n)'
  <2>1. PICK k : k = client'
    OBVIOUS
  <2>2. TurnOK(k, n)
    BY <2>1
  <2>3. TurnOK(k, n)'
    BY <2>2, MovedTurn
  <2>. QED  BY <2>1, <2>3 DEF TurnOK, Bound, Agrees
<1>4. ASSUME NEW c \in Callers PROVE CallOK(c, call[c], client, lock)'
  <2>1. /\ Shape(c, call'[c]) /\ Sees(call'[c], client')
        /\ Held(c, call'[c], lock) /\ Knows(call[c])'
    OBVIOUS
  <2>. QED  BY <2>1 DEF CallOK, Shape, Sends, Sees, Held
<1>5. ClientOK(client, call)'
  BY DEF ClientOK, ToolsOK, Binds, NoClient, NewClient
<1>. QED  BY <1>1, <1>2, <1>3, <1>4, <1>5 DEF IInv

\* Only the process and what it knows change.
LEMMA JustMoves ==
    ASSUME IInv, NEW x, Moves(x), owed' \subseteq Turns, \A n \in owed' : native'[n] \in Finished,
           up' \in BOOLEAN, late' \in BOOLEAN, UNCHANGED <<client, lock, call>>,
           \A c \in Callers : call[c].goal = "prepare" => call[c].ctx # x
    PROVE  IInv' /\ ToolStep
<1>1. client' \in Client /\ call' \in [Callers -> Call] /\ ClientOK(client', call')
      /\ \A n \in Turns : TurnOK(client', n)
  BY DEF IInv, Types
<1>2. ASSUME NEW c \in Callers
      PROVE  /\ Shape(c, call'[c]) /\ Sees(call'[c], client')
             /\ Held(c, call'[c], lock) /\ Knows(call[c])'
  <2>1. /\ call[c] \in Call /\ Shape(c, call[c]) /\ Knows(call[c]) /\ Sees(call[c], client)
        /\ Held(c, call[c], lock)
    BY CallOf
  <2>2. PICK g : g = call[c]
    OBVIOUS
  <2>3. Knows(g)'
    BY <2>1, <2>2, MovedCall
  <2>4. Knows(call[c])'
    BY <2>2, <2>3 DEF Knows, Recalls
  <2>. QED  BY <2>1, <2>4
<1>3. IInv'
  BY <1>1, <1>2, ConcludeMove
<1>. QED  BY <1>3, MildRefl, NoToolStep

LEMMA NativeTypes ==
    ASSUME IInv
    PROVE  /\ native \in [Turns -> Statuses] /\ by \in [Turns -> Contexts \cup {0, LateContext}]
           /\ owed \subseteq Turns /\ \A n \in owed : native[n] \in Finished
BY DEF IInv, Types, NativeOK

LEMMA StartsMoves ==
    ASSUME IInv, NEW x \in Contexts \cup {LateContext}, Starts(x), UNCHANGED <<received, outcome>>
    PROVE  /\ Moves(x) /\ late' \in BOOLEAN /\ NextTurn \in Turns /\ NextTurn \notin received
           /\ by'[NextTurn] = x /\ \A n \in owed : native'[n] \in Finished
<1>1. native \in [Turns -> Statuses] /\ by \in [Turns -> Contexts \cup {0, LateContext}]
      /\ owed \subseteq Turns /\ \A n \in owed : native[n] \in Finished
  BY NativeTypes
<1>2. NextTurn \in Unused
  BY LeastUnused DEF Starts
<1>3. PICK m : m = NextTurn
  OBVIOUS
<1>4. m \in Turns /\ native[m] = "absent"
  BY <1>2, <1>3 DEF Unused
<1>5. native' = [native EXCEPT ![m] = "running"] /\ by' = [by EXCEPT ![m] = x]
  BY <1>3 DEF Starts
<1>6. "running" \in Statuses /\ "absent" \notin Finished /\ x # 0
  BY Numbers DEF Statuses, Finished
<1>7. native' \in [Turns -> Statuses] /\ by' \in [Turns -> Contexts \cup {0, LateContext}]
      /\ native'[m] = "running" /\ by'[m] = x
      /\ \A n \in Turns \ {m} : native'[n] = native[n] /\ by'[n] = by[n]
  BY <1>1, <1>4, <1>5, <1>6
<1>8. Moves(x)
  BY <1>4, <1>6, <1>7 DEF Moves
<1>9. m \notin received
  BY <1>4, TurnOf DEF NativeOK
<1>10. late' \in BOOLEAN
  BY DEF Starts
<1>11. \A n \in owed : native'[n] \in Finished
  BY <1>1, <1>4, <1>6, <1>7
<1>. QED  BY <1>3, <1>4, <1>7, <1>8, <1>9, <1>10, <1>11

\* A turn ends with one of the statuses.
LEMMA EndsMoves ==
    ASSUME IInv, NEW n \in Turns, UNCHANGED <<by, received, outcome>>,
           \/ native' = native /\ owed' \subseteq owed
           \/ /\ native[n] = "running" /\ owed' = owed \cup {n}
              /\ \E status \in Finished : native' = [native EXCEPT ![n] = status]
    PROVE  Moves(LateContext) /\ owed' \subseteq Turns /\ \A m \in owed' : native'[m] \in Finished
<1>1. native \in [Turns -> Statuses] /\ by \in [Turns -> Contexts \cup {0, LateContext}]
      /\ owed \subseteq Turns /\ \A m \in owed : native[m] \in Finished
  BY NativeTypes
<1>2. LateContext # 0
  BY Numbers
<1>3. CASE native' = native /\ owed' \subseteq owed
  BY <1>1, <1>2, <1>3 DEF Moves
<1>4. CASE /\ native[n] = "running" /\ owed' = owed \cup {n}
           /\ \E status \in Finished : native' = [native EXCEPT ![n] = status]
  <2>1. PICK status \in Finished : native' = [native EXCEPT ![n] = status]
    BY <1>4
  <2>2. status \in Statuses
    BY DEF Statuses
  <2>3. native' \in [Turns -> Statuses] /\ native'[n] = status
        /\ \A m \in Turns \ {n} : native'[m] = native[m]
    BY <1>1, <2>1, <2>2
  <2>4. Moves(LateContext)
    BY <1>1, <1>2, <1>4, <2>1, <2>3 DEF Moves
  <2>5. ASSUME NEW m \in owed' PROVE native'[m] \in Finished
    BY <1>1, <1>4, <2>1, <2>3
  <2>. QED  BY <1>1, <1>4, <2>4, <2>5
<1>. QED  BY <1>3, <1>4

LEMMA NotLate ==
    ASSUME IInv, NEW c \in Callers
    PROVE  call[c].ctx # LateContext
<1>1. call[c].ctx \in Contexts \cup {0}
  BY CallOf, CallFields
<1>. QED  BY <1>1, Numbers

LEMMA ServeLateStep ==
    ASSUME IInv, ServeLate
    PROVE  IInv' /\ ToolStep
<1>1. Starts(LateContext) /\ UNCHANGED <<client, lock, call, up, owed, received, outcome>>
  BY DEF ServeLate, told
<1>2. Moves(LateContext) /\ late' \in BOOLEAN /\ \A n \in owed : native'[n] \in Finished
  BY <1>1, StartsMoves
<1>3. up' \in BOOLEAN /\ owed' \subseteq Turns /\ \A n \in owed' : native'[n] \in Finished
  BY <1>1, <1>2 DEF IInv, Types
<1>. QED  BY <1>1, <1>2, <1>3, NotLate, JustMoves

LEMMA EndsStep ==
    ASSUME IInv, NEW n \in Turns, Ends(n)
    PROVE  IInv' /\ ToolStep
<1>1. Moves(LateContext) /\ owed' \subseteq Turns /\ \A m \in owed' : native'[m] \in Finished
  BY EndsMoves DEF Ends, told
<1>2. up' \in BOOLEAN /\ late' \in BOOLEAN /\ UNCHANGED <<client, lock, call>>
  BY DEF Ends, IInv, Types
<1>. QED  BY <1>1, <1>2, NotLate, JustMoves

LEMMA DiesStep ==
    ASSUME IInv, Dies
    PROVE  IInv' /\ ToolStep
<1>1. World /\ owed' \subseteq owed /\ up' \in BOOLEAN /\ late' \in BOOLEAN
      /\ UNCHANGED <<client, lock, call>>
  BY DEF Dies, Gone, told, World
<1>2. /\ client' \in Client /\ call' \in [Callers -> Call] /\ ClientOK(client', call')
      /\ lock' \in Callers \cup {Nobody}
      /\ \A n \in Turns : TurnOK(client', n)
      /\ \A c \in Callers : CallOK(c, call'[c], client', lock')
  BY <1>1 DEF IInv, Types
<1>3. IInv'
  BY <1>1, <1>2, Conclude
<1>. QED  BY <1>1, <1>3, MildRefl, NoToolStep

\* The process answers call c with r, which is so by then.
LEMMA AnswerStep ==
    ASSUME IInv, NEW x, Moves(x), owed' \subseteq Turns, \A n \in owed' : native'[n] \in Finished,
           up' \in BOOLEAN, late' \in BOOLEAN, UNCHANGED <<client, lock>>,
           NEW c \in Callers, NEW r \in Future, call' = [call EXCEPT ![c].fut = r],
           call[c].stage \in {"resuming", "asking"}, r.is # "wait",
           r.is = "turn" => /\ call[c].stage = "asking" /\ call[c].goal = "start"
                            /\ r.turn \in Turns /\ r.turn \notin received
                            /\ by'[r.turn] = call[c].ctx,
           r.is \in Finished => call[c].turn # 0 /\ native'[call[c].turn] = r.is,
           \A d \in Callers : call[d].goal = "prepare" => call[d].ctx # x
    PROVE  IInv' /\ ToolStep
<1>. DEFINE g == Answered(call[c], r)
<1>1. call \in [Callers -> Call] /\ client \in Client
  BY DEF IInv, Types
<1>2. call' = [call EXCEPT ![c] = g]
  BY <1>1 DEF Answered
<1>3. g \in Call /\ g.stage = call[c].stage /\ g.fut = r /\ Still(call[c], g)
  BY <1>1, AnsweredFields
<1>. HIDE DEF g
<1>4. call' \in [Callers -> Call] /\ call'[c] = g /\ \A d \in Callers \ {c} : call'[d] = call[d]
  BY <1>1, <1>2, <1>3
<1>5. \A d \in Callers : call'[d].goal = call[d].goal /\ call'[d].ctx = call[d].ctx
  BY <1>3, <1>4 DEF Still
<1>6. ASSUME NEW d \in Callers PROVE Knows(call[d])'
  <2>1. call[d] \in Call /\ Shape(d, call[d]) /\ Knows(call[d])
    BY CallOf
  <2>2. PICK h : h = call[d]
    OBVIOUS
  <2>3. Knows(h)'
    BY <2>1, <2>2, MovedCall
  <2>4. CASE d # c
    BY <1>4, <2>2, <2>3, <2>4 DEF Knows, Recalls
  <2>5. CASE d = c
    <3>1. Recalls(h)' /\ received' = received
      BY <2>3 DEF Knows, Moves
    <3>2. PICK e : e = g
      OBVIOUS
    <3>3. Recalls(e)'
      BY <2>2, <2>5, <3>1, <3>2, <1>3 DEF Recalls, Still
    <3>4. Knows(e)'
      BY <1>3, <2>5, <3>1, <3>2, <3>3 DEF Knows, Still
    <3>. QED  BY <1>4, <2>5, <3>2, <3>4 DEF Knows, Recalls
  <2>. QED  BY <2>4, <2>5
<1>7. ASSUME NEW d \in Callers
      PROVE  Shape(d, call'[d]) /\ Sees(call'[d], client') /\ Held(d, call'[d], lock)
  <2>1. Shape(d, call[d]) /\ Sees(call[d], client) /\ Held(d, call[d], lock)
    BY CallOf
  <2>2. CASE d # c
    BY <1>4, <2>1, <2>2
  <2>3. CASE d = c
    <3>1. Shape(c, g)
      BY <1>3, <2>1, <2>3 DEF Shape, Sends, Still
    <3>2. Sees(g, client)
      BY <1>3, <2>1, <2>3 DEF Sees, Still
    <3>3. Held(c, g, lock)
      BY <1>3, <2>1, <2>3 DEF Held
    <3>. QED  BY <1>4, <2>3, <3>1, <3>2, <3>3
  <2>. QED  BY <2>2, <2>3
<1>8. ClientOK(client', call')
  <2>1. ClientOK(client, call)
    BY DEF IInv
  <2>. QED  BY <1>5, <2>1 DEF ClientOK, Binds
<1>9. client' \in Client /\ \A n \in Turns : TurnOK(client', n)
  BY <1>1, TurnOf
<1>10. lock' = lock /\ \A d \in Callers : Shape(d, call'[d]) /\ Sees(call'[d], client')
                              /\ Held(d, call'[d], lock) /\ Knows(call[d])'
  BY <1>6, <1>7
<1>11. IInv'
  BY <1>4, <1>8, <1>9, <1>10, ConcludeMove
<1>. QED  BY <1>11, MildRefl, NoToolStep

LEMMA ServeStep ==
    ASSUME IInv, NEW c \in Callers, Serve(c)
    PROVE  IInv' /\ ToolStep
<1>. DEFINE n == call[c].turn
            what == IF call[c].stage = "resuming" THEN "resume" ELSE Asked(call[c].goal)
<1>1. /\ call[c] \in Call /\ Shape(c, call[c]) /\ Sends(c, call[c]) /\ Recalls(call[c])
  BY CallOf
<1>2. call[c].stage \in {"resuming", "asking"} /\ call[c].goal \in Goals
  BY <1>1, CallFields DEF Serve, Asking
<1>3. UNCHANGED <<client, lock, up, received, outcome>>
  BY DEF Serve, told
<1>4. up' \in BOOLEAN /\ late \in BOOLEAN /\ owed \subseteq Turns
  BY <1>3 DEF IInv, Types
<1>5. \A d \in Callers : call[d].goal = "prepare" => call[d].ctx # LateContext
  BY NotLate
<1>6. \A is \in Kinds, m \in Turns \cup {0} :
         Reply(is, m) \in Future /\ Reply(is, m).is = is /\ Reply(is, m).turn = m
  BY ReplyFields
<1>7. CASE what = "start" /\ Starts(call[c].ctx) /\ owed' = owed
           /\ call' = [call EXCEPT ![c].fut = Reply("turn", NextTurn)]
  <2>1. call[c].stage = "asking" /\ call[c].goal = "start"
    BY <1>2, <1>7, AskedGoals
  <2>2. call[c].ctx \in Contexts \cup {LateContext} /\ call[c].ctx # 0
    BY <1>1, <2>1, CallFields DEF Sends
  <2>3. /\ Moves(call[c].ctx) /\ late' \in BOOLEAN /\ NextTurn \in Turns /\ NextTurn \notin received
        /\ by'[NextTurn] = call[c].ctx /\ \A m \in owed : native'[m] \in Finished
    BY <1>3, <1>7, <2>2, StartsMoves
  <2>4. ASSUME NEW d \in Callers, call[d].goal = "prepare" PROVE call[d].ctx # call[c].ctx
    <3>1. Sends(d, call[d])
      BY CallOf
    <3>2. call[d].ctx # 0
      BY <2>4, <3>1 DEF Sends
    <3>3. d = c
      BY <1>1, <2>2, <3>1, <3>2, Sender
    <3>. QED  BY <2>1, <2>4, <3>3
  <2>5. PICK r : r = Reply("turn", NextTurn)
    OBVIOUS
  <2>6. "turn" \in Kinds /\ "turn" \notin Finished
    BY DEF Kinds, Finished
  <2>7. r \in Future /\ r.is = "turn" /\ r.turn = NextTurn
    BY <1>6, <2>3, <2>5, <2>6
  <2>8. owed' \subseteq Turns /\ \A m \in owed' : native'[m] \in Finished
    BY <1>4, <1>7, <2>3
  <2>9. PICK x : x = call[c].ctx
    OBVIOUS
  <2>10. Moves(x) /\ \A d \in Callers : call[d].goal = "prepare" => call[d].ctx # x
    BY <2>3, <2>4, <2>9
  <2>. QED  BY <1>2, <1>3, <1>4, <1>7, <2>1, <2>3, <2>5, <2>6, <2>7, <2>8, <2>10, AnswerStep
<1>8. CASE what = "interrupt" /\ Stopped(n) /\ UNCHANGED <<late, by>>
           /\ call' = [call EXCEPT ![c].fut = Reply("done", 0)]
  <2>1. call[c].goal \in {"stop", "cut"} /\ call[c].stage = "asking"
    BY <1>2, <1>8, AskedGoals
  <2>2. n \in Turns
    <3>1. call[c].goal \in TurnGoals
      BY <2>1 DEF TurnGoals
    <3>. QED  BY <1>1, <3>1, CallFields DEF Sends
  <2>3. "interrupted" \in Finished
    BY DEF Finished
  <2>4. Moves(LateContext) /\ owed' \subseteq Turns /\ \A m \in owed' : native'[m] \in Finished
    BY <1>3, <1>8, <2>2, <2>3, EndsMoves DEF Stopped
  <2>5. "done" \in Kinds /\ "done" \notin Finished /\ late' \in BOOLEAN
    BY <1>4, <1>8 DEF Kinds, Finished
  <2>6. PICK r : r = Reply("done", 0)
    OBVIOUS
  <2>7. r \in Future /\ r.is = "done"
    BY <1>6, <2>5, <2>6
  <2>. QED  BY <1>2, <1>3, <1>4, <1>5, <1>8, <2>4, <2>5, <2>6, <2>7, AnswerStep
<1>9. CASE what = "list" /\ UNCHANGED <<late, native, owed, by>>
           /\ call' = [call EXCEPT ![c].fut = Reply(Seen(native[n], call[c].goal), 0)]
  <2>1. call[c].goal \in {"history", "find", "check", "recheck"} /\ call[c].stage = "asking"
    BY <1>2, <1>9, AskedGoals
  <2>2. n \in Turns /\ n # 0
    <3>1. call[c].goal \in TurnGoals
      BY <2>1 DEF TurnGoals
    <3>. QED  BY <1>1, <3>1, CallFields DEF Sends
  <2>3. Moves(LateContext) /\ owed' \subseteq Turns /\ \A m \in owed' : native'[m] \in Finished
    BY <1>3, <1>9, <2>2, EndsMoves
  <2>4. PICK s : s = Seen(native[n], call[c].goal)
    OBVIOUS
  <2>5. s \in Kinds /\ s # "wait" /\ s # "turn" /\ (s \in Finished => native[n] = s)
    BY <2>4 DEF Seen, Kinds, Finished
  <2>6. PICK r : r = Reply(s, 0)
    OBVIOUS
  <2>7. r \in Future /\ r.is = s
    BY <1>6, <2>5, <2>6
  <2>8. call' = [call EXCEPT ![c].fut = r] /\ late' \in BOOLEAN
    BY <1>4, <1>9, <2>4, <2>6
  <2>9. r.is \in Finished => call[c].turn # 0 /\ native'[call[c].turn] = r.is
    BY <1>9, <2>2, <2>5, <2>7
  <2>. QED  BY <1>2, <1>3, <1>4, <1>5, <2>3, <2>5, <2>7, <2>8, <2>9, AnswerStep
<1>10. CASE what \in {"resume", "archive"} /\ UNCHANGED <<late, native, owed, by>>
            /\ call' = [call EXCEPT ![c].fut = Reply("done", 0)]
  <2>1. 1 \in Turns
    BY CodexConstants, SMT DEF Turns
  <2>2. Moves(LateContext) /\ owed' \subseteq Turns /\ \A m \in owed' : native'[m] \in Finished
    BY <1>3, <1>10, <2>1, EndsMoves
  <2>3. "done" \in Kinds /\ "done" \notin Finished /\ late' \in BOOLEAN
    BY <1>4, <1>10 DEF Kinds, Finished
  <2>4. PICK r : r = Reply("done", 0)
    OBVIOUS
  <2>5. r \in Future /\ r.is = "done"
    BY <1>6, <2>3, <2>4
  <2>. QED  BY <1>2, <1>3, <1>4, <1>5, <1>10, <2>2, <2>3, <2>4, <2>5, AnswerStep
<1>. QED  BY <1>7, <1>8, <1>9, <1>10 DEF Serve

----------------------------------------------------------------------------
\* The reader marks turn n of client b, which becomes k.

Marks(b, k, n) ==
    /\ OnlyTurn(b, k, n) /\ k.tool = b.tool /\ k.prepared = b.prepared /\ k.last = b.last
    /\ k.on = b.on /\ k.failed = b.failed
    /\ \A m \in Turns \ {n} : k.ask[m] = b.ask[m]
    /\ k.ask[n] = "failure" => b.ask[n] = "failure" \/ k.turn[n].failure
    /\ LET t == b.turn[n] u == k.turn[n] IN
       /\ u.ack = t.ack /\ u.ctx = t.ctx /\ (t.tracked => u.tracked)
       /\ t.done => u.done
       /\ t.failure => u.failure
       /\ t.error => u.error
       /\ (t.ack \/ Bound(b, n)) /\ u.done /\ ~u.failure /\ ~u.error =>
             t.done \/ native[n] = "completed"

LEMMA MarksOK ==
    ASSUME NEW b, NEW k, NEW n \in Turns, native[n] # "absent", Marks(b, k, n), ToolsOK(b),
           \A m \in Turns : TurnOK(b, m)
    PROVE  Mild(b, k) /\ ToolsOK(k) /\ NoToolStarts(b, k) /\ \A m \in Turns : TurnOK(k, m)
<1>1. Mild(b, k)
  BY DEF Mild, Marks, OnlyTurn
<1>2. ToolsOK(k) /\ NoToolStarts(b, k)
  BY DEF Marks, ToolsOK, NoToolStarts
<1>3. ASSUME NEW m \in Turns PROVE TurnOK(k, m)
  <2>1. TurnOK(b, m) /\ (Bound(k, m) <=> Bound(b, m))
    BY DEF Marks, Bound
  <2>2. CASE m # n
    <3>1. k.turn[m] = b.turn[m] /\ k.ask[m] = b.ask[m] /\ k.last = b.last /\ k.failed = b.failed
      BY <2>2 DEF Marks, OnlyTurn
    <3>. QED  BY <2>1, <3>1 DEF TurnOK, Agrees
  <2>3. CASE m = n
    <3>1. k.turn[n].ack \/ Bound(k, n) => Agrees(k, n)
      BY <2>1, <2>3 DEF TurnOK, Agrees, Marks
    <3>2. k.turn[n].ack => /\ k.turn[n].tracked /\ k.turn[n].ctx = by[n]
                           /\ n \in received /\ outcome[n] = "none"
      BY <2>1, <2>3 DEF TurnOK, Marks
    <3>3. (k.last = n /\ n \in received => k.turn[n].ack)
          /\ (k.failed /\ k.turn[n].ack => k.turn[n].done)
      BY <2>1, <2>3 DEF TurnOK, Marks
    <3>. QED  BY <2>3, <3>1, <3>2, <3>3 DEF TurnOK
  <2>. QED  BY <2>2, <2>3
<1>. QED  BY <1>1, <1>2, <1>3

\* A step of the reader: no call moves.
LEMMA ReaderStep ==
    ASSUME IInv, World, owed' \subseteq owed, up' \in BOOLEAN, late' \in BOOLEAN,
           UNCHANGED <<lock, call>>, client.on,
           client' \in Client, Mild(client, client'), ToolsOK(client'),
           client'.prepared = 0 \/ client'.prepared = client.prepared,
           \A n \in Turns : TurnOK(client', n)
    PROVE  IInv'
<1>1. call' \in [Callers -> Call] /\ lock' \in Callers \cup {Nobody}
  BY DEF IInv, Types
<1>2. client'.on
  BY DEF Mild
<1>3. ClientOK(client', call')
  BY <1>2 DEF IInv, ClientOK, Binds
<1>4. ASSUME NEW c \in Callers PROVE CallOK(c, call'[c], client', lock')
  <2>1. /\ call[c] \in Call /\ Shape(c, call[c]) /\ Knows(call[c]) /\ Sees(call[c], client)
        /\ Held(c, call[c], lock)
    BY CallOf
  <2>2. Sees(call[c], client')
    BY <2>1, SeesKept
  <2>. QED  BY <2>1, <2>2 DEF CallOK
<1>. QED  BY <1>1, <1>3, <1>4, Conclude

LEMMA MarkStep ==
    ASSUME IInv, World, owed' \subseteq owed, up' \in BOOLEAN, late' \in BOOLEAN,
           UNCHANGED <<lock, call>>, client.on, NEW n \in Turns, native[n] # "absent",
           client' \in Client, Marks(client, client', n)
    PROVE  IInv' /\ ToolStep
<1>1. ToolsOK(client) /\ \A m \in Turns : TurnOK(client, m)
  BY DEF IInv, ClientOK
<1>2. /\ Mild(client, client') /\ ToolsOK(client') /\ NoToolStarts(client, client')
      /\ \A m \in Turns : TurnOK(client', m)
  <2>1. PICK k : k = client'
    OBVIOUS
  <2>2. Mild(client, k) /\ ToolsOK(k) /\ NoToolStarts(client, k) /\ \A m \in Turns : TurnOK(k, m)
    BY <1>1, <2>1, MarksOK
  <2>. QED  BY <2>1, <2>2
<1>3. client'.prepared = client.prepared
  BY DEF Marks
<1>. QED  BY <1>2, <1>3, ReaderStep, NoToolStep

\* A failure of a client that has failed before.
LEMMA FailAgain ==
    ASSUME IInv, World, owed' \subseteq owed, up' \in BOOLEAN, late' \in BOOLEAN,
           UNCHANGED <<lock, call>>, client.on, NEW n \in Turns, native[n] # "absent",
           NEW k \in Client, Marks(client, k, n), k.failed, client' = FailClient(k)
    PROVE  IInv' /\ ToolStep
<1>1. ToolsOK(client) /\ \A m \in Turns : TurnOK(client, m)
  BY DEF IInv, ClientOK
<1>2. /\ Mild(client, k) /\ ToolsOK(k) /\ NoToolStarts(client, k)
      /\ \A m \in Turns : TurnOK(k, m)
  BY <1>1, MarksOK
<1>3. PICK j : j = FailClient(k)
  OBVIOUS
<1>4. /\ j \in Client /\ ToolsOK(j) /\ NoToolStarts(k, j)
      /\ j.failed /\ j.prepared = 0 /\ j.on = k.on /\ j.last = k.last
      /\ \A m \in Turns : Ended(k.turn[m], j.turn[m]) /\ j.ask[m] = "none"
  BY <1>2, <1>3, FailClientFields
<1>5. \A m \in Turns : TurnOK(j, m)
  BY <1>2, <1>4, FailedTurns
<1>6. Mild(k, j)
  BY <1>4 DEF Mild, Ended
<1>7. client.failed /\ k.failed = client.failed
  BY DEF Marks
<1>8. Mild(client, j) /\ NoToolStarts(client, j)
  BY <1>2, <1>4, <1>6 DEF Mild, NoToolStarts
<1>. QED  BY <1>3, <1>4, <1>5, <1>8, ReaderStep, NoToolStep

LEMMA MarksTrans ==
    ASSUME NEW b, NEW k, NEW j, NEW n \in Turns, Marks(b, k, n), Marks(k, j, n)
    PROVE  Marks(b, j, n)
<1>1. OnlyTurn(b, j, n)
  BY DEF Marks, OnlyTurn
<1>2. Bound(k, n) <=> Bound(b, n)
  BY DEF Marks, Bound
<1>. QED  BY <1>1, <1>2 DEF Marks

LEMMA SetMarks ==
    ASSUME NEW b \in Client, NEW n \in Turns, NEW u \in TurnState,
           u.ack = b.turn[n].ack, u.ctx = b.turn[n].ctx,
           b.turn[n].tracked => u.tracked, b.turn[n].done => u.done,
           b.turn[n].failure => u.failure, b.turn[n].error => u.error,
           u.done /\ ~u.failure /\ ~u.error => b.turn[n].done \/ native[n] = "completed"
    PROVE  LET k == SetTurn(b, n, u) IN k \in Client /\ k.turn[n] = u /\ Marks(b, k, n)
<1>. DEFINE k == SetTurn(b, n, u)
<1>1. /\ k \in Client /\ k.turn[n] = u /\ OnlyTurn(b, k, n)
      /\ k.tool = b.tool /\ k.ask = b.ask /\ k.last = b.last /\ k.prepared = b.prepared
      /\ k.on = b.on /\ k.failed = b.failed
  BY SetTurnFields, SMT
<1>. HIDE DEF k
<1>2. Marks(b, k, n)
  BY <1>1 DEF Marks
<1>. QED  BY <1>1, <1>2 DEF k

LEMMA TrackMarks ==
    ASSUME NEW b \in Client, NEW n \in Turns
    PROVE  LET k == Track(b, n) IN
           /\ k \in Client /\ Marks(b, k, n) /\ k.turn[n].done = b.turn[n].done
           /\ k.turn[n].failure = b.turn[n].failure
<1>. DEFINE k == Track(b, n)
<1>1. /\ k \in Client /\ OnlyTurn(b, k, n)
      /\ k.turn[n].tracked /\ k.turn[n].ack = b.turn[n].ack /\ k.turn[n].ctx = b.turn[n].ctx
      /\ k.turn[n].done = b.turn[n].done /\ k.turn[n].failure = b.turn[n].failure
      /\ k.turn[n].error = b.turn[n].error
      /\ k.tool = b.tool /\ k.ask = b.ask /\ k.last = b.last /\ k.prepared = b.prepared
      /\ k.on = b.on /\ k.failed = b.failed
  BY TrackFields
<1>. HIDE DEF k
<1>2. Marks(b, k, n)
  BY <1>1 DEF Marks
<1>. QED  BY <1>1, <1>2 DEF k

\* A turn interrupt is asked for, of a turn that is marked accordingly.
LEMMA AskStep ==
    ASSUME IInv, client.on, NEW n \in Turns, native[n] # "absent",
           NEW k \in Client, Marks(client, k, n), NEW kind \in {"limit", "failure"},
           kind = "failure" => k.turn[n].failure, Ask(k, n, kind),
           UNCHANGED <<lock, call, native, by, told, faults>>
    PROVE  IInv' /\ ToolStep
<1>. DEFINE u == [k.turn[n] EXCEPT !.asked = TRUE]
            j == SetTurn(k, n, u)
            a == [j.ask EXCEPT ![n] = kind]
            i == [j EXCEPT !.ask = a]
<1>1. World /\ owed' \subseteq owed /\ up' \in BOOLEAN /\ late' \in BOOLEAN /\ UNCHANGED <<lock, call>>
  BY DEF Ask, Stays, Gone, told, World, IInv, Types
<1>2. k.turn[n] \in TurnState
  BY ClientFields
<1>3. /\ u \in TurnState /\ u.ack = k.turn[n].ack /\ u.ctx = k.turn[n].ctx
      /\ u.tracked = k.turn[n].tracked /\ u.done = k.turn[n].done
      /\ u.failure = k.turn[n].failure /\ u.error = k.turn[n].error
  <2>1. PICK t : t = k.turn[n]
    OBVIOUS
  <2>2. LET w == [t EXCEPT !.asked = TRUE] IN
        /\ w \in TurnState /\ w.ack = t.ack /\ w.ctx = t.ctx
        /\ w.tracked = t.tracked /\ w.done = t.done /\ w.failure = t.failure /\ w.error = t.error
    BY <1>2, <2>1 DEF TurnState
  <2>. QED  BY <2>1, <2>2
<1>4. \/ k.turn[n].asked /\ client' = k
      \/ ~k.turn[n].asked /\ ~k.failed /\ client' = i
      \/ ~k.turn[n].asked /\ k.failed /\ client' = FailClient(j)
  BY DEF Ask, SetTurn
<1>. HIDE DEF u
<1>5. j \in Client /\ j.turn[n] = u /\ Marks(k, j, n)
  BY <1>3, SetMarks
<1>. HIDE DEF j
<1>6. Marks(client, j, n)
  BY <1>5, MarksTrans
<1>7. CASE client' = k
  BY <1>1, <1>7, MarkStep
<1>8. CASE client' = i
  <2>1. a \in [Turns -> {"none", "limit", "failure"}] /\ a[n] = kind
        /\ \A m \in Turns \ {n} : a[m] = j.ask[m]
    BY <1>5 DEF Client
  <2>. HIDE DEF a
  <2>2. /\ i \in Client /\ i.ask = a /\ i.turn = j.turn /\ i.tool = j.tool /\ i.on = j.on
        /\ i.failed = j.failed /\ i.prepared = j.prepared /\ i.last = j.last
    BY <1>5, <2>1 DEF Client
  <2>. HIDE DEF i
  <2>3. Marks(client, i, n)
    <3>1. OnlyTurn(client, i, n) /\ i.turn[n].failure = k.turn[n].failure
      BY <1>3, <1>5, <1>6, <2>2 DEF OnlyTurn, Marks
    <3>. QED  BY <1>6, <2>1, <2>2, <3>1 DEF Marks
  <2>. QED  BY <1>1, <1>8, <2>2, <2>3, MarkStep
<1>9. CASE k.failed /\ client' = FailClient(j)
  <2>1. j.failed
    BY <1>5, <1>9 DEF Marks
  <2>. QED  BY <1>1, <1>5, <1>6, <1>9, <2>1, FailAgain
<1>. QED  BY <1>4, <1>7, <1>8, <1>9

LEMMA HandleDeltaStep ==
    ASSUME IInv, client.on, NEW n \in Turns, native[n] # "absent", HandleDelta(n),
           UNCHANGED <<lock, call, native, by, told, faults>>
    PROVE  IInv' /\ ToolStep
<1>. DEFINE k == Track(client, n)
            u == [k.turn[n] EXCEPT !.error = TRUE]
            e == SetTurn(k, n, u)
<1>1. client \in Client
  BY DEF IInv, Types
<1>2. k \in Client /\ Marks(client, k, n)
  BY <1>1, TrackMarks
<1>3. (client' = k /\ Stays) \/ Ask(e, n, "limit")
  BY DEF HandleDelta, Track, SetTurn
<1>. HIDE DEF k
<1>4. CASE client' = k /\ Stays
  <2>1. World /\ owed' \subseteq owed /\ up' \in BOOLEAN /\ late' \in BOOLEAN /\ UNCHANGED <<lock, call>>
    BY <1>4 DEF Stays, told, World, IInv, Types
  <2>. QED  BY <1>2, <1>4, <2>1, MarkStep
<1>5. CASE Ask(e, n, "limit")
  <2>1. PICK t : t = k.turn[n]
    OBVIOUS
  <2>2. t \in TurnState
    BY <1>2, <2>1, ClientFields
  <2>3. LET w == [t EXCEPT !.error = TRUE] IN
        /\ w \in TurnState /\ w.ack = t.ack /\ w.ctx = t.ctx
        /\ w.tracked = t.tracked /\ w.done = t.done /\ w.failure = t.failure /\ w.error
    BY <2>2 DEF TurnState
  <2>4. /\ u \in TurnState /\ u.ack = k.turn[n].ack /\ u.ctx = k.turn[n].ctx
        /\ u.tracked = k.turn[n].tracked /\ u.done = k.turn[n].done
        /\ u.failure = k.turn[n].failure /\ u.error
    BY <2>1, <2>3
  <2>. HIDE DEF u
  <2>5. e \in Client /\ Marks(k, e, n)
    BY <1>2, <2>4, SetMarks
  <2>. HIDE DEF e
  <2>6. Marks(client, e, n)
    BY <1>2, <2>5, MarksTrans
  <2>. QED  BY <1>5, <2>5, <2>6, AskStep
<1>. QED  BY <1>3, <1>4, <1>5

LEMMA HandleErrorStep ==
    ASSUME IInv, client.on, NEW n \in Turns, native[n] # "absent", HandleError(n),
           UNCHANGED <<lock, call, native, by, told, faults>>
    PROVE  IInv' /\ ToolStep
<1>. DEFINE k == Track(client, n)
            u == [k.turn[n] EXCEPT !.failure = TRUE, !.error = TRUE]
            e == SetTurn(k, n, u)
<1>1. client \in Client
  BY DEF IInv, Types
<1>2. k \in Client /\ Marks(client, k, n) /\ k.turn \in [Turns -> TurnState]
  BY <1>1, TrackMarks DEF Client
<1>3. (client' = k /\ Stays)
      \/ Ask([k EXCEPT !.turn[n].failure = TRUE, !.turn[n].error = TRUE], n, "failure")
  BY DEF HandleError, Track, SetTurn
<1>. HIDE DEF k
<1>4. CASE client' = k /\ Stays
  <2>1. World /\ owed' \subseteq owed /\ up' \in BOOLEAN /\ late' \in BOOLEAN /\ UNCHANGED <<lock, call>>
    BY <1>4 DEF Stays, told, World, IInv, Types
  <2>. QED  BY <1>2, <1>4, <2>1, MarkStep
<1>5. CASE Ask([k EXCEPT !.turn[n].failure = TRUE, !.turn[n].error = TRUE], n, "failure")
  <2>0. [k EXCEPT !.turn[n].failure = TRUE, !.turn[n].error = TRUE] = e
    BY <1>2 DEF SetTurn, Client
  <2>1. PICK t : t = k.turn[n]
    OBVIOUS
  <2>2. t \in TurnState
    BY <1>2, <2>1, ClientFields
  <2>3. LET w == [t EXCEPT !.failure = TRUE, !.error = TRUE] IN
        /\ w \in TurnState /\ w.ack = t.ack /\ w.ctx = t.ctx
        /\ w.tracked = t.tracked /\ w.done = t.done /\ w.failure /\ w.error
    BY <2>2 DEF TurnState
  <2>4. /\ u \in TurnState /\ u.ack = k.turn[n].ack /\ u.ctx = k.turn[n].ctx
        /\ u.tracked = k.turn[n].tracked /\ u.done = k.turn[n].done
        /\ u.failure /\ u.error
    BY <2>1, <2>3
  <2>. HIDE DEF u
  <2>5. e \in Client /\ e.turn[n] = u /\ Marks(k, e, n)
    BY <1>2, <2>4, SetMarks
  <2>. HIDE DEF e
  <2>6. Marks(client, e, n)
    BY <1>2, <2>5, MarksTrans
  <2>7. Ask(e, n, "failure")
    BY <1>5, <2>0
  <2>. QED  BY <2>4, <2>5, <2>6, <2>7, AskStep
<1>. QED  BY <1>3, <1>4, <1>5

\* The client after a turn interrupt of turn n was answered.
LEMMA AskEndsMarks ==
    ASSUME IInv, NEW n \in Turns, client.ask[n] # "none", AskEnds(n, TRUE)
    PROVE  client' \in Client /\ Marks(client, client', n)
<1>. DEFINE a == [client.ask EXCEPT ![n] = "none"]
            k == [client EXCEPT !.ask = a]
            u == [k.turn[n] EXCEPT !.done = TRUE]
<1>1. client \in Client /\ TurnOK(client, n)
  BY DEF IInv, Types
<1>2. a \in [Turns -> {"none", "limit", "failure"}] /\ a[n] = "none"
      /\ \A m \in Turns \ {n} : a[m] = client.ask[m]
  BY <1>1 DEF Client
<1>3. client' = IF n \in Failing /\ k.turn[n].tracked THEN SetTurn(k, n, u) ELSE k
  BY DEF AskEnds, SetTurn
<1>. HIDE DEF a
<1>4. /\ k \in Client /\ k.ask = a /\ k.turn = client.turn /\ k.tool = client.tool /\ k.on = client.on
      /\ k.failed = client.failed /\ k.prepared = client.prepared /\ k.last = client.last
  BY <1>1, <1>2 DEF Client
<1>. HIDE DEF k
<1>5. Marks(client, k, n)
  BY <1>2, <1>4 DEF Marks, OnlyTurn
<1>6. CASE client' = k
  BY <1>4, <1>5, <1>6
<1>7. CASE n \in Failing /\ client' = SetTurn(k, n, u)
  <2>1. PICK t : t = k.turn[n]
    OBVIOUS
  <2>2. t \in TurnState
    BY <1>4, <2>1, ClientFields
  <2>3. LET w == [t EXCEPT !.done = TRUE] IN
        /\ w \in TurnState /\ w.ack = t.ack /\ w.ctx = t.ctx
        /\ w.tracked = t.tracked /\ w.done /\ w.failure = t.failure /\ w.error = t.error
    BY <2>2 DEF TurnState
  <2>4. /\ u \in TurnState /\ u.ack = k.turn[n].ack /\ u.ctx = k.turn[n].ctx
        /\ u.tracked = k.turn[n].tracked /\ u.done
        /\ u.failure = k.turn[n].failure /\ u.error = k.turn[n].error
    BY <2>1, <2>3
  <2>. HIDE DEF u
  <2>5. PICK j : j = SetTurn(k, n, u)
    OBVIOUS
  <2>6. /\ j \in Client /\ j.turn[n] = u /\ OnlyTurn(k, j, n)
        /\ j.tool = k.tool /\ j.ask = k.ask /\ j.last = k.last /\ j.prepared = k.prepared
        /\ j.on = k.on /\ j.failed = k.failed
    BY <1>4, <2>4, <2>5, SetTurnFields, SMT
  <2>7. client.turn[n].ack \/ Bound(client, n) => client.turn[n].failure
    BY <1>1, <1>7 DEF TurnOK, Agrees, Failing
  <2>8. OnlyTurn(client, j, n)
    BY <1>4, <2>6 DEF OnlyTurn
  <2>9. /\ j.tool = client.tool /\ j.prepared = client.prepared /\ j.last = client.last
        /\ j.on = client.on /\ j.failed = client.failed /\ j.ask = a
    BY <1>4, <2>6
  <2>10. LET v == client.turn[n] w == j.turn[n] IN
         /\ w.ack = v.ack /\ w.ctx = v.ctx /\ w.tracked = v.tracked
         /\ w.done /\ w.failure = v.failure /\ w.error = v.error
    BY <1>4, <2>4, <2>6
  <2>11. Marks(client, j, n)
    BY <1>2, <2>7, <2>8, <2>9, <2>10 DEF Marks
  <2>. QED  BY <1>7, <2>5, <2>6, <2>11
<1>. QED  BY <1>3, <1>6, <1>7

LEMMA ServeAskStep ==
    ASSUME IInv, NEW n \in Turns, ServeAsk(n)
    PROVE  IInv' /\ ToolStep
<1>. DEFINE S == {n} \cap Failing
<1>1. /\ client.ask[n] # "none" /\ Stopped(n) /\ AskEnds(n, TRUE)
      /\ UNCHANGED <<lock, by, received, outcome, up, late>> /\ call' = WakeOrphans(call, S)
  BY DEF ServeAsk, AskEnds, told
<1>2. client' \in Client /\ Marks(client, client', n)
  BY <1>1, AskEndsMarks
<1>3. "interrupted" \in Finished
  BY DEF Finished
<1>4. Moves(LateContext) /\ owed' \subseteq Turns /\ \A m \in owed' : native'[m] \in Finished
  BY <1>1, <1>3, EndsMoves DEF Stopped
<1>5. native[n] # "absent" /\ client.on
  BY <1>1, NoClientFields DEF IInv, TurnOK, ClientOK
<1>6. ToolsOK(client) /\ \A m \in Turns : TurnOK(client, m)
  BY DEF IInv, ClientOK
<1>7. /\ Mild(client, client') /\ ToolsOK(client') /\ NoToolStarts(client, client')
      /\ \A m \in Turns : TurnOK(client', m)
  <2>1. PICK k : k = client'
    OBVIOUS
  <2>2. Mild(client, k) /\ ToolsOK(k) /\ NoToolStarts(client, k) /\ \A m \in Turns : TurnOK(k, m)
    BY <1>2, <1>5, <1>6, <2>1, MarksOK
  <2>. QED  BY <2>1, <2>2
<1>. HIDE DEF S
<1>8. ASSUME NEW d \in Callers
      PROVE  /\ call'[d] \in Call /\ call'[d].goal = call[d].goal /\ call'[d].ctx = call[d].ctx
             /\ Shape(d, call'[d]) /\ Sees(call'[d], client')
             /\ Held(d, call'[d], lock) /\ Knows(call[d])'
  <2>1. /\ call[d] \in Call /\ Shape(d, call[d]) /\ Knows(call[d]) /\ Sees(call[d], client)
        /\ Held(d, call[d], lock)
    BY CallOf
  <2>2. PICK h : h = WakeOrphans(call, S)[d]
    OBVIOUS
  <2>3. /\ h \in Call /\ Shape(d, h) /\ Knows(h) /\ Still(call[d], h)
        /\ \/ h = call[d]
           \/ call[d].stage = "orphaned" /\ h.stage = "woken" /\ h.fut.is = "raised"
    <3>1. PICK f : f = call
      OBVIOUS
    <3>2. LET i == WakeOrphans(f, S)[d] IN
          /\ i \in Call /\ Shape(d, i) /\ Knows(i) /\ Still(f[d], i)
          /\ \/ i = f[d]
             \/ f[d].stage = "orphaned" /\ i.stage = "woken" /\ i.fut.is = "raised"
      BY SMT, <2>1, <3>1, WakeOrphansOK
    <3>. QED  BY <2>2, <3>1, <3>2
  <2>4. h = call'[d]
    BY <1>1, <2>2
  <2>5. h.ctx # LateContext
    BY <2>3, CallFields, Numbers
  <2>6. Knows(h)'
    BY <1>4, <2>3, <2>5, MovedCall
  <2>7. Sees(h, client') /\ Held(d, h, lock)
    <3>1. CASE h = call[d]
      <4>1. client'.prepared = client.prepared
        BY <1>2 DEF Marks
      <4>. QED  BY <1>7, <2>1, <3>1, <4>1, SeesKept
    <3>2. CASE call[d].stage = "orphaned" /\ h.stage = "woken" /\ h.fut.is = "raised"
      <4>1. h.goal = "none" /\ client'.on
        BY <1>5, <1>7, <2>3, <3>2 DEF Shape, Mild
      <4>2. Held(d, h, lock)
        BY <2>1, <3>2 DEF Held
      <4>3. Sees(h, client')
        BY <3>2, <4>1 DEF Sees
      <4>. QED  BY <4>2, <4>3
    <3>. QED  BY <2>3, <3>1, <3>2
  <2>8. Knows(call[d])'
    BY <2>4, <2>6 DEF Knows, Recalls
  <2>. QED  BY <2>3, <2>4, <2>7, <2>8 DEF Still
<1>9. call' \in [Callers -> Call]
  <2>1. call' = [d \in Callers |-> call'[d]]
    BY <1>1 DEF WakeOrphans
  <2>2. \A d \in Callers : call'[d] \in Call
    BY <1>8
  <2>. QED  BY <2>1, <2>2
<1>10. ClientOK(client', call')
  <2>1. ClientOK(client, call) /\ client'.prepared = client.prepared /\ client'.on
    BY <1>2, <1>5 DEF IInv, Marks
  <2>2. Binds(client', call')
    BY <1>8, <2>1 DEF ClientOK, Binds
  <2>. QED  BY <1>7, <2>1, <2>2 DEF ClientOK
<1>11. up' \in BOOLEAN /\ late' \in BOOLEAN /\ lock' = lock
  BY <1>1 DEF IInv, Types
<1>12. IInv'
  BY <1>2, <1>4, <1>7, <1>8, <1>9, <1>10, <1>11, ConcludeMove
<1>. QED  BY <1>7, <1>12, NoToolStep

----------------------------------------------------------------------------
\* Tool calls, and the end of a turn.

\* The tool call in slot s becomes q; it runs only if its turn is active.
LEMMA ToolChange ==
    ASSUME IInv, World, owed' \subseteq owed, up' \in BOOLEAN, late' \in BOOLEAN,
           UNCHANGED <<lock, call>>, client.on, NEW s \in Slots, NEW q \in ToolTask,
           client' = [client EXCEPT !.tool[s] = q],
           q.stage # "none" => q.turn \in Turns,
           q.stage = "running" => Active(client.turn[q.turn])
    PROVE  IInv' /\ ToolStep
<1>. DEFINE o == [client.tool EXCEPT ![s] = q]
            k == [client EXCEPT !.tool = o]
<1>1. client \in Client /\ ToolsOK(client) /\ \A n \in Turns : TurnOK(client, n)
  BY DEF IInv, Types, ClientOK
<1>2. o \in [Slots -> ToolTask] /\ o[s] = q /\ \A r \in Slots \ {s} : o[r] = client.tool[r]
  BY <1>1 DEF Client
<1>3. client' = k
  OBVIOUS
<1>. HIDE DEF o
<1>4. /\ k \in Client /\ k.ask = client.ask /\ k.turn = client.turn /\ k.tool = o /\ k.on = client.on
      /\ k.failed = client.failed /\ k.prepared = client.prepared /\ k.last = client.last
  BY <1>1, <1>2 DEF Client
<1>. HIDE DEF k
<1>5. ToolsOK(k)
  BY <1>1, <1>2, <1>4 DEF ToolsOK
<1>6. Mild(client, k)
  BY <1>4 DEF Mild
<1>7. \A n \in Turns : TurnOK(k, n)
  BY <1>1, <1>4 DEF TurnOK, Agrees, Bound
<1>8. IInv'
  BY <1>3, <1>4, <1>5, <1>6, <1>7, ReaderStep
<1>9. ToolStep
  <2>1. SUFFICES ASSUME NEW r \in Slots, client.tool[r].stage # "running",
                        k.tool[r].stage = "running"
                 PROVE  LET n == k.tool[r].turn
                        IN  n \in received /\ outcome[n] = "none" /\ client.turn[n].ctx = by[n]
    BY <1>3 DEF ToolStep
  <2>2. k.tool[r] = q
    BY <1>2, <1>4, <2>1
  <2>3. q.turn \in Turns /\ client.turn[q.turn].ack
    BY <2>1, <2>2 DEF Active
  <2>. QED  BY <1>1, <2>2, <2>3 DEF TurnOK
<1>. QED  BY <1>8, <1>9

LEMMA CheckedOK ==
    ASSUME NEW n \in Turns
    PROVE  LET q == Checked(n) IN
           /\ q \in ToolTask /\ (q.stage # "none" => q.turn \in Turns)
           /\ q.stage = "running" => Active(client.turn[q.turn])
<1>1. LET q == [stage |-> "running", turn |-> n] IN
      q \in ToolTask /\ q.stage = "running" /\ q.turn = n
  BY DEF ToolTask
<1>. QED  BY <1>1, NoToolFields DEF Checked

LEMMA ToolGoesOnStep ==
    ASSUME IInv, NEW s \in Slots, ToolGoesOn(s)
    PROVE  IInv' /\ ToolStep
<1>1. World /\ owed' \subseteq owed /\ up' \in BOOLEAN /\ late' \in BOOLEAN /\ UNCHANGED <<lock, call>>
  BY DEF ToolGoesOn, server, told, World, IInv, Types
<1>2. client.on /\ client.tool[s].turn \in Turns
  BY NoClientFields, NoToolFields DEF ToolGoesOn, IInv, ClientOK, ToolsOK
<1>3. PICK q : q = Checked(client.tool[s].turn)
  OBVIOUS
<1>4. /\ q \in ToolTask /\ (q.stage # "none" => q.turn \in Turns)
      /\ q.stage = "running" => Active(client.turn[q.turn])
  BY <1>2, <1>3, CheckedOK
<1>5. client' = [client EXCEPT !.tool[s] = q]
  BY <1>3 DEF ToolGoesOn
<1>. QED  BY <1>1, <1>2, <1>4, <1>5, ToolChange

LEMMA ToolEndsStep ==
    ASSUME IInv, NEW s \in Slots, ToolEnds(s)
    PROVE  IInv' /\ ToolStep
<1>1. World /\ owed' \subseteq owed /\ up' \in BOOLEAN /\ late' \in BOOLEAN /\ UNCHANGED <<lock, call>>
  BY DEF ToolEnds, server, told, World, IInv, Types
<1>2. client.on
  BY NoClientFields, NoToolFields DEF ToolEnds, IInv, ClientOK
<1>3. client' = [client EXCEPT !.tool[s] = NoTool]
  BY DEF ToolEnds
<1>. QED  BY <1>1, <1>2, <1>3, NoToolFields, ToolChange

LEMMA HandleToolStep ==
    ASSUME IInv, client.on, NEW n \in Turns, HandleTool(n),
           UNCHANGED <<lock, call, native, by, told, faults>>
    PROVE  IInv' /\ ToolStep
<1>. DEFINE S == {s \in Slots : client.tool[s].stage = "none"}
            s == CHOOSE r \in S : \A q \in S : r <= q
            w == [stage |-> "waiting", turn |-> n]
            q == IF client.prepared # 0 THEN w ELSE Checked(n)
<1>1. World /\ owed' \subseteq owed /\ up' \in BOOLEAN /\ late' \in BOOLEAN /\ UNCHANGED <<lock, call>>
  BY DEF HandleTool, Stays, told, World, IInv, Types
<1>2. CASE S = {}
  <2>1. client' = client
    BY <1>2 DEF HandleTool
  <2>2. /\ client' \in Client /\ ToolsOK(client') /\ \A m \in Turns : TurnOK(client', m)
        /\ Mild(client, client') /\ client'.prepared = client.prepared
        /\ NoToolStarts(client, client')
    BY <2>1 DEF IInv, Types, ClientOK, Mild, NoToolStarts
  <2>. QED  BY <1>1, <2>2, ReaderStep, NoToolStep
<1>3. CASE S # {}
  <2>1. S \subseteq Nat /\ S \subseteq Slots
    BY Numbers
  <2>2. client' = [client EXCEPT !.tool[s] = q]
    BY <1>3 DEF HandleTool
  <2>. HIDE DEF S
  <2>3. s \in S
    BY <1>3, <2>1, Least
  <2>4. w \in ToolTask /\ w.stage = "waiting" /\ w.turn = n
    BY DEF ToolTask
  <2>5. /\ q \in ToolTask /\ (q.stage # "none" => q.turn \in Turns)
        /\ q.stage = "running" => Active(client.turn[q.turn])
    BY <2>4, CheckedOK
  <2>6. PICK r \in Slots, p \in ToolTask : r = s /\ p = q
    BY <2>1, <2>3, <2>5
  <2>. HIDE DEF s, q
  <2>. QED  BY <1>1, <2>2, <2>5, <2>6, ToolChange
<1>. QED  BY <1>2, <1>3

LEMMA SpeakStep ==
    ASSUME IInv, NEW n \in Turns, Speak(n)
    PROVE  IInv' /\ ToolStep
<1>1. client.on /\ native[n] # "absent" /\ UNCHANGED <<lock, call, native, by, told, faults>>
  BY DEF Speak
<1>2. CASE HandleTool(n)
  BY <1>1, <1>2, HandleToolStep
<1>3. CASE Ignored(n)
  <2>1. World /\ owed' \subseteq owed /\ up' \in BOOLEAN /\ late' \in BOOLEAN
        /\ UNCHANGED <<client, lock, call>>
    BY <1>1, <1>3 DEF Ignored, Stays, told, World, IInv, Types
  <2>2. /\ client' \in Client /\ ToolsOK(client') /\ \A m \in Turns : TurnOK(client', m)
        /\ Mild(client, client') /\ client'.prepared = client.prepared
        /\ NoToolStarts(client, client')
    BY <2>1 DEF IInv, Types, ClientOK, Mild, NoToolStarts
  <2>. QED  BY <1>1, <2>1, <2>2, ReaderStep, NoToolStep
<1>4. CASE HandleDelta(n)
  BY <1>1, <1>4, HandleDeltaStep
<1>5. CASE HandleError(n)
  BY <1>1, <1>5, HandleErrorStep
<1>. QED  BY <1>2, <1>3, <1>4, <1>5 DEF Speak

LEMMA AnnounceStep ==
    ASSUME IInv, NEW n \in Turns, Announce(n)
    PROVE  IInv' /\ ToolStep
<1>. DEFINE t == client.turn[n]
            x == native[n] # "completed"
            u == [t EXCEPT !.tracked = TRUE, !.done = TRUE,
                         !.failure = t.failure \/ x, !.error = t.error \/ x]
<1>1. /\ World /\ owed' \subseteq owed /\ up' \in BOOLEAN /\ late' \in BOOLEAN
      /\ UNCHANGED <<lock, call>> /\ client.on
  BY DEF Announce, told, World, IInv, Types
<1>2. client \in Client /\ native[n] # "absent"
  <2>1. NativeOK(n) /\ n \in owed
    BY DEF IInv, Announce
  <2>. QED  BY <2>1 DEF IInv, Types, NativeOK, Finished
<1>3. CASE client' = client
  <2>1. /\ client' \in Client /\ ToolsOK(client') /\ \A m \in Turns : TurnOK(client', m)
        /\ Mild(client, client') /\ client'.prepared = client.prepared
        /\ NoToolStarts(client, client')
    BY <1>1, <1>3 DEF IInv, Types, ClientOK, Mild, NoToolStarts, World, TurnOK
  <2>. QED  BY <1>1, <2>1, ReaderStep, NoToolStep
<1>4. CASE client' = HandleCompleted(n, native[n])
  <2>1. client' = SetTurn(client, n, u)
    BY <1>4 DEF HandleCompleted, SetTurn
  <2>2. /\ u \in TurnState /\ u.ack = t.ack /\ u.ctx = t.ctx /\ u.tracked /\ u.done
        /\ u.failure = (t.failure \/ x) /\ u.error = (t.error \/ x)
    <3>1. t \in TurnState /\ x \in BOOLEAN
      BY <1>2, ClientFields
    <3>. HIDE DEF t, x
    <3>. QED  BY <3>1 DEF TurnState
  <2>. HIDE DEF u
  <2>3. client' \in Client /\ Marks(client, client', n)
    BY <1>2, <2>1, <2>2, SetMarks
  <2>. QED  BY <1>1, <1>2, <2>3, MarkStep
<1>. QED  BY <1>3, <1>4 DEF Announce

----------------------------------------------------------------------------
\* The invariant holds in every state.

LEMMA InitInv == Init => IInv
<1>. SUFFICES ASSUME Init PROVE IInv
  OBVIOUS
<1>0. /\ client \in Client /\ client.on /\ ~client.failed /\ client.prepared = 0 /\ client.last = 0
      /\ \A n \in Turns : client.turn[n] = NoTurn /\ client.ask[n] = "none"
      /\ \A s \in Slots : client.tool[s] = NoTool
  BY NewClientFields DEF Init, Client
<1>1. /\ lock = Nobody /\ \A c \in Callers : call[c] = Idle
      /\ up \in BOOLEAN /\ late \in BOOLEAN /\ owed = {} /\ received = {}
      /\ \A n \in Turns : native[n] = "absent" /\ by[n] = 0 /\ outcome[n] = "none"
  BY DEF Init
<1>2. Types
  <2>1. client \in Client /\ Idle \in Call /\ "absent" \in Statuses
    BY <1>0, IdleFields DEF Statuses
  <2>. QED  BY <1>1, <2>1 DEF Types, Init
<1>3. ClientOK(client, call)
  BY <1>0, NoToolFields DEF ClientOK, ToolsOK, Binds
<1>4. ASSUME NEW n \in Turns PROVE NativeOK(n) /\ TurnOK(client, n)
  <2>1. NativeOK(n)
    BY <1>1 DEF NativeOK
  <2>2. TurnOK(client, n)
    BY <1>0, <1>1, NoTurnFields DEF TurnOK, Bound
  <2>. QED  BY <2>1, <2>2
<1>5. ASSUME NEW c \in Callers PROVE CallOK(c, call[c], client, lock)
  <2>1. Idle \in Call /\ Shape(c, Idle) /\ Knows(Idle) /\ Sees(Idle, client)
    BY IdleOK, IdleFields
  <2>2. Held(c, Idle, lock)
    BY <1>1, IdleFields, CodexConstants DEF Held
  <2>. QED  BY <1>1, <2>1, <2>2 DEF CallOK
<1>. QED  BY <1>2, <1>3, <1>4, <1>5 DEF IInv

LEMMA GoOnStep ==
    ASSUME IInv, NEW c \in Callers, GoOn(c)
    PROVE  IInv' /\ ToolStep
BY ReadyStep, ResumeStep, ReplaceStep, CloseEndsStep, InitializeStep, StartedStep, CapturedStep,
   CaptureTimesOutStep, ListedStep, InterruptedStep, ArchivedStep, RequestTimesOutStep DEF GoOn

LEMMA NextStep ==
    ASSUME IInv, Next
    PROVE  IInv' /\ ToolStep
<1>1. ASSUME NEW c \in Callers,
             \/ BeginSend(c) \/ BeginShutdown(c) \/ GoOn(c) \/ Serve(c)
             \/ \E n \in Turns : BeginCapture(c, n)
             \/ \E n \in Turns, goal \in {"find", "cut", "close"} : BeginControl(c, n, goal)
      PROVE  IInv' /\ ToolStep
  BY <1>1, BeginSendStep, BeginShutdownStep, GoOnStep, ServeStep, BeginCaptureStep, BeginControlStep
<1>2. ASSUME NEW n \in Turns,
             ServeAsk(n) \/ Speak(n) \/ Ends(n) \/ Announce(n) \/ AskTimesOut(n)
      PROVE  IInv' /\ ToolStep
  BY <1>2, ServeAskStep, SpeakStep, EndsStep, AnnounceStep, AskTimesOutStep
<1>3. ASSUME ServeLate \/ Dies \/ Broken
      PROVE  IInv' /\ ToolStep
  BY <1>3, ServeLateStep, DiesStep, BrokenStep
<1>4. ASSUME NEW s \in Slots, ToolGoesOn(s) \/ ToolEnds(s)
      PROVE  IInv' /\ ToolStep
  BY <1>4, ToolGoesOnStep, ToolEndsStep
<1>. QED  BY <1>1, <1>2, <1>3, <1>4 DEF Next

LEMMA StutterStep ==
    ASSUME IInv, UNCHANGED vars
    PROVE  IInv'
<1>1. World /\ UNCHANGED <<client, lock, call, up, late, owed>>
  BY DEF vars, World
<1>2. /\ client' \in Client /\ call' \in [Callers -> Call] /\ ClientOK(client', call')
      /\ lock' \in Callers \cup {Nobody} /\ up' \in BOOLEAN /\ late' \in BOOLEAN
      /\ \A n \in Turns : TurnOK(client', n)
      /\ \A c \in Callers : CallOK(c, call'[c], client', lock')
  BY <1>1 DEF IInv, Types
<1>. QED  BY <1>1, <1>2, Conclude

LEMMA InvHolds == Spec => []IInv
<1>1. IInv /\ [Next]_vars => IInv'
  BY NextStep, StutterStep
<1>. QED  BY <1>1, InitInv, PTL DEF Spec

----------------------------------------------------------------------------
\* What the callers of the client may rely on.

\* When the client fails, in whatever way and with however many callers, no request is left
\* without its error and no capture of a tracked turn without its end (_mark_failed); the
\* lifecycle lock is held by exactly the caller that replaces the client; and the client's
\* bookkeeping names only turns and contexts that exist.
THEOREM Consistency == Spec => []ClientConsistent
<1>1. IInv => ClientConsistent
  <2>. SUFFICES ASSUME IInv PROVE ClientConsistent
    OBVIOUS
  <2>1. TypeOK
    <3>1. client \in Client /\ lock \in Callers \cup {Nobody} /\ native \in [Turns -> Statuses]
      BY DEF IInv, Types
    <3>2. ASSUME NEW n \in Turns PROVE client.turn[n].ctx \in Contexts \cup {0}
      BY <3>1 DEF Client, TurnState
    <3>3. ASSUME NEW c \in Callers PROVE call[c].turn \in Turns \cup {0}
      BY CallOf, CallFields
    <3>4. ASSUME NEW n \in Turns PROVE (native[n] = "absent") = (by[n] = 0)
      BY DEF IInv, NativeOK
    <3>. QED  BY <3>1, <3>2, <3>3, <3>4, ClientFields DEF TypeOK
  <2>2. FailureWakesEveryone
    <3>1. \A c \in Callers : Sees(call[c], client)
      BY CallOf
    <3>. QED  BY <3>1 DEF FailureWakesEveryone, Sees
  <2>3. LockIsHeld
    <3>1. ASSUME NEW c \in Callers
          PROVE  (lock = c) = (call[c].stage \in {"closing", "initializing"})
      <4>1. lock = c <=> call[c].stage \in {"closing", "initializing"}
        BY CallOf DEF Held
      <4>. QED  BY <4>1, SMT
    <3>. QED  BY <3>1 DEF LockIsHeld
  <2>. QED  BY <2>1, <2>2, <2>3 DEF ClientConsistent
<1>. QED  BY <1>1, InvHolds, PTL

\* capture_response and interrupt_turn never report a success or an interruption that did
\* not happen: whatever the order of notifications, timeouts, failures and replacements of
\* the client, a turn that a caller was told is completed or interrupted is so in the process.
THEOREM NativeOutcomes == Spec => []OutcomesAreNative
<1>1. IInv => OutcomesAreNative
  BY DEF IInv, NativeOK, OutcomesAreNative
<1>. QED  BY <1>1, InvHolds, PTL

\* A tool call runs only in a turn whose receipt was returned and whose outcome was not,
\* and with the context of the send that started the turn (contextual_turn_for_tool_call).
THEOREM ToolsInTheirTurn == Spec => ToolsRunInTheirTurn
<1>1. IInv /\ [Next]_vars => [ToolStep]_vars
  BY NextStep
<1>2. [][ToolStep]_vars <=> ToolsRunInTheirTurn
  BY DEF ToolsRunInTheirTurn, ToolStep
<1>. QED  BY <1>1, <1>2, InvHolds, PTL DEF Spec

============================================================================
