----------------------------- MODULE SandboxHost -----------------------------
(***************************************************************************)
(* The Docker sandbox manager (sandbox/docker.py), composed with the       *)
(* credential broker it drives.                                            *)
(*                                                                         *)
(* A sandbox runs on a network of its own.  What keeps it confined is a    *)
(* pair of drop rules in the host's firewall, put in place before the      *)
(* sandbox starts and removed only after its network is gone; what it may  *)
(* reach are the exceptions, the egress proxy and the broker.  Acquire,    *)
(* stop and destroy are sequences of Docker commands under a conversation  *)
(* lock and a tenant lock; conversations of different tenants interleave.  *)
(***************************************************************************)
EXTENDS CredentialBroker, Sequences

CONSTANTS
    MaxActive,     \* bound: max_active_sandboxes is 1 .. MaxActive
    MaxVersion     \* bound: credentials provisioned

VARIABLES
    cap,        \* capacity: limit, active conversations, wait queue, claims
    recovered,  \* _orphan_recovery_complete
    handle,     \* conversations whose caller holds a handle
    version     \* credentials provisioned so far

brokerVars == <<mgr, docker, bop, faults>>
hostVars == <<cap, recovered, handle, version>>
vars == <<mgr, docker, bop, faults, hop, cap, recovered, handle, version>>

NoCapacity(limit) == [limit |-> limit, active |-> {}, queue |-> <<>>, claims |-> 0]

Init ==
    /\ mgr = NewManager
    /\ docker = [net |-> {}, box |-> [c \in Conversations |-> "none"], late |-> {}, drop |-> {},
                 allow |-> {}, proxy |-> {}, old |-> FALSE, rules |-> {}, broker |-> NoContainer]
    /\ bop = NoOp
    /\ faults = 0
    /\ hop = [c \in Conversations |-> Idle]
    /\ \E limit \in 1 .. MaxActive : cap = NoCapacity(limit)
    /\ recovered = FALSE
    /\ handle = {}
    /\ version = 0

-----------------------------------------------------------------------------
(* Locks and steps *)

Fault == faults < MaxFaults /\ faults' = faults + 1

At(c, phase) == hop[c].phase = phase
To(c, phase) == hop' = [hop EXCEPT ![c].phase = phase]
End(c) == hop' = [hop EXCEPT ![c] = Idle]
Err(c, phase) == hop' = [hop EXCEPT ![c].phase = phase, ![c].err = TRUE]

\* The phases in which an operation holds the lock of its tenant
HoldsTenant(c) == hop[c].phase \notin {"idle", "recover", "capacity", "queued", "tenant"}
TenantFree(c) == \A x \in Conversations : TenantOf[x] = TenantOf[c] => ~HoldsTenant(x)

Begin(c, kind, phase, claim) ==
    /\ At(c, "idle")
    /\ hop' = [hop EXCEPT ![c] = [Idle EXCEPT !.kind = kind, !.phase = phase, !.claim = claim]]

BeginAcquire(c) ==
    /\ Begin(c, "acquire", IF recovered THEN "capacity" ELSE "recover", FALSE)
    /\ UNCHANGED <<brokerVars, cap, recovered, handle, version>>

\* The callers hold a handle.  A claimed release is a stop (below).
BeginDestroy(c) ==
    /\ c \in handle
    /\ Begin(c, "destroy", "tenant", FALSE)
    /\ UNCHANGED <<brokerVars, cap, recovered, handle, version>>

BeginStop(c) ==
    /\ c \in handle
    /\ Begin(c, "stop", "tenant", FALSE)
    /\ UNCHANGED <<brokerVars, cap, recovered, handle, version>>

BeginProvisioning(c) ==
    /\ c \in handle
    /\ version < MaxVersion
    /\ version' = version + 1
    /\ At(c, "idle")
    /\ hop' = [hop EXCEPT ![c] = [Idle EXCEPT !.kind = "provision", !.phase = "tenant", !.ver = version']]
    /\ UNCHANGED <<brokerVars, cap, recovered, handle>>

BeginRevoking(c) ==
    /\ c \in handle
    /\ Begin(c, "revoke", "tenant", FALSE)
    /\ UNCHANGED <<brokerVars, cap, recovered, handle, version>>

\* _recover_orphaned_sandboxes_once
Recover(c) ==
    /\ At(c, "recover")
    /\ \/ /\ recovered
          /\ To(c, "capacity")
          /\ UNCHANGED <<docker, faults, recovered>>
       \/ /\ ~recovered
          /\ docker' = [docker EXCEPT !.box = [x \in Conversations |->
                            IF @[x] = "running" THEN "stopped" ELSE @[x]]]
          /\ recovered' = TRUE
          /\ To(c, "capacity")
          /\ UNCHANGED faults
       \/ /\ ~recovered /\ Fault
          /\ End(c)
          /\ UNCHANGED <<docker, recovered>>
    /\ UNCHANGED <<mgr, bop, cap, handle, version>>

-----------------------------------------------------------------------------
(* Capacity *)

\* _reserve_capacity
Reserve(c) ==
    LET full == Cardinality(cap.active) >= cap.limit \/ cap.queue # <<>> IN
    /\ At(c, "capacity")
    /\ \/ /\ c \in cap.active
          /\ To(c, "tenant")
          /\ UNCHANGED cap
       \/ /\ c \notin cap.active /\ ~full
          /\ cap' = [cap EXCEPT !.active = @ \cup {c}]
          /\ hop' = [hop EXCEPT ![c].phase = "tenant", ![c].reserved = TRUE]
       \/ /\ c \notin cap.active /\ full
          /\ cap' = [cap EXCEPT !.queue = Append(@, c)]
          /\ To(c, "queued")
    /\ UNCHANGED <<brokerVars, recovered, handle, version>>

Admit(c) ==
    /\ At(c, "queued")
    /\ Head(cap.queue) = c
    /\ Cardinality(cap.active) < cap.limit
    /\ cap' = [cap EXCEPT !.queue = Tail(@), !.active = @ \cup {c}]
    /\ hop' = [hop EXCEPT ![c].phase = "tenant", ![c].reserved = TRUE]
    /\ UNCHANGED <<brokerVars, recovered, handle, version>>

\* _idle_capacity_release_needed
ReleaseNeeded == Len(cap.queue) > cap.limit - Cardinality(cap.active) + cap.claims

\* claim_idle_capacity_release: an idle conversation stops its sandbox for one
\* that waits (_stop_after_idle)
ClaimRelease(c) ==
    /\ ReleaseNeeded
    /\ c \in handle \cap cap.active
    /\ Begin(c, "stop", "tenant", TRUE)
    /\ cap' = [cap EXCEPT !.claims = @ + 1]
    /\ UNCHANGED <<brokerVars, recovered, handle, version>>

\* Mutated form: a stop made for a waiter keeps its claim.
ReleasedKeepingClaim(c, free) ==
    [cap EXCEPT !.active = IF free THEN @ \ {c} ELSE @]

\* _release_capacity and finish_idle_capacity_release, at the end of an operation
Released(c, free) ==
    [cap EXCEPT !.active = IF free THEN @ \ {c} ELSE @,
                !.claims = IF hop[c].claim THEN @ - 1 ELSE @]

\* The caller is cancelled while it waits for capacity or for its tenant's lock.
CancelWait(c) ==
    /\ \/ /\ At(c, "queued")
          /\ cap' = [cap EXCEPT !.queue = SelectSeq(@, LAMBDA x : x # c)]
       \/ /\ At(c, "tenant") /\ hop[c].kind = "acquire"
          /\ cap' = Released(c, hop[c].reserved)
    /\ End(c)
    /\ UNCHANGED <<brokerVars, recovered, handle, version>>

-----------------------------------------------------------------------------
(* Networks and firewall *)

\* _running_managed_sandbox_ids
AnyRunning(d) == \E x \in Conversations : d.box[x] = "running"

\* _attached_egress_network_policies and the removal of their exceptions
Unexcepted(d, S) == [d EXCEPT !.allow = @ \ S]

\* _replace_outdated_egress_image: the new proxy is on no managed network yet.
ReplaceOutdated(d) == [Unexcepted(d, d.proxy) EXCEPT !.old = FALSE, !.proxy = {}]

\* _ensure_current_egress_container
CurrentProxy(d) == IF d.old THEN ReplaceOutdated(d) ELSE d

\* _ensure_network, _connect_egress_network, _ensure_network_policy
EnsureNetwork(d, c) == [d EXCEPT !.net = @ \cup {c}]
ConnectProxy(d, c) == [d EXCEPT !.proxy = @ \cup {c}]
Policy(d, c) == [d EXCEPT !.drop = @ \cup {c}, !.allow = @ \cup {c}]

\* _ensure_egress.  An outdated proxy is replaced only when no sandbox runs; a
\* failure takes back the attachment and the network made by this call, unless
\* that fails too.
EgressOutcomes(d, c) ==
    LET base == CurrentProxy(d)
        joined == ConnectProxy(EnsureNetwork(base, c), c)
    IN IF d.old /\ AnyRunning(d) THEN {Refused(mgr, d)}
       ELSE {Sure(mgr, Policy(joined, c)),
             Failed(mgr, d), Failed(mgr, base), Failed(mgr, Policy(base, c)),
             Result(mgr, EnsureNetwork(base, c), FALSE, 2), Result(mgr, joined, FALSE, 2),
             Result(mgr, Policy(joined, c), FALSE, 2)}
            \cup {Failed(mgr, Unexcepted(d, S)) : S \in SUBSET (IF d.old THEN d.proxy ELSE {})}

\* Mutated form: the firewall is left for later.
EgressUnruled(c) ==
    /\ At(c, "egress")
    /\ docker' = ConnectProxy(EnsureNetwork(docker, c), c)
    /\ To(c, "prepare")
    /\ UNCHANGED <<mgr, faults, bop, cap, recovered, handle, version>>

Egress(c) ==
    /\ At(c, "egress")
    /\ \E o \in EgressOutcomes(docker, c) :
         /\ Take(o)
         /\ IF o.ok THEN To(c, "prepare")
            ELSE Err(c, "release")
    /\ UNCHANGED <<bop, cap, recovered, handle, version>>

\* _cleanup_network_policy: exceptions and attachment first, then the network,
\* and the drop rules last
After(c) == IF hop[c].kind = "destroy" THEN "unused" ELSE "release"
Abort(c) == IF hop[c].kind = "destroy" THEN "inactive" ELSE "release"

Unallow(c) ==
    LET cut == [docker EXCEPT !.allow = @ \ {c}] IN
    /\ At(c, "unallow")
    /\ \/ /\ docker' = [cut EXCEPT !.proxy = @ \ {c}]
          /\ To(c, "unnet")
          /\ UNCHANGED faults
       \/ /\ Fault
          /\ docker' \in {docker, cut}
          /\ Err(c, Abort(c))
    /\ UNCHANGED <<mgr, bop, cap, recovered, handle, version>>

\* docker network rm refuses a network with a running container on it.
InUse(d, c) ==
    \/ d.box[c] = "running"
    \/ c \in d.broker.attached /\ d.broker.running
    \/ c \in d.proxy

RemoveNetwork(c) ==
    /\ At(c, "unnet")
    /\ \/ /\ ~InUse(docker, c)
          /\ docker' = [docker EXCEPT !.net = @ \ {c}, !.broker.attached = @ \ {c}]
          /\ To(c, "undrop")
          /\ UNCHANGED faults
       \/ /\ InUse(docker, c)
          /\ Err(c, Abort(c))
          /\ UNCHANGED <<docker, faults>>
       \/ /\ Fault
          /\ Err(c, Abort(c))
          /\ UNCHANGED docker
    /\ UNCHANGED <<mgr, bop, cap, recovered, handle, version>>

Undrop(c) ==
    /\ At(c, "undrop")
    /\ \/ /\ docker' = [docker EXCEPT !.drop = @ \ {c}]
          /\ To(c, After(c))
          /\ UNCHANGED faults
       \/ /\ Fault
          /\ Err(c, Abort(c))
          /\ UNCHANGED docker
    /\ UNCHANGED <<mgr, bop, cap, recovered, handle, version>>

-----------------------------------------------------------------------------
(* The sandbox and its operations *)

\* The tenant's lock is granted.
FirstPhase(kind) ==
    CASE kind = "acquire" -> "egress"
      [] kind = "stop" -> "halt"
      [] kind = "destroy" -> "rm"
      [] OTHER -> "bind"

TakeTenantLock(c) ==
    /\ At(c, "tenant")
    /\ TenantFree(c)
    /\ To(c, FirstPhase(hop[c].kind))
    /\ UNCHANGED <<brokerVars, cap, recovered, handle, version>>

\* A call into the broker manager starts when the shared lock is free; its return
\* resumes the caller (Resumed).
Call(c, phase, BeginOp) ==
    /\ At(c, phase)
    /\ bop.kind = "none"
    /\ BeginOp
    /\ hop' = [hop EXCEPT ![c].phase = phase \o "..."]
    /\ UNCHANGED <<docker, cap, recovered, handle, version>>

CallBroker(c) ==
    \/ Call(c, "prepare", BeginPrepare(c))
    \/ Call(c, "rollback", BeginRollback(c, hop[c].prep))
    \/ Call(c, "cleanup", BeginCleanup(c))
    \/ Call(c, "unused", BeginUnused(c))
    \/ Call(c, "inactive", BeginInactive(c))
    \/ \E b \in Bindings :
         /\ Owner[b] = TenantOf[c] /\ Scope[b] \in {"tenant", c}
         /\ \/ hop[c].kind = "provision" /\ Call(c, "bind", BeginProvision(c, b, hop[c].ver))
            \/ hop[c].kind = "revoke" /\ Call(c, "bind", BeginRevoke(c, b))

\* _reuse_existing: the sandbox that is there is started; docker run has the
\* same effect where there is none.
Started(d, c) == [d EXCEPT !.box[c] = "running"]

\* _acquire_locked.  A cancelled docker run may still create the sandbox later.
Run(c) ==
    /\ At(c, "run")
    /\ \/ /\ docker' = Started(docker, c)
          /\ End(c)
          /\ handle' = handle \cup {c}
          /\ UNCHANGED faults
       \/ /\ Fault
          /\ docker' \in {docker, Started(docker, c)}
                          \cup (IF docker.box[c] = "none" THEN {[docker EXCEPT !.late = @ \cup {c}]} ELSE {})
          /\ Err(c, "find")
          /\ UNCHANGED handle
    /\ UNCHANGED <<mgr, bop, cap, recovered, version>>

LateRun(c) ==
    /\ c \in docker.late
    /\ docker' = [docker EXCEPT !.late = @ \ {c},
                     !.box[c] = IF c \in docker.net /\ @ = "none" THEN "running" ELSE @]
    /\ UNCHANGED <<mgr, bop, faults, hop, hostVars>>

\* The handler of a failed acquire.  A sandbox that exists keeps its network.
\* When the sandbox cannot be looked up the handler itself raises, before the
\* reserved capacity is given back.
Find(c) ==
    /\ At(c, "find")
    /\ \/ /\ To(c, IF docker.box[c] # "none" THEN "release"
                   ELSE IF hop[c].prep.res = "ok" THEN "rollback" ELSE "unallow")
          /\ UNCHANGED faults
       \/ /\ Fault
          /\ End(c)
    /\ UNCHANGED <<mgr, docker, bop, cap, recovered, handle, version>>

\* stop, destroy: the container first; when that fails nothing else is done
Halt(c) ==
    /\ hop[c].phase \in {"halt", "rm"}
    /\ LET gone == IF At(c, "rm") \/ docker.box[c] = "none" THEN "none" ELSE "stopped"
           done == [docker EXCEPT !.box[c] = gone]
       IN \/ /\ docker' = done
             /\ To(c, IF At(c, "rm") THEN "cleanup" ELSE "inactive")
             /\ UNCHANGED <<faults, cap>>
          \/ /\ Fault
             /\ docker' \in {docker, done}
             /\ cap' = Released(c, FALSE)
             /\ End(c)
    /\ UNCHANGED <<mgr, bop, recovered, handle, version>>

\* The end of every other operation: a failed acquire gives back what it
\* reserved, stop and destroy the place of the conversation.
Release(c) ==
    /\ At(c, "release")
    /\ cap' = Released(c, hop[c].kind # "acquire" \/ hop[c].reserved)
    /\ handle' = IF hop[c].kind = "destroy" /\ ~hop[c].err THEN handle \ {c} ELSE handle
    /\ End(c)
    /\ UNCHANGED <<brokerVars, recovered, version>>

-----------------------------------------------------------------------------
(* The control process restarts, possibly with another proxy image.  What the
   host holds stays; a running sandbox is an orphan for the recovery. *)
ControlRestart ==
    /\ Fault
    /\ mgr' = NewManager
    /\ \E old \in BOOLEAN : docker' = [docker EXCEPT !.old = old \/ @]
    /\ bop' = NoOp
    /\ hop' = [c \in Conversations |-> Idle]
    /\ cap' = NoCapacity(cap.limit)
    /\ recovered' = FALSE
    /\ handle' = {}
    /\ UNCHANGED version

HostStep(c) ==
    \/ Recover(c) \/ Reserve(c) \/ Admit(c) \/ TakeTenantLock(c)
    \/ Egress(c) \/ CallBroker(c) \/ Run(c) \/ Find(c)
    \/ Unallow(c) \/ RemoveNetwork(c) \/ Undrop(c) \/ Halt(c) \/ Release(c)

Request(c) ==
    \/ BeginAcquire(c) \/ BeginStop(c) \/ BeginDestroy(c)
    \/ BeginProvisioning(c) \/ BeginRevoking(c)

Next ==
    \/ \E c \in Conversations :
         HostStep(c) \/ Request(c) \/ CancelWait(c) \/ ClaimRelease(c) \/ LateRun(c)
    \/ BrokerStep /\ UNCHANGED hostVars
    \/ (BrokerExits \/ BrokerRestarts \/ BrokerVanishes) /\ UNCHANGED hostVars
    \/ ControlRestart

Spec == Init /\ [][Next]_vars

-----------------------------------------------------------------------------
(* Properties *)

Busy(c) == ~At(c, "idle")

\* A sandbox that runs has its own network, and the drop rules that confine it
\* are in the firewall: whatever failed, was rolled back or was left over by an
\* earlier control process (acquire, destroy, _cleanup_network_policy).
Confined ==
    \A c \in Conversations : docker.box[c] = "running" => c \in docker.net \cap docker.drop

\* No place is lost and no waiter is stranded (_reserve_capacity,
\* claim_idle_capacity_release, _release_capacity): an occupied place belongs to
\* an operation or to a caller with a handle, claims count the stops made for
\* waiters, and while someone waits the first one can enter, or an operation is
\* under way, or an idle conversation may be asked to make room.
WaitersCanProceed ==
    /\ Cardinality(cap.active) <= cap.limit
    /\ \A c \in cap.active : Busy(c) \/ c \in handle
    /\ cap.claims = Cardinality({c \in Conversations : hop[c].claim})
    /\ cap.queue # <<>> =>
         \/ Cardinality(cap.active) < cap.limit
         \/ \E c \in cap.active : Busy(c)
         \/ ReleaseNeeded /\ cap.active \cap handle # {}

=============================================================================
