-------------------------- MODULE CredentialBroker --------------------------
(***************************************************************************)
(* The manager of the shared credential broker (sandbox/docker_broker.py). *)
(*                                                                         *)
(* One broker container serves every tenant of a Docker host.  Its         *)
(* registry of credentials lives in its memory only, the manager's own     *)
(* copy lives in the control process, and between the two there are Docker *)
(* commands, each of which may fail, or succeed and lose its answer.  The  *)
(* manager answers every uncertainty by removing the broker.               *)
(*                                                                         *)
(* The operations of the manager run one at a time under its shared lock.  *)
(* An operation is a sequence of helper calls; a helper call is one step,  *)
(* and its outcomes are a set: what the manager remembers (m), what the    *)
(* host holds (d), whether it raised, and how many faults it took.  The    *)
(* module SandboxHost drives the operations.                               *)
(*                                                                         *)
(* A conversation stands for its Docker network.  Addresses, ports and the *)
(* two firewall rules of a network (request, response) are one rule.       *)
(***************************************************************************)
EXTENDS Integers, FiniteSets

CONSTANTS
    Tenants,
    Conversations,
    TenantOf,       \* [Conversations -> Tenants]
    Bindings,       \* names of credential bindings
    Owner,          \* [Bindings -> Tenants]
    Scope,          \* [Bindings -> Conversations \cup {"tenant"}]
    MaxFaults       \* bound: failed or unanswered commands, exits, restarts

ASSUME OwnersAreTenants ==
    /\ TenantOf \in [Conversations -> Tenants]
    /\ Owner \in [Bindings -> Tenants]
    /\ \A b \in Bindings : Scope[b] = "tenant" \/ TenantOf[Scope[b]] = Owner[b]

VARIABLES
    mgr,      \* the manager's memory
    docker,   \* the Docker host: networks, sandboxes, firewall, broker
    bop,      \* the operation that holds the shared lock
    hop,      \* for each conversation, the manager's operation that holds its lock
    faults

NoBinding == [ver |-> 0, nets |-> {}]
NoRegistry == [b \in Bindings |-> NoBinding]
NoAck == [t \in Tenants |-> NoRegistry]
Unseen == <<0, 0>>

NoContainer ==
    [id |-> 0, start |-> 0, running |-> FALSE, attached |-> {},
     served |-> NoRegistry, doubt |-> {}]

NoReturn == [res |-> "none", bindings |-> NoRegistry, active |-> FALSE]

Idle == [kind |-> "none", phase |-> "idle", reserved |-> FALSE,
         prep |-> NoReturn, err |-> FALSE, claim |-> FALSE, ver |-> 0]

NoOp == [kind |-> "none", by |-> "none", t |-> "none", phase |-> "none", nets |-> {},
         tenants |-> {}, skip |-> FALSE, bindings |-> NoRegistry, active |-> FALSE]

\* An operation that begins: what it remembers of its tenant for a return or a
\* roll-back is B and active.
Op(kind, c, phase, skip, B, active) ==
    [kind |-> kind, by |-> c, t |-> TenantOf[c], phase |-> phase, nets |-> {},
     tenants |-> {}, skip |-> skip, bindings |-> B, active |-> active]

NewManager ==
    [bindings |-> NoRegistry, active |-> {}, cid |-> 0, seen |-> Unseen,
     ips |-> {}, synced |-> NoAck]

-----------------------------------------------------------------------------
(* Bindings and networks *)

Of(t) == {b \in Bindings : Owner[b] = t}
Live(t, d) == {n \in d.net : TenantOf[n] = t}
Empty(B, t) == \A b \in Of(t) : B[b] = NoBinding

\* _binding_networks, _active_binding_networks
BindingNetworks(B, t) == UNION {B[b].nets : b \in Of(t)}
ActiveNetworks(m) == UNION {BindingNetworks(m.bindings, t) : t \in m.active}

Keep(b, nets) == IF nets = {} THEN NoBinding ELSE [b EXCEPT !.nets = nets]

\* _refresh_binding_networks
Refresh(B, t, live) ==
    [b \in Bindings |->
        IF Owner[b] # t \/ B[b].ver = 0 THEN B[b]
        ELSE Keep(B[b], IF Scope[b] = "tenant" THEN live ELSE B[b].nets \cap live)]

\* _bindings_without_network
Without(B, t, n) ==
    [b \in Bindings |->
        IF Owner[b] # t THEN B[b]
        ELSE IF Scope[b] # "tenant" /\ n \in B[b].nets THEN NoBinding
        ELSE Keep(B[b], B[b].nets \ {n})]

\* What of a registry belongs to one tenant: the payload of an update.
Payload(B, t) == [b \in Bindings |-> IF Owner[b] = t THEN B[b] ELSE NoBinding]

\* _restore_tenant_state
RestoreTenant(m, t, B, active) ==
    [m EXCEPT !.bindings = [b \in Bindings |-> IF Owner[b] = t THEN B[b] ELSE @[b]],
              !.active = IF active THEN @ \cup {t} ELSE @ \ {t}]

-----------------------------------------------------------------------------
(* Outcomes *)

Result(m, d, ok, cost) == [m |-> m, d |-> d, ok |-> ok, cost |-> cost]
Sure(m, d) == Result(m, d, TRUE, 0)
Refused(m, d) == Result(m, d, FALSE, 0)     \* the code raises by itself
Failed(m, d) == Result(m, d, FALSE, 1)      \* a command failed or lost its answer

\* What may still go wrong.
Affordable(outcomes) == {o \in outcomes : faults + o.cost <= MaxFaults}

\* The second call is made only where the first one returned.
AndThen(outcomes, F(_, _)) ==
    UNION {IF o.ok THEN {[p EXCEPT !.cost = @ + o.cost] : p \in F(o.m, o.d)} ELSE {o} :
             o \in Affordable(outcomes)}

(* Commands *)

\* The subnet of a network can be read as long as the network exists.
SubnetKnown(d, n) == n \in d.net

\* docker network connect and disconnect of the broker; the networks it is on
Connect(d, n) == [d EXCEPT !.broker.attached = @ \cup {n}]
Disconnect(d, S) == [d EXCEPT !.broker.attached = @ \ S]
ContainerNetworks(d) == d.broker.attached

\* The helper that edits the firewall (firewall_batch.py): a rule that is there
\* is not added twice.  Removal of a rule that is not there succeeds.
AddRule(d, n) == [d EXCEPT !.rules = @ \cup {n}]
RemoveRules(d, S) == [d EXCEPT !.rules = @ \ S]

\* The broker's side of an update (credential_broker.py): the registry of one
\* tenant is replaced, or removed when it is empty.
ReplaceTenantRegistry(d, t, p) ==
    [d EXCEPT !.broker.served = [b \in Bindings |-> IF Owner[b] = t THEN p[b] ELSE @[b]]]

-----------------------------------------------------------------------------
(* Helpers of the manager *)

\* Mutated form: acknowledgements of another container are kept.
ForgetGeneration(m) == [m EXCEPT !.seen = Unseen]

\* What a container acknowledged is worth nothing for another one.
Forget(m) == [m EXCEPT !.synced = NoAck, !.seen = Unseen]

\* _remove_broker_container, _decommission, _remove_container.  The addresses of
\* the attached networks are noted, the container is removed even if they could
\* not all be read, and only then are the firewall rules removed.
Decommission(m0, d) ==
    LET m == Forget(m0)
        at == ContainerNetworks(d)
        none == [d EXCEPT !.broker = NoContainer]
        Noted(S) == [m EXCEPT !.ips = @ \cup S]
        Cleared(S) == [m EXCEPT !.ips = (@ \cup at) \ S]
    IN {Sure([Cleared(at) EXCEPT !.cid = IF @ = d.broker.id THEN 0 ELSE @],
             RemoveRules(none, at))}
       \cup {Failed(Noted(S), none) : S \in SUBSET at}
       \cup {Failed(Noted(at), [d EXCEPT !.broker.doubt = Tenants])}
       \cup {Failed(Cleared(S), RemoveRules(none, S)) : S \in SUBSET at}

\* _reconcile_absent_container_locked, _remove_known_network_rules_locked.
\* The subnet of every remembered network is read first: a network that no
\* longer exists stops the loop.
ReconcileAbsent(m0, d) ==
    LET m == Forget(m0)
        Cleared(S) == [m EXCEPT !.ips = @ \ S]
        Left(S) == RemoveRules(d, S)
    IN IF \A n \in m.ips : SubnetKnown(d, n)
       THEN {Sure([Cleared(m.ips) EXCEPT !.cid = 0], Left(m.ips))}
            \cup {Failed(Cleared(S), Left(S)) : S \in SUBSET m.ips \ {m.ips}}
       ELSE {Refused(Cleared(S), Left(S)) : S \in SUBSET (m.ips \cap d.net)}

\* A container id that nobody remembers
FreshId(m) ==
    CHOOSE i \in 1 .. 5 : i \notin {m.cid, mgr.cid, mgr.seen[1], docker.broker.id}

\* _create_container, the health check of a new container and
\* _observe_container_generation
Create(m, d, initial) ==
    LET id == FreshId(m)
        created == [d EXCEPT !.broker = [NoContainer EXCEPT
                        !.id = id, !.running = TRUE, !.attached = {initial}]]
        tracked == [m EXCEPT !.cid = id]
    IN IF initial \notin d.net THEN {Refused(m, d)}
       ELSE {Sure([Forget(tracked) EXCEPT !.seen = <<id, 0>>], created),
             Failed(m, d),                           \* docker run failed
             Failed(m, created),                     \* its answer was lost
             Failed([m EXCEPT !.cid = 0], d),        \* unhealthy, removed
             Failed(tracked, created)}               \* generation not readable

\* _observe_container_generation: another container or another start of it
Observe(m, d) ==
    LET generation == <<d.broker.id, d.broker.start>> IN
    IF m.seen = generation THEN m ELSE [Forget(m) EXCEPT !.seen = generation]

\* _find_container_id, _ensure_container
EnsureContainer(m, d, initial) ==
    LET again(x, y) == Create(x, y, initial)
        anew(x, y) == AndThen(Decommission(x, y), again)
    IN IF d.broker.id = 0 THEN AndThen(ReconcileAbsent(m, d), again)
       ELSE IF m.cid # d.broker.id \/ ~d.broker.running
            THEN anew(m, d)
       ELSE {Sure(Observe(m, d), d), Failed(m, d)}
            \cup AndThen({Result(m, d, TRUE, 1)}, anew)     \* unhealthy

\* _ensure_network_access, _connect_network, _inspect_network_policy.  The
\* address is remembered before the firewall is changed; what was connected is
\* disconnected again when the change did not answer, unless that fails too.
EnsureAccess(m, d, n) ==
    LET known == [m EXCEPT !.ips = @ \cup {n}]
        joined == Connect(d, n)
    IN IF n \notin d.net \/ ~d.broker.running THEN {Refused(m, d)}
       ELSE {Sure(known, AddRule(joined, n)),
             Failed(m, d), Failed(m, joined), Failed(known, d), Failed(known, AddRule(d, n)),
             Result(known, joined, FALSE, 2), Result(known, AddRule(joined, n), FALSE, 2)}

\* _sync_registry: an acknowledgement is forgotten before the update is sent.
SyncRegistry(m, d, t, B, skip) ==
    LET p == Payload(B, t)
        unacked == [m EXCEPT !.synced[t] = NoRegistry]
        acked == [m EXCEPT !.synced[t] = p]
        applied == ReplaceTenantRegistry(d, t, p)
        settled == [applied EXCEPT !.broker.doubt = @ \ {t}]
    IN IF ~(BindingNetworks(B, t) \subseteq m.ips) THEN {Refused(m, d)}
       ELSE IF skip /\ p # NoRegistry /\ m.synced[t] = p THEN {Sure(m, d)}
       ELSE IF ~d.broker.running \/ d.broker.id # m.cid THEN {Refused(unacked, d)}
       ELSE {Sure(acked, settled), Failed(unacked, d), Failed(unacked, applied)}

\* _prune_inactive_networks_locked, called only when some remembered network is
\* no longer authorized for an active tenant
Prune(m, d) ==
    LET extra == ContainerNetworks(d) \ ActiveNetworks(m)
        Out(S) == [m EXCEPT !.ips = @ \ S]
        Cut(S) == Disconnect(RemoveRules(d, S), S)
    IN IF m.ips \subseteq ActiveNetworks(m) THEN {Sure(m, d)}
       ELSE {Sure(Out(extra), Cut(extra))}
            \cup {Failed(Out(S), Cut(S)) : S \in SUBSET extra}

\* _raise_after_fail_closed_cleanup
FailClosed(m, d) ==
    IF d.broker.id = 0 THEN ReconcileAbsent(m, d) ELSE Decommission(m, d)

\* _remove_unowned_container_locked
RemoveUnowned(m, d) ==
    IF d.broker.id = 0 THEN ReconcileAbsent(m, d)
    ELSE IF m.cid # d.broker.id THEN Decommission(m, d)
    ELSE {Sure(m, d)}

-----------------------------------------------------------------------------
(* Operations under the shared lock *)

Take(o) ==
    /\ faults + o.cost <= MaxFaults
    /\ faults' = faults + o.cost
    /\ mgr' = o.m
    /\ docker' = o.d

Goto(phase) == bop' = [bop EXCEPT !.phase = phase] /\ UNCHANGED hop

\* The caller goes on with the result r of its call: _acquire_locked and its handler,
\* stop, destroy, and the callers of provision and revoke.
Resumed(f, r) ==
    LET ok == r.res = "ok"
        Went(phase) == [f EXCEPT !.phase = phase, !.err = @ \/ ~ok]
    IN CASE f.phase = "prepare..." -> IF ok THEN [Went("run") EXCEPT !.prep = r] ELSE Went("find")
         [] f.phase = "rollback..." -> Went("unallow")
         [] f.phase = "cleanup..." -> Went(IF ok THEN "unallow" ELSE "inactive")
         [] f.phase = "unused..." -> Went("inactive")
         [] f.phase = "inactive..." -> Went("release")
         [] OTHER -> Idle            \* "bind...": provision, revoke

Return(res) ==
    LET r == [res |-> res, bindings |-> bop.bindings, active |-> bop.active]
    IN hop' = [hop EXCEPT ![bop.by] = Resumed(@, r)] /\ bop' = NoOp

\* provision, provision_http: the networks are verified, the binding is set in
\* memory before anything is applied
BeginProvision(c, b, ver) ==
    LET t == TenantOf[c]
        live == Live(t, docker)
        B == [Refresh(mgr.bindings, t, live) EXCEPT
                 ![b] = [ver |-> ver, nets |-> IF Scope[b] = "tenant" THEN live ELSE {c}]]
        op(phase) == Op("provision", c, phase, FALSE, mgr.bindings, t \in mgr.active)
    IN \/ /\ c \in live
          /\ mgr' = [mgr EXCEPT !.bindings = B, !.active = @ \cup {t}]
          /\ bop' = op("ensure")
          /\ UNCHANGED faults
       \/ /\ c \notin live                      \* not the conversation's network any more
          /\ bop' = op("closing")
          /\ UNCHANGED <<mgr, faults>>
       \/ /\ faults < MaxFaults                  \* the networks could not be listed
          /\ faults' = faults + 1
          /\ bop' = op("closing")
          /\ UNCHANGED mgr

\* prepare_tenant_network
BeginPrepare(c) ==
    LET t == TenantOf[c]
        op(phase) == Op("prepare", c, phase, TRUE, mgr.bindings, t \in mgr.active)
    IN \/ /\ Empty(mgr.bindings, t)
          /\ bop' = op("unowned")
          /\ UNCHANGED <<mgr, faults>>
       \/ /\ ~Empty(mgr.bindings, t)
          /\ mgr' = [mgr EXCEPT !.bindings = Refresh(@, t, Live(t, docker)), !.active = @ \cup {t}]
          /\ bop' = op("ensure")
          /\ UNCHANGED faults
       \/ /\ ~Empty(mgr.bindings, t)
          /\ faults < MaxFaults
          /\ faults' = faults + 1
          /\ bop' = op("closing")
          /\ UNCHANGED mgr

\* The tenant's registry is replaced in memory; a tenant without bindings is no
\* longer active.  Common to revoke_http, cleanup_network and remove_unused.
Drop(m, t, B) ==
    [m EXCEPT !.bindings = B, !.active = IF Empty(B, t) THEN @ \ {t} ELSE @]

\* revoke_http
BeginRevoke(c, b) ==
    LET t == TenantOf[c] IN
    /\ mgr' = IF mgr.bindings[b] = NoBinding THEN mgr
              ELSE Drop(mgr, t, [mgr.bindings EXCEPT ![b] = NoBinding])
    /\ bop' = Op("revoke", c, "revoke", FALSE, NoRegistry, FALSE)
    /\ UNCHANGED faults

\* remove_unused
BeginUnused(c) ==
    LET t == TenantOf[c] IN
    /\ mgr' = Drop(mgr, t, Refresh(mgr.bindings, t, Live(t, docker)))
    /\ bop' = Op("unused", c, "revoke", FALSE, NoRegistry, FALSE)
    /\ UNCHANGED faults

\* remove_inactive: nothing is revoked while the tenant has a running sandbox
BeginInactive(c) ==
    LET t == TenantOf[c]
        busy == \E x \in Conversations : TenantOf[x] = t /\ docker.box[x] = "running"
    IN /\ mgr' = IF busy THEN mgr ELSE [mgr EXCEPT !.active = @ \ {t}]
       /\ bop' = Op("inactive", c, IF busy THEN "absent" ELSE "revoke", FALSE, NoRegistry, FALSE)
       /\ UNCHANGED faults

\* cleanup_network
BeginCleanup(c) ==
    LET t == TenantOf[c] IN
    /\ mgr' = Drop(mgr, t, Without(mgr.bindings, t, c))
    /\ bop' = Op("cleanup", c, "deauthorize", FALSE, NoRegistry, FALSE)
    /\ UNCHANGED faults

\* rollback_prepared_network: the network is taken out of what is served, and
\* the memory is put back as it was before the preparation
BeginRollback(c, prep) ==
    LET t == TenantOf[c]
        B == Without([b \in Bindings |-> IF Owner[b] = t THEN prep.bindings[b] ELSE mgr.bindings[b]], t, c)
    IN /\ mgr' = RestoreTenant(mgr, t, B, prep.active /\ ~Empty(B, t))
       /\ bop' = Op("rollback", c, "deauthorize", FALSE, prep.bindings, prep.active)
       /\ UNCHANGED faults

\* What is still to be done: networks to connect, then registries to send.
Continue(op) ==
    [op EXCEPT !.phase = IF op.nets # {} THEN "access"
                         ELSE IF op.tenants # {} THEN "sync" ELSE "prune"]

\* _apply_tenant_registry_locked up to the container: a new or restarted broker
\* is given the registries of all active tenants
Ensure ==
    LET nets == BindingNetworks(mgr.bindings, bop.t)
        initial == IF bop.kind = "provision" THEN bop.by ELSE CHOOSE n \in nets : TRUE
        restored == {t \in mgr.active : ~Empty(mgr.bindings, t)}
    IN /\ bop.phase = "ensure"
       /\ UNCHANGED hop
       /\ IF nets = {}
          THEN /\ bop' = [bop EXCEPT !.phase = "restore"]
               /\ UNCHANGED <<mgr, docker, faults>>
          ELSE \E o \in EnsureContainer(mgr, docker, initial) :
                 /\ Take(o)
                 /\ bop' = IF ~o.ok THEN [bop EXCEPT !.phase = "restore"]
                           ELSE IF o.m.seen # mgr.seen
                           THEN Continue([bop EXCEPT !.nets = ActiveNetworks(o.m),
                                                     !.tenants = restored, !.skip = FALSE])
                           ELSE Continue([bop EXCEPT !.nets = nets, !.tenants = {bop.t}])

Access ==
    /\ bop.phase = "access"
    /\ LET n == CHOOSE x \in bop.nets : TRUE IN
       \E o \in EnsureAccess(mgr, docker, n) :
         /\ Take(o)
         /\ bop' = IF o.ok THEN Continue([bop EXCEPT !.nets = @ \ {n}])
                   ELSE [bop EXCEPT !.phase = "restore"]
    /\ UNCHANGED hop

\* Mutated form: the answer to an update that was lost counts as given.
SyncTrusting ==
    /\ bop.phase = "sync"
    /\ LET t == CHOOSE x \in bop.tenants : TRUE IN
       \E o \in SyncRegistry(mgr, docker, t, mgr.bindings, bop.skip) :
         /\ Take(o)
         /\ bop' = Continue([bop EXCEPT !.tenants = @ \ {t}])
    /\ UNCHANGED hop

Sync ==
    /\ bop.phase = "sync"
    /\ LET t == CHOOSE x \in bop.tenants : TRUE IN
       \E o \in SyncRegistry(mgr, docker, t, mgr.bindings, bop.skip) :
         /\ Take(o)
         /\ bop' = IF o.ok THEN Continue([bop EXCEPT !.tenants = @ \ {t}])
                   ELSE [bop EXCEPT !.phase = "restore"]
    /\ UNCHANGED hop

PruneNetworks ==
    /\ bop.phase = "prune"
    /\ \E o \in Prune(mgr, docker) :
         /\ Take(o)
         /\ IF o.ok THEN Return("ok") ELSE Goto("restore")

\* The handlers of provision and prepare: the tenant's memory is put back, and
\* the broker is removed
Restore ==
    /\ bop.phase = "restore"
    /\ mgr' = RestoreTenant(mgr, bop.t, bop.bindings, bop.active)
    /\ Goto("closing")
    /\ UNCHANGED <<docker, faults>>

Closing ==
    /\ bop.phase = "closing"
    /\ \E o \in FailClosed(mgr, docker) : Take(o)
    /\ Return("error")

Unowned ==
    /\ bop.phase = "unowned"
    /\ \E o \in RemoveUnowned(mgr, docker) :
         Take(o) /\ Return(IF o.ok THEN "ok" ELSE "error")

\* remove_inactive with a running sandbox
Absent ==
    /\ bop.phase = "absent"
    /\ \E o \in (IF docker.broker.id = 0 THEN ReconcileAbsent(mgr, docker) ELSE {Sure(mgr, docker)}) :
         Take(o) /\ Return(IF o.ok THEN "ok" ELSE "error")

\* The registry the broker should hold for the operation's tenant
Desired == IF bop.t \in mgr.active THEN mgr.bindings ELSE NoRegistry

\* _apply_revocation_locked: an update that fails is answered by removal, and
\* then the revocation has succeeded
Revoke ==
    /\ bop.phase = "revoke"
    /\ IF docker.broker.id = 0 \/ mgr.cid # docker.broker.id
       THEN \E o \in RemoveUnowned(mgr, docker) :
              Take(o) /\ Return(IF o.ok THEN "ok" ELSE "error")
       ELSE \E o \in AndThen(SyncRegistry(mgr, docker, bop.t, Desired, FALSE), Prune) :
              /\ Take(o)
              /\ IF o.ok /\ ActiveNetworks(o.m) # {} THEN Return("ok") ELSE Goto("remove")

\* The container to remove is the one found before; it may have vanished since.
RemoveContainer ==
    /\ bop.phase = "remove"
    /\ \E o \in (IF docker.broker.id = 0 THEN {Refused(Forget(mgr), docker)}
                 ELSE Decommission(mgr, docker)) :
         Take(o) /\ Return(IF o.ok THEN "ok" ELSE "error")

\* rollback_prepared_network puts the memory back whatever happened
Leave(m, res) ==
    /\ mgr' = IF bop.kind = "rollback" THEN RestoreTenant(m, bop.t, bop.bindings, bop.active) ELSE m
    /\ Return(res)

\* _deauthorize_network_locked up to the firewall
Deauthorize ==
    LET c == bop.by
        tracked == docker.broker.id # 0 /\ mgr.cid = docker.broker.id
        synced == SyncRegistry(mgr, docker, bop.t, Desired, FALSE)
        last == ActiveNetworks(mgr) = {}
        outcomes ==
            IF docker.broker.id = 0 THEN {Sure(mgr, docker)}
            ELSE IF ~tracked THEN Decommission(mgr, docker)
            ELSE UNION {{[p EXCEPT !.cost = @ + o.cost] : p \in
                           IF o.ok /\ ~last THEN {Sure(o.m, o.d)} ELSE Decommission(o.m, o.d)} :
                          o \in Affordable(synced)}
    IN /\ bop.phase = "deauthorize"
       /\ \/ \E o \in outcomes :
               /\ faults + o.cost <= MaxFaults
               /\ faults' = faults + o.cost
               /\ docker' = o.d
               /\ IF o.ok THEN mgr' = o.m /\ Goto("forget") ELSE Leave(o.m, "error")
          \/ /\ docker.broker.id # 0 /\ faults < MaxFaults    \* its networks were not readable
             /\ faults' = faults + 1
             /\ docker' = [docker EXCEPT !.broker.doubt = @ \cup {bop.t}]
             /\ Leave(mgr, "error")

\* ... and the firewall rules and the attachment of the network
ForgetNetwork ==
    LET c == bop.by
        cut == RemoveRules(docker, {c})
    IN /\ bop.phase = "forget"
       /\ IF c \in ActiveNetworks(mgr)
          THEN Leave(mgr, "ok") /\ UNCHANGED <<docker, faults>>
          ELSE \/ /\ docker' = Disconnect(cut, {c})
                  /\ Leave([mgr EXCEPT !.ips = @ \ {c}], "ok")
                  /\ UNCHANGED faults
               \/ /\ faults < MaxFaults
                  /\ faults' = faults + 1
                  /\ docker' \in {docker, cut}
                  /\ Leave(mgr, "error")

BrokerStep ==
    \/ Ensure \/ Access \/ Sync \/ PruneNetworks \/ Restore \/ Closing \/ Unowned
    \/ Absent \/ Revoke \/ RemoveContainer \/ Deauthorize \/ ForgetNetwork

-----------------------------------------------------------------------------
(* The broker container on its own *)

\* It exits, and is found not running.
BrokerExits ==
    /\ docker.broker.running /\ faults < MaxFaults
    /\ docker' = [docker EXCEPT !.broker.running = FALSE, !.broker.served = NoRegistry]
    /\ faults' = faults + 1
    /\ UNCHANGED <<mgr, bop, hop>>

\* It is restarted by the host: same container, another process, no registry.
BrokerRestarts ==
    /\ docker.broker.id # 0 /\ faults < MaxFaults
    /\ docker' = [docker EXCEPT !.broker.running = TRUE, !.broker.served = NoRegistry,
                     !.broker.start = IF mgr.seen = <<docker.broker.id, 0>> THEN 1 ELSE 0]
    /\ faults' = faults + 1
    /\ UNCHANGED <<mgr, bop, hop>>

\* It is removed by somebody else.
BrokerVanishes ==
    /\ docker.broker.id # 0 /\ faults < MaxFaults
    /\ docker' = [docker EXCEPT !.broker = NoContainer]
    /\ faults' = faults + 1
    /\ UNCHANGED <<mgr, bop, hop>>

-----------------------------------------------------------------------------
(* Properties of the manager *)

Quiet == bop.kind = "none"
Tracked == docker.broker.id # 0 /\ mgr.cid = docker.broker.id

\* An acknowledged registry is what the broker process serves, as long as the
\* process is the one the manager has observed: what lets prepare skip an update.
AcksAreServed ==
    \A t \in Tenants :
        (mgr.synced[t] # NoRegistry /\ mgr.seen = <<docker.broker.id, docker.broker.start>>
           /\ docker.broker.running)
        => Payload(docker.broker.served, t) = mgr.synced[t]

\* Between operations the broker that the manager tracks serves no credential
\* that the manager has revoked, rotated, or retained for an inactive tenant,
\* and none to a network beyond its grant; unless the operation that should have
\* taken it away has told its caller that it failed (doubt).
NothingRevokedIsServed ==
    (Quiet /\ Tracked) =>
        \A b \in Bindings :
            (docker.broker.served[b] # NoBinding /\ Owner[b] \notin docker.broker.doubt) =>
                /\ Owner[b] \in mgr.active
                /\ docker.broker.served[b].ver = mgr.bindings[b].ver
                /\ docker.broker.served[b].nets \subseteq mgr.bindings[b].nets

\* No firewall rule that admits a network to the broker is forgotten: the manager
\* remembers the network, or the broker is still attached to it.
RulesAreKnown == docker.rules \subseteq mgr.ips \cup docker.broker.attached

\* What the manager believes of the broker and of its firewall rules is so.
ManagerKnowsBroker == AcksAreServed /\ RulesAreKnown

=============================================================================
