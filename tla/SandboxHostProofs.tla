-------------------------- MODULE SandboxHostProofs --------------------------
(***************************************************************************)
(* Proofs about SandboxHost and CredentialBroker, for any tenants,         *)
(* conversations and bindings, and any number of faults.                   *)
(***************************************************************************)
EXTENDS SandboxHost, TLAPS

USE Zenon

Binding == [ver : Nat, nets : SUBSET Conversations]
Registry == [Bindings -> Binding]
Returned == [res : {"none", "ok", "error"}, bindings : Registry, active : BOOLEAN]
Memory == [bindings : Registry, active : SUBSET Tenants, cid : 0 .. 5,
           seen : (0 .. 5) \X {0, 1}, ips : SUBSET Conversations,
           synced : [Tenants -> Registry]]
Container == [id : 0 .. 5, start : {0, 1}, running : BOOLEAN, attached : SUBSET Conversations,
              served : Registry, doubt : SUBSET Tenants]
Host == [net : SUBSET Conversations, box : [Conversations -> {"none", "running", "stopped"}],
         late : SUBSET Conversations, drop : SUBSET Conversations, allow : SUBSET Conversations,
         proxy : SUBSET Conversations, old : BOOLEAN, rules : SUBSET Conversations,
         broker : Container]
OpKinds == {"provision", "prepare", "revoke", "unused", "inactive", "cleanup", "rollback"}
Phases == {"ensure", "access", "sync", "prune", "restore", "closing", "unowned", "absent",
           "revoke", "remove", "deauthorize", "forget"}
Operation == [kind : OpKinds, by : Conversations, t : Tenants, phase : Phases,
              nets : SUBSET Conversations, tenants : SUBSET Tenants, skip : BOOLEAN,
              bindings : Registry, active : BOOLEAN]
HopFields == {"kind", "phase", "reserved", "prep", "err", "claim", "ver"}
HopOK(h) == DOMAIN h = HopFields /\ h.prep \in Returned /\ h.ver \in Nat

Types ==
    /\ mgr \in Memory
    /\ docker \in Host
    /\ bop \in Operation \cup {NoOp}
    /\ DOMAIN hop = Conversations
    /\ \A c \in Conversations : HopOK(hop[c])
    /\ version \in Nat

\* A container that is not there does not run.
Gone(d) == d.broker.id = 0 => ~d.broker.running

Current(m, d) == m.seen = <<d.broker.id, d.broker.start>> /\ d.broker.running
Acks(m, d) ==
    \A t \in Tenants :
        m.synced[t] # NoRegistry /\ Current(m, d) => Payload(d.broker.served, t) = m.synced[t]

Knows(m, d) == d.broker.id # 0 /\ m.cid = d.broker.id

\* The broker serves b as the manager has it, or b is in doubt.
Granted(m, s, b) ==
    Owner[b] \in m.active /\ s.ver = m.bindings[b].ver /\ s.nets \subseteq m.bindings[b].nets
Good(m, d, b) ==
    \/ d.broker.served[b] = NoBinding
    \/ Owner[b] \in d.broker.doubt
    \/ Granted(m, d.broker.served[b], b)

\* The phases in which the broker has been told of the operation's tenant, or
\* nothing about it was changed; the phases that end with the broker's removal.
Told(o) ==
    \/ o.phase \in {"none", "unowned", "absent", "forget", "prune"}
    \/ o.phase = "sync" /\ o.t \notin o.tenants
Ending(o) == o.phase \in {"restore", "closing", "remove"}

Serves(m, d, o) ==
    (Knows(m, d) /\ ~Ending(o)) =>
        \A b \in Bindings : (Owner[b] # o.t \/ Told(o)) => Good(m, d, b)

\* What an operation under way has established.
Applying(m, d, o) ==
    /\ o.phase = "ensure" => o.t \in m.active
    /\ o.phase \in {"access", "sync"} => o.tenants \subseteq m.active
    /\ o.phase = "access" => o.t \in o.tenants
    /\ o.phase = "sync" => o.nets = {} /\ o.tenants # {}
    /\ (o.phase \in {"access", "sync"} /\ o.skip) =>
         /\ o.tenants = {o.t}
         /\ Knows(m, d) => Current(m, d) \/ \A b \in Of(o.t) : d.broker.served[b] = NoBinding
RollingBack(m, o) ==
    o.kind = "rollback" =>
        /\ o.phase \in {"deauthorize", "forget"}
        /\ \A b \in Of(o.t) : m.bindings[b] = Without(o.bindings, o.t, o.by)[b]
        /\ o.t \in m.active => o.active

OpInv(m, d, o) ==
    /\ Gone(d)
    /\ Acks(m, d)
    /\ Serves(m, d, o)
    /\ Applying(m, d, o)
    /\ RollingBack(m, o)

IInv == Types /\ OpInv(mgr, docker, bop)

-----------------------------------------------------------------------------
(* The parts of the state *)

LEMMA Empties ==
    /\ NoBinding \in Binding /\ NoBinding.nets = {} /\ NoBinding.ver = 0
    /\ NoRegistry \in Registry /\ (\A b \in Bindings : NoRegistry[b] = NoBinding)
    /\ NoAck \in [Tenants -> Registry] /\ (\A t \in Tenants : NoAck[t] = NoRegistry)
    /\ Unseen \in (0 .. 5) \X {0, 1}
    /\ NoContainer \in Container
    /\ NoContainer.id = 0 /\ NoContainer.running = FALSE /\ NoContainer.served = NoRegistry
    /\ NoReturn \in Returned
  <1>1. NoBinding \in Binding /\ NoBinding.nets = {} /\ NoBinding.ver = 0
    BY SMT DEF NoBinding, Binding
  <1>2. NoRegistry \in Registry /\ (\A b \in Bindings : NoRegistry[b] = NoBinding)
    BY <1>1 DEF NoRegistry, Registry
  <1>3. NoAck \in [Tenants -> Registry] /\ (\A t \in Tenants : NoAck[t] = NoRegistry)
    BY <1>2 DEF NoAck
  <1>4. Unseen \in (0 .. 5) \X {0, 1}
    BY SMT DEF Unseen
  <1>5. /\ NoContainer \in Container
        /\ NoContainer.id = 0 /\ NoContainer.running = FALSE /\ NoContainer.served = NoRegistry
    BY <1>2, SMT DEF NoContainer, Container
  <1>6. NoReturn \in Returned
    BY <1>2, SMT DEF NoReturn, Returned
  <1> QED BY <1>1, <1>2, <1>3, <1>4, <1>5, <1>6

\* A binding without networks and without version is no binding.
LEMMA NothingLeft ==
    ASSUME NEW x \in Binding, x.ver = 0, x.nets = {} PROVE x = NoBinding
  BY SMT DEF Binding, NoBinding

LEMMA PayloadIs ==
    ASSUME NEW B \in Registry, NEW t
    PROVE  /\ Payload(B, t) \in Registry
           /\ \A b \in Bindings : Payload(B, t)[b] = IF Owner[b] = t THEN B[b] ELSE NoBinding
  BY Empties DEF Payload, Registry

LEMMA KeepIs ==
    ASSUME NEW x \in Binding, NEW S \in SUBSET Conversations
    PROVE  /\ Keep(x, S) \in Binding
           /\ Keep(x, S).nets = S
           /\ S # {} => Keep(x, S).ver = x.ver
           /\ S = {} => Keep(x, S) = NoBinding
  <1>1. CASE S = {}
    BY <1>1, Empties DEF Keep
  <1>2. CASE S # {}
    <2>1. Keep(x, S) = [x EXCEPT !.nets = S]
      BY <1>2 DEF Keep
    <2> QED BY <2>1, <1>2, SMT DEF Binding
  <1> QED BY <1>1, <1>2

LEMMA RefreshIs ==
    ASSUME NEW B \in Registry, NEW t, NEW S \in SUBSET Conversations
    PROVE  /\ Refresh(B, t, S) \in Registry
           /\ \A b \in Bindings : Owner[b] # t => Refresh(B, t, S)[b] = B[b]
  <1>1. \A b \in Bindings : B[b] \in Binding
    BY DEF Registry
  <1>2. \A b \in Bindings : B[b].nets \cap S \in SUBSET Conversations
    OBVIOUS
  <1>3. \A b \in Bindings : Keep(B[b], S) \in Binding /\ Keep(B[b], B[b].nets \cap S) \in Binding
    BY <1>1, <1>2, KeepIs
  <1> QED BY <1>1, <1>3 DEF Refresh, Registry

\* _bindings_without_network: what is left of a binding is no more than it was.
LEMMA WithoutIs ==
    ASSUME NEW B \in Registry, NEW t, NEW n
    PROVE  /\ Without(B, t, n) \in Registry
           /\ \A b \in Bindings : Owner[b] # t => Without(B, t, n)[b] = B[b]
           /\ \A b \in Bindings :
                \/ Without(B, t, n)[b] = NoBinding
                \/ /\ Without(B, t, n)[b].ver = B[b].ver
                   /\ Without(B, t, n)[b].nets \subseteq B[b].nets
  <1>1. \A b \in Bindings : B[b] \in Binding
    BY DEF Registry
  <1>2. \A b \in Bindings : B[b].nets \ {n} \in SUBSET Conversations
    BY <1>1, SMT DEF Binding
  <1>3. ASSUME NEW b \in Bindings
        PROVE  /\ Keep(B[b], B[b].nets \ {n}) \in Binding
               /\ \/ Keep(B[b], B[b].nets \ {n}) = NoBinding
                  \/ /\ Keep(B[b], B[b].nets \ {n}).ver = B[b].ver
                     /\ Keep(B[b], B[b].nets \ {n}).nets \subseteq B[b].nets
    <2>1. B[b] \in Binding /\ B[b].nets \ {n} \in SUBSET Conversations
      BY <1>1, <1>2
    <2>2. /\ Keep(B[b], B[b].nets \ {n}) \in Binding
          /\ Keep(B[b], B[b].nets \ {n}).nets = B[b].nets \ {n}
          /\ B[b].nets \ {n} # {} => Keep(B[b], B[b].nets \ {n}).ver = B[b].ver
          /\ B[b].nets \ {n} = {} => Keep(B[b], B[b].nets \ {n}) = NoBinding
      BY <2>1, KeepIs
    <2>3. B[b].nets \ {n} \subseteq B[b].nets
      OBVIOUS
    <2> QED BY <2>2, <2>3
  <1> QED BY <1>1, <1>3, Empties DEF Without, Registry

\* The update of one tenant's entries of a registry
Merge(A, B, t) == [b \in Bindings |-> IF Owner[b] = t THEN B[b] ELSE A[b]]

LEMMA MergeIs ==
    ASSUME NEW A \in Registry, NEW B \in Registry, NEW t
    PROVE  /\ Merge(A, B, t) \in Registry
           /\ \A b \in Bindings : Merge(A, B, t)[b] = IF Owner[b] = t THEN B[b] ELSE A[b]
  BY DEF Merge, Registry

-----------------------------------------------------------------------------
(* Updates of the manager's memory and of the host *)

\* The memory but for the known networks, and the broker but for its attachments
SameMemory(m, n) ==
    /\ n \in Memory
    /\ n.bindings = m.bindings /\ n.active = m.active /\ n.cid = m.cid
    /\ n.seen = m.seen /\ n.synced = m.synced
SameBroker(d, e) ==
    /\ e \in Host
    /\ e.broker.id = d.broker.id /\ e.broker.start = d.broker.start
    /\ e.broker.running = d.broker.running /\ e.broker.served = d.broker.served
    /\ e.broker.doubt = d.broker.doubt

\* The bindings and the active tenants: what the operations decide.
SameGrants(m, n) == n \in Memory /\ n.bindings = m.bindings /\ n.active = m.active

LEMMA SetIps ==
    ASSUME NEW m \in Memory, NEW S \in SUBSET Conversations
    PROVE  SameMemory(m, [m EXCEPT !.ips = S]) /\ [m EXCEPT !.ips = S].ips = S
  BY SMT DEF Memory, SameMemory

LEMMA SetCid ==
    ASSUME NEW m \in Memory, NEW i \in 0 .. 5
    PROVE  /\ [m EXCEPT !.cid = i] \in Memory /\ [m EXCEPT !.cid = i].cid = i
           /\ SameGrants(m, [m EXCEPT !.cid = i])
           /\ [m EXCEPT !.cid = i].seen = m.seen /\ [m EXCEPT !.cid = i].synced = m.synced
           /\ [m EXCEPT !.cid = i].ips = m.ips
  BY SMT DEF Memory, SameGrants

LEMMA SetSeen ==
    ASSUME NEW m \in Memory, NEW g \in (0 .. 5) \X {0, 1}
    PROVE  /\ [m EXCEPT !.seen = g] \in Memory /\ [m EXCEPT !.seen = g].seen = g
           /\ SameGrants(m, [m EXCEPT !.seen = g]) /\ [m EXCEPT !.seen = g].cid = m.cid
           /\ [m EXCEPT !.seen = g].synced = m.synced /\ [m EXCEPT !.seen = g].ips = m.ips
  BY SMT DEF Memory, SameGrants

LEMMA SetSynced ==
    ASSUME NEW m \in Memory, NEW a \in [Tenants -> Registry]
    PROVE  /\ [m EXCEPT !.synced = a] \in Memory /\ [m EXCEPT !.synced = a].synced = a
           /\ SameGrants(m, [m EXCEPT !.synced = a]) /\ [m EXCEPT !.synced = a].cid = m.cid
           /\ [m EXCEPT !.synced = a].seen = m.seen /\ [m EXCEPT !.synced = a].ips = m.ips
  BY SMT DEF Memory, SameGrants

LEMMA ForgetIs ==
    ASSUME NEW m \in Memory
    PROVE  /\ Forget(m) \in Memory /\ SameGrants(m, Forget(m))
           /\ Forget(m).cid = m.cid /\ Forget(m).ips = m.ips
           /\ Forget(m).synced = NoAck /\ Forget(m).seen = Unseen
  <1> DEFINE n == [m EXCEPT !.synced = NoAck]
  <1>1. NoAck \in [Tenants -> Registry] /\ Unseen \in (0 .. 5) \X {0, 1}
    BY Empties
  <1>2. /\ n \in Memory /\ n.synced = NoAck /\ SameGrants(m, n) /\ n.cid = m.cid
        /\ n.ips = m.ips
    BY <1>1, SetSynced
  <1>3. Forget(m) = [n EXCEPT !.seen = Unseen]
    BY DEF Forget
  <1> HIDE DEF n
  <1> DEFINE p == [n EXCEPT !.seen = Unseen]
  <1>4. /\ p \in Memory /\ p.seen = Unseen /\ SameGrants(n, p) /\ p.cid = n.cid
        /\ p.synced = n.synced /\ p.ips = n.ips
    BY <1>1, <1>2, SetSeen
  <1>5. Forget(m) = p
    BY <1>3
  <1> HIDE DEF p
  <1> QED BY <1>2, <1>4, <1>5 DEF SameGrants

LEMMA SetRules ==
    ASSUME NEW d \in Host, NEW S \in SUBSET Conversations
    PROVE  SameBroker(d, [d EXCEPT !.rules = S]) /\ [d EXCEPT !.rules = S].broker = d.broker
  BY SMT DEF Host, SameBroker

LEMMA SetBroker ==
    ASSUME NEW d \in Host, NEW x \in Container
    PROVE  [d EXCEPT !.broker = x] \in Host /\ [d EXCEPT !.broker = x].broker = x
  BY SMT DEF Host

LEMMA SetAttached ==
    ASSUME NEW d \in Host, NEW S \in SUBSET Conversations
    PROVE  SameBroker(d, [d EXCEPT !.broker.attached = S])
  <1> DEFINE x == [d.broker EXCEPT !.attached = S]
  <1>1. d.broker \in Container
    BY DEF Host
  <1>2. /\ x \in Container
        /\ x.id = d.broker.id /\ x.start = d.broker.start /\ x.running = d.broker.running
        /\ x.served = d.broker.served /\ x.doubt = d.broker.doubt
    BY <1>1, SMT DEF Container
  <1>3. [d EXCEPT !.broker.attached = S] = [d EXCEPT !.broker = x]
    OBVIOUS
  <1> HIDE DEF x
  <1> QED BY <1>2, <1>3, SetBroker DEF SameBroker

LEMMA SetDoubt ==
    ASSUME NEW d \in Host, NEW S \in SUBSET Tenants
    PROVE  LET e == [d EXCEPT !.broker.doubt = S]
           IN /\ e \in Host
              /\ e.broker.id = d.broker.id /\ e.broker.start = d.broker.start
              /\ e.broker.running = d.broker.running /\ e.broker.served = d.broker.served
              /\ e.broker.doubt = S
  <1> DEFINE x == [d.broker EXCEPT !.doubt = S]
  <1>1. d.broker \in Container
    BY DEF Host
  <1>2. /\ x \in Container
        /\ x.id = d.broker.id /\ x.start = d.broker.start /\ x.running = d.broker.running
        /\ x.served = d.broker.served /\ x.doubt = S
    BY <1>1, SMT DEF Container
  <1>3. [d EXCEPT !.broker.doubt = S] = [d EXCEPT !.broker = x]
    OBVIOUS
  <1> HIDE DEF x
  <1> QED BY <1>2, <1>3, SetBroker

LEMMA SetServed ==
    ASSUME NEW d \in Host, NEW B \in Registry
    PROVE  LET e == [d EXCEPT !.broker.served = B]
           IN /\ e \in Host
              /\ e.broker.id = d.broker.id /\ e.broker.start = d.broker.start
              /\ e.broker.running = d.broker.running /\ e.broker.doubt = d.broker.doubt
              /\ e.broker.served = B
  <1> DEFINE x == [d.broker EXCEPT !.served = B]
  <1>1. d.broker \in Container
    BY DEF Host
  <1>2. /\ x \in Container
        /\ x.id = d.broker.id /\ x.start = d.broker.start /\ x.running = d.broker.running
        /\ x.doubt = d.broker.doubt /\ x.served = B
    BY <1>1, SMT DEF Container
  <1>3. [d EXCEPT !.broker.served = B] = [d EXCEPT !.broker = x]
    OBVIOUS
  <1> HIDE DEF x
  <1> QED BY <1>2, <1>3, SetBroker

-----------------------------------------------------------------------------
(* Outcomes of the helpers *)

Outcome == [m : Memory, d : Host, ok : BOOLEAN, cost : Nat]

LEMMA SureIs ==
    ASSUME NEW m \in Memory, NEW d \in Host
    PROVE  /\ Sure(m, d) \in Outcome
           /\ Sure(m, d).m = m
           /\ Sure(m, d).d = d
           /\ Sure(m, d).ok
  BY SMT DEF Sure, Result, Outcome

LEMMA RefusedIs ==
    ASSUME NEW m \in Memory, NEW d \in Host
    PROVE  /\ Refused(m, d) \in Outcome
           /\ Refused(m, d).m = m
           /\ Refused(m, d).d = d
           /\ ~Refused(m, d).ok
  BY SMT DEF Refused, Result, Outcome

LEMMA FailedIs ==
    ASSUME NEW m \in Memory, NEW d \in Host
    PROVE  /\ Failed(m, d) \in Outcome
           /\ Failed(m, d).m = m
           /\ Failed(m, d).d = d
           /\ ~Failed(m, d).ok
  BY SMT DEF Failed, Result, Outcome

LEMMA Costs ==
    ASSUME NEW o \in Outcome, NEW k \in Nat
    PROVE  LET p == [o EXCEPT !.cost = @ + k]
           IN p \in Outcome /\ p.m = o.m /\ p.d = o.d /\ (p.ok <=> o.ok)
  BY SMT DEF Outcome

\* Nothing acknowledged and no generation observed: the memory after Forget.
Blank(m, n) == SameGrants(m, n) /\ n.synced = NoAck /\ n.seen = Unseen

LEMMA BlankIps ==
    ASSUME NEW m \in Memory, NEW n \in Memory, Blank(m, n), NEW S \in SUBSET Conversations
    PROVE  Blank(m, [n EXCEPT !.ips = S])
  <1> DEFINE p == [n EXCEPT !.ips = S]
  <1>1. SameMemory(n, p)
    BY SetIps
  <1> HIDE DEF p
  <1>2. Blank(m, p)
    BY <1>1 DEF SameMemory, Blank, SameGrants
  <1> QED BY <1>2 DEF p

LEMMA BlankCid ==
    ASSUME NEW m \in Memory, NEW n \in Memory, Blank(m, n), NEW i \in 0 .. 5
    PROVE  Blank(m, [n EXCEPT !.cid = i])
  <1> DEFINE p == [n EXCEPT !.cid = i]
  <1>1. SameGrants(n, p) /\ p.seen = n.seen /\ p.synced = n.synced
    BY SetCid
  <1> HIDE DEF p
  <1>2. Blank(m, p)
    BY <1>1 DEF Blank, SameGrants
  <1> QED BY <1>2 DEF p

LEMMA ForgetIsBlank ==
    ASSUME NEW m \in Memory PROVE Blank(m, Forget(m)) /\ Forget(m) \in Memory
  BY ForgetIs DEF Blank

\* _decommission: the container is gone, or nothing it serves is certain.
Removed(d, e) ==
    \/ e.broker = NoContainer
    \/ /\ e.broker.id = d.broker.id /\ e.broker.running = d.broker.running
       /\ e.broker.doubt = Tenants

LEMMA RemoveRulesIs ==
    ASSUME NEW d \in Host, NEW S
    PROVE  SameBroker(d, RemoveRules(d, S)) /\ RemoveRules(d, S).broker = d.broker
  <1>1. d.rules \ S \in SUBSET Conversations
    BY SMT DEF Host
  <1> DEFINE e == [d EXCEPT !.rules = d.rules \ S]
  <1>2. SameBroker(d, e) /\ e.broker = d.broker
    BY <1>1, SetRules
  <1> QED BY <1>2 DEF RemoveRules

LEMMA DecommissionIs ==
    ASSUME NEW m \in Memory, NEW d \in Host, NEW o \in Decommission(m, d)
    PROVE  /\ o \in Outcome /\ Blank(m, o.m) /\ Removed(d, o.d)
           /\ o.ok => o.d.broker = NoContainer
  <1> DEFINE f == Forget(m)
             at == ContainerNetworks(d)
             none == [d EXCEPT !.broker = NoContainer]
             Noted(S) == [f EXCEPT !.ips = @ \cup S]
             Cleared(S) == [f EXCEPT !.ips = (@ \cup at) \ S]
             doubted == [d EXCEPT !.broker.doubt = Tenants]
  <1>1. Blank(m, f) /\ f \in Memory /\ f.ips \in SUBSET Conversations
    BY ForgetIsBlank DEF Memory
  <1>2. at \in SUBSET Conversations
    BY SMT DEF ContainerNetworks, Host, Container
  <1>3. none \in Host /\ none.broker = NoContainer
    BY SetBroker, Empties
  <1>4. /\ doubted \in Host /\ doubted.broker.id = d.broker.id
        /\ doubted.broker.running = d.broker.running /\ doubted.broker.doubt = Tenants
    BY SetDoubt
  <1> HIDE DEF f, at
  <1>5. \A S \in SUBSET at : Blank(m, Noted(S)) /\ Blank(m, Cleared(S))
    <2> SUFFICES ASSUME NEW S \in SUBSET at PROVE Blank(m, Noted(S)) /\ Blank(m, Cleared(S))
      OBVIOUS
    <2>1. f.ips \cup S \in SUBSET Conversations /\ (f.ips \cup at) \ S \in SUBSET Conversations
      BY <1>1, <1>2
    <2> QED BY <1>1, <2>1, BlankIps
  <1>6. \A S \in SUBSET at : Noted(S) \in Memory /\ Cleared(S) \in Memory
    BY <1>5 DEF Blank, SameGrants
  <1> HIDE DEF none, doubted, Noted, Cleared
  <1>7. \A S : LET e == RemoveRules(none, S) IN e \in Host /\ e.broker = NoContainer
    BY <1>3, RemoveRulesIs DEF SameBroker
  <1> DEFINE z == [Cleared(at) EXCEPT !.cid = IF @ = d.broker.id THEN 0 ELSE @]
  <1>8. Blank(m, z) /\ z \in Memory
    <2>1. at \in SUBSET at
      OBVIOUS
    <2>2. Cleared(at) \in Memory /\ Blank(m, Cleared(at))
      BY <2>1, <1>5, <1>6
    <2>3. (IF Cleared(at).cid = d.broker.id THEN 0 ELSE Cleared(at).cid) \in 0 .. 5
      BY <2>2, SMT DEF Memory
    <2>4. Blank(m, z)
      BY <2>2, <2>3, BlankCid
    <2> QED BY <2>4 DEF Blank, SameGrants
  <1> HIDE DEF z
  <1>9. \/ o = Sure(z, RemoveRules(none, at))
        \/ \E S \in SUBSET at : o = Failed(Noted(S), none)
        \/ o = Failed(Noted(at), doubted)
        \/ \E S \in SUBSET at : o = Failed(Cleared(S), RemoveRules(none, S))
    BY DEF Decommission, z, none, doubted, Noted, Cleared, f, at
  <1>10. CASE o = Sure(z, RemoveRules(none, at))
    <2> DEFINE e == RemoveRules(none, at)
    <2>1. e \in Host /\ e.broker = NoContainer
      BY <1>7
    <2> HIDE DEF e
    <2>2. o \in Outcome /\ o.m = z /\ o.d = e
      BY <1>10, <1>8, <2>1, SureIs DEF e
    <2> QED BY <1>8, <2>1, <2>2 DEF Removed
  <1>11. CASE \E S \in SUBSET at : o = Failed(Noted(S), none)
    <2>1. PICK S \in SUBSET at : o = Failed(Noted(S), none)
      BY <1>11
    <2>2. o \in Outcome /\ o.m = Noted(S) /\ o.d = none /\ ~o.ok
      BY <2>1, <1>6, <1>3, FailedIs
    <2> QED BY <1>5, <1>3, <2>2 DEF Removed
  <1>12. CASE o = Failed(Noted(at), doubted)
    <2>1. at \in SUBSET at
      OBVIOUS
    <2>2. o \in Outcome /\ o.m = Noted(at) /\ o.d = doubted /\ ~o.ok
      BY <1>12, <2>1, <1>6, <1>4, FailedIs
    <2> QED BY <2>1, <1>5, <1>4, <2>2 DEF Removed
  <1>13. CASE \E S \in SUBSET at : o = Failed(Cleared(S), RemoveRules(none, S))
    <2>1. PICK S \in SUBSET at : o = Failed(Cleared(S), RemoveRules(none, S))
      BY <1>13
    <2> DEFINE e == RemoveRules(none, S)
    <2>2. e \in Host /\ e.broker = NoContainer
      BY <1>7
    <2> HIDE DEF e
    <2>3. o \in Outcome /\ o.m = Cleared(S) /\ o.d = e /\ ~o.ok
      BY <2>1, <1>6, <2>2, FailedIs DEF e
    <2> QED BY <1>5, <2>2, <2>3 DEF Removed
  <1> QED BY <1>9, <1>10, <1>11, <1>12, <1>13

LEMMA ReconcileAbsentIs ==
    ASSUME NEW m \in Memory, NEW d \in Host, NEW o \in ReconcileAbsent(m, d)
    PROVE  o \in Outcome /\ Blank(m, o.m) /\ SameBroker(d, o.d) /\ o.d.broker = d.broker
  <1> DEFINE f == Forget(m)
             Cleared(S) == [f EXCEPT !.ips = @ \ S]
             Left(S) == RemoveRules(d, S)
  <1>1. Blank(m, f) /\ f \in Memory /\ f.ips \in SUBSET Conversations
    BY ForgetIsBlank DEF Memory
  <1> HIDE DEF f
  <1>2. \A S : Blank(m, Cleared(S)) /\ Cleared(S) \in Memory
    <2> SUFFICES ASSUME NEW S PROVE Blank(m, Cleared(S)) /\ Cleared(S) \in Memory
      OBVIOUS
    <2>1. f.ips \ S \in SUBSET Conversations
      BY <1>1
    <2>2. Blank(m, Cleared(S))
      BY <1>1, <2>1, BlankIps
    <2> QED BY <2>2 DEF Blank, SameGrants
  <1>3. \A S : Left(S) \in Host /\ SameBroker(d, Left(S)) /\ Left(S).broker = d.broker
    BY RemoveRulesIs DEF SameBroker
  <1> DEFINE z == [Cleared(f.ips) EXCEPT !.cid = 0]
  <1> HIDE DEF Cleared, Left
  <1>4. Blank(m, z) /\ z \in Memory
    <2>1. Blank(m, Cleared(f.ips)) /\ Cleared(f.ips) \in Memory
      BY <1>2
    <2>2. 0 \in 0 .. 5
      BY SMT
    <2>3. Blank(m, z)
      BY <2>1, <2>2, BlankCid
    <2> QED BY <2>3 DEF Blank, SameGrants
  <1> HIDE DEF z
  <1>5. \/ o = Sure(z, Left(f.ips))
        \/ \E S : o = Failed(Cleared(S), Left(S)) \/ o = Refused(Cleared(S), Left(S))
    BY DEF ReconcileAbsent, z, Cleared, Left, f
  <1>6. CASE o = Sure(z, Left(f.ips))
    <2>1. o \in Outcome /\ o.m = z /\ o.d = Left(f.ips)
      BY <1>6, <1>4, <1>3, SureIs
    <2> QED BY <2>1, <1>3, <1>4
  <1>7. CASE \E S : o = Failed(Cleared(S), Left(S)) \/ o = Refused(Cleared(S), Left(S))
    <2>1. PICK S : o = Failed(Cleared(S), Left(S)) \/ o = Refused(Cleared(S), Left(S))
      BY <1>7
    <2>2. Cleared(S) \in Memory /\ Left(S) \in Host
      BY <1>2, <1>3
    <2>3. CASE o = Failed(Cleared(S), Left(S))
      <3>1. o \in Outcome /\ o.m = Cleared(S) /\ o.d = Left(S)
        BY <2>2, <2>3, FailedIs
      <3> QED BY <3>1, <1>2, <1>3
    <2>4. CASE o = Refused(Cleared(S), Left(S))
      <3>1. o \in Outcome /\ o.m = Cleared(S) /\ o.d = Left(S)
        BY <2>2, <2>4, RefusedIs
      <3> QED BY <3>1, <1>2, <1>3
    <2> QED BY <2>1, <2>3, <2>4
  <1> QED BY <1>5, <1>6, <1>7

LEMMA FreshIdIs ==
    ASSUME NEW m, mgr \in Memory, docker \in Host
    PROVE  FreshId(m) \in 1 .. 5 /\ FreshId(m) # mgr.seen[1]
  <1> DEFINE used == {m.cid, mgr.cid, mgr.seen[1], docker.broker.id}
  <1>1. \E i \in 1 .. 5 : i \notin used
    BY SMT
  <1>2. FreshId(m) \in 1 .. 5 /\ FreshId(m) \notin used
    BY <1>1 DEF FreshId
  <1> QED BY <1>2

LEMMA CreateIs ==
    ASSUME mgr \in Memory, docker \in Host,
           NEW m \in Memory, NEW d \in Host, NEW initial, NEW o \in Create(m, d, initial),
           m.synced = NoAck
    PROVE  /\ o \in Outcome /\ SameGrants(m, o.m) /\ o.m.synced = NoAck
           /\ \/ o.d.broker = d.broker
              \/ o.d.broker.served = NoRegistry /\ o.d.broker.id # 0
           /\ o.ok => o.d.broker.served = NoRegistry /\ o.m.seen # mgr.seen
  <1> DEFINE id == FreshId(m)
             container == [NoContainer EXCEPT !.id = id, !.running = TRUE, !.attached = {initial}]
             created == [d EXCEPT !.broker = container]
             tracked == [m EXCEPT !.cid = id]
             lost == [m EXCEPT !.cid = 0]
             observed == [Forget(tracked) EXCEPT !.seen = <<id, 0>>]
  <1>1. id \in 1 .. 5 /\ id # mgr.seen[1]
    BY FreshIdIs
  <1>2. CASE initial \notin d.net
    <2>1. o = Refused(m, d)
      BY <1>2 DEF Create
    <2>2. o \in Outcome /\ o.m = m /\ o.d = d /\ ~o.ok
      BY <2>1, RefusedIs
    <2> QED BY <2>2 DEF SameGrants
  <1>3. CASE initial \in d.net
    <2> HIDE DEF id
    <2>1. initial \in Conversations
      BY <1>3, SMT DEF Host
    <2>2. container \in Container /\ container.served = NoRegistry /\ container.id = id
      <3> DEFINE c1 == [NoContainer EXCEPT !.id = id]
                 c2 == [c1 EXCEPT !.running = TRUE]
      <3>1. c1 \in Container /\ c1.served = NoRegistry /\ c1.id = id
        BY <1>1, Empties, SMT DEF Container
      <3>2. c2 \in Container /\ c2.served = NoRegistry /\ c2.id = id
        <4>1. ASSUME NEW k \in BOOLEAN
              PROVE  LET x == [c1 EXCEPT !.running = k]
                     IN x \in Container /\ x.served = c1.served /\ x.id = c1.id
          <5> HIDE DEF c1
          <5> QED BY <3>1, SMT DEF Container
        <4> QED BY <3>1, <4>1
      <3>3. container = [c2 EXCEPT !.attached = {initial}]
        OBVIOUS
      <3> HIDE DEF c2, container
      <3> QED BY <3>2, <3>3, <2>1, SMT DEF Container
    <2> HIDE DEF container
    <2>3. created \in Host /\ created.broker = container
      BY <2>2, SetBroker
    <2>4. id \in 0 .. 5 /\ 0 \in 0 .. 5 /\ id # 0
      BY <1>1, SMT
    <2>5. tracked \in Memory /\ SameGrants(m, tracked) /\ tracked.synced = m.synced
      BY <2>4, SetCid
    <2>6. lost \in Memory /\ SameGrants(m, lost) /\ lost.synced = m.synced
      BY <2>4, SetCid
    <2> HIDE DEF created, tracked, lost
    <2>7. /\ observed \in Memory /\ SameGrants(m, observed) /\ observed.synced = NoAck
          /\ observed.seen = <<id, 0>>
      <3>1. <<id, 0>> \in (0 .. 5) \X {0, 1}
        BY <2>4, SMT
      <3>2. Forget(tracked) \in Memory /\ SameGrants(tracked, Forget(tracked)) /\ Forget(tracked).synced = NoAck
        BY <2>5, ForgetIs
      <3>3. /\ observed \in Memory /\ observed.seen = <<id, 0>> /\ observed.synced = Forget(tracked).synced
            /\ SameGrants(Forget(tracked), observed)
        BY <3>1, <3>2, SetSeen
      <3> HIDE DEF observed
      <3> QED BY <2>5, <3>2, <3>3 DEF SameGrants
    <2> HIDE DEF observed
    <2>8. observed.seen # mgr.seen
      BY <2>7, <1>1, SMT
    <2>9. \/ o = Sure(observed, created)
          \/ o = Failed(m, d) \/ o = Failed(m, created) \/ o = Failed(lost, d)
          \/ o = Failed(tracked, created)
      BY <1>3 DEF Create, observed, created, container, lost, tracked, id
    <2>10. created.broker.served = NoRegistry /\ created.broker.id # 0
      BY <2>2, <2>3, <2>4
    <2>11. CASE o = Sure(observed, created)
      <3>1. o \in Outcome /\ o.m = observed /\ o.d = created
        BY <2>11, <2>3, <2>7, SureIs
      <3> QED BY <3>1, <2>7, <2>8, <2>10
    <2>12. CASE o = Failed(m, d) \/ o = Failed(m, created) \/ o = Failed(lost, d)
                  \/ o = Failed(tracked, created)
      <3>1. SameGrants(m, m)
        BY DEF SameGrants
      <3>2. CASE o = Failed(m, d)
        BY <3>1, <3>2, FailedIs
      <3>3. CASE o = Failed(m, created)
        BY <3>1, <3>3, <2>3, <2>10, FailedIs
      <3>4. CASE o = Failed(lost, d)
        <4>1. o \in Outcome /\ o.m = lost /\ o.d = d /\ ~o.ok
          BY <3>4, <2>6, FailedIs
        <4> QED BY <4>1, <2>6
      <3>5. CASE o = Failed(tracked, created)
        <4>1. o \in Outcome /\ o.m = tracked /\ o.d = created /\ ~o.ok
          BY <3>5, <2>3, <2>5, FailedIs
        <4> QED BY <4>1, <2>5, <2>10
      <3> QED BY <2>12, <3>2, <3>3, <3>4, <3>5
    <2> QED BY <2>9, <2>11, <2>12
  <1> QED BY <1>2, <1>3

LEMMA ObserveIs ==
    ASSUME NEW m \in Memory, NEW d \in Host
    PROVE  /\ Observe(m, d) \in Memory /\ SameGrants(m, Observe(m, d))
           /\ Observe(m, d).cid = m.cid
           /\ Observe(m, d).seen = <<d.broker.id, d.broker.start>>
           /\ Observe(m, d) = m \/ Observe(m, d).synced = NoAck
  <1> DEFINE generation == <<d.broker.id, d.broker.start>>
             n == [Forget(m) EXCEPT !.seen = generation]
  <1>1. generation \in (0 .. 5) \X {0, 1}
    BY SMT DEF Host, Container
  <1> HIDE DEF generation
  <1>2. /\ Forget(m) \in Memory /\ SameGrants(m, Forget(m)) /\ Forget(m).cid = m.cid
        /\ Forget(m).synced = NoAck
    BY ForgetIs
  <1>3. /\ n \in Memory /\ n.seen = generation /\ SameGrants(Forget(m), n)
        /\ n.cid = Forget(m).cid /\ n.synced = Forget(m).synced
    BY <1>1, <1>2, SetSeen
  <1>4. Observe(m, d) = IF m.seen = generation THEN m ELSE n
    BY DEF Observe, generation
  <1> HIDE DEF n
  <1>5. SameGrants(m, n) /\ SameGrants(m, m)
    BY <1>2, <1>3 DEF SameGrants
  <1>6. generation = <<d.broker.id, d.broker.start>>
    BY DEF generation
  <1> QED BY <1>2, <1>3, <1>4, <1>5, <1>6

\* A container that serves nothing was made, or the call raised.
MadeAnew(o) ==
    /\ o \in Outcome /\ SameGrants(mgr, o.m) /\ o.m.synced = NoAck /\ Gone(o.d)
    /\ o.ok => o.d.broker.served = NoRegistry /\ o.m.seen # mgr.seen

\* The second call of AndThen, where it is Create
Then(q, initial, o) ==
    \/ q.ok /\ \E p \in Create(q.m, q.d, initial) : o = [p EXCEPT !.cost = @ + q.cost]
    \/ ~q.ok /\ o = q

LEMMA ThenCreate ==
    ASSUME NEW X, NEW initial, NEW o \in AndThen(X, LAMBDA x, y : Create(x, y, initial))
    PROVE  \E q \in X : Then(q, initial, o)
  <1>1. PICK q \in X :
          o \in IF q.ok THEN {[p EXCEPT !.cost = @ + q.cost] : p \in Create(q.m, q.d, initial)}
                ELSE {q}
    BY DEF AndThen, Affordable
  <1> QED BY <1>1 DEF Then

LEMMA Anew ==
    ASSUME mgr \in Memory, docker \in Host,
           NEW q \in Outcome, q.m.synced = NoAck, SameGrants(mgr, q.m), q.ok => q.d.broker.id = 0,
           Gone(q.d), NEW initial, NEW o, Then(q, initial, o)
    PROVE  MadeAnew(o)
  <1>1. q.m \in Memory /\ q.d \in Host /\ q.cost \in Nat
    BY DEF Outcome
  <1>2. CASE ~q.ok /\ o = q
    BY <1>2 DEF MadeAnew
  <1>3. CASE q.ok /\ \E p \in Create(q.m, q.d, initial) : o = [p EXCEPT !.cost = @ + q.cost]
    <2>1. PICK p \in Create(q.m, q.d, initial) : o = [p EXCEPT !.cost = @ + q.cost]
      BY <1>3
    <2>2. /\ p \in Outcome /\ SameGrants(q.m, p.m) /\ p.m.synced = NoAck
          /\ \/ p.d.broker = q.d.broker
             \/ p.d.broker.served = NoRegistry /\ p.d.broker.id # 0
          /\ p.ok => p.d.broker.served = NoRegistry /\ p.m.seen # mgr.seen
      BY <1>1, CreateIs
    <2>3. Gone(p.d)
      BY <2>2 DEF Gone
    <2>4. o \in Outcome /\ o.m = p.m /\ o.d = p.d /\ (o.ok <=> p.ok)
      BY <1>1, <2>1, <2>2, Costs
    <2> QED BY <2>2, <2>3, <2>4 DEF SameGrants, MadeAnew
  <1> QED BY <1>2, <1>3 DEF Then

LEMMA AnewAfterRemoval ==
    ASSUME mgr \in Memory, docker \in Host, Gone(docker),
           NEW q \in Decommission(mgr, docker), NEW initial, NEW o, Then(q, initial, o)
    PROVE  MadeAnew(o)
  <1>1. q \in Outcome /\ Blank(mgr, q.m) /\ Removed(docker, q.d) /\ (q.ok => q.d.broker = NoContainer)
    BY DecommissionIs
  <1>2. NoContainer.id = 0 /\ NoContainer.running = FALSE
    BY Empties
  <1>3. Gone(q.d) /\ (q.ok => q.d.broker.id = 0)
    BY <1>1, <1>2 DEF Gone, Removed
  <1>4. q.m.synced = NoAck /\ SameGrants(mgr, q.m)
    BY <1>1 DEF Blank
  <1> QED BY <1>1, <1>3, <1>4, Anew

\* _ensure_container: the container the manager tracks, observed; or one that serves
\* nothing; or it raised.
Ensured(o) ==
    /\ o \in Outcome /\ SameGrants(mgr, o.m) /\ Gone(o.d)
    /\ o.m.synced = NoAck \/ (o.m = mgr /\ o.d = docker)
    /\ o.ok => \/ o.d.broker.served = NoRegistry /\ o.m.seen # mgr.seen
               \/ /\ o.d = docker /\ docker.broker.running
                  /\ o.m.cid = mgr.cid
                  /\ o.m.seen = <<docker.broker.id, docker.broker.start>>

LEMMA EnsureContainerIs ==
    ASSUME mgr \in Memory, docker \in Host, Gone(docker),
           NEW initial, NEW o \in EnsureContainer(mgr, docker, initial)
    PROVE  Ensured(o)
  <1>1. ASSUME MadeAnew(o) PROVE Ensured(o)
    BY <1>1 DEF MadeAnew, Ensured
  <1>2. CASE docker.broker.id = 0
    <2>1. PICK q \in ReconcileAbsent(mgr, docker) : Then(q, initial, o)
      <3>1. o \in AndThen(ReconcileAbsent(mgr, docker), LAMBDA x, y : Create(x, y, initial))
        BY <1>2 DEF EnsureContainer
      <3> QED BY <3>1, ThenCreate
    <2>2. q \in Outcome /\ Blank(mgr, q.m) /\ q.d.broker = docker.broker
      BY ReconcileAbsentIs
    <2>3. q.m.synced = NoAck /\ SameGrants(mgr, q.m) /\ Gone(q.d) /\ q.d.broker.id = 0
      BY <1>2, <2>2 DEF Blank, Gone
    <2>4. MadeAnew(o)
      BY <2>1, <2>2, <2>3, Anew
    <2> QED BY <1>1, <2>4
  <1>3. CASE docker.broker.id # 0 /\ (mgr.cid # docker.broker.id \/ ~docker.broker.running)
    <2>1. PICK q \in Decommission(mgr, docker) : Then(q, initial, o)
      <3>1. o \in AndThen(Decommission(mgr, docker), LAMBDA x, y : Create(x, y, initial))
        BY <1>3 DEF EnsureContainer
      <3> QED BY <3>1, ThenCreate
    <2> QED BY <1>1, <2>1, AnewAfterRemoval
  <1>4. CASE docker.broker.id # 0 /\ mgr.cid = docker.broker.id /\ docker.broker.running
    <2>1. \/ o = Sure(Observe(mgr, docker), docker)
          \/ o = Failed(mgr, docker)
          \/ \E q \in Decommission(mgr, docker) : \E p : Then(q, initial, p) /\ o = [p EXCEPT !.cost = @ + 1]
      <3>1. \/ o = Sure(Observe(mgr, docker), docker)
            \/ o = Failed(mgr, docker)
            \/ o \in AndThen({Result(mgr, docker, TRUE, 1)},
                             LAMBDA u, v : AndThen(Decommission(u, v),
                                                   LAMBDA x, y : Create(x, y, initial)))
        BY <1>4 DEF EnsureContainer
      <3>2. ASSUME NEW p \in AndThen(Decommission(mgr, docker), LAMBDA x, y : Create(x, y, initial))
            PROVE  \E q \in Decommission(mgr, docker) : Then(q, initial, p)
        BY ThenCreate
      <3>3. ASSUME o \in AndThen({Result(mgr, docker, TRUE, 1)},
                             LAMBDA u, v : AndThen(Decommission(u, v),
                                                   LAMBDA x, y : Create(x, y, initial)))
            PROVE  \E p \in AndThen(Decommission(mgr, docker), LAMBDA x, y : Create(x, y, initial)) :
                      o = [p EXCEPT !.cost = @ + 1]
        <4> DEFINE a == Result(mgr, docker, TRUE, 1)
        <4>1. a.ok /\ a.m = mgr /\ a.d = docker /\ a.cost = 1
          BY SMT DEF Result
        <4>2. o \in IF a.ok THEN {[p EXCEPT !.cost = @ + a.cost] :
                                  p \in AndThen(Decommission(a.m, a.d), LAMBDA x, y : Create(x, y, initial))}
                    ELSE {a}
          BY <3>3 DEF AndThen, Affordable
        <4> HIDE DEF a
        <4> QED BY <4>1, <4>2
      <3> QED BY <3>1, <3>2, <3>3
    <2>2. CASE o = Sure(Observe(mgr, docker), docker)
      <3> DEFINE n == Observe(mgr, docker)
      <3>1. /\ n \in Memory /\ SameGrants(mgr, n) /\ n.cid = mgr.cid
            /\ n.seen = <<docker.broker.id, docker.broker.start>>
            /\ n = mgr \/ n.synced = NoAck
        BY ObserveIs
      <3> HIDE DEF n
      <3>2. o \in Outcome /\ o.m = n /\ o.d = docker
        BY <2>2, <3>1, SureIs DEF n
      <3> QED BY <1>4, <3>1, <3>2 DEF Ensured
    <2>3. CASE o = Failed(mgr, docker)
      <3>1. o \in Outcome /\ o.m = mgr /\ o.d = docker /\ ~o.ok
        BY <2>3, FailedIs
      <3> QED BY <3>1 DEF Ensured, SameGrants
    <2>4. CASE \E q \in Decommission(mgr, docker) : \E p : Then(q, initial, p) /\ o = [p EXCEPT !.cost = @ + 1]
      <3>0. PICK q \in Decommission(mgr, docker) :
                  \E p : Then(q, initial, p) /\ o = [p EXCEPT !.cost = @ + 1]
        BY <2>4
      <3>1. PICK p : Then(q, initial, p) /\ o = [p EXCEPT !.cost = @ + 1]
        BY <3>0
      <3>2. MadeAnew(p)
        BY <3>1, AnewAfterRemoval
      <3>3. p \in Outcome /\ 1 \in Nat
        BY <3>2, SMT DEF MadeAnew
      <3>4. o \in Outcome /\ o.m = p.m /\ o.d = p.d /\ (o.ok <=> p.ok)
        BY <3>1, <3>3, Costs
      <3>5. MadeAnew(o)
        BY <3>2, <3>4 DEF MadeAnew
      <3> QED BY <1>1, <3>5
    <2> QED BY <2>1, <2>2, <2>3, <2>4
  <1> QED BY <1>2, <1>3, <1>4

\* Outcomes that touch neither what is granted nor what is served
Aside(m, d, o) == o \in Outcome /\ SameMemory(m, o.m) /\ SameBroker(d, o.d)

LEMMA Alike ==
    ASSUME NEW m \in Memory, NEW d \in Host PROVE SameMemory(m, m) /\ SameBroker(d, d)
  BY DEF SameMemory, SameBroker

LEMMA AsideResults ==
    ASSUME NEW m, NEW d, NEW n, NEW e, SameMemory(m, n), SameBroker(d, e), NEW o,
           o = Sure(n, e) \/ o = Refused(n, e) \/ o = Failed(n, e) \/ o = Result(n, e, FALSE, 2)
    PROVE  Aside(m, d, o)
  <1>1. n \in Memory /\ e \in Host
    BY DEF SameMemory, SameBroker
  <1>2. CASE o = Sure(n, e)
    BY <1>1, <1>2, SureIs DEF Aside
  <1>3. CASE o = Refused(n, e)
    BY <1>1, <1>3, RefusedIs DEF Aside
  <1>4. CASE o = Failed(n, e)
    BY <1>1, <1>4, FailedIs DEF Aside
  <1>5. CASE o = Result(n, e, FALSE, 2)
    <2>1. o \in Outcome /\ o.m = n /\ o.d = e
      BY <1>1, <1>5, SMT DEF Result, Outcome
    <2> QED BY <2>1 DEF Aside
  <1> QED BY <1>2, <1>3, <1>4, <1>5

LEMMA ConnectIs ==
    ASSUME NEW d \in Host, NEW n \in Conversations
    PROVE  SameBroker(d, Connect(d, n)) /\ Connect(d, n) \in Host
  <1>1. d.broker.attached \cup {n} \in SUBSET Conversations
    BY SMT DEF Host, Container
  <1>2. SameBroker(d, [d EXCEPT !.broker.attached = d.broker.attached \cup {n}])
    BY <1>1, SetAttached
  <1> QED BY <1>2 DEF Connect, SameBroker

LEMMA AddRuleIs ==
    ASSUME NEW d \in Host, NEW n \in Conversations
    PROVE  SameBroker(d, AddRule(d, n)) /\ AddRule(d, n) \in Host
  <1>1. d.rules \cup {n} \in SUBSET Conversations
    BY SMT DEF Host
  <1>2. SameBroker(d, [d EXCEPT !.rules = d.rules \cup {n}])
    BY <1>1, SetRules
  <1> QED BY <1>2 DEF AddRule, SameBroker

LEMMA DisconnectIs ==
    ASSUME NEW d \in Host, NEW S
    PROVE  SameBroker(d, Disconnect(d, S)) /\ Disconnect(d, S) \in Host
  <1>1. d.broker.attached \ S \in SUBSET Conversations
    BY SMT DEF Host, Container
  <1>2. SameBroker(d, [d EXCEPT !.broker.attached = d.broker.attached \ S])
    BY <1>1, SetAttached
  <1> QED BY <1>2 DEF Disconnect, SameBroker

LEMMA EnsureAccessIs ==
    ASSUME NEW m \in Memory, NEW d \in Host, NEW n, NEW o \in EnsureAccess(m, d, n)
    PROVE  Aside(m, d, o)
  <1> DEFINE known == [m EXCEPT !.ips = m.ips \cup {n}]
             joined == Connect(d, n)
  <1>1. SameMemory(m, m) /\ SameBroker(d, d)
    BY Alike
  <1>2. CASE n \notin d.net \/ ~d.broker.running
    <2>1. o = Refused(m, d)
      BY <1>2 DEF EnsureAccess
    <2> QED BY <1>1, <2>1, AsideResults
  <1>3. CASE n \in d.net /\ d.broker.running
    <2>1. n \in Conversations /\ m.ips \cup {n} \in SUBSET Conversations
      BY <1>3, SMT DEF Host, Memory
    <2>2. SameMemory(m, known)
      BY <2>1, SetIps
    <2>3. SameBroker(d, joined) /\ joined \in Host
      BY <2>1, ConnectIs
    <2>4. SameBroker(d, AddRule(d, n))
      BY <2>1, AddRuleIs
    <2> HIDE DEF known, joined
    <2>5. SameBroker(d, AddRule(joined, n))
      BY <2>1, <2>3, AddRuleIs DEF SameBroker
    <2>6. \E x \in {m, known}, e \in {d, joined, AddRule(d, n), AddRule(joined, n)} :
             o = Sure(x, e) \/ o = Failed(x, e) \/ o = Result(x, e, FALSE, 2)
      BY <1>3 DEF EnsureAccess, known, joined
    <2>7. PICK x \in {m, known}, e \in {d, joined, AddRule(d, n), AddRule(joined, n)} :
             o = Sure(x, e) \/ o = Failed(x, e) \/ o = Result(x, e, FALSE, 2)
      BY <2>6
    <2>8. SameMemory(m, x) /\ SameBroker(d, e)
      BY <1>1, <2>2, <2>3, <2>4, <2>5
    <2> QED BY <2>7, <2>8, AsideResults
  <1> QED BY <1>2, <1>3

LEMMA PruneIs ==
    ASSUME NEW m \in Memory, NEW d \in Host, NEW o \in Prune(m, d)
    PROVE  Aside(m, d, o)
  <1> DEFINE Out(S) == [m EXCEPT !.ips = m.ips \ S]
             Cut(S) == Disconnect(RemoveRules(d, S), S)
  <1>1. SameMemory(m, m) /\ SameBroker(d, d)
    BY Alike
  <1>2. \A S : SameMemory(m, Out(S))
    <2> SUFFICES ASSUME NEW S PROVE SameMemory(m, Out(S))
      OBVIOUS
    <2>1. m.ips \ S \in SUBSET Conversations
      BY SMT DEF Memory
    <2> QED BY <2>1, SetIps
  <1>3. \A S : SameBroker(d, Cut(S))
    <2> SUFFICES ASSUME NEW S PROVE SameBroker(d, Cut(S))
      OBVIOUS
    <2>1. SameBroker(d, RemoveRules(d, S)) /\ RemoveRules(d, S) \in Host
      BY RemoveRulesIs DEF SameBroker
    <2>2. SameBroker(RemoveRules(d, S), Cut(S))
      BY <2>1, DisconnectIs
    <2> QED BY <2>1, <2>2 DEF SameBroker
  <1> HIDE DEF Out, Cut
  <1>4. o = Sure(m, d) \/ \E S : o = Sure(Out(S), Cut(S)) \/ o = Failed(Out(S), Cut(S))
    BY DEF Prune, Out, Cut
  <1>5. CASE o = Sure(m, d)
    BY <1>1, <1>5, AsideResults
  <1>6. CASE \E S : o = Sure(Out(S), Cut(S)) \/ o = Failed(Out(S), Cut(S))
    BY <1>2, <1>3, <1>6, AsideResults
  <1> QED BY <1>4, <1>5, <1>6

\* _sync_registry for tenant t: of the other tenants nothing changes; what is
\* acknowledged for t is served; and a call that returned has told the broker, or
\* it had been told before.
Synced(m, d, t, B, skip, o) ==
    /\ o \in Outcome /\ SameGrants(m, o.m) /\ o.m.cid = m.cid /\ o.m.seen = m.seen
    /\ \A u \in Tenants : u # t => o.m.synced[u] = m.synced[u]
    /\ o.d.broker.id = d.broker.id /\ o.d.broker.start = d.broker.start
    /\ o.d.broker.running = d.broker.running
    /\ \A b \in Bindings : Owner[b] # t => o.d.broker.served[b] = d.broker.served[b]
    /\ \A u : u # t /\ u \in d.broker.doubt => u \in o.d.broker.doubt
    /\ \/ o.m = m /\ o.d = d
       \/ o.m.synced[t] = NoRegistry
       \/ o.m.synced[t] = Payload(B, t) /\ Payload(o.d.broker.served, t) = Payload(B, t)
    /\ o.ok => \/ o.m = m /\ o.d = d /\ skip /\ m.synced[t] = Payload(B, t) /\ m.synced[t] # NoRegistry
               \/ \A b \in Bindings : Owner[b] = t => o.d.broker.served[b] = B[b]

SetAcked(m, t, B) == [m EXCEPT !.synced[t] = B]

LEMMA SetAck ==
    ASSUME NEW m \in Memory, NEW t \in Tenants, NEW B \in Registry
    PROVE  LET n == SetAcked(m, t, B)
           IN /\ n \in Memory /\ SameGrants(m, n) /\ n.cid = m.cid /\ n.seen = m.seen
              /\ \A u \in Tenants : u # t => n.synced[u] = m.synced[u]
              /\ n.synced[t] = B
  <1> DEFINE a == [m.synced EXCEPT ![t] = B]
  <1>1. m.synced \in [Tenants -> Registry]
    BY DEF Memory
  <1>2. /\ a \in [Tenants -> Registry] /\ a[t] = B
        /\ \A u \in Tenants : u # t => a[u] = m.synced[u]
    BY <1>1
  <1> DEFINE n == [m EXCEPT !.synced = a]
  <1>3. SetAcked(m, t, B) = n
    BY DEF SetAcked
  <1> HIDE DEF a
  <1>4. n \in Memory /\ SameGrants(m, n) /\ n.cid = m.cid /\ n.seen = m.seen /\ n.synced = a
    BY <1>2, SetSynced
  <1> HIDE DEF n
  <1> QED BY <1>2, <1>3, <1>4

LEMMA ReplaceIs ==
    ASSUME NEW d \in Host, NEW t \in Tenants, NEW p \in Registry
    PROVE  LET e == ReplaceTenantRegistry(d, t, p)
           IN /\ e \in Host
              /\ e.broker.id = d.broker.id /\ e.broker.start = d.broker.start
              /\ e.broker.running = d.broker.running /\ e.broker.doubt = d.broker.doubt
              /\ \A b \in Bindings : Owner[b] # t => e.broker.served[b] = d.broker.served[b]
              /\ \A b \in Bindings : Owner[b] = t => e.broker.served[b] = p[b]
  <1> DEFINE M == Merge(d.broker.served, p, t)
             e == [d EXCEPT !.broker.served = M]
  <1>1. d.broker.served \in Registry
    BY DEF Host, Container
  <1>2. /\ M \in Registry
        /\ \A b \in Bindings : M[b] = IF Owner[b] = t THEN p[b] ELSE d.broker.served[b]
    BY <1>1, MergeIs, SMT
  <1>3. ReplaceTenantRegistry(d, t, p) = e
    BY DEF ReplaceTenantRegistry, Merge
  <1> HIDE DEF M
  <1>4. /\ e \in Host
        /\ e.broker.id = d.broker.id /\ e.broker.start = d.broker.start
        /\ e.broker.running = d.broker.running /\ e.broker.doubt = d.broker.doubt
        /\ e.broker.served = M
    BY <1>2, SetServed
  <1> HIDE DEF e
  <1> QED BY <1>2, <1>3, <1>4

LEMMA SyncIs ==
    ASSUME NEW m \in Memory, NEW d \in Host, NEW t \in Tenants, NEW B \in Registry,
           NEW skip, NEW o \in SyncRegistry(m, d, t, B, skip)
    PROVE  Synced(m, d, t, B, skip, o)
  <1> DEFINE p == Payload(B, t)
             unacked == SetAcked(m, t, NoRegistry)
             acked == SetAcked(m, t, p)
             applied == ReplaceTenantRegistry(d, t, p)
             settled == [applied EXCEPT !.broker.doubt = applied.broker.doubt \ {t}]
  <1>1. /\ p \in Registry
        /\ \A b \in Bindings : p[b] = IF Owner[b] = t THEN B[b] ELSE NoBinding
    BY PayloadIs
  <1> HIDE DEF p
  <1>2. /\ unacked \in Memory /\ SameGrants(m, unacked) /\ unacked.cid = m.cid
        /\ unacked.seen = m.seen /\ (\A u \in Tenants : u # t => unacked.synced[u] = m.synced[u])
        /\ unacked.synced[t] = NoRegistry
    <2>1. NoRegistry \in Registry
      BY Empties
    <2> QED BY <2>1, SetAck, SMT
  <1>3. /\ acked \in Memory /\ SameGrants(m, acked) /\ acked.cid = m.cid
        /\ acked.seen = m.seen /\ (\A u \in Tenants : u # t => acked.synced[u] = m.synced[u])
        /\ acked.synced[t] = p
    BY <1>1, SetAck, SMT
  <1>4. /\ applied \in Host
        /\ applied.broker.id = d.broker.id /\ applied.broker.start = d.broker.start
        /\ applied.broker.running = d.broker.running /\ applied.broker.doubt = d.broker.doubt
        /\ \A b \in Bindings : Owner[b] # t => applied.broker.served[b] = d.broker.served[b]
        /\ \A b \in Bindings : Owner[b] = t => applied.broker.served[b] = p[b]
    BY <1>1, ReplaceIs
  <1> HIDE DEF unacked, acked, applied
  <1>5. applied.broker.doubt \ {t} \in SUBSET Tenants
    BY <1>4, SMT DEF Host, Container
  <1>6. /\ settled \in Host
        /\ settled.broker.id = applied.broker.id /\ settled.broker.start = applied.broker.start
        /\ settled.broker.running = applied.broker.running
        /\ settled.broker.served = applied.broker.served
        /\ settled.broker.doubt = applied.broker.doubt \ {t}
    BY <1>4, <1>5, SetDoubt
  <1> HIDE DEF settled
  <1>7. \/ o = Refused(m, d)
        \/ o = Sure(m, d) /\ skip /\ p # NoRegistry /\ m.synced[t] = p
        \/ o = Refused(unacked, d) \/ o = Sure(acked, settled)
        \/ o = Failed(unacked, d) \/ o = Failed(unacked, applied)
    BY DEF SyncRegistry, SetAcked, p, unacked, acked, applied, settled
  <1>8. SameGrants(m, m)
    BY DEF SameGrants
  <1>9. CASE o = Refused(m, d)
    <2>1. o \in Outcome /\ o.m = m /\ o.d = d /\ ~o.ok
      BY <1>9, RefusedIs
    <2> QED BY <1>8, <2>1 DEF Synced
  <1>10. CASE o = Sure(m, d) /\ skip /\ p # NoRegistry /\ m.synced[t] = p
    <2>1. o \in Outcome /\ o.m = m /\ o.d = d /\ o.ok
      BY <1>10, SureIs
    <2> QED BY <1>8, <1>10, <2>1 DEF Synced, p
  <1>11. CASE o = Refused(unacked, d) \/ o = Failed(unacked, d)
    <2>1. o \in Outcome /\ o.m = unacked /\ o.d = d /\ ~o.ok
      <3>1. CASE o = Refused(unacked, d)
        BY <1>2, <3>1, RefusedIs
      <3>2. CASE o = Failed(unacked, d)
        BY <1>2, <3>2, FailedIs
      <3> QED BY <1>11, <3>1, <3>2
    <2> QED BY <1>2, <2>1 DEF Synced
  <1>12. CASE o = Failed(unacked, applied)
    <2>1. o \in Outcome /\ o.m = unacked /\ o.d = applied /\ ~o.ok
      BY <1>2, <1>4, <1>12, FailedIs
    <2> QED BY <1>2, <1>4, <2>1 DEF Synced
  <1>13. CASE o = Sure(acked, settled)
    <2>1. o \in Outcome /\ o.m = acked /\ o.d = settled
      BY <1>3, <1>6, <1>13, SureIs
    <2>2. \A b \in Bindings : Owner[b] = t => settled.broker.served[b] = B[b]
      BY <1>1, <1>4, <1>6
    <2>3. Payload(settled.broker.served, t) = Payload(B, t)
      BY <2>2 DEF Payload
    <2> QED BY <1>3, <1>4, <1>6, <2>1, <2>2, <2>3 DEF Synced, p
  <1> QED BY <1>7, <1>9, <1>10, <1>11, <1>12, <1>13

-----------------------------------------------------------------------------
(* The invariant of an operation *)

LEMMA KnowsFrame ==
    ASSUME NEW m, NEW n, NEW d, NEW e, SameMemory(m, n), SameBroker(d, e)
    PROVE  /\ Knows(n, e) <=> Knows(m, d)
           /\ Current(n, e) <=> Current(m, d)
           /\ Gone(e) <=> Gone(d)
           /\ Acks(n, e) <=> Acks(m, d)
           /\ \A b : Good(n, e, b) <=> Good(m, d, b)
  <1>1. /\ n.bindings = m.bindings /\ n.active = m.active /\ n.cid = m.cid
        /\ n.seen = m.seen /\ n.synced = m.synced
    BY DEF SameMemory
  <1>2. /\ e.broker.id = d.broker.id /\ e.broker.start = d.broker.start
        /\ e.broker.running = d.broker.running /\ e.broker.served = d.broker.served
        /\ e.broker.doubt = d.broker.doubt
    BY DEF SameBroker
  <1>3. Knows(n, e) <=> Knows(m, d)
    BY <1>1, <1>2 DEF Knows
  <1>4. Current(n, e) <=> Current(m, d)
    BY <1>1, <1>2 DEF Current
  <1>5. Gone(e) <=> Gone(d)
    BY <1>2 DEF Gone
  <1>6. Acks(n, e) <=> Acks(m, d)
    BY <1>1, <1>2, <1>4 DEF Acks
  <1>7. \A b : Good(n, e, b) <=> Good(m, d, b)
    BY <1>1, <1>2 DEF Good, Granted
  <1> QED BY <1>3, <1>4, <1>5, <1>6, <1>7

\* Steps beside the operation keep what it has established.
LEMMA Frame ==
    ASSUME NEW m, NEW n, NEW d, NEW e, SameMemory(m, n), SameBroker(d, e),
           NEW o, OpInv(m, d, o)
    PROVE  OpInv(n, e, o)
  <1>1. /\ Knows(n, e) <=> Knows(m, d)
        /\ Current(n, e) <=> Current(m, d)
        /\ Gone(e) <=> Gone(d)
        /\ Acks(n, e) <=> Acks(m, d)
        /\ \A b : Good(n, e, b) <=> Good(m, d, b)
    BY KnowsFrame
  <1>2. n.bindings = m.bindings /\ n.active = m.active /\ e.broker.served = d.broker.served
    BY DEF SameMemory, SameBroker
  <1>3. Serves(n, e, o)
    BY <1>1 DEF OpInv, Serves
  <1>4. Applying(n, e, o)
    BY <1>1, <1>2 DEF OpInv, Applying
  <1>5. RollingBack(n, o)
    BY <1>2 DEF OpInv, RollingBack
  <1> QED BY <1>1, <1>3, <1>4, <1>5 DEF OpInv

\* When no operation is under way, everything served is good.
LEMMA Quieted ==
    ASSUME NEW m, NEW d
    PROVE  OpInv(m, d, NoOp) <=>
             Gone(d) /\ Acks(m, d) /\ (Knows(m, d) => \A b \in Bindings : Good(m, d, b))
  <1>1. NoOp.phase = "none" /\ NoOp.kind = "none"
    BY DEF NoOp
  <1>2. Told(NoOp) /\ ~Ending(NoOp)
    BY <1>1 DEF Told, Ending
  <1>3. Applying(m, d, NoOp) /\ RollingBack(m, NoOp)
    BY <1>1 DEF Applying, RollingBack
  <1> QED BY <1>2, <1>3 DEF OpInv, Serves

\* An operation that will remove the broker has nothing else to keep.
LEMMA Ended ==
    ASSUME NEW m, NEW d, Gone(d), Acks(m, d), NEW o, Ending(o), o.kind # "rollback"
    PROVE  OpInv(m, d, o)
  <1>1. Serves(m, d, o)
    BY DEF Serves
  <1>2. o.phase \notin {"ensure", "access", "sync"}
    BY DEF Ending
  <1>3. Applying(m, d, o) /\ RollingBack(m, o)
    BY <1>2 DEF Applying, RollingBack
  <1> QED BY <1>1, <1>3 DEF OpInv

\* Nothing is certainly served: what the manager grants does not matter.
Unsure(m, d) ==
    Knows(m, d) => \A b \in Bindings : d.broker.served[b] = NoBinding \/ Owner[b] \in d.broker.doubt

LEMMA NoAcks ==
    ASSUME NEW m, NEW d, m.synced = NoAck PROVE Acks(m, d)
  BY Empties DEF Acks

LEMMA UnsureQuiets ==
    ASSUME NEW m, NEW d, Gone(d), Acks(m, d), Unsure(m, d) PROVE OpInv(m, d, NoOp)
  BY Quieted DEF Unsure, Good

\* After _decommission nothing is certainly served.
LEMMA RemovedIsUnsure ==
    ASSUME NEW d \in Host, NEW e \in Host, NEW m, Removed(d, e), Gone(d)
    PROVE  Gone(e) /\ Unsure(m, e)
  <1>1. CASE e.broker = NoContainer
    BY <1>1, Empties DEF Gone, Unsure, Knows
  <1>2. CASE /\ e.broker.id = d.broker.id /\ e.broker.running = d.broker.running
             /\ e.broker.doubt = Tenants
    <2>1. \A b \in Bindings : Owner[b] \in Tenants
      BY OwnersAreTenants
    <2> QED BY <1>2, <2>1 DEF Gone, Unsure
  <1> QED BY <1>1, <1>2 DEF Removed

LEMMA DecommissionQuiets ==
    ASSUME NEW m \in Memory, NEW d \in Host, Gone(d), NEW o \in Decommission(m, d)
    PROVE  /\ o \in Outcome /\ SameGrants(m, o.m)
           /\ Gone(o.d) /\ Acks(o.m, o.d) /\ Unsure(o.m, o.d)
           /\ OpInv(o.m, o.d, NoOp)
  <1>1. o \in Outcome /\ Blank(m, o.m) /\ Removed(d, o.d)
    BY DecommissionIs
  <1>2. o.m \in Memory /\ o.d \in Host
    BY <1>1 DEF Outcome
  <1>3. Gone(o.d) /\ Unsure(o.m, o.d)
    BY <1>1, <1>2, RemovedIsUnsure
  <1>4. Acks(o.m, o.d) /\ SameGrants(m, o.m)
    BY <1>1, NoAcks DEF Blank
  <1> QED BY <1>1, <1>3, <1>4, UnsureQuiets

LEMMA ReconcileQuiets ==
    ASSUME NEW m \in Memory, NEW d \in Host, Gone(d), d.broker.id = 0,
           NEW o \in ReconcileAbsent(m, d)
    PROVE  o \in Outcome /\ OpInv(o.m, o.d, NoOp)
  <1>1. o \in Outcome /\ Blank(m, o.m) /\ o.d.broker = d.broker
    BY ReconcileAbsentIs
  <1>2. Gone(o.d) /\ Unsure(o.m, o.d)
    BY <1>1 DEF Gone, Unsure, Knows
  <1>3. Acks(o.m, o.d)
    BY <1>1, NoAcks DEF Blank
  <1> QED BY <1>1, <1>2, <1>3, UnsureQuiets

-----------------------------------------------------------------------------
(* The steps of an operation *)

LEMMA IdleIs == HopOK(Idle)
  <1>1. DOMAIN Idle = HopFields /\ Idle.prep = NoReturn /\ Idle.ver = 0
    BY SMT DEF Idle, HopFields
  <1>2. 0 \in Nat
    BY SMT
  <1> QED BY <1>1, <1>2, Empties DEF HopOK

\* Updates of a record of hop that keep prep and ver
LEMMA SetHop ==
    ASSUME NEW h, HopOK(h), NEW x, NEW y
    PROVE  /\ HopOK([h EXCEPT !.phase = x])
           /\ HopOK([h EXCEPT !.phase = x, !.err = y])
           /\ HopOK([h EXCEPT !.phase = x, !.reserved = y])
  <1>1. {"phase", "prep", "ver", "err", "reserved"} \subseteq HopFields
    BY DEF HopFields
  <1> QED BY <1>1 DEF HopOK

LEMMA ResumedIs ==
    ASSUME NEW f, HopOK(f), NEW r \in Returned
    PROVE  HopOK(Resumed(f, r))
  <1> DEFINE Went(phase) == [f EXCEPT !.phase = phase, !.err = f.err \/ ~(r.res = "ok")]
  <1>1. \A phase : HopOK(Went(phase))
    BY SetHop
  <1> HIDE DEF Went
  <1>2. HopOK([Went("run") EXCEPT !.prep = r])
    <2>1. HopOK(Went("run")) /\ {"prep", "ver"} \subseteq HopFields
      BY <1>1 DEF HopFields
    <2> QED BY <2>1 DEF HopOK
  <1>3. \/ Resumed(f, r) = Idle
        \/ Resumed(f, r) = [Went("run") EXCEPT !.prep = r]
        \/ \E phase : Resumed(f, r) = Went(phase)
    BY DEF Resumed, Went
  <1> QED BY <1>1, <1>2, <1>3, IdleIs

HopsOK(h) == DOMAIN h = Conversations /\ \A c \in Conversations : HopOK(h[c])

LEMMA SetOneHop ==
    ASSUME NEW h, HopsOK(h), NEW c \in Conversations, NEW x, HopOK(x)
    PROVE  HopsOK([h EXCEPT ![c] = x])
  BY DEF HopsOK

LEMMA ReturnIs ==
    ASSUME HopsOK(hop), bop \in Operation, NEW res \in {"ok", "error"}, Return(res)
    PROVE  HopsOK(hop') /\ bop' = NoOp
  <1> DEFINE r == [res |-> res, bindings |-> bop.bindings, active |-> bop.active]
  <1>1. r \in Returned
    BY SMT DEF Operation, Returned
  <1> HIDE DEF r
  <1>2. bop.by \in Conversations
    BY DEF Operation
  <1>3. HopOK(Resumed(hop[bop.by], r))
    BY <1>1, <1>2, ResumedIs DEF HopsOK
  <1>4. hop' = [hop EXCEPT ![bop.by] = Resumed(hop[bop.by], r)] /\ bop' = NoOp
    BY DEF Return, r
  <1> QED BY <1>2, <1>3, <1>4, SetOneHop

\* What a step of an operation has to show
StepOK ==
    /\ mgr' \in Memory /\ docker' \in Host /\ bop' \in Operation \cup {NoOp}
    /\ HopsOK(hop')
    /\ OpInv(mgr', docker', bop')

LEMMA InOperation ==
    ASSUME Types, bop.phase \in Phases PROVE bop \in Operation
  <1>1. NoOp.phase = "none"
    BY DEF NoOp
  <1>2. "none" \notin Phases
    BY DEF Phases
  <1> QED BY <1>1, <1>2 DEF Types

LEMMA TypesHold == ASSUME Types PROVE mgr \in Memory /\ docker \in Host /\ HopsOK(hop)
  BY DEF Types, HopsOK

\* The operation returns with the outcome o.
LEMMA Leaves ==
    ASSUME IInv, bop \in Operation, NEW o \in Outcome, OpInv(o.m, o.d, NoOp), Take(o),
           NEW res \in {"ok", "error"}, Return(res)
    PROVE  StepOK
  <1>1. HopsOK(hop') /\ bop' = NoOp
    BY TypesHold, ReturnIs DEF IInv
  <1>2. mgr' = o.m /\ docker' = o.d
    BY DEF Take
  <1>3. o.m \in Memory /\ o.d \in Host
    BY DEF Outcome
  <1> QED BY <1>1, <1>2, <1>3 DEF StepOK

LEMMA SetPhase ==
    ASSUME NEW o \in Operation, NEW phase \in Phases
    PROVE  LET p == [o EXCEPT !.phase = phase]
           IN /\ p \in Operation /\ p.phase = phase /\ p.kind = o.kind /\ p.t = o.t
              /\ p.by = o.by /\ p.nets = o.nets /\ p.tenants = o.tenants /\ p.skip = o.skip
              /\ p.bindings = o.bindings /\ p.active = o.active
  BY SMT DEF Operation

LEMMA NotRollback ==
    ASSUME IInv, bop.phase \notin {"deauthorize", "forget"} PROVE bop.kind # "rollback"
  BY DEF IInv, OpInv, RollingBack

\* The operation goes on to one of the phases that end with the broker's removal.
LEMMA GivesUp ==
    ASSUME IInv, bop \in Operation, bop.phase \notin {"deauthorize", "forget"},
           NEW n \in Memory, NEW e \in Host, Gone(e), Acks(n, e), mgr' = n, docker' = e,
           NEW phase \in {"restore", "closing", "remove"},
           bop' = [bop EXCEPT !.phase = phase], hop' = hop
    PROVE  StepOK
  <1> DEFINE p == [bop EXCEPT !.phase = phase]
  <1>1. phase \in Phases
    BY DEF Phases
  <1>2. p \in Operation /\ p.phase = phase /\ p.kind = bop.kind
    BY <1>1, SetPhase
  <1>3. bop' = p
    OBVIOUS
  <1> HIDE DEF p
  <1>4. Ending(p) /\ p.kind # "rollback"
    BY <1>2, NotRollback DEF Ending
  <1>5. OpInv(n, e, p)
    BY <1>4, Ended
  <1>6. HopsOK(hop)
    BY TypesHold DEF IInv
  <1> QED BY <1>2, <1>3, <1>5, <1>6 DEF StepOK

LEMMA ClosingOK ==
    ASSUME IInv, Closing PROVE StepOK
  <1>1. Types /\ Gone(docker) /\ mgr \in Memory /\ docker \in Host
    BY TypesHold DEF IInv, OpInv
  <1>2. bop \in Operation
    BY <1>1, InOperation DEF Closing, Phases
  <1>3. PICK o \in FailClosed(mgr, docker) : Take(o)
    BY DEF Closing
  <1>4. o \in Outcome /\ OpInv(o.m, o.d, NoOp)
    BY <1>1, DecommissionQuiets, ReconcileQuiets DEF FailClosed
  <1>5. Return("error")
    BY DEF Closing
  <1> QED BY <1>2, <1>3, <1>4, <1>5, Leaves

\* While the operation's own tenant is told of, everything served is good.
LEMMA ToldQuiets ==
    ASSUME IInv, Told(bop), ~Ending(bop) PROVE OpInv(mgr, docker, NoOp)
  BY Quieted DEF IInv, OpInv, Serves

LEMMA RemoveUnownedQuiets ==
    ASSUME IInv, NEW o \in RemoveUnowned(mgr, docker),
           OpInv(mgr, docker, NoOp) \/ ~Knows(mgr, docker)
    PROVE  o \in Outcome /\ OpInv(o.m, o.d, NoOp)
  <1>1. Gone(docker) /\ mgr \in Memory /\ docker \in Host
    BY TypesHold DEF IInv, OpInv
  <1>2. CASE docker.broker.id = 0
    BY <1>1, <1>2, ReconcileQuiets DEF RemoveUnowned
  <1>3. CASE docker.broker.id # 0 /\ mgr.cid # docker.broker.id
    BY <1>1, <1>3, DecommissionQuiets DEF RemoveUnowned
  <1>4. CASE docker.broker.id # 0 /\ mgr.cid = docker.broker.id
    <2>1. o = Sure(mgr, docker) /\ OpInv(mgr, docker, NoOp)
      BY <1>4 DEF RemoveUnowned, Knows
    <2> QED BY <1>1, <2>1, SureIs
  <1> QED BY <1>2, <1>3, <1>4

LEMMA UnownedOK ==
    ASSUME IInv, Unowned PROVE StepOK
  <1>1. bop \in Operation
    BY InOperation DEF Unowned, Phases, IInv
  <1>2. Told(bop) /\ ~Ending(bop)
    BY DEF Unowned, Told, Ending
  <1>3. PICK o \in RemoveUnowned(mgr, docker) : Take(o) /\ Return(IF o.ok THEN "ok" ELSE "error")
    BY DEF Unowned
  <1>4. o \in Outcome /\ OpInv(o.m, o.d, NoOp)
    BY <1>2, ToldQuiets, RemoveUnownedQuiets
  <1> QED BY <1>1, <1>3, <1>4, Leaves

LEMMA AbsentOK ==
    ASSUME IInv, Absent PROVE StepOK
  <1>1. bop \in Operation
    BY InOperation DEF Absent, Phases, IInv
  <1>2. Told(bop) /\ ~Ending(bop)
    BY DEF Absent, Told, Ending
  <1>3. PICK o \in (IF docker.broker.id = 0 THEN ReconcileAbsent(mgr, docker) ELSE {Sure(mgr, docker)}) :
            Take(o) /\ Return(IF o.ok THEN "ok" ELSE "error")
    BY DEF Absent
  <1>4. Gone(docker) /\ mgr \in Memory /\ docker \in Host /\ OpInv(mgr, docker, NoOp)
    BY <1>2, ToldQuiets, TypesHold DEF IInv, OpInv
  <1>5. o \in Outcome /\ OpInv(o.m, o.d, NoOp)
    <2>1. CASE docker.broker.id = 0
      BY <2>1, <1>3, <1>4, ReconcileQuiets
    <2>2. CASE docker.broker.id # 0
      <3>1. o = Sure(mgr, docker)
        BY <2>2, <1>3
      <3> QED BY <3>1, <1>4, SureIs
    <2> QED BY <2>1, <2>2
  <1> QED BY <1>1, <1>3, <1>5, Leaves

LEMMA RemoveContainerOK ==
    ASSUME IInv, RemoveContainer PROVE StepOK
  <1>1. bop \in Operation
    BY InOperation DEF RemoveContainer, Phases, IInv
  <1>2. PICK o \in (IF docker.broker.id = 0 THEN {Refused(Forget(mgr), docker)} ELSE Decommission(mgr, docker)) :
            Take(o) /\ Return(IF o.ok THEN "ok" ELSE "error")
    BY DEF RemoveContainer
  <1>3. Gone(docker) /\ mgr \in Memory /\ docker \in Host
    BY TypesHold DEF IInv, OpInv
  <1>4. o \in Outcome /\ OpInv(o.m, o.d, NoOp)
    <2>1. CASE docker.broker.id = 0
      <3>1. o = Refused(Forget(mgr), docker)
        BY <2>1, <1>2
      <3>2. Forget(mgr) \in Memory /\ Forget(mgr).synced = NoAck
        BY <1>3, ForgetIs
      <3>3. o \in Outcome /\ o.m = Forget(mgr) /\ o.d = docker
        BY <3>1, <3>2, <1>3, RefusedIs
      <3>4. Acks(o.m, o.d) /\ Gone(o.d) /\ Unsure(o.m, o.d)
        BY <1>3, <2>1, <3>2, <3>3, NoAcks DEF Unsure, Knows
      <3> QED BY <3>3, <3>4, UnsureQuiets
    <2>2. CASE docker.broker.id # 0
      BY <2>2, <1>2, <1>3, DecommissionQuiets
    <2> QED BY <2>1, <2>2
  <1> QED BY <1>1, <1>2, <1>4, Leaves

\* The memory of grants is replaced: what was acknowledged stays.
Regranted(m, n) == n \in Memory /\ n.cid = m.cid /\ n.seen = m.seen /\ n.synced = m.synced

Granting(m, B, A) == [m EXCEPT !.bindings = B, !.active = A]

LEMMA SetGrants ==
    ASSUME NEW m \in Memory, NEW B \in Registry, NEW A \in SUBSET Tenants
    PROVE  LET n == Granting(m, B, A)
           IN Regranted(m, n) /\ n.bindings = B /\ n.active = A
  <1> DEFINE p == [m EXCEPT !.bindings = B]
             n == [p EXCEPT !.active = A]
  <1>1. Regranted(m, p) /\ p.bindings = B
    BY SMT DEF Memory, Regranted
  <1>2. Granting(m, B, A) = n
    BY DEF Granting
  <1> HIDE DEF p
  <1>3. Regranted(p, n) /\ n.bindings = p.bindings /\ n.active = A
    BY <1>1, SMT DEF Memory, Regranted
  <1> HIDE DEF n
  <1> QED BY <1>1, <1>2, <1>3 DEF Regranted

Restored(m, t, B, active, n) ==
    /\ Regranted(m, n)
    /\ \A b \in Bindings : n.bindings[b] = IF Owner[b] = t THEN B[b] ELSE m.bindings[b]
    /\ n.active = IF active THEN m.active \cup {t} ELSE m.active \ {t}

LEMMA RestoreTenantIs ==
    ASSUME NEW m \in Memory, NEW t \in Tenants, NEW B \in Registry, NEW active \in BOOLEAN
    PROVE  Restored(m, t, B, active, RestoreTenant(m, t, B, active))
  <1> DEFINE M == Merge(m.bindings, B, t)
             A == IF active THEN m.active \cup {t} ELSE m.active \ {t}
             n == Granting(m, M, A)
  <1>1. m.bindings \in Registry /\ A \in SUBSET Tenants
    BY SMT DEF Memory
  <1>2. M \in Registry /\ \A b \in Bindings : M[b] = IF Owner[b] = t THEN B[b] ELSE m.bindings[b]
    BY <1>1, MergeIs, SMT
  <1>3. RestoreTenant(m, t, B, active) = n
    BY DEF RestoreTenant, Merge, Granting
  <1> HIDE DEF M, A
  <1>4. Regranted(m, n) /\ n.bindings = M /\ n.active = A
    BY <1>1, <1>2, SetGrants, SMT
  <1> HIDE DEF n
  <1>5. Restored(m, t, B, active, n)
    BY <1>2, <1>4 DEF A, Restored
  <1> QED BY <1>3, <1>5

LEMMA RegrantedFrame ==
    ASSUME NEW m, NEW n, NEW d, Regranted(m, n)
    PROVE  /\ Acks(m, d) => Acks(n, d)
           /\ Knows(n, d) <=> Knows(m, d)
           /\ Current(n, d) <=> Current(m, d)
           /\ Unsure(m, d) => Unsure(n, d)
  <1>1. n.cid = m.cid /\ n.seen = m.seen /\ n.synced = m.synced
    BY DEF Regranted
  <1>2. Knows(n, d) <=> Knows(m, d)
    BY <1>1 DEF Knows
  <1>3. Current(n, d) <=> Current(m, d)
    BY <1>1 DEF Current
  <1> QED BY <1>1, <1>2, <1>3 DEF Acks, Unsure

LEMMA RestoreOK ==
    ASSUME IInv, Restore PROVE StepOK
  <1>1. bop \in Operation
    BY InOperation DEF Restore, Phases, IInv
  <1>2. mgr \in Memory /\ docker \in Host /\ Gone(docker) /\ Acks(mgr, docker)
    BY TypesHold DEF IInv, OpInv
  <1>3. bop.t \in Tenants /\ bop.bindings \in Registry /\ bop.active \in BOOLEAN
    BY <1>1 DEF Operation
  <1> DEFINE n == RestoreTenant(mgr, bop.t, bop.bindings, bop.active)
  <1>4. Regranted(mgr, n)
    <2>1. Restored(mgr, bop.t, bop.bindings, bop.active, n)
      BY <1>2, <1>3, RestoreTenantIs
    <2> QED BY <2>1 DEF Restored
  <1>5. mgr' = n /\ docker' = docker /\ bop' = [bop EXCEPT !.phase = "closing"] /\ hop' = hop
    BY DEF Restore, Goto
  <1> HIDE DEF n
  <1>6. n \in Memory /\ Acks(n, docker)
    BY <1>2, <1>4, RegrantedFrame DEF Regranted
  <1>7. bop.phase \notin {"deauthorize", "forget"}
    BY DEF Restore
  <1> QED BY <1>1, <1>2, <1>5, <1>6, <1>7, GivesUp

\* An outcome beside what is granted and served, with which the operation gives up
LEMMA AsideGivesUp ==
    ASSUME IInv, bop \in Operation, bop.phase \notin {"deauthorize", "forget"},
           NEW o, Aside(mgr, docker, o), Take(o),
           NEW phase \in {"restore", "closing", "remove"},
           bop' = [bop EXCEPT !.phase = phase], hop' = hop
    PROVE  StepOK
  <1>1. SameMemory(mgr, o.m) /\ SameBroker(docker, o.d) /\ o.m \in Memory /\ o.d \in Host
    BY DEF Aside, SameMemory, SameBroker
  <1>2. Gone(o.d) /\ Acks(o.m, o.d)
    BY <1>1, KnowsFrame DEF IInv, OpInv
  <1>3. mgr' = o.m /\ docker' = o.d
    BY DEF Take
  <1> QED BY <1>1, <1>2, <1>3, GivesUp

LEMMA PruneOK ==
    ASSUME IInv, PruneNetworks PROVE StepOK
  <1>1. bop \in Operation
    BY InOperation DEF PruneNetworks, Phases, IInv
  <1>2. mgr \in Memory /\ docker \in Host
    BY TypesHold DEF IInv
  <1>3. PICK o \in Prune(mgr, docker) : Take(o) /\ IF o.ok THEN Return("ok") ELSE Goto("restore")
    BY DEF PruneNetworks
  <1>4. Aside(mgr, docker, o)
    BY <1>2, PruneIs
  <1>5. CASE o.ok
    <2>1. Told(bop) /\ ~Ending(bop)
      BY DEF PruneNetworks, Told, Ending
    <2>2. OpInv(mgr, docker, NoOp)
      BY <2>1, ToldQuiets
    <2>3. OpInv(o.m, o.d, NoOp) /\ o \in Outcome
      BY <1>4, <2>2, Frame DEF Aside
    <2> QED BY <1>1, <1>3, <1>5, <2>3, Leaves
  <1>6. CASE ~o.ok
    <2>1. bop.phase \notin {"deauthorize", "forget"}
      BY DEF PruneNetworks
    <2> QED BY <1>1, <1>3, <1>4, <1>6, <2>1, AsideGivesUp DEF Goto
  <1> QED BY <1>5, <1>6

-----------------------------------------------------------------------------
(* Networks and registries *)

LEMMA ContinueIs ==
    ASSUME NEW o \in Operation
    PROVE  LET p == Continue(o)
           IN /\ p \in Operation /\ p.kind = o.kind /\ p.t = o.t
              /\ p.nets = o.nets /\ p.tenants = o.tenants /\ p.skip = o.skip
              /\ o.nets # {} => p.phase = "access"
              /\ o.nets = {} /\ o.tenants # {} => p.phase = "sync"
              /\ o.nets = {} /\ o.tenants = {} => p.phase = "prune"
  <1> DEFINE ph == IF o.nets # {} THEN "access" ELSE IF o.tenants # {} THEN "sync" ELSE "prune"
             p == [o EXCEPT !.phase = ph]
  <1>1. ph \in Phases
    BY DEF Phases
  <1>2. Continue(o) = p
    BY DEF Continue
  <1> HIDE DEF ph
  <1>3. /\ p \in Operation /\ p.phase = ph /\ p.kind = o.kind /\ p.t = o.t
        /\ p.nets = o.nets /\ p.tenants = o.tenants /\ p.skip = o.skip
    BY <1>1, SetPhase
  <1> HIDE DEF p
  <1> QED BY <1>2, <1>3 DEF ph

LEMMA SetNets ==
    ASSUME NEW o \in Operation, NEW S \in SUBSET Conversations
    PROVE  LET p == [o EXCEPT !.nets = S]
           IN /\ p \in Operation /\ p.kind = o.kind /\ p.t = o.t /\ p.phase = o.phase
              /\ p.nets = S /\ p.tenants = o.tenants /\ p.skip = o.skip
  BY SMT DEF Operation

LEMMA SetTenants ==
    ASSUME NEW o \in Operation, NEW S \in SUBSET Tenants
    PROVE  LET p == [o EXCEPT !.tenants = S]
           IN /\ p \in Operation /\ p.kind = o.kind /\ p.t = o.t /\ p.phase = o.phase
              /\ p.nets = o.nets /\ p.tenants = S /\ p.skip = o.skip
  BY SMT DEF Operation

LEMMA AccessOK ==
    ASSUME IInv, Access PROVE StepOK
  <1>1. bop \in Operation /\ bop.phase = "access"
    BY InOperation DEF Access, Phases, IInv
  <1>2. mgr \in Memory /\ docker \in Host /\ HopsOK(hop)
    BY TypesHold DEF IInv
  <1>3. PICK n : \E o \in EnsureAccess(mgr, docker, n) :
           /\ Take(o)
           /\ bop' = IF o.ok THEN Continue([bop EXCEPT !.nets = @ \ {n}])
                     ELSE [bop EXCEPT !.phase = "restore"]
    BY DEF Access
  <1>4. PICK o \in EnsureAccess(mgr, docker, n) :
           /\ Take(o)
           /\ bop' = IF o.ok THEN Continue([bop EXCEPT !.nets = @ \ {n}])
                     ELSE [bop EXCEPT !.phase = "restore"]
    BY <1>3
  <1>5. Aside(mgr, docker, o)
    BY <1>2, EnsureAccessIs
  <1>6. hop' = hop
    BY DEF Access
  <1>7. CASE ~o.ok
    BY <1>1, <1>4, <1>5, <1>6, <1>7, AsideGivesUp
  <1>8. CASE o.ok
    <2> DEFINE p == [bop EXCEPT !.nets = bop.nets \ {n}]
    <2>1. bop.nets \ {n} \in SUBSET Conversations
      BY <1>1, SMT DEF Operation
    <2>2. /\ p \in Operation /\ p.kind = bop.kind /\ p.t = bop.t
          /\ p.tenants = bop.tenants /\ p.skip = bop.skip
      BY <1>1, <2>1, SetNets
    <2>3. bop' = Continue(p)
      BY <1>4, <1>8
    <2> HIDE DEF p
    <2> DEFINE q == Continue(p)
    <2>4. /\ q \in Operation /\ q.kind = bop.kind /\ q.t = bop.t
          /\ q.nets = p.nets /\ q.tenants = bop.tenants /\ q.skip = bop.skip
          /\ p.nets # {} => q.phase = "access"
          /\ p.nets = {} /\ bop.tenants # {} => q.phase = "sync"
          /\ p.nets = {} /\ bop.tenants = {} => q.phase = "prune"
      BY <2>2, ContinueIs
    <2> HIDE DEF q
    <2>5. OpInv(mgr, docker, bop)
      BY DEF IInv
    <2>6. bop.t \in bop.tenants /\ bop.tenants \subseteq mgr.active
      BY <1>1, <2>5 DEF OpInv, Applying
    <2>7. q.phase \in {"access", "sync"} /\ (q.phase = "sync" => q.nets = {} /\ q.tenants # {})
      BY <2>4, <2>6
    <2>8. ~Told(q) /\ ~Ending(bop)
      BY <1>1, <2>4, <2>6, <2>7 DEF Told, Ending
    <2>9. Serves(mgr, docker, q)
      BY <2>4, <2>5, <2>8 DEF OpInv, Serves
    <2>10. Applying(mgr, docker, q)
      BY <1>1, <2>4, <2>5, <2>6, <2>7 DEF OpInv, Applying
    <2>11. RollingBack(mgr, q)
      BY <1>1, <2>4, NotRollback DEF RollingBack
    <2>12. OpInv(mgr, docker, q)
      BY <2>5, <2>9, <2>10, <2>11 DEF OpInv
    <2>13. OpInv(o.m, o.d, q)
      BY <1>5, <2>12, Frame DEF Aside
    <2>14. mgr' = o.m /\ docker' = o.d /\ bop' = q
      BY <1>4, <2>3 DEF Take, q
    <2>15. o.m \in Memory /\ o.d \in Host
      BY <1>5 DEF Aside, Outcome
    <2> QED BY <1>2, <1>6, <2>4, <2>13, <2>14, <2>15 DEF StepOK
  <1> QED BY <1>7, <1>8

LEMMA SyncedKeeps ==
    ASSUME NEW m, NEW d, NEW t, NEW B, NEW skip, NEW o, Synced(m, d, t, B, skip, o),
           Gone(d), Acks(m, d)
    PROVE  /\ Gone(o.d) /\ Acks(o.m, o.d)
           /\ o.m \in Memory /\ o.d \in Host
           /\ Knows(o.m, o.d) <=> Knows(m, d)
           /\ \A b \in Bindings : Owner[b] # t /\ Good(m, d, b) => Good(o.m, o.d, b)
  <1>1. Gone(o.d) /\ (Knows(o.m, o.d) <=> Knows(m, d)) /\ o.m \in Memory /\ o.d \in Host
    BY DEF Synced, Gone, Knows, Outcome
  <1>2. Current(o.m, o.d) <=> Current(m, d)
    BY DEF Synced, Current
  <1>3. \A b \in Bindings : Owner[b] # t /\ Good(m, d, b) => Good(o.m, o.d, b)
    BY DEF Synced, Good, Granted, SameGrants
  <1>4. ASSUME NEW u \in Tenants, o.m.synced[u] # NoRegistry, Current(o.m, o.d)
        PROVE  Payload(o.d.broker.served, u) = o.m.synced[u]
    <2>1. CASE u # t
      <3>1. Payload(o.d.broker.served, u) = Payload(d.broker.served, u)
        BY <2>1 DEF Synced, Payload
      <3>2. o.m.synced[u] = m.synced[u]
        BY <2>1 DEF Synced
      <3> QED BY <1>2, <1>4, <3>1, <3>2 DEF Acks
    <2>2. CASE u = t
      <3>1. CASE o.m = m /\ o.d = d
        BY <1>4, <3>1 DEF Acks
      <3>2. CASE o.m.synced[t] = Payload(B, t) /\ Payload(o.d.broker.served, t) = Payload(B, t)
        BY <2>2, <3>2
      <3> QED BY <1>4, <2>2, <3>1, <3>2 DEF Synced
    <2> QED BY <2>1, <2>2
  <1>5. Acks(o.m, o.d)
    BY <1>4 DEF Acks
  <1> QED BY <1>1, <1>3, <1>5

LEMMA SyncOK ==
    ASSUME IInv, Sync PROVE StepOK
  <1>1. bop \in Operation /\ bop.phase = "sync"
    BY InOperation DEF Sync, Phases, IInv
  <1>2. mgr \in Memory /\ docker \in Host /\ HopsOK(hop) /\ OpInv(mgr, docker, bop)
    BY TypesHold DEF IInv
  <1>3. Gone(docker) /\ Acks(mgr, docker)
    BY <1>2 DEF OpInv
  <1>4. bop.tenants # {} /\ bop.nets = {} /\ bop.tenants \subseteq mgr.active
    BY <1>1, <1>2 DEF OpInv, Applying
  <1> DEFINE x == CHOOSE u \in bop.tenants : TRUE
  <1>5. x \in bop.tenants
    BY <1>4
  <1>6. PICK o \in SyncRegistry(mgr, docker, x, mgr.bindings, bop.skip) :
           /\ Take(o)
           /\ bop' = IF o.ok THEN Continue([bop EXCEPT !.tenants = @ \ {x}])
                     ELSE [bop EXCEPT !.phase = "restore"]
    BY DEF Sync
  <1> HIDE DEF x
  <1>7. x \in Tenants /\ mgr.bindings \in Registry /\ x \in mgr.active
    BY <1>1, <1>2, <1>4, <1>5 DEF Operation, Memory
  <1>8. Synced(mgr, docker, x, mgr.bindings, bop.skip, o)
    BY <1>2, <1>7, SyncIs, SMT
  <1>9. /\ Gone(o.d) /\ Acks(o.m, o.d)
        /\ o.m \in Memory /\ o.d \in Host
        /\ Knows(o.m, o.d) <=> Knows(mgr, docker)
        /\ \A b \in Bindings : Owner[b] # x /\ Good(mgr, docker, b) => Good(o.m, o.d, b)
    BY <1>3, <1>8, SyncedKeeps, SMT
  <1>10. hop' = hop /\ mgr' = o.m /\ docker' = o.d
    BY <1>6 DEF Sync, Take
  <1>11. CASE ~o.ok
    BY <1>1, <1>6, <1>9, <1>10, <1>11, GivesUp
  <1>12. CASE o.ok
    <2> DEFINE p == [bop EXCEPT !.tenants = bop.tenants \ {x}]
    <2>1. bop.tenants \ {x} \in SUBSET Tenants
      BY <1>1, SMT DEF Operation
    <2>2. /\ p \in Operation /\ p.kind = bop.kind /\ p.t = bop.t
          /\ p.nets = bop.nets /\ p.tenants = bop.tenants \ {x} /\ p.skip = bop.skip
      BY <1>1, <2>1, SetTenants
    <2>3. bop' = Continue(p)
      BY <1>6, <1>12
    <2> HIDE DEF p
    <2> DEFINE q == Continue(p)
    <2>4. /\ q \in Operation /\ q.kind = bop.kind /\ q.t = bop.t
          /\ q.nets = {} /\ q.tenants = bop.tenants \ {x} /\ q.skip = bop.skip
          /\ q.tenants # {} => q.phase = "sync"
          /\ q.tenants = {} => q.phase = "prune"
      BY <1>4, <2>2, ContinueIs
    <2>5. bop' = q
      BY <2>3
    <2> HIDE DEF q
    <2>6. ASSUME Knows(mgr, docker), NEW b \in Bindings, Owner[b] = x
          PROVE  Good(o.m, o.d, b)
      <3>1. o.d.broker.served[b] = mgr.bindings[b] \/ o.d.broker.served[b] = NoBinding
        <4>1. CASE o.m = mgr /\ o.d = docker /\ bop.skip /\ mgr.synced[x] = Payload(mgr.bindings, x)
                     /\ mgr.synced[x] # NoRegistry
          <5>1. bop.tenants = {bop.t}
            BY <1>1, <1>2, <4>1 DEF OpInv, Applying
          <5>2. x = bop.t
            BY <1>5, <5>1
          <5>3. Current(mgr, docker) \/ \A a \in Of(x) : docker.broker.served[a] = NoBinding
            BY <1>1, <1>2, <2>6, <4>1, <5>2 DEF OpInv, Applying
          <5>4. CASE Current(mgr, docker)
            <6>1. Payload(docker.broker.served, x) = Payload(mgr.bindings, x)
              BY <1>3, <1>7, <4>1, <5>4 DEF Acks
            <6>2. docker.broker.served \in Registry
              BY <1>2 DEF Host, Container
            <6>3. Payload(docker.broker.served, x)[b] = docker.broker.served[b]
              BY <2>6, <6>2, PayloadIs
            <6>4. Payload(mgr.bindings, x)[b] = mgr.bindings[b]
              BY <1>7, <2>6, PayloadIs
            <6> QED BY <4>1, <6>1, <6>3, <6>4
          <5>5. CASE \A a \in Of(x) : docker.broker.served[a] = NoBinding
            BY <2>6, <4>1, <5>5 DEF Of
          <5> QED BY <5>3, <5>4, <5>5
        <4>2. CASE \A a \in Bindings : Owner[a] = x => o.d.broker.served[a] = mgr.bindings[a]
          BY <2>6, <4>2
        <4> QED BY <1>8, <1>12, <4>1, <4>2 DEF Synced
      <3>2. o.m.bindings = mgr.bindings /\ o.m.active = mgr.active
        BY <1>8 DEF Synced, SameGrants
      <3> QED BY <1>7, <2>6, <3>1, <3>2 DEF Good, Granted
    <2>7. ~Ending(bop) /\ ~Ending(q)
      BY <1>1, <2>4 DEF Ending
    <2>8. Serves(o.m, o.d, q)
      <3> SUFFICES ASSUME Knows(o.m, o.d), NEW b \in Bindings, Owner[b] # q.t \/ Told(q)
                   PROVE  Good(o.m, o.d, b)
        BY DEF Serves
      <3>1. Knows(mgr, docker)
        BY <1>9
      <3>2. CASE Owner[b] = x
        BY <2>6, <3>1, <3>2
      <3>3. CASE Owner[b] # x
        <4>1. Owner[b] # bop.t \/ Told(bop)
          <5>1. ASSUME Told(q), Owner[b] = bop.t PROVE Told(bop)
            <6>1. bop.t \notin q.tenants
              BY <2>4, <5>1 DEF Told
            <6> QED BY <1>1, <2>4, <3>3, <5>1, <6>1 DEF Told
          <5> QED BY <2>4, <5>1
        <4>2. Good(mgr, docker, b)
          BY <1>2, <2>7, <3>1, <4>1 DEF OpInv, Serves
        <4> QED BY <1>9, <3>3, <4>2
      <3> QED BY <3>2, <3>3
    <2>9. Applying(o.m, o.d, q)
      <3>1. o.m.active = mgr.active
        BY <1>8 DEF Synced, SameGrants
      <3>2. q.tenants \subseteq o.m.active /\ q.phase \in {"sync", "prune"}
        BY <1>4, <2>4, <3>1
      <3>3. q.phase = "sync" => q.nets = {} /\ q.tenants # {}
        BY <2>4
      <3>4. ~(q.phase = "sync" /\ q.skip)
        <4>1. bop.skip => bop.tenants = {bop.t}
          BY <1>1, <1>2 DEF OpInv, Applying
        <4>2. bop.skip => q.tenants = {}
          BY <1>5, <2>4, <4>1
        <4> QED BY <2>4, <4>2
      <3> QED BY <3>2, <3>3, <3>4 DEF Applying
    <2>10. RollingBack(o.m, q)
      BY <1>1, <2>4, NotRollback DEF RollingBack
    <2>11. OpInv(o.m, o.d, q)
      BY <1>9, <2>8, <2>9, <2>10 DEF OpInv
    <2> QED BY <1>2, <1>9, <1>10, <2>4, <2>5, <2>11 DEF StepOK
  <1> QED BY <1>11, <1>12

LEMMA NetworksAre ==
    ASSUME NEW B \in Registry, NEW t
    PROVE  /\ BindingNetworks(B, t) \in SUBSET Conversations
           /\ BindingNetworks(B, t) # {} => ~Empty(B, t)
  <1>1. \A b \in Of(t) : B[b].nets \in SUBSET Conversations
    BY DEF Registry, Binding, Of
  <1>2. BindingNetworks(B, t) \in SUBSET Conversations
    BY <1>1 DEF BindingNetworks
  <1>3. ASSUME NEW n \in BindingNetworks(B, t), Empty(B, t) PROVE FALSE
    <2>1. PICK b \in Of(t) : n \in B[b].nets
      BY DEF BindingNetworks
    <2>2. B[b] = NoBinding
      BY <1>3, <2>1 DEF Empty
    <2> QED BY <2>1, <2>2, Empties
  <1> QED BY <1>2, <1>3

LEMMA ActiveNetworksAre ==
    ASSUME NEW m \in Memory PROVE ActiveNetworks(m) \in SUBSET Conversations
  <1>1. m.bindings \in Registry
    BY DEF Memory
  <1>2. \A t \in m.active : BindingNetworks(m.bindings, t) \in SUBSET Conversations
    BY <1>1, NetworksAre
  <1> QED BY <1>2 DEF ActiveNetworks

\* The operation goes on to connect networks and to send registries.
LEMMA GoesOn ==
    ASSUME IInv, bop \in Operation, bop.phase = "ensure",
           NEW o, Ensured(o), o.ok, Acks(o.m, o.d),
           NEW p \in Operation, p.kind = bop.kind, p.t = bop.t,
           p.tenants \subseteq mgr.active, p.t \in p.tenants,
           p.skip => p.tenants = {p.t} /\ p.nets # {} /\ Current(o.m, o.d),
           mgr' = o.m, docker' = o.d, bop' = Continue(p), hop' = hop
    PROVE  StepOK
  <1> DEFINE q == Continue(p)
  <1>1. /\ q \in Operation /\ q.kind = bop.kind /\ q.t = bop.t
        /\ q.nets = p.nets /\ q.tenants = p.tenants /\ q.skip = p.skip
        /\ p.nets # {} => q.phase = "access"
        /\ p.nets = {} /\ p.tenants # {} => q.phase = "sync"
    BY ContinueIs
  <1>2. bop' = q
    OBVIOUS
  <1> HIDE DEF q
  <1>3. q.phase \in {"access", "sync"} /\ (q.phase = "sync" => q.nets = {} /\ q.tenants # {})
    BY <1>1
  <1>4. OpInv(mgr, docker, bop)
    BY DEF IInv
  <1>5. o.m.active = mgr.active /\ o.m.bindings = mgr.bindings /\ o.m \in Memory /\ o.d \in Host
    BY DEF Ensured, SameGrants, Outcome
  <1>6. Serves(o.m, o.d, q)
    <2> SUFFICES ASSUME Knows(o.m, o.d), NEW b \in Bindings, Owner[b] # q.t \/ Told(q)
                 PROVE  Good(o.m, o.d, b)
      BY DEF Serves
    <2>1. CASE o.d.broker.served = NoRegistry
      BY <2>1, Empties DEF Good
    <2>2. CASE o.d = docker /\ o.m.cid = mgr.cid
      <3>1. ~Told(q) /\ ~Ending(bop)
        BY <1>1, <1>3 DEF Told, Ending
      <3>2. Knows(mgr, docker)
        BY <2>2 DEF Knows
      <3>3. Good(mgr, docker, b)
        BY <1>1, <1>4, <3>1, <3>2 DEF OpInv, Serves
      <3> QED BY <1>5, <2>2, <3>3 DEF Good, Granted
    <2> QED BY <2>1, <2>2 DEF Ensured
  <1>7. Applying(o.m, o.d, q)
    BY <1>1, <1>3, <1>5 DEF Applying
  <1>8. RollingBack(o.m, q)
    BY <1>1, NotRollback DEF RollingBack
  <1>9. OpInv(o.m, o.d, q)
    BY <1>6, <1>7, <1>8 DEF OpInv, Ensured
  <1>10. HopsOK(hop)
    BY TypesHold DEF IInv
  <1> QED BY <1>1, <1>2, <1>5, <1>9, <1>10 DEF StepOK

Restarted(o, S, T) == [o EXCEPT !.nets = S, !.tenants = T, !.skip = FALSE]
Resent(o, S, T) == [o EXCEPT !.nets = S, !.tenants = T]

LEMMA SetTasks ==
    ASSUME NEW o \in Operation, NEW S \in SUBSET Conversations, NEW T \in SUBSET Tenants
    PROVE  /\ Resent(o, S, T) \in Operation
           /\ Resent(o, S, T).kind = o.kind /\ Resent(o, S, T).t = o.t
           /\ Resent(o, S, T).nets = S /\ Resent(o, S, T).tenants = T
           /\ Resent(o, S, T).skip = o.skip
           /\ Restarted(o, S, T) \in Operation
           /\ Restarted(o, S, T).kind = o.kind /\ Restarted(o, S, T).t = o.t
           /\ Restarted(o, S, T).nets = S /\ Restarted(o, S, T).tenants = T
           /\ ~Restarted(o, S, T).skip
  <1> DEFINE p == [o EXCEPT !.nets = S]
             q == [p EXCEPT !.tenants = T]
             r == [q EXCEPT !.skip = FALSE]
  <1>1. /\ p \in Operation /\ p.kind = o.kind /\ p.t = o.t
        /\ p.nets = S /\ p.skip = o.skip
    BY SetNets
  <1>2. Resent(o, S, T) = q
    BY DEF Resent
  <1>3. Restarted(o, S, T) = r
    BY DEF Restarted
  <1> HIDE DEF p
  <1>4. /\ q \in Operation /\ q.kind = o.kind /\ q.t = o.t
        /\ q.nets = S /\ q.tenants = T /\ q.skip = o.skip
    BY <1>1, SetTenants
  <1> HIDE DEF q
  <1>5. ASSUME NEW k \in BOOLEAN
        PROVE  LET x == [q EXCEPT !.skip = k]
               IN /\ x \in Operation /\ x.kind = q.kind /\ x.t = q.t
                  /\ x.nets = q.nets /\ x.tenants = q.tenants /\ x.skip = k
    BY <1>4, SMT DEF Operation
  <1>6. /\ r \in Operation /\ r.kind = q.kind /\ r.t = q.t
        /\ r.nets = q.nets /\ r.tenants = q.tenants /\ r.skip = FALSE
    BY <1>5
  <1> HIDE DEF r
  <1> QED BY <1>2, <1>3, <1>4, <1>6

LEMMA EnsureOK ==
    ASSUME IInv, Ensure PROVE StepOK
  <1> DEFINE nets == BindingNetworks(mgr.bindings, bop.t)
             restored == {t \in mgr.active : ~Empty(mgr.bindings, t)}
  <1>1. bop \in Operation /\ bop.phase = "ensure"
    BY InOperation DEF Ensure, Phases, IInv
  <1>2. mgr \in Memory /\ docker \in Host /\ HopsOK(hop) /\ OpInv(mgr, docker, bop)
    BY TypesHold DEF IInv
  <1>3. Gone(docker) /\ Acks(mgr, docker) /\ bop.t \in mgr.active
    BY <1>1, <1>2 DEF OpInv, Applying
  <1>4. hop' = hop
    BY DEF Ensure
  <1>5. bop.phase \notin {"deauthorize", "forget"}
    BY <1>1
  <1>6. CASE nets = {}
    <2>1. mgr' = mgr /\ docker' = docker /\ bop' = [bop EXCEPT !.phase = "restore"]
      BY <1>6 DEF Ensure
    <2> QED BY <1>1, <1>2, <1>3, <1>4, <1>5, <2>1, GivesUp
  <1>7. CASE nets # {}
    <2>1. PICK initial : \E o \in EnsureContainer(mgr, docker, initial) :
                 /\ Take(o)
                 /\ bop' = IF ~o.ok THEN [bop EXCEPT !.phase = "restore"]
                           ELSE IF o.m.seen # mgr.seen
                           THEN Continue(Restarted(bop, ActiveNetworks(o.m), restored))
                           ELSE Continue(Resent(bop, nets, {bop.t}))
      BY <1>7 DEF Ensure, Restarted, Resent
    <2>2. PICK o \in EnsureContainer(mgr, docker, initial) :
                 /\ Take(o)
                 /\ bop' = IF ~o.ok THEN [bop EXCEPT !.phase = "restore"]
                           ELSE IF o.m.seen # mgr.seen
                           THEN Continue(Restarted(bop, ActiveNetworks(o.m), restored))
                           ELSE Continue(Resent(bop, nets, {bop.t}))
      BY <2>1
    <2>3. Ensured(o)
      BY <1>2, <1>3, EnsureContainerIs
    <2>4. o.m \in Memory /\ o.d \in Host /\ Gone(o.d)
      BY <2>3 DEF Ensured, Outcome
    <2>5. Acks(o.m, o.d)
      BY <1>3, <2>3, NoAcks DEF Ensured
    <2>6. mgr' = o.m /\ docker' = o.d
      BY <2>2 DEF Take
    <2>7. mgr.bindings \in Registry /\ mgr.active \subseteq Tenants /\ bop.t \in Tenants
      BY <1>1, <1>2 DEF Memory, Operation
    <2>8. nets \in SUBSET Conversations /\ bop.t \in restored /\ restored \in SUBSET Tenants
      BY <1>3, <1>7, <2>7, NetworksAre
    <2> HIDE DEF nets, restored
    <2>9. CASE ~o.ok
      BY <1>1, <1>4, <1>5, <2>2, <2>4, <2>5, <2>6, <2>9, GivesUp
    <2>10. CASE o.ok /\ o.m.seen # mgr.seen
      <3> DEFINE p == Restarted(bop, ActiveNetworks(o.m), restored)
      <3>1. /\ p \in Operation /\ p.kind = bop.kind /\ p.t = bop.t
            /\ p.tenants = restored /\ ~p.skip
        <4>1. ActiveNetworks(o.m) \in SUBSET Conversations
          BY <2>4, ActiveNetworksAre
        <4> QED BY <1>1, <2>8, <4>1, SetTasks, SMT
      <3>2. bop' = Continue(p)
        BY <2>2, <2>10
      <3> HIDE DEF p
      <3>3. p.tenants \subseteq mgr.active /\ p.t \in p.tenants
        BY <2>8, <3>1 DEF restored
      <3> QED BY <1>1, <1>4, <2>3, <2>5, <2>6, <2>10, <3>1, <3>2, <3>3, GoesOn
    <2>11. CASE o.ok /\ o.m.seen = mgr.seen
      <3> DEFINE p == Resent(bop, nets, {bop.t})
      <3>1. /\ p \in Operation /\ p.kind = bop.kind /\ p.t = bop.t
            /\ p.nets = nets /\ p.tenants = {bop.t}
        <4>1. {bop.t} \in SUBSET Tenants
          BY <2>7
        <4> QED BY <1>1, <2>8, <4>1, SetTasks, SMT
      <3>2. bop' = Continue(p)
        BY <2>2, <2>11
      <3> HIDE DEF p
      <3>3. Current(o.m, o.d)
        BY <2>3, <2>11 DEF Ensured, Current
      <3>4. p.tenants \subseteq mgr.active /\ p.t \in p.tenants
        BY <1>3, <3>1
      <3>5. p.skip => p.tenants = {p.t} /\ p.nets # {} /\ Current(o.m, o.d)
        BY <1>7, <3>1, <3>3
      <3> QED BY <1>1, <1>4, <2>3, <2>5, <2>6, <2>11, <3>1, <3>2, <3>4, <3>5, GoesOn
    <2> QED BY <2>9, <2>10, <2>11
  <1> QED BY <1>6, <1>7

\* The broker has acknowledged what the operation's tenant should have.
LEMMA DesiredQuiets ==
    ASSUME IInv, bop \in Operation, ~Ending(bop),
           NEW o \in SyncRegistry(mgr, docker, bop.t, Desired, FALSE)
    PROVE  /\ Gone(o.d) /\ Acks(o.m, o.d) /\ o \in Outcome /\ SameGrants(mgr, o.m)
           /\ o.m \in Memory /\ o.d \in Host
           /\ o.ok => OpInv(o.m, o.d, NoOp)
  <1>1. mgr \in Memory /\ docker \in Host /\ OpInv(mgr, docker, bop)
    BY TypesHold DEF IInv
  <1>2. bop.t \in Tenants /\ mgr.bindings \in Registry
    BY <1>1 DEF Operation, Memory
  <1>3. Desired \in Registry
    BY <1>2, Empties DEF Desired
  <1> DEFINE never == FALSE
  <1> HIDE DEF never
  <1>4. Synced(mgr, docker, bop.t, Desired, never, o)
    <2>1. o \in SyncRegistry(mgr, docker, bop.t, Desired, never)
      BY DEF never
    <2> QED BY <1>1, <1>2, <1>3, <2>1, SyncIs, SMT
  <1>5. Gone(docker) /\ Acks(mgr, docker)
    BY <1>1 DEF OpInv
  <1>6. /\ Gone(o.d) /\ Acks(o.m, o.d)
        /\ o.m \in Memory /\ o.d \in Host
        /\ Knows(o.m, o.d) <=> Knows(mgr, docker)
        /\ \A b \in Bindings : Owner[b] # bop.t /\ Good(mgr, docker, b) => Good(o.m, o.d, b)
    BY <1>4, <1>5, SyncedKeeps, SMT
  <1>7. o \in Outcome /\ SameGrants(mgr, o.m)
    BY <1>4 DEF Synced
  <1>8. ASSUME o.ok, Knows(o.m, o.d), NEW b \in Bindings PROVE Good(o.m, o.d, b)
    <2>1. CASE Owner[b] # bop.t
      <3>1. Good(mgr, docker, b)
        BY <1>1, <1>6, <1>8, <2>1 DEF OpInv, Serves
      <3> QED BY <1>6, <2>1, <3>1
    <2>2. CASE Owner[b] = bop.t
      <3>1. o.d.broker.served[b] = Desired[b]
        BY <1>4, <1>8, <2>2 DEF Synced, never
      <3>2. o.m.bindings = mgr.bindings /\ o.m.active = mgr.active
        BY <1>7 DEF SameGrants
      <3>3. CASE bop.t \in mgr.active
        <4>1. o.d.broker.served[b] = mgr.bindings[b]
          BY <3>1, <3>3 DEF Desired
        <4> QED BY <2>2, <3>2, <3>3, <4>1 DEF Good, Granted
      <3>4. CASE bop.t \notin mgr.active
        <4>1. o.d.broker.served[b] = NoBinding
          BY <3>1, <3>4, Empties DEF Desired
        <4> QED BY <4>1 DEF Good
      <3> QED BY <3>3, <3>4
    <2> QED BY <2>1, <2>2
  <1> QED BY <1>6, <1>7, <1>8, Quieted

LEMMA RevokeOK ==
    ASSUME IInv, Revoke PROVE StepOK
  <1>1. bop \in Operation /\ bop.phase = "revoke"
    BY InOperation DEF Revoke, Phases, IInv
  <1>2. ~Ending(bop) /\ bop.phase \notin {"deauthorize", "forget"}
    BY <1>1 DEF Ending
  <1>3. CASE docker.broker.id = 0 \/ mgr.cid # docker.broker.id
    <2>1. PICK o \in RemoveUnowned(mgr, docker) : Take(o) /\ Return(IF o.ok THEN "ok" ELSE "error")
      BY <1>3 DEF Revoke
    <2>2. ~Knows(mgr, docker)
      BY <1>3 DEF Knows
    <2>3. o \in Outcome /\ OpInv(o.m, o.d, NoOp)
      BY <2>2, RemoveUnownedQuiets
    <2> QED BY <1>1, <2>1, <2>3, Leaves
  <1>4. CASE ~(docker.broker.id = 0 \/ mgr.cid # docker.broker.id)
    <2> DEFINE synced == SyncRegistry(mgr, docker, bop.t, Desired, FALSE)
    <2>1. PICK o \in AndThen(synced, Prune) :
             /\ Take(o)
             /\ IF o.ok /\ ActiveNetworks(o.m) # {} THEN Return("ok") ELSE Goto("remove")
      BY <1>4 DEF Revoke
    <2>2. PICK q \in synced :
             o \in IF q.ok THEN {[p EXCEPT !.cost = @ + q.cost] : p \in Prune(q.m, q.d)} ELSE {q}
      BY <2>1 DEF AndThen, Affordable
    <2>3. /\ Gone(q.d) /\ Acks(q.m, q.d) /\ q \in Outcome
          /\ q.m \in Memory /\ q.d \in Host
          /\ q.ok => OpInv(q.m, q.d, NoOp)
      BY <1>1, <1>2, DesiredQuiets
    <2>4. /\ o \in Outcome /\ Gone(o.d) /\ Acks(o.m, o.d) /\ o.m \in Memory /\ o.d \in Host
          /\ o.ok => OpInv(o.m, o.d, NoOp)
      <3>1. CASE ~q.ok
        <4>1. o = q
          BY <2>2, <3>1
        <4> QED BY <2>3, <3>1, <4>1
      <3>2. CASE q.ok
        <4>1. PICK p \in Prune(q.m, q.d) : o = [p EXCEPT !.cost = @ + q.cost]
          BY <2>2, <3>2
        <4>2. Aside(q.m, q.d, p)
          BY <2>3, PruneIs
        <4>3. OpInv(p.m, p.d, NoOp) /\ p \in Outcome
          BY <2>3, <3>2, <4>2, Frame DEF Aside
        <4>4. q.cost \in Nat
          BY <2>3 DEF Outcome
        <4>5. o \in Outcome /\ o.m = p.m /\ o.d = p.d
          BY <4>1, <4>3, <4>4, Costs
        <4>6. o.m \in Memory /\ o.d \in Host
          BY <4>5 DEF Outcome
        <4> QED BY <4>3, <4>5, <4>6 DEF OpInv
      <3> QED BY <3>1, <3>2
    <2>5. CASE o.ok /\ ActiveNetworks(o.m) # {}
      BY <1>1, <2>1, <2>4, <2>5, Leaves
    <2>6. CASE ~(o.ok /\ ActiveNetworks(o.m) # {})
      <3>1. bop' = [bop EXCEPT !.phase = "remove"] /\ hop' = hop
        BY <2>1, <2>6 DEF Goto
      <3>2. mgr' = o.m /\ docker' = o.d
        BY <2>1 DEF Take
      <3> QED BY <1>1, <1>2, <2>4, <3>1, <3>2, GivesUp
    <2> QED BY <2>5, <2>6
  <1> QED BY <1>3, <1>4

-----------------------------------------------------------------------------
(* The deauthorization of a network *)

\* rollback_prepared_network puts back grants that are no smaller than those served.
LEMMA LeaveOK ==
    ASSUME IInv, bop \in Operation, NEW m \in Memory, NEW d \in Host, docker' = d,
           SameGrants(mgr, m), OpInv(m, d, NoOp), NEW res \in {"ok", "error"}, Leave(m, res)
    PROVE  StepOK
  <1>1. Return(res)
    BY DEF Leave
  <1>2. HopsOK(hop') /\ bop' = NoOp
    BY <1>1, TypesHold, ReturnIs DEF IInv
  <1>3. CASE bop.kind # "rollback"
    <2>1. mgr' = m
      BY <1>3 DEF Leave
    <2> QED BY <1>2, <2>1 DEF StepOK
  <1>4. CASE bop.kind = "rollback"
    <2> DEFINE n == RestoreTenant(m, bop.t, bop.bindings, bop.active)
    <2>1. mgr' = n
      BY <1>4 DEF Leave
    <2>2. bop.t \in Tenants /\ bop.bindings \in Registry /\ bop.active \in BOOLEAN
      BY DEF Operation
    <2>3. /\ Regranted(m, n)
          /\ \A b \in Bindings : n.bindings[b] = IF Owner[b] = bop.t THEN bop.bindings[b] ELSE m.bindings[b]
          /\ n.active = IF bop.active THEN m.active \cup {bop.t} ELSE m.active \ {bop.t}
      <3>1. Restored(m, bop.t, bop.bindings, bop.active, n)
        BY <2>2, RestoreTenantIs
      <3> QED BY <3>1 DEF Restored
    <2> HIDE DEF n
    <2>4. /\ \A b \in Of(bop.t) : m.bindings[b] = Without(bop.bindings, bop.t, bop.by)[b]
          /\ bop.t \in m.active => bop.active
      BY <1>4 DEF IInv, OpInv, RollingBack, SameGrants
    <2>5. Gone(d) /\ Acks(m, d) /\ (Knows(m, d) => \A b \in Bindings : Good(m, d, b))
      BY Quieted
    <2>6. Acks(n, d) /\ (Knows(n, d) <=> Knows(m, d))
      BY <2>3, <2>5, RegrantedFrame
    <2>7. d.broker.served \in Registry
      BY DEF Host, Container
    <2>8. ASSUME NEW b \in Bindings, Granted(m, d.broker.served[b], b), d.broker.served[b] # NoBinding
          PROVE  Granted(n, d.broker.served[b], b)
      <3> DEFINE s == d.broker.served[b]
      <3>1. s \in Binding
        BY <2>7 DEF Registry
      <3> HIDE DEF s
      <3>2. CASE Owner[b] # bop.t
        <4>1. n.bindings[b] = m.bindings[b] /\ Owner[b] \in n.active
          BY <2>3, <2>8, <3>2 DEF Granted
        <4> QED BY <2>8, <4>1 DEF Granted
      <3>3. CASE Owner[b] = bop.t
        <4>1. n.bindings[b] = bop.bindings[b] /\ Owner[b] \in n.active
          BY <2>3, <2>4, <2>8, <3>3 DEF Granted
        <4> DEFINE w == Without(bop.bindings, bop.t, bop.by)[b]
        <4>2. m.bindings[b] = w
          BY <2>4, <3>3 DEF Of
        <4>3. w = NoBinding \/ (w.ver = bop.bindings[b].ver /\ w.nets \subseteq bop.bindings[b].nets)
          BY <2>2, WithoutIs
        <4> HIDE DEF w
        <4>4. s.ver = w.ver /\ s.nets \subseteq w.nets
          BY <2>8, <4>2 DEF Granted, s
        <4>5. w # NoBinding
          <5>1. ASSUME w = NoBinding PROVE s = NoBinding
            BY <3>1, <4>4, <5>1, Empties, NothingLeft
          <5> QED BY <2>8, <5>1 DEF s
        <4>6. s.ver = bop.bindings[b].ver /\ s.nets \subseteq bop.bindings[b].nets
          BY <4>3, <4>4, <4>5
        <4> QED BY <4>1, <4>6 DEF Granted, s
      <3> QED BY <3>2, <3>3
    <2>9. Knows(n, d) => \A b \in Bindings : Good(n, d, b)
      BY <2>5, <2>6, <2>8 DEF Good
    <2>10. OpInv(n, d, NoOp)
      BY <2>5, <2>6, <2>9, Quieted
    <2>11. n \in Memory
      BY <2>3 DEF Regranted
    <2> QED BY <1>2, <2>1, <2>10, <2>11 DEF StepOK
  <1> QED BY <1>3, <1>4

\* The outcomes of _deauthorize_network_locked up to the firewall
DeauthorizeOutcomes ==
    IF docker.broker.id = 0 THEN {Sure(mgr, docker)}
    ELSE IF ~(docker.broker.id # 0 /\ mgr.cid = docker.broker.id) THEN Decommission(mgr, docker)
    ELSE UNION {{[p EXCEPT !.cost = @ + o.cost] : p \in
                   IF o.ok /\ ~(ActiveNetworks(mgr) = {}) THEN {Sure(o.m, o.d)} ELSE Decommission(o.m, o.d)} :
                  o \in Affordable(SyncRegistry(mgr, docker, bop.t, Desired, FALSE))}

LEMMA DeauthorizeQuiets ==
    ASSUME IInv, bop \in Operation, bop.phase = "deauthorize", NEW o \in DeauthorizeOutcomes
    PROVE  o \in Outcome /\ SameGrants(mgr, o.m) /\ OpInv(o.m, o.d, NoOp)
  <1>1. mgr \in Memory /\ docker \in Host /\ Gone(docker) /\ Acks(mgr, docker)
    BY TypesHold DEF IInv, OpInv
  <1>2. CASE docker.broker.id = 0
    <2>1. o = Sure(mgr, docker)
      BY <1>2 DEF DeauthorizeOutcomes
    <2>2. o \in Outcome /\ o.m = mgr /\ o.d = docker
      BY <1>1, <2>1, SureIs
    <2>3. OpInv(mgr, docker, NoOp)
      BY <1>1, <1>2, UnsureQuiets DEF Unsure, Knows
    <2> QED BY <1>1, <2>2, <2>3 DEF SameGrants
  <1>3. CASE docker.broker.id # 0 /\ mgr.cid # docker.broker.id
    <2>1. o \in Decommission(mgr, docker)
      BY <1>3 DEF DeauthorizeOutcomes
    <2> QED BY <1>1, <2>1, DecommissionQuiets
  <1>4. CASE docker.broker.id # 0 /\ mgr.cid = docker.broker.id
    <2>1. PICK q \in SyncRegistry(mgr, docker, bop.t, Desired, FALSE) :
             o \in {[p EXCEPT !.cost = @ + q.cost] : p \in
                   IF q.ok /\ ~(ActiveNetworks(mgr) = {}) THEN {Sure(q.m, q.d)} ELSE Decommission(q.m, q.d)}
      BY <1>4 DEF DeauthorizeOutcomes, Affordable
    <2>2. PICK p \in (IF q.ok /\ ~(ActiveNetworks(mgr) = {}) THEN {Sure(q.m, q.d)} ELSE Decommission(q.m, q.d)) :
             o = [p EXCEPT !.cost = @ + q.cost]
      BY <2>1
    <2>3. ~Ending(bop)
      BY DEF Ending
    <2>4. /\ Gone(q.d) /\ Acks(q.m, q.d) /\ q \in Outcome /\ SameGrants(mgr, q.m)
          /\ q.m \in Memory /\ q.d \in Host
          /\ q.ok => OpInv(q.m, q.d, NoOp)
      BY <2>3, DesiredQuiets
    <2>5. p \in Outcome /\ SameGrants(q.m, p.m) /\ OpInv(p.m, p.d, NoOp)
      <3>1. CASE q.ok /\ ~(ActiveNetworks(mgr) = {})
        <4>1. p = Sure(q.m, q.d)
          BY <2>2, <3>1
        <4>2. p \in Outcome /\ p.m = q.m /\ p.d = q.d
          BY <2>4, <4>1, SureIs
        <4> QED BY <2>4, <3>1, <4>2 DEF SameGrants
      <3>2. CASE ~(q.ok /\ ~(ActiveNetworks(mgr) = {}))
        <4>1. p \in Decommission(q.m, q.d)
          BY <2>2, <3>2
        <4> QED BY <2>4, <4>1, DecommissionQuiets
      <3> QED BY <3>1, <3>2
    <2>6. q.cost \in Nat
      BY <2>4 DEF Outcome
    <2>7. o \in Outcome /\ o.m = p.m /\ o.d = p.d
      BY <2>2, <2>5, <2>6, Costs
    <2> QED BY <2>4, <2>5, <2>7 DEF SameGrants
  <1> QED BY <1>2, <1>3, <1>4

LEMMA DeauthorizeOK ==
    ASSUME IInv, Deauthorize PROVE StepOK
  <1>1. bop \in Operation /\ bop.phase = "deauthorize"
    BY InOperation DEF Deauthorize, Phases, IInv
  <1>2. mgr \in Memory /\ docker \in Host /\ HopsOK(hop) /\ OpInv(mgr, docker, bop)
    BY TypesHold DEF IInv
  <1>3. \/ \E o \in DeauthorizeOutcomes :
             /\ docker' = o.d
             /\ IF o.ok THEN mgr' = o.m /\ Goto("forget") ELSE Leave(o.m, "error")
        \/ /\ docker' = [docker EXCEPT !.broker.doubt = @ \cup {bop.t}]
           /\ Leave(mgr, "error")
    BY DEF Deauthorize, DeauthorizeOutcomes
  <1>4. CASE \E o \in DeauthorizeOutcomes :
             /\ docker' = o.d
             /\ IF o.ok THEN mgr' = o.m /\ Goto("forget") ELSE Leave(o.m, "error")
    <2>1. PICK o \in DeauthorizeOutcomes :
             /\ docker' = o.d
             /\ IF o.ok THEN mgr' = o.m /\ Goto("forget") ELSE Leave(o.m, "error")
      BY <1>4
    <2>2. o \in Outcome /\ SameGrants(mgr, o.m) /\ OpInv(o.m, o.d, NoOp)
      BY <1>1, <2>1, DeauthorizeQuiets
    <2>3. o.m \in Memory /\ o.d \in Host
      BY <2>2 DEF Outcome
    <2>4. CASE ~o.ok
      BY <1>1, <2>1, <2>2, <2>3, <2>4, LeaveOK
    <2>5. CASE o.ok
      <3> DEFINE p == [bop EXCEPT !.phase = "forget"]
      <3>1. "forget" \in Phases
        BY DEF Phases
      <3>2. /\ p \in Operation /\ p.phase = "forget" /\ p.kind = bop.kind /\ p.t = bop.t
            /\ p.by = bop.by /\ p.bindings = bop.bindings /\ p.active = bop.active
        BY <1>1, <3>1, SetPhase
      <3>3. mgr' = o.m /\ docker' = o.d /\ bop' = p /\ hop' = hop
        BY <2>1, <2>5 DEF Goto
      <3> HIDE DEF p
      <3>4. Gone(o.d) /\ Acks(o.m, o.d) /\ (Knows(o.m, o.d) => \A b \in Bindings : Good(o.m, o.d, b))
        BY <2>2, Quieted
      <3>5. Serves(o.m, o.d, p)
        BY <3>4 DEF Serves
      <3>6. Applying(o.m, o.d, p)
        BY <3>2 DEF Applying
      <3>7. RollingBack(o.m, p)
        BY <1>2, <2>2, <3>2 DEF OpInv, RollingBack, SameGrants
      <3>8. OpInv(o.m, o.d, p)
        BY <3>4, <3>5, <3>6, <3>7 DEF OpInv
      <3> QED BY <1>2, <2>3, <3>2, <3>3, <3>8 DEF StepOK
    <2> QED BY <2>4, <2>5
  <1>5. CASE /\ docker' = [docker EXCEPT !.broker.doubt = @ \cup {bop.t}]
             /\ Leave(mgr, "error")
    <2> DEFINE S == docker.broker.doubt \cup {bop.t}
               e == [docker EXCEPT !.broker.doubt = S]
    <2>1. S \in SUBSET Tenants
      BY <1>1, <1>2, SMT DEF Host, Container, Operation
    <2> HIDE DEF S
    <2>2. /\ e \in Host /\ e.broker.id = docker.broker.id /\ e.broker.start = docker.broker.start
          /\ e.broker.running = docker.broker.running /\ e.broker.served = docker.broker.served
          /\ e.broker.doubt = S
      BY <1>2, <2>1, SetDoubt
    <2>3. docker' = e
      BY <1>5 DEF S
    <2> HIDE DEF e
    <2>4. (Knows(mgr, e) <=> Knows(mgr, docker)) /\ (Current(mgr, e) <=> Current(mgr, docker))
      BY <2>2 DEF Knows, Current
    <2>5. Gone(e) /\ Acks(mgr, e)
      BY <1>2, <2>2, <2>4 DEF OpInv, Gone, Acks
    <2>6. ASSUME Knows(mgr, e), NEW b \in Bindings PROVE Good(mgr, e, b)
      <3>1. CASE Owner[b] = bop.t
        BY <2>2, <3>1 DEF Good, S
      <3>2. CASE Owner[b] # bop.t
        <4>1. ~Ending(bop)
          BY <1>1 DEF Ending
        <4>2. Good(mgr, docker, b)
          BY <1>2, <2>4, <2>6, <3>2, <4>1 DEF OpInv, Serves
        <4> QED BY <2>2, <4>2 DEF Good, S
      <3> QED BY <3>1, <3>2
    <2>7. OpInv(mgr, e, NoOp)
      BY <2>5, <2>6, Quieted
    <2>8. SameGrants(mgr, mgr)
      BY <1>2 DEF SameGrants
    <2> QED BY <1>1, <1>2, <1>5, <2>2, <2>3, <2>7, <2>8, LeaveOK
  <1> QED BY <1>3, <1>4, <1>5

LEMMA ForgetNetworkOK ==
    ASSUME IInv, ForgetNetwork PROVE StepOK
  <1>1. bop \in Operation /\ bop.phase = "forget"
    BY InOperation DEF ForgetNetwork, Phases, IInv
  <1>2. mgr \in Memory /\ docker \in Host
    BY TypesHold DEF IInv
  <1>3. OpInv(mgr, docker, NoOp)
    BY <1>1, ToldQuiets DEF Told, Ending
  <1> DEFINE c == bop.by
             cut == RemoveRules(docker, {c})
             n == [mgr EXCEPT !.ips = mgr.ips \ {c}]
  <1>4. SameBroker(docker, cut) /\ cut \in Host
    BY <1>2, RemoveRulesIs DEF SameBroker
  <1>5. SameMemory(mgr, n)
    <2>1. mgr.ips \ {c} \in SUBSET Conversations
      BY <1>2, SMT DEF Memory
    <2> QED BY <1>2, <2>1, SetIps
  <1>6. SameBroker(docker, docker) /\ SameMemory(mgr, mgr)
    BY <1>2, Alike
  <1> HIDE DEF cut
  <1>7. SameBroker(docker, Disconnect(cut, {c}))
    BY <1>4, DisconnectIs DEF SameBroker
  <1>8. \E m \in {mgr, n}, res \in {"ok", "error"} :
           docker' \in {docker, cut, Disconnect(cut, {c})} /\ Leave(m, res)
    BY DEF ForgetNetwork, cut
  <1> HIDE DEF n
  <1>9. PICK m \in {mgr, n}, res \in {"ok", "error"} :
           docker' \in {docker, cut, Disconnect(cut, {c})} /\ Leave(m, res)
    BY <1>8
  <1>10. SameMemory(mgr, m) /\ SameBroker(docker, docker')
    BY <1>4, <1>5, <1>6, <1>7, <1>9
  <1>11. OpInv(m, docker', NoOp)
    BY <1>3, <1>10, Frame
  <1>12. m \in Memory /\ docker' \in Host /\ SameGrants(mgr, m)
    BY <1>10 DEF SameMemory, SameBroker, SameGrants
  <1> QED BY <1>1, <1>9, <1>11, <1>12, LeaveOK

LEMMA BrokerStepOK ==
    ASSUME IInv, BrokerStep PROVE StepOK
  BY EnsureOK, AccessOK, SyncOK, PruneOK, RestoreOK, ClosingOK, UnownedOK, AbsentOK, RevokeOK,
     RemoveContainerOK, DeauthorizeOK, ForgetNetworkOK DEF BrokerStep

-----------------------------------------------------------------------------
(* The container on its own *)

LEMMA Emptied ==
    ASSUME IInv, NEW e \in Host, docker' = e, e.broker.served = NoRegistry, Gone(e),
           ~Current(mgr, e), UNCHANGED <<mgr, bop, hop>>
    PROVE  StepOK
  <1>1. mgr \in Memory /\ HopsOK(hop) /\ OpInv(mgr, docker, bop) /\ bop \in Operation \cup {NoOp}
    BY TypesHold DEF IInv, Types
  <1>2. \A b \in Bindings : e.broker.served[b] = NoBinding
    BY Empties
  <1>3. Acks(mgr, e)
    BY DEF Acks
  <1>4. Serves(mgr, e, bop)
    BY <1>2 DEF Serves, Good
  <1>5. Applying(mgr, e, bop)
    BY <1>1, <1>2 DEF OpInv, Applying, Of
  <1>6. OpInv(mgr, e, bop)
    BY <1>1, <1>3, <1>4, <1>5 DEF OpInv
  <1> QED BY <1>1, <1>6 DEF StepOK

LEMMA SetRunning ==
    ASSUME NEW d \in Host, NEW k \in BOOLEAN
    PROVE  LET e == [d EXCEPT !.broker.running = k]
           IN /\ e \in Host /\ e.broker.id = d.broker.id /\ e.broker.start = d.broker.start
              /\ e.broker.running = k
  <1> DEFINE x == [d.broker EXCEPT !.running = k]
  <1>1. d.broker \in Container
    BY DEF Host
  <1>2. x \in Container /\ x.id = d.broker.id /\ x.start = d.broker.start /\ x.running = k
    BY <1>1, SMT DEF Container
  <1>3. [d EXCEPT !.broker.running = k] = [d EXCEPT !.broker = x]
    OBVIOUS
  <1> HIDE DEF x
  <1> QED BY <1>2, <1>3, SetBroker

LEMMA SetStart ==
    ASSUME NEW d \in Host, NEW k \in {0, 1}
    PROVE  LET e == [d EXCEPT !.broker.start = k]
           IN /\ e \in Host /\ e.broker.id = d.broker.id /\ e.broker.start = k
              /\ e.broker.served = d.broker.served
  <1> DEFINE x == [d.broker EXCEPT !.start = k]
  <1>1. d.broker \in Container
    BY DEF Host
  <1>2. x \in Container /\ x.id = d.broker.id /\ x.start = k /\ x.served = d.broker.served
    BY <1>1, SMT DEF Container
  <1>3. [d EXCEPT !.broker.start = k] = [d EXCEPT !.broker = x]
    OBVIOUS
  <1> HIDE DEF x
  <1> QED BY <1>2, <1>3, SetBroker

LEMMA ContainerStepOK ==
    ASSUME IInv, BrokerExits \/ BrokerRestarts \/ BrokerVanishes PROVE StepOK
  <1>1. mgr \in Memory /\ docker \in Host
    BY TypesHold DEF IInv
  <1>2. TRUE \in BOOLEAN /\ FALSE \in BOOLEAN /\ NoRegistry \in Registry
    BY Empties
  <1>3. CASE BrokerExits
    <2> DEFINE d1 == [docker EXCEPT !.broker.running = FALSE]
               e == [d1 EXCEPT !.broker.served = NoRegistry]
    <2>1. d1 \in Host /\ d1.broker.running = FALSE
      BY <1>1, <1>2, SetRunning
    <2>2. docker' = e
      BY <1>3 DEF BrokerExits
    <2> HIDE DEF d1
    <2>3. e \in Host /\ e.broker.running = d1.broker.running /\ e.broker.served = NoRegistry
      BY <1>2, <2>1, SetServed
    <2> HIDE DEF e
    <2>4. Gone(e) /\ ~Current(mgr, e)
      BY <2>1, <2>3 DEF Gone, Current
    <2>5. UNCHANGED <<mgr, bop, hop>>
      BY <1>3 DEF BrokerExits
    <2> QED BY <2>2, <2>3, <2>4, <2>5, Emptied
  <1>4. CASE BrokerRestarts
    <2> DEFINE k == IF mgr.seen = <<docker.broker.id, 0>> THEN 1 ELSE 0
               d1 == [docker EXCEPT !.broker.running = TRUE]
               d2 == [d1 EXCEPT !.broker.served = NoRegistry]
               e == [d2 EXCEPT !.broker.start = k]
    <2>1. k \in {0, 1} /\ mgr.seen # <<docker.broker.id, k>>
      BY SMT
    <2>2. docker' = e
      BY <1>4 DEF BrokerRestarts
    <2> HIDE DEF k
    <2>3. d1 \in Host /\ d1.broker.id = docker.broker.id
      BY <1>1, <1>2, SetRunning
    <2> HIDE DEF d1
    <2>4. d2 \in Host /\ d2.broker.id = d1.broker.id /\ d2.broker.served = NoRegistry
      BY <1>2, <2>3, SetServed
    <2> HIDE DEF d2
    <2>5. e \in Host /\ e.broker.id = d2.broker.id /\ e.broker.start = k /\ e.broker.served = d2.broker.served
      BY <2>1, <2>4, SetStart
    <2> HIDE DEF e
    <2>6. Gone(e) /\ ~Current(mgr, e)
      BY <1>4, <2>1, <2>3, <2>4, <2>5 DEF Gone, Current, BrokerRestarts
    <2>7. UNCHANGED <<mgr, bop, hop>>
      BY <1>4 DEF BrokerRestarts
    <2> QED BY <2>2, <2>4, <2>5, <2>6, <2>7, Emptied
  <1>5. CASE BrokerVanishes
    <2> DEFINE e == [docker EXCEPT !.broker = NoContainer]
    <2>1. e \in Host /\ e.broker = NoContainer
      BY <1>1, SetBroker, Empties
    <2>2. docker' = e /\ UNCHANGED <<mgr, bop, hop>>
      BY <1>5 DEF BrokerVanishes
    <2> HIDE DEF e
    <2>3. e.broker.served = NoRegistry /\ Gone(e) /\ ~Current(mgr, e)
      BY <2>1, Empties DEF Gone, Current
    <2> QED BY <2>1, <2>2, <2>3, Emptied
  <1> QED BY <1>3, <1>4, <1>5

-----------------------------------------------------------------------------
(* The start of an operation *)

\* Of the other tenants nothing changes.
Others(m, n, t) ==
    \A b \in Bindings : Owner[b] # t =>
        n.bindings[b] = m.bindings[b] /\ (Owner[b] \in m.active => Owner[b] \in n.active)

Starting == {"ensure", "closing", "unowned", "absent", "revoke", "deauthorize"}

LEMMA Begins ==
    ASSUME IInv, bop.kind = "none", NEW n, Regranted(mgr, n), NEW q \in Operation,
           Others(mgr, n, q.t), q.phase \in Starting,
           q.phase \in {"unowned", "absent"} => n = mgr,
           q.phase = "ensure" => q.t \in n.active, RollingBack(n, q)
    PROVE  OpInv(n, docker, q)
  <1>1. bop = NoOp
    <2>1. "none" \notin OpKinds
      BY DEF OpKinds
    <2> QED BY <2>1 DEF IInv, Types, Operation
  <1>2. /\ Gone(docker) /\ Acks(mgr, docker)
        /\ Knows(mgr, docker) => \A b \in Bindings : Good(mgr, docker, b)
    BY <1>1, Quieted DEF IInv
  <1>3. Acks(n, docker) /\ (Knows(n, docker) <=> Knows(mgr, docker))
    BY <1>2, RegrantedFrame
  <1>4. Serves(n, docker, q)
    <2> SUFFICES ASSUME Knows(n, docker), ~Ending(q), NEW b \in Bindings, Owner[b] # q.t \/ Told(q)
                 PROVE  Good(n, docker, b)
      BY DEF Serves
    <2>1. Good(mgr, docker, b)
      BY <1>2, <1>3
    <2>2. CASE Told(q)
      <3>1. q.phase \in {"unowned", "absent"}
        BY <2>2 DEF Told, Starting
      <3> QED BY <2>1, <3>1
    <2>3. CASE Owner[b] # q.t
      BY <2>1, <2>3 DEF Others, Good, Granted
    <2> QED BY <2>2, <2>3
  <1>5. q.phase \notin {"access", "sync"}
    BY DEF Starting
  <1>6. Applying(n, docker, q)
    BY <1>5 DEF Applying
  <1> QED BY <1>2, <1>3, <1>4, <1>6 DEF OpInv

\* What the start of an operation has to show
Begun(c) ==
    \E q \in Operation :
        /\ bop' = q /\ q.t = TenantOf[c] /\ q.phase \in Starting
        /\ Regranted(mgr, mgr') /\ Others(mgr, mgr', q.t)
        /\ q.phase \in {"unowned", "absent"} => mgr' = mgr
        /\ q.phase = "ensure" => q.t \in mgr'.active
        /\ RollingBack(mgr', q)

LEMMA BegunOK ==
    ASSUME IInv, bop.kind = "none", NEW c \in Conversations, Begun(c), docker' = docker, HopsOK(hop')
    PROVE  StepOK
  <1>1. PICK q \in Operation :
        /\ bop' = q /\ q.t = TenantOf[c] /\ q.phase \in Starting
        /\ Regranted(mgr, mgr') /\ Others(mgr, mgr', q.t)
        /\ q.phase \in {"unowned", "absent"} => mgr' = mgr
        /\ q.phase = "ensure" => q.t \in mgr'.active
        /\ RollingBack(mgr', q)
    BY DEF Begun
  <1>2. OpInv(mgr', docker, q)
    BY <1>1, Begins
  <1>3. docker \in Host /\ mgr' \in Memory
    BY <1>1, TypesHold DEF IInv, Regranted
  <1> QED BY <1>1, <1>2, <1>3 DEF StepOK

LEMMA TenantIs == ASSUME NEW c \in Conversations PROVE TenantOf[c] \in Tenants
  BY OwnersAreTenants

LEMMA LiveIs == ASSUME NEW d \in Host, NEW t PROVE Live(t, d) \in SUBSET Conversations
  BY SMT DEF Live, Host

LEMMA Unregranted == ASSUME NEW m \in Memory, NEW t PROVE Regranted(m, m) /\ Others(m, m, t)
  BY DEF Regranted, Others

\* The grants of tenant t, and its being active, are set.
LEMMA GrantingIs ==
    ASSUME NEW m \in Memory, NEW t, NEW B \in Registry, NEW A \in SUBSET Tenants,
           \A b \in Bindings : Owner[b] # t => B[b] = m.bindings[b],
           \A u \in m.active : u # t => u \in A
    PROVE  /\ Regranted(m, Granting(m, B, A)) /\ Others(m, Granting(m, B, A), t)
           /\ Granting(m, B, A).active = A
  <1> DEFINE n == Granting(m, B, A)
  <1>1. Regranted(m, n) /\ n.bindings = B /\ n.active = A
    BY SetGrants
  <1> HIDE DEF n
  <1>2. Others(m, n, t)
    BY <1>1 DEF Others
  <1> QED BY <1>1, <1>2 DEF n

\* An operation that has nothing to roll back begins.
LEMMA BeginsPlain ==
    ASSUME NEW kind \in OpKinds, NEW c \in Conversations, NEW phase \in Starting,
           NEW skip \in BOOLEAN, NEW B \in Registry, NEW active \in BOOLEAN,
           bop' = Op(kind, c, phase, skip, B, active), kind # "rollback",
           Regranted(mgr, mgr'), Others(mgr, mgr', TenantOf[c]),
           phase \in {"unowned", "absent"} => mgr' = mgr,
           phase = "ensure" => TenantOf[c] \in mgr'.active
    PROVE  Begun(c)
  <1> DEFINE q == Op(kind, c, phase, skip, B, active)
  <1>1. phase \in Phases
    BY DEF Starting, Phases
  <1>2. q \in Operation /\ q.kind = kind /\ q.t = TenantOf[c] /\ q.phase = phase
    BY <1>1, TenantIs, SMT DEF Op, Operation
  <1>3. bop' = q
    OBVIOUS
  <1> HIDE DEF q
  <1>4. RollingBack(mgr', q)
    BY <1>2 DEF RollingBack
  <1> QED BY <1>2, <1>3, <1>4 DEF Begun

LEMMA BeginProvisionOK ==
    ASSUME mgr \in Memory, docker \in Host, NEW c \in Conversations, NEW b \in Bindings,
           Owner[b] = TenantOf[c], NEW ver \in Nat, BeginProvision(c, b, ver)
    PROVE  Begun(c)
  <1> DEFINE t == TenantOf[c]
             live == Live(t, docker)
             R == Refresh(mgr.bindings, t, live)
             x == [ver |-> ver, nets |-> IF Scope[b] = "tenant" THEN live ELSE {c}]
             B == [R EXCEPT ![b] = x]
  <1>1. t \in Tenants /\ mgr.bindings \in Registry /\ mgr.active \in SUBSET Tenants
    BY TenantIs DEF Memory
  <1>2. live \in SUBSET Conversations
    BY LiveIs
  <1>3. "provision" \in OpKinds /\ "ensure" \in Starting /\ "closing" \in Starting
    BY DEF OpKinds, Starting
  <1>4. (t \in mgr.active) \in BOOLEAN /\ FALSE \in BOOLEAN
    BY SMT
  <1>5. \/ /\ mgr' = Granting(mgr, B, mgr.active \cup {t})
           /\ bop' = Op("provision", c, "ensure", FALSE, mgr.bindings, t \in mgr.active)
        \/ /\ mgr' = mgr
           /\ bop' = Op("provision", c, "closing", FALSE, mgr.bindings, t \in mgr.active)
    BY DEF BeginProvision, Granting
  <1>6. CASE /\ mgr' = Granting(mgr, B, mgr.active \cup {t})
             /\ bop' = Op("provision", c, "ensure", FALSE, mgr.bindings, t \in mgr.active)
    <2> HIDE DEF live
    <2>1. R \in Registry /\ \A a \in Bindings : Owner[a] # t => R[a] = mgr.bindings[a]
      BY <1>1, <1>2, RefreshIs
    <2>2. x \in Binding
      BY <1>2, SMT DEF Binding
    <2> HIDE DEF R, x
    <2>3. B \in Registry /\ \A a \in Bindings : Owner[a] # t => B[a] = mgr.bindings[a]
      BY <2>1, <2>2 DEF Registry
    <2> HIDE DEF B
    <2> DEFINE A == mgr.active \cup {t}
    <2>4. A \in SUBSET Tenants /\ (\A u \in mgr.active : u # t => u \in A) /\ t \in A
      BY <1>1
    <2> HIDE DEF A
    <2>5. Regranted(mgr, Granting(mgr, B, A)) /\ Others(mgr, Granting(mgr, B, A), t) /\ Granting(mgr, B, A).active = A
      BY <2>3, <2>4, GrantingIs, SMT
    <2>6. Regranted(mgr, mgr') /\ Others(mgr, mgr', t) /\ t \in mgr'.active
      BY <1>6, <2>4, <2>5 DEF A
    <2> QED BY <1>1, <1>3, <1>4, <1>6, <2>6, BeginsPlain
  <1>7. CASE /\ mgr' = mgr
             /\ bop' = Op("provision", c, "closing", FALSE, mgr.bindings, t \in mgr.active)
    <2>1. Regranted(mgr, mgr') /\ Others(mgr, mgr', t)
      BY <1>7, Unregranted
    <2> QED BY <1>1, <1>3, <1>4, <1>7, <2>1, BeginsPlain
  <1> QED BY <1>5, <1>6, <1>7

LEMMA BeginPrepareOK ==
    ASSUME mgr \in Memory, docker \in Host, NEW c \in Conversations, BeginPrepare(c)
    PROVE  Begun(c)
  <1> DEFINE t == TenantOf[c]
             live == Live(t, docker)
             B == Refresh(mgr.bindings, t, live)
             A == mgr.active \cup {t}
             op(phase) == Op("prepare", c, phase, TRUE, mgr.bindings, t \in mgr.active)
  <1>1. t \in Tenants /\ mgr.bindings \in Registry /\ mgr.active \in SUBSET Tenants
    BY TenantIs DEF Memory
  <1>2. "prepare" \in OpKinds /\ "ensure" \in Starting /\ "closing" \in Starting /\ "unowned" \in Starting
    BY DEF OpKinds, Starting
  <1>3. (t \in mgr.active) \in BOOLEAN /\ TRUE \in BOOLEAN
    BY SMT
  <1>4. \/ mgr' = mgr /\ bop' = op("unowned")
        \/ mgr' = mgr /\ bop' = op("closing")
        \/ mgr' = Granting(mgr, B, A) /\ bop' = op("ensure")
    BY DEF BeginPrepare, Granting
  <1>5. CASE mgr' = Granting(mgr, B, A) /\ bop' = op("ensure")
    <2>1. live \in SUBSET Conversations
      BY LiveIs
    <2> HIDE DEF live
    <2>2. B \in Registry /\ \A a \in Bindings : Owner[a] # t => B[a] = mgr.bindings[a]
      BY <1>1, <2>1, RefreshIs
    <2> HIDE DEF B
    <2>3. A \in SUBSET Tenants /\ (\A u \in mgr.active : u # t => u \in A) /\ t \in A
      BY <1>1
    <2> HIDE DEF A
    <2>4. Regranted(mgr, Granting(mgr, B, A)) /\ Others(mgr, Granting(mgr, B, A), t) /\ Granting(mgr, B, A).active = A
      BY <2>2, <2>3, GrantingIs, SMT
    <2>5. Regranted(mgr, mgr') /\ Others(mgr, mgr', t) /\ t \in mgr'.active
      BY <1>5, <2>3, <2>4
    <2> QED BY <1>1, <1>2, <1>3, <1>5, <2>5, BeginsPlain
  <1>6. CASE mgr' = mgr /\ (bop' = op("unowned") \/ bop' = op("closing"))
    <2>1. Regranted(mgr, mgr') /\ Others(mgr, mgr', t)
      BY <1>6, Unregranted
    <2> QED BY <1>1, <1>2, <1>3, <1>6, <2>1, BeginsPlain
  <1> QED BY <1>4, <1>5, <1>6

\* revoke_http, remove_unused and cleanup_network: grants of one tenant are dropped.
LEMMA DropBegins ==
    ASSUME mgr \in Memory, NEW c \in Conversations, NEW B \in Registry,
           \A b \in Bindings : Owner[b] # TenantOf[c] => B[b] = mgr.bindings[b],
           NEW kind \in OpKinds, NEW phase \in {"revoke", "deauthorize"}, kind # "rollback",
           mgr' = mgr \/ mgr' = Drop(mgr, TenantOf[c], B),
           bop' = Op(kind, c, phase, FALSE, NoRegistry, FALSE)
    PROVE  Begun(c)
  <1> DEFINE t == TenantOf[c]
             A == IF Empty(B, t) THEN mgr.active \ {t} ELSE mgr.active
  <1>1. A \in SUBSET Tenants /\ \A u \in mgr.active : u # t => u \in A
    BY DEF Memory
  <1>2. mgr' = mgr \/ mgr' = Granting(mgr, B, A)
    BY DEF Drop, Granting
  <1> HIDE DEF A
  <1>3. Regranted(mgr, Granting(mgr, B, A)) /\ Others(mgr, Granting(mgr, B, A), t)
    BY <1>1, GrantingIs, SMT
  <1>5. Regranted(mgr, mgr') /\ Others(mgr, mgr', t)
    BY <1>2, <1>3, Unregranted
  <1>6. phase \in Starting /\ phase \notin {"unowned", "absent", "ensure"}
    BY DEF Starting
  <1>7. NoRegistry \in Registry /\ FALSE \in BOOLEAN
    BY Empties
  <1> QED BY <1>5, <1>6, <1>7, BeginsPlain

LEMMA BeginRevokeOK ==
    ASSUME mgr \in Memory, NEW c \in Conversations, NEW b \in Bindings, Owner[b] = TenantOf[c],
           BeginRevoke(c, b)
    PROVE  Begun(c)
  <1> DEFINE B == [mgr.bindings EXCEPT ![b] = NoBinding]
  <1>1. B \in Registry /\ \A a \in Bindings : Owner[a] # TenantOf[c] => B[a] = mgr.bindings[a]
    BY Empties DEF Memory, Registry
  <1>2. mgr' = mgr \/ mgr' = Drop(mgr, TenantOf[c], B)
    BY DEF BeginRevoke
  <1>3. bop' = Op("revoke", c, "revoke", FALSE, NoRegistry, FALSE)
    BY DEF BeginRevoke
  <1> HIDE DEF B
  <1>4. "revoke" \in OpKinds
    BY DEF OpKinds
  <1> QED BY <1>1, <1>2, <1>3, <1>4, DropBegins

LEMMA BeginUnusedOK ==
    ASSUME mgr \in Memory, docker \in Host, NEW c \in Conversations, BeginUnused(c)
    PROVE  Begun(c)
  <1> DEFINE live == Live(TenantOf[c], docker)
             B == Refresh(mgr.bindings, TenantOf[c], live)
  <1>1. mgr' = Drop(mgr, TenantOf[c], B) /\ bop' = Op("unused", c, "revoke", FALSE, NoRegistry, FALSE)
    BY DEF BeginUnused
  <1>2. live \in SUBSET Conversations /\ mgr.bindings \in Registry
    BY LiveIs DEF Memory
  <1> HIDE DEF live
  <1>3. B \in Registry /\ \A a \in Bindings : Owner[a] # TenantOf[c] => B[a] = mgr.bindings[a]
    BY <1>2, RefreshIs
  <1> HIDE DEF B
  <1>4. "unused" \in OpKinds
    BY DEF OpKinds
  <1> QED BY <1>1, <1>3, <1>4, DropBegins

LEMMA BeginCleanupOK ==
    ASSUME mgr \in Memory, NEW c \in Conversations, BeginCleanup(c)
    PROVE  Begun(c)
  <1> DEFINE B == Without(mgr.bindings, TenantOf[c], c)
  <1>1. mgr' = Drop(mgr, TenantOf[c], B) /\ bop' = Op("cleanup", c, "deauthorize", FALSE, NoRegistry, FALSE)
    BY DEF BeginCleanup
  <1>2. mgr.bindings \in Registry
    BY DEF Memory
  <1>3. B \in Registry /\ \A a \in Bindings : Owner[a] # TenantOf[c] => B[a] = mgr.bindings[a]
    BY <1>2, WithoutIs, SMT
  <1> HIDE DEF B
  <1>4. "cleanup" \in OpKinds
    BY DEF OpKinds
  <1> QED BY <1>1, <1>3, <1>4, DropBegins

LEMMA BeginInactiveOK ==
    ASSUME mgr \in Memory, NEW c \in Conversations, BeginInactive(c)
    PROVE  Begun(c)
  <1> DEFINE t == TenantOf[c]
             A == mgr.active \ {t}
  <1>1. \/ mgr' = mgr /\ bop' = Op("inactive", c, "absent", FALSE, NoRegistry, FALSE)
        \/ mgr' = [mgr EXCEPT !.active = A] /\ bop' = Op("inactive", c, "revoke", FALSE, NoRegistry, FALSE)
    <2> DEFINE busy == \E x \in Conversations : TenantOf[x] = t /\ docker.box[x] = "running"
    <2>1. /\ mgr' = IF busy THEN mgr ELSE [mgr EXCEPT !.active = A]
          /\ bop' = Op("inactive", c, IF busy THEN "absent" ELSE "revoke", FALSE, NoRegistry, FALSE)
      BY DEF BeginInactive
    <2> HIDE DEF busy
    <2>2. CASE busy
      BY <2>1, <2>2
    <2>3. CASE ~busy
      BY <2>1, <2>3
    <2> QED BY <2>2, <2>3
  <1>2. mgr.bindings \in Registry /\ A \in SUBSET Tenants /\ \A u \in mgr.active : u # t => u \in A
    BY DEF Memory
  <1>3. "inactive" \in OpKinds /\ "absent" \in Starting /\ "revoke" \in Starting
    BY DEF OpKinds, Starting
  <1>4. NoRegistry \in Registry /\ FALSE \in BOOLEAN
    BY Empties
  <1>5. CASE mgr' = mgr /\ bop' = Op("inactive", c, "absent", FALSE, NoRegistry, FALSE)
    <2>1. Regranted(mgr, mgr') /\ Others(mgr, mgr', t)
      BY <1>5, Unregranted
    <2> QED BY <1>3, <1>4, <1>5, <2>1, BeginsPlain
  <1>6. CASE /\ mgr' = [mgr EXCEPT !.active = A]
             /\ bop' = Op("inactive", c, "revoke", FALSE, NoRegistry, FALSE)
    <2> HIDE DEF A
    <2> DEFINE n == [mgr EXCEPT !.active = A]
    <2>1. Regranted(mgr, n) /\ n.bindings = mgr.bindings /\ n.active = A
      BY <1>2, SMT DEF Memory, Regranted
    <2> HIDE DEF n
    <2>2. Others(mgr, n, t)
      BY <1>2, <2>1 DEF Others
    <2>3. Regranted(mgr, mgr') /\ Others(mgr, mgr', t)
      BY <1>6, <2>1, <2>2 DEF n
    <2> QED BY <1>3, <1>4, <1>6, <2>3, BeginsPlain
  <1> QED BY <1>1, <1>5, <1>6

LEMMA BeginRollbackOK ==
    ASSUME mgr \in Memory, NEW c \in Conversations, NEW prep \in Returned, BeginRollback(c, prep)
    PROVE  Begun(c)
  <1> DEFINE t == TenantOf[c]
             P == prep.bindings
             M == Merge(mgr.bindings, P, t)
             B == Without(M, t, c)
             k == prep.active /\ ~Empty(B, t)
             q == Op("rollback", c, "deauthorize", FALSE, P, prep.active)
  <1>1. /\ t \in Tenants /\ P \in Registry /\ mgr.bindings \in Registry /\ prep.active \in BOOLEAN
        /\ mgr.active \in SUBSET Tenants
    BY TenantIs DEF Memory, Returned
  <1>2. mgr' = RestoreTenant(mgr, t, B, k) /\ bop' = q
    BY DEF BeginRollback, Merge
  <1>3. k \in BOOLEAN /\ (k => prep.active)
    BY SMT
  <1>4. "rollback" \in OpKinds /\ "deauthorize" \in Starting /\ "deauthorize" \in Phases
    BY DEF OpKinds, Starting, Phases
  <1>5. /\ q \in Operation /\ q.t = t /\ q.phase = "deauthorize" /\ q.bindings = P
        /\ q.by = c /\ q.active = prep.active
    BY <1>1, <1>4, SMT DEF Op, Operation
  <1> HIDE DEF P, k, q
  <1>6. M \in Registry /\ \A b \in Bindings : M[b] = IF Owner[b] = t THEN P[b] ELSE mgr.bindings[b]
    BY <1>1, MergeIs, SMT
  <1> HIDE DEF M
  <1>7. B \in Registry /\ \A b \in Of(t) : B[b] = Without(P, t, c)[b]
    <2>1. \A b \in Of(t) : M[b] = P[b]
      BY <1>6 DEF Of
    <2>2. B \in Registry
      BY <1>6, WithoutIs, SMT
    <2> QED BY <2>1, <2>2 DEF Without, Of
  <1> HIDE DEF B
  <1>8. Restored(mgr, t, B, k, RestoreTenant(mgr, t, B, k))
    BY <1>1, <1>3, <1>7, RestoreTenantIs, SMT
  <1>9. Restored(mgr, t, B, k, mgr')
    BY <1>2, <1>8
  <1>10. /\ Regranted(mgr, mgr')
         /\ \A b \in Bindings : mgr'.bindings[b] = IF Owner[b] = t THEN B[b] ELSE mgr.bindings[b]
         /\ mgr'.active = IF k THEN mgr.active \cup {t} ELSE mgr.active \ {t}
    BY <1>9 DEF Restored
  <1>11. Others(mgr, mgr', t)
    BY <1>10 DEF Others
  <1>12. RollingBack(mgr', q)
    <2>1. \A b \in Of(t) : mgr'.bindings[b] = Without(P, t, c)[b]
      BY <1>7, <1>10 DEF Of
    <2>2. t \in mgr'.active => prep.active
      BY <1>3, <1>10
    <2> QED BY <1>5, <2>1, <2>2 DEF RollingBack
  <1> QED BY <1>2, <1>4, <1>5, <1>10, <1>11, <1>12 DEF Begun

-----------------------------------------------------------------------------
(* The steps of the sandbox manager *)

LEMMA SetNetworks ==
    ASSUME NEW d \in Host, NEW S \in SUBSET Conversations
    PROVE  /\ SameBroker(d, [d EXCEPT !.net = S])
           /\ SameBroker(d, [d EXCEPT !.late = S])
           /\ SameBroker(d, [d EXCEPT !.drop = S])
           /\ SameBroker(d, [d EXCEPT !.allow = S])
           /\ SameBroker(d, [d EXCEPT !.proxy = S])
  <1>1. SameBroker(d, [d EXCEPT !.net = S])
    BY SMT DEF Host, SameBroker
  <1>2. SameBroker(d, [d EXCEPT !.late = S])
    BY SMT DEF Host, SameBroker
  <1>3. SameBroker(d, [d EXCEPT !.drop = S])
    BY SMT DEF Host, SameBroker
  <1>4. SameBroker(d, [d EXCEPT !.allow = S])
    BY SMT DEF Host, SameBroker
  <1>5. SameBroker(d, [d EXCEPT !.proxy = S])
    BY SMT DEF Host, SameBroker
  <1> QED BY <1>1, <1>2, <1>3, <1>4, <1>5

LEMMA SetOld ==
    ASSUME NEW d \in Host, NEW k \in BOOLEAN PROVE SameBroker(d, [d EXCEPT !.old = k])
  BY SMT DEF Host, SameBroker

LEMMA SetBoxes ==
    ASSUME NEW d \in Host, NEW f \in [Conversations -> {"none", "running", "stopped"}]
    PROVE  SameBroker(d, [d EXCEPT !.box = f])
  BY SMT DEF Host, SameBroker

LEMMA SetBox ==
    ASSUME NEW d \in Host, NEW c, NEW x \in {"none", "running", "stopped"}
    PROVE  SameBroker(d, [d EXCEPT !.box[c] = x])
  <1> DEFINE f == [d.box EXCEPT ![c] = x]
  <1>1. d.box \in [Conversations -> {"none", "running", "stopped"}]
    BY DEF Host
  <1>2. f \in [Conversations -> {"none", "running", "stopped"}]
    BY <1>1
  <1>3. [d EXCEPT !.box[c] = x] = [d EXCEPT !.box = f]
    OBVIOUS
  <1> HIDE DEF f
  <1> QED BY <1>2, <1>3, SetBoxes

LEMMA Onwards ==
    ASSUME NEW d, NEW e, NEW f, SameBroker(d, e), SameBroker(e, f) PROVE SameBroker(d, f)
  BY DEF SameBroker

LEMMA ToOK ==
    ASSUME HopsOK(hop), NEW c \in Conversations, NEW phase, To(c, phase) \/ Err(c, phase)
    PROVE  HopsOK(hop')
  <1>1. HopOK(hop[c])
    BY DEF HopsOK
  <1>2. CASE To(c, phase)
    <2>1. hop' = [hop EXCEPT ![c] = [hop[c] EXCEPT !.phase = phase]]
      BY <1>2 DEF To
    <2> QED BY <1>1, <2>1, SetHop, SetOneHop
  <1>3. CASE Err(c, phase)
    <2>1. hop' = [hop EXCEPT ![c] = [hop[c] EXCEPT !.phase = phase, !.err = TRUE]]
      BY <1>3 DEF Err
    <2> QED BY <1>1, <2>1, SetHop, SetOneHop
  <1> QED BY <1>2, <1>3

Reserving(c) == hop' = [hop EXCEPT ![c].phase = "tenant", ![c].reserved = TRUE]

LEMMA ReservingOK ==
    ASSUME HopsOK(hop), NEW c \in Conversations, Reserving(c) PROVE HopsOK(hop')
  <1> DEFINE x == [hop[c] EXCEPT !.phase = "tenant", !.reserved = TRUE]
  <1>1. HopOK(hop[c])
    BY DEF HopsOK
  <1>2. hop' = [hop EXCEPT ![c] = x]
    BY DEF Reserving
  <1>3. HopOK(x)
    BY <1>1, SetHop
  <1> HIDE DEF x
  <1> QED BY <1>2, <1>3, SetOneHop

LEMMA EndOK ==
    ASSUME HopsOK(hop), NEW c \in Conversations, End(c) PROVE HopsOK(hop')
  BY IdleIs, SetOneHop DEF End

LEMMA BeginOK ==
    ASSUME HopsOK(hop), NEW c \in Conversations, NEW kind, NEW phase, NEW claim,
           Begin(c, kind, phase, claim)
    PROVE  HopsOK(hop')
  <1> DEFINE x == [Idle EXCEPT !.kind = kind, !.phase = phase, !.claim = claim]
  <1>1. HopOK(x)
    BY IdleIs DEF HopOK, HopFields
  <1>2. hop' = [hop EXCEPT ![c] = x]
    BY DEF Begin
  <1> HIDE DEF x
  <1> QED BY <1>1, <1>2, SetOneHop

\* A step beside the broker's operations
Beside == mgr' = mgr /\ bop' = bop /\ SameBroker(docker, docker') /\ HopsOK(hop')

LEMMA BesideOK ==
    ASSUME IInv, Beside PROVE StepOK
  <1>1. mgr \in Memory /\ SameMemory(mgr, mgr) /\ bop \in Operation \cup {NoOp}
    BY TypesHold, Alike DEF IInv, Types
  <1>2. docker' \in Host
    BY DEF Beside, SameBroker
  <1>3. OpInv(mgr, docker', bop)
    BY <1>1, Frame DEF IInv, Beside
  <1> QED BY <1>1, <1>2, <1>3 DEF Beside, StepOK

LEMMA Still ==
    ASSUME IInv, docker' = docker PROVE SameBroker(docker, docker')
  BY TypesHold, Alike DEF IInv

LEMMA UnexceptedIs ==
    ASSUME NEW d \in Host, NEW S PROVE SameBroker(d, Unexcepted(d, S))
  <1>1. d.allow \ S \in SUBSET Conversations
    BY SMT DEF Host
  <1> QED BY <1>1, SetNetworks DEF Unexcepted

LEMMA CurrentProxyIs ==
    ASSUME NEW d \in Host PROVE SameBroker(d, CurrentProxy(d))
  <1> DEFINE e == Unexcepted(d, d.proxy)
             f == [e EXCEPT !.old = FALSE]
             g == [f EXCEPT !.proxy = {}]
  <1>1. SameBroker(d, e) /\ e \in Host
    BY UnexceptedIs DEF SameBroker
  <1>2. ReplaceOutdated(d) = g
    BY DEF ReplaceOutdated
  <1> HIDE DEF e
  <1>3. SameBroker(e, f) /\ f \in Host
    BY <1>1, SetOld DEF SameBroker
  <1> HIDE DEF f
  <1>4. SameBroker(f, g)
    BY <1>3, SetNetworks
  <1> HIDE DEF g
  <1>5. SameBroker(d, g)
    BY <1>1, <1>3, <1>4, Onwards
  <1>6. SameBroker(d, d)
    BY DEF SameBroker
  <1> QED BY <1>2, <1>5, <1>6 DEF CurrentProxy

LEMMA PolicyIs ==
    ASSUME NEW d \in Host, NEW c \in Conversations
    PROVE  /\ SameBroker(d, EnsureNetwork(d, c))
           /\ SameBroker(d, ConnectProxy(d, c))
           /\ SameBroker(d, Policy(d, c))
  <1>1. /\ d.net \cup {c} \in SUBSET Conversations /\ d.proxy \cup {c} \in SUBSET Conversations
        /\ d.drop \cup {c} \in SUBSET Conversations
    BY SMT DEF Host
  <1>2. SameBroker(d, EnsureNetwork(d, c)) /\ SameBroker(d, ConnectProxy(d, c))
    BY <1>1, SetNetworks DEF EnsureNetwork, ConnectProxy
  <1> DEFINE e == [d EXCEPT !.drop = d.drop \cup {c}]
             f == [e EXCEPT !.allow = e.allow \cup {c}]
  <1>3. SameBroker(d, e) /\ e \in Host
    BY <1>1, SetNetworks DEF SameBroker
  <1>4. Policy(d, c) = f
    BY DEF Policy
  <1> HIDE DEF e
  <1>5. e.allow \cup {c} \in SUBSET Conversations
    BY <1>3, SMT DEF Host
  <1>6. SameBroker(e, f)
    BY <1>3, <1>5, SetNetworks
  <1> HIDE DEF f
  <1>7. SameBroker(d, f)
    BY <1>3, <1>6, Onwards
  <1> QED BY <1>2, <1>4, <1>7

LEMMA EgressOutcomesAre ==
    ASSUME mgr \in Memory, NEW d \in Host, NEW c \in Conversations, NEW o \in EgressOutcomes(d, c)
    PROVE  Aside(mgr, d, o)
  <1> DEFINE base == CurrentProxy(d)
             net == EnsureNetwork(base, c)
             joined == ConnectProxy(net, c)
             ruled == Policy(joined, c)
             early == Policy(base, c)
  <1>1. PICK e : /\ \/ e \in {d, base, net, joined, ruled, early}
                    \/ \E S : e = Unexcepted(d, S)
                 /\ o = Sure(mgr, e) \/ o = Refused(mgr, e) \/ o = Failed(mgr, e) \/ o = Result(mgr, e, FALSE, 2)
    BY DEF EgressOutcomes
  <1>2. SameBroker(d, base) /\ base \in Host
    BY CurrentProxyIs DEF SameBroker
  <1> HIDE DEF base
  <1>3. SameBroker(base, net) /\ SameBroker(base, early) /\ net \in Host
    BY <1>2, PolicyIs DEF SameBroker
  <1> HIDE DEF net, early
  <1>4. SameBroker(net, joined) /\ joined \in Host
    BY <1>3, PolicyIs DEF SameBroker
  <1> HIDE DEF joined
  <1>5. SameBroker(joined, ruled)
    BY <1>4, PolicyIs
  <1> HIDE DEF ruled
  <1>6. SameBroker(d, net) /\ SameBroker(d, early)
    BY <1>2, <1>3, Onwards
  <1>7. SameBroker(d, joined)
    BY <1>4, <1>6, Onwards
  <1>8. SameBroker(d, ruled)
    BY <1>5, <1>7, Onwards
  <1>9. SameBroker(d, e)
    BY <1>1, <1>2, <1>6, <1>7, <1>8, UnexceptedIs, Alike
  <1>10. SameMemory(mgr, mgr)
    BY Alike
  <1> QED BY <1>1, <1>9, <1>10, AsideResults

\* Steps that leave manager, broker and host alone
LEMMA QuietStepsOK ==
    ASSUME IInv, NEW c \in Conversations,
           \/ Reserve(c) \/ Admit(c) \/ TakeTenantLock(c) \/ Find(c) \/ Release(c)
           \/ BeginAcquire(c) \/ BeginStop(c) \/ BeginDestroy(c) \/ BeginRevoking(c)
           \/ CancelWait(c) \/ ClaimRelease(c)
    PROVE  StepOK /\ version' = version
  <1>1. HopsOK(hop) /\ (docker' = docker => SameBroker(docker, docker'))
    BY TypesHold, Still DEF IInv
  <1> SUFFICES mgr' = mgr /\ bop' = bop /\ docker' = docker /\ HopsOK(hop') /\ version' = version
    BY <1>1, BesideOK DEF Beside
  <1>2. CASE Reserve(c)
    <2>1. Reserving(c) \/ \E phase : To(c, phase)
      BY <1>2 DEF Reserve, Reserving
    <2>2. HopsOK(hop')
      BY <1>1, <2>1, ToOK, ReservingOK
    <2> QED BY <1>2, <2>2 DEF Reserve, brokerVars
  <1>3. CASE Admit(c)
    <2>1. Reserving(c)
      BY <1>3 DEF Admit, Reserving
    <2> QED BY <1>1, <1>3, <2>1, ReservingOK DEF Admit, brokerVars
  <1>4. CASE TakeTenantLock(c)
    BY <1>1, <1>4, ToOK DEF TakeTenantLock, brokerVars
  <1>5. CASE Find(c)
    <2>1. End(c) \/ \E phase : To(c, phase)
      BY <1>5 DEF Find
    <2>2. HopsOK(hop')
      BY <1>1, <2>1, ToOK, EndOK
    <2> QED BY <1>5, <2>2 DEF Find
  <1>6. CASE Release(c)
    BY <1>1, <1>6, EndOK DEF Release, brokerVars
  <1>7. CASE BeginAcquire(c) \/ BeginStop(c) \/ BeginDestroy(c) \/ BeginRevoking(c)
    BY <1>1, <1>7, BeginOK DEF BeginAcquire, BeginStop, BeginDestroy, BeginRevoking, brokerVars
  <1>8. CASE CancelWait(c)
    BY <1>1, <1>8, EndOK DEF CancelWait, brokerVars
  <1>9. CASE ClaimRelease(c)
    BY <1>1, <1>9, BeginOK DEF ClaimRelease, brokerVars
  <1> QED BY <1>2, <1>3, <1>4, <1>5, <1>6, <1>7, <1>8, <1>9

LEMMA BeginProvisioningOK ==
    ASSUME IInv, NEW c \in Conversations, BeginProvisioning(c)
    PROVE  StepOK /\ version' \in Nat
  <1> DEFINE x == [Idle EXCEPT !.kind = "provision", !.phase = "tenant", !.ver = version']
  <1>1. version' = version + 1 /\ hop' = [hop EXCEPT ![c] = x]
    BY DEF BeginProvisioning
  <1>2. version' \in Nat
    BY <1>1, SMT DEF IInv, Types
  <1>3. HopOK(x)
    BY <1>2, IdleIs DEF HopOK, HopFields
  <1> HIDE DEF x
  <1>4. HopsOK(hop')
    BY <1>1, <1>3, SetOneHop, TypesHold DEF IInv
  <1>5. mgr' = mgr /\ bop' = bop /\ docker' = docker
    BY DEF BeginProvisioning, brokerVars
  <1> QED BY <1>2, <1>4, <1>5, Still, BesideOK DEF Beside

LEMMA RecoverOK ==
    ASSUME IInv, NEW c \in Conversations, Recover(c)
    PROVE  StepOK /\ version' = version
  <1> DEFINE f == [x \in Conversations |-> IF docker.box[x] = "running" THEN "stopped" ELSE docker.box[x]]
  <1>1. docker \in Host /\ HopsOK(hop)
    BY TypesHold DEF IInv
  <1>2. f \in [Conversations -> {"none", "running", "stopped"}]
    BY <1>1, SMT DEF Host
  <1>3. docker' = docker \/ docker' = [docker EXCEPT !.box = f]
    BY DEF Recover
  <1>4. mgr' = mgr /\ bop' = bop /\ version' = version /\ (End(c) \/ \E phase : To(c, phase))
    BY DEF Recover
  <1> HIDE DEF f
  <1>5. SameBroker(docker, docker')
    BY <1>1, <1>2, <1>3, SetBoxes, Still
  <1>6. HopsOK(hop')
    BY <1>1, <1>4, ToOK, EndOK
  <1> QED BY <1>4, <1>5, <1>6, BesideOK DEF Beside

LEMMA EgressOK ==
    ASSUME IInv, NEW c \in Conversations, Egress(c)
    PROVE  StepOK /\ version' = version
  <1>1. mgr \in Memory /\ docker \in Host /\ HopsOK(hop) /\ bop \in Operation \cup {NoOp}
    BY TypesHold DEF IInv, Types
  <1>2. PICK o \in EgressOutcomes(docker, c) : Take(o) /\ \E phase : To(c, phase) \/ Err(c, phase)
    BY DEF Egress
  <1>3. Aside(mgr, docker, o)
    BY <1>1, EgressOutcomesAre
  <1>4. mgr' = o.m /\ docker' = o.d /\ bop' = bop /\ version' = version
    BY <1>2 DEF Take, Egress
  <1>5. HopsOK(hop')
    BY <1>1, <1>2, ToOK
  <1>6. OpInv(mgr', docker', bop)
    BY <1>3, <1>4, Frame DEF IInv, Aside
  <1>7. mgr' \in Memory /\ docker' \in Host
    BY <1>3, <1>4 DEF Aside, SameMemory, SameBroker
  <1> QED BY <1>1, <1>4, <1>5, <1>6, <1>7 DEF StepOK

LEMMA RunOK ==
    ASSUME IInv, NEW c \in Conversations, Run(c)
    PROVE  StepOK /\ version' = version
  <1>1. docker \in Host /\ HopsOK(hop)
    BY TypesHold DEF IInv
  <1> DEFINE S == docker.late \cup {c}
  <1>2. S \in SUBSET Conversations
    BY <1>1, SMT DEF Host
  <1>3. docker' \in {docker, Started(docker, c), [docker EXCEPT !.late = S]}
    BY DEF Run
  <1>4. mgr' = mgr /\ bop' = bop /\ version' = version /\ (End(c) \/ \E phase : Err(c, phase))
    BY DEF Run
  <1> HIDE DEF S
  <1>5. SameBroker(docker, Started(docker, c))
    BY <1>1, SetBox DEF Started
  <1>6. SameBroker(docker, docker')
    BY <1>1, <1>2, <1>3, <1>5, SetNetworks, Still
  <1>7. HopsOK(hop')
    BY <1>1, <1>4, ToOK, EndOK
  <1> QED BY <1>4, <1>6, <1>7, BesideOK DEF Beside

LEMMA LateRunOK ==
    ASSUME IInv, NEW c \in Conversations, LateRun(c)
    PROVE  StepOK /\ version' = version
  <1>1. docker \in Host /\ HopsOK(hop)
    BY TypesHold DEF IInv
  <1> DEFINE S == docker.late \ {c}
             e == [docker EXCEPT !.late = S]
             x == IF c \in docker.net /\ docker.box[c] = "none" THEN "running" ELSE docker.box[c]
  <1>2. S \in SUBSET Conversations /\ x \in {"none", "running", "stopped"}
    BY <1>1, SMT DEF Host
  <1>3. docker' = [e EXCEPT !.box[c] = x]
    BY DEF LateRun
  <1>4. mgr' = mgr /\ bop' = bop /\ version' = version /\ hop' = hop
    BY DEF LateRun, hostVars
  <1> HIDE DEF S, x
  <1>5. SameBroker(docker, e) /\ e \in Host
    BY <1>1, <1>2, SetNetworks DEF SameBroker
  <1> HIDE DEF e
  <1>6. SameBroker(e, docker')
    BY <1>2, <1>3, <1>5, SetBox
  <1>7. SameBroker(docker, docker')
    BY <1>5, <1>6, Onwards
  <1> QED BY <1>1, <1>4, <1>7, BesideOK DEF Beside

LEMMA UnallowOK ==
    ASSUME IInv, NEW c \in Conversations, Unallow(c)
    PROVE  StepOK /\ version' = version
  <1>1. docker \in Host /\ HopsOK(hop)
    BY TypesHold DEF IInv
  <1> DEFINE S == docker.allow \ {c}
             cut == [docker EXCEPT !.allow = S]
             P == cut.proxy \ {c}
  <1>2. S \in SUBSET Conversations
    BY <1>1, SMT DEF Host
  <1>3. docker' \in {docker, cut, [cut EXCEPT !.proxy = P]}
    BY DEF Unallow
  <1>4. mgr' = mgr /\ bop' = bop /\ version' = version /\ \E phase : To(c, phase) \/ Err(c, phase)
    BY DEF Unallow
  <1> HIDE DEF S
  <1>5. SameBroker(docker, cut) /\ cut \in Host
    BY <1>1, <1>2, SetNetworks DEF SameBroker
  <1> HIDE DEF cut
  <1>6. P \in SUBSET Conversations
    BY <1>5, SMT DEF Host
  <1> HIDE DEF P
  <1>7. SameBroker(cut, [cut EXCEPT !.proxy = P])
    BY <1>5, <1>6, SetNetworks
  <1>8. SameBroker(docker, [cut EXCEPT !.proxy = P])
    BY <1>5, <1>7, Onwards
  <1>9. SameBroker(docker, docker)
    BY <1>1 DEF SameBroker
  <1>10. SameBroker(docker, docker')
    BY <1>3, <1>5, <1>8, <1>9
  <1>11. HopsOK(hop')
    BY <1>1, <1>4, ToOK
  <1> QED BY <1>4, <1>10, <1>11, BesideOK DEF Beside

LEMMA RemoveNetworkOK ==
    ASSUME IInv, NEW c \in Conversations, RemoveNetwork(c)
    PROVE  StepOK /\ version' = version
  <1>1. docker \in Host /\ HopsOK(hop)
    BY TypesHold DEF IInv
  <1> DEFINE S == docker.net \ {c}
             e == [docker EXCEPT !.net = S]
             A == e.broker.attached \ {c}
  <1>2. S \in SUBSET Conversations
    BY <1>1, SMT DEF Host
  <1>3. docker' \in {docker, [e EXCEPT !.broker.attached = A]}
    BY DEF RemoveNetwork
  <1>4. mgr' = mgr /\ bop' = bop /\ version' = version /\ \E phase : To(c, phase) \/ Err(c, phase)
    BY DEF RemoveNetwork
  <1> HIDE DEF S
  <1>5. SameBroker(docker, e) /\ e \in Host
    BY <1>1, <1>2, SetNetworks DEF SameBroker
  <1> HIDE DEF e
  <1>6. A \in SUBSET Conversations
    BY <1>5, SMT DEF Host, Container
  <1> HIDE DEF A
  <1>7. SameBroker(e, [e EXCEPT !.broker.attached = A])
    BY <1>5, <1>6, SetAttached
  <1>8. SameBroker(docker, [e EXCEPT !.broker.attached = A])
    BY <1>5, <1>7, Onwards
  <1>9. SameBroker(docker, docker)
    BY <1>1 DEF SameBroker
  <1>10. SameBroker(docker, docker')
    BY <1>3, <1>5, <1>8, <1>9
  <1>11. HopsOK(hop')
    BY <1>1, <1>4, ToOK
  <1> QED BY <1>4, <1>10, <1>11, BesideOK DEF Beside

LEMMA UndropOK ==
    ASSUME IInv, NEW c \in Conversations, Undrop(c)
    PROVE  StepOK /\ version' = version
  <1>1. docker \in Host /\ HopsOK(hop)
    BY TypesHold DEF IInv
  <1> DEFINE S == docker.drop \ {c}
  <1>2. S \in SUBSET Conversations
    BY <1>1, SMT DEF Host
  <1>3. docker' \in {docker, [docker EXCEPT !.drop = S]}
    BY DEF Undrop
  <1>4. mgr' = mgr /\ bop' = bop /\ version' = version /\ \E phase : To(c, phase) \/ Err(c, phase)
    BY DEF Undrop
  <1> HIDE DEF S
  <1>5. SameBroker(docker, docker')
    BY <1>1, <1>2, <1>3, SetNetworks, Still
  <1>6. HopsOK(hop')
    BY <1>1, <1>4, ToOK
  <1> QED BY <1>4, <1>5, <1>6, BesideOK DEF Beside

LEMMA HaltOK ==
    ASSUME IInv, NEW c \in Conversations, Halt(c)
    PROVE  StepOK /\ version' = version
  <1>1. docker \in Host /\ HopsOK(hop)
    BY TypesHold DEF IInv
  <1> DEFINE x == IF At(c, "rm") \/ docker.box[c] = "none" THEN "none" ELSE "stopped"
  <1>2. x \in {"none", "running", "stopped"}
    OBVIOUS
  <1>3. docker' \in {docker, [docker EXCEPT !.box[c] = x]}
    BY DEF Halt
  <1>4. mgr' = mgr /\ bop' = bop /\ version' = version /\ (End(c) \/ \E phase : To(c, phase))
    BY DEF Halt
  <1> HIDE DEF x
  <1>5. SameBroker(docker, [docker EXCEPT !.box[c] = x])
    BY <1>1, <1>2, SetBox
  <1>6. SameBroker(docker, docker')
    BY <1>3, <1>5, Still
  <1>7. HopsOK(hop')
    BY <1>1, <1>4, ToOK, EndOK
  <1> QED BY <1>4, <1>6, <1>7, BesideOK DEF Beside

LEMMA CallOK ==
    ASSUME IInv, NEW c \in Conversations, CallBroker(c)
    PROVE  StepOK /\ version' = version
  <1>1. mgr \in Memory /\ docker \in Host /\ HopsOK(hop) /\ HopOK(hop[c])
    BY TypesHold DEF IInv, HopsOK
  <1>2. PICK phase :
          \/ Call(c, phase, BeginPrepare(c))
          \/ Call(c, phase, BeginRollback(c, hop[c].prep))
          \/ Call(c, phase, BeginCleanup(c))
          \/ Call(c, phase, BeginUnused(c))
          \/ Call(c, phase, BeginInactive(c))
          \/ \E b \in Bindings :
               /\ Owner[b] = TenantOf[c]
               /\ \/ Call(c, phase, BeginProvision(c, b, hop[c].ver))
                  \/ Call(c, phase, BeginRevoke(c, b))
    BY DEF CallBroker
  <1>3. /\ bop.kind = "none" /\ docker' = docker /\ version' = version
        /\ hop' = [hop EXCEPT ![c].phase = phase \o "..."]
    BY <1>2 DEF Call
  <1>4. Begun(c)
    <2>1. CASE Call(c, phase, BeginPrepare(c))
      BY <1>1, <2>1, BeginPrepareOK DEF Call
    <2>2. CASE Call(c, phase, BeginRollback(c, hop[c].prep))
      BY <1>1, <2>2, BeginRollbackOK DEF Call, HopOK
    <2>3. CASE Call(c, phase, BeginCleanup(c))
      BY <1>1, <2>3, BeginCleanupOK DEF Call
    <2>4. CASE Call(c, phase, BeginUnused(c))
      BY <1>1, <2>4, BeginUnusedOK DEF Call
    <2>5. CASE Call(c, phase, BeginInactive(c))
      BY <1>1, <2>5, BeginInactiveOK DEF Call
    <2>6. ASSUME NEW b \in Bindings, Owner[b] = TenantOf[c], Call(c, phase, BeginProvision(c, b, hop[c].ver))
          PROVE  Begun(c)
      BY <1>1, <2>6, BeginProvisionOK DEF Call, HopOK
    <2>7. ASSUME NEW b \in Bindings, Owner[b] = TenantOf[c], Call(c, phase, BeginRevoke(c, b))
          PROVE  Begun(c)
      BY <1>1, <2>7, BeginRevokeOK DEF Call
    <2> QED BY <1>2, <2>1, <2>2, <2>3, <2>4, <2>5, <2>6, <2>7
  <1>5. HopsOK(hop')
    BY <1>1, <1>3, ToOK DEF To
  <1> QED BY <1>3, <1>4, <1>5, BegunOK

\* A restarted control process knows no broker.
LEMMA ControlRestartOK ==
    ASSUME IInv, ControlRestart PROVE StepOK /\ version' = version
  <1>1. PICK k \in BOOLEAN : docker' = [docker EXCEPT !.old = k]
    <2>1. PICK old \in BOOLEAN : docker' = [docker EXCEPT !.old = old \/ docker.old]
      BY DEF ControlRestart
    <2>2. (old \/ docker.old) \in BOOLEAN
      BY SMT
    <2> QED BY <2>1, <2>2
  <1>2. SameBroker(docker, docker')
    BY <1>1, SetOld, TypesHold DEF IInv
  <1>3. mgr' = NewManager /\ bop' = NoOp /\ version' = version
    BY DEF ControlRestart
  <1>4. NewManager \in Memory /\ NewManager.cid = 0 /\ NewManager.synced = NoAck
    BY Empties, SMT DEF NewManager, Memory
  <1>5. HopsOK(hop')
    BY IdleIs DEF ControlRestart, HopsOK
  <1>6. docker' \in Host /\ Gone(docker')
    BY <1>2 DEF SameBroker, IInv, OpInv, Gone
  <1>7. Acks(NewManager, docker') /\ ~Knows(NewManager, docker')
    BY <1>4, NoAcks DEF Knows
  <1>8. OpInv(NewManager, docker', NoOp)
    BY <1>6, <1>7, Quieted
  <1> QED BY <1>3, <1>4, <1>5, <1>6, <1>8 DEF StepOK

LEMMA HostStepOK ==
    ASSUME IInv, NEW c \in Conversations,
           HostStep(c) \/ Request(c) \/ CancelWait(c) \/ ClaimRelease(c) \/ LateRun(c)
    PROVE  StepOK /\ version' \in Nat
  <1>1. version \in Nat
    BY DEF IInv, Types
  <1>2. CASE HostStep(c)
    <2>1. StepOK /\ version' = version
      BY <1>2, QuietStepsOK, RecoverOK, EgressOK, CallOK, RunOK, UnallowOK, RemoveNetworkOK,
         UndropOK, HaltOK DEF HostStep
    <2> QED BY <1>1, <2>1
  <1>3. CASE Request(c) \/ CancelWait(c) \/ ClaimRelease(c) \/ LateRun(c)
    BY <1>1, <1>3, QuietStepsOK, BeginProvisioningOK, LateRunOK DEF Request
  <1> QED BY <1>2, <1>3

-----------------------------------------------------------------------------
(* The theorems *)

LEMMA InitOK == Init => IInv
  <1> SUFFICES ASSUME Init PROVE IInv
    OBVIOUS
  <1>1. mgr = NewManager /\ bop = NoOp /\ version = 0 /\ hop = [c \in Conversations |-> Idle]
    BY DEF Init
  <1>2. NewManager \in Memory /\ NewManager.cid = 0 /\ NewManager.synced = NoAck
    BY Empties, SMT DEF NewManager, Memory
  <1>3. docker \in Host /\ docker.broker = NoContainer
    BY Empties, SMT DEF Init, Host
  <1>4. Gone(docker)
    BY <1>3, Empties DEF Gone
  <1>5. Acks(mgr, docker) /\ ~Knows(mgr, docker)
    BY <1>1, <1>2, <1>3, NoAcks, Empties DEF Knows
  <1>6. OpInv(mgr, docker, bop)
    BY <1>1, <1>4, <1>5, Quieted
  <1>7. DOMAIN hop = Conversations /\ \A c \in Conversations : HopOK(hop[c])
    BY <1>1, IdleIs
  <1>8. version \in Nat
    BY <1>1, SMT
  <1> QED BY <1>1, <1>2, <1>3, <1>6, <1>7, <1>8 DEF IInv, Types

LEMMA NextOK == IInv /\ [Next]_vars => IInv'
  <1> SUFFICES ASSUME IInv, [Next]_vars PROVE IInv'
    OBVIOUS
  <1>1. StepOK /\ version' \in Nat => IInv'
    BY DEF StepOK, IInv, Types, HopsOK
  <1>2. version \in Nat
    BY DEF IInv, Types
  <1>3. ASSUME NEW c \in Conversations,
               HostStep(c) \/ Request(c) \/ CancelWait(c) \/ ClaimRelease(c) \/ LateRun(c)
        PROVE  IInv'
    BY <1>1, <1>3, HostStepOK
  <1>4. CASE BrokerStep /\ UNCHANGED hostVars
    BY <1>1, <1>2, <1>4, BrokerStepOK DEF hostVars
  <1>5. CASE (BrokerExits \/ BrokerRestarts \/ BrokerVanishes) /\ UNCHANGED hostVars
    BY <1>1, <1>2, <1>5, ContainerStepOK DEF hostVars
  <1>6. CASE ControlRestart
    BY <1>1, <1>2, <1>6, ControlRestartOK
  <1>7. CASE UNCHANGED vars
    BY <1>7 DEF vars, IInv, Types, OpInv, Gone, Acks, Current, Serves, Knows, Ending, Told, Good,
       Granted, Applying, RollingBack, HopOK
  <1> QED BY <1>3, <1>4, <1>5, <1>6, <1>7 DEF Next

LEMMA Invariance == Spec => []IInv
  BY InitOK, NextOK, PTL DEF Spec

\* What the manager has recorded as acknowledged is what the broker process
\* serves as long as it is the process the manager has observed, however often
\* it was restarted, replaced or lost in between: a preparation that skips an
\* update (_sync_registry with skip_unchanged) skips none that is needed.
THEOREM AcksServed == Spec => []AcksAreServed
  <1>1. IInv => AcksAreServed
    BY DEF IInv, OpInv, Acks, Current, AcksAreServed
  <1> QED BY <1>1, Invariance, PTL

\* Between operations the tracked broker serves nothing that was revoked,
\* rotated, retained for an inactive tenant, or beyond its grant, unless the
\* operation responsible has reported failure: for any tenants, conversations
\* and bindings, and any number of faults (provision_http, prepare, revoke_http,
\* rollback_prepared_network, cleanup_network, remove_unused, remove_inactive).
THEOREM NothingRevoked == Spec => []NothingRevokedIsServed
  <1>1. IInv => NothingRevokedIsServed
    <2> SUFFICES ASSUME IInv, Quiet, Tracked, NEW b \in Bindings,
                        docker.broker.served[b] # NoBinding, Owner[b] \notin docker.broker.doubt
                 PROVE  /\ Owner[b] \in mgr.active
                        /\ docker.broker.served[b].ver = mgr.bindings[b].ver
                        /\ docker.broker.served[b].nets \subseteq mgr.bindings[b].nets
      BY DEF NothingRevokedIsServed
    <2>1. "none" \notin OpKinds
      BY DEF OpKinds
    <2>2. bop = NoOp
      BY <2>1 DEF Quiet, IInv, Types, Operation
    <2>3. Good(mgr, docker, b)
      BY <2>2, Quieted DEF IInv, Tracked, Knows
    <2> QED BY <2>3 DEF Good, Granted
  <1> QED BY <1>1, Invariance, PTL

=============================================================================
