---------------------------- MODULE MCSandboxHost ----------------------------
(* A small instance of SandboxHost: two conversations of two tenants, a        *)
(* binding of the first tenant, and one of the conversation c2.                *)
EXTENDS SandboxHost, TLC

MCTenantOf == ("c1" :> "t1") @@ ("c2" :> "t2")
MCOwner == ("b1" :> "t1") @@ ("b2" :> "t2")
MCScope == ("b1" :> "tenant") @@ ("b2" :> "c2")

=============================================================================
