SPECIFICATION Spec
CONSTANTS
  Tenants = {"t1", "t2"}
  Conversations = {"c1", "c2"}
  Bindings = {"b1", "b2"}
  TenantOf <- MCTenantOf
  Owner <- MCOwner
  Scope <- MCScope
  MaxFaults = 1
  MaxVersion = 2
  MaxActive = 2
INVARIANTS
  
  
  ManagerKnowsBroker
  
CHECK_DEADLOCK FALSE
