CONSTANT Clients = {c1, c2, c3, c4}
SPECIFICATION Spec
INVARIANTS MutualExclusion NoMissedGrant
PROPERTIES NoOvertaking EveryWaiterServed
