SPECIFICATION WiresSpec
CONSTANTS
  k1 = k1
  k2 = k2
  k3 = k3
  Socks = {k1, k2, k3}
  Pages = {"s1", "s2"}
  Others = {"p"}
  Calls = {"k1"}
  MaxCommands = 3
  MaxFaults = 2
INVARIANTS ExecutorSafe HubSafe
PROPERTIES ExecutorFound DeadOnesLeave
CHECK_DEADLOCK FALSE
