SPECIFICATION Spec
CONSTANTS
  u1 = u1
  u2 = u2
  u3 = u3
  kt = kt
  Idle = Idle
  NULL = NULL
  Thread = {u1, u2, kt}
  User = {u1, u2}
  Boot <- MCBootAll
  PRIORITY_DEFAULT = 1
  PRIORITY_TOP = 4
  Priorities <- MCPriorities
  MaxCreate = 1
  Calls = {"yield", "priority", "lock", "irq", "sleep", "exit", "create"}
INVARIANTS
  IdleOnlyWhenNothingRuns
  QuantumsBounded
