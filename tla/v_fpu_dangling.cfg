SPECIFICATION Spec
CONSTANTS
  u1 = u1
  u2 = u2
  u3 = u3
  kt = kt
  Idle = Idle
  NULL = NULL
  Thread = {u1, u2}
  User = {u1, u2}
  Boot <- MCBootUsers
  PRIORITY_DEFAULT = 1
  PRIORITY_TOP = 2
  Priorities <- MCPriorities
  MaxCreate = 0
  Calls = {"fpu","exit"}
INVARIANT LastMathThreadAlive
