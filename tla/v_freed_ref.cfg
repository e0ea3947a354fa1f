SPECIFICATION Spec
CONSTANTS
  u1 = u1
  u2 = u2
  u3 = u3
  kt = kt
  Idle = Idle
  NULL = NULL
  Thread = {u1, u2, u3}
  User = {u1, u2, u3}
  Boot <- MCBoot3
  PRIORITY_DEFAULT = 1
  PRIORITY_TOP = 2
  Priorities <- MCPriorities
  MaxCreate = 0
  Calls = {"suspend","resume","exit"}
INVARIANT ReferencedThreadNotFreed
