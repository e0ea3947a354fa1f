SPECIFICATION Spec
CONSTANTS
  s1 = s1
  t1 = t1
  t2 = t2
  c1 = c1
  c2 = c2
  c3 = c3
  hd0 = hd0
  hd1 = hd1
  hd0a = hd0a
  r1 = r1
  r2 = r2
  k1 = k1
  k2 = k2
  Sleeper = {s1}
  Driver = {t1, t2}
  Durations = {0, 10, 25}
  TICK = 10
  MaxAdds = 3
  Client = {c1, c2, c3}
  drives <- DrivesDef
  Partition = {hd0a}
  sDev <- SDevDef
  Reader = {r1, r2}
  Block = {k1}
  MaxBufs = 2
CHECK_DEADLOCK FALSE
INVARIANTS
  TypeOK
  NeverEarly
  QueuedTimerIsAlive
  SleeperHasTimer
  NoRequestForgotten
  
  TimerWatchesCommand
  
  NumDirtyExact
  
  LockedHasOwner
PROPERTIES
  OthersKeepTheirTime
  
  
  
