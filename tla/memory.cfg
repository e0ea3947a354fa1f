SPECIFICATION Spec
CONSTANTS
  t1 = t1
  t2 = t2
  PageThread = {t1, t2}
  maxPfn = 8
  ISA_PAGES = 5
  ISA_RESERVE = 2
  Reserved = {0}
  WORD = 16
  Sizes <- SizesDef
  KernelCache = 1
  PAGE_SIZE = 4
  SLAB_STRUCT = 1
  OFFSLAB_SIZE = 2
  SLAB_PAGES = 3
  ro = ro
  rw = rw
  MapThread = {t1}
  File = {"f1"}
  Prot = {ro, rw}
  PageBytes = 2
  MMAP_BASE = 1
  MMAP_END = 5
  MaxLen = 2
  MaxAreas = 3
  MaxRefs = 3
  Unmaps = {"whole", "tail"}
  Protects = {"whole", "tail", "middle", "beyond"}
  p1 = p1
  p2 = p2
  p3 = p3
  startup = p1
  Proc = {p1, p2, p3}
  Task = {1, 2}
  MaxThreads = 3
CHECK_DEADLOCK FALSE
INVARIANTS
  TypeOK
  
  NoPageLost
  IsaCountExact
  ObjectsDisjoint
  BitmapsExact
  MemFreeFinds
  
  RefsCoverAreas
  
  NoSleepBesideZombie
PROPERTIES
  SlabOnlyWhenNeeded
  
