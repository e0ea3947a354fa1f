-------------------------------- MODULE Slab --------------------------------
(***************************************************************************)
(* The slab allocator of memory/slab.c: caches of objects of one size,     *)
(* made of slabs of pages with a bitmap each.  Every operation runs with   *)
(* interrupts disabled, so each is one step; what can go wrong is a long   *)
(* sequence of them.  Addresses are counted in the smallest object size.   *)
(*                                                                         *)
(*   slabs   for each cache its slabs, in the order in which the walk over *)
(*           list.prev from cache->slabs meets them: a new slab is linked  *)
(*           right after the first one, which is the end of that walk.     *)
(*           A slab is its page, isFull, its bitmap as the set of indices  *)
(*           taken, and the address of its struct Slab.                    *)
(*   live    the objects in use: cache and address                         *)
(*   slabState  "ok", "loops" once MemCacheAlloc walks full slabs for ever *)
(*           with interrupts disabled, "halted" once MemFree has executed  *)
(*           hlt, "fault" once a NULL slab has been written                *)
(***************************************************************************)
EXTENDS Integers, Sequences, SequencesExt, FiniteSetsExt, TLC

CONSTANTS
  Sizes,        \* the sizes of MemAlloc, ascending (16 .. 131072 in the code)
  KernelCache,  \* size of a cache of kernel structures (SLAB_MIN_OBJECT_SIZE or more)
  PAGE_SIZE,
  SLAB_STRUCT,  \* sizeof(struct Slab)
  OFFSLAB_SIZE, \* objects of this size on have their slab struct elsewhere (PAGE_SIZE/4)
  SLAB_PAGES    \* pages between SLAB_START and SLAB_END

ASSUME SlabAssumption ==
  /\ \A i \in 1 .. Len(Sizes) : Sizes[i] > PAGE_SIZE => Sizes[i] % PAGE_SIZE = 0
  /\ SLAB_STRUCT < OFFSLAB_SIZE /\ OFFSLAB_SIZE <= PAGE_SIZE

VARIABLES slabs, live, slabState

slabVars == <<slabs, live, slabState>>

slabCache == -1
kernelCache == 0
Cache == -1 .. Len(Sizes)

----------------------------------------------------------------------------
(* MemCacheCreate: what it stores in a cache of objects of a size. *)

size(c) ==
  CASE c = slabCache -> SLAB_STRUCT
    [] c = kernelCache -> KernelCache
    [] OTHER -> Sizes[c]

numPages(c) == IF size(c) > PAGE_SIZE THEN size(c) \div PAGE_SIZE ELSE 1
OffSlab(c) == size(c) >= OFFSLAB_SIZE

\* Mutant: the slab struct is forgotten for objects of a slab that holds it.
OffsetZero(c) == 0

offset(c) == IF OffSlab(c) THEN 0 ELSE SLAB_STRUCT

numObjs(c) == (numPages(c) * PAGE_SIZE - offset(c)) \div size(c)

Slab(c) == [page : 1 .. SLAB_PAGES, isFull : BOOLEAN,
            bitmap : SUBSET (0 .. numObjs(c) - 1), struct : Nat]

NULL == 0

SlabTypeOK ==
  /\ \A c \in Cache : slabs[c] \in Seq(Slab(c))
  /\ \A o \in live : o.cache \in Cache /\ o.addr \in Nat \ {NULL}
  /\ slabState \in {"ok", "loops", "halted", "fault"}

SlabInit ==
  /\ slabs = [c \in Cache |-> <<>>]
  /\ live = {}
  /\ slabState = "ok"

----------------------------------------------------------------------------
(* Pages: VirtMapPhysPage and VirtMapPhysRange map the first run of free   *)
(* pages of the slab area; NULL if there is none.                          *)

PagesOf(s, c) == s.page .. s.page + numPages(c) - 1
Mapped(sl) == UNION {UNION {PagesOf(sl[c][i], c) : i \in DOMAIN sl[c]} : c \in Cache}

\* Mutant: a run of pages may end behind the slab area.
MapPastEnd(sl, n) ==
  LET free == {p \in 1 .. SLAB_PAGES + 1 : (p .. p + n - 1) \cap Mapped(sl) = {}}
  IN IF free = {} THEN NULL ELSE Min(free)

MapPages(sl, n) ==
  LET free == {p \in 1 .. SLAB_PAGES - n + 1 : (p .. p + n - 1) \cap Mapped(sl) = {}}
  IN IF free = {} THEN NULL ELSE Min(free)

----------------------------------------------------------------------------
(* MemCacheAlloc on the slabs sl, as a record of the new slabs, the object *)
(* (NULL if none) and the state.                                           *)

ObjectAddr(s, c, i) == s.page * PAGE_SIZE + offset(c) + i * size(c)
FreeBits(s, c) == (0 .. numObjs(c) - 1) \ s.bitmap

\* Mutant: isFull is set as soon as any bit is taken in a slab of more than two.
TakeFullEarly(sl, c, k) ==
  LET i == Min(FreeBits(sl[c][k], c))
  IN [slabs |-> [sl EXCEPT ![c][k].bitmap = @ \cup {i}, ![c][k].isFull = @ \/ i >= numObjs(c) - 2],
      obj |-> ObjectAddr(sl[c][k], c, i), state |-> "ok"]

\* Mutant: the bit is not set.
TakeUnmarked(sl, c, k) ==
  [slabs |-> sl, obj |-> ObjectAddr(sl[c][k], c, Min(FreeBits(sl[c][k], c))), state |-> "ok"]

\* The first free object of slab k.
Take(sl, c, k) ==
  LET i == Min(FreeBits(sl[c][k], c))
  IN [slabs |-> [sl EXCEPT ![c][k].bitmap = @ \cup {i}, ![c][k].isFull = @ \/ i = numObjs(c) - 1],
      obj |-> ObjectAddr(sl[c][k], c, i), state |-> "ok"]

NewSlab(page, at) == [page |-> page, isFull |-> FALSE, bitmap |-> {}, struct |-> at]

Failed(sl, st) == [slabs |-> sl, obj |-> NULL, state |-> st]

\* The slabs that the walk would allocate from.
Usable(sl, c) == {k \in DOMAIN sl[c] : ~sl[c][k].isFull /\ FreeBits(sl[c][k], c) # {}}

\* Without a page for a new slab the first allocation of a cache returns NULL
\* and a later one walks the full slabs for ever.
NoSlab(sl, c) == Failed(sl, IF sl[c] = <<>> THEN "ok" ELSE "loops")

\* MemCacheAlloc of a cache whose slabs hold their struct themselves.
AllocOnSlab(sl, c) ==
  IF Usable(sl, c) # {} THEN Take(sl, c, Min(Usable(sl, c)))
  ELSE LET page == MapPages(sl, numPages(c))
       IN IF page = NULL THEN NoSlab(sl, c)
          ELSE Take([sl EXCEPT ![c] = Append(@, NewSlab(page, page * PAGE_SIZE))], c, Len(sl[c]) + 1)

\* The page of the new slab is mapped before its struct is allocated: a slab
\* struct that cannot be allocated is written through NULL, or never returned.
AllocOffSlab(sl, c) ==
  IF Usable(sl, c) # {} THEN Take(sl, c, Min(Usable(sl, c)))
  ELSE LET page == MapPages(sl, numPages(c))
           with(at) == [sl EXCEPT ![c] = Append(@, NewSlab(page, at))]
           struct == AllocOnSlab(with(NULL), slabCache)
       IN IF page = NULL THEN NoSlab(sl, c)
          ELSE IF struct.obj = NULL
               THEN Failed(sl, IF struct.state = "ok" THEN "fault" ELSE struct.state)
               ELSE Take([struct.slabs EXCEPT ![c][Len(sl[c]) + 1].struct = struct.obj],
                         c, Len(sl[c]) + 1)

MemCacheAlloc(sl, c) == IF OffSlab(c) THEN AllocOffSlab(sl, c) ELSE AllocOnSlab(sl, c)

----------------------------------------------------------------------------
(* Freeing: the slab whose pages hold the address, if the cache has one. *)

\* Mutant: the last object of a slab is taken for the end of the slab.
HoldsButLast(sl, c, addr) ==
  {k \in DOMAIN sl[c] : /\ addr >= sl[c][k].page * PAGE_SIZE + offset(c)
                        /\ addr < (sl[c][k].page + numPages(c)) * PAGE_SIZE - size(c)}

Holding(sl, c, addr) ==
  {k \in DOMAIN sl[c] : /\ addr >= sl[c][k].page * PAGE_SIZE + offset(c)
                        /\ addr < (sl[c][k].page + numPages(c)) * PAGE_SIZE}

SlabFree(sl, c, k, addr) ==
  LET i == (addr - (sl[c][k].page * PAGE_SIZE + offset(c))) \div size(c)
  IN [sl EXCEPT ![c][k].bitmap = @ \ {i}, ![c][k].isFull = FALSE]

----------------------------------------------------------------------------
(* The operations. *)

AllocFrom(c) ==
  LET r == MemCacheAlloc(slabs, c)
  IN /\ slabState = "ok"
     /\ slabs' = r.slabs
     /\ slabState' = r.state
     /\ live' = IF r.obj = NULL THEN live ELSE live \cup {[cache |-> c, addr |-> r.obj]}

\* MemAlloc takes the first size that is large enough; a larger request is
\* refused before anything changes and is not a step.
MemAlloc(n) ==
  LET fits == {i \in 1 .. Len(Sizes) : n <= Sizes[i]}
  IN fits # {} /\ AllocFrom(Min(fits))

KernelAlloc == AllocFrom(kernelCache)

\* MemFree tries one cache after the other.
MemFree(o) ==
  LET caches == {c \in 1 .. Len(Sizes) : Holding(slabs, c, o.addr) # {}}
      c == Min(caches)
  IN /\ slabState = "ok" /\ o \in live /\ o.cache \in 1 .. Len(Sizes)
     /\ IF caches = {} THEN slabState' = "halted" /\ UNCHANGED <<slabs, live>>
        ELSE /\ live' = live \ {o}
             /\ slabs' = SlabFree(slabs, c, Min(Holding(slabs, c, o.addr)), o.addr)
             /\ UNCHANGED slabState

\* MemCacheFree of an object of its own cache.
KernelFree(o) ==
  LET ks == Holding(slabs, kernelCache, o.addr)
  IN /\ slabState = "ok" /\ o \in live /\ o.cache = kernelCache
     /\ live' = live \ {o}
     /\ slabs' = IF ks = {} THEN slabs ELSE SlabFree(slabs, kernelCache, Min(ks), o.addr)
     /\ UNCHANGED slabState

SlabNext ==
  \/ \E n \in 1 .. Sizes[Len(Sizes)] : MemAlloc(n)
  \/ KernelAlloc
  \/ \E o \in live : MemFree(o) \/ KernelFree(o)

SlabSpec == SlabInit /\ [][SlabNext]_slabVars

----------------------------------------------------------------------------
Bytes(o) == o.addr .. o.addr + size(o.cache) - 1
AllStructs ==
  UNION {{[cache |-> slabCache, addr |-> slabs[c][k].struct] : k \in DOMAIN slabs[c]} : c \in Cache}

\* No two objects in use share memory, and none shares memory with the struct
\* of a slab, on or off the slab: MemCacheAlloc never hands out memory twice
\* and the slab structs are not overwritten by the objects beside them.
ObjectsDisjoint ==
  /\ \A o1, o2 \in live \cup AllStructs : o1 # o2 => Bytes(o1) \cap Bytes(o2) = {}
  /\ live \cap AllStructs = {}

\* The bitmaps record exactly the objects in use and the structs of the slabs
\* that live in slabCache: nothing in use is free, and no object is lost.
BitmapsExact ==
  LET taken(c) == UNION {{ObjectAddr(slabs[c][k], c, i) : i \in slabs[c][k].bitmap} : k \in DOMAIN slabs[c]}
  IN \A c \in Cache :
       taken(c) = IF c = slabCache
                  THEN UNION {{slabs[d][k].struct : k \in DOMAIN slabs[d]} : d \in {e \in Cache : OffSlab(e)}}
                  ELSE {o.addr : o \in {x \in live : x.cache = c}}

\* Every object of MemAlloc is found again by MemFree, which otherwise halts
\* the machine.
MemFreeFinds == slabState # "halted"

\* A page is mapped for a new slab only when all objects of the cache are in use:
\* isFull is a hint that saves a search, and never set while there is room.
SlabOnlyWhenNeeded ==
  [][\A c \in Cache : Len(slabs'[c]) > Len(slabs[c]) =>
        \A k \in DOMAIN slabs[c] : FreeBits(slabs[c][k], c) = {}]_slabVars
=============================================================================
