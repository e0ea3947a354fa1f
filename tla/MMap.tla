-------------------------------- MODULE MMap --------------------------------
(***************************************************************************)
(* The areas of a process: memory/mmap.c, with VmLookupAddress of          *)
(* memory/vmm.c.  Addresses and lengths are counted in pages; offsets in a *)
(* file are counted in bytes, as in the code, with PageBytes of them in a  *)
(* page.                                                                   *)
(*                                                                         *)
(*   areaList  the list of areas; an area has an id for the identity of    *)
(*             its structure                                               *)
(*   call      what each thread has found in MMapFindAddress and not yet   *)
(*             added (no lock is held in between)                          *)
(*   refs      references that mappings hold on the vnode of each file     *)
(*   mmapState "ok", "loops" once SysMemoryProtect repeats its message for *)
(*             ever, "halted" once MMapProtectionChange has executed hlt   *)
(***************************************************************************)
EXTENDS Integers, Sequences, SequencesExt, FiniteSetsExt, TLC

CONSTANTS
  MapThread,  \* the threads of the process
  File,       \* vnodes that can be mapped
  Prot,       \* page protections (with PAGE_USER set)
  PageBytes,  \* PAGE_SIZE
  MMAP_BASE, MMAP_END,
  MaxLen,     \* pages in one call
  MaxAreas,   \* bound: areas in the list before a mapping is added
  MaxRefs,    \* bound: references on a vnode before a mapping is added
  Unmaps,     \* parts of an area that calls unmap (see Fits)
  Protects    \* parts of an area that calls protect

ASSUME MMapAssumption == MMAP_BASE > 0 /\ MMAP_END > MMAP_BASE /\ MaxLen > 0

VARIABLES areaList, call, refs, mmapState

mmapVars == <<areaList, call, refs, mmapState>>

NoCall == [found |-> 0]

Area == [id : Nat, start : Nat, length : Nat \ {0}, file : File, offset : Nat, prot : Prot]

MMapTypeOK ==
  /\ areaList \in Seq(Area)
  /\ \A i, j \in DOMAIN areaList : areaList[i].id = areaList[j].id => i = j
  /\ refs \in [File -> Nat]
  /\ mmapState \in {"ok", "loops", "halted"}

MMapInit ==
  /\ areaList = <<>>
  /\ call = [t \in MapThread |-> NoCall]
  /\ refs = [f \in File |-> 0]
  /\ mmapState = "ok"

End(a) == a.start + a.length

----------------------------------------------------------------------------
(* Lists of areas. *)

\* VmLookupAddress gives up at the first area behind the address.
Covering(l, address) ==
  {i \in DOMAIN l : /\ \A j \in 1 .. i : l[j].start <= address
                    /\ address >= l[i].start /\ address < End(l[i])}

\* Before the first area with a larger start address.
MMapAddArea(l, area) ==
  LET after == {i \in DOMAIN l : l[i].start > area.start}
  IN IF after = {} THEN Append(l, area) ELSE InsertAt(l, Min(after), area)

\* A fresh structure.
NewId(l) == Min((1 .. Len(l) + 2) \ {l[i].id : i \in DOMAIN l})
Copy(l, area) == [area EXCEPT !.id = NewId(l)]
IndexOf(l, id) == CHOOSE i \in DOMAIN l : l[i].id = id

\* Mutant: the length of a gap is not tested.
FindAnyGap(l, length) ==
  LET from(i) == IF i = 1 THEN MMAP_BASE ELSE End(l[i - 1])
      gaps == {i \in DOMAIN l : from(i) < l[i].start}
      last == from(Len(l) + 1)
  IN IF gaps # {} THEN from(Min(gaps)) ELSE IF last = MMAP_END THEN 0 ELSE last

\* MMapFindAddress: the first gap that is large enough, or behind the last area.
MMapFindAddress(l, length) ==
  LET from(i) == IF i = 1 THEN MMAP_BASE ELSE End(l[i - 1])
      gaps == {i \in DOMAIN l : from(i) <= l[i].start /\ l[i].start - from(i) >= length}
      last == from(Len(l) + 1)
  IN IF gaps # {} THEN from(Min(gaps)) ELSE IF last = MMAP_END THEN 0 ELSE last

\* Mutant: areas with different protections are merged.
MergeableAnyProt(a, b) ==
  End(a) = b.start /\ a.file = b.file /\ b.offset = a.offset + a.length * PageBytes

Mergeable(a, b) ==
  /\ End(a) = b.start
  /\ a.file = b.file
  /\ a.prot = b.prot
  /\ b.offset = a.offset + a.length * PageBytes

\* MMapMerge of neighbours i and i + 1.
MMapMerge(l, i) ==
  IF i \in DOMAIN l /\ i + 1 \in DOMAIN l /\ Mergeable(l[i], l[i + 1])
  THEN RemoveAt([l EXCEPT ![i].length = @ + l[i + 1].length], i + 1) ELSE l

\* The new area is merged with its next neighbour, then with its previous one.
MMapMergeMappings(l, id) ==
  LET l1 == MMapMerge(l, IndexOf(l, id)) IN MMapMerge(l1, IndexOf(l1, id) - 1)

----------------------------------------------------------------------------
(* Unmapping.  The area has been taken from the list and is freed by the   *)
(* caller: what remains of it is put back as a copy.                       *)

MMapUnmapArea(l, area, start, len) ==
  LET end == start + len
      tail == [area EXCEPT !.length = start - area.start]
      head == [area EXCEPT !.offset = @ + (end - area.start) * PageBytes, !.start = end]
      cut == [area EXCEPT !.length = end - area.start]
      back(x, y) == MMapAddArea(x, Copy(Append(x, area), y))
  IN IF area.start = start /\ area.length = len THEN l
     ELSE IF start >= area.start /\ end = End(area) THEN back(l, tail)
     ELSE IF start = area.start /\ end <= End(area) THEN back(l, head)
     ELSE IF start > area.start /\ end < End(area) THEN back(back(l, head), cut)
     ELSE back(l, area)

\* The loop of MMapUnmap at the area with this id.  It ends when exactly the
\* requested length has been counted, or behind the last area of the list.
RECURSIVE UnmapLoop(_, _, _, _, _)
UnmapLoop(l, id, start, len, currLen) ==
  LET i == IndexOf(l, id)
      area == l[i]
      currStart == IF start < area.start THEN area.start ELSE start
      end == IF start + len > End(area) THEN End(area) ELSE start + len
      l1 == MMapUnmapArea(RemoveAt(l, i), area, currStart, end - currStart)
      left == currLen - (end - start)
  IN IF i = Len(l) \/ left = 0 THEN l1
     ELSE UnmapLoop(l1, l[i + 1].id, start, len, left)

MMapUnmap(l, start, len) ==
  LET at == Covering(l, start)
  IN IF start > MMAP_END \/ len > MMAP_END - start \/ at = {} THEN l
     ELSE UnmapLoop(l, l[Min(at)].id, start, len, len)

\* The references after MMapUnmap has made l of the list: the second half of an
\* area that was split has one of its own.
RefsAfterUnmap(l, start) ==
  [f \in File |-> IF Len(l) > Len(areaList) /\ areaList[Min(Covering(areaList, start))].file = f
                  THEN refs[f] + 1 ELSE refs[f]]

----------------------------------------------------------------------------
(* The system calls. *)

\* MMapDo up to the choice of the address.  A file is mapped from its first or its
\* second page.
MMapDo(t, f, off, n, prot) ==
  LET address == MMapFindAddress(areaList, n)
  IN /\ mmapState = "ok" /\ call[t] = NoCall /\ Len(areaList) < MaxAreas /\ refs[f] < MaxRefs
     /\ address >= MMAP_BASE /\ address < MMAP_END
     /\ call' = [call EXCEPT ![t] =
                   [found |-> address, file |-> f, offset |-> off * PageBytes, length |-> n, prot |-> prot]]
     /\ UNCHANGED <<areaList, refs, mmapState>>

\* Mutant: a merge releases the vnode although the new area was not counted.
AddReleasingTwice(t) ==
  LET c == call[t]
      l == MMapUnmap(areaList, c.found, c.length)
      area == [id |-> NewId(l), start |-> c.found, length |-> c.length, file |-> c.file,
               offset |-> c.offset, prot |-> c.prot]
      l1 == MMapAddArea(l, area)
      l2 == MMapMergeMappings(l1, area.id)
  IN /\ mmapState = "ok" /\ c # NoCall
     /\ areaList' = l2
     /\ refs' = [RefsAfterUnmap(l, c.found) EXCEPT ![c.file] = @ + 1 - 2 * (Len(l1) - Len(l2))]
     /\ call' = [call EXCEPT ![t] = NoCall]
     /\ UNCHANGED mmapState

\* The rest of MMapDo.
MMapDoAdd(t) ==
  LET c == call[t]
      l == MMapUnmap(areaList, c.found, c.length)
      area == [id |-> NewId(l), start |-> c.found, length |-> c.length, file |-> c.file,
               offset |-> c.offset, prot |-> c.prot]
      l1 == MMapAddArea(l, area)
      l2 == MMapMergeMappings(l1, area.id)
  IN /\ mmapState = "ok" /\ c # NoCall
     /\ areaList' = l2
     /\ refs' = [RefsAfterUnmap(l, c.found) EXCEPT ![c.file] = @ + 1 - (Len(l1) - Len(l2))]
     /\ call' = [call EXCEPT ![t] = NoCall]
     /\ UNCHANGED mmapState

\* The part of an area that n pages from start are.
Fits(part, a, start, n) ==
  CASE part = "whole" -> start = a.start /\ n = a.length
    [] part = "head" -> start = a.start /\ n < a.length
    [] part = "tail" -> start > a.start /\ start + n = End(a)
    [] part = "middle" -> start > a.start /\ start + n < End(a)
    [] part = "beyond" -> start + n > End(a)

SysMemoryUnmap(t, i, start, n) ==
  LET a == areaList[i]
  IN /\ mmapState = "ok" /\ call[t] = NoCall
     /\ start >= a.start /\ start < End(a)
     /\ \E part \in Unmaps : Fits(part, a, start, n)
     /\ areaList' = MMapUnmap(areaList, start, n)
     /\ refs' = RefsAfterUnmap(areaList', start)
     /\ UNCHANGED <<call, mmapState>>

MMapProtectionFixAll(l, i, prot) == [l EXCEPT ![i].prot = prot]

\* The second half keeps the length of the whole, and its offset is counted in pages.
MMapProtectionFixStart(l, i, end, prot) ==
  LET next == [Copy(l, l[i]) EXCEPT !.offset = @ + end - l[i].start, !.start = end]
  IN MMapAddArea([l EXCEPT ![i].length = end - l[i].start, ![i].prot = prot], next)

\* SysMemoryProtect: a part that does not start with its area halts the
\* machine, and one that goes beyond it repeats a message for ever.  (Taking all
\* rights from such a part only returns an error; Prot is without that value.)
SysMemoryProtect(t, start, n, prot) ==
  LET at == Covering(areaList, start)
      i == Min(at)
      a == areaList[i]
      end == start + n
  IN /\ mmapState = "ok" /\ call[t] = NoCall /\ at # {}
     /\ \E part \in Protects : Fits(part, a, start, n)
     /\ mmapState' = IF End(a) < end THEN "loops"
                     ELSE IF prot # a.prot /\ start # a.start THEN "halted" ELSE "ok"
     /\ areaList' = IF End(a) < end \/ prot = a.prot \/ start # a.start THEN areaList
                    ELSE IF end = End(a) THEN MMapProtectionFixAll(areaList, i, prot)
                    ELSE MMapProtectionFixStart(areaList, i, end, prot)
     /\ UNCHANGED <<call, refs>>

\* MmapProcessRemove, when no thread of the process is left in a call.
MmapProcessRemove ==
  /\ mmapState = "ok" /\ \A t \in MapThread : call[t] = NoCall
  /\ areaList # <<>>
  /\ areaList' = <<>>
  /\ refs' = [f \in File |-> refs[f] - Cardinality({i \in DOMAIN areaList : areaList[i].file = f})]
  /\ UNCHANGED <<call, mmapState>>

Pages == MMAP_BASE .. MMAP_END + MaxLen - 1

MMapNext ==
  \/ \E t \in MapThread, f \in File, off \in 0 .. 1, n \in 1 .. MaxLen, prot \in Prot : MMapDo(t, f, off, n, prot)
  \/ \E t \in MapThread : MMapDoAdd(t)
  \/ \E t \in MapThread, i \in DOMAIN areaList, start \in Pages, n \in Pages : SysMemoryUnmap(t, i, start, n)
  \/ \E t \in MapThread, start \in Pages, n \in 1 .. 2 * MaxLen, prot \in Prot : SysMemoryProtect(t, start, n, prot)
  \/ MmapProcessRemove

MMapSpec == MMapInit /\ [][MMapNext]_mmapVars

----------------------------------------------------------------------------
\* The list is sorted, as VmLookupAddress and MMapFindAddress rely on, and no two
\* areas share a page, so that a fault belongs to one area, whatever is mapped,
\* split and unmapped.
AreasDisjoint == \A i, j \in DOMAIN areaList : i < j => End(areaList[i]) <= areaList[j].start

\* An area holds a reference on its vnode: the counter never falls behind the
\* areas through merging, unmapping and the exit of the process.
RefsCoverAreas ==
  \A f \in File : refs[f] >= Cardinality({i \in DOMAIN areaList : areaList[i].file = f})

\* What a page shows: the file and the page of the file (-1 if the offset is
\* not the start of a page) of the area that a fault there finds.
PageMap ==
  [p \in Pages |->
     LET at == Covering(areaList, p)
         a == areaList[Min(at)]
         off == a.offset + (p - a.start) * PageBytes
     IN IF at = {} THEN [file |-> "none"]
        ELSE [file |-> a.file, prot |-> a.prot,
              offset |-> IF off % PageBytes = 0 THEN off \div PageBytes ELSE -1]]

AS == INSTANCE AddressSpace WITH Page <- Pages, None <- [file |-> "none"], pages <- PageMap

\* The list of areas implements the address space: every call maps, unmaps or
\* protects exactly the pages it names, and faults are resolved accordingly.
ImplementsAddressSpace == AS!Spec

\* "Unmap a whole or part of a mapping given an address and length.": unmapping
\* removes the pages it names and no others.
UnmapExact ==
  [][\A t \in MapThread, i \in DOMAIN areaList, start, n \in Pages :
        SysMemoryUnmap(t, i, start, n) =>
          \A p \in Pages : Covering(areaList', p) = {} <=>
                             Covering(areaList, p) = {} \/ p \in start .. start + n - 1]_mmapVars
=============================================================================
