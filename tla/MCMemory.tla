------------------------------ MODULE MCMemory ------------------------------
(***************************************************************************)
(* What a process is made of, for TLC: physical pages, the slab allocator, *)
(* the areas of a process, and its family.  No action of one layer reads   *)
(* or writes the variables of another, so a behaviour of all four is an    *)
(* interleaving of independent ones: each behaviour explored here is that  *)
(* of one layer, chosen at the start, and the state spaces add up instead  *)
(* of multiplying.  The layers are not composed.                           *)
(***************************************************************************)
EXTENDS PageAlloc, Slab, MMap, Processes

CONSTANTS t1, t2, ro, rw, p1, p2, p3

VARIABLE layer

\* On the slab, off the slab, and a slab of two pages.
SizesDef == <<1, 2, 8>>

Init ==
  /\ layer \in {"pages", "slab", "areas", "family"}
  /\ PagesInit /\ SlabInit /\ MMapInit /\ ProcessesInit

Next ==
  \/ layer = "pages" /\ PagesNext /\ UNCHANGED <<layer, slabVars, mmapVars, processVars>>
  \/ layer = "slab" /\ SlabNext /\ UNCHANGED <<layer, pageVars, mmapVars, processVars>>
  \/ layer = "areas" /\ MMapNext /\ UNCHANGED <<layer, pageVars, slabVars, processVars>>
  \/ layer = "family" /\ ProcessesNext /\ UNCHANGED <<layer, pageVars, slabVars, mmapVars>>

Spec == Init /\ [][Next]_<<layer, pageVars, slabVars, mmapVars, processVars>>

\* The variables of the four layers hold what the C types can hold.
TypeOK == PagesTypeOK /\ SlabTypeOK /\ MMapTypeOK /\ ProcessesTypeOK
=============================================================================
