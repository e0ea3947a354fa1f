---------------------------- MODULE AddressSpace ----------------------------
(***************************************************************************)
(* What the memory system calls promise: an address space is a function    *)
(* from pages to what is mapped there.  A mapping takes pages that are     *)
(* free; unmapping and changing the protection affect the pages named in   *)
(* the call and no others.                                                 *)
(***************************************************************************)
EXTENDS Integers

CONSTANTS
  Page,    \* page numbers of the address space
  None,    \* nothing is mapped
  File,    \* what can be mapped
  Prot     \* protections

VARIABLE pages

Init == pages = [p \in Page |-> None]

Run(start, n) == start .. start + n - 1
Runs == {r \in {Run(start, n) : start, n \in Page} : r \subseteq Page}

\* The address space m after mapping a file from page off of it on at run r.
Map(m, r, f, off, prot) ==
  [p \in Page |-> IF p \notin r THEN m[p]
                  ELSE [file |-> f, prot |-> prot,
                        offset |-> off + p - CHOOSE q \in r : \A x \in r : q <= x]]

Unmap(m, r) == [p \in Page |-> IF p \in r THEN None ELSE m[p]]

Protect(m, r, prot) ==
  [p \in Page |-> IF p \in r /\ m[p] # None THEN [m[p] EXCEPT !.prot = prot] ELSE m[p]]

Next ==
  LET m == pages
      free == {r \in Runs : \A p \in r : m[p] = None}
  IN /\ pages' # m
     /\ \/ pages' \in {Map(m, r, f, off, prot) : r \in free, f \in File, off \in 0 .. 1, prot \in Prot}
        \/ pages' \in {Unmap(m, r) : r \in Runs}
        \/ pages' \in {Protect(m, r, prot) : r \in Runs, prot \in Prot}
        \/ pages' = [p \in Page |-> None]

Spec == Init /\ [][Next]_pages
=============================================================================
