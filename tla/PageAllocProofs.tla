-------------------------- MODULE PageAllocProofs --------------------------
(***************************************************************************)
(* Proofs about the page stacks for any number of pages, any set of        *)
(* reserved pages and any number of threads.                               *)
(***************************************************************************)
EXTENDS PageAlloc, FiniteSetTheorems, TLAPS

\* The pages are conserved whatever the counters say: types, PagesDisjoint,
\* NoPageLost and IsaPagesAreLow support each other.
Conserved ==
  /\ normal.list \subseteq Page
  /\ isa.list \subseteq Page
  /\ owned \subseteq Page
  /\ normal = [list |-> normal.list, numPages |-> normal.numPages]
  /\ isa = [list |-> isa.list, numPages |-> isa.numPages]
  /\ PagesDisjoint
  /\ NoPageLost
  /\ IsaPagesAreLow

\* PageInit sets up the stacks so that pages are conserved.
LEMMA InitConserved == PagesInit => Conserved
  BY PageAssumption DEF PagesInit, Conserved, PagesDisjoint, NoPageLost, IsaPagesAreLow, Page,
     isaFree, normalFree, isaMaxPages

\* A pop moves a page from its stack to the owner, or finds an empty list.
LEMMA PopFacts ==
  ASSUME NEW stack, NEW stack1, PageListGetHead(stack, stack1),
         stack = [list |-> stack.list, numPages |-> stack.numPages]
  PROVE  /\ stack1 = [list |-> stack1.list, numPages |-> stack1.numPages]
         /\ \/ \E p \in stack.list : stack1.list = stack.list \ {p} /\ owned' = owned \cup {p}
            \/ stack1.list = stack.list /\ owned' = owned
  <1>1. CASE \E p \in stack.list : stack1 = Pop(stack, p) /\ owned' = owned \cup {p}
    BY <1>1 DEF Pop
  <1>2. CASE /\ stack1 = [stack EXCEPT !.numPages = (@ - 1) % WORD]
             /\ UNCHANGED owned
    BY <1>2
  <1>3. QED  BY <1>1, <1>2 DEF PageListGetHead

\* A pop from the normal stack conserves the pages.
LEMMA NormalConserved ==
  ASSUME Conserved, PageListGetHead(normal, normal'), isa' = isa
  PROVE  Conserved'
  BY PopFacts DEF Conserved, PagesDisjoint, NoPageLost, IsaPagesAreLow

\* A pop from the ISA stack conserves the pages.
LEMMA IsaConserved ==
  ASSUME Conserved, PageListGetHead(isa, isa'), normal' = normal
  PROVE  Conserved'
  BY PopFacts DEF Conserved, PagesDisjoint, NoPageLost, IsaPagesAreLow

\* A freed page is back on its stack, or is the page at ISA_PAGES.
LEMMA FreeConserved ==
  ASSUME Conserved, NEW p \in Page, Free(p)
  PROVE  Conserved'
  <1> USE PageAssumption DEF Page
  <1>1. p \in owned /\ owned' = owned \ {p}  BY DEF Free
  <1>2. CASE p > ISA_PAGES
    <2>1. isa' = isa /\ normal' = PageListPutPage(normal, p)
      BY <1>2 DEF Free, PageFree, normalMaxPages, isaMaxPages
    <2>2. normal' = [list |-> normal.list \cup {p}, numPages |-> (normal.numPages + 1) % WORD]
      BY <2>1 DEF PageListPutPage
    <2>3. QED
      BY <1>1, <2>1, <2>2 DEF Conserved, PagesDisjoint, NoPageLost, IsaPagesAreLow
  <1>3. CASE p <= ISA_PAGES
    <2>1. normal' = normal
          /\ isa' = IF p = ISA_PAGES THEN isa ELSE PageListPutPage(isa, p)
      BY <1>3 DEF Free, PageFree, isaMaxPages
    <2>2. CASE p = ISA_PAGES
      BY <1>1, <2>1, <2>2 DEF Conserved, PagesDisjoint, NoPageLost, IsaPagesAreLow
    <2>3. CASE p # ISA_PAGES
      <3>1. isa' = [list |-> isa.list \cup {p}, numPages |-> (isa.numPages + 1) % WORD]
        BY <2>1, <2>3 DEF PageListPutPage
      <3>2. p < ISA_PAGES  BY <1>3, <2>3
      <3>3. QED
        BY <1>1, <2>1, <3>1, <3>2 DEF Conserved, PagesDisjoint, NoPageLost, IsaPagesAreLow
    <2>4. QED  BY <2>2, <2>3
  <1>4. QED  BY <1>2, <1>3

\* Every step conserves the pages.
LEMMA NextConserved ==
  ASSUME Conserved, [PagesNext]_pageVars
  PROVE  Conserved'
  <1>1. ASSUME NEW t \in PageThread,
               PageAllocCall(t) \/ PageAllocLowCall(t) \/ PageAllocLow(t)
        PROVE  Conserved'
    BY <1>1 DEF PageAllocCall, PageAllocLowCall, PageAllocLow, Conserved, PagesDisjoint,
       NoPageLost, IsaPagesAreLow
  <1>2. ASSUME NEW t \in PageThread, PageAllocNormal(t) PROVE Conserved'
    BY <1>2, NormalConserved DEF PageAllocNormal
  <1>3. ASSUME NEW t \in PageThread, PageAllocIsa(t) PROVE Conserved'
    BY <1>3, IsaConserved DEF PageAllocIsa
  <1>4. ASSUME NEW p \in Page, Free(p) PROVE Conserved'
    BY <1>4, FreeConserved
  <1>5. CASE UNCHANGED pageVars
    BY <1>5 DEF pageVars, Conserved, PagesDisjoint, NoPageLost, IsaPagesAreLow
  <1>6. QED  BY <1>1, <1>2, <1>3, <1>4, <1>5 DEF PagesNext

\* PageAlloc never hands out a page that is in use or reserved, although it
\* tests the counter of a stack and pops from it in two steps.
THEOREM PagesDisjointAlways == PagesSpec => []PagesDisjoint
  <1>1. Conserved => PagesDisjoint  BY DEF Conserved
  <1>2. QED  BY InitConserved, NextConserved, <1>1, PTL DEF PagesSpec

\* No page but the one at ISA_PAGES gets lost.
THEOREM NoPageLostAlways == PagesSpec => []NoPageLost
  <1>1. Conserved => NoPageLost  BY DEF Conserved
  <1>2. QED  BY InitConserved, NextConserved, <1>1, PTL DEF PagesSpec

\* The pages of the ISA stack are below the limit of ISA DMA.
THEOREM IsaPagesAreLowAlways == PagesSpec => []IsaPagesAreLow
  <1>1. Conserved => IsaPagesAreLow  BY DEF Conserved
  <1>2. QED  BY InitConserved, NextConserved, <1>1, PTL DEF PagesSpec

----------------------------------------------------------------------------
(* The ISA counter.  Every thread that has passed the test of PageAllocLow *)
(* has a page left: of the ISA_RESERVE pages that the last one of them saw, *)
(* at most one went to each other thread.                                  *)

\* The threads between the test of PageAllocLow and its pop.
Popping == {t \in PageThread : allocAt[t] = "isa"}

\* The inductive invariant of the ISA counter.
Reserve ==
  /\ Conserved
  /\ allocAt \in [PageThread -> {"run", "normal", "low", "isa"}]
  /\ panic \in BOOLEAN
  /\ isa.numPages = Cardinality(isa.list)
  /\ ~panic /\ Popping # {} =>
       Cardinality(isa.list) >= ISA_RESERVE - Cardinality(PageThread) + Cardinality(Popping)

\* The pages are a finite set, and so are the stacks and the threads.
LEMMA Finite ==
  ASSUME Conserved
  PROVE  /\ IsFiniteSet(isa.list) /\ Cardinality(isa.list) \in Nat
         /\ Cardinality(isa.list) <= maxPfn
         /\ \A p \in Page : Cardinality(isa.list \cup {p}) <= maxPfn
  <1>1. IsFiniteSet(Page) /\ Cardinality(Page) = maxPfn
    BY FS_Interval, PageAssumption DEF Page
  <1>2. isa.list \subseteq Page  BY DEF Conserved
  <1>3. \A p \in Page : isa.list \cup {p} \subseteq Page  BY <1>2
  <1>4. QED  BY <1>1, <1>2, <1>3, FS_Subset, FS_CardinalityType

\* The threads about to pop are a finite set of threads.
LEMMA PoppingFinite == IsFiniteSet(Popping) /\ Cardinality(Popping) \in Nat
                       /\ Cardinality(Popping) <= Cardinality(PageThread)
                       /\ Cardinality(PageThread) \in Nat
  BY PageAssumption, FS_Subset, FS_CardinalityType DEF Popping

\* The reserve is whole at first.
LEMMA InitReserve == PagesInit => Reserve
  <1> SUFFICES ASSUME PagesInit PROVE Reserve  OBVIOUS
  <1>1. Popping = {}  BY DEF PagesInit, Popping
  <1>2. QED  BY <1>1, InitConserved DEF PagesInit, Reserve

\* One more thread at the pop: Popping grows by that thread.
LEMMA TestReserve ==
  ASSUME Reserve, NEW t \in PageThread, PageAllocLow(t)
  PROVE  Reserve'
  <1>1. isa' = isa /\ Conserved'
    BY DEF Reserve, PageAllocLow, Conserved, PagesDisjoint, NoPageLost, IsaPagesAreLow
  <1>2. allocAt[t] = "low" /\ allocAt' = [allocAt EXCEPT ![t] = "isa"]  BY DEF PageAllocLow, Goto
  <1>3. Popping' = Popping \cup {t} /\ t \notin Popping  BY <1>2 DEF Popping, Reserve
  <1>4. Cardinality(Popping') = Cardinality(Popping) + 1
    BY <1>3, PoppingFinite, FS_AddElement
  <1>5. IsFiniteSet(Popping \cup {t})  BY PoppingFinite, FS_AddElement
  <1>6. Cardinality(Popping') <= Cardinality(PageThread)
    BY <1>3, <1>5, PageAssumption, FS_Subset DEF Popping
  <1>7. ASSUME ~panic'
        PROVE  Cardinality(isa.list) >= ISA_RESERVE
    <2>1. ~(isa.numPages < ISA_RESERVE)  BY <1>7, ZenonT(30) DEF PageAllocLow
    <2>2. isa.numPages = Cardinality(isa.list) /\ Conserved  BY DEF Reserve
    <2>3. QED  BY <2>1, <2>2, Finite, PageAssumption
  <1>8. ASSUME ~panic'
        PROVE  Cardinality(isa.list) >=
                 ISA_RESERVE - Cardinality(PageThread) + Cardinality(Popping')
    <2> HIDE DEF Popping
    <2>1. Cardinality(isa.list) \in Nat /\ Cardinality(Popping) \in Nat
          /\ Cardinality(PageThread) \in Nat /\ ISA_RESERVE \in Nat
      BY Finite, PoppingFinite, PageAssumption DEF Reserve
    <2>2. QED  BY <1>4, <1>6, <1>7, <1>8, <2>1
  <1>9. panic' \in BOOLEAN  BY DEF PageAllocLow
  <1>10. allocAt' \in [PageThread -> {"run", "normal", "low", "isa"}]  BY <1>2 DEF Reserve
  <1>11. QED  BY <1>1, <1>8, <1>9, <1>10 DEF Reserve

\* A pop takes one page and one thread out of Popping.
LEMMA PopReserve ==
  ASSUME Reserve, Cardinality(PageThread) <= ISA_RESERVE, NEW t \in PageThread, PageAllocIsa(t)
  PROVE  Reserve'
  <1>1. Conserved'  BY IsaConserved DEF Reserve, PageAllocIsa
  <1>2. allocAt[t] = "isa" /\ allocAt' = [allocAt EXCEPT ![t] = "run"] /\ ~panic /\ panic' = panic
    BY DEF PageAllocIsa, Goto
  <1>3. Popping' = Popping \ {t} /\ t \in Popping  BY <1>2 DEF Popping, Reserve
  <1>4. Cardinality(Popping') = Cardinality(Popping) - 1
    BY <1>3, PoppingFinite, FS_RemoveElement
  <1>5. IsFiniteSet(isa.list) /\ Cardinality(isa.list) \in Nat
        /\ Cardinality(isa.list) <= maxPfn
    BY Finite DEF Reserve
  <1>6. Cardinality(isa.list) >= ISA_RESERVE - Cardinality(PageThread) + Cardinality(Popping)
    BY <1>2, <1>3 DEF Reserve
  <1>7. Cardinality(Popping) >= 1
    BY <1>3, PoppingFinite, FS_EmptySet
  <1>8. Cardinality(isa.list) >= 1
    BY <1>5, <1>6, <1>7, PoppingFinite, PageAssumption
  <1>9. isa.list # {}  BY <1>8, FS_EmptySet
  <1>10. PICK p \in isa.list : isa' = Pop(isa, p)
    BY <1>9 DEF PageAllocIsa, PageListGetHead
  <1>11. Cardinality(isa.list \ {p}) = Cardinality(isa.list) - 1
    BY <1>5, FS_RemoveElement
  <1>12. isa'.list = isa.list \ {p} /\ isa'.numPages = (isa.numPages - 1) % WORD
    BY <1>10 DEF Pop
  <1>13. isa'.numPages = Cardinality(isa'.list)
    <2>1. isa.numPages = Cardinality(isa.list)  BY DEF Reserve
    <2>2. \A n \in Nat : n < WORD => n % WORD = n  BY PageAssumption
    <2>3. Cardinality(isa.list) - 1 \in Nat /\ Cardinality(isa.list) - 1 < WORD
      BY <1>5, <1>8, PageAssumption
    <2>4. QED  BY <1>11, <1>12, <2>1, <2>2, <2>3
  <1>14. Cardinality(isa'.list) >=
           ISA_RESERVE - Cardinality(PageThread) + Cardinality(Popping')
    BY <1>4, <1>5, <1>6, <1>11, <1>12, PoppingFinite, PageAssumption
  <1>15. allocAt' \in [PageThread -> {"run", "normal", "low", "isa"}] /\ panic' \in BOOLEAN
    BY <1>2 DEF Reserve
  <1>16. QED  BY <1>1, <1>13, <1>14, <1>15 DEF Reserve

\* A freed page is counted; nobody starts or ends a pop.
LEMMA FreeReserve ==
  ASSUME Reserve, NEW p \in Page, Free(p)
  PROVE  Reserve'
  <1>1. Conserved'  BY FreeConserved DEF Reserve
  <1>2. allocAt' = allocAt /\ panic' = panic /\ p \in owned  BY DEF Free
  <1>3. Popping' = Popping  BY <1>2 DEF Popping
  <1>4. p \notin isa.list  BY <1>2 DEF Reserve, Conserved, PagesDisjoint
  <1>5. IsFiniteSet(isa.list) /\ Cardinality(isa.list) \in Nat
        /\ Cardinality(isa.list \cup {p}) <= maxPfn
    BY Finite DEF Reserve
  <1>6. Cardinality(isa.list \cup {p}) = Cardinality(isa.list) + 1
    BY <1>4, <1>5, FS_AddElement
  <1>7. isa' = isa \/ isa' = PageListPutPage(isa, p)  BY DEF Free, PageFree
  <1>8. isa'.numPages = Cardinality(isa'.list) /\ Cardinality(isa'.list) \in Nat
        /\ Cardinality(isa'.list) >= Cardinality(isa.list)
    <2>1. CASE isa' = isa  BY <1>5, <2>1 DEF Reserve
    <2>2. CASE isa' = PageListPutPage(isa, p)
      <3>1. isa'.list = isa.list \cup {p} /\ isa'.numPages = (isa.numPages + 1) % WORD
        BY <2>2 DEF PageListPutPage
      <3>2. \A n \in Nat : n < WORD => n % WORD = n  BY PageAssumption
      <3>3. isa.numPages = Cardinality(isa.list)  BY DEF Reserve
      <3>4. Cardinality(isa.list) + 1 \in Nat /\ Cardinality(isa.list) + 1 < WORD
        BY <1>5, <1>6, PageAssumption
      <3>5. QED  BY <1>5, <1>6, <3>1, <3>2, <3>3, <3>4
    <2>3. QED  BY <1>7, <2>1, <2>2
  <1>9. ~panic /\ Popping # {} =>
          Cardinality(isa'.list) >= ISA_RESERVE - Cardinality(PageThread) + Cardinality(Popping)
    BY <1>5, <1>8, PoppingFinite, PageAssumption DEF Reserve
  <1>10. QED  BY <1>1, <1>2, <1>3, <1>8, <1>9 DEF Reserve

\* The other steps leave the ISA stack and the threads at the pop alone.
LEMMA OtherReserve ==
  ASSUME Reserve, NEW t \in PageThread,
         PageAllocCall(t) \/ PageAllocLowCall(t) \/ PageAllocNormal(t)
  PROVE  Reserve'
  <1>1. isa' = isa /\ panic' = panic /\ allocAt[t] # "isa"
        /\ \E to \in {"run", "normal", "low"} : allocAt' = [allocAt EXCEPT ![t] = to]
    BY DEF PageAllocCall, PageAllocLowCall, PageAllocNormal, Goto
  <1>2. Popping' = Popping  BY <1>1 DEF Popping, Reserve
  <1>3. Conserved'  BY NextConserved DEF Reserve, PagesNext
  <1>4. allocAt' \in [PageThread -> {"run", "normal", "low", "isa"}]  BY <1>1 DEF Reserve
  <1>5. QED  BY <1>1, <1>2, <1>3, <1>4 DEF Reserve

\* No step of a page thread takes a page that the test has not left.
LEMMA NextReserve ==
  ASSUME Reserve, Cardinality(PageThread) <= ISA_RESERVE, [PagesNext]_pageVars
  PROVE  Reserve'
  <1>1. CASE UNCHANGED pageVars
    BY <1>1 DEF pageVars, Reserve, Popping, Conserved, PagesDisjoint, NoPageLost, IsaPagesAreLow
  <1>2. QED  BY <1>1, TestReserve, PopReserve, FreeReserve, OtherReserve DEF PagesNext

\* With no more threads than pages in the reserve, the counter of the ISA stack
\* is exact and every thread that passed the test of PageAllocLow gets a page.
THEOREM IsaCountExactAlways ==
  Cardinality(PageThread) <= ISA_RESERVE => (PagesSpec => []IsaCountExact)
  <1>1. Cardinality(PageThread) <= ISA_RESERVE /\ Reserve => IsaCountExact
    <2> SUFFICES ASSUME Cardinality(PageThread) <= ISA_RESERVE, Reserve, ~panic, Popping # {}
                 PROVE  isa.list # {}
      BY DEF Reserve, IsaCountExact, Popping
    <2>1. Cardinality(Popping) >= 1
      BY PoppingFinite, FS_EmptySet
    <2>2. Cardinality(isa.list) >= 1
      BY <2>1, Finite, PoppingFinite, PageAssumption DEF Reserve
    <2>3. QED  BY <2>2, FS_EmptySet
  <1>2. SUFFICES ASSUME Cardinality(PageThread) <= ISA_RESERVE
                 PROVE  PagesSpec => []IsaCountExact
    OBVIOUS
  <1>3. Reserve => IsaCountExact  BY <1>1, <1>2
  <1>4. Reserve /\ [PagesNext]_pageVars => Reserve'  BY <1>2, NextReserve
  <1>5. QED  BY InitReserve, <1>3, <1>4, PTL DEF PagesSpec
=============================================================================
