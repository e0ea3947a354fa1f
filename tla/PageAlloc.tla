----------------------------- MODULE PageAlloc -----------------------------
(***************************************************************************)
(* Physical pages: the two stacks of memory/pg_alloc.c.  Pages are named   *)
(* by their page frame number.  Interrupts are disabled while a page is    *)
(* pushed or popped, but not between the test of a stack's counter and the *)
(* pop, where another thread may come in.                                  *)
(*                                                                         *)
(*   normal, isa   the stacks: the pages linked in list, and numPages      *)
(*   owned         pages that have been handed out                         *)
(*   allocAt       "run", or where a thread is inside PageAlloc: about to  *)
(*                 pop from "normal", to call PageAllocLow ("low"), or to  *)
(*                 pop from "isa"                                          *)
(*   panic         KernelPanic has been called                             *)
(*                                                                         *)
(* The order of a stack is left out: which page is handed out is not       *)
(* something its users rely on.                                            *)
(***************************************************************************)
EXTENDS Integers, FiniteSets

CONSTANTS
  PageThread,   \* threads that allocate and free pages
  maxPfn,       \* number of pages of the machine
  ISA_PAGES,    \* pages below 16 MB (4096)
  ISA_RESERVE,  \* PageAllocLow panics below this number of pages (5)
  Reserved,     \* pages that PageEarlyInit and PhysInit have reserved
  WORD          \* number of values of a DWORD

Page == 0 .. maxPfn - 1

ASSUME PageAssumption ==
  /\ maxPfn \in Nat /\ ISA_PAGES \in Nat /\ ISA_RESERVE \in Nat /\ WORD \in Nat
  /\ maxPfn < WORD
  /\ Reserved \subseteq Page
  /\ IsFiniteSet(PageThread)

VARIABLES normal, isa, owned, allocAt, panic

pageVars == <<normal, isa, owned, allocAt, panic>>

Stack == [list : SUBSET Page, numPages : 0 .. WORD - 1]

PagesTypeOK ==
  /\ normal \in Stack
  /\ isa \in Stack
  /\ owned \in SUBSET Page
  /\ allocAt \in [PageThread -> {"run", "normal", "low", "isa"}]
  /\ panic \in BOOLEAN

isaMaxPages == IF maxPfn > ISA_PAGES THEN ISA_PAGES ELSE maxPfn
normalMaxPages == IF isaMaxPages < maxPfn THEN maxPfn - ISA_PAGES ELSE 0

isaFree == (0 .. isaMaxPages - 1) \ Reserved

\* Mutant: the loop runs one page too far.
FreeAndOneMore == IF isaMaxPages < maxPfn THEN (ISA_PAGES .. maxPfn) \ Reserved ELSE {}

normalFree == IF isaMaxPages < maxPfn THEN (ISA_PAGES .. maxPfn - 1) \ Reserved ELSE {}

\* PageInit: every page that is not reserved is pushed onto its stack.
PagesInit ==
  /\ isa = [list |-> isaFree, numPages |-> Cardinality(isaFree)]
  /\ normal = [list |-> normalFree, numPages |-> Cardinality(normalFree)]
  /\ owned = {}
  /\ allocAt = [t \in PageThread |-> "run"]
  /\ panic = FALSE

----------------------------------------------------------------------------
\* Mutant: the page stays linked.
PopLinked(s, p) == [list |-> s.list, numPages |-> (s.numPages - 1) % WORD]

Pop(s, p) == [list |-> s.list \ {p}, numPages |-> (s.numPages - 1) % WORD]

\* The head of an empty list is the list itself: nothing is unlinked, the
\* counter wraps, and the caller gets no page.
PageListGetHead(stack, stack1) ==
  \/ \E p \in stack.list : stack1 = Pop(stack, p) /\ owned' = owned \cup {p}
  \/ /\ stack.list = {}
     /\ stack1 = [stack EXCEPT !.numPages = (@ - 1) % WORD]
     /\ UNCHANGED owned

PageListPutPage(s, p) == [list |-> s.list \cup {p}, numPages |-> (s.numPages + 1) % WORD]

Goto(t, from, to) == ~panic /\ allocAt[t] = from /\ allocAt' = [allocAt EXCEPT ![t] = to]

\* PageAlloc up to the test of normal.numPages.
PageAllocCall(t) ==
  /\ Goto(t, "run", IF normal.numPages # 0 THEN "normal" ELSE "low")
  /\ UNCHANGED <<normal, isa, owned, panic>>

PageAllocNormal(t) ==
  /\ Goto(t, "normal", "run")
  /\ PageListGetHead(normal, normal')
  /\ UNCHANGED <<isa, panic>>

\* A driver that needs memory below 16 MB.
PageAllocLowCall(t) ==
  /\ Goto(t, "run", "low")
  /\ UNCHANGED <<normal, isa, owned, panic>>

\* Mutant: the test for the last pages is off by the whole reserve.
TestLowEmptyOnly(t) ==
  /\ Goto(t, "low", "isa")
  /\ panic' = (isa.numPages = 0)
  /\ UNCHANGED <<normal, isa, owned>>

\* PageAllocLow up to the pop: the system is out of memory, or it goes on.
PageAllocLow(t) ==
  /\ Goto(t, "low", "isa")
  /\ panic' = (isa.numPages < ISA_RESERVE)
  /\ UNCHANGED <<normal, isa, owned>>

PageAllocIsa(t) ==
  /\ Goto(t, "isa", "run")
  /\ PageListGetHead(isa, isa')
  /\ UNCHANGED <<normal, panic>>

\* Mutant: the pages of the ISA stack are not pushed when they are freed.
FreeNormalOnly(p) ==
  /\ normal' = IF p > ISA_PAGES THEN PageListPutPage(normal, p) ELSE normal
  /\ UNCHANGED isa

\* PageFree: an illegal free only prints a message.
PageFree(p) ==
  IF p > ISA_PAGES
  THEN /\ normal' = IF p >= normalMaxPages + ISA_PAGES THEN normal ELSE PageListPutPage(normal, p)
       /\ UNCHANGED isa
  ELSE /\ isa' = IF p >= isaMaxPages THEN isa ELSE PageListPutPage(isa, p)
       /\ UNCHANGED normal

\* The owner of a page frees it.
Free(p) ==
  /\ ~panic /\ p \in owned
  /\ owned' = owned \ {p}
  /\ PageFree(p)
  /\ UNCHANGED <<allocAt, panic>>

PagesNext ==
  \/ \E t \in PageThread : PageAllocCall(t) \/ PageAllocNormal(t)
                       \/ PageAllocLowCall(t) \/ PageAllocLow(t) \/ PageAllocIsa(t)
  \/ \E p \in Page : Free(p)

PagesSpec == PagesInit /\ [][PagesNext]_pageVars

----------------------------------------------------------------------------
\* A page is on one stack, or handed out, and never two of these: PageAlloc
\* hands out no page twice, whatever threads come in between its steps.
PagesDisjoint ==
  /\ normal.list \cap isa.list = {}
  /\ owned \cap (normal.list \cup isa.list) = {}
  /\ Reserved \cap (owned \cup normal.list \cup isa.list) = {}

\* No page is lost when it is freed.  The page at 16 MB is another matter.
NoPageLost == Page \ (Reserved \cup {ISA_PAGES}) \subseteq owned \cup normal.list \cup isa.list

\* The ISA stack has only pages that ISA DMA can reach, however pages were
\* allocated and freed: a driver relies on that for the result of PageAllocLow.
IsaPagesAreLow == \A p \in isa.list : p < ISA_PAGES

\* The counter of the ISA stack is the number of its pages, and a thread that
\* has passed the test of PageAllocLow finds one, as long as there are fewer
\* such threads than pages in the reserve.
IsaCountExact ==
  /\ isa.numPages = Cardinality(isa.list)
  /\ ~panic /\ (\E t \in PageThread : allocAt[t] = "isa") => isa.list # {}
=============================================================================
