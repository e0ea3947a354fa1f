----------------------------- MODULE ThreadOps -----------------------------
(***************************************************************************)
(* The thread table and the scheduler of the Whitix kernel, written as     *)
(* functions from a kernel state to a kernel state, so that a handler that *)
(* makes several calls is their composition.  A kernel state is a record:  *)
(*                                                                         *)
(*   state, refs, quantums, priority, preemptCount   the fields of struct  *)
(*               Thread; a struct that is back in threadCache is "FREE"    *)
(*   pos         place of the thread in threadList, 0 when unlinked        *)
(*   curr        currThread (NULL only inside ThrSchedule)                 *)
(*   need        thrNeedSchedule                                           *)
(*   nrRunning   the counter of the same name                              *)
(*   lastMath    lastMathThread                                            *)
(*   ts          the task-switched bit of CR0: an FPU instruction traps    *)
(*   halted      the kernel has panicked, or faulted in kernel mode        *)
(*                                                                         *)
(* The idle task is not in threadList, has no quantums and is never        *)
(* counted, so the functions range over the other threads only.            *)
(***************************************************************************)
EXTENDS Integers, FiniteSets

CONSTANTS
  Thread,            \* the thread structs the slab cache can hand out
  Idle,              \* idleTask
  NULL,              \* the null pointer
  PRIORITY_DEFAULT,  \* priority of a new thread
  PRIORITY_TOP       \* upper clamp of ThrSetPriority (PRIORITY_NONE is 0)

ASSUME ThreadAssumption ==
  /\ IsFiniteSet(Thread)
  /\ Idle \notin Thread
  /\ NULL \notin Thread \cup {Idle}
  /\ PRIORITY_DEFAULT \in Nat
  /\ PRIORITY_TOP \in Nat
  /\ PRIORITY_DEFAULT <= PRIORITY_TOP

ThreadStates == {"FREE", "RUNNING", "PAUSED", "DYING"}

KernelState ==
  [ state : [Thread -> ThreadStates],
    refs : [Thread -> Int],
    quantums : [Thread -> Nat],
    priority : [Thread -> Nat],
    preemptCount : [Thread -> Nat],
    pos : [Thread -> Nat],
    curr : Thread \cup {Idle, NULL},
    need : BOOLEAN,
    nrRunning : Int,
    lastMath : Thread \cup {NULL},
    ts : BOOLEAN,
    halted : BOOLEAN ]

Linked(k) == {t \in Thread : k.pos[t] > 0}

QuantumsOf(k, t) == IF t = Idle THEN 0 ELSE k.quantums[t]

PreemptCanSchedule(k) == IF k.curr = Idle THEN TRUE ELSE k.preemptCount[k.curr] = 0

----------------------------------------------------------------------------
(* threadList: ListAddTail and ListRemove.                                 *)

ThreadListAdd(k, t) ==
  [k EXCEPT !.pos[t] = Cardinality(Linked(k)) + 1]

ThreadListRemove(k, S) ==
  [k EXCEPT !.pos =
     [t \in Thread |-> IF t \in S \/ k.pos[t] = 0 THEN 0
                       ELSE Cardinality({u \in Linked(k) \ S : k.pos[u] <= k.pos[t]})]]

----------------------------------------------------------------------------
(* Choosing and switching to the next thread.                              *)

\* Mutant: the test of the thread's state is forgotten.
ChooseAnyState(k) ==
  LET Best(t) == \A u \in Linked(k) \ {t} :
                   \/ k.quantums[u] < k.quantums[t]
                   \/ k.quantums[u] = k.quantums[t] /\ k.pos[t] < k.pos[u]
  IN IF \E t \in Linked(k) : Best(t) THEN CHOOSE t \in Linked(k) : Best(t) ELSE Idle

\* The first linked RUNNING thread with the most quantums; idleTask if none.
ThrChooseNewThread(k) ==
  LET run == {t \in Linked(k) : k.state[t] = "RUNNING"}
      Best(t) == \A u \in run \ {t} :
                   \/ k.quantums[u] < k.quantums[t]
                   \/ k.quantums[u] = k.quantums[t] /\ k.pos[t] < k.pos[u]
  IN IF \E t \in run : Best(t) THEN CHOOSE t \in run : Best(t) ELSE Idle

\* Mutant: unused quantums are halved, not quartered.
RecalculateHalf(k) ==
  [t \in Thread |-> IF k.pos[t] > 0 THEN k.priority[t] + (k.quantums[t] \div 2)
                    ELSE k.quantums[t]]

\* All threads have no time left to run: hand out new quantums.
Recalculate(k) ==
  [t \in Thread |-> IF k.pos[t] > 0 THEN k.priority[t] + (k.quantums[t] \div 4)
                    ELSE k.quantums[t]]

\* Mutant: the TS bit is set only if some thread has used the FPU.
SwitchLazily(k, next) ==
  [k EXCEPT !.curr = next, !.ts = @ \/ (k.lastMath # NULL /\ k.lastMath # k.curr)]

\* The part of ThrArchSwitch that outlives the switch: the TS bit.
ThrArchSwitch(k, next) ==
  [k EXCEPT !.curr = next, !.ts = @ \/ k.lastMath # next]

\* ThrSchedule from the choice of the next thread on.
Dispatch(k) ==
  LET n == ThrChooseNewThread(k)
      k1 == [k EXCEPT !.need = FALSE,
                      !.quantums = IF n # Idle /\ k.quantums[n] = 0 THEN Recalculate(k) ELSE @]
  IN IF k.curr = n THEN k1 ELSE ThrArchSwitch(k1, n)

\* Mutant: the struct is freed while it is still in threadList.
FreeLinked(k, t) ==
  [k EXCEPT
     !.nrRunning = @ - 1,
     !.state[t] = "FREE",
     !.refs[t] = 0,
     !.curr = IF @ = t THEN NULL ELSE @]

\* The struct goes back to threadCache, which zeroes it.
FreeStruct(k, t) ==
  [ThreadListRemove(k, {t}) EXCEPT
     !.nrRunning = @ - 1,
     !.state[t] = "FREE",
     !.refs[t] = 0,
     !.quantums[t] = 0,
     !.priority[t] = 0,
     !.preemptCount[t] = 0,
     !.curr = IF @ = t THEN NULL ELSE @]

\* A dying current thread is freed on the way, whatever its reference count.
ThrSchedule(k) ==
  IF k.curr \in Thread /\ k.state[k.curr] = "DYING"
  THEN Dispatch(FreeStruct(k, k.curr))
  ELSE Dispatch(k)

\* Mutant: freeing the current thread does not reschedule.
FreeWithoutSchedule(k, t) ==
  IF t = Idle \/ k.state[t] = "FREE" THEN [k EXCEPT !.halted = TRUE] ELSE FreeStruct(k, t)

\* Freeing the current thread reschedules and never returns to the caller.
\* Freeing a struct twice unlinks it through its zeroed list pointers.
ThrFreeThread(k, t) ==
  IF t = Idle \/ k.state[t] = "FREE" THEN [k EXCEPT !.halted = TRUE]
  ELSE IF t = k.curr THEN Dispatch(FreeStruct(k, t))
  ELSE FreeStruct(k, t)

\* The check at the end of every interrupt and of every system call.
ReschedCheck(k) ==
  IF k.need /\ PreemptCanSchedule(k) THEN ThrSchedule(k) ELSE k

----------------------------------------------------------------------------
(* thread.c                                                                *)

ThrCreateThread(k, t) ==
  ThreadListAdd([k EXCEPT !.refs[t] = 1,
                          !.priority[t] = PRIORITY_DEFAULT,
                          !.state[t] = "PAUSED",
                          !.preemptCount[t] = 0], t)

ThrStartThread(k, t) ==
  IF k.state[t] = "RUNNING" THEN k
  ELSE [k EXCEPT !.state[t] = "RUNNING", !.nrRunning = @ + 1]

ThrSuspendThread(k, t) ==
  IF t = Idle THEN [k EXCEPT !.halted = TRUE]
  ELSE IF k.state[t] = "RUNNING"
  THEN [k EXCEPT !.state[t] = "PAUSED", !.nrRunning = @ - 1]
  ELSE k

\* Mutant: a reschedule is requested only for strictly more quantums.
ResumeIfGreater(k, S) ==
  LET started == {t \in S : k.state[t] \in {"PAUSED", "DYING"}}
  IN [k EXCEPT !.state = [t \in Thread |-> IF t \in started THEN "RUNNING" ELSE k.state[t]],
               !.nrRunning = @ + Cardinality(started),
               !.need = @ \/ \E t \in started : k.quantums[t] > QuantumsOf(k, k.curr)]

\* ThrResumeThread on every thread of S.  A write to a struct that is back in
\* the cache is undone by the zeroing of the next allocation.
ThrResumeThreads(k, S) ==
  LET started == {t \in S : k.state[t] \in {"PAUSED", "DYING"}}
  IN [k EXCEPT !.state = [t \in Thread |-> IF t \in started THEN "RUNNING" ELSE k.state[t]],
               !.nrRunning = @ + Cardinality(started),
               !.need = @ \/ \E t \in started : k.quantums[t] >= QuantumsOf(k, k.curr)]

ThrSetPriority(k, t, p) ==
  [k EXCEPT !.priority[t] = IF p > PRIORITY_TOP THEN PRIORITY_TOP
                            ELSE IF p < 0 THEN 0 ELSE p]

ThrGetThread(k, t) == [k EXCEPT !.refs[t] = @ + 1]

ThrReleaseThread(k, t) ==
  LET k1 == [k EXCEPT !.refs[t] = @ - 1]
  IN IF k1.refs[t] <= 0 THEN ThrFreeThread(k1, t) ELSE k1

ThrArchDestroyThreads(k, S) ==
  [k EXCEPT !.lastMath = IF @ \in S THEN NULL ELSE @]

\* The loop of ThrProcessExit over the threads of the process: each is marked
\* dying and loses a reference, and those without another one are freed.
KillThreads(k, S) ==
  LET dead == {t \in S : k.refs[t] <= 1}
      Clear(f) == [t \in Thread |-> IF t \in dead THEN 0 ELSE f[t]]
  IN [ThreadListRemove(ThrArchDestroyThreads(k, S), dead) EXCEPT
        !.state = [t \in Thread |-> IF t \in dead THEN "FREE"
                                    ELSE IF t \in S THEN "DYING" ELSE k.state[t]],
        !.refs = [t \in Thread |-> IF t \in dead THEN 0
                                   ELSE IF t \in S THEN k.refs[t] - 1 ELSE k.refs[t]],
        !.quantums = Clear(k.quantums),
        !.priority = Clear(k.priority),
        !.preemptCount = Clear(k.preemptCount),
        !.nrRunning = @ - Cardinality(dead)]

----------------------------------------------------------------------------
(* Interrupts.                                                             *)

\* Mutant: the tick does not use up the quantums of the current thread.
TickWithoutCharge(k) ==
  IF QuantumsOf(k, k.curr) > 0 THEN k ELSE [k EXCEPT !.need = TRUE]

PitInterrupt(k) ==
  IF QuantumsOf(k, k.curr) > 0 THEN [k EXCEPT !.quantums[k.curr] = @ - 1]
  ELSE [k EXCEPT !.need = TRUE]

\* Trap 7: the registers are saved into lastMathThread and given to currThread.
FpuNotAvailable(k) == [k EXCEPT !.ts = FALSE, !.lastMath = k.curr]
=============================================================================
