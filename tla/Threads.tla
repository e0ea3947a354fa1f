------------------------------ MODULE Threads ------------------------------
(***************************************************************************)
(* The threads of a Whitix machine: the current thread executes system     *)
(* calls and kernel code one uninterruptible stretch at a time, and timer  *)
(* and device interrupts arrive between any two stretches.  The CPU is     *)
(* single, so only currThread takes steps; what interleaves is where an    *)
(* interrupt or a call to ThrSchedule takes the CPU away.                  *)
(*                                                                         *)
(*   k        the kernel state of ThreadOps                                *)
(*   pc       where each thread is (see PcValues)                          *)
(*   arg      the thread a SysSuspendThread in progress refers to          *)
(*   waitQueue  the threads linked into one wait queue, in order           *)
(*   ready    the condition that its waiters wait for                      *)
(*   procState  state of the user process that owns the User threads       *)
(*   created  number of SysCreateThread calls, bounded by MaxCreate        *)
(***************************************************************************)
EXTENDS ThreadOps, Sequences

CONSTANTS
  User,        \* threads of the user process; the others are kernel threads
  Boot,        \* the threads that exist when the machine has booted, in order
  Priorities,  \* arguments kernel threads give to ThrSetPriority
  Calls,       \* the calls that the threads make in this instance
  MaxCreate    \* bound on SysCreateThread

ASSUME EnvAssumption ==
  /\ User \subseteq Thread
  /\ Boot \in Seq(Thread)
  /\ \A i, j \in DOMAIN Boot : Boot[i] = Boot[j] => i = j
  /\ Priorities \subseteq Int
  /\ MaxCreate \in Nat

VARIABLES k, pc, arg, waitQueue, ready, procState, created

vars == <<k, pc, arg, waitQueue, ready, procState, created>>

(* "none"     the struct is not a thread                                   *)
(* "run"      in user mode, or in the main loop of a kernel thread         *)
(* "locked"   between PreemptDisable and PreemptEnable                     *)
(* "exiting"  in ThrDoExitThread, the state already THR_DYING              *)
(* "suspended" in SysSuspendThread, to release the target on return        *)
(* "prepare", "test", "suspend", "finish", "release"  stages of            *)
(*            PERFORM_WAIT_ON; "sleepPrepare", "sleepSuspend" of SLEEP_ON, *)
(*            which shares the last two                                    *)
(* "spin"     the endless loop of ThrEndWait                               *)
WaitPcs == {"prepare", "test", "suspend", "sleepPrepare", "sleepSuspend", "finish", "release"}

PcValues == {"none", "run", "locked", "exiting", "suspended", "spin"} \cup WaitPcs

TypeOK ==
  /\ k \in KernelState
  /\ k.curr # NULL
  /\ pc \in [Thread -> PcValues]
  /\ arg \in [Thread -> Thread \cup {NULL}]
  /\ waitQueue \in Seq(Thread)
  /\ ready \in BOOLEAN
  /\ procState \in {"RUNNING", "DYING"}
  /\ created \in 0 .. MaxCreate

----------------------------------------------------------------------------
InBoot(t) == \E i \in DOMAIN Boot : Boot[i] = t

Init ==
  /\ k = Dispatch([ state |-> [t \in Thread |-> IF InBoot(t) THEN "RUNNING" ELSE "FREE"],
                    refs |-> [t \in Thread |-> IF InBoot(t) THEN 1 ELSE 0],
                    quantums |-> [t \in Thread |-> 0],
                    priority |-> [t \in Thread |-> IF InBoot(t) THEN PRIORITY_DEFAULT ELSE 0],
                    preemptCount |-> [t \in Thread |-> 0],
                    pos |-> [t \in Thread |-> IF InBoot(t)
                                              THEN CHOOSE i \in DOMAIN Boot : Boot[i] = t ELSE 0],
                    curr |-> Idle,
                    need |-> FALSE,
                    nrRunning |-> Len(Boot),
                    lastMath |-> NULL,
                    ts |-> FALSE,
                    halted |-> FALSE ])
  /\ pc = [t \in Thread |-> IF InBoot(t) THEN "run" ELSE "none"]
  /\ arg = [t \in Thread |-> NULL]
  /\ waitQueue = <<>>
  /\ ready = FALSE
  /\ procState = "RUNNING"
  /\ created = 0

----------------------------------------------------------------------------
\* The current thread is t, and it is at place p of its code.
At(t, p) == ~k.halted /\ k.curr = t /\ pc[t] = p

\* Kernel state becomes k1 and t moves on to place p; a freed struct is no thread.
Step(k1, t, p) ==
  /\ k' = k1
  /\ pc' = [u \in Thread |-> IF k'.state[u] = "FREE" THEN "none"
                             ELSE IF u = t THEN p ELSE pc[u]]

\* What happens when the call ends: system calls check thrNeedSchedule.
Return(k1, t) == IF t \in User THEN ReschedCheck(k1) ELSE k1

Call(t, name) == name \in Calls /\ At(t, "run")

Waiting(t) == \E i \in DOMAIN waitQueue : waitQueue[i] = t

\* The queue without t's entry.
Unlink(t) ==
  LET i == CHOOSE j \in DOMAIN waitQueue : waitQueue[j] = t
  IN IF Waiting(t)
     THEN [j \in 1 .. Len(waitQueue) - 1 |-> waitQueue[IF j < i THEN j ELSE j + 1]]
     ELSE waitQueue

\* _WakeUp takes number threads from the head of the queue, all of them for 0.
Woken(number) == IF number = 0 THEN {t \in Thread : Waiting(t)}
                 ELSE IF waitQueue = <<>> THEN {} ELSE {Head(waitQueue)}

WakeUpCommon(number) == ThrResumeThreads(k, Woken(number))

QueueAfterWakeUp(number) ==
  IF number = 0 \/ waitQueue = <<>> THEN <<>> ELSE Tail(waitQueue)

----------------------------------------------------------------------------
(* Interrupts.                                                             *)

PitIrq ==
  /\ ~k.halted
  /\ Step(ReschedCheck(PitInterrupt(k)), NULL, "none")
  /\ UNCHANGED <<arg, waitQueue, ready, procState, created>>

\* A device completes what the queue waits for and wakes its waiters.
DeviceIrq(number) ==
  /\ "irq" \in Calls
  /\ ~k.halted
  /\ ready' = TRUE
  /\ waitQueue' = QueueAfterWakeUp(number)
  /\ Step(ReschedCheck(WakeUpCommon(number)), NULL, "none")
  /\ UNCHANGED <<arg, procState, created>>

\* Trap 7, raised by an FPU instruction while the TS bit is set.
FpuTrap(t) ==
  /\ Call(t, "fpu")
  /\ t \in User
  /\ k.ts
  /\ Step(ReschedCheck(FpuNotAvailable(k)), t, "run")
  /\ UNCHANGED <<arg, waitQueue, ready, procState, created>>

----------------------------------------------------------------------------
(* System calls on threads.                                                *)

SysYield(t) ==
  /\ Call(t, "yield")
  /\ Step(Return([k EXCEPT !.quantums[t] = 0, !.need = TRUE], t), t, "run")
  /\ UNCHANGED <<arg, waitQueue, ready, procState, created>>

SysCreateThread(t, n) ==
  /\ Call(t, "create")
  /\ t \in User /\ n \in User
  /\ k.state[n] = "FREE"
  /\ created < MaxCreate
  /\ LET k1 == ThrStartThread(ThrCreateThread(k, n), n)
         k2 == IF k1.quantums[n] > k1.quantums[t] THEN ThrSchedule(k1) ELSE k1
         k3 == Return(k2, t)
     IN /\ k' = k3
        /\ pc' = [pc EXCEPT ![n] = "run"]
  /\ created' = created + 1
  /\ UNCHANGED <<arg, waitQueue, ready, procState>>

SysSuspendThread(t, u) ==
  /\ Call(t, "suspend")
  /\ t \in User /\ u \in User
  /\ k.pos[u] > 0
  /\ arg' = [arg EXCEPT ![t] = u]
  /\ Step(ThrSchedule(ThrSuspendThread(ThrGetThread(k, u), u)), t, "suspended")
  /\ UNCHANGED <<waitQueue, ready, procState, created>>

\* Mutant: the reference on the target is never given back.
SuspendReturnKeepsRef(t) ==
  /\ At(t, "suspended")
  /\ Step(Return(k, t), t, "run")
  /\ arg' = [arg EXCEPT ![t] = NULL]
  /\ UNCHANGED <<waitQueue, ready, procState, created>>

SuspendReturn(t) ==
  /\ At(t, "suspended")
  /\ LET k1 == ThrReleaseThread(k, arg[t])
     IN Step(IF k1.curr = t /\ ~k1.halted THEN Return(k1, t) ELSE k1, t, "run")
  /\ arg' = [arg EXCEPT ![t] = NULL]
  /\ UNCHANGED <<waitQueue, ready, procState, created>>

SysResumeThread(t, u) ==
  /\ Call(t, "resume")
  /\ t \in User /\ u \in User
  /\ k.pos[u] > 0
  /\ Step(Return(ThrResumeThreads(k, {u}), t), t, "run")
  /\ UNCHANGED <<arg, waitQueue, ready, procState, created>>

\* SysExitThread; an interrupt may come between the two halves.
ThrDoExitThread(t) ==
  /\ Call(t, "exit")
  /\ t \in User
  /\ Step([k EXCEPT !.state[t] = "DYING"], t, "exiting")
  /\ UNCHANGED <<arg, waitQueue, ready, procState, created>>

ExitRelease(t) ==
  /\ At(t, "exiting")
  /\ LET k1 == ThrReleaseThread(k, t)
     IN Step(IF k1.curr = t THEN ThrSchedule(ThrArchDestroyThreads(k1, {t})) ELSE k1,
             t, "run")
  /\ UNCHANGED <<arg, waitQueue, ready, procState, created>>

\* Every thread of the process is marked dying and loses one reference; the
\* current one is freed by ThrSchedule.
ThrProcessExit(t) ==
  /\ Call(t, "procexit")
  /\ t \in User
  /\ procState' = "DYING"
  /\ Step(ThrSchedule(KillThreads(ThrGetThread(k, t), User \cap Linked(k))), t, "none")
  /\ UNCHANGED <<arg, waitQueue, ready, created>>

----------------------------------------------------------------------------
(* Kernel code.                                                            *)

SetPriority(t, p) ==
  /\ Call(t, "priority")
  /\ t \notin User
  /\ Step(ThrSetPriority(k, t, p), t, "run")
  /\ UNCHANGED <<arg, waitQueue, ready, procState, created>>

PreemptDisable(t) ==
  /\ Call(t, "lock")
  /\ Step([k EXCEPT !.preemptCount[t] = @ + 1], t, "locked")
  /\ UNCHANGED <<arg, waitQueue, ready, procState, created>>

PreemptEnable(t) ==
  /\ At(t, "locked")
  /\ Step(Return([k EXCEPT !.preemptCount[t] = @ - 1], t), t, "run")
  /\ UNCHANGED <<arg, waitQueue, ready, procState, created>>

\* Another event makes the condition false again.
NotReady(t) ==
  /\ Call(t, "notready")
  /\ ready
  /\ ready' = FALSE
  /\ UNCHANGED <<k, pc, arg, waitQueue, procState, created>>

\* A thread makes the condition true and wakes waiters.
WakeUp(t, number) ==
  /\ Call(t, "wake")
  /\ ready' = TRUE
  /\ waitQueue' = QueueAfterWakeUp(number)
  /\ Step(Return(WakeUpCommon(number), t), t, "run")
  /\ UNCHANGED <<arg, procState, created>>

----------------------------------------------------------------------------
(* WAIT_ON and SLEEP_ON.                                                   *)

\* Mutant: WAIT_ON takes no reference for the queue.
WaitOnWithoutRef(t) ==
  /\ Call(t, "wait")
  /\ ~ready
  /\ Step(k, t, "prepare")
  /\ UNCHANGED <<arg, waitQueue, ready, procState, created>>

\* WAIT_ON tests the condition before it takes the reference.
WaitOn(t) ==
  /\ Call(t, "wait")
  /\ ~ready
  /\ Step(ThrGetThread(k, t), t, "prepare")
  /\ UNCHANGED <<arg, waitQueue, ready, procState, created>>

\* Mutant: SLEEP_ON takes no reference for the queue.
SleepOnWithoutRef(t) ==
  /\ Call(t, "sleep")
  /\ Step(k, t, "sleepPrepare")
  /\ UNCHANGED <<arg, waitQueue, ready, procState, created>>

SleepOn(t) ==
  /\ Call(t, "sleep")
  /\ Step(ThrGetThread(k, t), t, "sleepPrepare")
  /\ UNCHANGED <<arg, waitQueue, ready, procState, created>>

WaitPrepareWait(t) ==
  /\ \E p \in {"prepare", "sleepPrepare"} :
       /\ At(t, p)
       /\ Step(k, t, IF p = "prepare" THEN "test" ELSE "sleepSuspend")
  /\ waitQueue' = IF Waiting(t) THEN waitQueue ELSE Append(waitQueue, t)
  /\ UNCHANGED <<arg, ready, procState, created>>

WaitTest(t) ==
  /\ At(t, "test")
  /\ Step(k, t, IF ready THEN "finish" ELSE "suspend")
  /\ UNCHANGED <<arg, waitQueue, ready, procState, created>>

\* Suspend and give up the CPU; the thread is at the next stage when it returns.
WaitSuspend(t) ==
  /\ \E p \in {"suspend", "sleepSuspend"} :
       /\ At(t, p)
       /\ Step(ThrSchedule(ThrSuspendThread(k, t)), t,
               IF p = "suspend" THEN "prepare" ELSE "finish")
  /\ UNCHANGED <<arg, waitQueue, ready, procState, created>>

\* WaitFinishWait, with the endless loop of ThrEndWait in a dying process.
WaitFinishWait(t) ==
  /\ At(t, "finish")
  /\ waitQueue' = Unlink(t)
  /\ Step(k, t, IF t \in User /\ procState = "DYING" THEN "spin" ELSE "release")
  /\ UNCHANGED <<arg, ready, procState, created>>

WaitRelease(t) ==
  /\ At(t, "release")
  /\ LET k1 == ThrReleaseThread(k, t)
     IN Step(IF k1.curr = t THEN Return(k1, t) ELSE k1, t, "run")
  /\ UNCHANGED <<arg, waitQueue, ready, procState, created>>

ThrEndWait(t) ==
  /\ At(t, "spin")
  /\ Step([k EXCEPT !.quantums[t] = 0, !.need = TRUE], t, "spin")
  /\ UNCHANGED <<arg, waitQueue, ready, procState, created>>

----------------------------------------------------------------------------
\* Code that runs on its own once a thread is inside the kernel.
KernelStep(t) ==
  \/ SuspendReturn(t) \/ ExitRelease(t) \/ PreemptEnable(t)
  \/ WaitPrepareWait(t) \/ WaitTest(t) \/ WaitSuspend(t)
  \/ WaitFinishWait(t) \/ WaitRelease(t) \/ ThrEndWait(t)

\* A call that a thread chooses to make.
CallStep(t) ==
  \/ FpuTrap(t) \/ SysYield(t) \/ ThrDoExitThread(t) \/ ThrProcessExit(t)
  \/ PreemptDisable(t) \/ NotReady(t) \/ WaitOn(t) \/ SleepOn(t)
  \/ \E n \in Thread : SysCreateThread(t, n) \/ SysSuspendThread(t, n) \/ SysResumeThread(t, n)
  \/ \E p \in Priorities : SetPriority(t, p)
  \/ \E number \in {0, 1} : WakeUp(t, number)

Next ==
  \/ PitIrq
  \/ \E number \in {0, 1} : DeviceIrq(number)
  \/ \E t \in Thread : KernelStep(t) \/ CallStep(t)

Spec == Init /\ [][Next]_vars

(***************************************************************************)
(* Fairness.  The PIT interrupts 100 times a second, whatever runs, and    *)
(* its period has no relation to the critical sections, so it cannot hit a *)
(* section with preemption disabled for ever.  Kernel code that is on the  *)
(* CPU goes on executing.  Calls are not fair: a thread need not make any. *)
(***************************************************************************)
Fairness ==
  /\ WF_vars(PitIrq)
  /\ SF_vars(PitIrq /\ PreemptCanSchedule(k))
  /\ \A t \in Thread : WF_vars(KernelStep(t))

FairSpec == Spec /\ Fairness

----------------------------------------------------------------------------
(* Safety.                                                                 *)

\* ThrChooseNewThread picks RUNNING threads only, and nothing that happens
\* afterwards leaves a stopped thread on the CPU: the current thread is
\* runnable, except inside ThrDoExitThread.
CurrentIsRunnable ==
  k.curr # Idle => \/ k.state[k.curr] = "RUNNING"
                   \/ k.state[k.curr] = "DYING" /\ pc[k.curr] = "exiting"

\* "The CPU idles on this function if there is nothing else to schedule"
\* (ThrIdleFunc): a wake-up that reaches the idle task preempts it at once.
IdleOnlyWhenNothingRuns ==
  k.curr = Idle => \A t \in Thread : k.state[t] # "RUNNING"

\* The time slices that a thread collects in Recalculate while it does not run
\* stay below 4/3 of the top priority, however many recalculations it misses.
QuantumsBounded ==
  \A t \in Thread : 3 * k.quantums[t] <= 4 * PRIORITY_TOP

\* While FPU instructions do not trap, the registers are those of the thread
\* that runs; they are saved to the thread they belong to at the next trap.
FpuRegistersBelongToCurrent ==
  ~k.ts /\ k.curr # Idle => k.lastMath = k.curr

\* "otherwise WakeUp ends up waking a thread that doesn't exist" (refs in
\* struct Thread): what is linked into a wait queue is a live thread.
WaitersAlive ==
  \A t \in Thread : Waiting(t) => k.state[t] # "FREE"

\* The reference count is exact: one for the thread until it exits or its
\* process does, one while it waits, one per SysSuspendThread on it.
RefsExact ==
  \A t \in Thread : k.state[t] # "FREE" =>
     k.refs[t] = (IF t \in User /\ procState = "DYING" THEN 0 ELSE 1)
               + (IF pc[t] \in WaitPcs \cup {"spin"} THEN 1 ELSE 0)
               + Cardinality({s \in Thread : pc[s] = "suspended" /\ arg[s] = t})

\* threadList holds exactly the live threads, at places 1, 2, ...
ThreadListExact ==
  /\ \A t \in Thread : k.pos[t] = 0 <=> k.state[t] = "FREE"
  /\ {k.pos[t] : t \in Linked(k)} = 1 .. Cardinality(Linked(k))

----------------------------------------------------------------------------
(* Liveness.                                                               *)

\* The quantums scheme starves nobody: a runnable thread gets the CPU, unless
\* it is stopped first.
NoStarvation ==
  \A t \in Thread : k.state[t] = "RUNNING" ~> (k.curr = t \/ k.state[t] # "RUNNING")

----------------------------------------------------------------------------
(* What comments of the code promise and the code does not keep.           *)

\* thread.c:216, "might still have a reference to this thread, so might not be
\* freed": the target of a SysSuspendThread in progress is not freed.
ReferencedThreadNotFreed ==
  \A s \in Thread : pc[s] = "suspended" => k.state[arg[s]] # "FREE"

\* sched.c:41, "nrRunning is the number of threads running".
NrRunningExact ==
  k.nrRunning = Cardinality({t \in Thread : \/ k.state[t] = "RUNNING"
                                            \/ k.state[t] = "DYING" /\ k.curr = t})

\* arch process.c:145, lastMathThread never points to a freed thread:
\* "Otherwise the FPU exception will save to bogus memory".
LastMathThreadAlive ==
  k.lastMath # NULL => k.state[k.lastMath] # "FREE"

\* wait.c:28, "Wake up all threads waiting on a waitqueue": a thread that has
\* suspended itself in a wait is on the queue, where a wake-up finds it.
SuspendedWaiterIsLinked ==
  \A t \in Thread : k.state[t] = "PAUSED" /\ pc[t] \in {"prepare", "finish"}
                     => Waiting(t)

\* sched.c:199, "Kill time until process exits": the loop of ThrEndWait ends.
KillTimeEnds ==
  \A t \in Thread : pc[t] = "spin" ~> pc[t] # "spin"
=============================================================================
