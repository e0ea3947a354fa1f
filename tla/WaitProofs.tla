----------------------------- MODULE WaitProofs -----------------------------
(***************************************************************************)
(* Reference counts and wait queues: while no thread is suspended from     *)
(* outside, whatever is linked into a wait queue is alive and reference    *)
(* counts are exact.  The theorems at the end combine this with the        *)
(* scheduler's invariant of ThreadsProofs.                                 *)
(***************************************************************************)
EXTENDS ThreadsProofs

----------------------------------------------------------------------------
(* The queue.                                                              *)

\* Taking the head off, or everything, adds no waiter and no duplicate.
LEMMA QueueWakeUp ==
  ASSUME IInv, NoDuplicates(waitQueue), NEW number \in {0, 1},
         waitQueue' = QueueAfterWakeUp(number)
  PROVE  NoDuplicates(waitQueue') /\ \A u \in Thread : Waiting(u)' => Waiting(u)
<1>1. waitQueue \in Seq(Thread)
  BY DEF IInv
<1>2. CASE waitQueue' = <<>>
  BY <1>2 DEF NoDuplicates, Waiting
<1>3. CASE waitQueue # <<>> /\ waitQueue' = Tail(waitQueue)
  <2>1. /\ Len(Tail(waitQueue)) = Len(waitQueue) - 1 /\ Len(waitQueue) \in Nat
        /\ Tail(waitQueue) \in Seq(Thread)
        /\ \A i \in 1 .. Len(Tail(waitQueue)) : Tail(waitQueue)[i] = waitQueue[i + 1]
    BY <1>1, <1>3
  <2>2. \A i \in DOMAIN waitQueue' : i \in Int /\ i + 1 \in DOMAIN waitQueue /\ waitQueue'[i] = waitQueue[i + 1]
    BY <1>1, <1>3, <2>1
  <2> QED BY <2>2 DEF NoDuplicates, Waiting
<1> QED BY <1>2, <1>3 DEF QueueAfterWakeUp

\* WaitPrepareWait links the caller, once.
LEMMA QueuePrepare ==
  ASSUME IInv, NoDuplicates(waitQueue), NEW t \in Thread,
         waitQueue' = IF Waiting(t) THEN waitQueue ELSE Append(waitQueue, t)
  PROVE  NoDuplicates(waitQueue') /\ \A u \in Thread : Waiting(u)' => Waiting(u) \/ u = t
<1>1. waitQueue \in Seq(Thread)
  BY DEF IInv
<1>2. CASE Waiting(t)
  BY <1>2 DEF NoDuplicates, Waiting
<1>3. CASE ~Waiting(t)
  <2>1. waitQueue' = Append(waitQueue, t)
    BY <1>3
  <2>2. /\ Len(waitQueue) \in Nat /\ DOMAIN waitQueue' = 1 .. Len(waitQueue) + 1
        /\ DOMAIN waitQueue = 1 .. Len(waitQueue)
        /\ waitQueue'[Len(waitQueue) + 1] = t
        /\ \A i \in 1 .. Len(waitQueue) : waitQueue'[i] = waitQueue[i]
    BY <1>1, <2>1
  <2>3. \A i \in 1 .. Len(waitQueue) : waitQueue[i] # t
    BY <1>3, <2>2 DEF Waiting
  <2> QED BY <2>2, <2>3 DEF NoDuplicates, Waiting
<1> QED BY <1>2, <1>3

\* WaitFinishWait unlinks the caller and nobody else joins.
LEMMA QueueFinish ==
  ASSUME IInv, NoDuplicates(waitQueue), NEW t \in Thread, waitQueue' = Unlink(t)
  PROVE  NoDuplicates(waitQueue') /\ \A u \in Thread : Waiting(u)' => Waiting(u) /\ u # t
<1>1. waitQueue \in Seq(Thread)
  BY DEF IInv
<1>2. CASE ~Waiting(t)
  BY <1>2 DEF NoDuplicates, Waiting, Unlink
<1>3. CASE Waiting(t)
  <2> DEFINE i == CHOOSE j \in DOMAIN waitQueue : waitQueue[j] = t
             s == [j \in 1 .. Len(waitQueue) - 1 |-> waitQueue[IF j < i THEN j ELSE j + 1]]
             At2(j) == IF j < i THEN j ELSE j + 1
  <2>1. i \in DOMAIN waitQueue /\ waitQueue[i] = t
    BY <1>3 DEF Waiting
  <2>2. waitQueue' = s
    BY <1>3 DEF Unlink
  <2>3. DOMAIN waitQueue = 1 .. Len(waitQueue) /\ Len(waitQueue) \in Nat
    BY <1>1
  <2> HIDE DEF i
  <2>4. DOMAIN waitQueue' = 1 .. Len(waitQueue) - 1
        /\ \A j \in DOMAIN waitQueue' : waitQueue'[j] = waitQueue[At2(j)]
    BY <2>2
  <2> HIDE DEF s
  <2>5. \A j \in DOMAIN waitQueue' : At2(j) \in DOMAIN waitQueue /\ At2(j) # i
    BY <2>1, <2>3, <2>4
  <2>6. \A j, l \in DOMAIN waitQueue' : At2(j) = At2(l) => j = l
    BY <2>1, <2>3, <2>4
  <2>7. \A j \in DOMAIN waitQueue' : waitQueue'[j] # t
    BY <2>1, <2>4, <2>5 DEF NoDuplicates
  <2> HIDE DEF At2
  <2> QED BY <2>4, <2>5, <2>6, <2>7 DEF NoDuplicates, Waiting
<1> QED BY <1>2, <1>3

----------------------------------------------------------------------------
(* Steps.                                                                  *)

\* k1 frees nobody who is linked, changes no reference count but t's, and
\* keeps an exiting thread other than t on the CPU if it keeps it at all.
Keeps(k1, t) ==
  \A u \in Thread :
    /\ k1.pos[u] = 0 <=> k1.state[u] = "FREE"
    /\ k1.state[u] # "FREE" => k.state[u] # "FREE" /\ (u # t => k1.refs[u] = k.refs[u])
    /\ pc[u] \in LinkedPcs => k1.state[u] # "FREE"
    /\ pc[u] = "exiting" /\ u # t /\ k1.state[u] # "FREE" => k1.curr = u /\ k1.state[u] = "DYING"

\* A step of t to place q preserves the invariant if t's own count fits q.
LEMMA WStep ==
  ASSUME WInv, IInv, NEW k1, NEW t, NEW q \in PcValues, Step(k1, t, q), Keeps(k1, t),
         procState' = procState, NoDuplicates(waitQueue'),
         \A u \in Thread : Waiting(u)' =>
            \/ u # t /\ Waiting(u)
            \/ u = t /\ q \in LinkedPcs /\ k1.state[t] # "FREE",
         t \in Thread /\ k1.state[t] # "FREE" =>
            /\ q \notin {"none", "suspended"}
            /\ q = "exiting" => k1.curr = t /\ k1.state[t] = "DYING"
            /\ k1.refs[t] = OwnRef(t) + (IF q \in WaitRefPcs THEN 1 ELSE 0)
            /\ procState = "DYING" /\ t \in User => q \in WaitRefPcs
  PROVE  WInv'
<1>1. k' = k1 /\ \A u \in Thread : pc'[u] = IF k1.state[u] = "FREE" THEN "none"
                                            ELSE IF u = t THEN q ELSE pc[u]
  BY DEF Step
<1>2. \A u \in Thread : OwnRef(u)' = OwnRef(u)
  BY DEF OwnRef
<1>3. \A u \in Thread : pc'[u] = "none" <=> k1.state[u] = "FREE"
  BY <1>1 DEF WInv, Keeps
<1>4. \A u \in Thread : k1.pos[u] = 0 <=> k1.state[u] = "FREE"
  BY DEF Keeps
<1>5. \A u \in Thread : Waiting(u)' => pc'[u] \in LinkedPcs
  BY <1>1 DEF WInv, Keeps
<1>6. \A u \in Thread : pc'[u] = "exiting" => k1.curr = u /\ k1.state[u] = "DYING"
  BY <1>1 DEF Keeps
<1>7. \A u \in Thread : pc'[u] # "suspended"
  BY <1>1 DEF WInv
<1>8. ASSUME NEW u \in Thread, k1.state[u] # "FREE"
      PROVE  k1.refs[u] = OwnRef(u) + WaitRef(u)'
  BY <1>1, <1>8 DEF WInv, WaitRef, Keeps
<1>9. procState = "DYING" => \A u \in User : pc'[u] \in WaitRefPcs \cup {"none"}
  BY <1>1, EnvAssumption DEF WInv
<1> QED BY <1>1, <1>2, <1>3, <1>4, <1>5, <1>6, <1>7, <1>8, <1>9 DEF WInv

\* k1 has the threads of k.
SameLives(k1) ==
  k1.pos = k.pos /\ \A u \in Thread : k1.state[u] = "FREE" <=> k.state[u] = "FREE"

\* A step of the current thread that frees nobody: its count and its place
\* change together.
LEMMA PlainStep ==
  ASSUME WInv, IInv, NEW t \in Thread, NEW p, p # "exiting", At(t, p),
         NEW k1, SameLives(k1), NEW k2, Freed(k1, k2, {}),
         \A u \in Thread \ {t} : k1.refs[u] = k.refs[u],
         NEW q \in PcValues \ {"none", "suspended", "exiting"}, Step(k2, t, q),
         \/ k1.refs[t] = k.refs[t] /\ (q \in WaitRefPcs <=> p \in WaitRefPcs)
         \/ k1.refs[t] = k.refs[t] + 1 /\ q \in WaitRefPcs /\ p \notin WaitRefPcs
         \/ k1.refs[t] = k.refs[t] - 1 /\ q \notin WaitRefPcs /\ p \in WaitRefPcs /\ OwnRef(t) = 1,
         procState' = procState, NoDuplicates(waitQueue'),
         \A u \in Thread : Waiting(u)' => Waiting(u) \/ u = t,
         Waiting(t)' => q \in LinkedPcs
  PROVE  WInv'
<1>1. k.curr = t /\ pc[t] = p
  BY DEF At
<1>2. \A u \in Thread : /\ k2.state[u] = k1.state[u] /\ k2.refs[u] = k1.refs[u]
                        /\ k2.pos[u] = 0 <=> k1.pos[u] = 0
  BY DEF Freed
<1>3. \A u \in Thread : k2.state[u] = "FREE" <=> k.state[u] = "FREE"
  BY <1>2 DEF SameLives
<1>4. \A u \in Thread : k2.pos[u] = 0 <=> k2.state[u] = "FREE"
  BY <1>2, <1>3 DEF WInv, SameLives
<1>5. \A u \in Thread : pc[u] \in LinkedPcs => k2.state[u] # "FREE"
  BY <1>3 DEF WInv, LinkedPcs
<1>6. \A u \in Thread : pc[u] = "exiting" => u = t
  BY <1>1 DEF WInv
<1>7. Keeps(k2, t)
  BY <1>2, <1>3, <1>4, <1>5, <1>6 DEF Keeps
<1>8. ASSUME k2.state[t] # "FREE"
      PROVE  /\ k2.refs[t] = OwnRef(t) + (IF q \in WaitRefPcs THEN 1 ELSE 0)
             /\ procState = "DYING" /\ t \in User => q \in WaitRefPcs
  <2>1. k.refs[t] = OwnRef(t) + WaitRef(t) /\ OwnRef(t) \in Int
    BY <1>3, <1>8 DEF WInv, OwnRef
  <2>2. k2.refs[t] = OwnRef(t) + (IF q \in WaitRefPcs THEN 1 ELSE 0)
    BY <1>1, <1>2, <2>1 DEF WaitRef
  <2>3. procState = "DYING" /\ t \in User => p \in WaitRefPcs \cup {"none"} /\ OwnRef(t) = 0
    BY <1>1 DEF WInv, OwnRef
  <2>4. p # "none"
    BY <1>1, <1>3, <1>8 DEF WInv
  <2> QED BY <2>2, <2>3, <2>4
<1>9. Waiting(t)' => q \in LinkedPcs /\ k2.state[t] # "FREE"
  <2>1. CASE p = "none"
    <3>1. k2.state[t] = "FREE" /\ k.state[t] = "FREE"
      BY <1>1, <1>3, <2>1 DEF WInv
    <3>2. k.curr # Idle /\ k.state[k.curr] # "FREE"
      BY <1>1, ThreadAssumption DEF IInv, CurrentIsRunnable
    <3> QED BY <1>1, <3>1, <3>2
  <2>2. CASE p # "none"
    BY <1>1, <1>3, <2>2 DEF WInv
  <2> QED BY <2>1, <2>2
<1> QED BY <1>7, <1>8, <1>9, WStep

\* The same for a call that may reschedule on its way out.
LEMMA ReturnStep ==
  ASSUME WInv, IInv, NEW t \in Thread, NEW p, p # "exiting", At(t, p),
         NEW k1, Sane(k1), OnCpu(k1), Fpu(k1), SameLives(k1), k1.refs = k.refs,
         NEW q \in PcValues \ {"none", "suspended", "exiting"},
         Step(k1, t, q) \/ Step(Return(k1, t), t, q) \/ Step(ReschedCheck(k1), t, q),
         q \in WaitRefPcs <=> p \in WaitRefPcs,
         procState' = procState, NoDuplicates(waitQueue'),
         \A u \in Thread : Waiting(u)' => Waiting(u),
         Waiting(t)' => q \in LinkedPcs
  PROVE  WInv'
<1>1. PICK k2 : Step(k2, t, q) /\ Freed(k1, k2, {})
  <2>1. Freed(k1, k1, {})
    BY DEF Freed
  <2>2. Freed(k1, Return(k1, t), {})
    BY ReturnSane
  <2>3. Freed(k1, ReschedCheck(k1), {})
    <3>1. k1.curr \in Thread => k1.state[k1.curr] # "DYING"
      BY ThreadAssumption DEF OnCpu
    <3> QED BY <2>1, <3>1, ReschedCheckSane, ZenonT(30)
  <2> QED BY <2>1, <2>2, <2>3
<1> QED BY <1>1, PlainStep

----------------------------------------------------------------------------
(* Interrupts.                                                             *)

\* Interrupts free at most the exiting thread they take the CPU from.
LEMMA IrqW ==
  ASSUME WInv, IInv, NEW k1, Sane(k1), SameThreads(k, k1), k1.refs = k.refs,
         \A u \in Thread : pc[u] = "exiting" => k1.state[u] = k.state[u],
         \A u \in Thread : k1.state[u] = k.state[u] \/ k1.state[u] = "RUNNING",
         Step(ReschedCheck(k1), NULL, "none"),
         procState' = procState, NoDuplicates(waitQueue'),
         \A u \in Thread : Waiting(u)' => Waiting(u)
  PROVE  WInv'
<1> DEFINE k2 == ReschedCheck(k1)
           S == IF k1.curr \in Thread /\ k1.state[k1.curr] = "DYING" THEN {k1.curr} ELSE {}
<1>1. Fpu(k1) /\ k1.curr = k.curr
  BY SameThreadsFacts DEF IInv
<1>2. k2 = k1 \/ Freed(k1, k2, S)
  BY <1>1, ReschedCheckSane, ZenonT(30)
<1>3. \A u \in S : pc[u] = "exiting"
  BY <1>1, ThreadAssumption DEF IInv, CurrentIsRunnable
<1>4. \A u \in Thread : pc[u] = "exiting" => k1.curr = u /\ k1.state[u] = "DYING"
  BY <1>1 DEF WInv
<1>5. \A u \in Thread : pc[u] = "exiting" => u \in S
  BY <1>4
<1> HIDE DEF S
<1>6. \A u \in Thread : /\ k1.state[u] # "FREE" <=> k.state[u] # "FREE"
                        /\ k1.pos[u] = 0 <=> k1.state[u] = "FREE"
  BY DEF WInv, SameThreads
<1>7. \A u \in Thread : pc[u] \in LinkedPcs => k1.state[u] # "FREE" /\ u \notin S
  BY <1>3, <1>6 DEF WInv, LinkedPcs
<1> HIDE DEF k2
<1>8. Keeps(k2, NULL)
  BY <1>2, <1>4, <1>5, <1>6, <1>7 DEF Freed, Keeps
<1>9. Step(k2, NULL, "none") /\ "none" \in PcValues /\ NULL \notin Thread
  BY ThreadAssumption DEF k2, PcValues
<1> QED BY <1>8, <1>9, WStep

\* The timer interrupt.
LEMMA PitIrqW == ASSUME WInv, IInv, PitIrq PROVE WInv'
<1> DEFINE k1 == PitInterrupt(k)
<1>1. Sane(k1) /\ SameThreads(k, k1) /\ k1.state = k.state /\ k1.refs = k.refs
  BY PitSane DEF IInv
<1>2. Step(ReschedCheck(k1), NULL, "none") /\ waitQueue' = waitQueue /\ procState' = procState
  BY DEF PitIrq
<1> HIDE DEF k1
<1>3. NoDuplicates(waitQueue') /\ \A u \in Thread : Waiting(u)' => Waiting(u)
  BY <1>2 DEF WInv, Waiting
<1> QED BY <1>1, <1>2, <1>3, IrqW

\* What a wake-up starts are waiters, none of which is exiting.
LEMMA WokenWait ==
  ASSUME WInv, IInv, NEW number \in {0, 1}
  PROVE  \A u \in Woken(number) : u \in Thread /\ Waiting(u) /\ pc[u] # "exiting"
<1>1. waitQueue # <<>> => Head(waitQueue) \in Thread /\ Waiting(Head(waitQueue))
  <2>1. waitQueue \in Seq(Thread)
    BY DEF IInv
  <2> QED BY <2>1 DEF Waiting
<1>2. \A u \in Thread : Waiting(u) => pc[u] # "exiting"
  BY DEF WInv, LinkedPcs
<1> QED BY <1>1, <1>2 DEF Woken

\* A device interrupt that wakes waiters.
LEMMA DeviceIrqW == ASSUME WInv, IInv, NEW number \in {0, 1}, DeviceIrq(number) PROVE WInv'
<1> DEFINE W == Woken(number)
           k1 == ThrResumeThreads(k, W)
<1>1. W \in SUBSET Thread /\ \A u \in W : pc[u] # "exiting"
  BY WokenWait
<1> HIDE DEF W
<1>2. /\ Sane(k1) /\ SameThreads(k, k1) /\ k1.refs = k.refs
      /\ \A u \in Thread : k1.state[u] = k.state[u] \/ k1.state[u] = "RUNNING"
  BY <1>1, ResumeSane DEF IInv
<1>3. \A u \in Thread : u \notin W => k1.state[u] = k.state[u]
  BY DEF ThrResumeThreads, IInv, Sane, KernelState
<1>4. Step(ReschedCheck(k1), NULL, "none") /\ procState' = procState
  BY DEF DeviceIrq, WakeUpCommon, W
<1> HIDE DEF k1
<1>5. NoDuplicates(waitQueue') /\ \A u \in Thread : Waiting(u)' => Waiting(u)
  BY QueueWakeUp DEF DeviceIrq, WInv
<1> QED BY <1>1, <1>2, <1>3, <1>4, <1>5, IrqW

----------------------------------------------------------------------------
(* Calls that free nobody.                                                 *)

\* Trap 7.
LEMMA FpuTrapW == ASSUME WInv, IInv, NEW t \in Thread, FpuTrap(t) PROVE WInv'
<1> DEFINE k1 == FpuNotAvailable(k)
<1>1. At(t, "run") /\ Sane(k) /\ OnCpu(k) /\ k.curr = t
  BY AtFacts DEF FpuTrap, Call, IInv
<1>2. /\ k1 \in KernelState /\ k1.ts = FALSE /\ k1.lastMath = t /\ k1.curr = t
      /\ k1.state = k.state /\ k1.refs = k.refs /\ k1.pos = k.pos
      /\ k1.quantums = k.quantums /\ k1.priority = k.priority
  BY <1>1, ZenonT(30) DEF FpuNotAvailable, Sane, KernelState
<1>3. Step(ReschedCheck(k1), t, "run") /\ waitQueue' = waitQueue /\ procState' = procState
  BY DEF FpuTrap
<1> HIDE DEF k1
<1>4. Sane(k1) /\ OnCpu(k1) /\ Fpu(k1)
  BY <1>1, <1>2 DEF Sane, Bounded, OnCpu, Fpu
<1>5. "run" \in PcValues \ {"none", "suspended", "exiting"} /\ SameLives(k1)
  BY <1>2 DEF PcValues, SameLives
<1>6. NoDuplicates(waitQueue') /\ \A u \in Thread : Waiting(u)' => Waiting(u) /\ u # t
  BY <1>1, <1>3 DEF WInv, Waiting, At, LinkedPcs
<1> QED BY <1>1, <1>2, <1>3, <1>4, <1>5, <1>6, ReturnStep

\* SysYield, and a turn of the loop in ThrEndWait.
LEMMA YieldW == ASSUME WInv, IInv, NEW t \in Thread, SysYield(t) \/ ThrEndWait(t) PROVE WInv'
<1> DEFINE k1 == [k EXCEPT !.quantums[t] = 0, !.need = TRUE]
<1>1. PICK p \in {"run", "spin"} : At(t, p) /\ (Step(k1, t, p) \/ Step(Return(k1, t), t, p))
  BY DEF SysYield, ThrEndWait, Call
<1>2. Sane(k) /\ OnCpu(k) /\ Fpu(k)
  BY <1>1, AtFacts DEF IInv
<1>3. /\ k1 \in KernelState /\ SameThreads(k, k1) /\ k1.state = k.state /\ k1.refs = k.refs
      /\ k1.quantums = [k.quantums EXCEPT ![t] = 0] /\ k1.priority = k.priority
  BY <1>2, ZenonT(30) DEF Sane, KernelState, SameThreads
<1> HIDE DEF k1
<1>4. Sane(k1) /\ OnCpu(k1) /\ Fpu(k1)
  <2>1. k.quantums \in [Thread -> Nat] /\ 0 <= 4 * PRIORITY_TOP
    BY <1>2, ThreadAssumption DEF Sane, KernelState
  <2> QED BY <1>2, <1>3, <2>1, SameThreadsFacts DEF Sane, Bounded, OnCpu
<1>5. p \in PcValues \ {"none", "suspended", "exiting"} /\ SameLives(k1)
  BY <1>3 DEF PcValues, SameLives, SameThreads
<1>6. waitQueue' = waitQueue /\ procState' = procState
  BY DEF SysYield, ThrEndWait
<1>7. NoDuplicates(waitQueue') /\ \A u \in Thread : Waiting(u)' => Waiting(u) /\ u # t
  BY <1>1, <1>6 DEF WInv, Waiting, At, LinkedPcs
<1> QED BY <1>1, <1>3, <1>4, <1>5, <1>6, <1>7, ReturnStep

\* ThrSetPriority.
LEMMA SetPriorityW ==
  ASSUME WInv, IInv, NEW t \in Thread, NEW p \in Priorities, SetPriority(t, p)
  PROVE  WInv'
<1> DEFINE k1 == ThrSetPriority(k, t, p)
<1>1. At(t, "run") /\ Step(k1, t, "run") /\ waitQueue' = waitQueue /\ procState' = procState
  BY DEF SetPriority, Call
<1>2. SameLives(k1) /\ k1.refs = k.refs /\ Freed(k1, k1, {})
  BY DEF IInv, Sane, KernelState, ThrSetPriority, SameLives, Freed
<1> HIDE DEF k1
<1>3. "run" \in PcValues \ {"none", "suspended", "exiting"}
  BY DEF PcValues
<1>4. NoDuplicates(waitQueue') /\ \A u \in Thread : Waiting(u)' => Waiting(u) /\ u # t
  BY <1>1 DEF WInv, Waiting, At, LinkedPcs
<1> QED BY <1>1, <1>2, <1>3, <1>4, PlainStep

\* Critical sections.
LEMMA PreemptW ==
  ASSUME WInv, IInv, NEW t \in Thread, PreemptDisable(t) \/ PreemptEnable(t)
  PROVE  WInv'
<1>0. k \in KernelState /\ Sane(k) /\ Fpu(k)
  BY DEF IInv, Sane
<1>1. \A p \in {"run", "locked"} : /\ p \in PcValues \ {"none", "suspended", "exiting"}
                                   /\ p \notin LinkedPcs /\ p \notin WaitRefPcs
  BY DEF PcValues, LinkedPcs, WaitRefPcs, WaitPcs
<1>2. PICK p \in {"run", "locked"}, q \in {"run", "locked"}, n \in Nat :
        LET k1 == [k EXCEPT !.preemptCount = [k.preemptCount EXCEPT ![t] = n]]
        IN At(t, p) /\ (Step(k1, t, q) \/ Step(Return(k1, t), t, q))
  <2>1. CASE PreemptDisable(t)
    <3>1. k.preemptCount[t] + 1 \in Nat
      BY <1>0 DEF KernelState
    <3>2. /\ At(t, "run")
          /\ Step([k EXCEPT !.preemptCount = [k.preemptCount EXCEPT ![t] = k.preemptCount[t] + 1]],
                  t, "locked")
      BY <1>0, <2>1 DEF PreemptDisable, Call, KernelState
    <3> QED BY <3>1, <3>2
  <2>2. CASE PreemptEnable(t)
    <3>1. k.preemptCount[t] - 1 \in Nat
      <4>1. k.preemptCount[t] \in Nat
        BY <1>0 DEF KernelState
      <4>2. pc[t] = "locked"
        BY <2>2 DEF PreemptEnable, At
      <4>3. k.preemptCount[t] > 0
        BY <4>2 DEF IInv
      <4> QED BY <4>1, <4>3
    <3>2. /\ At(t, "locked")
          /\ Step(Return([k EXCEPT !.preemptCount =
                            [k.preemptCount EXCEPT ![t] = k.preemptCount[t] - 1]], t), t, "run")
      BY <1>0, <2>2 DEF PreemptEnable, KernelState
    <3> QED BY <3>1, <3>2
  <2> QED BY <2>1, <2>2, ZenonT(30)
<1> DEFINE pe == [k.preemptCount EXCEPT ![t] = n]
           k1 == [k EXCEPT !.preemptCount = pe]
<1>3. pe \in [Thread -> Nat]
  BY <1>0 DEF KernelState
<1> HIDE DEF pe
<1>4. /\ k1 \in KernelState /\ k1.state = k.state /\ k1.refs = k.refs /\ k1.pos = k.pos
      /\ k1.curr = k.curr /\ k1.ts = k.ts /\ k1.lastMath = k.lastMath
      /\ k1.quantums = k.quantums /\ k1.priority = k.priority
  BY <1>0, <1>3 DEF KernelState
<1>5. At(t, p) /\ (Step(k1, t, q) \/ Step(Return(k1, t), t, q))
  BY <1>2 DEF pe
<1> HIDE DEF k1
<1>6. p # "exiting" /\ OnCpu(k)
  BY <1>5, AtFacts
<1>7. Sane(k1) /\ OnCpu(k1) /\ Fpu(k1) /\ SameLives(k1)
  BY <1>0, <1>4, <1>6 DEF Sane, Bounded, OnCpu, Fpu, SameLives
<1>8. waitQueue' = waitQueue /\ procState' = procState
  BY DEF PreemptDisable, PreemptEnable
<1>9. NoDuplicates(waitQueue') /\ \A u \in Thread : Waiting(u)' => Waiting(u) /\ u # t
  BY <1>1, <1>5, <1>8 DEF WInv, Waiting, At
<1> QED BY <1>1, <1>4, <1>5, <1>6, <1>7, <1>8, <1>9, ReturnStep

\* Calls that wake threads.
LEMMA WakingW ==
  ASSUME WInv, IInv, NEW t \in Thread,
         \/ \E u \in Thread : SysResumeThread(t, u)
         \/ \E number \in {0, 1} : WakeUp(t, number)
  PROVE  WInv'
<1>0. At(t, "run") /\ procState' = procState
  BY ZenonT(30) DEF SysResumeThread, WakeUp, Call
<1>1. Sane(k) /\ OnCpu(k) /\ Fpu(k)
  BY <1>0, AtFacts DEF IInv
<1>2. PICK S \in SUBSET Thread : Step(Return(ThrResumeThreads(k, S), t), t, "run")
  <2>1. CASE \E u \in Thread : SysResumeThread(t, u)
    <3>1. PICK u \in Thread : SysResumeThread(t, u)
      BY <2>1
    <3>2. {u} \in SUBSET Thread
      OBVIOUS
    <3> QED BY <3>1, <3>2 DEF SysResumeThread
  <2>2. CASE \E number \in {0, 1} : WakeUp(t, number)
    BY <2>2, QueueType DEF WakeUp, WakeUpCommon
  <2> QED BY <2>1, <2>2
<1> DEFINE k1 == ThrResumeThreads(k, S)
<1>3. /\ Sane(k1) /\ SameThreads(k, k1) /\ k1.refs = k.refs
      /\ \A u \in Thread : k1.state[u] = k.state[u] \/ k1.state[u] = "RUNNING"
  BY <1>1, ResumeSane
<1>4. Step(Return(k1, t), t, "run")
  BY <1>2
<1> HIDE DEF k1
<1>5. OnCpu(k1) /\ Fpu(k1) /\ SameLives(k1)
  BY <1>1, <1>3, SameThreadsFacts DEF OnCpu, SameLives, SameThreads
<1>6. NoDuplicates(waitQueue') /\ \A u \in Thread : Waiting(u)' => Waiting(u)
  <2>1. CASE \E u \in Thread : SysResumeThread(t, u)
    BY <2>1 DEF SysResumeThread, Waiting, WInv
  <2>2. CASE \E number \in {0, 1} : WakeUp(t, number)
    BY <2>2, QueueWakeUp DEF WakeUp, WInv
  <2> QED BY <2>1, <2>2
<1>7. ~Waiting(t)
  BY <1>0 DEF WInv, At, LinkedPcs
<1>8. "run" \in PcValues \ {"none", "suspended", "exiting"}
  BY DEF PcValues
<1> QED BY <1>0, <1>3, <1>4, <1>5, <1>6, <1>7, <1>8, ReturnStep

\* The stages of a wait up to its last.
LEMMA WaitStagesW ==
  ASSUME WInv, IInv, NEW t \in Thread,
         WaitOn(t) \/ SleepOn(t) \/ WaitPrepareWait(t) \/ WaitTest(t) \/ WaitFinishWait(t)
  PROVE  WInv'
<1>0. Sane(k) /\ NoDuplicates(waitQueue) /\ procState' = procState
  BY DEF IInv, WInv, WaitOn, SleepOn, WaitPrepareWait, WaitTest, WaitFinishWait
<1> USE DEF PcValues, LinkedPcs, WaitRefPcs, WaitPcs
<1>1. CASE WaitOn(t) \/ SleepOn(t)
  <2> DEFINE k1 == ThrGetThread(k, t)
  <2>1. PICK q \in {"prepare", "sleepPrepare"} : Step(k1, t, q)
    BY <1>1 DEF WaitOn, SleepOn
  <2>2. At(t, "run") /\ waitQueue' = waitQueue
    BY <1>1 DEF WaitOn, SleepOn, Call
  <2>3. SameThreads(k, k1) /\ k1.refs = [k.refs EXCEPT ![t] = @ + 1]
    BY <1>0, GetSane
  <2> HIDE DEF k1
  <2>4. SameLives(k1) /\ Freed(k1, k1, {})
    BY <2>3 DEF SameLives, SameThreads, Freed
  <2>5. k1.refs[t] = k.refs[t] + 1 /\ \A u \in Thread \ {t} : k1.refs[u] = k.refs[u]
    BY <1>0, <2>3 DEF Sane, KernelState
  <2>6. \A u \in Thread : Waiting(u)' => Waiting(u) /\ u # t
    BY <2>2 DEF WInv, At, Waiting
  <2> QED BY <1>0, <2>1, <2>2, <2>4, <2>5, <2>6, PlainStep, SMTT(30)
<1>2. SameLives(k) /\ Freed(k, k, {})
  BY DEF SameLives, Freed
<1>3. CASE WaitPrepareWait(t)
  <2>1. PICK p \in {"prepare", "sleepPrepare"} :
          At(t, p) /\ Step(k, t, IF p = "prepare" THEN "test" ELSE "sleepSuspend")
    BY <1>3 DEF WaitPrepareWait
  <2>2. NoDuplicates(waitQueue') /\ \A u \in Thread : Waiting(u)' => Waiting(u) \/ u = t
    BY <1>0, <1>3, QueuePrepare DEF WaitPrepareWait
  <2>3. PICK q \in {"test", "sleepSuspend"} : Step(k, t, q)
    BY <2>1
  <2> QED BY <1>0, <1>2, <2>1, <2>2, <2>3, PlainStep
<1>4. CASE WaitTest(t)
  <2>1. PICK q \in {"finish", "suspend"} : Step(k, t, q)
    BY <1>4 DEF WaitTest
  <2>2. At(t, "test") /\ waitQueue' = waitQueue
    BY <1>4 DEF WaitTest
  <2>3. \A u \in Thread : Waiting(u)' => Waiting(u)
    BY <2>2 DEF Waiting
  <2> QED BY <1>0, <1>2, <2>1, <2>2, <2>3, PlainStep
<1>5. CASE WaitFinishWait(t)
  <2>1. PICK q \in {"spin", "release"} : Step(k, t, q)
    BY <1>5 DEF WaitFinishWait
  <2>2. At(t, "finish") /\ waitQueue' = Unlink(t)
    BY <1>5 DEF WaitFinishWait
  <2>3. NoDuplicates(waitQueue') /\ \A u \in Thread : Waiting(u)' => Waiting(u) /\ u # t
    BY <1>0, <2>2, QueueFinish
  <2> QED BY <1>0, <1>2, <2>1, <2>2, <2>3, PlainStep
<1> QED BY <1>1, <1>3, <1>4, <1>5

\* Suspending oneself in a wait.
LEMMA WaitSuspendW == ASSUME WInv, IInv, NEW t \in Thread, WaitSuspend(t) PROVE WInv'
<1> DEFINE k1 == ThrSuspendThread(k, t)
           k2 == ThrSchedule(k1)
<1>1. PICK p \in {"suspend", "sleepSuspend"} :
        At(t, p) /\ Step(k2, t, IF p = "suspend" THEN "prepare" ELSE "finish")
  BY DEF WaitSuspend
<1>2. Sane(k) /\ OnCpu(k) /\ Fpu(k) /\ k.curr = t
  BY <1>1, AtFacts DEF IInv
<1>3. /\ Sane(k1) /\ SameThreads(k, k1) /\ k1.refs = k.refs
      /\ k1.state[t] = "PAUSED"
  BY <1>2, SuspendSane, ThreadAssumption DEF OnCpu
<1>4. PICK q \in {"prepare", "finish"} : Step(k2, t, q)
  BY <1>1
<1> HIDE DEF k1
<1>5. SameLives(k1) /\ k1.curr = t /\ FpuLeaving(k1)
  BY <1>2, <1>3 DEF SameLives, SameThreads, FpuLeaving
<1>6. Freed(k1, k2, {})
  BY <1>3, <1>5, ScheduleSane, ZenonT(30)
<1> HIDE DEF k2
<1>7. procState' = procState /\ waitQueue' = waitQueue
  BY DEF WaitSuspend
<1>8. NoDuplicates(waitQueue') /\ \A u \in Thread : Waiting(u)' => Waiting(u)
  BY <1>7 DEF WInv, Waiting
<1> USE DEF PcValues, LinkedPcs, WaitRefPcs, WaitPcs
<1> QED BY <1>1, <1>3, <1>4, <1>5, <1>6, <1>7, <1>8, PlainStep

----------------------------------------------------------------------------
(* Calls that may free threads.                                            *)

\* The current thread is freed outside the queue.
LEMMA FreedSelf ==
  ASSUME WInv, IInv, NEW t \in Thread, NEW p, p \notin LinkedPcs, At(t, p),
         NEW k1, Freed(k, k1, {t}), NEW q \in PcValues, Step(k1, t, q),
         procState' = procState, waitQueue' = waitQueue
  PROVE  WInv'
<1>1. k.curr = t /\ pc[t] = p
  BY DEF At
<1>2. Keeps(k1, t) /\ k1.state[t] = "FREE"
  <2>1. \A u \in Thread : pc[u] = "exiting" => u = t
    BY <1>1 DEF WInv
  <2>2. \A u \in Thread : pc[u] \in LinkedPcs => u # t /\ k.state[u] # "FREE"
    BY <1>1 DEF WInv, LinkedPcs
  <2>3. \A u \in Thread : k.pos[u] = 0 <=> k.state[u] = "FREE"
    BY DEF WInv
  <2> QED BY <2>1, <2>2, <2>3 DEF Freed, Keeps
<1>3. NoDuplicates(waitQueue') /\ \A u \in Thread : Waiting(u)' => Waiting(u) /\ u # t
  BY <1>1 DEF WInv, Waiting
<1> QED BY <1>2, <1>3, WStep

\* A step of a thread that is not linked, and that leaves the queue alone.
LEMMA QueueSame ==
  ASSUME WInv, NEW t \in Thread, pc[t] \notin LinkedPcs, waitQueue' = waitQueue
  PROVE  NoDuplicates(waitQueue') /\ \A u \in Thread : Waiting(u)' => Waiting(u) /\ u # t
<1>1. NoDuplicates(waitQueue')
  BY DEF WInv
<1>2. \A u \in Thread : Waiting(u)' => Waiting(u)
  BY DEF Waiting
<1>3. \A u \in Thread : Waiting(u) => pc[u] \in LinkedPcs
  BY DEF WInv
<1> QED BY <1>1, <1>2, <1>3

\* Giving back the reference of a wait.
LEMMA WaitReleaseW == ASSUME WInv, IInv, NEW t \in Thread, WaitRelease(t) PROVE WInv'
<1> DEFINE k1 == ThrReleaseThread(k, t)
<1>1. At(t, "release") /\ Sane(k) /\ OnCpu(k) /\ Fpu(k) /\ k.curr = t /\ pc[t] = "release"
  BY AtFacts, SMTT(30) DEF WaitRelease, IInv
<1>2. /\ Step(IF k1.curr = t THEN Return(k1, t) ELSE k1, t, "run")
      /\ waitQueue' = waitQueue /\ procState' = procState
  BY DEF WaitRelease
<1>3. k.state[t] = "RUNNING"
  BY <1>1, ThreadAssumption DEF OnCpu
<1>4. k.refs[t] = OwnRef(t) + 1 /\ OwnRef(t) \in {0, 1}
  BY <1>1, <1>3 DEF WInv, WaitRef, OwnRef, WaitRefPcs, WaitPcs
<1>5. /\ Sane(k1)
      /\ \/ /\ k.refs[t] > 1
            /\ k1.curr = k.curr /\ k1.ts = k.ts /\ k1.lastMath = k.lastMath
            /\ k1.state = k.state /\ k1.pos = k.pos /\ k1.refs = [k.refs EXCEPT ![t] = @ - 1]
         \/ Freed(k, k1, {t}) /\ OnCpu(k1)
  BY <1>1, <1>3, ReleaseSane, ZenonT(30) DEF FpuLeaving, IInv
<1> HIDE DEF k1
<1>6. "run" \in PcValues \ {"none", "suspended", "exiting"} /\ "run" \notin WaitRefPcs
      /\ "release" \in WaitRefPcs /\ "release" \notin LinkedPcs
  BY DEF PcValues, WaitRefPcs, WaitPcs, LinkedPcs
<1>7. CASE Freed(k, k1, {t}) /\ OnCpu(k1)
  <2>1. k1.curr # t
    BY <1>7, ThreadAssumption DEF Freed, OnCpu
  <2>2. Step(k1, t, "run")
    BY <1>2, <2>1
  <2> QED BY <1>1, <1>2, <1>6, <1>7, <2>2, FreedSelf, ZenonT(30)
<1>8. CASE ~(Freed(k, k1, {t}) /\ OnCpu(k1))
  <2>1. /\ k.refs[t] > 1 /\ k1.curr = t /\ k1.ts = k.ts /\ k1.lastMath = k.lastMath
        /\ k1.state = k.state /\ k1.pos = k.pos /\ k1.refs = [k.refs EXCEPT ![t] = @ - 1]
    BY <1>1, <1>5, <1>8, ZenonT(30)
  <2>2. OnCpu(k1) /\ Fpu(k1) /\ SameLives(k1)
    BY <1>1, <2>1 DEF OnCpu, Fpu, SameLives
  <2> DEFINE k2 == Return(k1, t)
  <2>3. Freed(k1, k2, {})
    BY <1>5, <2>2, ReturnSane
  <2>4. Step(k2, t, "run")
    BY <1>2, <2>1
  <2> HIDE DEF k2
  <2>5. k1.refs[t] = k.refs[t] - 1 /\ \A u \in Thread \ {t} : k1.refs[u] = k.refs[u]
    BY <1>1, <2>1 DEF Sane, KernelState
  <2>6. OwnRef(t) = 1
    BY <1>4, <2>1
  <2>7. NoDuplicates(waitQueue') /\ \A u \in Thread : Waiting(u)' => Waiting(u) /\ u # t
    BY <1>1, <1>2, <1>6, QueueSame
  <2> QED BY <1>1, <1>2, <1>6, <2>2, <2>3, <2>4, <2>5, <2>6, <2>7, PlainStep, ZenonT(30)
<1> QED BY <1>7, <1>8

\* SysExitThread marks the thread dying and frees it, or is interrupted between.
LEMMA ExitW ==
  ASSUME WInv, IInv, NEW t \in Thread, ThrDoExitThread(t) \/ ExitRelease(t)
  PROVE  WInv'
<1>1. /\ Sane(k) /\ Fpu(k) /\ k.curr = t /\ waitQueue' = waitQueue /\ procState' = procState
  BY DEF IInv, ThrDoExitThread, ExitRelease, Call, At
<1>2. /\ "run" \in PcValues \ {"none", "suspended", "exiting"} /\ "exiting" \in PcValues
      /\ \A p \in {"run", "exiting"} : p \notin WaitRefPcs /\ p \notin LinkedPcs
  BY DEF PcValues, LinkedPcs, WaitRefPcs, WaitPcs
<1>3. CASE ThrDoExitThread(t)
  <2> DEFINE k1 == [k EXCEPT !.state[t] = "DYING"]
  <2>1. /\ k1.state = [k.state EXCEPT ![t] = "DYING"] /\ k1.state[t] = "DYING"
        /\ k1.curr = t /\ k1.refs = k.refs /\ k1.pos = k.pos
    BY <1>1 DEF Sane, KernelState
  <2>2. Step(k1, t, "exiting") /\ pc[t] = "run"
    BY <1>3 DEF ThrDoExitThread, Call, At
  <2> HIDE DEF k1
  <2>3. k.state[t] # "FREE"
    BY <2>2 DEF WInv
  <2>4. \A u \in Thread \ {t} : k1.state[u] = k.state[u]
    BY <1>1, <2>1 DEF Sane, KernelState
  <2>5. /\ \A u \in Thread : k.pos[u] = 0 <=> k.state[u] = "FREE"
        /\ \A u \in Thread : pc[u] = "exiting" => u = t
    BY <1>1 DEF WInv
  <2>6. \A u \in Thread : pc[u] \in LinkedPcs => k.state[u] # "FREE"
    BY DEF WInv, LinkedPcs
  <2>7. Keeps(k1, t)
    BY <2>1, <2>3, <2>4, <2>5, <2>6 DEF Keeps
  <2>8. k.refs[t] = OwnRef(t) + WaitRef(t) /\ WaitRef(t) = 0
    BY <1>2, <2>2, <2>3 DEF WInv, WaitRef
  <2>9. ~(procState = "DYING" /\ t \in User)
    BY <1>2, <2>2 DEF WInv
  <2>10. NoDuplicates(waitQueue') /\ \A u \in Thread : Waiting(u)' => Waiting(u) /\ u # t
    BY <1>1, <1>2, <2>2, QueueSame
  <2>11. k1.refs[t] = OwnRef(t) + 0
    BY <2>1, <2>8
  <2> QED BY <1>1, <1>2, <2>1, <2>2, <2>7, <2>9, <2>10, <2>11, WStep, ZenonT(30)
<1>4. CASE ExitRelease(t)
  <2> DEFINE k1 == ThrReleaseThread(k, t)
  <2>1. At(t, "exiting") /\ pc[t] = "exiting" /\ k.state[t] = "DYING"
    BY <1>4 DEF ExitRelease, At, WInv
  <2>2. k.refs[t] <= 1
    <3>1. k.refs[t] = OwnRef(t) + WaitRef(t)
      BY <2>1 DEF WInv
    <3>2. WaitRef(t) = 0 /\ OwnRef(t) \in {0, 1}
      BY <1>2, <2>1 DEF WaitRef, OwnRef
    <3> QED BY <3>1, <3>2
  <2>3. Freed(k, k1, {t}) /\ OnCpu(k1)
    <3>1. k.refs[t] \in Int
      BY <1>1 DEF Sane, KernelState
    <3>2. \/ k.refs[t] > 1 \/ k.state[t] = "FREE"
          \/ t # k.curr
          \/ Freed(k, k1, {t}) /\ OnCpu(k1)
      BY <1>1, ReleaseSane, ZenonT(30) DEF FpuLeaving, IInv
    <3>3. ~(k.refs[t] > 1)
      BY <2>2, <3>1
    <3> HIDE DEF k1
    <3> QED BY <1>1, <2>1, <3>2, <3>3
  <2>4. Step(IF k1.curr = t THEN ThrSchedule(ThrArchDestroyThreads(k1, {t})) ELSE k1, t, "run")
    BY <1>4 DEF ExitRelease
  <2> HIDE DEF k1
  <2>5. Step(k1, t, "run")
    BY <2>3, <2>4, ThreadAssumption DEF Freed, OnCpu
  <2> QED BY <1>1, <1>2, <2>1, <2>3, <2>5, FreedSelf
<1> QED BY <1>3, <1>4

\* ThrProcessExit leaves of the process only threads that are inside a wait.
LEMMA ProcessExitW == ASSUME WInv, IInv, NEW t \in Thread, ThrProcessExit(t) PROVE WInv'
<1> DEFINE k0 == ThrGetThread(k, t)
           S == User \cap Linked(k)
           k1 == KillThreads(k0, S)
           k2 == ThrSchedule(k1)
<1>0. /\ Sane(k) /\ Fpu(k) /\ k.curr = t /\ pc[t] = "run" /\ t \in User /\ procState' = "DYING"
      /\ waitQueue' = waitQueue
  BY DEF IInv, ThrProcessExit, Call, At
<1>1. S \in SUBSET Thread /\ \A u \in Thread : u \in S <=> u \in User /\ k.state[u] # "FREE"
  BY <1>0 DEF Linked, WInv, Sane, KernelState
<1>2. /\ Sane(k0) /\ SameThreads(k, k0) /\ k0.state = k.state
      /\ k0.refs = [k.refs EXCEPT ![t] = @ + 1]
  BY <1>0, GetSane
<1>3. k' = k2 /\ \A u \in Thread : pc'[u] = IF k2.state[u] = "FREE" THEN "none"
                                            ELSE IF u = t THEN "none" ELSE pc[u]
  BY DEF ThrProcessExit, Step
<1> HIDE DEF k0, S
<1> DEFINE dead == {u \in S : k0.refs[u] <= 1}
<1>4. /\ Sane(k1) /\ k1.curr = k0.curr /\ k1.ts = k0.ts
      /\ k1.lastMath = (IF k0.lastMath \in S THEN NULL ELSE k0.lastMath)
      /\ \A u \in Thread :
           /\ u \in dead => k1.state[u] = "FREE"
           /\ u \in S \ dead => k1.state[u] = "DYING" /\ k1.refs[u] = k0.refs[u] - 1
           /\ u \notin S => k1.state[u] = k0.state[u] /\ k1.refs[u] = k0.refs[u]
           /\ k1.pos[u] = 0 <=> u \in dead \/ k0.pos[u] = 0
  <2>1. Sane(k0) /\ S \in SUBSET Thread
    BY <1>1, <1>2
  <2>2. /\ Sane(k1) /\ k1.curr = k0.curr /\ k1.ts = k0.ts
        /\ k1.lastMath = (IF k0.lastMath \in S THEN NULL ELSE k0.lastMath)
        /\ \A u \in Thread :
             /\ u \in dead => k1.state[u] = "FREE"
             /\ u \in S \ dead => /\ k1.state[u] = "DYING" /\ k1.refs[u] = k0.refs[u] - 1
                                  /\ k1.preemptCount[u] = k0.preemptCount[u]
             /\ u \notin S => /\ k1.state[u] = k0.state[u] /\ k1.refs[u] = k0.refs[u]
                              /\ k1.preemptCount[u] = k0.preemptCount[u]
             /\ k1.pos[u] = 0 <=> u \in dead \/ k0.pos[u] = 0
    BY <2>1, KillSane, Zenon
  <2> HIDE DEF k1, dead
  <2> QED BY <2>2
<1> HIDE DEF k1
<1>5. "run" \notin WaitRefPcs /\ "run" \notin LinkedPcs /\ LinkedPcs \subseteq WaitRefPcs
      /\ "none" \notin WaitRefPcs /\ "exiting" \notin WaitRefPcs
  BY DEF WaitRefPcs, LinkedPcs, WaitPcs
<1>6. procState = "RUNNING" /\ k.state[t] # "FREE"
  BY <1>0, <1>5 DEF WInv, IInv
<1>7. \A u \in Thread : k.state[u] # "FREE" => k.refs[u] = 1 + WaitRef(u)
  BY <1>6 DEF WInv, OwnRef
<1>8. /\ k0.refs[t] = 2
      /\ \A u \in Thread \ {t} : k0.refs[u] = k.refs[u]
  BY <1>0, <1>2, <1>5, <1>6, <1>7 DEF Sane, KernelState, WaitRef
<1>9. \A u \in S : u \in dead <=> u # t /\ pc[u] \notin WaitRefPcs
  BY <1>1, <1>7, <1>8 DEF WaitRef
<1>10. t \in S \ dead /\ k1.state[t] = "DYING" /\ k1.curr = t
  BY <1>0, <1>1, <1>2, <1>4, <1>6, <1>9 DEF SameThreads
<1>11. FpuLeaving(k1)
  BY <1>10 DEF FpuLeaving
<1>12. Freed(k1, k2, {t})
  BY <1>4, <1>10, <1>11, ScheduleSane
<1> HIDE DEF k2, dead
<1>13. \A u \in Thread : /\ k2.state[u] = "FREE" <=> \/ k.state[u] = "FREE"
                                                     \/ u \in User /\ pc[u] \notin WaitRefPcs
                         /\ k2.pos[u] = 0 <=> k2.state[u] = "FREE"
  <2> SUFFICES ASSUME NEW u \in Thread
               PROVE  /\ k2.state[u] = "FREE" <=> \/ k.state[u] = "FREE"
                                                  \/ u \in User /\ pc[u] \notin WaitRefPcs
                      /\ k2.pos[u] = 0 <=> k2.state[u] = "FREE"
    OBVIOUS
  <2>1. CASE u = t
    BY <1>0, <1>5, <1>12, <2>1 DEF Freed
  <2>2. CASE u # t
    <3>1. k2.state[u] = k1.state[u] /\ (k2.pos[u] = 0 <=> k1.pos[u] = 0)
      BY <1>12, <2>2 DEF Freed
    <3>2. k0.pos[u] = 0 <=> k.state[u] = "FREE"
      BY <1>2 DEF SameThreads, WInv
    <3> QED BY <1>1, <1>2, <1>4, <1>9, <2>2, <3>1, <3>2 DEF dead
  <2> QED BY <2>1, <2>2
<1>14. \A u \in Thread : k2.state[u] # "FREE" =>
         /\ u # t
         /\ u \in User => k2.refs[u] = k.refs[u] - 1 /\ pc[u] \in WaitRefPcs
         /\ u \notin User => k2.refs[u] = k.refs[u]
  <2> SUFFICES ASSUME NEW u \in Thread, k2.state[u] # "FREE"
               PROVE  /\ u # t
                      /\ u \in User => k2.refs[u] = k.refs[u] - 1 /\ pc[u] \in WaitRefPcs
                      /\ u \notin User => k2.refs[u] = k.refs[u]
    OBVIOUS
  <2>1. u # t /\ k2.refs[u] = k1.refs[u] /\ k0.refs[u] = k.refs[u]
    BY <1>8, <1>12 DEF Freed
  <2>2. k.state[u] # "FREE" /\ (u \in User => pc[u] \in WaitRefPcs)
    BY <1>13
  <2> QED BY <1>1, <1>4, <1>9, <2>1, <2>2
<1>15. \A u \in Thread : pc'[u] = IF k2.state[u] = "FREE" THEN "none" ELSE pc[u]
  BY <1>3, <1>14
<1>16. \A u \in Thread : k2.state[u] # "FREE" => pc[u] # "none"
  BY <1>13 DEF WInv
<1>17. \A u \in Thread : pc[u] \in LinkedPcs => k2.state[u] # "FREE"
  BY <1>5, <1>13 DEF WInv
<1>18. \A u \in Thread : pc[u] # "exiting" /\ pc[u] # "suspended"
  BY <1>0 DEF WInv
<1>19. \A u \in Thread : Waiting(u)' => Waiting(u)
  BY <1>0 DEF Waiting
<1>20. \A u \in Thread : k2.state[u] # "FREE" => k2.refs[u] = OwnRef(u)' + WaitRef(u)'
  <2> SUFFICES ASSUME NEW u \in Thread, k2.state[u] # "FREE"
               PROVE  k2.refs[u] = OwnRef(u)' + WaitRef(u)'
    OBVIOUS
  <2>1. k.refs[u] = 1 + WaitRef(u) /\ WaitRef(u)' = WaitRef(u)
    BY <1>7, <1>13, <1>15 DEF WaitRef
  <2>2. WaitRef(u) \in Int /\ OwnRef(u)' = IF u \in User THEN 0 ELSE 1
    BY <1>0 DEF WaitRef, OwnRef
  <2> HIDE DEF WaitRef
  <2> QED BY <1>14, <2>1, <2>2
<1>21. \A u \in User : pc'[u] \in WaitRefPcs \cup {"none"}
  BY <1>14, <1>15, EnvAssumption
<1>22. NoDuplicates(waitQueue')
  BY <1>0 DEF WInv
<1>23. k' = k2
  BY <1>3
<1>24. \A u \in Thread : pc'[u] = "none" <=> k'.state[u] = "FREE"
  BY <1>15, <1>16, <1>23
<1>25. \A u \in Thread : k'.pos[u] = 0 <=> k'.state[u] = "FREE"
  BY <1>13, <1>23
<1>26. \A u \in Thread : Waiting(u)' => pc'[u] \in LinkedPcs
  BY <1>15, <1>17, <1>19 DEF WInv
<1>27. \A u \in Thread : pc'[u] # "exiting" /\ pc'[u] # "suspended"
  BY <1>15, <1>18
<1>28. \A u \in Thread : k'.state[u] # "FREE" => k'.refs[u] = OwnRef(u)' + WaitRef(u)'
  BY <1>20, <1>23
<1> QED BY <1>21, <1>22, <1>24, <1>25, <1>26, <1>27, <1>28, ZenonT(30) DEF WInv

\* A new thread has one reference and waits for nothing.
LEMMA CreateW ==
  ASSUME WInv, IInv, NEW t \in Thread, NEW n \in Thread, SysCreateThread(t, n)
  PROVE  WInv'
<1> DEFINE k1 == ThrStartThread(ThrCreateThread(k, n), n)
           k2 == IF k1.quantums[n] > k1.quantums[t] THEN ThrSchedule(k1) ELSE k1
           k3 == Return(k2, t)
<1>0. /\ Sane(k) /\ OnCpu(k) /\ Fpu(k) /\ k.curr = t /\ pc[t] = "run" /\ t \in User
      /\ n \in User /\ waitQueue' = waitQueue /\ procState' = procState
  BY AtFacts, ZenonT(30) DEF SysCreateThread, Call, IInv
<1>1. k' = k3 /\ pc' = [pc EXCEPT ![n] = "run"] /\ k.state[n] = "FREE"
  BY ZenonT(30) DEF SysCreateThread
<1>2. /\ Sane(k1) /\ OnCpu(k1) /\ Fpu(k1)
      /\ k1.state = [k.state EXCEPT ![n] = "RUNNING"]
      /\ k1.refs = [k.refs EXCEPT ![n] = 1]
      /\ \A u \in Thread : k1.pos[u] = 0 <=> u # n /\ k.pos[u] = 0
  BY <1>0, <1>1, CreateSane, ZenonT(30)
<1> HIDE DEF k1
<1>3. Sane(k2) /\ OnCpu(k2) /\ Fpu(k2) /\ Freed(k1, k2, {})
  <2>1. Sane(ThrSchedule(k1)) /\ OnCpu(ThrSchedule(k1)) /\ Fpu(ThrSchedule(k1))
        /\ Freed(k1, ThrSchedule(k1), {})
    BY <1>2, ScheduleSane, ThreadAssumption, ZenonT(30) DEF FpuLeaving, OnCpu
  <2>2. Freed(k1, k1, {})
    BY DEF Freed
  <2> QED BY <1>2, <2>1, <2>2, ZenonT(30)
<1> HIDE DEF k2
<1>4. Freed(k2, k3, {})
  BY <1>3, ReturnSane
<1> HIDE DEF k3
<1>5. \A u \in Thread : /\ k3.state[u] = k1.state[u] /\ k3.refs[u] = k1.refs[u]
                        /\ k3.pos[u] = 0 <=> k1.pos[u] = 0
  BY <1>3, <1>4 DEF Freed
<1>6. /\ k3.state[n] = "RUNNING" /\ k3.refs[n] = 1 /\ k3.pos[n] # 0
      /\ \A u \in Thread \ {n} : /\ k3.state[u] = k.state[u] /\ k3.refs[u] = k.refs[u]
                                 /\ k3.pos[u] = 0 <=> k.pos[u] = 0
  BY <1>0, <1>2, <1>5, SMTT(30) DEF Sane, KernelState
<1>7. pc'[n] = "run" /\ \A u \in Thread \ {n} : pc'[u] = pc[u]
  BY <1>1 DEF IInv
<1>8. "run" \notin WaitRefPcs
  BY DEF WaitRefPcs, WaitPcs
<1>9. procState = "RUNNING" /\ ~Waiting(n) /\ \A u \in Thread : pc[u] # "exiting"
  BY <1>0, <1>1, <1>8 DEF WInv, IInv, LinkedPcs
<1>10. \A u \in Thread : k3.state[u] # "FREE" => k3.refs[u] = OwnRef(u)' + WaitRef(u)'
  <2>1. OwnRef(n)' = 1 /\ WaitRef(n)' = 0
    BY <1>0, <1>7, <1>8, <1>9 DEF OwnRef, WaitRef
  <2>2. \A u \in Thread \ {n} : OwnRef(u)' = OwnRef(u) /\ WaitRef(u)' = WaitRef(u)
    BY <1>0, <1>7 DEF OwnRef, WaitRef
  <2>3. \A u \in Thread \ {n} : k.state[u] # "FREE" => k.refs[u] = OwnRef(u) + WaitRef(u)
    BY DEF WInv
  <2>4. k3.refs[n] = OwnRef(n)' + WaitRef(n)'
    BY <1>6, <2>1
  <2>5. \A u \in Thread \ {n} : k3.state[u] # "FREE" => k3.refs[u] = OwnRef(u)' + WaitRef(u)'
    BY <1>6, <2>2, <2>3
  <2> QED BY <2>4, <2>5
<1>11. \A u \in Thread : Waiting(u)' => Waiting(u)
  BY <1>0 DEF Waiting
<1>12. NoDuplicates(waitQueue') /\ procState' # "DYING"
  BY <1>0, <1>9 DEF WInv
<1>13. k' = k3
  BY <1>1
<1>14. \A u \in Thread : pc'[u] = "none" <=> k'.state[u] = "FREE"
  BY <1>6, <1>7, <1>13 DEF WInv
<1>15. \A u \in Thread : k'.pos[u] = 0 <=> k'.state[u] = "FREE"
  BY <1>6, <1>13 DEF WInv
<1>16. \A u \in Thread : Waiting(u)' => pc'[u] \in LinkedPcs
  BY <1>7, <1>9, <1>11 DEF WInv
<1>17. \A u \in Thread : pc'[u] # "exiting" /\ pc'[u] # "suspended"
  <2>1. \A u \in Thread : pc[u] # "suspended" /\ pc[u] # "exiting"
    BY <1>9 DEF WInv
  <2> QED BY <1>7, <2>1
<1>18. \A u \in Thread : k'.state[u] # "FREE" => k'.refs[u] = OwnRef(u)' + WaitRef(u)'
  BY <1>10, <1>13
<1> QED BY <1>12, <1>14, <1>15, <1>16, <1>17, <1>18 DEF WInv

----------------------------------------------------------------------------
(* The invariant and its consequences.                                     *)

\* NotReady changes only the condition that is waited for.
LEMMA NotReadyW == ASSUME WInv, IInv, NEW t \in Thread, NotReady(t) PROVE WInv'
<1>1. UNCHANGED <<k, pc, waitQueue, procState>>
  BY DEF NotReady
<1>2. \A u \in Thread : /\ OwnRef(u)' = OwnRef(u) /\ WaitRef(u)' = WaitRef(u)
                        /\ Waiting(u)' = Waiting(u)
  BY <1>1 DEF OwnRef, WaitRef, Waiting
<1> QED BY <1>1, <1>2 DEF WInv

\* Every step of the machine keeps both invariants.
LEMMA NextInv == Inv /\ [Next]_vars => Inv'
<1> SUFFICES ASSUME Inv, [Next]_vars PROVE Inv'
  OBVIOUS
<1>0. IInv /\ (NoSuspend => WInv)
  BY DEF Inv
<1>1. ASSUME NEW t \in Thread, KernelStep(t) PROVE Inv'
  <2>1. IInv'
    BY <1>0, <1>1, SuspendReturnInv, ExitInv, PreemptInv, WaitStagesInv, WaitSuspendInv,
       WaitReleaseInv, YieldInv DEF KernelStep
  <2>2. ASSUME NoSuspend PROVE WInv'
    <3>1. ~SuspendReturn(t)
      BY <1>0, <2>2 DEF WInv, SuspendReturn, At
    <3> QED BY <1>0, <1>1, <2>2, <3>1, ExitW, PreemptW, WaitStagesW, WaitSuspendW,
            WaitReleaseW, YieldW DEF KernelStep
  <2> QED BY <2>1, <2>2 DEF Inv
<1>2. ASSUME NEW t \in Thread, CallStep(t) PROVE Inv'
  <2>1. IInv'
    <3>1. CASE \E n \in Thread : SysCreateThread(t, n) \/ SysSuspendThread(t, n)
      BY <1>0, <3>1, CreateInv, SysSuspendInv
    <3>2. CASE \E p \in Priorities : SetPriority(t, p)
      BY <1>0, <3>2, SetPriorityInv
    <3>3. CASE \/ \E n \in Thread : SysResumeThread(t, n)
               \/ \E number \in {0, 1} : WakeUp(t, number)
      BY <1>0, <3>3, WakingInv
    <3>4. CASE \/ FpuTrap(t) \/ SysYield(t) \/ ThrDoExitThread(t) \/ ThrProcessExit(t)
               \/ PreemptDisable(t) \/ NotReady(t) \/ WaitOn(t) \/ SleepOn(t)
      BY <1>0, <3>4, FpuTrapInv, YieldInv, ExitInv, ProcessExitInv, PreemptInv, NotReadyInv,
         WaitStagesInv
    <3> QED BY <1>2, <3>1, <3>2, <3>3, <3>4 DEF CallStep
  <2>2. ASSUME NoSuspend PROVE WInv'
    <3>0. WInv /\ IInv
      BY <1>0, <2>2
    <3>1. CASE \E n \in Thread : SysCreateThread(t, n) \/ SysSuspendThread(t, n)
      BY <2>2, <3>0, <3>1, CreateW DEF SysSuspendThread, Call, NoSuspend
    <3>2. CASE \E p \in Priorities : SetPriority(t, p)
      BY <3>0, <3>2, SetPriorityW
    <3>3. CASE \/ \E n \in Thread : SysResumeThread(t, n)
               \/ \E number \in {0, 1} : WakeUp(t, number)
      BY <3>0, <3>3, WakingW
    <3>4. CASE \/ FpuTrap(t) \/ SysYield(t) \/ ThrDoExitThread(t) \/ ThrProcessExit(t)
               \/ PreemptDisable(t) \/ NotReady(t) \/ WaitOn(t) \/ SleepOn(t)
      BY <3>0, <3>4, FpuTrapW, YieldW, ExitW, ProcessExitW, PreemptW, NotReadyW, WaitStagesW
    <3> QED BY <1>2, <3>1, <3>2, <3>3, <3>4 DEF CallStep
  <2> QED BY <2>1, <2>2 DEF Inv
<1>3. ASSUME PitIrq \/ \E number \in {0, 1} : DeviceIrq(number) PROVE Inv'
  BY <1>0, <1>3, PitIrqInv, DeviceIrqInv, PitIrqW, DeviceIrqW DEF Inv
<1>4. ASSUME UNCHANGED vars PROVE Inv'
  <2>1. UNCHANGED <<k, pc, arg, waitQueue, ready, procState, created>>
    BY <1>4 DEF vars
  <2>2. IInv'
    BY <1>0, <2>1 DEF IInv, CurrentIsRunnable
  <2>3. ASSUME NoSuspend PROVE WInv'
    <3>1. \A u \in Thread : /\ OwnRef(u)' = OwnRef(u) /\ WaitRef(u)' = WaitRef(u)
                            /\ Waiting(u)' = Waiting(u)
      BY <2>1 DEF OwnRef, WaitRef, Waiting
    <3> QED BY <1>0, <2>1, <2>3, <3>1 DEF WInv
  <2> QED BY <2>2, <2>3 DEF Inv
<1> QED BY <1>1, <1>2, <1>3, <1>4 DEF Next

\* The inductive invariant holds always.
THEOREM Invariance == Spec => []Inv
<1>1. Init => Inv
  BY InitInv DEF Inv
<1> QED BY <1>1, NextInv, PTL DEF Spec

\* All variables keep their types, whatever calls the threads make: quantums,
\* priorities and preemption counts are never negative and the CPU always has a
\* thread.  (Reference counts are typed as integers; RefCounts is about them.)
THEOREM TypeCorrect == Spec => []TypeOK
<1>1. Inv => TypeOK
  BY DEF Inv, IInv, Sane, TypeOK
<1> QED BY <1>1, Invariance, PTL

\* ThrSchedule and all its callers leave a runnable thread on the CPU.
THEOREM RunnableOnCpu == Spec => []CurrentIsRunnable
<1>1. Inv => CurrentIsRunnable
  BY DEF Inv, IInv
<1> QED BY <1>1, Invariance, PTL

\* Recalculate never lets unused time slices grow past 4/3 of the top priority.
THEOREM BoundedQuantums == Spec => []QuantumsBounded
<1>1. Inv => QuantumsBounded
  BY DEF Inv, IInv, Sane, Bounded, QuantumsBounded
<1> QED BY <1>1, Invariance, PTL

\* The lazy FPU switch never exposes one thread's registers to another, as long
\* as threads are not suspended from outside.
THEOREM FpuSafe == ASSUME NoSuspend PROVE Spec => []FpuRegistersBelongToCurrent
<1>1. Inv => FpuRegistersBelongToCurrent
  BY DEF Inv, IInv, Fpu, FpuRegistersBelongToCurrent
<1> QED BY <1>1, Invariance, PTL

\* A wait queue never holds a thread that has been freed, as long as threads are
\* not suspended from outside.
THEOREM QueueSafe == ASSUME NoSuspend PROVE Spec => []WaitersAlive
<1>1. Inv => WaitersAlive
  BY DEF Inv, WInv, LinkedPcs, WaitersAlive
<1> QED BY <1>1, Invariance, PTL

\* Reference counts are exact, as long as threads are not suspended from outside.
THEOREM RefCounts == ASSUME NoSuspend PROVE Spec => []RefsExact
<1>1. ASSUME Inv PROVE RefsExact
  <2>1. \A t \in Thread : {s \in Thread : pc[s] = "suspended" /\ arg[s] = t} = {}
    BY <1>1 DEF Inv, WInv
  <2>2. Cardinality({}) = 0
    BY FS_EmptySet
  <2>3. \A t \in Thread : OwnRef(t) + WaitRef(t) + 0 = OwnRef(t) + WaitRef(t)
    BY DEF OwnRef, WaitRef
  <2> QED BY <1>1, <2>1, <2>2, <2>3 DEF Inv, WInv, RefsExact, OwnRef, WaitRef, WaitRefPcs
<1> QED BY <1>1, Invariance, PTL
=============================================================================
