--------------------------- MODULE ThreadsProofs ---------------------------
(***************************************************************************)
(* Invariants of Threads for any number of threads, any priorities and any *)
(* set of calls: first what the scheduler's functions preserve, then what  *)
(* the steps of the machine do.                                            *)
(***************************************************************************)
EXTENDS Threads, FiniteSetTheorems, TLAPS

\* Quantums and priorities are bounded: 3q <= 4p is preserved by p + q/4.
Bounded(s) ==
  \A t \in Thread : 3 * s.quantums[t] <= 4 * PRIORITY_TOP /\ s.priority[t] <= PRIORITY_TOP

\* A well-typed kernel state with bounded quantums.
Sane(s) == s \in KernelState /\ Bounded(s)

\* The thread on the CPU may run.
OnCpu(s) == s.curr = Idle \/ (s.curr \in Thread /\ s.state[s.curr] = "RUNNING")

\* Reference counts are trusted only without SysSuspendThread: a reference it
\* holds does not keep its target alive.
NoSuspend == "suspend" \notin Calls

\* The FPU registers are those of the thread on the CPU, or using them traps.
Fpu(s) == NoSuspend => s.ts \/ s.curr = Idle \/ s.lastMath = s.curr

\* The same while the thread on the CPU is being replaced.
FpuLeaving(s) ==
  \/ Fpu(s)
  \/ s.curr = NULL
  \/ s.curr \in Thread /\ s.state[s.curr] # "RUNNING"

----------------------------------------------------------------------------
\* Sets of threads have a size.
LEMMA CardinalityOfThreads ==
  ASSUME NEW S \in SUBSET Thread
  PROVE  Cardinality(S) \in Nat
BY ThreadAssumption, FS_Subset, FS_CardinalityType

\* The arithmetic of Recalculate: the bound 4/3 of the top priority is closed
\* under quantums = priority + quantums / 4.
LEMMA RecalculateBound ==
  ASSUME NEW p \in Nat, NEW q \in Nat, NEW top \in Nat,
         p <= top, 3 * q <= 4 * top
  PROVE  /\ p + (q \div 4) \in Nat
         /\ 3 * (p + (q \div 4)) <= 4 * top
OBVIOUS

\* ThrChooseNewThread returns the idle task or a thread that is RUNNING.
LEMMA ChooseRunnable ==
  ASSUME NEW s
  PROVE  \/ ThrChooseNewThread(s) = Idle
         \/ ThrChooseNewThread(s) \in Thread /\ s.state[ThrChooseNewThread(s)] = "RUNNING"
<1> DEFINE run == {t \in Linked(s) : s.state[t] = "RUNNING"}
           Best(t) == \A u \in run \ {t} :
                        \/ s.quantums[u] < s.quantums[t]
                        \/ s.quantums[u] = s.quantums[t] /\ s.pos[t] < s.pos[u]
<1>1. ThrChooseNewThread(s) = IF \E t \in run : Best(t) THEN CHOOSE t \in run : Best(t) ELSE Idle
  BY DEF ThrChooseNewThread
<1>2. ASSUME \E t \in run : Best(t)
      PROVE  (CHOOSE t \in run : Best(t)) \in run
  <2> HIDE DEF run, Best
  <2> QED BY <1>2
<1>3. run \subseteq Thread
  BY DEF Linked
<1> HIDE DEF Best
<1> QED BY <1>1, <1>2, <1>3

\* Recalculate keeps quantums natural and bounded.
LEMMA RecalculateSane ==
  ASSUME NEW s, Sane(s)
  PROVE  /\ Recalculate(s) \in [Thread -> Nat]
         /\ \A t \in Thread : 3 * Recalculate(s)[t] <= 4 * PRIORITY_TOP
<1> SUFFICES ASSUME NEW t \in Thread
             PROVE  /\ Recalculate(s)[t] \in Nat
                    /\ 3 * Recalculate(s)[t] <= 4 * PRIORITY_TOP
  BY DEF Recalculate
<1>1. /\ s.priority[t] \in Nat /\ s.quantums[t] \in Nat
      /\ s.priority[t] <= PRIORITY_TOP /\ 3 * s.quantums[t] <= 4 * PRIORITY_TOP
  BY DEF Sane, Bounded, KernelState
<1>2. /\ s.priority[t] + (s.quantums[t] \div 4) \in Nat
      /\ 3 * (s.priority[t] + (s.quantums[t] \div 4)) <= 4 * PRIORITY_TOP
  BY <1>1, RecalculateBound, ThreadAssumption
<1> QED BY <1>1, <1>2 DEF Recalculate

\* Dispatch changes the CPU's thread, the quantums and the TS bit only, and the
\* thread it puts on the CPU may run and has the FPU registers or traps.
LEMMA DispatchSane ==
  ASSUME NEW s, Sane(s), FpuLeaving(s)
  PROVE  LET k1 == Dispatch(s)
         IN /\ Sane(k1) /\ OnCpu(k1) /\ Fpu(k1)
            /\ k1.state = s.state /\ k1.refs = s.refs /\ k1.preemptCount = s.preemptCount
            /\ k1.pos = s.pos /\ k1.halted = s.halted
<1> DEFINE n == ThrChooseNewThread(s)
           q == IF n # Idle /\ s.quantums[n] = 0 THEN Recalculate(s) ELSE s.quantums
           k0 == [s EXCEPT !.need = FALSE, !.quantums = q]
<1>1. n = Idle \/ (n \in Thread /\ s.state[n] = "RUNNING")
  BY ChooseRunnable
<1>2. Dispatch(s) = IF s.curr = n THEN k0 ELSE ThrArchSwitch(k0, n)
  BY DEF Dispatch
<1>3. q \in [Thread -> Nat] /\ \A t \in Thread : 3 * q[t] <= 4 * PRIORITY_TOP
  <2>1. s.quantums \in [Thread -> Nat] /\ \A t \in Thread : 3 * s.quantums[t] <= 4 * PRIORITY_TOP
    BY DEF Sane, Bounded, KernelState
  <2> QED BY <2>1, RecalculateSane
<1> HIDE DEF n, q
<1>4. /\ k0 \in KernelState
      /\ k0.quantums = q /\ k0.priority = s.priority /\ k0.curr = s.curr /\ k0.ts = s.ts
      /\ k0.lastMath = s.lastMath /\ k0.state = s.state /\ k0.refs = s.refs
      /\ k0.preemptCount = s.preemptCount /\ k0.pos = s.pos /\ k0.halted = s.halted
  BY <1>3, ZenonT(30) DEF Sane, KernelState
<1>5. Sane(k0)
  BY <1>3, <1>4 DEF Sane, Bounded
<1> HIDE DEF k0
<1>6. CASE s.curr = n
  BY <1>1, <1>2, <1>4, <1>5, <1>6, ThreadAssumption DEF OnCpu, Fpu, FpuLeaving
<1>7. CASE s.curr # n
  <2> DEFINE k1 == ThrArchSwitch(k0, n)
  <2>1. /\ k1 \in KernelState
        /\ k1.curr = n /\ k1.ts = (k0.ts \/ k0.lastMath # n) /\ k1.lastMath = k0.lastMath
        /\ k1.quantums = k0.quantums /\ k1.priority = k0.priority
        /\ k1.state = k0.state /\ k1.refs = k0.refs
        /\ k1.preemptCount = k0.preemptCount /\ k1.pos = k0.pos /\ k1.halted = k0.halted
    BY <1>1, <1>4, ZenonT(30) DEF ThrArchSwitch, KernelState
  <2>2. Sane(k1)
    BY <2>1, <1>5 DEF Sane, Bounded
  <2> HIDE DEF k1
  <2>3. OnCpu(k1) /\ Fpu(k1)
    BY <2>1, <1>1, <1>4, ZenonT(30) DEF OnCpu, Fpu
  <2> QED BY <2>1, <2>2, <2>3, <1>2, <1>4, <1>7 DEF k1
<1> QED BY <1>6, <1>7

----------------------------------------------------------------------------
\* From s to k1 the threads of S were freed; the others kept their state, and
\* no preemption count changed but those of freed threads.
Freed(s, k1, S) ==
  /\ k1.halted = s.halted
  /\ \A u \in Thread :
       /\ u \in S => k1.state[u] = "FREE" /\ k1.pos[u] = 0
       /\ u \notin S => /\ k1.state[u] = s.state[u]
                        /\ k1.refs[u] = s.refs[u]
                        /\ k1.preemptCount[u] = s.preemptCount[u]
                        /\ k1.pos[u] = 0 <=> s.pos[u] = 0

\* Places in threadList stay natural numbers when threads are unlinked.
LEMMA RemoveType ==
  ASSUME NEW s, s \in KernelState, NEW S
  PROVE  /\ ThreadListRemove(s, S) \in KernelState
         /\ \A f \in DOMAIN s : f # "pos" => ThreadListRemove(s, S)[f] = s[f]
         /\ \A t \in Thread : ThreadListRemove(s, S).pos[t] = 0 <=> t \in S \/ s.pos[t] = 0
<1> DEFINE P == [t \in Thread |-> IF t \in S \/ s.pos[t] = 0 THEN 0
                       ELSE Cardinality({u \in Linked(s) \ S : s.pos[u] <= s.pos[t]})]
<1>1. P \in [Thread -> Nat]
  <2> SUFFICES ASSUME NEW t \in Thread
               PROVE  Cardinality({u \in Linked(s) \ S : s.pos[u] <= s.pos[t]}) \in Nat
    OBVIOUS
  <2>1. {u \in Linked(s) \ S : s.pos[u] <= s.pos[t]} \in SUBSET Thread
    BY DEF Linked
  <2> QED BY <2>1, CardinalityOfThreads
<1>2. ThreadListRemove(s, S) = [s EXCEPT !.pos = P]
  BY DEF ThreadListRemove
<1>3. ASSUME NEW t \in Thread, ~(t \in S \/ s.pos[t] = 0)
      PROVE  P[t] # 0
  <2> DEFINE before == {u \in Linked(s) \ S : s.pos[u] <= s.pos[t]}
  <2>1. before \in SUBSET Thread /\ t \in before
    BY <1>3 DEF Linked, KernelState
  <2>2. IsFiniteSet(before) /\ before # {}
    BY <2>1, FS_Subset, ThreadAssumption
  <2> HIDE DEF before
  <2>3. Cardinality(before) \in Nat /\ Cardinality(before) # 0
    BY <2>2, FS_CardinalityType, FS_EmptySet
  <2>4. P[t] = Cardinality(before)
    BY <1>3 DEF before, KernelState
  <2> QED BY <2>3, <2>4
<1>4. \A t \in Thread : P[t] = 0 <=> t \in S \/ s.pos[t] = 0
  BY <1>3
<1> HIDE DEF P
<1>5. ThreadListRemove(s, S).pos = P
  BY <1>2 DEF KernelState
<1> QED BY <1>1, <1>2, <1>4, <1>5 DEF KernelState

\* FreeStruct frees t alone and leaves the FPU state as it is.
LEMMA FreeStructSane ==
  ASSUME NEW s, Sane(s), NEW t \in Thread
  PROVE  LET k1 == FreeStruct(s, t)
         IN /\ Sane(k1) /\ Freed(s, k1, {t})
            /\ k1.curr = IF s.curr = t THEN NULL ELSE s.curr
            /\ k1.ts = s.ts /\ k1.lastMath = s.lastMath
<1> DEFINE k0 == ThreadListRemove(s, {t})
           k1 == FreeStruct(s, t)
<1>1. /\ k0 \in KernelState
      /\ k0.state = s.state /\ k0.refs = s.refs /\ k0.quantums = s.quantums
      /\ k0.priority = s.priority /\ k0.preemptCount = s.preemptCount /\ k0.curr = s.curr
      /\ k0.ts = s.ts /\ k0.lastMath = s.lastMath /\ k0.halted = s.halted
      /\ k0.nrRunning = s.nrRunning
      /\ \A u \in Thread : k0.pos[u] = 0 <=> u = t \/ s.pos[u] = 0
  BY RemoveType DEF Sane, KernelState
<1> HIDE DEF k0
<1>2. /\ k1 \in KernelState
      /\ k1.state = [k0.state EXCEPT ![t] = "FREE"]
      /\ k1.refs = [k0.refs EXCEPT ![t] = 0]
      /\ k1.quantums = [k0.quantums EXCEPT ![t] = 0]
      /\ k1.priority = [k0.priority EXCEPT ![t] = 0]
      /\ k1.preemptCount = [k0.preemptCount EXCEPT ![t] = 0]
      /\ k1.curr = IF k0.curr = t THEN NULL ELSE k0.curr
      /\ k1.ts = k0.ts /\ k1.lastMath = k0.lastMath /\ k1.halted = k0.halted
      /\ k1.pos = k0.pos
  <2> DEFINE n == k0.nrRunning - 1
             st == [k0.state EXCEPT ![t] = "FREE"]
             rf == [k0.refs EXCEPT ![t] = 0]
             qu == [k0.quantums EXCEPT ![t] = 0]
             pr == [k0.priority EXCEPT ![t] = 0]
             pe == [k0.preemptCount EXCEPT ![t] = 0]
             cu == IF k0.curr = t THEN NULL ELSE k0.curr
  <2>1. k1 = [k0 EXCEPT !.nrRunning = n, !.state = st, !.refs = rf, !.quantums = qu,
                        !.priority = pr, !.preemptCount = pe, !.curr = cu]
    BY <1>1 DEF FreeStruct, k0, KernelState
  <2>2. /\ n \in Int /\ st \in [Thread -> ThreadStates] /\ rf \in [Thread -> Int]
        /\ qu \in [Thread -> Nat] /\ pr \in [Thread -> Nat] /\ pe \in [Thread -> Nat]
        /\ cu \in Thread \cup {Idle, NULL}
    BY <1>1 DEF KernelState, ThreadStates
  <2> HIDE DEF k1, n, st, rf, qu, pr, pe, cu
  <2>3. /\ k1 \in KernelState
        /\ k1.state = st /\ k1.refs = rf /\ k1.quantums = qu /\ k1.priority = pr
        /\ k1.preemptCount = pe /\ k1.curr = cu
        /\ k1.ts = k0.ts /\ k1.lastMath = k0.lastMath /\ k1.halted = k0.halted
        /\ k1.pos = k0.pos
    BY <1>1, <2>1, <2>2, ZenonT(30) DEF KernelState
  <2> QED BY <2>3 DEF st, rf, qu, pr, pe, cu
<1> HIDE DEF k1
<1>3. Bounded(k1)
  BY <1>1, <1>2, ThreadAssumption DEF Sane, Bounded, KernelState
<1>4. Freed(s, k1, {t})
  BY <1>1, <1>2 DEF Freed, Sane, KernelState
<1> QED BY <1>1, <1>2, <1>3, <1>4 DEF Sane, k1

\* ThrSchedule frees the current thread if it is dying, and nothing else.
LEMMA ScheduleSane ==
  ASSUME NEW s, Sane(s), FpuLeaving(s)
  PROVE  LET k1 == ThrSchedule(s)
             S == IF s.curr \in Thread /\ s.state[s.curr] = "DYING" THEN {s.curr} ELSE {}
         IN Sane(k1) /\ OnCpu(k1) /\ Fpu(k1) /\ Freed(s, k1, S)
<1>1. CASE s.curr \in Thread /\ s.state[s.curr] = "DYING"
  <2> DEFINE k0 == FreeStruct(s, s.curr)
  <2>1. Sane(k0) /\ Freed(s, k0, {s.curr}) /\ k0.curr = NULL
    BY <1>1, FreeStructSane
  <2>2. ThrSchedule(s) = Dispatch(k0)
    BY <1>1 DEF ThrSchedule
  <2> HIDE DEF k0
  <2>3. FpuLeaving(k0)
    BY <2>1 DEF FpuLeaving
  <2> QED BY <1>1, <2>1, <2>2, <2>3, DispatchSane DEF Freed
<1>2. CASE ~(s.curr \in Thread /\ s.state[s.curr] = "DYING")
  BY <1>2, DispatchSane DEF ThrSchedule, Freed
<1> QED BY <1>1, <1>2

\* The check on the way out of an interrupt or a system call either does
\* nothing or schedules.
LEMMA ReschedCheckSane ==
  ASSUME NEW s, Sane(s), Fpu(s)
  PROVE  \/ ReschedCheck(s) = s
         \/ LET k1 == ReschedCheck(s)
                S == IF s.curr \in Thread /\ s.state[s.curr] = "DYING" THEN {s.curr} ELSE {}
            IN Sane(k1) /\ OnCpu(k1) /\ Fpu(k1) /\ Freed(s, k1, S)
BY ScheduleSane DEF ReschedCheck, FpuLeaving

\* Releasing a reference frees the thread or only lowers the count; when it frees
\* the thread on the CPU, another one is dispatched; freeing twice halts.
LEMMA ReleaseSane ==
  ASSUME NEW s, Sane(s), NEW t \in Thread, FpuLeaving(s), s.curr # NULL
  PROVE  LET k1 == ThrReleaseThread(s, t)
         IN /\ Sane(k1) /\ k1.curr # NULL
            /\ \/ /\ s.refs[t] > 1 \/ s.state[t] = "FREE"
                  /\ k1.curr = s.curr /\ k1.ts = s.ts /\ k1.lastMath = s.lastMath
                  /\ k1.state = s.state /\ k1.preemptCount = s.preemptCount
                  /\ k1.refs = [s.refs EXCEPT ![t] = @ - 1] /\ k1.pos = s.pos
               \/ /\ s.refs[t] <= 1 /\ t # s.curr /\ Freed(s, k1, {t})
                  /\ k1.curr = s.curr /\ k1.ts = s.ts /\ k1.lastMath = s.lastMath
               \/ /\ s.refs[t] <= 1 /\ t = s.curr /\ Freed(s, k1, {t})
                  /\ OnCpu(k1) /\ Fpu(k1)
<1> DEFINE k0 == [s EXCEPT !.refs[t] = @ - 1]
<1>1. /\ k0 \in KernelState
      /\ k0.curr = s.curr /\ k0.ts = s.ts /\ k0.lastMath = s.lastMath
      /\ k0.state = s.state /\ k0.preemptCount = s.preemptCount
      /\ k0.refs = [s.refs EXCEPT ![t] = @ - 1] /\ k0.halted = s.halted
      /\ k0.quantums = s.quantums /\ k0.priority = s.priority /\ k0.pos = s.pos
  BY DEF Sane, KernelState
<1>2. Sane(k0) /\ FpuLeaving(k0) /\ s.refs[t] \in Int /\ k0.refs[t] = s.refs[t] - 1
  BY <1>1, ZenonT(30) DEF Sane, Bounded, FpuLeaving, Fpu, KernelState
<1>3. ThrReleaseThread(s, t) = IF k0.refs[t] <= 0 THEN ThrFreeThread(k0, t) ELSE k0
  BY DEF ThrReleaseThread
<1> HIDE DEF k0
<1>4. CASE k0.refs[t] > 0
  BY <1>1, <1>2, <1>3, <1>4
<1>5. CASE k0.refs[t] <= 0 /\ k0.state[t] = "FREE"
  <2> DEFINE k1 == [k0 EXCEPT !.halted = TRUE]
  <2>1. ThrReleaseThread(s, t) = k1
    BY <1>3, <1>5 DEF ThrFreeThread
  <2>2. /\ k1 \in KernelState /\ k1.curr = k0.curr /\ k1.ts = k0.ts /\ k1.lastMath = k0.lastMath
        /\ k1.state = k0.state /\ k1.preemptCount = k0.preemptCount /\ k1.refs = k0.refs
        /\ k1.quantums = k0.quantums /\ k1.priority = k0.priority /\ k1.pos = k0.pos
    BY <1>1, ZenonT(30) DEF KernelState
  <2> HIDE DEF k1
  <2>3. Sane(k1)
    BY <1>2, <2>2 DEF Sane, Bounded
  <2> QED BY <1>1, <1>5, <2>1, <2>2, <2>3
<1>6. CASE k0.refs[t] <= 0 /\ k0.state[t] # "FREE" /\ t # s.curr
  <2>1. ThrReleaseThread(s, t) = FreeStruct(k0, t)
    BY <1>1, <1>3, <1>6, ThreadAssumption DEF ThrFreeThread
  <2>2. /\ Sane(FreeStruct(k0, t)) /\ Freed(k0, FreeStruct(k0, t), {t})
        /\ FreeStruct(k0, t).curr = IF k0.curr = t THEN NULL ELSE k0.curr
        /\ FreeStruct(k0, t).ts = k0.ts /\ FreeStruct(k0, t).lastMath = k0.lastMath
    BY <1>2, FreeStructSane, ZenonT(30)
  <2>3. Freed(s, FreeStruct(k0, t), {t})
    BY <1>1, <2>2 DEF Freed, Sane, KernelState
  <2> QED BY <1>1, <1>2, <1>6, <2>1, <2>2, <2>3
<1>7. CASE k0.refs[t] <= 0 /\ k0.state[t] # "FREE" /\ t = s.curr
  <2> DEFINE f == FreeStruct(k0, t)
  <2>1. ThrReleaseThread(s, t) = Dispatch(f)
    BY <1>1, <1>3, <1>7, ThreadAssumption DEF ThrFreeThread
  <2>2. Sane(f) /\ Freed(k0, f, {t}) /\ f.curr = NULL
    BY <1>1, <1>2, <1>7, FreeStructSane
  <2> HIDE DEF f
  <2>3. LET k1 == Dispatch(f)
         IN /\ Sane(k1) /\ OnCpu(k1) /\ Fpu(k1)
            /\ k1.state = f.state /\ k1.refs = f.refs /\ k1.preemptCount = f.preemptCount
            /\ k1.halted = f.halted /\ k1.pos = f.pos
    BY <2>2, DispatchSane DEF FpuLeaving
  <2>4. Freed(s, Dispatch(f), {t})
    BY <1>1, <2>2, <2>3 DEF Freed, Sane, KernelState
  <2>5. Dispatch(f).curr # NULL
    BY <2>3, ThreadAssumption DEF OnCpu
  <2> QED BY <1>2, <1>7, <2>1, <2>3, <2>4, <2>5
<1> QED BY <1>2, <1>4, <1>5, <1>6, <1>7, SMTT(30)

----------------------------------------------------------------------------
\* k1 differs from s in nothing that concerns who runs and who is alive.
SameThreads(s, k1) ==
  /\ k1.curr = s.curr /\ k1.ts = s.ts /\ k1.lastMath = s.lastMath
  /\ k1.preemptCount = s.preemptCount /\ k1.halted = s.halted /\ k1.pos = s.pos
  /\ \A u \in Thread : k1.state[u] = "FREE" <=> s.state[u] = "FREE"

\* Waking threads makes stopped threads RUNNING and frees none.
LEMMA ResumeSane ==
  ASSUME NEW s, Sane(s), NEW S \in SUBSET Thread
  PROVE  LET k1 == ThrResumeThreads(s, S)
         IN /\ Sane(k1) /\ SameThreads(s, k1) /\ k1.refs = s.refs
            /\ \A u \in Thread : k1.state[u] = s.state[u] \/ k1.state[u] = "RUNNING"
<1> DEFINE started == {t \in S : s.state[t] \in {"PAUSED", "DYING"}}
           st == [t \in Thread |-> IF t \in started THEN "RUNNING" ELSE s.state[t]]
           nr == s.nrRunning + Cardinality(started)
           need == s.need \/ \E t \in started : s.quantums[t] >= QuantumsOf(s, s.curr)
           k1 == ThrResumeThreads(s, S)
<1>1. k1 = [s EXCEPT !.state = st, !.nrRunning = nr, !.need = need]
  BY DEF ThrResumeThreads, Sane, KernelState
<1>2. st \in [Thread -> ThreadStates]
  BY DEF Sane, KernelState, ThreadStates
<1>3. nr \in Int
  <2>1. started \in SUBSET Thread
    OBVIOUS
  <2>2. Cardinality(started) \in Nat
    BY <2>1, CardinalityOfThreads
  <2> QED BY <2>2 DEF Sane, KernelState
<1>4. need \in BOOLEAN
  OBVIOUS
<1>5. \A u \in Thread : /\ st[u] = s.state[u] \/ st[u] = "RUNNING"
                        /\ st[u] = "FREE" <=> s.state[u] = "FREE"
  OBVIOUS
<1> HIDE DEF k1, st, nr, need
<1>6. /\ k1 \in KernelState /\ k1.state = st /\ k1.curr = s.curr /\ k1.ts = s.ts
      /\ k1.lastMath = s.lastMath /\ k1.preemptCount = s.preemptCount
      /\ k1.halted = s.halted /\ k1.refs = s.refs /\ k1.pos = s.pos
      /\ k1.quantums = s.quantums /\ k1.priority = s.priority
  BY <1>1, <1>2, <1>3, <1>4, ZenonT(30) DEF Sane, KernelState
<1> QED BY <1>5, <1>6 DEF Sane, Bounded, SameThreads, k1

\* Suspending stops one thread and frees none.
LEMMA SuspendSane ==
  ASSUME NEW s, Sane(s), NEW t \in Thread
  PROVE  LET k1 == ThrSuspendThread(s, t)
         IN /\ Sane(k1) /\ SameThreads(s, k1) /\ k1.refs = s.refs
            /\ \A u \in Thread \ {t} : k1.state[u] = s.state[u]
            /\ k1.state[t] = IF s.state[t] = "RUNNING" THEN "PAUSED" ELSE s.state[t]
<1> DEFINE k1 == [s EXCEPT !.state[t] = "PAUSED", !.nrRunning = @ - 1]
<1>1. CASE s.state[t] = "RUNNING"
  <2>1. ThrSuspendThread(s, t) = k1
    BY <1>1, ThreadAssumption DEF ThrSuspendThread
  <2>2. /\ k1 \in KernelState /\ k1.state = [s.state EXCEPT ![t] = "PAUSED"]
        /\ k1.curr = s.curr /\ k1.ts = s.ts
        /\ k1.lastMath = s.lastMath /\ k1.preemptCount = s.preemptCount
        /\ k1.halted = s.halted /\ k1.refs = s.refs /\ k1.pos = s.pos
        /\ k1.quantums = s.quantums /\ k1.priority = s.priority
    <3> DEFINE st == [s.state EXCEPT ![t] = "PAUSED"]
               nr == s.nrRunning - 1
    <3>1. k1 = [s EXCEPT !.state = st, !.nrRunning = nr]
      BY DEF Sane, KernelState
    <3>2. st \in [Thread -> ThreadStates] /\ nr \in Int
      BY DEF Sane, KernelState, ThreadStates
    <3> HIDE DEF k1, st, nr
    <3>3. /\ k1 \in KernelState /\ k1.state = st
          /\ k1.curr = s.curr /\ k1.ts = s.ts
          /\ k1.lastMath = s.lastMath /\ k1.preemptCount = s.preemptCount
          /\ k1.halted = s.halted /\ k1.refs = s.refs /\ k1.pos = s.pos
          /\ k1.quantums = s.quantums /\ k1.priority = s.priority
      BY <3>1, <3>2, ZenonT(30) DEF Sane, KernelState
    <3> QED BY <3>3 DEF st
  <2> HIDE DEF k1
  <2>3. s.state \in [Thread -> ThreadStates]
    BY DEF Sane, KernelState
  <2> QED BY <1>1, <2>1, <2>2, <2>3 DEF Sane, Bounded, SameThreads
<1>2. CASE s.state[t] # "RUNNING"
  BY <1>2, ThreadAssumption, ZenonT(30) DEF ThrSuspendThread, SameThreads
<1> QED BY <1>1, <1>2

\* Taking a reference changes the count only.
LEMMA GetSane ==
  ASSUME NEW s, Sane(s), NEW t \in Thread
  PROVE  LET k1 == ThrGetThread(s, t)
         IN /\ Sane(k1) /\ SameThreads(s, k1) /\ k1.state = s.state
            /\ k1.refs = [s.refs EXCEPT ![t] = @ + 1] /\ k1.pos = s.pos
            /\ k1.nrRunning = s.nrRunning
<1>1. LET k1 == ThrGetThread(s, t)
      IN /\ k1 \in KernelState
         /\ k1.quantums = s.quantums /\ k1.priority = s.priority
         /\ SameThreads(s, k1) /\ k1.state = s.state
         /\ k1.refs = [s.refs EXCEPT ![t] = @ + 1] /\ k1.pos = s.pos
         /\ k1.nrRunning = s.nrRunning
  BY DEF ThrGetThread, Sane, KernelState, SameThreads
<1> QED BY <1>1 DEF Sane, Bounded

\* A tick charges the current thread or requests a reschedule.
LEMMA PitSane ==
  ASSUME NEW s, Sane(s), s.curr # NULL
  PROVE  LET k1 == PitInterrupt(s)
         IN Sane(k1) /\ SameThreads(s, k1) /\ k1.state = s.state /\ k1.refs = s.refs
<1> DEFINE k1 == PitInterrupt(s)
<1>1. CASE QuantumsOf(s, s.curr) > 0
  <2>1. s.curr \in Thread
    BY <1>1 DEF QuantumsOf, Sane, KernelState
  <2>2. k1 = [s EXCEPT !.quantums[s.curr] = @ - 1]
    BY <1>1 DEF PitInterrupt
  <2>3. /\ k1 \in KernelState
        /\ k1.quantums = [s.quantums EXCEPT ![s.curr] = @ - 1] /\ k1.priority = s.priority
        /\ SameThreads(s, k1) /\ k1.state = s.state /\ k1.refs = s.refs
    <3>1. s.quantums[s.curr] \in Nat /\ s.quantums[s.curr] > 0 /\ s.curr # Idle
      BY <1>1, <2>1, ThreadAssumption DEF QuantumsOf, Sane, KernelState
    <3> DEFINE qu == [s.quantums EXCEPT ![s.curr] = @ - 1]
    <3>2. qu \in [Thread -> Nat]
      BY <2>1, <3>1 DEF Sane, KernelState
    <3>3. k1 = [s EXCEPT !.quantums = qu]
      BY <2>2 DEF Sane, KernelState
    <3> HIDE DEF qu, k1
    <3>4. /\ k1 \in KernelState /\ k1.quantums = qu /\ k1.priority = s.priority
          /\ SameThreads(s, k1) /\ k1.state = s.state /\ k1.refs = s.refs
      BY <3>2, <3>3 DEF Sane, KernelState, SameThreads
    <3> QED BY <3>4 DEF qu
  <2> HIDE DEF k1
  <2>4. Bounded(k1)
    <3> SUFFICES ASSUME NEW t \in Thread
                 PROVE  3 * k1.quantums[t] <= 4 * PRIORITY_TOP /\ k1.priority[t] <= PRIORITY_TOP
      BY DEF Bounded
    <3>1. /\ s.quantums \in [Thread -> Nat] /\ s.priority \in [Thread -> Nat]
          /\ 3 * s.quantums[t] <= 4 * PRIORITY_TOP /\ s.priority[t] <= PRIORITY_TOP
      BY DEF Sane, Bounded, KernelState
    <3> QED BY <2>1, <2>3, <3>1, ThreadAssumption
  <2> QED BY <2>3, <2>4 DEF Sane, k1
<1>2. CASE ~(QuantumsOf(s, s.curr) > 0)
  <2>1. k1 = [s EXCEPT !.need = TRUE]
    BY <1>2 DEF PitInterrupt
  <2>2. /\ k1 \in KernelState /\ k1.quantums = s.quantums /\ k1.priority = s.priority
        /\ SameThreads(s, k1) /\ k1.state = s.state /\ k1.refs = s.refs
    BY <2>1, ZenonT(30) DEF Sane, KernelState, SameThreads
  <2> QED BY <2>2 DEF Sane, Bounded
<1> QED BY <1>1, <1>2

\* Killing threads frees those with one reference and leaves the others dying
\* with one reference less.
LEMMA KillSane ==
  ASSUME NEW s, Sane(s), NEW S \in SUBSET Thread
  PROVE  LET k1 == KillThreads(s, S)
             dead == {t \in S : s.refs[t] <= 1}
         IN /\ Sane(k1) /\ k1.curr = s.curr /\ k1.ts = s.ts
            /\ k1.lastMath = (IF s.lastMath \in S THEN NULL ELSE s.lastMath)
            /\ \A u \in Thread :
                 /\ u \in dead => k1.state[u] = "FREE"
                 /\ u \in S \ dead => /\ k1.state[u] = "DYING" /\ k1.refs[u] = s.refs[u] - 1
                                      /\ k1.preemptCount[u] = s.preemptCount[u]
                 /\ u \notin S => /\ k1.state[u] = s.state[u] /\ k1.refs[u] = s.refs[u]
                                  /\ k1.preemptCount[u] = s.preemptCount[u]
                 /\ k1.pos[u] = 0 <=> u \in dead \/ s.pos[u] = 0
<1> DEFINE dead == {t \in S : s.refs[t] <= 1}
           a == ThrArchDestroyThreads(s, S)
           r == ThreadListRemove(a, dead)
           st == [t \in Thread |-> IF t \in dead THEN "FREE"
                                   ELSE IF t \in S THEN "DYING" ELSE s.state[t]]
           rf == [t \in Thread |-> IF t \in dead THEN 0
                                   ELSE IF t \in S THEN s.refs[t] - 1 ELSE s.refs[t]]
           qu == [t \in Thread |-> IF t \in dead THEN 0 ELSE s.quantums[t]]
           pr == [t \in Thread |-> IF t \in dead THEN 0 ELSE s.priority[t]]
           pe == [t \in Thread |-> IF t \in dead THEN 0 ELSE s.preemptCount[t]]
           nr == r.nrRunning - Cardinality(dead)
           k1 == KillThreads(s, S)
<1>0. s \in KernelState /\ dead \in SUBSET Thread
  BY DEF Sane
<1>1. /\ a \in KernelState /\ a.curr = s.curr /\ a.ts = s.ts /\ a.pos = s.pos /\ a.halted = s.halted
      /\ a.lastMath = IF s.lastMath \in S THEN NULL ELSE s.lastMath
  BY <1>0 DEF ThrArchDestroyThreads, KernelState
<1> HIDE DEF a, dead
<1>2. /\ r \in KernelState /\ r.curr = s.curr /\ r.ts = s.ts /\ r.lastMath = a.lastMath
      /\ r.halted = s.halted
      /\ \A u \in Thread : r.pos[u] = 0 <=> u \in dead \/ s.pos[u] = 0
  BY <1>1, RemoveType DEF KernelState
<1>3. k1 = [r EXCEPT !.state = st, !.refs = rf, !.quantums = qu, !.priority = pr,
                     !.preemptCount = pe, !.nrRunning = nr]
  BY DEF KillThreads, a, dead
<1>4. /\ st \in [Thread -> ThreadStates] /\ rf \in [Thread -> Int]
      /\ qu \in [Thread -> Nat] /\ pr \in [Thread -> Nat] /\ pe \in [Thread -> Nat]
  BY <1>0 DEF KernelState, ThreadStates
<1>5. nr \in Int
  <2>1. Cardinality(dead) \in Nat
    BY <1>0, CardinalityOfThreads
  <2>2. r.nrRunning \in Int
    BY <1>2 DEF KernelState
  <2> QED BY <2>1, <2>2
<1> HIDE DEF k1, r, st, rf, qu, pr, pe, nr
<1>6. /\ k1 \in KernelState /\ k1.state = st /\ k1.refs = rf /\ k1.quantums = qu
      /\ k1.priority = pr /\ k1.preemptCount = pe
      /\ k1.curr = r.curr /\ k1.ts = r.ts /\ k1.lastMath = r.lastMath /\ k1.pos = r.pos
      /\ k1.halted = r.halted
  BY <1>2, <1>3, <1>4, <1>5, ZenonT(30) DEF KernelState
<1>7. Bounded(k1)
  <2>1. \A t \in Thread : /\ qu[t] = 0 \/ qu[t] = s.quantums[t]
                          /\ pr[t] = 0 \/ pr[t] = s.priority[t]
    BY DEF qu, pr
  <2> QED BY <1>6, <2>1, ThreadAssumption DEF Bounded, Sane
<1>8. \A u \in Thread :
        /\ u \in dead => k1.state[u] = "FREE"
        /\ u \in S \ dead => /\ k1.state[u] = "DYING" /\ k1.refs[u] = s.refs[u] - 1
                             /\ k1.preemptCount[u] = s.preemptCount[u]
        /\ u \notin S => /\ k1.state[u] = s.state[u] /\ k1.refs[u] = s.refs[u]
                         /\ k1.preemptCount[u] = s.preemptCount[u]
  BY <1>6 DEF st, rf, pe, dead
<1> QED BY <1>1, <1>2, <1>6, <1>7, <1>8 DEF Sane, k1, dead

----------------------------------------------------------------------------
(* The machine.                                                            *)

\* The inductive invariant: types and bounds, what runs may run, the FPU
\* registers are where they should be, and a place in the code implies what
\* the next step of that code needs.
IInv ==
  /\ Sane(k) /\ k.curr # NULL /\ Fpu(k)
  /\ CurrentIsRunnable
  /\ pc \in [Thread -> PcValues]
  /\ arg \in [Thread -> Thread \cup {NULL}]
  /\ waitQueue \in Seq(Thread)
  /\ ready \in BOOLEAN
  /\ procState \in {"RUNNING", "DYING"}
  /\ created \in 0 .. MaxCreate
  /\ \A t \in Thread : pc[t] = "suspended" => arg[t] \in Thread
  /\ \A t \in Thread : pc[t] = "locked" => k.preemptCount[t] > 0

NoDuplicates(q) == \A i, j \in DOMAIN q : q[i] = q[j] => i = j

\* Where a thread that waits may be linked into the queue.
LinkedPcs == {"prepare", "test", "suspend", "sleepSuspend", "finish"}

\* The places of a thread that has taken the reference of a wait.
WaitRefPcs == WaitPcs \cup {"spin"}

OwnRef(t) == IF t \in User /\ procState = "DYING" THEN 0 ELSE 1

WaitRef(t) == IF pc[t] \in WaitRefPcs THEN 1 ELSE 0

\* What makes wait queues safe: reference counts are exact, only threads inside
\* a wait are linked, an exiting thread does not outlive its time on the CPU,
\* what is left of an exited process is inside a wait, and nothing is linked
\* twice.
WInv ==
  /\ \A t \in Thread : pc[t] = "none" <=> k.state[t] = "FREE"
  /\ \A t \in Thread : k.pos[t] = 0 <=> k.state[t] = "FREE"
  /\ \A t \in Thread : Waiting(t) => pc[t] \in LinkedPcs
  /\ \A t \in Thread : pc[t] = "exiting" => k.curr = t /\ k.state[t] = "DYING"
  /\ \A t \in Thread : pc[t] # "suspended"
  /\ \A t \in Thread : k.state[t] # "FREE" => k.refs[t] = OwnRef(t) + WaitRef(t)
  /\ procState = "DYING" => \A t \in User : pc[t] \in WaitRefPcs \cup {"none"}
  /\ NoDuplicates(waitQueue)

Inv == IInv /\ (NoSuspend => WInv)

----------------------------------------------------------------------------
\* A step to a sane kernel state keeps the invariant if the thread that is on
\* the CPU afterwards may run.
LEMMA StepInv ==
  ASSUME IInv,
         NEW k1, Sane(k1), k1.curr # NULL, Fpu(k1),
         NEW t, NEW p \in PcValues \ {"suspended", "locked"}, Step(k1, t, p),
         \/ OnCpu(k1)
         \/ k1.curr \in Thread /\ k1.state[k1.curr] = "DYING" /\ pc'[k1.curr] = "exiting",
         \A u \in Thread : k1.state[u] # "FREE" => k1.preemptCount[u] = k.preemptCount[u],
         arg' = arg, waitQueue' \in Seq(Thread), ready' \in BOOLEAN,
         procState' \in {"RUNNING", "DYING"}, created' = created
  PROVE  IInv'
<1>1. k' = k1
  BY DEF Step
<1>2. pc' \in [Thread -> PcValues]
  BY DEF Step, IInv, PcValues
<1>3. \A u \in Thread : pc'[u] = "suspended" => pc[u] = "suspended"
  BY DEF Step
<1>4. \A u \in Thread : pc'[u] = "locked" => pc[u] = "locked" /\ k1.state[u] # "FREE"
  BY DEF Step
<1>5. CurrentIsRunnable'
  BY <1>1 DEF CurrentIsRunnable, OnCpu
<1> QED BY <1>1, <1>2, <1>3, <1>4, <1>5 DEF IInv

\* Returning from a call leaves a runnable thread on the CPU and frees nobody.
LEMMA ReturnSane ==
  ASSUME NEW k1, Sane(k1), OnCpu(k1), Fpu(k1), NEW t
  PROVE  LET k2 == Return(k1, t)
         IN Sane(k2) /\ OnCpu(k2) /\ Fpu(k2) /\ Freed(k1, k2, {}) /\ k2.curr # NULL
<1>1. \/ ReschedCheck(k1) = k1
      \/ LET k2 == ReschedCheck(k1)
         IN Sane(k2) /\ OnCpu(k2) /\ Fpu(k2) /\ Freed(k1, k2, {})
  BY ReschedCheckSane, ThreadAssumption, ZenonT(30) DEF OnCpu
<1>2. Freed(k1, k1, {})
  BY DEF Freed
<1>3. LET k2 == Return(k1, t)
      IN Sane(k2) /\ OnCpu(k2) /\ Fpu(k2) /\ Freed(k1, k2, {})
  BY <1>1, <1>2 DEF Return
<1> QED BY <1>3, ThreadAssumption DEF OnCpu

\* In a state where t executes code, the current thread is t.
LEMMA AtFacts ==
  ASSUME IInv, NEW t \in Thread, NEW p, At(t, p)
  PROVE  /\ k.curr = t /\ pc[t] = p
         /\ p # "exiting" => OnCpu(k)
BY ThreadAssumption DEF At, IInv, CurrentIsRunnable, OnCpu

\* Properties that SameThreads transfers.
LEMMA SameThreadsFacts ==
  ASSUME NEW k1, NEW k2, Fpu(k1), SameThreads(k1, k2)
  PROVE  /\ Fpu(k2) /\ k2.curr = k1.curr
         /\ \A u \in Thread : k2.preemptCount[u] = k1.preemptCount[u]
BY DEF Fpu, SameThreads

----------------------------------------------------------------------------
\* The machine boots into a state of the invariant.
LEMMA InitInv == Init => IInv /\ WInv
<1> SUFFICES ASSUME Init PROVE IInv /\ WInv
  OBVIOUS
<1> DEFINE b == [ state |-> [t \in Thread |-> IF InBoot(t) THEN "RUNNING" ELSE "FREE"],
                  refs |-> [t \in Thread |-> IF InBoot(t) THEN 1 ELSE 0],
                  quantums |-> [t \in Thread |-> 0],
                  priority |-> [t \in Thread |-> IF InBoot(t) THEN PRIORITY_DEFAULT ELSE 0],
                  preemptCount |-> [t \in Thread |-> 0],
                  pos |-> [t \in Thread |-> IF InBoot(t)
                                            THEN CHOOSE i \in DOMAIN Boot : Boot[i] = t ELSE 0],
                  curr |-> Idle, need |-> FALSE, nrRunning |-> Len(Boot),
                  lastMath |-> NULL, ts |-> FALSE, halted |-> FALSE ]
<1>1. b \in KernelState
  <2>1. [t \in Thread |-> IF InBoot(t)
                          THEN CHOOSE i \in DOMAIN Boot : Boot[i] = t ELSE 0] \in [Thread -> Nat]
    BY EnvAssumption DEF InBoot
  <2>2. Len(Boot) \in Int
    BY EnvAssumption
  <2> QED BY <2>1, <2>2, ThreadAssumption DEF KernelState, ThreadStates
<1>2. Sane(b)
  <2>1. \A t \in Thread : b.quantums[t] = 0 /\ b.priority[t] \in {0, PRIORITY_DEFAULT}
    OBVIOUS
  <2> HIDE DEF b
  <2> QED BY <1>1, <2>1, ThreadAssumption DEF Sane, Bounded
<1>20. \A t \in Thread : /\ b.state[t] = "FREE" <=> ~InBoot(t)
                         /\ b.pos[t] = 0 <=> ~InBoot(t)
                         /\ InBoot(t) => b.refs[t] = 1
  BY EnvAssumption DEF InBoot
<1>3. FpuLeaving(b)
  BY DEF FpuLeaving, Fpu
<1>4. k = Dispatch(b)
  BY DEF Init
<1> HIDE DEF b
<1>5. /\ Sane(k) /\ OnCpu(k) /\ Fpu(k)
      /\ k.state = b.state /\ k.refs = b.refs /\ k.pos = b.pos
  BY <1>2, <1>3, <1>4, DispatchSane
<1>6. k.curr # NULL /\ CurrentIsRunnable
  BY <1>5, ThreadAssumption DEF OnCpu, CurrentIsRunnable
<1>7. pc \in [Thread -> PcValues] /\ \A t \in Thread : pc[t] \in {"run", "none"}
  BY DEF Init, PcValues
<1>8. waitQueue \in Seq(Thread) /\ arg \in [Thread -> Thread \cup {NULL}]
  BY DEF Init
<1>9. created \in 0 .. MaxCreate /\ ready \in BOOLEAN /\ procState \in {"RUNNING", "DYING"}
  <2>1. created = 0 /\ ready = FALSE /\ procState = "RUNNING"
    BY DEF Init
  <2>2. MaxCreate \in Nat
    BY EnvAssumption
  <2>3. 0 \in 0 .. MaxCreate
    BY <2>2
  <2> QED BY <2>1, <2>3, ZenonT(30)
<1>10. WInv
  <2>1. \A t \in Thread : pc[t] = IF InBoot(t) THEN "run" ELSE "none"
    BY DEF Init
  <2>2. waitQueue = <<>> /\ procState = "RUNNING"
    BY DEF Init
  <2>3. "run" \notin WaitRefPcs
    BY DEF WaitRefPcs, WaitPcs
  <2>4. \A t \in Thread : ~Waiting(t)
    BY <2>2 DEF Waiting
  <2>5. NoDuplicates(waitQueue)
    BY <2>2 DEF NoDuplicates
  <2> QED BY <1>5, <1>20, <2>1, <2>2, <2>3, <2>4, <2>5 DEF WInv, OwnRef, WaitRef
<1> QED BY <1>5, <1>6, <1>7, <1>8, <1>9, <1>10 DEF IInv

----------------------------------------------------------------------------
(* Interrupts and traps.                                                   *)

\* The wait queue stays a queue of threads when entries are taken off.
LEMMA QueueType ==
  ASSUME IInv
  PROVE  /\ \A number \in {0, 1} : /\ QueueAfterWakeUp(number) \in Seq(Thread)
                                   /\ Woken(number) \in SUBSET Thread
         /\ \A t \in Thread : Unlink(t) \in Seq(Thread) /\ Append(waitQueue, t) \in Seq(Thread)
<1>1. waitQueue \in Seq(Thread)
  BY DEF IInv
<1>2. waitQueue # <<>> => Head(waitQueue) \in Thread /\ Tail(waitQueue) \in Seq(Thread)
  BY <1>1
<1>3. ASSUME NEW t \in Thread
      PROVE  Unlink(t) \in Seq(Thread)
  <2>1. CASE Waiting(t)
    <3> DEFINE i == CHOOSE j \in DOMAIN waitQueue : waitQueue[j] = t
               s == [j \in 1 .. Len(waitQueue) - 1 |-> waitQueue[IF j < i THEN j ELSE j + 1]]
    <3>1. i \in 1 .. Len(waitQueue)
      BY <1>1, <2>1 DEF Waiting
    <3>2. Unlink(t) = s
      BY <2>1 DEF Unlink
    <3> HIDE DEF i
    <3>3. \A j \in 1 .. Len(waitQueue) - 1 : waitQueue[IF j < i THEN j ELSE j + 1] \in Thread
      BY <1>1, <3>1
    <3>4. Len(waitQueue) - 1 \in Nat
      BY <1>1, <3>1
    <3>5. s \in [1 .. Len(waitQueue) - 1 -> Thread]
      BY <3>3
    <3> HIDE DEF s
    <3> QED BY <3>2, <3>4, <3>5
  <2>2. CASE ~Waiting(t)
    BY <1>1, <2>2 DEF Unlink
  <2> QED BY <2>1, <2>2
<1>4. <<>> \in Seq(Thread)
  OBVIOUS
<1>5. \A t \in Thread : Append(waitQueue, t) \in Seq(Thread)
  BY <1>1
<1> QED BY <1>2, <1>3, <1>4, <1>5 DEF QueueAfterWakeUp, Woken

\* An interrupt handler that keeps the threads as they are, followed by the
\* check on the way out, keeps the invariant.
LEMMA IrqInv ==
  ASSUME IInv, NEW k1, Sane(k1), SameThreads(k, k1),
         \A u \in Thread : k1.state[u] = k.state[u] \/ k1.state[u] = "RUNNING",
         NEW t, NEW p \in {"none", "run"}, p = "none" => t = NULL,
         t \in Thread => OnCpu(k),
         Step(ReschedCheck(k1), t, p),
         arg' = arg, waitQueue' \in Seq(Thread), ready' \in BOOLEAN,
         procState' = procState, created' = created
  PROVE  IInv'
<1>1. Fpu(k1) /\ k1.curr = k.curr /\ \A u \in Thread : k1.preemptCount[u] = k.preemptCount[u]
  BY SameThreadsFacts DEF IInv
<1>2. k.curr \in Thread \cup {Idle} /\ k1.state \in [Thread -> ThreadStates]
  BY DEF IInv, Sane, KernelState
<1>3. p \in PcValues \ {"suspended", "locked"} /\ procState' \in {"RUNNING", "DYING"}
  BY DEF PcValues, IInv
<1>4. CASE ReschedCheck(k1) = k1
  <2>1. \/ OnCpu(k1)
        \/ k1.curr \in Thread /\ k1.state[k1.curr] = "DYING" /\ pc'[k1.curr] = "exiting"
    <3>1. CASE k.curr = Idle
      BY <1>1, <3>1 DEF OnCpu
    <3>2. CASE k.curr \in Thread /\ k1.state[k.curr] = "RUNNING"
      BY <1>1, <3>2 DEF OnCpu
    <3>3. CASE k.curr \in Thread /\ k1.state[k.curr] # "RUNNING"
      <4>1. k.state[k.curr] = "DYING" /\ pc[k.curr] = "exiting" /\ k1.state[k.curr] = "DYING"
        BY <1>1, <3>3, ThreadAssumption DEF IInv, CurrentIsRunnable
      <4>2. t \notin Thread
        BY <3>3, <4>1, ThreadAssumption DEF OnCpu
      <4> QED BY <1>1, <1>4, <3>3, <4>1, <4>2 DEF Step
    <3> QED BY <1>2, <3>1, <3>2, <3>3
  <2>2. k1.curr # NULL
    BY <1>1 DEF IInv
  <2> QED BY <1>1, <1>3, <1>4, <2>1, <2>2, StepInv
<1>5. CASE LET k2 == ReschedCheck(k1)
                S == IF k1.curr \in Thread /\ k1.state[k1.curr] = "DYING" THEN {k1.curr} ELSE {}
            IN Sane(k2) /\ OnCpu(k2) /\ Fpu(k2) /\ Freed(k1, k2, S)
  <2> DEFINE k2 == ReschedCheck(k1)
  <2>1. \A u \in Thread : k2.state[u] # "FREE" => k2.preemptCount[u] = k.preemptCount[u]
    BY <1>1, <1>5 DEF Freed
  <2>2. k2.curr # NULL
    BY <1>5, ThreadAssumption DEF OnCpu
  <2> HIDE DEF k2
  <2> QED BY <1>3, <1>5, <2>1, <2>2, StepInv DEF k2
<1> QED BY <1>1, <1>4, <1>5, ReschedCheckSane, ZenonT(30)

\* The timer interrupt.
LEMMA PitIrqInv == IInv /\ PitIrq => IInv'
<1> SUFFICES ASSUME IInv, PitIrq PROVE IInv'
  OBVIOUS
<1>1. Sane(PitInterrupt(k)) /\ SameThreads(k, PitInterrupt(k)) /\ PitInterrupt(k).state = k.state
  BY PitSane DEF IInv
<1>2. Step(ReschedCheck(PitInterrupt(k)), NULL, "none") /\ NULL \notin Thread
  BY ThreadAssumption DEF PitIrq
<1>3. /\ arg' = arg /\ procState' = procState /\ created' = created
      /\ waitQueue' \in Seq(Thread) /\ ready' \in BOOLEAN
  BY DEF PitIrq, IInv
<1> QED BY <1>1, <1>2, <1>3, IrqInv

\* A device interrupt that wakes waiters.
LEMMA DeviceIrqInv == ASSUME IInv, NEW number \in {0, 1}, DeviceIrq(number) PROVE IInv'
<1> DEFINE k1 == ThrResumeThreads(k, Woken(number))
<1>1. /\ Sane(k1) /\ SameThreads(k, k1)
      /\ \A u \in Thread : k1.state[u] = k.state[u] \/ k1.state[u] = "RUNNING"
  BY QueueType, ResumeSane DEF IInv
<1>2. Step(ReschedCheck(k1), NULL, "none") /\ NULL \notin Thread
  BY ThreadAssumption DEF DeviceIrq, WakeUpCommon
<1>3. /\ arg' = arg /\ procState' = procState /\ created' = created
      /\ waitQueue' \in Seq(Thread) /\ ready' \in BOOLEAN
  BY QueueType DEF DeviceIrq, IInv
<1> HIDE DEF k1
<1> QED BY <1>1, <1>2, <1>3, IrqInv

\* Trap 7 gives the FPU registers to the current thread.
LEMMA FpuTrapInv == ASSUME IInv, NEW t \in Thread, FpuTrap(t) PROVE IInv'
<1> DEFINE k1 == FpuNotAvailable(k)
           k2 == ReschedCheck(k1)
<1>1. At(t, "run") /\ k.curr = t /\ OnCpu(k)
  BY AtFacts DEF FpuTrap, Call
<1>2. /\ k1 \in KernelState /\ k1.curr = k.curr /\ k1.lastMath = k.curr
      /\ k1.state = k.state /\ k1.preemptCount = k.preemptCount
      /\ k1.quantums = k.quantums /\ k1.priority = k.priority
  BY <1>1, ZenonT(30) DEF FpuNotAvailable, IInv, Sane, KernelState
<1> HIDE DEF k1
<1>3. Sane(k1) /\ OnCpu(k1) /\ Fpu(k1)
  BY <1>1, <1>2 DEF Sane, Bounded, OnCpu, Fpu, IInv
<1>4. \/ k2 = k1
      \/ Sane(k2) /\ OnCpu(k2) /\ Fpu(k2) /\ Freed(k1, k2, {})
  BY <1>3, ReschedCheckSane, ThreadAssumption, ZenonT(30) DEF OnCpu
<1> HIDE DEF k2
<1>5. /\ Sane(k2) /\ OnCpu(k2) /\ Fpu(k2) /\ k2.curr # NULL
      /\ \A u \in Thread : k2.preemptCount[u] = k.preemptCount[u]
  BY <1>2, <1>3, <1>4, ThreadAssumption DEF Freed, OnCpu
<1>6. /\ arg' = arg /\ procState' \in {"RUNNING", "DYING"} /\ created' = created
      /\ waitQueue' \in Seq(Thread) /\ ready' \in BOOLEAN /\ Step(k2, t, "run")
      /\ "run" \in PcValues \ {"suspended", "locked"}
  BY DEF FpuTrap, IInv, k1, k2, PcValues
<1> QED BY <1>5, <1>6, StepInv

----------------------------------------------------------------------------
(* Calls and kernel code.                                                  *)

\* The variables besides k, pc and arg keep their types.
Rest ==
  /\ waitQueue' \in Seq(Thread) /\ ready' \in BOOLEAN
  /\ procState' \in {"RUNNING", "DYING"} /\ created' = created

\* A call whose body leaves the CPU to a runnable thread keeps the invariant.
LEMMA CallInv ==
  ASSUME IInv, NEW k1, Sane(k1), OnCpu(k1), Fpu(k1),
         \A u \in Thread : k1.state[u] # "FREE" => k1.preemptCount[u] = k.preemptCount[u],
         NEW t, NEW p \in PcValues \ {"suspended", "locked"},
         Step(k1, t, p) \/ Step(Return(k1, t), t, p),
         arg' = arg, Rest
  PROVE  IInv'
<1>1. k1.curr # NULL
  BY ThreadAssumption DEF OnCpu
<1>2. CASE Step(k1, t, p)
  BY <1>1, <1>2, StepInv DEF Rest
<1>3. CASE Step(Return(k1, t), t, p)
  <2> DEFINE k2 == Return(k1, t)
  <2>1. Sane(k2) /\ OnCpu(k2) /\ Fpu(k2) /\ Freed(k1, k2, {}) /\ k2.curr # NULL
    BY ReturnSane
  <2> HIDE DEF k2
  <2>2. \A u \in Thread : k2.state[u] # "FREE" => k2.preemptCount[u] = k.preemptCount[u]
    BY <2>1 DEF Freed
  <2> QED BY <1>3, <2>1, <2>2, StepInv DEF Rest, k2
<1> QED BY <1>2, <1>3

\* The stages of a wait, and the other steps that leave k alone or only take
\* a reference, keep the invariant.
LEMMA QuietInv ==
  ASSUME IInv, NEW t \in Thread, NEW p, p # "exiting", At(t, p),
         NEW q \in PcValues \ {"suspended", "locked"},
         Step(k, t, q) \/ Step(ThrGetThread(k, t), t, q),
         arg' = arg, Rest
  PROVE  IInv'
<1>1. Sane(k) /\ OnCpu(k) /\ Fpu(k)
  BY AtFacts DEF IInv
<1>2. CASE Step(k, t, q)
  BY <1>1, <1>2, CallInv
<1>3. CASE Step(ThrGetThread(k, t), t, q)
  <2> DEFINE k1 == ThrGetThread(k, t)
  <2>1. Sane(k1) /\ SameThreads(k, k1) /\ k1.state = k.state
    BY <1>1, GetSane, ZenonT(30)
  <2> HIDE DEF k1
  <2>2. Fpu(k1) /\ OnCpu(k1) /\ \A u \in Thread : k1.preemptCount[u] = k.preemptCount[u]
    BY <1>1, <2>1, SameThreadsFacts DEF OnCpu
  <2> QED BY <1>3, <2>1, <2>2, CallInv DEF k1
<1> QED BY <1>2, <1>3

\* The stages of a wait up to its last.
LEMMA WaitStagesInv ==
  ASSUME IInv, NEW t \in Thread,
         WaitOn(t) \/ SleepOn(t) \/ WaitPrepareWait(t) \/ WaitTest(t) \/ WaitFinishWait(t)
  PROVE  IInv'
<1> USE DEF PcValues, WaitPcs
<1>0. waitQueue \in Seq(Thread) /\ ready \in BOOLEAN /\ procState \in {"RUNNING", "DYING"}
  BY DEF IInv
<1>1. CASE WaitOn(t)
  BY <1>0, <1>1, QuietInv DEF WaitOn, Call, Rest
<1>2. CASE SleepOn(t)
  BY <1>0, <1>2, QuietInv DEF SleepOn, Call, Rest
<1>3. CASE WaitPrepareWait(t)
  <2>1. Rest /\ arg' = arg
    BY <1>0, <1>3, QueueType DEF WaitPrepareWait, Rest
  <2>2. PICK p \in {"prepare", "sleepPrepare"} :
          At(t, p) /\ Step(k, t, IF p = "prepare" THEN "test" ELSE "sleepSuspend")
    BY <1>3 DEF WaitPrepareWait
  <2> QED BY <2>1, <2>2, QuietInv
<1>4. CASE WaitTest(t)
  <2>1. Rest /\ arg' = arg /\ At(t, "test") /\ Step(k, t, IF ready THEN "finish" ELSE "suspend")
    BY <1>0, <1>4 DEF WaitTest, Rest
  <2>2. (IF ready THEN "finish" ELSE "suspend") \in PcValues \ {"suspended", "locked"}
    OBVIOUS
  <2> QED BY <2>1, <2>2, QuietInv
<1>5. CASE WaitFinishWait(t)
  <2> DEFINE q == IF t \in User /\ procState = "DYING" THEN "spin" ELSE "release"
  <2>1. Rest /\ arg' = arg /\ At(t, "finish") /\ Step(k, t, q)
    BY <1>0, <1>5, QueueType DEF WaitFinishWait, Rest
  <2>2. q \in PcValues \ {"suspended", "locked"}
    OBVIOUS
  <2> HIDE DEF q
  <2> QED BY <2>1, <2>2, QuietInv
<1> QED BY <1>1, <1>2, <1>3, <1>4, <1>5

\* Suspending oneself in a wait.
LEMMA WaitSuspendInv == ASSUME IInv, NEW t \in Thread, WaitSuspend(t) PROVE IInv'
<1> DEFINE k0 == ThrSuspendThread(k, t)
           k1 == ThrSchedule(k0)
<1>1. PICK p \in {"suspend", "sleepSuspend"} :
        At(t, p) /\ Step(k1, t, IF p = "suspend" THEN "prepare" ELSE "finish")
  BY DEF WaitSuspend
<1>2. Sane(k) /\ OnCpu(k) /\ Fpu(k) /\ k.curr = t
  BY <1>1, AtFacts DEF IInv
<1>3. Sane(k0) /\ SameThreads(k, k0)
  BY <1>2, SuspendSane
<1>4. Fpu(k0) /\ \A u \in Thread : k0.preemptCount[u] = k.preemptCount[u]
  BY <1>2, <1>3, SameThreadsFacts
<1> HIDE DEF k0
<1>5. Sane(k1) /\ OnCpu(k1) /\ Fpu(k1) /\ \E S \in SUBSET Thread : Freed(k0, k1, S)
  BY <1>3, <1>4, ScheduleSane, ZenonT(30) DEF FpuLeaving
<1> HIDE DEF k1
<1>6. \A u \in Thread : k1.state[u] # "FREE" => k1.preemptCount[u] = k.preemptCount[u]
  BY <1>4, <1>5 DEF Freed
<1>7. Rest /\ arg' = arg
  BY DEF WaitSuspend, Rest, IInv
<1>8. {"prepare", "finish"} \subseteq PcValues \ {"suspended", "locked"}
  BY DEF PcValues, WaitPcs
<1> QED BY <1>1, <1>5, <1>6, <1>7, <1>8, CallInv

\* Giving back the reference of a wait.
LEMMA WaitReleaseInv == ASSUME IInv, NEW t \in Thread, WaitRelease(t) PROVE IInv'
<1> DEFINE k1 == ThrReleaseThread(k, t)
<1>1. Sane(k) /\ OnCpu(k) /\ Fpu(k) /\ k.curr = t
  BY AtFacts DEF WaitRelease, IInv
<1>2. Step(IF k1.curr = t THEN Return(k1, t) ELSE k1, t, "run")
  BY DEF WaitRelease
<1>3. /\ Sane(k1) /\ OnCpu(k1) /\ Fpu(k1)
      /\ \A u \in Thread : k1.state[u] # "FREE" => k1.preemptCount[u] = k.preemptCount[u]
  <2>1. /\ Sane(k1)
        /\ \/ /\ k1.curr = k.curr /\ k1.ts = k.ts /\ k1.lastMath = k.lastMath
              /\ k1.state = k.state /\ k1.preemptCount = k.preemptCount
           \/ Freed(k, k1, {t}) /\ OnCpu(k1) /\ Fpu(k1)
    BY <1>1, ReleaseSane, ZenonT(30) DEF FpuLeaving, IInv
  <2> HIDE DEF k1
  <2> QED BY <1>1, <2>1 DEF Freed, OnCpu, Fpu
<1> HIDE DEF k1
<1>4. Rest /\ arg' = arg /\ "run" \in PcValues \ {"suspended", "locked"}
  BY DEF WaitRelease, Rest, IInv, PcValues
<1>5. Step(k1, t, "run") \/ Step(Return(k1, t), t, "run")
  BY <1>2
<1> QED BY <1>3, <1>4, <1>5, CallInv

\* Calls that wake threads.
LEMMA WakingInv ==
  ASSUME IInv, NEW t \in Thread,
         \/ \E u \in Thread : SysResumeThread(t, u)
         \/ \E number \in {0, 1} : WakeUp(t, number)
  PROVE  IInv'
<1>0. At(t, "run")
  BY ZenonT(30) DEF SysResumeThread, WakeUp, Call
<1>1. Sane(k) /\ OnCpu(k) /\ Fpu(k)
  BY <1>0, AtFacts DEF IInv
<1>2. PICK S \in SUBSET Thread : Step(Return(ThrResumeThreads(k, S), t), t, "run")
  <2>1. CASE \E u \in Thread : SysResumeThread(t, u)
    <3>1. PICK u \in Thread : SysResumeThread(t, u)
      BY <2>1
    <3>2. {u} \in SUBSET Thread
      OBVIOUS
    <3> QED BY <3>1, <3>2 DEF SysResumeThread
  <2>2. CASE \E number \in {0, 1} : WakeUp(t, number)
    BY <2>2, QueueType DEF WakeUp, WakeUpCommon
  <2> QED BY <2>1, <2>2
<1> DEFINE k1 == ThrResumeThreads(k, S)
<1>3. /\ Sane(k1) /\ SameThreads(k, k1)
      /\ \A u \in Thread : k1.state[u] = k.state[u] \/ k1.state[u] = "RUNNING"
  BY <1>1, ResumeSane
<1>4. Step(Return(k1, t), t, "run")
  BY <1>2
<1> HIDE DEF k1
<1>5. OnCpu(k1) /\ Fpu(k1) /\ \A u \in Thread : k1.preemptCount[u] = k.preemptCount[u]
  BY <1>1, <1>3, SameThreadsFacts DEF OnCpu
<1>6. Rest /\ arg' = arg
  BY QueueType, ZenonT(30) DEF SysResumeThread, WakeUp, Rest, IInv
<1>7. "run" \in PcValues \ {"suspended", "locked"}
  BY DEF PcValues
<1> QED BY <1>3, <1>4, <1>5, <1>6, <1>7, CallInv

\* SysYield, and each turn of the loop in ThrEndWait.
LEMMA YieldInv ==
  ASSUME IInv, NEW t \in Thread, SysYield(t) \/ ThrEndWait(t)
  PROVE  IInv'
<1> DEFINE k1 == [k EXCEPT !.quantums[t] = 0, !.need = TRUE]
<1>1. Sane(k) /\ OnCpu(k) /\ Fpu(k)
  <2>1. At(t, "run") \/ At(t, "spin")
    BY DEF SysYield, ThrEndWait, Call
  <2> QED BY <2>1, AtFacts DEF IInv
<1>2. /\ k1 \in KernelState /\ SameThreads(k, k1) /\ k1.state = k.state
      /\ k1.quantums = [k.quantums EXCEPT ![t] = 0] /\ k1.priority = k.priority
  BY <1>1, ZenonT(30) DEF Sane, KernelState, SameThreads
<1>3. PICK p \in {"run", "spin"} : Step(k1, t, p) \/ Step(Return(k1, t), t, p)
  BY DEF SysYield, ThrEndWait
<1> HIDE DEF k1
<1>4. Sane(k1) /\ OnCpu(k1) /\ Fpu(k1)
  <2>1. k.quantums \in [Thread -> Nat] /\ 0 <= 4 * PRIORITY_TOP
    BY <1>1, ThreadAssumption DEF Sane, KernelState
  <2> QED BY <1>1, <1>2, <2>1, SameThreadsFacts DEF Sane, Bounded, OnCpu
<1>5. \A u \in Thread : k1.preemptCount[u] = k.preemptCount[u]
  BY <1>2 DEF SameThreads
<1>6. Rest /\ arg' = arg
  BY DEF SysYield, ThrEndWait, Rest, IInv
<1>7. {"run", "spin"} \subseteq PcValues \ {"suspended", "locked"}
  BY DEF PcValues
<1> QED BY <1>3, <1>4, <1>5, <1>6, <1>7, CallInv

\* ThrSetPriority clamps what it is given.
LEMMA SetPriorityInv ==
  ASSUME IInv, NEW t \in Thread, NEW p \in Priorities, SetPriority(t, p)
  PROVE  IInv'
<1> DEFINE v == IF p > PRIORITY_TOP THEN PRIORITY_TOP ELSE IF p < 0 THEN 0 ELSE p
           k1 == ThrSetPriority(k, t, p)
<1>1. Sane(k) /\ OnCpu(k) /\ Fpu(k)
  BY AtFacts DEF SetPriority, Call, IInv
<1>2. v \in Nat /\ v <= PRIORITY_TOP
  <2>1. p \in Int
    BY EnvAssumption
  <2> QED BY <2>1, ThreadAssumption
<1>3. k1 = [k EXCEPT !.priority[t] = v]
  BY DEF ThrSetPriority
<1> HIDE DEF v
<1>4. /\ k1 \in KernelState /\ SameThreads(k, k1) /\ k1.state = k.state
      /\ k1.quantums = k.quantums /\ k1.priority = [k.priority EXCEPT ![t] = v]
  BY <1>1, <1>2, <1>3 DEF Sane, KernelState, SameThreads
<1>5. Step(k1, t, "run") /\ Rest /\ arg' = arg
  BY DEF SetPriority, Rest, IInv
<1> HIDE DEF k1
<1>6. Sane(k1) /\ OnCpu(k1) /\ Fpu(k1)
  <2>1. k.priority \in [Thread -> Nat]
    BY <1>1 DEF Sane, KernelState
  <2> QED BY <1>1, <1>2, <1>4, <2>1, SameThreadsFacts DEF Sane, Bounded, OnCpu
<1>7. \A u \in Thread : k1.preemptCount[u] = k.preemptCount[u]
  BY <1>4 DEF SameThreads
<1>8. "run" \in PcValues \ {"suspended", "locked"}
  BY DEF PcValues
<1> QED BY <1>5, <1>6, <1>7, <1>8, CallInv

\* The condition that is waited for becomes false again.
LEMMA NotReadyInv == ASSUME IInv, NEW t \in Thread, NotReady(t) PROVE IInv'
BY ZenonT(30) DEF IInv, NotReady, CurrentIsRunnable

----------------------------------------------------------------------------
(* Steps that put a thread at a place about which the invariant says more. *)

\* Critical sections count preemptCount up and down.
LEMMA PreemptInv ==
  ASSUME IInv, NEW t \in Thread, PreemptDisable(t) \/ PreemptEnable(t)
  PROVE  IInv'
<1>0. k \in KernelState /\ Sane(k) /\ Fpu(k) /\ pc \in [Thread -> PcValues]
  BY DEF IInv, Sane
<1>1. CASE PreemptDisable(t)
  <2> DEFINE pe == [k.preemptCount EXCEPT ![t] = @ + 1]
             k1 == [k EXCEPT !.preemptCount = pe]
  <2>1. OnCpu(k)
    BY <1>1, AtFacts DEF PreemptDisable, Call
  <2>2. pe \in [Thread -> Nat] /\ pe[t] > 0 /\ \A u \in Thread \ {t} : pe[u] = k.preemptCount[u]
    BY <1>0 DEF KernelState
  <2>3. Step(k1, t, "locked")
    BY <1>1 DEF PreemptDisable
  <2> HIDE DEF pe
  <2>4. /\ k1 \in KernelState /\ k1.preemptCount = pe /\ k1.curr = k.curr /\ k1.ts = k.ts
        /\ k1.lastMath = k.lastMath /\ k1.state = k.state
        /\ k1.quantums = k.quantums /\ k1.priority = k.priority
    BY <1>0, <2>2 DEF KernelState
  <2> HIDE DEF k1
  <2>5. Sane(k1) /\ Fpu(k1) /\ OnCpu(k1) /\ k1.curr # NULL
    BY <1>0, <2>1, <2>4 DEF Sane, Bounded, Fpu, OnCpu, IInv
  <2>6. k' = k1 /\ CurrentIsRunnable'
    BY <2>3, <2>5 DEF Step, CurrentIsRunnable, OnCpu
  <2>7. /\ pc' \in [Thread -> PcValues]
        /\ \A u \in Thread : pc'[u] = "suspended" => pc[u] = "suspended"
        /\ \A u \in Thread \ {t} : pc'[u] = "locked" => pc[u] = "locked"
    BY <1>0, <2>3 DEF Step, PcValues
  <2>8. \A u \in Thread : pc'[u] = "locked" => k1.preemptCount[u] > 0
    BY <2>2, <2>4, <2>7, ZenonT(30) DEF IInv
  <2>9. UNCHANGED <<arg, waitQueue, ready, procState, created>>
    BY <1>1 DEF PreemptDisable
  <2> QED BY <2>5, <2>6, <2>7, <2>8, <2>9 DEF IInv
<1>2. CASE PreemptEnable(t)
  <2> DEFINE pe == [k.preemptCount EXCEPT ![t] = @ - 1]
             k1 == [k EXCEPT !.preemptCount = pe]
             k2 == Return(k1, t)
  <2>1. OnCpu(k) /\ pc[t] = "locked"
    BY <1>2, AtFacts DEF PreemptEnable
  <2>2. pe \in [Thread -> Nat] /\ \A u \in Thread \ {t} : pe[u] = k.preemptCount[u]
    <3>1. k.preemptCount \in [Thread -> Nat]
      BY <1>0 DEF Sane, KernelState
    <3>2. k.preemptCount[t] > 0
      BY <2>1 DEF IInv
    <3>3. k.preemptCount[t] - 1 \in Nat
      BY <3>1, <3>2
    <3> QED BY <3>1, <3>3
  <2>3. Step(k2, t, "run")
    BY <1>2 DEF PreemptEnable
  <2> HIDE DEF pe
  <2>4. /\ k1 \in KernelState /\ k1.preemptCount = pe /\ k1.curr = k.curr /\ k1.ts = k.ts
        /\ k1.lastMath = k.lastMath /\ k1.state = k.state
        /\ k1.quantums = k.quantums /\ k1.priority = k.priority
    BY <1>0, <2>2 DEF KernelState
  <2> HIDE DEF k1
  <2>5. Sane(k1) /\ Fpu(k1) /\ OnCpu(k1)
    BY <1>0, <2>1, <2>4 DEF Sane, Bounded, Fpu, OnCpu, IInv
  <2>6. Sane(k2) /\ OnCpu(k2) /\ Fpu(k2) /\ Freed(k1, k2, {}) /\ k2.curr # NULL
    BY <2>5, ReturnSane
  <2> HIDE DEF k2
  <2>7. k' = k2 /\ CurrentIsRunnable'
    BY <2>3, <2>6 DEF Step, CurrentIsRunnable, OnCpu
  <2>8. /\ pc' \in [Thread -> PcValues]
        /\ \A u \in Thread : pc'[u] = "suspended" => pc[u] = "suspended"
        /\ \A u \in Thread : pc'[u] = "locked" => pc[u] = "locked" /\ u # t
    BY <1>0, <2>3 DEF Step, PcValues
  <2>9. \A u \in Thread : pc'[u] = "locked" => k2.preemptCount[u] > 0
    BY <2>2, <2>4, <2>6, <2>8 DEF IInv, Freed
  <2>10. UNCHANGED <<arg, waitQueue, ready, procState, created>>
    BY <1>2 DEF PreemptEnable
  <2> QED BY <2>6, <2>7, <2>8, <2>9, <2>10 DEF IInv
<1> QED BY <1>1, <1>2

\* SysSuspendThread takes a reference and stops its target.
LEMMA SysSuspendInv ==
  ASSUME IInv, NEW t \in Thread, NEW u \in Thread, SysSuspendThread(t, u)
  PROVE  IInv'
<1> DEFINE k0 == ThrGetThread(k, u)
           k1 == ThrSuspendThread(k0, u)
           k2 == ThrSchedule(k1)
<1>0. Sane(k) /\ OnCpu(k) /\ Fpu(k) /\ pc \in [Thread -> PcValues]
  BY AtFacts DEF SysSuspendThread, Call, IInv
<1>1. Sane(k0) /\ SameThreads(k, k0)
  BY <1>0, GetSane, ZenonT(30)
<1>2. Sane(k1) /\ SameThreads(k0, k1)
  BY <1>1, SuspendSane
<1>3. Fpu(k1) /\ \A v \in Thread : k1.preemptCount[v] = k.preemptCount[v]
  BY <1>0, <1>1, <1>2, SameThreadsFacts
<1>4. Step(k2, t, "suspended") /\ arg' = [arg EXCEPT ![t] = u]
  BY DEF SysSuspendThread
<1> HIDE DEF k0, k1
<1>5. Sane(k2) /\ OnCpu(k2) /\ Fpu(k2) /\ \E S \in SUBSET Thread : Freed(k1, k2, S)
  BY <1>2, <1>3, ScheduleSane, ZenonT(30) DEF FpuLeaving
<1> HIDE DEF k2
<1>6. k' = k2 /\ CurrentIsRunnable' /\ k2.curr # NULL
  BY <1>4, <1>5, ThreadAssumption DEF Step, CurrentIsRunnable, OnCpu
<1>7. /\ pc' \in [Thread -> PcValues]
      /\ \A v \in Thread \ {t} : pc'[v] = "suspended" => pc[v] = "suspended"
      /\ \A v \in Thread : pc'[v] = "locked" => pc[v] = "locked" /\ k2.state[v] # "FREE"
  BY <1>0, <1>4 DEF Step, PcValues
<1>8. arg' \in [Thread -> Thread \cup {NULL}] /\ \A v \in Thread : pc'[v] = "suspended" => arg'[v] \in Thread
  BY <1>4, <1>7 DEF IInv
<1>9. \A v \in Thread : pc'[v] = "locked" => k2.preemptCount[v] > 0
  BY <1>3, <1>5, <1>7 DEF IInv, Freed
<1>10. UNCHANGED <<waitQueue, ready, procState, created>>
  BY DEF SysSuspendThread
<1> QED BY <1>5, <1>6, <1>7, <1>8, <1>9, <1>10 DEF IInv

\* SysSuspendThread gives its reference back.
LEMMA SuspendReturnInv == ASSUME IInv, NEW t \in Thread, SuspendReturn(t) PROVE IInv'
<1> DEFINE k1 == ThrReleaseThread(k, arg[t])
           k2 == IF k1.curr = t /\ ~k1.halted THEN Return(k1, t) ELSE k1
<1>0. Sane(k) /\ OnCpu(k) /\ Fpu(k) /\ k.curr = t /\ arg[t] \in Thread /\ pc \in [Thread -> PcValues]
  BY AtFacts DEF SuspendReturn, IInv
<1>1. /\ Sane(k1) /\ OnCpu(k1) /\ Fpu(k1)
      /\ \A v \in Thread : k1.state[v] # "FREE" => k1.preemptCount[v] = k.preemptCount[v]
  <2>1. /\ Sane(k1)
        /\ \/ /\ k1.curr = k.curr /\ k1.ts = k.ts /\ k1.lastMath = k.lastMath
              /\ k1.state = k.state /\ k1.preemptCount = k.preemptCount
           \/ /\ arg[t] # k.curr /\ Freed(k, k1, {arg[t]})
              /\ k1.curr = k.curr /\ k1.ts = k.ts /\ k1.lastMath = k.lastMath
           \/ Freed(k, k1, {arg[t]}) /\ OnCpu(k1) /\ Fpu(k1)
    BY <1>0, ReleaseSane, ZenonT(30) DEF FpuLeaving, IInv
  <2> HIDE DEF k1
  <2> QED BY <1>0, <2>1 DEF Freed, OnCpu, Fpu
<1>2. Step(k2, t, "run") /\ arg' = [arg EXCEPT ![t] = NULL]
  BY DEF SuspendReturn
<1> HIDE DEF k1
<1>3. /\ Sane(k2) /\ OnCpu(k2) /\ Fpu(k2)
      /\ \A v \in Thread : k2.state[v] # "FREE" => k2.preemptCount[v] = k.preemptCount[v]
  <2>1. CASE k1.curr = t /\ ~k1.halted
    <3>1. k2 = Return(k1, t)
      BY <2>1
    <3>2. Sane(k2) /\ OnCpu(k2) /\ Fpu(k2) /\ Freed(k1, k2, {})
      BY <1>1, <3>1, ReturnSane
    <3> HIDE DEF k2
    <3> QED BY <1>1, <3>2 DEF Freed
  <2>2. CASE ~(k1.curr = t /\ ~k1.halted)
    <3>1. k2 = k1
      BY <2>2
    <3> HIDE DEF k2
    <3> QED BY <1>1, <3>1
  <2> QED BY <2>1, <2>2
<1> HIDE DEF k2
<1>4. k' = k2 /\ CurrentIsRunnable' /\ k2.curr # NULL
  BY <1>2, <1>3, ThreadAssumption DEF Step, CurrentIsRunnable, OnCpu
<1>5. /\ pc' \in [Thread -> PcValues]
      /\ \A v \in Thread : pc'[v] = "suspended" => v # t /\ pc[v] = "suspended"
      /\ \A v \in Thread : pc'[v] = "locked" => pc[v] = "locked" /\ k2.state[v] # "FREE"
  BY <1>0, <1>2 DEF Step, PcValues
<1>6. arg' \in [Thread -> Thread \cup {NULL}] /\ \A v \in Thread : pc'[v] = "suspended" => arg'[v] \in Thread
  BY <1>2, <1>5 DEF IInv
<1>7. \A v \in Thread : pc'[v] = "locked" => k2.preemptCount[v] > 0
  BY <1>3, <1>5 DEF IInv
<1>8. UNCHANGED <<waitQueue, ready, procState, created>>
  BY DEF SuspendReturn
<1> QED BY <1>3, <1>4, <1>5, <1>6, <1>7, <1>8 DEF IInv

\* The two halves of ThrDoExitThread.
LEMMA ExitInv ==
  ASSUME Inv, NEW t \in Thread, ThrDoExitThread(t) \/ ExitRelease(t)
  PROVE  IInv'
<1> USE DEF Inv
<1>0. Sane(k) /\ Fpu(k) /\ k.curr = t
  BY DEF IInv, ThrDoExitThread, ExitRelease, Call, At
<1>1. "exiting" \in PcValues \ {"suspended", "locked"} /\ Rest /\ arg' = arg
  BY DEF PcValues, ThrDoExitThread, ExitRelease, Rest, IInv
<1>2. CASE ThrDoExitThread(t)
  <2> DEFINE k1 == [k EXCEPT !.state[t] = "DYING"]
  <2>1. /\ k1 \in KernelState /\ k1.state = [k.state EXCEPT ![t] = "DYING"]
        /\ k1.curr = k.curr /\ k1.ts = k.ts /\ k1.lastMath = k.lastMath
        /\ k1.preemptCount = k.preemptCount
        /\ k1.quantums = k.quantums /\ k1.priority = k.priority
    <3> DEFINE st == [k.state EXCEPT ![t] = "DYING"]
    <3>1. st \in [Thread -> ThreadStates] /\ k1 = [k EXCEPT !.state = st]
      BY <1>0 DEF Sane, KernelState, ThreadStates
    <3> HIDE DEF st, k1
    <3>2. /\ k1 \in KernelState /\ k1.state = st
          /\ k1.curr = k.curr /\ k1.ts = k.ts /\ k1.lastMath = k.lastMath
          /\ k1.preemptCount = k.preemptCount
          /\ k1.quantums = k.quantums /\ k1.priority = k.priority
      BY <1>0, <3>1 DEF Sane, KernelState
    <3> QED BY <3>2 DEF st
  <2>2. Step(k1, t, "exiting")
    BY <1>2 DEF ThrDoExitThread
  <2> HIDE DEF k1
  <2>3. k1.curr \in Thread /\ k1.state[k1.curr] = "DYING" /\ pc'[k1.curr] = "exiting"
    BY <1>0, <2>1, <2>2 DEF Step, Sane, KernelState
  <2>4. Sane(k1) /\ Fpu(k1) /\ k1.curr # NULL
    BY <1>0, <2>1 DEF Sane, Bounded, Fpu, IInv
  <2> QED BY <1>1, <2>1, <2>2, <2>3, <2>4, StepInv, ZenonT(30) DEF Rest
<1>3. CASE ExitRelease(t)
  <2> DEFINE k1 == ThrReleaseThread(k, t)
             k2 == ThrArchDestroyThreads(k1, {t})
  <2>0. "run" \in PcValues \ {"suspended", "locked"}
    BY DEF PcValues
  <2>1. Step(IF k1.curr = t THEN ThrSchedule(k2) ELSE k1, t, "run")
    BY <1>3 DEF ExitRelease
  <2>2. k.state[t] \in {"RUNNING", "DYING"}
    BY <1>0, ThreadAssumption DEF IInv, CurrentIsRunnable
  <2>3. /\ Sane(k1) /\ k1.curr # NULL
        /\ \/ /\ k1.curr = t /\ k1.state = k.state /\ k1.preemptCount = k.preemptCount
              /\ k1.ts = k.ts /\ k1.lastMath = k.lastMath
           \/ Freed(k, k1, {t}) /\ OnCpu(k1) /\ Fpu(k1)
    BY <1>0, ReleaseSane, ZenonT(30) DEF FpuLeaving, IInv
  <2>4. CASE k1.curr # t
    <3>1. Freed(k, k1, {t}) /\ OnCpu(k1) /\ Fpu(k1)
      BY <2>3, <2>4
    <3>2. \A v \in Thread : k1.state[v] # "FREE" => k1.preemptCount[v] = k.preemptCount[v]
      BY <3>1 DEF Freed
    <3>3. Step(k1, t, "run")
      BY <2>1, <2>4
    <3> QED BY <1>1, <2>0, <2>3, <3>1, <3>2, <3>3, CallInv
  <2>5. CASE k1.curr = t
    <3>0. k1.state = k.state /\ k1.preemptCount = k.preemptCount
      <4>1. ~(Freed(k, k1, {t}) /\ OnCpu(k1))
        BY <2>5, ThreadAssumption DEF Freed, OnCpu
      <4> QED BY <2>3, <4>1
    <3>1. /\ k2 \in KernelState /\ k2.curr = t /\ k2.state = k1.state
          /\ k2.preemptCount = k1.preemptCount /\ k2.ts = k1.ts
          /\ k2.quantums = k1.quantums /\ k2.priority = k1.priority
      BY <2>3, <2>5 DEF ThrArchDestroyThreads, Sane, KernelState
    <3> HIDE DEF k1, k2
    <3>2. Sane(k2)
      BY <2>3, <3>1 DEF Sane, Bounded
    <3>3. NoSuspend => k.state[t] = "DYING"
      BY <1>3 DEF ExitRelease, WInv, At
    <3>4. FpuLeaving(k2)
      BY <3>0, <3>1, <3>3 DEF FpuLeaving, Fpu
    <3> DEFINE k3 == ThrSchedule(k2)
    <3>5. Sane(k3) /\ OnCpu(k3) /\ Fpu(k3) /\ \E S \in SUBSET Thread : Freed(k2, k3, S)
      BY <3>2, <3>4, ScheduleSane, ZenonT(30)
    <3>6. Step(k3, t, "run")
      BY <2>1, <2>5
    <3> HIDE DEF k3
    <3>7. \A v \in Thread : k3.state[v] # "FREE" => k3.preemptCount[v] = k.preemptCount[v]
      BY <3>0, <3>1, <3>5 DEF Freed
    <3> QED BY <1>1, <2>0, <3>5, <3>6, <3>7, CallInv
  <2> QED BY <2>4, <2>5
<1> QED BY <1>2, <1>3

\* ThrProcessExit kills the threads of the process.
LEMMA ProcessExitInv == ASSUME IInv, NEW t \in Thread, ThrProcessExit(t) PROVE IInv'
<1> DEFINE k0 == ThrGetThread(k, t)
           S == User \cap Linked(k)
           k1 == KillThreads(k0, S)
           k2 == ThrSchedule(k1)
<1>0. Sane(k) /\ Fpu(k) /\ k.curr = t
  BY DEF IInv, ThrProcessExit, Call, At
<1>1. S \in SUBSET Thread
  BY DEF Linked
<1>2. Sane(k0) /\ SameThreads(k, k0) /\ k0.state = k.state
  BY <1>0, GetSane, ZenonT(30)
<1>3. Step(k2, t, "none") /\ arg' = arg /\ Rest
  BY DEF ThrProcessExit, Rest, IInv
<1> HIDE DEF k0, S
<1>4. /\ Sane(k1) /\ k1.curr = k0.curr /\ k1.ts = k0.ts
      /\ k1.lastMath = (IF k0.lastMath \in S THEN NULL ELSE k0.lastMath)
      /\ \A u \in Thread : k1.state[u] # "FREE" \/ u \notin S => k1.preemptCount[u] = k0.preemptCount[u]
      /\ \A u \in S : k1.state[u] \in {"FREE", "DYING"}
  <2> DEFINE dead == {u \in S : k0.refs[u] <= 1}
  <2>1. /\ Sane(k1) /\ k1.curr = k0.curr /\ k1.ts = k0.ts
        /\ k1.lastMath = (IF k0.lastMath \in S THEN NULL ELSE k0.lastMath)
        /\ \A u \in Thread :
             /\ u \in dead => k1.state[u] = "FREE"
             /\ u \in S \ dead => /\ k1.state[u] = "DYING" /\ k1.refs[u] = k0.refs[u] - 1
                                  /\ k1.preemptCount[u] = k0.preemptCount[u]
             /\ u \notin S => /\ k1.state[u] = k0.state[u] /\ k1.refs[u] = k0.refs[u]
                              /\ k1.preemptCount[u] = k0.preemptCount[u]
             /\ k1.pos[u] = 0 <=> u \in dead \/ k0.pos[u] = 0
    BY <1>1, <1>2, KillSane, Zenon
  <2> HIDE DEF k1, dead
  <2> QED BY <1>1, <2>1
<1> HIDE DEF k1
<1>5. FpuLeaving(k1)
  BY <1>0, <1>2, <1>4 DEF FpuLeaving, Fpu, SameThreads
<1>6. Sane(k2) /\ OnCpu(k2) /\ Fpu(k2) /\ \E D \in SUBSET Thread : Freed(k1, k2, D)
  BY <1>4, <1>5, ScheduleSane, ZenonT(30)
<1> HIDE DEF k2
<1>7. \A u \in Thread : k2.state[u] # "FREE" => k2.preemptCount[u] = k.preemptCount[u]
  BY <1>2, <1>4, <1>6 DEF Freed, SameThreads
<1>8. "none" \in PcValues \ {"suspended", "locked"}
  BY DEF PcValues
<1> QED BY <1>3, <1>6, <1>7, <1>8, CallInv

\* What creating and starting a thread changes.
LEMMA CreateSane ==
  ASSUME NEW s, Sane(s), NEW n \in Thread, s.state[n] = "FREE", OnCpu(s), Fpu(s)
  PROVE  LET s1 == ThrStartThread(ThrCreateThread(s, n), n)
         IN /\ Sane(s1) /\ OnCpu(s1) /\ Fpu(s1) /\ s1.curr = s.curr
            /\ s1.state = [s.state EXCEPT ![n] = "RUNNING"]
            /\ s1.refs = [s.refs EXCEPT ![n] = 1]
            /\ s1.preemptCount = [s.preemptCount EXCEPT ![n] = 0]
            /\ \A u \in Thread : s1.pos[u] = 0 <=> u # n /\ s.pos[u] = 0
<1> DEFINE st0 == [s.state EXCEPT ![n] = "PAUSED"]
           rf == [s.refs EXCEPT ![n] = 1]
           pr == [s.priority EXCEPT ![n] = PRIORITY_DEFAULT]
           pe == [s.preemptCount EXCEPT ![n] = 0]
           s0 == [s EXCEPT !.refs = rf, !.priority = pr, !.state = st0, !.preemptCount = pe]
           c == Cardinality(Linked(s0)) + 1
           ps == [s0.pos EXCEPT ![n] = c]
           a == [s0 EXCEPT !.pos = ps]
           st == [st0 EXCEPT ![n] = "RUNNING"]
           s1 == ThrStartThread(ThrCreateThread(s, n), n)
<1>0. s \in KernelState
  BY DEF Sane
<1>1. /\ st0 \in [Thread -> ThreadStates] /\ rf \in [Thread -> Int] /\ pr \in [Thread -> Nat]
      /\ pe \in [Thread -> Nat] /\ st0[n] = "PAUSED" /\ st \in [Thread -> ThreadStates]
      /\ st = [s.state EXCEPT ![n] = "RUNNING"]
  BY <1>0, ThreadAssumption DEF KernelState, ThreadStates
<1>2. ThrCreateThread(s, n) = a
  BY <1>0 DEF ThrCreateThread, ThreadListAdd, KernelState
<1>3. c \in Nat /\ c > 0
  <2>1. Linked(s0) \in SUBSET Thread
    BY DEF Linked
  <2>2. Cardinality(Linked(s0)) \in Nat
    BY <2>1, CardinalityOfThreads
  <2> QED BY <2>2
<1> HIDE DEF st0, rf, pr, pe, c, st
<1>4. /\ s0 \in KernelState /\ s0.state = st0 /\ s0.refs = rf /\ s0.priority = pr
      /\ s0.preemptCount = pe /\ s0.quantums = s.quantums /\ s0.curr = s.curr
      /\ s0.ts = s.ts /\ s0.lastMath = s.lastMath /\ s0.pos = s.pos
      /\ s0.nrRunning = s.nrRunning
  BY <1>0, <1>1, ZenonT(30) DEF KernelState
<1> HIDE DEF s0
<1>5. ps \in [Thread -> Nat] /\ \A u \in Thread : ps[u] = 0 <=> u # n /\ s.pos[u] = 0
  BY <1>3, <1>4 DEF KernelState
<1> HIDE DEF ps
<1>6. /\ a \in KernelState /\ a.state = st0 /\ a.refs = rf /\ a.priority = pr
      /\ a.preemptCount = pe /\ a.quantums = s.quantums /\ a.curr = s.curr
      /\ a.ts = s.ts /\ a.lastMath = s.lastMath /\ a.pos = ps
  BY <1>4, <1>5 DEF KernelState
<1>7. s1 = [a EXCEPT !.state = st, !.nrRunning = a.nrRunning + 1]
  <2> HIDE DEF a
  <2> QED BY <1>1, <1>2, <1>6 DEF ThrStartThread, KernelState, st
<1> DEFINE nr == a.nrRunning + 1
<1>71. nr \in Int
  BY <1>6 DEF KernelState
<1>72. s1 = [a EXCEPT !.state = st, !.nrRunning = nr] /\ st \in [Thread -> ThreadStates]
  BY <1>1, <1>7
<1> HIDE DEF a, s1, nr
<1>8. /\ s1 \in KernelState /\ s1.state = st /\ s1.refs = rf /\ s1.priority = pr
      /\ s1.preemptCount = pe /\ s1.quantums = s.quantums /\ s1.curr = s.curr
      /\ s1.ts = s.ts /\ s1.lastMath = s.lastMath /\ s1.pos = ps
  BY <1>6, <1>71, <1>72, ZenonT(30) DEF KernelState
<1>9. Bounded(s1)
  BY <1>0, <1>8, ThreadAssumption DEF Sane, Bounded, KernelState, pr
<1>10. OnCpu(s1) /\ Fpu(s1)
  BY <1>0, <1>1, <1>8 DEF OnCpu, Fpu, KernelState
<1> QED BY <1>1, <1>5, <1>8, <1>9, <1>10 DEF Sane, rf, pe, s1

\* SysCreateThread.
LEMMA CreateInv ==
  ASSUME IInv, NEW t \in Thread, NEW n \in Thread, SysCreateThread(t, n)
  PROVE  IInv'
<1> DEFINE k1 == ThrStartThread(ThrCreateThread(k, n), n)
           k2 == IF k1.quantums[n] > k1.quantums[t] THEN ThrSchedule(k1) ELSE k1
           k3 == Return(k2, t)
<1>0. Sane(k) /\ OnCpu(k) /\ Fpu(k) /\ k.curr = t
  BY AtFacts DEF SysCreateThread, Call, IInv
<1>1. k' = k3 /\ pc' = [pc EXCEPT ![n] = "run"] /\ k.state[n] = "FREE"
  BY DEF SysCreateThread
<1>2. /\ Sane(k1) /\ OnCpu(k1) /\ Fpu(k1)
      /\ k1.preemptCount = [k.preemptCount EXCEPT ![n] = 0]
  BY <1>0, <1>1, CreateSane, ZenonT(30)
<1> HIDE DEF k1
<1>3. Sane(k2) /\ OnCpu(k2) /\ Fpu(k2) /\ Freed(k1, k2, {})
  <2>1. Sane(ThrSchedule(k1)) /\ OnCpu(ThrSchedule(k1)) /\ Fpu(ThrSchedule(k1))
        /\ Freed(k1, ThrSchedule(k1), {})
    BY <1>2, ScheduleSane, ThreadAssumption, ZenonT(30) DEF FpuLeaving, OnCpu
  <2>2. Freed(k1, k1, {})
    BY DEF Freed
  <2> QED BY <1>2, <2>1, <2>2
<1> HIDE DEF k2
<1>4. Sane(k3) /\ OnCpu(k3) /\ Fpu(k3) /\ Freed(k2, k3, {}) /\ k3.curr # NULL
  BY <1>3, ReturnSane
<1> HIDE DEF k3
<1>5. CurrentIsRunnable'
  BY <1>1, <1>4 DEF CurrentIsRunnable, OnCpu
<1>6. \A u \in Thread : k3.preemptCount[u] = k1.preemptCount[u]
  BY <1>3, <1>4 DEF Freed
<1>7. /\ pc' \in [Thread -> PcValues]
      /\ \A u \in Thread : pc'[u] = "suspended" => pc[u] = "suspended"
      /\ \A u \in Thread : pc'[u] = "locked" => k3.preemptCount[u] > 0
  BY <1>1, <1>2, <1>6, ZenonT(40) DEF IInv, PcValues, Sane, KernelState
<1>8. UNCHANGED <<arg, waitQueue, ready, procState>> /\ created' \in 0 .. MaxCreate
  <2>1. UNCHANGED <<arg, waitQueue, ready, procState>> /\ created < MaxCreate /\ created' = created + 1
    BY DEF SysCreateThread
  <2>2. created \in 0 .. MaxCreate /\ MaxCreate \in Nat
    BY EnvAssumption DEF IInv
  <2> QED BY <2>1, <2>2
<1> QED BY <1>1, <1>4, <1>5, <1>7, <1>8 DEF IInv
=============================================================================
