-------------------------- MODULE ThreadListProofs --------------------------
(***************************************************************************)
(* threadList always holds exactly the live threads at places 1, 2, ...,   *)
(* whatever is added and removed, and the idle task runs only when no      *)
(* thread could: ThrChooseNewThread finds a runnable thread if there is    *)
(* one, and a wake-up that reaches the idle task preempts it.              *)
(***************************************************************************)
EXTENDS WaitProofs, ListFacts

\* The linked threads are at places 1, 2, ..., each at a place of its own.
Places(s) ==
  /\ \A t, u \in Linked(s) : s.pos[t] = s.pos[u] => t = u
  /\ {s.pos[t] : t \in Linked(s)} = 1 .. Cardinality(Linked(s))

\* threadList holds exactly the live threads.
Listed(s) ==
  /\ \A t \in Thread : s.pos[t] = 0 <=> s.state[t] = "FREE"
  /\ Places(s)

\* The idle task runs only when no thread could.
IdleFits(s) == s.curr = Idle => \A t \in Thread : s.state[t] # "RUNNING"

\* The inductive invariant of the thread list and the idle task.
LInv == Listed(k) /\ IdleFits(k)

----------------------------------------------------------------------------
(* Places.                                                                 *)

\* The image of a set under a function, by its members.
LEMMA ImageIs ==
  ASSUME NEW L, NEW g, NEW I,
         \A t \in L : g[t] \in I,
         \A i \in I : \E t \in L : g[t] = i
  PROVE  {g[t] : t \in L} = I
OBVIOUS

\* Counting the elements up to each one numbers a finite set 1, 2, ...
LEMMA Ranks ==
  ASSUME NEW L \in SUBSET Thread, NEW f \in [Thread -> Nat],
         \A t, u \in L : f[t] = f[u] => t = u,
         NEW g \in [Thread -> Nat],
         \A t \in L : g[t] = Cardinality({u \in L : f[u] <= f[t]})
  PROVE  /\ \A t, u \in L : g[t] = g[u] => t = u
         /\ {g[t] : t \in L} = 1 .. Cardinality(L)
<1> DEFINE before(t) == {u \in L : f[u] <= f[t]}
<1>1. IsFiniteSet(L) /\ Cardinality(L) \in Nat
  BY ThreadAssumption, FS_Subset, FS_CardinalityType
<1>2. ASSUME NEW t \in L
      PROVE  /\ before(t) \in SUBSET L /\ IsFiniteSet(before(t)) /\ t \in before(t)
             /\ g[t] = Cardinality(before(t)) /\ g[t] \in 1 .. Cardinality(L)
  <2>1. before(t) \in SUBSET L /\ t \in before(t)
    OBVIOUS
  <2>2. g[t] = Cardinality(before(t))
    OBVIOUS
  <2> HIDE DEF before
  <2>3. IsFiniteSet(before(t)) /\ Cardinality(before(t)) <= Cardinality(L)
    BY <1>1, <2>1, FS_Subset
  <2>4. Cardinality(before(t)) \in Nat /\ Cardinality(before(t)) # 0
    BY <2>1, <2>3, FS_CardinalityType, FS_EmptySet
  <2> QED BY <1>1, <2>1, <2>2, <2>3, <2>4
<1>3. ASSUME NEW t \in L, NEW u \in L, f[t] < f[u]
      PROVE  g[t] # g[u]
  <2>1. before(t) \in SUBSET before(u) /\ u \notin before(t) /\ u \in before(u)
    BY <1>3
  <2> HIDE DEF before
  <2>2. before(t) # before(u)
    BY <2>1
  <2>3. Cardinality(before(u)) # Cardinality(before(t))
    BY <1>2, <2>1, <2>2, FS_Subset
  <2> QED BY <1>2, <2>3
<1>4. \A t, u \in L : g[t] = g[u] => t = u
  <2> SUFFICES ASSUME NEW t \in L, NEW u \in L, g[t] = g[u] PROVE t = u
    OBVIOUS
  <2>1. ~(f[t] < f[u]) /\ ~(f[u] < f[t])
    BY <1>3
  <2>2. f[t] = f[u]
    BY <2>1
  <2> QED BY <2>2
<1> DEFINE n == Cardinality(L)
           h == [t \in L |-> g[t]]
<1>5. IsFiniteSet(1 .. n) /\ Cardinality(1 .. n) = n
  BY <1>1, FS_Interval
<1>6. h \in Injection(L, 1 .. n)
  BY <1>2, <1>4 DEF Injection, IsInjective
<1>7. h \in Surjection(L, 1 .. n)
  <2> HIDE DEF h, n
  <2> QED BY <1>5, <1>6, FS_Injection DEF n
<1>8. \A i \in 1 .. n : \E t \in L : g[t] = i
  BY <1>7 DEF Surjection
<1>9. \A t \in L : g[t] \in 1 .. n
  BY <1>2
<1> HIDE DEF n
<1>10. {g[t] : t \in L} = 1 .. n
  BY <1>8, <1>9, ImageIs
<1> QED BY <1>4, <1>10 DEF n

\* Unlinking threads closes the gaps in threadList.
LEMMA RemovePlaces ==
  ASSUME NEW s, s \in KernelState, Places(s), NEW S
  PROVE  Places(ThreadListRemove(s, S))
<1> DEFINE k1 == ThreadListRemove(s, S)
           L == Linked(s) \ S
<1>1. /\ k1.pos \in [Thread -> Nat] /\ s.pos \in [Thread -> Nat]
      /\ \A t \in Thread : k1.pos[t] = 0 <=> t \in S \/ s.pos[t] = 0
  BY RemoveType DEF KernelState
<1>2. L \in SUBSET Thread /\ Linked(k1) = L
  BY <1>1 DEF Linked
<1>3. \A t \in L : k1.pos[t] = Cardinality({u \in L : s.pos[u] <= s.pos[t]})
  BY DEF ThreadListRemove, Linked, KernelState
<1>4. \A t, u \in L : s.pos[t] = s.pos[u] => t = u
  BY DEF Places
<1> HIDE DEF k1, L
<1>5. /\ \A t, u \in L : k1.pos[t] = k1.pos[u] => t = u
      /\ {k1.pos[t] : t \in L} = 1 .. Cardinality(L)
  BY <1>1, <1>2, <1>3, <1>4, Ranks
<1> QED BY <1>2, <1>5 DEF Places, k1

\* A thread that is added goes to the next free place.
LEMMA AddPlaces ==
  ASSUME NEW s, s \in KernelState, Places(s), NEW n \in Thread, s.pos[n] = 0,
         NEW s1, s1.pos = [s.pos EXCEPT ![n] = Cardinality(Linked(s)) + 1]
  PROVE  Places(s1)
<1> DEFINE L == Linked(s)
           c == Cardinality(L)
<1>1. L \in SUBSET Thread /\ n \notin L /\ s.pos \in [Thread -> Nat]
  BY DEF Linked, KernelState
<1>2. IsFiniteSet(L) /\ c \in Nat /\ Cardinality(L \cup {n}) = c + 1
  BY <1>1, ThreadAssumption, FS_Subset, FS_CardinalityType, FS_AddElement
<1>3. s1.pos[n] = c + 1 /\ \A t \in L : s1.pos[t] = s.pos[t]
  BY <1>1
<1>4. Linked(s1) = L \cup {n}
  <2>1. \A t \in Thread : s1.pos[t] > 0 <=> t = n \/ s.pos[t] > 0
    BY <1>1, <1>2
  <2> QED BY <2>1 DEF Linked
<1>5. (\A t, u \in L : s.pos[t] = s.pos[u] => t = u) /\ {s.pos[t] : t \in L} = 1 .. c
  BY DEF Places
<1> HIDE DEF L, c
<1>6. \A t \in L : s1.pos[t] \in 1 .. c
  BY <1>3, <1>5
<1>7. \A t, u \in L \cup {n} : s1.pos[t] = s1.pos[u] => t = u
  BY <1>2, <1>3, <1>5, <1>6
<1>8. \A i \in 1 .. c + 1 : \E t \in L \cup {n} : s1.pos[t] = i
  <2> SUFFICES ASSUME NEW i \in 1 .. c + 1 PROVE \E t \in L \cup {n} : s1.pos[t] = i
    OBVIOUS
  <2>1. CASE i = c + 1
    BY <1>3, <2>1
  <2>2. CASE i # c + 1
    <3>1. i \in 1 .. c
      BY <1>2, <2>2
    <3>2. PICK t \in L : s.pos[t] = i
      BY <1>5, <3>1
    <3> QED BY <1>3, <3>2
  <2> QED BY <2>1, <2>2
<1>9. \A t \in L \cup {n} : s1.pos[t] \in 1 .. c + 1
  BY <1>2, <1>3, <1>6
<1>10. {s1.pos[t] : t \in L \cup {n}} = 1 .. c + 1
  BY <1>8, <1>9, ImageIs
<1> QED BY <1>2, <1>4, <1>7, <1>10 DEF Places

----------------------------------------------------------------------------
(* The scheduler.                                                          *)

\* If a thread could run, ThrChooseNewThread finds one: among the runnable
\* threads with the most quantums, the first in threadList.
LEMMA ChooseFinds ==
  ASSUME NEW s, Sane(s), Listed(s), ThrChooseNewThread(s) = Idle
  PROVE  \A t \in Thread : s.state[t] # "RUNNING"
<1> DEFINE run == {t \in Linked(s) : s.state[t] = "RUNNING"}
           Best(t) == \A u \in run \ {t} :
                        \/ s.quantums[u] < s.quantums[t]
                        \/ s.quantums[u] = s.quantums[t] /\ s.pos[t] < s.pos[u]
<1>1. ThrChooseNewThread(s) = IF \E t \in run : Best(t) THEN CHOOSE t \in run : Best(t) ELSE Idle
  BY DEF ThrChooseNewThread
<1>2. /\ s.quantums \in [Thread -> Nat] /\ s.pos \in [Thread -> Nat] /\ PRIORITY_TOP \in Nat
      /\ \A t \in Thread : 3 * s.quantums[t] <= 4 * PRIORITY_TOP
      /\ run \subseteq Thread
  BY ThreadAssumption DEF Sane, Bounded, KernelState, Linked
<1>3. \A t, u \in run : s.pos[t] = s.pos[u] => t = u
  BY DEF Listed, Places
<1>4. \A t \in Thread : s.state[t] = "RUNNING" => t \in run
  BY <1>2 DEF Listed, Linked
<1>5. ~ \E t \in run : Best(t)
  <2>1. ASSUME \E t \in run : Best(t) PROVE (CHOOSE t \in run : Best(t)) \in run
    <3> HIDE DEF run, Best
    <3> QED BY <2>1
  <2> HIDE DEF run, Best
  <2> QED BY <1>1, <1>2, <2>1, ThreadAssumption
<1> SUFFICES ASSUME run # {} PROVE FALSE
  BY <1>4
<1> HIDE DEF run
<1> DEFINE D == {4 * PRIORITY_TOP - 3 * s.quantums[t] : t \in run}
<1>6. PICK a \in run : \A u \in run : s.quantums[u] <= s.quantums[a]
  <2>1. D \subseteq Nat /\ D # {}
    BY <1>2
  <2>2. PICK d \in D : \A e \in D : d <= e
    <3> HIDE DEF D
    <3> QED BY <2>1, LeastElement, Zenon
  <2>3. PICK a \in run : d = 4 * PRIORITY_TOP - 3 * s.quantums[a]
    BY <2>2
  <2>4. \A u \in run : 4 * PRIORITY_TOP - 3 * s.quantums[a] <= 4 * PRIORITY_TOP - 3 * s.quantums[u]
    BY <2>2, <2>3
  <2> QED BY <1>2, <2>4
<1> DEFINE most == {t \in run : s.quantums[t] = s.quantums[a]}
           P == {s.pos[t] : t \in most}
<1>7. PICK b \in most : \A u \in most : s.pos[b] <= s.pos[u]
  <2>1. P \subseteq Nat /\ P # {}
    BY <1>2, <1>6
  <2>2. PICK d \in P : \A e \in P : d <= e
    <3> HIDE DEF P
    <3> QED BY <2>1, LeastElement, Zenon
  <2> QED BY <2>2
<1>8. Best(b)
  <2> SUFFICES ASSUME NEW u \in run \ {b}
               PROVE  \/ s.quantums[u] < s.quantums[b]
                      \/ s.quantums[u] = s.quantums[b] /\ s.pos[b] < s.pos[u]
    OBVIOUS
  <2>1. b \in run /\ s.quantums[b] = s.quantums[a] /\ s.quantums[u] <= s.quantums[a]
    BY <1>6, <1>7
  <2>2. CASE s.quantums[u] = s.quantums[a]
    <3>1. s.pos[b] <= s.pos[u] /\ s.pos[b] # s.pos[u]
      BY <1>3, <1>7, <2>1, <2>2
    <3> QED BY <1>2, <2>1, <2>2, <3>1
  <2> QED BY <1>2, <2>1, <2>2
<1> QED BY <1>5, <1>7, <1>8

\* Dispatch changes nothing in threadList and idles only if nothing can run.
LEMMA DispatchListed ==
  ASSUME NEW s, Sane(s), Listed(s)
  PROVE  Listed(Dispatch(s)) /\ IdleFits(Dispatch(s))
<1> DEFINE n == ThrChooseNewThread(s)
           q == IF n # Idle /\ s.quantums[n] = 0 THEN Recalculate(s) ELSE s.quantums
           k0 == [s EXCEPT !.need = FALSE, !.quantums = q]
<1>1. Dispatch(s) = IF s.curr = n THEN k0 ELSE ThrArchSwitch(k0, n)
  BY DEF Dispatch
<1>2. n = Idle => \A t \in Thread : s.state[t] # "RUNNING"
  BY ChooseFinds
<1> HIDE DEF n, q
<1>3. /\ Dispatch(s).pos = s.pos /\ Dispatch(s).state = s.state /\ Dispatch(s).curr = n
  BY <1>1 DEF ThrArchSwitch, Sane, KernelState
<1> QED BY <1>2, <1>3 DEF Listed, Places, Linked, IdleFits

\* Freeing a thread unlinks it.
LEMMA FreeListed ==
  ASSUME NEW s, Sane(s), Listed(s), NEW t \in Thread
  PROVE  Listed(FreeStruct(s, t))
<1> DEFINE k1 == FreeStruct(s, t)
           k0 == ThreadListRemove(s, {t})
<1>1. Freed(s, k1, {t})
  BY FreeStructSane
<1>2. k0 \in KernelState /\ Places(k0)
  BY RemoveType, RemovePlaces DEF Sane, Listed
<1>3. k1.pos = k0.pos
  <2> HIDE DEF k0
  <2> QED BY <1>2 DEF FreeStruct, KernelState, k0
<1>4. Places(k1)
  <2> HIDE DEF k0, k1
  <2> QED BY <1>2, <1>3 DEF Places, Linked
<1>5. \A u \in Thread : k1.pos[u] = 0 <=> k1.state[u] = "FREE"
  <2> HIDE DEF k1
  <2> QED BY <1>1 DEF Freed, Listed
<1> QED BY <1>4, <1>5 DEF Listed

\* ThrSchedule keeps threadList exact and idles only if nothing can run.
LEMMA ScheduleListed ==
  ASSUME NEW s, Sane(s), Listed(s)
  PROVE  Listed(ThrSchedule(s)) /\ IdleFits(ThrSchedule(s))
<1>1. CASE s.curr \in Thread /\ s.state[s.curr] = "DYING"
  <2> DEFINE f == FreeStruct(s, s.curr)
  <2>1. Sane(f) /\ Listed(f) /\ ThrSchedule(s) = Dispatch(f)
    BY <1>1, FreeStructSane, FreeListed DEF ThrSchedule
  <2> HIDE DEF f
  <2> QED BY <2>1, DispatchListed
<1>2. CASE ~(s.curr \in Thread /\ s.state[s.curr] = "DYING")
  BY <1>2, DispatchListed DEF ThrSchedule
<1> QED BY <1>1, <1>2

\* So does the check at the end of an interrupt, where it schedules or the idle
\* task was right to run.
LEMMA CheckListed ==
  ASSUME NEW s, Sane(s), Listed(s), IdleFits(s) \/ (s.curr = Idle /\ s.need), NEW t
  PROVE  /\ Listed(ReschedCheck(s)) /\ IdleFits(ReschedCheck(s))
         /\ IdleFits(s) => Listed(Return(s, t)) /\ IdleFits(Return(s, t))
<1>1. Listed(ReschedCheck(s)) /\ IdleFits(ReschedCheck(s))
  BY ScheduleListed DEF ReschedCheck, PreemptCanSchedule
<1> QED BY <1>1 DEF Return

\* A change that leaves the places as they are and frees nobody keeps the list.
LEMMA SameListed ==
  ASSUME NEW s, NEW k1, Listed(s), k1.pos = s.pos,
         \A u \in Thread : k1.state[u] = "FREE" <=> s.state[u] = "FREE"
  PROVE  Listed(k1)
BY DEF Listed, Places, Linked

\* ThrReleaseThread.
LEMMA ReleaseListed ==
  ASSUME NEW s, Sane(s), Listed(s), s.curr \in Thread, NEW t \in Thread
  PROVE  LET k1 == ThrReleaseThread(s, t) IN Listed(k1) /\ IdleFits(k1)
<1> DEFINE rf == [s.refs EXCEPT ![t] = @ - 1]
           k0 == [s EXCEPT !.refs = rf]
           k1 == ThrReleaseThread(s, t)
<1>1. rf \in [Thread -> Int] /\ ThrReleaseThread(s, t) = IF k0.refs[t] <= 0 THEN ThrFreeThread(k0, t) ELSE k0
  BY DEF ThrReleaseThread, Sane, KernelState
<1> HIDE DEF rf
<1>2. /\ k0 \in KernelState /\ k0.pos = s.pos /\ k0.state = s.state /\ k0.curr = s.curr
      /\ k0.quantums = s.quantums /\ k0.priority = s.priority
  BY <1>1, ZenonT(30) DEF Sane, KernelState
<1> HIDE DEF k0
<1>3. Sane(k0) /\ Listed(k0) /\ k0.curr # Idle
  BY <1>2, SameListed, ThreadAssumption DEF Sane, Bounded
<1>4. IdleFits(k0)
  BY <1>3 DEF IdleFits
<1>5. CASE k0.refs[t] > 0 \/ (k0.refs[t] <= 0 /\ k0.state[t] = "FREE")
  <2> DEFINE h == [k0 EXCEPT !.halted = TRUE]
  <2>1. h.pos = k0.pos /\ h.state = k0.state /\ h.curr = k0.curr
    BY <1>2 DEF KernelState
  <2>2. k1 = k0 \/ k1 = h
    <3>1. k0.refs[t] > 0 => ~(k0.refs[t] <= 0)
      BY <1>2 DEF KernelState
    <3> QED BY <1>1, <1>5, <3>1, Zenon DEF ThrFreeThread
  <2> HIDE DEF h, k1
  <2>3. Listed(h) /\ IdleFits(h)
    BY <1>3, <2>1, SameListed DEF IdleFits
  <2> QED BY <1>3, <1>4, <2>2, <2>3 DEF k1
<1>6. CASE k0.refs[t] <= 0 /\ k0.state[t] # "FREE"
  <2> DEFINE f == FreeStruct(k0, t)
  <2>1. /\ Sane(f) /\ Listed(f)
        /\ f.curr = IF k0.curr = t THEN NULL ELSE k0.curr
    BY <1>3, FreeStructSane, FreeListed
  <2>2. k1 = IF t = k0.curr THEN Dispatch(f) ELSE f
    BY <1>1, <1>6, ThreadAssumption DEF ThrFreeThread
  <2> HIDE DEF f, k1
  <2>3. t # k0.curr => IdleFits(f)
    BY <1>3, <2>1 DEF IdleFits
  <2> QED BY <2>1, <2>2, <2>3, DispatchListed DEF k1
<1>7. k0.refs[t] > 0 \/ k0.refs[t] <= 0
  BY <1>2 DEF KernelState
<1> QED BY <1>5, <1>6, <1>7, Zenon

\* Waking threads: if the idle task runs, it is preempted at the check that
\* follows.
LEMMA ResumeListed ==
  ASSUME NEW s, Sane(s), Listed(s), IdleFits(s), NEW S \in SUBSET Thread
  PROVE  LET k1 == ThrResumeThreads(s, S)
         IN Listed(k1) /\ (IdleFits(k1) \/ (k1.curr = Idle /\ k1.need))
<1> DEFINE started == {t \in S : s.state[t] \in {"PAUSED", "DYING"}}
           k1 == ThrResumeThreads(s, S)
<1>1. Sane(k1) /\ SameThreads(s, k1)
  BY ResumeSane
<1>2. Listed(k1)
  BY <1>1, SameListed DEF SameThreads
<1>3. CASE s.curr = Idle /\ started # {}
  <2>1. \E t \in started : s.quantums[t] >= QuantumsOf(s, s.curr)
    BY <1>3 DEF QuantumsOf, Sane, KernelState
  <2>2. k1.need
    <3> HIDE DEF started
    <3> QED BY <2>1 DEF ThrResumeThreads, Sane, KernelState, started
  <2> QED BY <1>1, <1>2, <1>3, <2>2 DEF SameThreads
<1>4. CASE s.curr = Idle /\ started = {}
  <2>1. k1.state = [t \in Thread |-> IF t \in started THEN "RUNNING" ELSE s.state[t]]
    BY DEF ThrResumeThreads, Sane, KernelState
  <2>2. \A t \in Thread : k1.state[t] = s.state[t]
    BY <1>4, <2>1
  <2> HIDE DEF k1
  <2> QED BY <1>2, <1>4, <2>2 DEF IdleFits, k1
<1>5. CASE s.curr # Idle
  BY <1>1, <1>2, <1>5 DEF SameThreads, IdleFits
<1> QED BY <1>3, <1>4, <1>5

\* ThrProcessExit unlinks the threads that it frees.
LEMMA KillListed ==
  ASSUME NEW s, Sane(s), Listed(s), NEW S \in SUBSET Linked(s)
  PROVE  Listed(KillThreads(s, S))
<1> DEFINE dead == {t \in S : s.refs[t] <= 1}
           a == ThrArchDestroyThreads(s, S)
           r == ThreadListRemove(a, dead)
           k1 == KillThreads(s, S)
<1>1. a \in KernelState /\ a.pos = s.pos
  BY DEF ThrArchDestroyThreads, Sane, KernelState
<1>2. r \in KernelState /\ Places(r)
  <2> HIDE DEF a, dead
  <2>1. Places(a)
    BY <1>1 DEF Listed, Places, Linked
  <2> QED BY <1>1, <2>1, RemoveType, RemovePlaces
<1>3. k1.pos = r.pos
  <2> HIDE DEF a, r
  <2> QED BY <1>2 DEF KillThreads, KernelState, a, r
<1>4. S \in SUBSET Thread
  BY DEF Linked
<1>5. \A u \in Thread :
        /\ u \in dead => k1.state[u] = "FREE"
        /\ u \in S \ dead => k1.state[u] = "DYING"
        /\ u \notin S => k1.state[u] = s.state[u]
        /\ k1.pos[u] = 0 <=> u \in dead \/ s.pos[u] = 0
  BY <1>4, KillSane
<1> HIDE DEF r, k1, dead
<1>6. Places(k1)
  BY <1>2, <1>3 DEF Places, Linked
<1>7. \A u \in Thread : k1.pos[u] = 0 <=> k1.state[u] = "FREE"
  BY <1>5 DEF Listed, Linked, dead
<1> QED BY <1>6, <1>7 DEF Listed, k1

\* SysCreateThread links the thread it creates.
LEMMA CreateListed ==
  ASSUME NEW s, Sane(s), Listed(s), NEW n \in Thread, s.state[n] = "FREE"
  PROVE  Listed(ThrStartThread(ThrCreateThread(s, n), n))
<1> DEFINE s0 == [s EXCEPT !.refs[n] = 1, !.priority[n] = PRIORITY_DEFAULT,
                           !.state[n] = "PAUSED", !.preemptCount[n] = 0]
           a == ThrCreateThread(s, n)
           s1 == ThrStartThread(a, n)
<1>1. /\ s0.pos = s.pos /\ s0.state = [s.state EXCEPT ![n] = "PAUSED"]
      /\ DOMAIN s0 = DOMAIN s
  BY DEF Sane, KernelState
<1>2. a = [s0 EXCEPT !.pos[n] = Cardinality(Linked(s0)) + 1]
  BY DEF ThrCreateThread, ThreadListAdd
<1> HIDE DEF s0
<1>3. /\ a.pos = [s.pos EXCEPT ![n] = Cardinality(Linked(s)) + 1]
      /\ a.state = [s.state EXCEPT ![n] = "PAUSED"] /\ DOMAIN a = DOMAIN s
  BY <1>1, <1>2 DEF Sane, KernelState, Linked
<1> HIDE DEF a
<1>4. s1.pos = a.pos /\ s1.state = [s.state EXCEPT ![n] = "RUNNING"]
  BY <1>3 DEF ThrStartThread, Sane, KernelState
<1> HIDE DEF s1
<1>5. s.pos[n] = 0
  BY DEF Listed
<1>6. Places(s1)
  BY <1>3, <1>4, <1>5, AddPlaces DEF Sane, Listed
<1>7. Cardinality(Linked(s)) \in Nat
  BY CardinalityOfThreads DEF Linked
<1>8. \A u \in Thread : s1.pos[u] = 0 <=> s1.state[u] = "FREE"
  BY <1>3, <1>4, <1>7 DEF Listed, Sane, KernelState
<1> QED BY <1>6, <1>8 DEF Listed, s1, a

----------------------------------------------------------------------------
(* The steps of Threads.                                                   *)

\* A step to a state in which the invariant holds, or to the end of a call or
\* an interrupt from there.
LEMMA EndListed ==
  ASSUME NEW k1, Sane(k1), Listed(k1), IdleFits(k1) \/ (k1.curr = Idle /\ k1.need), NEW t,
         \/ (k' = k1 \/ k' = Return(k1, t)) /\ IdleFits(k1)
         \/ k' = ReschedCheck(k1)
  PROVE  LInv'
BY CheckListed DEF LInv

\* A step of the current thread that frees nobody and changes no place.
LEMMA QuietListed ==
  ASSUME IInv, LInv, NEW t \in Thread, k.curr = t,
         NEW k1, Sane(k1), k1.curr = k.curr, k1.pos = k.pos,
         \A u \in Thread : k1.state[u] = "FREE" <=> k.state[u] = "FREE",
         k' = k1 \/ k' = Return(k1, t) \/ k' = ReschedCheck(k1)
  PROVE  LInv'
<1>1. IdleFits(k1)
  BY ThreadAssumption DEF IdleFits
<1>2. Listed(k1)
  BY SameListed DEF LInv
<1> QED BY <1>1, <1>2, EndListed

\* Interrupts.
LEMMA IrqListed ==
  ASSUME IInv, LInv, PitIrq \/ \E number \in {0, 1} : DeviceIrq(number)
  PROVE  LInv'
<1>1. CASE PitIrq
  <2> DEFINE k1 == PitInterrupt(k)
  <2>1. Sane(k1) /\ SameThreads(k, k1) /\ k1.state = k.state
    BY PitSane DEF IInv
  <2>2. k' = ReschedCheck(k1)
    BY <1>1 DEF PitIrq, Step
  <2> HIDE DEF k1
  <2>3. Listed(k1) /\ IdleFits(k1)
    BY <2>1, SameListed DEF LInv, IdleFits, SameThreads
  <2> QED BY <2>1, <2>2, <2>3, EndListed
<1>2. CASE \E number \in {0, 1} : DeviceIrq(number)
  <2>1. PICK number \in {0, 1} : DeviceIrq(number)
    BY <1>2
  <2> DEFINE k1 == ThrResumeThreads(k, Woken(number))
  <2>2. Woken(number) \in SUBSET Thread
    BY QueueType DEF IInv
  <2>3. Sane(k1)
    BY <2>2, ResumeSane DEF IInv
  <2>4. Listed(k1) /\ (IdleFits(k1) \/ (k1.curr = Idle /\ k1.need))
    BY <2>2, ResumeListed DEF IInv, LInv
  <2>5. k' = ReschedCheck(k1)
    BY <2>1 DEF DeviceIrq, WakeUpCommon, Step
  <2> HIDE DEF k1
  <2> QED BY <2>3, <2>4, <2>5, EndListed
<1> QED BY <1>1, <1>2

\* The calls that concern the current thread alone.
LEMMA OwnListed ==
  ASSUME IInv, LInv, NEW t \in Thread,
         \/ FpuTrap(t) \/ SysYield(t) \/ ThrEndWait(t) \/ PreemptDisable(t) \/ PreemptEnable(t)
         \/ \E p \in Priorities : SetPriority(t, p)
  PROVE  LInv'
<1>0. k.curr = t /\ Sane(k)
  BY DEF IInv, FpuTrap, SysYield, ThrEndWait, PreemptDisable, PreemptEnable, SetPriority, Call, At
<1> USE DEF Step
<1>1. CASE FpuTrap(t)
  <2> DEFINE k1 == FpuNotAvailable(k)
  <2>1. /\ k1 \in KernelState /\ k1.curr = k.curr /\ k1.pos = k.pos /\ k1.state = k.state
        /\ k1.quantums = k.quantums /\ k1.priority = k.priority
    BY <1>0, ZenonT(30) DEF FpuNotAvailable, Sane, KernelState
  <2>2. k' = ReschedCheck(k1)
    BY <1>1 DEF FpuTrap
  <2> HIDE DEF k1
  <2>3. Sane(k1)
    BY <1>0, <2>1 DEF Sane, Bounded
  <2> QED BY <1>0, <2>1, <2>2, <2>3, QuietListed
<1>2. CASE SysYield(t) \/ ThrEndWait(t)
  <2> DEFINE qu == [k.quantums EXCEPT ![t] = 0]
             k1 == [k EXCEPT !.quantums = qu, !.need = TRUE]
  <2>1. qu \in [Thread -> Nat] /\ \A u \in Thread : qu[u] = 0 \/ qu[u] = k.quantums[u]
    BY <1>0 DEF Sane, KernelState
  <2>2. k' = k1 \/ k' = Return(k1, t)
    BY <1>0, <1>2 DEF SysYield, ThrEndWait, Sane, KernelState
  <2> HIDE DEF qu
  <2>3. /\ k1 \in KernelState /\ k1.curr = k.curr /\ k1.pos = k.pos /\ k1.state = k.state
        /\ k1.quantums = qu /\ k1.priority = k.priority
    BY <1>0, <2>1, ZenonT(30) DEF Sane, KernelState
  <2> HIDE DEF k1
  <2>4. Sane(k1)
    BY <1>0, <2>1, <2>3, ThreadAssumption DEF Sane, Bounded, KernelState
  <2> QED BY <1>0, <2>2, <2>3, <2>4, QuietListed
<1>3. CASE PreemptDisable(t) \/ PreemptEnable(t)
  <2>1. PICK pe : /\ pe \in [Thread -> Nat]
                  /\ LET k1 == [k EXCEPT !.preemptCount = pe] IN k' = k1 \/ k' = Return(k1, t)
    <3>1. CASE PreemptDisable(t)
      <4> DEFINE pe == [k.preemptCount EXCEPT ![t] = @ + 1]
      <4>1. pe \in [Thread -> Nat]
        BY <1>0 DEF Sane, KernelState
      <4>2. k' = [k EXCEPT !.preemptCount = pe]
        BY <1>0, <3>1 DEF PreemptDisable, Sane, KernelState
      <4> HIDE DEF pe
      <4> QED BY <4>1, <4>2
    <3>2. CASE PreemptEnable(t)
      <4> DEFINE pe == [k.preemptCount EXCEPT ![t] = @ - 1]
      <4>1. pe \in [Thread -> Nat]
        <5>1. k.preemptCount[t] > 0 /\ k.preemptCount \in [Thread -> Nat]
          BY <1>0, <3>2 DEF PreemptEnable, At, IInv, Sane, KernelState
        <5> QED BY <5>1
      <4>2. k' = Return([k EXCEPT !.preemptCount = pe], t)
        BY <1>0, <3>2 DEF PreemptEnable, Sane, KernelState
      <4> HIDE DEF pe
      <4> QED BY <4>1, <4>2
    <3> QED BY <1>3, <3>1, <3>2
  <2> DEFINE k1 == [k EXCEPT !.preemptCount = pe]
  <2>2. /\ k1 \in KernelState /\ k1.curr = k.curr /\ k1.pos = k.pos /\ k1.state = k.state
        /\ k1.quantums = k.quantums /\ k1.priority = k.priority
    BY <1>0, <2>1, ZenonT(30) DEF Sane, KernelState
  <2>3. k' = k1 \/ k' = Return(k1, t)
    BY <2>1
  <2> HIDE DEF k1
  <2>4. Sane(k1)
    BY <1>0, <2>2 DEF Sane, Bounded
  <2> QED BY <1>0, <2>2, <2>3, <2>4, QuietListed
<1>4. CASE \E p \in Priorities : SetPriority(t, p)
  <2>1. PICK p \in Priorities : SetPriority(t, p)
    BY <1>4
  <2> DEFINE k1 == ThrSetPriority(k, t, p)
  <2>2. k' = k1 /\ k1.pos = k.pos /\ k1.state = k.state /\ k1.curr = k.curr
    BY <1>0, <2>1 DEF SetPriority, ThrSetPriority, Sane, KernelState
  <2> HIDE DEF k1
  <2>3. Listed(k1) /\ IdleFits(k1)
    BY <2>2, SameListed DEF LInv, IdleFits
  <2> QED BY <2>2, <2>3 DEF LInv
<1> QED BY <1>1, <1>2, <1>3, <1>4

\* Waits, and calls that wake threads.
LEMMA WaitListed ==
  ASSUME IInv, LInv, NEW t \in Thread,
         \/ WaitOn(t) \/ SleepOn(t) \/ WaitPrepareWait(t) \/ WaitTest(t) \/ WaitFinishWait(t)
         \/ WaitSuspend(t) \/ WaitRelease(t)
         \/ \E u \in Thread : SysResumeThread(t, u)
         \/ \E number \in {0, 1} : WakeUp(t, number)
  PROVE  LInv'
<1>0. k.curr = t /\ Sane(k) /\ Listed(k) /\ IdleFits(k)
  BY DEF IInv, LInv, WaitOn, SleepOn, WaitPrepareWait, WaitTest, WaitFinishWait, WaitSuspend,
         WaitRelease, SysResumeThread, WakeUp, Call, At
<1>1. CASE \/ WaitOn(t) \/ SleepOn(t) \/ WaitPrepareWait(t) \/ WaitTest(t) \/ WaitFinishWait(t)
  <2>1. k' = k \/ k' = ThrGetThread(k, t)
    BY <1>1 DEF WaitOn, SleepOn, WaitPrepareWait, WaitTest, WaitFinishWait, Step
  <2> DEFINE k1 == ThrGetThread(k, t)
  <2>2. Sane(k1) /\ SameThreads(k, k1) /\ k1.state = k.state
    BY <1>0, GetSane, ZenonT(30)
  <2> HIDE DEF k1
  <2>3. k' = k => LInv'
    BY <1>0 DEF LInv
  <2>4. k' = k1 => LInv'
    BY <1>0, <2>2, QuietListed DEF SameThreads
  <2> QED BY <2>1, <2>3, <2>4 DEF k1
<1>2. CASE WaitSuspend(t)
  <2> DEFINE k1 == ThrSuspendThread(k, t)
  <2>1. Sane(k1) /\ SameThreads(k, k1)
    BY <1>0, SuspendSane
  <2>2. k' = ThrSchedule(k1)
    BY <1>2 DEF WaitSuspend, Step
  <2> HIDE DEF k1
  <2>3. Listed(k1)
    BY <1>0, <2>1, SameListed DEF SameThreads
  <2> QED BY <2>1, <2>2, <2>3, ScheduleListed DEF LInv
<1>3. CASE WaitRelease(t)
  <2> DEFINE k1 == ThrReleaseThread(k, t)
  <2>1. Listed(k1) /\ IdleFits(k1)
    BY <1>0, ReleaseListed
  <2>2. Sane(k1)
    BY <1>0, ReleaseSane, ZenonT(30) DEF FpuLeaving, IInv
  <2>3. k' = k1 \/ k' = Return(k1, t)
    BY <1>3 DEF WaitRelease, Step
  <2> HIDE DEF k1
  <2> QED BY <2>1, <2>2, <2>3, EndListed
<1>4. CASE \/ \E u \in Thread : SysResumeThread(t, u)
           \/ \E number \in {0, 1} : WakeUp(t, number)
  <2>1. PICK S \in SUBSET Thread : k' = Return(ThrResumeThreads(k, S), t)
    <3>1. CASE \E u \in Thread : SysResumeThread(t, u)
      <4>1. PICK u \in Thread : SysResumeThread(t, u)
        BY <3>1
      <4>2. {u} \in SUBSET Thread
        OBVIOUS
      <4> QED BY <4>1, <4>2 DEF SysResumeThread, Step
    <3>2. CASE \E number \in {0, 1} : WakeUp(t, number)
      BY <3>2, QueueType DEF WakeUp, WakeUpCommon, IInv, Step
    <3> QED BY <1>4, <3>1, <3>2
  <2> DEFINE k1 == ThrResumeThreads(k, S)
  <2>2. Sane(k1) /\ SameThreads(k, k1)
    BY <1>0, ResumeSane
  <2>3. k' = Return(k1, t)
    BY <2>1
  <2> HIDE DEF k1
  <2> QED BY <1>0, <2>2, <2>3, QuietListed DEF SameThreads
<1> QED BY <1>1, <1>2, <1>3, <1>4

\* Suspending another thread, and giving its reference back.
LEMMA SuspendListed ==
  ASSUME IInv, LInv, NEW t \in Thread,
         SuspendReturn(t) \/ \E u \in Thread : SysSuspendThread(t, u)
  PROVE  LInv'
<1>0. k.curr = t /\ Sane(k) /\ Listed(k)
  BY DEF IInv, LInv, SuspendReturn, SysSuspendThread, Call, At
<1>1. CASE SuspendReturn(t)
  <2> DEFINE k1 == ThrReleaseThread(k, arg[t])
  <2>1. arg[t] \in Thread
    BY <1>1 DEF SuspendReturn, At, IInv
  <2>2. Listed(k1) /\ IdleFits(k1)
    BY <1>0, <2>1, ReleaseListed
  <2>3. Sane(k1)
    BY <1>0, <2>1, ReleaseSane, ZenonT(30) DEF FpuLeaving, IInv
  <2>4. k' = k1 \/ k' = Return(k1, t)
    BY <1>1 DEF SuspendReturn, Step
  <2> HIDE DEF k1
  <2> QED BY <2>2, <2>3, <2>4, EndListed
<1>2. CASE \E u \in Thread : SysSuspendThread(t, u)
  <2>1. PICK u \in Thread : SysSuspendThread(t, u)
    BY <1>2
  <2> DEFINE k0 == ThrGetThread(k, u)
             k1 == ThrSuspendThread(k0, u)
  <2>2. Sane(k0) /\ SameThreads(k, k0)
    BY <1>0, GetSane, ZenonT(30)
  <2>3. k' = ThrSchedule(k1)
    BY <2>1 DEF SysSuspendThread, Step
  <2> HIDE DEF k0
  <2>4. Sane(k1) /\ SameThreads(k0, k1)
    BY <2>2, SuspendSane
  <2> HIDE DEF k1
  <2>5. Listed(k1)
    BY <1>0, <2>2, <2>4, SameListed DEF SameThreads
  <2> QED BY <2>3, <2>4, <2>5, ScheduleListed DEF LInv
<1> QED BY <1>1, <1>2

\* Threads and processes that come and go.
LEMMA LifeListed ==
  ASSUME Inv, LInv, NEW t \in Thread,
         \/ ThrDoExitThread(t) \/ ExitRelease(t) \/ ThrProcessExit(t)
         \/ \E n \in Thread : SysCreateThread(t, n)
  PROVE  LInv'
<1>0. k.curr = t /\ Sane(k) /\ Listed(k) /\ IInv /\ Fpu(k)
  BY DEF Inv, IInv, LInv, ThrDoExitThread, ExitRelease, ThrProcessExit, SysCreateThread, Call, At
<1>1. CASE ThrDoExitThread(t)
  <2> DEFINE k1 == [k EXCEPT !.state[t] = "DYING"]
  <2>1. /\ k1.pos = k.pos /\ k1.curr = k.curr /\ k1.state = [k.state EXCEPT ![t] = "DYING"]
        /\ k' = k1
    BY <1>0, <1>1 DEF ThrDoExitThread, Step, Sane, KernelState
  <2> HIDE DEF k1
  <2>2. k.state[t] # "FREE"
    BY <1>0, ThreadAssumption DEF IInv, CurrentIsRunnable
  <2>3. \A u \in Thread : k1.state[u] = "FREE" <=> k.state[u] = "FREE"
    BY <1>0, <2>1, <2>2 DEF Sane, KernelState
  <2>4. Listed(k1) /\ IdleFits(k1)
    BY <1>0, <2>1, <2>3, SameListed, ThreadAssumption DEF IdleFits
  <2> QED BY <2>1, <2>4 DEF LInv
<1>2. CASE ExitRelease(t)
  <2> DEFINE k1 == ThrReleaseThread(k, t)
             k2 == ThrArchDestroyThreads(k1, {t})
  <2>1. Listed(k1) /\ IdleFits(k1)
    BY <1>0, ReleaseListed
  <2>2. Sane(k1)
    BY <1>0, ReleaseSane, ZenonT(30) DEF FpuLeaving, IInv
  <2>3. k' = k1 \/ k' = ThrSchedule(k2)
    BY <1>2 DEF ExitRelease, Step
  <2> HIDE DEF k1
  <2>4. /\ k2 \in KernelState /\ k2.pos = k1.pos /\ k2.state = k1.state
        /\ k2.quantums = k1.quantums /\ k2.priority = k1.priority
    BY <2>2 DEF ThrArchDestroyThreads, Sane, KernelState
  <2> HIDE DEF k2
  <2>5. Sane(k2) /\ Listed(k2)
    BY <2>1, <2>2, <2>4, SameListed DEF Sane, Bounded
  <2> QED BY <2>1, <2>3, <2>5, ScheduleListed DEF LInv
<1>3. CASE ThrProcessExit(t)
  <2> DEFINE k0 == ThrGetThread(k, t)
             S == User \cap Linked(k)
             k1 == KillThreads(k0, S)
  <2>1. Sane(k0) /\ SameThreads(k, k0)
    BY <1>0, GetSane, ZenonT(30)
  <2>2. k' = ThrSchedule(k1)
    BY <1>3 DEF ThrProcessExit, Step
  <2> HIDE DEF k0
  <2>3. S \in SUBSET Linked(k0) /\ S \in SUBSET Thread
    BY <2>1 DEF SameThreads, Linked
  <2>4. Listed(k0)
    BY <1>0, <2>1, SameListed DEF SameThreads
  <2> HIDE DEF S
  <2>5. Sane(k1) /\ Listed(k1)
    BY <2>1, <2>3, <2>4, KillSane, KillListed
  <2> HIDE DEF k1
  <2> QED BY <2>2, <2>5, ScheduleListed DEF LInv
<1>4. CASE \E n \in Thread : SysCreateThread(t, n)
  <2>1. PICK n \in Thread : SysCreateThread(t, n)
    BY <1>4
  <2> DEFINE k1 == ThrStartThread(ThrCreateThread(k, n), n)
             k2 == IF k1.quantums[n] > k1.quantums[t] THEN ThrSchedule(k1) ELSE k1
  <2>2. k' = Return(k2, t) /\ k.state[n] = "FREE" /\ OnCpu(k)
    BY <1>0, <2>1, AtFacts DEF SysCreateThread, Call
  <2>3. Sane(k1) /\ Fpu(k1) /\ k1.curr = k.curr
    BY <1>0, <2>2, CreateSane, ZenonT(30)
  <2>4. Listed(k1)
    BY <1>0, <2>2, CreateListed
  <2> HIDE DEF k1
  <2>5. IdleFits(k1)
    BY <1>0, <2>3, ThreadAssumption DEF IdleFits
  <2>6. Sane(ThrSchedule(k1))
    BY <2>3, ScheduleSane, ZenonT(30) DEF FpuLeaving
  <2>7. Sane(k2) /\ Listed(k2) /\ IdleFits(k2)
    BY <2>3, <2>4, <2>5, <2>6, ScheduleListed
  <2> HIDE DEF k2
  <2> QED BY <2>2, <2>7, EndListed
<1> QED BY <1>1, <1>2, <1>3, <1>4

----------------------------------------------------------------------------
(* The invariant.                                                          *)

\* The threads of Boot are listed in their order.
LEMMA BootPlaces ==
  ASSUME NEW s, s.pos = [t \in Thread |-> IF InBoot(t)
                                          THEN CHOOSE i \in DOMAIN Boot : Boot[i] = t ELSE 0]
  PROVE  Places(s)
<1> DEFINE n == Len(Boot)
           L == {t \in Thread : InBoot(t)}
           at(t) == CHOOSE i \in DOMAIN Boot : Boot[i] = t
<1>1. n \in Nat /\ DOMAIN Boot = 1 .. n /\ \A i \in 1 .. n : Boot[i] \in Thread
  BY EnvAssumption
<1>2. \A t \in L : at(t) \in DOMAIN Boot /\ Boot[at(t)] = t
  BY DEF InBoot
<1>3. \A t \in L : s.pos[t] = at(t)
  OBVIOUS
<1>4. \A t \in L : s.pos[t] \in 1 .. n /\ Boot[s.pos[t]] = t
  <2> HIDE DEF L, at
  <2> QED BY <1>1, <1>2, <1>3, Zenon
<1>5. \A t \in Thread \ L : s.pos[t] = 0
  OBVIOUS
<1> HIDE DEF at
<1>6. Linked(s) = L
  BY <1>1, <1>4, <1>5 DEF Linked
<1>7. \A i \in 1 .. n : \E t \in L : s.pos[t] = i
  <2> SUFFICES ASSUME NEW i \in 1 .. n PROVE \E t \in L : s.pos[t] = i
    OBVIOUS
  <2>1. Boot[i] \in L
    BY <1>1 DEF InBoot
  <2>2. s.pos[Boot[i]] = i
    BY <1>1, <1>4, <2>1, EnvAssumption
  <2> QED BY <2>1, <2>2
<1>8. \A t, u \in L : s.pos[t] = s.pos[u] => t = u
  BY <1>4
<1> DEFINE h == [t \in L |-> s.pos[t]]
<1>9. h \in Injection(L, 1 .. n) /\ h \in Surjection(L, 1 .. n)
  <2> HIDE DEF L, n
  <2> QED BY <1>4, <1>7, <1>8 DEF Injection, Surjection, IsInjective
<1>10. Cardinality(L) = n
  <2>1. IsFiniteSet(1 .. n) /\ Cardinality(1 .. n) = n
    BY <1>1, FS_Interval
  <2> HIDE DEF h, L, n
  <2> QED BY <1>9, <2>1, FS_Injection
<1>11. {s.pos[t] : t \in L} = 1 .. n
  <2>1. \A t \in L : s.pos[t] \in 1 .. n
    BY <1>4
  <2>2. PICK g : g = s.pos
    OBVIOUS
  <2> HIDE DEF L, n
  <2>3. (\A t \in L : g[t] \in 1 .. n) /\ \A i \in 1 .. n : \E t \in L : g[t] = i
    BY <1>7, <2>1, <2>2, Zenon
  <2>4. {g[t] : t \in L} = 1 .. n
    BY <2>3
  <2> QED BY <2>2, <2>4
<1> QED BY <1>6, <1>8, <1>10, <1>11 DEF Places

\* The machine boots with an exact list.
LEMMA InitListed == Init => LInv
<1> SUFFICES ASSUME Init PROVE LInv
  OBVIOUS
<1> DEFINE b == [ state |-> [t \in Thread |-> IF InBoot(t) THEN "RUNNING" ELSE "FREE"],
                  refs |-> [t \in Thread |-> IF InBoot(t) THEN 1 ELSE 0],
                  quantums |-> [t \in Thread |-> 0],
                  priority |-> [t \in Thread |-> IF InBoot(t) THEN PRIORITY_DEFAULT ELSE 0],
                  preemptCount |-> [t \in Thread |-> 0],
                  pos |-> [t \in Thread |-> IF InBoot(t)
                                            THEN CHOOSE i \in DOMAIN Boot : Boot[i] = t ELSE 0],
                  curr |-> Idle, need |-> FALSE, nrRunning |-> Len(Boot),
                  lastMath |-> NULL, ts |-> FALSE, halted |-> FALSE ]
<1>1. b \in KernelState
  <2>1. [t \in Thread |-> IF InBoot(t)
                          THEN CHOOSE i \in DOMAIN Boot : Boot[i] = t ELSE 0] \in [Thread -> Nat]
    BY EnvAssumption DEF InBoot
  <2>2. Len(Boot) \in Int
    BY EnvAssumption
  <2> QED BY <2>1, <2>2, ThreadAssumption DEF KernelState, ThreadStates
<1>2. Sane(b)
  <2>1. \A t \in Thread : b.quantums[t] = 0 /\ b.priority[t] \in {0, PRIORITY_DEFAULT}
    OBVIOUS
  <2> HIDE DEF b
  <2> QED BY <1>1, <2>1, ThreadAssumption DEF Sane, Bounded
<1>3. \A t \in Thread : b.pos[t] = 0 <=> b.state[t] = "FREE"
  BY EnvAssumption DEF InBoot
<1>4. Places(b)
  BY BootPlaces
<1>5. k = Dispatch(b)
  BY DEF Init
<1> HIDE DEF b
<1> QED BY <1>2, <1>3, <1>4, <1>5, DispatchListed DEF Listed, LInv

\* Every step keeps the list exact and the idle task idle only if it must be.
LEMMA NextListed == Inv /\ LInv /\ [Next]_vars => LInv'
<1> SUFFICES ASSUME Inv, LInv, [Next]_vars PROVE LInv'
  OBVIOUS
<1>0. IInv
  BY DEF Inv
<1>1. ASSUME NEW t \in Thread, KernelStep(t) PROVE LInv'
  BY <1>0, <1>1, SuspendListed, LifeListed, OwnListed, WaitListed DEF KernelStep
<1>2. ASSUME NEW t \in Thread, CallStep(t) PROVE LInv'
  <2>1. CASE NotReady(t)
    <3>1. k' = k
      BY <2>1 DEF NotReady
    <3> QED BY <3>1 DEF LInv
  <2>2. CASE \/ \E n \in Thread : SysCreateThread(t, n) \/ SysSuspendThread(t, n)
             \/ ThrDoExitThread(t) \/ ThrProcessExit(t)
    BY <1>0, <2>2, LifeListed, SuspendListed
  <2>3. CASE \/ FpuTrap(t) \/ SysYield(t) \/ PreemptDisable(t)
             \/ \E p \in Priorities : SetPriority(t, p)
    BY <1>0, <2>3, OwnListed
  <2>4. CASE \/ WaitOn(t) \/ SleepOn(t)
             \/ \E n \in Thread : SysResumeThread(t, n)
             \/ \E number \in {0, 1} : WakeUp(t, number)
    BY <1>0, <2>4, WaitListed
  <2> QED BY <1>2, <2>1, <2>2, <2>3, <2>4 DEF CallStep
<1>3. ASSUME PitIrq \/ \E number \in {0, 1} : DeviceIrq(number) PROVE LInv'
  BY <1>0, <1>3, IrqListed
<1>4. ASSUME UNCHANGED vars PROVE LInv'
  <2>1. k' = k
    BY <1>4 DEF vars
  <2> QED BY <2>1 DEF LInv
<1> QED BY <1>1, <1>2, <1>3, <1>4 DEF Next

\* The invariant of the list holds always.
THEOREM ListInvariance == Spec => []LInv
BY InitListed, NextListed, Invariance, PTL DEF Spec

\* threadList always holds exactly the live threads, at places 1, 2, ...: every
\* ListAddTail and ListRemove of the scheduler is matched with the change of
\* state that goes with it, whatever calls the threads make.
THEOREM ThreadListExactAlways == Spec => []ThreadListExact
<1>1. LInv => ThreadListExact
  BY DEF LInv, Listed, Places, ThreadListExact
<1> QED BY <1>1, ListInvariance, PTL

\* The CPU idles only when no thread could run: ThrChooseNewThread finds one if
\* there is one, and waking a thread always preempts the idle task.
THEOREM IdleOnlyWhenNothingRunsAlways == Spec => []IdleOnlyWhenNothingRuns
<1>1. LInv => IdleOnlyWhenNothingRuns
  BY DEF LInv, IdleFits, IdleOnlyWhenNothingRuns
<1> QED BY <1>1, ListInvariance, PTL
=============================================================================
