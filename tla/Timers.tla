------------------------------- MODULE Timers -------------------------------
(***************************************************************************)
(* Kernel timers: the list of kernel/timer.c, in which every timer keeps   *)
(* the time that is left after the one before it has expired, and Sleep,   *)
(* which suspends a thread until its timer resumes it.                     *)
(*                                                                         *)
(*   queue    timerList, as a sequence of timers                           *)
(*   expires  the field of struct Timer: milliseconds                      *)
(*   sleepAt  where the owner of a timer is inside Sleep: "run" outside,   *)
(*            "added" after TimerAdd, "asleep" after ThrSuspendThread,     *)
(*            "gone" after its process has exited; a Driver stays "run"    *)
(*   threadState  the state of the owner                                   *)
(*   left     history: the milliseconds still to pass of what was asked    *)
(*            for when the timer was added                                 *)
(*   missed   history: the timer fired before its owner was suspended      *)
(*   adds     number of timers added, bounded by MaxAdds                   *)
(*                                                                         *)
(* SpinLockIrq makes TimerAdd and TimerRemove single steps.                *)
(***************************************************************************)
EXTENDS Integers, Sequences, FiniteSetsExt, SequencesExt

CONSTANTS
  Sleeper,    \* threads that call Sleep, each with a timer on its stack
  Driver,     \* timers of drivers
  Durations,  \* milliseconds that are asked for
  TICK,       \* milliseconds between two timer interrupts
  MaxAdds     \* bound on TimerAdd

Timer == Sleeper \cup Driver

ASSUME TimerAssumption ==
  /\ Sleeper \cap Driver = {}
  /\ Durations \subseteq Nat
  /\ TICK \in Nat \ {0}
  /\ MaxAdds \in Nat

VARIABLES queue, expires, sleepAt, threadState, left, missed, adds

timerVars == <<queue, expires, sleepAt, threadState, left, missed, adds>>

Queued(t) == t \in ToSet(queue)

TimersTypeOK ==
  /\ queue \in Seq(Timer) /\ IsInjective(queue)
  /\ expires \in [Timer -> Int]
  /\ sleepAt \in [Timer -> {"run", "added", "asleep", "gone"}]
  /\ threadState \in [Timer -> {"RUNNING", "PAUSED", "DYING"}]
  /\ left \in [Timer -> Nat]
  /\ missed \in [Timer -> BOOLEAN]
  /\ adds \in 0 .. MaxAdds

TimersInit ==
  /\ queue = <<>>
  /\ expires = [t \in Timer |-> 0]
  /\ sleepAt = [t \in Timer |-> "run"]
  /\ threadState = [t \in Timer |-> "RUNNING"]
  /\ left = [t \in Timer |-> 0]
  /\ missed = [t \in Timer |-> FALSE]
  /\ adds = 0

----------------------------------------------------------------------------
(* Where ms belongs in the list: before the first timer that does not      *)
(* expire earlier, comparing with the stored differences.                  *)
Place(ms) ==
  LET later == {i \in DOMAIN queue : expires[queue[i]] >= ms}
  IN IF later = {} THEN Len(queue) + 1 ELSE Min(later)

\* Mutant: the timer behind the new one keeps its own difference.
AddKeepingNext(t, ms) ==
  LET i == Place(ms)
      delta == IF i > 1 THEN ms - expires[queue[i - 1]] ELSE ms
  IN /\ queue' = InsertAt(queue, i, t)
     /\ expires' = [expires EXCEPT ![t] = delta]

TimerAdd(t, ms) ==
  LET i == Place(ms)
      delta == IF i > 1 THEN ms - expires[queue[i - 1]] ELSE ms
  IN /\ queue' = InsertAt(queue, i, t)
     /\ expires' = [u \in Timer |-> IF u = t THEN delta
                                    ELSE IF i <= Len(queue) /\ u = queue[i] THEN expires[u] - delta
                                    ELSE expires[u]]

\* Mutant: the time the removed timer still had is not given to the next.
RemoveDroppingTime(t) ==
  /\ queue' = Remove(queue, t)
  /\ UNCHANGED expires

\* TimerRemove of a timer that is not linked does nothing.
TimerRemove(t) ==
  LET i == CHOOSE j \in DOMAIN queue : queue[j] = t
  IN IF ~Queued(t) THEN UNCHANGED <<queue, expires>>
     ELSE /\ queue' = RemoveAt(queue, i)
          /\ expires' = IF expires[t] > 0 /\ i < Len(queue)
                        THEN [expires EXCEPT ![queue[i + 1]] = @ + expires[t]]
                        ELSE expires

Added(t, ms) ==
  /\ adds < MaxAdds
  /\ adds' = adds + 1
  /\ left' = [left EXCEPT ![t] = ms]
  /\ TimerAdd(t, ms)

----------------------------------------------------------------------------
\* Mutant: a driver adds a timer that is still in the list.
AddAttached(t) ==
  /\ t \in Driver
  /\ \E ms \in Durations : Added(t, ms)
  /\ UNCHANGED <<sleepAt, threadState, missed>>

\* A driver starts its timer; drivers keep one running timer at a time.
DriverAdd(t) ==
  /\ t \in Driver /\ ~Queued(t)
  /\ \E ms \in Durations : Added(t, ms)
  /\ UNCHANGED <<sleepAt, threadState, missed>>

DriverRemove(t) ==
  /\ t \in Driver
  /\ TimerRemove(t)
  /\ UNCHANGED <<sleepAt, threadState, left, missed, adds>>

\* Sleep up to the return of TimerAdd.
Sleep(t) ==
  /\ t \in Sleeper /\ sleepAt[t] = "run"
  /\ \E ms \in Durations : Added(t, ms)
  /\ sleepAt' = [sleepAt EXCEPT ![t] = "added"]
  /\ missed' = [missed EXCEPT ![t] = FALSE]
  /\ UNCHANGED threadState

\* ThrSuspendThread(currThread); ThrSchedule().
SleepSuspend(t) ==
  /\ sleepAt[t] = "added"
  /\ sleepAt' = [sleepAt EXCEPT ![t] = "asleep"]
  /\ threadState' = [threadState EXCEPT ![t] = "PAUSED"]
  /\ UNCHANGED <<queue, expires, left, missed, adds>>

\* Back from ThrSchedule: the timer, which is on the stack, is removed.
SleepReturn(t) ==
  /\ sleepAt[t] = "asleep" /\ threadState[t] = "RUNNING"
  /\ TimerRemove(t)
  /\ sleepAt' = [sleepAt EXCEPT ![t] = "run"]
  /\ UNCHANGED <<threadState, left, missed, adds>>

\* Another thread or an interrupt resumes a sleeper, as SysPoll's events do.
ThrResumeThread(t) ==
  /\ sleepAt[t] = "asleep" /\ threadState[t] = "PAUSED"
  /\ threadState' = [threadState EXCEPT ![t] = "RUNNING"]
  /\ UNCHANGED <<queue, expires, sleepAt, left, missed, adds>>

\* Mutant: an exiting process leaves the timers of its threads queued.
ExitWithTimer(t) ==
  /\ t \in Sleeper /\ sleepAt[t] # "gone"
  /\ sleepAt' = [sleepAt EXCEPT ![t] = "gone"]
  /\ threadState' = [threadState EXCEPT ![t] = "DYING"]
  /\ UNCHANGED <<queue, expires, left, missed, adds>>

\* The process of t exits, wherever t is: TimerThreadExit, and t is gone.
TimerThreadExit(t) ==
  /\ t \in Sleeper /\ sleepAt[t] # "gone"
  /\ TimerRemove(t)
  /\ sleepAt' = [sleepAt EXCEPT ![t] = "gone"]
  /\ threadState' = [threadState EXCEPT ![t] = "DYING"]
  /\ UNCHANGED <<left, missed, adds>>

\* Mutant: the timer leaves the list but its function is not called.
FireWithoutFunc ==
  LET t == Head(queue)
  IN /\ queue # <<>>
     /\ expires' = [expires EXCEPT ![t] = @ - TICK]
     /\ left' = [u \in Timer |-> IF left[u] > TICK THEN left[u] - TICK ELSE 0]
     /\ queue' = IF expires'[t] <= 0 THEN Tail(queue) ELSE queue
     /\ UNCHANGED <<sleepAt, threadState, missed, adds>>

\* Mutant: a timer that has nothing left to wait is passed over.
UpdateSkippingZero ==
  LET t == Head(queue)
      fires == expires[t] > 0 /\ expires[t] - TICK <= 0
  IN /\ queue # <<>>
     /\ expires' = [expires EXCEPT ![t] = IF @ > 0 THEN @ - TICK ELSE @]
     /\ left' = [u \in Timer |-> IF left[u] > TICK THEN left[u] - TICK ELSE 0]
     /\ queue' = IF fires THEN Tail(queue) ELSE queue
     /\ threadState' = IF fires /\ threadState[t] = "PAUSED" THEN [threadState EXCEPT ![t] = "RUNNING"] ELSE threadState
     /\ missed' = [missed EXCEPT ![t] = @ \/ (fires /\ sleepAt[t] = "added")]
     /\ UNCHANGED <<sleepAt, adds>>

\* One timer interrupt: only the head of the list is charged and may fire.
UpdateTimers ==
  LET t == Head(queue)
      fires == expires[t] - TICK <= 0
  IN /\ queue # <<>>
     /\ expires' = [expires EXCEPT ![t] = @ - TICK]
     /\ left' = [u \in Timer |-> IF left[u] > TICK THEN left[u] - TICK ELSE 0]
     /\ queue' = IF fires THEN Tail(queue) ELSE queue
     /\ threadState' = IF fires /\ threadState[t] = "PAUSED" THEN [threadState EXCEPT ![t] = "RUNNING"] ELSE threadState
     /\ missed' = [missed EXCEPT ![t] = @ \/ (fires /\ sleepAt[t] = "added")]
     /\ UNCHANGED <<sleepAt, adds>>

TimersNext ==
  \/ \E t \in Timer :
       \/ DriverAdd(t) \/ DriverRemove(t)
       \/ Sleep(t) \/ SleepSuspend(t) \/ SleepReturn(t)
       \/ ThrResumeThread(t) \/ TimerThreadExit(t)
  \/ UpdateTimers

TimersSpec == TimersInit /\ [][TimersNext]_timerVars

----------------------------------------------------------------------------
\* The times until the timers of the list q fire, if nothing is added or
\* removed: the sums of their differences e.
Times(q, e) ==
  LET sum[i \in 0 .. Len(q)] == IF i = 0 THEN 0 ELSE sum[i - 1] + e[q[i]]
  IN sum

Remaining(i) == Times(queue, expires)[i]

Due(t) == Remaining(CHOOSE i \in DOMAIN queue : queue[i] = t)

\* TimerAdd, TimerRemove and UpdateTimers together never let a timer fire
\* before the milliseconds it was given have passed.
NeverEarly == \A i \in DOMAIN queue : Remaining(i) >= left[queue[i]]

\* Adding or removing a timer moves no other timer: the times of the others,
\* sums over the list, stay what they were although their fields change.
OthersKeepTheirTime ==
  [][(\E t \in Timer : DriverAdd(t) \/ DriverRemove(t) \/ Sleep(t) \/ SleepReturn(t) \/ TimerThreadExit(t)) =>
       \A u \in Timer : Queued(u) /\ Queued(u)' => Due(u) = Due(u)']_timerVars

\* A timer in the list belongs to a driver or to a thread that is inside
\* Sleep: its memory, a stack, is still there.
QueuedTimerIsAlive == \A t \in Sleeper : Queued(t) => sleepAt[t] \in {"added", "asleep"}

\* A suspended sleeper has a timer to resume it, except if the timer fired
\* between TimerAdd and ThrSuspendThread.
SleeperHasTimer ==
  \A t \in Sleeper : sleepAt[t] = "asleep" /\ threadState[t] = "PAUSED" => Queued(t) \/ missed[t]

\* Every Sleep that is not overtaken by its own timer ends.
SleepEnds ==
  \A t \in Sleeper : sleepAt[t] \in {"added", "asleep"} ~> sleepAt[t] \in {"run", "gone"} \/ missed[t]
=============================================================================
