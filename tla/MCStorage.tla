----------------------------- MODULE MCStorage -----------------------------
(***************************************************************************)
(* What a read or write of a block rests on, for TLC: kernel timers, the   *)
(* requests to the drives of a controller, and the block cache.  As in     *)
(* MCMemory no action of one part reads or writes the variables of another *)
(* and each behaviour is that of one part, chosen at the start; the parts  *)
(* are not composed.  Requests abstracts the timer of the controller to    *)
(* whether it is queued, and BufferCache the device to a queue of requests *)
(* that end.                                                               *)
(***************************************************************************)
EXTENDS Timers, Requests, BufferCache

CONSTANTS s1, t1, t2, c1, c2, c3, hd0, hd1, hd0a, r1, r2, k1, k2

VARIABLE part

\* Two drives, the first with a partition.
DrivesDef == <<hd0, hd1>>
SDevDef == [p \in {hd0a} |-> hd0]

Init ==
  /\ part \in {"timers", "requests", "buffers"}
  /\ TimersInit /\ RequestsInit /\ BuffersInit

Next ==
  \/ part = "timers" /\ TimersNext /\ UNCHANGED <<part, requestVars, bufferVars>>
  \/ part = "requests" /\ RequestsNext /\ UNCHANGED <<part, timerVars, bufferVars>>
  \/ part = "buffers" /\ BuffersNext /\ UNCHANGED <<part, timerVars, requestVars>>

vars == <<part, timerVars, requestVars, bufferVars>>

\* The timer interrupt keeps coming, and a thread that can run goes on.
TimersFairness ==
  /\ WF_timerVars(part = "timers" /\ UpdateTimers)
  /\ WF_timerVars(part = "timers" /\ SleepSuspend(s1))
  /\ WF_timerVars(part = "timers" /\ SleepReturn(s1))

\* Threads that can run go on, time passes, commands do not fail for ever (each
\* failure sends the next command from within the last, on the same stack), a
\* request has finitely many sectors, and a drive that does not interrupt lets
\* the timer expire.
RequestsFairness ==
  /\ \A c \in Client : WF_requestVars(part = "requests" /\ DriveDone(c))
  /\ WF_requestVars(part = "requests" /\ Quantum)
  /\ SF_requestVars(part = "requests" /\ CommandSent)
  /\ SF_requestVars(part = "requests" /\ (LastSector \/ AtaControllerExpiry))

\* A request that has been sent ends (RequestsEnd), and a thread that can run
\* goes on.
BuffersFairness ==
  /\ WF_bufferVars(part = "buffers" /\ (Transfer("ok") \/ Transfer("error")))
  /\ WF_bufferVars(part = "buffers" /\ EndRequest)
  /\ \A c \in Reader : WF_bufferVars(part = "buffers" /\ ReadSend(c))

Spec == Init /\ [][Next]_vars /\ TimersFairness /\ RequestsFairness /\ BuffersFairness

\* The variables of the three parts hold what the C types can hold.
TypeOK == TimersTypeOK /\ RequestsTypeOK /\ BuffersTypeOK
=============================================================================
