----------------------------- MODULE Processes -----------------------------
(***************************************************************************)
(* The family of processes (kernel/process.c): a process that is created   *)
(* is in the list of its parent's children, exits, and stays as a zombie   *)
(* until its parent has waited for it or has exited as well.               *)
(*                                                                         *)
(*   procs     the process structs: whether one is in use, state, refs and *)
(*             parent                                                      *)
(*   children  the list of each process, oldest first                      *)
(*   pc        what the threads of each process do: "none" before they are *)
(*             created, "run", "exec" while loading a program, "sleep",    *)
(*             "linked" and "asleep" in SLEEP_ON of the wait for a child,  *)
(*             "woken" and "lost" there if the wake-up comes before the    *)
(*             suspension, "repeat" behind it, "put" before ThrPutProcess  *)
(*             of the child found, "exit" in ThrProcessExit                *)
(*   child     the process a thread loads, waits for or has found; "any"   *)
(*             for a wait without pid, "stale" if its struct was freed     *)
(*   missed    a child has exited between the walk over the children and   *)
(*             WaitPrepareWait                                             *)
(*   own, reaped  ghosts: the processes that still have their own          *)
(*             reference, and those that have been waited for              *)
(*   overput   a reference has been put that nobody had: a process was     *)
(*             waited for twice; what follows is not defined               *)
(*                                                                         *)
(* ThrProcessExit disables interrupts, but may wait inside, when it closes *)
(* files, after it has set the state and before it alerts relatives.       *)
(***************************************************************************)
EXTENDS Integers, Sequences, SequencesExt, FiniteSetsExt

CONSTANTS
  Proc,        \* structs that processCache has room for
  Task,        \* the threads a process may have, the first of them started by Exec
  MaxThreads,  \* bound on the threads there are at a time
  startup      \* the first process, whose parent has exited

ASSUME ProcessesAssumption ==
  /\ startup \in Proc /\ {"any", "stale", "none"} \cap Proc = {}
  /\ Task # {} /\ Task \subseteq Nat

VARIABLES procs, children, pc, child, missed, own, reaped, overput

processVars == <<procs, children, pc, child, missed, own, reaped, overput>>

\* The process structs, the lists of children and the threads hold what the C
\* types can hold.
ProcessesTypeOK ==
  /\ procs \in [Proc -> [state : {"none", "RUNNING", "DYING"}, refs : Nat, parent : Proc \cup {"none"}]]
  /\ children \in [Proc -> Seq(Proc)]
  /\ pc \in [Proc \X Task -> {"none", "run", "exec", "sleep", "linked", "woken", "asleep", "lost",
                            "repeat", "put", "exit"}]
  /\ child \in [Proc \X Task -> Proc \cup {"none", "any", "stale"}]
  /\ missed \subseteq Proc \X Task
  /\ own \subseteq Proc /\ reaped \subseteq Proc
  /\ overput \in BOOLEAN

\* A struct as ThrProcessConstructor leaves it, also when it is freed.
Constructed == [state |-> "none", refs |-> 1, parent |-> "none"]

Used(c) == procs[c].state # "none"

ProcessesInit ==
  /\ procs = [c \in Proc |-> IF c = startup THEN [Constructed EXCEPT !.state = "RUNNING"] ELSE Constructed]
  /\ children = [c \in Proc |-> <<>>]
  /\ pc = [x \in Proc \X Task |-> IF x = <<startup, Min(Task)>> THEN "run" ELSE "none"]
  /\ child = [x \in Proc \X Task |-> "none"]
  /\ missed = {} /\ own = {startup} /\ reaped = {} /\ overput = FALSE

----------------------------------------------------------------------------
Family == [procs |-> procs, children |-> children]

\* Mutant: a process that is freed stays in the list of its parent.
FreeLinked(f, c) ==
  [procs |-> [f.procs EXCEPT ![c] = Constructed], children |-> [f.children EXCEPT ![c] = <<>>]]

\* The last reference is put: out of the list of the parent, and freed.
ThrFreeProcess(f, c) ==
  LET p == f.procs[c].parent
      lists == [f.children EXCEPT ![c] = <<>>]
  IN [procs |-> [f.procs EXCEPT ![c] = Constructed],
      children |-> IF p = "none" THEN lists ELSE [lists EXCEPT ![p] = Remove(@, c)]]

ThrPutProcess(f, c) ==
  IF f.procs[c].refs = 1 THEN ThrFreeProcess(f, c) ELSE [f EXCEPT !.procs[c].refs = @ - 1]

\* The family becomes f.  A thread's reference to a freed process is stale.
Becomes(f, held, r) ==
  /\ reaped' = {c \in r : f.procs[c].state # "none"}
  /\ procs' = f.procs /\ children' = f.children
  /\ child' = [x \in Proc \X Task |->
                 IF held[x] \in Proc /\ f.procs[held[x]].state = "none" THEN "stale" ELSE held[x]]

MoveTo(p, t, to) == pc' = [pc EXCEPT ![p, t] = to]

----------------------------------------------------------------------------
MoreThreads == Cardinality({x \in Proc \X Task : pc[x] # "none"}) < MaxThreads

SysCreateThread(p, t) ==
  /\ \E u \in Task : pc[p, u] = "run"
  /\ pc[p, t] = "none" /\ MoreThreads
  /\ MoveTo(p, t, "run")
  /\ UNCHANGED <<procs, children, child, missed, own, reaped>>

\* ThrCreateProcess, called by Exec.  If it fails, the family is as before.
ThrCreateProcess(p, t, c) ==
  /\ pc[p, t] = "run" /\ procs[c].state = "none"
  /\ procs' = [procs EXCEPT ![c] = [state |-> "RUNNING", refs |-> 2, parent |-> p]]
  /\ children' = [children EXCEPT ![p] = Append(@, c)]
  /\ MoveTo(p, t, "exec")
  /\ child' = [child EXCEPT ![p, t] = c]
  /\ own' = own \cup {c}
  /\ UNCHANGED <<missed, reaped>>

\* Exec ends with the start of the first thread, ...
ExecStart(p, t) ==
  /\ pc[p, t] = "exec" /\ MoreThreads
  /\ pc' = [pc EXCEPT ![p, t] = "run", ![child[p, t], Min(Task)] = "run"]
  /\ child' = [child EXCEPT ![p, t] = "none"]
  /\ UNCHANGED <<procs, children, missed, own, reaped>>

\* ... returns without putting the process if its arguments or descriptors cannot
\* be set up, so that it stays in the list, running, without a thread, ...
ExecReturn(p, t) ==
  /\ pc[p, t] = "exec"
  /\ MoveTo(p, t, "run")
  /\ child' = [child EXCEPT ![p, t] = "none"]
  /\ UNCHANGED <<procs, children, missed, own, reaped>>

\* ... or puts the process if the program cannot be loaded.
ExecFail(p, t) ==
  /\ pc[p, t] = "exec"
  /\ Becomes(ThrPutProcess(Family, child[p, t]), [child EXCEPT ![p, t] = "none"], reaped)
  /\ own' = own \ {child[p, t]}
  /\ MoveTo(p, t, "run")
  /\ UNCHANGED missed

----------------------------------------------------------------------------
Waited(p, who) == SelectSeq(children[p], LAMBDA c : who \in {"any", c})

\* SysWaitForProcessFinish: the walk over the children.  The thread goes on with
\* the first that is dying, to sleep if there is none, or back with -ENOENT.
Walk(p, t, who) ==
  LET kids == Waited(p, who)
      dying == SelectSeq(kids, LAMBDA c : procs[c].state = "DYING")
  IN /\ MoveTo(p, t, IF dying # <<>> THEN "put" ELSE IF kids # <<>> THEN "sleep" ELSE "run")
     /\ child' = [child EXCEPT ![p, t] =
                    IF dying # <<>> THEN Head(dying) ELSE IF kids # <<>> THEN who ELSE "none"]
     /\ missed' = missed \ {<<p, t>>}
     /\ UNCHANGED <<procs, children, own, reaped>>

SysWaitForProcessFinish(p, t) ==
  \/ pc[p, t] = "run" /\ \E who \in Proc \cup {"any"} : Walk(p, t, who)
  \/ pc[p, t] = "repeat" /\ Walk(p, t, child[p, t])

\* ThrPutProcess of the child found, with preemption enabled.
WaitPut(p, t) ==
  LET c == child[p, t]
  IN /\ pc[p, t] = "put" /\ c \in Proc \ reaped
     /\ Becomes(ThrPutProcess(Family, c), [child EXCEPT ![p, t] = "none"], reaped \cup {c})
     /\ MoveTo(p, t, "run")
     /\ UNCHANGED <<missed, own>>

\* SLEEP_ON: WaitPrepareWait, ...
SleepLink(p, t) ==
  /\ pc[p, t] = "sleep"
  /\ MoveTo(p, t, "linked")
  /\ UNCHANGED <<procs, children, child, missed, own, reaped>>

\* ... and ThrSuspendThread.
SleepSuspend(p, t) ==
  /\ pc[p, t] \in {"linked", "woken"}
  /\ MoveTo(p, t, IF pc[p, t] = "linked" THEN "asleep" ELSE "lost")
  /\ UNCHANGED <<procs, children, child, missed, own, reaped>>

----------------------------------------------------------------------------
\* ThrProcessExit, up to where it may wait for files to be closed.
ThrProcessExit(p, t) ==
  /\ pc[p, t] = "run"
  /\ procs' = [procs EXCEPT ![p].state = "DYING"]
  /\ MoveTo(p, t, "exit")
  /\ UNCHANGED <<children, child, missed, own, reaped>>

\* The children are put and abandoned.  They stay linked in the list of p.
ThrRelativeAlert(f, p) ==
  FoldLeft(LAMBDA g, c : [ThrPutProcess(g, c) EXCEPT !.procs[c].parent = "none"], f, f.children[p])

\* Mutant: WakeUp instead of WakeUpAll.
WakeUpOne(q) ==
  LET queue == {x \in Proc \X Task : x[1] = q /\ pc[x] \in {"asleep", "linked"}}
  IN [x \in Proc \X Task |-> IF queue = {} \/ x # CHOOSE y \in queue : TRUE THEN pc[x]
                              ELSE IF pc[x] = "asleep" THEN "repeat" ELSE "woken"]

\* WakeUpAll of the queue of q, which is of no use to threads that are not
\* suspended yet.
WakeUpAll(q) ==
  [x \in Proc \X Task |-> IF x[1] # q THEN pc[x]
                          ELSE CASE pc[x] = "asleep" -> "repeat"
                                 [] pc[x] = "linked" -> "woken"
                                 [] OTHER -> pc[x]]

\* ThrProcessExit from there on: relatives are alerted, the threads end, and the
\* process puts its own reference.
ExitEnd(p, t) ==
  LET q == procs[p].parent
      other(f, x) == IF x[1] = p THEN "none" ELSE f[x]
  IN /\ pc[p, t] = "exit" /\ ToSet(children[p]) \cap reaped = {}
     /\ Becomes(ThrPutProcess(ThrRelativeAlert(Family, p), p),
                [x \in Proc \X Task |-> other(child, x)], reaped)
     /\ own' = own \ {p}
     /\ pc' = [x \in Proc \X Task |-> other(WakeUpAll(q), x)]
     /\ missed' = {x \in Proc \X Task : x[1] # p /\ (x \in missed \/ (x[1] = q /\ pc[x] = "sleep"))}

\* A child is put a second time by its parent, which has waited for it while it
\* was exiting, or in two threads.
PutTwice(p, t) ==
  /\ \/ pc[p, t] = "put" /\ child[p, t] \notin Proc \ reaped
     \/ pc[p, t] = "exit" /\ ToSet(children[p]) \cap reaped # {}
  /\ overput' = TRUE
  /\ UNCHANGED <<procs, children, pc, child, missed, own, reaped>>

ProcessesNext ==
  \/ /\ ~overput
     /\ UNCHANGED overput
     /\ \E p \in Proc, t \in Task :
          \/ SysCreateThread(p, t)
          \/ \E c \in Proc : ThrCreateProcess(p, t, c)
          \/ ExecStart(p, t) \/ ExecReturn(p, t) \/ ExecFail(p, t)
          \/ SysWaitForProcessFinish(p, t) \/ WaitPut(p, t)
          \/ SleepLink(p, t) \/ SleepSuspend(p, t)
          \/ ThrProcessExit(p, t) \/ ExitEnd(p, t)
  \/ ~overput /\ \E p \in Proc, t \in Task : PutTwice(p, t)

ProcessesSpec == ProcessesInit /\ [][ProcessesNext]_processVars

----------------------------------------------------------------------------
\* The references of a process are its own, until it has exited or could not be
\* loaded, and that of its parent, until that has waited for it or exited: so it
\* is freed neither too early nor never, and parents and children that have not
\* exited know of each other.
ProcessRefsExact ==
  \A c \in Proc : Used(c) =>
    LET p == procs[c].parent
    IN /\ procs[c].refs = (IF c \in own THEN 1 ELSE 0) + (IF p # "none" /\ c \notin reaped THEN 1 ELSE 0)
       /\ procs[c].refs > 0
       /\ p # "none" => p \in own /\ Used(p) /\ c \in ToSet(children[p])
       /\ c \in own => \A k \in ToSet(children[c]) : Used(k) /\ procs[k].parent = c

\* A thread sleeps in SysWaitForProcessFinish only while none of the children it
\* waits for has exited, except if the child exited between the walk over the
\* children and the suspension.
NoSleepBesideZombie ==
  \A p \in Proc, t \in Task :
    pc[p, t] = "asleep" /\ <<p, t>> \notin missed =>
      \A c \in ToSet(Waited(p, child[p, t])) : c \in own \/ procs[c].state = "RUNNING"
=============================================================================
