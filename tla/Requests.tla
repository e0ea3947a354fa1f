------------------------------ MODULE Requests ------------------------------
(***************************************************************************)
(* Requests to storage devices: the request lists of                       *)
(* devices/kedev/sdevice.c, the ATA controller that serves the lists of    *)
(* its drives one command at a time (devices/storage/ata/ata.c and         *)
(* ata-disk.c), and the partitions, whose requests are passed on to their  *)
(* drive by the thread that found the list of the partition empty.         *)
(*                                                                         *)
(*   requestList  the list of each drive and partition; a request is named *)
(*                by the thread that has sent it                           *)
(*   busy, currDrive  fields of the controller                             *)
(*   command      the command of the current request: "none", "send" while *)
(*                AtaSendCommand waits for the drive, "resend" when it     *)
(*                does so for another sector, "pending" until the drive    *)
(*                interrupts, "failed" after an error from the drive       *)
(*   sender       who is in AtaSendCommand: a thread or the interrupt      *)
(*   timer        the controller's timer is queued                         *)
(*   quantums     PitGetQuantums and the sleepTime of each drive, which    *)
(*                are only compared: kept as ranks                         *)
(*   waits        what each thread does: "run", "part" while another one   *)
(*                serves its request to a partition, "drive" while it      *)
(*                waits for a request to a drive, "done" when that has     *)
(*                ended                                                    *)
(*   device       the device of its last request                           *)
(*   halted       AtaControllerExpiry has executed hlt                     *)
(*                                                                         *)
(* StorageDoRequest calls StorageGetCurrRequest with requestLock held;     *)
(* both save the interrupt flag in the lock, so that interrupts stay       *)
(* disabled behind it, except while AtaWaitForState enables them or        *)
(* another thread runs.  From a call of StorageDoRequest to the suspension *)
(* in WAIT_ON, and from the return of WAIT_ON to the next call, a thread   *)
(* is therefore not interrupted.                                           *)
(***************************************************************************)
EXTENDS Integers, Sequences, SequencesExt, FiniteSetsExt

CONSTANTS
  Client,     \* threads
  drives,     \* the drives of the controller, in the order of its list
  Partition,
  sDev        \* the drive of each partition

Drive == ToSet(drives)
Device == Drive \cup Partition

ASSUME RequestsAssumption ==
  /\ drives \in Seq(Drive) /\ drives # <<>> /\ IsInjective(drives)
  /\ Drive \cap Partition = {} /\ "none" \notin Drive
  /\ sDev \in [Partition -> Drive]

VARIABLES requestList, busy, currDrive, command, sender, timer, quantums, waits, device, halted

controllerVars == <<busy, currDrive, command, sender, timer>>
requestVars == <<requestList, controllerVars, quantums, waits, device, halted>>

RequestsTypeOK ==
  /\ requestList \in [Device -> Seq(Client)]
  /\ busy \in BOOLEAN /\ timer \in BOOLEAN /\ halted \in BOOLEAN
  /\ currDrive \in Drive \cup {"none"}
  /\ command \in {"none", "send", "resend", "pending", "failed"}
  /\ sender \in Client \cup {"irq", "none"}
  /\ quantums \in [Drive \cup {"now"} -> Nat]
  /\ waits \in [Client -> {"run", "part", "drive", "done"}]
  /\ device \in [Client -> Device]

RequestsInit ==
  /\ requestList = [d \in Device |-> <<>>]
  /\ busy = FALSE /\ currDrive = "none" /\ command = "none" /\ sender = "none" /\ timer = FALSE
  /\ quantums = [d \in Drive \cup {"now"} |-> 0]
  /\ waits = [c \in Client |-> "run"]
  /\ device = [c \in Client |-> Head(drives)]
  /\ halted = FALSE

----------------------------------------------------------------------------
\* Only the order of the times matters.
Ranks(f) == [k \in DOMAIN f |-> Cardinality({f[j] : j \in {i \in DOMAIN f : f[i] < f[k]}})]

\* Mutant: the first drive with a request.
ChooseFirst(lists, q) ==
  LET waiting == {i \in DOMAIN drives : lists[drives[i]] # <<>>}
  IN IF waiting = {} THEN "none" ELSE drives[Min(waiting)]

\* Of the drives with requests, the first one that has slept longest.
AtaChooseDrive(lists, q) ==
  LET waiting == {i \in DOMAIN drives : lists[drives[i]] # <<>>}
      best == {i \in waiting : \A j \in waiting : q[drives[i]] <= q[drives[j]]}
  IN IF waiting = {} THEN "none" ELSE drives[Min(best)]

\* AtaControllerRequest up to the wait in AtaSendCommand, when the controller
\* is not busy, with these lists.
AtaControllerRequest(lists, q, who) ==
  LET drive == AtaChooseDrive(lists, q)
  IN /\ currDrive' = drive
     /\ busy' = (drive # "none")
     /\ command' = IF drive = "none" THEN "none" ELSE "send"
     /\ sender' = IF drive = "none" THEN "none" ELSE who

\* StorageDoRequest of a drive, and AtaRequest if its list was empty.
StorageDoRequest(c, d, lists) ==
  LET lists1 == [lists EXCEPT ![d] = Append(@, c)]
  IN /\ requestList' = lists1
     /\ IF lists[d] = <<>> /\ ~busy THEN AtaControllerRequest(lists1, quantums, c)
        ELSE UNCHANGED <<busy, currDrive, command, sender>>
     /\ UNCHANGED <<timer, quantums>>

\* A thread sends a request to a drive.
DriveRequest(c, d) ==
  /\ ~halted /\ waits[c] = "run"
  /\ StorageDoRequest(c, d, requestList)
  /\ waits' = [waits EXCEPT ![c] = "drive"]
  /\ device' = [device EXCEPT ![c] = d]
  /\ UNCHANGED halted

\* A thread sends a request to a partition.  If the list was empty the thread
\* is in AtaPartitionRequest and passes the request on; otherwise it waits.
PartitionRequest(c, p) ==
  LET lists == [requestList EXCEPT ![p] = Append(@, c)]
  IN /\ ~halted /\ waits[c] = "run"
     /\ device' = [device EXCEPT ![c] = p]
     /\ IF requestList[p] = <<>>
        THEN /\ StorageDoRequest(c, sDev[p], lists)
             /\ waits' = [waits EXCEPT ![c] = "drive"]
        ELSE /\ requestList' = lists
             /\ waits' = [waits EXCEPT ![c] = "part"]
             /\ UNCHANGED <<controllerVars, quantums>>
     /\ UNCHANGED halted

----------------------------------------------------------------------------
\* StorageEndRequest removes the first request of a list.
StorageEndRequest(d) == [requestList EXCEPT ![d] = Tail(@)]

\* Mutant: the controller does not look for another request.
FinishWithoutNext(who) ==
  LET c == Head(requestList[currDrive])
  IN /\ requestList' = StorageEndRequest(currDrive)
     /\ waits' = [waits EXCEPT ![c] = "done"]
     /\ quantums' = Ranks([quantums EXCEPT ![currDrive] = quantums["now"]])
     /\ timer' = FALSE
     /\ busy' = FALSE /\ command' = "none" /\ sender' = "none"
     /\ UNCHANGED <<currDrive, device, halted>>

\* Mutant: the timer is left to expire by itself.
FinishKeepingTimer(who) ==
  LET c == Head(requestList[currDrive])
      lists == StorageEndRequest(currDrive)
      q == Ranks([quantums EXCEPT ![currDrive] = quantums["now"]])
  IN /\ requestList' = lists
     /\ waits' = [waits EXCEPT ![c] = "done"]
     /\ quantums' = q
     /\ AtaControllerRequest(lists, q, who)
     /\ UNCHANGED <<timer, device, halted>>

\* AtaFinishRequest: StorageEndRequest unlocks the buffer and so wakes the
\* thread, the timer is removed, and the next request is started.
AtaFinishRequest(who) ==
  LET c == Head(requestList[currDrive])
      lists == StorageEndRequest(currDrive)
      q == Ranks([quantums EXCEPT ![currDrive] = quantums["now"]])
  IN /\ requestList' = lists
     /\ waits' = [waits EXCEPT ![c] = "done"]
     /\ quantums' = q
     /\ timer' = FALSE
     /\ AtaControllerRequest(lists, q, who)
     /\ UNCHANGED <<device, halted>>

\* The drive has taken the command; the timer is added for the first sector.
CommandSent ==
  /\ ~halted /\ command \in {"send", "resend"}
  /\ command' = "pending"
  /\ sender' = "none"
  /\ timer' = (timer \/ command = "send")
  /\ UNCHANGED <<requestList, busy, currDrive, quantums, waits, device, halted>>

\* The drive did not get ready, or the sector does not exist.
CommandNotSent ==
  /\ ~halted /\ command \in {"send", "resend"}
  /\ AtaFinishRequest(sender)

\* AtaRwInterrupt for the last sector.
LastSector ==
  /\ ~halted /\ command = "pending"
  /\ AtaFinishRequest("irq")

\* AtaRwInterrupt for another sector.
MoreSectors ==
  /\ ~halted /\ command = "pending"
  /\ command' = "resend"
  /\ sender' = "irq"
  /\ UNCHANGED <<requestList, busy, currDrive, timer, quantums, waits, device, halted>>

\* AtaRwInterrupt with an error status: AtaRequest finds the controller busy.
DriveError ==
  /\ ~halted /\ command = "pending"
  /\ command' = "failed"
  /\ UNCHANGED <<requestList, busy, currDrive, sender, timer, quantums, waits, device, halted>>

\* The timer of the controller expires.
AtaControllerExpiry ==
  /\ ~halted /\ timer
  /\ halted' = TRUE
  /\ timer' = FALSE
  /\ UNCHANGED <<requestList, busy, currDrive, command, sender, quantums, waits, device>>

----------------------------------------------------------------------------
\* Mutant: a thread returns when its own request to the partition has ended.
DriveDoneReturning(c) ==
  LET p == device[c]
  IN /\ ~halted /\ waits[c] = "done" /\ sender # c
     /\ requestList' = IF p \in Drive THEN requestList ELSE StorageEndRequest(p)
     /\ waits' = [waits EXCEPT ![c] = "run"]
     /\ UNCHANGED <<controllerVars, quantums, device, halted>>

\* A thread goes on after its request to a drive has ended.  One that serves a
\* partition ends the request at the head of the list, whose owner, if it is
\* another thread, returns, and takes the next one.
DriveDone(c) ==
  LET p == device[c]
      h == Head(requestList[p])
      lists == StorageEndRequest(p)
      owner == [waits EXCEPT ![h] = "run"]
  IN /\ ~halted /\ waits[c] = "done" /\ sender # c
     /\ IF p \in Partition /\ lists[p] # <<>>
        THEN /\ StorageDoRequest(c, sDev[p], lists)
             /\ waits' = [owner EXCEPT ![c] = "drive"]
        ELSE /\ requestList' = IF p \in Partition THEN lists ELSE requestList
             /\ waits' = IF p \in Partition THEN [owner EXCEPT ![c] = "run"] ELSE [waits EXCEPT ![c] = "run"]
             /\ UNCHANGED <<controllerVars, quantums>>
     /\ UNCHANGED <<device, halted>>

\* A timer interrupt.
Quantum ==
  /\ ~halted
  /\ quantums' = Ranks([quantums EXCEPT !["now"] = @ + 1])
  /\ UNCHANGED <<requestList, controllerVars, waits, device, halted>>

RequestsNext ==
  \/ \E c \in Client :
       \/ \E d \in Drive : DriveRequest(c, d)
       \/ \E p \in Partition : PartitionRequest(c, p)
       \/ DriveDone(c)
  \/ CommandSent \/ CommandNotSent
  \/ LastSector \/ MoreSectors \/ DriveError
  \/ AtaControllerExpiry
  \/ Quantum

RequestsSpec == RequestsInit /\ [][RequestsNext]_requestVars

----------------------------------------------------------------------------
\* The controller is not idle while a drive has requests, so that none is
\* left in a list that nobody looks at: only StorageDoRequest on an empty list
\* and AtaFinishRequest start the controller.
NoRequestForgotten == ~busy => \A d \in Drive : requestList[d] = <<>>

Serves(c, p) == device[c] = p /\ waits[c] \in {"drive", "done"}

\* The thread that found the list of a partition empty, and no other, serves
\* it, as long as there are requests in it; the others wait for it.
OneServer ==
  \A p \in Partition :
    LET servers == {c \in Client : Serves(c, p)}
    IN /\ requestList[p] # <<>> <=> servers # {}
       /\ Cardinality(servers) <= 1
       /\ \A c \in Client : device[c] = p /\ waits[c] = "part" => c \in ToSet(requestList[p])

\* Behind "Timer already attached?": the timer is added only when it is not in
\* the list, and never in the list while the controller is idle, for which
\* AtaControllerExpiry would halt the machine.
TimerWatchesCommand ==
  /\ command = "send" => ~timer
  /\ timer => busy
  /\ command \in {"pending", "failed"} /\ ~halted => timer

\* A thread that waits for a request to a drive or a partition does not wait for
\* ever, however many requests the other drives and partitions get, unless the
\* machine halts: AtaChooseDrive takes the drive that has slept longest.
RequestsEnd ==
  \A c \in Client : waits[c] \in {"drive", "part"} ~> waits[c] \in {"run", "done"} \/ halted
=============================================================================
