----------------------------- MODULE BufferCache -----------------------------
(***************************************************************************)
(* The block cache of one storage device (fs/vfs/bcache.c): threads that   *)
(* read, change and release blocks, the thread that writes dirty buffers   *)
(* back (BufferFlusher), and the device, which takes requests in the order *)
(* in which they were sent and unlocks the buffer of each at its end.      *)
(*                                                                         *)
(*   buffers    for each buffer: the state of its data ("free", "reading", *)
(*              "read", or "error" after a failed read), BUFFER_LOCKED and *)
(*              BUFFER_DIRTY, and two ghosts: saved, the device has the    *)
(*              data, and failed, the last write of it failed              *)
(*   hashLists  the buffers of each block, oldest first                    *)
(*   numDirty   the counter of the device                                  *)
(*   sent       the requests sent, as buffers; moved is the status of the  *)
(*              first one once its data has been transferred               *)
(*   at, held   what each thread does, and with which buffer               *)
(*   waiting    the threads linked in the wait queue of their buffer       *)
(*   flusher, flushing  what BufferFlusher does, and with which buffer     *)
(*                                                                         *)
(* A thread that finds a locked buffer waits in WAIT_ON ("link" before     *)
(* WaitPrepareWait, "suspend" before ThrSuspendThread, "asleep" behind     *)
(* it), where a wake-up can get lost (module Threads).  One that           *)
(* waits for its own request has interrupts disabled from StorageDoRequest *)
(* on.  The field refs is left out: no code decides anything by it.        *)
(***************************************************************************)
EXTENDS Integers, Sequences, SequencesExt, FiniteSetsExt

CONSTANTS
  Reader,   \* threads
  Block,
  MaxBufs   \* buffers that memory has room for

Buf == 1 .. MaxBufs

ASSUME BufferCacheAssumption ==
  /\ IsFiniteSet(Reader)
  /\ MaxBufs \in Nat \ {0}
  /\ Block \cap (Buf \cup {0}) = {}   \* held tells a block from a buffer

VARIABLES buffers, hashLists, numDirty, sent, moved, at, held, waiting, flusher, flushing

flusherVars == <<flusher, flushing>>
bufferVars == <<buffers, hashLists, numDirty, sent, moved, at, held, waiting, flusherVars>>

BuffersTypeOK ==
  /\ buffers \in [Buf -> [data : {"free", "reading", "read", "error"}, locked : BOOLEAN, dirty : BOOLEAN,
                          saved : BOOLEAN, failed : BOOLEAN]]
  /\ hashLists \in [Block -> Seq(Buf)]
  /\ numDirty \in Nat
  /\ sent \in Seq(Buf)
  /\ moved \in {"no", "ok", "error"}
  /\ at \in [Reader -> {"run", "alloc", "test", "link", "suspend", "asleep",
                        "send", "io", "use", "changed", "count", "resume", "gone"}]
  /\ held \in [Reader -> Buf \cup Block \cup {0}]
  /\ waiting \subseteq Reader
  /\ flusher \in {"awake", "asleep", "check", "scan", "clear", "write", "io"}
  /\ flushing \in Buf \cup {0}

FreeBuffer == [data |-> "free", locked |-> FALSE, dirty |-> FALSE, saved |-> TRUE, failed |-> FALSE]

BuffersInit ==
  /\ buffers = [b \in Buf |-> FreeBuffer]
  /\ hashLists = [k \in Block |-> <<>>]
  /\ numDirty = 0
  /\ sent = <<>> /\ moved = "no"
  /\ at = [c \in Reader |-> "run"]
  /\ held = [c \in Reader |-> 0]
  /\ waiting = {}
  /\ flusher = "awake" /\ flushing = 0

----------------------------------------------------------------------------
\* BlockRead, and in it BlockFindBuffer, which is not preempted.  A thread that
\* gets a buffer whose read has failed, and which the reader is about to free,
\* is not followed any further.
BlockRead(c, k) ==
  /\ at[c] = "run"
  /\ IF hashLists[k] = <<>>
     THEN /\ at' = [at EXCEPT ![c] = "alloc"]
          /\ held' = [held EXCEPT ![c] = k]
     ELSE LET b == Head(hashLists[k])
          IN /\ at' = [at EXCEPT ![c] = IF buffers[b].data = "error" THEN "gone" ELSE "test"]
             /\ held' = [held EXCEPT ![c] = IF buffers[b].data = "error" THEN 0 ELSE b]
  /\ UNCHANGED <<buffers, hashLists, numDirty, sent, moved, waiting, flusherVars>>

\* BlockBufferAlloc: nobody else sees the buffer before it is in the list.
BlockBufferAlloc(c) ==
  LET free == {b \in Buf : buffers[b].data = "free"}
      b == Min(free)
  IN /\ at[c] = "alloc"
     /\ IF free = {}
        THEN /\ at' = [at EXCEPT ![c] = "run"]
             /\ held' = [held EXCEPT ![c] = 0]
             /\ UNCHANGED <<buffers, hashLists>>
        ELSE /\ buffers' = [buffers EXCEPT ![b].data = "reading", ![b].locked = TRUE]
             /\ hashLists' = [hashLists EXCEPT ![held[c]] = Append(@, b)]
             /\ at' = [at EXCEPT ![c] = "send"]
             /\ held' = [held EXCEPT ![c] = b]
     /\ UNCHANGED <<numDirty, sent, moved, waiting, flusherVars>>

\* BlockSendRequest of a read, up to the suspension in BlockWaitForRequest; memory
\* for the request itself is assumed.
ReadSend(c) ==
  /\ at[c] = "send"
  /\ sent' = Append(sent, held[c])
  /\ at' = [at EXCEPT ![c] = "io"]
  /\ waiting' = waiting \cup {c}
  /\ UNCHANGED <<buffers, hashLists, numDirty, moved, held, flusherVars>>

\* The thread has been resumed.  If the buffer is locked again, for a write, it
\* waits again; if the read has failed, BlockBufferRemove frees the buffer.
ReadDone(c) ==
  LET b == held[c]
  IN /\ at[c] = "io" /\ c \notin waiting
     /\ IF buffers[b].locked
        THEN /\ waiting' = waiting \cup {c}
             /\ UNCHANGED <<buffers, hashLists, at, held>>
        ELSE /\ UNCHANGED waiting
             /\ IF buffers[b].data = "error"
                THEN /\ buffers' = [buffers EXCEPT ![b] = FreeBuffer]
                     /\ hashLists' = [k \in Block |-> RemoveFirst(hashLists[k], b)]
                     /\ at' = [at EXCEPT ![c] = "run"]
                     /\ held' = [held EXCEPT ![c] = 0]
                ELSE /\ at' = [at EXCEPT ![c] = "use"]
                     /\ UNCHANGED <<buffers, hashLists, held>>
     /\ UNCHANGED <<numDirty, sent, moved, flusherVars>>

----------------------------------------------------------------------------
\* Mutant: a buffer that has been found is used at once.
WaitForNothing(c) ==
  /\ at[c] = "test"
  /\ at' = [at EXCEPT ![c] = "use"]
  /\ UNCHANGED <<buffers, hashLists, numDirty, sent, moved, held, waiting, flusherVars>>

\* WaitForBuffer and the first test of WAIT_ON.
WaitForBuffer(c) ==
  /\ at[c] = "test"
  /\ at' = [at EXCEPT ![c] = IF buffers[held[c]].locked THEN "link" ELSE "use"]
  /\ UNCHANGED <<buffers, hashLists, numDirty, sent, moved, held, waiting, flusherVars>>

\* WaitPrepareWait, the test in the loop of WAIT_ON, and WaitFinishWait.
BufferPrepareWait(c) ==
  /\ at[c] = "link"
  /\ IF buffers[held[c]].locked
     THEN at' = [at EXCEPT ![c] = "suspend"] /\ waiting' = waiting \cup {c}
     ELSE at' = [at EXCEPT ![c] = "use"] /\ UNCHANGED waiting
  /\ UNCHANGED <<buffers, hashLists, numDirty, sent, moved, held, flusherVars>>

\* ThrSuspendThread.  A wake-up since the test has come too early.
BufferSuspend(c) ==
  /\ at[c] = "suspend"
  /\ at' = [at EXCEPT ![c] = "asleep"]
  /\ UNCHANGED <<buffers, hashLists, numDirty, sent, moved, held, waiting, flusherVars>>

----------------------------------------------------------------------------
\* The thread changes the data of a buffer it has read.
ChangeData(c) ==
  /\ at[c] = "use"
  /\ buffers' = [buffers EXCEPT ![held[c]].saved = FALSE]
  /\ at' = [at EXCEPT ![c] = "changed"]
  /\ UNCHANGED <<hashLists, numDirty, sent, moved, held, waiting, flusherVars>>

\* Mutant: BlockWrite counts a buffer that is already dirty.
SetDirtyCounting(c) ==
  /\ at[c] = "changed"
  /\ at' = [at EXCEPT ![c] = "count"]
  /\ buffers' = [buffers EXCEPT ![held[c]].dirty = TRUE]
  /\ UNCHANGED <<hashLists, numDirty, sent, moved, held, waiting, flusherVars>>

\* Mutant: a buffer that is being written is not set dirty.
SetDirtyUnlocked(c) ==
  LET old == buffers[held[c]]
  IN /\ at[c] = "changed"
     /\ at' = [at EXCEPT ![c] = IF old.dirty \/ old.locked THEN "resume" ELSE "count"]
     /\ buffers' = [buffers EXCEPT ![held[c]].dirty = old.dirty \/ ~old.locked]
     /\ UNCHANGED <<hashLists, numDirty, sent, moved, held, waiting, flusherVars>>

\* BlockWrite: the test and set of BUFFER_DIRTY, ...
BlockWriteDirty(c) ==
  /\ at[c] = "changed"
  /\ at' = [at EXCEPT ![c] = IF buffers[held[c]].dirty THEN "resume" ELSE "count"]
  /\ buffers' = [buffers EXCEPT ![held[c]].dirty = TRUE]
  /\ UNCHANGED <<hashLists, numDirty, sent, moved, held, waiting, flusherVars>>

\* ... the counter, ...
BlockWriteCount(c) ==
  /\ at[c] = "count"
  /\ numDirty' = numDirty + 1
  /\ at' = [at EXCEPT ![c] = "resume"]
  /\ UNCHANGED <<buffers, hashLists, sent, moved, held, waiting, flusherVars>>

\* ... and ThrResumeThread, which does nothing to a thread that runs.
BlockWriteResume(c) ==
  /\ at[c] = "resume"
  /\ at' = [at EXCEPT ![c] = "use"]
  /\ flusher' = IF flusher = "asleep" THEN "check" ELSE flusher
  /\ UNCHANGED <<buffers, hashLists, numDirty, sent, moved, held, waiting, flushing>>

BlockFree(c) ==
  /\ at[c] = "use"
  /\ at' = [at EXCEPT ![c] = "run"]
  /\ held' = [held EXCEPT ![c] = 0]
  /\ UNCHANGED <<buffers, hashLists, numDirty, sent, moved, waiting, flusherVars>>

----------------------------------------------------------------------------
\* BufferFlusher suspends itself, whatever has become dirty since it looked.
FlusherSuspend ==
  /\ flusher = "awake"
  /\ flusher' = "asleep"
  /\ UNCHANGED <<buffers, hashLists, numDirty, sent, moved, at, held, waiting, flushing>>

\* BlockSyncDevice, up to the loop.
SyncStart ==
  /\ flusher = "check"
  /\ flusher' = IF numDirty = 0 THEN "awake" ELSE "scan"
  /\ UNCHANGED <<buffers, hashLists, numDirty, sent, moved, at, held, waiting, flushing>>

\* The loop finds a dirty buffer.  Which one depends on where the loop is.
SyncFound(b) ==
  /\ flusher = "scan" /\ numDirty # 0
  /\ buffers[b].dirty
  /\ numDirty' = numDirty - 1
  /\ flusher' = "clear" /\ flushing' = b
  /\ UNCHANGED <<buffers, hashLists, sent, moved, at, held, waiting>>

\* The loop ends when the counter is zero.
SyncEnd ==
  /\ flusher = "scan" /\ numDirty = 0
  /\ flusher' = "awake"
  /\ UNCHANGED <<buffers, hashLists, numDirty, sent, moved, at, held, waiting, flushing>>

SyncClear ==
  /\ flusher = "clear"
  /\ buffers' = [buffers EXCEPT ![flushing].dirty = FALSE]
  /\ flusher' = "write"
  /\ UNCHANGED <<hashLists, numDirty, sent, moved, at, held, waiting, flushing>>

\* DoBlockWrite: BufferLock, which waits for the buffer to be unlocked, and
\* BlockSendRequest up to the suspension in BlockWaitForRequest.
DoBlockWrite ==
  /\ flusher = "write" /\ ~buffers[flushing].locked
  /\ buffers' = [buffers EXCEPT ![flushing].locked = TRUE]
  /\ sent' = Append(sent, flushing)
  /\ flusher' = "io"
  /\ UNCHANGED <<hashLists, numDirty, moved, at, held, waiting, flushing>>

\* The write has ended; its status is ignored.
SyncDone ==
  /\ flusher = "io" /\ ~buffers[flushing].locked
  /\ flusher' = "scan" /\ flushing' = 0
  /\ UNCHANGED <<buffers, hashLists, numDirty, sent, moved, at, held, waiting>>

----------------------------------------------------------------------------
\* The device transfers the data of the first request, or fails.
Transfer(status) ==
  LET b == Head(sent)
  IN /\ sent # <<>> /\ moved = "no"
     /\ moved' = status
     /\ buffers' = IF buffers[b].data = "reading" THEN buffers
                   ELSE IF status = "ok" THEN [buffers EXCEPT ![b].saved = TRUE, ![b].failed = FALSE]
                   ELSE [buffers EXCEPT ![b].failed = TRUE]
     /\ UNCHANGED <<hashLists, numDirty, sent, at, held, waiting, flusherVars>>

\* Mutant: BufferUnlock does not wake anybody.
EndWithoutWakeUp ==
  LET b == Head(sent)
      data == IF buffers[b].data # "reading" THEN buffers[b].data ELSE IF moved = "ok" THEN "read" ELSE "error"
      gone == {c \in Reader : data = "error" /\ held[c] = b /\ at[c] # "io"}
  IN /\ moved # "no"
     /\ sent' = Tail(sent) /\ moved' = "no"
     /\ buffers' = [buffers EXCEPT ![b].locked = FALSE, ![b].data = data]
     /\ at' = [c \in Reader |-> IF c \in gone THEN "gone" ELSE at[c]]
     /\ held' = [c \in Reader |-> IF c \in gone THEN 0 ELSE held[c]]
     /\ UNCHANGED <<hashLists, numDirty, waiting, flusherVars>>

\* Mutant: the end of a failed request does not unlock the buffer.
EndLocked ==
  LET b == Head(sent)
      woken == {c \in waiting : held[c] = b}
  IN /\ moved # "no"
     /\ sent' = Tail(sent) /\ moved' = "no"
     /\ buffers' = [buffers EXCEPT ![b].locked = (moved = "error"),
                      ![b].data = IF @ # "reading" THEN @ ELSE IF moved = "ok" THEN "read" ELSE "error"]
     /\ waiting' = waiting \ woken
     /\ at' = [c \in Reader |-> IF c \in woken /\ at[c] = "asleep" THEN "link" ELSE at[c]]
     /\ UNCHANGED <<hashLists, numDirty, held, flusherVars>>

\* StorageEndRequest: BufferUnlock clears BUFFER_LOCKED and wakes all threads in
\* the wait queue.  After a failed read, threads that hold the buffer and are not
\* its reader are not followed any further.
EndRequest ==
  LET b == Head(sent)
      data == IF buffers[b].data # "reading" THEN buffers[b].data ELSE IF moved = "ok" THEN "read" ELSE "error"
      woken == {c \in waiting : held[c] = b}
      gone == {c \in Reader : data = "error" /\ held[c] = b /\ at[c] # "io"}
  IN /\ moved # "no"
     /\ sent' = Tail(sent) /\ moved' = "no"
     /\ buffers' = [buffers EXCEPT ![b].locked = FALSE, ![b].data = data]
     /\ waiting' = waiting \ woken
     /\ at' = [c \in Reader |-> IF c \in gone THEN "gone"
                                ELSE IF c \in woken /\ at[c] = "asleep" THEN "link" ELSE at[c]]
     /\ held' = [c \in Reader |-> IF c \in gone THEN 0 ELSE held[c]]
     /\ UNCHANGED <<hashLists, numDirty, flusherVars>>

BuffersNext ==
  \/ \E c \in Reader :
       \/ \E k \in Block : BlockRead(c, k)
       \/ BlockBufferAlloc(c) \/ ReadSend(c) \/ ReadDone(c)
       \/ WaitForBuffer(c) \/ BufferPrepareWait(c) \/ BufferSuspend(c)
       \/ ChangeData(c) \/ BlockWriteDirty(c) \/ BlockWriteCount(c) \/ BlockWriteResume(c)
       \/ BlockFree(c)
  \/ FlusherSuspend \/ SyncStart \/ SyncEnd \/ SyncClear \/ DoBlockWrite \/ SyncDone
  \/ \E b \in Buf : SyncFound(b)
  \/ \E status \in {"ok", "error"} : Transfer(status)
  \/ EndRequest

BuffersSpec == BuffersInit /\ [][BuffersNext]_bufferVars

----------------------------------------------------------------------------
Uses(c, b) == held[c] = b /\ at[c] \in {"use", "changed", "count", "resume"}

\* A change is never forgotten: data that the device does not have belongs to a
\* buffer that is dirty, or will be set dirty by the thread that changed it, or
\* is still to be transferred by a write that has begun, unless a write of it
\* failed.  BlockSyncDevice clears BUFFER_DIRTY before it writes the buffer.
NoLostWrite ==
  \A b \in Buf : ~buffers[b].saved =>
    \/ buffers[b].dirty \/ buffers[b].failed
    \/ \E c \in Reader : held[c] = b /\ at[c] = "changed"
    \/ flushing = b /\ flusher = "write"
    \/ flushing = b /\ flusher = "io" /\ b \in ToSet(sent) /\ (Head(sent) = b => moved = "no")

\* numDirty, by which BlockSyncDevice decides whether to begin and to end, is the
\* number of dirty buffers, but for the threads between the two steps of BlockWrite
\* and the flusher between its own two; in particular it is never negative.
NumDirtyExact ==
  numDirty + Cardinality({c \in Reader : at[c] = "count"}) + (IF flusher = "clear" THEN 1 ELSE 0)
    = Cardinality({b \in Buf : buffers[b].dirty})

\* No thread gets a buffer from BlockRead whose data has not been read from the
\* device, though BlockBufferAlloc puts it into the list before that.
NoUnreadData == \A c \in Reader, b \in Buf : Uses(c, b) => buffers[b].data = "read"

\* A locked buffer has a request, or a thread about to send one, at whose end it
\* is unlocked; and never two.
LockedHasOwner ==
  \A b \in Buf :
    LET owners == {c \in Reader : held[c] = b /\ at[c] = "send"}
                    \cup {i \in DOMAIN sent : sent[i] = b}
    IN Cardinality(owners) = IF buffers[b].locked THEN 1 ELSE 0

\* A thread that reads a block from the device is resumed with the buffer
\* unlocked, whatever else is sent to the device.  (It may have to wait again if
\* the buffer is found, changed and written by others before it runs.)
ReadEnds ==
  \A c \in Reader :
    at[c] = "send" ~> at[c] = "io" /\ c \notin waiting /\ ~buffers[held[c]].locked
=============================================================================
