-------------------------- MODULE BufferCacheProofs --------------------------
(***************************************************************************)
(* Proofs about the block cache for any number of threads, blocks and      *)
(* buffers.  The inductive invariant says who may hold a buffer in which   *)
(* state, and that a locked buffer has one owner: the thread about to send *)
(* its read, or one request.                                               *)
(***************************************************************************)
EXTENDS BufferCache, ListFacts

\* What is known of a buffer.
BufferRecord ==
  [data : {"free", "reading", "read", "error"}, locked : BOOLEAN, dirty : BOOLEAN,
   saved : BOOLEAN, failed : BOOLEAN]

\* The thread that reads b from the device.
Reads(c, b) == held[c] = b /\ at[c] \in {"send", "io"}

\* The thread that is about to send the read of b.
Sends(c, b) == held[c] = b /\ at[c] = "send"

\* What a thread has: a block while it allocates, a buffer while it has found
\* or allocated one, nothing otherwise.
HeldFits ==
  \A c \in Reader :
    /\ at[c] \in {"run", "gone"} => held[c] = 0
    /\ at[c] = "alloc" => held[c] \in Block
    /\ at[c] \notin {"run", "gone", "alloc"} => held[c] \in Buf

\* The hash lists hold buffers in use, each once.
ListsFit ==
  \A k \in Block :
    /\ IsInjective(hashLists[k])
    /\ \A b \in ToSet(hashLists[k]) : buffers[b].data # "free"

\* A buffer is locked while it is read, not locked if that failed, and without
\* changes unless it has been read.
DataFits ==
  \A b \in Buf :
    /\ buffers[b].data = "reading" => buffers[b].locked
    /\ buffers[b].data \in {"free", "error"} => ~buffers[b].locked
    /\ buffers[b].data # "read" => buffers[b].saved /\ ~buffers[b].dirty

\* In which states a thread may have a buffer.
StateFits ==
  \A c \in Reader : \A b \in Buf :
    /\ at[c] = "send" /\ held[c] = b => buffers[b].data = "reading"
    /\ at[c] = "io" /\ held[c] = b => buffers[b].data # "free"
    /\ at[c] \in {"test", "link", "suspend", "asleep"} /\ held[c] = b => buffers[b].data \in {"reading", "read"}
    /\ Uses(c, b) => buffers[b].data = "read"

\* A buffer has one reader.
ReaderIsUnique == \A c, d \in Reader : \A b \in Buf : Reads(c, b) /\ Reads(d, b) => c = d

\* A request is for a buffer that is locked and being read, or written by the
\* flusher, and whose reader has sent it.
SentFits ==
  /\ IsInjective(sent)
  /\ moved # "no" => sent # <<>>
  /\ \A b \in ToSet(sent) :
       /\ buffers[b].locked
       /\ \A c \in Reader : ~Sends(c, b)
       /\ buffers[b].data = "read" => flusher = "io" /\ flushing = b

\* Nothing else is locked.
LockedFits == \A b \in Buf : buffers[b].locked => b \in ToSet(sent) \/ \E c \in Reader : Sends(c, b)

\* The flusher has a buffer that has been read, and is still dirty before
\* the flag is cleared.
FlushingFits ==
  /\ flusher \in {"clear", "write", "io"} => flushing \in Buf /\ buffers[flushing].data = "read"
  /\ flusher \notin {"clear", "write", "io"} => flushing = 0
  /\ flusher = "clear" => buffers[flushing].dirty

\* Who has which buffer, and in which state.
OwnerInv == HeldFits /\ ListsFit /\ DataFits /\ StateFits /\ ReaderIsUnique /\ SentFits /\ LockedFits /\ FlushingFits

\* The inductive invariant.
BInv == BuffersTypeOK /\ OwnerInv /\ NoLostWrite /\ NumDirtyExact

----------------------------------------------------------------------------
\* The cache begins with free buffers only.
LEMMA BuffersInitInv == BuffersInit => BInv
  <1> SUFFICES ASSUME BuffersInit  PROVE BInv
    OBVIOUS
  <1>1. \A b \in Buf : buffers[b] = FreeBuffer  BY DEF BuffersInit
  <1>2. BuffersTypeOK  BY DEF BuffersInit, BuffersTypeOK, FreeBuffer
  <1>3. \A k \in Block : hashLists[k] = <<>>  BY DEF BuffersInit
  <1>4. IsInjective(<<>>) /\ ToSet(<<>>) = {}  BY DEF IsInjective, ToSet
  <1>5. ListsFit /\ SentFits  BY <1>3, <1>4 DEF ListsFit, SentFits, BuffersInit
  <1>6. HeldFits /\ DataFits /\ StateFits /\ ReaderIsUnique /\ LockedFits /\ FlushingFits
    BY <1>1 DEF HeldFits, DataFits, StateFits, ReaderIsUnique, LockedFits, FlushingFits, BuffersInit,
                FreeBuffer, Reads, Uses
  <1>7. NoLostWrite  BY <1>1 DEF NoLostWrite, FreeBuffer
  <1>8. NumDirtyExact
    <2>1. {c \in Reader : at[c] = "count"} = {} /\ {b \in Buf : buffers[b].dirty} = {}
      BY <1>1 DEF BuffersInit, FreeBuffer
    <2>2. numDirty = 0 /\ flusher = "awake" /\ Cardinality({}) = 0  BY FS_EmptySet DEF BuffersInit
    <2> DEFINE C == {c \in Reader : at[c] = "count"}
               D == {b \in Buf : buffers[b].dirty}
    <2>3. C = {} /\ D = {}  BY <2>1
    <2>4. NumDirtyExact <=> numDirty + Cardinality(C) + (IF flusher = "clear" THEN 1 ELSE 0) = Cardinality(D)
      BY DEF NumDirtyExact
    <2> HIDE DEF C, D
    <2>5. QED  BY <2>2, <2>3, <2>4
  <1>9. QED  BY <1>2, <1>5, <1>6, <1>7, <1>8 DEF BInv, OwnerInv

\* A thread that neither begins nor ends a read and changes no buffer.
LEMMA ThreadStep ==
  ASSUME BuffersTypeOK, OwnerInv, NEW c \in Reader, NEW a, NEW h,
         at[c] # "send", a # "send", a = "io" => at[c] = "io" /\ h = held[c],
         at' = [at EXCEPT ![c] = a], held' = [held EXCEPT ![c] = h],
         a \in {"run", "gone"} => h = 0,
         a = "alloc" => h \in Block,
         a \notin {"run", "gone", "alloc"} => h \in Buf,
         a \in {"test", "link", "suspend", "asleep"} => buffers[h].data \in {"reading", "read"},
         a \in {"use", "changed", "count", "resume"} => buffers[h].data = "read",
         UNCHANGED <<buffers, hashLists, sent, moved, flushing>>,
         flusher' = flusher \/ (flusher = "asleep" /\ flusher' = "check")
  PROVE  OwnerInv'
  <1>1. \A d \in Reader : at'[d] = (IF d = c THEN a ELSE at[d]) /\ held'[d] = (IF d = c THEN h ELSE held[d])
    BY DEF BuffersTypeOK
  <1>2. \A d \in Reader, b \in Buf : Sends(d, b) <=> Sends(d, b)'
    BY <1>1 DEF Sends
  <1>3. \A d \in Reader, b \in Buf : Reads(d, b)' => Reads(d, b)
    BY <1>1 DEF Reads
  <1>4. HeldFits'  BY <1>1 DEF HeldFits, OwnerInv
  <1>5. ListsFit' /\ DataFits'  BY DEF ListsFit, DataFits, OwnerInv
  <1>6. StateFits'
    <2> SUFFICES ASSUME NEW d \in Reader, NEW b \in Buf
                 PROVE  /\ at'[d] = "send" /\ held'[d] = b => buffers[b].data = "reading"
                        /\ at'[d] = "io" /\ held'[d] = b => buffers[b].data # "free"
                        /\ at'[d] \in {"test", "link", "suspend", "asleep"} /\ held'[d] = b
                             => buffers[b].data \in {"reading", "read"}
                        /\ Uses(d, b)' => buffers[b].data = "read"
      BY DEF StateFits
    <2>1. CASE d # c  BY <2>1, <1>1 DEF StateFits, OwnerInv, Uses
    <2>2. CASE d = c  BY <2>2, <1>1 DEF StateFits, OwnerInv, Uses
    <2>3. QED  BY <2>1, <2>2
  <1>7. ReaderIsUnique'  BY <1>3 DEF ReaderIsUnique, OwnerInv
  <1>8. ToSet(sent) \subseteq Buf  BY DEF ToSet, BuffersTypeOK
  <1>9. SentFits'  BY <1>2, <1>8 DEF SentFits, OwnerInv
  <1>10. LockedFits'  BY <1>2 DEF LockedFits, OwnerInv
  <1>11. FlushingFits'  BY DEF FlushingFits, OwnerInv
  <1>12. QED  BY <1>4, <1>5, <1>6, <1>7, <1>9, <1>10, <1>11 DEF OwnerInv

\* What a step of a thread, or of the flusher, leaves of the counter.
LEMMA CountKept ==
  ASSUME NumDirtyExact, BuffersTypeOK,
         \A c \in Reader : at'[c] = "count" <=> at[c] = "count",
         \A b \in Buf : buffers'[b].dirty <=> buffers[b].dirty,
         UNCHANGED numDirty, flusher' = "clear" <=> flusher = "clear"
  PROVE  NumDirtyExact'
  <1>1. {c \in Reader : at[c] = "count"}' = {c \in Reader : at[c] = "count"}  OBVIOUS
  <1>2. {b \in Buf : buffers[b].dirty}' = {b \in Buf : buffers[b].dirty}  OBVIOUS
  <1>3. QED  BY <1>1, <1>2 DEF NumDirtyExact

\* ... and of the changes that are still to be written.
LEMMA WritesKept ==
  ASSUME NoLostWrite,
         \A c \in Reader, b \in Buf : held[c] = b /\ at[c] = "changed" => held'[c] = b /\ at'[c] = "changed",
         UNCHANGED <<buffers, sent, moved, flushing>>,
         flusher \in {"write", "io"} => flusher' = flusher
  PROVE  NoLostWrite'
  BY DEF NoLostWrite

\* Such a step, with what the thread may have then.
MayHave(a, h) ==
  /\ a \in {"run", "alloc", "test", "link", "suspend", "asleep", "use", "gone"}
  /\ a \in {"run", "gone"} => h = 0
  /\ a = "alloc" => h \in Block
  /\ a \notin {"run", "gone", "alloc"} => h \in Buf
  /\ a \in {"test", "link", "suspend", "asleep"} => buffers[h].data \in {"reading", "read"}
  /\ a = "use" => buffers[h].data = "read"

\* A wake-up of the flusher takes it back to its test.
FlusherMayResume == flusher' = flusher \/ (flusher = "asleep" /\ flusher' = "check")

\* A step that only takes thread c to step a with h.
Moves(c, a, h) ==
  /\ at[c] \notin {"send", "changed", "count"}
  /\ at' = [at EXCEPT ![c] = a] /\ held' = [held EXCEPT ![c] = h]
  /\ waiting' \subseteq Reader
  /\ UNCHANGED <<buffers, hashLists, numDirty, sent, moved, flushing>>
  /\ FlusherMayResume

\* A step that only moves a thread keeps the invariant, if the thread may have
\* what it takes along.
LEMMA MoveStep ==
  ASSUME BInv, NEW c \in Reader, NEW a, NEW h, MayHave(a, h), Moves(c, a, h)
  PROVE  BInv'
  <1> USE DEF MayHave, Moves, FlusherMayResume
  <1>1. \A d \in Reader : at'[d] = (IF d = c THEN a ELSE at[d]) /\ held'[d] = (IF d = c THEN h ELSE held[d])
    BY DEF BInv, BuffersTypeOK
  <1>2. h \in Buf \cup Block \cup {0}  OBVIOUS
  <1>3. BuffersTypeOK'  BY <1>2 DEF BInv, BuffersTypeOK
  <1>4. OwnerInv'
    <2>1. BuffersTypeOK /\ OwnerInv /\ at[c] # "send" /\ a \notin {"send", "io", "changed", "count", "resume"}
      BY DEF BInv
    <2>2. QED  BY <2>1, ThreadStep
  <1>5. NumDirtyExact'
    <2>1. \A d \in Reader : at'[d] = "count" <=> at[d] = "count"  BY <1>1
    <2>2. QED  BY <2>1, CountKept DEF BInv
  <1>6. NoLostWrite'
    <2>1. \A d \in Reader, b \in Buf : held[d] = b /\ at[d] = "changed" => held'[d] = b /\ at'[d] = "changed"
      BY <1>1
    <2>2. QED  BY <2>1, WritesKept DEF BInv
  <1>7. QED  BY <1>3, <1>4, <1>5, <1>6 DEF BInv

\* WAIT_ON, BlockWrite behind its first step, and BlockFree.
LEMMA PlainSteps ==
  ASSUME BInv, NEW c \in Reader,
         \/ \E k \in Block : BlockRead(c, k)
         \/ WaitForBuffer(c) \/ BufferPrepareWait(c) \/ BufferSuspend(c)
         \/ BlockWriteResume(c) \/ BlockFree(c)
  PROVE  BInv'
  <1> USE DEF flusherVars
  <1> SUFFICES \E a, h : MayHave(a, h) /\ Moves(c, a, h)
    BY Zenon, MoveStep
  <1>2. HeldFits /\ StateFits /\ ListsFit /\ DataFits /\ BuffersTypeOK  BY DEF BInv, OwnerInv
  <1>1. FlusherMayResume
    <2>1. CASE BlockWriteResume(c)  BY <2>1 DEF BlockWriteResume, FlusherMayResume
    <2>2. CASE ~BlockWriteResume(c)
      <3>1. flusher' = flusher
        BY <2>2 DEF BlockRead, WaitForBuffer, BufferPrepareWait, BufferSuspend, BlockFree
      <3>2. QED  BY <3>1 DEF FlusherMayResume
    <2>3. QED  BY <2>1, <2>2
  <1>3. held = [held EXCEPT ![c] = held[c]] /\ waiting \subseteq Reader /\ FlusherMayResume
    BY <1>1, <1>2 DEF BuffersTypeOK
  <1>4. ASSUME NEW k \in Block, BlockRead(c, k)
        PROVE  \E a, h : MayHave(a, h) /\ Moves(c, a, h)
    <2>1. CASE hashLists[k] = <<>>
      <3>1. MayHave("alloc", k) /\ Moves(c, "alloc", k)  BY <1>3, <1>4, <2>1 DEF BlockRead, MayHave, Moves
      <3>2. QED  BY <3>1
    <2>2. CASE hashLists[k] # <<>>
      <3> DEFINE b == Head(hashLists[k])
      <3>1. b \in Buf /\ b \in ToSet(hashLists[k])
        BY <2>2, <1>2, TailFacts DEF BuffersTypeOK, ListsFit
      <3>2. buffers[b].data \in {"reading", "read", "error"}  BY <3>1, <1>2 DEF BuffersTypeOK, ListsFit
      <3>3. CASE buffers[b].data = "error"
        <4>1. MayHave("gone", 0) /\ Moves(c, "gone", 0)  BY <1>3, <1>4, <2>2, <3>3 DEF BlockRead, MayHave, Moves
        <4>2. QED  BY <4>1
      <3>4. CASE buffers[b].data # "error"
        <4>1. Moves(c, "test", b)  BY <1>3, <1>4, <2>2, <3>4 DEF BlockRead, Moves
        <4>2. MayHave("test", b)  BY <3>1, <3>2, <3>4 DEF MayHave
        <4>3. QED  BY Zenon, <4>1, <4>2
      <3>5. QED  BY <3>3, <3>4
    <2>3. QED  BY <2>1, <2>2
  <1>5. ASSUME at[c] \in {"test", "link", "suspend"}
        PROVE  /\ MayHave("link", held[c]) /\ MayHave("suspend", held[c]) /\ MayHave("asleep", held[c])
               /\ ~buffers[held[c]].locked => MayHave("use", held[c])
    <2>1. held[c] \in Buf /\ buffers[held[c]].data \in {"reading", "read"}
      BY <1>2, <1>5 DEF HeldFits, StateFits
    <2>2. ~buffers[held[c]].locked => buffers[held[c]].data = "read"  BY <2>1, <1>2 DEF DataFits
    <2>3. QED  BY <2>1, <2>2 DEF MayHave
  <1>6. CASE WaitForBuffer(c)
    <2>1. at[c] = "test"  BY <1>6 DEF WaitForBuffer
    <2>2. CASE buffers[held[c]].locked
      <3>1. Moves(c, "link", held[c])  BY <1>3, <1>6, <2>2 DEF WaitForBuffer, Moves
      <3>2. QED  BY Zenon, <2>1, <3>1, <1>5
    <2>3. CASE ~buffers[held[c]].locked
      <3>1. Moves(c, "use", held[c])  BY <1>3, <1>6, <2>3 DEF WaitForBuffer, Moves
      <3>2. QED  BY Zenon, <2>1, <2>3, <3>1, <1>5
    <2>4. QED  BY <2>2, <2>3
  <1>7. CASE BufferPrepareWait(c)
    <2>1. at[c] = "link"  BY <1>7 DEF BufferPrepareWait
    <2>2. CASE buffers[held[c]].locked
      <3>1. Moves(c, "suspend", held[c])  BY <1>3, <1>7, <2>2 DEF BufferPrepareWait, Moves
      <3>2. QED  BY Zenon, <2>1, <3>1, <1>5
    <2>3. CASE ~buffers[held[c]].locked
      <3>1. Moves(c, "use", held[c])  BY <1>3, <1>7, <2>3 DEF BufferPrepareWait, Moves
      <3>2. QED  BY Zenon, <2>1, <2>3, <3>1, <1>5
    <2>4. QED  BY <2>2, <2>3
  <1>8. CASE BufferSuspend(c)
    <2>1. at[c] = "suspend"  BY <1>8 DEF BufferSuspend
    <2>2. Moves(c, "asleep", held[c])  BY <1>3, <1>8 DEF BufferSuspend, Moves
    <2>3. QED  BY Zenon, <2>1, <2>2, <1>5
  <1>9. CASE BlockWriteResume(c)
    <2>1. held[c] \in Buf /\ buffers[held[c]].data = "read"
      BY <1>2, <1>9 DEF BlockWriteResume, HeldFits, StateFits, Uses
    <2>2. Moves(c, "use", held[c])  BY <1>3, <1>9 DEF BlockWriteResume, Moves
    <2>3. MayHave("use", held[c])  BY <2>1 DEF MayHave
    <2>4. QED  BY Zenon, <2>2, <2>3
  <1>10. CASE BlockFree(c)
    <2>1. MayHave("run", 0) /\ Moves(c, "run", 0)  BY <1>3, <1>10 DEF BlockFree, MayHave, Moves
    <2>2. QED  BY <2>1
  <1>11. QED  BY <1>4, <1>6, <1>7, <1>8, <1>9, <1>10

----------------------------------------------------------------------------
\* The two sets that numDirty compares.
Counting == {c \in Reader : at[c] = "count"}
Dirty == {b \in Buf : buffers[b].dirty}

\* Both sets are finite.
LEMMA CountsFinite ==
  /\ IsFiniteSet(Counting) /\ Cardinality(Counting) \in Nat
  /\ IsFiniteSet(Dirty) /\ Cardinality(Dirty) \in Nat
  <1>1. IsFiniteSet(Buf)  BY FS_Interval, BufferCacheAssumption DEF Buf
  <1>2. IsFiniteSet(Counting) /\ IsFiniteSet(Dirty)
    <2>1. Counting \in SUBSET Reader /\ Dirty \in SUBSET Buf  BY DEF Counting, Dirty
    <2>2. QED  BY <1>1, <2>1, FS_Subset, BufferCacheAssumption
  <1>3. QED  BY <1>2, FS_CardinalityType

\* NumDirtyExact in terms of the two sets.
LEMMA CountsExact ==
  NumDirtyExact <=> numDirty + Cardinality(Counting) + (IF flusher = "clear" THEN 1 ELSE 0) = Cardinality(Dirty)
  BY DEF NumDirtyExact, Counting, Dirty

\* BlockWrite counts the buffer that it has set dirty.
LEMMA CountStep ==
  ASSUME BInv, NEW c \in Reader, BlockWriteCount(c)
  PROVE  BInv'
  <1>1. BuffersTypeOK /\ OwnerInv /\ HeldFits /\ StateFits  BY DEF BInv, OwnerInv
  <1>2. /\ at[c] = "count" /\ at' = [at EXCEPT ![c] = "resume"] /\ numDirty' = numDirty + 1
        /\ held' = held /\ waiting' = waiting /\ flusher' = flusher
        /\ UNCHANGED <<buffers, hashLists, sent, moved, flushing>>
    BY DEF BlockWriteCount, flusherVars
  <1>3. held[c] \in Buf /\ buffers[held[c]].data = "read"
    BY <1>1, <1>2 DEF HeldFits, StateFits, Uses
  <1>4. OwnerInv'
    <2>1. held' = [held EXCEPT ![c] = held[c]]  BY <1>1, <1>2 DEF BuffersTypeOK
    <2>2. QED  BY <1>1, <1>2, <1>3, <2>1, ThreadStep
  <1>5. BuffersTypeOK'  BY <1>1, <1>2 DEF BuffersTypeOK
  <1>6. \A d \in Reader : at'[d] = IF d = c THEN "resume" ELSE at[d]  BY <1>1, <1>2 DEF BuffersTypeOK
  <1>7. NoLostWrite'
    <2>1. \A d \in Reader, b \in Buf : held[d] = b /\ at[d] = "changed" => held'[d] = b /\ at'[d] = "changed"
      BY <1>2, <1>6
    <2>2. QED  BY <1>2, <2>1, WritesKept DEF BInv
  <1>8. NumDirtyExact'
    <2>1. Counting' = Counting \ {c} /\ c \in Counting  BY <1>2, <1>6 DEF Counting
    <2>2. Dirty' = Dirty  BY <1>2 DEF Dirty
    <2>3. Cardinality(Counting') = Cardinality(Counting) - 1
      BY <2>1, CountsFinite, FS_RemoveElement
    <2>4. numDirty + Cardinality(Counting) + (IF flusher = "clear" THEN 1 ELSE 0) = Cardinality(Dirty)
      BY CountsExact DEF BInv
    <2>5. numDirty' + Cardinality(Counting') + (IF flusher' = "clear" THEN 1 ELSE 0) = Cardinality(Dirty')
      <3>1. numDirty \in Nat  BY <1>1 DEF BuffersTypeOK
      <3>2. QED  BY <1>2, <2>2, <2>3, <2>4, <3>1, CountsFinite
    <2>6. QED  BY <2>5 DEF NumDirtyExact, Counting, Dirty
  <1>9. QED  BY <1>4, <1>5, <1>7, <1>8 DEF BInv

\* The reader sends the request for the buffer that it has locked.
LEMMA ReadSendStep ==
  ASSUME BInv, NEW c \in Reader, ReadSend(c)
  PROVE  BInv'
  <1> DEFINE b == held[c]
  <1>1. BuffersTypeOK /\ HeldFits /\ ListsFit /\ DataFits /\ StateFits /\ ReaderIsUnique /\ SentFits
          /\ LockedFits /\ FlushingFits
    BY DEF BInv, OwnerInv
  <1>2. /\ at[c] = "send" /\ at' = [at EXCEPT ![c] = "io"] /\ sent' = Append(sent, b)
        /\ held' = held /\ waiting' = waiting \cup {c} /\ flusher' = flusher /\ numDirty' = numDirty
        /\ UNCHANGED <<buffers, hashLists, moved, flushing>>
    BY DEF ReadSend, flusherVars
  <1>3. b \in Buf /\ buffers[b].data = "reading" /\ buffers[b].locked
    BY <1>1, <1>2 DEF HeldFits, StateFits, DataFits
  <1>4. b \notin ToSet(sent)  BY <1>1, <1>2 DEF SentFits, Sends
  <1>5. sent' \in Seq(Buf) /\ sent' # <<>> /\ ToSet(sent') = ToSet(sent) \cup {b} /\ IsInjective(sent')
    <2>1. sent \in Seq(Buf) /\ IsInjective(sent)  BY <1>1 DEF BuffersTypeOK, SentFits
    <2>2. QED  BY <1>2, <1>3, <1>4, <2>1, AppendFacts
  <1>6. \A d \in Reader : at'[d] = IF d = c THEN "io" ELSE at[d]  BY <1>1, <1>2 DEF BuffersTypeOK
  <1>7. BuffersTypeOK'  BY <1>1, <1>2, <1>5 DEF BuffersTypeOK
  <1>8. \A d \in Reader, x \in Buf : Reads(d, x)' <=> Reads(d, x)  BY <1>2, <1>6 DEF Reads
  <1>9. \A d \in Reader, x \in Buf : Sends(d, x)' <=> Sends(d, x) /\ d # c  BY <1>2, <1>6 DEF Sends
  <1>10. \A d \in Reader : Sends(d, b) => d = c
    BY <1>1, <1>2, <1>3 DEF ReaderIsUnique, Reads, Sends
  <1> HIDE DEF b
  <1>11. HeldFits'  BY <1>1, <1>2, <1>6 DEF HeldFits
  <1>12. ListsFit' /\ DataFits' /\ FlushingFits'  BY <1>1, <1>2 DEF ListsFit, DataFits, FlushingFits
  <1>13. StateFits'
    <2>1. \A x \in Buf : held[c] = x => buffers[x].data = "reading"  BY <1>1, <1>2 DEF StateFits
    <2>2. QED  BY <1>1, <1>2, <1>6, <2>1 DEF StateFits, Uses
  <1>14. ReaderIsUnique'  BY <1>1, <1>8 DEF ReaderIsUnique
  <1>15. ToSet(sent) \subseteq Buf  BY <1>1 DEF ToSet, BuffersTypeOK
  <1>16. SentFits'
    <2>1. \A x \in ToSet(sent') : buffers'[x].locked  BY <1>1, <1>2, <1>3, <1>5 DEF SentFits
    <2>2. \A x \in ToSet(sent'), d \in Reader : ~Sends(d, x)'
      BY <1>1, <1>3, <1>5, <1>9, <1>10, <1>15 DEF SentFits
    <2>3. \A x \in ToSet(sent') : buffers'[x].data = "read" => flusher' = "io" /\ flushing' = x
      BY <1>1, <1>2, <1>3, <1>5 DEF SentFits
    <2>4. QED  BY <1>5, <2>1, <2>2, <2>3 DEF SentFits
  <1>17. LockedFits'
    <2> SUFFICES ASSUME NEW x \in Buf, buffers[x].locked
                 PROVE  x \in ToSet(sent') \/ \E d \in Reader : Sends(d, x)'
      BY <1>2 DEF LockedFits
    <2>1. CASE x \in ToSet(sent)  BY <2>1, <1>5
    <2>2. CASE \E d \in Reader : Sends(d, x)
      <3>1. PICK d \in Reader : Sends(d, x)  BY <2>2
      <3>2. d = c => x = b  BY <3>1 DEF Sends, b
      <3>3. QED  BY <3>1, <3>2, <1>5, <1>9
    <2>3. QED  BY <2>1, <2>2, <1>1 DEF LockedFits
  <1>18. NumDirtyExact'
    <2>1. \A d \in Reader : at'[d] = "count" <=> at[d] = "count"  BY <1>2, <1>6
    <2>2. QED  BY <1>1, <1>2, <2>1, CountKept DEF BInv
  <1>19. NoLostWrite'
    <2> SUFFICES ASSUME NEW x \in Buf, ~buffers[x].saved
                 PROVE  \/ buffers[x].dirty \/ buffers[x].failed
                        \/ \E d \in Reader : held'[d] = x /\ at'[d] = "changed"
                        \/ flushing = x /\ flusher = "write"
                        \/ flushing = x /\ flusher = "io" /\ x \in ToSet(sent') /\ (Head(sent') = x => moved = "no")
      BY <1>2 DEF NoLostWrite
    <2>1. \A d \in Reader : held[d] = x /\ at[d] = "changed" => held'[d] = x /\ at'[d] = "changed"
      BY <1>2, <1>6
    <2>2. x \in ToSet(sent) => Head(sent') = Head(sent)
      <3>1. x \in ToSet(sent) => sent # <<>>  BY <1>1, EmptyFacts DEF BuffersTypeOK
      <3>2. QED  BY <1>1, <1>2, <1>3, <3>1 DEF BuffersTypeOK
    <2>3. QED  BY <1>5, <2>1, <2>2 DEF BInv, NoLostWrite
  <1>20. QED
    BY <1>7, <1>11, <1>12, <1>13, <1>14, <1>16, <1>17, <1>18, <1>19 DEF BInv, OwnerInv

\* Nobody has a free buffer.
LEMMA FreeIsUnused ==
  ASSUME BuffersTypeOK, OwnerInv, NEW b \in Buf, buffers[b].data = "free"
  PROVE  /\ \A d \in Reader : held[d] # b
         /\ \A k \in Block : b \notin ToSet(hashLists[k])
         /\ b \notin ToSet(sent) /\ flushing # b
         /\ ~buffers[b].locked /\ ~buffers[b].dirty /\ buffers[b].saved
  <1>1. HeldFits /\ ListsFit /\ DataFits /\ StateFits /\ SentFits /\ FlushingFits  BY DEF OwnerInv
  <1>2. ~buffers[b].locked /\ ~buffers[b].dirty /\ buffers[b].saved  BY <1>1 DEF DataFits
  <1>3. b # 0 /\ b \notin Block  BY BufferCacheAssumption DEF Buf
  <1>4. ASSUME NEW d \in Reader, held[d] = b  PROVE FALSE
    <2>1. at[d] \notin {"run", "gone", "alloc"}  BY <1>1, <1>3, <1>4 DEF HeldFits
    <2>2. at[d] \in {"test", "link", "suspend", "asleep", "send", "io", "use", "changed", "count", "resume"}
      BY <2>1 DEF BuffersTypeOK
    <2>3. QED  BY <1>1, <1>4, <2>2 DEF StateFits, Uses
  <1>5. QED  BY <1>1, <1>2, <1>3, <1>4 DEF ListsFit, SentFits, FlushingFits

\* BlockBufferAlloc locks a free buffer and puts it into the list.
LEMMA AllocStep ==
  ASSUME BInv, NEW c \in Reader, BlockBufferAlloc(c)
  PROVE  BInv'
  <1> DEFINE free == {x \in Buf : buffers[x].data = "free"}
  <1>1. BuffersTypeOK /\ HeldFits /\ ListsFit /\ DataFits /\ StateFits /\ ReaderIsUnique /\ SentFits
          /\ LockedFits /\ FlushingFits /\ OwnerInv
    BY DEF BInv, OwnerInv
  <1>2. CASE free = {}
    <2>1. flusher' = flusher  BY <1>2 DEF BlockBufferAlloc, flusherVars
    <2>2. Moves(c, "run", 0) /\ MayHave("run", 0)
      BY <1>1, <1>2, <2>1 DEF BlockBufferAlloc, flusherVars, Moves, MayHave, FlusherMayResume, BuffersTypeOK
    <2>3. QED  BY Zenon, <2>2, MoveStep
  <1>3. CASE free # {}
    <2> DEFINE k == held[c]
    <2>1. PICK b \in free : b = Min(free)
      <3>1. free \subseteq Nat  BY DEF Buf
      <3>2. QED  BY Zenon, <1>3, <3>1, MinMember
    <2>2. /\ at[c] = "alloc"
          /\ buffers' = [buffers EXCEPT ![b].data = "reading", ![b].locked = TRUE]
          /\ hashLists' = [hashLists EXCEPT ![k] = Append(@, b)]
          /\ at' = [at EXCEPT ![c] = "send"]
          /\ held' = [held EXCEPT ![c] = b]
          /\ UNCHANGED <<numDirty, sent, moved, waiting, flusher, flushing>>
      BY <1>3, <2>1 DEF BlockBufferAlloc, flusherVars
    <2>3. b \in Buf /\ buffers[b].data = "free"  BY <2>1
    <2> HIDE DEF free
    <2>4. k \in Block  BY <1>1, <2>2 DEF HeldFits
    <2>5. /\ \A d \in Reader : held[d] # b
          /\ \A l \in Block : b \notin ToSet(hashLists[l])
          /\ b \notin ToSet(sent) /\ flushing # b
          /\ ~buffers[b].locked /\ ~buffers[b].dirty /\ buffers[b].saved
      BY <1>1, <2>3, FreeIsUnused
    <2>6. /\ \A x \in Buf : x # b => buffers'[x] = buffers[x]
          /\ buffers'[b].data = "reading" /\ buffers'[b].locked
          /\ buffers'[b].dirty = buffers[b].dirty /\ buffers'[b].saved = buffers[b].saved
      BY <1>1, <2>2, <2>3 DEF BuffersTypeOK
    <2>7. \A d \in Reader : at'[d] = (IF d = c THEN "send" ELSE at[d]) /\ held'[d] = (IF d = c THEN b ELSE held[d])
      BY <1>1, <2>2 DEF BuffersTypeOK
    <2>8. \A l \in Block : /\ hashLists'[l] \in Seq(Buf) /\ IsInjective(hashLists'[l])
                           /\ ToSet(hashLists'[l]) \subseteq ToSet(hashLists[l]) \cup {b}
      <3> SUFFICES ASSUME NEW l \in Block
                   PROVE  /\ hashLists'[l] \in Seq(Buf) /\ IsInjective(hashLists'[l])
                          /\ ToSet(hashLists'[l]) \subseteq ToSet(hashLists[l]) \cup {b}
        OBVIOUS
      <3>1. hashLists[l] \in Seq(Buf) /\ IsInjective(hashLists[l])  BY <1>1 DEF BuffersTypeOK, ListsFit
      <3>2. CASE l # k
        <4>1. hashLists'[l] = hashLists[l]  BY <1>1, <2>2, <3>2 DEF BuffersTypeOK
        <4>2. QED  BY <3>1, <4>1
      <3>3. CASE l = k
        <4>1. hashLists'[l] = Append(hashLists[l], b)  BY <1>1, <2>2, <2>4, <3>3 DEF BuffersTypeOK
        <4>2. QED  BY <2>3, <2>5, <3>1, <4>1, AppendFacts
      <3>4. QED  BY <3>2, <3>3
    <2>9. BuffersTypeOK'
      <3>1. buffers' \in [Buf -> BufferRecord]
        <4>1. buffers[b] \in BufferRecord  BY <1>1, <2>3 DEF BuffersTypeOK, BufferRecord
        <4>2. [buffers[b] EXCEPT !.data = "reading", !.locked = TRUE] \in BufferRecord  BY <4>1 DEF BufferRecord
        <4>3. buffers' = [buffers EXCEPT ![b] = [buffers[b] EXCEPT !.data = "reading", !.locked = TRUE]]
          BY <1>1, <2>2, <2>3 DEF BuffersTypeOK
        <4>4. QED  BY <1>1, <4>2, <4>3 DEF BuffersTypeOK, BufferRecord
      <3>2. hashLists' \in [Block -> Seq(Buf)]
        <4>1. hashLists' = [l \in Block |-> hashLists'[l]]  BY <1>1, <2>2 DEF BuffersTypeOK
        <4>2. QED  BY <4>1, <2>8
      <3>3. at' \in [Reader -> {"run", "alloc", "test", "link", "suspend", "asleep",
                                "send", "io", "use", "changed", "count", "resume", "gone"}]
              /\ held' \in [Reader -> Buf \cup Block \cup {0}]
        BY <1>1, <2>2, <2>3 DEF BuffersTypeOK
      <3>4. QED  BY <1>1, <2>2, <3>1, <3>2, <3>3 DEF BuffersTypeOK, BufferRecord
    <2>10. HeldFits'  BY <1>1, <2>3, <2>7 DEF HeldFits
    <2>11. ListsFit'
      <3>1. \A l \in Block : \A x \in ToSet(hashLists'[l]) : buffers'[x].data # "free"
        <4> SUFFICES ASSUME NEW l \in Block, NEW x \in ToSet(hashLists'[l])  PROVE buffers'[x].data # "free"
          OBVIOUS
        <4>1. CASE x = b  BY <4>1, <2>6
        <4>2. CASE x # b
          <5>1. x \in ToSet(hashLists[l])  BY <4>2, <2>8
          <5>2. x \in Buf  BY <5>1, <1>1 DEF BuffersTypeOK, ToSet
          <5>3. QED  BY <4>2, <5>1, <5>2, <2>6, <1>1 DEF ListsFit
        <4>3. QED  BY <4>1, <4>2
      <3>2. QED  BY <2>8, <3>1 DEF ListsFit
    <2>12. DataFits'
      <3> SUFFICES ASSUME NEW x \in Buf
                   PROVE  /\ buffers'[x].data = "reading" => buffers'[x].locked
                          /\ buffers'[x].data \in {"free", "error"} => ~buffers'[x].locked
                          /\ buffers'[x].data # "read" => buffers'[x].saved /\ ~buffers'[x].dirty
        BY DEF DataFits
      <3>1. CASE x = b  BY <3>1, <2>5, <2>6
      <3>2. CASE x # b  BY <3>2, <2>6, <1>1 DEF DataFits
      <3>3. QED  BY <3>1, <3>2
    <2>13. StateFits'
      <3> SUFFICES ASSUME NEW d \in Reader, NEW x \in Buf
                   PROVE  /\ at'[d] = "send" /\ held'[d] = x => buffers'[x].data = "reading"
                          /\ at'[d] = "io" /\ held'[d] = x => buffers'[x].data # "free"
                          /\ at'[d] \in {"test", "link", "suspend", "asleep"} /\ held'[d] = x
                               => buffers'[x].data \in {"reading", "read"}
                          /\ Uses(d, x)' => buffers'[x].data = "read"
        BY DEF StateFits
      <3>1. CASE d = c  BY <3>1, <2>6, <2>7 DEF Uses
      <3>2. CASE d # c /\ x # b  BY <3>2, <2>6, <2>7, <1>1 DEF StateFits, Uses
      <3>3. CASE d # c /\ x = b  BY <3>3, <2>5, <2>7 DEF Uses
      <3>4. QED  BY <3>1, <3>2, <3>3
    <2>14. \A d \in Reader, x \in Buf : x # b => (Sends(d, x)' => Sends(d, x)) /\ (Reads(d, x)' => Reads(d, x))
      BY <2>7 DEF Sends, Reads
    <2>15. \A d \in Reader, x \in Buf : Sends(d, x) => Sends(d, x)'
      BY <2>2, <2>7 DEF Sends
    <2>16. \A d \in Reader : Sends(d, b)' <=> d = c  BY <2>5, <2>7 DEF Sends
    <2>17. \A d \in Reader : Reads(d, b)' => d = c  BY <2>5, <2>7 DEF Reads
    <2>18. ReaderIsUnique'
      <3> SUFFICES ASSUME NEW d \in Reader, NEW e \in Reader, NEW x \in Buf, Reads(d, x)', Reads(e, x)'
                   PROVE  d = e
        BY DEF ReaderIsUnique
      <3>1. CASE x = b  BY <3>1, <2>17
      <3>2. CASE x # b  BY <3>2, <2>14, <1>1 DEF ReaderIsUnique
      <3>3. QED  BY <3>1, <3>2
    <2>19. \A x \in ToSet(sent) : x \in Buf /\ x # b  BY <1>1, <2>5 DEF ToSet, BuffersTypeOK
    <2>20. SentFits'
      <3>1. \A x \in ToSet(sent) : /\ buffers'[x].locked
                                   /\ buffers'[x].data = "read" => flusher = "io" /\ flushing = x
        BY <1>1, <2>6, <2>19 DEF SentFits
      <3>2. \A x \in ToSet(sent), d \in Reader : ~Sends(d, x)'  BY <1>1, <2>14, <2>19 DEF SentFits
      <3>3. QED  BY <1>1, <2>2, <3>1, <3>2 DEF SentFits
    <2>21. LockedFits'
      <3> SUFFICES ASSUME NEW x \in Buf, buffers'[x].locked
                   PROVE  x \in ToSet(sent) \/ \E d \in Reader : Sends(d, x)'
        BY <2>2 DEF LockedFits
      <3>1. CASE x = b  BY <3>1, <2>16
      <3>2. CASE x # b  BY <3>2, <2>6, <2>15, <1>1 DEF LockedFits
      <3>3. QED  BY <3>1, <3>2
    <2>22. FlushingFits'
      <3>1. flushing \in Buf => buffers'[flushing] = buffers[flushing]  BY <2>5, <2>6
      <3>2. QED  BY <1>1, <2>2, <3>1 DEF FlushingFits
    <2>23. NumDirtyExact'
      <3>1. \A d \in Reader : at'[d] = "count" <=> at[d] = "count"  BY <2>2, <2>7
      <3>2. \A x \in Buf : buffers'[x].dirty <=> buffers[x].dirty  BY <2>6
      <3>3. QED  BY <1>1, <2>2, <3>1, <3>2, CountKept DEF BInv
    <2>24. NoLostWrite'
      <3> SUFFICES ASSUME NEW x \in Buf, ~buffers'[x].saved
                   PROVE  \/ buffers'[x].dirty \/ buffers'[x].failed
                          \/ \E d \in Reader : held'[d] = x /\ at'[d] = "changed"
                          \/ flushing = x /\ flusher = "write"
                          \/ flushing = x /\ flusher = "io" /\ x \in ToSet(sent) /\ (Head(sent) = x => moved = "no")
        BY <2>2 DEF NoLostWrite
      <3>1. x # b /\ buffers'[x] = buffers[x]  BY <2>5, <2>6
      <3>2. \A d \in Reader : held[d] = x /\ at[d] = "changed" => held'[d] = x /\ at'[d] = "changed"
        BY <2>2, <2>7
      <3>3. QED  BY <3>1, <3>2 DEF BInv, NoLostWrite
    <2>25. QED
      BY <2>9, <2>10, <2>11, <2>12, <2>13, <2>18, <2>20, <2>21, <2>22, <2>23, <2>24 DEF BInv, OwnerInv
  <1>4. QED  BY <1>2, <1>3

----------------------------------------------------------------------------
\* A step that neither locks, unlocks, allocates nor frees a buffer.
LEMMA FlagsStep ==
  ASSUME BuffersTypeOK, OwnerInv,
         \A x \in Buf : /\ buffers'[x].data = buffers[x].data /\ buffers'[x].locked = buffers[x].locked
                        /\ buffers[x].data # "read" => buffers'[x].saved /\ ~buffers'[x].dirty,
         UNCHANGED <<hashLists, sent, held>>,
         \A d \in Reader : \/ at'[d] = at[d]
                           \/ at[d] \in {"use", "changed"} /\ at'[d] \in {"use", "changed", "count", "resume"},
         FlushingFits',
         moved' # "no" => sent # <<>>,
         \A x \in ToSet(sent) : buffers[x].data = "read" => flusher' = "io" /\ flushing' = x
  PROVE  OwnerInv'
  <1>1. HeldFits /\ ListsFit /\ DataFits /\ StateFits /\ ReaderIsUnique /\ SentFits /\ LockedFits
    BY DEF OwnerInv
  <1>2. \A d \in Reader, x \in Buf : (Reads(d, x)' <=> Reads(d, x)) /\ (Sends(d, x)' <=> Sends(d, x))
    BY DEF Reads, Sends
  <1>3. HeldFits'  BY <1>1 DEF HeldFits
  <1>4. ToSet(sent) \subseteq Buf /\ \A k \in Block : ToSet(hashLists[k]) \subseteq Buf
    BY DEF ToSet, BuffersTypeOK
  <1>5. ListsFit'  BY <1>1, <1>4 DEF ListsFit
  <1>6. DataFits'  BY <1>1 DEF DataFits
  <1>7. StateFits'  BY <1>1 DEF StateFits, Uses
  <1>8. ReaderIsUnique'  BY <1>1, <1>2 DEF ReaderIsUnique
  <1>9. SentFits'  BY <1>1, <1>2, <1>4 DEF SentFits
  <1>10. LockedFits'  BY <1>1, <1>2 DEF LockedFits
  <1>11. QED  BY <1>3, <1>5, <1>6, <1>7, <1>8, <1>9, <1>10 DEF OwnerInv

\* What changes when the data of a buffer is changed, ...
LEMMA SavedFacts ==
  ASSUME BuffersTypeOK, NEW b \in Buf, NEW v \in BOOLEAN, buffers' = [buffers EXCEPT ![b].saved = v]
  PROVE  /\ buffers' \in [Buf -> BufferRecord]
         /\ \A x \in Buf : /\ buffers'[x].data = buffers[x].data /\ buffers'[x].locked = buffers[x].locked
                           /\ buffers'[x].dirty = buffers[x].dirty /\ buffers'[x].failed = buffers[x].failed
                           /\ buffers'[x].saved = IF x = b THEN v ELSE buffers[x].saved
  <1>1. \A x \in Buf : buffers[x] \in BufferRecord  BY DEF BuffersTypeOK, BufferRecord
  <1>2. buffers = [x \in Buf |-> buffers[x]]  BY DEF BuffersTypeOK
  <1>3. buffers' = [x \in Buf |-> IF x = b THEN [buffers[b] EXCEPT !.saved = v] ELSE buffers[x]]  BY <1>2
  <1>4. [buffers[b] EXCEPT !.saved = v] \in BufferRecord  BY <1>1 DEF BufferRecord
  <1>5. buffers' \in [Buf -> BufferRecord]  BY <1>1, <1>3, <1>4
  <1>6. QED  BY <1>1, <1>3, <1>5 DEF BufferRecord

\* ... when BUFFER_DIRTY is set or cleared, ...
LEMMA DirtyFacts ==
  ASSUME BuffersTypeOK, NEW b \in Buf, NEW v \in BOOLEAN, buffers' = [buffers EXCEPT ![b].dirty = v]
  PROVE  /\ buffers' \in [Buf -> BufferRecord]
         /\ \A x \in Buf : /\ buffers'[x].data = buffers[x].data /\ buffers'[x].locked = buffers[x].locked
                           /\ buffers'[x].saved = buffers[x].saved /\ buffers'[x].failed = buffers[x].failed
                           /\ buffers'[x].dirty = IF x = b THEN v ELSE buffers[x].dirty
  <1>1. \A x \in Buf : buffers[x] \in BufferRecord  BY DEF BuffersTypeOK, BufferRecord
  <1>2. buffers = [x \in Buf |-> buffers[x]]  BY DEF BuffersTypeOK
  <1>3. buffers' = [x \in Buf |-> IF x = b THEN [buffers[b] EXCEPT !.dirty = v] ELSE buffers[x]]  BY <1>2
  <1>4. [buffers[b] EXCEPT !.dirty = v] \in BufferRecord  BY <1>1 DEF BufferRecord
  <1>5. buffers' \in [Buf -> BufferRecord]  BY <1>1, <1>3, <1>4
  <1>6. QED  BY <1>1, <1>3, <1>5 DEF BufferRecord

\* ... and when a write fails.
LEMMA FailedFacts ==
  ASSUME BuffersTypeOK, NEW b \in Buf, NEW v \in BOOLEAN, buffers' = [buffers EXCEPT ![b].failed = v]
  PROVE  /\ buffers' \in [Buf -> BufferRecord]
         /\ \A x \in Buf : /\ buffers'[x].data = buffers[x].data /\ buffers'[x].locked = buffers[x].locked
                           /\ buffers'[x].dirty = buffers[x].dirty /\ buffers'[x].saved = buffers[x].saved
                           /\ buffers'[x].failed = IF x = b THEN v ELSE buffers[x].failed
  <1>1. \A x \in Buf : buffers[x] \in BufferRecord  BY DEF BuffersTypeOK, BufferRecord
  <1>2. buffers = [x \in Buf |-> buffers[x]]  BY DEF BuffersTypeOK
  <1>3. buffers' = [x \in Buf |-> IF x = b THEN [buffers[b] EXCEPT !.failed = v] ELSE buffers[x]]  BY <1>2
  <1>4. [buffers[b] EXCEPT !.failed = v] \in BufferRecord  BY <1>1 DEF BufferRecord
  <1>5. buffers' \in [Buf -> BufferRecord]  BY <1>1, <1>3, <1>4
  <1>6. QED  BY <1>1, <1>3, <1>5 DEF BufferRecord

\* A thread changes its data; BlockWrite sets BUFFER_DIRTY.
LEMMA ChangeSteps ==
  ASSUME BInv, NEW c \in Reader, ChangeData(c) \/ BlockWriteDirty(c)
  PROVE  BInv'
  <1> DEFINE b == held[c]
  <1>1. BuffersTypeOK /\ OwnerInv /\ HeldFits /\ StateFits /\ DataFits /\ SentFits /\ FlushingFits  BY DEF BInv, OwnerInv
  <1>2. /\ at[c] \in {"use", "changed"}
        /\ UNCHANGED <<hashLists, numDirty, sent, moved, held, waiting, flusher, flushing>>
    BY DEF ChangeData, BlockWriteDirty, flusherVars
  <1>3. b \in Buf /\ buffers[b].data = "read"
    BY <1>1, <1>2 DEF HeldFits, StateFits, Uses
  <1>4. CASE ChangeData(c)
    <2>1. at[c] = "use" /\ at' = [at EXCEPT ![c] = "changed"] /\ buffers' = [buffers EXCEPT ![b].saved = FALSE]
      BY <1>4 DEF ChangeData
    <2>2. \A d \in Reader : at'[d] = IF d = c THEN "changed" ELSE at[d]  BY <1>1, <2>1 DEF BuffersTypeOK
    <2>3. /\ buffers' \in [Buf -> BufferRecord]
          /\ \A x \in Buf : /\ buffers'[x].data = buffers[x].data /\ buffers'[x].locked = buffers[x].locked
                            /\ buffers'[x].dirty = buffers[x].dirty /\ buffers'[x].failed = buffers[x].failed
                            /\ buffers'[x].saved = IF x = b THEN FALSE ELSE buffers[x].saved
      BY <1>1, <1>3, <2>1, SavedFacts
    <2> HIDE DEF b
    <2>4. BuffersTypeOK'  BY <1>1, <1>2, <2>1, <2>3 DEF BuffersTypeOK, BufferRecord
    <2>5. OwnerInv'
      <3>1. \A x \in Buf : buffers[x].data # "read" => buffers'[x].saved /\ ~buffers'[x].dirty
        BY <1>1, <1>3, <2>3 DEF DataFits
      <3>2. FlushingFits'  BY <1>1, <1>2, <2>3 DEF FlushingFits
      <3>3. \A d \in Reader : \/ at'[d] = at[d]
                              \/ at[d] \in {"use", "changed"} /\ at'[d] \in {"use", "changed", "count", "resume"}
        BY <2>1, <2>2
      <3>4. /\ moved' # "no" => sent # <<>>
            /\ \A x \in ToSet(sent) : buffers[x].data = "read" => flusher' = "io" /\ flushing' = x
        BY <1>1, <1>2 DEF SentFits
      <3>5. QED  BY <1>1, <1>2, <2>3, <3>1, <3>2, <3>3, <3>4, FlagsStep
    <2>6. NumDirtyExact'
      <3>1. \A d \in Reader : at'[d] = "count" <=> at[d] = "count"  BY <2>1, <2>2
      <3>2. QED  BY <1>1, <1>2, <2>3, <3>1, CountKept DEF BInv
    <2>7. NoLostWrite'
      <3> SUFFICES ASSUME NEW x \in Buf, ~buffers'[x].saved
                   PROVE  \/ buffers'[x].dirty \/ buffers'[x].failed
                          \/ \E d \in Reader : held'[d] = x /\ at'[d] = "changed"
                          \/ flushing = x /\ flusher = "write"
                          \/ flushing = x /\ flusher = "io" /\ x \in ToSet(sent) /\ (Head(sent) = x => moved = "no")
        BY <1>2 DEF NoLostWrite
      <3>1. CASE x = b  BY <3>1, <1>2, <2>2 DEF b
      <3>2. CASE x # b
        <4>1. \A d \in Reader : held[d] = x /\ at[d] = "changed" => held'[d] = x /\ at'[d] = "changed"
          BY <1>2, <2>2
        <4>2. QED  BY <3>2, <4>1, <2>3 DEF BInv, NoLostWrite
      <3>3. QED  BY <3>1, <3>2
    <2>8. QED  BY <2>4, <2>5, <2>6, <2>7 DEF BInv
  <1>5. CASE BlockWriteDirty(c)
    <2>1. /\ at[c] = "changed" /\ at' = [at EXCEPT ![c] = IF buffers[b].dirty THEN "resume" ELSE "count"]
          /\ buffers' = [buffers EXCEPT ![b].dirty = TRUE]
      BY <1>5 DEF BlockWriteDirty
    <2>2. \A d \in Reader : at'[d] = IF d = c THEN (IF buffers[b].dirty THEN "resume" ELSE "count") ELSE at[d]
      BY <1>1, <2>1 DEF BuffersTypeOK
    <2>3. /\ buffers' \in [Buf -> BufferRecord]
          /\ \A x \in Buf : /\ buffers'[x].data = buffers[x].data /\ buffers'[x].locked = buffers[x].locked
                            /\ buffers'[x].saved = buffers[x].saved /\ buffers'[x].failed = buffers[x].failed
                            /\ buffers'[x].dirty = IF x = b THEN TRUE ELSE buffers[x].dirty
      BY <1>1, <1>3, <2>1, DirtyFacts
    <2>4. BuffersTypeOK'  BY <1>1, <1>2, <2>1, <2>3 DEF BuffersTypeOK, BufferRecord
    <2>5. OwnerInv'
      <3>1. \A x \in Buf : buffers[x].data # "read" => buffers'[x].saved /\ ~buffers'[x].dirty
        BY <1>1, <1>3, <2>3 DEF DataFits
      <3>2. FlushingFits'  BY <1>1, <1>2, <2>3 DEF FlushingFits
      <3>3. \A d \in Reader : \/ at'[d] = at[d]
                              \/ at[d] \in {"use", "changed"} /\ at'[d] \in {"use", "changed", "count", "resume"}
        BY <2>1, <2>2
      <3>4. /\ moved' # "no" => sent # <<>>
            /\ \A x \in ToSet(sent) : buffers[x].data = "read" => flusher' = "io" /\ flushing' = x
        BY <1>1, <1>2 DEF SentFits
      <3>5. QED  BY <1>1, <1>2, <2>3, <3>1, <3>2, <3>3, <3>4, FlagsStep
    <2>6. NumDirtyExact'
      <3>1. CASE buffers[b].dirty
        <4>1. \A d \in Reader : at'[d] = "count" <=> at[d] = "count"  BY <2>1, <2>2, <3>1
        <4>2. \A x \in Buf : buffers'[x].dirty <=> buffers[x].dirty  BY <2>3, <3>1
        <4>3. QED  BY <1>1, <1>2, <4>1, <4>2, CountKept DEF BInv
      <3>2. CASE ~buffers[b].dirty
        <4>1. Counting' = Counting \cup {c} /\ c \notin Counting  BY <2>1, <2>2, <3>2 DEF Counting
        <4>2. Dirty' = Dirty \cup {b} /\ b \notin Dirty  BY <1>3, <2>3, <3>2 DEF Dirty
        <4>3. Cardinality(Counting') = Cardinality(Counting) + 1 /\ Cardinality(Dirty') = Cardinality(Dirty) + 1
          BY <4>1, <4>2, CountsFinite, FS_AddElement
        <4>4. numDirty + Cardinality(Counting) + (IF flusher = "clear" THEN 1 ELSE 0) = Cardinality(Dirty)
          BY CountsExact DEF BInv
        <4>5. numDirty' + Cardinality(Counting') + (IF flusher' = "clear" THEN 1 ELSE 0) = Cardinality(Dirty')
          <5>1. numDirty \in Nat  BY <1>1 DEF BuffersTypeOK
          <5>2. QED  BY <1>2, <4>3, <4>4, <5>1, CountsFinite
        <4>6. QED  BY <4>5 DEF NumDirtyExact, Counting, Dirty
      <3>3. QED  BY <3>1, <3>2
    <2>7. NoLostWrite'
      <3> SUFFICES ASSUME NEW x \in Buf, ~buffers'[x].saved
                   PROVE  \/ buffers'[x].dirty \/ buffers'[x].failed
                          \/ \E d \in Reader : held'[d] = x /\ at'[d] = "changed"
                          \/ flushing = x /\ flusher = "write"
                          \/ flushing = x /\ flusher = "io" /\ x \in ToSet(sent) /\ (Head(sent) = x => moved = "no")
        BY <1>2 DEF NoLostWrite
      <3>1. CASE x = b  BY <3>1, <2>3
      <3>2. CASE x # b
        <4>1. \A d \in Reader : held[d] = x /\ at[d] = "changed" => held'[d] = x /\ at'[d] = "changed"
          BY <1>2, <2>2, <3>2
        <4>2. QED  BY <3>2, <4>1, <2>3 DEF BInv, NoLostWrite
      <3>3. QED  BY <3>1, <3>2
    <2>8. QED  BY <2>4, <2>5, <2>6, <2>7 DEF BInv
  <1>6. QED  BY <1>4, <1>5

----------------------------------------------------------------------------
\* The flusher goes on without touching a buffer.
LEMMA FlusherSteps ==
  ASSUME BInv, FlusherSuspend \/ SyncStart \/ SyncEnd \/ SyncDone
  PROVE  BInv'
  <1>1. BuffersTypeOK /\ OwnerInv /\ DataFits /\ SentFits /\ FlushingFits  BY DEF BInv, OwnerInv
  <1>2. UNCHANGED <<buffers, hashLists, numDirty, sent, moved, at, held, waiting>>
    BY DEF FlusherSuspend, SyncStart, SyncEnd, SyncDone
  <1>3. flusher \notin {"clear", "write"} /\ flusher' \in {"awake", "asleep", "scan"} /\ flushing' = 0
    BY <1>1 DEF FlusherSuspend, SyncStart, SyncEnd, SyncDone, FlushingFits
  <1>4. flusher = "io" => flushing \in Buf /\ flushing \notin ToSet(sent)
    <2>1. flusher = "io" => ~buffers[flushing].locked  BY DEF FlusherSuspend, SyncStart, SyncEnd, SyncDone
    <2>2. QED  BY <1>1, <2>1 DEF FlushingFits, SentFits
  <1>5. BuffersTypeOK'  BY <1>1, <1>2, <1>3 DEF BuffersTypeOK
  <1>6. OwnerInv'
    <2>1. FlushingFits'  BY <1>3 DEF FlushingFits
    <2>2. \A x \in ToSet(sent) : buffers[x].data # "read"  BY <1>1, <1>4 DEF SentFits
    <2>3. \A x \in Buf : buffers[x].data # "read" => buffers'[x].saved /\ ~buffers'[x].dirty
      BY <1>1, <1>2 DEF DataFits
    <2>4. moved' # "no" => sent # <<>>  BY <1>1, <1>2 DEF SentFits
    <2>5. QED  BY <1>1, <1>2, <2>1, <2>2, <2>3, <2>4, FlagsStep
  <1>7. NumDirtyExact'  BY <1>1, <1>2, <1>3, CountKept DEF BInv
  <1>8. NoLostWrite'
    <2> SUFFICES ASSUME NEW x \in Buf, ~buffers[x].saved
                 PROVE  \/ buffers[x].dirty \/ buffers[x].failed
                        \/ \E d \in Reader : held[d] = x /\ at[d] = "changed"
      BY <1>2 DEF NoLostWrite
    <2>1. QED  BY <1>3, <1>4 DEF BInv, NoLostWrite
  <1>9. QED  BY <1>5, <1>6, <1>7, <1>8 DEF BInv

\* The flusher takes a dirty buffer and uncounts it, ...
LEMMA FoundStep ==
  ASSUME BInv, NEW b \in Buf, SyncFound(b)
  PROVE  BInv'
  <1>1. BuffersTypeOK /\ OwnerInv /\ DataFits /\ SentFits /\ FlushingFits  BY DEF BInv, OwnerInv
  <1>2. /\ UNCHANGED <<buffers, hashLists, sent, moved, at, held, waiting>>
        /\ flusher = "scan" /\ numDirty # 0 /\ buffers[b].dirty /\ numDirty' = numDirty - 1
        /\ flusher' = "clear" /\ flushing' = b
    BY DEF SyncFound
  <1>3. BuffersTypeOK'
    <2>1. numDirty' \in Nat  BY <1>1, <1>2 DEF BuffersTypeOK
    <2>2. QED  BY <1>1, <1>2, <2>1 DEF BuffersTypeOK
  <1>4. OwnerInv'
    <2>1. FlushingFits'
      <3>1. buffers[b].data = "read"  BY <1>1, <1>2 DEF DataFits
      <3>2. QED  BY <1>2, <3>1 DEF FlushingFits
    <2>2. \A x \in ToSet(sent) : buffers[x].data # "read"  BY <1>1, <1>2 DEF SentFits
    <2>3. \A x \in Buf : buffers[x].data # "read" => buffers'[x].saved /\ ~buffers'[x].dirty
      BY <1>1, <1>2 DEF DataFits
    <2>4. moved' # "no" => sent # <<>>  BY <1>1, <1>2 DEF SentFits
    <2>5. QED  BY <1>1, <1>2, <2>1, <2>2, <2>3, <2>4, FlagsStep
  <1>5. NumDirtyExact'
    <2>1. Counting' = Counting /\ Dirty' = Dirty  BY <1>2 DEF Counting, Dirty
    <2>2. numDirty + Cardinality(Counting) + (IF flusher = "clear" THEN 1 ELSE 0) = Cardinality(Dirty)
      BY CountsExact DEF BInv
    <2>3. numDirty' + Cardinality(Counting') + (IF flusher' = "clear" THEN 1 ELSE 0) = Cardinality(Dirty')
      <3>1. numDirty \in Nat  BY <1>1 DEF BuffersTypeOK
      <3>2. QED  BY <1>2, <2>1, <2>2, <3>1, CountsFinite
    <2>4. QED  BY <2>3 DEF NumDirtyExact, Counting, Dirty
  <1>6. NoLostWrite'
    <2> SUFFICES ASSUME NEW x \in Buf, ~buffers[x].saved
                 PROVE  \/ buffers[x].dirty \/ buffers[x].failed
                        \/ \E d \in Reader : held[d] = x /\ at[d] = "changed"
      BY <1>2 DEF NoLostWrite
    <2>1. QED  BY <1>2 DEF BInv, NoLostWrite
  <1>7. QED  BY <1>3, <1>4, <1>5, <1>6 DEF BInv

\* ... and clears its flag before it writes it.
LEMMA ClearStep ==
  ASSUME BInv, SyncClear
  PROVE  BInv'
  <1> DEFINE b == flushing
  <1>1. BuffersTypeOK /\ OwnerInv /\ DataFits /\ SentFits /\ FlushingFits  BY DEF BInv, OwnerInv
  <1>2. /\ UNCHANGED <<hashLists, numDirty, sent, moved, at, held, waiting, flushing>>
        /\ flusher = "clear" /\ flusher' = "write" /\ buffers' = [buffers EXCEPT ![b].dirty = FALSE]
    BY DEF SyncClear
  <1>3. b \in Buf /\ buffers[b].data = "read" /\ buffers[b].dirty  BY <1>1, <1>2 DEF FlushingFits
  <1>4. /\ buffers' \in [Buf -> BufferRecord]
        /\ \A x \in Buf : /\ buffers'[x].data = buffers[x].data /\ buffers'[x].locked = buffers[x].locked
                          /\ buffers'[x].saved = buffers[x].saved /\ buffers'[x].failed = buffers[x].failed
                          /\ buffers'[x].dirty = IF x = b THEN FALSE ELSE buffers[x].dirty
    BY <1>1, <1>2, <1>3, DirtyFacts
  <1>5. BuffersTypeOK'  BY <1>1, <1>2, <1>4 DEF BuffersTypeOK, BufferRecord
  <1>6. OwnerInv'
    <2>1. FlushingFits'  BY <1>2, <1>3, <1>4 DEF FlushingFits
    <2>2. \A x \in ToSet(sent) : buffers[x].data # "read"  BY <1>1, <1>2 DEF SentFits
    <2>3. \A x \in Buf : buffers[x].data # "read" => buffers'[x].saved /\ ~buffers'[x].dirty
      BY <1>1, <1>4 DEF DataFits
    <2>4. moved' # "no" => sent # <<>>  BY <1>1, <1>2 DEF SentFits
    <2>5. QED  BY <1>1, <1>2, <1>4, <2>1, <2>2, <2>3, <2>4, FlagsStep
  <1>7. NumDirtyExact'
    <2>1. Counting' = Counting  BY <1>2 DEF Counting
    <2>2. Dirty' = Dirty \ {b} /\ b \in Dirty  BY <1>3, <1>4 DEF Dirty
    <2>3. Cardinality(Dirty') = Cardinality(Dirty) - 1  BY <2>2, CountsFinite, FS_RemoveElement
    <2>4. numDirty + Cardinality(Counting) + (IF flusher = "clear" THEN 1 ELSE 0) = Cardinality(Dirty)
      BY CountsExact DEF BInv
    <2>5. numDirty' + Cardinality(Counting') + (IF flusher' = "clear" THEN 1 ELSE 0) = Cardinality(Dirty')
      <3>1. numDirty \in Nat  BY <1>1 DEF BuffersTypeOK
      <3>2. QED  BY <1>2, <2>1, <2>3, <2>4, <3>1, CountsFinite
    <2>6. QED  BY <2>5 DEF NumDirtyExact, Counting, Dirty
  <1>8. NoLostWrite'
    <2> SUFFICES ASSUME NEW x \in Buf, ~buffers[x].saved
                 PROVE  \/ buffers'[x].dirty \/ buffers[x].failed
                        \/ \E d \in Reader : held[d] = x /\ at[d] = "changed"
                        \/ x = b
      BY <1>2, <1>4 DEF NoLostWrite
    <2>1. QED  BY <1>2, <1>4 DEF BInv, NoLostWrite
  <1>9. QED  BY <1>5, <1>6, <1>7, <1>8 DEF BInv

\* The device has read or written the first buffer, or failed to.
LEMMA TransferStep ==
  ASSUME BInv, NEW status \in {"ok", "error"}, Transfer(status)
  PROVE  BInv'
  <1>1. BuffersTypeOK /\ OwnerInv /\ DataFits /\ SentFits /\ FlushingFits  BY DEF BInv, OwnerInv
  <1>2. PICK b \in ToSet(sent) : b = Head(sent) /\ b \in Buf /\ sent # <<>>
    BY <1>1, TailFacts DEF Transfer, SentFits, BuffersTypeOK
  <1>3. /\ UNCHANGED <<hashLists, numDirty, sent, at, held, waiting, flusher, flushing>>
        /\ moved = "no" /\ moved' = status
    BY DEF Transfer, flusherVars
  <1>4. /\ buffers' \in [Buf -> BufferRecord]
        /\ \A x \in Buf : /\ buffers'[x].data = buffers[x].data /\ buffers'[x].locked = buffers[x].locked
                          /\ buffers'[x].dirty = buffers[x].dirty
                          /\ x # b \/ buffers[b].data = "reading" => buffers'[x] = buffers[x]
                          /\ buffers[x].saved => buffers'[x].saved
        /\ buffers[b].data # "reading" => buffers'[b].saved \/ buffers'[b].failed
    <2>1. \A x \in Buf : buffers[x] \in BufferRecord  BY <1>1 DEF BuffersTypeOK, BufferRecord
    <2>2. buffers \in [Buf -> BufferRecord]  BY <1>1 DEF BuffersTypeOK, BufferRecord
    <2>3. CASE buffers[b].data = "reading"
      <3>1. buffers' = buffers  BY <1>2, <2>3 DEF Transfer
      <3>2. QED  BY <2>2, <2>3, <3>1
    <2>4. CASE buffers[b].data # "reading" /\ status = "ok"
      <3>1. buffers' = [buffers EXCEPT ![b].saved = TRUE, ![b].failed = FALSE]  BY <1>2, <2>4 DEF Transfer
      <3>2. buffers' = [x \in Buf |-> IF x = b THEN [buffers[b] EXCEPT !.saved = TRUE, !.failed = FALSE]
                                     ELSE buffers[x]]
        BY <1>2, <2>2, <3>1
      <3>3. [buffers[b] EXCEPT !.saved = TRUE, !.failed = FALSE] \in BufferRecord
        BY <1>2, <2>1 DEF BufferRecord
      <3>4. buffers' \in [Buf -> BufferRecord]  BY <2>1, <3>2, <3>3
      <3>5. QED  BY <1>2, <2>1, <2>4, <3>2, <3>4 DEF BufferRecord
    <2>5. CASE buffers[b].data # "reading" /\ status # "ok"
      <3>1. buffers' = [buffers EXCEPT ![b].failed = TRUE]  BY <1>2, <2>5 DEF Transfer
      <3>2. /\ buffers' \in [Buf -> BufferRecord]
            /\ \A x \in Buf : /\ buffers'[x].data = buffers[x].data /\ buffers'[x].locked = buffers[x].locked
                              /\ buffers'[x].dirty = buffers[x].dirty /\ buffers'[x].saved = buffers[x].saved
                              /\ buffers'[x].failed = IF x = b THEN TRUE ELSE buffers[x].failed
        BY <1>1, <1>2, <3>1, FailedFacts
      <3>3. \A x \in Buf : x # b => buffers'[x] = buffers[x]  BY <2>2, <3>1
      <3>4. QED  BY <1>2, <2>5, <3>2, <3>3
    <2>6. QED  BY <2>3, <2>4, <2>5
  <1>5. BuffersTypeOK'  BY <1>1, <1>3, <1>4 DEF BuffersTypeOK, BufferRecord
  <1>6. OwnerInv'
    <2>1. FlushingFits'  BY <1>1, <1>3, <1>4 DEF FlushingFits
    <2>2. \A x \in ToSet(sent) : buffers[x].data = "read" => flusher' = "io" /\ flushing' = x
      BY <1>1, <1>3 DEF SentFits
    <2>3. \A x \in Buf : buffers[x].data # "read" => buffers'[x].saved /\ ~buffers'[x].dirty
      BY <1>1, <1>4 DEF DataFits
    <2>4. QED  BY <1>1, <1>2, <1>3, <1>4, <2>1, <2>2, <2>3, FlagsStep
  <1>7. NumDirtyExact'  BY <1>1, <1>3, <1>4, CountKept DEF BInv
  <1>8. NoLostWrite'
    <2> SUFFICES ASSUME NEW x \in Buf, ~buffers'[x].saved
                 PROVE  \/ buffers'[x].dirty \/ buffers'[x].failed
                        \/ \E d \in Reader : held[d] = x /\ at[d] = "changed"
                        \/ flushing = x /\ flusher = "write"
                        \/ flushing = x /\ flusher = "io" /\ x \in ToSet(sent) /\ (Head(sent) = x => moved' = "no")
      BY <1>3 DEF NoLostWrite
    <2>1. CASE x = b
      <3>1. buffers[b].data # "reading"  BY <1>1, <1>2, <1>4, <2>1 DEF DataFits
      <3>2. QED  BY <1>4, <2>1, <3>1
    <2>2. CASE x # b
      <3>1. buffers'[x] = buffers[x] /\ Head(sent) # x  BY <1>2, <1>4, <2>2
      <3>2. QED  BY <3>1 DEF BInv, NoLostWrite
    <2>3. QED  BY <2>1, <2>2
  <1>9. QED  BY <1>5, <1>6, <1>7, <1>8 DEF BInv

----------------------------------------------------------------------------
\* The reader has been resumed.
LEMMA ReadDoneStep ==
  ASSUME BInv, NEW c \in Reader, ReadDone(c)
  PROVE  BInv'
  <1>1. BuffersTypeOK /\ HeldFits /\ ListsFit /\ DataFits /\ StateFits /\ ReaderIsUnique /\ SentFits
          /\ LockedFits /\ FlushingFits /\ OwnerInv
    BY DEF BInv, OwnerInv
  <1>2. at[c] = "io" /\ UNCHANGED <<numDirty, sent, moved, flusher, flushing>>  BY DEF ReadDone, flusherVars
  <1>3. PICK b \in Buf : b = held[c]  BY <1>1, <1>2 DEF HeldFits
  <1>4. CASE buffers[b].locked
    <2>1. waiting' = waiting \cup {c} /\ UNCHANGED <<buffers, hashLists, at, held>>  BY <1>3, <1>4 DEF ReadDone
    <2>2. BuffersTypeOK'  BY <1>1, <1>2, <2>1 DEF BuffersTypeOK
    <2>3. HeldFits' /\ ListsFit' /\ DataFits' /\ StateFits' /\ FlushingFits'
      BY <1>1, <1>2, <2>1 DEF HeldFits, ListsFit, DataFits, StateFits, FlushingFits, Uses
    <2>4. ReaderIsUnique' /\ SentFits' /\ LockedFits'
      BY <1>1, <1>2, <2>1 DEF ReaderIsUnique, SentFits, LockedFits, Reads, Sends
    <2>5. NumDirtyExact' /\ NoLostWrite'  BY <1>2, <2>1 DEF NumDirtyExact, NoLostWrite, BInv
    <2>6. QED  BY <2>2, <2>3, <2>4, <2>5 DEF BInv, OwnerInv
  <1>5. CASE ~buffers[b].locked /\ buffers[b].data # "error"
    <2>1. waiting' = waiting /\ at' = [at EXCEPT ![c] = "use"] /\ UNCHANGED <<buffers, hashLists, held>>
      BY <1>3, <1>5 DEF ReadDone
    <2>2. buffers[b].data = "read"
      <3>1. buffers[b].data # "free"  BY <1>1, <1>2, <1>3 DEF StateFits
      <3>2. buffers[b].data # "reading"  BY <1>1, <1>5 DEF DataFits
      <3>3. QED  BY <1>1, <1>5, <3>1, <3>2 DEF BuffersTypeOK
    <2>3. held' = [held EXCEPT ![c] = b]  BY <1>1, <1>3, <2>1 DEF BuffersTypeOK
    <2>4. Moves(c, "use", b)
      BY <1>1, <1>2, <2>1, <2>3 DEF Moves, FlusherMayResume, BuffersTypeOK
    <2>5. MayHave("use", b)  BY <2>2 DEF MayHave
    <2>6. QED  BY Zenon, <2>4, <2>5, MoveStep
  <1>6. CASE ~buffers[b].locked /\ buffers[b].data = "error"
    <2>1. /\ waiting' = waiting /\ at' = [at EXCEPT ![c] = "run"] /\ held' = [held EXCEPT ![c] = 0]
          /\ buffers' = [buffers EXCEPT ![b] = FreeBuffer]
          /\ hashLists' = [k \in Block |-> RemoveFirst(hashLists[k], b)]
      BY <1>3, <1>6 DEF ReadDone
    <2>2. \A d \in Reader : at'[d] = (IF d = c THEN "run" ELSE at[d]) /\ held'[d] = (IF d = c THEN 0 ELSE held[d])
      BY <1>1, <2>1 DEF BuffersTypeOK
    <2>3. \A x \in Buf : buffers'[x] = IF x = b THEN FreeBuffer ELSE buffers[x]  BY <1>1, <2>1 DEF BuffersTypeOK
    <2>4. ASSUME NEW d \in Reader, d # c  PROVE held[d] # b
      <3>1. b # 0 /\ b \notin Block  BY BufferCacheAssumption DEF Buf
      <3>2. SUFFICES ASSUME held[d] = b  PROVE FALSE
        OBVIOUS
      <3>3. at[d] \notin {"run", "gone", "alloc"}  BY <1>1, <3>1, <3>2 DEF HeldFits
      <3>4. at[d] \in {"test", "link", "suspend", "asleep", "send", "io", "use", "changed", "count", "resume"}
        BY <1>1, <3>3 DEF BuffersTypeOK
      <3>5. at[d] = "io"  BY <1>1, <1>6, <3>2, <3>4 DEF StateFits, Uses
      <3>6. QED  BY <1>1, <1>2, <1>3, <2>4, <3>2, <3>5 DEF ReaderIsUnique, Reads
    <2>5. b \notin ToSet(sent) /\ flushing # b /\ ~buffers[b].dirty /\ buffers[b].saved
      <3>1. flushing # b  BY <1>1, <1>6, BufferCacheAssumption DEF FlushingFits, Buf
      <3>2. QED  BY <1>1, <1>6, <3>1 DEF SentFits, DataFits
    <2>6. \A k \in Block : /\ hashLists'[k] \in Seq(Buf) /\ IsInjective(hashLists'[k])
                           /\ ToSet(hashLists'[k]) = ToSet(hashLists[k]) \ {b}
      <3> SUFFICES ASSUME NEW k \in Block
                   PROVE  /\ hashLists'[k] \in Seq(Buf) /\ IsInjective(hashLists'[k])
                          /\ ToSet(hashLists'[k]) = ToSet(hashLists[k]) \ {b}
        OBVIOUS
      <3>1. hashLists[k] \in Seq(Buf) /\ IsInjective(hashLists[k])  BY <1>1 DEF BuffersTypeOK, ListsFit
      <3>2. hashLists'[k] = RemoveFirst(hashLists[k], b)  BY <2>1
      <3>3. QED  BY <3>1, <3>2, RemoveFirstFacts
    <2>7. BuffersTypeOK'
      <3>1. buffers' \in [Buf -> BufferRecord]
        BY <1>1, <2>1 DEF BuffersTypeOK, BufferRecord, FreeBuffer
      <3>2. hashLists' \in [Block -> Seq(Buf)]
        <4>1. hashLists' = [k \in Block |-> hashLists'[k]]  BY <2>1
        <4>2. QED  BY <2>6, <4>1
      <3>3. QED  BY <1>1, <1>2, <2>1, <3>1, <3>2 DEF BuffersTypeOK, BufferRecord
    <2>8. HeldFits'  BY <1>1, <2>2 DEF HeldFits
    <2>9. ListsFit'
      <3>1. \A k \in Block : \A x \in ToSet(hashLists'[k]) : x \in Buf /\ x # b /\ x \in ToSet(hashLists[k])
        <4>1. \A k \in Block : ToSet(hashLists[k]) \subseteq Buf  BY <1>1 DEF ToSet, BuffersTypeOK
        <4>2. QED  BY <2>6, <4>1
      <3>2. QED  BY <1>1, <2>3, <2>6, <3>1 DEF ListsFit
    <2>10. DataFits'  BY <1>1, <2>3 DEF DataFits, FreeBuffer
    <2>11. StateFits'
      <3> SUFFICES ASSUME NEW d \in Reader, NEW x \in Buf, held'[d] = x
                   PROVE  /\ at'[d] = "send" => buffers'[x].data = "reading"
                          /\ at'[d] = "io" => buffers'[x].data # "free"
                          /\ at'[d] \in {"test", "link", "suspend", "asleep"}
                               => buffers'[x].data \in {"reading", "read"}
                          /\ Uses(d, x)' => buffers'[x].data = "read"
        BY DEF StateFits, Uses
      <3>1. d # c  BY <2>2, BufferCacheAssumption DEF Buf
      <3>2. held[d] = x /\ at'[d] = at[d] /\ x # b  BY <2>2, <2>4, <3>1
      <3>3. buffers'[x] = buffers[x]  BY <2>3, <3>2
      <3>4. QED  BY <1>1, <3>2, <3>3 DEF StateFits, Uses
    <2>12. \A d \in Reader, x \in Buf : (Reads(d, x)' => Reads(d, x)) /\ (Sends(d, x)' <=> Sends(d, x))
      BY <1>2, <2>2, BufferCacheAssumption DEF Reads, Sends, Buf
    <2>13. ReaderIsUnique'  BY <1>1, <2>12 DEF ReaderIsUnique
    <2>14. \A x \in ToSet(sent) : x \in Buf /\ buffers'[x] = buffers[x]
      <3>1. ToSet(sent) \subseteq Buf  BY <1>1 DEF BuffersTypeOK, ToSet
      <3>2. QED  BY <2>3, <2>5, <3>1
    <2>15. SentFits'  BY <1>1, <1>2, <2>12, <2>14 DEF SentFits
    <2>16. LockedFits'
      <3>1. \A x \in Buf : buffers'[x].locked => buffers[x].locked  BY <2>3 DEF FreeBuffer
      <3>2. QED  BY <1>1, <1>2, <2>12, <3>1 DEF LockedFits
    <2>17. FlushingFits'
      <3>1. flushing \in Buf => buffers'[flushing] = buffers[flushing]  BY <2>3, <2>5
      <3>2. QED  BY <1>1, <1>2, <3>1 DEF FlushingFits
    <2>18. NumDirtyExact'
      <3>1. \A d \in Reader : at'[d] = "count" <=> at[d] = "count"  BY <1>2, <2>2
      <3>2. \A x \in Buf : buffers'[x].dirty <=> buffers[x].dirty  BY <2>3, <2>5 DEF FreeBuffer
      <3>3. QED  BY <1>1, <1>2, <3>1, <3>2, CountKept DEF BInv
    <2>19. NoLostWrite'
      <3> SUFFICES ASSUME NEW x \in Buf, ~buffers'[x].saved
                   PROVE  \/ buffers'[x].dirty \/ buffers'[x].failed
                          \/ \E d \in Reader : held'[d] = x /\ at'[d] = "changed"
                          \/ flushing = x /\ flusher = "write"
                          \/ flushing = x /\ flusher = "io" /\ x \in ToSet(sent) /\ (Head(sent) = x => moved = "no")
        BY <1>2 DEF NoLostWrite
      <3>1. buffers'[x] = buffers[x]  BY <2>3 DEF FreeBuffer
      <3>2. \A d \in Reader : held[d] = x /\ at[d] = "changed" => held'[d] = x /\ at'[d] = "changed"
        BY <1>2, <2>2
      <3>3. QED  BY <3>1, <3>2 DEF BInv, NoLostWrite
    <2>20. QED
      BY <2>7, <2>8, <2>9, <2>10, <2>11, <2>13, <2>15, <2>16, <2>17, <2>18, <2>19 DEF BInv, OwnerInv
  <1>7. QED  BY <1>4, <1>5, <1>6

\* DoBlockWrite locks the buffer and sends it.
LEMMA WriteStep ==
  ASSUME BInv, DoBlockWrite
  PROVE  BInv'
  <1>1. BuffersTypeOK /\ HeldFits /\ ListsFit /\ DataFits /\ StateFits /\ ReaderIsUnique /\ SentFits
          /\ LockedFits /\ FlushingFits
    BY DEF BInv, OwnerInv
  <1>2. PICK b \in Buf : b = flushing /\ buffers[b].data = "read"  BY <1>1 DEF DoBlockWrite, FlushingFits
  <1>3. /\ flusher = "write" /\ ~buffers[b].locked /\ buffers' = [buffers EXCEPT ![b].locked = TRUE]
        /\ sent' = Append(sent, b) /\ flusher' = "io"
        /\ UNCHANGED <<hashLists, numDirty, moved, at, held, waiting, flushing>>
    BY <1>2 DEF DoBlockWrite
  <1>4. b \notin ToSet(sent)  BY <1>1, <1>3 DEF SentFits
  <1>5. sent' \in Seq(Buf) /\ sent' # <<>> /\ ToSet(sent') = ToSet(sent) \cup {b} /\ IsInjective(sent')
    <2>1. sent \in Seq(Buf) /\ IsInjective(sent)  BY <1>1 DEF BuffersTypeOK, SentFits
    <2>2. QED  BY <1>2, <1>3, <1>4, <2>1, AppendFacts
  <1>6. /\ buffers' \in [Buf -> BufferRecord]
        /\ \A x \in Buf : /\ buffers'[x].data = buffers[x].data /\ buffers'[x].dirty = buffers[x].dirty
                          /\ buffers'[x].saved = buffers[x].saved /\ buffers'[x].failed = buffers[x].failed
                          /\ buffers'[x].locked = IF x = b THEN TRUE ELSE buffers[x].locked
    <2>1. \A x \in Buf : buffers[x] \in BufferRecord  BY <1>1 DEF BuffersTypeOK, BufferRecord
    <2>2. buffers \in [Buf -> BufferRecord]  BY <1>1 DEF BuffersTypeOK, BufferRecord
    <2>3. buffers' = [x \in Buf |-> IF x = b THEN [buffers[b] EXCEPT !.locked = TRUE] ELSE buffers[x]]
      BY <1>3, <2>2
    <2>4. [buffers[b] EXCEPT !.locked = TRUE] \in BufferRecord  BY <2>1 DEF BufferRecord
    <2>5. QED  BY <2>1, <2>3, <2>4 DEF BufferRecord
  <1>7. BuffersTypeOK'  BY <1>1, <1>3, <1>5, <1>6 DEF BuffersTypeOK, BufferRecord
  <1>8. HeldFits'  BY <1>1, <1>3 DEF HeldFits
  <1>9. ToSet(sent) \subseteq Buf /\ \A k \in Block : ToSet(hashLists[k]) \subseteq Buf
    BY <1>1 DEF ToSet, BuffersTypeOK
  <1>10. ListsFit'  BY <1>1, <1>3, <1>6, <1>9 DEF ListsFit
  <1>11. DataFits'
    <2> SUFFICES ASSUME NEW x \in Buf
                 PROVE  /\ buffers'[x].data = "reading" => buffers'[x].locked
                        /\ buffers'[x].data \in {"free", "error"} => ~buffers'[x].locked
                        /\ buffers'[x].data # "read" => buffers'[x].saved /\ ~buffers'[x].dirty
      BY DEF DataFits
    <2>1. CASE x = b  BY <2>1, <1>2, <1>6
    <2>2. CASE x # b  BY <2>2, <1>1, <1>6 DEF DataFits
    <2>3. QED  BY <2>1, <2>2
  <1>12. StateFits'  BY <1>1, <1>3, <1>6 DEF StateFits, Uses
  <1>13. \A d \in Reader, x \in Buf : (Reads(d, x)' <=> Reads(d, x)) /\ (Sends(d, x)' <=> Sends(d, x))
    BY <1>3 DEF Reads, Sends
  <1>14. ReaderIsUnique'  BY <1>1, <1>13 DEF ReaderIsUnique
  <1>15. SentFits'
    <2>1. \A x \in ToSet(sent') : x \in Buf /\ buffers'[x].locked  BY <1>1, <1>5, <1>6, <1>9 DEF SentFits
    <2>2. \A x \in ToSet(sent'), d \in Reader : ~Sends(d, x)'
      <3>1. \A d \in Reader : ~Sends(d, b)  BY <1>1, <1>2 DEF StateFits, Sends
      <3>2. QED  BY <1>1, <1>5, <1>9, <1>13, <3>1 DEF SentFits
    <2>3. \A x \in ToSet(sent') : buffers'[x].data = "read" => flusher' = "io" /\ flushing' = x
      <3>1. \A x \in ToSet(sent) : buffers[x].data # "read"  BY <1>1, <1>3 DEF SentFits
      <3>2. QED  BY <1>2, <1>3, <1>5, <1>6, <1>9, <3>1
    <2>4. QED  BY <1>5, <2>1, <2>2, <2>3 DEF SentFits
  <1>16. LockedFits'  BY <1>1, <1>5, <1>6, <1>13 DEF LockedFits
  <1>17. FlushingFits'  BY <1>2, <1>3, <1>6 DEF FlushingFits
  <1>18. NumDirtyExact'  BY <1>1, <1>3, <1>6, CountKept DEF BInv
  <1>19. NoLostWrite'
    <2> SUFFICES ASSUME NEW x \in Buf, ~buffers[x].saved
                 PROVE  \/ buffers[x].dirty \/ buffers[x].failed
                        \/ \E d \in Reader : held[d] = x /\ at[d] = "changed"
                        \/ flushing = x /\ x \in ToSet(sent') /\ (Head(sent') = x => moved = "no")
      BY <1>3, <1>6 DEF NoLostWrite
    <2>1. CASE x = b
      <3>1. Head(sent') = b => moved = "no"
        <4>1. CASE sent = <<>>  BY <4>1, <1>1 DEF SentFits
        <4>2. CASE sent # <<>>
          <5>1. Head(sent') = Head(sent)  BY <4>2, <1>1, <1>2, <1>3 DEF BuffersTypeOK
          <5>2. Head(sent) \in ToSet(sent)  BY <4>2, <1>1, TailFacts DEF BuffersTypeOK, SentFits
          <5>3. QED  BY <1>4, <5>1, <5>2
        <4>3. QED  BY <4>1, <4>2
      <3>2. QED  BY <1>2, <1>5, <2>1, <3>1
    <2>2. CASE x # b  BY <1>2, <1>3, <2>2 DEF BInv, NoLostWrite
    <2>3. QED  BY <2>1, <2>2
  <1>20. QED
    BY <1>7, <1>8, <1>10, <1>11, <1>12, <1>14, <1>15, <1>16, <1>17, <1>18, <1>19 DEF BInv, OwnerInv

\* StorageEndRequest unlocks the first buffer and wakes its waiters.
LEMMA EndStep ==
  ASSUME BInv, EndRequest
  PROVE  BInv'
  <1>1. BuffersTypeOK /\ HeldFits /\ ListsFit /\ DataFits /\ StateFits /\ ReaderIsUnique /\ SentFits
          /\ LockedFits /\ FlushingFits
    BY DEF BInv, OwnerInv
  <1>2. moved # "no" /\ sent # <<>> /\ sent \in Seq(Buf) /\ IsInjective(sent)
    BY <1>1 DEF EndRequest, SentFits, BuffersTypeOK
  <1>3. PICK b \in ToSet(sent) : b = Head(sent)  BY <1>2, TailFacts
  <1>4. Tail(sent) \in Seq(Buf) /\ b \in Buf /\ ToSet(Tail(sent)) = ToSet(sent) \ {b} /\ IsInjective(Tail(sent))
    BY <1>2, <1>3, TailFacts
  <1>5. buffers[b].locked /\ \A d \in Reader : ~Sends(d, b)  BY <1>1, <1>3 DEF SentFits
  <1>6. buffers[b].data \in {"reading", "read"}  BY <1>1, <1>4, <1>5 DEF DataFits, BuffersTypeOK
  <1>7. PICK data : data = IF buffers[b].data # "reading" THEN buffers[b].data
                           ELSE IF moved = "ok" THEN "read" ELSE "error"
    OBVIOUS
  <1>8. data \in {"read", "error"} /\ (buffers[b].data = "read" => data = "read")  BY <1>6, <1>7
  <1>9. PICK gone : gone = {c \in Reader : data = "error" /\ held[c] = b /\ at[c] # "io"}  OBVIOUS
  <1>10. /\ sent' = Tail(sent) /\ moved' = "no" /\ waiting' \subseteq waiting
         /\ buffers' = [buffers EXCEPT ![b].locked = FALSE, ![b].data = data]
         /\ held' = [c \in Reader |-> IF c \in gone THEN 0 ELSE held[c]]
         /\ UNCHANGED <<hashLists, numDirty, flusher, flushing>>
    BY <1>3, <1>7, <1>9 DEF EndRequest, flusherVars
  <1>11. at' \in [Reader -> {"run", "alloc", "test", "link", "suspend", "asleep",
                            "send", "io", "use", "changed", "count", "resume", "gone"}]
           /\ \A c \in Reader : /\ c \in gone => at'[c] = "gone"
                                /\ c \notin gone => at'[c] = at[c] \/ (at[c] = "asleep" /\ at'[c] = "link")
    BY <1>1, <1>3, <1>7, <1>9 DEF EndRequest, BuffersTypeOK
  <1>12. /\ buffers' \in [Buf -> BufferRecord]
         /\ \A x \in Buf : x # b => buffers'[x] = buffers[x]
         /\ buffers'[b].data = data /\ ~buffers'[b].locked /\ buffers'[b].dirty = buffers[b].dirty
         /\ buffers'[b].saved = buffers[b].saved /\ buffers'[b].failed = buffers[b].failed
    <2>1. \A x \in Buf : buffers[x] \in BufferRecord  BY <1>1 DEF BuffersTypeOK, BufferRecord
    <2>2. buffers \in [Buf -> BufferRecord]  BY <1>1 DEF BuffersTypeOK, BufferRecord
    <2>3. buffers' = [x \in Buf |-> IF x = b THEN [buffers[b] EXCEPT !.locked = FALSE, !.data = data] ELSE buffers[x]]
      BY <1>4, <1>10, <2>2
    <2>4. [buffers[b] EXCEPT !.locked = FALSE, !.data = data] \in BufferRecord
      BY <1>4, <1>8, <2>1 DEF BufferRecord
    <2>5. buffers' \in [Buf -> BufferRecord]  BY <2>1, <2>3, <2>4
    <2>6. QED  BY <1>4, <2>1, <2>3, <2>5 DEF BufferRecord
  <1>13. \A c \in Reader : held'[c] = IF c \in gone THEN 0 ELSE held[c]  BY <1>10
  <1>14. BuffersTypeOK'
    <2>1. held' \in [Reader -> Buf \cup Block \cup {0}]  BY <1>1, <1>10 DEF BuffersTypeOK
    <2>2. QED  BY <1>1, <1>4, <1>10, <1>11, <1>12, <2>1 DEF BuffersTypeOK, BufferRecord
  <1>15. \A c \in gone : /\ c \in Reader /\ held[c] = b /\ at[c] \in {"test", "link", "suspend", "asleep"}
                         /\ data = "error" /\ buffers[b].data = "reading"
    <2> SUFFICES ASSUME NEW c \in gone
                 PROVE  /\ c \in Reader /\ held[c] = b /\ at[c] \in {"test", "link", "suspend", "asleep"}
                        /\ data = "error" /\ buffers[b].data = "reading"
      OBVIOUS
    <2>1. c \in Reader /\ held[c] = b /\ at[c] # "io" /\ data = "error" /\ buffers[b].data = "reading"
      BY <1>6, <1>8, <1>9
    <2>2. b # 0 /\ b \notin Block  BY <1>4, BufferCacheAssumption DEF Buf
    <2>3. at[c] \notin {"run", "gone", "alloc"}  BY <1>1, <2>1, <2>2 DEF HeldFits
    <2>4. at[c] \in {"test", "link", "suspend", "asleep", "send", "use", "changed", "count", "resume"}
      BY <1>1, <2>1, <2>3 DEF BuffersTypeOK
    <2>5. at[c] # "send"  BY <1>5, <2>1 DEF Sends
    <2>6. ~Uses(c, b)  BY <1>1, <1>4, <2>1 DEF StateFits
    <2>7. QED  BY <2>1, <2>4, <2>5, <2>6 DEF Uses
  <1>16. HeldFits'  BY <1>1, <1>11, <1>13, <1>15 DEF HeldFits
  <1>17. ListsFit'
    <2>1. \A k \in Block : ToSet(hashLists[k]) \subseteq Buf  BY <1>1 DEF ToSet, BuffersTypeOK
    <2>2. \A x \in Buf : buffers[x].data # "free" => buffers'[x].data # "free"  BY <1>8, <1>12
    <2>3. QED  BY <1>1, <1>10, <2>1, <2>2 DEF ListsFit
  <1>18. DataFits'
    <2> SUFFICES ASSUME NEW x \in Buf
                 PROVE  /\ buffers'[x].data = "reading" => buffers'[x].locked
                        /\ buffers'[x].data \in {"free", "error"} => ~buffers'[x].locked
                        /\ buffers'[x].data # "read" => buffers'[x].saved /\ ~buffers'[x].dirty
      BY DEF DataFits
    <2>1. CASE x = b
      <3>1. data # "read" => buffers[b].data # "read"  BY <1>8
      <3>2. buffers[b].data # "read" => buffers[b].saved /\ ~buffers[b].dirty  BY <1>1, <1>4 DEF DataFits
      <3>3. QED  BY <2>1, <1>8, <1>12, <3>1, <3>2
    <2>2. CASE x # b  BY <2>2, <1>1, <1>12 DEF DataFits
    <2>3. QED  BY <2>1, <2>2
  <1>19. StateFits'
    <2> SUFFICES ASSUME NEW c \in Reader, NEW x \in Buf, held'[c] = x
                 PROVE  /\ at'[c] = "send" => buffers'[x].data = "reading"
                        /\ at'[c] = "io" => buffers'[x].data # "free"
                        /\ at'[c] \in {"test", "link", "suspend", "asleep"}
                             => buffers'[x].data \in {"reading", "read"}
                        /\ Uses(c, x)' => buffers'[x].data = "read"
      BY DEF StateFits, Uses
    <2>1. c \notin gone /\ held[c] = x  BY <1>13, BufferCacheAssumption DEF Buf
    <2>2. at'[c] = at[c] \/ (at[c] = "asleep" /\ at'[c] = "link")  BY <1>11, <2>1
    <2>3. CASE x # b
      <3>1. buffers'[x] = buffers[x]  BY <1>12, <2>3
      <3>2. QED  BY <1>1, <2>1, <2>2, <3>1 DEF StateFits, Uses
    <2>4. CASE x = b
      <3>1. at[c] # "send"  BY <1>5, <2>1, <2>4 DEF Sends
      <3>2. data = "error" => at[c] = "io"  BY <1>9, <2>1, <2>4
      <3>3. QED  BY <1>8, <1>12, <2>2, <2>4, <3>1, <3>2 DEF Uses
    <2>5. QED  BY <2>3, <2>4
  <1>20. \A c \in Reader, x \in Buf : (Reads(c, x)' => Reads(c, x)) /\ (Sends(c, x)' <=> Sends(c, x))
    <2> SUFFICES ASSUME NEW c \in Reader, NEW x \in Buf
                 PROVE  (Reads(c, x)' => Reads(c, x)) /\ (Sends(c, x)' <=> Sends(c, x))
      OBVIOUS
    <2>1. CASE c \in gone  BY <2>1, <1>11, <1>15 DEF Reads, Sends
    <2>2. CASE c \notin gone  BY <2>2, <1>11, <1>13 DEF Reads, Sends
    <2>3. QED  BY <2>1, <2>2
  <1>21. ReaderIsUnique'  BY <1>1, <1>20 DEF ReaderIsUnique
  <1>22. \A x \in ToSet(sent') : x \in ToSet(sent) /\ x \in Buf /\ x # b /\ buffers'[x] = buffers[x]
    <2>1. ToSet(sent) \subseteq Buf  BY <1>1 DEF ToSet, BuffersTypeOK
    <2>2. QED  BY <1>4, <1>10, <1>12, <2>1
  <1>23. SentFits'  BY <1>1, <1>4, <1>10, <1>20, <1>22 DEF SentFits
  <1>24. LockedFits'
    <2> SUFFICES ASSUME NEW x \in Buf, buffers'[x].locked
                 PROVE  x \in ToSet(sent') \/ \E c \in Reader : Sends(c, x)'
      BY DEF LockedFits
    <2>1. x # b /\ buffers[x].locked  BY <1>12
    <2>2. QED  BY <1>1, <1>4, <1>10, <1>20, <2>1 DEF LockedFits
  <1>25. FlushingFits'
    <2>1. flushing \in Buf /\ buffers[flushing].data = "read" =>
            buffers'[flushing].data = "read" /\ buffers'[flushing].dirty = buffers[flushing].dirty
      BY <1>8, <1>12
    <2>2. QED  BY <1>1, <1>10, <2>1 DEF FlushingFits
  <1>26. NumDirtyExact'
    <2>1. \A c \in Reader : at'[c] = "count" <=> at[c] = "count"
      <3> SUFFICES ASSUME NEW c \in Reader  PROVE at'[c] = "count" <=> at[c] = "count"
        OBVIOUS
      <3>1. CASE c \in gone  BY <3>1, <1>11, <1>15
      <3>2. CASE c \notin gone  BY <3>2, <1>11
      <3>3. QED  BY <3>1, <3>2
    <2>2. \A x \in Buf : buffers'[x].dirty <=> buffers[x].dirty  BY <1>12
    <2>3. QED  BY <1>1, <1>10, <2>1, <2>2, CountKept DEF BInv
  <1>27. NoLostWrite'
    <2> SUFFICES ASSUME NEW x \in Buf, ~buffers'[x].saved
                 PROVE  \/ buffers'[x].dirty \/ buffers'[x].failed
                        \/ \E d \in Reader : held'[d] = x /\ at'[d] = "changed"
                        \/ flushing = x /\ flusher = "write"
                        \/ flushing = x /\ flusher = "io" /\ x \in ToSet(sent')
      BY <1>10 DEF NoLostWrite
    <2>1. ~buffers[x].saved /\ buffers'[x].dirty = buffers[x].dirty /\ buffers'[x].failed = buffers[x].failed
      BY <1>12
    <2>2. \A d \in Reader : held[d] = x /\ at[d] = "changed" => held'[d] = x /\ at'[d] = "changed"
      <3> SUFFICES ASSUME NEW d \in Reader, held[d] = x, at[d] = "changed"
                   PROVE  held'[d] = x /\ at'[d] = "changed"
        OBVIOUS
      <3>1. d \notin gone  BY <1>15
      <3>2. QED  BY <1>11, <1>13, <3>1
    <2>3. x \in ToSet(sent) /\ (Head(sent) = x => moved = "no") => x \in ToSet(sent')
      BY <1>2, <1>3, <1>4, <1>10
    <2>4. QED  BY <2>1, <2>2, <2>3 DEF BInv, NoLostWrite
  <1>28. QED
    BY <1>14, <1>16, <1>17, <1>18, <1>19, <1>21, <1>23, <1>24, <1>25, <1>26, <1>27 DEF BInv, OwnerInv

----------------------------------------------------------------------------
\* Every step keeps the inductive invariant.
LEMMA BuffersInductive == BInv /\ [BuffersNext]_bufferVars => BInv'
  <1> SUFFICES ASSUME BInv, [BuffersNext]_bufferVars  PROVE BInv'
    OBVIOUS
  <1>1. ASSUME NEW c \in Reader,
               \/ \E k \in Block : BlockRead(c, k)
               \/ BlockBufferAlloc(c) \/ ReadSend(c) \/ ReadDone(c)
               \/ WaitForBuffer(c) \/ BufferPrepareWait(c) \/ BufferSuspend(c)
               \/ ChangeData(c) \/ BlockWriteDirty(c) \/ BlockWriteCount(c) \/ BlockWriteResume(c)
               \/ BlockFree(c)
        PROVE  BInv'
    BY Zenon, <1>1, PlainSteps, AllocStep, ReadSendStep, ReadDoneStep, ChangeSteps, CountStep
  <1>2. CASE FlusherSuspend \/ SyncStart \/ SyncEnd \/ SyncClear \/ DoBlockWrite \/ SyncDone
    BY Zenon, <1>2, FlusherSteps, ClearStep, WriteStep
  <1>3. CASE \E b \in Buf : SyncFound(b)  BY Zenon, <1>3, FoundStep
  <1>4. CASE \E status \in {"ok", "error"} : Transfer(status)  BY Zenon, <1>4, TransferStep
  <1>5. CASE EndRequest  BY Zenon, <1>5, EndStep
  <1>6. CASE UNCHANGED bufferVars
    <2>1. UNCHANGED <<buffers, hashLists, numDirty, sent, moved, at, held, waiting, flusher, flushing>>
      BY <1>6 DEF bufferVars, flusherVars
    <2>2. BuffersTypeOK' /\ NumDirtyExact' /\ NoLostWrite'
      BY <2>1 DEF BInv, BuffersTypeOK, NumDirtyExact, NoLostWrite
    <2>3. HeldFits' /\ ListsFit' /\ DataFits' /\ StateFits' /\ FlushingFits'
      BY <2>1 DEF BInv, OwnerInv, HeldFits, ListsFit, DataFits, StateFits, FlushingFits, Uses
    <2>4. ReaderIsUnique' /\ SentFits' /\ LockedFits'
      BY <2>1 DEF BInv, OwnerInv, ReaderIsUnique, SentFits, LockedFits, Reads, Sends
    <2>5. QED  BY <2>2, <2>3, <2>4 DEF BInv, OwnerInv
  <1>7. QED  BY <1>1, <1>2, <1>3, <1>4, <1>5, <1>6 DEF BuffersNext

\* Every reachable state of the buffer cache satisfies the inductive invariant.
LEMMA BuffersInvariant == BuffersSpec => []BInv
  BY BuffersInitInv, BuffersInductive, PTL DEF BuffersSpec

\* The variables of the cache keep their types, for any number of threads,
\* blocks and buffers.
THEOREM BuffersTypeCorrect == BuffersSpec => []BuffersTypeOK
  <1>1. BInv => BuffersTypeOK  BY DEF BInv
  <1>2. QED  BY <1>1, BuffersInvariant, PTL

\* A changed buffer that the device does not have is dirty, about to be set
\* dirty, being written, or its write failed: BlockSyncDevice, which clears
\* BUFFER_DIRTY before it writes, forgets no change.
THEOREM NoLostWriteAlways == BuffersSpec => []NoLostWrite
  <1>1. BInv => NoLostWrite  BY DEF BInv
  <1>2. QED  BY <1>1, BuffersInvariant, PTL

\* numDirty counts the dirty buffers, but for the two steps of BlockWrite and
\* of BlockSyncDevice in between.
THEOREM NumDirtyExactAlways == BuffersSpec => []NumDirtyExact
  <1>1. BInv => NumDirtyExact  BY DEF BInv
  <1>2. QED  BY <1>1, BuffersInvariant, PTL

\* BlockRead returns buffers that have been read only.
THEOREM NoUnreadDataAlways == BuffersSpec => []NoUnreadData
  <1>1. BInv => NoUnreadData  BY DEF BInv, OwnerInv, StateFits, NoUnreadData
  <1>2. QED  BY <1>1, BuffersInvariant, PTL

\* A locked buffer has exactly one thread or request that will unlock it.
THEOREM LockedHasOwnerAlways == BuffersSpec => []LockedHasOwner
  <1>1. ASSUME BInv, NEW b \in Buf
        PROVE  LET owners == {c \in Reader : held[c] = b /\ at[c] = "send"} \cup {i \in DOMAIN sent : sent[i] = b}
               IN Cardinality(owners) = IF buffers[b].locked THEN 1 ELSE 0
    <2> DEFINE owners == {c \in Reader : held[c] = b /\ at[c] = "send"} \cup {i \in DOMAIN sent : sent[i] = b}
    <2>1. ReaderIsUnique /\ SentFits /\ LockedFits /\ StateFits /\ DataFits  BY <1>1 DEF BInv, OwnerInv
    <2>2. CASE ~buffers[b].locked
      <3>1. b \notin ToSet(sent)  BY <2>1, <2>2 DEF SentFits
      <3>2. \A c \in Reader : ~(held[c] = b /\ at[c] = "send")  BY <2>1, <2>2 DEF StateFits, DataFits
      <3>3. owners = {}  BY <3>1, <3>2 DEF ToSet
      <3>4. Cardinality(owners) = 0  BY <3>3, FS_EmptySet
      <3>5. QED  BY <2>2, <3>4
    <2>3. CASE buffers[b].locked /\ b \in ToSet(sent)
      <3>1. \A c \in Reader : ~(held[c] = b /\ at[c] = "send")  BY <2>1, <2>3 DEF SentFits, Sends
      <3>2. PICK i \in DOMAIN sent : sent[i] = b  BY <2>3 DEF ToSet
      <3>3. \A j \in DOMAIN sent : sent[j] = b => j = i  BY <2>1, <3>2 DEF SentFits, IsInjective
      <3>4. owners = {i}  BY <3>1, <3>2, <3>3
      <3>5. Cardinality(owners) = 1  BY <3>4, FS_Singleton
      <3>6. QED  BY <2>3, <3>5
    <2>4. CASE buffers[b].locked /\ b \notin ToSet(sent)
      <3>1. PICK c \in Reader : Sends(c, b)  BY <2>1, <2>4 DEF LockedFits
      <3>2. \A d \in Reader : Sends(d, b) => d = c  BY <2>1, <3>1 DEF ReaderIsUnique, Reads, Sends
      <3>3. \A j \in DOMAIN sent : sent[j] # b  BY <2>4 DEF ToSet
      <3>4. owners = {c}  BY <3>1, <3>2, <3>3 DEF Sends
      <3>5. Cardinality(owners) = 1  BY <3>4, FS_Singleton
      <3>6. QED  BY <2>4, <3>5
    <2>5. QED  BY <2>2, <2>3, <2>4
  <1>2. BInv => LockedHasOwner  BY <1>1 DEF LockedHasOwner
  <1>3. QED  BY <1>2, BuffersInvariant, PTL
=============================================================================
