------------------------ MODULE CompThreads_proofs ------------------------
(***************************************************************************)
(* Proofs about the compression thread pool.  They hold for every number   *)
(* of threads, chunks and blocks, under the one condition that the ring    *)
(* position left by the previous file fits the ring open_stream_out may    *)
(* shrink to (RingFits; it holds for the first file of every invocation,   *)
(* where Start = 0).  The order of the archive's items, and that the pool  *)
(* implements OrderedOutput, follow from the same invariant.               *)
(***************************************************************************)
EXTENDS CompThreads, TLAPS

RingFits == Start < MinThreads

Active(i) == pc[i] \notin {"idle", "post"}

Backlog == Len(submitted) - released

\* Slot x is d places behind slot y on the ring of the current size.
Ahead(x, y, d) == x = y + d \/ x = y + d - threads

\* The counters and the two ring indexes agree: the next free slot is as far
\* ahead of the slot whose turn it is as there are blocks in flight.
RingInv ==
  /\ ring_i < threads
  /\ output_thread < threads
  /\ Backlog \in 0..threads
  /\ Ahead(ring_i, output_thread, Backlog)
  /\ chunk = 0 => ring_i = Start /\ Backlog = 0
  /\ mpc \notin {"pass", "done"} => chunk > 0
  /\ exit # "running" => mpc = "done"
  /\ mpc = "done" => exit # "running"

\* Block n in flight sits in the slot its place in the queue determines, and the
\* slots of the blocks in flight are exactly the active ones.
InFlight ==
  \A n \in (released + 1)..Len(submitted) :
    /\ submitted[n].slot < threads
    /\ Ahead(submitted[n].slot, output_thread, n - released - 1)
    /\ job[submitted[n].slot] = n
    /\ Active(submitted[n].slot)

SlotInv ==
  \A i \in Slot :
    /\ cksem[i] = 1 => pc[i] = "idle"
    /\ Active(i) => /\ job[i] \in (released + 1)..Len(submitted)
                    /\ submitted[job[i]].slot = i
    /\ Writing(i) => output_thread = i

\* The slots a waiting loop has passed, the d-th last one wait_at - d, are idle.
Passed == \A d \in 1..(threads - wait_left) : \A j \in 0..(threads - 1) :
            Ahead(wait_at, j, d) => pc[j] = "idle"

WaitInv ==
  /\ mpc \in {"seal_wait", "flush_wait", "close_wait"} =>
       wait_left \in 1..threads /\ wait_at < threads /\ Passed
  /\ mpc \in {"seal", "flush", "trailer"} =>
       Backlog = 0 /\ \A i \in Slot : ~Active(i)

\* Only blocks up to the one whose turn it is are in the archive, and that one
\* only when its thread is about to give the turn up.
WrittenInv ==
  \A k \in DOMAIN archive : archive[k].kind = "block" =>
    /\ archive[k].n \in 1..(released + 1)
    /\ archive[k].n = released + 1 /\ exit = "running" => pc[output_thread] = "out"

\* The end of the process is the end of all its threads.
Over == ~doomed /\ \A i \in Slot : pc[i] = "idle"

\* The inductive invariant.
IInv ==
  /\ TypeOK
  /\ RingInv
  /\ IF exit = "running" THEN InFlight /\ SlotInv /\ WaitInv ELSE Over
  /\ WrittenInv

----------------------------------------------------------------------------
(* Constants and helpers. *)

\* The pool has at least one slot and the ring never shrinks to nothing.
LEMMA PoolFacts ==
  /\ PoolSize \in Nat \ {0}
  /\ MinThreads \in 1..PoolSize
  /\ Start \in Slot
  /\ Slot = 0..(PoolSize - 1)
  /\ MaxChunks \in Nat \ {0}
BY CpusAssumption, FlagsAssumption, StartAssumption, MinThreadsAssumption, BoundsAssumption
   DEF PoolSize, Slot

\* Overwriting one field of a header leaves the others.
LEMMA ItemFacts ==
  ASSUME NEW it \in ItemType, NEW to \in Nat
  PROVE  LET a == [it EXCEPT !.next = to]
             b == [it EXCEPT !.sealed = @ + 1]
         IN /\ a \in ItemType /\ a.kind = it.kind /\ a.n = it.n /\ a.chunk = it.chunk
            /\ b \in ItemType /\ b.kind = it.kind /\ b.n = it.n /\ b.chunk = it.chunk
BY DEF ItemType

\* Patching a link keeps the archive's length, types, blocks and chunks.
LEMMA PatchLinkFacts ==
  ASSUME NEW file \in Seq(ItemType), NEW k, NEW to \in Nat
  PROVE  /\ PatchLink(file, k, to) \in Seq(ItemType)
         /\ Len(PatchLink(file, k, to)) = Len(file)
         /\ DOMAIN PatchLink(file, k, to) = DOMAIN file
         /\ \A j \in DOMAIN file :
              /\ PatchLink(file, k, to)[j].kind = file[j].kind
              /\ PatchLink(file, k, to)[j].n = file[j].n
              /\ PatchLink(file, k, to)[j].chunk = file[j].chunk
<1> DEFINE p == PatchLink(file, k, to)
<1>1. \A j \in DOMAIN file : /\ p[j] \in ItemType
                             /\ p[j].kind = file[j].kind
                             /\ p[j].n = file[j].n
                             /\ p[j].chunk = file[j].chunk
  <2> TAKE j \in DOMAIN file
  <2>1. file[j] \in ItemType
    OBVIOUS
  <2> HIDE DEF ItemType
  <2> QED
    BY <2>1, ItemFacts DEF PatchLink
<1>2. p \in [1..Len(file) -> ItemType]
  BY <1>1 DEF PatchLink
<1>3. p \in Seq(ItemType) /\ Len(p) = Len(file)
  BY <1>2
<1> QED
  BY <1>1, <1>3 DEF PatchLink

\* So does encrypting headers in place.
LEMMA RewriteEncryptedFacts ==
  ASSUME NEW file \in Seq(ItemType), NEW S
  PROVE  /\ RewriteEncrypted(file, S) \in Seq(ItemType)
         /\ Len(RewriteEncrypted(file, S)) = Len(file)
         /\ DOMAIN RewriteEncrypted(file, S) = DOMAIN file
         /\ \A j \in DOMAIN file :
              /\ RewriteEncrypted(file, S)[j].kind = file[j].kind
              /\ RewriteEncrypted(file, S)[j].n = file[j].n
              /\ RewriteEncrypted(file, S)[j].chunk = file[j].chunk
<1> DEFINE p == RewriteEncrypted(file, S)
<1>1. \A j \in DOMAIN file : /\ p[j] \in ItemType
                             /\ p[j].kind = file[j].kind
                             /\ p[j].n = file[j].n
                             /\ p[j].chunk = file[j].chunk
  <2> TAKE j \in DOMAIN file
  <2>1. file[j] \in ItemType
    OBVIOUS
  <2> HIDE DEF ItemType
  <2> QED
    BY <2>1, ItemFacts DEF RewriteEncrypted
<1>2. p \in [1..Len(file) -> ItemType]
  BY <1>1 DEF RewriteEncrypted
<1>3. p \in Seq(ItemType) /\ Len(p) = Len(file)
  BY <1>2
<1> QED
  BY <1>1, <1>3 DEF RewriteEncrypted

\* What clear_buffer recorded about a block.
LEMMA SubmittedFacts ==
  ASSUME TypeOK, NEW n \in 1..Len(submitted)
  PROVE  /\ submitted[n].slot \in Slot
         /\ submitted[n].chunk \in 1..MaxChunks
         /\ submitted[n].stream \in Streams
<1>1. submitted[n] \in BlockType
  BY DEF TypeOK, PoolOK
<1> QED
  BY <1>1 DEF BlockType

\* The oldest block in flight is in the slot whose turn it is.
LEMMA TurnHolder ==
  ASSUME TypeOK, RingInv, InFlight, Backlog # 0
  PROVE  /\ released + 1 \in (released + 1)..Len(submitted)
         /\ submitted[released + 1].slot = output_thread
         /\ job[output_thread] = released + 1
         /\ Active(output_thread)
<1>1. /\ threads \in 1..PoolSize /\ output_thread \in Slot /\ released \in Nat
      /\ Len(submitted) \in Nat /\ PoolSize \in Nat /\ Slot = 0..(PoolSize - 1)
      /\ output_thread < threads
  BY PoolFacts DEF TypeOK, PoolOK, RingInv
<1>2. released + 1 \in (released + 1)..Len(submitted)
  BY <1>1 DEF RingInv, Backlog
<1>3. /\ submitted[released + 1].slot \in Slot
      /\ submitted[released + 1].slot < threads
  BY <1>1, <1>2, SubmittedFacts DEF InFlight
<1>4. Ahead(submitted[released + 1].slot, output_thread, 0)
  BY <1>1, <1>2 DEF InFlight, Ahead
<1>5. submitted[released + 1].slot = output_thread
  BY <1>1, <1>3, <1>4 DEF Ahead
<1> QED
  BY <1>2, <1>5 DEF InFlight

\* The initial states satisfy the invariant.
LEMMA InitIInv == RingFits /\ Init => IInv
<1> SUFFICES ASSUME RingFits, Init PROVE IInv
  OBVIOUS
<1>1. TypeOK
  <2>1. FlagsOK
    BY DEF Init, FlagsOK
  <2>2. PoolOK
    BY PoolFacts, BoundsAssumption DEF Init, PoolOK, ThreadPC
  <2>3. MainOK
    BY PoolFacts, BoundsAssumption DEF Init, MainOK, MainPC
  <2>4. FileOK
    BY DEF Init, FileOK, Streams
  <2> QED
    BY <2>1, <2>2, <2>3, <2>4 DEF TypeOK
<1>2. RingInv
  BY PoolFacts DEF Init, RingInv, RingFits, Backlog, Ahead
<1>3. exit = "running" /\ InFlight /\ SlotInv /\ WaitInv /\ WrittenInv
  BY PoolFacts DEF Init, InFlight, SlotInv, WaitInv, WrittenInv, Active, Writing
<1> QED
  BY <1>1, <1>2, <1>3 DEF IInv

----------------------------------------------------------------------------
(* The main thread's steps. *)

\* Beginning a chunk, with open_stream_out's shrinking of the ring, keeps it.
LEMMA RzipPassIInv ==
  ASSUME IInv, RingFits, RzipPass PROVE IInv'
<1> USE DEF RzipPass, OpenStreamOut, slotVars, fileVars
<1>0. TypeOK /\ RingInv /\ exit = "running" /\ InFlight /\ SlotInv /\ WaitInv /\ WrittenInv
  BY DEF IInv, RingInv
<1>1. threads' \in 1..threads
  BY <1>0, PoolFacts DEF TypeOK, PoolOK
<1>2. TypeOK'
  <2>1. FlagsOK'
    BY <1>0 DEF TypeOK, FlagsOK
  <2>2. PoolOK'
    BY <1>0, <1>1, PoolFacts DEF TypeOK, PoolOK
  <2>3. MainOK'
    BY <1>0, BoundsAssumption DEF TypeOK, MainOK, MainPC
  <2>4. FileOK'
    BY <1>0 DEF TypeOK, FileOK
  <2> QED
    BY <2>1, <2>2, <2>3, <2>4 DEF TypeOK
<1>3. chunk = 0 => Backlog = 0 /\ Backlog' = 0 /\ ring_i = Start
  BY <1>0 DEF RingInv, Backlog
<1>4. RingInv'
  <2>1. CASE chunk = 0
    BY <1>0, <1>1, <1>3, <2>1, PoolFacts DEF TypeOK, PoolOK, MainOK, RingInv, RingFits, Backlog, Ahead
  <2>2. CASE chunk # 0
    BY <1>0, <1>1, <2>2, PoolFacts DEF TypeOK, PoolOK, MainOK, RingInv, Backlog, Ahead
  <2> QED BY <2>1, <2>2
<1>5. InFlight'
  <2>1. CASE chunk = 0
    BY <1>0, <1>3, <2>1 DEF TypeOK, PoolOK, InFlight, Backlog
  <2>2. CASE chunk # 0
    BY <1>0, <2>2 DEF InFlight, Active, Ahead
  <2> QED BY <2>1, <2>2
<1>6. SlotInv' /\ WaitInv' /\ WrittenInv'
  BY <1>0 DEF SlotInv, WaitInv, WrittenInv, Active, Writing
<1> QED
  BY <1>0, <1>2, <1>4, <1>5, <1>6 DEF IInv

\* Handing a buffer over: the slot is free, so the ring is not full.
LEMMA ClearBufferIInv ==
  ASSUME IInv, NEW s \in Streams, ClearBuffer(s),
         mpc \in {"write", "close0", "close1"},
         mpc' \in {"write", "close1", "seal_begin", "flush_begin", "close_begin", "pass"},
         flushes' \in 0..MaxFlush
  PROVE  IInv'
<1> USE DEF ClearBuffer, fileVars
<1>0. TypeOK /\ RingInv /\ exit = "running" /\ InFlight /\ SlotInv /\ WrittenInv /\ chunk > 0
  BY DEF IInv, RingInv
<1>1. /\ threads \in 1..PoolSize /\ ring_i \in Slot /\ output_thread \in Slot /\ released \in Nat
      /\ Len(submitted) \in Nat /\ PoolSize \in Nat /\ chunk \in 1..MaxChunks
      /\ Slot = 0..(PoolSize - 1)
  BY <1>0, PoolFacts DEF TypeOK, PoolOK, MainOK
<1>2. pc[ring_i] = "idle" /\ ~Active(ring_i)
  BY <1>0, <1>1 DEF SlotInv, Active
<1>3. Backlog < threads
  <2> SUFFICES ASSUME Backlog = threads PROVE FALSE
    BY <1>0, <1>1 DEF RingInv, Backlog
  <2>1. ring_i = output_thread
    BY <1>0, <1>1 DEF RingInv, Ahead
  <2>2. Active(output_thread)
    BY <1>0, <1>1, TurnHolder
  <2> QED
    BY <1>2, <2>1, <2>2
<1>4. /\ submitted' \in Seq(BlockType)
      /\ Len(submitted') = Len(submitted) + 1
      /\ \A n \in 1..Len(submitted) : submitted'[n] = submitted[n]
      /\ submitted'[Len(submitted) + 1].slot = ring_i
  BY <1>0, <1>1 DEF TypeOK, PoolOK, BlockType
<1>5. ring_i' \in 0..(threads - 1) /\ ring_i' \in Slot
  BY <1>0, <1>1 DEF Advance, RingInv
<1>6. TypeOK'
  <2>1. FlagsOK'
    BY <1>0 DEF TypeOK, FlagsOK
  <2>2. PoolOK'
    BY <1>0, <1>1, <1>4, <1>5 DEF TypeOK, PoolOK, ThreadPC
  <2>3. MainOK'
    BY <1>0 DEF TypeOK, MainOK, MainPC
  <2>4. FileOK'
    BY <1>0 DEF TypeOK, FileOK
  <2> QED
    BY <2>1, <2>2, <2>3, <2>4 DEF TypeOK
<1>7. RingInv'
  <2>1. Backlog' = Backlog + 1 /\ Backlog \in 0..(threads - 1)
    BY <1>0, <1>1, <1>3, <1>4 DEF RingInv, Backlog
  <2>2. Ahead(ring_i, output_thread, Backlog) /\ output_thread < threads /\ ring_i < threads
    BY <1>0 DEF RingInv
  <2>3. Ahead(ring_i, output_thread, Backlog)'
    BY <1>1, <2>1, <2>2 DEF Ahead, Advance
  <2> QED
    BY <1>0, <1>1, <1>5, <2>1, <2>2, <2>3 DEF RingInv
<1>8. InFlight'
  <2> SUFFICES ASSUME NEW n \in (released + 1)..(Len(submitted) + 1)
               PROVE  /\ submitted'[n].slot < threads
                      /\ Ahead(submitted'[n].slot, output_thread, n - released - 1)
                      /\ job'[submitted'[n].slot] = n
                      /\ pc'[submitted'[n].slot] \notin {"idle", "post"}
    BY <1>1, <1>4 DEF InFlight, Active, Ahead
  <2>1. CASE n = Len(submitted) + 1
    <3>1. submitted'[n].slot = ring_i /\ n - released - 1 = Backlog
      BY <1>1, <1>4, <2>1 DEF Backlog
    <3> QED
      BY <1>0, <1>1, <2>1, <3>1 DEF RingInv, TypeOK, PoolOK
  <2>2. CASE n # Len(submitted) + 1
    <3>1. n \in (released + 1)..Len(submitted) /\ submitted'[n] = submitted[n]
      BY <1>1, <1>4, <2>2
    <3>2. submitted[n].slot \in Slot
      BY <1>0, <1>1, <3>1, SubmittedFacts
    <3>3. submitted[n].slot # ring_i
      BY <1>0, <1>2, <3>1 DEF InFlight
    <3> QED
      BY <1>0, <3>1, <3>2, <3>3 DEF InFlight, Active, TypeOK, PoolOK
  <2> QED BY <2>1, <2>2
<1>9. SlotInv'
  <2> SUFFICES ASSUME NEW i \in Slot
               PROVE  /\ cksem'[i] = 1 => pc'[i] = "idle"
                      /\ Active(i)' => /\ job'[i] \in (released + 1)..(Len(submitted) + 1)
                                       /\ submitted'[job'[i]].slot = i
                      /\ Writing(i)' => output_thread = i
    BY <1>4 DEF SlotInv
  <2>1. CASE i = ring_i
    <3>1. cksem'[i] = 0 /\ pc'[i] = "compress" /\ job'[i] = Len(submitted) + 1
      BY <1>0, <2>1 DEF TypeOK, PoolOK
    <3>2. Len(submitted) + 1 \in (released + 1)..(Len(submitted) + 1)
      BY <1>0, <1>1 DEF RingInv, Backlog
    <3> QED
      BY <1>4, <2>1, <3>1, <3>2 DEF Writing
  <2>2. CASE i # ring_i
    BY <1>0, <1>1, <1>4, <2>2 DEF SlotInv, TypeOK, PoolOK, Active, Writing
  <2> QED BY <2>1, <2>2
<1>10. WaitInv'
  BY DEF WaitInv
<1>11. WrittenInv'
  <2>1. ASSUME NEW k \in DOMAIN archive, archive[k].kind = "block", archive[k].n = released + 1
        PROVE  pc'[output_thread] = "out"
    <3>1. pc[output_thread] = "out"
      BY <1>0, <2>1 DEF WrittenInv
    <3> QED
      BY <1>0, <1>1, <1>2, <3>1 DEF TypeOK, PoolOK
  <2> QED
    BY <1>0, <2>1 DEF WrittenInv
<1> QED
  BY <1>0, <1>6, <1>7, <1>8, <1>9, <1>10, <1>11 DEF IInv

\* Handing over a full buffer keeps it.
LEMMA FlushBufferIInv ==
  ASSUME IInv, NEW s \in Streams, FlushBuffer(s) PROVE IInv'
<1>1. flushes' \in 0..MaxFlush
  BY BoundsAssumption DEF FlushBuffer, IInv, TypeOK, MainOK
<1> QED
  BY <1>1, ClearBufferIInv DEF FlushBuffer

\* Handing over what is left at the end of a chunk keeps it.
LEMMA CloseStreamOutIInv ==
  ASSUME IInv, CloseStreamOut PROVE IInv'
<1>1. flushes' \in 0..MaxFlush
  BY DEF CloseStreamOut, IInv, TypeOK, MainOK
<1>2. AfterClose \in {"seal_begin", "flush_begin", "close_begin", "pass"}
  BY DEF AfterClose, AfterChunk
<1>3. CASE mpc = "close0" /\ ClearBuffer(0) /\ mpc' = "close1"
  BY <1>1, <1>3, ClearBufferIInv DEF Streams
<1>4. CASE mpc = "close1" /\ ClearBuffer(1) /\ mpc' = AfterClose
  BY <1>1, <1>2, <1>4, ClearBufferIInv DEF Streams
<1> QED
  BY <1>3, <1>4 DEF CloseStreamOut

\* Steps of the main thread that touch neither the pool nor the archive.
LEMMA QuietMainIInv ==
  ASSUME IInv, exit = "running", UNCHANGED <<ringVars, slotVars, fileVars, submitted, lost, exit>>,
         UNCHANGED chunk, MainOK', mpc # "pass", mpc' # "done", WaitInv'
  PROVE  IInv'
<1> USE DEF ringVars, slotVars, fileVars
<1>0. TypeOK /\ RingInv /\ InFlight /\ SlotInv /\ WrittenInv
  BY DEF IInv
<1>1. TypeOK'
  <2>1. FlagsOK' BY <1>0 DEF TypeOK, FlagsOK
  <2>2. PoolOK' BY <1>0 DEF TypeOK, PoolOK
  <2>3. FileOK' BY <1>0 DEF TypeOK, FileOK
  <2> QED BY <2>1, <2>2, <2>3 DEF TypeOK
<1>2. RingInv'
  BY <1>0 DEF RingInv, Backlog, Ahead
<1>3. InFlight' /\ SlotInv' /\ WrittenInv'
  BY <1>0 DEF InFlight, SlotInv, WrittenInv, Active, Writing, Ahead
<1> QED
  BY <1>0, <1>1, <1>2, <1>3 DEF IInv

\* The end of the search keeps it.
LEMMA EndChunkIInv ==
  ASSUME IInv, EndChunk PROVE IInv'
<1>1. MainOK' /\ WaitInv'
  BY DEF EndChunk, IInv, TypeOK, MainOK, MainPC, WaitInv
<1> QED
  BY <1>1, QuietMainIInv DEF EndChunk, IInv, RingInv

\* Starting a waiting loop keeps it: no slot has been passed yet.
LEMMA WaitBeginIInv ==
  ASSUME IInv, NEW from \in {"seal_begin", "flush_begin", "close_begin"},
         NEW to \in {"seal_wait", "flush_wait", "close_wait"}, WaitBegin(from, to)
  PROVE  IInv'
<1> USE DEF WaitBegin
<1>0. TypeOK /\ RingInv /\ exit = "running"
  BY DEF IInv, RingInv
<1>1. threads \in 1..PoolSize /\ PoolSize \in Nat /\ output_thread \in Slot /\ output_thread < threads
  BY <1>0, PoolFacts DEF TypeOK, PoolOK, RingInv
<1>2. MainOK'
  BY <1>0, <1>1 DEF TypeOK, MainOK, MainPC
<1>3. WaitInv'
  BY <1>0, <1>1 DEF WaitInv, Passed, ringVars
<1> QED
  BY <1>0, <1>2, <1>3, QuietMainIInv

\* When the loop has passed every slot of the ring no block is in flight.
LEMMA AllPassed ==
  ASSUME TypeOK, RingInv, InFlight, SlotInv, NEW at \in 0..(threads - 1),
         \A d \in 1..threads : \A j \in 0..(threads - 1) : Ahead(at, j, d) => pc[j] = "idle"
  PROVE  Backlog = 0 /\ \A i \in Slot : ~Active(i)
<1>1. /\ threads \in 1..PoolSize /\ PoolSize \in Nat /\ Slot = 0..(PoolSize - 1)
      /\ output_thread \in Slot /\ output_thread < threads
      /\ released \in Nat /\ Len(submitted) \in Nat
  BY PoolFacts DEF TypeOK, PoolOK, RingInv
<1>2. ASSUME NEW j \in 0..(threads - 1) PROVE pc[j] = "idle"
  <2>1. CASE j < at
    <3>1. at - j \in 1..threads /\ Ahead(at, j, at - j)
      BY <1>1, <2>1 DEF Ahead
    <3> QED BY <3>1
  <2>2. CASE ~(j < at)
    <3>1. at - j + threads \in 1..threads /\ Ahead(at, j, at - j + threads)
      BY <1>1, <2>2 DEF Ahead
    <3> QED BY <3>1
  <2> QED BY <2>1, <2>2
<1>3. ASSUME NEW i \in Slot, Active(i) PROVE FALSE
  <2>1. job[i] \in (released + 1)..Len(submitted) /\ submitted[job[i]].slot = i
    BY <1>3 DEF SlotInv
  <2>2. i \in 0..(threads - 1)
    BY <1>1, <2>1 DEF InFlight
  <2> QED
    BY <1>2, <1>3, <2>2 DEF Active
<1>4. Backlog = 0
  BY <1>1, <1>3, TurnHolder
<1> QED
  BY <1>3, <1>4

\* One turn of a waiting loop keeps it: one more slot has been passed.
LEMMA WaitSlotIInv ==
  ASSUME IInv, NEW in, NEW to, NEW take,
         \/ in = "seal_wait" /\ to = "seal"
         \/ in = "flush_wait" /\ to = "flush"
         \/ in = "close_wait" /\ to = "trailer",
         WaitSlot(in, to, take)
  PROVE  IInv'
<1> USE DEF WaitSlot, ringVars, fileVars
<1>0. TypeOK /\ RingInv /\ exit = "running" /\ InFlight /\ SlotInv /\ WaitInv /\ WrittenInv
  BY DEF IInv, RingInv
<1>1. /\ threads \in 1..PoolSize /\ PoolSize \in Nat /\ Slot = 0..(PoolSize - 1)
      /\ wait_left \in 1..threads /\ wait_at \in 0..(threads - 1) /\ Passed
  BY <1>0, PoolFacts DEF TypeOK, PoolOK, MainOK, WaitInv
<1>2. pc[wait_at] = "idle"
  BY <1>0, <1>1 DEF SlotInv
<1>3. wait_at' \in 0..(threads - 1) /\ wait_left' \in 0..(threads - 1)
  BY <1>1 DEF Advance
<1>4. cksem' \in [Slot -> 0..1] /\ \A i \in Slot : cksem'[i] = 1 => cksem[i] = 1
  BY <1>0, <1>1 DEF TypeOK, PoolOK
<1>5. Passed'
  <2> SUFFICES ASSUME NEW d \in 1..(threads - wait_left + 1), NEW j \in 0..(threads - 1),
                      wait_at' = j + d \/ wait_at' = j + d - threads
               PROVE  pc[j] = "idle"
    BY <1>1 DEF Passed, Ahead
  <2>1. CASE d = 1
    <3>1. j = wait_at
      BY <1>1, <2>1 DEF Advance
    <3> QED BY <1>2, <3>1
  <2>2. CASE d # 1
    <3>1. d - 1 \in 1..(threads - wait_left) /\ Ahead(wait_at, j, d - 1)
      BY <1>1, <2>2 DEF Ahead, Advance
    <3> QED BY <1>1, <3>1 DEF Passed
  <2> QED BY <2>1, <2>2
<1>6. TypeOK'
  <2>1. FlagsOK' BY <1>0 DEF TypeOK, FlagsOK
  <2>2. PoolOK' BY <1>0, <1>4 DEF TypeOK, PoolOK
  <2>3. MainOK' BY <1>0, <1>1, <1>3 DEF TypeOK, MainOK, MainPC
  <2>4. FileOK' BY <1>0 DEF TypeOK, FileOK
  <2> QED BY <2>1, <2>2, <2>3, <2>4 DEF TypeOK
<1>7. RingInv'
  BY <1>0 DEF RingInv, Backlog, Ahead
<1>8. InFlight' /\ SlotInv' /\ WrittenInv'
  BY <1>0, <1>4 DEF InFlight, SlotInv, WrittenInv, Active, Writing, Ahead
<1>9. WaitInv'
  <2>1. CASE wait_left # 1
    BY <1>1, <1>3, <1>5, <2>1 DEF WaitInv
  <2>2. CASE wait_left = 1
    <3>1. \A d \in 1..threads : \A j \in 0..(threads - 1) : Ahead(wait_at', j, d) => pc[j] = "idle"
      BY <1>1, <1>5, <2>2 DEF Passed, Ahead
    <3>2. Backlog = 0 /\ \A i \in Slot : ~Active(i)
      BY <1>0, <1>3, <3>1, AllPassed
    <3>3. (Backlog = 0 /\ \A i \in Slot : ~Active(i))'
      BY <3>2 DEF Backlog, Active
    <3> QED
      BY <2>2, <3>3 DEF WaitInv
  <2> QED BY <2>1, <2>2
<1> QED
  BY <1>0, <1>6, <1>7, <1>8, <1>9 DEF IInv

\* The main thread's rewriting of the last headers keeps it.
LEMMA SealLastHeadsIInv ==
  ASSUME IInv, SealLastHeads PROVE IInv'
<1> USE DEF SealLastHeads, ringVars, slotVars
<1>0. TypeOK /\ RingInv /\ exit = "running" /\ InFlight /\ SlotInv /\ WrittenInv
  BY DEF IInv, RingInv
<1>1. mpc' \in {"flush_begin", "close_begin", "pass"}
  BY DEF AfterChunk
<1>2. /\ archive' \in Seq(ItemType) /\ DOMAIN archive' = DOMAIN archive
      /\ \A k \in DOMAIN archive : archive'[k].kind = archive[k].kind /\ archive'[k].n = archive[k].n
  BY <1>0, RewriteEncryptedFacts DEF TypeOK, FileOK
<1>3. TypeOK'
  <2>1. FlagsOK' BY <1>0 DEF TypeOK, FlagsOK
  <2>2. PoolOK' BY <1>0 DEF TypeOK, PoolOK
  <2>3. MainOK' BY <1>0, <1>1 DEF TypeOK, MainOK, MainPC
  <2>4. FileOK' BY <1>0, <1>2 DEF TypeOK, FileOK
  <2> QED BY <2>1, <2>2, <2>3, <2>4 DEF TypeOK
<1>4. RingInv'
  BY <1>0, <1>1 DEF RingInv, Backlog, Ahead
<1>5. InFlight' /\ SlotInv'
  BY <1>0 DEF InFlight, SlotInv, Active, Writing, Ahead
<1>6. WaitInv'
  BY <1>1 DEF WaitInv
<1>7. WrittenInv'
  BY <1>0, <1>2 DEF WrittenInv
<1> QED
  BY <1>0, <1>3, <1>4, <1>5, <1>6, <1>7 DEF IInv

\* Flushing a finished block keeps it.
LEMMA FlushTmpoutIInv ==
  ASSUME IInv, FlushTmpout PROVE IInv'
<1> USE DEF FlushTmpout, ringVars, slotVars
<1>0. TypeOK /\ RingInv /\ exit = "running" /\ InFlight /\ SlotInv /\ WrittenInv
  BY DEF IInv, RingInv
<1>1. mpc' \in {"close_begin", "pass"}
  BY DEF AfterChunk
<1>3. TypeOK'
  <2>1. FlagsOK' BY <1>0 DEF TypeOK, FlagsOK
  <2>2. PoolOK' BY <1>0 DEF TypeOK, PoolOK
  <2>3. MainOK' BY <1>0, <1>1 DEF TypeOK, MainOK, MainPC
  <2>4. FileOK' BY <1>0 DEF TypeOK, FileOK
  <2> QED BY <2>1, <2>2, <2>3, <2>4 DEF TypeOK
<1>4. RingInv'
  BY <1>0, <1>1 DEF RingInv, Backlog, Ahead
<1>5. InFlight' /\ SlotInv' /\ WrittenInv'
  BY <1>0 DEF InFlight, SlotInv, Active, Writing, Ahead, WrittenInv
<1>6. WaitInv'
  BY <1>1 DEF WaitInv
<1> QED
  BY <1>0, <1>3, <1>4, <1>5, <1>6 DEF IInv

\* The end of the process, however it comes.
LEMMA EndProcessIInv ==
  ASSUME IInv, NEW how \in {"success", "failure"}, EndProcess(how), flushed' \in Nat
  PROVE  IInv'
<1> USE DEF EndProcess, ringVars
<1>0. TypeOK /\ RingInv /\ WrittenInv
  BY DEF IInv
<1>3. TypeOK'
  <2>1. FlagsOK' BY <1>0 DEF TypeOK, FlagsOK
  <2>2. PoolOK' BY <1>0 DEF TypeOK, PoolOK, ThreadPC
  <2>3. MainOK' BY <1>0 DEF TypeOK, MainOK, MainPC
  <2>4. FileOK' BY <1>0 DEF TypeOK, FileOK
  <2> QED BY <2>1, <2>2, <2>3, <2>4 DEF TypeOK
<1>4. RingInv'
  BY <1>0 DEF RingInv, Backlog, Ahead
<1>5. WrittenInv'
  BY <1>0 DEF WrittenInv
<1>6. Over'
  BY DEF Over
<1> QED
  BY <1>3, <1>4, <1>5, <1>6 DEF IInv

\* The end of the process keeps it.
LEMMA ExitsIInv ==
  ASSUME IInv, Finish \/ MainFails \/ FatalExit \/ \E i \in Slot : ThreadExits(i)
  PROVE  IInv'
<1>1. archive \in Seq(ItemType) /\ flushed \in Nat /\ Len(archive) \in Nat
  BY DEF IInv, TypeOK, FileOK
<1> QED
  BY <1>1, EndProcessIInv DEF Finish, MainFails, FatalExit, ThreadExits

----------------------------------------------------------------------------
(* compthread's steps. *)

\* A thread that moves on while its block stays in flight.
LEMMA GotoIInv ==
  ASSUME IInv, NEW i \in Slot, NEW to \in ThreadPC \ {"idle", "post"}, NEW fatal \in BOOLEAN,
         Active(i), Goto(i, to, fatal),
         to \in {"recompress", "header", "link", "body", "out"} => output_thread = i,
         exit = "running", FileOK', WrittenInv'
  PROVE  IInv'
<1> USE DEF Goto, ringVars, mainVars
<1>0. TypeOK /\ RingInv /\ InFlight /\ SlotInv /\ WaitInv
  BY DEF IInv
<1>1. /\ pc' \in [Slot -> ThreadPC] /\ pc'[i] = to
      /\ \A j \in Slot : j # i => pc'[j] = pc[j]
      /\ \A j \in Slot : Active(j)' <=> Active(j)
      /\ \A j \in Slot : pc[j] = "idle" <=> pc'[j] = "idle"
  BY <1>0 DEF TypeOK, PoolOK, Active
<1>3. TypeOK'
  <2>1. FlagsOK' BY <1>0 DEF TypeOK, FlagsOK
  <2>2. PoolOK'
    <3>1. faults' \in 0..MaxFaults
      BY <1>0, BoundsAssumption DEF TypeOK, PoolOK
    <3> QED
      BY <1>0, <1>1, <3>1 DEF TypeOK, PoolOK
  <2>3. MainOK' BY <1>0 DEF TypeOK, MainOK
  <2> QED BY <2>1, <2>2, <2>3 DEF TypeOK
<1>4. RingInv'
  BY <1>0 DEF RingInv, Backlog, Ahead
<1>5. InFlight'
  <2> SUFFICES ASSUME NEW n \in (released + 1)..Len(submitted)
               PROVE  (/\ submitted[n].slot < threads
                       /\ Ahead(submitted[n].slot, output_thread, n - released - 1)
                       /\ job[submitted[n].slot] = n
                       /\ Active(submitted[n].slot))'
    BY DEF InFlight
  <2>1. submitted[n].slot \in Slot
    BY <1>0, SubmittedFacts DEF TypeOK, PoolOK
  <2> QED
    BY <1>0, <1>1, <2>1 DEF InFlight, Ahead
<1>6. SlotInv'
  <2> SUFFICES ASSUME NEW j \in Slot
               PROVE  (/\ cksem[j] = 1 => pc[j] = "idle"
                       /\ Active(j) => /\ job[j] \in (released + 1)..Len(submitted)
                                       /\ submitted[job[j]].slot = j
                       /\ Writing(j) => output_thread = j)'
    BY DEF SlotInv
  <2>1. Writing(j)' => output_thread = j
    BY <1>0, <1>1 DEF SlotInv, Writing
  <2> QED
    BY <1>0, <1>1, <2>1 DEF SlotInv
<1>7. WaitInv'
  <2>1. threads \in 1..PoolSize /\ PoolSize \in Nat /\ Slot = 0..(PoolSize - 1)
    BY <1>0, PoolFacts DEF TypeOK, PoolOK
  <2>2. Passed => Passed'
    BY <1>1, <2>1 DEF Passed, Ahead
  <2> QED
    BY <1>0, <1>1, <2>2 DEF WaitInv, Backlog
<1> QED
  BY <1>0, <1>3, <1>4, <1>5, <1>6, <1>7 DEF IInv

\* What is known of a slot whose thread runs: its process has not ended and,
\* if the thread holds the turn, its block is the oldest in flight.
LEMMA WorkerFacts ==
  ASSUME IInv, NEW i \in Slot, Active(i)
  PROVE  /\ exit = "running"
         /\ TypeOK /\ RingInv /\ InFlight /\ SlotInv /\ WaitInv /\ WrittenInv
         /\ job[i] \in (released + 1)..Len(submitted)
         /\ Block(i).chunk \in 1..MaxChunks
         /\ Block(i).stream \in Streams
         /\ output_thread = i => job[i] = released + 1
<1>1. exit = "running"
  BY DEF IInv, Over, Active
<1>2. TypeOK /\ RingInv /\ InFlight /\ SlotInv /\ WaitInv /\ WrittenInv
  BY <1>1 DEF IInv
<1>3. job[i] \in (released + 1)..Len(submitted)
  BY <1>2 DEF SlotInv
<1>4. released \in Nat /\ Len(submitted) \in Nat
  BY <1>2 DEF TypeOK, PoolOK
<1>5. job[i] \in 1..Len(submitted)
  BY <1>3, <1>4
<1>6. output_thread = i => job[i] = released + 1
  BY <1>2, <1>3, <1>4, TurnHolder DEF Backlog
<1> QED
  BY <1>1, <1>2, <1>3, <1>5, <1>6, SubmittedFacts DEF Block

\* Steps of a thread that leave the archive alone, before its block is written.
LEMMA QuietGotoIInv ==
  ASSUME IInv, NEW i \in Slot, NEW to \in ThreadPC \ {"idle", "post"}, NEW fatal \in BOOLEAN,
         Active(i), pc[i] # "out", Goto(i, to, fatal),
         to \in {"recompress", "header", "link", "body", "out"} => output_thread = i,
         UNCHANGED archive, FileOK'
  PROVE  IInv'
<1>0. TypeOK /\ WrittenInv /\ exit = "running"
  BY WorkerFacts
<1>1. WrittenInv'
  <2>1. pc[output_thread] = "out" => pc'[output_thread] = "out"
    BY <1>0 DEF TypeOK, PoolOK, Goto
  <2> QED
    BY <1>0, <2>1 DEF WrittenInv, Goto, ringVars
<1> QED
  BY <1>0, <1>1, GotoIInv

\* Compressing, retrying and taking the turn keep it.
LEMMA ComputeIInv ==
  ASSUME IInv, NEW i \in Slot, Compress(i) \/ TakeTurn(i) \/ Recompress(i)
  PROVE  IInv'
<1>1. Active(i) /\ pc[i] # "out" /\ FileOK' /\ UNCHANGED archive
  BY DEF Compress, TakeTurn, Recompress, Active, fileVars, IInv, TypeOK, FileOK
<1>2. SlotInv
  BY <1>1, WorkerFacts
<1>3. CASE Compress(i)
  BY <1>1, <1>3, QuietGotoIInv DEF Compress, ThreadPC
<1>4. CASE TakeTurn(i)
  BY <1>1, <1>4, QuietGotoIInv DEF TakeTurn, ThreadPC
<1>5. CASE Recompress(i)
  <2>1. output_thread = i
    BY <1>2, <1>5 DEF SlotInv, Recompress, Writing
  <2> QED
    BY <1>1, <1>5, <2>1, QuietGotoIInv DEF Recompress, ThreadPC
<1> QED
  BY <1>3, <1>4, <1>5

\* Concatenation, pointwise.
LEMMA ConcatFacts ==
  ASSUME NEW T, NEW a \in Seq(T), NEW b \in Seq(T)
  PROVE  /\ a \o b \in Seq(T)
         /\ Len(a \o b) = Len(a) + Len(b)
         /\ \A k \in DOMAIN (a \o b) :
              \/ k \in DOMAIN a /\ (a \o b)[k] = a[k]
              \/ k > Len(a) /\ k - Len(a) \in DOMAIN b /\ (a \o b)[k] = b[k - Len(a)]
<1>1. a \o b \in Seq(T) /\ Len(a \o b) = Len(a) + Len(b)
  OBVIOUS
<1>2. Len(a) \in Nat /\ Len(b) \in Nat /\ DOMAIN a = 1..Len(a) /\ DOMAIN b = 1..Len(b)
  OBVIOUS
<1>3. ASSUME NEW k \in 1..(Len(a) + Len(b)), k > Len(a)
      PROVE  k - Len(a) \in DOMAIN b /\ (a \o b)[k] = b[k - Len(a)]
  BY <1>2, <1>3
<1>4. ASSUME NEW k \in 1..(Len(a) + Len(b)), ~(k > Len(a))
      PROVE  k \in DOMAIN a /\ (a \o b)[k] = a[k]
  BY <1>2, <1>4
<1> QED
  BY <1>1, <1>2, <1>3, <1>4

\* The items of a chunk header are well typed and no blocks.
LEMMA ChunkHeaderFacts ==
  ASSUME NEW c \in 1..MaxChunks, eof \in {0, 1}
  PROVE  /\ ChunkHeader(c) \in Seq(ItemType)
         /\ Len(ChunkHeader(c)) = 3
         /\ \A k \in 1..3 : /\ ChunkHeader(c)[k].kind = IF k = 1 THEN "rcd" ELSE "init"
                            /\ ChunkHeader(c)[k].chunk = c
<1> DEFINE a == Item("rcd", c, 0, 0, eof)
           b == Item("init", c, 0, 0, 0)
           d == Item("init", c, 1, 0, 0)
<1>1. a \in ItemType /\ a.kind = "rcd" /\ a.chunk = c
  BY DEF Item, ItemType, Streams
<1>2. b \in ItemType /\ b.kind = "init" /\ b.chunk = c
  BY DEF Item, ItemType, Streams
<1>3. d \in ItemType /\ d.kind = "init" /\ d.chunk = c
  BY DEF Item, ItemType, Streams
<1>4. ChunkHeader(c) = <<a, b, d>>
  BY DEF ChunkHeader
<1> HIDE DEF a, b, d
<1> QED
  BY <1>1, <1>2, <1>3, <1>4

\* Writing the chunk header keeps it.
LEMMA WriteChunkHeaderIInv ==
  ASSUME IInv, NEW i \in Slot, WriteChunkHeader(i)
  PROVE  IInv'
<1> DEFINE c == Block(i).chunk
<1>1. Active(i) /\ pc[i] = "header"
  BY DEF WriteChunkHeader, Active
<1>2. /\ TypeOK /\ SlotInv /\ WrittenInv /\ exit = "running" /\ c \in 1..MaxChunks
  BY <1>1, WorkerFacts
<1>3. output_thread = i
  BY <1>1, <1>2 DEF SlotInv, Writing
<1>4. /\ archive \in Seq(ItemType) /\ Len(archive) \in Nat /\ flushed \in Nat
      /\ last_headofs \in [1..MaxChunks -> [Streams -> Nat]]
      /\ last_head \in [1..MaxChunks -> [Streams -> Nat]]
      /\ chunks \in [1..MaxChunks -> Nat]
      /\ eof \in {0, 1}
  BY <1>2 DEF TypeOK, FileOK, MainOK
<1>5. /\ chunks' \in [1..MaxChunks -> Nat] /\ flushed' \in Nat
      /\ last_headofs' \in [1..MaxChunks -> [Streams -> Nat]]
      /\ last_head' \in [1..MaxChunks -> [Streams -> Nat]]
  <2>1. [t \in Streams |-> Len(archive) + 2 + t] \in [Streams -> Nat]
    BY <1>4 DEF Streams
  <2>2. chunks[c] + 1 \in Nat /\ chunks' = [chunks EXCEPT ![c] = chunks[c] + 1]
    BY <1>2, <1>4 DEF WriteChunkHeader
  <2>3. \/ last_head' = last_head
        \/ last_head' = [last_head EXCEPT ![c] = [t \in Streams |-> Len(archive) + 2 + t]]
    BY DEF WriteChunkHeader
  <2>4. UNCHANGED <<last_headofs, flushed>>
    BY DEF WriteChunkHeader
  <2> HIDE DEF c
  <2> QED
    BY <1>2, <1>4, <2>1, <2>2, <2>3, <2>4
<1>6. CASE UNCHANGED archive
  <2>1. FileOK'
    BY <1>4, <1>5, <1>6 DEF FileOK
  <2>2. Goto(i, "link", FALSE) \/ Goto(i, "out", TRUE)
    BY DEF WriteChunkHeader
  <2> QED
    BY <1>1, <1>3, <1>6, <2>1, <2>2, QuietGotoIInv DEF ThreadPC
<1>7. CASE archive' = archive \o ChunkHeader(c) /\ Goto(i, "link", FALSE)
  <2> HIDE DEF c
  <2>1. /\ ChunkHeader(c) \in Seq(ItemType) /\ Len(ChunkHeader(c)) = 3
        /\ \A k \in 1..3 : ChunkHeader(c)[k].kind # "block"
    BY <1>2, <1>4, ChunkHeaderFacts
  <2>2. archive' \in Seq(ItemType)
    BY <1>4, <1>7, <2>1
  <2>3. FileOK'
    BY <1>5, <2>2 DEF FileOK
  <2>4. \A k \in DOMAIN archive' : archive'[k].kind = "block" =>
          k \in DOMAIN archive /\ archive'[k] = archive[k]
    <3> TAKE k \in DOMAIN archive'
    <3>1. \/ k \in DOMAIN archive /\ archive'[k] = archive[k]
          \/ k - Len(archive) \in DOMAIN ChunkHeader(c) /\ archive'[k] = ChunkHeader(c)[k - Len(archive)]
      BY <1>4, <1>7, <2>1, ConcatFacts
    <3>2. DOMAIN ChunkHeader(c) = 1..3
      BY <2>1
    <3> QED
      BY <2>1, <3>1, <3>2
  <2>5. pc[output_thread] # "out"
    BY <1>1, <1>3
  <2>6. WrittenInv'
    BY <1>2, <1>7, <2>4, <2>5 DEF WrittenInv, Goto, ringVars
  <2> QED
    BY <1>1, <1>2, <1>3, <1>7, <2>3, <2>6, GotoIInv DEF ThreadPC
<1> QED
  BY <1>6, <1>7 DEF WriteChunkHeader

\* Patching the previous header's link keeps it.
LEMMA WriteLinkIInv ==
  ASSUME IInv, NEW i \in Slot, WriteLink(i)
  PROVE  IInv'
<1> DEFINE c == Block(i).chunk
           s == Block(i).stream
           linked == PatchLink(archive, last_head[c][s], Len(archive) + 1)
<1>1. Active(i) /\ pc[i] = "link"
  BY DEF WriteLink, Active
<1>2. /\ TypeOK /\ SlotInv /\ WrittenInv /\ exit = "running"
      /\ c \in 1..MaxChunks /\ s \in Streams
  BY <1>1, WorkerFacts
<1>3. output_thread = i
  BY <1>1, <1>2 DEF SlotInv, Writing
<1>4. /\ archive \in Seq(ItemType) /\ Len(archive) \in Nat /\ flushed \in Nat
      /\ last_headofs \in [1..MaxChunks -> [Streams -> Nat]]
      /\ last_head \in [1..MaxChunks -> [Streams -> Nat]]
      /\ chunks \in [1..MaxChunks -> Nat]
  BY <1>2 DEF TypeOK, FileOK
<1>5. /\ chunks' \in [1..MaxChunks -> Nat] /\ flushed' \in Nat
      /\ last_headofs' \in [1..MaxChunks -> [Streams -> Nat]]
      /\ last_head' \in [1..MaxChunks -> [Streams -> Nat]]
  <2>1. last_head[c] \in [Streams -> Nat]
    BY <1>2, <1>4
  <2>2. [last_head[c] EXCEPT ![s] = Len(archive) + 1] \in [Streams -> Nat]
    BY <1>2, <1>4, <2>1
  <2>3. \/ last_head' = last_head
        \/ last_head' = [last_head EXCEPT ![c] = [last_head[c] EXCEPT ![s] = Len(archive) + 1]]
    BY <1>2, <1>4 DEF WriteLink
  <2>4. UNCHANGED <<chunks, last_headofs, flushed>>
    BY DEF WriteLink
  <2> HIDE DEF c, s
  <2> QED
    BY <1>2, <1>4, <2>2, <2>3, <2>4
<1>6. CASE UNCHANGED archive /\ Goto(i, "out", TRUE)
  <2>1. FileOK'
    BY <1>4, <1>5, <1>6 DEF FileOK
  <2> QED
    BY <1>1, <1>3, <1>6, <2>1, QuietGotoIInv DEF ThreadPC
<1>7. CASE /\ archive' = IF Encrypt THEN RewriteEncrypted(linked, {last_head[c][s]}) ELSE linked
           /\ Goto(i, "body", FALSE)
  <2>1. /\ archive' \in Seq(ItemType)
        /\ DOMAIN archive' = DOMAIN archive
        /\ \A k \in DOMAIN archive : /\ archive'[k].kind = archive[k].kind
                                     /\ archive'[k].n = archive[k].n
    <3>1. Len(archive) + 1 \in Nat
      BY <1>4
    <3> HIDE DEF c, s
    <3>2. /\ linked \in Seq(ItemType) /\ DOMAIN linked = DOMAIN archive
          /\ \A k \in DOMAIN archive : linked[k].kind = archive[k].kind /\ linked[k].n = archive[k].n
      BY <1>4, <3>1, PatchLinkFacts
    <3> HIDE DEF linked
    <3>3. CASE Encrypt
      BY <1>7, <3>2, <3>3, RewriteEncryptedFacts
    <3>4. CASE ~Encrypt
      BY <1>7, <3>2, <3>4
    <3> QED BY <3>3, <3>4
  <2>2. FileOK'
    BY <1>5, <2>1 DEF FileOK
  <2>3. pc[output_thread] # "out"
    BY <1>1, <1>3
  <2>4. WrittenInv'
    BY <1>2, <1>7, <2>1, <2>3 DEF WrittenInv, Goto, ringVars
  <2> QED
    BY <1>1, <1>2, <1>3, <1>7, <2>2, <2>4, GotoIInv DEF ThreadPC
<1> QED
  BY <1>6, <1>7 DEF WriteLink

\* The block that is appended is the one whose turn it is.
LEMMA WriteBodyIInv ==
  ASSUME IInv, NEW i \in Slot, WriteBody(i)
  PROVE  IInv'
<1> DEFINE c == Block(i).chunk
           s == Block(i).stream
           it == Item("block", c, s, job[i], 0)
<1>1. Active(i) /\ pc[i] = "body"
  BY DEF WriteBody, Active
<1>2. /\ TypeOK /\ SlotInv /\ WrittenInv /\ exit = "running"
      /\ c \in 1..MaxChunks /\ s \in Streams
  BY <1>1, WorkerFacts
<1>3. output_thread = i
  BY <1>1, <1>2 DEF SlotInv, Writing
<1>4. /\ archive \in Seq(ItemType) /\ Len(archive) \in Nat /\ flushed \in Nat
      /\ last_headofs \in [1..MaxChunks -> [Streams -> Nat]]
      /\ last_head \in [1..MaxChunks -> [Streams -> Nat]]
      /\ chunks \in [1..MaxChunks -> Nat]
      /\ job[i] \in Nat /\ released \in Nat /\ Len(submitted) \in Nat
  BY <1>2 DEF TypeOK, FileOK, PoolOK
<1>5. /\ chunks' \in [1..MaxChunks -> Nat] /\ flushed' \in Nat
      /\ last_headofs' \in [1..MaxChunks -> [Streams -> Nat]]
      /\ last_head' \in [1..MaxChunks -> [Streams -> Nat]]
  <2>1. last_headofs[c] \in [Streams -> Nat]
    BY <1>2, <1>4
  <2>2. [last_headofs[c] EXCEPT ![s] = Len(archive) + 1] \in [Streams -> Nat]
    BY <1>2, <1>4, <2>1
  <2>3. \/ last_headofs' = last_headofs
        \/ last_headofs' = [last_headofs EXCEPT ![c] = [last_headofs[c] EXCEPT ![s] = Len(archive) + 1]]
    BY <1>2, <1>4 DEF WriteBody
  <2>4. UNCHANGED <<chunks, last_head, flushed>>
    BY DEF WriteBody
  <2> HIDE DEF c, s
  <2> QED
    BY <1>2, <1>4, <2>2, <2>3, <2>4
<1>6. CASE UNCHANGED archive /\ Goto(i, "out", TRUE)
  <2>1. FileOK'
    BY <1>4, <1>5, <1>6 DEF FileOK
  <2> QED
    BY <1>1, <1>3, <1>6, <2>1, QuietGotoIInv DEF ThreadPC
<1>7. CASE archive' = Append(archive, it) /\ Goto(i, "out", FALSE)
  <2> HIDE DEF c, s
  <2>1. it \in ItemType /\ it.kind = "block" /\ it.n = job[i]
    BY <1>2, <1>4 DEF Item, ItemType
  <2> HIDE DEF it
  <2>2. /\ archive' \in Seq(ItemType) /\ DOMAIN archive' = 1..(Len(archive) + 1)
        /\ archive'[Len(archive) + 1] = it
        /\ \A k \in DOMAIN archive : archive'[k] = archive[k]
        /\ DOMAIN archive = 1..Len(archive)
    BY <1>4, <1>7, <2>1
  <2>3. FileOK'
    BY <1>5, <2>2 DEF FileOK
  <2>4. job[i] = released + 1
    BY <1>1, <1>3, WorkerFacts
  <2>5. pc'[output_thread] = "out" /\ released' = released /\ output_thread' = output_thread
    BY <1>2, <1>3, <1>7 DEF Goto, ringVars, TypeOK, PoolOK
  <2>6. WrittenInv'
    <3> SUFFICES ASSUME NEW k \in DOMAIN archive', archive'[k].kind = "block"
                 PROVE  archive'[k].n \in 1..(released + 1)
      BY <2>5 DEF WrittenInv
    <3>1. CASE k = Len(archive) + 1
      BY <1>4, <2>1, <2>2, <2>4, <3>1
    <3>2. CASE k # Len(archive) + 1
      <4>1. k \in DOMAIN archive /\ archive'[k] = archive[k]
        BY <1>4, <2>2, <3>2
      <4> QED
        BY <1>2, <4>1 DEF WrittenInv
    <3> QED BY <3>1, <3>2
  <2> QED
    BY <1>1, <1>2, <1>3, <1>7, <2>3, <2>6, GotoIInv DEF ThreadPC
<1> QED
  BY <1>6, <1>7 DEF WriteBody

\* Seen from the next slot, every other slot is one place nearer.
LEMMA AdvanceAhead ==
  ASSUME threads \in Nat, output_thread \in 0..(threads - 1), NEW x \in 0..(threads - 1),
         NEW d \in 1..threads, Ahead(x, output_thread, d)
  PROVE  Ahead(x, Advance(output_thread), d - 1)
BY DEF Ahead, Advance

\* Passing the turn on moves the head of the ring by one.
LEMMA ReleaseTurnIInv ==
  ASSUME IInv, NEW i \in Slot, ReleaseTurn(i)
  PROVE  IInv'
<1>1. Active(i)
  BY DEF ReleaseTurn, Active
<1>2. /\ TypeOK /\ RingInv /\ InFlight /\ SlotInv /\ WaitInv /\ WrittenInv /\ exit = "running"
      /\ job[i] \in (released + 1)..Len(submitted)
  BY <1>1, WorkerFacts
<1>3. output_thread = i
  BY <1>2 DEF SlotInv, Writing, ReleaseTurn
<1>4. job[i] = released + 1
  BY <1>1, <1>3, WorkerFacts
<1>5. /\ output_thread' = Advance(output_thread) /\ released' = released + 1
      /\ pc' = [pc EXCEPT ![i] = "post"] /\ lost' = (lost \/ fatal_msg[i])
      /\ UNCHANGED <<threads, ring_i, cksem, job, fatal_msg, faults, doomed, mainVars, fileVars,
                     submitted, exit>>
  BY <1>3 DEF ReleaseTurn
<1>6. /\ threads \in 1..PoolSize /\ PoolSize \in Nat /\ Slot = 0..(PoolSize - 1)
      /\ output_thread \in 0..(threads - 1) /\ ring_i \in 0..(threads - 1)
      /\ released \in Nat /\ Len(submitted) \in Nat
  BY <1>2, PoolFacts DEF TypeOK, PoolOK, RingInv
<1>7. output_thread' \in 0..(threads - 1) /\ output_thread' \in Slot
  BY <1>5, <1>6 DEF Advance
<1>8. /\ pc' \in [Slot -> ThreadPC] /\ pc'[i] = "post"
      /\ \A j \in Slot : j # i => pc'[j] = pc[j]
  BY <1>2, <1>5 DEF TypeOK, PoolOK, ThreadPC
<1>9. TypeOK'
  <2>1. FlagsOK' BY <1>2, <1>5 DEF TypeOK, FlagsOK
  <2>2. PoolOK' BY <1>2, <1>5, <1>6, <1>7, <1>8 DEF TypeOK, PoolOK
  <2>3. MainOK' BY <1>2, <1>5 DEF TypeOK, MainOK, mainVars
  <2>4. FileOK' BY <1>2, <1>5 DEF TypeOK, FileOK, fileVars
  <2> QED BY <2>1, <2>2, <2>3, <2>4 DEF TypeOK
<1>10. RingInv'
  <2>1. Backlog' = Backlog - 1 /\ Backlog \in 1..threads
    BY <1>2, <1>5, <1>6 DEF RingInv, Backlog
  <2>2. Ahead(ring_i, output_thread, Backlog)
    BY <1>2 DEF RingInv
  <2>3. Ahead(ring_i, output_thread, Backlog)'
    BY <1>5, <1>6, <2>1, <2>2 DEF Ahead, Advance
  <2>4. chunk # 0
    BY <1>2, <1>6, <2>1 DEF RingInv
  <2> QED
    BY <1>2, <1>5, <1>6, <1>7, <2>1, <2>3, <2>4 DEF RingInv, mainVars
<1>11. \A j \in Slot : j # i /\ Active(j) => job[j] \in (released + 2)..Len(submitted)
  <2> SUFFICES ASSUME NEW j \in Slot, j # i, Active(j)
               PROVE  job[j] # released + 1
    BY <1>2, <1>6 DEF SlotInv
  <2> QED
    BY <1>1, <1>2, <1>4 DEF SlotInv
<1>12. InFlight'
  <2> SUFFICES ASSUME NEW n \in (released + 2)..Len(submitted)
               PROVE  /\ submitted[n].slot < threads
                      /\ Ahead(submitted[n].slot, output_thread', n - released - 2)
                      /\ job[submitted[n].slot] = n
                      /\ pc'[submitted[n].slot] \notin {"idle", "post"}
    <3>1. released' + 1 = released + 2 /\ \A n \in Int : n - released' - 1 = n - released - 2
      BY <1>5, <1>6
    <3>2. UNCHANGED <<submitted, threads, job>>
      BY <1>5
    <3> QED
      BY <1>6, <3>1, <3>2 DEF InFlight, Ahead, Active
  <2>1. n \in (released + 1)..Len(submitted) /\ n \in 1..Len(submitted)
    BY <1>6
  <2>2. submitted[n].slot \in Slot
    BY <1>2, <2>1, SubmittedFacts
  <2>3. /\ submitted[n].slot < threads
        /\ Ahead(submitted[n].slot, output_thread, n - released - 1)
        /\ job[submitted[n].slot] = n
        /\ Active(submitted[n].slot)
    BY <1>2, <2>1 DEF InFlight
  <2>4. submitted[n].slot # i
    BY <1>4, <1>6, <2>3
  <2>5. Ahead(submitted[n].slot, output_thread', n - released - 2)
    <3>1. n - released - 1 \in 1..threads
      BY <1>2, <1>6 DEF RingInv, Backlog
    <3>2. submitted[n].slot \in 0..(threads - 1)
      BY <1>6, <2>2, <2>3
    <3>3. Ahead(submitted[n].slot, output_thread', (n - released - 1) - 1)
      <4>1. threads \in Nat /\ output_thread \in 0..(threads - 1) /\ output_thread' = Advance(output_thread)
        BY <1>5, <1>6
      <4> HIDE DEF Ahead, Advance
      <4> QED
        BY <2>3, <3>1, <3>2, <4>1, AdvanceAhead
    <3>4. (n - released - 1) - 1 = n - released - 2
      BY <1>6
    <3> QED
      BY <3>3, <3>4
  <2> QED
    BY <1>8, <2>2, <2>3, <2>4, <2>5 DEF Active
<1>13. SlotInv'
  <2> SUFFICES ASSUME NEW j \in Slot
               PROVE  /\ cksem[j] = 1 => pc'[j] = "idle"
                      /\ Active(j)' => /\ job[j] \in (released + 2)..Len(submitted)
                                       /\ submitted[job[j]].slot = j
                      /\ Writing(j)' => output_thread' = j
    BY <1>5, <1>6 DEF SlotInv
  <2>1. CASE j = i
    BY <1>1, <1>2, <1>8, <2>1 DEF SlotInv, Active, Writing
  <2>2. CASE j # i
    BY <1>2, <1>3, <1>8, <1>11, <2>2 DEF SlotInv, Active, Writing
  <2> QED BY <2>1, <2>2
<1>14. WaitInv'
  <2>1. Passed => Passed'
    BY <1>1, <1>5, <1>6, <1>8 DEF Passed, Ahead, Active, mainVars
  <2>2. mpc \notin {"seal", "flush", "trailer"}
    BY <1>1, <1>2 DEF WaitInv
  <2> QED
    BY <1>2, <1>5, <2>1, <2>2 DEF WaitInv, mainVars
<1>15. WrittenInv'
  BY <1>2, <1>5, <1>6 DEF WrittenInv, fileVars
<1> QED
  BY <1>2, <1>5, <1>9, <1>10, <1>12, <1>13, <1>14, <1>15 DEF IInv

\* Posting the semaphore keeps it.
LEMMA PostSemIInv ==
  ASSUME IInv, NEW i \in Slot, PostSem(i)
  PROVE  IInv'
<1> USE DEF PostSem, ringVars, mainVars, fileVars
<1>1. exit = "running"
  BY DEF IInv, Over
<1>2. TypeOK /\ RingInv /\ InFlight /\ SlotInv /\ WaitInv /\ WrittenInv
  BY <1>1 DEF IInv
<1>3. /\ pc' \in [Slot -> ThreadPC] /\ pc'[i] = "idle"
      /\ \A j \in Slot : j # i => pc'[j] = pc[j]
      /\ \A j \in Slot : Active(j)' <=> Active(j)
      /\ \A j \in Slot : pc[j] = "idle" => pc'[j] = "idle"
  BY <1>2 DEF TypeOK, PoolOK, Active, ThreadPC
<1>4. cksem' \in [Slot -> 0..1] /\ \A j \in Slot : j # i => cksem'[j] = cksem[j]
  BY <1>2 DEF TypeOK, PoolOK
<1>5. TypeOK'
  <2>1. FlagsOK' BY <1>2 DEF TypeOK, FlagsOK
  <2>2. PoolOK' BY <1>2, <1>3, <1>4 DEF TypeOK, PoolOK
  <2>3. MainOK' BY <1>2 DEF TypeOK, MainOK
  <2>4. FileOK' BY <1>2 DEF TypeOK, FileOK
  <2> QED BY <2>1, <2>2, <2>3, <2>4 DEF TypeOK
<1>6. RingInv'
  BY <1>2 DEF RingInv, Backlog, Ahead
<1>7. InFlight'
  <2> SUFFICES ASSUME NEW n \in (released + 1)..Len(submitted)
               PROVE  (/\ submitted[n].slot < threads
                       /\ Ahead(submitted[n].slot, output_thread, n - released - 1)
                       /\ job[submitted[n].slot] = n
                       /\ Active(submitted[n].slot))'
    BY DEF InFlight
  <2>1. submitted[n].slot \in Slot
    BY <1>2, SubmittedFacts DEF TypeOK, PoolOK
  <2> QED
    BY <1>2, <1>3, <2>1 DEF InFlight, Ahead
<1>8. SlotInv'
  <2> SUFFICES ASSUME NEW j \in Slot
               PROVE  (/\ cksem[j] = 1 => pc[j] = "idle"
                       /\ Active(j) => /\ job[j] \in (released + 1)..Len(submitted)
                                       /\ submitted[job[j]].slot = j
                       /\ Writing(j) => output_thread = j)'
    BY DEF SlotInv
  <2>1. CASE j = i
    BY <1>3, <2>1 DEF Active, Writing
  <2>2. CASE j # i
    BY <1>2, <1>3, <1>4, <2>2 DEF SlotInv, Writing
  <2> QED
    BY <2>1, <2>2
<1>9. WaitInv'
  <2>1. threads \in 1..PoolSize /\ PoolSize \in Nat /\ Slot = 0..(PoolSize - 1)
    BY <1>2, PoolFacts DEF TypeOK, PoolOK
  <2>2. Passed => Passed'
    BY <1>3, <2>1 DEF Passed, Ahead
  <2> QED
    BY <1>2, <1>3, <2>2 DEF WaitInv, Backlog
<1>10. WrittenInv'
  <2>1. pc[output_thread] = "out" => pc'[output_thread] = "out"
    BY <1>2, <1>3 DEF TypeOK, PoolOK
  <2> QED
    BY <1>2, <2>1 DEF WrittenInv
<1> QED
  BY <1>1, <1>2, <1>5, <1>6, <1>7, <1>8, <1>9, <1>10 DEF IInv

----------------------------------------------------------------------------
(* The theorems. *)

\* A step that changes nothing keeps it.
LEMMA StutterIInv ==
  ASSUME IInv, UNCHANGED vars PROVE IInv'
<1> USE DEF vars, ringVars, slotVars, mainVars, fileVars
<1>1. TypeOK'
  <2>1. FlagsOK' BY DEF IInv, TypeOK, FlagsOK
  <2>2. PoolOK' BY DEF IInv, TypeOK, PoolOK
  <2>3. MainOK' BY DEF IInv, TypeOK, MainOK
  <2>4. FileOK' BY DEF IInv, TypeOK, FileOK
  <2> QED BY <2>1, <2>2, <2>3, <2>4 DEF TypeOK
<1>2. RingInv' /\ WrittenInv'
  BY DEF IInv, RingInv, WrittenInv, Backlog, Ahead
<1>3. IF exit' = "running" THEN InFlight' /\ SlotInv' /\ WaitInv' ELSE Over'
  BY DEF IInv, InFlight, SlotInv, WaitInv, Over, Active, Writing, Passed, Backlog, Ahead
<1> QED
  BY <1>1, <1>2, <1>3 DEF IInv

\* Every step keeps it.
LEMMA NextIInv ==
  ASSUME RingFits, IInv, [Next]_vars PROVE IInv'
<1>1. CASE MainStep
  <2>1. CASE EncryptWait \/ WaitStreamoutThreads \/ CloseStreamoutThreads
    BY <2>1, WaitBeginIInv, WaitSlotIInv DEF EncryptWait, WaitStreamoutThreads, CloseStreamoutThreads
  <2> QED
    BY <1>1, <2>1, RzipPassIInv, FlushBufferIInv, EndChunkIInv, CloseStreamOutIInv,
       SealLastHeadsIInv, FlushTmpoutIInv, ExitsIInv DEF MainStep
<1>2. CASE \E i \in Slot : Compthread(i)
  BY <1>2, ComputeIInv, WriteChunkHeaderIInv, WriteLinkIInv, WriteBodyIInv, ReleaseTurnIInv,
     PostSemIInv DEF Compthread
<1>3. CASE FatalExit \/ MainFails \/ \E i \in Slot : ThreadExits(i)
  BY <1>3, ExitsIInv
<1>4. CASE UNCHANGED vars \/ Ended
  BY <1>4, StutterIInv DEF Ended
<1> QED
  BY <1>1, <1>2, <1>3, <1>4 DEF Next

\* The inductive invariant of the pool holds in every state.
THEOREM Invariance == RingFits => (Spec => []IInv)
<1> SUFFICES ASSUME RingFits PROVE Spec => []IInv
  OBVIOUS
<1>1. Init => IInv
  BY InitIInv
<1>2. IInv /\ [Next]_vars => IInv'
  BY NextIInv
<1> QED
  BY <1>1, <1>2, PTL DEF Spec

\* Whatever the number of threads, chunks and blocks and whatever order the
\* compressions finish in, every variable of the pool keeps its type: ring_i,
\* output_thread and close_thread never name a slot that was not allocated.
THEOREM TypeCorrect == RingFits => (Spec => []TypeOK)
<1> SUFFICES ASSUME RingFits PROVE Spec => []TypeOK
  OBVIOUS
<1>1. IInv => TypeOK
  BY DEF IInv
<1> QED
  BY <1>1, Invariance, PTL

\* compthread's turn taking is mutual exclusion for the output file: at most
\* one thread writes, and the main thread writes only when no thread does.
THEOREM MutualExclusion == RingFits => (Spec => []OneWriter)
<1> SUFFICES ASSUME RingFits PROVE Spec => []OneWriter
  OBVIOUS
<1>1. IInv => OneWriter
  <2> SUFFICES ASSUME IInv PROVE OneWriter
    OBVIOUS
  <2>1. CASE exit = "running"
    <3>1. SlotInv /\ WaitInv
      BY <2>1 DEF IInv
    <3>2. \A i \in Slot : Writing(i) => output_thread = i /\ Active(i)
      BY <3>1 DEF SlotInv, Writing, Active
    <3> QED
      BY <3>1, <3>2 DEF OneWriter, WaitInv, MainWriting
  <2>2. CASE exit # "running"
    BY <2>2 DEF IInv, Over, OneWriter, Writing
  <2> QED BY <2>1, <2>2
<1> QED
  BY <1>1, Invariance, PTL
----------------------------------------------------------------------------
(* The order of the archive.  Besides BlocksInOrder itself the induction    *)
(* needs that the blocks in flight belong to chunks at least as new as      *)
(* everything written, and that a chunk whose counter is 0 has no item yet. *)

SubmittedOrder ==
  \A m \in 1..Len(submitted) :
    /\ submitted[m].chunk <= chunk
    /\ \A n \in 1..m : submitted[n].chunk <= submitted[m].chunk

ArchiveBehind ==
  \A k \in DOMAIN archive :
    /\ archive[k].chunk <= chunk
    /\ \A n \in (released + 1)..Len(submitted) : archive[k].chunk <= submitted[n].chunk

HeadersFirst ==
  /\ \A k \in DOMAIN archive : chunks[archive[k].chunk] # 0
  /\ \A i \in Slot : pc[i] \in {"link", "body"} => chunks[Block(i).chunk] # 0

OrderInv == SubmittedOrder /\ ArchiveBehind /\ HeadersFirst /\ BlocksInOrder

\* The integers OrderInv compares.
LEMMA OrderTypes ==
  ASSUME TypeOK
  PROVE  /\ released \in Nat /\ Len(submitted) \in Nat /\ chunk \in Nat /\ Len(archive) \in Nat
         /\ DOMAIN archive = 1..Len(archive)
         /\ chunks \in [1..MaxChunks -> Nat]
         /\ \A n \in 1..Len(submitted) : submitted[n].chunk \in 1..MaxChunks
         /\ \A k \in DOMAIN archive : archive[k].chunk \in 1..MaxChunks /\ archive[k].n \in Nat
         /\ MaxChunks \in Nat
<1>1. /\ released \in Nat /\ Len(submitted) \in Nat /\ chunk \in Nat /\ archive \in Seq(ItemType)
      /\ chunks \in [1..MaxChunks -> Nat] /\ MaxChunks \in Nat
  BY BoundsAssumption DEF TypeOK, PoolOK, MainOK, FileOK
<1>2. \A k \in DOMAIN archive : archive[k] \in ItemType
  BY <1>1
<1>3. \A k \in DOMAIN archive : archive[k].chunk \in 1..MaxChunks /\ archive[k].n \in Nat
  BY <1>2 DEF ItemType
<1> QED
  BY <1>1, <1>3, SubmittedFacts

\* A later window is part of an earlier one.
LEMMA LaterRange ==
  ASSUME NEW a \in Nat, NEW b \in Nat, NEW last \in Nat, a <= b
  PROVE  \A n \in (b + 1)..last : n \in (a + 1)..last
OBVIOUS

\* Steps that add nothing to the archive and hand no block over.
LEMMA QuietOrder ==
  ASSUME TypeOK, TypeOK', OrderInv,
         DOMAIN archive' = DOMAIN archive,
         \A k \in DOMAIN archive : /\ archive'[k].kind = archive[k].kind
                                   /\ archive'[k].n = archive[k].n
                                   /\ archive'[k].chunk = archive[k].chunk,
         UNCHANGED <<submitted, job>>,
         released' >= released, chunk' >= chunk,
         \A c \in 1..MaxChunks : chunks[c] # 0 => chunks'[c] # 0,
         \A i \in Slot : pc'[i] \in {"link", "body"} => chunks'[Block(i).chunk] # 0
  PROVE  OrderInv'
<1>0. released' \in Nat /\ chunk' \in Nat
  BY BoundsAssumption DEF TypeOK, PoolOK, MainOK
<1>1. /\ released \in Nat /\ Len(submitted) \in Nat /\ chunk \in Nat
      /\ \A n \in 1..Len(submitted) : submitted[n].chunk \in 1..MaxChunks
      /\ \A k \in DOMAIN archive : archive[k].chunk \in 1..MaxChunks
      /\ MaxChunks \in Nat
  BY OrderTypes
<1>2. SubmittedOrder'
  BY <1>0, <1>1 DEF OrderInv, SubmittedOrder
<1>3. ArchiveBehind'
  <2> SUFFICES ASSUME NEW k \in DOMAIN archive
               PROVE  /\ archive[k].chunk <= chunk'
                      /\ \A n \in (released' + 1)..Len(submitted) : archive[k].chunk <= submitted[n].chunk
    <3>1. submitted' = submitted
      OBVIOUS
    <3> QED
      BY <3>1 DEF ArchiveBehind
  <2>1. /\ archive[k].chunk \in Nat /\ archive[k].chunk <= chunk
        /\ \A n \in (released + 1)..Len(submitted) : archive[k].chunk <= submitted[n].chunk
    BY <1>1 DEF OrderInv, ArchiveBehind
  <2>2. chunk' \in Nat /\ chunk \in Nat /\ chunk' >= chunk => archive[k].chunk <= chunk'
    BY <2>1
  <2>3. \A n \in (released' + 1)..Len(submitted) : n \in (released + 1)..Len(submitted)
    <3>1. released' \in Nat /\ released \in Nat /\ Len(submitted) \in Nat /\ released <= released'
      BY <1>0, <1>1
    <3> QED
      BY <3>1, LaterRange
  <2> QED
    BY <1>0, <1>1, <2>1, <2>2, <2>3
<1>4. HeadersFirst'
  BY <1>1 DEF OrderInv, HeadersFirst, Block
<1>5. BlocksInOrder'
  BY DEF OrderInv, BlocksInOrder
<1> QED
  BY <1>2, <1>3, <1>4, <1>5 DEF OrderInv

\* A buffer that is handed over belongs to the newest chunk.
LEMMA ClearBufferOrder ==
  ASSUME IInv, OrderInv, chunk \in 1..MaxChunks, NEW s \in Streams, ClearBuffer(s)
  PROVE  OrderInv'
<1> USE DEF ClearBuffer, fileVars
<1>0. TypeOK
  BY DEF IInv
<1>1. /\ released \in Nat /\ Len(submitted) \in Nat /\ chunk \in Nat
      /\ \A n \in 1..Len(submitted) : submitted[n].chunk \in 1..MaxChunks
      /\ \A k \in DOMAIN archive : archive[k].chunk \in 1..MaxChunks
      /\ MaxChunks \in Nat
  BY <1>0, OrderTypes
<1>2. /\ Len(submitted') = Len(submitted) + 1
      /\ \A n \in 1..Len(submitted) : submitted'[n] = submitted[n]
      /\ submitted'[Len(submitted) + 1].chunk = chunk
  BY <1>0 DEF TypeOK, PoolOK
<1>3. SubmittedOrder'
  BY <1>1, <1>2 DEF OrderInv, SubmittedOrder
<1>4. ArchiveBehind'
  BY <1>1, <1>2 DEF OrderInv, ArchiveBehind
<1>5. HeadersFirst'
  <2> SUFFICES ASSUME NEW i \in Slot, pc'[i] \in {"link", "body"}
               PROVE  chunks[Block(i)'.chunk] # 0
    BY DEF OrderInv, HeadersFirst
  <2>1. i # ring_i /\ pc'[i] = pc[i] /\ job'[i] = job[i]
    BY <1>0 DEF TypeOK, PoolOK
  <2>2. job[i] \in (released + 1)..Len(submitted)
    BY <2>1, WorkerFacts DEF Active
  <2>3. Block(i)' = Block(i)
    BY <1>1, <1>2, <2>1, <2>2 DEF Block
  <2> QED
    BY <2>1, <2>3 DEF OrderInv, HeadersFirst
<1>6. BlocksInOrder'
  BY DEF OrderInv, BlocksInOrder
<1> QED
  BY <1>3, <1>4, <1>5, <1>6 DEF OrderInv

\* A thread that writes adds items of the oldest chunk in flight, which is no
\* older than anything written.
LEMMA WriterOrder ==
  ASSUME IInv, OrderInv, NEW i \in Slot, Active(i), Writing(i)
  PROVE  /\ Block(i).chunk \in 1..MaxChunks
         /\ Block(i).chunk <= chunk
         /\ \A k \in DOMAIN archive : archive[k].chunk <= Block(i).chunk
         /\ \A n \in (released + 1)..Len(submitted) : Block(i).chunk <= submitted[n].chunk
<1>1. /\ TypeOK /\ SlotInv /\ job[i] \in (released + 1)..Len(submitted)
      /\ Block(i).chunk \in 1..MaxChunks /\ (output_thread = i => job[i] = released + 1)
  BY WorkerFacts
<1>2. job[i] = released + 1
  BY <1>1 DEF SlotInv
<1>3. released \in Nat /\ Len(submitted) \in Nat
  BY <1>1, OrderTypes
<1>4. \A k \in DOMAIN archive : archive[k].chunk <= Block(i).chunk
  BY <1>1 DEF OrderInv, ArchiveBehind, Block
<1>5. ASSUME NEW n \in (released + 1)..Len(submitted)
      PROVE  Block(i).chunk <= submitted[n].chunk
  <2>1. n \in 1..Len(submitted) /\ job[i] \in 1..n
    BY <1>2, <1>3
  <2> QED
    BY <2>1 DEF OrderInv, SubmittedOrder, Block
<1>6. job[i] \in 1..Len(submitted)
  BY <1>1, <1>3
<1>7. Block(i).chunk <= chunk
  BY <1>6 DEF OrderInv, SubmittedOrder, Block
<1> QED
  BY <1>1, <1>4, <1>5, <1>7

\* A chunk header goes behind everything of earlier chunks.
LEMMA WriteChunkHeaderOrder ==
  ASSUME IInv, TypeOK', OrderInv, NEW i \in Slot, WriteChunkHeader(i)
  PROVE  OrderInv'
<1> DEFINE c == Block(i).chunk
           h == ChunkHeader(c)
<1>0. TypeOK /\ pc[i] = "header" /\ Active(i) /\ Writing(i)
  BY DEF IInv, WriteChunkHeader, Active, Writing
<1>1. /\ c \in 1..MaxChunks /\ c <= chunk
      /\ \A k \in DOMAIN archive : archive[k].chunk <= c
      /\ \A n \in (released + 1)..Len(submitted) : c <= submitted[n].chunk
  BY <1>0, WriterOrder
<1>2. /\ released \in Nat /\ Len(submitted) \in Nat /\ chunk \in Nat
      /\ chunks \in [1..MaxChunks -> Nat] /\ MaxChunks \in Nat /\ eof \in {0, 1}
      /\ \A k \in DOMAIN archive : archive[k].chunk \in 1..MaxChunks
      /\ archive \in Seq(ItemType) /\ DOMAIN archive = 1..Len(archive) /\ Len(archive) \in Nat
  BY <1>0, OrderTypes DEF TypeOK, MainOK, FileOK
<1>3. /\ UNCHANGED <<submitted, job, released, chunk>>
      /\ \E to \in {"link", "out"} : pc' = [pc EXCEPT ![i] = to]
  BY DEF WriteChunkHeader, Goto, ringVars, mainVars
<1>4. chunks'[c] # 0 /\ \A d \in 1..MaxChunks : chunks[d] # 0 => chunks'[d] # 0
  <2>1. chunks[c] + 1 # 0 /\ chunks' = [chunks EXCEPT ![c] = chunks[c] + 1]
    BY <1>1, <1>2 DEF WriteChunkHeader
  <2> HIDE DEF c
  <2> QED
    BY <1>1, <1>2, <2>1
<1>5. \A j \in Slot : pc'[j] \in {"link", "body"} => chunks'[Block(j).chunk] # 0
  <2> SUFFICES ASSUME NEW j \in Slot, pc'[j] \in {"link", "body"}
               PROVE  chunks'[Block(j).chunk] # 0
    OBVIOUS
  <2>1. CASE j = i
    BY <1>4, <2>1
  <2>2. CASE j # i
    <3>1. pc[j] \in {"link", "body"}
      BY <1>0, <1>3, <2>2 DEF TypeOK, PoolOK
    <3>2. chunks[Block(j).chunk] # 0 /\ Block(j).chunk \in 1..MaxChunks
      BY <3>1, WorkerFacts DEF OrderInv, HeadersFirst, Active
    <3> QED
      BY <1>4, <3>2
  <2> QED BY <2>1, <2>2
<1>6. CASE UNCHANGED archive
  BY <1>0, <1>2, <1>3, <1>4, <1>5, <1>6, QuietOrder
<1>7. CASE archive' = archive \o h /\ chunks[c] = 0
  <2> HIDE DEF c
  <2>1. /\ h \in Seq(ItemType) /\ Len(h) = 3 /\ DOMAIN h = 1..3
        /\ \A k \in 1..3 : h[k].kind = (IF k = 1 THEN "rcd" ELSE "init") /\ h[k].chunk = c
    BY <1>1, <1>2, ChunkHeaderFacts
  <2> HIDE DEF h
  <2>2. \A k \in DOMAIN archive' :
          \/ k \in DOMAIN archive /\ archive'[k] = archive[k]
          \/ k > Len(archive) /\ k - Len(archive) \in 1..3 /\ archive'[k] = h[k - Len(archive)]
    BY <1>2, <1>7, <2>1, ConcatFacts
  <2>3. DOMAIN archive' \subseteq Nat
    BY DEF TypeOK, FileOK
  <2>4. \A k \in DOMAIN archive' :
          \/ k \in DOMAIN archive /\ archive'[k] = archive[k]
          \/ /\ k > Len(archive) /\ archive'[k].chunk = c /\ archive'[k].kind # "block"
             /\ archive'[k].kind = "rcd" => k = Len(archive) + 1
    <3> TAKE k \in DOMAIN archive'
    <3>1. CASE k > Len(archive) /\ k - Len(archive) \in 1..3 /\ archive'[k] = h[k - Len(archive)]
      <4> DEFINE p == k - Len(archive)
      <4>1. p \in 1..3 /\ archive'[k] = h[p]
        BY <3>1
      <4>2. k \in Nat /\ (p = 1 => k = Len(archive) + 1)
        BY <1>2, <2>3
      <4> HIDE DEF p
      <4>3. /\ archive'[k].chunk = c
            /\ archive'[k].kind = IF p = 1 THEN "rcd" ELSE "init"
        BY <2>1, <4>1
      <4> QED
        BY <3>1, <4>2, <4>3
    <3> QED
      BY <2>2, <3>1
  <2>5. \A k \in DOMAIN archive : archive[k].chunk < c
    <3> TAKE k \in DOMAIN archive
    <3>1. archive[k].chunk # c
      BY <1>7 DEF OrderInv, HeadersFirst
    <3> QED
      BY <1>1, <1>2, <3>1
  <2>6. SubmittedOrder'
    BY <1>3 DEF OrderInv, SubmittedOrder
  <2>7. ArchiveBehind'
    BY <1>1, <1>3, <2>4 DEF OrderInv, ArchiveBehind
  <2>8. HeadersFirst'
    <3>1. \A k \in DOMAIN archive' : chunks'[archive'[k].chunk] # 0
      BY <1>2, <1>4, <2>4 DEF OrderInv, HeadersFirst
    <3>2. \A j \in Slot : Block(j)' = Block(j)
      BY <1>3 DEF Block
    <3> QED
      BY <1>5, <3>1, <3>2 DEF HeadersFirst
  <2>9. BlocksInOrder'
    <3> SUFFICES ASSUME NEW j \in DOMAIN archive', NEW k \in DOMAIN archive', j < k
                 PROVE  /\ archive'[j].chunk <= archive'[k].chunk
                        /\ archive'[k].kind = "rcd" => archive'[j].chunk < archive'[k].chunk
                        /\ archive'[j].kind = "block" /\ archive'[k].kind = "block"
                             => archive'[j].n < archive'[k].n
      BY DEF BlocksInOrder
    <3>1. CASE k \in DOMAIN archive /\ archive'[k] = archive[k]
      <4>1. j \in DOMAIN archive /\ archive'[j] = archive[j]
        BY <1>2, <2>4, <2>3, <3>1
      <4> QED
        BY <3>1, <4>1 DEF OrderInv, BlocksInOrder
    <3>2. CASE /\ k > Len(archive) /\ archive'[k].chunk = c /\ archive'[k].kind # "block"
               /\ archive'[k].kind = "rcd" => k = Len(archive) + 1
      <4>1. CASE j \in DOMAIN archive /\ archive'[j] = archive[j]
        BY <1>1, <1>2, <2>5, <3>2, <4>1
      <4>2. CASE j > Len(archive) /\ archive'[j].chunk = c
        <5>1. archive'[k].kind # "rcd"
          BY <1>2, <2>3, <3>2, <4>2
        <5> QED
          BY <1>1, <3>2, <4>2, <5>1
      <4> QED
        BY <2>4, <4>1, <4>2
    <3> QED
      BY <2>4, <3>1, <3>2
  <2> QED
    BY <2>6, <2>7, <2>8, <2>9 DEF OrderInv
<1> QED
  BY <1>6, <1>7 DEF WriteChunkHeader

\* A block goes behind all blocks submitted before it.
LEMMA WriteBodyOrder ==
  ASSUME IInv, TypeOK', OrderInv, NEW i \in Slot, WriteBody(i)
  PROVE  OrderInv'
<1> DEFINE c == Block(i).chunk
           it == Item("block", c, Block(i).stream, job[i], 0)
<1>0. TypeOK /\ pc[i] = "body" /\ Active(i) /\ Writing(i)
  BY DEF IInv, WriteBody, Active, Writing
<1>1. /\ c \in 1..MaxChunks /\ c <= chunk
      /\ \A k \in DOMAIN archive : archive[k].chunk <= c
      /\ \A n \in (released + 1)..Len(submitted) : c <= submitted[n].chunk
  BY <1>0, WriterOrder
<1>2. /\ released \in Nat /\ Len(submitted) \in Nat /\ chunk \in Nat /\ MaxChunks \in Nat
      /\ \A k \in DOMAIN archive : archive[k].chunk \in 1..MaxChunks /\ archive[k].n \in Nat
      /\ archive \in Seq(ItemType) /\ DOMAIN archive = 1..Len(archive) /\ Len(archive) \in Nat
  BY <1>0, OrderTypes DEF TypeOK, MainOK, FileOK
<1>3. UNCHANGED <<submitted, job, released, chunk, chunks>> /\ pc' = [pc EXCEPT ![i] = "out"]
  BY DEF WriteBody, Goto, ringVars, mainVars
<1>4. \A j \in Slot : pc'[j] \in {"link", "body"} => chunks'[Block(j).chunk] # 0
  BY <1>0, <1>3 DEF OrderInv, HeadersFirst, TypeOK, PoolOK
<1>5. SlotInv /\ WrittenInv /\ exit = "running" /\ (output_thread = i => job[i] = released + 1)
  BY <1>0, WorkerFacts
<1>6. CASE UNCHANGED archive
  BY <1>0, <1>2, <1>3, <1>4, <1>6, QuietOrder
<1>7. CASE archive' = Append(archive, it)
  <2>1. it.kind = "block" /\ it.n = job[i] /\ it.chunk = c
    BY DEF Item
  <2> HIDE DEF it
  <2>2. /\ DOMAIN archive' = 1..(Len(archive) + 1)
        /\ archive'[Len(archive) + 1] = it
        /\ \A k \in DOMAIN archive : archive'[k] = archive[k]
    BY <1>2, <1>7
  <2>3. output_thread = i /\ job[i] = released + 1
    BY <1>0, <1>5 DEF SlotInv
  <2>4. \A k \in DOMAIN archive : archive[k].kind = "block" => archive[k].n < job[i]
    BY <1>0, <1>2, <1>5, <2>3 DEF WrittenInv
  <2>5. chunks[c] # 0
    BY <1>0 DEF OrderInv, HeadersFirst
  <2>6. SubmittedOrder'
    BY <1>3 DEF OrderInv, SubmittedOrder
  <2>7. ArchiveBehind'
    <3> SUFFICES ASSUME NEW k \in DOMAIN archive'
                 PROVE  /\ archive'[k].chunk <= chunk
                        /\ \A n \in (released + 1)..Len(submitted) : archive'[k].chunk <= submitted[n].chunk
      BY <1>3 DEF ArchiveBehind
    <3>1. CASE k \in DOMAIN archive
      BY <2>2, <3>1 DEF OrderInv, ArchiveBehind
    <3>2. CASE k = Len(archive) + 1
      BY <1>1, <2>1, <2>2, <3>2
    <3> QED
      BY <1>2, <2>2, <3>1, <3>2
  <2>8. HeadersFirst'
    <3>1. \A k \in DOMAIN archive' : chunks[archive'[k].chunk] # 0
      <4> TAKE k \in DOMAIN archive'
      <4>1. k \in DOMAIN archive \/ k = Len(archive) + 1
        BY <1>2, <2>2
      <4> QED
        BY <2>1, <2>2, <2>5, <4>1 DEF OrderInv, HeadersFirst
    <3>2. \A j \in Slot : Block(j)' = Block(j)
      BY <1>3 DEF Block
    <3> QED
      BY <1>3, <1>4, <3>1, <3>2 DEF HeadersFirst
  <2>9. BlocksInOrder'
    <3> SUFFICES ASSUME NEW j \in DOMAIN archive', NEW k \in DOMAIN archive', j < k
                 PROVE  /\ archive'[j].chunk <= archive'[k].chunk
                        /\ archive'[k].kind = "rcd" => archive'[j].chunk < archive'[k].chunk
                        /\ archive'[j].kind = "block" /\ archive'[k].kind = "block"
                             => archive'[j].n < archive'[k].n
      BY DEF BlocksInOrder
    <3>1. j \in DOMAIN archive /\ archive'[j] = archive[j]
      BY <1>2, <2>2
    <3>2. CASE k \in DOMAIN archive
      BY <2>2, <3>1, <3>2 DEF OrderInv, BlocksInOrder
    <3>3. CASE k = Len(archive) + 1
      BY <1>1, <2>1, <2>2, <2>4, <3>1, <3>3
    <3> QED
      BY <1>2, <2>2, <3>2, <3>3
  <2> QED
    BY <2>6, <2>7, <2>8, <2>9 DEF OrderInv
<1> QED
  BY <1>6, <1>7 DEF WriteBody

\* Every step keeps the order of the archive.
LEMMA NextOrder ==
  ASSUME IInv, IInv', OrderInv, [Next]_vars
  PROVE  OrderInv'
<1> USE DEF ringVars, slotVars, mainVars, fileVars
<1>0. TypeOK /\ TypeOK'
  BY DEF IInv
<1>1. /\ released \in Nat /\ chunk \in 0..MaxChunks /\ MaxChunks \in Nat
      /\ archive \in Seq(ItemType)
  BY <1>0, BoundsAssumption DEF TypeOK, PoolOK, MainOK, FileOK
<1>2. ASSUME UNCHANGED <<submitted, job, chunks, archive>>,
             released' \in {released, released + 1}, chunk' \in {chunk, chunk + 1},
             \A i \in Slot : pc'[i] \in {"link", "body"} => pc[i] \in {"link", "body"}
      PROVE  OrderInv'
  <2>1. released' >= released /\ chunk' >= chunk
    BY <1>1, <1>2
  <2>2. \A i \in Slot : pc'[i] \in {"link", "body"} => chunks'[Block(i).chunk] # 0
    BY <1>2 DEF OrderInv, HeadersFirst
  <2> QED
    BY <1>0, <1>2, <2>1, <2>2, QuietOrder
<1>3. CASE RzipPass \/ EndChunk \/ FlushTmpout
  BY <1>2, <1>3 DEF RzipPass, EndChunk, FlushTmpout
<1>4. CASE EncryptWait \/ WaitStreamoutThreads \/ CloseStreamoutThreads
  BY <1>2, <1>4 DEF EncryptWait, WaitStreamoutThreads, CloseStreamoutThreads, WaitBegin, WaitSlot
<1>5. CASE (\E s \in Streams : FlushBuffer(s)) \/ CloseStreamOut
  <2>1. PICK s \in Streams : ClearBuffer(s) /\ mpc \in {"write", "close0", "close1"}
    BY <1>5 DEF FlushBuffer, CloseStreamOut, Streams
  <2>2. chunk \in 1..MaxChunks
    BY <1>1, <2>1 DEF IInv, RingInv
  <2> QED
    BY <2>1, <2>2, ClearBufferOrder
<1>6. CASE SealLastHeads
  <2>1. /\ DOMAIN archive' = DOMAIN archive
        /\ \A k \in DOMAIN archive : /\ archive'[k].kind = archive[k].kind
                                     /\ archive'[k].n = archive[k].n
                                     /\ archive'[k].chunk = archive[k].chunk
    BY <1>1, <1>6, RewriteEncryptedFacts DEF SealLastHeads
  <2>2. UNCHANGED <<submitted, job, released, chunk, chunks, pc>>
    BY <1>6 DEF SealLastHeads
  <2>3. \A i \in Slot : pc'[i] \in {"link", "body"} => chunks'[Block(i).chunk] # 0
    BY <2>2 DEF OrderInv, HeadersFirst
  <2>4. released' >= released /\ chunk' >= chunk
    BY <1>1, <2>2
  <2> QED
    BY <1>0, <2>1, <2>2, <2>3, <2>4, QuietOrder
<1>7. CASE Finish \/ MainFails \/ FatalExit \/ \E i \in Slot : ThreadExits(i)
  <2>1. \E how : EndProcess(how)
    BY <1>7 DEF Finish, MainFails, FatalExit, ThreadExits
  <2> QED
    BY <1>2, <2>1 DEF EndProcess
<1>8. ASSUME NEW i \in Slot, Compthread(i) PROVE OrderInv'
  <2>1. ASSUME Compress(i) \/ TakeTurn(i) \/ Recompress(i) \/ ReleaseTurn(i) \/ PostSem(i)
        PROVE  OrderInv'
    <3>1. \E to \in {"wait", "wait_retry", "wait_out", "header", "recompress", "out", "post", "idle"} :
            pc' = [pc EXCEPT ![i] = to]
      BY <2>1 DEF Compress, TakeTurn, Recompress, ReleaseTurn, PostSem, Goto
    <3>2. \A j \in Slot : pc'[j] \in {"link", "body"} => pc[j] \in {"link", "body"}
      BY <1>0, <3>1 DEF TypeOK, PoolOK
    <3>3. UNCHANGED <<submitted, job, chunks, archive, chunk>> /\ released' \in {released, released + 1}
      BY <2>1 DEF Compress, TakeTurn, Recompress, ReleaseTurn, PostSem, Goto
    <3> QED
      BY <1>2, <3>2, <3>3
  <2>2. ASSUME WriteLink(i) PROVE OrderInv'
    <3>1. UNCHANGED <<submitted, job, released, chunk, chunks>> /\ pc[i] = "link"
          /\ \E to \in {"body", "out"} : pc' = [pc EXCEPT ![i] = to]
      BY <2>2 DEF WriteLink, Goto
    <3>2. \A j \in Slot : pc'[j] \in {"link", "body"} => pc[j] \in {"link", "body"}
      BY <1>0, <3>1 DEF TypeOK, PoolOK
    <3>3. \A j \in Slot : pc'[j] \in {"link", "body"} => chunks'[Block(j).chunk] # 0
      BY <3>1, <3>2 DEF OrderInv, HeadersFirst
    <3>4. released' >= released /\ chunk' >= chunk
      BY <1>1, <3>1
    <3> DEFINE prev == last_head[Block(i).chunk][Block(i).stream]
               linked == PatchLink(archive, prev, Len(archive) + 1)
    <3>5. /\ DOMAIN archive' = DOMAIN archive
          /\ \A k \in DOMAIN archive : /\ archive'[k].kind = archive[k].kind
                                       /\ archive'[k].n = archive[k].n
                                       /\ archive'[k].chunk = archive[k].chunk
      <4>1. \/ archive' = archive
            \/ archive' = linked
            \/ archive' = RewriteEncrypted(linked, {prev})
        BY <2>2 DEF WriteLink
      <4>2. Len(archive) + 1 \in Nat
        BY <1>1
      <4> HIDE DEF prev
      <4>3. /\ linked \in Seq(ItemType) /\ DOMAIN linked = DOMAIN archive
            /\ \A k \in DOMAIN archive : /\ linked[k].kind = archive[k].kind
                                         /\ linked[k].n = archive[k].n
                                         /\ linked[k].chunk = archive[k].chunk
        BY <1>1, <4>2, PatchLinkFacts
      <4> HIDE DEF linked
      <4>4. CASE archive' = RewriteEncrypted(linked, {prev})
        BY <4>3, <4>4, RewriteEncryptedFacts
      <4> QED
        BY <4>1, <4>3, <4>4
    <3> QED
      BY <1>0, <3>1, <3>3, <3>4, <3>5, QuietOrder
  <2> QED
    BY <1>0, <1>8, <2>1, <2>2, WriteChunkHeaderOrder, WriteBodyOrder DEF Compthread
<1>9. CASE UNCHANGED vars \/ Ended
  BY <1>2, <1>9 DEF Ended, vars
<1> QED
  BY <1>3, <1>4, <1>5, <1>6, <1>7, <1>8, <1>9 DEF Next, MainStep

\* The blocks stand in the archive in the order in which clear_buffer received
\* them, chunk after chunk, each chunk's header before its blocks.
THEOREM ArchiveOrder == RingFits => (Spec => []BlocksInOrder)
<1> SUFFICES ASSUME RingFits PROVE Spec => []BlocksInOrder
  OBVIOUS
<1>1. Init => OrderInv
  BY DEF Init, OrderInv, SubmittedOrder, ArchiveBehind, HeadersFirst, BlocksInOrder
<1>2. IInv /\ IInv' /\ OrderInv /\ [Next]_vars => OrderInv'
  BY NextOrder
<1>3. OrderInv => BlocksInOrder
  BY DEF OrderInv
<1> QED
  BY <1>1, <1>2, <1>3, Invariance, PTL DEF Spec

----------------------------------------------------------------------------
(* The pool implements OrderedOutput. *)

\* Steps that change neither the counters nor which blocks are written.
LEMMA StutterRefines ==
  ASSUME UNCHANGED <<submitted, released, exit>>, WrittenBlocks' = WrittenBlocks
  PROVE  [Ordered!Next]_Ordered!absVars
BY DEF Ordered!absVars

\* The written blocks depend on the kinds and numbers of the items only.
LEMMA SameWritten ==
  ASSUME DOMAIN archive' = DOMAIN archive,
         \A k \in DOMAIN archive : /\ archive'[k].kind = archive[k].kind
                                   /\ archive'[k].n = archive[k].n
  PROVE  WrittenBlocks' = WrittenBlocks
BY DEF WrittenBlocks

\* Handing a block over takes one in OrderedOutput.
LEMMA TakeRefines ==
  ASSUME IInv, IInv', NEW s \in Streams, ClearBuffer(s), exit = "running"
  PROVE  [Ordered!Next]_Ordered!absVars
<1> USE DEF ClearBuffer, fileVars
<1>1. /\ submitted \in Seq(BlockType) /\ Len(submitted) \in Nat /\ released \in Nat
      /\ threads \in 1..PoolSize /\ PoolSize \in Nat
  BY PoolFacts DEF IInv, TypeOK, PoolOK
<1>2. Len(submitted') = Len(submitted) + 1
  BY <1>1
<1>3. Backlog' \in 0..threads'
  BY DEF IInv, RingInv
<1>4. Len(submitted) - released < PoolSize
  BY <1>1, <1>2, <1>3 DEF Backlog
<1>5. WrittenBlocks' = WrittenBlocks
  BY DEF WrittenBlocks
<1>6. Ordered!Take
  BY <1>2, <1>4, <1>5 DEF Ordered!Take
<1> QED
  BY <1>6 DEF Ordered!Next

\* Appending a block writes it in OrderedOutput.
LEMMA WriteBodyRefines ==
  ASSUME IInv, NEW i \in Slot, WriteBody(i)
  PROVE  [Ordered!Next]_Ordered!absVars
<1> DEFINE it == Item("block", Block(i).chunk, Block(i).stream, job[i], 0)
<1>0. pc[i] = "body" /\ Active(i) /\ Writing(i)
  BY DEF WriteBody, Active, Writing
<1>1. /\ TypeOK /\ SlotInv /\ WrittenInv /\ exit = "running"
      /\ job[i] \in (released + 1)..Len(submitted)
      /\ (output_thread = i => job[i] = released + 1)
  BY <1>0, WorkerFacts
<1>2. output_thread = i /\ job[i] = released + 1
  BY <1>0, <1>1 DEF SlotInv
<1>3. released \in Nat /\ Len(submitted) \in Nat /\ archive \in Seq(ItemType)
  BY <1>1 DEF TypeOK, PoolOK, FileOK
<1>4. UNCHANGED <<submitted, released, exit>>
  BY DEF WriteBody, Goto, ringVars
<1>5. CASE UNCHANGED archive
  BY <1>4, <1>5, StutterRefines, SameWritten
<1>6. CASE archive' = Append(archive, it)
  <2>1. it.kind = "block" /\ it.n = job[i]
    BY DEF Item
  <2> HIDE DEF it
  <2>2. /\ DOMAIN archive' = DOMAIN archive \union {Len(archive) + 1}
        /\ archive'[Len(archive) + 1] = it
        /\ \A k \in DOMAIN archive : archive'[k] = archive[k]
    BY <1>3, <1>6
  <2>3. WrittenBlocks' = WrittenBlocks \union {released + 1}
    BY <1>2, <2>1, <2>2 DEF WrittenBlocks
  <2>4. released + 1 \notin WrittenBlocks
    BY <1>0, <1>1, <1>2 DEF WrittenBlocks, WrittenInv
  <2>5. released < Len(submitted)
    BY <1>1, <1>3
  <2>6. Ordered!Write
    BY <1>1, <1>4, <2>3, <2>4, <2>5 DEF Ordered!Write
  <2> QED
    BY <2>6 DEF Ordered!Next
<1> QED
  BY <1>5, <1>6 DEF WriteBody

\* A chunk header is invisible to OrderedOutput.
LEMMA WriteChunkHeaderRefines ==
  ASSUME IInv, NEW i \in Slot, WriteChunkHeader(i)
  PROVE  [Ordered!Next]_Ordered!absVars
<1> DEFINE c == Block(i).chunk
           h == ChunkHeader(c)
<1>1. Active(i)
  BY DEF WriteChunkHeader, Active
<1>2. TypeOK /\ c \in 1..MaxChunks
  BY <1>1, WorkerFacts
<1>3. archive \in Seq(ItemType) /\ eof \in {0, 1}
  BY <1>2 DEF TypeOK, FileOK, MainOK
<1>4. UNCHANGED <<submitted, released, exit>>
  BY DEF WriteChunkHeader, Goto, ringVars
<1>5. CASE UNCHANGED archive
  BY <1>4, <1>5, StutterRefines, SameWritten
<1>6. CASE archive' = archive \o h
  <2> HIDE DEF c
  <2>1. /\ h \in Seq(ItemType) /\ DOMAIN h = 1..3
        /\ \A k \in 1..3 : h[k].kind # "block"
    BY <1>2, <1>3, ChunkHeaderFacts
  <2> HIDE DEF h
  <2>2. /\ \A k \in DOMAIN archive' :
             archive'[k].kind = "block" => k \in DOMAIN archive /\ archive'[k] = archive[k]
        /\ \A k \in DOMAIN archive : k \in DOMAIN archive' /\ archive'[k] = archive[k]
    BY <1>3, <1>6, <2>1, ConcatFacts
  <2>3. WrittenBlocks' = WrittenBlocks
    BY <2>2 DEF WrittenBlocks
  <2> QED
    BY <1>4, <2>3, StutterRefines
<1> QED
  BY <1>5, <1>6 DEF WriteChunkHeader

\* Giving up a turn settles a block in OrderedOutput.
LEMMA ReleaseTurnRefines ==
  ASSUME IInv, NEW i \in Slot, ReleaseTurn(i)
  PROVE  [Ordered!Next]_Ordered!absVars
<1>1. Active(i)
  BY DEF ReleaseTurn, Active
<1>2. /\ TypeOK /\ SlotInv /\ exit = "running" /\ job[i] \in (released + 1)..Len(submitted)
  BY <1>1, WorkerFacts
<1>3. released \in Nat /\ Len(submitted) \in Nat
  BY <1>2 DEF TypeOK, PoolOK
<1>4. output_thread = i
  BY <1>2 DEF SlotInv, Writing, ReleaseTurn
<1>5. released' = released + 1 /\ UNCHANGED <<submitted, exit, archive>>
  BY <1>4 DEF ReleaseTurn, fileVars
<1>6. Ordered!Settle
  BY <1>2, <1>3, <1>5, SameWritten DEF Ordered!Settle
<1> QED
  BY <1>6 DEF Ordered!Next

\* The process ends successfully only after the waiting loop of
\* close_streamout_threads has found every slot idle.
LEMMA ExitRefines ==
  ASSUME IInv, exit = "running",
         Finish \/ MainFails \/ FatalExit \/ \E i \in Slot : ThreadExits(i)
  PROVE  [Ordered!Next]_Ordered!absVars
<1>0. \E how : EndProcess(how)
  BY DEF Finish, MainFails, FatalExit, ThreadExits
<1>1. UNCHANGED <<submitted, released, archive>>
  BY <1>0 DEF EndProcess, ringVars
<1>2. WrittenBlocks' = WrittenBlocks
  BY <1>1, SameWritten
<1>3. CASE Finish
  <2>1. Backlog = 0 /\ exit' = "success"
    BY <1>3 DEF IInv, WaitInv, Finish, EndProcess
  <2>2. Len(submitted) = released
    BY <2>1 DEF Backlog, IInv, TypeOK, PoolOK
  <2>3. Ordered!Succeed
    BY <1>1, <1>2, <2>1, <2>2 DEF Ordered!Succeed
  <2> QED
    BY <2>3 DEF Ordered!Next
<1>4. CASE MainFails \/ FatalExit \/ \E i \in Slot : ThreadExits(i)
  <2>1. exit' = "failure"
    BY <1>4 DEF MainFails, FatalExit, ThreadExits, EndProcess
  <2>2. Ordered!Fail
    BY <1>1, <1>2, <2>1 DEF Ordered!Fail
  <2> QED
    BY <2>2 DEF Ordered!Next
<1> QED
  BY <1>3, <1>4

\* Every step is a step of OrderedOutput or changes nothing it sees.
LEMMA NextRefines ==
  ASSUME IInv, IInv', [Next]_vars
  PROVE  [Ordered!Next]_Ordered!absVars
<1> USE DEF ringVars, slotVars, mainVars, fileVars
<1>1. archive \in Seq(ItemType) /\ (mpc \notin {"done"} => exit = "running")
  BY DEF IInv, RingInv, TypeOK, FileOK
<1>2. ASSUME UNCHANGED <<submitted, released, exit, archive>> PROVE [Ordered!Next]_Ordered!absVars
  BY <1>2, StutterRefines, SameWritten
<1>3. CASE RzipPass \/ EndChunk \/ FlushTmpout
  BY <1>2, <1>3 DEF RzipPass, EndChunk, FlushTmpout
<1>4. CASE EncryptWait \/ WaitStreamoutThreads \/ CloseStreamoutThreads
  BY <1>2, <1>4 DEF EncryptWait, WaitStreamoutThreads, CloseStreamoutThreads, WaitBegin, WaitSlot
<1>5. CASE (\E s \in Streams : FlushBuffer(s)) \/ CloseStreamOut
  <2>1. PICK s \in Streams : ClearBuffer(s) /\ mpc \in {"write", "close0", "close1"}
    BY <1>5 DEF FlushBuffer, CloseStreamOut, Streams
  <2> QED
    BY <1>1, <2>1, TakeRefines
<1>6. CASE SealLastHeads
  <2>1. WrittenBlocks' = WrittenBlocks
    BY <1>1, <1>6, RewriteEncryptedFacts, SameWritten DEF SealLastHeads
  <2>2. UNCHANGED <<submitted, released, exit>>
    BY <1>6 DEF SealLastHeads
  <2> QED
    BY <2>1, <2>2, StutterRefines
<1>7. CASE Finish \/ MainFails \/ FatalExit \/ \E i \in Slot : ThreadExits(i)
  <2>1. exit = "running"
    BY <1>1, <1>7 DEF IInv, Over, Finish, MainFails, FatalExit, ThreadExits
  <2> QED
    BY <1>7, <2>1, ExitRefines
<1>8. ASSUME NEW i \in Slot, Compthread(i) PROVE [Ordered!Next]_Ordered!absVars
  <2>1. ASSUME Compress(i) \/ TakeTurn(i) \/ Recompress(i) \/ PostSem(i)
        PROVE  [Ordered!Next]_Ordered!absVars
    BY <1>2, <2>1 DEF Compress, TakeTurn, Recompress, PostSem, Goto
  <2>2. ASSUME WriteLink(i) PROVE [Ordered!Next]_Ordered!absVars
    <3> DEFINE prev == last_head[Block(i).chunk][Block(i).stream]
               linked == PatchLink(archive, prev, Len(archive) + 1)
    <3>1. \/ archive' = archive
          \/ archive' = linked
          \/ archive' = RewriteEncrypted(linked, {prev})
      BY <2>2 DEF WriteLink
    <3>2. Len(archive) + 1 \in Nat
      BY <1>1
    <3> HIDE DEF prev
    <3>3. /\ linked \in Seq(ItemType) /\ DOMAIN linked = DOMAIN archive
          /\ \A k \in DOMAIN archive : /\ linked[k].kind = archive[k].kind
                                       /\ linked[k].n = archive[k].n
      BY <1>1, <3>2, PatchLinkFacts
    <3> HIDE DEF linked
    <3>4. /\ DOMAIN archive' = DOMAIN archive
          /\ \A k \in DOMAIN archive : /\ archive'[k].kind = archive[k].kind
                                       /\ archive'[k].n = archive[k].n
      BY <3>1, <3>3, RewriteEncryptedFacts
    <3>5. UNCHANGED <<submitted, released, exit>>
      BY <2>2 DEF WriteLink, Goto
    <3> QED
      BY <3>4, <3>5, StutterRefines, SameWritten
  <2> QED
    BY <1>8, <2>1, <2>2, WriteChunkHeaderRefines, WriteBodyRefines, ReleaseTurnRefines DEF Compthread
<1>9. CASE UNCHANGED vars \/ Ended
  BY <1>2, <1>9 DEF Ended, vars
<1> QED
  BY <1>3, <1>4, <1>5, <1>6, <1>7, <1>8, <1>9 DEF Next, MainStep

\* The pool of compression threads implements the ordered output it promises:
\* at most PoolSize blocks in flight, each written at most once and in order,
\* and success only when every block has been settled.
THEOREM Refinement == RingFits => (Spec => ImplementsOrderedOutput)
<1> SUFFICES ASSUME RingFits PROVE Spec => ImplementsOrderedOutput
  OBVIOUS
<1>1. Init => Ordered!Init
  BY DEF Init, Ordered!Init, WrittenBlocks
<1>2. IInv /\ IInv' /\ [Next]_vars => [Ordered!Next]_Ordered!absVars
  BY NextRefines
<1> QED
  BY <1>1, <1>2, Invariance, PTL DEF Spec, ImplementsOrderedOutput, Ordered!Spec
==============================================================================
