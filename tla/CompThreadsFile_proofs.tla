----------------------- MODULE CompThreadsFile_proofs -----------------------
(***************************************************************************)
(* What the threads leave in the archive: the links of the two streams,    *)
(* the encryption of the headers, what has gone to the pipe and the eof    *)
(* flag of a chunk header.                                                 *)
(***************************************************************************)
EXTENDS CompThreads_proofs

\* Nothing has gone wrong so far: no turn was given up without its block, and the
\* thread that has the turn is not about to do so.
Sound == exit # "failure" /\ ~lost /\ \A i \in Slot : ~(pc[i] = "out" /\ fatal_msg[i])

\* A thread has patched the link of stream s of chunk c and will append the block.
BodyOf(c, s) == \E i \in Slot : pc[i] = "body" /\ Block(i).chunk = c /\ Block(i).stream = s

HeadOf(k) == last_head[archive[k].chunk][archive[k].stream]

\* last_head names the last header of a begun stream, or the place where the
\* next one is about to be.
HeadInv ==
  \A c \in 1..MaxChunks : \A s \in Streams :
    /\ chunks[c] # 0 =>
         \/ /\ last_head[c][s] \in DOMAIN archive
            /\ archive[last_head[c][s]].chunk = c /\ archive[last_head[c][s]].stream = s
            /\ archive[last_head[c][s]].kind # "rcd"
         \/ last_head[c][s] = Len(archive) + 1 /\ BodyOf(c, s)
    /\ BodyOf(c, s) => last_head[c][s] = Len(archive) + 1

\* The link of every header but the last names the next block of its stream.
ChainInv ==
  \A k \in DOMAIN archive : archive[k].kind # "rcd" =>
    /\ k <= HeadOf(k)
    /\ k = HeadOf(k) => archive[k].next = 0
    /\ k < HeadOf(k) =>
         /\ archive[k].next \in (k + 1)..HeadOf(k)
         /\ archive[k].next \in DOMAIN archive =>
              archive[archive[k].next].kind = "block" /\ SameStream(archive[archive[k].next], archive[k])
         /\ \A j \in DOMAIN archive : k < j /\ j < archive[k].next =>
              ~(archive[j].kind = "block" /\ SameStream(archive[j], archive[k]))
         /\ HeadOf(k) \in DOMAIN archive => archive[HeadOf(k)].kind = "block"

\* The chunk is complete and its last headers are encrypted.
ClosedPC == {"pass", "flush_begin", "flush_wait", "flush", "close_begin", "close_wait", "trailer", "done"}
Closed(c) == c # chunk \/ mpc \in ClosedPC

\* A header is encrypted when its link is final: when it is patched, or at the
\* end of the chunk.
SealInv ==
  \A k \in DOMAIN archive :
    archive[k].sealed =
      IF Encrypt /\ archive[k].kind # "rcd" /\ (k < HeadOf(k) \/ Closed(archive[k].chunk)) THEN 1 ELSE 0

\* last_headofs is last_head once the stream has a block.
LastInv ==
  Encrypt => \A c \in 1..MaxChunks : \A s \in Streams :
    chunks[c] # 0 /\ last_head[c][s] \in DOMAIN archive /\ archive[last_head[c][s]].kind = "block"
      => last_headofs[c][s] = last_head[c][s]

Written(n) ==
  \E k \in DOMAIN archive : archive[k].kind = "block" /\ archive[k].n = n
                            /\ SameStream(archive[k], submitted[n])

\* The blocks whose turn has passed are there.
AllWritten ==
  /\ \A n \in 1..released : Written(n)
  /\ \A i \in Slot : pc[i] = "out" => Written(job[i])

LinkInv == HeadInv /\ ChainInv /\ SealInv /\ LastInv /\ AllWritten

\* With ENCRYPT or STDOUT all threads are waited for before the next chunk.
DrainInv ==
  Encrypt \/ Stdout =>
    /\ mpc \in {"pass", "close_begin", "close_wait"} \/ (Encrypt /\ mpc \in {"flush_begin", "flush_wait"})
         => Backlog = 0
    /\ \A n \in (released + 1)..Len(submitted) : submitted[n].chunk = chunk

\* Both streams of a chunk that is closed have a block.
TailInv ==
  /\ mpc \in {"close1", "seal_begin", "seal_wait", "seal"} =>
       \E n \in 1..Len(submitted) : submitted[n].chunk = chunk /\ submitted[n].stream = 0
  /\ mpc \in {"seal_begin", "seal_wait", "seal"} =>
       /\ Encrypt
       /\ \E n \in 1..Len(submitted) : submitted[n].chunk = chunk /\ submitted[n].stream = 1

\* What has left for the pipe belongs to chunks that are finished.
FlushInv ==
  /\ mpc \in {"flush_begin", "flush_wait", "flush"} => Stdout
  /\ flushed <= Len(archive)
  /\ \A k \in 1..flushed :
       Stdout /\ (archive[k].chunk < chunk \/ mpc \in {"pass", "close_begin", "close_wait", "trailer"})

OutFault == \A i \in Slot : pc[i] = "wait_out" => fatal_msg[i]

FlowInv == exit = "running" => DrainInv /\ TailInv /\ OutFault

\* control->eof is set when the last chunk is begun.
EofInv ==
  /\ mpc = "pass" => eof = 0
  /\ Encrypt \/ Stdout => EofIsLast

FileInv ==
  /\ FlowInv
  /\ exit = "running" => FlushInv
  /\ EofInv
  /\ Sound => LinkInv
  /\ SuccessIsComplete

----------------------------------------------------------------------------
(* Failures stay, and threads are drained between chunks. *)

\* In a process that has ended nothing happens any more.
LEMMA EndedStep ==
  ASSUME IInv, [Next]_vars, exit # "running" PROVE UNCHANGED vars
<1>1. mpc = "done" /\ ~doomed /\ \A i \in Slot : pc[i] = "idle"
  BY DEF IInv, RingInv, Over
<1>2. ~MainStep /\ ~MainFails /\ ~FatalExit
  BY <1>1 DEF MainStep, RzipPass, FlushBuffer, EndChunk, CloseStreamOut, EncryptWait, SealLastHeads,
     WaitStreamoutThreads, FlushTmpout, CloseStreamoutThreads, Finish, WaitBegin, WaitSlot,
     MainFails, FatalExit
<1>3. ASSUME NEW i \in Slot PROVE ~Compthread(i) /\ ~ThreadExits(i)
  BY <1>1 DEF Compthread, Compress, TakeTurn, Recompress, WriteChunkHeader, WriteLink, WriteBody,
     ReleaseTurn, PostSem, ThreadExits
<1> QED
  BY <1>2, <1>3 DEF Next, Ended

\* Once something has gone wrong it stays so.
LEMMA SoundBack ==
  ASSUME IInv, [Next]_vars, Sound' PROVE Sound
<1> USE DEF ringVars, slotVars, mainVars, fileVars
<1>0. TypeOK
  BY DEF IInv
<1>1. CASE exit # "running"
  <2>1. UNCHANGED vars
    BY <1>1, EndedStep
  <2> QED
    BY <2>1 DEF vars, Sound
<1>2. CASE exit = "running"
  <2>0. RingInv /\ SlotInv /\ WaitInv
    BY <1>2 DEF IInv
  <2> SUFFICES ASSUME NEW i \in Slot, lost \/ (pc[i] = "out" /\ fatal_msg[i]) PROVE FALSE
    BY <1>2, PoolFacts DEF Sound
  <2>1. CASE lost
    <3>1. ~lost' /\ exit' # "failure"
      BY DEF Sound
    <3>2. ~(FatalExit \/ MainFails \/ \E j \in Slot : ThreadExits(j))
      BY <3>1 DEF FatalExit, MainFails, ThreadExits, EndProcess
    <3>3. ~MainStep
      BY <2>1, <3>1 DEF MainStep, RzipPass, FlushBuffer, ClearBuffer, EndChunk, CloseStreamOut,
         EncryptWait, SealLastHeads, WaitStreamoutThreads, FlushTmpout, CloseStreamoutThreads,
         Finish, WaitBegin, WaitSlot, EndProcess
    <3>4. ASSUME NEW j \in Slot PROVE ~Compthread(j)
      BY <2>1, <3>1 DEF Compthread, Compress, TakeTurn, Recompress, WriteChunkHeader, WriteLink,
         WriteBody, ReleaseTurn, PostSem, Goto
    <3> QED
      BY <2>1, <3>1, <3>2, <3>3, <3>4 DEF Next, Ended, vars
  <2>2. CASE pc[i] = "out" /\ fatal_msg[i]
    <3>0. /\ ~lost' /\ exit' # "failure" /\ ~(pc'[i] = "out" /\ fatal_msg'[i])
          /\ Active(i) /\ output_thread = i /\ cksem[i] # 1
      BY <2>0, <2>2 DEF Sound, Active, SlotInv, Writing
    <3>1. CASE pc'[i] = pc[i] /\ fatal_msg'[i] = fatal_msg[i]
      BY <2>2, <3>0, <3>1
    <3>2. ~(FatalExit \/ MainFails \/ \E j \in Slot : ThreadExits(j)) /\ ~Finish
      BY <2>0, <3>0 DEF FatalExit, MainFails, ThreadExits, EndProcess, Finish, WaitInv
    <3>3. CASE \E s \in Streams : ClearBuffer(s)
      BY <1>0, <3>0, <3>1, <3>3 DEF ClearBuffer, TypeOK, PoolOK
    <3>4. CASE RzipPass \/ EndChunk \/ EncryptWait \/ SealLastHeads \/ WaitStreamoutThreads
               \/ FlushTmpout \/ CloseStreamoutThreads
      BY <3>1, <3>4 DEF RzipPass, EndChunk, EncryptWait, SealLastHeads, WaitStreamoutThreads,
         FlushTmpout, CloseStreamoutThreads, WaitBegin, WaitSlot
    <3>5. ASSUME NEW j \in Slot, Compthread(j) PROVE FALSE
      <4>1. CASE j = i
        <5>1. ReleaseTurn(i)
          BY <2>2, <3>5, <4>1 DEF Compthread, Compress, TakeTurn, Recompress, WriteChunkHeader,
             WriteLink, WriteBody, PostSem
        <5> QED
          BY <2>2, <3>0, <5>1 DEF ReleaseTurn
      <4>2. CASE j # i
        <5>1. /\ \E to : pc' = [pc EXCEPT ![j] = to]
              /\ fatal_msg' = fatal_msg \/ \E f : fatal_msg' = [fatal_msg EXCEPT ![j] = f]
          BY <3>5 DEF Compthread, Compress, TakeTurn, Recompress, WriteChunkHeader,
             WriteLink, WriteBody, PostSem, ReleaseTurn, Goto
        <5> QED
          BY <1>0, <3>1, <4>2, <5>1 DEF TypeOK, PoolOK, FlagsOK
      <4> QED
        BY <4>1, <4>2
    <3>6. CASE UNCHANGED vars \/ Ended
      BY <3>1, <3>6 DEF vars, Ended
    <3> QED
      BY <3>2, <3>3, <3>4, <3>5, <3>6 DEF Next, MainStep, FlushBuffer, CloseStreamOut, Streams
  <2> QED
    BY <2>1, <2>2
<1> QED
  BY <1>1, <1>2

\* A step that leaves the queue, the chunk and the main thread alone.
LEMMA QuietFlow ==
  ASSUME FlowInv, exit = "running", UNCHANGED <<mpc, chunk, submitted, released>>, OutFault'
  PROVE  FlowInv'
BY DEF FlowInv, DrainInv, TailInv, Backlog

\* A buffer of the current chunk is handed over.
LEMMA ClearBufferFlow ==
  ASSUME IInv, FlowInv, exit = "running", NEW s \in Streams, ClearBuffer(s), chunk' = chunk,
         \/ mpc' = "write"
         \/ mpc = "close0" /\ s = 0 /\ mpc' = "close1"
         \/ mpc = "close1" /\ s = 1 /\ mpc' = AfterClose
  PROVE  FlowInv'
<1>0. TypeOK /\ SlotInv /\ DrainInv /\ TailInv /\ OutFault
  BY DEF IInv, FlowInv
<1>1. /\ released \in Nat /\ Len(submitted) \in Nat /\ submitted \in Seq(BlockType) /\ released' = released
      /\ pc \in [Slot -> ThreadPC]
  BY <1>0 DEF TypeOK, PoolOK, ClearBuffer
<1>2. /\ Len(submitted') = Len(submitted) + 1
      /\ \A n \in 1..Len(submitted) : submitted'[n] = submitted[n]
      /\ submitted'[Len(submitted) + 1].chunk = chunk
      /\ submitted'[Len(submitted) + 1].stream = s
  BY <1>1 DEF ClearBuffer
<1>3. DrainInv'
  <2> SUFFICES ASSUME Encrypt \/ Stdout
               PROVE  /\ ~(mpc' \in {"pass", "close_begin", "close_wait"}
                            \/ (Encrypt /\ mpc' \in {"flush_begin", "flush_wait"}))
                      /\ \A n \in (released + 1)..Len(submitted') : submitted'[n].chunk = chunk
    BY <1>1 DEF DrainInv
  <2>1. ~(mpc' \in {"pass", "close_begin", "close_wait"}
            \/ (Encrypt /\ mpc' \in {"flush_begin", "flush_wait"}))
    BY DEF AfterClose
  <2>2. ASSUME NEW n \in (released + 1)..Len(submitted') PROVE submitted'[n].chunk = chunk
    <3>1. CASE n = Len(submitted) + 1
      BY <1>2, <3>1
    <3>2. CASE n # Len(submitted) + 1
      <4>1. n \in (released + 1)..Len(submitted) /\ n \in 1..Len(submitted)
        BY <1>1, <1>2, <3>2
      <4> QED
        BY <1>0, <1>2, <4>1 DEF DrainInv
    <3> QED BY <3>1, <3>2
  <2> QED
    BY <2>1, <2>2
<1>4. TailInv'
  <2>1. mpc' \in {"close1", "seal_begin", "seal_wait", "seal"} =>
          (mpc = "close0" /\ s = 0) \/ (mpc = "close1" /\ s = 1)
    OBVIOUS
  <2>2. mpc' \in {"seal_begin", "seal_wait", "seal"} => mpc = "close1" /\ s = 1
    OBVIOUS
  <2>3. Len(submitted) + 1 \in 1..Len(submitted')
    BY <1>1, <1>2
  <2>4. \A n \in 1..Len(submitted) : n \in 1..Len(submitted')
    BY <1>1, <1>2
  <2>5. ASSUME NEW t, \E n \in 1..Len(submitted) : submitted[n].chunk = chunk /\ submitted[n].stream = t
        PROVE  \E n \in 1..Len(submitted') : submitted'[n].chunk = chunk /\ submitted'[n].stream = t
    BY <1>2, <2>4, <2>5
  <2>6. \E n \in 1..Len(submitted') : submitted'[n].chunk = chunk /\ submitted'[n].stream = s
    BY <1>2, <2>3
  <2>7. mpc = "close1" => \E n \in 1..Len(submitted') : submitted'[n].chunk = chunk /\ submitted'[n].stream = 0
    BY <1>0, <2>5 DEF TailInv
  <2>8. mpc' \in {"seal_begin", "seal_wait", "seal"} => Encrypt
    BY DEF AfterClose, AfterChunk
  <2> QED
    BY <2>1, <2>2, <2>6, <2>7, <2>8 DEF TailInv
<1>5. OutFault'
  BY <1>0, <1>1 DEF OutFault, ClearBuffer
<1> QED
  BY <1>3, <1>4, <1>5 DEF FlowInv

\* Between two chunks of an encrypted or piped archive no thread is at work.
LEMMA NextFlow ==
  ASSUME IInv, FlowInv, [Next]_vars PROVE FlowInv'
<1> USE DEF ringVars, slotVars, mainVars, fileVars
<1>1. CASE exit # "running"
  <2>1. UNCHANGED vars
    BY <1>1, EndedStep
  <2> QED
    BY <1>1, <2>1 DEF vars, FlowInv
<1>2. CASE exit = "running"
  <2>0. TypeOK /\ RingInv /\ SlotInv /\ WaitInv /\ DrainInv /\ TailInv /\ OutFault
    BY <1>2 DEF IInv, FlowInv
  <2>1. released \in Nat /\ Len(submitted) \in Nat /\ pc \in [Slot -> ThreadPC]
        /\ fatal_msg \in [Slot -> BOOLEAN]
    BY <2>0 DEF TypeOK, PoolOK, FlagsOK
  <2>2. CASE RzipPass
    <3>1. Backlog = 0 => \A n \in (released + 1)..Len(submitted) : FALSE
      BY <2>1 DEF Backlog
    <3> QED
      BY <2>0, <2>2, <3>1 DEF RzipPass, FlowInv, DrainInv, TailInv, OutFault, Backlog
  <2>3. CASE EndChunk
    BY <2>0, <2>3 DEF EndChunk, FlowInv, DrainInv, TailInv, OutFault, Backlog
  <2>4. CASE EncryptWait \/ WaitStreamoutThreads \/ CloseStreamoutThreads
    <3>1. /\ UNCHANGED <<submitted, released, chunk, pc, fatal_msg>>
          /\ \/ mpc = "seal_begin" /\ mpc' = "seal_wait"
             \/ mpc = "seal_wait" /\ mpc' \in {"seal_wait", "seal"}
             \/ mpc = "flush_begin" /\ mpc' = "flush_wait"
             \/ mpc = "flush_wait" /\ mpc' \in {"flush_wait", "flush"}
             \/ mpc = "close_begin" /\ mpc' = "close_wait"
             \/ mpc = "close_wait" /\ mpc' \in {"close_wait", "trailer"}
      BY <2>4 DEF EncryptWait, WaitStreamoutThreads, CloseStreamoutThreads, WaitBegin, WaitSlot
    <3>2. Backlog' = Backlog /\ OutFault'
      BY <2>0, <3>1 DEF Backlog, OutFault
    <3>3. DrainInv' /\ TailInv'
      BY <2>0, <3>1, <3>2 DEF DrainInv, TailInv
    <3> QED
      BY <3>2, <3>3 DEF FlowInv
  <2>5. CASE SealLastHeads \/ FlushTmpout
    <3>1. /\ UNCHANGED <<submitted, released, chunk, pc, fatal_msg>> /\ mpc \in {"seal", "flush"}
          /\ mpc' \in {"flush_begin", "pass", "close_begin"}
      BY <2>5 DEF SealLastHeads, FlushTmpout, AfterChunk
    <3>2. Backlog' = 0
      BY <2>0, <3>1 DEF WaitInv, Backlog
    <3>3. DrainInv' /\ TailInv' /\ OutFault'
      BY <2>0, <3>1, <3>2 DEF DrainInv, TailInv, OutFault
    <3> QED
      BY <3>3 DEF FlowInv
  <2>6. CASE \E s \in Streams : FlushBuffer(s)
    BY <1>2, <2>6, ClearBufferFlow DEF FlushBuffer, ClearBuffer
  <2>7. CASE CloseStreamOut
    BY <1>2, <2>7, ClearBufferFlow DEF CloseStreamOut, ClearBuffer, Streams
  <2>8. CASE Finish \/ MainFails \/ FatalExit \/ \E i \in Slot : ThreadExits(i)
    BY <2>8 DEF Finish, MainFails, FatalExit, ThreadExits, EndProcess, FlowInv
  <2>9. ASSUME NEW i \in Slot, Compthread(i) PROVE FlowInv'
    <3>1. CASE ReleaseTurn(i)
      <4>1. Active(i) /\ job[i] \in (released + 1)..Len(submitted)
        BY <2>0, <3>1 DEF ReleaseTurn, Active, SlotInv
      <4>2. UNCHANGED <<submitted, chunk, mpc, fatal_msg>> /\ pc' = [pc EXCEPT ![i] = "post"]
            /\ released' \in {released, released + 1}
        BY <3>1 DEF ReleaseTurn
      <4>3. Backlog # 0
        BY <2>1, <4>1 DEF Backlog
      <4>4. \A n \in (released' + 1)..Len(submitted) : n \in (released + 1)..Len(submitted)
        <5>1. released' \in Nat /\ released <= released'
          BY <2>1, <4>2
        <5> QED
          BY <2>1, <5>1, LaterRange
      <4>5. DrainInv' /\ TailInv'
        BY <2>0, <4>2, <4>3, <4>4 DEF DrainInv, TailInv
      <4>6. OutFault'
        BY <2>0, <2>1, <4>2 DEF OutFault
      <4> QED
        BY <4>5, <4>6 DEF FlowInv
    <3>2. CASE PostSem(i)
      <4>1. OutFault'
        BY <2>0, <2>1, <3>2 DEF OutFault, PostSem
      <4> QED
        BY <1>2, <3>2, <4>1, QuietFlow DEF PostSem
    <3>3. CASE ~ReleaseTurn(i) /\ ~PostSem(i)
      <4>1. PICK to \in ThreadPC, fatal \in BOOLEAN :
              Goto(i, to, fatal) /\ (to = "wait_out" => fatal)
        BY <2>9, <3>3 DEF Compthread, Compress, TakeTurn, Recompress, WriteChunkHeader, WriteLink,
           WriteBody, ThreadPC
      <4>2. OutFault'
        BY <2>0, <2>1, <4>1 DEF OutFault, Goto
      <4> QED
        BY <1>2, <4>1, <4>2, QuietFlow DEF Goto
    <3> QED
      BY <3>1, <3>2, <3>3
  <2>10. CASE UNCHANGED vars \/ Ended
    BY <1>2, <2>0, <2>10, QuietFlow DEF vars, Ended, OutFault
  <2> QED
    BY <2>2, <2>3, <2>4, <2>5, <2>6, <2>7, <2>8, <2>9, <2>10 DEF Next, MainStep
<1> QED
  BY <1>1, <1>2

----------------------------------------------------------------------------
(* The archive only grows, and only links and encryption change in place. *)

\* What patching a link and encrypting a header do to the fields of an item.
LEMMA PatchLinkFields ==
  ASSUME NEW file \in Seq(ItemType), NEW k, NEW to \in Nat
  PROVE  \A j \in DOMAIN file :
           /\ PatchLink(file, k, to)[j].stream = file[j].stream
           /\ PatchLink(file, k, to)[j].eof = file[j].eof
           /\ PatchLink(file, k, to)[j].sealed = file[j].sealed
           /\ PatchLink(file, k, to)[j].next = IF j = k THEN to ELSE file[j].next
           /\ j # k => PatchLink(file, k, to)[j] = file[j]
<1> TAKE j \in DOMAIN file
<1>1. file[j] \in ItemType
  OBVIOUS
<1>2. PatchLink(file, k, to)[j] = IF j = k THEN [file[j] EXCEPT !.next = to] ELSE file[j]
  BY DEF PatchLink
<1> DEFINE it == file[j]
           a == [it EXCEPT !.next = to]
<1>3. a.stream = it.stream /\ a.eof = it.eof /\ a.sealed = it.sealed /\ a.next = to
  BY <1>1 DEF ItemType
<1> QED
  BY <1>2, <1>3

LEMMA RewriteEncryptedFields ==
  ASSUME NEW file \in Seq(ItemType), NEW S
  PROVE  \A j \in DOMAIN file :
           /\ RewriteEncrypted(file, S)[j].stream = file[j].stream
           /\ RewriteEncrypted(file, S)[j].eof = file[j].eof
           /\ RewriteEncrypted(file, S)[j].next = file[j].next
           /\ RewriteEncrypted(file, S)[j].sealed = IF j \in S THEN file[j].sealed + 1 ELSE file[j].sealed
           /\ j \notin S => RewriteEncrypted(file, S)[j] = file[j]
<1> TAKE j \in DOMAIN file
<1>1. file[j] \in ItemType
  OBVIOUS
<1>2. RewriteEncrypted(file, S)[j] = IF j \in S THEN [file[j] EXCEPT !.sealed = @ + 1] ELSE file[j]
  BY DEF RewriteEncrypted
<1> DEFINE it == file[j]
           a == [it EXCEPT !.sealed = @ + 1]
<1>3. a.stream = it.stream /\ a.eof = it.eof /\ a.next = it.next /\ a.sealed = it.sealed + 1
  BY <1>1 DEF ItemType
<1> QED
  BY <1>2, <1>3

\* The archive after a link was written: one link is new, and with ENCRYPT that
\* header is encrypted.
Linked(file, k, to) ==
  IF Encrypt THEN RewriteEncrypted(PatchLink(file, k, to), {k}) ELSE PatchLink(file, k, to)

LEMMA LinkedFields ==
  ASSUME NEW file \in Seq(ItemType), NEW k, NEW to \in Nat
  PROVE  /\ Linked(file, k, to) \in Seq(ItemType) /\ Len(Linked(file, k, to)) = Len(file)
         /\ DOMAIN Linked(file, k, to) = DOMAIN file
         /\ \A j \in DOMAIN file :
              /\ Linked(file, k, to)[j].kind = file[j].kind
              /\ Linked(file, k, to)[j].chunk = file[j].chunk
              /\ Linked(file, k, to)[j].stream = file[j].stream
              /\ Linked(file, k, to)[j].n = file[j].n
              /\ Linked(file, k, to)[j].eof = file[j].eof
              /\ Linked(file, k, to)[j].next = IF j = k THEN to ELSE file[j].next
              /\ Linked(file, k, to)[j].sealed = IF Encrypt /\ j = k THEN file[j].sealed + 1
                                                 ELSE file[j].sealed
              /\ j # k => Linked(file, k, to)[j] = file[j]
<1> DEFINE after == Linked(file, k, to)
<1> DEFINE p == PatchLink(file, k, to)
<1>1. /\ p \in Seq(ItemType) /\ Len(p) = Len(file) /\ DOMAIN p = DOMAIN file
      /\ \A j \in DOMAIN file :
           /\ p[j].kind = file[j].kind /\ p[j].n = file[j].n /\ p[j].chunk = file[j].chunk
  BY PatchLinkFacts
<1>2. \A j \in DOMAIN file :
        /\ p[j].stream = file[j].stream /\ p[j].eof = file[j].eof /\ p[j].sealed = file[j].sealed
        /\ p[j].next = IF j = k THEN to ELSE file[j].next
        /\ j # k => p[j] = file[j]
  BY PatchLinkFields
<1> HIDE DEF p
<1> SUFFICES /\ after \in Seq(ItemType) /\ Len(after) = Len(file) /\ DOMAIN after = DOMAIN file
             /\ \A j \in DOMAIN file :
                  /\ after[j].kind = file[j].kind /\ after[j].chunk = file[j].chunk
                  /\ after[j].stream = file[j].stream /\ after[j].n = file[j].n /\ after[j].eof = file[j].eof
                  /\ after[j].next = IF j = k THEN to ELSE file[j].next
                  /\ after[j].sealed = IF Encrypt /\ j = k THEN file[j].sealed + 1 ELSE file[j].sealed
                  /\ j # k => after[j] = file[j]
  OBVIOUS
<1> HIDE DEF after
<1>3. CASE Encrypt
  <2> DEFINE q == RewriteEncrypted(p, {k})
  <2>1. after = q
    BY <1>3 DEF p, Linked, after
  <2>2. /\ q \in Seq(ItemType) /\ Len(q) = Len(p) /\ DOMAIN q = DOMAIN p
        /\ \A j \in DOMAIN p : q[j].kind = p[j].kind /\ q[j].n = p[j].n /\ q[j].chunk = p[j].chunk
    BY <1>1, RewriteEncryptedFacts
  <2>3. \A j \in DOMAIN p :
          /\ q[j].stream = p[j].stream /\ q[j].eof = p[j].eof /\ q[j].next = p[j].next
          /\ q[j].sealed = IF j \in {k} THEN p[j].sealed + 1 ELSE p[j].sealed
          /\ j \notin {k} => q[j] = p[j]
    BY <1>1, RewriteEncryptedFields
  <2> HIDE DEF q
  <2>4. ASSUME NEW j \in DOMAIN file
        PROVE  /\ q[j].kind = file[j].kind /\ q[j].chunk = file[j].chunk
               /\ q[j].stream = file[j].stream /\ q[j].n = file[j].n /\ q[j].eof = file[j].eof
               /\ q[j].next = IF j = k THEN to ELSE file[j].next
               /\ q[j].sealed = IF j = k THEN file[j].sealed + 1 ELSE file[j].sealed
               /\ j # k => q[j] = file[j]
    BY <1>1, <1>2, <2>2, <2>3
  <2>5. ASSUME NEW j \in DOMAIN file
        PROVE  /\ after[j].kind = file[j].kind /\ after[j].chunk = file[j].chunk
               /\ after[j].stream = file[j].stream /\ after[j].n = file[j].n /\ after[j].eof = file[j].eof
               /\ after[j].next = IF j = k THEN to ELSE file[j].next
               /\ after[j].sealed = IF Encrypt /\ j = k THEN file[j].sealed + 1 ELSE file[j].sealed
               /\ j # k => after[j] = file[j]
    BY <1>3, <2>1, <2>4
  <2>6. after \in Seq(ItemType) /\ Len(after) = Len(file) /\ DOMAIN after = DOMAIN file
    BY <1>1, <2>1, <2>2
  <2> QED
    BY <2>5, <2>6
<1>4. CASE ~Encrypt
  <2>1. after = p
    BY <1>4 DEF p, Linked, after
  <2> QED
    BY <1>1, <1>2, <1>4, <2>1
<1> QED
  BY <1>3, <1>4

\* The link a thread writes.
LEMMA LinkStep ==
  ASSUME IInv, NEW i \in Slot, WriteLink(i), archive' # archive
  PROVE  /\ archive' = Linked(archive, last_head[Block(i).chunk][Block(i).stream], Len(archive) + 1)
         /\ Goto(i, "body", FALSE)
         /\ last_head' = [last_head EXCEPT ![Block(i).chunk][Block(i).stream] = Len(archive) + 1]
         /\ UNCHANGED <<chunks, last_headofs, flushed>>
         /\ Len(archive) + 1 \in Nat /\ archive \in Seq(ItemType)
         /\ DOMAIN archive' = DOMAIN archive /\ Len(archive') = Len(archive)
<1>1. /\ archive' = Linked(archive, last_head[Block(i).chunk][Block(i).stream], Len(archive) + 1)
      /\ Goto(i, "body", FALSE)
      /\ last_head' = [last_head EXCEPT ![Block(i).chunk][Block(i).stream] = Len(archive) + 1]
      /\ UNCHANGED <<chunks, last_headofs, flushed>>
  BY DEF WriteLink, Linked
<1>2. Len(archive) + 1 \in Nat /\ archive \in Seq(ItemType)
  BY DEF IInv, TypeOK, FileOK
<1>3. DOMAIN archive' = DOMAIN archive /\ Len(archive') = Len(archive)
  BY <1>1, <1>2, LinkedFields
<1> QED
  BY <1>1, <1>2, <1>3

\* The archive after a chunk header.
LEMMA HeaderFields ==
  ASSUME NEW c \in 1..MaxChunks, eof \in {0, 1}, archive \in Seq(ItemType),
         archive' = archive \o ChunkHeader(c)
  PROVE  /\ Len(archive') = Len(archive) + 3 /\ Len(archive) \in Nat
         /\ archive'[Len(archive) + 2] = Item("init", c, 0, 0, 0)
         /\ archive'[Len(archive) + 3] = Item("init", c, 1, 0, 0)
         /\ DOMAIN archive = 1..Len(archive) /\ DOMAIN archive' = 1..(Len(archive) + 3)
         /\ \A k \in DOMAIN archive : archive'[k] = archive[k]
         /\ archive'[Len(archive) + 1] = Item("rcd", c, 0, 0, eof)
         /\ \A s \in Streams : archive'[Len(archive) + 2 + s] = Item("init", c, s, 0, 0)
<1> DEFINE h == ChunkHeader(c)
<1>1. h \in Seq(ItemType) /\ Len(h) = 3
  BY ChunkHeaderFacts
<1>2. h[1] = Item("rcd", c, 0, 0, eof) /\ h[2] = Item("init", c, 0, 0, 0) /\ h[3] = Item("init", c, 1, 0, 0)
  BY DEF ChunkHeader
<1> HIDE DEF h
<1>3. archive' = archive \o h
  BY DEF h
<1>4. Len(archive) \in Nat /\ Len(archive') = Len(archive) + 3 /\ DOMAIN archive = 1..Len(archive)
      /\ DOMAIN archive' = 1..(Len(archive) + 3)
  <2>1. Len(archive) \in Nat /\ DOMAIN archive = 1..Len(archive)
    OBVIOUS
  <2>3. Len(archive \o h) = Len(archive) + Len(h) /\ archive \o h \in Seq(ItemType)
    <3> HIDE DEF ItemType
    <3>1. archive \in Seq(ItemType) /\ h \in Seq(ItemType)
      BY <1>1
    <3> QED
      BY <3>1, ConcatFacts, Zenon
  <2>2. Len(archive') = Len(archive) + 3 /\ archive' \in Seq(ItemType)
    BY <1>1, <1>3, <2>3, Zenon
  <2> QED
    BY <2>1, <2>2
<1>5. \A k \in DOMAIN archive : archive'[k] = archive[k]
  BY <1>1, <1>3, <1>4
<1>6. archive'[Len(archive) + 1] = h[1] /\ archive'[Len(archive) + 2] = h[2]
      /\ archive'[Len(archive) + 3] = h[3]
  BY <1>1, <1>3, <1>4
<1>7. \A s \in Streams : archive'[Len(archive) + 2 + s] = Item("init", c, s, 0, 0)
  <2> TAKE s \in Streams
  <2>1. CASE s = 0
    BY <1>2, <1>4, <1>6, <2>1
  <2>2. CASE s = 1
    BY <1>2, <1>4, <1>6, <2>2
  <2>3. s = 0 \/ s = 1
    BY DEF Streams
  <2> QED
    BY <2>1, <2>2, <2>3
<1> QED
  BY <1>2, <1>4, <1>5, <1>6, <1>7

\* The items that steps can never alter keep kind, place and number.
Kept ==
  /\ Len(archive) <= Len(archive')
  /\ \A k \in DOMAIN archive :
       /\ k \in DOMAIN archive' /\ archive'[k].kind = archive[k].kind
       /\ archive'[k].chunk = archive[k].chunk /\ archive'[k].stream = archive[k].stream
       /\ archive'[k].n = archive[k].n /\ archive'[k].eof = archive[k].eof

LEMMA ArchiveKept ==
  ASSUME IInv, [Next]_vars PROVE Kept
<1> USE DEF ringVars, slotVars, mainVars, fileVars
<1>0. TypeOK /\ archive \in Seq(ItemType) /\ Len(archive) \in Nat
  BY DEF IInv, TypeOK, FileOK
<1>1. CASE archive' = archive
  BY <1>0, <1>1 DEF Kept
<1>2. CASE SealLastHeads
  BY <1>0, <1>2, RewriteEncryptedFacts, RewriteEncryptedFields DEF SealLastHeads, Kept
<1>3. ASSUME NEW i \in Slot, WriteChunkHeader(i) PROVE Kept
  <2>1. CASE archive' = archive \o ChunkHeader(Block(i).chunk)
    <3>1. Block(i).chunk \in 1..MaxChunks /\ eof \in {0, 1}
      BY <1>0, <1>3, WorkerFacts DEF WriteChunkHeader, Active, TypeOK, MainOK
    <3> DEFINE c == Block(i).chunk
    <3>2. archive' = archive \o ChunkHeader(c) /\ c \in 1..MaxChunks
      BY <2>1, <3>1
    <3> HIDE DEF c
    <3>3. /\ Len(archive') = Len(archive) + 3
          /\ DOMAIN archive = 1..Len(archive) /\ DOMAIN archive' = 1..(Len(archive) + 3)
          /\ \A k \in DOMAIN archive : archive'[k] = archive[k]
      BY <1>0, <3>1, <3>2, HeaderFields
    <3> QED
      BY <1>0, <3>3 DEF Kept
  <2> QED
    BY <1>1, <1>3, <2>1 DEF WriteChunkHeader
<1>4. ASSUME NEW i \in Slot, WriteLink(i) PROVE Kept
  <2>1. CASE archive' # archive
    <3> DEFINE prev == last_head[Block(i).chunk][Block(i).stream]
    <3>1. archive' = Linked(archive, prev, Len(archive) + 1) /\ Len(archive) + 1 \in Nat
      BY <1>4, <2>1, LinkStep
    <3> HIDE DEF prev
    <3>2. /\ Len(archive') = Len(archive) /\ DOMAIN archive' = DOMAIN archive
          /\ \A j \in DOMAIN archive :
               /\ archive'[j].kind = archive[j].kind /\ archive'[j].chunk = archive[j].chunk
               /\ archive'[j].stream = archive[j].stream /\ archive'[j].n = archive[j].n
               /\ archive'[j].eof = archive[j].eof
      BY <1>0, <3>1, LinkedFields
    <3> QED
      BY <1>0, <3>2 DEF Kept
  <2> QED
    BY <1>1, <2>1
<1>5. ASSUME NEW i \in Slot, WriteBody(i) PROVE Kept
  <2> DEFINE it == Item("block", Block(i).chunk, Block(i).stream, job[i], 0)
  <2>1. archive' = archive \/ archive' = Append(archive, it)
    BY <1>5 DEF WriteBody
  <2> HIDE DEF it
  <2> QED
    BY <1>0, <1>1, <2>1 DEF Kept
<1>6. ASSUME NEW i \in Slot, Compress(i) \/ TakeTurn(i) \/ Recompress(i) \/ ReleaseTurn(i) \/ PostSem(i)
      PROVE  archive' = archive
  BY <1>6 DEF Compress, TakeTurn, Recompress, ReleaseTurn, PostSem, Goto
<1>7. CASE MainStep /\ ~SealLastHeads
  BY <1>1, <1>7 DEF MainStep, RzipPass, FlushBuffer, ClearBuffer, EndChunk, CloseStreamOut,
     EncryptWait, WaitStreamoutThreads, FlushTmpout, CloseStreamoutThreads,
     Finish, WaitBegin, WaitSlot, EndProcess
<1>8. CASE MainFails \/ FatalExit \/ (\E i \in Slot : ThreadExits(i)) \/ UNCHANGED vars \/ Ended
  BY <1>1, <1>8 DEF MainFails, FatalExit, ThreadExits, EndProcess, vars, Ended
<1> QED
  BY <1>1, <1>2, <1>3, <1>4, <1>5, <1>6, <1>7, <1>8 DEF Next, Compthread

----------------------------------------------------------------------------
(* The eof flag and the pipe. *)

\* With ENCRYPT or STDOUT a thread that runs works for the current chunk, which
\* is not complete.
LEMMA WriterChunk ==
  ASSUME IInv, FlowInv, NEW i \in Slot, Active(i)
  PROVE  /\ Encrypt \/ Stdout =>
              /\ Block(i).chunk = chunk
              /\ mpc \notin {"pass", "close_begin", "close_wait", "trailer", "seal", "flush", "done"}
         /\ Encrypt => mpc \notin ClosedPC
<1>1. /\ exit = "running" /\ TypeOK /\ WaitInv /\ RingInv
      /\ job[i] \in (released + 1)..Len(submitted)
  BY WorkerFacts
<1>2. DrainInv
  BY <1>1 DEF FlowInv
<1>3. Backlog # 0
  BY <1>1 DEF Backlog, TypeOK, PoolOK
<1>4. mpc \notin {"trailer", "seal", "flush", "done"}
  BY <1>1, <1>3 DEF WaitInv, RingInv
<1> QED
  BY <1>1, <1>2, <1>3, <1>4 DEF DrainInv, Block, ClosedPC

\* Only a chunk header that is written brings a new eof flag, and it is the flag
\* of the chunk that is current then.
LEMMA NextEof ==
  ASSUME IInv, FlowInv, EofInv, [Next]_vars PROVE EofInv'
<1> USE DEF ringVars, slotVars, mainVars, fileVars
<1>0. TypeOK /\ eof \in {0, 1} /\ archive \in Seq(ItemType) /\ Kept
  BY ArchiveKept DEF IInv, TypeOK, MainOK, FileOK
<1>1. CASE RzipPass
  <2>1. UNCHANGED archive /\ mpc' = "write" /\ eof = 0
    BY <1>1 DEF RzipPass, EofInv
  <2> QED
    BY <2>1 DEF EofInv, EofIsLast
<1>2. ASSUME UNCHANGED <<chunk, eof>>, DOMAIN archive' = DOMAIN archive, mpc' = "pass" => eof = 0
      PROVE  EofInv'
  BY <1>0, <1>2 DEF EofInv, EofIsLast, Kept
<1>3. CASE MainStep /\ ~RzipPass
  <2>1. UNCHANGED <<chunk, eof>> /\ (archive' = archive \/ SealLastHeads)
    BY <1>3 DEF MainStep, FlushBuffer, ClearBuffer, EndChunk, CloseStreamOut,
       EncryptWait, SealLastHeads, WaitStreamoutThreads, FlushTmpout, CloseStreamoutThreads,
       Finish, WaitBegin, WaitSlot, EndProcess
  <2>2. DOMAIN archive' = DOMAIN archive
    BY <1>0, <2>1, RewriteEncryptedFacts DEF SealLastHeads
  <2>3. mpc' = "pass" => eof = 0
    BY <1>0, <1>3 DEF MainStep, FlushBuffer, EndChunk, CloseStreamOut,
       EncryptWait, SealLastHeads, WaitStreamoutThreads, FlushTmpout, CloseStreamoutThreads,
       Finish, WaitBegin, WaitSlot, EndProcess, AfterClose, AfterChunk
  <2> QED
    BY <1>2, <2>1, <2>2, <2>3
<1>4. CASE MainFails \/ FatalExit \/ (\E i \in Slot : ThreadExits(i))
  BY <1>2, <1>4 DEF MainFails, FatalExit, ThreadExits, EndProcess
<1>5. ASSUME NEW i \in Slot, Compthread(i) PROVE EofInv'
  <2>1. UNCHANGED <<chunk, eof, mpc>>
    BY <1>5 DEF Compthread, Compress, TakeTurn, Recompress, WriteChunkHeader, WriteLink, WriteBody,
       ReleaseTurn, PostSem, Goto
  <2>2. CASE archive' = archive
    BY <1>2, <2>1, <2>2 DEF EofInv
  <2>3. CASE WriteChunkHeader(i) /\ archive' # archive
    <3> DEFINE c == Block(i).chunk
    <3>1. Active(i) /\ archive' = archive \o ChunkHeader(c)
      BY <2>3 DEF WriteChunkHeader, Active
    <3>2. c \in 1..MaxChunks /\ (Encrypt \/ Stdout => c = chunk)
      BY <3>1, WorkerFacts, WriterChunk
    <3> HIDE DEF c
    <3>3. /\ Len(archive) \in Nat
          /\ DOMAIN archive = 1..Len(archive) /\ DOMAIN archive' = 1..(Len(archive) + 3)
          /\ \A k \in DOMAIN archive : archive'[k] = archive[k]
          /\ archive'[Len(archive) + 1] = Item("rcd", c, 0, 0, eof)
          /\ archive'[Len(archive) + 2] = Item("init", c, 0, 0, 0)
          /\ archive'[Len(archive) + 3] = Item("init", c, 1, 0, 0)
      BY <1>0, <3>1, <3>2, HeaderFields
    <3>4. ASSUME NEW k \in DOMAIN archive', k \notin DOMAIN archive, archive'[k].kind = "rcd"
          PROVE  archive'[k].chunk = c /\ archive'[k].eof = eof
      <4>1. k = Len(archive) + 1 \/ k = Len(archive) + 2 \/ k = Len(archive) + 3
        BY <3>3, <3>4
      <4>4. archive'[Len(archive) + 2].kind = "init" /\ archive'[Len(archive) + 3].kind = "init"
        BY <3>3 DEF Item
      <4>3. k = Len(archive) + 1
        BY <3>4, <4>1, <4>4
      <4> QED
        BY <3>3, <4>3 DEF Item
    <3>5. Encrypt \/ Stdout => EofIsLast'
      BY <2>1, <3>2, <3>3, <3>4 DEF EofInv, EofIsLast
    <3> QED
      BY <2>1, <3>5 DEF EofInv
  <2>4. CASE WriteLink(i)
    <3>1. DOMAIN archive' = DOMAIN archive
      BY <2>4, LinkStep
    <3> QED
      BY <1>2, <2>1, <3>1 DEF EofInv
  <2>5. CASE WriteBody(i) /\ archive' # archive
    <3> DEFINE it == Item("block", Block(i).chunk, Block(i).stream, job[i], 0)
    <3>1. archive' = Append(archive, it) /\ it.kind = "block"
      BY <2>5 DEF WriteBody, Item
    <3> HIDE DEF it
    <3>2. \A k \in DOMAIN archive' : archive'[k].kind = "rcd" => k \in DOMAIN archive /\ archive'[k] = archive[k]
      BY <1>0, <3>1
    <3> QED
      BY <2>1, <3>2 DEF EofInv, EofIsLast
  <2>6. CASE Compress(i) \/ TakeTurn(i) \/ Recompress(i) \/ ReleaseTurn(i) \/ PostSem(i)
    BY <2>2, <2>6 DEF Compress, TakeTurn, Recompress, ReleaseTurn, PostSem, Goto
  <2> QED
    BY <1>5, <2>2, <2>3, <2>4, <2>5, <2>6 DEF Compthread
<1>6. CASE UNCHANGED vars \/ Ended
  BY <1>2, <1>6 DEF vars, Ended, EofInv
<1> QED
  BY <1>1, <1>3, <1>4, <1>5, <1>6 DEF Next

\* What is flushed belongs to chunks that are over.
LEMMA NextFlush ==
  ASSUME IInv, IInv', OrderInv, exit = "running" => FlushInv, [Next]_vars, exit' = "running"
  PROVE  FlushInv'
<1> USE DEF ringVars, slotVars, mainVars, fileVars
<1>0. /\ exit = "running" /\ FlushInv /\ archive \in Seq(ItemType) /\ Kept
      /\ Len(archive) \in Nat /\ Len(archive') \in Nat /\ chunk \in Nat /\ flushed \in Nat
      /\ \A k \in 1..Len(archive) : archive[k].chunk \in Nat /\ archive[k].chunk <= chunk
  <2>1. exit = "running"
    <3>1. exit # "running" => UNCHANGED vars
      BY EndedStep
    <3> QED
      BY <3>1 DEF vars
  <2>2. /\ TypeOK /\ archive \in Seq(ItemType) /\ Len(archive) \in Nat /\ Len(archive') \in Nat
        /\ chunk \in Nat /\ flushed \in Nat
    <3>1. FileOK' /\ FileOK /\ MainOK /\ TypeOK
      BY DEF IInv, TypeOK
    <3> QED
      BY <3>1, BoundsAssumption DEF FileOK, MainOK
  <2>3. \A k \in 1..Len(archive) : archive[k].chunk \in Nat /\ archive[k].chunk <= chunk
    BY <2>2, OrderTypes DEF OrderInv, ArchiveBehind
  <2> QED
    BY <2>1, <2>2, <2>3, ArchiveKept
<1>1. CASE FlushTmpout
  <2>1. Stdout /\ flushed' = Len(archive) /\ archive' = archive /\ mpc' \in {"pass", "close_begin"}
    BY <1>0, <1>1 DEF FlushInv, FlushTmpout, AfterChunk
  <2> QED
    BY <1>0, <2>1 DEF FlushInv
<1>2. ASSUME UNCHANGED flushed,
             mpc' \in {"flush_begin", "flush_wait", "flush"} => Stdout,
             \/ chunk' = chunk + 1
             \/ /\ chunk' = chunk
                /\ mpc \in {"pass", "close_begin", "close_wait", "trailer"}
                     => mpc' \in {"pass", "close_begin", "close_wait", "trailer"}
      PROVE  FlushInv'
  <2>1. flushed' <= Len(archive')
    BY <1>0, <1>2 DEF FlushInv, Kept
  <2>2. ASSUME NEW k \in 1..flushed
        PROVE  /\ Stdout
               /\ archive'[k].chunk < chunk' \/ mpc' \in {"pass", "close_begin", "close_wait", "trailer"}
    <3>1. k \in 1..Len(archive)
      BY <1>0 DEF FlushInv
    <3>2. archive'[k].chunk = archive[k].chunk /\ archive[k].chunk \in Nat /\ archive[k].chunk <= chunk
      BY <1>0, <3>1 DEF Kept
    <3>3. Stdout /\ (archive[k].chunk < chunk \/ mpc \in {"pass", "close_begin", "close_wait", "trailer"})
      BY <1>0 DEF FlushInv
    <3> QED
      BY <1>0, <1>2, <3>2, <3>3
  <2> QED
    BY <1>2, <2>1, <2>2 DEF FlushInv
<1>3. CASE MainStep /\ ~FlushTmpout
  <2>1. UNCHANGED flushed
    BY <1>3 DEF MainStep, RzipPass, FlushBuffer, ClearBuffer, EndChunk, CloseStreamOut,
       EncryptWait, SealLastHeads, WaitStreamoutThreads, CloseStreamoutThreads,
       Finish, WaitBegin, WaitSlot, EndProcess
  <2>2. CASE RzipPass
    BY <1>2, <2>1, <2>2 DEF RzipPass
  <2>3. CASE (\E s \in Streams : FlushBuffer(s)) \/ EndChunk \/ CloseStreamOut
    BY <1>2, <2>1, <2>3 DEF FlushBuffer, ClearBuffer, EndChunk, CloseStreamOut, AfterClose, AfterChunk
  <2>4. CASE EncryptWait \/ WaitStreamoutThreads \/ CloseStreamoutThreads
    BY <1>0, <1>2, <2>1, <2>4 DEF EncryptWait, WaitStreamoutThreads, CloseStreamoutThreads,
       WaitBegin, WaitSlot, FlushInv
  <2>5. CASE SealLastHeads
    BY <1>2, <2>1, <2>5 DEF SealLastHeads, AfterChunk
  <2> QED
    BY <1>3, <2>2, <2>3, <2>4, <2>5 DEF MainStep, Finish, EndProcess
<1>4. ASSUME NEW i \in Slot, Compthread(i) PROVE FlushInv'
  <2>1. UNCHANGED <<chunk, mpc, flushed>>
    BY <1>4 DEF Compthread, Compress, TakeTurn, Recompress, WriteChunkHeader, WriteLink, WriteBody,
       ReleaseTurn, PostSem, Goto
  <2> QED
    BY <1>0, <1>2, <2>1 DEF FlushInv
<1>5. CASE UNCHANGED vars \/ Ended
  BY <1>0, <1>2, <1>5 DEF vars, Ended, FlushInv
<1> QED
  BY <1>1, <1>3, <1>4, <1>5 DEF Next, MainFails, FatalExit, ThreadExits, EndProcess

----------------------------------------------------------------------------
(* The links and the encryption of the headers. *)

\* Steps that leave what is on disk alone.
LEMMA QuietLink ==
  ASSUME LinkInv, UNCHANGED <<archive, last_head, last_headofs>>,
         \A c \in 1..MaxChunks : chunks'[c] # 0 <=> chunks[c] # 0,
         \A c \in 1..MaxChunks : \A s \in Streams : BodyOf(c, s)' <=> BodyOf(c, s),
         Encrypt => \A k \in DOMAIN archive : Closed(archive[k].chunk)' <=> Closed(archive[k].chunk),
         AllWritten'
  PROVE  LinkInv'
<1>1. HeadInv'
  BY DEF LinkInv, HeadInv
<1>2. ChainInv'
  BY DEF LinkInv, ChainInv, HeadOf
<1>3. SealInv'
  BY DEF LinkInv, SealInv, HeadOf
<1>4. LastInv'
  BY DEF LinkInv, LastInv
<1> QED
  BY <1>1, <1>2, <1>3, <1>4 DEF LinkInv

\* The integers LinkInv compares.
LEMMA LinkTypes ==
  ASSUME IInv
  PROVE  /\ archive \in Seq(ItemType) /\ Len(archive) \in Nat /\ DOMAIN archive = 1..Len(archive)
         /\ \A k \in DOMAIN archive :
              /\ k \in Nat /\ archive[k].chunk \in 1..MaxChunks /\ archive[k].stream \in Streams
              /\ archive[k].next \in Nat /\ archive[k].sealed \in Nat /\ HeadOf(k) \in Nat
         /\ \A c \in 1..MaxChunks : \A s \in Streams : last_head[c][s] \in Nat
         /\ last_head \in [1..MaxChunks -> [Streams -> Nat]]
         /\ last_headofs \in [1..MaxChunks -> [Streams -> Nat]]
         /\ chunks \in [1..MaxChunks -> Nat]
         /\ pc \in [Slot -> ThreadPC] /\ released \in Nat /\ Len(submitted) \in Nat
<1>1. /\ archive \in Seq(ItemType) /\ last_head \in [1..MaxChunks -> [Streams -> Nat]]
      /\ last_headofs \in [1..MaxChunks -> [Streams -> Nat]]
      /\ chunks \in [1..MaxChunks -> Nat]
      /\ pc \in [Slot -> ThreadPC] /\ released \in Nat /\ Len(submitted) \in Nat
  BY DEF IInv, TypeOK, FileOK, PoolOK
<1>2. Len(archive) \in Nat /\ DOMAIN archive = 1..Len(archive)
  BY <1>1
<1>3. \A k \in DOMAIN archive : archive[k] \in ItemType
  BY <1>1
<1>4. \A k \in DOMAIN archive : /\ archive[k].chunk \in 1..MaxChunks /\ archive[k].stream \in Streams
                                /\ archive[k].next \in Nat /\ archive[k].sealed \in Nat
  BY <1>3 DEF ItemType
<1>5. \A c \in 1..MaxChunks : \A s \in Streams : last_head[c][s] \in Nat
  BY <1>1
<1> QED
  BY <1>1, <1>2, <1>4, <1>5 DEF HeadOf

\* A thread that has the turn but is not about to append a block: nobody is.
LEMMA NoBody ==
  ASSUME IInv, NEW i \in Slot, Writing(i), pc[i] # "body"
  PROVE  \A c \in 1..MaxChunks : \A s \in Streams : ~BodyOf(c, s)
<1>1. SlotInv
  BY WorkerFacts DEF Writing, Active
<1> QED
  BY <1>1 DEF SlotInv, BodyOf, Writing

\* The written blocks stay written, and their records are not changed.
LEMMA WrittenKept ==
  ASSUME IInv, Kept, NEW n \in 1..Len(submitted), submitted'[n] = submitted[n], Written(n)
  PROVE  Written(n)'
<1>1. PICK k \in DOMAIN archive : archive[k].kind = "block" /\ archive[k].n = n
                                  /\ SameStream(archive[k], submitted[n])
  BY DEF Written
<1>2. /\ k \in DOMAIN archive' /\ archive'[k].kind = "block" /\ archive'[k].n = n
      /\ SameStream(archive'[k], submitted'[n])
  BY <1>1 DEF Kept, SameStream
<1> QED
  BY <1>2 DEF Written

\* With the queue unchanged that is so for every number.
LEMMA WrittenAnyway ==
  ASSUME Kept, submitted' = submitted, NEW n, Written(n)
  PROVE  Written(n)'
<1>1. PICK k \in DOMAIN archive : archive[k].kind = "block" /\ archive[k].n = n
                                  /\ SameStream(archive[k], submitted[n])
  BY DEF Written
<1>2. /\ k \in DOMAIN archive' /\ archive'[k].kind = "block" /\ archive'[k].n = n
      /\ SameStream(archive'[k], submitted'[n])
  BY <1>1 DEF Kept, SameStream
<1> QED
  BY <1>2 DEF Written

\* Only the thread of slot i moves, and not to a place where it would owe a block.
LEMMA AllWrittenKept ==
  ASSUME IInv, Kept, AllWritten, NEW i \in Slot, NEW to, pc' = [pc EXCEPT ![i] = to], to # "out",
         UNCHANGED <<submitted, job, released>>
  PROVE  AllWritten'
<1>0. /\ pc \in [Slot -> ThreadPC] /\ released \in Nat /\ Len(submitted) \in Nat
      /\ Backlog \in 0..threads /\ threads \in Nat
  BY PoolFacts DEF IInv, TypeOK, PoolOK, RingInv
<1>1. \A n \in 1..released : Written(n)'
  <2> TAKE n \in 1..released
  <2>1. n \in 1..Len(submitted)
    BY <1>0 DEF Backlog
  <2> QED
    BY <2>1, WrittenKept DEF AllWritten
<1>2. ASSUME NEW j \in Slot, pc'[j] = "out" PROVE Written(job[j])'
  <2>1. pc[j] = "out"
    BY <1>0, <1>2
  <2>2. job[j] \in 1..Len(submitted)
    <3>1. job[j] \in (released + 1)..Len(submitted)
      BY <2>1, WorkerFacts DEF Active
    <3> QED
      BY <1>0, <3>1
  <2>3. Written(job[j])
    BY <2>1 DEF AllWritten
  <2> QED
    BY <2>2, <2>3, WrittenKept DEF Written
<1> QED
  BY <1>1, <1>2 DEF AllWritten

\* A new chunk header starts both streams of a chunk that has no item yet.
LEMMA HeaderLink ==
  ASSUME IInv, OrderInv, FlowInv, LinkInv, Sound', NEW i \in Slot, WriteChunkHeader(i), Kept
  PROVE  LinkInv'
<1> DEFINE c == Block(i).chunk
           L == Len(archive)
<1>0. pc[i] = "header" /\ Active(i) /\ Writing(i)
  BY DEF WriteChunkHeader, Active, Writing
<1>1. /\ TypeOK /\ c \in 1..MaxChunks /\ eof \in {0, 1} /\ (Encrypt => c = chunk /\ mpc \notin ClosedPC)
  BY <1>0, WorkerFacts, WriterChunk DEF TypeOK, MainOK
<1>2. /\ archive \in Seq(ItemType) /\ L \in Nat /\ DOMAIN archive = 1..L
      /\ chunks \in [1..MaxChunks -> Nat] /\ pc \in [Slot -> ThreadPC]
      /\ last_head \in [1..MaxChunks -> [Streams -> Nat]]
      /\ \A k \in DOMAIN archive : archive[k].chunk \in 1..MaxChunks /\ archive[k].stream \in Streams
  BY LinkTypes
<1>3. Goto(i, "link", FALSE)
  <2>1. ~Goto(i, "out", TRUE)
    BY <1>2, <1>1 DEF Goto, Sound, TypeOK, FlagsOK
  <2> QED
    BY <2>1 DEF WriteChunkHeader
<1>4. /\ pc' = [pc EXCEPT ![i] = "link"] /\ UNCHANGED <<submitted, job, released, chunk, mpc>>
      /\ UNCHANGED <<last_headofs, flushed>> /\ chunks' = [chunks EXCEPT ![c] = chunks[c] + 1]
      /\ archive' = IF chunks[c] = 0 THEN archive \o ChunkHeader(c) ELSE archive
      /\ last_head' = IF chunks[c] = 0 THEN [last_head EXCEPT ![c] = [s \in Streams |-> L + 2 + s]]
                      ELSE last_head
  <2>1. ~Goto(i, "out", TRUE)
    BY <1>2, <1>1 DEF Goto, Sound, TypeOK, FlagsOK
  <2> QED
    BY <1>3, <2>1 DEF WriteChunkHeader, Goto, ringVars, mainVars
<1>5. \A d \in 1..MaxChunks : \A s \in Streams : ~BodyOf(d, s) /\ ~BodyOf(d, s)'
  <2>1. \A d \in 1..MaxChunks : \A s \in Streams : ~BodyOf(d, s)
    BY <1>0, NoBody
  <2>2. \A j \in Slot : pc'[j] = "body" => pc[j] = "body" /\ Block(j)' = Block(j)
    BY <1>2, <1>4 DEF Block
  <2> QED
    BY <2>1, <2>2 DEF BodyOf
<1>6. AllWritten'
  BY <1>4, AllWrittenKept DEF LinkInv
<1>7. \A d \in 1..MaxChunks : chunks'[d] # 0 <=> chunks[d] # 0 \/ d = c
  <2>1. chunks[c] + 1 # 0
    BY <1>1, <1>2
  <2> HIDE DEF c
  <2> QED
    BY <1>1, <1>2, <1>4, <2>1
<1>8. CASE chunks[c] # 0
  <2>1. Encrypt => \A k \in DOMAIN archive : Closed(archive[k].chunk)' <=> Closed(archive[k].chunk)
    BY <1>4 DEF Closed
  <2>2. \A d \in 1..MaxChunks : chunks'[d] # 0 <=> chunks[d] # 0
    BY <1>7, <1>8
  <2> QED
    BY <1>4, <1>5, <1>6, <1>8, <2>1, <2>2, QuietLink
<1>9. CASE chunks[c] = 0
  <2> HIDE DEF c
  <2>1. /\ DOMAIN archive' = 1..(L + 3)
        /\ \A k \in DOMAIN archive : archive'[k] = archive[k]
        /\ archive'[L + 1] = Item("rcd", c, 0, 0, eof)
        /\ \A s \in Streams : archive'[L + 2 + s] = Item("init", c, s, 0, 0)
    BY <1>1, <1>2, <1>4, <1>9, HeaderFields
  <2>2. \A s \in Streams : L + 2 + s \in DOMAIN archive' /\ L + 2 + s \notin DOMAIN archive
    BY <1>2, <2>1 DEF Streams
  <2>3. \A k \in DOMAIN archive' : k \in DOMAIN archive \/ k = L + 1 \/ \E s \in Streams : k = L + 2 + s
    <3> TAKE k \in DOMAIN archive'
    <3>1. k \in DOMAIN archive \/ k = L + 1 \/ k = L + 2 + 0 \/ k = L + 2 + 1
      BY <1>2, <2>1
    <3>2. 0 \in Streams /\ 1 \in Streams
      BY DEF Streams
    <3> QED
      BY <3>1, <3>2
  <2>4. \A k \in DOMAIN archive : archive[k].chunk # c /\ chunks[archive[k].chunk] # 0
    BY <1>9 DEF OrderInv, HeadersFirst
  <2>5. /\ \A d \in 1..MaxChunks : d # c => last_head'[d] = last_head[d]
        /\ \A s \in Streams : last_head'[c][s] = L + 2 + s
    BY <1>1, <1>2, <1>4, <1>9
  <2>6. \A k \in DOMAIN archive : HeadOf(k)' = HeadOf(k) /\ HeadOf(k) \in DOMAIN archive
    <3> TAKE k \in DOMAIN archive
    <3>1. HeadOf(k)' = HeadOf(k)
      BY <1>2, <2>1, <2>4, <2>5 DEF HeadOf
    <3>2. HeadOf(k) \in DOMAIN archive
      BY <1>2, <1>5, <2>4 DEF LinkInv, HeadInv, HeadOf
    <3> QED
      BY <3>1, <3>2
  <2>7. \A s \in Streams : /\ archive'[L + 2 + s].kind = "init" /\ archive'[L + 2 + s].chunk = c
                           /\ archive'[L + 2 + s].stream = s /\ archive'[L + 2 + s].next = 0
                           /\ archive'[L + 2 + s].sealed = 0 /\ last_head'[c][s] = L + 2 + s
    <3> TAKE s \in Streams
    <3> DEFINE k == L + 2 + s
    <3>1. archive'[k] = Item("init", c, s, 0, 0) /\ last_head'[c][s] = k
      BY <2>1, <2>5
    <3> HIDE DEF k
    <3>2. /\ archive'[k].kind = "init" /\ archive'[k].chunk = c
          /\ archive'[k].stream = s /\ archive'[k].next = 0 /\ archive'[k].sealed = 0
      BY <3>1 DEF Item
    <3> QED
      BY <3>1, <3>2 DEF k
  <2>8. archive'[L + 1].kind = "rcd" /\ archive'[L + 1].sealed = 0
    BY <2>1 DEF Item
  <2>9. HeadInv'
    <3> SUFFICES ASSUME NEW d \in 1..MaxChunks, NEW s \in Streams, chunks'[d] # 0
                 PROVE  /\ last_head'[d][s] \in DOMAIN archive'
                        /\ archive'[last_head'[d][s]].chunk = d /\ archive'[last_head'[d][s]].stream = s
                        /\ archive'[last_head'[d][s]].kind # "rcd"
      BY <1>5 DEF HeadInv
    <3>1. CASE d = c
      BY <2>2, <2>5, <2>7, <3>1
    <3>2. CASE d # c
      <4>1. /\ last_head[d][s] \in DOMAIN archive
            /\ archive[last_head[d][s]].chunk = d /\ archive[last_head[d][s]].stream = s
            /\ archive[last_head[d][s]].kind # "rcd"
        BY <1>5, <1>7, <3>2 DEF LinkInv, HeadInv
      <4>2. last_head'[d][s] = last_head[d][s] /\ last_head[d][s] \in DOMAIN archive'
        BY <1>2, <2>1, <2>5, <3>2, <4>1
      <4> QED
        BY <2>1, <4>1, <4>2
    <3> QED BY <3>1, <3>2
  <2>10. ChainInv'
    <3> SUFFICES ASSUME NEW k \in DOMAIN archive', archive'[k].kind # "rcd"
                 PROVE  /\ k <= HeadOf(k)'
                        /\ k = HeadOf(k)' => archive'[k].next = 0
                        /\ k < HeadOf(k)' =>
                             /\ archive'[k].next \in (k + 1)..HeadOf(k)'
                             /\ archive'[k].next \in DOMAIN archive' =>
                                  /\ archive'[archive'[k].next].kind = "block"
                                  /\ SameStream(archive'[archive'[k].next], archive'[k])
                             /\ \A j \in DOMAIN archive' : k < j /\ j < archive'[k].next =>
                                  ~(archive'[j].kind = "block" /\ SameStream(archive'[j], archive'[k]))
                             /\ HeadOf(k)' \in DOMAIN archive' => archive'[HeadOf(k)'].kind = "block"
      BY DEF ChainInv, HeadOf
    <3>1. CASE k \notin DOMAIN archive
      <4>1. PICK s \in Streams : k = L + 2 + s
        BY <2>3, <2>8, <3>1
      <4>2. k \in Nat /\ HeadOf(k)' = k /\ archive'[k].next = 0
        BY <1>2, <2>1, <2>7, <4>1 DEF HeadOf
      <4> QED
        BY <4>2
    <3>2. CASE k \in DOMAIN archive
      <4>1. archive'[k] = archive[k] /\ HeadOf(k)' = HeadOf(k) /\ HeadOf(k) \in 1..L /\ k \in Nat
        BY <1>2, <2>1, <2>6, <3>2
      <4>2. /\ k <= HeadOf(k)
            /\ k = HeadOf(k) => archive[k].next = 0
            /\ k < HeadOf(k) =>
                 /\ archive[k].next \in (k + 1)..HeadOf(k)
                 /\ archive[k].next \in DOMAIN archive =>
                      archive[archive[k].next].kind = "block" /\ SameStream(archive[archive[k].next], archive[k])
                 /\ \A j \in DOMAIN archive : k < j /\ j < archive[k].next =>
                      ~(archive[j].kind = "block" /\ SameStream(archive[j], archive[k]))
                 /\ HeadOf(k) \in DOMAIN archive => archive[HeadOf(k)].kind = "block"
        BY <3>2, <4>1 DEF LinkInv, ChainInv
      <4>3. ASSUME k < HeadOf(k)
            PROVE  /\ archive[k].next \in DOMAIN archive
                   /\ \A j \in DOMAIN archive' : j < archive[k].next => j \in DOMAIN archive
        <5>1. archive[k].next \in 1..L
          BY <1>2, <4>1, <4>2, <4>3
        <5> QED
          BY <1>2, <2>1, <5>1
      <4>4. CASE k = HeadOf(k)
        BY <4>1, <4>2, <4>4
      <4>5. CASE k < HeadOf(k)
        <5>1. /\ archive'[archive[k].next] = archive[archive[k].next]
              /\ archive'[HeadOf(k)] = archive[HeadOf(k)] /\ HeadOf(k) \in DOMAIN archive
          BY <2>1, <2>6, <3>2, <4>3, <4>5
        <5>2. \A j \in DOMAIN archive' : k < j /\ j < archive[k].next =>
                ~(archive'[j].kind = "block" /\ SameStream(archive'[j], archive[k]))
          BY <2>1, <4>2, <4>3, <4>5
        <5> QED
          BY <4>1, <4>2, <4>3, <4>5, <5>1, <5>2
      <4> QED
        BY <4>1, <4>2, <4>4, <4>5
    <3> QED BY <3>1, <3>2
  <2>11. SealInv'
    <3> SUFFICES ASSUME NEW k \in DOMAIN archive'
                 PROVE  archive'[k].sealed =
                          IF Encrypt /\ archive'[k].kind # "rcd"
                               /\ (k < HeadOf(k)' \/ Closed(archive[k].chunk)') THEN 1 ELSE 0
      BY DEF SealInv, HeadOf, Closed
    <3>1. CASE k \in DOMAIN archive
      <4>1. archive'[k] = archive[k] /\ HeadOf(k)' = HeadOf(k)
        BY <2>1, <2>6, <3>1
      <4>2. Closed(archive[k].chunk)' <=> Closed(archive[k].chunk)
        BY <1>4, <4>1 DEF Closed
      <4> QED
        BY <3>1, <4>1, <4>2 DEF LinkInv, SealInv
    <3>2. CASE k = L + 1
      BY <2>8, <3>2
    <3>3. ASSUME NEW s \in Streams, k = L + 2 + s
          PROVE  archive'[k].sealed = 0 /\ ~(k < HeadOf(k)') /\ (Encrypt => ~Closed(archive[k].chunk)')
      <4>1. k \in Nat /\ HeadOf(k)' = k /\ archive'[k].sealed = 0 /\ archive'[k].chunk = c
        BY <1>2, <2>1, <2>7, <3>3 DEF HeadOf
      <4> QED
        BY <1>1, <1>4, <4>1 DEF Closed
    <3> QED
      BY <2>3, <3>1, <3>2, <3>3
  <2>12. LastInv'
    <3> SUFFICES ASSUME Encrypt, NEW d \in 1..MaxChunks, NEW s \in Streams, chunks'[d] # 0,
                        last_head'[d][s] \in DOMAIN archive', archive'[last_head'[d][s]].kind = "block"
                 PROVE  last_headofs'[d][s] = last_head'[d][s]
      BY DEF LastInv
    <3>1. d # c
      BY <2>5, <2>7
    <3>2. last_head'[d][s] = last_head[d][s] /\ last_head[d][s] \in DOMAIN archive /\ chunks[d] # 0
      BY <1>5, <1>7, <2>5, <3>1 DEF LinkInv, HeadInv
    <3> QED
      BY <1>4, <2>1, <3>2 DEF LinkInv, LastInv
  <2> QED
    BY <1>6, <2>9, <2>10, <2>11, <2>12 DEF LinkInv
<1> QED
  BY <1>8, <1>9

\* Nested update of last_head or last_headofs.
LEMMA PairUpdate ==
  ASSUME NEW f \in [1..MaxChunks -> [Streams -> Nat]], NEW c \in 1..MaxChunks, NEW s \in Streams,
         NEW v \in Nat, NEW g, g = [f EXCEPT ![c][s] = v]
  PROVE  /\ g[c][s] = v
         /\ \A d \in 1..MaxChunks : \A t \in Streams : ~(d = c /\ t = s) => g[d][t] = f[d][t]
OBVIOUS

\* Patching the link: the header that was last gets a successor, which is where
\* the thread will append its block.
LEMMA LinkLink ==
  ASSUME IInv, OrderInv, FlowInv, LinkInv, Sound', NEW i \in Slot, WriteLink(i), Kept
  PROVE  LinkInv'
<1> DEFINE c == Block(i).chunk
           s == Block(i).stream
           prev == last_head[c][s]
           L == Len(archive)
<1>0. pc[i] = "link" /\ Active(i) /\ Writing(i)
  BY DEF WriteLink, Active, Writing
<1>1. /\ TypeOK /\ c \in 1..MaxChunks /\ s \in Streams /\ (Encrypt => c = chunk /\ mpc \notin ClosedPC)
  BY <1>0, WorkerFacts, WriterChunk
<1>2. /\ archive \in Seq(ItemType) /\ L \in Nat /\ DOMAIN archive = 1..L
      /\ pc \in [Slot -> ThreadPC]
      /\ last_head \in [1..MaxChunks -> [Streams -> Nat]]
      /\ \A k \in DOMAIN archive : /\ archive[k].chunk \in 1..MaxChunks /\ archive[k].stream \in Streams
                                   /\ k \in Nat /\ HeadOf(k) \in Nat /\ archive[k].next \in Nat
  BY LinkTypes
<1>3. /\ archive' = Linked(archive, prev, L + 1) /\ L + 1 \in Nat
      /\ Goto(i, "body", FALSE)
      /\ last_head' = [last_head EXCEPT ![c][s] = L + 1]
      /\ UNCHANGED <<chunks, last_headofs, flushed>>
  <2>1. ~Goto(i, "out", TRUE)
    BY <1>2, <1>1 DEF Goto, Sound, TypeOK, FlagsOK
  <2>2. L + 1 \in Nat
    BY <1>2
  <2>3. /\ archive' = Linked(archive, prev, L + 1) /\ Goto(i, "body", FALSE)
        /\ last_head' = [last_head EXCEPT ![c][s] = L + 1]
        /\ UNCHANGED <<chunks, last_headofs, flushed>>
    BY <2>1, Zenon DEF WriteLink, Linked
  <2> QED
    BY <2>2, <2>3
<1>4. /\ pc' = [pc EXCEPT ![i] = "body"] /\ UNCHANGED <<submitted, job, released, chunk, mpc>>
  BY <1>3 DEF Goto, ringVars, mainVars
<1>5. \A d \in 1..MaxChunks : \A t \in Streams :
        ~BodyOf(d, t) /\ (BodyOf(d, t)' <=> d = c /\ t = s)
  <2>1. \A d \in 1..MaxChunks : \A t \in Streams : ~BodyOf(d, t)
    BY <1>0, NoBody
  <2>2. \A j \in Slot : (pc'[j] = "body" <=> pc[j] = "body" \/ j = i) /\ Block(j)' = Block(j)
    BY <1>2, <1>4 DEF Block
  <2> QED
    BY <2>1, <2>2 DEF BodyOf
<1>6. AllWritten'
  BY <1>4, AllWrittenKept DEF LinkInv
<1>7. chunks[c] # 0
  BY <1>0 DEF OrderInv, HeadersFirst
<1> HIDE DEF c, s
<1>8. /\ prev \in DOMAIN archive /\ archive[prev].chunk = c /\ archive[prev].stream = s
      /\ archive[prev].kind # "rcd"
  BY <1>1, <1>5, <1>7 DEF LinkInv, HeadInv
<1>9. /\ last_head'[c][s] = L + 1
      /\ \A d \in 1..MaxChunks : \A t \in Streams : ~(d = c /\ t = s) => last_head'[d][t] = last_head[d][t]
  BY <1>1, <1>2, <1>3, PairUpdate
<1> HIDE DEF prev
<1>10. /\ Len(archive') = L /\ DOMAIN archive' = DOMAIN archive
       /\ \A k \in DOMAIN archive :
            /\ archive'[k].kind = archive[k].kind /\ archive'[k].chunk = archive[k].chunk
            /\ archive'[k].stream = archive[k].stream
            /\ archive'[k].next = IF k = prev THEN L + 1 ELSE archive[k].next
            /\ archive'[k].sealed = IF Encrypt /\ k = prev THEN archive[k].sealed + 1 ELSE archive[k].sealed
  BY <1>2, <1>3, LinkedFields
<1> DEFINE Mine(k) == archive[k].chunk = c /\ archive[k].stream = s
<1>11. \A k \in DOMAIN archive :
         /\ Mine(k) => HeadOf(k) = prev /\ HeadOf(k)' = L + 1
         /\ ~Mine(k) => HeadOf(k)' = HeadOf(k) /\ k # prev
  BY <1>2, <1>8, <1>9, <1>10 DEF HeadOf, prev
<1>12. HeadInv'
  <2> SUFFICES ASSUME NEW d \in 1..MaxChunks, NEW t \in Streams
               PROVE  /\ chunks'[d] # 0 =>
                           \/ /\ last_head'[d][t] \in DOMAIN archive'
                              /\ archive'[last_head'[d][t]].chunk = d /\ archive'[last_head'[d][t]].stream = t
                              /\ archive'[last_head'[d][t]].kind # "rcd"
                           \/ last_head'[d][t] = Len(archive') + 1 /\ BodyOf(d, t)'
                      /\ BodyOf(d, t)' => last_head'[d][t] = Len(archive') + 1
    BY DEF HeadInv
  <2>1. CASE d = c /\ t = s
    BY <1>5, <1>9, <1>10, <2>1
  <2>2. CASE ~(d = c /\ t = s)
    <3>1. ~BodyOf(d, t)' /\ ~BodyOf(d, t) /\ last_head'[d][t] = last_head[d][t]
      BY <1>5, <1>9, <2>2
    <3>2. chunks[d] # 0 => /\ last_head[d][t] \in DOMAIN archive
                           /\ archive[last_head[d][t]].chunk = d /\ archive[last_head[d][t]].stream = t
                           /\ archive[last_head[d][t]].kind # "rcd"
      BY <3>1 DEF LinkInv, HeadInv
    <3> QED
      BY <1>3, <1>10, <3>1, <3>2
  <2> QED BY <2>1, <2>2
<1>13. ChainInv'
  <2> SUFFICES ASSUME NEW k \in DOMAIN archive, archive[k].kind # "rcd"
               PROVE  /\ k <= HeadOf(k)'
                      /\ k = HeadOf(k)' => archive'[k].next = 0
                      /\ k < HeadOf(k)' =>
                           /\ archive'[k].next \in (k + 1)..HeadOf(k)'
                           /\ archive'[k].next \in DOMAIN archive =>
                                /\ archive[archive'[k].next].kind = "block"
                                /\ SameStream(archive[archive'[k].next], archive[k])
                           /\ \A j \in DOMAIN archive : k < j /\ j < archive'[k].next =>
                                ~(archive[j].kind = "block" /\ SameStream(archive[j], archive[k]))
                           /\ HeadOf(k)' \in DOMAIN archive => archive[HeadOf(k)'].kind = "block"
    BY <1>10 DEF ChainInv, HeadOf, SameStream
  <2>1. /\ k <= HeadOf(k)
        /\ k = HeadOf(k) => archive[k].next = 0
        /\ k < HeadOf(k) =>
             /\ archive[k].next \in (k + 1)..HeadOf(k)
             /\ archive[k].next \in DOMAIN archive =>
                  archive[archive[k].next].kind = "block" /\ SameStream(archive[archive[k].next], archive[k])
             /\ \A j \in DOMAIN archive : k < j /\ j < archive[k].next =>
                  ~(archive[j].kind = "block" /\ SameStream(archive[j], archive[k]))
             /\ HeadOf(k) \in DOMAIN archive => archive[HeadOf(k)].kind = "block"
    BY DEF LinkInv, ChainInv
  <2>2. CASE ~Mine(k)
    BY <1>10, <1>11, <2>1, <2>2
  <2>3. CASE Mine(k)
    <3>1. HeadOf(k) = prev /\ HeadOf(k)' = L + 1 /\ prev \in 1..L /\ k \in 1..L /\ k < L + 1
          /\ L + 1 \notin DOMAIN archive
      BY <1>2, <1>8, <1>11, <2>3
    <3>2. CASE k = prev
      <4>1. archive'[k].next = L + 1
        BY <1>10, <3>2
      <4>2. ASSUME NEW j \in DOMAIN archive, k < j, archive[j].kind = "block", SameStream(archive[j], archive[k])
            PROVE  FALSE
        <5>1. Mine(j)
          BY <2>3, <4>2 DEF SameStream
        <5>2. j <= HeadOf(j) /\ HeadOf(j) = prev /\ j \in Nat
          BY <1>2, <1>11, <4>2, <5>1 DEF LinkInv, ChainInv
        <5> QED
          BY <3>1, <3>2, <4>2, <5>2
      <4> QED
        BY <3>1, <4>1, <4>2
    <3>3. CASE k # prev
      <4>1. k < HeadOf(k) /\ archive'[k].next = archive[k].next
        BY <1>10, <2>1, <3>1, <3>3
      <4>2. archive[k].next \in (k + 1)..(L + 1)
        BY <2>1, <3>1, <4>1
      <4> QED
        BY <2>1, <3>1, <4>1, <4>2
    <3> QED BY <3>2, <3>3
  <2> QED BY <2>2, <2>3
<1>14. SealInv'
  <2> SUFFICES ASSUME NEW k \in DOMAIN archive
               PROVE  archive'[k].sealed =
                        IF Encrypt /\ archive[k].kind # "rcd"
                             /\ (k < HeadOf(k)' \/ Closed(archive[k].chunk)) THEN 1 ELSE 0
    BY <1>4, <1>10 DEF SealInv, HeadOf, Closed
  <2>1. archive[k].sealed =
          IF Encrypt /\ archive[k].kind # "rcd" /\ (k < HeadOf(k) \/ Closed(archive[k].chunk)) THEN 1 ELSE 0
    BY DEF LinkInv, SealInv
  <2>2. CASE ~Encrypt \/ ~Mine(k)
    BY <1>10, <1>11, <2>1, <2>2
  <2>3. CASE Encrypt /\ Mine(k)
    <3>1. /\ HeadOf(k) = prev /\ HeadOf(k)' = L + 1 /\ prev \in 1..L /\ k \in 1..L /\ k < L + 1
          /\ ~Closed(archive[k].chunk)
      BY <1>1, <1>2, <1>8, <1>11, <2>3 DEF Closed
    <3>2. CASE k = prev
      BY <1>8, <1>10, <2>1, <2>3, <3>1, <3>2
    <3>3. CASE k # prev
      <4>1. archive'[k].sealed = archive[k].sealed
        BY <1>10, <3>3
      <4>2. archive[k].kind # "rcd" => k < prev
        BY <3>1, <3>3 DEF LinkInv, ChainInv
      <4> QED
        BY <2>1, <2>3, <3>1, <4>1, <4>2
    <3> QED BY <3>2, <3>3
  <2> QED BY <2>2, <2>3
<1>15. LastInv'
  <2>1. L + 1 \notin DOMAIN archive
    BY <1>2
  <2> QED
    BY <1>3, <1>9, <1>10, <2>1 DEF LinkInv, LastInv
<1> QED
  BY <1>6, <1>12, <1>13, <1>14, <1>15 DEF LinkInv

\* The block is appended where its predecessor's link says.
LEMMA BodyLink ==
  ASSUME IInv, OrderInv, FlowInv, LinkInv, Sound', NEW i \in Slot, WriteBody(i), Kept
  PROVE  LinkInv'
<1> DEFINE c == Block(i).chunk
           s == Block(i).stream
           L == Len(archive)
           it == Item("block", c, s, job[i], 0)
<1>0. pc[i] = "body" /\ Active(i) /\ Writing(i)
  BY DEF WriteBody, Active, Writing
<1>1. /\ TypeOK /\ c \in 1..MaxChunks /\ s \in Streams /\ (Encrypt => c = chunk /\ mpc \notin ClosedPC)
      /\ SlotInv /\ job[i] \in (released + 1)..Len(submitted)
  BY <1>0, WorkerFacts, WriterChunk
<1>2. /\ archive \in Seq(ItemType) /\ L \in Nat /\ DOMAIN archive = 1..L
      /\ pc \in [Slot -> ThreadPC]
      /\ last_head \in [1..MaxChunks -> [Streams -> Nat]]
      /\ last_headofs \in [1..MaxChunks -> [Streams -> Nat]]
      /\ \A k \in DOMAIN archive : /\ archive[k].chunk \in 1..MaxChunks /\ archive[k].stream \in Streams
                                   /\ k \in Nat /\ HeadOf(k) \in Nat /\ archive[k].next \in Nat
      /\ released \in Nat /\ Len(submitted) \in Nat
  BY LinkTypes
<1>3. /\ archive' = Append(archive, it)
      /\ Goto(i, "out", FALSE)
      /\ last_headofs' = IF Encrypt THEN [last_headofs EXCEPT ![c][s] = L + 1] ELSE last_headofs
      /\ UNCHANGED <<chunks, last_head, flushed>>
  <2>1. ~Goto(i, "out", TRUE)
    BY <1>2, <1>1 DEF Goto, Sound, TypeOK, FlagsOK
  <2> QED
    BY <2>1, Zenon DEF WriteBody
<1>4. /\ pc' = [pc EXCEPT ![i] = "out"] /\ UNCHANGED <<submitted, job, released, chunk, mpc>>
  BY <1>3 DEF Goto, ringVars, mainVars
<1>5. \A d \in 1..MaxChunks : \A t \in Streams :
        (BodyOf(d, t) <=> d = c /\ t = s) /\ ~BodyOf(d, t)'
  <2>1. \A j \in Slot : pc[j] = "body" => j = i
    BY <1>0, <1>1 DEF SlotInv, Writing
  <2>2. \A j \in Slot : pc'[j] # "body"
    BY <1>2, <1>4, <2>1
  <2> QED
    BY <1>0, <2>1, <2>2 DEF BodyOf
<1>6. /\ it.kind = "block" /\ it.chunk = c /\ it.stream = s /\ it.n = job[i] /\ it.next = 0 /\ it.sealed = 0
  BY DEF Item
<1>7. SameStream(it, submitted[job[i]])
  BY <1>6 DEF SameStream, Block
<1>8. chunks[c] # 0
  BY <1>0 DEF OrderInv, HeadersFirst
<1> HIDE DEF c, s, it
<1>9. /\ Len(archive') = L + 1 /\ DOMAIN archive' = 1..(L + 1) /\ archive'[L + 1] = it
      /\ \A k \in DOMAIN archive : archive'[k] = archive[k]
  BY <1>2, <1>3
<1>10. last_head[c][s] = L + 1 /\ L + 1 \notin DOMAIN archive /\ L + 1 \in DOMAIN archive' /\ L + 1 \in Nat
  BY <1>1, <1>2, <1>5, <1>9 DEF LinkInv, HeadInv
<1>11. \A k \in DOMAIN archive' : k \in DOMAIN archive \/ k = L + 1
  BY <1>2, <1>9
<1>12. \A k \in DOMAIN archive : HeadOf(k)' = HeadOf(k) /\ k \in DOMAIN archive'
  BY <1>2, <1>3, <1>9 DEF HeadOf
<1>13. \A k \in DOMAIN archive' : k = L + 1 => HeadOf(k)' = k
  BY <1>3, <1>6, <1>9, <1>10 DEF HeadOf
<1>14. AllWritten'
  <2>1. \A n \in 1..released : n \in 1..Len(submitted)
    BY <1>1, <1>2
  <2>2. \A n \in 1..released : Written(n)'
    BY <1>4, <2>1, WrittenKept DEF LinkInv, AllWritten
  <2>3. Written(job[i])'
    BY <1>4, <1>6, <1>7, <1>9, <1>10 DEF Written
  <2>4. ASSUME NEW j \in Slot, pc'[j] = "out", j # i PROVE FALSE
    BY <1>0, <1>1, <1>2, <1>4, <2>4 DEF SlotInv, Writing
  <2> QED
    BY <1>4, <2>2, <2>3, <2>4 DEF AllWritten, Written
<1>15. HeadInv'
  <2> SUFFICES ASSUME NEW d \in 1..MaxChunks, NEW t \in Streams, chunks[d] # 0
               PROVE  /\ last_head[d][t] \in DOMAIN archive'
                      /\ archive'[last_head[d][t]].chunk = d /\ archive'[last_head[d][t]].stream = t
                      /\ archive'[last_head[d][t]].kind # "rcd"
    BY <1>3, <1>5 DEF HeadInv
  <2>1. CASE d = c /\ t = s
    BY <1>6, <1>9, <1>10, <2>1
  <2>2. CASE ~(d = c /\ t = s)
    <3>1. /\ last_head[d][t] \in DOMAIN archive
          /\ archive[last_head[d][t]].chunk = d /\ archive[last_head[d][t]].stream = t
          /\ archive[last_head[d][t]].kind # "rcd"
      BY <1>5, <2>2 DEF LinkInv, HeadInv
    <3> QED
      BY <1>9, <1>12, <3>1
  <2> QED BY <2>1, <2>2
<1>16. ChainInv'
  <2> SUFFICES ASSUME NEW k \in DOMAIN archive', archive'[k].kind # "rcd"
               PROVE  /\ k <= HeadOf(k)'
                      /\ k = HeadOf(k)' => archive'[k].next = 0
                      /\ k < HeadOf(k)' =>
                           /\ archive'[k].next \in (k + 1)..HeadOf(k)'
                           /\ archive'[k].next \in DOMAIN archive' =>
                                /\ archive'[archive'[k].next].kind = "block"
                                /\ SameStream(archive'[archive'[k].next], archive'[k])
                           /\ \A j \in DOMAIN archive' : k < j /\ j < archive'[k].next =>
                                ~(archive'[j].kind = "block" /\ SameStream(archive'[j], archive'[k]))
                           /\ HeadOf(k)' \in DOMAIN archive' => archive'[HeadOf(k)'].kind = "block"
    BY DEF ChainInv, HeadOf
  <2>1. CASE k = L + 1
    BY <1>6, <1>9, <1>10, <1>13, <2>1
  <2>2. CASE k \in DOMAIN archive
    <3>0. archive'[k] = archive[k] /\ HeadOf(k)' = HeadOf(k) /\ HeadOf(k) \in Nat /\ k \in 1..L
      BY <1>2, <1>9, <1>12, <2>2
    <3>1. /\ k <= HeadOf(k)
          /\ k = HeadOf(k) => archive[k].next = 0
          /\ k < HeadOf(k) =>
               /\ archive[k].next \in (k + 1)..HeadOf(k)
               /\ archive[k].next \in DOMAIN archive =>
                    archive[archive[k].next].kind = "block" /\ SameStream(archive[archive[k].next], archive[k])
               /\ \A j \in DOMAIN archive : k < j /\ j < archive[k].next =>
                    ~(archive[j].kind = "block" /\ SameStream(archive[j], archive[k]))
               /\ HeadOf(k) \in DOMAIN archive => archive[HeadOf(k)].kind = "block"
      BY <2>2, <3>0 DEF LinkInv, ChainInv
    <3>2. HeadOf(k) = L + 1 => archive[k].chunk = c /\ archive[k].stream = s
      <4>1. chunks[archive[k].chunk] # 0
        BY <2>2 DEF OrderInv, HeadersFirst
      <4> QED
        BY <1>2, <1>5, <1>10, <2>2, <4>1 DEF LinkInv, HeadInv, HeadOf
    <3>3. HeadOf(k) \in 1..(L + 1)
      <4>1. chunks[archive[k].chunk] # 0
        BY <2>2 DEF OrderInv, HeadersFirst
      <4>2. HeadOf(k) \in DOMAIN archive \/ HeadOf(k) = L + 1
        BY <1>2, <2>2, <4>1 DEF LinkInv, HeadInv, HeadOf
      <4> QED
        BY <1>2, <4>2
    <3>4. CASE k = HeadOf(k)
      BY <3>0, <3>1, <3>4
    <3>5. CASE k < HeadOf(k)
      <4>1. archive[k].next \in (k + 1)..HeadOf(k) /\ archive[k].next \in 1..(L + 1)
        BY <3>0, <3>1, <3>3, <3>5
      <4>2. archive'[archive[k].next].kind = "block" /\ SameStream(archive'[archive[k].next], archive[k])
        <5>1. CASE archive[k].next \in DOMAIN archive
          BY <1>9, <3>1, <3>5, <5>1
        <5>2. CASE archive[k].next \notin DOMAIN archive
          <6>1. archive[k].next = L + 1 /\ HeadOf(k) = L + 1
            BY <1>2, <3>3, <4>1, <5>2
          <6> QED
            BY <1>6, <1>9, <3>2, <6>1 DEF SameStream
        <5> QED BY <5>1, <5>2
      <4>3. ASSUME NEW j \in DOMAIN archive', k < j, j < archive[k].next PROVE j \in DOMAIN archive
        BY <1>2, <1>9, <4>1, <4>3
      <4>4. \A j \in DOMAIN archive' : k < j /\ j < archive[k].next =>
              ~(archive'[j].kind = "block" /\ SameStream(archive'[j], archive[k]))
        BY <1>9, <3>1, <3>5, <4>3
      <4>5. archive'[HeadOf(k)].kind = "block"
        <5>1. CASE HeadOf(k) \in DOMAIN archive
          BY <1>9, <3>1, <3>5, <5>1
        <5>2. CASE HeadOf(k) \notin DOMAIN archive
          <6>1. HeadOf(k) = L + 1
            BY <1>2, <3>3, <5>2
          <6> QED
            BY <1>6, <1>9, <6>1
        <5> QED BY <5>1, <5>2
      <4> QED
        BY <3>0, <3>5, <4>1, <4>2, <4>4, <4>5
    <3> QED
      BY <3>0, <3>1, <3>4, <3>5
  <2> QED BY <1>11, <2>1, <2>2
<1>17. SealInv'
  <2> SUFFICES ASSUME NEW k \in DOMAIN archive'
               PROVE  archive'[k].sealed =
                        IF Encrypt /\ archive'[k].kind # "rcd"
                             /\ (k < HeadOf(k)' \/ Closed(archive'[k].chunk)) THEN 1 ELSE 0
    BY <1>4 DEF SealInv, HeadOf, Closed
  <2>1. CASE k \in DOMAIN archive
    <3>1. archive'[k] = archive[k] /\ HeadOf(k)' = HeadOf(k)
      BY <1>9, <1>12, <2>1
    <3> QED
      BY <2>1, <3>1 DEF LinkInv, SealInv
  <2>2. CASE k = L + 1
    <3>1. ~(k < HeadOf(k)') /\ archive'[k].sealed = 0 /\ archive'[k].chunk = c
      BY <1>6, <1>9, <1>10, <1>13, <2>2
    <3> QED
      BY <1>1, <3>1 DEF Closed
  <2> QED BY <1>11, <2>1, <2>2
<1>18. LastInv'
  <2> SUFFICES ASSUME Encrypt, NEW d \in 1..MaxChunks, NEW t \in Streams, chunks[d] # 0,
                      last_head[d][t] \in DOMAIN archive', archive'[last_head[d][t]].kind = "block"
               PROVE  last_headofs'[d][t] = last_head[d][t]
    BY <1>3 DEF LastInv
  <2>0. /\ last_headofs'[c][s] = L + 1
        /\ ~(d = c /\ t = s) => last_headofs'[d][t] = last_headofs[d][t]
    <3>1. last_headofs' = [last_headofs EXCEPT ![c][s] = L + 1]
      BY <1>3
    <3> QED
      BY <1>1, <1>2, <1>10, <3>1, PairUpdate
  <2>1. CASE d = c /\ t = s
    BY <1>10, <2>0, <2>1
  <2>2. CASE ~(d = c /\ t = s)
    <3>1. last_head[d][t] \in DOMAIN archive
      BY <1>5, <2>2 DEF LinkInv, HeadInv
    <3> QED
      BY <1>9, <2>0, <2>2, <3>1 DEF LinkInv, LastInv
  <2> QED BY <2>1, <2>2
<1> QED
  BY <1>14, <1>15, <1>16, <1>17, <1>18 DEF LinkInv

\* When the chunk is closed both streams have a last block, and last_headofs
\* names it.
LEMMA LastBlocks ==
  ASSUME IInv, OrderInv, FlowInv, LinkInv, mpc = "seal", NEW s \in Streams
  PROVE  /\ Encrypt /\ chunk \in 1..MaxChunks
         /\ last_headofs[chunk][s] = last_head[chunk][s]
         /\ last_head[chunk][s] \in DOMAIN archive
         /\ archive[last_head[chunk][s]].chunk = chunk
         /\ archive[last_head[chunk][s]].stream = s
         /\ archive[last_head[chunk][s]].kind = "block"
<1>1. /\ exit = "running" /\ RingInv /\ WaitInv /\ TypeOK /\ TailInv
  BY DEF IInv, RingInv, FlowInv
<1>2. Backlog = 0 /\ (\A i \in Slot : ~Active(i)) /\ chunk \in 1..MaxChunks
  BY <1>1, BoundsAssumption DEF WaitInv, RingInv, TypeOK, MainOK
<1>3. Encrypt /\ \E n \in 1..Len(submitted) : submitted[n].chunk = chunk /\ submitted[n].stream = s
  BY <1>1 DEF TailInv, Streams
<1>4. PICK n \in 1..Len(submitted) : submitted[n].chunk = chunk /\ submitted[n].stream = s
  BY <1>3
<1>5. n \in 1..released
  BY <1>1, <1>2, <1>4 DEF Backlog, TypeOK, PoolOK
<1>6. PICK k \in DOMAIN archive : archive[k].kind = "block" /\ archive[k].n = n
                                  /\ SameStream(archive[k], submitted[n])
  BY <1>5 DEF LinkInv, AllWritten, Written
<1>7. archive[k].chunk = chunk /\ archive[k].stream = s /\ chunks[chunk] # 0 /\ HeadOf(k) = last_head[chunk][s]
  BY <1>4, <1>6 DEF SameStream, OrderInv, HeadersFirst, HeadOf
<1>8. ~BodyOf(chunk, s)
  BY <1>2 DEF BodyOf, Active
<1>9. /\ last_head[chunk][s] \in DOMAIN archive
      /\ archive[last_head[chunk][s]].chunk = chunk
      /\ archive[last_head[chunk][s]].stream = s
  BY <1>2, <1>7, <1>8 DEF LinkInv, HeadInv
<1>10. archive[last_head[chunk][s]].kind = "block"
  <2>1. k \in Nat /\ HeadOf(k) \in Nat
    BY <1>6, LinkTypes
  <2>2. k <= HeadOf(k) /\ (k < HeadOf(k) => archive[HeadOf(k)].kind = "block")
    BY <1>6, <1>7, <1>9 DEF LinkInv, ChainInv
  <2> QED
    BY <1>6, <1>7, <2>1, <2>2
<1> QED
  BY <1>2, <1>3, <1>7, <1>9, <1>10 DEF LinkInv, LastInv

\* The last header of each stream is encrypted, once, when the chunk is complete.
LEMMA SealLink ==
  ASSUME IInv, OrderInv, FlowInv, LinkInv, SealLastHeads, Kept
  PROVE  LinkInv'
<1> DEFINE S == {last_headofs[chunk][s] : s \in Streams}
<1>0. /\ mpc = "seal" /\ archive' = RewriteEncrypted(archive, S)
      /\ UNCHANGED <<pc, job, submitted, released, chunk, chunks, last_head, last_headofs>>
      /\ mpc' \in ClosedPC
  BY DEF SealLastHeads, ringVars, slotVars, AfterChunk, ClosedPC
<1>1. /\ Encrypt /\ chunk \in 1..MaxChunks
      /\ \A s \in Streams :
           /\ last_headofs[chunk][s] = last_head[chunk][s]
           /\ last_head[chunk][s] \in DOMAIN archive
           /\ archive[last_head[chunk][s]].chunk = chunk
           /\ archive[last_head[chunk][s]].stream = s
           /\ archive[last_head[chunk][s]].kind = "block"
  <2>1. 0 \in Streams
    BY DEF Streams
  <2> QED
    BY <1>0, <2>1, LastBlocks
<1>2. /\ archive \in Seq(ItemType)
      /\ \A k \in DOMAIN archive : /\ archive[k].chunk \in 1..MaxChunks /\ archive[k].stream \in Streams
                                   /\ k \in Nat /\ HeadOf(k) \in Nat
  BY LinkTypes
<1>3. \A k \in DOMAIN archive :
        k \in S <=> archive[k].chunk = chunk /\ archive[k].kind # "rcd" /\ k = HeadOf(k)
  <2> TAKE k \in DOMAIN archive
  <2>1. ASSUME k \in S PROVE archive[k].chunk = chunk /\ archive[k].kind # "rcd" /\ k = HeadOf(k)
    BY <1>1, <2>1 DEF HeadOf
  <2>2. ASSUME archive[k].chunk = chunk, k = HeadOf(k) PROVE k \in S
    <3>1. archive[k].stream \in Streams /\ k = last_head[chunk][archive[k].stream]
      BY <1>2, <2>2 DEF HeadOf
    <3> QED
      BY <1>1, <3>1
  <2> QED
    BY <2>1, <2>2
<1> HIDE DEF S
<1>4. /\ DOMAIN archive' = DOMAIN archive /\ Len(archive') = Len(archive)
      /\ \A k \in DOMAIN archive :
           /\ archive'[k].kind = archive[k].kind /\ archive'[k].chunk = archive[k].chunk
           /\ archive'[k].stream = archive[k].stream /\ archive'[k].next = archive[k].next
           /\ archive'[k].sealed = IF k \in S THEN archive[k].sealed + 1 ELSE archive[k].sealed
  BY <1>0, <1>2, RewriteEncryptedFacts, RewriteEncryptedFields
<1>5. \A k \in DOMAIN archive : HeadOf(k)' = HeadOf(k)
  BY <1>0, <1>4 DEF HeadOf
<1>6. \A c, s : BodyOf(c, s)' <=> BodyOf(c, s)
  BY <1>0 DEF BodyOf, Block
<1>7. HeadInv'
  BY <1>0, <1>4, <1>6 DEF LinkInv, HeadInv
<1>8. ChainInv'
  BY <1>4, <1>5 DEF LinkInv, ChainInv, SameStream
<1>9. LastInv'
  BY <1>0, <1>4 DEF LinkInv, LastInv
<1>10. SealInv'
  <2> SUFFICES ASSUME NEW k \in DOMAIN archive
               PROVE  archive'[k].sealed = IF archive[k].kind # "rcd" THEN 1 ELSE 0
    BY <1>0, <1>1, <1>4 DEF SealInv, Closed
  <2>1. archive[k].sealed =
          IF archive[k].kind # "rcd" /\ (k < HeadOf(k) \/ archive[k].chunk # chunk) THEN 1 ELSE 0
    BY <1>0, <1>1 DEF LinkInv, SealInv, Closed, ClosedPC
  <2>2. archive[k].kind # "rcd" => k <= HeadOf(k)
    BY DEF LinkInv, ChainInv
  <2>3. CASE k \in S
    BY <1>2, <1>3, <1>4, <2>1, <2>3
  <2>4. CASE k \notin S
    <3>1. archive'[k].sealed = archive[k].sealed
      BY <1>4, <2>4
    <3>2. archive[k].kind # "rcd" => k < HeadOf(k) \/ archive[k].chunk # chunk
      BY <1>2, <1>3, <2>2, <2>4
    <3> QED
      BY <2>1, <3>1, <3>2
  <2> QED BY <2>3, <2>4
<1>11. AllWritten'
  <2>1. \A n : Written(n) => Written(n)'
    BY <1>0, WrittenAnyway
  <2> QED
    BY <1>0, <2>1 DEF LinkInv, AllWritten
<1> QED
  BY <1>7, <1>8, <1>9, <1>10, <1>11 DEF LinkInv

\* A thread moves and leaves the archive alone.
LEMMA QuietThreadLink ==
  ASSUME IInv, LinkInv, Kept, NEW i \in Slot, NEW to, pc' = [pc EXCEPT ![i] = to],
         pc[i] # "body", to \notin {"body", "out"},
         UNCHANGED <<archive, last_head, last_headofs, chunks, submitted, job, released, mpc, chunk>>
  PROVE  LinkInv'
<1>0. pc \in [Slot -> ThreadPC]
  BY LinkTypes
<1>1. AllWritten'
  BY AllWrittenKept DEF LinkInv
<1>2. \A c, s : BodyOf(c, s)' <=> BodyOf(c, s)
  <2>1. \A j \in Slot : (pc'[j] = "body" <=> pc[j] = "body") /\ Block(j)' = Block(j)
    BY <1>0 DEF Block
  <2> QED
    BY <2>1 DEF BodyOf
<1>3. Encrypt => \A k \in DOMAIN archive : Closed(archive[k].chunk)' <=> Closed(archive[k].chunk)
  BY DEF Closed
<1>4. \A c \in 1..MaxChunks : chunks'[c] # 0 <=> chunks[c] # 0
  OBVIOUS
<1> QED
  BY <1>1, <1>2, <1>3, <1>4, QuietLink

\* A turn is given up with the block written.
LEMMA ReleaseLink ==
  ASSUME IInv, FlowInv, LinkInv, Sound', NEW i \in Slot, ReleaseTurn(i), Kept
  PROVE  LinkInv'
<1> USE DEF fileVars, mainVars
<1>0. pc \in [Slot -> ThreadPC] /\ released \in Nat /\ Len(submitted) \in Nat
  BY LinkTypes
<1>1. Active(i) /\ pc[i] \in {"out", "wait_out"}
  BY DEF ReleaseTurn, Active
<1>2. /\ exit = "running" /\ TypeOK /\ RingInv /\ InFlight /\ SlotInv
      /\ job[i] \in (released + 1)..Len(submitted) /\ OutFault
  BY <1>1, WorkerFacts DEF FlowInv
<1>3. output_thread = i
  BY <1>1, <1>2 DEF ReleaseTurn, SlotInv, Writing
<1>4. /\ pc' = [pc EXCEPT ![i] = "post"] /\ released' = released + 1 /\ ~fatal_msg[i]
      /\ UNCHANGED <<archive, last_head, last_headofs, chunks, submitted, job, mpc, chunk>>
  BY <1>3 DEF ReleaseTurn, Sound
<1>5. pc[i] = "out"
  BY <1>1, <1>2, <1>4 DEF OutFault
<1>6. job[i] = released + 1
  <2>1. Backlog # 0
    BY <1>0, <1>2 DEF Backlog
  <2> QED
    BY <1>2, <1>3, <2>1, TurnHolder
<1>7. \A n : Written(n) => Written(n)'
  BY <1>4, WrittenAnyway
<1>8. AllWritten'
  <2>1. ASSUME NEW n \in 1..(released + 1) PROVE Written(n)
    <3>1. n \in 1..released \/ n = released + 1
      BY <1>0, <2>1
    <3> QED
      BY <1>5, <1>6, <3>1 DEF LinkInv, AllWritten
  <2>2. \A j \in Slot : pc'[j] = "out" => pc[j] = "out"
    BY <1>0, <1>4
  <2> QED
    BY <1>4, <1>7, <2>1, <2>2 DEF LinkInv, AllWritten
<1>9. \A c, s : BodyOf(c, s)' <=> BodyOf(c, s)
  <2>1. \A j \in Slot : (pc'[j] = "body" <=> pc[j] = "body") /\ Block(j)' = Block(j)
    BY <1>0, <1>4, <1>5 DEF Block
  <2> QED
    BY <2>1 DEF BodyOf
<1>10. Encrypt => \A k \in DOMAIN archive : Closed(archive[k].chunk)' <=> Closed(archive[k].chunk)
  BY <1>4 DEF Closed
<1>11. \A c \in 1..MaxChunks : chunks'[c] # 0 <=> chunks[c] # 0
  BY <1>4
<1> QED
  BY <1>4, <1>8, <1>9, <1>10, <1>11, QuietLink

\* A new buffer in the queue changes nothing that is written.
LEMMA ClearBufferLink ==
  ASSUME IInv, LinkInv, exit = "running", NEW s \in Streams, ClearBuffer(s), Kept,
         mpc \in {"write", "close0", "close1"}, mpc' \in {"write", "close1", AfterClose}
  PROVE  LinkInv'
<1> USE DEF fileVars
<1>0. /\ pc \in [Slot -> ThreadPC] /\ released \in Nat /\ Len(submitted) \in Nat
      /\ SlotInv /\ RingInv /\ TypeOK /\ job \in [Slot -> Nat] /\ submitted \in Seq(BlockType)
      /\ Backlog \in 0..threads /\ threads \in Nat
  <2>1. SlotInv /\ RingInv /\ TypeOK
    BY DEF IInv
  <2> QED
    BY <2>1, PoolFacts DEF TypeOK, PoolOK, RingInv
<1>1. /\ ring_i \in Slot /\ pc[ring_i] = "idle"
      /\ pc' = [pc EXCEPT ![ring_i] = "compress"] /\ job' = [job EXCEPT ![ring_i] = Len(submitted) + 1]
      /\ UNCHANGED <<archive, last_head, last_headofs, chunks, released, chunk>>
  BY <1>0 DEF ClearBuffer, SlotInv
<1>2. \A n \in 1..Len(submitted) : submitted'[n] = submitted[n]
  BY <1>0 DEF ClearBuffer
<1>3. \A n \in 1..Len(submitted) : Written(n) => Written(n)'
  BY <1>2, WrittenKept
<1>4. \A j \in Slot : pc[j] \in {"body", "out"} => job[j] \in 1..Len(submitted)
  <2> SUFFICES ASSUME NEW j \in Slot, pc[j] \in {"body", "out"} PROVE job[j] \in 1..Len(submitted)
    OBVIOUS
  <2>1. job[j] \in (released + 1)..Len(submitted)
    BY <1>0 DEF SlotInv, Active
  <2> QED
    BY <1>0, <2>1
<1>5. \A j \in Slot : /\ pc'[j] = "body" <=> pc[j] = "body"
                      /\ pc'[j] = "out" <=> pc[j] = "out"
                      /\ pc[j] \in {"body", "out"} => job'[j] = job[j]
  BY <1>0, <1>1
<1>6. \A j \in Slot : pc[j] = "body" => Block(j)' = Block(j)
  BY <1>2, <1>4, <1>5 DEF Block
<1>7. \A c, t : BodyOf(c, t)' <=> BodyOf(c, t)
  BY <1>5, <1>6 DEF BodyOf
<1>8. AllWritten'
  <2>1. \A n \in 1..released : n \in 1..Len(submitted)
    BY <1>0 DEF Backlog
  <2>2. \A n \in 1..released : Written(n)'
    BY <1>3, <2>1 DEF LinkInv, AllWritten
  <2>3. ASSUME NEW j \in Slot, pc'[j] = "out" PROVE Written(job[j])'
    <3>1. PICK m \in 1..Len(submitted) : m = job[j] /\ m = job'[j]
      BY <1>4, <1>5, <2>3
    <3>2. Written(m)
      BY <1>5, <2>3, <3>1 DEF LinkInv, AllWritten
    <3>3. Written(m)'
      BY <1>3, <3>2
    <3> QED
      BY <3>1, <3>3 DEF Written
  <2> QED
    BY <1>1, <2>2, <2>3 DEF AllWritten, Written
<1>9. Encrypt => \A k \in DOMAIN archive : Closed(archive[k].chunk)' <=> Closed(archive[k].chunk)
  BY <1>1 DEF Closed, ClosedPC, AfterClose
<1>10. \A c \in 1..MaxChunks : chunks'[c] # 0 <=> chunks[c] # 0
  BY <1>1
<1> QED
  BY <1>1, <1>7, <1>8, <1>9, <1>10, QuietLink

\* The main thread goes on to a place on the same side of the end of the chunk.
LEMMA QuietMainLink ==
  ASSUME LinkInv, Kept, UNCHANGED <<archive, last_head, last_headofs, chunks, submitted, job, released, pc>>,
         Encrypt => \A k \in DOMAIN archive : Closed(archive[k].chunk)' <=> Closed(archive[k].chunk)
  PROVE  LinkInv'
<1>1. \A n : Written(n) => Written(n)'
  BY WrittenAnyway
<1>2. AllWritten'
  BY <1>1 DEF LinkInv, AllWritten
<1>3. \A c, s : BodyOf(c, s)' <=> BodyOf(c, s)
  BY DEF BodyOf, Block
<1>4. \A c \in 1..MaxChunks : chunks'[c] # 0 <=> chunks[c] # 0
  OBVIOUS
<1> QED
  BY <1>2, <1>3, <1>4, QuietLink

\* As long as nothing goes wrong every step keeps the links, the encryption and
\* the blocks.
LEMMA NextLink ==
  ASSUME IInv, OrderInv, FlowInv, Sound => LinkInv, [Next]_vars, Sound'
  PROVE  LinkInv'
<1> USE DEF ringVars, slotVars, mainVars, fileVars
<1>0. LinkInv /\ Kept /\ TypeOK
  BY SoundBack, ArchiveKept DEF IInv
<1>1. CASE exit # "running"
  <2>1. UNCHANGED vars
    BY <1>1, EndedStep
  <2>2. Encrypt => \A k \in DOMAIN archive : Closed(archive[k].chunk)' <=> Closed(archive[k].chunk)
    BY <2>1 DEF vars, Closed
  <2> QED
    BY <1>0, <2>1, <2>2, QuietMainLink DEF vars
<1>2. CASE exit = "running"
  <2>0. RingInv /\ SlotInv /\ WaitInv
    BY <1>2 DEF IInv
  <2>1. ASSUME UNCHANGED <<archive, last_head, last_headofs, chunks, submitted, job, released, pc, chunk>>,
               Encrypt => (mpc' \in ClosedPC <=> mpc \in ClosedPC)
        PROVE  LinkInv'
    <3>1. Encrypt => \A k \in DOMAIN archive : Closed(archive[k].chunk)' <=> Closed(archive[k].chunk)
      BY <2>1 DEF Closed
    <3> QED
      BY <1>0, <2>1, <3>1, QuietMainLink
  <2>2. CASE RzipPass
    <3>1. \A k \in DOMAIN archive : archive[k].chunk # chunk'
      <4> TAKE k \in DOMAIN archive
      <4>1. archive[k].chunk \in Nat /\ archive[k].chunk <= chunk /\ chunk \in Nat
        BY <1>0, OrderTypes DEF OrderInv, ArchiveBehind
      <4> QED
        BY <2>2, <4>1 DEF RzipPass
    <3>2. \A k \in DOMAIN archive : Closed(archive[k].chunk)' <=> Closed(archive[k].chunk)
      BY <2>2, <3>1 DEF RzipPass, Closed, ClosedPC
    <3> QED
      BY <1>0, <2>2, <3>2, QuietMainLink DEF RzipPass
  <2>3. CASE EndChunk \/ FlushTmpout
    BY <2>1, <2>3 DEF EndChunk, FlushTmpout, AfterChunk, ClosedPC
  <2>4. CASE EncryptWait \/ WaitStreamoutThreads \/ CloseStreamoutThreads
    BY <2>1, <2>4 DEF EncryptWait, WaitStreamoutThreads, CloseStreamoutThreads, WaitBegin, WaitSlot, ClosedPC
  <2>5. CASE SealLastHeads
    BY <1>0, <2>5, SealLink
  <2>6. CASE (\E s \in Streams : FlushBuffer(s)) \/ CloseStreamOut
    <3>1. 0 \in Streams /\ 1 \in Streams
      BY DEF Streams
    <3>2. PICK s \in Streams : /\ ClearBuffer(s) /\ mpc \in {"write", "close0", "close1"}
                               /\ mpc' \in {"write", "close1", AfterClose}
      BY <2>6, <3>1 DEF FlushBuffer, CloseStreamOut
    <3> QED
      BY <1>0, <1>2, <3>2, ClearBufferLink
  <2>7. CASE Finish
    <3>1. \A i \in Slot : pc[i] \notin {"body", "out"} /\ pc'[i] \notin {"body", "out"}
      BY <2>0, <2>7 DEF Finish, WaitInv, Active, EndProcess
    <3>2. UNCHANGED <<archive, last_head, last_headofs, chunks, submitted, released>> /\ mpc = "trailer" /\ mpc' = "done"
      BY <2>7 DEF Finish, EndProcess
    <3>3. \A n : Written(n) => Written(n)'
      BY <1>0, <3>2, WrittenAnyway
    <3>4. AllWritten'
      BY <1>0, <3>1, <3>2, <3>3 DEF LinkInv, AllWritten
    <3>5. \A c, s : BodyOf(c, s)' <=> BodyOf(c, s)
      BY <3>1 DEF BodyOf
    <3>6. Encrypt => \A k \in DOMAIN archive : Closed(archive[k].chunk)' <=> Closed(archive[k].chunk)
      BY <3>2 DEF Closed, ClosedPC
    <3> QED
      BY <1>0, <3>2, <3>4, <3>5, <3>6, QuietLink
  <2>8. CASE MainFails \/ FatalExit \/ \E i \in Slot : ThreadExits(i)
    BY <2>8 DEF MainFails, FatalExit, ThreadExits, EndProcess, Sound
  <2>9. ASSUME NEW i \in Slot, Compthread(i) PROVE LinkInv'
    <3>1. CASE Compress(i) \/ TakeTurn(i) \/ Recompress(i)
      <4>1. ~Goto(i, "out", TRUE)
        BY <1>0 DEF Goto, Sound, TypeOK, PoolOK, FlagsOK
      <4>2. /\ \E to \in {"wait", "wait_retry", "wait_out", "header", "recompress"}, fatal \in BOOLEAN :
                 Goto(i, to, fatal)
            /\ pc[i] # "body" /\ UNCHANGED fileVars
        BY <3>1, <4>1 DEF Compress, TakeTurn, Recompress
      <4>3. PICK to \in {"wait", "wait_retry", "wait_out", "header", "recompress"} :
              /\ pc' = [pc EXCEPT ![i] = to] /\ UNCHANGED <<submitted, job, released, mpc, chunk>>
        BY <4>2 DEF Goto
      <4> QED
        BY <1>0, <4>2, <4>3, QuietThreadLink
    <3>2. CASE PostSem(i)
      <4>1. PICK to \in {"idle"} :
              /\ pc' = [pc EXCEPT ![i] = to] /\ pc[i] # "body"
              /\ UNCHANGED <<archive, last_head, last_headofs, chunks, submitted, job, released, mpc, chunk>>
        BY <3>2 DEF PostSem
      <4> QED
        BY <1>0, <4>1, QuietThreadLink
    <3>3. CASE WriteChunkHeader(i)
      BY <1>0, <3>3, HeaderLink
    <3>4. CASE WriteLink(i)
      BY <1>0, <3>4, LinkLink
    <3>5. CASE WriteBody(i)
      BY <1>0, <3>5, BodyLink
    <3>6. CASE ReleaseTurn(i)
      BY <1>0, <3>6, ReleaseLink
    <3> QED
      BY <2>9, <3>1, <3>2, <3>3, <3>4, <3>5, <3>6 DEF Compthread
  <2>10. CASE UNCHANGED vars \/ Ended
    BY <2>1, <2>10 DEF vars, Ended
  <2> QED
    BY <2>2, <2>3, <2>4, <2>5, <2>6, <2>7, <2>8, <2>9, <2>10 DEF Next, MainStep
<1> QED
  BY <1>1, <1>2

----------------------------------------------------------------------------
(* What the program leaves behind. *)

\* The archive is complete when the main thread writes the trailer.
LEMMA FinishComplete ==
  ASSUME IInv, ~lost, Sound => LinkInv, Finish
  PROVE  SuccessIsComplete'
<1>1. mpc = "trailer" /\ UNCHANGED <<archive, submitted>> /\ flushed' = Len(archive)
  BY DEF Finish, EndProcess
<1>2. exit = "running" /\ TypeOK /\ WaitInv /\ WrittenInv
  BY <1>1 DEF IInv, RingInv
<1>3. Backlog = 0 /\ \A i \in Slot : ~Active(i)
  BY <1>1, <1>2 DEF WaitInv
<1>4. LinkInv
  BY <1>2, <1>3 DEF Sound, Active
<1>5. /\ released \in Nat /\ Len(submitted) \in Nat /\ DOMAIN submitted = 1..Len(submitted)
      /\ released = Len(submitted)
  <2>1. released \in Nat /\ submitted \in Seq(BlockType)
    BY <1>2 DEF TypeOK, PoolOK
  <2> QED
    BY <1>3, <2>1 DEF Backlog
<1>6. ASSUME NEW k \in DOMAIN archive, archive[k].kind = "block" PROVE archive[k].n \in DOMAIN submitted
  <2>1. archive[k].n \in 1..(released + 1) /\ archive[k].n # released + 1
    <3>1. output_thread \in Slot
      BY <1>2 DEF TypeOK, PoolOK
    <3> QED
      BY <1>2, <1>3, <1>6, <3>1 DEF WrittenInv, Active
  <2> QED
    BY <1>5, <2>1
<1>7. ASSUME NEW n \in DOMAIN submitted
      PROVE  \E k \in DOMAIN archive : archive[k].kind = "block" /\ archive[k].n = n
  BY <1>4, <1>5, <1>7 DEF LinkInv, AllWritten, Written
<1>8. WrittenBlocks = DOMAIN submitted
  BY <1>6, <1>7 DEF WrittenBlocks
<1>9. \A k \in DOMAIN archive : archive[k].sealed = IF Encrypt /\ archive[k].kind # "rcd" THEN 1 ELSE 0
  BY <1>1, <1>4 DEF LinkInv, SealInv, Closed, ClosedPC
<1> QED
  BY <1>1, <1>8, <1>9 DEF SuccessIsComplete, WrittenBlocks

\* Nothing changes after the end.
LEMMA NextComplete ==
  ASSUME IInv, Sound => LinkInv, SuccessIsComplete, [Next]_vars
  PROVE  SuccessIsComplete'
<1> USE DEF ringVars, slotVars, mainVars, fileVars
<1>1. CASE exit # "running"
  <2>1. UNCHANGED vars
    BY <1>1, EndedStep
  <2> QED
    BY <2>1 DEF vars, SuccessIsComplete, WrittenBlocks
<1>2. CASE exit = "running"
  <2>1. CASE Finish
    <3>1. lost => lost'
      BY <2>1 DEF Finish, EndProcess
    <3>2. CASE ~lost
      BY <2>1, <3>2, FinishComplete
    <3>3. CASE lost
      BY <3>1, <3>3 DEF SuccessIsComplete
    <3> QED BY <3>2, <3>3
  <2>2. CASE ~Finish
    <3>1. exit' # "success"
      BY <1>2, <2>2 DEF Next, MainStep, RzipPass, FlushBuffer, ClearBuffer, EndChunk, CloseStreamOut,
         EncryptWait, SealLastHeads, WaitStreamoutThreads, FlushTmpout, CloseStreamoutThreads,
         WaitBegin, WaitSlot, MainFails, FatalExit, ThreadExits, EndProcess, Ended, vars,
         Compthread, Compress, TakeTurn, Recompress, WriteChunkHeader, WriteLink, WriteBody,
         ReleaseTurn, PostSem, Goto
    <3> QED
      BY <3>1 DEF SuccessIsComplete
  <2> QED BY <2>1, <2>2
<1> QED
  BY <1>1, <1>2

\* The initial states.
LEMMA InitFile == Init => FileInv
<1> SUFFICES ASSUME Init PROVE FileInv
  OBVIOUS
<1> USE DEF Init
<1>1. FlowInv
  BY DEF FlowInv, DrainInv, TailInv, OutFault, Backlog
<1>2. FlushInv
  BY DEF FlushInv
<1>3. EofInv
  BY DEF EofInv, EofIsLast
<1>4. LinkInv
  <2>1. HeadInv /\ ChainInv /\ SealInv /\ LastInv /\ AllWritten
    BY DEF HeadInv, ChainInv, SealInv, LastInv, AllWritten, BodyOf
  <2> QED
    BY <2>1 DEF LinkInv
<1>5. SuccessIsComplete
  BY DEF SuccessIsComplete
<1> QED
  BY <1>1, <1>2, <1>3, <1>4, <1>5 DEF FileInv

\* FileInv is inductive together with the invariants of the pool and the order.
LEMMA SpecFile ==
  ASSUME RingFits PROVE Spec => [](IInv /\ OrderInv /\ FileInv)
<1>1. Init => IInv /\ OrderInv /\ FileInv
  <2>1. Init => OrderInv
    BY DEF Init, OrderInv, SubmittedOrder, ArchiveBehind, HeadersFirst, BlocksInOrder
  <2> QED
    BY <2>1, InitIInv, InitFile
<1>2. IInv /\ OrderInv /\ FileInv /\ [Next]_vars => (IInv /\ OrderInv /\ FileInv)'
  <2> SUFFICES ASSUME IInv, OrderInv, FileInv, [Next]_vars PROVE IInv' /\ OrderInv' /\ FileInv'
    OBVIOUS
  <2>1. IInv'
    BY NextIInv
  <2>2. OrderInv'
    BY <2>1, NextOrder
  <2>3. FlowInv'
    BY NextFlow DEF FileInv
  <2>4. EofInv'
    BY NextEof DEF FileInv
  <2>5. exit' = "running" => FlushInv'
    BY <2>1, NextFlush DEF FileInv
  <2>6. Sound' => LinkInv'
    BY NextLink DEF FileInv
  <2>7. SuccessIsComplete'
    BY NextComplete DEF FileInv
  <2> QED
    BY <2>1, <2>2, <2>3, <2>4, <2>5, <2>6, <2>7 DEF FileInv
<1> QED
  BY <1>1, <1>2, PTL DEF Spec

\* The links and the encryption give the chain of every stream.
LEMMA ChainsFollow ==
  ASSUME IInv, OrderInv, FileInv PROVE StreamChains
<1> SUFFICES ASSUME ~Failing, exit # "failure", NEW k \in DOMAIN archive, archive[k].kind # "rcd"
             PROVE  archive[k].next = Successor(k)
  BY DEF StreamChains
<1>1. LinkInv
  BY DEF FileInv, Sound, Failing
<1>2. /\ Len(archive) \in Nat /\ DOMAIN archive = 1..Len(archive)
      /\ \A j \in DOMAIN archive :
           /\ j \in Nat /\ archive[j].chunk \in 1..MaxChunks /\ archive[j].stream \in Streams
           /\ archive[j].next \in Nat /\ HeadOf(j) \in Nat
  BY LinkTypes
<1> DEFINE later == {j \in DOMAIN archive : j > k /\ archive[j].kind = "block"
                                                 /\ SameStream(archive[j], archive[k])}
           next == archive[k].next
           body == \E i \in Slot : pc[i] = "body" /\ SameStream(Block(i), archive[k])
<1>3. Successor(k) = IF later # {} THEN CHOOSE j \in later : \A l \in later : j <= l
                     ELSE IF body THEN Len(archive) + 1 ELSE 0
  BY DEF Successor
<1>4. body <=> BodyOf(archive[k].chunk, archive[k].stream)
  BY DEF BodyOf, SameStream
<1>5. \A j \in later : /\ j \in DOMAIN archive /\ k < j /\ archive[j].kind = "block"
                       /\ SameStream(archive[j], archive[k]) /\ HeadOf(j) = HeadOf(k) /\ j <= HeadOf(k)
  BY <1>1, <1>2 DEF HeadOf, SameStream, LinkInv, ChainInv
<1>6. /\ k <= HeadOf(k)
      /\ k = HeadOf(k) => next = 0
      /\ k < HeadOf(k) =>
           /\ next \in (k + 1)..HeadOf(k)
           /\ next \in DOMAIN archive =>
                archive[next].kind = "block" /\ SameStream(archive[next], archive[k])
           /\ \A j \in DOMAIN archive : k < j /\ j < next =>
                ~(archive[j].kind = "block" /\ SameStream(archive[j], archive[k]))
  BY <1>1 DEF LinkInv, ChainInv
<1>7. /\ HeadOf(k) \in DOMAIN archive \/ (HeadOf(k) = Len(archive) + 1 /\ body)
      /\ body => HeadOf(k) = Len(archive) + 1
  <2>1. chunks[archive[k].chunk] # 0
    BY DEF OrderInv, HeadersFirst
  <2> QED
    BY <1>1, <1>2, <1>4, <2>1 DEF LinkInv, HeadInv, HeadOf
<1>8. CASE k = HeadOf(k)
  <2>1. later = {}
    BY <1>2, <1>5, <1>8
  <2>2. ~body
    BY <1>2, <1>7, <1>8
  <2> QED
    BY <1>3, <1>6, <1>8, <2>1, <2>2
<1>9. CASE k < HeadOf(k)
  <2>1. CASE next \in DOMAIN archive
    <3>1. next \in later
      BY <1>2, <1>6, <1>9, <2>1
    <3>2. \A l \in later : next <= l
      BY <1>2, <1>5, <1>6, <1>9
    <3>3. \A j \in later : (\A l \in later : j <= l) => j = next
      BY <1>2, <1>5, <3>1, <3>2
    <3> HIDE DEF later, next
    <3>4. (CHOOSE j \in later : \A l \in later : j <= l) = next
      BY <3>1, <3>2, <3>3
    <3> QED
      BY <1>3, <3>1, <3>4 DEF next
  <2>2. CASE next \notin DOMAIN archive
    <3>1. next = Len(archive) + 1 /\ body
      BY <1>2, <1>6, <1>7, <1>9, <2>2
    <3>2. later = {}
      BY <1>2, <1>5, <1>6, <1>9, <3>1
    <3> QED
      BY <1>3, <3>1, <3>2
  <2> QED BY <2>1, <2>2
<1> QED
  BY <1>2, <1>6, <1>8, <1>9

\* A header is patched or encrypted only while it is neither encrypted nor sent.
LEMMA NothingRewritten ==
  ASSUME IInv, OrderInv, FileInv, [Next]_vars, ~lost, NEW k \in DOMAIN archive,
         archive[k].sealed > 0 \/ k <= flushed
  PROVE  archive'[k] = archive[k]
<1> USE DEF ringVars, slotVars, mainVars, fileVars
<1>0. /\ archive \in Seq(ItemType) /\ TypeOK /\ Len(archive) \in Nat /\ flushed \in Nat /\ chunk \in Nat
      /\ DOMAIN archive = 1..Len(archive) /\ FlowInv
  <2>1. TypeOK /\ archive \in Seq(ItemType) /\ flushed \in Nat /\ chunk \in 0..MaxChunks
    BY DEF IInv, TypeOK, FileOK, MainOK
  <2> QED
    BY <2>1, BoundsAssumption DEF FileInv
<1>1. CASE exit # "running"
  BY <1>1, EndedStep DEF vars
<1>2. CASE exit = "running"
  <2>0. FlushInv
    BY <1>2 DEF FileInv
  <2>1. ASSUME Sound, k = HeadOf(k),
               Encrypt => archive[k].chunk = chunk /\ mpc \notin ClosedPC,
               Stdout => /\ archive[k].chunk = chunk
                         /\ mpc \notin {"pass", "close_begin", "close_wait", "trailer"}
        PROVE  FALSE
    <3>1. archive[k].sealed = 0
      <4>1. ~(k < HeadOf(k)) /\ (Encrypt => ~Closed(archive[k].chunk))
        BY <1>0, <2>1 DEF Closed
      <4> QED
        BY <2>1, <4>1 DEF FileInv, LinkInv, SealInv
    <3>2. k \in 1..flushed
      BY <1>0, <3>1
    <3>3. Stdout /\ (archive[k].chunk < chunk \/ mpc \in {"pass", "close_begin", "close_wait", "trailer"})
      BY <2>0, <3>2 DEF FlushInv
    <3> QED
      BY <1>0, <2>1, <3>3
  <2>2. CASE SealLastHeads
    <3>1. mpc = "seal" /\ WaitInv
      BY <1>2, <2>2 DEF SealLastHeads, IInv
    <3>2. Sound
      BY <1>2, <3>1 DEF Sound, WaitInv, Active
    <3>3. LinkInv
      BY <3>2 DEF FileInv
    <3> DEFINE S == {last_headofs[chunk][s] : s \in Streams}
    <3>4. ASSUME k \in S PROVE FALSE
      <4>1. PICK s \in Streams : k = last_headofs[chunk][s]
        BY <3>4
      <4>2. k = last_head[chunk][s] /\ archive[k].chunk = chunk /\ archive[k].stream = s
        BY <1>0, <3>1, <3>3, <4>1, LastBlocks
      <4>3. k = HeadOf(k)
        BY <4>2 DEF HeadOf
      <4> QED
        BY <2>1, <3>1, <3>2, <4>2, <4>3 DEF ClosedPC
    <3>5. archive' = RewriteEncrypted(archive, S)
      BY <2>2 DEF SealLastHeads
    <3> HIDE DEF S
    <3> QED
      BY <1>0, <3>4, <3>5, RewriteEncryptedFields
  <2>3. ASSUME NEW i \in Slot, WriteLink(i) PROVE archive'[k] = archive[k]
    <3>1. CASE archive' = archive
      BY <3>1
    <3>2. CASE archive' # archive
      <4> DEFINE c == Block(i).chunk
                 s == Block(i).stream
                 prev == last_head[c][s]
      <4>1. /\ archive' = Linked(archive, prev, Len(archive) + 1) /\ Len(archive) + 1 \in Nat
            /\ pc[i] = "link" /\ Active(i) /\ Writing(i)
        BY <2>3, <3>2, LinkStep DEF WriteLink, Active, Writing
      <4>2. /\ SlotInv /\ c \in 1..MaxChunks /\ s \in Streams /\ chunks[c] # 0
        BY <4>1, WorkerFacts DEF OrderInv, HeadersFirst
      <4>3. Sound
        BY <1>2, <4>1, <4>2 DEF Sound, SlotInv, Writing
      <4>4. LinkInv
        BY <4>3 DEF FileInv
      <4>5. ~BodyOf(c, s)
        BY <4>1, <4>2, NoBody
      <4>6. prev \in DOMAIN archive /\ archive[prev].chunk = c /\ archive[prev].stream = s
        BY <4>2, <4>4, <4>5 DEF LinkInv, HeadInv
      <4>7. /\ Encrypt => c = chunk /\ mpc \notin ClosedPC
            /\ Stdout => c = chunk /\ mpc \notin {"pass", "close_begin", "close_wait", "trailer"}
        BY <1>0, <4>1, WriterChunk
      <4>8. prev = HeadOf(prev)
        BY <4>6 DEF HeadOf
      <4> HIDE DEF c, s, prev
      <4>9. CASE k = prev
        BY <2>1, <4>3, <4>6, <4>7, <4>8, <4>9
      <4>10. CASE k # prev
        BY <1>0, <4>1, <4>10, LinkedFields
      <4> QED BY <4>9, <4>10
    <3> QED BY <3>1, <3>2
  <2>4. ASSUME NEW i \in Slot, WriteChunkHeader(i) PROVE archive'[k] = archive[k]
    <3>1. CASE archive' = archive
      BY <3>1
    <3>2. CASE archive' # archive
      <4> DEFINE c == Block(i).chunk
      <4>1. Active(i) /\ archive' = archive \o ChunkHeader(c)
        BY <2>4, <3>2 DEF WriteChunkHeader, Active
      <4>2. c \in 1..MaxChunks /\ eof \in {0, 1}
        BY <4>1, WorkerFacts DEF TypeOK, MainOK
      <4> HIDE DEF c
      <4> QED
        BY <1>0, <4>1, <4>2, HeaderFields
    <3> QED BY <3>1, <3>2
  <2>5. ASSUME NEW i \in Slot, WriteBody(i) PROVE archive'[k] = archive[k]
    <3> DEFINE it == Item("block", Block(i).chunk, Block(i).stream, job[i], 0)
    <3>1. archive' = archive \/ archive' = Append(archive, it)
      BY <2>5 DEF WriteBody
    <3> HIDE DEF it
    <3> QED
      BY <1>0, <3>1
  <2>6. ASSUME NEW i \in Slot, Compress(i) \/ TakeTurn(i) \/ Recompress(i) \/ ReleaseTurn(i) \/ PostSem(i)
        PROVE  archive' = archive
    BY <2>6 DEF Compress, TakeTurn, Recompress, ReleaseTurn, PostSem
  <2>7. CASE MainStep /\ ~SealLastHeads
    BY <2>7 DEF MainStep, RzipPass, FlushBuffer, ClearBuffer, EndChunk, CloseStreamOut,
       EncryptWait, WaitStreamoutThreads, FlushTmpout, CloseStreamoutThreads,
       Finish, WaitBegin, WaitSlot, EndProcess
  <2>8. CASE MainFails \/ FatalExit \/ (\E i \in Slot : ThreadExits(i)) \/ UNCHANGED vars \/ Ended
    BY <2>8 DEF MainFails, FatalExit, ThreadExits, EndProcess, vars, Ended
  <2> QED
    BY <2>2, <2>3, <2>4, <2>5, <2>6, <2>7, <2>8 DEF Next, Compthread
<1> QED
  BY <1>1, <1>2

\* As long as no thread has failed, the links of a stream visit all its blocks,
\* in order, and nothing else: each thread patches the header that last_head
\* names, and last_head is where the next thread of that stream will find it.
THEOREM StreamsChained == RingFits => (Spec => []StreamChains)
<1> SUFFICES ASSUME RingFits PROVE Spec => []StreamChains
  OBVIOUS
<1>1. IInv /\ OrderInv /\ FileInv => StreamChains
  BY ChainsFollow
<1> QED
  BY <1>1, SpecFile, PTL

\* A process that reports success, and whose threads gave up no block, has
\* written every block handed to clear_buffer, has encrypted every header
\* exactly once and has sent everything to its output.
THEOREM CompleteOnSuccess == RingFits => (Spec => []SuccessIsComplete)
<1> SUFFICES ASSUME RingFits PROVE Spec => []SuccessIsComplete
  OBVIOUS
<1>1. FileInv => SuccessIsComplete
  BY DEF FileInv
<1> QED
  BY <1>1, SpecFile, PTL

\* An encrypted header and what has left for the pipe are never written again:
\* compthread only rewrites the last header of a stream of the current chunk,
\* and the chunk is encrypted and flushed only when all its threads are done.
THEOREM WrittenOnce == RingFits => (Spec => Immutable)
<1> SUFFICES ASSUME RingFits PROVE Spec => Immutable
  OBVIOUS
<1>1. IInv /\ OrderInv /\ FileInv /\ [Next]_vars =>
        [\A k \in DOMAIN archive :
           ~lost /\ (archive[k].sealed > 0 \/ k <= flushed) => archive'[k] = archive[k]]_vars
  BY NothingRewritten
<1> QED
  BY <1>1, SpecFile, PTL DEF Spec, Immutable

\* With ENCRYPT or STDOUT the threads are waited for before the next chunk sets
\* control->eof, so the flag a chunk header is written with is that of its own
\* chunk.  (Without them it need not be.)
THEOREM EofOfLastChunk == RingFits /\ (Encrypt \/ Stdout) => (Spec => []EofIsLast)
<1> SUFFICES ASSUME RingFits, Encrypt \/ Stdout PROVE Spec => []EofIsLast
  OBVIOUS
<1>1. FileInv => EofIsLast
  BY DEF FileInv, EofInv
<1> QED
  BY <1>1, SpecFile, PTL
==============================================================================
