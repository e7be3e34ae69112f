---------------------------- MODULE CompThreads ----------------------------
(***************************************************************************)
(* The compression thread pool of stream.c.  The main thread (rzip_fd,     *)
(* write_stream, close_stream_out) hands each full stream buffer to the    *)
(* next slot of a ring of threads (clear_buffer); the threads (compthread) *)
(* compress in parallel and then take turns, in the order of the ring, to  *)
(* append their block to the archive and to patch the link of the previous *)
(* block of the same stream.  A thread that cannot compress retries once   *)
(* while it owns the turn; every way out of the thread gives the turn to   *)
(* the next slot.                                                          *)
(*                                                                         *)
(* The archive is a sequence of items: the chunk header (RCD), the two     *)
(* initial stream headers, and the blocks.  Positions are indexes into it. *)
(* Block contents are their submission numbers.                            *)
(***************************************************************************)
EXTENDS Integers, Sequences

CONSTANTS
  Cpus,        \* control->threads when prepare_streamout_threads is entered
  NoCompress,  \* NO_COMPRESS: no back end
  Encrypt,     \* ENCRYPT: stream headers are rewritten encrypted
  Stdout,      \* STDOUT: every chunk is flushed to the pipe when it is done
  MinThreads,  \* the fewest threads open_stream_out's memory limits leave
  Start,       \* ring position left behind by the previous file of this run
  MaxChunks,   \* bound: rzip chunks in the file
  MaxFlush,    \* bound: full buffers flushed per chunk while it is searched
  MaxFaults    \* bound: threads that give up their block

ASSUME CpusAssumption == Cpus \in Nat \ {0}
ASSUME FlagsAssumption == NoCompress \in BOOLEAN /\ Encrypt \in BOOLEAN /\ Stdout \in BOOLEAN
ASSUME BoundsAssumption == MaxChunks \in Nat \ {0} /\ MaxFlush \in Nat /\ MaxFaults \in Nat

Streams == 0..1

\* prepare_streamout_threads: one more thread than CPUs keeps them all busy.
PoolSize == IF NoCompress THEN 1 ELSE IF Cpus > 1 THEN Cpus + 1 ELSE Cpus

ASSUME StartAssumption == Start \in 0..(PoolSize - 1)
ASSUME MinThreadsAssumption == MinThreads \in 1..PoolSize

Slot == 0..(PoolSize - 1)

VARIABLES
  threads,        \* control->threads: the ring's current size
  ring_i,         \* clear_buffer's static i: the slot of the next block
  output_thread,  \* the slot whose turn it is to write
  cksem,          \* cthreads[i].cksem, 0 or 1
  pc,             \* where the thread of each slot is; "idle" when there is none
  job,            \* number of the block last given to the slot
  fatal_msg,      \* whether the slot's thread has met a fatal error
  faults,         \* how many threads have given up
  doomed,         \* a thread has posted its semaphore and is about to call failure()
  mpc,            \* where the main thread is
  wait_left,      \* slots the main thread still has to wait for
  wait_at,        \* close_thread: the slot it waits for now
  chunk,          \* number of the current chunk
  flushes,        \* full buffers flushed in the current chunk
  eof,            \* control->eof, 0 or 1
  chunks,         \* sinfo->chunks of each chunk: blocks begun by its writers
  last_head,      \* sinfo->s[].last_head of each chunk: item with the open link
  last_headofs,   \* sinfo->s[].last_headofs: item of the stream's last block
  archive,        \* the items written
  flushed,        \* how many of them have left for the pipe
  submitted,      \* history: the blocks handed to clear_buffer
  released,       \* history: how many turns have been given up
  lost,           \* history: some turn was given up without its block written
  exit            \* "running", or how the process ended

ringVars == <<threads, ring_i, output_thread, released>>
slotVars == <<cksem, pc, job, fatal_msg, faults, doomed>>
mainVars == <<mpc, wait_left, wait_at, chunk, flushes, eof>>
fileVars == <<chunks, last_head, last_headofs, archive, flushed>>
vars == <<ringVars, slotVars, mainVars, fileVars, submitted, lost, exit>>

\* Fault: the wrap-around compares one too late.
LateAdvance(i) == IF i = threads THEN 0 ELSE i + 1

\* ++i == control->threads ? 0 : i, as written in four places of stream.c.
Advance(i) == IF i + 1 = threads THEN 0 ELSE i + 1

----------------------------------------------------------------------------
(* The archive's items.  n is the block's submission number, next the item  *)
(* its link field names (0: none), sealed how often the header was          *)
(* encrypted in place.                                                      *)

Item(kind, c, s, n, e) ==
  [kind |-> kind, chunk |-> c, stream |-> s, n |-> n, eof |-> e, next |-> 0, sealed |-> 0]

ChunkHeader(c) ==
  <<Item("rcd", c, 0, 0, eof), Item("init", c, 0, 0, 0), Item("init", c, 1, 0, 0)>>

\* rewrite_encrypted: the headers at the items of S are encrypted in place.
RewriteEncrypted(file, S) ==
  [k \in DOMAIN file |-> IF k \in S THEN [file[k] EXCEPT !.sealed = @ + 1] ELSE file[k]]

\* The link field at item k is overwritten with the position to.
PatchLink(file, k, to) ==
  [j \in DOMAIN file |-> IF j = k THEN [file[j] EXCEPT !.next = to] ELSE file[j]]

Block(i) == submitted[job[i]]

Init ==
  /\ threads = PoolSize
  /\ ring_i = Start
  /\ output_thread = Start
  /\ released = 0
  /\ cksem = [i \in Slot |-> 1]
  /\ pc = [i \in Slot |-> "idle"]
  /\ job = [i \in Slot |-> 0]
  /\ fatal_msg = [i \in Slot |-> FALSE]
  /\ faults = 0
  /\ doomed = FALSE
  /\ mpc = "pass"
  /\ wait_left = 0
  /\ wait_at = 0
  /\ chunk = 0
  /\ flushes = 0
  /\ eof = 0
  /\ chunks = [c \in 1..MaxChunks |-> 0]
  /\ last_head = [c \in 1..MaxChunks |-> [s \in Streams |-> 0]]
  /\ last_headofs = [c \in 1..MaxChunks |-> [s \in Streams |-> 0]]
  /\ archive = <<>>
  /\ flushed = 0
  /\ submitted = <<>>
  /\ lost = FALSE
  /\ exit = "running"

----------------------------------------------------------------------------
(* The main thread. *)

\* open_stream_out takes threads away while their memory does not fit.  The
\* limits only depend on the chunk's size, which does not grow after the first
\* chunk, so later chunks take none away.  (Left out: stdin whose map was cut
\* for lack of memory in one chunk and succeeds whole in a later one.)
OpenStreamOut == threads' \in IF chunk = 0 THEN MinThreads..threads ELSE {threads}

\* One turn of rzip_fd's loop up to hash_search.  control->eof is set before
\* the last chunk is begun.
RzipPass ==
  /\ mpc = "pass"
  /\ chunk < MaxChunks
  /\ chunk' = chunk + 1
  /\ flushes' = 0
  /\ eof' \in IF chunk' = MaxChunks THEN {1} ELSE {0, 1}
  /\ OpenStreamOut
  /\ mpc' = "write"
  /\ UNCHANGED <<ring_i, output_thread, released, slotVars, wait_left, wait_at,
                 fileVars, submitted, lost, exit>>

\* Fault: the slot's semaphore is not waited for.
HeedlessClearBuffer(s) ==
  /\ ring_i \in Slot
  /\ cksem' = [cksem EXCEPT ![ring_i] = 0]
  /\ submitted' = Append(submitted, [chunk |-> chunk, stream |-> s, slot |-> ring_i])
  /\ job' = [job EXCEPT ![ring_i] = Len(submitted) + 1]
  /\ pc' = [pc EXCEPT ![ring_i] = "compress"]
  /\ ring_i' = Advance(ring_i)
  /\ UNCHANGED <<threads, output_thread, released, fatal_msg, faults, doomed, wait_left,
                 wait_at, chunk, eof, fileVars, lost, exit>>

\* clear_buffer: wait for the slot's semaphore, hand the buffer over, start
\* the thread and step to the next slot.
ClearBuffer(s) ==
  /\ ring_i \in Slot
  /\ cksem[ring_i] = 1
  /\ cksem' = [cksem EXCEPT ![ring_i] = 0]
  /\ submitted' = Append(submitted, [chunk |-> chunk, stream |-> s, slot |-> ring_i])
  /\ job' = [job EXCEPT ![ring_i] = Len(submitted) + 1]
  /\ pc' = [pc EXCEPT ![ring_i] = "compress"]
  /\ ring_i' = Advance(ring_i)
  /\ UNCHANGED <<threads, output_thread, released, fatal_msg, faults, doomed, wait_left,
                 wait_at, chunk, eof, fileVars, lost, exit>>

\* write_stream fills a buffer, flush_buffer hands it over.
FlushBuffer(s) ==
  /\ mpc = "write"
  /\ flushes < MaxFlush
  /\ ClearBuffer(s)
  /\ flushes' = flushes + 1
  /\ mpc' = mpc

\* hash_search has reached the end of the chunk.
EndChunk ==
  /\ mpc = "write"
  /\ mpc' = "close0"
  /\ UNCHANGED <<ringVars, slotVars, wait_left, wait_at, chunk, flushes, eof,
                 fileVars, submitted, lost, exit>>

\* Where rzip_fd goes when the chunk is complete.
AfterChunk == IF eof = 1 THEN "close_begin" ELSE "pass"

\* Fault: encryption and streaming do not wait either.
HastyAfterClose == AfterChunk

AfterClose ==
  IF Encrypt THEN "seal_begin" ELSE IF Stdout THEN "flush_begin" ELSE AfterChunk

\* close_stream_out: what is left in both buffers, even nothing, is a block.
CloseStreamOut ==
  /\ \/ mpc = "close0" /\ ClearBuffer(0) /\ mpc' = "close1"
     \/ mpc = "close1" /\ ClearBuffer(1) /\ mpc' = AfterClose
  /\ UNCHANGED flushes

\* Fault: only the thread whose turn it is is waited for.
ShortWaitBegin(from, to) ==
  /\ mpc = from
  /\ wait_at' = output_thread
  /\ wait_left' = 1
  /\ mpc' = to
  /\ UNCHANGED <<ringVars, slotVars, chunk, flushes, eof, fileVars, submitted, lost, exit>>

\* The three waiting loops start at the slot whose turn it is, read unlocked.
WaitBegin(from, to) ==
  /\ mpc = from
  /\ wait_at' = output_thread
  /\ wait_left' = threads
  /\ mpc' = to
  /\ UNCHANGED <<ringVars, slotVars, chunk, flushes, eof, fileVars, submitted, lost, exit>>

\* One turn of such a loop.  take: the semaphore is not posted again.
WaitSlot(in, to, take) ==
  /\ mpc = in
  /\ cksem[wait_at] = 1
  /\ cksem' = IF take THEN [cksem EXCEPT ![wait_at] = 0] ELSE cksem
  /\ wait_at' = Advance(wait_at)
  /\ wait_left' = wait_left - 1
  /\ mpc' = IF wait_left = 1 THEN to ELSE in
  /\ UNCHANGED <<ringVars, pc, job, fatal_msg, faults, doomed, chunk, flushes, eof,
                 fileVars, submitted, lost, exit>>

\* close_stream_out with ENCRYPT waits for all threads ...
EncryptWait == WaitBegin("seal_begin", "seal_wait") \/ WaitSlot("seal_wait", "seal", FALSE)

\* ... and then encrypts the last header of each stream, whose link stays 0.
SealLastHeads ==
  /\ mpc = "seal"
  /\ archive' = RewriteEncrypted(archive, {last_headofs[chunk][s] : s \in Streams})
  /\ mpc' = IF Stdout THEN "flush_begin" ELSE AfterChunk
  /\ UNCHANGED <<ringVars, slotVars, wait_left, wait_at, chunk, flushes, eof, chunks,
                 last_head, last_headofs, flushed, submitted, lost, exit>>

\* rzip_fd with STDOUT: wait_streamout_threads ...
WaitStreamoutThreads ==
  WaitBegin("flush_begin", "flush_wait") \/ WaitSlot("flush_wait", "flush", FALSE)

\* ... then flush_tmpout sends the block to the pipe.
FlushTmpout ==
  /\ mpc = "flush"
  /\ flushed' = Len(archive)
  /\ mpc' = AfterChunk
  /\ UNCHANGED <<ringVars, slotVars, wait_left, wait_at, chunk, flushes, eof, chunks,
                 last_head, last_headofs, archive, submitted, lost, exit>>

CloseStreamoutThreads ==
  WaitBegin("close_begin", "close_wait") \/ WaitSlot("close_wait", "trailer", TRUE)

\* The process ends, and all its threads with it.
EndProcess(how) ==
  /\ exit' = how
  /\ mpc' = "done"
  /\ pc' = [i \in Slot |-> "idle"]
  /\ doomed' = FALSE
  /\ UNCHANGED <<ringVars, cksem, job, fatal_msg, faults, wait_left, wait_at, chunk,
                 flushes, eof, chunks, last_head, last_headofs, archive, submitted, lost>>

\* The rest of rzip_fd and compress_file: the MD5 trailer, the last flush, and
\* main's return LRZIP_EXIT_SUCCESS.
Finish ==
  /\ mpc = "trailer"
  /\ flushed' = Len(archive)
  /\ EndProcess("success")

\* malloc, create_pthread or open_stream_out fails: failure() ends the process.
MainFails ==
  /\ mpc \in {"pass", "write", "close0", "close1", "seal", "flush", "trailer"}
  /\ EndProcess("failure")
  /\ UNCHANGED flushed

MainStep ==
  \/ RzipPass
  \/ \E s \in Streams : FlushBuffer(s)
  \/ EndChunk
  \/ CloseStreamOut
  \/ EncryptWait
  \/ SealLastHeads
  \/ WaitStreamoutThreads
  \/ FlushTmpout
  \/ CloseStreamoutThreads
  \/ Finish

----------------------------------------------------------------------------
(* compthread, for slot i. *)

\* A step that moves slot i's thread on and leaves all shared state alone.
Goto(i, to, fatal) ==
  /\ pc' = [pc EXCEPT ![i] = to]
  /\ fatal_msg' = [fatal_msg EXCEPT ![i] = fatal]
  /\ faults' = IF fatal THEN faults + 1 ELSE faults
  /\ faults' <= MaxFaults
  /\ UNCHANGED <<ringVars, cksem, job, doomed, mainVars, submitted, lost, exit>>

\* The first attempt runs in parallel with the others.  The padding's realloc
\* can fail fatally before the thread has had its turn.
Compress(i) ==
  /\ pc[i] = "compress"
  /\ \/ Goto(i, "wait", FALSE)
     \/ ~NoCompress /\ Goto(i, "wait_retry", FALSE)
     \/ Encrypt /\ Goto(i, "wait_out", TRUE)
  /\ UNCHANGED fileVars

\* Fault: the thread writes as soon as it has compressed.
TakeTurnAtOnce(i) ==
  /\ pc[i] \in {"wait", "wait_retry"}
  /\ Goto(i, IF pc[i] = "wait" THEN "header" ELSE "recompress", FALSE)
  /\ UNCHANGED fileVars

\* Wait for output_thread == i; a failed attempt is repeated with the turn held.
TakeTurn(i) ==
  /\ pc[i] \in {"wait", "wait_retry"}
  /\ output_thread = i
  /\ Goto(i, IF pc[i] = "wait" THEN "header" ELSE "recompress", FALSE)
  /\ UNCHANGED fileVars

Recompress(i) ==
  /\ pc[i] = "recompress"
  /\ Goto(i, "header", FALSE) \/ Goto(i, "out", TRUE)
  /\ UNCHANGED fileVars

\* if (!ctis->chunks++): the chunk's first writer writes the chunk header, with
\* the control->eof of this moment, and the two empty stream headers.
WriteChunkHeader(i) ==
  LET c == Block(i).chunk
      first == chunks[c] = 0
  IN
  /\ pc[i] = "header"
  /\ chunks' = [chunks EXCEPT ![c] = @ + 1]
  /\ \/ /\ Goto(i, "link", FALSE)
        /\ archive' = IF first THEN archive \o ChunkHeader(c) ELSE archive
        /\ last_head' = IF first
                        THEN [last_head EXCEPT ![c] = [s \in Streams |-> Len(archive) + 2 + s]]
                        ELSE last_head
     \/ /\ first /\ Encrypt
        /\ Goto(i, "out", TRUE)
        /\ UNCHANGED <<archive, last_head>>
  /\ UNCHANGED <<last_headofs, flushed>>

\* Fault: last_head is not moved to the new block.
WriteStaleLink(i) ==
  LET c == Block(i).chunk
      s == Block(i).stream
      prev == last_head[c][s]
      linked == PatchLink(archive, prev, Len(archive) + 1)
  IN
  /\ pc[i] = "link"
  /\ Goto(i, "body", FALSE)
  /\ archive' = IF Encrypt THEN RewriteEncrypted(linked, {prev}) ELSE linked
  /\ UNCHANGED <<chunks, last_head, last_headofs, flushed>>

\* Patch the link of the stream's previous header with the position this block
\* will have; with ENCRYPT that header is now final and is encrypted.
WriteLink(i) ==
  LET c == Block(i).chunk
      s == Block(i).stream
      prev == last_head[c][s]
      here == Len(archive) + 1
      linked == PatchLink(archive, prev, here)
  IN
  /\ pc[i] = "link"
  /\ \/ /\ Goto(i, "body", FALSE)
        /\ archive' = IF Encrypt THEN RewriteEncrypted(linked, {prev}) ELSE linked
        /\ last_head' = [last_head EXCEPT ![c][s] = here]
     \/ /\ Goto(i, "out", TRUE)
        /\ UNCHANGED <<archive, last_head>>
  /\ UNCHANGED <<chunks, last_headofs, flushed>>

\* The block's header and payload.
WriteBody(i) ==
  LET c == Block(i).chunk
      s == Block(i).stream
  IN
  /\ pc[i] = "body"
  /\ \/ /\ Goto(i, "out", FALSE)
        /\ archive' = Append(archive, Item("block", c, s, job[i], 0))
        /\ last_headofs' = IF Encrypt
                           THEN [last_headofs EXCEPT ![c][s] = Len(archive) + 1]
                           ELSE last_headofs
     \/ /\ Goto(i, "out", TRUE)
        /\ UNCHANGED <<archive, last_headofs>>
  /\ UNCHANGED <<chunks, last_head, flushed>>

\* out: take the turn if the thread has not had it, and pass it on.
ReleaseTurn(i) ==
  /\ \/ pc[i] = "out"
     \/ pc[i] = "wait_out" /\ output_thread = i
  /\ pc' = [pc EXCEPT ![i] = "post"]
  /\ IF output_thread = i
     THEN /\ output_thread' = Advance(output_thread)
          /\ released' = released + 1
          /\ lost' = (lost \/ fatal_msg[i])
     ELSE UNCHANGED <<output_thread, released, lost>>
  /\ UNCHANGED <<threads, ring_i, cksem, job, fatal_msg, faults, doomed, mainVars, fileVars,
                 submitted, exit>>

\* Fault: a way out of the thread that forgets the semaphore.
ForgetPost(i) ==
  /\ pc[i] = "post"
  /\ pc' = [pc EXCEPT ![i] = "idle"]
  /\ doomed' = (doomed \/ fatal_msg[i])
  /\ fatal_msg' = [fatal_msg EXCEPT ![i] = FALSE]
  /\ UNCHANGED <<ringVars, cksem, job, faults, mainVars, fileVars, submitted, lost, exit>>

\* cksem_post: from here on the slot can be given a new block, while the old
\* thread may still have failure() to call.
PostSem(i) ==
  /\ pc[i] = "post"
  /\ pc' = [pc EXCEPT ![i] = "idle"]
  /\ cksem' = [cksem EXCEPT ![i] = 1]
  /\ doomed' = (doomed \/ fatal_msg[i])
  /\ fatal_msg' = [fatal_msg EXCEPT ![i] = FALSE]
  /\ UNCHANGED <<ringVars, job, faults, mainVars, fileVars, submitted, lost, exit>>

Compthread(i) ==
  \/ Compress(i)
  \/ TakeTurn(i)
  \/ Recompress(i)
  \/ WriteChunkHeader(i)
  \/ WriteLink(i)
  \/ WriteBody(i)
  \/ ReleaseTurn(i)
  \/ PostSem(i)

\* if (fatal_msg) failure(...), the last statement of a thread that gave up.
FatalExit ==
  /\ doomed
  /\ EndProcess("failure")
  /\ UNCHANGED flushed

\* fatal() deeper in the call tree (get_seek, get_rand, rewrite_encrypted) ends
\* the process on the spot.
ThreadExits(i) ==
  /\ pc[i] \in IF Encrypt THEN {"compress", "header", "link", "body"} ELSE {"header"}
  /\ EndProcess("failure")
  /\ UNCHANGED flushed

\* The process has ended.
Ended == exit # "running" /\ UNCHANGED vars

Next ==
  \/ MainStep
  \/ \E i \in Slot : Compthread(i)
  \/ FatalExit
  \/ MainFails
  \/ \E i \in Slot : ThreadExits(i)
  \/ Ended

\* The scheduler runs every thread that can go on.  No failure has to happen.
Fairness ==
  /\ WF_vars(MainStep)
  /\ \A i \in Slot : WF_vars(Compthread(i))
  /\ WF_vars(FatalExit)

Spec == Init /\ [][Next]_vars

FairSpec == Spec /\ Fairness

----------------------------------------------------------------------------
(* Properties. *)

ThreadPC ==
  {"idle", "compress", "wait", "wait_retry", "wait_out", "recompress", "header",
   "link", "body", "out", "post"}

MainPC ==
  {"pass", "write", "close0", "close1", "seal_begin", "seal_wait", "seal",
   "flush_begin", "flush_wait", "flush", "close_begin", "close_wait", "trailer", "done"}

ItemType ==
  [kind : {"rcd", "init", "block"}, chunk : 1..MaxChunks, stream : Streams, n : Nat,
   eof : {0, 1}, next : Nat, sealed : Nat]

BlockType == [chunk : 1..MaxChunks, stream : Streams, slot : Slot]

FlagsOK ==
  /\ fatal_msg \in [Slot -> BOOLEAN]
  /\ doomed \in BOOLEAN
  /\ lost \in BOOLEAN

PoolOK ==
  /\ threads \in 1..PoolSize
  /\ ring_i \in Slot
  /\ output_thread \in Slot
  /\ released \in Nat
  /\ cksem \in [Slot -> 0..1]
  /\ pc \in [Slot -> ThreadPC]
  /\ job \in [Slot -> Nat]
  /\ faults \in 0..MaxFaults
  /\ submitted \in Seq(BlockType)

MainOK ==
  /\ mpc \in MainPC
  /\ wait_left \in 0..PoolSize
  /\ wait_at \in Slot
  /\ chunk \in 0..MaxChunks
  /\ flushes \in 0..MaxFlush
  /\ eof \in {0, 1}
  /\ exit \in {"running", "success", "failure"}

FileOK ==
  /\ chunks \in [1..MaxChunks -> Nat]
  /\ last_head \in [1..MaxChunks -> [Streams -> Nat]]
  /\ last_headofs \in [1..MaxChunks -> [Streams -> Nat]]
  /\ archive \in Seq(ItemType)
  /\ flushed \in Nat

\* Every variable keeps its type; in particular the ring indexes ring_i,
\* output_thread and close_thread always name a slot of the allocated pool.
TypeOK == FlagsOK /\ PoolOK /\ MainOK /\ FileOK

\* clear_buffer only ever waits on the semaphore of a slot that
\* prepare_streamout_threads allocated ("Make sure this thread doesn't already
\* exist", comment of clear_buffer), also after open_stream_out has made the
\* ring smaller.
RingInPool == ring_i \in Slot

\* The thread is between taking its turn and giving it up.
Writing(i) == pc[i] \in {"recompress", "header", "link", "body", "out"}

MainWriting == mpc \in {"seal", "flush", "trailer"}

\* The output descriptor, its position and the sinfo of a chunk are not locked:
\* at any time at most one thread of the pool works on them, and the main
\* thread does so only when none does.
OneWriter ==
  /\ \A i, j \in Slot : Writing(i) /\ Writing(j) => i = j
  /\ MainWriting => \A i \in Slot : ~Writing(i)

\* The blocks stand in the archive in the order in which they were handed to
\* clear_buffer, whatever order their compression finished in, each chunk's
\* blocks behind its own chunk header and none behind a later one.
BlocksInOrder ==
  \A j, k \in DOMAIN archive : j < k =>
    /\ archive[j].chunk <= archive[k].chunk
    /\ archive[k].kind = "rcd" => archive[j].chunk < archive[k].chunk
    /\ archive[j].kind = "block" /\ archive[k].kind = "block" => archive[j].n < archive[k].n

\* Some block was or is about to be given up.
Failing == lost \/ \E i \in Slot : fatal_msg[i]

SameStream(a, b) == a.chunk = b.chunk /\ a.stream = b.stream

\* The item that follows k in its stream: a later block, or the block a thread
\* is about to append, or none.
Successor(k) ==
  LET later == {j \in DOMAIN archive : j > k /\ archive[j].kind = "block"
                                             /\ SameStream(archive[j], archive[k])}
  IN IF later # {} THEN CHOOSE j \in later : \A l \in later : j <= l
     ELSE IF \E i \in Slot : pc[i] = "body" /\ SameStream(Block(i), archive[k])
     THEN Len(archive) + 1
     ELSE 0

\* Following the links from a chunk's initial stream header visits all blocks
\* of that stream, in order, and nothing else ("last_head links stay
\* consistent", comment of compthread).
StreamChains ==
  ~Failing /\ exit # "failure" =>
    \A k \in DOMAIN archive :
      archive[k].kind # "rcd" => archive[k].next = Successor(k)

WrittenBlocks == {archive[k].n : k \in {j \in DOMAIN archive : archive[j].kind = "block"}}

\* When the program ends successfully and no thread gave up, every block that
\* was handed over is in the archive, every header of an encrypted archive was
\* encrypted exactly once and everything was flushed.
SuccessIsComplete ==
  exit = "success" /\ ~lost =>
    /\ WrittenBlocks = DOMAIN submitted
    /\ \A k \in DOMAIN archive :
         archive[k].sealed = IF Encrypt /\ archive[k].kind # "rcd" THEN 1 ELSE 0
    /\ flushed = Len(archive)

\* As long as no thread gave up, a header that was encrypted, and whatever has
\* left for the pipe, is never written again ("After a block is fully written it is immutable",
\* doc/magic.header.txt).
Immutable ==
  [][\A k \in DOMAIN archive :
       ~lost /\ (archive[k].sealed > 0 \/ k <= flushed) => archive'[k] = archive[k]]_vars

\* An RCD says that no chunk follows only if none does ("1 = no rzip chunk
\* follows this one in the archive", doc/magic.header.txt); the flag is read
\* from control when the chunk's first block is written, not when the chunk was
\* begun.
EofIsLast ==
  \A k \in DOMAIN archive : archive[k].kind = "rcd" /\ archive[k].eof = 1 =>
    archive[k].chunk = chunk /\ eof = 1

\* A process that ends with LRZIP_EXIT_SUCCESS ("completed successfully",
\* util.h) has dropped no block.
SuccessIsHonest == exit = "success" => ~lost

\* Every run of the pool ends: no thread waits for a turn or a semaphore for ever
\* ("Every exit path must claim and release that ordering slot so other workers
\* cannot hang", comment of compthread).
Terminates == <>(exit # "running")

Ordered ==
  INSTANCE OrderedOutput
  WITH Window <- PoolSize, taken <- Len(submitted), settled <- released,
       written <- WrittenBlocks, status <- exit

\* The pool implements the ordered output it promises.
ImplementsOrderedOutput == Ordered!Spec
=============================================================================
