------------------------------ MODULE StreamIn ------------------------------
(***************************************************************************)
(* The reading side of stream.c, for one rzip chunk.  runzip_chunk reads   *)
(* tokens from stream 0 through a window and literals from stream 1.       *)
(* read_stream serves both from a stream's current buffer and calls        *)
(* fill_buffer for the next one.  fill_buffer reads blocks ahead, starts a *)
(* thread (ucompthread) for each in the stream's own ring of slots, and    *)
(* joins the thread whose block is next.  A thread that cannot decompress  *)
(* tries again once, when output_thread names it.                          *)
(*                                                                         *)
(* A block is its index in the chunk, a unit of stream data one token or   *)
(* one literal byte, a header's link the index of the stream's next block. *)
(***************************************************************************)
EXTENDS Integers, Sequences, FiniteSets

CONSTANTS
  Threads,    \* control->threads
  BufSize,    \* the writer's sinfo->bufsize, in units
  MaxRam,     \* control->maxram, in units
  Window,     \* RUNZIP_S0_WIN, in units
  Framed,     \* the chunk follows an LRZC header, so payload_end is known
  MaxFull,    \* bound: full blocks in the chunk
  MaxFaults   \* bound: threads that fail their first attempt

ASSUME ThreadsAssumption == Threads \in Nat \ {0}
ASSUME SizesAssumption ==
  BufSize \in Nat \ {0} /\ MaxRam \in Nat \ {0} /\ Window \in Nat \ {0}
ASSUME FramedAssumption == Framed \in BOOLEAN
ASSUME BoundsAssumption == MaxFull \in Nat /\ MaxFaults \in Nat

Streams == 0..1

\* open_stream_in: one slot for stream 0, the rest for stream 1.
TotalThreads == IF Threads > 1 THEN Threads + 2 ELSE Threads + 1

Slot == 0..(TotalThreads - 1)
BaseThread(s) == s
StreamThreads(s) == IF s = 0 THEN 1 ELSE TotalThreads - 1

----------------------------------------------------------------------------
(* The chunk as the compressor wrote it: buffers flushed when full, in any  *)
(* interleaving of the two streams, and at the end what was left in each,   *)
(* even nothing.                                                            *)

VARIABLE chunk

Blocks ==
  [k \in 1..Len(chunk.full) |-> [stream |-> chunk.full[k], len |-> BufSize]]
    \o <<[stream |-> 0, len |-> chunk.tail[0]], [stream |-> 1, len |-> chunk.tail[1]]>>

\* How much data the stream s of chunk c holds.
UnitsOf(c, s) ==
  BufSize * Cardinality({k \in DOMAIN c.full : c.full[k] = s}) + c.tail[s]

Units(s) == UnitsOf(chunk, s)

\* Stream 0 ends with the end marker; a chunk with more tokens than that begins
\* with a literal, as hash_search starts with an empty table.
Chunks ==
  {c \in [full : UNION {[1..n -> Streams] : n \in 0..MaxFull},
          tail : [Streams -> 0..(BufSize - 1)]] :
     UnitsOf(c, 0) >= 1 /\ (UnitsOf(c, 1) = 0 <=> UnitsOf(c, 0) = 1)}

\* The stream's blocks behind block k, and the link in the header of block k.
Later(s, k) == {j \in (k + 1)..Len(Blocks) : Blocks[j].stream = s}
FirstOf(S) == IF S = {} THEN 0 ELSE CHOOSE j \in S : \A l \in S : j <= l
LastHead(s, k) == FirstOf(Later(s, k))

----------------------------------------------------------------------------

VARIABLES
  last_head,      \* s->last_head: where the stream's next header is
  eos,            \* s->eos: no block is left to be started
  uthread_no,     \* the slot for the stream's next thread
  unext_thread,   \* the slot whose block the stream needs next
  ucthreads,      \* per slot: busy, its block, and whether it is decompressed
  buf,            \* s->buf: the current block (0: none) and its unread units
  ram_alloced,    \* sinfo->ram_alloced
  total_read,     \* sinfo->total_read, in blocks
  output_thread,  \* the slot that may try again
  pc,             \* the thread of each slot
  faults,         \* first attempts that have failed
  mpc,            \* where the main thread is
  cur,            \* the stream read_stream works on
  want,           \* what it still has to deliver
  s0_have,        \* tokens in the window
  tokens,         \* tokens taken from the window
  literals,       \* units of stream 1 that were asked for
  taken,          \* history: the blocks handed to the reader
  exit            \* "running", or how the chunk ended

readerVars == <<mpc, cur, want, s0_have, tokens, literals>>
streamVars == <<last_head, eos, uthread_no, unext_thread, buf, total_read, taken>>
poolVars == <<ucthreads, ram_alloced, output_thread, pc, faults>>
vars == <<chunk, readerVars, streamVars, poolVars, exit>>

NoBlock == [busy |-> FALSE, block |-> 0, plain |-> FALSE]
NoBuf == [block |-> 0, left |-> 0]

Init ==
  /\ chunk \in Chunks
  /\ last_head = [s \in Streams |-> LastHead(s, 0)]
  /\ eos = [s \in Streams |-> FALSE]
  /\ uthread_no = [s \in Streams |-> BaseThread(s)]
  /\ unext_thread = [s \in Streams |-> BaseThread(s)]
  /\ ucthreads = [i \in Slot |-> NoBlock]
  /\ buf = [s \in Streams |-> NoBuf]
  /\ ram_alloced = 0
  /\ total_read = 0
  /\ output_thread = 0
  /\ pc = [i \in Slot |-> "none"]
  /\ faults = 0
  /\ mpc = "token"
  /\ cur = 0
  /\ want = 0
  /\ s0_have = 0
  /\ tokens = 0
  /\ literals = 0
  /\ taken = [s \in Streams |-> <<>>]
  /\ exit = "running"

\* ++i == s->base_thread + s->total_threads ? s->base_thread : i
Advance(s, i) == IF i + 1 = BaseThread(s) + StreamThreads(s) THEN BaseThread(s) ELSE i + 1

\* The process ends: fatal(), failure(), or a chunk that is closed.
Exit(how) ==
  /\ exit' = how
  /\ mpc' = "done"
  /\ UNCHANGED <<chunk, cur, want, s0_have, tokens, literals, streamVars>>

----------------------------------------------------------------------------
(* The main thread: runzip_chunk and read_stream. *)

\* A literal of n units is read from stream 1; a match (n = 0) needs nothing.
Token(n) ==
  /\ literals' = literals + n
  /\ cur' = IF n = 0 THEN cur ELSE 1
  /\ want' = n
  /\ mpc' = IF n = 0 THEN "token" ELSE "read"

\* The lengths the next literal can have: the first token is a literal, the
\* literals add up to stream 1.
LiteralLengths ==
  LET left == Units(1) - literals
  IN IF tokens + 2 = Units(0) THEN {left}
     ELSE IF tokens = 0 THEN 1..left ELSE 0..left

\* read_header takes the next token from the window.
ReadHeader ==
  /\ mpc = "token"
  /\ s0_have > 0
  /\ s0_have' = s0_have - 1
  /\ tokens' = tokens + 1
  /\ IF tokens' = Units(0)
     THEN mpc' = "close" /\ UNCHANGED <<cur, want, literals>>
     ELSE \E n \in LiteralLengths : Token(n)
  /\ UNCHANGED <<chunk, streamVars, poolVars, exit>>

\* s0_need: an empty window is filled as far as stream 0 goes.
S0Need ==
  /\ mpc = "token"
  /\ s0_have = 0
  /\ cur' = 0
  /\ want' = Window
  /\ mpc' = "read"
  /\ UNCHANGED <<chunk, s0_have, tokens, literals, streamVars, poolVars, exit>>

\* read_stream copies what the buffer has; the rest needs the next block.
ReadStream ==
  LET left == buf[cur].left
      n == IF left < want THEN left ELSE want
  IN
  /\ mpc = "read"
  /\ want' = want - n
  /\ buf' = [buf EXCEPT ![cur].left = @ - n]
  /\ mpc' = IF want' = 0 THEN "return" ELSE "fill"
  /\ UNCHANGED <<chunk, cur, s0_have, tokens, literals, last_head, eos, uthread_no,
                 unext_thread, total_read, taken, poolVars, exit>>

\* read_stream returns.  A short literal is fatal; stream 0 may come to its end
\* but must have given something.
ReadReturns ==
  /\ mpc = "return"
  /\ IF cur = 0 /\ want < Window
     THEN /\ s0_have' = Window - want
          /\ mpc' = "token"
          /\ UNCHANGED <<chunk, cur, want, tokens, literals, streamVars, exit>>
     ELSE IF cur = 1 /\ want = 0
     THEN /\ mpc' = "token"
          /\ UNCHANGED <<chunk, cur, want, s0_have, tokens, literals, streamVars, exit>>
     ELSE Exit("short")
  /\ UNCHANGED poolVars

----------------------------------------------------------------------------
(* fill_buffer. *)

\* The used buffer is freed.  At the end of the stream only the blocks that were
\* read ahead are left.
FillBuffer ==
  /\ mpc = "fill"
  /\ buf' = [buf EXCEPT ![cur] = NoBuf]
  /\ mpc' = IF ~eos[cur] THEN "fetch"
            ELSE IF ucthreads[unext_thread[cur]].busy THEN "turn" ELSE "return"
  /\ UNCHANGED <<chunk, cur, want, s0_have, tokens, literals, last_head, eos, uthread_no,
                 unext_thread, total_read, taken, poolVars, exit>>

\* Fault: without the limit on memory.
GreedyAfterFetch(s, link, i, pool, ram) ==
  IF link # 0 /\ i # unext_thread[s] /\ ~pool[i].busy THEN "fetch" ELSE "turn"

\* Where fill_buffer goes from skip_empty: read another block if the next slot is
\* free and the memory limit allows it.  link is the header's last_head, i the
\* stream's next slot, pool and ram the state by then.
AfterFetch(s, link, i, pool, ram) ==
  IF link # 0 /\ i # unext_thread[s] /\ ~pool[i].busy /\ ram < MaxRam
  THEN "fetch" ELSE "turn"

\* An empty block at the end of stream 1 has no data to start a thread for.
SkipEmpty ==
  LET k == last_head[cur] IN
  /\ cur = 1
  /\ Blocks[k].len = 0
  /\ LastHead(cur, k) = 0
  /\ total_read' = total_read + 1
  /\ eos' = [eos EXCEPT ![cur] = TRUE]
  /\ mpc' = "turn"
  /\ UNCHANGED <<chunk, cur, want, s0_have, tokens, literals, last_head, uthread_no,
                 unext_thread, buf, taken, poolVars, exit>>

\* A block's header and data are read and a thread is started for it.
StartThread ==
  LET k == last_head[cur]
      i == uthread_no[cur]
      link == LastHead(cur, k)
      len == Blocks[k].len
  IN
  /\ len > 0
  /\ total_read' = total_read + 1
  /\ ram_alloced' = ram_alloced + len
  /\ ucthreads' = [ucthreads EXCEPT ![i] = [busy |-> TRUE, block |-> k, plain |-> FALSE]]
  /\ pc' = [pc EXCEPT ![i] = "run"]
  /\ last_head' = [last_head EXCEPT ![cur] = link]
  /\ uthread_no' = [uthread_no EXCEPT ![cur] = Advance(cur, i)]
  /\ eos' = IF link = 0 THEN [eos EXCEPT ![cur] = TRUE] ELSE eos
  /\ mpc' = AfterFetch(cur, link, Advance(cur, i), ucthreads', ram_alloced')
  /\ UNCHANGED <<chunk, cur, want, s0_have, tokens, literals, unext_thread, buf, taken,
                 output_thread, faults, exit>>

\* "Invalid data compressed len": an empty block anywhere else.
InvalidData ==
  /\ Blocks[last_head[cur]].len = 0
  /\ cur = 0 \/ LastHead(cur, last_head[cur]) # 0
  /\ Exit("invalid")
  /\ UNCHANGED poolVars

\* fill_another
FillAnother ==
  /\ mpc = "fetch"
  /\ IF ucthreads[uthread_no[cur]].busy
     THEN Exit("busy") /\ UNCHANGED poolVars
     ELSE SkipEmpty \/ InvalidData \/ StartThread

\* Fault: the turn is not passed on before the thread is waited for.
KeepTurn ==
  /\ mpc = "turn"
  /\ mpc' = "join"
  /\ UNCHANGED <<chunk, cur, want, s0_have, tokens, literals, streamVars, poolVars, exit>>

\* out: the thread whose block is needed may try again.
SetTurn ==
  /\ mpc = "turn"
  /\ output_thread' = unext_thread[cur]
  /\ mpc' = "join"
  /\ UNCHANGED <<chunk, cur, want, s0_have, tokens, literals, streamVars, ucthreads,
                 ram_alloced, pc, faults, exit>>

\* Fault: the memory of the block is not given back to the budget.
TakeBlockLeaks(s, i) ==
  LET k == ucthreads[i].block IN
  /\ ucthreads' = [ucthreads EXCEPT ![i] = NoBlock]
  /\ pc' = [pc EXCEPT ![i] = "none"]
  /\ buf' = [buf EXCEPT ![s] = [block |-> k, left |-> Blocks[k].len]]
  /\ taken' = [taken EXCEPT ![s] = Append(@, [block |-> k, plain |-> ucthreads[i].plain])]
  /\ unext_thread' = [unext_thread EXCEPT ![s] = Advance(s, i)]
  /\ mpc' = "read"
  /\ UNCHANGED <<chunk, cur, want, s0_have, tokens, literals, last_head, eos, uthread_no,
                 total_read, output_thread, faults, exit, ram_alloced>>

\* What fill_buffer does with slot i once it takes its block for stream s.
TakeBlock(s, i) ==
  LET k == ucthreads[i].block IN
  /\ ucthreads' = [ucthreads EXCEPT ![i] = NoBlock]
  /\ pc' = [pc EXCEPT ![i] = "none"]
  /\ ram_alloced' = ram_alloced - Blocks[k].len
  /\ buf' = [buf EXCEPT ![s] = [block |-> k, left |-> Blocks[k].len]]
  /\ taken' = [taken EXCEPT ![s] = Append(@, [block |-> k, plain |-> ucthreads[i].plain])]
  /\ unext_thread' = [unext_thread EXCEPT ![s] = Advance(s, i)]
  /\ mpc' = "read"
  /\ UNCHANGED <<chunk, cur, want, s0_have, tokens, literals, last_head, eos, uthread_no,
                 total_read, output_thread, faults, exit>>

\* Fault: the data is taken before the thread has returned.
TakeUnjoined ==
  /\ mpc = "join"
  /\ ucthreads[unext_thread[cur]].busy
  /\ TakeBlock(cur, unext_thread[cur])

\* join_pthread: wait until the data is ready, and take it.
JoinThread ==
  /\ mpc = "join"
  /\ pc[unext_thread[cur]] = "done"
  /\ TakeBlock(cur, unext_thread[cur])

\* read_buf, malloc or create_pthread fails.
MainFails ==
  /\ mpc = "fetch"
  /\ Exit("failed")
  /\ UNCHANGED poolVars

\* close_stream_in; a frame that was not read to its end is an error.
CloseStreamIn ==
  /\ mpc = "close"
  /\ IF Framed /\ total_read # Len(Blocks)
     THEN Exit("mismatch") /\ UNCHANGED output_thread
     ELSE Exit("closed") /\ output_thread' = 0
  /\ UNCHANGED <<ucthreads, ram_alloced, pc, faults>>

MainStep ==
  \/ ReadHeader
  \/ S0Need
  \/ ReadStream
  \/ ReadReturns
  \/ FillBuffer
  \/ FillAnother
  \/ SetTurn
  \/ JoinThread
  \/ CloseStreamIn

----------------------------------------------------------------------------
(* ucompthread. *)

\* The thread has decompressed its block and returns.
Finishes(i) ==
  /\ pc' = [pc EXCEPT ![i] = "done"]
  /\ ucthreads' = [ucthreads EXCEPT ![i].plain = TRUE]
  /\ UNCHANGED <<chunk, readerVars, streamVars, ram_alloced, output_thread, faults, exit>>

Decompress(i) ==
  /\ pc[i] = "run"
  /\ \/ Finishes(i)
     \/ /\ faults < MaxFaults
        /\ faults' = faults + 1
        /\ pc' = [pc EXCEPT ![i] = "wait"]
        /\ UNCHANGED <<chunk, readerVars, streamVars, ucthreads, ram_alloced,
                       output_thread, exit>>

\* while (output_thread != i) cond_wait(...)
AwaitTurn(i) ==
  /\ pc[i] = "wait"
  /\ output_thread = i
  /\ pc' = [pc EXCEPT ![i] = "retry"]
  /\ UNCHANGED <<chunk, readerVars, streamVars, ucthreads, ram_alloced, output_thread,
                 faults, exit>>

Retry(i) == pc[i] = "retry" /\ Finishes(i)

\* "Failed to decompress in ucompthread": the process ends.
RetryFails(i) ==
  /\ pc[i] = "retry"
  /\ Exit("failed")
  /\ UNCHANGED poolVars

Ucompthread(i) == Decompress(i) \/ AwaitTurn(i) \/ Retry(i)

\* The chunk has been read or the process has ended.
Ended == exit # "running" /\ UNCHANGED vars

Next ==
  \/ exit = "running" /\ MainStep
  \/ exit = "running" /\ MainFails
  \/ exit = "running" /\ \E i \in Slot : Ucompthread(i) \/ RetryFails(i)
  \/ Ended

\* The scheduler runs every thread that can go on.
Fairness ==
  /\ WF_vars(exit = "running" /\ MainStep)
  /\ \A i \in Slot : WF_vars(exit = "running" /\ Ucompthread(i))

Spec == Init /\ [][Next]_vars

FairSpec == Spec /\ Fairness

----------------------------------------------------------------------------
(* Properties. *)

\* Every variable of read_stream, fill_buffer and ucompthread keeps its type; each
\* stream's two ring indexes stay within the stream's own slots.
TypeOK ==
  /\ chunk \in Chunks
  /\ last_head \in [Streams -> 0..Len(Blocks)]
  /\ eos \in [Streams -> BOOLEAN]
  /\ \A s \in Streams :
       /\ uthread_no[s] \in BaseThread(s)..(BaseThread(s) + StreamThreads(s) - 1)
       /\ unext_thread[s] \in BaseThread(s)..(BaseThread(s) + StreamThreads(s) - 1)
  /\ ucthreads \in [Slot -> [busy : BOOLEAN, block : 0..Len(Blocks), plain : BOOLEAN]]
  /\ buf \in [Streams -> [block : 0..Len(Blocks), left : 0..BufSize]]
  /\ ram_alloced \in Nat
  /\ total_read \in 0..Len(Blocks)
  /\ output_thread \in Slot
  /\ pc \in [Slot -> {"none", "run", "wait", "retry", "done"}]
  /\ faults \in 0..MaxFaults
  /\ mpc \in {"token", "read", "return", "fill", "fetch", "turn", "join", "close", "done"}
  /\ cur \in Streams
  /\ want \in Nat
  /\ s0_have \in 0..Window
  /\ tokens \in 0..Units(0)
  /\ literals \in 0..Units(1)
  /\ exit \in {"running", "closed", "short", "invalid", "busy", "failed", "mismatch"}

\* Each stream's reader gets decompressed blocks, in the order of the links and
\* without a gap or a repetition, whichever thread was ready first and whichever
\* had to try again.
InOrder ==
  /\ TypeOK
  /\ \A s \in Streams : \A n \in DOMAIN taken[s] :
       /\ taken[s][n].plain
       /\ taken[s][n].block = LastHead(s, IF n = 1 THEN 0 ELSE taken[s][n - 1].block)

\* fill_buffer never finds the next slot of the ring still in use ("Trying to
\* start a busy thread, this shouldn't happen!"), and read_stream is never short
\* in an archive the compressor wrote ("Returning empty as soon as eos is set
\* drops the rest of the stream", comment of fill_buffer).
NeverShort == exit \notin {"busy", "short"}

\* The reader is never short, and a chunk is closed only when both streams have
\* been delivered to the last unit and no thread that still uses sinfo or its buffers is left ("We cannot safely
\* release the sinfo and pthread data here till all threads are shut down",
\* comment of close_stream_in).
ClosedIsComplete ==
  /\ NeverShort
  /\ exit = "closed" =>
       /\ \A s \in Streams, k \in DOMAIN Blocks :
            Blocks[k].stream = s /\ Blocks[k].len > 0 =>
              \E n \in DOMAIN taken[s] : taken[s][n].block = k
       /\ literals = Units(1)
       /\ \A s \in Streams : buf[s].left = 0
       /\ \A i \in Slot : pc[i] = "none"
       /\ ram_alloced = 0

\* Reading ahead holds at most one block more than the memory limit ("we're not
\* going to be allocating too much ram to generate all these threads", comment
\* of fill_buffer), whichever streams are being read.
RamBounded == ram_alloced < MaxRam + BufSize

\* The reader always comes to an end: the thread that is joined is the one that
\* may try again.
Terminates == <>(exit # "running")

\* The reader of a closed chunk stands at the chunk's end, where the next chunk
\* header is ("consume them so the next RCD stays aligned", comment of
\* fill_buffer).  An empty chunk is always the last one.
ChunkConsumed == exit = "closed" /\ Units(1) > 0 => total_read = Len(Blocks)

\* A thread that failed in parallel tries again only when the threads of all
\* earlier blocks of its stream have returned ("waiting for previous thread to
\* complete before trying again", message of ucompthread).
RetrySerialised ==
  \A i \in Slot : pc[i] = "retry" =>
    \A j \in Slot :
      /\ ucthreads[j].busy /\ pc[j] # "done"
      /\ Blocks[ucthreads[j].block].stream = Blocks[ucthreads[i].block].stream
      => ucthreads[j].block >= ucthreads[i].block
=============================================================================
