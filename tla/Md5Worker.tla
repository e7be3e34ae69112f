----------------------------- MODULE Md5Worker -----------------------------
(***************************************************************************)
(* The MD5 worker of rzip.c and of runzip.c: one long-lived thread that     *)
(* hashes batches from one reused buffer.  Two semaphores pass the buffer  *)
(* back and forth: cksum_worksem when a batch is ready, cksumsem when the  *)
(* worker is done with it.  The compressor posts every batch it copies,    *)
(* the decompressor fills the buffer over many calls and posts it when it  *)
(* is full.  Either may convert the chunk in place with a filter, but the  *)
(* digest is that of the original bytes.                                   *)
(*                                                                         *)
(* Byte number p of the file is p itself, and -p while its chunk is in the *)
(* filtered form.  The digest is the sequence of bytes it was fed.         *)
(***************************************************************************)
EXTENDS Integers, Sequences

CONSTANTS
  Capacity,   \* checksum.capacity
  MaxChunks,  \* bound: chunks of the file
  MaxChunk    \* bound: bytes of a chunk

ASSUME CapacityAssumption == Capacity \in Nat \ {0}
ASSUME BoundsAssumption == MaxChunks \in Nat /\ MaxChunk \in Nat

VARIABLES
  mode,       \* "rzip" compresses, "runzip" decompresses
  mpc,        \* where the main thread is
  back,       \* where it goes on when the bytes up to upto have been fed
  chunk_no,   \* chunks begun
  chunk_end,  \* last byte of the current chunk
  filtered,   \* the chunk's bytes in memory are in the filtered form
  md5_done,   \* st->chunk_md5_done
  fed,        \* last byte copied to the buffer
  upto,       \* last byte the current md5_queue or runzip_md5_update is given
  cksumsem,
  cksum_worksem,
  shutdown,   \* checksum.shutdown
  filling,    \* checksum.filling
  buf,        \* the first checksum.len bytes of checksum.buf
  ctx,        \* the bytes the digest has seen
  wpc,        \* where the worker is
  aborted     \* runzip_chunk has failed

fileVars == <<mode, chunk_no, chunk_end, filtered, md5_done, aborted>>
feedVars == <<mpc, back, fed, upto>>
semVars == <<cksumsem, cksum_worksem>>
batchVars == <<shutdown, filling, buf>>
workVars == <<ctx, wpc>>
vars == <<fileVars, feedVars, semVars, batchVars, workVars>>

\* The worker is started with cksumsem posted and the buffer empty.
Init ==
  /\ mode \in {"rzip", "runzip"}
  /\ mpc = "chunk"
  /\ back = "chunk"
  /\ chunk_no = 0
  /\ chunk_end = 0
  /\ filtered = FALSE
  /\ md5_done = FALSE
  /\ fed = 0
  /\ upto = 0
  /\ cksumsem = 1
  /\ cksum_worksem = 0
  /\ shutdown = FALSE
  /\ filling = FALSE
  /\ buf = <<>>
  /\ ctx = <<>>
  /\ wpc = "wait"
  /\ aborted = FALSE

\* What the main thread finds in memory, n bytes behind byte number p.
Bytes(p, n) == [k \in 1..n |-> IF filtered THEN -(p + k) ELSE p + k]

Smaller(a, b) == IF a < b THEN a ELSE b

\* The bytes up to to are fed, then the main thread goes on at then.
Feed(to, then) == mpc' = "feed" /\ upto' = to /\ back' = then /\ fed' = fed

----------------------------------------------------------------------------
(* rzip_fd, rzip_chunk and hash_search. *)

\* The next chunk of n bytes.  A chunk that will be filtered is queued first.
RzipChunk(n, prefilter) ==
  /\ mode = "rzip"
  /\ mpc = "chunk"
  /\ chunk_no < MaxChunks
  /\ chunk_no' = chunk_no + 1
  /\ chunk_end' = chunk_end + n
  /\ md5_done' = prefilter
  /\ filtered' = FALSE
  /\ IF prefilter THEN Feed(chunk_end', "convert")
     ELSE mpc' = "search" /\ UNCHANGED <<back, fed, upto>>
  /\ UNCHANGED <<mode, aborted, semVars, batchVars, workVars>>

\* lrz_filter_convert_mem on the private map.
ConvertChunk ==
  /\ mpc = "convert"
  /\ filtered' = TRUE
  /\ mpc' = "search"
  /\ UNCHANGED <<mode, chunk_no, chunk_end, md5_done, aborted, back, fed, upto, semVars,
                 batchVars, workVars>>

\* The search has passed cksum_limit: one batch is queued.
HashSearch ==
  /\ mpc = "search"
  /\ ~md5_done
  /\ fed < chunk_end
  /\ Feed(Smaller(fed + Capacity, chunk_end), "search")
  /\ UNCHANGED <<fileVars, semVars, batchVars, workVars>>

\* The search is over: the tail is queued unless the chunk is hashed already.
QueueTail ==
  /\ mpc = "search"
  /\ Feed(IF md5_done THEN fed ELSE chunk_end, "drain")
  /\ UNCHANGED <<fileVars, semVars, batchVars, workVars>>

\* md5_drain: cksumsem is waited for and posted again.
Md5Drain ==
  /\ mpc = "drain"
  /\ cksumsem > 0
  /\ mpc' = "chunk"
  /\ UNCHANGED <<fileVars, back, fed, upto, semVars, batchVars, workVars>>

\* Fault: the buffer is taken without waiting for the worker.
TakeBufferAtOnce ==
  /\ mpc = "feed"
  /\ fed < upto
  /\ ~filling
  /\ cksumsem' = 0
  /\ mpc' = IF mode = "rzip" THEN "copy" ELSE "feed"
  /\ filling' = (mode = "runzip")
  /\ buf' = IF mode = "runzip" THEN <<>> ELSE buf
  /\ UNCHANGED <<fileVars, back, fed, upto, cksum_worksem, shutdown, workVars>>

\* md5_queue and runzip_md5_update wait for the worker to leave the buffer.
TakeBuffer ==
  /\ mpc = "feed"
  /\ fed < upto
  /\ ~filling
  /\ cksumsem > 0
  /\ cksumsem' = cksumsem - 1
  /\ mpc' = IF mode = "rzip" THEN "copy" ELSE "feed"
  /\ filling' = (mode = "runzip")
  /\ buf' = IF mode = "runzip" THEN <<>> ELSE buf
  /\ UNCHANGED <<fileVars, back, fed, upto, cksum_worksem, shutdown, workVars>>

\* md5_queue: every batch is copied and posted.
Md5Queue ==
  LET n == Smaller(upto - fed, Capacity) IN
  /\ mpc = "copy"
  /\ buf' = Bytes(fed, n)
  /\ fed' = fed + n
  /\ cksum_worksem' = cksum_worksem + 1
  /\ mpc' = "feed"
  /\ UNCHANGED <<fileVars, back, upto, cksumsem, shutdown, filling, workVars>>

\* All bytes of the call have been fed.
FeedReturns ==
  /\ mpc = "feed"
  /\ fed = upto
  /\ mpc' = back
  /\ UNCHANGED <<fileVars, back, fed, upto, semVars, batchVars, workVars>>

----------------------------------------------------------------------------
(* runzip_fd and runzip_chunk. *)

\* Bytes are appended to the batch; a full batch is posted.
RunzipMd5Update ==
  LET n == Smaller(upto - fed, Capacity - Len(buf)) IN
  /\ mpc = "feed"
  /\ fed < upto
  /\ filling
  /\ buf' = buf \o Bytes(fed, n)
  /\ fed' = fed + n
  /\ IF Len(buf) + n = Capacity
     THEN cksum_worksem' = cksum_worksem + 1 /\ filling' = FALSE
     ELSE UNCHANGED <<cksum_worksem, filling>>
  /\ UNCHANGED <<fileVars, mpc, back, upto, cksumsem, shutdown, workVars>>

\* The next chunk, in the filtered domain or not.
RunzipChunk(n, chunk_filter) ==
  /\ mode = "runzip"
  /\ mpc = "chunk"
  /\ chunk_no < MaxChunks
  /\ chunk_no' = chunk_no + 1
  /\ chunk_end' = chunk_end + n
  /\ filtered' = chunk_filter
  /\ mpc' = "tokens"
  /\ UNCHANGED <<mode, md5_done, aborted, back, fed, upto, semVars, batchVars, workVars>>

\* Fault: match_cksum also hashes bytes that are still filtered.
HashFiltered(to) ==
  /\ mpc = "tokens"
  /\ to \in (fed + 1)..chunk_end
  /\ Feed(to, "tokens")
  /\ UNCHANGED <<fileVars, semVars, batchVars, workVars>>

\* match_cksum: the bytes of a token, or of a slice that was converted back.
MatchCksum(to) ==
  /\ mpc = "tokens"
  /\ ~filtered
  /\ to \in (fed + 1)..chunk_end
  /\ Feed(to, "tokens")
  /\ UNCHANGED <<fileVars, semVars, batchVars, workVars>>

\* unfilter_chunk, when the whole chunk is written.
UnfilterChunk ==
  /\ mpc = "tokens"
  /\ filtered
  /\ filtered' = FALSE
  /\ UNCHANGED <<mode, chunk_no, chunk_end, md5_done, aborted, feedVars, semVars, batchVars,
                 workVars>>

RunzipChunkDone ==
  /\ mpc = "tokens"
  /\ ~filtered
  /\ fed = chunk_end
  /\ mpc' = "chunk"
  /\ UNCHANGED <<fileVars, back, fed, upto, semVars, batchVars, workVars>>

\* runzip_chunk fails; runzip_fd stops the worker before it returns.
RunzipFails ==
  /\ mpc = "tokens"
  /\ aborted' = TRUE
  /\ mpc' = "stop"
  /\ UNCHANGED <<mode, chunk_no, chunk_end, filtered, md5_done, back, fed, upto, semVars,
                 batchVars, workVars>>

----------------------------------------------------------------------------
(* Stopping the worker. *)

\* The last chunk is done.
LastChunk ==
  /\ mpc = "chunk"
  /\ chunk_no > 0
  /\ mpc' = "stop"
  /\ UNCHANGED <<fileVars, back, fed, upto, semVars, batchVars, workVars>>

\* Fault: the partial batch is dropped.
DropPartial ==
  /\ mpc = "stop"
  /\ filling
  /\ cksumsem' = cksumsem + 1
  /\ cksum_worksem' = cksum_worksem
  /\ filling' = FALSE
  /\ UNCHANGED <<fileVars, feedVars, shutdown, buf, workVars>>

\* Fault: neither semaphore is posted for the partial batch.
ForgetPartial ==
  /\ mpc = "stop"
  /\ filling
  /\ filling' = FALSE
  /\ UNCHANGED <<fileVars, feedVars, semVars, shutdown, buf, workVars>>

\* runzip_md5_stop posts a partial batch.
FlushPartial ==
  /\ mpc = "stop"
  /\ filling
  /\ IF buf # <<>>
     THEN cksum_worksem' = cksum_worksem + 1 /\ cksumsem' = cksumsem
     ELSE cksumsem' = cksumsem + 1 /\ cksum_worksem' = cksum_worksem
  /\ filling' = FALSE
  /\ UNCHANGED <<fileVars, feedVars, shutdown, buf, workVars>>

\* md5_thread_stop: when the worker is idle it is asked to exit ...
StopWorker ==
  /\ mpc = "stop"
  /\ ~filling
  /\ cksumsem > 0
  /\ cksumsem' = cksumsem - 1
  /\ shutdown' = TRUE
  /\ buf' = <<>>
  /\ cksum_worksem' = cksum_worksem + 1
  /\ mpc' = "join"
  /\ UNCHANGED <<fileVars, back, fed, upto, filling, workVars>>

\* ... and joined; then md5_finish_ctx reads the digest.
JoinWorker ==
  /\ mpc = "join"
  /\ wpc = "exit"
  /\ mpc' = "done"
  /\ UNCHANGED <<fileVars, back, fed, upto, semVars, batchVars, workVars>>

RzipStep ==
  \/ \E n \in 0..MaxChunk, f \in BOOLEAN : RzipChunk(n, f)
  \/ ConvertChunk
  \/ HashSearch
  \/ QueueTail
  \/ Md5Queue
  \/ Md5Drain

RunzipStep ==
  \/ \E n \in 0..MaxChunk, f \in BOOLEAN : RunzipChunk(n, f)
  \/ RunzipMd5Update
  \/ \E to \in 1..(MaxChunks * MaxChunk) : MatchCksum(to)
  \/ UnfilterChunk
  \/ RunzipChunkDone
  \/ RunzipFails
  \/ FlushPartial

MainStep ==
  RzipStep \/ RunzipStep \/ TakeBuffer \/ FeedReturns \/ LastChunk \/ StopWorker \/ JoinWorker

----------------------------------------------------------------------------
(* md5_worker and runzip_md5_worker. *)

WorkerWake ==
  /\ wpc = "wait"
  /\ cksum_worksem > 0
  /\ cksum_worksem' = cksum_worksem - 1
  /\ IF shutdown
     THEN wpc' = "exit" /\ cksumsem' = cksumsem + 1
     ELSE wpc' = "process" /\ cksumsem' = cksumsem
  /\ UNCHANGED <<fileVars, feedVars, batchVars, ctx>>

ProcessBatch ==
  /\ wpc = "process"
  /\ ctx' = ctx \o buf
  /\ cksumsem' = cksumsem + 1
  /\ wpc' = "wait"
  /\ UNCHANGED <<fileVars, feedVars, cksum_worksem, batchVars>>

WorkerStep == WorkerWake \/ ProcessBatch

Ended == mpc = "done" /\ UNCHANGED vars

Next == MainStep \/ WorkerStep \/ Ended

\* Both threads are scheduled; the file is finite.
Fairness == WF_vars(MainStep) /\ WF_vars(WorkerStep)

Spec == Init /\ [][Next]_vars

FairSpec == Spec /\ Fairness

----------------------------------------------------------------------------
(* Properties. *)

FlagsOK ==
  /\ filtered \in BOOLEAN
  /\ md5_done \in BOOLEAN
  /\ shutdown \in BOOLEAN
  /\ filling \in BOOLEAN
  /\ aborted \in BOOLEAN

DataOK ==
  /\ mode \in {"rzip", "runzip"}
  /\ mpc \in {"chunk", "convert", "search", "feed", "copy", "drain", "tokens", "stop",
              "join", "done"}
  /\ back \in {"chunk", "convert", "search", "drain", "tokens"}
  /\ chunk_no \in 0..MaxChunks
  /\ chunk_end \in Nat
  /\ fed \in Nat
  /\ upto \in Nat
  /\ cksumsem \in 0..1
  /\ cksum_worksem \in 0..1
  /\ buf \in Seq(Int)
  /\ ctx \in Seq(Int)
  /\ wpc \in {"wait", "process", "exit"}

\* Every variable keeps its type; the two semaphores are never posted twice and
\* the batch never outgrows the buffer.
TypeOK == FlagsOK /\ DataOK /\ Len(buf) <= Capacity

\* The main thread has the right to write the buffer.
MainOwns == filling \/ mpc = "copy"

\* The buffer is not locked: whenever the main thread may write it, also between
\* two calls of runzip_md5_update, no batch is waiting and the worker does not
\* read it ("same semaphore protocol as compress", comment of runzip.c).
BufferOwned == MainOwns => wpc # "process" /\ cksum_worksem = 0

\* The digest has seen the first bytes of the file, in order, each once and in its
\* original form, filtered chunk or not ("The stored md5 must be of the original
\* bytes", comment of rzip_chunk).
DigestInOrder == \A k \in DOMAIN ctx : ctx[k] = k

\* When the worker has been joined the digest has seen all of the file that was
\* fed, the last partial batch included ("Flush any partial batch, wait for the
\* worker to go idle, then join", comment of runzip_md5_stop).
DigestComplete ==
  mpc = "done" => Len(ctx) = fed /\ (~aborted => fed = chunk_end)

\* The worker can always be stopped, also after runzip_chunk has failed in the
\* middle of a batch.
Terminates == <>(mpc = "done" /\ wpc = "exit")
=============================================================================
