------------------------- MODULE Md5Worker_proofs -------------------------
(***************************************************************************)
(* Proofs about the MD5 worker, for every buffer size and every file.      *)
(***************************************************************************)
EXTENDS Md5Worker, TLAPS

\* Of the two semaphores, the worker and the main thread exactly one can have the
\* buffer; the worker is asked to exit only when it does not.
SemInv ==
  /\ cksumsem = 1 => cksum_worksem = 0 /\ wpc # "process" /\ ~MainOwns
  /\ cksum_worksem = 1 => wpc # "process" /\ ~MainOwns
  /\ MainOwns => wpc # "process"
  /\ filling => mode = "runzip" /\ ~shutdown
  /\ shutdown => mpc \in {"join", "done"} /\ wpc # "process"
  /\ mpc \in {"join", "done"} => shutdown
  /\ wpc = "exit" => shutdown /\ cksum_worksem = 0
  /\ mpc = "done" => wpc = "exit"

\* Where the main thread is in the file.
PlaceInv ==
  /\ fed <= chunk_end
  /\ mpc \in {"chunk", "convert", "drain"} => fed = chunk_end
  /\ mpc \in {"stop", "join", "done"} => aborted \/ fed = chunk_end
  /\ mpc \in {"convert", "search", "drain", "copy"} => mode = "rzip"
  /\ mpc = "tokens" => mode = "runzip"
  /\ mpc = "convert" => md5_done
  /\ mpc = "search" /\ md5_done => fed = chunk_end
  /\ mpc = "copy" => fed < upto
  /\ mpc \in {"feed", "copy"} =>
       /\ fed <= upto
       /\ upto <= chunk_end
       /\ fed < upto => ~filtered
       /\ back = "convert" => md5_done
       /\ back \in {"convert", "drain"} => upto = chunk_end
       /\ back \in {"convert", "search", "drain"} => mode = "rzip"
       /\ back = "search" => ~md5_done
       /\ back = "tokens" => mode = "runzip"
       /\ back # "chunk"
  /\ mode = "rzip" /\ filtered => md5_done

\* A batch is waiting for the worker, in its hands, or being filled.
Pending == cksum_worksem = 1 \/ wpc = "process" \/ filling

\* The digest and the pending batch together are the bytes fed so far.
BatchInv ==
  /\ Len(buf) <= Capacity
  /\ shutdown => Len(buf) = 0
  /\ \A k \in 1..Len(ctx) : ctx[k] = k
  /\ ~Pending => Len(ctx) = fed
  /\ Pending => /\ Len(ctx) + Len(buf) = fed
                /\ \A k \in 1..Len(buf) : buf[k] = Len(ctx) + k

IInv == FlagsOK /\ DataOK /\ SemInv /\ PlaceInv /\ BatchInv

\* Unfiltered memory holds the bytes by their numbers.
LEMMA BytesFacts ==
  ASSUME NEW p \in Nat, NEW n \in Nat
  PROVE  /\ Bytes(p, n) \in Seq(Int)
         /\ Len(Bytes(p, n)) = n
         /\ ~filtered => \A k \in 1..n : Bytes(p, n)[k] = p + k
<1>1. \A k \in 1..n : (IF filtered THEN -(p + k) ELSE p + k) \in Int
  OBVIOUS
<1> QED
  BY <1>1 DEF Bytes

\* Concatenation, pointwise.
LEMMA ConcatFacts ==
  ASSUME NEW a \in Seq(Int), NEW b \in Seq(Int)
  PROVE  /\ a \o b \in Seq(Int)
         /\ Len(a \o b) = Len(a) + Len(b)
         /\ \A k \in 1..Len(a) : (a \o b)[k] = a[k]
         /\ \A k \in (Len(a) + 1)..(Len(a) + Len(b)) : (a \o b)[k] = b[k - Len(a)]
OBVIOUS

\* A run of consecutive numbers continued by the next ones.
LEMMA AppendRun ==
  ASSUME NEW q \in Nat, NEW a \in Seq(Int), NEW b \in Seq(Int),
         \A k \in 1..Len(a) : a[k] = q + k,
         \A k \in 1..Len(b) : b[k] = q + Len(a) + k
  PROVE  /\ Len(a \o b) = Len(a) + Len(b)
         /\ \A k \in 1..Len(a \o b) : (a \o b)[k] = q + k
<1>1. Len(a) \in Nat /\ Len(b) \in Nat /\ Len(a \o b) = Len(a) + Len(b)
  BY ConcatFacts
<1>2. ASSUME NEW k \in 1..(Len(a) + Len(b)) PROVE (a \o b)[k] = q + k
  <2>1. CASE k <= Len(a)
    BY <1>1, <2>1, ConcatFacts
  <2>2. CASE k > Len(a)
    <3>1. k - Len(a) \in 1..Len(b) /\ (a \o b)[k] = b[k - Len(a)]
      BY <1>1, <2>2, ConcatFacts
    <3>2. b[k - Len(a)] = q + Len(a) + (k - Len(a))
      BY <3>1
    <3> QED
      BY <1>1, <3>1, <3>2
  <2> QED
    BY <1>1, <2>1, <2>2
<1> QED
  BY <1>1, <1>2

\* How many bytes md5_queue copies.
LEMMA QueueFacts ==
  ASSUME IInv, Md5Queue
  PROVE  LET n == Smaller(upto - fed, Capacity) IN
           n \in Nat /\ n <= Capacity /\ fed + n <= upto /\ ~filtered /\ fed < upto
<1>1. fed \in Nat /\ upto \in Nat /\ fed < upto /\ ~filtered /\ upto - fed \in Nat
  BY DEF IInv, DataOK, PlaceInv, Md5Queue
<1> QED
  BY <1>1, CapacityAssumption DEF Smaller

\* What runzip_md5_update does to the batch.
LEMMA UpdateFacts ==
  ASSUME IInv, RunzipMd5Update
  PROVE  \E n \in Nat :
           /\ Len(buf) + n <= Capacity /\ fed + n <= upto
           /\ ~filtered /\ ~shutdown /\ wpc # "process"
           /\ fed' = fed + n
           /\ buf' = buf \o Bytes(fed, n)
           /\ \/ cksum_worksem' = 1 /\ ~filling'
              \/ cksum_worksem' = 0 /\ filling'
<1> DEFINE n == Smaller(upto - fed, Capacity - Len(buf))
<1>1. fed \in Nat /\ upto \in Nat /\ fed < upto /\ ~filtered /\ upto - fed \in Nat
  BY DEF IInv, DataOK, PlaceInv, RunzipMd5Update
<1>2. Len(buf) \in Nat /\ Len(buf) <= Capacity /\ Capacity - Len(buf) \in Nat
  BY CapacityAssumption DEF IInv, DataOK, BatchInv
<1>3. n \in Nat /\ Len(buf) + n <= Capacity /\ fed + n <= upto
  BY <1>1, <1>2, CapacityAssumption DEF Smaller
<1>4. filling /\ ~shutdown /\ wpc # "process" /\ cksum_worksem = 0
  BY DEF IInv, DataOK, SemInv, MainOwns, RunzipMd5Update
<1>5. fed' = fed + n /\ buf' = buf \o Bytes(fed, n)
  BY DEF RunzipMd5Update
<1>6. \/ cksum_worksem' = 1 /\ ~filling'
      \/ cksum_worksem' = 0 /\ filling'
  <2> HIDE DEF n
  <2>1. CASE Len(buf) + n = Capacity
    BY <1>4, <2>1 DEF RunzipMd5Update, n
  <2>2. CASE Len(buf) + n # Capacity
    BY <1>4, <2>2 DEF RunzipMd5Update, n
  <2> QED
    BY <2>1, <2>2
<1> HIDE DEF n
<1> QED
  BY <1>1, <1>3, <1>4, <1>5, <1>6

\* The flags stay Booleans.
LEMMA NextFlags ==
  ASSUME IInv, [Next]_vars
  PROVE  FlagsOK'
<1> USE DEF IInv, FlagsOK, fileVars, feedVars, semVars, batchVars, workVars
<1>1. ASSUME NEW n \in 0..MaxChunk, NEW f \in BOOLEAN, RzipChunk(n, f)
       PROVE  FlagsOK'
  BY <1>1 DEF RzipChunk, Feed
<1>2. CASE ConvertChunk
  BY <1>2 DEF ConvertChunk
<1>3. CASE HashSearch
  BY <1>3 DEF HashSearch, Feed
<1>4. CASE QueueTail
  BY <1>4 DEF QueueTail, Feed
<1>5. CASE Md5Queue
  BY <1>5 DEF Md5Queue
<1>6. CASE Md5Drain
  BY <1>6 DEF Md5Drain
<1>7. ASSUME NEW n \in 0..MaxChunk, NEW f \in BOOLEAN, RunzipChunk(n, f)
       PROVE  FlagsOK'
  BY <1>7 DEF RunzipChunk
<1>8. CASE RunzipMd5Update
  BY <1>8 DEF RunzipMd5Update
<1>9. ASSUME NEW to \in 1..(MaxChunks * MaxChunk), MatchCksum(to)
       PROVE  FlagsOK'
  BY <1>9 DEF MatchCksum, Feed
<1>10. CASE UnfilterChunk
  BY <1>10 DEF UnfilterChunk
<1>11. CASE RunzipChunkDone
  BY <1>11 DEF RunzipChunkDone
<1>12. CASE RunzipFails
  BY <1>12 DEF RunzipFails
<1>13. CASE FlushPartial
  BY <1>13 DEF FlushPartial
<1>14. CASE TakeBuffer
  BY <1>14 DEF TakeBuffer
<1>15. CASE FeedReturns
  BY <1>15 DEF FeedReturns
<1>16. CASE LastChunk
  BY <1>16 DEF LastChunk
<1>17. CASE StopWorker
  BY <1>17 DEF StopWorker
<1>18. CASE JoinWorker
  BY <1>18 DEF JoinWorker
<1>19. CASE WorkerWake
  BY <1>19 DEF WorkerWake
<1>20. CASE ProcessBatch
  BY <1>20 DEF ProcessBatch
<1>21. CASE UNCHANGED vars
  BY <1>21 DEF vars
<1> QED
  BY <1>1, <1>2, <1>3, <1>4, <1>5, <1>6, <1>7, <1>8, <1>9, <1>10, <1>11,
     <1>12, <1>13, <1>14, <1>15, <1>16, <1>17, <1>18, <1>19, <1>20, <1>21
  DEF Next, MainStep, RzipStep, RunzipStep, WorkerStep, Ended

\* The buffer keeps exactly one owner.
LEMMA NextSem ==
  ASSUME IInv, [Next]_vars
  PROVE  SemInv'
<1> USE DEF IInv, DataOK, SemInv, MainOwns, fileVars, feedVars, semVars, batchVars, workVars
<1>1. ASSUME NEW n \in 0..MaxChunk, NEW f \in BOOLEAN, RzipChunk(n, f)
       PROVE  SemInv'
  BY <1>1 DEF RzipChunk, Feed
<1>2. CASE ConvertChunk
  BY <1>2 DEF ConvertChunk
<1>3. CASE HashSearch
  BY <1>3 DEF HashSearch, Feed
<1>4. CASE QueueTail
  BY <1>4 DEF QueueTail, Feed
<1>5. CASE Md5Queue
  BY <1>5 DEF Md5Queue, PlaceInv
<1>6. CASE Md5Drain
  BY <1>6 DEF Md5Drain
<1>7. ASSUME NEW n \in 0..MaxChunk, NEW f \in BOOLEAN, RunzipChunk(n, f)
       PROVE  SemInv'
  BY <1>7 DEF RunzipChunk
<1>8. CASE RunzipMd5Update
  BY <1>8 DEF RunzipMd5Update
<1>9. ASSUME NEW to \in 1..(MaxChunks * MaxChunk), MatchCksum(to)
       PROVE  SemInv'
  BY <1>9 DEF MatchCksum, Feed
<1>10. CASE UnfilterChunk
  BY <1>10 DEF UnfilterChunk
<1>11. CASE RunzipChunkDone
  BY <1>11 DEF RunzipChunkDone
<1>12. CASE RunzipFails
  BY <1>12 DEF RunzipFails
<1>13. CASE FlushPartial
  BY <1>13 DEF FlushPartial
<1>14. CASE TakeBuffer
  <2>1. filling' <=> mode = "runzip"
    BY <1>14 DEF TakeBuffer
  <2>2. cksumsem = 1 /\ cksumsem' = 0 /\ ~shutdown
    BY <1>14 DEF TakeBuffer
  <2> QED
    BY <1>14, <2>1, <2>2 DEF TakeBuffer
<1>15. CASE FeedReturns
  BY <1>15 DEF FeedReturns
<1>16. CASE LastChunk
  BY <1>16 DEF LastChunk
<1>17. CASE StopWorker
  BY <1>17 DEF StopWorker
<1>18. CASE JoinWorker
  BY <1>18 DEF JoinWorker
<1>19. CASE WorkerWake
  BY <1>19 DEF WorkerWake
<1>20. CASE ProcessBatch
  BY <1>20 DEF ProcessBatch
<1>21. CASE UNCHANGED vars
  BY <1>21 DEF vars
<1> QED
  BY <1>1, <1>2, <1>3, <1>4, <1>5, <1>6, <1>7, <1>8, <1>9, <1>10, <1>11,
     <1>12, <1>13, <1>14, <1>15, <1>16, <1>17, <1>18, <1>19, <1>20, <1>21
  DEF Next, MainStep, RzipStep, RunzipStep, WorkerStep, Ended

\* The main thread keeps its place in the file.
LEMMA NextPlace ==
  ASSUME IInv, [Next]_vars
  PROVE  PlaceInv'
<1> USE DEF IInv, DataOK, SemInv, MainOwns, PlaceInv, fileVars, feedVars, semVars, batchVars, workVars
<1>1. ASSUME NEW n \in 0..MaxChunk, NEW f \in BOOLEAN, RzipChunk(n, f)
       PROVE  PlaceInv'
  BY <1>1 DEF RzipChunk, Feed
<1>2. CASE ConvertChunk
  BY <1>2 DEF ConvertChunk
<1>3. CASE HashSearch
  <2>1. /\ Smaller(fed + Capacity, chunk_end) \in Int
        /\ Smaller(fed + Capacity, chunk_end) <= chunk_end
        /\ fed <= Smaller(fed + Capacity, chunk_end)
    BY CapacityAssumption DEF Smaller
  <2> QED
    BY <1>3, <2>1 DEF HashSearch, Feed
<1>4. CASE QueueTail
  BY <1>4 DEF QueueTail, Feed
<1>5. CASE Md5Queue
  BY <1>5, QueueFacts DEF Md5Queue
<1>6. CASE Md5Drain
  BY <1>6 DEF Md5Drain
<1>7. ASSUME NEW n \in 0..MaxChunk, NEW f \in BOOLEAN, RunzipChunk(n, f)
       PROVE  PlaceInv'
  BY <1>7 DEF RunzipChunk
<1>8. CASE RunzipMd5Update
  <2>1. PICK n \in Nat : fed + n <= upto /\ fed' = fed + n /\ ~filtered
    BY <1>8, UpdateFacts
  <2> QED
    BY <1>8, <2>1 DEF RunzipMd5Update
<1>9. ASSUME NEW to \in 1..(MaxChunks * MaxChunk), MatchCksum(to)
       PROVE  PlaceInv'
  BY <1>9 DEF MatchCksum, Feed
<1>10. CASE UnfilterChunk
  BY <1>10 DEF UnfilterChunk
<1>11. CASE RunzipChunkDone
  BY <1>11 DEF RunzipChunkDone
<1>12. CASE RunzipFails
  BY <1>12 DEF RunzipFails
<1>13. CASE FlushPartial
  BY <1>13 DEF FlushPartial
<1>14. CASE TakeBuffer
  BY <1>14 DEF TakeBuffer
<1>15. CASE FeedReturns
  BY <1>15 DEF FeedReturns
<1>16. CASE LastChunk
  BY <1>16 DEF LastChunk
<1>17. CASE StopWorker
  BY <1>17 DEF StopWorker
<1>18. CASE JoinWorker
  BY <1>18 DEF JoinWorker
<1>19. CASE WorkerWake
  BY <1>19 DEF WorkerWake
<1>20. CASE ProcessBatch
  BY <1>20 DEF ProcessBatch
<1>21. CASE UNCHANGED vars
  BY <1>21 DEF vars
<1> QED
  BY <1>1, <1>2, <1>3, <1>4, <1>5, <1>6, <1>7, <1>8, <1>9, <1>10, <1>11,
     <1>12, <1>13, <1>14, <1>15, <1>16, <1>17, <1>18, <1>19, <1>20, <1>21
  DEF Next, MainStep, RzipStep, RunzipStep, WorkerStep, Ended

\* The data keep their types.
LEMMA NextData ==
  ASSUME IInv, [Next]_vars
  PROVE  DataOK'
<1> USE DEF IInv, DataOK, SemInv, MainOwns, fileVars, feedVars, semVars, batchVars, workVars
<1>1. ASSUME NEW n \in 0..MaxChunk, NEW f \in BOOLEAN, RzipChunk(n, f)
       PROVE  DataOK'
  BY <1>1, BoundsAssumption DEF RzipChunk, Feed
<1>2. CASE ConvertChunk
  BY <1>2 DEF ConvertChunk
<1>3. CASE HashSearch
  <2>1. Smaller(fed + Capacity, chunk_end) \in Nat
    BY CapacityAssumption DEF Smaller
  <2> QED
    BY <1>3, <2>1 DEF HashSearch, Feed
<1>4. CASE QueueTail
  BY <1>4 DEF QueueTail, Feed
<1>5. CASE Md5Queue
  <2> DEFINE n == Smaller(upto - fed, Capacity)
  <2>1. n \in Nat
    BY <1>5, QueueFacts
  <2>2. Bytes(fed, n) \in Seq(Int)
    BY <2>1, BytesFacts
  <2> HIDE DEF n
  <2>3. buf' = Bytes(fed, n) /\ fed' = fed + n
    BY <1>5 DEF Md5Queue, n
  <2> QED
    BY <1>5, <2>1, <2>2, <2>3 DEF Md5Queue
<1>6. CASE Md5Drain
  BY <1>6 DEF Md5Drain
<1>7. ASSUME NEW n \in 0..MaxChunk, NEW f \in BOOLEAN, RunzipChunk(n, f)
       PROVE  DataOK'
  BY <1>7, BoundsAssumption DEF RunzipChunk
<1>8. CASE RunzipMd5Update
  <2>1. PICK n \in Nat :
          /\ fed' = fed + n
          /\ buf' = buf \o Bytes(fed, n)
          /\ cksum_worksem' = 1 \/ cksum_worksem' = 0
    <3> HIDE DEF IInv
    <3> QED
      BY <1>8, UpdateFacts
  <2>2. buf' \in Seq(Int)
    BY <2>1, BytesFacts, ConcatFacts
  <2> QED
    BY <1>8, <2>1, <2>2 DEF RunzipMd5Update
<1>9. ASSUME NEW to \in 1..(MaxChunks * MaxChunk), MatchCksum(to)
       PROVE  DataOK'
  BY <1>9 DEF MatchCksum, Feed
<1>10. CASE UnfilterChunk
  BY <1>10 DEF UnfilterChunk
<1>11. CASE RunzipChunkDone
  BY <1>11 DEF RunzipChunkDone
<1>12. CASE RunzipFails
  BY <1>12 DEF RunzipFails
<1>13. CASE FlushPartial
  BY <1>13 DEF FlushPartial
<1>14. CASE TakeBuffer
  BY <1>14 DEF TakeBuffer
<1>15. CASE FeedReturns
  BY <1>15 DEF FeedReturns
<1>16. CASE LastChunk
  BY <1>16 DEF LastChunk
<1>17. CASE StopWorker
  BY <1>17 DEF StopWorker
<1>18. CASE JoinWorker
  BY <1>18 DEF JoinWorker
<1>19. CASE WorkerWake
  BY <1>19 DEF WorkerWake
<1>20. CASE ProcessBatch
  BY <1>20, ConcatFacts DEF ProcessBatch
<1>21. CASE UNCHANGED vars
  BY <1>21 DEF vars
<1> QED
  BY <1>1, <1>2, <1>3, <1>4, <1>5, <1>6, <1>7, <1>8, <1>9, <1>10, <1>11,
     <1>12, <1>13, <1>14, <1>15, <1>16, <1>17, <1>18, <1>19, <1>20, <1>21
  DEF Next, MainStep, RzipStep, RunzipStep, WorkerStep, Ended

\* A batch md5_queue has copied is the continuation of the digest.
LEMMA QueueBatch ==
  ASSUME IInv, Md5Queue
  PROVE  BatchInv'
<1> DEFINE n == Smaller(upto - fed, Capacity)
<1>1. n \in Nat /\ n <= Capacity /\ ~filtered
  BY QueueFacts
<1>2. /\ ~Pending /\ Len(ctx) = fed /\ fed \in Nat
      /\ \A k \in 1..Len(ctx) : ctx[k] = k
  BY DEF IInv, DataOK, SemInv, MainOwns, PlaceInv, BatchInv, Pending, Md5Queue
<1>3. fed' = fed + n /\ buf' = Bytes(fed, n) /\ ctx' = ctx /\ cksum_worksem' = 1 /\ ~shutdown'
  BY DEF Md5Queue, IInv, DataOK, SemInv, MainOwns, workVars
<1> HIDE DEF n
<1>4. Len(buf') = n /\ \A k \in 1..n : buf'[k] = fed + k
  BY <1>1, <1>2, <1>3, BytesFacts
<1>5. Pending'
  BY <1>3 DEF Pending
<1> QED
  BY <1>1, <1>2, <1>3, <1>4, <1>5 DEF BatchInv

\* What runzip_md5_update appends continues the batch.
LEMMA UpdateBatch ==
  ASSUME IInv, RunzipMd5Update
  PROVE  BatchInv'
<1>1. PICK n \in Nat :
        /\ Len(buf) + n <= Capacity
        /\ ~filtered /\ ~shutdown
        /\ fed' = fed + n
        /\ buf' = buf \o Bytes(fed, n)
        /\ cksum_worksem' = 1 \/ filling'
  BY UpdateFacts
<1>2. /\ Len(ctx) + Len(buf) = fed
      /\ fed \in Nat /\ Len(ctx) \in Nat /\ Len(buf) \in Nat
      /\ buf \in Seq(Int)
      /\ \A k \in 1..Len(ctx) : ctx[k] = k
      /\ \A k \in 1..Len(buf) : buf[k] = Len(ctx) + k
  BY DEF IInv, DataOK, BatchInv, Pending, RunzipMd5Update
<1> DEFINE b == Bytes(fed, n)
<1>3. /\ b \in Seq(Int)
      /\ Len(b) = n
      /\ \A k \in 1..Len(b) : b[k] = Len(ctx) + Len(buf) + k
  <2>1. b \in Seq(Int) /\ Len(b) = n /\ \A k \in 1..n : b[k] = fed + k
    BY <1>1, <1>2, BytesFacts
  <2> HIDE DEF b
  <2> QED
    BY <1>2, <2>1
<1> HIDE DEF b
<1>4. /\ Len(buf') = Len(buf) + n
      /\ \A k \in 1..Len(buf') : buf'[k] = Len(ctx) + k
  <2>1. /\ Len(buf \o b) = Len(buf) + Len(b)
        /\ \A k \in 1..Len(buf \o b) : (buf \o b)[k] = Len(ctx) + k
    BY <1>2, <1>3, AppendRun
  <2> QED
    BY <1>1, <1>3, <2>1 DEF b
<1>5. ctx' = ctx /\ shutdown' = shutdown /\ Pending'
  BY <1>1 DEF RunzipMd5Update, Pending, workVars
<1>6. Len(ctx') + Len(buf') = fed'
  <2>1. Len(ctx') = Len(ctx) /\ fed' = fed + n
    BY <1>1, <1>5
  <2>2. ASSUME NEW x \in Nat, NEW y \in Nat, x + y = fed PROVE x + (y + n) = fed + n
    BY <2>2
  <2>3. Len(ctx) + (Len(buf) + n) = fed + n
    BY <1>2, <2>2
  <2>4. Len(buf') = Len(buf) + n
    BY <1>4
  <2> QED
    BY <2>1, <2>3, <2>4
<1> QED
  BY <1>1, <1>2, <1>4, <1>5, <1>6 DEF BatchInv

\* Digest and pending batch stay the bytes fed so far.
LEMMA NextBatch ==
  ASSUME IInv, [Next]_vars
  PROVE  BatchInv'
<1> USE DEF IInv, DataOK, SemInv, MainOwns, BatchInv, Pending, fileVars, feedVars, semVars, batchVars, workVars
<1>1. ASSUME NEW n \in 0..MaxChunk, NEW f \in BOOLEAN, RzipChunk(n, f)
       PROVE  BatchInv'
  BY <1>1 DEF RzipChunk, Feed
<1>2. CASE ConvertChunk
  BY <1>2 DEF ConvertChunk
<1>3. CASE HashSearch
  BY <1>3 DEF HashSearch, Feed
<1>4. CASE QueueTail
  BY <1>4 DEF QueueTail, Feed
<1>5. CASE Md5Queue
  BY <1>5, QueueBatch
<1>6. CASE Md5Drain
  BY <1>6 DEF Md5Drain
<1>7. ASSUME NEW n \in 0..MaxChunk, NEW f \in BOOLEAN, RunzipChunk(n, f)
       PROVE  BatchInv'
  BY <1>7 DEF RunzipChunk
<1>8. CASE RunzipMd5Update
  BY <1>8, UpdateBatch
<1>9. ASSUME NEW to \in 1..(MaxChunks * MaxChunk), MatchCksum(to)
       PROVE  BatchInv'
  BY <1>9 DEF MatchCksum, Feed
<1>10. CASE UnfilterChunk
  BY <1>10 DEF UnfilterChunk
<1>11. CASE RunzipChunkDone
  BY <1>11 DEF RunzipChunkDone
<1>12. CASE RunzipFails
  BY <1>12 DEF RunzipFails
<1>13. CASE FlushPartial
  BY <1>13 DEF FlushPartial
<1>14. CASE TakeBuffer
  <2>1. /\ ~Pending /\ cksum_worksem' = cksum_worksem /\ wpc' = wpc /\ ctx' = ctx
        /\ fed' = fed /\ ~shutdown'
    BY <1>14 DEF TakeBuffer
  <2>2. CASE mode = "rzip"
    BY <1>14, <2>1, <2>2 DEF TakeBuffer
  <2>3. CASE mode = "runzip"
    BY <1>14, <2>1, <2>3, CapacityAssumption DEF TakeBuffer
  <2> QED
    BY <2>2, <2>3
<1>15. CASE FeedReturns
  BY <1>15 DEF FeedReturns
<1>16. CASE LastChunk
  BY <1>16 DEF LastChunk
<1>17. CASE StopWorker
  BY <1>17, CapacityAssumption DEF StopWorker
<1>18. CASE JoinWorker
  BY <1>18 DEF JoinWorker
<1>19. CASE WorkerWake
  BY <1>19 DEF WorkerWake
<1>20. CASE ProcessBatch
  <2>1. /\ Len(ctx') = Len(ctx) + Len(buf)
        /\ \A k \in 1..Len(ctx) : ctx'[k] = ctx[k]
        /\ \A k \in (Len(ctx) + 1)..(Len(ctx) + Len(buf)) : ctx'[k] = buf[k - Len(ctx)]
    BY <1>20, ConcatFacts DEF ProcessBatch
  <2>2. Len(ctx) \in Nat /\ Len(buf) \in Nat /\ Len(ctx) + Len(buf) = fed
    BY <1>20 DEF ProcessBatch
  <2>3. \A k \in 1..Len(ctx') : ctx'[k] = k
    BY <1>20, <2>1, <2>2 DEF ProcessBatch
  <2>4. ~Pending'
    BY <1>20 DEF ProcessBatch
  <2> QED
    BY <1>20, <2>1, <2>2, <2>3, <2>4 DEF ProcessBatch
<1>21. CASE UNCHANGED vars
  BY <1>21 DEF vars
<1> QED
  BY <1>1, <1>2, <1>3, <1>4, <1>5, <1>6, <1>7, <1>8, <1>9, <1>10, <1>11,
     <1>12, <1>13, <1>14, <1>15, <1>16, <1>17, <1>18, <1>19, <1>20, <1>21
  DEF Next, MainStep, RzipStep, RunzipStep, WorkerStep, Ended

\* The inductive invariant of the worker holds in every state.
THEOREM Md5Invariance == Spec => []IInv
<1>1. Init => IInv
  <2> SUFFICES ASSUME Init PROVE IInv
    OBVIOUS
  <2>1. FlagsOK
    BY DEF Init, FlagsOK
  <2>2. DataOK
    BY BoundsAssumption DEF Init, DataOK
  <2>3. SemInv /\ PlaceInv
    BY DEF Init, SemInv, MainOwns, PlaceInv
  <2>4. BatchInv
    BY CapacityAssumption DEF Init, BatchInv, Pending
  <2> QED
    BY <2>1, <2>2, <2>3, <2>4 DEF IInv
<1>2. IInv /\ [Next]_vars => IInv'
  BY NextFlags, NextData, NextSem, NextPlace, NextBatch DEF IInv
<1> QED
  BY <1>1, <1>2, PTL DEF Spec

\* Both semaphores of the MD5 worker stay binary and no batch outgrows the buffer
\* md5_thread_start allocated.
THEOREM Md5TypeCorrect == Spec => []TypeOK
<1>1. IInv => TypeOK
  BY DEF IInv, TypeOK, BatchInv
<1> QED
  BY <1>1, Md5Invariance, PTL

\* The unlocked batch buffer has one owner at a time.
THEOREM Md5BufferOwned == Spec => []BufferOwned
<1>1. IInv => BufferOwned
  BY DEF IInv, DataOK, SemInv, BufferOwned
<1> QED
  BY <1>1, Md5Invariance, PTL

\* The digest is always that of a prefix of the original file: batches reach the
\* worker in the order they were filled, none twice and none overwritten.
THEOREM Md5Correct == Spec => []DigestInOrder
<1>1. IInv => DigestInOrder
  BY DEF IInv, DataOK, BatchInv, DigestInOrder
<1> QED
  BY <1>1, Md5Invariance, PTL

\* When the worker has been joined the digest is that of all that was
\* fed to it, the last partial batch included, and of the whole chunk unless the
\* reader gave up.
THEOREM Md5Complete == Spec => []DigestComplete
<1>1. IInv => DigestComplete
  <2> SUFFICES ASSUME IInv, mpc = "done" PROVE Len(ctx) = fed /\ (~aborted => fed = chunk_end)
    BY DEF DigestComplete
  <2>1. shutdown /\ wpc = "exit" /\ ~filling
    BY DEF IInv, SemInv
  <2>2. cksum_worksem # 1
    BY <2>1 DEF IInv, SemInv
  <2> QED
    BY <2>1, <2>2 DEF IInv, PlaceInv, BatchInv, Pending
<1> QED
  BY <1>1, Md5Invariance, PTL
=============================================================================
