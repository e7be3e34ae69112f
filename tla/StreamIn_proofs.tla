-------------------------- MODULE StreamIn_proofs --------------------------
(***************************************************************************)
(* Proofs about the reading side of stream.c: for every number of threads, *)
(* size of buffers, limit on memory and every chunk the compressor can     *)
(* have written, whichever thread is ready first and whichever fails.      *)
(***************************************************************************)
EXTENDS StreamIn, FiniteSetTheorems, SequenceTheorems, TLAPS

----------------------------------------------------------------------------
(* The chunk.  These are the definitions of StreamIn with the chunk as a    *)
(* parameter.                                                               *)

Blk(c) == [k \in 1..Len(c.full) |-> [stream |-> c.full[k], len |-> BufSize]]
            \o <<[stream |-> 0, len |-> c.tail[0]], [stream |-> 1, len |-> c.tail[1]]>>
Num(c) == Len(c.full) + 2

\* The blocks of stream s, and the next of them behind block k.
Of(c, s) == {k \in 1..Num(c) : Blk(c)[k].stream = s}
Link(c, s, k) == FirstOf({j \in Of(c, s) : j > k})

\* The number of units in a set of blocks.
Weight(c, S) ==
  BufSize * Cardinality(S \cap (1..Len(c.full)))
    + (IF Len(c.full) + 1 \in S THEN c.tail[0] ELSE 0)
    + (IF Len(c.full) + 2 \in S THEN c.tail[1] ELSE 0)

\* The block taken last.
LastOf(q) == IF q = <<>> THEN 0 ELSE q[Len(q)].block

\* The slots of stream s.
Mine(s) == BaseThread(s)..(BaseThread(s) + StreamThreads(s) - 1)

\* The blocks of the busy slots, and those whose headers have been read.
InFlight(u) == {u[i].block : i \in {j \in Slot : u[j].busy}}
Fetched(c, lh, e) ==
  {k \in 1..Num(c) : \E s \in Streams : /\ Blk(c)[k].stream = s
                                        /\ lh[s] = 0 \/ k < lh[s] \/ (k = lh[s] /\ e[s])}

----------------------------------------------------------------------------
(* The inductive invariant. *)

\* The types of TypeOK, in two parts.
PoolType ==
  /\ chunk \in Chunks
  /\ last_head \in [Streams -> 0..Num(chunk)]
  /\ eos \in [Streams -> BOOLEAN]
  /\ uthread_no \in [Streams -> Slot] /\ unext_thread \in [Streams -> Slot]
  /\ ucthreads \in [Slot -> [busy : BOOLEAN, block : 0..Num(chunk), plain : BOOLEAN]]
  /\ output_thread \in Slot
  /\ pc \in [Slot -> {"none", "run", "wait", "retry", "done"}]
  /\ faults \in 0..MaxFaults
ReaderType ==
  /\ buf \in [Streams -> [block : 0..Num(chunk), left : 0..BufSize]]
  /\ mpc \in {"token", "read", "return", "fill", "fetch", "turn", "join", "close", "done"}
  /\ cur \in Streams /\ want \in Nat /\ s0_have \in 0..Window
  /\ tokens \in 0..UnitsOf(chunk, 0) /\ literals \in 0..UnitsOf(chunk, 1)
  /\ exit \in {"running", "closed", "short", "invalid", "busy", "failed", "mismatch"}

\* What was taken is decompressed, and follows the links without a gap.
TakenInv ==
  /\ taken \in [Streams -> Seq([block : 1..Num(chunk), plain : {TRUE}])]
  /\ \A s \in Streams : \A n \in DOMAIN taken[s] :
       taken[s][n].block = Link(chunk, s, IF n = 1 THEN 0 ELSE taken[s][n - 1].block)
  /\ \A s \in Streams : \A k \in Of(chunk, s) :
       k <= LastOf(taken[s]) => \E n \in DOMAIN taken[s] : taken[s][n].block = k

\* A slot is busy as long as its thread is not joined.
SlotInv ==
  /\ \A i \in Slot : ucthreads[i].busy <=> pc[i] # "none"
  /\ \A i \in Slot : pc[i] = "done" => ucthreads[i].plain
  /\ \A i \in Slot : ucthreads[i].busy => Blk(chunk)[ucthreads[i].block].len > 0

\* Slot i of a stream comes before slot j when the reader's next slot is n.
Before(n, i, j) == (i < j /\ (i >= n <=> j >= n)) \/ (i >= n /\ j < n)

\* The busy slots of stream s.
Busy(u, s) == {i \in Mine(s) : u[i].busy}

\* A set B of slots of stream s goes from slot n to before slot e, round the ring.
RingOf(s, n, e, B) ==
  /\ n \in Mine(s) /\ e \in Mine(s)
  /\ n < e => \A i \in Mine(s) : i \in B <=> n <= i /\ i < e
  /\ n > e => \A i \in Mine(s) : i \in B <=> n <= i \/ i < e
  /\ n = e => B = {} \/ Mine(s) \subseteq B

\* The busy slots of a stream are those from unext_thread to uthread_no; all of them are
\* only when fill_buffer is about to join one.
RingInv ==
  \A s \in Streams :
    /\ RingOf(s, unext_thread[s], uthread_no[s], Busy(ucthreads, s))
    /\ uthread_no[s] \in Busy(ucthreads, s) => mpc = "done" \/ (mpc \in {"turn", "join"} /\ cur = s)

\* With block lt taken last, next header h and next slot n, the busy slots in u of stream s
\* hold the stream's blocks between lt and h, in order.
OrderOf(c, s, u, n, lt, h) ==
  /\ \A k \in Of(c, s) : lt < k /\ (h = 0 \/ k < h) <=> \E i \in Busy(u, s) : u[i].block = k
  /\ \A i, j \in Busy(u, s) : Before(n, i, j) => u[i].block < u[j].block
  /\ \A i \in Busy(u, s) : u[i].block \in Of(c, s)
  /\ h # 0 => h \in Of(c, s) /\ lt < h

OrderInv ==
  \A s \in Streams :
    OrderOf(chunk, s, ucthreads, unext_thread[s], LastOf(taken[s]), last_head[s])

\* What eos stands for.
EosInv ==
  /\ \A s \in Streams :
       IF eos[s] THEN \/ last_head[s] = 0
                      \/ Blk(chunk)[last_head[s]].len = 0 /\ Link(chunk, s, last_head[s]) = 0
       ELSE last_head[s] # 0
  /\ mpc = "fetch" => ~eos[cur]
  /\ total_read = Cardinality(Fetched(chunk, last_head, eos))

\* The memory of the blocks in flight.
RamInv ==
  /\ ram_alloced = Weight(chunk, InFlight(ucthreads))
  /\ mpc \notin {"turn", "join", "done"} => ram_alloced < MaxRam
  /\ mpc \in {"turn", "join"} /\ cur = 0 /\ ucthreads[0].busy =>
       ram_alloced - Blk(chunk)[ucthreads[0].block].len < MaxRam
  /\ ram_alloced < MaxRam + BufSize

\* How much of stream s has been taken, q being the blocks taken.
TakenUnits(c, s, q) == Weight(c, {k \in Of(c, s) : k <= LastOf(q)})

\* What has been delivered of each stream is what the reader has asked for.
Reading == {"read", "fill", "fetch", "turn", "join", "return"}
ReadInv ==
  /\ exit = "running" <=> mpc # "done"
  /\ mpc # "done" =>
     /\ TakenUnits(chunk, 1, taken[1])
          = buf[1].left + literals - (IF cur = 1 /\ mpc \in Reading THEN want ELSE 0)
     /\ TakenUnits(chunk, 0, taken[0])
          = buf[0].left + tokens + s0_have + (IF cur = 0 /\ mpc \in Reading THEN Window - want ELSE 0)
     /\ cur = 0 /\ mpc \in Reading => s0_have = 0 /\ want <= Window
     /\ mpc \in Reading \cup {"token"} => tokens < UnitsOf(chunk, 0)
     /\ mpc = "close" => tokens = UnitsOf(chunk, 0)
     /\ UnitsOf(chunk, 0) <= tokens + 1 => literals = UnitsOf(chunk, 1)
     /\ mpc \in {"fill", "fetch", "turn", "join"} => buf[cur].left = 0
     /\ mpc = "return" /\ want > 0 => buf[cur].left = 0 /\ eos[cur] /\ Busy(ucthreads, cur) = {}

\* ClosedIsComplete.
EndInv ==
  /\ exit \notin {"busy", "short"}
  /\ exit = "closed" =>
       \A s \in Streams :
         /\ \A k \in Of(chunk, s) : Blk(chunk)[k].len > 0 => k <= LastOf(taken[s])
         /\ literals = UnitsOf(chunk, 1) /\ buf[s].left = 0 /\ Busy(ucthreads, s) = {}

PoolInv == PoolType /\ TakenInv /\ SlotInv /\ RingInv /\ OrderInv /\ EosInv /\ RamInv
IInv == PoolInv /\ ReaderType /\ ReadInv /\ EndInv

----------------------------------------------------------------------------
(* Facts about the chunk. *)

\* A finite set of numbers has a least one.
LEMMA Least ==
  ASSUME NEW S \in SUBSET Int, IsFiniteSet(S), S # {} PROVE \E x \in S : \A y \in S : x <= y
<1> DEFINE Upto(x) == {j \in S : j <= x}
           T == {Upto(x) : x \in S}
<1>1. T \subseteq SUBSET S /\ T # {}
  OBVIOUS
<1>2. IsWellFoundedOn(StrictSubsetOrdering(S), SUBSET S)
  BY FS_StrictSubsetOrderingWellFounded, FS_FiniteSubsetsOfFinite
<1>3. PICK A \in T : \A B \in T : ~(<<B, A>> \in StrictSubsetOrdering(S))
  <2> HIDE DEF T
  <2> QED BY <1>1, <1>2, WFMin
<1>4. PICK x \in S : A = Upto(x)
  OBVIOUS
<1>5. ASSUME NEW y \in S, y < x PROVE FALSE
  <2>1. Upto(y) \in SUBSET S /\ Upto(x) \in SUBSET S
    OBVIOUS
  <2>2. Upto(y) \subseteq Upto(x)
    <3> SUFFICES ASSUME NEW j \in S, j <= y PROVE j <= x
      OBVIOUS
    <3>1. j \in Int /\ x \in Int /\ y \in Int
      OBVIOUS
    <3> QED BY <1>5, <3>1
  <2>3. x \in Upto(x) /\ x \notin Upto(y)
    BY <1>5
  <2>4. <<Upto(y), A>> \in StrictSubsetOrdering(S)
    <3> HIDE DEF Upto
    <3> QED BY <1>4, <2>1, <2>2, <2>3 DEF StrictSubsetOrdering
  <2>5. Upto(y) \in T
    OBVIOUS
  <2> QED BY <1>3, <2>4, <2>5
<1> QED BY <1>5

\* The parts of a chunk.
LEMMA ChunkFacts ==
  ASSUME NEW c \in Chunks
  PROVE  /\ Len(c.full) \in Nat /\ Num(c) \in Nat /\ Num(c) = Len(c.full) + 2
         /\ c.full \in [1..Len(c.full) -> Streams] /\ DOMAIN c.full = 1..Len(c.full)
         /\ c.tail[0] \in 0..(BufSize - 1) /\ c.tail[1] \in 0..(BufSize - 1)
         /\ UnitsOf(c, 0) >= 1 /\ (UnitsOf(c, 1) = 0 <=> UnitsOf(c, 0) = 1)
<1>1. /\ c \in [full : UNION {[1..n -> Streams] : n \in 0..MaxFull}, tail : [Streams -> 0..(BufSize - 1)]]
      /\ UnitsOf(c, 0) >= 1 /\ (UnitsOf(c, 1) = 0 <=> UnitsOf(c, 0) = 1)
  BY DEF Chunks
<1>2. c.full \in UNION {[1..n -> Streams] : n \in 0..MaxFull} /\ c.tail \in [Streams -> 0..(BufSize - 1)]
  BY <1>1
<1>3. PICK n \in 0..MaxFull : c.full \in [1..n -> Streams]
  BY <1>2
<1>4. c.full \in Seq(Streams) /\ Len(c.full) = n /\ n \in Nat
  BY <1>3, BoundsAssumption
<1>5. c.tail[0] \in 0..(BufSize - 1) /\ c.tail[1] \in 0..(BufSize - 1)
  BY <1>2 DEF Streams
<1> QED
  BY <1>1, <1>3, <1>4, <1>5 DEF Num

\* The blocks of a chunk.
LEMMA BlkFacts ==
  ASSUME NEW c \in Chunks
  PROVE  /\ Len(Blk(c)) = Num(c) /\ DOMAIN Blk(c) = 1..Num(c)
         /\ \A k \in 1..Len(c.full) : Blk(c)[k].stream = c.full[k] /\ Blk(c)[k].len = BufSize
         /\ Blk(c)[Len(c.full) + 1].stream = 0 /\ Blk(c)[Len(c.full) + 1].len = c.tail[0]
         /\ Blk(c)[Len(c.full) + 2].stream = 1 /\ Blk(c)[Len(c.full) + 2].len = c.tail[1]
         /\ \A k \in 1..Num(c) : Blk(c)[k].stream \in Streams /\ Blk(c)[k].len \in 0..BufSize
<1> DEFINE n == Len(c.full)
           f == [k \in 1..n |-> [stream |-> c.full[k], len |-> BufSize]]
           t == <<[stream |-> 0, len |-> c.tail[0]], [stream |-> 1, len |-> c.tail[1]]>>
<1>1. n \in Nat /\ Num(c) = n + 2 /\ c.full \in [1..n -> Streams]
      /\ c.tail[0] \in 0..(BufSize - 1) /\ c.tail[1] \in 0..(BufSize - 1)
  BY ChunkFacts
<1>2. BufSize \in Nat \ {0}
  BY SizesAssumption
<1> DEFINE R == [stream : Streams, len : 0..BufSize]
<1>3. f \in Seq(R) /\ Len(f) = n /\ \A k \in 1..n : f[k] = [stream |-> c.full[k], len |-> BufSize]
  <2>1. \A k \in 1..n : [stream |-> c.full[k], len |-> BufSize] \in R
    BY <1>1, <1>2
  <2>2. f \in [1..n -> R]
    BY <2>1
  <2> HIDE DEF R
  <2> QED BY <1>1, <2>2
<1>4. t \in Seq(R) /\ Len(t) = 2 /\ t[1] = [stream |-> 0, len |-> c.tail[0]] /\ t[2] = [stream |-> 1, len |-> c.tail[1]]
  <2>1. [stream |-> 0, len |-> c.tail[0]] \in R /\ [stream |-> 1, len |-> c.tail[1]] \in R
    BY <1>1, <1>2 DEF Streams
  <2> HIDE DEF R
  <2> QED BY <2>1
<1>5. Blk(c) = f \o t
  BY DEF Blk
<1> HIDE DEF f, t, R, n
<1>6. /\ f \o t \in Seq(R) /\ Len(f \o t) = n + 2
      /\ \A k \in 1..n : (f \o t)[k] = f[k]
      /\ (f \o t)[n + 1] = t[1] /\ (f \o t)[n + 2] = t[2]
  <2>0. f \in Seq(R) /\ t \in Seq(R) /\ Len(f) = n /\ Len(t) = 2 /\ n \in Nat
    BY <1>1, <1>3, <1>4
  <2>1. /\ f \o t \in Seq(R) /\ Len(f \o t) = Len(f) + Len(t)
        /\ \A k \in 1..(Len(f) + Len(t)) : (f \o t)[k] = IF k <= Len(f) THEN f[k] ELSE t[k - Len(f)]
    BY <2>0, ConcatProperties
  <2> QED BY <2>0, <2>1
<1>7. \A k \in 1..(n + 2) : (f \o t)[k] \in R
  BY <1>1, <1>6
<1>8. \A r \in R : r.stream \in Streams /\ r.len \in 0..BufSize
  BY DEF R
<1>9. Len(Blk(c)) = Num(c) /\ DOMAIN Blk(c) = 1..Num(c)
  BY <1>1, <1>5, <1>6
<1>10. \A k \in 1..n : Blk(c)[k].stream = c.full[k] /\ Blk(c)[k].len = BufSize
  <2> TAKE k \in 1..n
  <2>1. Blk(c)[k] = [stream |-> c.full[k], len |-> BufSize]
    BY <1>3, <1>5, <1>6
  <2> QED BY <2>1
<1>11. /\ Blk(c)[n + 1].stream = 0 /\ Blk(c)[n + 1].len = c.tail[0]
       /\ Blk(c)[n + 2].stream = 1 /\ Blk(c)[n + 2].len = c.tail[1]
  BY <1>4, <1>5, <1>6
<1>12. \A k \in 1..Num(c) : Blk(c)[k].stream \in Streams /\ Blk(c)[k].len \in 0..BufSize
  BY <1>1, <1>5, <1>7, <1>8
<1> QED
  BY <1>9, <1>10, <1>11, <1>12 DEF n

\* A stream's blocks.
LEMMA OfFacts ==
  ASSUME NEW c \in Chunks, NEW s \in Streams
  PROVE  /\ Of(c, s) \subseteq 1..Num(c) /\ IsFiniteSet(Of(c, s))
         /\ Len(c.full) + 1 + s \in Of(c, s)
         /\ \A k \in Of(c, s) : Len(c.full) < k => k = Len(c.full) + 1 + s
         /\ \A k \in 1..Num(c) : \A r \in Streams : k \in Of(c, s) /\ k \in Of(c, r) => r = s
<1>1. Len(c.full) \in Nat /\ Num(c) = Len(c.full) + 2
  BY ChunkFacts
<1>2. Of(c, s) \subseteq 1..Num(c)
  BY DEF Of
<1>3. IsFiniteSet(1..Num(c))
  BY <1>1, FS_Interval
<1>4. IsFiniteSet(Of(c, s))
  BY <1>2, <1>3, FS_Subset
<1>5. /\ Blk(c)[Len(c.full) + 1].stream = 0 /\ Blk(c)[Len(c.full) + 2].stream = 1
  BY BlkFacts
<1>6. Len(c.full) + 1 + s \in Of(c, s)
  BY <1>1, <1>5 DEF Of, Streams
<1>7. \A k \in Of(c, s) : Len(c.full) < k => k = Len(c.full) + 1 + s
  BY <1>1, <1>5 DEF Of, Streams
<1> QED
  BY <1>2, <1>4, <1>6, <1>7 DEF Of

\* The link of block k: the stream's next block, or 0 when there is none.
LEMMA LinkFacts ==
  ASSUME NEW c \in Chunks, NEW s \in Streams, NEW k \in 0..Num(c)
  PROVE  /\ Link(c, s, k) \in 0..Num(c)
         /\ Link(c, s, k) = 0 => \A j \in Of(c, s) : j <= k
         /\ Link(c, s, k) # 0 => /\ Link(c, s, k) \in Of(c, s) /\ k < Link(c, s, k)
                                 /\ \A j \in Of(c, s) : k < j => Link(c, s, k) <= j
         /\ \A l \in Of(c, s) : k < l /\ (\A j \in Of(c, s) : k < j => l <= j) => Link(c, s, k) = l
         /\ Link(c, s, 0) # 0
<1> DEFINE L(x) == {j \in Of(c, s) : j > x}
<1>0. Of(c, s) \subseteq 1..Num(c) /\ IsFiniteSet(Of(c, s)) /\ Num(c) \in Nat
      /\ Len(c.full) + 1 + s \in Of(c, s)
  BY OfFacts, ChunkFacts
<1>1. \A x : L(x) \subseteq Of(c, s) /\ IsFiniteSet(L(x)) /\ L(x) \in SUBSET Int
  BY <1>0, FS_Subset
<1>2. ASSUME NEW x \in 0..Num(c), L(x) # {}
      PROVE  Link(c, s, x) \in L(x) /\ \A j \in L(x) : Link(c, s, x) <= j
  <2>1. \E m \in L(x) : \A j \in L(x) : m <= j
    <3> HIDE DEF L
    <3> QED BY <1>1, <1>2, Least
  <2>2. Link(c, s, x) = CHOOSE j \in L(x) : \A l \in L(x) : j <= l
    BY <1>2 DEF Link, FirstOf
  <2> QED BY <2>1, <2>2
<1>3. ASSUME NEW x \in 0..Num(c), L(x) = {} PROVE Link(c, s, x) = 0
  BY <1>3 DEF Link, FirstOf
<1>4. CASE L(k) = {}
  <2>1. \A j \in Of(c, s) : j <= k
    BY <1>0, <1>4
  <2>2. \A j \in Of(c, s) : ~(k < j)
    BY <1>4
  <2>3. L(0) # {} /\ 0 \in 0..Num(c)
    BY <1>0
  <2>4. Link(c, s, 0) # 0
    BY <1>0, <1>2, <2>3
  <2> QED BY <1>0, <1>3, <1>4, <2>1, <2>2, <2>4
<1>5. CASE L(k) # {}
  <2>1. Link(c, s, k) \in L(k) /\ \A j \in L(k) : Link(c, s, k) <= j
    BY <1>2, <1>5
  <2>2. Link(c, s, k) \in Of(c, s) /\ k < Link(c, s, k) /\ \A j \in Of(c, s) : k < j => Link(c, s, k) <= j
    BY <2>1
  <2>3. Link(c, s, k) \in 1..Num(c)
    BY <1>0, <2>2
  <2>4. \A l \in Of(c, s) : k < l /\ (\A j \in Of(c, s) : k < j => l <= j) => Link(c, s, k) = l
    BY <1>0, <2>2, <2>3
  <2>5. L(0) # {} /\ 0 \in 0..Num(c)
    BY <1>0
  <2>6. Link(c, s, 0) # 0
    BY <1>0, <1>2, <2>5
  <2> QED BY <2>2, <2>3, <2>4, <2>6
<1> QED BY <1>4, <1>5

\* Multiplication.
LEMMA Mult ==
  ASSUME NEW a \in Nat, NEW b \in Nat, NEW d \in Nat, b <= d
  PROVE  a * b \in Nat /\ a * (b + 1) = a * b + a /\ a * b <= a * d /\ a * 0 = 0
<1>1. a * b \in Nat /\ a * (b + 1) = a * b + a /\ a * 0 = 0
  OBVIOUS
<1>2. PICK e \in Nat : d = b + e
  <2>1. d - b \in Nat /\ d = b + (d - b)
    OBVIOUS
  <2> QED BY <2>1
<1>3. a * d = a * b + a * e /\ a * e \in Nat
  BY <1>2
<1> QED
  BY <1>1, <1>3

\* The parts of a set of blocks.
LEMMA FullPart ==
  ASSUME NEW c \in Chunks, NEW S
  PROVE  /\ IsFiniteSet(S \cap (1..Len(c.full))) /\ Cardinality(S \cap (1..Len(c.full))) \in Nat
         /\ BufSize \in Nat
         /\ BufSize * Cardinality(S \cap (1..Len(c.full))) \in Nat
<1>1. Len(c.full) \in Nat
  BY ChunkFacts
<1>2. IsFiniteSet(1..Len(c.full))
  BY <1>1, FS_Interval
<1>3. IsFiniteSet(S \cap (1..Len(c.full)))
  BY <1>2, FS_Subset
<1>4. Cardinality(S \cap (1..Len(c.full))) \in Nat
  BY <1>3, FS_CardinalityType
<1>5. BufSize \in Nat
  BY SizesAssumption
<1> QED
  BY <1>3, <1>4, <1>5, Mult

\* A weight is a number.
LEMMA WeightType == ASSUME NEW c \in Chunks, NEW S PROVE Weight(c, S) \in Nat
<1>1. BufSize * Cardinality(S \cap (1..Len(c.full))) \in Nat
  BY FullPart
<1>2. c.tail[0] \in Nat /\ c.tail[1] \in Nat
  BY ChunkFacts, SizesAssumption
<1> QED
  BY <1>1, <1>2 DEF Weight

\* The empty set weighs nothing.
LEMMA WeightEmpty == ASSUME NEW c \in Chunks PROVE Weight(c, {}) = 0
<1>1. {} \cap (1..Len(c.full)) = {}
  OBVIOUS
<1>2. Cardinality({}) = 0
  BY FS_EmptySet
<1>3. BufSize * 0 = 0
  BY SizesAssumption
<1> QED
  BY <1>1, <1>2, <1>3 DEF Weight

\* One more block.
LEMMA WeightAdd ==
  ASSUME NEW c \in Chunks, NEW S, NEW k \in 1..Num(c), k \notin S
  PROVE  Weight(c, S \cup {k}) = Weight(c, S) + Blk(c)[k].len
<1> DEFINE n == Len(c.full)
           A == S \cap (1..n)
           B == (S \cup {k}) \cap (1..n)
<1>0. /\ n \in Nat /\ Num(c) = n + 2 /\ c.tail[0] \in Nat /\ c.tail[1] \in Nat
      /\ IsFiniteSet(A) /\ Cardinality(A) \in Nat /\ BufSize \in Nat /\ BufSize * Cardinality(A) \in Nat
  <2>1. n \in Nat /\ Num(c) = n + 2 /\ c.tail[0] \in Nat /\ c.tail[1] \in Nat
    BY ChunkFacts, SizesAssumption
  <2>2. /\ IsFiniteSet(A) /\ Cardinality(A) \in Nat /\ BufSize \in Nat /\ BufSize * Cardinality(A) \in Nat
    BY FullPart
  <2> QED BY <2>1, <2>2
<1>1. CASE k \in 1..n
  <2>1. B = A \cup {k} /\ k \notin A
    BY <1>1
  <2>2. Cardinality(B) = Cardinality(A) + 1
    BY <1>0, <2>1, FS_AddElement
  <2>3. BufSize * Cardinality(B) = BufSize * Cardinality(A) + BufSize
    BY <1>0, <2>2, Mult
  <2>4. Blk(c)[k].len = BufSize
    BY <1>1, BlkFacts
  <2>5. k # n + 1 /\ k # n + 2
    BY <1>0, <1>1
  <2>6. (n + 1 \in S \cup {k} <=> n + 1 \in S) /\ (n + 2 \in S \cup {k} <=> n + 2 \in S)
    BY <2>5
  <2> HIDE DEF A, B
  <2>7. /\ Weight(c, S) = BufSize * Cardinality(A) + (IF n + 1 \in S THEN c.tail[0] ELSE 0)
                            + (IF n + 2 \in S THEN c.tail[1] ELSE 0)
        /\ Weight(c, S \cup {k}) = BufSize * Cardinality(B) + (IF n + 1 \in S THEN c.tail[0] ELSE 0)
                            + (IF n + 2 \in S THEN c.tail[1] ELSE 0)
    BY <2>6 DEF Weight, A, B
  <2> QED BY <1>0, <2>3, <2>4, <2>7
<1>2. CASE k \notin 1..n
  <2>1. B = A /\ (k = n + 1 \/ k = n + 2)
    <3>1. B = A
      BY <1>2
    <3>2. k = n + 1 \/ k = n + 2
      BY <1>0, <1>2
    <3> QED BY <3>1, <3>2
  <2>2. Blk(c)[n + 1].len = c.tail[0] /\ Blk(c)[n + 2].len = c.tail[1]
    BY BlkFacts
  <2>3. n + 1 # n + 2
    BY <1>0
  <2>4. Weight(c, S) = BufSize * Cardinality(A) + (IF n + 1 \in S THEN c.tail[0] ELSE 0)
                            + (IF n + 2 \in S THEN c.tail[1] ELSE 0)
    BY DEF Weight
  <2>5. Weight(c, S \cup {k}) = BufSize * Cardinality(A) + (IF n + 1 \in S \cup {k} THEN c.tail[0] ELSE 0)
                            + (IF n + 2 \in S \cup {k} THEN c.tail[1] ELSE 0)
    BY <2>1 DEF Weight
  <2> HIDE DEF A, B, n
  <2>6. CASE k = n + 1
    <3>1. n + 1 \notin S /\ n + 1 \in S \cup {k} /\ (n + 2 \in S \cup {k} <=> n + 2 \in S)
      BY <2>3, <2>6
    <3> QED BY <1>0, <2>2, <2>4, <2>5, <2>6, <3>1
  <2>7. CASE k = n + 2
    <3>1. n + 2 \notin S /\ n + 2 \in S \cup {k} /\ (n + 1 \in S \cup {k} <=> n + 1 \in S)
      BY <2>3, <2>7
    <3> QED BY <1>0, <2>2, <2>4, <2>5, <2>7, <3>1
  <2> QED BY <2>1, <2>6, <2>7
<1> QED BY <1>1, <1>2

\* A larger set weighs no less.
LEMMA WeightMono ==
  ASSUME NEW c \in Chunks, NEW S, NEW T, S \subseteq T
  PROVE  Weight(c, S) <= Weight(c, T)
<1> DEFINE n == Len(c.full)
           A == S \cap (1..n)
           B == T \cap (1..n)
<1>0. /\ c.tail[0] \in Nat /\ c.tail[1] \in Nat
      /\ IsFiniteSet(A) /\ Cardinality(A) \in Nat /\ BufSize \in Nat /\ BufSize * Cardinality(A) \in Nat
      /\ IsFiniteSet(B) /\ Cardinality(B) \in Nat /\ BufSize * Cardinality(B) \in Nat
  <2>1. c.tail[0] \in Nat /\ c.tail[1] \in Nat
    BY ChunkFacts, SizesAssumption
  <2>2. /\ IsFiniteSet(A) /\ Cardinality(A) \in Nat /\ BufSize \in Nat /\ BufSize * Cardinality(A) \in Nat
    BY FullPart
  <2>3. /\ IsFiniteSet(B) /\ Cardinality(B) \in Nat /\ BufSize * Cardinality(B) \in Nat
    BY FullPart
  <2> QED BY <2>1, <2>2, <2>3
<1>1. Cardinality(A) <= Cardinality(B)
  <2>1. A \subseteq B
    OBVIOUS
  <2> QED BY <1>0, <2>1, FS_Subset
<1>2. BufSize * Cardinality(A) <= BufSize * Cardinality(B)
  BY <1>0, <1>1, Mult
<1>3. (n + 1 \in S => n + 1 \in T) /\ (n + 2 \in S => n + 2 \in T)
  OBVIOUS
<1> HIDE DEF A, B, n
<1>4. /\ Weight(c, S) = BufSize * Cardinality(A) + (IF n + 1 \in S THEN c.tail[0] ELSE 0)
                            + (IF n + 2 \in S THEN c.tail[1] ELSE 0)
      /\ Weight(c, T) = BufSize * Cardinality(B) + (IF n + 1 \in T THEN c.tail[0] ELSE 0)
                            + (IF n + 2 \in T THEN c.tail[1] ELSE 0)
  BY DEF Weight, A, B, n
<1>5. PICK p \in Nat, q \in Nat : p = BufSize * Cardinality(A) /\ q = BufSize * Cardinality(B) /\ p <= q
  BY <1>0, <1>2
<1>6. PICK t0 \in Nat, t1 \in Nat : t0 = c.tail[0] /\ t1 = c.tail[1]
  BY <1>0
<1>7. p + (IF n + 1 \in S THEN t0 ELSE 0) + (IF n + 2 \in S THEN t1 ELSE 0)
        <= q + (IF n + 1 \in T THEN t0 ELSE 0) + (IF n + 2 \in T THEN t1 ELSE 0)
  BY <1>3, <1>5
<1> QED
  BY <1>4, <1>5, <1>6, <1>7

\* The weight of a stream's blocks is its size.
LEMMA WeightOf == ASSUME NEW c \in Chunks, NEW s \in Streams PROVE Weight(c, Of(c, s)) = UnitsOf(c, s)
<1> DEFINE n == Len(c.full)
           A == Of(c, s) \cap (1..n)
<1>0. /\ n \in Nat /\ Num(c) = n + 2 /\ c.tail[0] \in Nat /\ c.tail[1] \in Nat
      /\ BufSize * Cardinality(A) \in Nat /\ DOMAIN c.full = 1..n
  <2>1. n \in Nat /\ Num(c) = n + 2 /\ c.tail[0] \in Nat /\ c.tail[1] \in Nat /\ DOMAIN c.full = 1..n
    BY ChunkFacts, SizesAssumption
  <2>2. BufSize * Cardinality(A) \in Nat
    BY FullPart
  <2> QED BY <2>1, <2>2
<1>1. A = {k \in DOMAIN c.full : c.full[k] = s}
  <2>1. \A k \in 1..n : Blk(c)[k].stream = c.full[k]
    BY BlkFacts
  <2> QED BY <1>0, <2>1 DEF Of
<1>2. (n + 1 \in Of(c, s) <=> s = 0) /\ (n + 2 \in Of(c, s) <=> s = 1)
  <2>1. Blk(c)[n + 1].stream = 0 /\ Blk(c)[n + 2].stream = 1
    BY BlkFacts
  <2> QED BY <1>0, <2>1 DEF Of
<1>3. UnitsOf(c, s) = BufSize * Cardinality(A) + c.tail[s]
  BY <1>1 DEF UnitsOf
<1>4. Weight(c, Of(c, s)) = BufSize * Cardinality(A) + (IF s = 0 THEN c.tail[0] ELSE 0)
                            + (IF s = 1 THEN c.tail[1] ELSE 0)
  BY <1>2 DEF Weight
<1> HIDE DEF A
<1> QED
  BY <1>0, <1>3, <1>4 DEF Streams

\* StreamIn's definitions are those with the chunk as a parameter.
LEMMA Same ==
  ASSUME chunk \in Chunks
  PROVE  /\ Blocks = Blk(chunk) /\ Len(Blocks) = Num(chunk)
         /\ \A s \in Streams, k \in 0..Num(chunk) : LastHead(s, k) = Link(chunk, s, k)
         /\ Units(0) = UnitsOf(chunk, 0) /\ Units(1) = UnitsOf(chunk, 1)
         /\ Units(0) \in Nat /\ Units(1) \in Nat
<1>1. Blocks = Blk(chunk) /\ Len(Blocks) = Num(chunk) /\ Num(chunk) \in Nat
  BY BlkFacts, ChunkFacts DEF Blocks, Blk
<1>2. ASSUME NEW s \in Streams, NEW k \in 0..Num(chunk) PROVE LastHead(s, k) = Link(chunk, s, k)
  <2>1. Later(s, k) = {j \in Of(chunk, s) : j > k}
    BY <1>1 DEF Later, Of
  <2> QED BY <2>1 DEF LastHead, Link
<1>3. Units(0) = UnitsOf(chunk, 0) /\ Units(1) = UnitsOf(chunk, 1)
  BY DEF Units
<1>4. Units(0) \in Nat /\ Units(1) \in Nat
  BY <1>3, WeightOf, WeightType DEF Streams
<1> QED
  BY <1>1, <1>2, <1>3, <1>4

----------------------------------------------------------------------------
(* The rings. *)

\* The slots of the two streams.
LEMMA SlotFacts ==
  /\ TotalThreads \in Nat /\ TotalThreads >= 2
  /\ Mine(0) = {0} /\ Mine(1) = 1..(TotalThreads - 1)
  /\ \A s \in Streams : Mine(s) \subseteq Slot /\ BaseThread(s) \in Mine(s)
  /\ \A i \in Slot : \E s \in Streams : i \in Mine(s)
  /\ \A i \in Slot : \A s, r \in Streams : i \in Mine(s) /\ i \in Mine(r) => r = s
  /\ \A i \in Slot : i \in Int
  /\ 0 \in Slot
<1>1. TotalThreads \in Nat /\ TotalThreads >= 2
  BY ThreadsAssumption DEF TotalThreads
<1>2. Mine(0) = {0}
  BY DEF Mine, BaseThread, StreamThreads
<1>3. Mine(1) = 1..(TotalThreads - 1)
  BY <1>1 DEF Mine, BaseThread, StreamThreads
<1>4. \A s \in Streams : Mine(s) \subseteq Slot /\ BaseThread(s) \in Mine(s)
  BY <1>1, <1>2, <1>3 DEF Slot, Streams, BaseThread
<1>5. \A i \in Slot : i \in Mine(0) \/ i \in Mine(1)
  BY <1>1, <1>2, <1>3 DEF Slot
<1>6. \A i \in Slot : ~(i \in Mine(0) /\ i \in Mine(1))
  BY <1>1, <1>2, <1>3 DEF Slot
<1>7. \A i \in Slot : i \in Int
  BY <1>1 DEF Slot
<1>8. Streams = {0, 1}
  BY DEF Streams
<1>9. 0 \in Slot
  BY <1>1 DEF Slot
<1>10. \A i \in Slot : \E s \in Streams : i \in Mine(s)
  BY <1>5, <1>8
<1>11. \A i \in Slot : \A s, r \in Streams : i \in Mine(s) /\ i \in Mine(r) => r = s
  BY <1>6, <1>8
<1> QED
  BY <1>1, <1>2, <1>3, <1>4, <1>7, <1>9, <1>10, <1>11

\* A stream's slots are an interval, and Advance goes round it.
LEMMA RoundFacts ==
  ASSUME NEW s \in Streams
  PROVE  \E lo \in Int, hi \in Int :
           /\ lo <= hi /\ Mine(s) = lo..hi
           /\ \A i \in lo..hi : Advance(s, i) = (IF i = hi THEN lo ELSE i + 1) /\ Advance(s, i) \in Mine(s)
<1> DEFINE lo == BaseThread(s)
           hi == BaseThread(s) + StreamThreads(s) - 1
<1>1. TotalThreads \in Nat /\ TotalThreads >= 2
  BY SlotFacts
<1>2. lo \in Int /\ hi \in Int /\ lo <= hi
  BY <1>1 DEF BaseThread, StreamThreads, Streams
<1>3. Mine(s) = lo..hi
  BY DEF Mine
<1>4. \A i : Advance(s, i) = IF i + 1 = BaseThread(s) + StreamThreads(s) THEN lo ELSE i + 1
  BY DEF Advance
<1>5. BaseThread(s) + StreamThreads(s) = hi + 1
  BY <1>1, <1>2 DEF BaseThread, StreamThreads, Streams
<1> HIDE DEF lo, hi
<1>6. \A i \in lo..hi : Advance(s, i) = (IF i = hi THEN lo ELSE i + 1) /\ Advance(s, i) \in lo..hi
  BY <1>2, <1>4, <1>5
<1> QED
  BY <1>2, <1>3, <1>6

\* A thread is started in the slot e.
LEMMA RingStart ==
  ASSUME NEW s \in Streams, NEW n, NEW e, NEW B \in SUBSET Mine(s), RingOf(s, n, e, B), e \notin B
  PROVE  /\ RingOf(s, n, Advance(s, e), B \cup {e})
         /\ \A i \in B : ~Before(n, e, i)
<1>1. PICK lo \in Int, hi \in Int :
        /\ lo <= hi /\ Mine(s) = lo..hi
        /\ \A i \in lo..hi : Advance(s, i) = (IF i = hi THEN lo ELSE i + 1) /\ Advance(s, i) \in Mine(s)
  BY RoundFacts
<1>2. n \in lo..hi /\ e \in lo..hi /\ Advance(s, e) = (IF e = hi THEN lo ELSE e + 1) /\ Advance(s, e) \in Mine(s)
  BY <1>1 DEF RingOf
<1>3. CASE n < e
  <2>1. \A i \in lo..hi : i \in B <=> n <= i /\ i < e
    BY <1>1, <1>3 DEF RingOf
  <2>2. \A i \in B : ~Before(n, e, i)
    <3> TAKE i \in B
    <3>1. i \in lo..hi
      BY <1>1
    <3>2. n <= i /\ i < e
      BY <2>1, <3>1
    <3>3. i \in Int /\ n \in Int /\ e \in Int
      BY <1>1, <1>2, <3>1
    <3> QED BY <1>3, <3>2, <3>3 DEF Before
  <2>3. CASE e = hi
    <3>1. Advance(s, e) = lo
      BY <1>2, <2>3
    <3>2. \A i \in lo..hi : i \in B \cup {e} <=> n <= i
      BY <1>1, <1>2, <2>1, <2>3
    <3>3. n > lo => RingOf(s, n, lo, B \cup {e})
      BY <1>1, <1>2, <3>2 DEF RingOf
    <3>4. n = lo => RingOf(s, n, lo, B \cup {e})
      BY <1>1, <1>2, <3>2 DEF RingOf
    <3> QED BY <1>2, <2>2, <3>1, <3>3, <3>4
  <2>4. CASE e # hi
    <3>1. Advance(s, e) = e + 1
      BY <1>2, <2>4
    <3>2. \A i \in lo..hi : i \in B \cup {e} <=> n <= i /\ i < e + 1
      BY <1>1, <1>2, <1>3, <2>1
    <3>3. n < e + 1 /\ ~(n > e + 1) /\ n # e + 1 /\ e + 1 \in Mine(s)
      BY <1>1, <1>2, <1>3, <2>4
    <3>4. RingOf(s, n, e + 1, B \cup {e})
      BY <1>1, <1>2, <3>2, <3>3 DEF RingOf
    <3> QED BY <2>2, <3>1, <3>4
  <2> QED BY <2>3, <2>4
<1>4. CASE n > e
  <2>1. \A i \in lo..hi : i \in B <=> n <= i \/ i < e
    BY <1>1, <1>4 DEF RingOf
  <2>2. \A i \in B : ~Before(n, e, i)
    BY <1>1, <1>2, <1>4, <2>1 DEF Before
  <2>3. Advance(s, e) = e + 1 /\ e + 1 \in Mine(s)
    BY <1>1, <1>2, <1>4
  <2>4. \A i \in lo..hi : i \in B \cup {e} <=> n <= i \/ i < e + 1
    BY <1>1, <1>2, <2>1
  <2>5. n > e + 1 => RingOf(s, n, e + 1, B \cup {e})
    BY <1>1, <1>2, <2>3, <2>4 DEF RingOf
  <2>6. n = e + 1 => RingOf(s, n, e + 1, B \cup {e})
    <3>1. n = e + 1 => \A i \in lo..hi : i \in B \cup {e}
      BY <1>1, <1>2, <2>4
    <3> QED BY <1>1, <1>2, <2>3, <3>1 DEF RingOf
  <2> QED BY <1>2, <1>4, <2>2, <2>3, <2>5, <2>6
<1>5. CASE n = e
  <2>1. B = {}
    BY <1>1, <1>2, <1>5 DEF RingOf
  <2>2. CASE lo = hi
    <3>1. Advance(s, e) = e /\ Mine(s) \subseteq B \cup {e}
      BY <1>1, <1>2, <2>2
    <3>2. RingOf(s, n, e, B \cup {e})
      BY <1>1, <1>2, <1>5, <3>1 DEF RingOf
    <3> QED BY <2>1, <3>1, <3>2
  <2>3. CASE lo # hi /\ e = hi
    <3>1. Advance(s, e) = lo /\ n > lo
      BY <1>1, <1>2, <1>5, <2>3
    <3>2. \A i \in lo..hi : i \in B \cup {e} <=> n <= i \/ i < lo
      BY <1>1, <1>2, <1>5, <2>1, <2>3
    <3>3. RingOf(s, n, lo, B \cup {e})
      BY <1>1, <1>2, <3>1, <3>2 DEF RingOf
    <3> QED BY <2>1, <3>1, <3>3
  <2>4. CASE e # hi
    <3>1. Advance(s, e) = e + 1 /\ n < e + 1 /\ e + 1 \in Mine(s)
      BY <1>1, <1>2, <1>5, <2>4
    <3>2. \A i \in lo..hi : i \in B \cup {e} <=> n <= i /\ i < e + 1
      BY <1>1, <1>2, <1>5, <2>1
    <3>3. RingOf(s, n, e + 1, B \cup {e})
      BY <1>1, <1>2, <3>1, <3>2 DEF RingOf
    <3> QED BY <2>1, <3>1, <3>3
  <2> QED BY <2>2, <2>3, <2>4
<1> QED BY <1>1, <1>2, <1>3, <1>4, <1>5

\* The thread of slot n is joined.
LEMMA RingTake ==
  ASSUME NEW s \in Streams, NEW n, NEW e, NEW B \in SUBSET Mine(s), RingOf(s, n, e, B), n \in B
  PROVE  /\ RingOf(s, Advance(s, n), e, B \ {n})
         /\ e \notin B \ {n}
         /\ \A i, j \in B \ {n} : Before(Advance(s, n), i, j) => Before(n, i, j)
<1>1. PICK lo \in Int, hi \in Int :
        /\ lo <= hi /\ Mine(s) = lo..hi
        /\ \A i \in lo..hi : Advance(s, i) = (IF i = hi THEN lo ELSE i + 1) /\ Advance(s, i) \in Mine(s)
  BY RoundFacts
<1>2. n \in lo..hi /\ e \in lo..hi /\ Advance(s, n) = (IF n = hi THEN lo ELSE n + 1) /\ Advance(s, n) \in Mine(s)
  BY <1>1 DEF RingOf
<1>3. ASSUME NEW i \in B \ {n}, NEW j \in B \ {n}, Before(Advance(s, n), i, j) PROVE Before(n, i, j)
  <2>1. i \in lo..hi /\ j \in lo..hi /\ i # n /\ j # n
    BY <1>1
  <2>2. CASE n = hi
    <3>1. Before(lo, i, j)
      BY <1>2, <1>3, <2>2
    <3> QED BY <1>1, <1>2, <2>1, <2>2, <3>1 DEF Before
  <2>3. CASE n # hi
    <3>1. Before(n + 1, i, j)
      BY <1>2, <1>3, <2>3
    <3>2. i \in Int /\ j \in Int /\ n \in Int
      BY <1>1, <1>2, <2>1
    <3>3. (i >= n + 1 <=> i >= n) /\ (j >= n + 1 <=> j >= n) /\ (j < n + 1 <=> j < n)
      BY <2>1, <3>2
    <3> QED BY <3>1, <3>3 DEF Before
  <2> QED BY <2>2, <2>3
<1>4. CASE n < e
  <2>1. \A i \in lo..hi : i \in B <=> n <= i /\ i < e
    BY <1>1, <1>4 DEF RingOf
  <2>2. Advance(s, n) = n + 1 /\ n + 1 \in Mine(s)
    BY <1>1, <1>2, <1>4
  <2>3. \A i \in lo..hi : i \in B \ {n} <=> n + 1 <= i /\ i < e
    BY <1>1, <1>2, <2>1
  <2>4. e \notin B \ {n}
    BY <1>1, <1>2, <2>3
  <2>5. n + 1 < e => RingOf(s, n + 1, e, B \ {n})
    BY <1>1, <1>2, <2>2, <2>3 DEF RingOf
  <2>6. n + 1 = e => RingOf(s, n + 1, e, B \ {n})
    <3>1. n + 1 = e => \A i \in lo..hi : i \notin B \ {n}
      BY <1>1, <1>2, <2>3
    <3>2. n + 1 = e => B \ {n} = {}
      BY <1>1, <3>1
    <3> QED BY <1>1, <1>2, <2>2, <3>2 DEF RingOf
  <2> QED BY <1>2, <1>3, <1>4, <2>2, <2>4, <2>5, <2>6
<1>5. CASE n > e
  <2>1. \A i \in lo..hi : i \in B <=> n <= i \/ i < e
    BY <1>1, <1>5 DEF RingOf
  <2>2. e \notin B \ {n}
    BY <1>1, <1>2, <1>5, <2>1
  <2>3. CASE n = hi
    <3>1. Advance(s, n) = lo
      BY <1>2, <2>3
    <3>2. \A i \in lo..hi : i \in B \ {n} <=> lo <= i /\ i < e
      BY <1>1, <1>2, <1>5, <2>1, <2>3
    <3>3. lo < e => RingOf(s, lo, e, B \ {n})
      BY <1>1, <1>2, <3>2 DEF RingOf
    <3>4. lo = e => B \ {n} = {}
      BY <1>1, <1>2, <3>2
    <3>5. lo = e => RingOf(s, lo, e, B \ {n})
      BY <1>1, <1>2, <3>4 DEF RingOf
    <3> QED BY <1>1, <1>2, <1>3, <2>2, <3>1, <3>3, <3>5
  <2>4. CASE n # hi
    <3>1. Advance(s, n) = n + 1 /\ n + 1 \in Mine(s) /\ n + 1 > e
      BY <1>1, <1>2, <1>5, <2>4
    <3>2. \A i \in lo..hi : i \in B \ {n} <=> n + 1 <= i \/ i < e
      BY <1>1, <1>2, <1>5, <2>1
    <3>3. RingOf(s, n + 1, e, B \ {n})
      BY <1>1, <1>2, <3>1, <3>2 DEF RingOf
    <3> QED BY <1>3, <2>2, <3>1, <3>3
  <2> QED BY <2>3, <2>4
<1>6. CASE n = e
  <2>1. B = lo..hi
    BY <1>1, <1>6 DEF RingOf
  <2>2. e \notin B \ {n}
    BY <1>6
  <2>3. CASE lo = hi
    <3>1. Advance(s, n) = n /\ B \ {n} = {}
      BY <1>1, <1>2, <2>1, <2>3
    <3>2. RingOf(s, n, e, B \ {n})
      BY <1>1, <1>2, <1>6, <3>1 DEF RingOf
    <3> QED BY <1>3, <2>2, <3>1, <3>2
  <2>4. CASE lo # hi /\ n = hi
    <3>1. Advance(s, n) = lo /\ lo < e /\ lo \in Mine(s)
      BY <1>1, <1>2, <1>6, <2>4
    <3>2. \A i \in lo..hi : i \in B \ {n} <=> lo <= i /\ i < e
      BY <1>1, <1>2, <1>6, <2>1, <2>4
    <3>3. RingOf(s, lo, e, B \ {n})
      BY <1>1, <1>2, <3>1, <3>2 DEF RingOf
    <3> QED BY <1>3, <2>2, <3>1, <3>3
  <2>5. CASE n # hi
    <3>1. Advance(s, n) = n + 1 /\ n + 1 \in Mine(s) /\ n + 1 > e
      BY <1>1, <1>2, <1>6, <2>5
    <3>2. \A i \in lo..hi : i \in B \ {n} <=> n + 1 <= i \/ i < e
      BY <1>1, <1>2, <1>6, <2>1
    <3>3. RingOf(s, n + 1, e, B \ {n})
      BY <1>1, <1>2, <3>1, <3>2 DEF RingOf
    <3> QED BY <1>3, <2>2, <3>1, <3>3
  <2> QED BY <2>3, <2>4, <2>5
<1> QED BY <1>1, <1>2, <1>4, <1>5, <1>6

\* When the reader's next slot is free, all are; it comes before all others; and of two
\* slots one comes before the other.
LEMMA RingNext ==
  ASSUME NEW s \in Streams, NEW n, NEW e, NEW B \in SUBSET Mine(s), RingOf(s, n, e, B)
  PROVE  /\ n \notin B => B = {}
         /\ \A i \in B : i # n => Before(n, n, i)
         /\ \A i, j \in B : i # j => Before(n, i, j) \/ Before(n, j, i)
<1>1. Mine(s) \subseteq Int
  BY SlotFacts
<1>2. n \notin B => B = {}
  BY <1>1 DEF RingOf
<1>3. \A i \in Mine(s) : i \in Int /\ n \in Int
  BY <1>1 DEF RingOf
<1>4. \A i \in B : i # n => Before(n, n, i)
  BY <1>3 DEF Before
<1>5. \A i, j \in B : i # j => Before(n, i, j) \/ Before(n, j, i)
  <2> TAKE i, j \in B
  <2>1. i \in Int /\ j \in Int /\ n \in Int
    BY <1>3
  <2> QED BY <2>1 DEF Before
<1> QED BY <1>2, <1>4, <1>5

----------------------------------------------------------------------------
(* The blocks in the ring. *)

\* A thread is started for the block whose header is next.
LEMMA OrderStart ==
  ASSUME NEW c \in Chunks, NEW s \in Streams, NEW u, NEW v, NEW n, NEW e, NEW lt \in 0..Num(c), NEW h,
         RingOf(s, n, e, Busy(u, s)), OrderOf(c, s, u, n, lt, h), h # 0, e \notin Busy(u, s),
         v[e].busy, v[e].block = h, \A i \in Mine(s) : i # e => v[i] = u[i]
  PROVE  /\ Busy(v, s) = Busy(u, s) \cup {e}
         /\ OrderOf(c, s, v, n, lt, Link(c, s, h))
         /\ \A i \in Busy(u, s) : u[i].block # h
<1>0. e \in Mine(s) /\ h \in Of(c, s) /\ lt < h /\ Num(c) \in Nat /\ Of(c, s) \subseteq 1..Num(c)
  BY OfFacts, ChunkFacts DEF RingOf, OrderOf
<1>1. Busy(v, s) = Busy(u, s) \cup {e}
  BY <1>0 DEF Busy
<1>2. Busy(u, s) \in SUBSET Mine(s)
  BY DEF Busy
<1>3. \A i \in Busy(u, s) : v[i] = u[i]
  BY <1>2
<1>4. \A i \in Busy(u, s) : u[i].block < h /\ lt < u[i].block /\ u[i].block \in Of(c, s)
  BY DEF OrderOf
<1>5. h \in 0..Num(c) /\ \A k \in Of(c, s) : k \in Int /\ h \in Int /\ lt \in Int
  BY <1>0
<1> DEFINE l == Link(c, s, h)
<1>6. /\ l \in 0..Num(c)
      /\ l = 0 => \A j \in Of(c, s) : j <= h
      /\ l # 0 => l \in Of(c, s) /\ h < l /\ \A j \in Of(c, s) : h < j => l <= j
  BY <1>5, LinkFacts
<1> HIDE DEF l
<1>7. ASSUME NEW k \in Of(c, s)
      PROVE  lt < k /\ (l = 0 \/ k < l) <=> \E i \in Busy(v, s) : v[i].block = k
  <2>1. lt < k /\ k < h <=> \E i \in Busy(u, s) : u[i].block = k
    BY DEF OrderOf
  <2>2. (\E i \in Busy(v, s) : v[i].block = k) <=> (k = h \/ \E i \in Busy(u, s) : u[i].block = k)
    BY <1>1, <1>3
  <2>3. lt < k /\ (l = 0 \/ k < l) <=> k = h \/ (lt < k /\ k < h)
    <3>1. k \in Int /\ h \in Int /\ lt \in Int /\ l \in Int
      BY <1>5, <1>6
    <3>2. l = 0 => k <= h
      BY <1>6
    <3>3. l # 0 => h < l /\ (h < k => l <= k)
      BY <1>6
    <3> QED BY <1>0, <3>1, <3>2, <3>3
  <2> QED BY <2>1, <2>2, <2>3
<1>8. ASSUME NEW i \in Busy(v, s), NEW j \in Busy(v, s), Before(n, i, j) PROVE v[i].block < v[j].block
  <2>1. i # e
    <3>1. ASSUME i = e PROVE FALSE
      <4>1. CASE j = e
        <5>1. e \in Int /\ n \in Int
          BY SlotFacts DEF RingOf
        <5> QED BY <1>8, <3>1, <4>1, <5>1 DEF Before
      <4>2. CASE j # e
        <5>1. j \in Busy(u, s)
          BY <1>1, <4>2
        <5> QED BY <1>2, <1>8, <3>1, <5>1, RingStart
      <4> QED BY <4>1, <4>2
    <3> QED BY <3>1
  <2>2. i \in Busy(u, s) /\ v[i] = u[i]
    BY <1>1, <1>3, <2>1
  <2>3. CASE j = e
    BY <1>4, <2>2, <2>3
  <2>4. CASE j # e
    <3>1. j \in Busy(u, s) /\ v[j] = u[j]
      BY <1>1, <1>3, <2>4
    <3> QED BY <1>8, <2>2, <3>1 DEF OrderOf
  <2> QED BY <2>3, <2>4
<1>9. \A i \in Busy(v, s) : v[i].block \in Of(c, s)
  BY <1>0, <1>1, <1>3, <1>4
<1>10. l # 0 => l \in Of(c, s) /\ lt < l
  BY <1>0, <1>5, <1>6
<1>11. \A i \in Busy(u, s) : u[i].block # h
  BY <1>4, <1>5
<1>12. OrderOf(c, s, v, n, lt, l)
  BY <1>7, <1>8, <1>9, <1>10 DEF OrderOf
<1> QED BY <1>1, <1>11, <1>12 DEF l

\* The block of slot n is taken: it is the one behind the last.
LEMMA OrderTake ==
  ASSUME NEW c \in Chunks, NEW s \in Streams, NEW u, NEW v, NEW n, NEW e, NEW lt \in 0..Num(c), NEW h \in 0..Num(c),
         RingOf(s, n, e, Busy(u, s)), OrderOf(c, s, u, n, lt, h), n \in Busy(u, s),
         ~v[n].busy, \A i \in Mine(s) : i # n => v[i] = u[i]
  PROVE  /\ Busy(v, s) = Busy(u, s) \ {n}
         /\ OrderOf(c, s, v, Advance(s, n), u[n].block, h)
         /\ u[n].block \in Of(c, s) /\ lt < u[n].block
         /\ u[n].block = Link(c, s, lt)
         /\ \A k \in Of(c, s) : k <= u[n].block <=> k <= lt \/ k = u[n].block
         /\ \A i \in Busy(v, s) : u[n].block < u[i].block /\ v[i] = u[i]
<1> DEFINE b == u[n].block
<1>0. Num(c) \in Nat /\ Of(c, s) \subseteq 1..Num(c) /\ Busy(u, s) \in SUBSET Mine(s)
  BY OfFacts, ChunkFacts DEF Busy
<1>1. Busy(v, s) = Busy(u, s) \ {n}
  BY DEF Busy
<1>2. \A i \in Busy(v, s) : i # n /\ v[i] = u[i] /\ i \in Busy(u, s)
  BY <1>0, <1>1
<1>3. \A i \in Busy(u, s) : i # n => Before(n, n, i)
  BY <1>0, RingNext
<1>4. \A i \in Busy(v, s) : b < u[i].block
  BY <1>2, <1>3 DEF OrderOf
<1>5. b \in Of(c, s) /\ lt < b /\ (h = 0 \/ b < h)
  BY DEF OrderOf
<1> HIDE DEF b
<1>6. \A k \in Of(c, s) : k \in Int /\ b \in Int /\ lt \in Int /\ h \in Int
  BY <1>0, <1>5
<1>7. ASSUME NEW k \in Of(c, s), lt < k PROVE b <= k
  <2>1. CASE h = 0 \/ k < h
    <3>1. PICK i \in Busy(u, s) : u[i].block = k
      BY <1>7, <2>1 DEF OrderOf
    <3>2. CASE i = n
      BY <1>6, <3>1, <3>2 DEF b
    <3>3. CASE i # n
      <4>1. i \in Busy(v, s)
        BY <1>1, <3>3
      <4> QED BY <1>4, <1>6, <3>1, <4>1
    <3> QED BY <3>2, <3>3
  <2>2. CASE h # 0 /\ ~(k < h)
    BY <1>5, <1>6, <2>2
  <2> QED BY <2>1, <2>2
<1>8. b = Link(c, s, lt)
  BY <1>5, <1>7, LinkFacts
<1>9. \A k \in Of(c, s) : k <= b <=> k <= lt \/ k = b
  <2> TAKE k \in Of(c, s)
  <2> QED BY <1>5, <1>6, <1>7
<1>10. ASSUME NEW k \in Of(c, s)
       PROVE  b < k /\ (h = 0 \/ k < h) <=> \E i \in Busy(v, s) : v[i].block = k
  <2>1. lt < k /\ (h = 0 \/ k < h) <=> \E i \in Busy(u, s) : u[i].block = k
    BY DEF OrderOf
  <2>2. ASSUME b < k, h = 0 \/ k < h PROVE \E i \in Busy(v, s) : v[i].block = k
    <3>1. lt < k
      BY <1>5, <1>6, <2>2
    <3>2. PICK i \in Busy(u, s) : u[i].block = k
      BY <2>1, <2>2, <3>1
    <3>3. i # n
      BY <1>6, <2>2, <3>2 DEF b
    <3>4. i \in Busy(v, s)
      BY <1>1, <3>3
    <3> QED BY <1>2, <3>2, <3>4
  <2>3. ASSUME NEW i \in Busy(v, s), v[i].block = k PROVE b < k /\ (h = 0 \/ k < h)
    BY <1>2, <1>4, <2>1, <2>3
  <2> QED BY <2>2, <2>3
<1>11. ASSUME NEW i \in Busy(v, s), NEW j \in Busy(v, s), Before(Advance(s, n), i, j)
       PROVE  v[i].block < v[j].block
  <2>1. i \in Busy(u, s) \ {n} /\ j \in Busy(u, s) \ {n}
    BY <1>1
  <2>2. Before(n, i, j)
    BY <1>0, <1>11, <2>1, RingTake
  <2> QED BY <1>2, <2>1, <2>2 DEF OrderOf
<1>12. \A i \in Busy(v, s) : v[i].block \in Of(c, s)
  BY <1>2 DEF OrderOf
<1>13. h # 0 => h \in Of(c, s) /\ b < h
  BY <1>5 DEF OrderOf
<1>14. OrderOf(c, s, v, Advance(s, n), b, h)
  BY <1>10, <1>11, <1>12, <1>13 DEF OrderOf
<1> QED BY <1>1, <1>2, <1>4, <1>5, <1>8, <1>9, <1>14 DEF b

\* The other stream's ring and blocks do not change.
LEMMA OrderSame ==
  ASSUME NEW c, NEW s \in Streams, NEW u, NEW v, NEW n, NEW lt, NEW h, OrderOf(c, s, u, n, lt, h),
         \A i \in Mine(s) : v[i].busy = u[i].busy /\ v[i].block = u[i].block
  PROVE  OrderOf(c, s, v, n, lt, h) /\ Busy(v, s) = Busy(u, s)
<1>1. Busy(v, s) = Busy(u, s) /\ Busy(u, s) \subseteq Mine(s)
  BY DEF Busy
<1> QED BY <1>1 DEF OrderOf

\* The blocks in flight when a thread is started in slot e.
LEMMA FlightStart ==
  ASSUME NEW u, NEW v, NEW e \in Slot, ~u[e].busy, v[e].busy, \A i \in Slot : i # e => v[i] = u[i]
  PROVE  InFlight(v) = InFlight(u) \cup {v[e].block}
<1>1. {j \in Slot : v[j].busy} = {j \in Slot : u[j].busy} \cup {e}
  OBVIOUS
<1>2. \A j \in {i \in Slot : u[i].busy} : v[j] = u[j]
  OBVIOUS
<1> QED BY <1>1, <1>2 DEF InFlight

\* The block of slot n is handed over.
LEMMA FlightTake ==
  ASSUME NEW u, NEW v, NEW n \in Slot, u[n].busy, ~v[n].busy, \A i \in Slot : i # n => v[i] = u[i],
         \A i \in Slot : i # n /\ u[i].busy => u[i].block # u[n].block
  PROVE  InFlight(u) = InFlight(v) \cup {u[n].block} /\ u[n].block \notin InFlight(v)
<1>1. {j \in Slot : u[j].busy} = {j \in Slot : v[j].busy} \cup {n} /\ n \notin {j \in Slot : v[j].busy}
  OBVIOUS
<1>2. \A j \in {i \in Slot : v[i].busy} : v[j] = u[j] /\ u[j].block # u[n].block
  OBVIOUS
<1> QED BY <1>1, <1>2 DEF InFlight

\* The headers read are a finite set.
LEMMA FetchedFacts ==
  ASSUME NEW c \in Chunks, NEW lh, NEW e
  PROVE  /\ IsFiniteSet(Fetched(c, lh, e)) /\ Cardinality(Fetched(c, lh, e)) \in 0..Num(c)
<1>1. Fetched(c, lh, e) \subseteq 1..Num(c) /\ Num(c) \in Nat
  BY ChunkFacts DEF Fetched
<1>2. IsFiniteSet(1..Num(c)) /\ Cardinality(1..Num(c)) = Num(c)
  BY <1>1, FS_Interval
<1>3. IsFiniteSet(Fetched(c, lh, e)) /\ Cardinality(Fetched(c, lh, e)) <= Cardinality(1..Num(c))
  BY <1>1, <1>2, FS_Subset
<1>4. Cardinality(Fetched(c, lh, e)) \in Nat
  BY <1>3, FS_CardinalityType
<1> QED BY <1>1, <1>2, <1>3, <1>4

\* One more header is read, that at last_head of stream s.
LEMMA FetchOne ==
  ASSUME NEW c \in Chunks, NEW s \in Streams, NEW lh, NEW e, NEW lh2, NEW e2,
         lh[s] \in Of(c, s), ~e[s],
         \A r \in Streams : r # s => lh2[r] = lh[r] /\ e2[r] = e[r],
         \/ lh2[s] = Link(c, s, lh[s]) /\ (lh2[s] # 0 => ~e2[s])
         \/ lh2[s] = lh[s] /\ e2[s]
  PROVE  Cardinality(Fetched(c, lh2, e2)) = Cardinality(Fetched(c, lh, e)) + 1
<1> DEFINE k == lh[s]
<1>0. Num(c) \in Nat /\ k \in 1..Num(c) /\ Blk(c)[k].stream = s /\ Of(c, s) \subseteq 1..Num(c)
  BY OfFacts, ChunkFacts DEF Of
<1>1. k \notin Fetched(c, lh, e)
  BY <1>0 DEF Fetched
<1>2. ASSUME NEW j \in 1..Num(c), Blk(c)[j].stream # s
      PROVE  j \in Fetched(c, lh2, e2) <=> j \in Fetched(c, lh, e)
  BY <1>2 DEF Fetched
<1>3. ASSUME NEW j \in 1..Num(c), Blk(c)[j].stream = s
      PROVE  j \in Fetched(c, lh2, e2) <=> (j \in Fetched(c, lh, e) \/ j = k)
  <2>1. j \in Of(c, s)
    BY <1>3 DEF Of
  <2>2. j \in Fetched(c, lh, e) <=> j < k
    BY <1>0, <1>3 DEF Fetched
  <2>3. j \in Fetched(c, lh2, e2) <=> (lh2[s] = 0 \/ j < lh2[s] \/ (j = lh2[s] /\ e2[s]))
    BY <1>3 DEF Fetched
  <2>4. CASE lh2[s] = Link(c, s, k) /\ (lh2[s] # 0 => ~e2[s])
    <3> DEFINE l == Link(c, s, k)
    <3>1. /\ l \in 0..Num(c)
          /\ l = 0 => j <= k
          /\ l # 0 => k < l /\ (k < j => l <= j)
      BY <1>0, <2>1, LinkFacts
    <3>2. lh2[s] = l /\ (l # 0 => ~e2[s])
      BY <2>4
    <3> HIDE DEF l, k
    <3>3. j \in Int /\ k \in Int /\ l \in Int
      BY <1>0, <3>1
    <3>4. (l = 0 \/ j < l) <=> (j < k \/ j = k)
      BY <3>1, <3>3
    <3>5. j \in Fetched(c, lh2, e2) <=> (l = 0 \/ j < l)
      BY <2>3, <3>2
    <3> QED BY <2>2, <3>4, <3>5
  <2>5. CASE lh2[s] = k /\ e2[s]
    BY <1>0, <2>2, <2>3, <2>5
  <2> QED BY <2>4, <2>5
<1>4. Fetched(c, lh2, e2) = Fetched(c, lh, e) \cup {k}
  <2>1. Fetched(c, lh2, e2) \subseteq 1..Num(c) /\ Fetched(c, lh, e) \subseteq 1..Num(c)
    BY DEF Fetched
  <2> QED BY <1>0, <1>2, <1>3, <2>1
<1> HIDE DEF k
<1> QED BY <1>1, <1>4, FetchedFacts, FS_AddElement

----------------------------------------------------------------------------
(* Steps that leave the pool alone. *)

\* A free slot 0 unless stream 0 is about to be joined.
LEMMA Slot0 ==
  ASSUME PoolInv PROVE ucthreads[0].busy => mpc = "done" \/ (mpc \in {"turn", "join"} /\ cur = 0)
<1>1. Mine(0) = {0} /\ 0 \in Streams
  BY SlotFacts DEF Streams
<1>2. uthread_no[0] = 0
  BY <1>1 DEF PoolInv, RingInv, RingOf
<1> QED BY <1>1, <1>2 DEF PoolInv, RingInv, Busy

\* A step of the reader that leaves the pool and the headers alone.
LEMMA PoolStays ==
  ASSUME PoolInv, UNCHANGED <<chunk, last_head, eos, uthread_no, unext_thread, total_read, taken>>,
         UNCHANGED <<ucthreads, ram_alloced, output_thread, pc, faults>>,
         \/ mpc' = "done"
         \/ mpc \notin {"turn", "join", "done"} /\ (mpc' = "fetch" => ~eos[cur'])
         \/ mpc = "turn" /\ mpc' = "join" /\ cur' = cur
  PROVE  PoolInv'
<1>1. PoolType' /\ TakenInv' /\ SlotInv' /\ OrderInv'
  <2>1. PoolType'
    BY DEF PoolInv, PoolType
  <2>2. TakenInv'
    BY DEF PoolInv, TakenInv
  <2>3. SlotInv'
    BY DEF PoolInv, SlotInv
  <2>4. OrderInv'
    BY DEF PoolInv, OrderInv
  <2> QED BY <2>1, <2>2, <2>3, <2>4
<1>2. RingInv'
  BY DEF PoolInv, RingInv
<1>3. EosInv'
  BY DEF PoolInv, EosInv
<1>4. RamInv'
  BY Slot0 DEF PoolInv, RamInv
<1> QED BY <1>1, <1>2, <1>3, <1>4 DEF PoolInv

\* The process ends with an error.
LEMMA ExitIInv ==
  ASSUME IInv, exit = "running", NEW how \in {"invalid", "failed", "mismatch"}, Exit(how), UNCHANGED poolVars
  PROVE  IInv'
<1>1. mpc' = "done" /\ exit' = how /\ UNCHANGED <<chunk, cur, want, s0_have, tokens, literals, streamVars, poolVars>>
  BY DEF Exit
<1>2. PoolInv'
  BY <1>1, PoolStays DEF IInv, streamVars, poolVars
<1>3. ReaderType'
  BY <1>1 DEF IInv, ReaderType, streamVars
<1>4. ReadInv' /\ EndInv'
  BY <1>1 DEF ReadInv, EndInv
<1> QED BY <1>2, <1>3, <1>4 DEF IInv

\* The sizes of the streams.
LEMMA UnitsFacts ==
  ASSUME PoolType
  PROVE  /\ UnitsOf(chunk, 0) \in Nat /\ UnitsOf(chunk, 1) \in Nat /\ UnitsOf(chunk, 0) >= 1
         /\ UnitsOf(chunk, 0) = 1 => UnitsOf(chunk, 1) = 0
         /\ Units(0) = UnitsOf(chunk, 0) /\ Units(1) = UnitsOf(chunk, 1)
<1>1. chunk \in Chunks
  BY DEF PoolType
<1> QED BY <1>1, Same, ChunkFacts

\* The next token.
LEMMA ReadHeaderIInv == ASSUME IInv, exit = "running", ReadHeader PROVE IInv'
<1>0. /\ mpc = "token" /\ s0_have > 0 /\ s0_have' = s0_have - 1 /\ tokens' = tokens + 1
      /\ UNCHANGED <<chunk, streamVars, poolVars, exit>>
  BY DEF ReadHeader
<1>1. /\ PoolInv /\ ReaderType /\ ReadInv /\ UnitsOf(chunk, 0) \in Nat /\ UnitsOf(chunk, 1) \in Nat
      /\ Units(0) = UnitsOf(chunk, 0) /\ Units(1) = UnitsOf(chunk, 1)
  BY UnitsFacts DEF IInv, PoolInv
<1>2. /\ s0_have \in 0..Window /\ tokens \in 0..UnitsOf(chunk, 0) /\ literals \in 0..UnitsOf(chunk, 1)
      /\ want \in Nat /\ cur \in Streams /\ Window \in Nat
  BY <1>1, SizesAssumption DEF ReaderType
<1>3. /\ tokens < UnitsOf(chunk, 0)
      /\ TakenUnits(chunk, 1, taken[1]) = buf[1].left + literals - 0
      /\ TakenUnits(chunk, 0, taken[0]) = buf[0].left + tokens + s0_have + 0
      /\ UnitsOf(chunk, 0) <= tokens + 1 => literals = UnitsOf(chunk, 1)
  BY <1>0, <1>1 DEF ReadInv, Reading
<1>4. /\ mpc' \in {"close", "token", "read"} /\ cur' \in Streams /\ want' \in Nat
      /\ literals' \in 0..UnitsOf(chunk, 1)
      /\ mpc' = "close" => tokens + 1 = UnitsOf(chunk, 0) /\ literals' = literals
      /\ mpc' # "close" => tokens + 1 < UnitsOf(chunk, 0)
      /\ mpc' # "close" /\ UnitsOf(chunk, 0) = tokens + 2 => literals' = UnitsOf(chunk, 1)
      /\ mpc' = "token" => literals' = literals
      /\ mpc' = "read" => cur' = 1 /\ literals' - want' = literals
  <2>1. CASE tokens' = Units(0)
    BY <1>0, <1>1, <1>2, <2>1 DEF ReadHeader
  <2>2. CASE tokens' # Units(0)
    <3>1. PICK n \in LiteralLengths : Token(n)
      BY <2>2 DEF ReadHeader
    <3>2. /\ n \in 0..(UnitsOf(chunk, 1) - literals)
          /\ tokens + 2 = UnitsOf(chunk, 0) => n = UnitsOf(chunk, 1) - literals
      BY <1>1, <1>2 DEF LiteralLengths
    <3>3. /\ literals' = literals + n /\ cur' = (IF n = 0 THEN cur ELSE 1) /\ want' = n
          /\ mpc' = (IF n = 0 THEN "token" ELSE "read")
      BY <3>1 DEF Token
    <3>4. literals \in Int /\ UnitsOf(chunk, 1) \in Int /\ n \in Nat /\ n <= UnitsOf(chunk, 1) - literals
      BY <1>1, <1>2, <3>2
    <3>5. literals' \in 0..UnitsOf(chunk, 1) /\ literals' - want' = literals
      BY <1>1, <1>2, <3>3, <3>4
    <3>6. tokens + 1 < UnitsOf(chunk, 0)
      BY <1>0, <1>1, <1>2, <1>3, <2>2
    <3>7. tokens + 2 = UnitsOf(chunk, 0) => literals' = UnitsOf(chunk, 1)
      BY <3>2, <3>3, <3>4
    <3>8. n = 0 => literals' = literals
      BY <3>3, <3>4
    <3> QED BY <1>2, <3>3, <3>4, <3>5, <3>6, <3>7, <3>8 DEF Streams
  <2> QED BY <2>1, <2>2
<1>5. PoolInv'
  BY <1>0, <1>1, <1>4, PoolStays DEF streamVars, poolVars
<1>6. ReaderType'
  <2>1. s0_have' \in 0..Window /\ tokens' \in 0..UnitsOf(chunk, 0)
    BY <1>0, <1>1, <1>2, <1>3
  <2> QED BY <1>0, <1>1, <1>4, <2>1 DEF ReaderType, streamVars
<1>7. UNCHANGED <<chunk, buf, taken, exit>>
  BY <1>0 DEF streamVars
<1>8. EndInv'
  BY <1>7, <1>0 DEF IInv, ReadInv, EndInv
<1>9. ReadInv'
  <2>1. buf[0].left \in Int /\ buf[1].left \in Int
    BY <1>1 DEF ReaderType, Streams
  <2>0. /\ literals \in Int /\ literals' \in Int /\ want' \in Int /\ tokens \in Int /\ s0_have \in Int
        /\ UnitsOf(chunk, 1) \in Int
    BY <1>1, <1>2, <1>4
  <2>2. TakenUnits(chunk, 1, taken[1]) = buf[1].left + literals' - (IF cur' = 1 /\ mpc' \in Reading THEN want' ELSE 0)
    <3>1. CASE mpc' = "read"
      <4>1. (IF cur' = 1 /\ mpc' \in Reading THEN want' ELSE 0) = want'
        BY <1>4, <3>1 DEF Reading
      <4>2. literals' - want' = literals
        BY <1>4, <3>1
      <4> QED BY <1>3, <2>0, <2>1, <4>1, <4>2
    <3>2. CASE mpc' # "read"
      <4>1. (IF cur' = 1 /\ mpc' \in Reading THEN want' ELSE 0) = 0
        BY <1>4, <3>2 DEF Reading
      <4>2. literals' = literals
        BY <1>4, <3>2
      <4> QED BY <1>3, <2>0, <2>1, <4>1, <4>2
    <3> QED BY <3>1, <3>2
  <2>3. TakenUnits(chunk, 0, taken[0])
          = buf[0].left + tokens' + s0_have' + (IF cur' = 0 /\ mpc' \in Reading THEN Window - want' ELSE 0)
    <3>1. (IF cur' = 0 /\ mpc' \in Reading THEN Window - want' ELSE 0) = 0
      BY <1>4 DEF Reading
    <3> QED BY <1>0, <1>3, <2>0, <2>1, <3>1
  <2>4. ~(cur' = 0 /\ mpc' \in Reading) /\ mpc' \notin {"fill", "fetch", "turn", "join", "return", "done"}
    BY <1>4 DEF Reading
  <2>5. /\ mpc' \in Reading \cup {"token"} => tokens' < UnitsOf(chunk, 0)
        /\ mpc' = "close" => tokens' = UnitsOf(chunk, 0)
    BY <1>0, <1>4 DEF Reading
  <2>6. UnitsOf(chunk, 0) <= tokens' + 1 => literals' = UnitsOf(chunk, 1)
    BY <1>0, <1>1, <1>2, <1>3, <1>4
  <2>7. exit' = "running" /\ mpc' # "done"
    BY <1>4, <1>7
  <2> QED BY <1>7, <2>2, <2>3, <2>4, <2>5, <2>6, <2>7 DEF ReadInv
<1> QED BY <1>5, <1>6, <1>8, <1>9 DEF IInv

\* The block taken last.
LEMMA LastFacts ==
  ASSUME PoolInv, NEW s \in Streams
  PROVE  LastOf(taken[s]) \in 0..Num(chunk) /\ Num(chunk) \in Nat /\ chunk \in Chunks
<1>1. chunk \in Chunks /\ Num(chunk) \in Nat
  BY ChunkFacts DEF PoolInv, PoolType
<1>2. taken[s] \in Seq([block : 1..Num(chunk), plain : {TRUE}])
  BY DEF PoolInv, TakenInv
<1>3. ASSUME taken[s] # <<>> PROVE taken[s][Len(taken[s])].block \in 1..Num(chunk)
  <2> DEFINE R == [block : 1..Num(chunk), plain : {TRUE}]
  <2>1. Len(taken[s]) \in Nat \ {0}
    BY <1>2, <1>3, EmptySeq
  <2>2. taken[s] \in [1..Len(taken[s]) -> R]
    <3>1. taken[s] \in Seq(R)
      BY <1>2
    <3> HIDE DEF R
    <3> QED BY <3>1
  <2>3. taken[s][Len(taken[s])] \in R
    <3> HIDE DEF R
    <3> QED BY <2>1, <2>2
  <2> QED BY <2>3
<1>4. LastOf(taken[s]) = 0 \/ LastOf(taken[s]) \in 1..Num(chunk)
  BY <1>3 DEF LastOf
<1> QED BY <1>1, <1>4

\* At the end of a stream, with no thread left, all its data has been taken.
LEMMA AllTaken ==
  ASSUME PoolInv, NEW s \in Streams, eos[s], Busy(ucthreads, s) = {}
  PROVE  TakenUnits(chunk, s, taken[s]) = UnitsOf(chunk, s)
<1> DEFINE lt == LastOf(taken[s])
           h == last_head[s]
           T == {k \in Of(chunk, s) : k <= lt}
<1>1. lt \in 0..Num(chunk) /\ Num(chunk) \in Nat /\ chunk \in Chunks /\ h \in 0..Num(chunk)
  BY LastFacts DEF PoolInv, PoolType
<1>2. OrderOf(chunk, s, ucthreads, unext_thread[s], lt, h)
  BY DEF PoolInv, OrderInv
<1>3. h = 0 \/ (Blk(chunk)[h].len = 0 /\ Link(chunk, s, h) = 0)
  BY DEF PoolInv, EosInv
<1>4. Of(chunk, s) \subseteq 1..Num(chunk)
  BY <1>1, OfFacts
<1>5. TakenUnits(chunk, s, taken[s]) = Weight(chunk, T)
  BY DEF TakenUnits
<1>6. \A k \in Of(chunk, s) : ~(lt < k /\ (h = 0 \/ k < h))
  BY <1>2 DEF OrderOf
<1>7. \A k \in Of(chunk, s) : k \in Int /\ lt \in Int /\ h \in Int
  BY <1>1, <1>4
<1>8. CASE h = 0
  <2>1. T = Of(chunk, s)
    BY <1>6, <1>7, <1>8
  <2> QED BY <1>1, <1>5, <2>1, WeightOf
<1>9. CASE h # 0
  <2>1. h \in Of(chunk, s) /\ lt < h
    BY <1>2, <1>9 DEF OrderOf
  <2>2. \A k \in Of(chunk, s) : k <= h
    BY <1>1, <1>3, <1>9, LinkFacts
  <2> HIDE DEF h, lt
  <2>3. \A k \in Of(chunk, s) : k <= lt \/ k = h
    BY <1>6, <1>7, <2>2
  <2>4. Of(chunk, s) = T \cup {h} /\ h \notin T
    BY <1>7, <2>1, <2>3
  <2>5. h \in 1..Num(chunk) /\ Blk(chunk)[h].len = 0
    BY <1>3, <1>4, <1>9, <2>1
  <2> HIDE DEF T
  <2>6. Weight(chunk, T \cup {h}) = Weight(chunk, T) + 0 /\ Weight(chunk, T) \in Nat
    BY <1>1, <2>4, <2>5, WeightAdd, WeightType
  <2> QED BY <1>1, <1>5, <2>4, <2>6, WeightOf
<1> QED BY <1>8, <1>9

\* The reader's variables in numbers.
LEMMA ReaderFacts ==
  ASSUME IInv, exit = "running"
  PROVE  /\ PoolInv /\ ReaderType /\ ReadInv /\ mpc # "done"
         /\ UnitsOf(chunk, 0) \in Nat /\ UnitsOf(chunk, 1) \in Nat
         /\ s0_have \in 0..Window /\ tokens \in 0..UnitsOf(chunk, 0) /\ literals \in 0..UnitsOf(chunk, 1)
         /\ want \in Nat /\ cur \in Streams /\ Window \in Nat /\ Window > 0
         /\ \A s \in Streams : buf[s].left \in Nat
<1>1. PoolInv /\ ReaderType /\ ReadInv /\ UnitsOf(chunk, 0) \in Nat /\ UnitsOf(chunk, 1) \in Nat
  BY UnitsFacts DEF IInv, PoolInv
<1>2. /\ s0_have \in 0..Window /\ tokens \in 0..UnitsOf(chunk, 0) /\ literals \in 0..UnitsOf(chunk, 1)
      /\ want \in Nat /\ cur \in Streams /\ Window \in Nat /\ Window > 0
  BY <1>1, SizesAssumption DEF ReaderType
<1>3. \A s \in Streams : buf[s].left \in 0..BufSize
  BY <1>1 DEF ReaderType
<1>4. BufSize \in Nat
  BY SizesAssumption
<1>5. mpc # "done"
  BY <1>1 DEF ReadInv
<1> QED BY <1>1, <1>2, <1>3, <1>4, <1>5

\* What of the invariant is left when the process goes on.
LEMMA RunningEnd == ASSUME exit' = "running" PROVE EndInv'
BY DEF EndInv

\* The window is empty.
LEMMA S0NeedIInv == ASSUME IInv, exit = "running", S0Need PROVE IInv'
<1>0. /\ mpc = "token" /\ s0_have = 0 /\ cur' = 0 /\ want' = Window /\ mpc' = "read"
      /\ UNCHANGED <<chunk, s0_have, tokens, literals, streamVars, poolVars, exit>>
  BY DEF S0Need
<1>1. /\ PoolInv /\ ReaderType /\ ReadInv /\ Window \in Nat
      /\ tokens \in 0..UnitsOf(chunk, 0) /\ literals \in 0..UnitsOf(chunk, 1)
      /\ UnitsOf(chunk, 0) \in Nat /\ UnitsOf(chunk, 1) \in Nat /\ \A s \in Streams : buf[s].left \in Nat
  BY ReaderFacts
<1>2. PoolInv'
  BY <1>0, <1>1, PoolStays DEF streamVars, poolVars
<1>3. ReaderType'
  BY <1>0, <1>1 DEF ReaderType, streamVars, Streams
<1>4. ReadInv'
  <2>0. UNCHANGED <<chunk, buf, taken, eos, ucthreads, tokens, literals, s0_have, exit>>
    BY <1>0 DEF streamVars, poolVars
  <2>1. /\ TakenUnits(chunk, 1, taken[1]) = buf[1].left + literals - 0
        /\ TakenUnits(chunk, 0, taken[0]) = buf[0].left + tokens + s0_have + 0
        /\ tokens < UnitsOf(chunk, 0)
        /\ UnitsOf(chunk, 0) <= tokens + 1 => literals = UnitsOf(chunk, 1)
    BY <1>0, <1>1 DEF ReadInv, Reading
  <2>2. Window - Window = 0 /\ Window <= Window
    BY <1>1
  <2> QED BY <1>0, <2>0, <2>1, <2>2 DEF ReadInv, Reading
<1> QED BY <1>0, <1>2, <1>3, <1>4, RunningEnd DEF IInv

\* A part of the current buffer is copied.
LEMMA ReadStreamIInv == ASSUME IInv, exit = "running", ReadStream PROVE IInv'
<1> DEFINE left == buf[cur].left
           n == IF left < want THEN left ELSE want
<1>0. /\ mpc = "read" /\ want' = want - n /\ buf' = [buf EXCEPT ![cur].left = @ - n]
      /\ mpc' = (IF want' = 0 THEN "return" ELSE "fill")
      /\ UNCHANGED <<chunk, cur, s0_have, tokens, literals, last_head, eos, uthread_no,
                     unext_thread, total_read, taken, poolVars, exit>>
  BY DEF ReadStream
<1>1. /\ PoolInv /\ ReaderType /\ ReadInv /\ Window \in Nat /\ want \in Nat /\ cur \in Streams
      /\ tokens \in 0..UnitsOf(chunk, 0) /\ literals \in 0..UnitsOf(chunk, 1)
      /\ UnitsOf(chunk, 0) \in Nat /\ UnitsOf(chunk, 1) \in Nat /\ \A s \in Streams : buf[s].left \in Nat
      /\ s0_have \in 0..Window
  BY ReaderFacts
<1>2. n \in Nat /\ n <= left /\ n <= want /\ left \in Nat /\ (want - n = 0 \/ left - n = 0)
  BY <1>1
<1> HIDE DEF n, left
<1>3. PoolInv'
  BY <1>0, <1>1, PoolStays DEF poolVars
<1>4. buf \in [Streams -> [block : 0..Num(chunk), left : 0..BufSize]] /\ BufSize \in Nat
  BY <1>1, SizesAssumption DEF ReaderType
<1>5. left - n \in 0..BufSize
  BY <1>2, <1>1, <1>4 DEF left
<1>6. /\ buf' \in [Streams -> [block : 0..Num(chunk), left : 0..BufSize]]
      /\ buf'[cur].left = left - n
      /\ \A s \in Streams : s # cur => buf'[s] = buf[s]
  <2>1. buf' = [buf EXCEPT ![cur] = [buf[cur] EXCEPT !.left = left - n]]
    BY <1>0 DEF left
  <2>2. buf[cur] \in [block : 0..Num(chunk), left : 0..BufSize]
    BY <1>1, <1>4
  <2>3. [buf[cur] EXCEPT !.left = left - n] \in [block : 0..Num(chunk), left : 0..BufSize]
    BY <1>5, <2>2
  <2>4. [buf[cur] EXCEPT !.left = left - n].left = left - n
    BY <2>2
  <2> HIDE DEF left
  <2> QED BY <1>1, <1>4, <2>1, <2>3, <2>4
<1>7. want' \in Nat /\ mpc' \in {"return", "fill"} /\ (mpc' = "fill" => left - n = 0 /\ want' # 0) /\ (mpc' = "return" => want' = 0)
  BY <1>0, <1>1, <1>2
<1>8. ReaderType'
  BY <1>0, <1>1, <1>6, <1>7 DEF ReaderType
<1>9. ReadInv'
  <2>0. UNCHANGED <<chunk, cur, taken, tokens, literals, s0_have, exit>>
    BY <1>0
  <2>1. /\ cur = 1 => TakenUnits(chunk, 1, taken[1]) = buf[1].left + literals - want
        /\ cur = 0 => TakenUnits(chunk, 1, taken[1]) = buf[1].left + literals - 0
        /\ cur = 0 => TakenUnits(chunk, 0, taken[0]) = buf[0].left + tokens + s0_have + (Window - want)
        /\ cur = 1 => TakenUnits(chunk, 0, taken[0]) = buf[0].left + tokens + s0_have + 0
        /\ cur = 0 => s0_have = 0 /\ want <= Window
        /\ tokens < UnitsOf(chunk, 0)
        /\ UnitsOf(chunk, 0) <= tokens + 1 => literals = UnitsOf(chunk, 1)
    BY <1>0, <1>1 DEF ReadInv, Reading
  <2>2. cur = 1 \/ cur = 0
    BY <1>1 DEF Streams
  <2>3. /\ TakenUnits(chunk, 1, taken[1]) = buf'[1].left + literals - (IF cur = 1 THEN want' ELSE 0)
        /\ TakenUnits(chunk, 0, taken[0]) = buf'[0].left + tokens + s0_have + (IF cur = 0 THEN Window - want' ELSE 0)
    <3>1. CASE cur = 1
      <4>1. buf'[1].left = buf[1].left - n /\ buf'[0] = buf[0]
        BY <1>6, <3>1 DEF Streams, left
      <4>2. buf[1].left \in Int /\ literals \in Int /\ n \in Int /\ want \in Int
        BY <1>1, <1>2 DEF Streams
      <4>3. TakenUnits(chunk, 1, taken[1]) = buf'[1].left + literals - want'
        BY <1>0, <2>1, <3>1, <4>1, <4>2
      <4> QED BY <2>1, <3>1, <4>1, <4>3
    <3>2. CASE cur = 0
      <4>1. buf'[0].left = buf[0].left - n /\ buf'[1] = buf[1]
        BY <1>6, <3>2 DEF Streams, left
      <4>2. buf[0].left \in Int /\ tokens \in Int /\ s0_have \in Int /\ n \in Int /\ want \in Int /\ Window \in Int
        BY <1>1, <1>2 DEF Streams
      <4>3. TakenUnits(chunk, 0, taken[0]) = buf'[0].left + tokens + s0_have + (Window - want')
        BY <1>0, <2>1, <3>2, <4>1, <4>2
      <4> QED BY <2>1, <3>2, <4>1, <4>3
    <3> QED BY <2>2, <3>1, <3>2
  <2>4. cur = 0 => want' <= Window
    BY <1>0, <1>1, <1>2, <2>1
  <2>5. mpc' = "fill" => buf'[cur].left = 0
    BY <1>6, <1>7
  <2>6. ~(mpc' = "return" /\ want' > 0)
    BY <1>7
  <2>7. mpc' \in Reading /\ mpc' \notin {"fetch", "turn", "join", "close", "done"}
    BY <1>7 DEF Reading
  <2> QED BY <1>0, <2>0, <2>1, <2>3, <2>4, <2>5, <2>6, <2>7 DEF ReadInv
<1> QED BY <1>0, <1>3, <1>8, <1>9, RunningEnd DEF IInv

\* read_stream returns: stream 0 has given something, a literal is whole.
LEMMA ReadReturnsIInv == ASSUME IInv, exit = "running", ReadReturns PROVE IInv'
<1>0. mpc = "return" /\ UNCHANGED poolVars
  BY DEF ReadReturns
<1>1. /\ PoolInv /\ ReaderType /\ ReadInv /\ Window \in Nat /\ Window > 0 /\ want \in Nat /\ cur \in Streams
      /\ tokens \in 0..UnitsOf(chunk, 0) /\ literals \in 0..UnitsOf(chunk, 1)
      /\ UnitsOf(chunk, 0) \in Nat /\ UnitsOf(chunk, 1) \in Nat /\ \A s \in Streams : buf[s].left \in Nat
      /\ s0_have \in 0..Window
  BY ReaderFacts
<1>2. cur = 1 \/ cur = 0
  BY <1>1 DEF Streams
<1>3. /\ cur = 1 => TakenUnits(chunk, 1, taken[1]) = buf[1].left + literals - want
      /\ cur = 0 => TakenUnits(chunk, 1, taken[1]) = buf[1].left + literals - 0
      /\ cur = 0 => TakenUnits(chunk, 0, taken[0]) = buf[0].left + tokens + s0_have + (Window - want)
      /\ cur = 1 => TakenUnits(chunk, 0, taken[0]) = buf[0].left + tokens + s0_have + 0
      /\ cur = 0 => s0_have = 0 /\ want <= Window
      /\ tokens < UnitsOf(chunk, 0)
      /\ UnitsOf(chunk, 0) <= tokens + 1 => literals = UnitsOf(chunk, 1)
      /\ want > 0 => buf[cur].left = 0 /\ eos[cur] /\ Busy(ucthreads, cur) = {}
  BY <1>0, <1>1 DEF ReadInv, Reading
<1>4. ASSUME cur = 0, want >= Window PROVE FALSE
  <2>1. want = Window /\ want > 0
    BY <1>1, <1>3, <1>4
  <2>2. TakenUnits(chunk, 0, taken[0]) = UnitsOf(chunk, 0)
    BY <1>1, <1>3, <1>4, <2>1, AllTaken
  <2>3. buf[0].left = 0 /\ s0_have = 0
    BY <1>3, <1>4, <2>1
  <2> QED BY <1>1, <1>3, <1>4, <2>1, <2>2, <2>3
<1>5. ASSUME cur = 1, want # 0 PROVE FALSE
  <2>1. want > 0
    BY <1>1, <1>5
  <2>2. TakenUnits(chunk, 1, taken[1]) = UnitsOf(chunk, 1)
    BY <1>1, <1>3, <1>5, <2>1, AllTaken
  <2>3. buf[1].left = 0
    BY <1>3, <1>5, <2>1
  <2> QED BY <1>1, <1>3, <1>5, <2>1, <2>2, <2>3
<1>6. /\ mpc' = "token" /\ UNCHANGED <<chunk, cur, want, tokens, literals, streamVars, exit, poolVars>>
      /\ cur = 0 => s0_have' = Window - want /\ want < Window
      /\ cur = 1 => s0_have' = s0_have /\ want = 0
  <2>1. cur = 0 => want < Window
    BY <1>1, <1>4
  <2>2. cur = 1 => want = 0
    BY <1>5
  <2>3. CASE cur = 0
    <3>1. cur # 1
      BY <2>3
    <3> QED BY <1>0, <2>1, <2>3, <3>1 DEF ReadReturns
  <2>4. CASE cur = 1
    <3>1. cur # 0
      BY <2>4
    <3> QED BY <1>0, <2>2, <2>4, <3>1 DEF ReadReturns
  <2> QED BY <1>2, <2>3, <2>4
<1>7. PoolInv'
  BY <1>0, <1>1, <1>6, PoolStays DEF streamVars, poolVars
<1>8. s0_have' \in 0..Window
  BY <1>1, <1>2, <1>6
<1>9. ReaderType'
  BY <1>1, <1>6, <1>8 DEF ReaderType, streamVars
<1>10. ReadInv'
  <2>0. UNCHANGED <<chunk, cur, taken, tokens, literals, buf, exit>>
    BY <1>6 DEF streamVars
  <2>1. buf[1].left \in Int /\ buf[0].left \in Int /\ literals \in Int /\ tokens \in Int /\ s0_have \in Int
        /\ want \in Int /\ Window \in Int
    BY <1>1 DEF Streams
  <2>2. TakenUnits(chunk, 1, taken[1]) = buf[1].left + literals - 0
    <3>1. CASE cur = 1
      BY <1>3, <1>6, <3>1
    <3>2. CASE cur = 0
      BY <1>3, <3>2
    <3> QED BY <1>2, <3>1, <3>2
  <2>3. TakenUnits(chunk, 0, taken[0]) = buf[0].left + tokens + s0_have' + 0
    <3>1. CASE cur = 1
      BY <1>3, <1>6, <3>1
    <3>2. CASE cur = 0
      BY <1>3, <1>6, <2>1, <3>2
    <3> QED BY <1>2, <3>1, <3>2
  <2> QED BY <1>3, <1>6, <2>0, <2>2, <2>3 DEF ReadInv, Reading
<1>11. exit' = "running"
  BY <1>6
<1> QED BY <1>7, <1>9, <1>10, <1>11, RunningEnd DEF IInv

\* The used buffer is freed.  With its next slot free a stream has no busy slot.
LEMMA FillBufferIInv == ASSUME IInv, exit = "running", FillBuffer PROVE IInv'
<1>0. /\ mpc = "fill" /\ buf' = [buf EXCEPT ![cur] = NoBuf]
      /\ mpc' = (IF ~eos[cur] THEN "fetch" ELSE IF ucthreads[unext_thread[cur]].busy THEN "turn" ELSE "return")
      /\ UNCHANGED <<chunk, cur, want, s0_have, tokens, literals, last_head, eos, uthread_no,
                     unext_thread, total_read, taken, poolVars, exit>>
  BY DEF FillBuffer
<1>1. PoolInv /\ ReaderType /\ ReadInv /\ cur \in Streams /\ chunk \in Chunks /\ Num(chunk) \in Nat
  BY ReaderFacts, LastFacts
<1>2. /\ buf \in [Streams -> [block : 0..Num(chunk), left : 0..BufSize]] /\ BufSize \in Nat
      /\ NoBuf \in [block : 0..Num(chunk), left : 0..BufSize] /\ NoBuf.left = 0
  BY <1>1, SizesAssumption DEF ReaderType, NoBuf
<1>3. /\ buf' \in [Streams -> [block : 0..Num(chunk), left : 0..BufSize]]
      /\ buf'[cur].left = 0 /\ \A s \in Streams : s # cur => buf'[s] = buf[s]
  BY <1>0, <1>1, <1>2
<1>4. \A s \in Streams : buf'[s].left = buf[s].left
  BY <1>0, <1>1, <1>3 DEF ReadInv
<1>5. PoolInv'
  BY <1>0, <1>1, PoolStays DEF poolVars
<1>6. mpc' \in {"fetch", "turn", "return"}
  BY <1>0
<1>7. ReaderType'
  BY <1>0, <1>1, <1>3, <1>6 DEF ReaderType
<1>8. ASSUME mpc' = "return" PROVE eos[cur] /\ Busy(ucthreads, cur) = {}
  <2>1. eos[cur] /\ ~ucthreads[unext_thread[cur]].busy
    BY <1>0, <1>8
  <2>2. RingOf(cur, unext_thread[cur], uthread_no[cur], Busy(ucthreads, cur)) /\ Busy(ucthreads, cur) \in SUBSET Mine(cur)
    BY <1>1 DEF PoolInv, RingInv, Busy
  <2>3. unext_thread[cur] \notin Busy(ucthreads, cur)
    BY <2>1 DEF Busy
  <2> QED BY <1>1, <2>1, <2>2, <2>3, RingNext
<1>9. ReadInv'
  <2>0. UNCHANGED <<chunk, cur, want, taken, tokens, literals, s0_have, exit, eos, ucthreads>>
    BY <1>0 DEF poolVars
  <2>1. buf'[1].left = buf[1].left /\ buf'[0].left = buf[0].left
    BY <1>4 DEF Streams
  <2>2. mpc \in Reading /\ mpc' \in Reading /\ mpc' # "close" /\ mpc' # "done" /\ mpc # "done"
    BY <1>0, <1>6 DEF Reading
  <2> QED BY <1>1, <1>3, <1>8, <2>0, <2>1, <2>2 DEF ReadInv
<1> QED BY <1>0, <1>5, <1>7, <1>9, RunningEnd DEF IInv

\* The turn is passed on.
LEMMA SetTurnIInv == ASSUME IInv, exit = "running", SetTurn PROVE IInv'
<1>0. /\ mpc = "turn" /\ mpc' = "join" /\ output_thread' = unext_thread[cur]
      /\ UNCHANGED <<chunk, cur, want, s0_have, tokens, literals, streamVars, ucthreads,
                     ram_alloced, pc, faults, exit>>
  BY DEF SetTurn
<1>1. PoolInv /\ ReaderType /\ ReadInv /\ cur \in Streams
  BY ReaderFacts
<1>2. PoolInv'
  <2>1. PoolType'
    BY <1>0, <1>1 DEF PoolInv, PoolType, streamVars
  <2>2. TakenInv' /\ SlotInv' /\ OrderInv'
    <3>1. TakenInv'
      BY <1>0, <1>1 DEF PoolInv, TakenInv, streamVars
    <3>2. SlotInv'
      BY <1>0, <1>1 DEF PoolInv, SlotInv
    <3>3. OrderInv'
      BY <1>0, <1>1 DEF PoolInv, OrderInv, streamVars
    <3> QED BY <3>1, <3>2, <3>3
  <2>3. RingInv'
    BY <1>0, <1>1 DEF PoolInv, RingInv, streamVars
  <2>4. EosInv'
    BY <1>0, <1>1 DEF PoolInv, EosInv, streamVars
  <2>5. RamInv'
    BY <1>0, <1>1 DEF PoolInv, RamInv
  <2> QED BY <2>1, <2>2, <2>3, <2>4, <2>5 DEF PoolInv
<1>3. ReaderType'
  BY <1>0, <1>1 DEF ReaderType, streamVars
<1>4. ReadInv'
  <2>0. UNCHANGED <<chunk, cur, want, taken, tokens, literals, s0_have, exit, buf, eos, ucthreads>>
    BY <1>0 DEF streamVars
  <2> QED BY <1>0, <1>1, <2>0 DEF ReadInv, Reading
<1> QED BY <1>0, <1>2, <1>3, <1>4, RunningEnd DEF IInv

\* A block that no slot of its own stream holds is not in flight.
LEMMA NotInFlight ==
  ASSUME PoolInv, NEW s \in Streams, NEW k \in Of(chunk, s), NEW X,
         \A i \in Busy(ucthreads, s) : i \notin X => ucthreads[i].block # k
  PROVE  \A i \in Slot : ucthreads[i].busy /\ i \notin X => ucthreads[i].block # k
<1> SUFFICES ASSUME NEW i \in Slot, ucthreads[i].busy, i \notin X PROVE ucthreads[i].block # k
  OBVIOUS
<1>1. PICK r \in Streams : i \in Mine(r)
  BY SlotFacts
<1>2. i \in Busy(ucthreads, r)
  BY <1>1 DEF Busy
<1>3. ucthreads[i].block \in Of(chunk, r)
  BY <1>2 DEF PoolInv, OrderInv, OrderOf
<1>4. CASE r = s
  BY <1>2, <1>4
<1>5. CASE r # s
  BY <1>3, <1>5 DEF Of
<1> QED BY <1>4, <1>5

\* Nothing is taken.
LEMMA TakenSame == ASSUME TakenInv, UNCHANGED <<chunk, taken>> PROVE TakenInv'
BY DEF TakenInv

\* The next header of a stream that has not come to its end.
LEMMA NextHead ==
  ASSUME PoolInv, NEW s \in Streams, ~eos[s]
  PROVE  /\ chunk \in Chunks /\ last_head[s] \in Of(chunk, s) /\ last_head[s] # 0 /\ last_head[s] \in 1..Num(chunk)
         /\ Blocks = Blk(chunk) /\ LastHead(s, last_head[s]) = Link(chunk, s, last_head[s])
         /\ Blocks[last_head[s]].len \in 0..BufSize /\ BufSize \in Nat
<1>1. chunk \in Chunks /\ last_head[s] \in 0..Num(chunk)
  BY DEF PoolInv, PoolType
<1>2. last_head[s] # 0
  BY DEF PoolInv, EosInv
<1>3. last_head[s] \in Of(chunk, s)
  BY <1>2 DEF PoolInv, OrderInv, OrderOf
<1>4. last_head[s] \in 1..Num(chunk)
  BY <1>3 DEF Of
<1>5. Blocks = Blk(chunk) /\ LastHead(s, last_head[s]) = Link(chunk, s, last_head[s])
  BY <1>1, Same
<1>6. Blk(chunk)[last_head[s]].len \in 0..BufSize
  BY <1>1, <1>4, BlkFacts
<1>7. BufSize \in Nat
  BY SizesAssumption
<1> QED BY <1>1, <1>2, <1>3, <1>4, <1>5, <1>6, <1>7

\* The empty last block of stream 1 is passed over.
LEMMA SkipEmptyIInv == ASSUME IInv, exit = "running", mpc = "fetch", SkipEmpty PROVE IInv'
<1> DEFINE k == last_head[cur]
<1>0. /\ cur = 1 /\ Blocks[k].len = 0 /\ LastHead(cur, k) = 0 /\ total_read' = total_read + 1
      /\ eos' = [eos EXCEPT ![cur] = TRUE] /\ mpc' = "turn"
      /\ UNCHANGED <<chunk, cur, want, s0_have, tokens, literals, last_head, uthread_no,
                     unext_thread, buf, taken, poolVars, exit>>
  BY DEF SkipEmpty
<1>1. PoolInv /\ ReaderType /\ ReadInv /\ cur \in Streams
  BY ReaderFacts
<1>2. ~eos[cur] /\ eos \in [Streams -> BOOLEAN]
  BY <1>1 DEF PoolInv, PoolType, EosInv
<1>3. /\ chunk \in Chunks /\ k \in Of(chunk, cur) /\ k # 0
      /\ Blk(chunk)[k].len = 0 /\ Link(chunk, cur, k) = 0
  BY <1>0, <1>1, <1>2, NextHead
<1>4. eos' \in [Streams -> BOOLEAN] /\ eos'[cur] /\ \A r \in Streams : r # cur => eos'[r] = eos[r]
  BY <1>0, <1>1, <1>2
<1>5. PoolInv'
  <2>1. PoolType'
    BY <1>0, <1>1, <1>4 DEF PoolInv, PoolType, poolVars
  <2>2. TakenInv'
    BY <1>0, <1>1 DEF PoolInv, TakenInv
  <2>3. SlotInv'
    BY <1>0, <1>1 DEF PoolInv, SlotInv, poolVars
  <2>4. RingInv'
    BY <1>0, <1>1 DEF PoolInv, RingInv, poolVars
  <2>5. OrderInv'
    BY <1>0, <1>1 DEF PoolInv, OrderInv, poolVars
  <2>6. EosInv'
    <3>1. Cardinality(Fetched(chunk, last_head, eos')) = Cardinality(Fetched(chunk, last_head, eos)) + 1
      <4>1. \A r \in Streams : r # cur => last_head[r] = last_head[r] /\ eos'[r] = eos[r]
        BY <1>4
      <4>2. last_head[cur] \in Of(chunk, cur) /\ last_head[cur] = last_head[cur] /\ eos'[cur]
        BY <1>3, <1>4
      <4> QED BY <1>1, <1>2, <1>3, <4>1, <4>2, FetchOne
    <3>2. total_read' = Cardinality(Fetched(chunk, last_head, eos'))
      BY <1>0, <1>1, <3>1 DEF PoolInv, EosInv
    <3>3. \A s \in Streams : IF eos'[s] THEN last_head[s] = 0 \/ (Blk(chunk)[last_head[s]].len = 0
                                                               /\ Link(chunk, s, last_head[s]) = 0)
                             ELSE last_head[s] # 0
      <4> TAKE s \in Streams
      <4>1. CASE s = cur
        BY <1>3, <1>4, <4>1
      <4>2. CASE s # cur
        BY <1>1, <1>4, <4>2 DEF PoolInv, EosInv
      <4> QED BY <4>1, <4>2
    <3> QED BY <1>0, <3>2, <3>3 DEF EosInv
  <2>7. RamInv'
    BY <1>0, <1>1 DEF PoolInv, RamInv, poolVars
  <2> QED BY <2>1, <2>2, <2>3, <2>4, <2>5, <2>6, <2>7 DEF PoolInv
<1>6. ReaderType'
  BY <1>0, <1>1 DEF ReaderType
<1>7. ReadInv'
  BY <1>0, <1>1 DEF ReadInv, Reading
<1> QED BY <1>0, <1>5, <1>6, <1>7, RunningEnd DEF IInv

\* A thread is started for the block at last_head.
LEMMA StartThreadIInv ==
  ASSUME IInv, exit = "running", mpc = "fetch", ~ucthreads[uthread_no[cur]].busy, StartThread PROVE IInv'
<1> DEFINE head == last_head[cur]
           slot == uthread_no[cur]
           link == LastHead(cur, head)
           size == Blocks[head].len
           last == LastOf(taken[cur])
<1>0. /\ size > 0 /\ total_read' = total_read + 1 /\ ram_alloced' = ram_alloced + size
      /\ ucthreads' = [ucthreads EXCEPT ![slot] = [busy |-> TRUE, block |-> head, plain |-> FALSE]]
      /\ pc' = [pc EXCEPT ![slot] = "run"] /\ last_head' = [last_head EXCEPT ![cur] = link]
      /\ uthread_no' = [uthread_no EXCEPT ![cur] = Advance(cur, slot)]
      /\ eos' = (IF link = 0 THEN [eos EXCEPT ![cur] = TRUE] ELSE eos)
      /\ mpc' = AfterFetch(cur, link, Advance(cur, slot), ucthreads', ram_alloced')
      /\ UNCHANGED <<chunk, cur, want, s0_have, tokens, literals, unext_thread, buf, taken,
                     output_thread, faults, exit>>
  BY DEF StartThread
<1>1. PoolInv /\ ReaderType /\ ReadInv /\ cur \in Streams
  BY ReaderFacts
<1>2. ~eos[cur] /\ eos \in [Streams -> BOOLEAN]
  BY <1>1 DEF PoolInv, PoolType, EosInv
<1>3. /\ chunk \in Chunks /\ head \in Of(chunk, cur) /\ head # 0 /\ head \in 1..Num(chunk)
      /\ size = Blk(chunk)[head].len /\ link = Link(chunk, cur, head)
      /\ size \in 0..BufSize /\ BufSize \in Nat /\ Num(chunk) \in Nat
  BY <1>0, <1>1, <1>2, NextHead, ChunkFacts
<1>4. link \in 0..Num(chunk)
  <2>1. head \in 0..Num(chunk)
    BY <1>3
  <2> QED BY <1>1, <1>3, <2>1, LinkFacts
<1>5. /\ RingOf(cur, unext_thread[cur], slot, Busy(ucthreads, cur))
      /\ OrderOf(chunk, cur, ucthreads, unext_thread[cur], last, head)
      /\ last \in 0..Num(chunk) /\ Busy(ucthreads, cur) \in SUBSET Mine(cur)
  BY <1>1, LastFacts DEF PoolInv, RingInv, OrderInv, Busy
<1>6. slot \in Mine(cur) /\ slot \in Slot /\ slot \notin Busy(ucthreads, cur)
  BY <1>1, <1>5, SlotFacts DEF RingOf, Busy
<1> HIDE DEF head, slot, link, size, last
<1>7. RingOf(cur, unext_thread[cur], Advance(cur, slot), Busy(ucthreads, cur) \cup {slot}) /\ Advance(cur, slot) \in Mine(cur)
  <2>1. RingOf(cur, unext_thread[cur], Advance(cur, slot), Busy(ucthreads, cur) \cup {slot})
    BY <1>1, <1>5, <1>6, RingStart
  <2> QED BY <2>1 DEF RingOf
<1>8. /\ ucthreads' \in [Slot -> [busy : BOOLEAN, block : 0..Num(chunk), plain : BOOLEAN]]
      /\ ucthreads'[slot] = [busy |-> TRUE, block |-> head, plain |-> FALSE]
      /\ \A i \in Slot : i # slot => ucthreads'[i] = ucthreads[i]
  <2>1. ucthreads \in [Slot -> [busy : BOOLEAN, block : 0..Num(chunk), plain : BOOLEAN]]
    BY <1>1 DEF PoolInv, PoolType
  <2>2. [busy |-> TRUE, block |-> head, plain |-> FALSE] \in [busy : BOOLEAN, block : 0..Num(chunk), plain : BOOLEAN]
    BY <1>3
  <2> QED BY <1>0, <1>6, <2>1, <2>2
<1>9. ucthreads'[slot].busy /\ ucthreads'[slot].block = head
  BY <1>8
<1>10. \A i \in Mine(cur) : i # slot => ucthreads'[i] = ucthreads[i]
  BY <1>1, <1>8, SlotFacts
<1>11. /\ Busy(ucthreads', cur) = Busy(ucthreads, cur) \cup {slot}
       /\ OrderOf(chunk, cur, ucthreads', unext_thread[cur], last, link)
       /\ \A i \in Busy(ucthreads, cur) : ucthreads[i].block # head
  <2>1. chunk \in Chunks /\ head # 0 /\ link = Link(chunk, cur, head)
    BY <1>3
  <2>2. slot \notin Busy(ucthreads, cur)
    BY <1>6
  <2> QED BY <1>1, <1>5, <1>9, <1>10, <2>1, <2>2, OrderStart
<1>12. ASSUME NEW s \in Streams, s # cur
       PROVE  /\ Busy(ucthreads', s) = Busy(ucthreads, s)
              /\ OrderOf(chunk, s, ucthreads', unext_thread[s], LastOf(taken[s]), last_head[s])
              /\ uthread_no[s] \notin Busy(ucthreads, s)
              /\ RingOf(s, unext_thread[s], uthread_no[s], Busy(ucthreads, s))
  <2>1. \A i \in Mine(s) : i \in Slot /\ i # slot
    BY <1>1, <1>6, <1>12, SlotFacts
  <2>2. \A i \in Mine(s) : ucthreads'[i].busy = ucthreads[i].busy /\ ucthreads'[i].block = ucthreads[i].block
    BY <1>8, <2>1
  <2>3. OrderOf(chunk, s, ucthreads, unext_thread[s], LastOf(taken[s]), last_head[s])
    BY <1>1 DEF PoolInv, OrderInv
  <2>4. /\ Busy(ucthreads', s) = Busy(ucthreads, s)
        /\ OrderOf(chunk, s, ucthreads', unext_thread[s], LastOf(taken[s]), last_head[s])
    BY <2>2, <2>3, OrderSame
  <2>5. uthread_no[s] \notin Busy(ucthreads, s) /\ RingOf(s, unext_thread[s], uthread_no[s], Busy(ucthreads, s))
    BY <1>1 DEF PoolInv, RingInv
  <2> QED BY <2>4, <2>5
<1>13. /\ mpc' \in {"fetch", "turn"}
       /\ mpc' = "fetch" => link # 0 /\ ~ucthreads'[Advance(cur, slot)].busy /\ ram_alloced' < MaxRam
  BY <1>0 DEF AfterFetch
<1>14. /\ last_head \in [Streams -> 0..Num(chunk)] /\ uthread_no \in [Streams -> Slot]
       /\ pc \in [Slot -> {"none", "run", "wait", "retry", "done"}]
  BY <1>1 DEF PoolInv, PoolType
<1>15. /\ last_head' \in [Streams -> 0..Num(chunk)] /\ last_head'[cur] = link
       /\ \A s \in Streams : s # cur => last_head'[s] = last_head[s]
  BY <1>0, <1>1, <1>4, <1>14
<1>16. /\ uthread_no' \in [Streams -> Slot] /\ uthread_no'[cur] = Advance(cur, slot)
       /\ \A s \in Streams : s # cur => uthread_no'[s] = uthread_no[s]
  <2>1. Advance(cur, slot) \in Slot
    BY <1>1, <1>7, SlotFacts
  <2> QED BY <1>0, <1>1, <1>14, <2>1
<1>17. /\ eos' \in [Streams -> BOOLEAN] /\ (IF link = 0 THEN eos'[cur] ELSE ~eos'[cur])
       /\ \A s \in Streams : s # cur => eos'[s] = eos[s]
  BY <1>0, <1>1, <1>2
<1>18. /\ pc' \in [Slot -> {"none", "run", "wait", "retry", "done"}] /\ pc'[slot] = "run"
       /\ \A i \in Slot : i # slot => pc'[i] = pc[i]
  BY <1>0, <1>6, <1>14
<1>19. PoolType'
  BY <1>0, <1>1, <1>8, <1>15, <1>16, <1>17, <1>18 DEF PoolInv, PoolType
<1>20. TakenInv'
  <2>1. TakenInv /\ UNCHANGED <<chunk, taken>>
    BY <1>0, <1>1 DEF PoolInv
  <2> QED BY <2>1, TakenSame
<1>21. SlotInv'
  <2> SUFFICES ASSUME NEW i \in Slot
               PROVE  /\ ucthreads'[i].busy <=> pc'[i] # "none"
                      /\ pc'[i] = "done" => ucthreads'[i].plain
                      /\ ucthreads'[i].busy => Blk(chunk)[ucthreads'[i].block].len > 0
    BY <1>0 DEF SlotInv
  <2>1. CASE i = slot
    BY <1>0, <1>3, <1>9, <1>18, <2>1
  <2>2. CASE i # slot
    BY <1>1, <1>8, <1>18, <2>2 DEF PoolInv, SlotInv
  <2> QED BY <2>1, <2>2
<1>22. RingInv'
  <2> SUFFICES ASSUME NEW s \in Streams
               PROVE  /\ RingOf(s, unext_thread[s], uthread_no'[s], Busy(ucthreads', s))
                      /\ uthread_no'[s] \in Busy(ucthreads', s) => mpc' = "turn" /\ cur = s
    BY <1>0 DEF RingInv
  <2>1. CASE s = cur
    <3>1. Advance(cur, slot) \in Busy(ucthreads', cur) => mpc' = "turn"
      BY <1>13 DEF Busy
    <3> QED BY <1>7, <1>11, <1>16, <2>1, <3>1
  <2>2. CASE s # cur
    BY <1>12, <1>16, <2>2
  <2> QED BY <2>1, <2>2
<1>23. OrderInv'
  <2> SUFFICES ASSUME NEW s \in Streams
               PROVE  OrderOf(chunk, s, ucthreads', unext_thread[s], LastOf(taken[s]), last_head'[s])
    BY <1>0 DEF OrderInv
  <2>1. CASE s = cur
    BY <1>11, <1>15, <2>1 DEF last
  <2>2. CASE s # cur
    BY <1>12, <1>15, <2>2
  <2> QED BY <2>1, <2>2
<1>24. EosInv'
  <2>1. Cardinality(Fetched(chunk, last_head', eos')) = Cardinality(Fetched(chunk, last_head, eos)) + 1
    <3>1. \A r \in Streams : r # cur => last_head'[r] = last_head[r] /\ eos'[r] = eos[r]
      BY <1>15, <1>17
    <3>2. last_head[cur] \in Of(chunk, cur) /\ last_head'[cur] = Link(chunk, cur, last_head[cur])
          /\ (last_head'[cur] # 0 => ~eos'[cur])
      BY <1>3, <1>15, <1>17 DEF head
    <3> QED BY <1>1, <1>2, <1>3, <3>1, <3>2, FetchOne
  <2>2. total_read' = Cardinality(Fetched(chunk, last_head', eos'))
    BY <1>0, <1>1, <2>1 DEF PoolInv, EosInv
  <2>3. \A s \in Streams : IF eos'[s] THEN last_head'[s] = 0 \/ (Blk(chunk)[last_head'[s]].len = 0
                                                               /\ Link(chunk, s, last_head'[s]) = 0)
                           ELSE last_head'[s] # 0
    <3> TAKE s \in Streams
    <3>1. CASE s = cur
      BY <1>15, <1>17, <3>1
    <3>2. CASE s # cur
      BY <1>1, <1>15, <1>17, <3>2 DEF PoolInv, EosInv
    <3> QED BY <3>1, <3>2
  <2>4. mpc' = "fetch" => ~eos'[cur]
    BY <1>13, <1>17
  <2> QED BY <1>0, <2>2, <2>3, <2>4 DEF EosInv
<1>25. RamInv'
  <2>1. ram_alloced = Weight(chunk, InFlight(ucthreads)) /\ ram_alloced < MaxRam
    BY <1>1 DEF PoolInv, RamInv
  <2>2. head \notin InFlight(ucthreads)
    <3>1. \A i \in Busy(ucthreads, cur) : i \notin {} => ucthreads[i].block # head
      BY <1>11
    <3>2. \A i \in Slot : ucthreads[i].busy /\ i \notin {} => ucthreads[i].block # head
      BY <1>1, <1>3, <3>1, NotInFlight
    <3> QED BY <3>2 DEF InFlight
  <2>3. InFlight(ucthreads') = InFlight(ucthreads) \cup {head}
    <3>1. ~ucthreads[slot].busy
      BY DEF slot
    <3>2. slot \in Slot /\ \A i \in Slot : i # slot => ucthreads'[i] = ucthreads[i]
      BY <1>6, <1>8
    <3>3. InFlight(ucthreads') = InFlight(ucthreads) \cup {ucthreads'[slot].block}
      BY <1>9, <3>1, <3>2, FlightStart
    <3> QED BY <1>9, <3>3
  <2>4. Weight(chunk, InFlight(ucthreads')) = Weight(chunk, InFlight(ucthreads)) + size
    BY <1>3, <2>2, <2>3, WeightAdd
  <2>5. ram_alloced \in Nat /\ MaxRam \in Nat
    BY <1>3, <2>1, WeightType, SizesAssumption
  <2>6. ram_alloced' < MaxRam + BufSize
    BY <1>0, <1>3, <2>1, <2>5
  <2>7. ASSUME cur = 0 PROVE ram_alloced' - Blk(chunk)[ucthreads'[0].block].len < MaxRam
    <3>1. slot = 0
      BY <1>6, <2>7, SlotFacts
    <3>2. Blk(chunk)[ucthreads'[0].block].len = size
      BY <1>3, <1>9, <3>1
    <3>3. ram_alloced' - size = ram_alloced
      BY <1>0, <1>3, <2>5
    <3> QED BY <2>1, <3>2, <3>3
  <2>8. ram_alloced' = Weight(chunk, InFlight(ucthreads'))
    BY <1>0, <2>1, <2>4
  <2> QED BY <1>0, <1>13, <2>6, <2>7, <2>8 DEF RamInv
<1>26. ReaderType'
  BY <1>0, <1>1, <1>13 DEF ReaderType
<1>27. ReadInv'
  BY <1>0, <1>1, <1>13 DEF ReadInv, Reading
<1>28. PoolInv'
  BY <1>19, <1>20, <1>21, <1>22, <1>23, <1>24, <1>25 DEF PoolInv
<1> QED BY <1>0, <1>26, <1>27, <1>28, RunningEnd DEF IInv

\* The history when the block b is handed to the reader of stream s.
LEMMA TakenAppend ==
  ASSUME PoolInv, NEW s \in Streams, NEW b \in 1..Num(chunk), b \in Of(chunk, s),
         b = Link(chunk, s, LastOf(taken[s])),
         \A k \in Of(chunk, s) : k <= b <=> k <= LastOf(taken[s]) \/ k = b,
         chunk' = chunk, taken' = [taken EXCEPT ![s] = Append(@, [block |-> b, plain |-> TRUE])]
  PROVE  /\ TakenInv'
         /\ LastOf(taken'[s]) = b
         /\ \A r \in Streams : r # s => taken'[r] = taken[r]
<1> DEFINE R == [block : 1..Num(chunk), plain : {TRUE}]
           new == [block |-> b, plain |-> TRUE]
           q == taken[s]
           m == Len(q)
<1>1. new \in R /\ new.block = b
  OBVIOUS
<1>2. taken \in [Streams -> Seq(R)]
  BY DEF PoolInv, TakenInv
<1> HIDE DEF R, new
<1>3. taken' = [taken EXCEPT ![s] = Append(q, new)] /\ q \in Seq(R)
  BY <1>2 DEF new
<1> HIDE DEF q
<1>4. /\ Append(q, new) \in Seq(R) /\ Len(Append(q, new)) = m + 1 /\ m \in Nat
      /\ DOMAIN q = 1..m /\ DOMAIN Append(q, new) = 1..(m + 1)
      /\ \A n \in 1..m : Append(q, new)[n] = q[n]
      /\ Append(q, new)[m + 1] = new
  BY <1>1, <1>3, AppendProperties, LenProperties
<1>5. /\ taken' \in [Streams -> Seq(R)] /\ taken'[s] = Append(q, new)
      /\ \A r \in Streams : r # s => taken'[r] = taken[r]
  BY <1>2, <1>3, <1>4
<1> DEFINE p == Append(q, new)
<1> HIDE DEF p, m
<1>6. p # <<>> /\ LastOf(p) = b
  <2>1. p # <<>>
    <3>1. Len(p) # 0
      BY <1>4 DEF p
    <3> QED BY <3>1
  <2>2. p[Len(p)] = new
    BY <1>4 DEF p
  <2> QED BY <1>1, <2>1, <2>2 DEF LastOf
<1>7. LastOf(q) = (IF m = 0 THEN 0 ELSE q[m].block)
  <2>1. q = <<>> <=> m = 0
    BY <1>3, EmptySeq DEF m
  <2> QED BY <2>1 DEF LastOf, m
<1>8. \A n \in 1..m : q[n].block = Link(chunk, s, IF n = 1 THEN 0 ELSE q[n - 1].block)
  BY <1>4 DEF PoolInv, TakenInv, q
<1>9. ASSUME NEW n \in 1..(m + 1) PROVE p[n].block = Link(chunk, s, IF n = 1 THEN 0 ELSE p[n - 1].block)
  <2>1. CASE n \in 1..m
    <3>1. n = 1 \/ n - 1 \in 1..m
      BY <1>4, <2>1
    <3>2. p[n] = q[n] /\ (n # 1 => p[n - 1] = q[n - 1])
      BY <1>4, <2>1, <3>1 DEF p
    <3> QED BY <1>8, <2>1, <3>2
  <2>2. CASE n = m + 1
    <3>1. p[n].block = Link(chunk, s, LastOf(q))
      BY <1>1, <1>4, <2>2 DEF p, q
    <3>2. LastOf(q) = (IF n = 1 THEN 0 ELSE p[n - 1].block)
      <4>1. CASE m = 0
        BY <1>7, <2>2, <4>1
      <4>2. CASE m # 0
        <5>1. n # 1 /\ n - 1 = m /\ m \in 1..m
          BY <1>4, <2>2, <4>2
        <5> QED BY <1>4, <1>7, <4>2, <5>1 DEF p
      <4> QED BY <4>1, <4>2
    <3> QED BY <3>1, <3>2
  <2> QED BY <1>4, <2>1, <2>2
<1>10. ASSUME NEW k \in Of(chunk, s), k <= b PROVE \E n \in 1..(m + 1) : p[n].block = k
  <2>1. CASE k <= LastOf(q)
    <3>1. PICK n \in 1..m : q[n].block = k
      BY <1>4, <2>1 DEF PoolInv, TakenInv, q
    <3>2. n \in 1..(m + 1) /\ p[n] = q[n]
      BY <1>4, <3>1 DEF p
    <3> QED BY <3>1, <3>2
  <2>2. CASE k = b
    <3>1. m + 1 \in 1..(m + 1) /\ p[m + 1].block = b
      BY <1>1, <1>4 DEF p
    <3> QED BY <2>2, <3>1
  <2> QED BY <1>10, <2>1, <2>2 DEF q
<1>11. taken'[s] = p /\ DOMAIN p = 1..(m + 1)
  BY <1>4, <1>5 DEF p
<1>12. \A r \in Streams : \A n \in DOMAIN taken'[r] :
         taken'[r][n].block = Link(chunk, r, IF n = 1 THEN 0 ELSE taken'[r][n - 1].block)
  <2> TAKE r \in Streams
  <2>1. CASE r = s
    <3> TAKE n \in DOMAIN taken'[r]
    <3>1. taken'[r] = p
      BY <1>11, <2>1
    <3>2. n \in 1..(m + 1)
      BY <1>11, <3>1
    <3>3. p[n].block = Link(chunk, s, IF n = 1 THEN 0 ELSE p[n - 1].block)
      BY <1>9, <3>2
    <3>4. taken'[r][n] = p[n] /\ taken'[r][n - 1] = p[n - 1]
      BY <3>1
    <3> QED BY <2>1, <3>3, <3>4
  <2>2. CASE r # s
    BY <1>5, <2>2 DEF PoolInv, TakenInv
  <2> QED BY <2>1, <2>2
<1>13. \A r \in Streams : \A k \in Of(chunk, r) :
         k <= LastOf(taken'[r]) => \E n \in DOMAIN taken'[r] : taken'[r][n].block = k
  <2> TAKE r \in Streams
  <2>1. CASE r = s
    <3>1. \A k \in Of(chunk, s) : k <= LastOf(p) => \E n \in DOMAIN p : p[n].block = k
      BY <1>6, <1>10, <1>11
    <3>2. taken'[r] = p
      BY <1>11, <2>1
    <3> QED BY <2>1, <3>1, <3>2
  <2>2. CASE r # s
    BY <1>5, <2>2 DEF PoolInv, TakenInv
  <2> QED BY <2>1, <2>2
<1>14. TakenInv'
  <2>1. taken' \in [Streams -> Seq([block : 1..Num(chunk), plain : {TRUE}])]
    BY <1>5 DEF R
  <2> HIDE DEF p
  <2> QED BY <1>12, <1>13, <2>1 DEF TakenInv
<1> QED BY <1>5, <1>6, <1>11, <1>14

\* The thread of the next block is joined and its block handed to the reader.
LEMMA JoinThreadIInv == ASSUME IInv, exit = "running", JoinThread PROVE IInv'
<1> DEFINE slot == unext_thread[cur]
           blk == ucthreads[slot].block
           size == Blk(chunk)[blk].len
           last == LastOf(taken[cur])
<1>1. PoolInv /\ ReaderType /\ ReadInv /\ cur \in Streams
  BY ReaderFacts
<1>2. chunk \in Chunks /\ Num(chunk) \in Nat /\ last \in 0..Num(chunk) /\ Blocks = Blk(chunk) /\ BufSize \in Nat
  BY <1>1, LastFacts, Same, SizesAssumption
<1>3. /\ RingOf(cur, slot, uthread_no[cur], Busy(ucthreads, cur))
      /\ OrderOf(chunk, cur, ucthreads, slot, last, last_head[cur])
      /\ Busy(ucthreads, cur) \in SUBSET Mine(cur) /\ last_head[cur] \in 0..Num(chunk)
  BY <1>1 DEF PoolInv, PoolType, RingInv, OrderInv, Busy
<1>4. slot \in Mine(cur) /\ slot \in Slot
  BY <1>1, <1>3, SlotFacts DEF RingOf
<1>5. mpc = "join" /\ pc[slot] = "done" /\ ucthreads[slot].busy /\ ucthreads[slot].plain
  BY <1>1, <1>4 DEF JoinThread, PoolInv, SlotInv
<1>6. ucthreads \in [Slot -> [busy : BOOLEAN, block : 0..Num(chunk), plain : BOOLEAN]]
  BY <1>1 DEF PoolInv, PoolType
<1>7. ucthreads[slot].plain = TRUE
  BY <1>4, <1>5, <1>6
<1>8. /\ ucthreads' = [ucthreads EXCEPT ![slot] = NoBlock] /\ pc' = [pc EXCEPT ![slot] = "none"]
      /\ ram_alloced' = ram_alloced - size /\ buf' = [buf EXCEPT ![cur] = [block |-> blk, left |-> size]]
      /\ taken' = [taken EXCEPT ![cur] = Append(@, [block |-> blk, plain |-> TRUE])]
      /\ unext_thread' = [unext_thread EXCEPT ![cur] = Advance(cur, slot)] /\ mpc' = "read"
      /\ UNCHANGED <<chunk, cur, want, s0_have, tokens, literals, last_head, eos, uthread_no,
                     total_read, output_thread, faults, exit>>
  BY <1>2, <1>7 DEF JoinThread, TakeBlock
<1> HIDE DEF slot, blk, size, last
<1>9. /\ ucthreads' \in [Slot -> [busy : BOOLEAN, block : 0..Num(chunk), plain : BOOLEAN]]
      /\ ~ucthreads'[slot].busy /\ \A i \in Slot : i # slot => ucthreads'[i] = ucthreads[i]
  <2>1. NoBlock \in [busy : BOOLEAN, block : 0..Num(chunk), plain : BOOLEAN] /\ ~NoBlock.busy
    BY <1>2 DEF NoBlock
  <2> QED BY <1>4, <1>6, <1>8, <2>1
<1>10. \A i \in Mine(cur) : i # slot => ucthreads'[i] = ucthreads[i]
  BY <1>1, <1>9, SlotFacts
<1>11. slot \in Busy(ucthreads, cur)
  BY <1>4, <1>5 DEF Busy
<1>12. /\ Busy(ucthreads', cur) = Busy(ucthreads, cur) \ {slot}
       /\ OrderOf(chunk, cur, ucthreads', Advance(cur, slot), blk, last_head[cur])
       /\ blk \in Of(chunk, cur) /\ last < blk /\ blk = Link(chunk, cur, last)
       /\ \A k \in Of(chunk, cur) : k <= blk <=> k <= last \/ k = blk
       /\ \A i \in Busy(ucthreads', cur) : blk < ucthreads[i].block /\ ucthreads'[i] = ucthreads[i]
  <2>1. ~ucthreads'[slot].busy
    BY <1>9
  <2>2. /\ Busy(ucthreads', cur) = Busy(ucthreads, cur) \ {slot}
        /\ OrderOf(chunk, cur, ucthreads', Advance(cur, slot), ucthreads[slot].block, last_head[cur])
        /\ ucthreads[slot].block \in Of(chunk, cur) /\ last < ucthreads[slot].block
        /\ ucthreads[slot].block = Link(chunk, cur, last)
        /\ \A k \in Of(chunk, cur) : k <= ucthreads[slot].block <=> k <= last \/ k = ucthreads[slot].block
        /\ \A i \in Busy(ucthreads', cur) : ucthreads[slot].block < ucthreads[i].block /\ ucthreads'[i] = ucthreads[i]
    BY <1>1, <1>2, <1>3, <1>10, <1>11, <2>1, OrderTake
  <2> QED BY <2>2 DEF blk
<1>13. /\ RingOf(cur, Advance(cur, slot), uthread_no[cur], Busy(ucthreads', cur))
       /\ uthread_no[cur] \notin Busy(ucthreads', cur) /\ Advance(cur, slot) \in Mine(cur)
  <2>1. /\ RingOf(cur, Advance(cur, slot), uthread_no[cur], Busy(ucthreads', cur))
        /\ uthread_no[cur] \notin Busy(ucthreads', cur)
    BY <1>1, <1>3, <1>11, <1>12, RingTake
  <2> QED BY <2>1 DEF RingOf
<1>14. blk \in 1..Num(chunk) /\ size \in 0..BufSize
  <2>1. blk \in 1..Num(chunk)
    BY <1>12 DEF Of
  <2> QED BY <1>2, <2>1, BlkFacts DEF size
<1>15. TakenInv' /\ LastOf(taken'[cur]) = blk /\ \A r \in Streams : r # cur => taken'[r] = taken[r]
  BY <1>1, <1>8, <1>12, <1>14, TakenAppend DEF last
<1>16. ASSUME NEW s \in Streams, s # cur
       PROVE  /\ Busy(ucthreads', s) = Busy(ucthreads, s)
              /\ OrderOf(chunk, s, ucthreads', unext_thread[s], LastOf(taken[s]), last_head[s])
              /\ uthread_no[s] \notin Busy(ucthreads, s)
              /\ RingOf(s, unext_thread[s], uthread_no[s], Busy(ucthreads, s))
  <2>1. \A i \in Mine(s) : i \in Slot /\ i # slot
    BY <1>1, <1>4, <1>16, SlotFacts
  <2>2. \A i \in Mine(s) : ucthreads'[i].busy = ucthreads[i].busy /\ ucthreads'[i].block = ucthreads[i].block
    BY <1>9, <2>1
  <2>3. OrderOf(chunk, s, ucthreads, unext_thread[s], LastOf(taken[s]), last_head[s])
    BY <1>1 DEF PoolInv, OrderInv
  <2>4. /\ Busy(ucthreads', s) = Busy(ucthreads, s)
        /\ OrderOf(chunk, s, ucthreads', unext_thread[s], LastOf(taken[s]), last_head[s])
    BY <2>2, <2>3, OrderSame
  <2>5. uthread_no[s] \notin Busy(ucthreads, s) /\ RingOf(s, unext_thread[s], uthread_no[s], Busy(ucthreads, s))
    BY <1>1, <1>5, <1>16 DEF PoolInv, RingInv
  <2> QED BY <2>4, <2>5
<1>17. /\ unext_thread' \in [Streams -> Slot] /\ unext_thread'[cur] = Advance(cur, slot)
       /\ \A s \in Streams : s # cur => unext_thread'[s] = unext_thread[s]
  <2>1. Advance(cur, slot) \in Slot /\ unext_thread \in [Streams -> Slot]
    BY <1>1, <1>13, SlotFacts DEF PoolInv, PoolType
  <2> QED BY <1>1, <1>8, <2>1
<1>18. /\ pc' \in [Slot -> {"none", "run", "wait", "retry", "done"}] /\ pc'[slot] = "none"
       /\ \A i \in Slot : i # slot => pc'[i] = pc[i]
  <2>1. pc \in [Slot -> {"none", "run", "wait", "retry", "done"}]
    BY <1>1 DEF PoolInv, PoolType
  <2> QED BY <1>4, <1>8, <2>1
<1>19. PoolType'
  BY <1>1, <1>8, <1>9, <1>17, <1>18 DEF PoolInv, PoolType
<1>20. SlotInv'
  <2> SUFFICES ASSUME NEW i \in Slot
               PROVE  /\ ucthreads'[i].busy <=> pc'[i] # "none"
                      /\ pc'[i] = "done" => ucthreads'[i].plain
                      /\ ucthreads'[i].busy => Blk(chunk)[ucthreads'[i].block].len > 0
    BY <1>8 DEF SlotInv
  <2>1. CASE i = slot
    BY <1>9, <1>18, <2>1
  <2>2. CASE i # slot
    BY <1>1, <1>9, <1>18, <2>2 DEF PoolInv, SlotInv
  <2> QED BY <2>1, <2>2
<1>21. RingInv'
  <2> SUFFICES ASSUME NEW s \in Streams
               PROVE  /\ RingOf(s, unext_thread'[s], uthread_no[s], Busy(ucthreads', s))
                      /\ uthread_no[s] \notin Busy(ucthreads', s)
    BY <1>8 DEF RingInv
  <2>1. CASE s = cur
    BY <1>13, <1>17, <2>1
  <2>2. CASE s # cur
    BY <1>16, <1>17, <2>2
  <2> QED BY <2>1, <2>2
<1>22. OrderInv'
  <2> SUFFICES ASSUME NEW s \in Streams
               PROVE  OrderOf(chunk, s, ucthreads', unext_thread'[s], LastOf(taken'[s]), last_head[s])
    BY <1>8 DEF OrderInv
  <2>1. CASE s = cur
    BY <1>12, <1>15, <1>17, <2>1
  <2>2. CASE s # cur
    BY <1>15, <1>16, <1>17, <2>2
  <2> QED BY <2>1, <2>2
<1>23. EosInv'
  BY <1>1, <1>8 DEF PoolInv, EosInv
<1>24. \A i \in Slot : ucthreads[i].busy /\ i # slot => ucthreads[i].block # blk
  <2>1. \A i \in Busy(ucthreads, cur) : i \notin {slot} => i \in Busy(ucthreads', cur)
    BY <1>12
  <2>2. \A i \in Busy(ucthreads, cur) : i \notin {slot} => ucthreads[i].block \in Nat /\ blk \in Nat
    <3>1. \A i \in Busy(ucthreads, cur) : ucthreads[i].block \in Of(chunk, cur)
      BY <1>3 DEF OrderOf
    <3>2. Of(chunk, cur) \subseteq Nat
      BY <1>2 DEF Of
    <3> QED BY <1>12, <3>1, <3>2
  <2>3. \A i \in Busy(ucthreads, cur) : i \notin {slot} => ucthreads[i].block # blk
    BY <1>12, <2>1, <2>2
  <2>4. \A i \in Slot : ucthreads[i].busy /\ i \notin {slot} => ucthreads[i].block # blk
    BY <1>1, <1>12, <2>3, NotInFlight
  <2> QED BY <2>4
<1>25. InFlight(ucthreads) = InFlight(ucthreads') \cup {blk} /\ blk \notin InFlight(ucthreads')
  <2>1. \A i \in Slot : i # slot /\ ucthreads[i].busy => ucthreads[i].block # ucthreads[slot].block
    BY <1>24 DEF blk
  <2>2. \A i \in Slot : i # slot => ucthreads'[i] = ucthreads[i]
    BY <1>9
  <2>3. /\ InFlight(ucthreads) = InFlight(ucthreads') \cup {ucthreads[slot].block}
        /\ ucthreads[slot].block \notin InFlight(ucthreads')
    BY <1>4, <1>5, <1>9, <2>1, <2>2, FlightTake
  <2> QED BY <2>3 DEF blk
<1>26. ram_alloced' = Weight(chunk, InFlight(ucthreads')) /\ ram_alloced \in Nat /\ ram_alloced' \in Nat
  <2>1. Weight(chunk, InFlight(ucthreads)) = Weight(chunk, InFlight(ucthreads')) + size
    BY <1>2, <1>14, <1>25, WeightAdd DEF size
  <2>2. ram_alloced = Weight(chunk, InFlight(ucthreads))
    BY <1>1 DEF PoolInv, RamInv
  <2>3. Weight(chunk, InFlight(ucthreads)) \in Nat /\ Weight(chunk, InFlight(ucthreads')) \in Nat
    BY <1>2, WeightType
  <2> QED BY <1>2, <1>8, <1>14, <2>1, <2>2, <2>3
<1>27. ram_alloced' < MaxRam
  <2>1. CASE cur = 0
    <3>1. slot = 0
      BY <1>4, <2>1, SlotFacts
    <3> QED BY <1>1, <1>5, <1>8, <2>1, <3>1 DEF PoolInv, RamInv, size, blk
  <2>2. CASE cur = 1 /\ blk <= Len(chunk.full)
    <3>1. size = BufSize
      <4>1. blk \in 1..Len(chunk.full)
        BY <1>2, <1>14, <2>2, ChunkFacts
      <4> QED BY <1>2, <4>1, BlkFacts DEF size
    <3>2. ram_alloced < MaxRam + BufSize /\ MaxRam \in Nat
      BY <1>1, SizesAssumption DEF PoolInv, RamInv
    <3> QED BY <1>2, <1>8, <1>26, <3>1, <3>2
  <2>3. CASE cur = 1 /\ ~(blk <= Len(chunk.full))
    <3>1. blk = Num(chunk)
      <4>1. Len(chunk.full) \in Nat /\ Num(chunk) = Len(chunk.full) + 2
        BY <1>2, ChunkFacts
      <4>2. Len(chunk.full) < blk
        BY <1>14, <2>3, <4>1
      <4>3. blk = Len(chunk.full) + 1 + cur
        BY <1>1, <1>2, <1>12, <4>2, OfFacts
      <4> QED BY <2>3, <4>1, <4>3
    <3>2. Busy(ucthreads', 1) = {}
      <4> SUFFICES ASSUME NEW i \in Busy(ucthreads', 1) PROVE FALSE
        OBVIOUS
      <4>1. blk < ucthreads[i].block /\ i \in Busy(ucthreads, 1)
        BY <1>12, <2>3
      <4>2. ucthreads[i].block \in Of(chunk, 1)
        BY <1>3, <2>3, <4>1 DEF OrderOf
      <4>3. ucthreads[i].block \in 1..Num(chunk)
        BY <4>2 DEF Of
      <4> QED BY <1>2, <3>1, <4>1, <4>3
    <3>3. ~ucthreads'[0].busy
      <4>1. ~ucthreads[0].busy
        BY <1>1, <1>5, <2>3, Slot0
      <4>2. 0 \in Slot /\ slot # 0
        BY <1>4, <2>3, SlotFacts
      <4> QED BY <1>9, <4>1, <4>2
    <3>4. \A i \in Slot : ~ucthreads'[i].busy
      <4> TAKE i \in Slot
      <4>1. i \in Mine(0) \/ i \in Mine(1)
        BY SlotFacts DEF Streams
      <4>2. CASE i \in Mine(0)
        BY <3>3, <4>2, SlotFacts
      <4>3. CASE i \in Mine(1)
        BY <3>2, <4>3 DEF Busy
      <4> QED BY <4>1, <4>2, <4>3
    <3>5. InFlight(ucthreads') = {}
      BY <3>4 DEF InFlight
    <3>6. ram_alloced' = 0
      BY <1>2, <1>26, <3>5, WeightEmpty
    <3> QED BY <3>6, SizesAssumption
  <2> QED BY <1>1, <2>1, <2>2, <2>3 DEF Streams
<1>28. RamInv'
  <2>1. ram_alloced' < MaxRam + BufSize
    BY <1>2, <1>26, <1>27, SizesAssumption
  <2> QED BY <1>8, <1>26, <1>27, <2>1 DEF RamInv
<1>29. PoolInv'
  BY <1>15, <1>19, <1>20, <1>21, <1>22, <1>23, <1>28 DEF PoolInv
<1>30. /\ buf' \in [Streams -> [block : 0..Num(chunk), left : 0..BufSize]] /\ buf'[cur].left = size
       /\ \A s \in Streams : s # cur => buf'[s] = buf[s]
  <2>1. buf \in [Streams -> [block : 0..Num(chunk), left : 0..BufSize]]
    BY <1>1 DEF ReaderType
  <2>2. [block |-> blk, left |-> size] \in [block : 0..Num(chunk), left : 0..BufSize]
    BY <1>2, <1>14
  <2> QED BY <1>1, <1>8, <2>1, <2>2
<1>31. ReaderType'
  BY <1>1, <1>8, <1>30 DEF ReaderType
<1>32. TakenUnits(chunk, cur, taken'[cur]) = TakenUnits(chunk, cur, taken[cur]) + size
  <2> DEFINE old == {k \in Of(chunk, cur) : k <= last}
  <2>1. last < blk /\ last \in Int /\ blk \in Int
    BY <1>2, <1>12, <1>14
  <2>2. {k \in Of(chunk, cur) : k <= blk} = old \cup {blk} /\ blk \notin old
    BY <1>12, <2>1
  <2>3. TakenUnits(chunk, cur, taken'[cur]) = Weight(chunk, old \cup {blk})
    BY <1>15, <2>2 DEF TakenUnits
  <2>4. TakenUnits(chunk, cur, taken[cur]) = Weight(chunk, old)
    BY DEF TakenUnits, last
  <2> HIDE DEF old
  <2> QED BY <1>2, <1>14, <2>2, <2>3, <2>4, WeightAdd DEF size
<1>33. ReadInv'
  <2>0. /\ UNCHANGED <<chunk, cur, want, tokens, literals, s0_have, exit>> /\ mpc' = "read"
        /\ size \in Int /\ want \in Int /\ tokens \in Int /\ literals \in Int /\ s0_have \in Int /\ Window \in Int
    <3>1. /\ want \in Nat /\ tokens \in 0..UnitsOf(chunk, 0) /\ literals \in 0..UnitsOf(chunk, 1)
          /\ s0_have \in 0..Window /\ Window \in Nat
      BY ReaderFacts
    <3>2. /\ want \in Int /\ tokens \in Int /\ literals \in Int /\ s0_have \in Int /\ Window \in Int
      BY <3>1
    <3> QED BY <1>8, <1>14, <3>2
  <2>1. /\ cur = 1 => TakenUnits(chunk, 1, taken[1]) = buf[1].left + literals - want
        /\ cur = 0 => TakenUnits(chunk, 1, taken[1]) = buf[1].left + literals - 0
        /\ cur = 0 => TakenUnits(chunk, 0, taken[0]) = buf[0].left + tokens + s0_have + (Window - want)
        /\ cur = 1 => TakenUnits(chunk, 0, taken[0]) = buf[0].left + tokens + s0_have + 0
        /\ cur = 0 => s0_have = 0 /\ want <= Window
        /\ tokens < UnitsOf(chunk, 0)
        /\ UnitsOf(chunk, 0) <= tokens + 1 => literals = UnitsOf(chunk, 1)
        /\ buf[cur].left = 0
    BY <1>1, <1>5 DEF ReadInv, Reading
  <2>2. /\ TakenUnits(chunk, 1, taken'[1]) = buf'[1].left + literals - (IF cur = 1 THEN want ELSE 0)
        /\ TakenUnits(chunk, 0, taken'[0]) = buf'[0].left + tokens + s0_have + (IF cur = 0 THEN Window - want ELSE 0)
    <3>1. CASE cur = 1
      <4>1. buf'[1].left = size /\ buf'[0] = buf[0] /\ buf[1].left = 0 /\ taken'[0] = taken[0]
        BY <1>15, <1>30, <2>1, <3>1 DEF Streams
      <4>2. TakenUnits(chunk, 1, taken'[1]) = buf'[1].left + literals - want
        BY <1>32, <2>0, <2>1, <3>1, <4>1
      <4> QED BY <2>1, <3>1, <4>1, <4>2
    <3>2. CASE cur = 0
      <4>1. buf'[0].left = size /\ buf'[1] = buf[1] /\ buf[0].left = 0 /\ taken'[1] = taken[1]
        BY <1>15, <1>30, <2>1, <3>2 DEF Streams
      <4>2. TakenUnits(chunk, 0, taken'[0]) = buf'[0].left + tokens + s0_have + (Window - want)
        BY <1>32, <2>0, <2>1, <3>2, <4>1
      <4> QED BY <2>1, <3>2, <4>1, <4>2
    <3> QED BY <1>1, <3>1, <3>2 DEF Streams
  <2> QED BY <2>0, <2>1, <2>2 DEF ReadInv, Reading
<1> QED BY <1>8, <1>29, <1>31, <1>33, RunningEnd DEF IInv

\* The chunk is closed: nothing is left to be taken and no thread runs.
LEMMA CloseStreamInIInv == ASSUME IInv, exit = "running", CloseStreamIn PROVE IInv'
<1>0. /\ mpc = "close" /\ UNCHANGED <<ucthreads, ram_alloced, pc, faults>>
      /\ UNCHANGED <<chunk, cur, want, s0_have, tokens, literals, streamVars>> /\ mpc' = "done"
      /\ \/ exit' = "mismatch" /\ UNCHANGED output_thread
         \/ exit' = "closed" /\ output_thread' = 0
  BY DEF CloseStreamIn, Exit
<1>1. /\ PoolInv /\ ReaderType /\ ReadInv /\ UnitsOf(chunk, 0) \in Nat /\ UnitsOf(chunk, 1) \in Nat
      /\ s0_have \in 0..Window /\ Window \in Nat /\ \A s \in Streams : buf[s].left \in Nat
  BY ReaderFacts
<1>2. PoolInv'
  <2>1. PoolType'
    BY <1>0, <1>1, SlotFacts DEF PoolInv, PoolType, streamVars
  <2>2. TakenInv'
    BY <1>0, <1>1, TakenSame DEF PoolInv, streamVars
  <2>3. SlotInv'
    BY <1>0, <1>1 DEF PoolInv, SlotInv
  <2>4. RingInv'
    BY <1>0, <1>1 DEF PoolInv, RingInv, streamVars
  <2>5. OrderInv'
    BY <1>0, <1>1 DEF PoolInv, OrderInv, streamVars
  <2>6. EosInv'
    BY <1>0, <1>1 DEF PoolInv, EosInv, streamVars
  <2>7. RamInv'
    BY <1>0, <1>1 DEF PoolInv, RamInv
  <2> QED BY <2>1, <2>2, <2>3, <2>4, <2>5, <2>6, <2>7 DEF PoolInv
<1>3. ReaderType'
  BY <1>0, <1>1 DEF ReaderType, streamVars
<1>4. ReadInv'
  BY <1>0 DEF ReadInv
<1>5. /\ tokens = UnitsOf(chunk, 0) /\ literals = UnitsOf(chunk, 1)
      /\ TakenUnits(chunk, 1, taken[1]) = buf[1].left + literals - 0
      /\ TakenUnits(chunk, 0, taken[0]) = buf[0].left + tokens + s0_have + 0
  <2>1. tokens = UnitsOf(chunk, 0)
    BY <1>0, <1>1 DEF ReadInv
  <2>2. UnitsOf(chunk, 0) <= tokens + 1
    BY <1>1, <2>1
  <2> QED BY <1>0, <1>1, <2>1, <2>2 DEF ReadInv, Reading
<1>6. ASSUME NEW s \in Streams
      PROVE  /\ buf[s].left = 0 /\ Busy(ucthreads, s) = {}
             /\ \A k \in Of(chunk, s) : Blk(chunk)[k].len > 0 => k <= LastOf(taken[s])
  <2> DEFINE old == {k \in Of(chunk, s) : k <= LastOf(taken[s])}
  <2>1. chunk \in Chunks /\ LastOf(taken[s]) \in 0..Num(chunk) /\ Num(chunk) \in Nat
    BY <1>1, LastFacts
  <2>2. Weight(chunk, old) = TakenUnits(chunk, s, taken[s])
    BY DEF TakenUnits
  <2>3. Weight(chunk, old) <= UnitsOf(chunk, s)
    <3>1. old \subseteq Of(chunk, s)
      OBVIOUS
    <3> HIDE DEF old
    <3> QED BY <2>1, <3>1, WeightMono, WeightOf
  <2>4. Weight(chunk, old) \in Nat
    BY <2>1, WeightType
  <2> HIDE DEF old
  <2>5. Weight(chunk, old) = UnitsOf(chunk, s) /\ buf[s].left = 0
    <3>1. CASE s = 0
      BY <1>1, <1>5, <2>2, <2>3, <3>1
    <3>2. CASE s = 1
      BY <1>1, <1>5, <2>2, <2>3, <3>2
    <3> QED BY <3>1, <3>2 DEF Streams
  <2>6. ASSUME NEW k \in Of(chunk, s), Blk(chunk)[k].len > 0 PROVE k <= LastOf(taken[s])
    <3> SUFFICES ASSUME ~(k <= LastOf(taken[s])) PROVE FALSE
      OBVIOUS
    <3>1. k \notin old /\ k \in 1..Num(chunk)
      BY DEF old, Of
    <3>2. Weight(chunk, old \cup {k}) = Weight(chunk, old) + Blk(chunk)[k].len
      BY <2>1, <3>1, WeightAdd
    <3>3. old \cup {k} \subseteq Of(chunk, s)
      BY DEF old
    <3>4. Weight(chunk, old \cup {k}) <= UnitsOf(chunk, s)
      BY <2>1, <3>3, WeightMono, WeightOf
    <3>5. Blk(chunk)[k].len \in Nat
      BY <2>1, <3>1, BlkFacts, SizesAssumption
    <3> QED BY <2>4, <2>5, <2>6, <3>2, <3>4, <3>5
  <2>7. ASSUME NEW i \in Busy(ucthreads, s) PROVE FALSE
    <3>1. i \in Slot /\ ucthreads[i].busy
      BY SlotFacts DEF Busy
    <3>2. Blk(chunk)[ucthreads[i].block].len > 0
      BY <1>1, <3>1 DEF PoolInv, SlotInv
    <3>3. ucthreads[i].block \in Of(chunk, s) /\ LastOf(taken[s]) < ucthreads[i].block
      BY <1>1 DEF PoolInv, OrderInv, OrderOf
    <3>4. ucthreads[i].block <= LastOf(taken[s])
      BY <2>6, <3>2, <3>3
    <3>5. ucthreads[i].block \in Int
      BY <3>3 DEF Of
    <3> QED BY <2>1, <3>3, <3>4, <3>5
  <2> QED BY <2>5, <2>6, <2>7
<1>7. EndInv'
  BY <1>0, <1>5, <1>6 DEF EndInv, streamVars
<1> QED BY <1>2, <1>3, <1>4, <1>7 DEF IInv

\* The threads: no step of theirs changes which slots are busy and with what.
LEMMA ThreadIInv ==
  ASSUME IInv, exit = "running", NEW i \in Slot, NEW to \in {"wait", "retry", "done"},
         pc[i] # "none", pc' = [pc EXCEPT ![i] = to],
         \/ UNCHANGED ucthreads /\ to # "done"
         \/ ucthreads' = [ucthreads EXCEPT ![i].plain = TRUE],
         faults' \in 0..MaxFaults,
         UNCHANGED <<chunk, readerVars, streamVars, ram_alloced, output_thread, exit>>
  PROVE  IInv'
<1>1. PoolInv /\ ReaderType /\ ReadInv /\ EndInv
  BY DEF IInv
<1>2. ucthreads \in [Slot -> [busy : BOOLEAN, block : 0..Num(chunk), plain : BOOLEAN]]
      /\ pc \in [Slot -> {"none", "run", "wait", "retry", "done"}]
  BY <1>1 DEF PoolInv, PoolType
<1>3. /\ pc' \in [Slot -> {"none", "run", "wait", "retry", "done"}] /\ pc'[i] = to
      /\ \A j \in Slot : j # i => pc'[j] = pc[j]
  BY <1>2
<1>4. /\ ucthreads' \in [Slot -> [busy : BOOLEAN, block : 0..Num(chunk), plain : BOOLEAN]]
      /\ \A j \in Slot : ucthreads'[j].busy = ucthreads[j].busy /\ ucthreads'[j].block = ucthreads[j].block
      /\ \A j \in Slot : j # i => ucthreads'[j] = ucthreads[j]
      /\ to = "done" => ucthreads'[i].plain
  <2>1. CASE UNCHANGED ucthreads /\ to # "done"
    BY <1>2, <2>1
  <2>2. CASE ucthreads' = [ucthreads EXCEPT ![i].plain = TRUE]
    <3> DEFINE R == [busy : BOOLEAN, block : 0..Num(chunk), plain : BOOLEAN]
               new == [ucthreads[i] EXCEPT !.plain = TRUE]
    <3>1. ucthreads[i] \in R
      BY <1>2
    <3>2. new \in R /\ new.busy = ucthreads[i].busy /\ new.block = ucthreads[i].block /\ new.plain = TRUE
      BY <3>1
    <3>3. ucthreads' = [ucthreads EXCEPT ![i] = new]
      BY <2>2
    <3>4. ucthreads \in [Slot -> R]
      BY <1>2
    <3> HIDE DEF R, new
    <3>5. ucthreads' \in [Slot -> R] /\ ucthreads'[i] = new /\ \A j \in Slot : j # i => ucthreads'[j] = ucthreads[j]
      BY <3>2, <3>3, <3>4
    <3>6. \A j \in Slot : ucthreads'[j].busy = ucthreads[j].busy /\ ucthreads'[j].block = ucthreads[j].block
      <4> TAKE j \in Slot
      <4>1. CASE j = i
        BY <3>2, <3>5, <4>1
      <4>2. CASE j # i
        BY <3>5, <4>2
      <4> QED BY <4>1, <4>2
    <3> QED BY <3>2, <3>5, <3>6 DEF R
  <2> QED BY <2>1, <2>2
<1>5. UNCHANGED <<chunk, mpc, cur, want, s0_have, tokens, literals, last_head, eos, uthread_no, unext_thread,
                  buf, total_read, taken, ram_alloced, output_thread, exit>>
  BY DEF readerVars, streamVars
<1>6. ASSUME NEW s \in Streams
      PROVE  /\ Busy(ucthreads', s) = Busy(ucthreads, s)
             /\ OrderOf(chunk, s, ucthreads', unext_thread[s], LastOf(taken[s]), last_head[s])
  <2>1. \A j \in Mine(s) : ucthreads'[j].busy = ucthreads[j].busy /\ ucthreads'[j].block = ucthreads[j].block
    BY <1>4, SlotFacts
  <2>2. OrderOf(chunk, s, ucthreads, unext_thread[s], LastOf(taken[s]), last_head[s])
    BY <1>1 DEF PoolInv, OrderInv
  <2> QED BY <2>1, <2>2, OrderSame
<1>7. PoolType'
  BY <1>1, <1>3, <1>4, <1>5 DEF PoolInv, PoolType
<1>8. TakenInv'
  BY <1>1, <1>5, TakenSame DEF PoolInv
<1>9. SlotInv'
  <2> SUFFICES ASSUME NEW j \in Slot
               PROVE  /\ ucthreads'[j].busy <=> pc'[j] # "none"
                      /\ pc'[j] = "done" => ucthreads'[j].plain
                      /\ ucthreads'[j].busy => Blk(chunk)[ucthreads'[j].block].len > 0
    BY <1>5 DEF SlotInv
  <2>0. /\ ucthreads[j].busy <=> pc[j] # "none"
        /\ pc[j] = "done" => ucthreads[j].plain
        /\ ucthreads[j].busy => Blk(chunk)[ucthreads[j].block].len > 0
    BY <1>1 DEF PoolInv, SlotInv
  <2>1. CASE j = i
    BY <1>3, <1>4, <2>0, <2>1
  <2>2. CASE j # i
    BY <1>3, <1>4, <2>0, <2>2
  <2> QED BY <2>1, <2>2
<1>10. RingInv'
  BY <1>1, <1>5, <1>6 DEF PoolInv, RingInv
<1>11. OrderInv'
  BY <1>5, <1>6 DEF OrderInv
<1>12. EosInv'
  BY <1>1, <1>5 DEF PoolInv, EosInv
<1>13. InFlight(ucthreads') = InFlight(ucthreads)
  <2>1. {j \in Slot : ucthreads'[j].busy} = {j \in Slot : ucthreads[j].busy}
    BY <1>4
  <2>2. \A j \in {l \in Slot : ucthreads[l].busy} : ucthreads'[j].block = ucthreads[j].block
    BY <1>4
  <2> QED BY <2>1, <2>2 DEF InFlight
<1>14. RamInv'
  <2>1. 0 \in Slot
    BY SlotFacts
  <2>2. ucthreads'[0].busy = ucthreads[0].busy /\ ucthreads'[0].block = ucthreads[0].block
    BY <1>4, <2>1
  <2> QED BY <1>1, <1>5, <1>13, <2>2 DEF PoolInv, RamInv
<1>15. PoolInv'
  BY <1>7, <1>8, <1>9, <1>10, <1>11, <1>12, <1>14 DEF PoolInv
<1>16. ReaderType'
  BY <1>1, <1>5 DEF ReaderType
<1>17. ReadInv'
  <2>1. Busy(ucthreads', cur) = Busy(ucthreads, cur)
    BY <1>1, <1>6 DEF ReaderType
  <2> QED BY <1>1, <1>5, <2>1 DEF ReadInv
<1> QED BY <1>5, <1>15, <1>16, <1>17, RunningEnd DEF IInv

----------------------------------------------------------------------------
(* The theorems. *)

\* The chunk is opened.
LEMMA InitIInv == Init => IInv
<1> SUFFICES ASSUME Init PROVE IInv
  OBVIOUS
<1>1. chunk \in Chunks /\ Num(chunk) \in Nat /\ Blocks = Blk(chunk) /\ 0 \in 0..Num(chunk)
  <2>1. chunk \in Chunks
    BY DEF Init
  <2>2. Num(chunk) \in Nat
    BY <2>1, ChunkFacts
  <2> QED BY <2>1, <2>2, Same
<1>2. ASSUME NEW s \in Streams
      PROVE  /\ last_head[s] = Link(chunk, s, 0) /\ ~eos[s] /\ uthread_no[s] = s /\ unext_thread[s] = s
             /\ taken[s] = <<>> /\ LastOf(taken[s]) = 0
  <2>1. LastHead(s, 0) = Link(chunk, s, 0)
    BY <1>1, Same
  <2> QED BY <2>1 DEF Init, LastOf, BaseThread
<1>3. ASSUME NEW s \in Streams
      PROVE  /\ last_head[s] # 0 /\ last_head[s] \in Of(chunk, s) /\ last_head[s] \in 1..Num(chunk)
             /\ \A k \in Of(chunk, s) : last_head[s] <= k /\ k \in 1..Num(chunk)
  <2>1. Link(chunk, s, 0) # 0
    BY <1>1, LinkFacts
  <2>2. Link(chunk, s, 0) \in Of(chunk, s) /\ \A k \in Of(chunk, s) : 0 < k => Link(chunk, s, 0) <= k
    BY <1>1, <2>1, LinkFacts
  <2>3. \A k \in Of(chunk, s) : k \in 1..Num(chunk) /\ 0 < k
    BY <1>1, OfFacts
  <2> QED BY <1>2, <2>1, <2>2, <2>3
<1>4. ucthreads = [i \in Slot |-> NoBlock] /\ NoBlock \in [busy : BOOLEAN, block : 0..Num(chunk), plain : BOOLEAN]
      /\ ~NoBlock.busy
  BY <1>1 DEF Init, NoBlock
<1>5. \A i \in Slot : ~ucthreads[i].busy
  BY <1>4
<1>6. \A s \in Streams : Busy(ucthreads, s) = {}
  BY <1>5, SlotFacts DEF Busy
<1>7. PoolType
  <2>1. last_head = [s \in Streams |-> LastHead(s, 0)] /\ \A s \in Streams : last_head[s] \in 0..Num(chunk)
    BY <1>1, <1>3 DEF Init
  <2>2. last_head \in [Streams -> 0..Num(chunk)]
    BY <2>1
  <2>3. \A s \in Streams : BaseThread(s) \in Slot
    BY SlotFacts
  <2>4. uthread_no \in [Streams -> Slot] /\ unext_thread \in [Streams -> Slot]
    BY <2>3 DEF Init
  <2>5. faults \in 0..MaxFaults
    BY BoundsAssumption DEF Init
  <2>6. ucthreads \in [Slot -> [busy : BOOLEAN, block : 0..Num(chunk), plain : BOOLEAN]]
    BY <1>4
  <2> QED BY <1>1, <2>2, <2>4, <2>5, <2>6, SlotFacts DEF Init, PoolType
<1>8. TakenInv
  <2>1. taken = [s \in Streams |-> <<>>] /\ <<>> \in Seq([block : 1..Num(chunk), plain : {TRUE}])
    BY DEF Init
  <2>2. \A s \in Streams : DOMAIN taken[s] = {}
    BY <1>2
  <2>3. \A s \in Streams : \A k \in Of(chunk, s) : ~(k <= LastOf(taken[s]))
    BY <1>2, <1>3
  <2>4. taken \in [Streams -> Seq([block : 1..Num(chunk), plain : {TRUE}])]
    BY <2>1
  <2> QED BY <2>2, <2>3, <2>4 DEF TakenInv
<1>9. SlotInv
  <2>1. \A i \in Slot : pc[i] = "none"
    BY DEF Init
  <2> QED BY <1>5, <2>1 DEF SlotInv
<1>10. RingInv
  <2> SUFFICES ASSUME NEW s \in Streams PROVE RingOf(s, s, s, {})
    BY <1>2, <1>6 DEF RingInv
  <2>1. s \in Mine(s) /\ s \in Int
    BY SlotFacts DEF BaseThread, Streams
  <2>2. ~(s < s) /\ ~(s > s)
    BY <2>1
  <2> QED BY <2>1, <2>2 DEF RingOf
<1>11. OrderInv
  <2> SUFFICES ASSUME NEW s \in Streams PROVE OrderOf(chunk, s, ucthreads, s, 0, last_head[s])
    BY <1>2 DEF OrderInv
  <2>1. \A k \in Of(chunk, s) : ~(last_head[s] = 0 \/ k < last_head[s])
    BY <1>3
  <2>2. 0 < last_head[s]
    BY <1>1, <1>3
  <2> QED BY <1>3, <1>6, <2>1, <2>2 DEF OrderOf
<1>12. EosInv
  <2>1. Fetched(chunk, last_head, eos) = {}
    <3> SUFFICES ASSUME NEW k \in 1..Num(chunk), NEW s \in Streams, Blk(chunk)[k].stream = s,
                        last_head[s] = 0 \/ k < last_head[s] \/ (k = last_head[s] /\ eos[s])
                 PROVE  FALSE
      BY DEF Fetched
    <3>1. k \in Of(chunk, s)
      BY DEF Of
    <3> QED BY <1>2, <1>3, <3>1
  <2>2. total_read = Cardinality(Fetched(chunk, last_head, eos))
    BY <2>1, FS_EmptySet DEF Init
  <2>3. mpc # "fetch"
    BY DEF Init
  <2> QED BY <1>2, <1>3, <2>2, <2>3 DEF EosInv
<1>13. RamInv
  <2>1. InFlight(ucthreads) = {}
    BY <1>5 DEF InFlight
  <2>2. ram_alloced = 0 /\ mpc = "token"
    BY DEF Init
  <2>3. 0 < MaxRam /\ 0 < MaxRam + BufSize
    BY SizesAssumption
  <2> QED BY <1>1, <2>1, <2>2, <2>3, WeightEmpty DEF RamInv
<1>14. PoolInv
  BY <1>7, <1>8, <1>9, <1>10, <1>11, <1>12, <1>13 DEF PoolInv
<1>15. /\ UnitsOf(chunk, 0) \in Nat /\ UnitsOf(chunk, 1) \in Nat /\ UnitsOf(chunk, 0) >= 1
       /\ UnitsOf(chunk, 0) = 1 => UnitsOf(chunk, 1) = 0
  BY <1>7, UnitsFacts
<1>16. ReaderType
  <2>1. NoBuf \in [block : 0..Num(chunk), left : 0..BufSize]
    BY <1>1, SizesAssumption DEF NoBuf
  <2>2. buf \in [Streams -> [block : 0..Num(chunk), left : 0..BufSize]]
    BY <2>1 DEF Init
  <2>3. s0_have \in 0..Window /\ tokens \in 0..UnitsOf(chunk, 0) /\ literals \in 0..UnitsOf(chunk, 1)
    BY <1>15, SizesAssumption DEF Init
  <2> QED BY <2>2, <2>3 DEF Init, ReaderType, Streams
<1>17. ReadInv
  <2>1. \A s \in Streams : TakenUnits(chunk, s, taken[s]) = 0
    <3> TAKE s \in Streams
    <3>1. {k \in Of(chunk, s) : k <= LastOf(taken[s])} = {}
      BY <1>2, <1>3
    <3> QED BY <1>1, <3>1, WeightEmpty DEF TakenUnits
  <2>2. TakenUnits(chunk, 0, taken[0]) = 0 /\ TakenUnits(chunk, 1, taken[1]) = 0
    BY <2>1 DEF Streams
  <2>3. buf[0].left = 0 /\ buf[1].left = 0
    BY DEF Init, Streams, NoBuf
  <2>4. UnitsOf(chunk, 0) <= tokens + 1 => literals = UnitsOf(chunk, 1)
    BY <1>15 DEF Init
  <2>5. tokens < UnitsOf(chunk, 0)
    BY <1>15 DEF Init
  <2> QED BY <2>2, <2>3, <2>4, <2>5 DEF Init, ReadInv, Reading
<1>18. EndInv
  BY DEF Init, EndInv
<1> QED BY <1>14, <1>16, <1>17, <1>18 DEF IInv

\* fill_buffer never finds the next slot busy.
LEMMA FillAnotherIInv == ASSUME IInv, exit = "running", FillAnother PROVE IInv'
<1>1. mpc = "fetch" /\ PoolInv /\ cur \in Streams
  BY ReaderFacts DEF FillAnother
<1>2. ~ucthreads[uthread_no[cur]].busy
  <2>1. uthread_no[cur] \notin Busy(ucthreads, cur) /\ uthread_no[cur] \in Mine(cur)
    BY <1>1 DEF PoolInv, RingInv, RingOf
  <2> QED BY <2>1 DEF Busy
<1>3. SkipEmpty \/ InvalidData \/ StartThread
  BY <1>2 DEF FillAnother
<1>4. CASE SkipEmpty
  BY <1>1, <1>4, SkipEmptyIInv
<1>5. CASE InvalidData
  BY <1>5, ExitIInv DEF InvalidData
<1>6. CASE StartThread
  BY <1>1, <1>2, <1>6, StartThreadIInv
<1> QED BY <1>3, <1>4, <1>5, <1>6

\* The steps of a thread.
LEMMA UcompthreadIInv == ASSUME IInv, exit = "running", NEW i \in Slot, Ucompthread(i) PROVE IInv'
<1>0. faults \in 0..MaxFaults /\ MaxFaults \in Nat
  BY BoundsAssumption DEF IInv, PoolInv, PoolType
<1>1. CASE Finishes(i) /\ pc[i] \in {"run", "retry"}
  <2>1. pc[i] # "none" /\ faults' \in 0..MaxFaults
    BY <1>0, <1>1 DEF Finishes
  <2> QED BY <1>1, <2>1, ThreadIInv DEF Finishes
<1>2. CASE pc[i] = "run" /\ faults < MaxFaults /\ faults' = faults + 1 /\ pc' = [pc EXCEPT ![i] = "wait"]
           /\ UNCHANGED <<chunk, readerVars, streamVars, ucthreads, ram_alloced, output_thread, exit>>
  <2>1. pc[i] # "none" /\ faults' \in 0..MaxFaults /\ "wait" # "done"
    BY <1>0, <1>2
  <2> QED BY <1>2, <2>1, ThreadIInv
<1>3. CASE AwaitTurn(i)
  <2>1. pc[i] # "none" /\ faults' \in 0..MaxFaults /\ "retry" # "done"
    BY <1>0, <1>3 DEF AwaitTurn
  <2> QED BY <1>3, <2>1, ThreadIInv DEF AwaitTurn
<1> QED BY <1>1, <1>2, <1>3 DEF Ucompthread, Decompress, Retry

\* IInv is inductive.
LEMMA NextIInv == IInv /\ [Next]_vars => IInv'
<1> SUFFICES ASSUME IInv, [Next]_vars PROVE IInv'
  OBVIOUS
<1>1. CASE exit = "running" /\ ReadHeader
  BY <1>1, ReadHeaderIInv
<1>2. CASE exit = "running" /\ S0Need
  BY <1>2, S0NeedIInv
<1>3. CASE exit = "running" /\ ReadStream
  BY <1>3, ReadStreamIInv
<1>4. CASE exit = "running" /\ ReadReturns
  BY <1>4, ReadReturnsIInv
<1>5. CASE exit = "running" /\ FillBuffer
  BY <1>5, FillBufferIInv
<1>6. CASE exit = "running" /\ FillAnother
  BY <1>6, FillAnotherIInv
<1>7. CASE exit = "running" /\ SetTurn
  BY <1>7, SetTurnIInv
<1>8. CASE exit = "running" /\ JoinThread
  BY <1>8, JoinThreadIInv
<1>9. CASE exit = "running" /\ CloseStreamIn
  BY <1>9, CloseStreamInIInv
<1>10. CASE exit = "running" /\ MainFails
  BY <1>10, ExitIInv DEF MainFails
<1>11. CASE exit = "running" /\ \E i \in Slot : Ucompthread(i) \/ RetryFails(i)
  <2>1. PICK i \in Slot : Ucompthread(i) \/ RetryFails(i)
    BY <1>11
  <2>2. CASE Ucompthread(i)
    BY <1>11, <2>2, UcompthreadIInv
  <2>3. CASE RetryFails(i)
    BY <1>11, <2>3, ExitIInv DEF RetryFails
  <2> QED BY <2>1, <2>2, <2>3
<1>12. CASE UNCHANGED vars
  <2>1. /\ UNCHANGED <<chunk, last_head, eos, uthread_no, unext_thread, total_read, taken, buf>>
        /\ UNCHANGED <<ucthreads, ram_alloced, output_thread, pc, faults>>
        /\ UNCHANGED <<mpc, cur, want, s0_have, tokens, literals, exit>>
    BY <1>12 DEF vars, readerVars, streamVars, poolVars
  <2>2. PoolType'
    BY <2>1 DEF IInv, PoolInv, PoolType
  <2>3. TakenInv'
    BY <2>1, TakenSame DEF IInv, PoolInv
  <2>4. SlotInv'
    BY <2>1 DEF IInv, PoolInv, SlotInv
  <2>5. RingInv'
    BY <2>1 DEF IInv, PoolInv, RingInv
  <2>6. OrderInv'
    BY <2>1 DEF IInv, PoolInv, OrderInv
  <2>7. EosInv'
    BY <2>1 DEF IInv, PoolInv, EosInv
  <2>8. RamInv'
    BY <2>1 DEF IInv, PoolInv, RamInv
  <2>9. ReaderType'
    BY <2>1 DEF IInv, ReaderType
  <2>10. ReadInv'
    BY <2>1 DEF IInv, ReadInv
  <2>11. EndInv'
    BY <2>1 DEF IInv, EndInv
  <2> QED BY <2>2, <2>3, <2>4, <2>5, <2>6, <2>7, <2>8, <2>9, <2>10, <2>11 DEF IInv, PoolInv
<1> QED
  BY <1>1, <1>2, <1>3, <1>4, <1>5, <1>6, <1>7, <1>8, <1>9, <1>10, <1>11, <1>12 DEF Next, MainStep, Ended

\* What the invariant says of the run's properties.
LEMMA IInvTypeOK == IInv => TypeOK
<1> SUFFICES ASSUME IInv PROVE TypeOK
  OBVIOUS
<1>1. chunk \in Chunks /\ Num(chunk) \in Nat
  BY ChunkFacts DEF IInv, PoolInv, PoolType
<1>2. Len(Blocks) = Num(chunk) /\ Units(0) = UnitsOf(chunk, 0) /\ Units(1) = UnitsOf(chunk, 1)
  BY <1>1, Same
<1>3. total_read \in 0..Num(chunk)
  BY <1>1, FetchedFacts DEF IInv, PoolInv, EosInv
<1>4. ram_alloced \in Nat
  BY <1>1, WeightType DEF IInv, PoolInv, RamInv
<1>5. \A s \in Streams : uthread_no[s] \in Mine(s) /\ unext_thread[s] \in Mine(s)
  BY DEF IInv, PoolInv, RingInv, RingOf
<1>6. PoolType /\ ReaderType
  BY DEF IInv, PoolInv
<1> QED BY <1>2, <1>3, <1>4, <1>5, <1>6 DEF TypeOK, PoolType, ReaderType, Mine

\* The order of the blocks taken.
LEMMA IInvInOrder == IInv => InOrder
<1> SUFFICES ASSUME IInv PROVE InOrder
  OBVIOUS
<1>1. chunk \in Chunks /\ Num(chunk) \in Nat /\ TypeOK
  BY ChunkFacts, IInvTypeOK DEF IInv, PoolInv, PoolType
<1>2. ASSUME NEW s \in Streams, NEW n \in DOMAIN taken[s]
      PROVE  /\ taken[s][n].plain
             /\ taken[s][n].block = LastHead(s, IF n = 1 THEN 0 ELSE taken[s][n - 1].block)
  <2> DEFINE R == [block : 1..Num(chunk), plain : {TRUE}]
             prev == IF n = 1 THEN 0 ELSE taken[s][n - 1].block
  <2>1. taken[s] \in Seq(R)
    BY DEF IInv, PoolInv, TakenInv
  <2>2. DOMAIN taken[s] = 1..Len(taken[s]) /\ Len(taken[s]) \in Nat /\ \A m \in 1..Len(taken[s]) : taken[s][m] \in R
    <3> HIDE DEF R
    <3> QED BY <2>1
  <2>3. n \in 1..Len(taken[s]) /\ (n # 1 => n - 1 \in 1..Len(taken[s]))
    BY <2>2
  <2>4. taken[s][n].plain /\ prev \in 0..Num(chunk)
    <3>1. taken[s][n] \in R /\ (n # 1 => taken[s][n - 1] \in R)
      BY <2>2, <2>3
    <3>2. \A x \in R : x.plain = TRUE /\ x.block \in 1..Num(chunk)
      OBVIOUS
    <3> HIDE DEF R
    <3>3. taken[s][n].plain = TRUE /\ (n # 1 => taken[s][n - 1].block \in 1..Num(chunk))
      BY <3>1, <3>2
    <3>4. prev \in 0..Num(chunk)
      BY <1>1, <3>3
    <3> QED BY <3>3, <3>4
  <2>5. taken[s][n].block = Link(chunk, s, prev)
    BY DEF IInv, PoolInv, TakenInv
  <2> HIDE DEF prev
  <2>6. LastHead(s, prev) = Link(chunk, s, prev)
    BY <1>1, <2>4, Same
  <2> QED BY <2>4, <2>5, <2>6 DEF prev
<1> QED BY <1>1, <1>2 DEF InOrder

\* A closed chunk.
LEMMA IInvClosed == IInv => ClosedIsComplete
<1> SUFFICES ASSUME IInv PROVE ClosedIsComplete
  OBVIOUS
<1>1. chunk \in Chunks /\ Blocks = Blk(chunk) /\ DOMAIN Blocks = 1..Num(chunk) /\ Units(1) = UnitsOf(chunk, 1)
  BY Same, BlkFacts DEF IInv, PoolInv, PoolType
<1>2. NeverShort
  BY DEF IInv, EndInv, NeverShort
<1>3. ASSUME exit = "closed"
      PROVE  /\ \A s \in Streams, k \in DOMAIN Blocks :
                  Blocks[k].stream = s /\ Blocks[k].len > 0 => \E n \in DOMAIN taken[s] : taken[s][n].block = k
             /\ literals = Units(1)
             /\ \A s \in Streams : buf[s].left = 0
             /\ \A i \in Slot : pc[i] = "none"
             /\ ram_alloced = 0
  <2>1. \A s \in Streams :
          /\ \A k \in Of(chunk, s) : Blk(chunk)[k].len > 0 => k <= LastOf(taken[s])
          /\ literals = UnitsOf(chunk, 1) /\ buf[s].left = 0 /\ Busy(ucthreads, s) = {}
    BY <1>3 DEF IInv, EndInv
  <2>2. ASSUME NEW s \in Streams, NEW k \in 1..Num(chunk), Blk(chunk)[k].stream = s, Blk(chunk)[k].len > 0
        PROVE  \E n \in DOMAIN taken[s] : taken[s][n].block = k
    <3>1. k \in Of(chunk, s)
      BY <2>2 DEF Of
    <3>2. k <= LastOf(taken[s])
      BY <2>1, <2>2, <3>1
    <3> QED BY <3>1, <3>2 DEF IInv, PoolInv, TakenInv
  <2>3. \A i \in Slot : ~ucthreads[i].busy
    <3> TAKE i \in Slot
    <3>1. PICK s \in Streams : i \in Mine(s)
      BY SlotFacts
    <3> QED BY <2>1, <3>1 DEF Busy
  <2>4. \A i \in Slot : pc[i] = "none"
    BY <2>3 DEF IInv, PoolInv, SlotInv
  <2>5. InFlight(ucthreads) = {}
    BY <2>3 DEF InFlight
  <2>6. ram_alloced = 0
    BY <1>1, <2>5, WeightEmpty DEF IInv, PoolInv, RamInv
  <2>7. literals = Units(1)
    BY <1>1, <2>1 DEF Streams
  <2>8. \A s \in Streams, k \in DOMAIN Blocks :
          Blocks[k].stream = s /\ Blocks[k].len > 0 => \E n \in DOMAIN taken[s] : taken[s][n].block = k
    BY <1>1, <2>2
  <2> QED BY <2>1, <2>4, <2>6, <2>7, <2>8
<1> QED BY <1>2, <1>3 DEF ClosedIsComplete

\* The inductive invariant holds.
LEMMA AlwaysIInv == Spec => []IInv
<1> QED BY InitIInv, NextIInv, PTL DEF Spec

\* For any number of threads, any limit on memory and any chunk the compressor can have
\* written: read_stream is handed decompressed blocks of its stream only, in the order of
\* the links, without a gap or a repetition, and all variables keep their types.
THEOREM BlocksInOrder == Spec => []InOrder
<1> QED BY AlwaysIInv, IInvInOrder, PTL

\* The memory held by the blocks that fill_buffer has read ahead exceeds the limit by less
\* than one buffer, whichever of the two streams is being read.
THEOREM ReadAheadBounded == Spec => []RamBounded
<1>1. IInv => RamBounded
  BY DEF IInv, PoolInv, RamInv, RamBounded
<1> QED BY <1>1, AlwaysIInv, PTL

\* read_stream is never short and fill_buffer never meets a busy slot; and close_stream_in
\* finds both streams delivered to their last unit, every thread joined and no memory held.
THEOREM ChunkComplete == Spec => []ClosedIsComplete
<1> QED BY AlwaysIInv, IInvClosed, PTL
==============================================================================
