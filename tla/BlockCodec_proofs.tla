-------------------------- MODULE BlockCodec_proofs --------------------------
(***************************************************************************)
(* Proofs about the treatment of one block: for every back end, number of  *)
(* blocks, level, dictionary size and choice of filters, in every          *)
(* interleaving of the threads, a block comes back as it was, and the      *)
(* magic of a file covers the dictionaries of all its blocks.              *)
(***************************************************************************)
EXTENDS BlockCodec, TLAPS

BlockPC == {"idle", "lz4", "filter", "retry", "try", "failed", "bzip2", "ready", "written", "fatal"}
Coders  == {"none", "lzma", "lzo", "bzip2", "gzip", "zpaq"}
Results == {"none", "waiting", "right", "wrong", "refused", "fatal"}

BufType == [filter : 0..6, by : Coders, dict : Nat]
BlockType ==
  [pc : BlockPC, buf : BufType, filter : Filters \cup {0}, level : 1..MaxLevel, dict : Nat,
   ctype : 3..14, waited : BOOLEAN]
ControlType ==
  [lz4done : BOOLEAN, lz4ok : BOOLEAN, dictsize : Nat, props : Nat, propset : BOOLEAN,
   written : BOOLEAN, done : 0..Chunks]

\* The shapes of the records, which TypeOK leaves open.
Typed ==
  /\ mode \in [by : Backends, stdout : BOOLEAN, ultra : BOOLEAN]
  /\ ctl \in ControlType
  /\ blk \in [Blocks -> BlockType]
  /\ ustate \in [Blocks -> Results]
  /\ chunk \in 1..Chunks + 1 /\ turn \in 1..Chunks * PerChunk + 1 /\ magic \in Nat \cup {-1}
  /\ ctl.done < chunk

Untouched(b) == b.buf = Plain /\ b.filter = 0 /\ b.ctype = CTYPE_NONE

\* What a finished block looks like: stored as it was, compressed by lzma and
\* typed for its filter, or compressed by another back end and not filtered.
Stored(b) == b.buf = Plain /\ b.ctype = CTYPE_NONE
ByLzma(b) == b.buf.by = "lzma" /\ b.ctype = CtypeOf(b.buf.filter)
ByOther(b) == /\ b.buf.by \in DOMAIN Ctype /\ b.ctype = Ctype[b.buf.by]
              /\ b.buf.filter = 0 /\ b.buf.dict = 0

\* Where a block is determines what has been done to its bytes.  While a back
\* end works on it the filter in place is the one the thread remembers.
BlockInv(b) ==
  /\ b.pc \in {"idle", "lz4", "filter", "failed", "bzip2", "fatal"} => Untouched(b)
  /\ b.pc \in {"retry", "try"} =>
       b.buf = [filter |-> b.filter, by |-> "none", dict |-> 0] /\ b.ctype = CTYPE_NONE
  /\ b.pc \in {"retry", "try"} /\ mode.by # "lzma" => b.filter = 0
  /\ b.pc \in {"filter", "retry", "bzip2"} => mode.by = "lzma"
  /\ b.pc \notin {"idle", "ready", "written"} => mode.by # "none"
  /\ b.pc \in {"ready", "written"} => Stored(b) \/ ByLzma(b) \/ ByOther(b)

\* Blocks before the turn are written, all of them when the last chunk has ended.
TurnInv ==
  /\ \A k \in Blocks : k < turn => blk[k].pc = "written"
  /\ chunk = Chunks + 1 => turn = Chunks * PerChunk + 1
  /\ \A k \in Blocks : ustate[k] # "none" => chunk = Chunks + 1

\* The published properties cover every block that is compressed so far, and the
\* magic of a file is made from them once all blocks are.
DictInv ==
  /\ \A k \in Blocks : blk[k].buf.dict <= ctl.props
  /\ ~ctl.propset => ctl.props = 0
  /\ ~mode.stdout /\ chunk = Chunks + 1 => magic = ctl.props

RefusedInv ==
  \A k \in Blocks :
    /\ ustate[k] # "wrong"
    /\ ustate[k] = "refused" => mode.stdout /\ blk[k].buf.by = "lzma" /\ blk[k].buf.dict > LzmaDict

\* The inductive invariant.
IInv ==
  /\ Typed
  /\ \A k \in Blocks : BlockInv(blk[k])
  /\ TurnInv
  /\ DictInv
  /\ RefusedInv

----------------------------------------------------------------------------
(* Constants and helpers. *)

\* What the assumption says, one fact at a time.
LEMMA CodecFacts ==
  /\ Chunks \in Nat \ {0} /\ PerChunk \in Nat \ {0} /\ MaxLevel \in Nat \ {0}
  /\ MinDict \in Nat \ {0} /\ DicMin \in Nat \ {0} /\ UltraDict \in Nat
  /\ Filters \subseteq 0..6 /\ Backends \subseteq Coders
  /\ Chunks * PerChunk \in Nat /\ Blocks = 1..Chunks * PerChunk
<1>1. /\ Chunks \in Nat \ {0} /\ PerChunk \in Nat \ {0} /\ MaxLevel \in Nat \ {0}
      /\ MinDict \in Nat \ {0} /\ DicMin \in Nat \ {0} /\ UltraDict \in Nat
      /\ Filters \subseteq 0..6
  BY CodecAssumption
<1>2. Backends \subseteq Coders
  BY CodecAssumption DEF Coders
<1>3. Chunks * PerChunk \in Nat
  BY <1>1
<1> QED
  BY <1>1, <1>2, <1>3 DEF Blocks

\* Filtering the original bytes and undoing the same filter gives them back.
LEMMA ConvertFacts ==
  ASSUME NEW f \in 0..6, NEW c
  PROVE  /\ Convert(Plain, f, TRUE) = [filter |-> f, by |-> "none", dict |-> 0]
         /\ Convert([filter |-> f, by |-> "none", dict |-> 0], f, FALSE) = Plain
         /\ CtypeOf(f) \in {CTYPE_LZMA} \cup 9..14
         /\ CtypeFilterKind(CtypeOf(f)) = f
BY DEF Convert, Plain, CtypeOf, CtypeFilterKind, CTYPE_LZMA, CTYPE_LZMA_BCJ

\* The block of slot k and the fields the proofs look at.
LEMMA BlockFacts ==
  ASSUME IInv, NEW k \in Blocks
  PROVE  /\ blk[k] \in BlockType /\ blk[k].buf \in BufType
         /\ blk[k].pc \in BlockPC /\ blk[k].filter \in 0..6 /\ blk[k].filter \in Filters \cup {0}
         /\ blk[k].level \in 1..MaxLevel /\ blk[k].dict \in Nat /\ blk[k].waited \in BOOLEAN
         /\ blk[k].ctype \in 3..14 /\ blk[k].buf.dict \in Nat
         /\ BlockInv(blk[k]) /\ ctl \in ControlType /\ mode.by \in Coders
<1>1. blk[k] \in BlockType /\ BlockInv(blk[k]) /\ ctl \in ControlType
  BY DEF IInv, Typed
<1>2. mode.by \in Coders
  BY CodecFacts DEF IInv, Typed
<1>3. /\ blk[k].buf \in BufType /\ blk[k].pc \in BlockPC /\ blk[k].filter \in Filters \cup {0}
      /\ blk[k].level \in 1..MaxLevel /\ blk[k].dict \in Nat /\ blk[k].waited \in BOOLEAN
      /\ blk[k].ctype \in 3..14
  BY <1>1 DEF BlockType
<1>4. blk[k].filter \in 0..6
  <2>1. Filters \cup {0} \subseteq 0..6
    BY CodecFacts
  <2> QED
    BY <1>3, <2>1
<1>5. blk[k].buf.dict \in Nat
  BY <1>3 DEF BufType
<1> QED
  BY <1>1, <1>2, <1>3, <1>4, <1>5

\* The initial states satisfy the invariant.
LEMMA InitIInv == Init => IInv
<1> SUFFICES ASSUME Init PROVE IInv
  OBVIOUS
<1>1. Plain \in BufType
  BY DEF Plain, BufType, Coders
<1>2. NewBlock \in BlockType
  BY <1>1, CodecFacts DEF NewBlock, BlockType, BlockPC, CTYPE_NONE
<1>3. ctl \in ControlType
  BY CodecFacts DEF Init, ControlType
<1>4. Typed
  BY <1>2, <1>3, CodecFacts DEF Init, Typed, Results
<1>5. /\ \A k \in Blocks : BlockInv(blk[k])
      /\ \A k \in Blocks : blk[k].buf.dict = 0
  BY DEF Init, NewBlock, BlockInv, Untouched, Plain
<1>6. TurnInv
  BY CodecFacts DEF Init, TurnInv
<1>7. DictInv
  BY <1>5, CodecFacts DEF Init, DictInv
<1>8. RefusedInv
  BY DEF Init, RefusedInv
<1> QED
  BY <1>4, <1>5, <1>6, <1>7, <1>8 DEF IInv

----------------------------------------------------------------------------
(* The steps of compthread. *)

\* A step of the thread of block k, before its block is written, keeps the
\* invariant if what it makes of its block fits and what it publishes only grows.
LEMMA ThreadStep ==
  ASSUME IInv, NEW k \in Blocks, NEW b \in BlockType,
         To(k, b), blk[k].pc # "written", BlockInv(b),
         UNCHANGED <<mode, chunk, ustate>>,
         magic' \in Nat \cup {-1},
         ctl' \in ControlType, ctl'.done = ctl.done, ctl.props <= ctl'.props,
         b.buf.dict <= ctl'.props, ~ctl'.propset => ctl'.props = 0,
         turn' = turn \/ (turn = k /\ turn' = k + 1 /\ b.pc = "written")
  PROVE  IInv'
<1>0. Typed /\ TurnInv /\ DictInv
  BY DEF IInv
<1>1. blk' = [blk EXCEPT ![k] = b] /\ blk \in [Blocks -> BlockType]
  BY <1>0 DEF To, Typed
<1>2. turn \in Nat /\ chunk \in Nat /\ Chunks \in Nat /\ Chunks * PerChunk \in Nat /\ k \in 1..Chunks * PerChunk
  BY <1>0, CodecFacts DEF Typed
<1>3. ~(k < turn)
  BY <1>0 DEF TurnInv
<1>4. chunk # Chunks + 1
  BY <1>0, <1>2, <1>3 DEF TurnInv
<1>5. turn' \in 1..Chunks * PerChunk + 1
  BY <1>0, <1>2 DEF Typed
<1>6. Typed'
  BY <1>0, <1>1, <1>5 DEF Typed
<1>7. \A j \in Blocks : BlockInv(blk'[j])
  BY <1>1 DEF IInv
<1>8. (\A j \in Blocks : BlockInv(blk[j]))'
  BY <1>7 DEF BlockInv
<1>9. TurnInv'
  <2>1. ASSUME NEW j \in Blocks, j < turn' PROVE blk'[j].pc = "written"
    <3>1. j \in Nat
      BY CodecFacts
    <3>2. CASE j = k
      BY <1>1, <1>2, <1>3, <2>1, <3>2
    <3>3. CASE j # k
      <4>1. j < turn
        BY <1>2, <2>1, <3>1, <3>3
      <4> QED
        BY <1>0, <1>1, <3>3, <4>1 DEF TurnInv
    <3> QED BY <3>2, <3>3
  <2>2. \A j \in Blocks : ustate'[j] # "none" => chunk' = Chunks + 1
    BY <1>0 DEF TurnInv
  <2> QED
    BY <1>4, <2>1, <2>2 DEF TurnInv
<1>10. DictInv'
  <2>1. ASSUME NEW j \in Blocks PROVE blk'[j].buf.dict <= ctl'.props
    <3>1. blk[j].buf.dict \in Nat /\ blk[j].buf.dict <= ctl.props
      BY <1>0, BlockFacts DEF DictInv
    <3>2. ctl.props \in Nat /\ ctl'.props \in Nat
      BY <1>0 DEF Typed, ControlType
    <3> QED
      BY <1>1, <3>1, <3>2
  <2> QED
    BY <1>4, <2>1 DEF DictInv
<1>11. RefusedInv'
  BY <1>0, <1>4 DEF TurnInv, RefusedInv
<1> QED
  BY <1>6, <1>8, <1>9, <1>10, <1>11 DEF IInv

\* A step that changes nothing but the block, whose dictionary it leaves alone.
LEMMA OnlyStep ==
  ASSUME IInv, NEW k \in Blocks, NEW b \in BlockType, Only(k, b),
         blk[k].pc # "written", b.pc # "written", BlockInv(b), b.buf.dict = 0
  PROVE  IInv'
<1>1. ctl \in ControlType /\ ctl.props \in Nat /\ magic \in Nat \cup {-1} /\ DictInv
  BY DEF IInv, Typed, ControlType
<1>2. UNCHANGED <<mode, ctl, chunk, turn, magic, ustate>> /\ To(k, b)
  BY DEF Only
<1> QED
  BY <1>1, <1>2, ThreadStep DEF DictInv

\* Taking a buffer up: it is still as it was.
LEMMA StartIInv ==
  ASSUME IInv, NEW k \in Blocks, Start(k) PROVE IInv'
<1>1. PICK to \in {"ready", "try", "lz4"} :
        /\ Only(k, [blk[k] EXCEPT !.pc = to])
        /\ to # "ready" => mode.by # "none"
        /\ blk[k].pc = "idle"
  BY DEF Start
<1> DEFINE b == [blk[k] EXCEPT !.pc = to]
<1>2. b \in BlockType /\ b.pc = to /\ b.buf = blk[k].buf /\ b.filter = blk[k].filter /\ b.ctype = blk[k].ctype
  BY BlockFacts DEF BlockType, BlockPC
<1>3. Untouched(blk[k])
  BY <1>1, BlockFacts DEF BlockInv
<1>4. BlockInv(b) /\ b.buf.dict = 0
  BY <1>1, <1>2, <1>3 DEF BlockInv, Untouched, Stored, Plain
<1> HIDE DEF b
<1> QED
  BY <1>1, <1>2, <1>4, OnlyStep DEF b

\* The lz4 test is kept by all blocks and changes none.
LEMMA Lz4IInv ==
  ASSUME IInv, NEW k \in Blocks, Lz4Compresses(k) PROVE IInv'
<1>0. ctl.lz4ok \in BOOLEAN
  BY BlockFacts DEF ControlType
<1>1. PICK ok \in BOOLEAN :
        /\ To(k, [blk[k] EXCEPT !.pc = IF ok THEN AfterLz4 ELSE "ready"])
        /\ ctl' = [ctl EXCEPT !.lz4done = TRUE, !.lz4ok = ok]
        /\ blk[k].pc = "lz4"
  BY <1>0 DEF Lz4Compresses
<1> DEFINE to == IF ok THEN AfterLz4 ELSE "ready"
           b == [blk[k] EXCEPT !.pc = to]
<1>7. to \in {"ready", "try", "filter"} /\ (to = "filter" => mode.by = "lzma")
  BY DEF AfterLz4
<1> HIDE DEF to
<1>2. b \in BlockType /\ b.pc = to /\ b.buf = blk[k].buf /\ b.filter = blk[k].filter /\ b.ctype = blk[k].ctype
  BY <1>7, BlockFacts DEF BlockType, BlockPC
<1>3. Untouched(blk[k]) /\ mode.by # "none"
  BY <1>1, BlockFacts DEF BlockInv
<1>4. BlockInv(b) /\ b.buf.dict = 0
  BY <1>2, <1>3, <1>7 DEF BlockInv, Untouched, Stored, Plain
<1>5. /\ ctl' \in ControlType /\ ctl'.done = ctl.done /\ ctl'.props = ctl.props
      /\ ctl'.propset = ctl.propset /\ ctl.props \in Nat
  BY <1>1, BlockFacts DEF ControlType
<1>6. /\ UNCHANGED <<mode, chunk, turn, magic, ustate>> /\ magic \in Nat \cup {-1}
      /\ ~ctl.propset => ctl.props = 0
  BY DEF Lz4Compresses, IInv, Typed, DictInv
<1>8. To(k, b)
  BY <1>1 DEF to
<1> HIDE DEF b
<1>9. ctl.props <= ctl'.props /\ b.buf.dict <= ctl'.props
  BY <1>4, <1>5
<1> QED
  BY <1>1, <1>2, <1>4, <1>5, <1>6, <1>8, <1>9, ThreadStep

\* The filter that is applied is the one remembered.
LEMMA PickFilterIInv ==
  ASSUME IInv, NEW k \in Blocks, PickFilter(k) PROVE IInv'
<1>1. PICK f \in Filters :
        /\ Only(k, [blk[k] EXCEPT !.pc = "retry", !.filter = f, !.level = MaxLevel,
                                  !.buf = Convert(@, f, TRUE)])
        /\ blk[k].pc = "filter"
  BY DEF PickFilter
<1>2. Untouched(blk[k]) /\ mode.by = "lzma" /\ f \in 0..6 /\ blk[k] \in BlockType
  BY <1>1, BlockFacts, CodecFacts DEF BlockInv
<1> DEFINE buf == [filter |-> f, by |-> "none", dict |-> 0]
           b == [blk[k] EXCEPT !.pc = "retry", !.filter = f, !.level = MaxLevel, !.buf = buf]
<1>3. Convert(blk[k].buf, f, TRUE) = buf
  BY <1>2, ConvertFacts DEF Untouched
<1>4. Only(k, b)
  BY <1>1, <1>3
<1>5. buf \in BufType
  BY <1>2 DEF BufType, Coders
<1>8. MaxLevel \in 1..MaxLevel /\ f \in Filters \cup {0}
  BY CodecFacts
<1>9. buf.dict = 0
  OBVIOUS
<1> HIDE DEF buf
<1>6. /\ b \in BlockType /\ b.pc = "retry" /\ b.buf = buf /\ b.filter = f
      /\ b.ctype = blk[k].ctype
  BY <1>2, <1>5, <1>8 DEF BlockType, BlockPC
<1> HIDE DEF b
<1>7. BlockInv(b) /\ b.buf.dict = 0
  BY <1>2, <1>6, <1>9 DEF BlockInv, Untouched, buf
<1> QED
  BY <1>1, <1>4, <1>6, <1>7, OnlyStep

\* A thread that works on its block, and what undoing the filter gives.
LEMMA TryFacts ==
  ASSUME IInv, NEW k \in Blocks, blk[k].pc \in {"retry", "try"}
  PROVE  /\ blk[k].buf = [filter |-> blk[k].filter, by |-> "none", dict |-> 0]
         /\ blk[k].ctype = CTYPE_NONE /\ mode.by # "none"
         /\ (mode.by # "lzma" => blk[k].filter = 0)
         /\ Restored(blk[k]) = [blk[k] EXCEPT !.buf = Plain, !.filter = 0]
<1>1. /\ blk[k].buf = [filter |-> blk[k].filter, by |-> "none", dict |-> 0]
      /\ blk[k].ctype = CTYPE_NONE /\ mode.by # "none"
      /\ (mode.by # "lzma" => blk[k].filter = 0)
  BY BlockFacts DEF BlockInv
<1>2. Convert(blk[k].buf, blk[k].filter, FALSE) = Plain
  BY <1>1, BlockFacts, ConvertFacts
<1>3. Restored(blk[k]) = [blk[k] EXCEPT !.buf = Plain, !.filter = 0]
  BY <1>2 DEF Restored
<1> QED
  BY <1>1, <1>3

\* Giving up, for whatever reason, leaves the original bytes.
LEMMA RestoredStep ==
  ASSUME IInv, NEW k \in Blocks, blk[k].pc = "try",
         NEW to \in {"ready", "failed", "fatal", "bzip2"}, to = "bzip2" => mode.by = "lzma",
         Only(k, [Restored(blk[k]) EXCEPT !.pc = to])
  PROVE  IInv'
<1> DEFINE b == [[blk[k] EXCEPT !.buf = Plain, !.filter = 0] EXCEPT !.pc = to]
<1>1. Only(k, b)
  BY TryFacts
<1>2. Plain \in BufType /\ Plain.dict = 0
  BY DEF Plain, BufType, Coders
<1>3. blk[k] \in BlockType /\ blk[k].ctype = CTYPE_NONE /\ mode.by # "none"
  BY BlockFacts, TryFacts
<1>4. b \in BlockType /\ b.pc = to /\ b.buf = Plain /\ b.filter = 0 /\ b.ctype = CTYPE_NONE
  BY <1>2, <1>3 DEF BlockType, BlockPC
<1>5. BlockInv(b)
  BY <1>3, <1>4 DEF BlockInv, Untouched, Stored
<1> HIDE DEF b
<1> QED
  BY <1>1, <1>2, <1>4, <1>5, OnlyStep

\* Reading the dictionary size, retrying in turn and the steps that give up.
LEMMA RetryIInv ==
  ASSUME IInv, NEW k \in Blocks,
         ReadDict(k) \/ RetrySerial(k) \/ Incompressible(k) \/ Failing(k)
  PROVE  IInv'
<1>1. CASE Incompressible(k) \/ Failing(k)
  <2>1. PICK to \in {"ready", "failed", "fatal"} :
          blk[k].pc = "try" /\ Only(k, [Restored(blk[k]) EXCEPT !.pc = to])
    BY <1>1 DEF Incompressible, Failing
  <2> QED
    BY <2>1, RestoredStep
<1>2. CASE ReadDict(k)
  <2> DEFINE b == [blk[k] EXCEPT !.pc = "try", !.dict = ctl.dictsize]
  <2>1. Only(k, b) /\ blk[k].pc = "retry"
    BY <1>2 DEF ReadDict
  <2>2. /\ b \in BlockType /\ b.pc = "try" /\ b.buf = blk[k].buf /\ b.filter = blk[k].filter
        /\ b.ctype = blk[k].ctype
    BY BlockFacts DEF BlockType, BlockPC, ControlType
  <2> HIDE DEF b
  <2>4. /\ blk[k].buf = [filter |-> blk[k].filter, by |-> "none", dict |-> 0]
        /\ blk[k].ctype = CTYPE_NONE /\ mode.by # "none"
        /\ (mode.by # "lzma" => blk[k].filter = 0)
    BY <2>1, TryFacts
  <2>5. b.buf = [filter |-> b.filter, by |-> "none", dict |-> 0] /\ b.buf.dict = 0
    BY <2>2, <2>4
  <2>3. BlockInv(b) /\ b.buf.dict = 0
    BY <2>2, <2>4, <2>5 DEF BlockInv
  <2> QED
    BY <2>1, <2>2, <2>3, OnlyStep
<1>3. CASE RetrySerial(k)
  <2>1. PICK to \in {"try", "lz4"} :
          blk[k].pc = "failed" /\ Only(k, [blk[k] EXCEPT !.waited = TRUE, !.pc = to])
    BY <1>3 DEF RetrySerial
  <2> DEFINE b == [blk[k] EXCEPT !.waited = TRUE, !.pc = to]
  <2>2. /\ b \in BlockType /\ b.pc = to /\ b.buf = blk[k].buf /\ b.filter = blk[k].filter
        /\ b.ctype = blk[k].ctype
    BY BlockFacts DEF BlockType, BlockPC
  <2>3. Untouched(blk[k]) /\ mode.by # "none"
    BY <2>1, BlockFacts DEF BlockInv
  <2>4. BlockInv(b) /\ b.buf.dict = 0
    BY <2>2, <2>3 DEF BlockInv, Untouched, Plain
  <2> HIDE DEF b
  <2> QED
    BY <2>1, <2>2, <2>4, OnlyStep DEF b
<1> QED
  BY <1>1, <1>2, <1>3

\* Out of memory: the shared dictionary size stays a size, and what is left to
\* bzip2 is unfiltered.
LEMMA OutOfMemoryIInv ==
  ASSUME IInv, NEW k \in Blocks, OutOfMemory(k) PROVE IInv'
<1>0. /\ blk[k].pc = "try" /\ mode.by = "lzma"
      /\ UNCHANGED <<mode, chunk, turn, magic, sealed, ustate>>
  BY DEF OutOfMemory
<1>1. CASE /\ UNCHANGED ctl /\ To(k, [Restored(blk[k]) EXCEPT !.pc = "bzip2"])
  BY <1>0, <1>1, RestoredStep DEF Only
<1>2. ASSUME NEW v \in 1..MaxLevel, To(k, [blk[k] EXCEPT !.pc = "retry", !.level = v]),
             NEW d \in Nat, ctl' = [ctl EXCEPT !.dictsize = d]
      PROVE  IInv'
  <2> DEFINE b == [blk[k] EXCEPT !.pc = "retry", !.level = v]
  <2>1. /\ b \in BlockType /\ b.pc = "retry" /\ b.buf = blk[k].buf /\ b.filter = blk[k].filter
        /\ b.ctype = blk[k].ctype
    BY BlockFacts DEF BlockType, BlockPC
  <2>2. /\ blk[k].buf = [filter |-> blk[k].filter, by |-> "none", dict |-> 0]
        /\ blk[k].ctype = CTYPE_NONE
    BY <1>0, TryFacts
  <2>3. To(k, b)
    BY <1>2
  <2> HIDE DEF b
  <2>4. b.buf = [filter |-> b.filter, by |-> "none", dict |-> 0] /\ b.buf.dict = 0
    BY <2>1, <2>2
  <2>5. BlockInv(b)
    BY <1>0, <2>1, <2>2, <2>4 DEF BlockInv
  <2>6. /\ ctl' \in ControlType /\ ctl'.done = ctl.done /\ ctl'.props = ctl.props
        /\ ctl'.propset = ctl.propset /\ ctl.props \in Nat
    BY <1>2, BlockFacts DEF ControlType
  <2>7. magic \in Nat \cup {-1} /\ (~ctl.propset => ctl.props = 0)
    BY DEF IInv, Typed, DictInv
  <2>8. ctl.props <= ctl'.props /\ b.buf.dict <= ctl'.props
    BY <2>4, <2>6
  <2> QED
    BY <1>0, <2>1, <2>3, <2>5, <2>6, <2>7, <2>8, ThreadStep
<1>3. CASE ctl' = [ctl EXCEPT !.dictsize = Shrunk(k)] /\ To(k, [blk[k] EXCEPT !.pc = "retry"])
  <2>1. Shrunk(k) \in Nat
    BY BlockFacts DEF Shrunk, ControlType
  <2>2. [blk[k] EXCEPT !.pc = "retry"] = [blk[k] EXCEPT !.pc = "retry", !.level = blk[k].level]
    BY BlockFacts DEF BlockType
  <2> QED
    BY <1>2, <1>3, <2>1, <2>2, BlockFacts
<1>4. CASE /\ UNCHANGED ctl /\ blk[k].level > 1
           /\ To(k, [blk[k] EXCEPT !.pc = "retry", !.level = @ - 1])
  <2>1. blk[k].level - 1 \in 1..MaxLevel
    BY <1>4, BlockFacts, CodecFacts
  <2>2. ctl' = [ctl EXCEPT !.dictsize = ctl.dictsize] /\ ctl.dictsize \in Nat
    BY <1>4, BlockFacts DEF ControlType
  <2> QED
    BY <1>2, <1>4, <2>1, <2>2
<1> QED
  BY <1>1, <1>3, <1>4 DEF OutOfMemory

\* The last resort works on the original bytes.
LEMMA Bzip2IInv ==
  ASSUME IInv, NEW k \in Blocks, Bzip2Fallback(k) PROVE IInv'
<1>0. Untouched(blk[k]) /\ mode.by = "lzma" /\ blk[k].pc = "bzip2" /\ blk[k] \in BlockType
  BY BlockFacts DEF Bzip2Fallback, BlockInv
<1>1. ASSUME NEW to \in {"ready", "failed", "fatal"}, Only(k, [blk[k] EXCEPT !.pc = to])
      PROVE  IInv'
  <2> DEFINE b == [blk[k] EXCEPT !.pc = to]
  <2>1. /\ b \in BlockType /\ b.pc = to /\ b.buf = blk[k].buf /\ b.filter = blk[k].filter
        /\ b.ctype = blk[k].ctype
    BY <1>0 DEF BlockType, BlockPC
  <2> HIDE DEF b
  <2>2. BlockInv(b) /\ b.buf.dict = 0
    BY <1>0, <2>1 DEF BlockInv, Untouched, Stored, Plain
  <2> QED
    BY <1>0, <1>1, <2>1, <2>2, OnlyStep DEF b
<1>2. CASE Only(k, [blk[k] EXCEPT !.pc = "ready", !.ctype = CTYPE_BZIP2, !.buf.by = "bzip2"])
  <2> DEFINE buf == [filter |-> 0, by |-> "bzip2", dict |-> 0]
             b == [blk[k] EXCEPT !.pc = "ready", !.ctype = CTYPE_BZIP2, !.buf = buf]
  <2>1. [blk[k].buf EXCEPT !.by = "bzip2"] = buf
    BY <1>0 DEF Untouched, Plain
  <2>2. Only(k, b)
    BY <1>2, <2>1
  <2>3. buf \in BufType /\ buf.dict = 0 /\ buf.filter = 0 /\ buf.by = "bzip2"
    BY DEF BufType, Coders
  <2>6. CTYPE_BZIP2 \in 3..14
    BY DEF CTYPE_BZIP2
  <2> HIDE DEF buf
  <2>4. b \in BlockType /\ b.pc = "ready" /\ b.buf = buf /\ b.ctype = CTYPE_BZIP2
    BY <1>0, <2>3, <2>6 DEF BlockType, BlockPC
  <2> HIDE DEF b
  <2>5. BlockInv(b)
    BY <2>3, <2>4 DEF BlockInv, ByOther, Ctype
  <2> QED
    BY <1>0, <2>2, <2>3, <2>4, <2>5, OnlyStep
<1> QED
  BY <1>1, <1>2 DEF Bzip2Fallback

\* Publishing never takes back a larger dictionary.
LEMMA PublishFacts ==
  ASSUME IInv, NEW d \in Nat, Publish(d)
  PROVE  /\ ctl' \in ControlType /\ ctl'.done = ctl.done /\ ctl'.propset
         /\ ctl.props <= ctl'.props /\ d <= ctl'.props
<1>1. ctl \in ControlType /\ ctl.props \in Nat /\ (~ctl.propset => ctl.props = 0)
  BY DEF IInv, Typed, DictInv, ControlType
<1>2. CASE ctl.propset
  BY <1>1, <1>2 DEF Publish, ControlType
<1>3. CASE ~ctl.propset
  <2>1. PICK w \in BOOLEAN :
          ctl' = [ctl EXCEPT !.props = d, !.propset = TRUE, !.written = w]
    BY <1>1, <1>3 DEF Publish, ControlType
  <2>2. ctl' \in ControlType /\ ctl'.done = ctl.done /\ ctl'.propset /\ ctl'.props = d
    BY <1>1, <2>1 DEF ControlType
  <2>3. ctl.props <= d /\ d <= d
    BY <1>1, <1>3
  <2> QED
    BY <2>2, <2>3
<1> QED
  BY <1>2, <1>3

\* Filling in what lzma did to a buffer, field by field.
LEMMA PackedRecord ==
  ASSUME NEW r \in BlockType, NEW d, NEW c
  PROVE  [r EXCEPT !.pc = "ready", !.ctype = c, !.buf.by = "lzma", !.buf.dict = d]
           = [r EXCEPT !.pc = "ready", !.ctype = c, !.buf = [[r.buf EXCEPT !.by = "lzma"] EXCEPT !.dict = d]]
BY DEF BlockType

LEMMA PackedBuf ==
  ASSUME NEW f, NEW d
  PROVE  [[[filter |-> f, by |-> "none", dict |-> 0] EXCEPT !.by = "lzma"] EXCEPT !.dict = d]
           = [filter |-> f, by |-> "lzma", dict |-> d]
<1>1. [[filter |-> f, by |-> "none", dict |-> 0] EXCEPT !.by = "lzma"]
        = [filter |-> f, by |-> "lzma", dict |-> 0]
  OBVIOUS
<1>2. [[filter |-> f, by |-> "lzma", dict |-> 0] EXCEPT !.dict = d]
        = [filter |-> f, by |-> "lzma", dict |-> d]
  OBVIOUS
<1> QED
  BY <1>1, <1>2

\* A back end succeeds: the type of the block names what was done to it.
LEMMA CompressIInv ==
  ASSUME IInv, NEW k \in Blocks, Compress(k) PROVE IInv'
<1>0. /\ blk[k].pc = "try" /\ UNCHANGED <<mode, chunk, turn, magic, sealed, ustate>>
      /\ magic \in Nat \cup {-1} /\ blk[k] \in BlockType
      /\ blk[k].filter \in 0..6 /\ mode.by \in Coders
  BY BlockFacts DEF Compress, IInv, Typed
<1>1. /\ blk[k].buf = [filter |-> blk[k].filter, by |-> "none", dict |-> 0]
      /\ mode.by # "none" /\ (mode.by # "lzma" => blk[k].filter = 0)
  BY <1>0, TryFacts
<1>2. CASE mode.by = "lzma"
  <2> DEFINE d == UsedDict(blk[k])
             c == CtypeOf(blk[k].filter)
             buf == [filter |-> blk[k].filter, by |-> "lzma", dict |-> d]
             b == [blk[k] EXCEPT !.pc = "ready", !.ctype = c, !.buf = buf]
  <2>1. d \in Nat
    BY BlockFacts, CodecFacts DEF UsedDict, LevelDict
  <2>2. Publish(d) /\ To(k, [blk[k] EXCEPT !.pc = "ready", !.ctype = c, !.buf.by = "lzma", !.buf.dict = d])
    BY <1>2 DEF Compress
  <2>3. c \in 3..14
    <3>1. c \in {CTYPE_LZMA} \cup 9..14
      BY <1>0, ConvertFacts
    <3> HIDE DEF c
    <3> QED
      BY <3>1 DEF CTYPE_LZMA
  <2> HIDE DEF d, c
  <2>4. [blk[k] EXCEPT !.pc = "ready", !.ctype = c, !.buf.by = "lzma", !.buf.dict = d] = b
    <3>1. [[blk[k].buf EXCEPT !.by = "lzma"] EXCEPT !.dict = d] = buf
      BY <1>1, PackedBuf
    <3> QED
      BY <1>0, <3>1, PackedRecord
  <2>5. To(k, b)
    BY <2>2, <2>4
  <2>6. buf \in BufType /\ buf.dict = d /\ buf.filter = blk[k].filter /\ buf.by = "lzma"
    BY <1>0, <2>1 DEF BufType, Coders
  <2> HIDE DEF buf
  <2>7. b \in BlockType /\ b.pc = "ready" /\ b.buf = buf /\ b.ctype = c
    BY <1>0, <2>3, <2>6 DEF BlockType, BlockPC
  <2> HIDE DEF b
  <2>8. BlockInv(b)
    BY <2>6, <2>7 DEF BlockInv, ByLzma, c
  <2>9. /\ ctl' \in ControlType /\ ctl'.done = ctl.done /\ ctl'.propset
        /\ ctl.props <= ctl'.props /\ d <= ctl'.props
    BY <2>1, <2>2, PublishFacts
  <2> QED
    BY <1>0, <2>5, <2>6, <2>7, <2>8, <2>9, ThreadStep
<1>3. CASE mode.by # "lzma"
  <2> DEFINE c == Ctype[mode.by]
             buf == [filter |-> 0, by |-> mode.by, dict |-> 0]
             b == [blk[k] EXCEPT !.pc = "ready", !.ctype = c, !.buf = buf]
  <2>1. mode.by \in {"bzip2", "lzo", "gzip", "zpaq"} /\ DOMAIN Ctype = {"bzip2", "lzo", "gzip", "zpaq"}
    BY <1>0, <1>1, <1>3 DEF Coders, Ctype
  <2>2. c \in 3..14
    BY <2>1 DEF Ctype, CTYPE_BZIP2, CTYPE_LZO, CTYPE_GZIP, CTYPE_ZPAQ
  <2>3. Only(k, [blk[k] EXCEPT !.pc = "ready", !.ctype = c, !.buf.by = mode.by])
    BY <1>3 DEF Compress, Only
  <2> HIDE DEF c
  <2>4. [blk[k].buf EXCEPT !.by = mode.by] = buf
    BY <1>1, <1>3
  <2>5. Only(k, b)
    BY <2>3, <2>4
  <2>6. buf \in BufType /\ buf.dict = 0 /\ buf.filter = 0 /\ buf.by = mode.by
    BY <1>0 DEF BufType
  <2> HIDE DEF buf
  <2>7. b \in BlockType /\ b.pc = "ready" /\ b.buf = buf /\ b.ctype = c
    BY <1>0, <2>2, <2>6 DEF BlockType, BlockPC
  <2> HIDE DEF b
  <2>8. BlockInv(b)
    BY <2>1, <2>6, <2>7 DEF BlockInv, ByOther, c
  <2> QED
    BY <1>0, <2>5, <2>6, <2>7, <2>8, OnlyStep
<1> QED
  BY <1>2, <1>3

\* The block is written as the back end left it.
LEMMA WriteIInv ==
  ASSUME IInv, NEW k \in Blocks, Write(k) PROVE IInv'
<1> DEFINE b == [NewBlock EXCEPT !.pc = "written", !.buf = blk[k].buf, !.ctype = blk[k].ctype]
<1>0. /\ blk[k].pc = "ready" /\ turn = k /\ turn' = k + 1 /\ To(k, b)
      /\ UNCHANGED <<mode, chunk, ustate>>
  BY DEF Write
<1>1. NewBlock \in BlockType
  <2>1. Plain \in BufType
    BY DEF Plain, BufType, Coders
  <2> QED
    BY <2>1, CodecFacts DEF NewBlock, BlockType, BlockPC, CTYPE_NONE
<1>2. b \in BlockType /\ b.pc = "written" /\ b.buf = blk[k].buf /\ b.ctype = blk[k].ctype
  BY <1>1, BlockFacts DEF BlockType, BlockPC
<1> HIDE DEF b
<1>3. Stored(blk[k]) \/ ByLzma(blk[k]) \/ ByOther(blk[k])
  BY <1>0, BlockFacts DEF BlockInv
<1>4. BlockInv(b)
  BY <1>2, <1>3 DEF BlockInv, Stored, ByLzma, ByOther
<1>5. ctl \in ControlType /\ ctl.props \in Nat /\ magic \in Nat \cup {-1} /\ DictInv
  BY DEF IInv, Typed, ControlType
<1>6. /\ ctl' \in ControlType /\ ctl'.done = ctl.done /\ ctl'.props = ctl.props
      /\ ctl'.propset = ctl.propset /\ magic' \in Nat \cup {-1}
  <2>1. CASE UNCHANGED <<magic, ctl>>
    BY <1>5, <2>1
  <2>2. CASE magic' = ctl.props /\ ctl' = [ctl EXCEPT !.written = TRUE]
    BY <1>5, <2>2 DEF ControlType
  <2> QED
    BY <2>1, <2>2 DEF Write, WriteMagic
<1>7. ctl.props <= ctl'.props /\ b.buf.dict <= ctl'.props /\ (~ctl'.propset => ctl'.props = 0)
  <2>1. blk[k].buf.dict <= ctl.props /\ (~ctl.propset => ctl.props = 0)
    BY <1>5 DEF DictInv
  <2> QED
    BY <1>2, <1>5, <1>6, <2>1
<1> QED
  BY <1>0, <1>2, <1>4, <1>6, <1>7, ThreadStep

\* The end of a chunk.  A file's magic is made when no block is left to publish.
LEMMA EndChunkIInv ==
  ASSUME IInv, EndChunk PROVE IInv'
<1>0. Typed /\ TurnInv /\ DictInv /\ RefusedInv /\ (\A k \in Blocks : BlockInv(blk[k]))
  BY DEF IInv
<1>1. /\ chunk <= Chunks /\ turn = chunk * PerChunk + 1 /\ chunk' = chunk + 1
      /\ UNCHANGED <<mode, blk, turn, ustate>>
  BY DEF EndChunk
<1>2. chunk \in Nat /\ Chunks \in Nat /\ chunk \in 1..Chunks + 1 /\ ctl.done \in Nat /\ ctl.done < chunk
  BY <1>0, CodecFacts DEF Typed, ControlType
<1>3. /\ ctl' \in ControlType /\ ctl'.done < chunk' /\ ctl'.props = ctl.props
      /\ ctl'.propset = ctl.propset
  <2>1. CASE UNCHANGED ctl
    BY <1>0, <1>1, <1>2, <2>1 DEF Typed
  <2>2. CASE ctl' = [ctl EXCEPT !.done = @ + 1, !.written = TRUE]
    <3>1. ctl.done + 1 \in 0..Chunks /\ ctl.done + 1 < chunk'
      BY <1>1, <1>2
    <3>2. ctl \in ControlType
      BY <1>0 DEF Typed
    <3> QED
      BY <2>2, <3>1, <3>2 DEF ControlType
  <2> QED
    BY <2>1, <2>2 DEF EndChunk
<1>4. /\ magic' \in Nat \cup {-1}
      /\ ~mode.stdout /\ chunk' = Chunks + 1 => magic' = ctl.props
  <2>1. ctl.props \in Nat /\ magic \in Nat \cup {-1}
    BY <1>0 DEF Typed, ControlType
  <2>2. chunk' = Chunks + 1 => chunk = Chunks
    BY <1>1, <1>2
  <2> QED
    BY <2>1, <2>2 DEF EndChunk
<1>5. chunk' \in 1..Chunks + 1 /\ (chunk' = Chunks + 1 => turn = Chunks * PerChunk + 1) /\ chunk # Chunks + 1
  BY <1>1, <1>2
<1>6. Typed'
  BY <1>0, <1>1, <1>3, <1>4, <1>5 DEF Typed
<1>7. (\A k \in Blocks : BlockInv(blk[k]))'
  BY <1>0, <1>1 DEF BlockInv
<1>8. TurnInv'
  BY <1>0, <1>1, <1>5 DEF TurnInv
<1>9. DictInv'
  BY <1>0, <1>1, <1>3, <1>4 DEF DictInv
<1>10. RefusedInv'
  BY <1>0, <1>1, <1>5 DEF RefusedInv, TurnInv
<1> QED
  BY <1>6, <1>7, <1>8, <1>9, <1>10 DEF IInv

----------------------------------------------------------------------------
(* ucompthread. *)

\* What lzma's decoder gives, field by field.
LEMMA UnpackedBuf ==
  ASSUME NEW x, NEW f, NEW d, x = [filter |-> f, by |-> "lzma", dict |-> d]
  PROVE  [x EXCEPT !.by = "none", !.dict = 0] = [filter |-> f, by |-> "none", dict |-> 0]
<1>1. [[filter |-> f, by |-> "lzma", dict |-> d] EXCEPT !.by = "none"]
        = [filter |-> f, by |-> "none", dict |-> d]
  OBVIOUS
<1>2. [[filter |-> f, by |-> "none", dict |-> d] EXCEPT !.dict = 0]
        = [filter |-> f, by |-> "none", dict |-> 0]
  OBVIOUS
<1>3. [[x EXCEPT !.by = "none"] EXCEPT !.dict = 0] = [filter |-> f, by |-> "none", dict |-> 0]
  BY <1>1, <1>2
<1>4. [x EXCEPT !.by = "none", !.dict = 0] = [[x EXCEPT !.by = "none"] EXCEPT !.dict = 0]
  OBVIOUS
<1> QED
  BY <1>3, <1>4

\* What the back end named by the type of a finished block makes of it: the
\* original bytes, unless lzma finds the promised dictionary too small.
LEMMA UnpackedFacts ==
  ASSUME NEW b \in BlockType, Stored(b) \/ ByLzma(b) \/ ByOther(b)
  PROVE  \/ Unpacked(b.ctype, b.buf) = Plain
         \/ /\ Unpacked(b.ctype, b.buf).by = "error"
            /\ b.buf.by = "lzma" /\ ~(b.buf.dict <= LzmaDict)
<1>0. b.buf \in BufType /\ b.buf.filter \in 0..6
  BY DEF BlockType, BufType
<1>1. CASE Stored(b)
  <2>1. CTYPE_NONE \notin {CTYPE_LZMA} \cup 9..14
    BY DEF CTYPE_NONE, CTYPE_LZMA
  <2> QED
    BY <1>1, <2>1 DEF Stored, Unpacked
<1>2. CASE ByLzma(b)
  <2> DEFINE f == b.buf.filter
  <2>1. b.ctype = CtypeOf(f) /\ b.buf.by = "lzma"
    BY <1>2 DEF ByLzma
  <2>2. b.ctype \in {CTYPE_LZMA} \cup 9..14 /\ CtypeFilterKind(b.ctype) = f
    BY <1>0, <2>1, ConvertFacts
  <2>3. b.ctype # CTYPE_NONE
    BY <2>2 DEF CTYPE_NONE, CTYPE_LZMA
  <2>4. [b.buf EXCEPT !.by = "none", !.dict = 0] = [filter |-> f, by |-> "none", dict |-> 0]
    <3>1. b.buf = [filter |-> f, by |-> "lzma", dict |-> b.buf.dict]
      BY <1>0, <2>1 DEF BufType
    <3> QED
      BY <3>1, UnpackedBuf
  <2>5. Convert([b.buf EXCEPT !.by = "none", !.dict = 0], CtypeFilterKind(b.ctype), FALSE) = Plain
    BY <1>0, <2>2, <2>4, ConvertFacts
  <2>6. CASE b.buf.dict <= LzmaDict
    BY <2>1, <2>2, <2>3, <2>5, <2>6 DEF Unpacked
  <2>7. CASE ~(b.buf.dict <= LzmaDict)
    <3>1. Unpacked(b.ctype, b.buf) = [b.buf EXCEPT !.by = "error"]
      BY <2>2, <2>3, <2>7 DEF Unpacked
    <3>2. [b.buf EXCEPT !.by = "error"].by = "error"
      BY <1>0 DEF BufType
    <3> QED
      BY <2>1, <2>7, <3>1, <3>2
  <2> QED
    BY <2>6, <2>7
<1>3. CASE ByOther(b)
  <2>1. b.buf.by \in DOMAIN Ctype /\ Ctype[b.buf.by] = b.ctype
    BY <1>3 DEF ByOther
  <2>2. b.ctype \in {4, 5, 7, 8}
    BY <2>1 DEF Ctype, CTYPE_BZIP2, CTYPE_LZO, CTYPE_GZIP, CTYPE_ZPAQ
  <2>3. b.ctype # CTYPE_NONE /\ b.ctype \notin {CTYPE_LZMA} \cup 9..14
    BY <2>2 DEF CTYPE_NONE, CTYPE_LZMA
  <2>4. Unpacked(b.ctype, b.buf) = [b.buf EXCEPT !.by = "none"]
    BY <2>1, <2>3 DEF Unpacked
  <2>5. [b.buf EXCEPT !.by = "none"] = Plain
    BY <1>0, <1>3 DEF ByOther, BufType, Plain
  <2> QED
    BY <2>4, <2>5
<1> QED
  BY <1>1, <1>2, <1>3

\* A result of decompression, and waiting for memory, change nothing else.
LEMMA ResultStep ==
  ASSUME IInv, NEW k \in Blocks, NEW r \in Results, chunk = Chunks + 1,
         ustate' = [ustate EXCEPT ![k] = r],
         r # "wrong",
         r = "refused" => mode.stdout /\ blk[k].buf.by = "lzma" /\ blk[k].buf.dict > LzmaDict,
         UNCHANGED <<mode, ctl, chunk, blk, turn, magic, sealed>>
  PROVE  IInv'
<1>0. Typed /\ TurnInv /\ DictInv /\ RefusedInv /\ (\A j \in Blocks : BlockInv(blk[j]))
  BY DEF IInv
<1>1. Typed'
  BY <1>0 DEF Typed
<1>2. (\A j \in Blocks : BlockInv(blk[j]))'
  BY <1>0 DEF BlockInv
<1>3. TurnInv'
  BY <1>0 DEF TurnInv
<1>4. DictInv'
  BY <1>0 DEF DictInv
<1>5. RefusedInv'
  BY <1>0 DEF RefusedInv, Typed, LzmaDict
<1> QED
  BY <1>1, <1>2, <1>3, <1>4, <1>5 DEF IInv

\* Every block is written by then, and a file's magic covers it.
LEMMA DecompressIInv ==
  ASSUME IInv, NEW k \in Blocks, Decompress(k) \/ NoMemory(k) PROVE IInv'
<1>0. chunk = Chunks + 1 /\ UNCHANGED <<mode, ctl, chunk, blk, turn, magic, sealed>>
  BY DEF Decompress, NoMemory, Reached
<1>1. CASE NoMemory(k)
  <2>1. PICK r \in {"waiting", "fatal"} : ustate' = [ustate EXCEPT ![k] = r]
    BY <1>1 DEF NoMemory
  <2> QED
    BY <1>0, <2>1, ResultStep DEF Results
<1>2. CASE Decompress(k)
  <2> DEFINE u == Unpacked(blk[k].ctype, blk[k].buf)
  <2>1. ustate' = [ustate EXCEPT ![k] = IF u.by = "error" THEN "refused"
                                        ELSE IF u = Plain THEN "right" ELSE "wrong"]
    BY <1>2 DEF Decompress
  <2>2. blk[k].pc = "written"
    <3>1. turn = Chunks * PerChunk + 1 /\ k \in 1..Chunks * PerChunk /\ Chunks * PerChunk \in Nat
      BY <1>0, CodecFacts DEF IInv, TurnInv
    <3>2. k < turn
      BY <3>1
    <3> QED
      BY <3>2 DEF IInv, TurnInv
  <2>3. \/ u = Plain
        \/ u.by = "error" /\ blk[k].buf.by = "lzma" /\ ~(blk[k].buf.dict <= LzmaDict)
    <3>1. Stored(blk[k]) \/ ByLzma(blk[k]) \/ ByOther(blk[k])
      BY <2>2, BlockFacts DEF BlockInv
    <3> QED
      BY <3>1, BlockFacts, UnpackedFacts
  <2>4. blk[k].buf.dict \in Nat /\ LzmaDict \in Nat
    BY BlockFacts, CodecFacts DEF LzmaDict, IInv, Typed
  <2>5. ~mode.stdout => blk[k].buf.dict <= LzmaDict
    <3>1. ~mode.stdout => magic = ctl.props /\ blk[k].buf.dict <= ctl.props /\ ctl.props \in Nat
      BY <1>0, BlockFacts DEF IInv, DictInv, ControlType
    <3> QED
      BY <2>4, <3>1, CodecFacts DEF LzmaDict
  <2> HIDE DEF u
  <2>6. CASE u = Plain
    <3>1. ustate' = [ustate EXCEPT ![k] = "right"]
      BY <2>1, <2>6 DEF Plain
    <3> QED
      BY <1>0, <3>1, ResultStep DEF Results
  <2>7. CASE u.by = "error" /\ blk[k].buf.by = "lzma" /\ ~(blk[k].buf.dict <= LzmaDict)
    <3>1. ustate' = [ustate EXCEPT ![k] = "refused"]
      BY <2>1, <2>7
    <3>2. mode.stdout /\ blk[k].buf.by = "lzma" /\ blk[k].buf.dict > LzmaDict
      <4>1. mode.stdout \in BOOLEAN
        BY DEF IInv, Typed
      <4> QED
        BY <2>4, <2>5, <2>7, <4>1
    <3> QED
      BY <1>0, <3>1, <3>2, ResultStep DEF Results
  <2> QED
    BY <2>3, <2>6, <2>7
<1> QED
  BY <1>1, <1>2

----------------------------------------------------------------------------
\* Every step keeps the invariant.
LEMMA NextIInv == IInv /\ [Next]_vars => IInv'
<1> SUFFICES ASSUME IInv, [Next]_vars PROVE IInv'
  OBVIOUS
<1>1. CASE UNCHANGED vars
  BY <1>1 DEF vars, IInv, Typed, BlockInv, TurnInv, DictInv, RefusedInv, LzmaDict
<1>2. CASE EndChunk
  BY <1>2, EndChunkIInv
<1>3. ASSUME NEW k \in Blocks, Step(k) PROVE IInv'
  BY <1>3, StartIInv, Lz4IInv, PickFilterIInv, RetryIInv, OutOfMemoryIInv, Bzip2IInv,
     CompressIInv, WriteIInv, DecompressIInv DEF Step
<1> QED
  BY <1>1, <1>2, <1>3 DEF Next

LEMMA SpecIInv == Spec => []IInv
BY InitIInv, NextIInv, PTL DEF Spec

\* Whatever the back end did, and after every retry and fallback, a block that
\* is decompressed gives the bytes it had; lzma refuses one only when a pipe's
\* magic promised too small a dictionary.  For any number of blocks, any level,
\* dictionary sizes and filters, and any interleaving of the threads.
THEOREM CodecRestores == Spec => []BlockRestored
<1>1. IInv => TypeOK
  <2> SUFFICES ASSUME IInv PROVE TypeOK
    OBVIOUS
  <2>1. ctl.dictsize \in Nat /\ ctl.props \in Nat /\ ctl.done \in 0..Chunks
    BY DEF IInv, Typed, ControlType
  <2>2. ASSUME NEW k \in Blocks PROVE ustate[k] \in Results
    BY DEF IInv, Typed
  <2> QED
    BY <2>1, <2>2, BlockFacts DEF IInv, Typed, TypeOK, BlockPC, Results
<1>2. IInv => StoredIsOriginal
  <2> SUFFICES ASSUME IInv, NEW k \in Blocks,
                      blk[k].pc \in {"ready", "failed", "written", "fatal"},
                      blk[k].ctype < CTYPE_LZMA_BCJ
               PROVE  blk[k].buf.filter = 0
    BY DEF StoredIsOriginal
  <2>1. Untouched(blk[k]) \/ Stored(blk[k]) \/ ByLzma(blk[k]) \/ ByOther(blk[k])
    BY BlockFacts DEF BlockInv
  <2>2. CASE Untouched(blk[k]) \/ Stored(blk[k]) \/ ByOther(blk[k])
    BY <2>2 DEF Untouched, Stored, ByOther, Plain
  <2>3. CASE ByLzma(blk[k])
    <3>1. blk[k].buf.filter \in 0..6 /\ blk[k].ctype = CtypeOf(blk[k].buf.filter)
      BY <2>3, BlockFacts DEF BufType, ByLzma
    <3> QED
      BY <3>1 DEF CtypeOf, CTYPE_LZMA_BCJ, CTYPE_LZMA
  <2> QED
    BY <2>1, <2>2, <2>3
<1>3. IInv => BlockRestored
  BY <1>1, <1>2 DEF BlockRestored, IInv, RefusedInv
<1> QED
  BY <1>3, SpecIInv, PTL

\* The magic of an archive written to a file names a dictionary at least as
\* large as every block's, in whatever order the threads published theirs.
THEOREM CodecFileDict == Spec => []FileDictCovers
<1>1. IInv => FileDictCovers
  BY DEF IInv, DictInv, FileDictCovers
<1> QED
  BY <1>1, SpecIInv, PTL

==============================================================================
