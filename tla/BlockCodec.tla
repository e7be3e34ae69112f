----------------------------- MODULE BlockCodec -----------------------------
(***************************************************************************)
(* What a compression thread does to its block, and what a decompression   *)
(* thread makes of it: the one-shot lz4 test, the prefilter applied in     *)
(* place, the back end with its retries under memory pressure, and the     *)
(* lzma properties, which all blocks share and the magic records.          *)
(*                                                                         *)
(* The blocks of one chunk run at the same time; control_lock makes the    *)
(* steps below atomic.  The order of the writes is module CompThreads, the *)
(* place of the bytes module Archive.  The libraries are external: what    *)
(* they return is a choice.  A block that lzma compressed with dictionary  *)
(* d may hold matches as far away as d, which a decoder with a smaller one *)
(* refuses.                                                                *)
(***************************************************************************)
EXTENDS Integers, Sequences, FiniteSets

CONSTANTS
  Backends,    \* the compression modes of a run
  Chunks,      \* chunks of a run; stdout gets them one after the other
  PerChunk,    \* blocks of a chunk
  MaxLevel,    \* lzma_level at the start
  UltraDict,   \* lzma_dictsize with --ultra, 0 for none
  MinDict,     \* 1 << 20: lzma_dictsize is not halved below this
  DicMin,      \* LZMA_DIC_MIN, what LzmaProps_Decode takes a smaller size for
  Filters      \* the prefilters a block may get, 0 for none

ASSUME CodecAssumption ==
  /\ {Chunks, PerChunk, MaxLevel, MinDict, DicMin} \subseteq Nat \ {0}
  /\ UltraDict \in Nat /\ Filters \subseteq 0..6
  /\ Backends \subseteq {"lzma", "lzo", "bzip2", "gzip", "zpaq", "none"}

VARIABLES
  mode,     \* the run: back end, stdout, and whether sizes are those of --ultra
  ctl,      \* rzip_control, the fields under control_lock
  chunk,    \* the chunk whose blocks run
  blk,      \* cthreads[]: one record for each block
  turn,     \* the block whose turn it is to be written
  magic,    \* the dictionary size in the magic as written, -1 before
  sealed,   \* the magic went to the pipe and cannot be rewritten
  ustate    \* decompression: the result for each block

vars == <<mode, ctl, chunk, blk, turn, magic, sealed, ustate>>

Blocks == 1..Chunks * PerChunk
ChunkOf(k) == (k - 1) \div PerChunk + 1

CTYPE_NONE  == 3
CTYPE_BZIP2 == 4
CTYPE_LZO   == 5
CTYPE_LZMA  == 6
CTYPE_GZIP  == 7
CTYPE_ZPAQ  == 8
CTYPE_LZMA_BCJ == 9

Ctype == [bzip2 |-> CTYPE_BZIP2, lzo |-> CTYPE_LZO, gzip |-> CTYPE_GZIP, zpaq |-> CTYPE_ZPAQ]

(* The dictionary LzmaEncProps_Normalize gives a level when none is asked for. *)
LevelDict(level) == 4 * level

(* s_buf: the filter applied to the original bytes, the back end that then *)
(* compressed them, and its dictionary.                                    *)
Plain == [filter |-> 0, by |-> "none", dict |-> 0]

NewBlock == [pc |-> "idle", buf |-> Plain, filter |-> 0, level |-> MaxLevel, dict |-> 0,
             ctype |-> CTYPE_NONE, waited |-> FALSE]

Init ==
  /\ mode \in [by : Backends, stdout : BOOLEAN, ultra : BOOLEAN]
  /\ mode.ultra => mode.by = "lzma"
  /\ ctl = [lz4done |-> FALSE, lz4ok |-> FALSE, dictsize |-> IF mode.ultra THEN UltraDict ELSE 0,
            props |-> 0, propset |-> FALSE, written |-> FALSE, done |-> 0]
  /\ chunk = 1 /\ turn = 1 /\ magic = -1 /\ sealed = FALSE
  /\ blk = [k \in Blocks |-> NewBlock]
  /\ ustate = [k \in Blocks |-> "none"]

-----------------------------------------------------------------------------
(* compthread and the back ends *)

To(k, b) == blk' = [blk EXCEPT ![k] = b]
Only(k, b) == To(k, b) /\ UNCHANGED <<mode, ctl, chunk, turn, magic, sealed, ustate>>

(* A block of less than 64 bytes is not compressed, nor is any with -n. *)
Start(k) ==
  /\ blk[k].pc = "idle" /\ ChunkOf(k) = chunk
  /\ \E small \in BOOLEAN :
       Only(k, [blk[k] EXCEPT !.pc = IF small \/ mode.by = "none" THEN "ready"
                                     ELSE IF mode.by \in {"lzo", "gzip"} THEN "try" ELSE "lz4"])

(* lz4_compresses: the first block to get here decides for all. *)
AfterLz4 == IF mode.by = "lzma" THEN "filter" ELSE "try"

Lz4Compresses(k) ==
  /\ blk[k].pc = "lz4"
  /\ \E ok \in IF ctl.lz4done THEN {ctl.lz4ok} ELSE BOOLEAN :
       /\ ctl' = [ctl EXCEPT !.lz4done = TRUE, !.lz4ok = ok]
       /\ To(k, [blk[k] EXCEPT !.pc = IF ok THEN AfterLz4 ELSE "ready"])
  /\ UNCHANGED <<mode, chunk, turn, magic, sealed, ustate>>

(* lrz_filter_convert_mem: filters are exact inverses (module Filters). *)
Convert(buf, f, encode) ==
  IF f = 0 THEN buf
  ELSE IF encode /\ buf.filter = 0 THEN [buf EXCEPT !.filter = f]
  ELSE IF ~encode /\ buf.filter = f THEN [buf EXCEPT !.filter = 0]
  ELSE [buf EXCEPT !.by = "garbage"]

(* lrz_stream_filter_pick, and the conversion in place. *)
PickFilter(k) ==
  /\ blk[k].pc = "filter"
  /\ \E f \in Filters :
       Only(k, [blk[k] EXCEPT !.pc = "retry", !.filter = f, !.level = MaxLevel,
                              !.buf = Convert(@, f, TRUE)])

(* retry: the dictionary size now in force. *)
ReadDict(k) ==
  /\ blk[k].pc = "retry"
  /\ Only(k, [blk[k] EXCEPT !.pc = "try", !.dict = ctl.dictsize])

UsedDict(b) == IF b.dict = 0 THEN LevelDict(b.level) ELSE b.dict

Restored(b) == [b EXCEPT !.buf = Convert(@, b.filter, FALSE), !.filter = 0]

(* The back end did not make the block smaller: it stays as it was. *)
Incompressible(k) ==
  /\ blk[k].pc = "try"
  /\ Only(k, [Restored(blk[k]) EXCEPT !.pc = "ready"])

(* It failed: once the threads before are done the block is tried again,   *)
(* and a second failure ends the program.                                  *)
Failing(k) ==
  /\ blk[k].pc = "try"
  /\ Only(k, [Restored(blk[k]) EXCEPT !.pc = IF blk[k].waited THEN "fatal" ELSE "failed"])

RetrySerial(k) ==
  /\ blk[k].pc = "failed" /\ turn = k
  /\ Only(k, [blk[k] EXCEPT !.waited = TRUE, !.pc = IF mode.by \in {"lzo", "gzip"} THEN "try" ELSE "lz4"])

(* A variant that never halves the size the thread itself used. *)
ShrunkIfLarger(k) == IF ctl.dictsize > blk[k].dict THEN blk[k].dict \div 2 ELSE ctl.dictsize

Shrunk(k) == IF ctl.dictsize >= blk[k].dict THEN blk[k].dict \div 2 ELSE ctl.dictsize

(* SZ_ERROR_MEM: a smaller shared dictionary, then a lower level, then      *)
(* bzip2, which starts from the unfiltered bytes.                           *)
OutOfMemory(k) ==
  /\ blk[k].pc = "try" /\ mode.by = "lzma" /\ blk[k].buf.by = "none"
  /\ \/ /\ blk[k].dict > MinDict
        /\ ctl' = [ctl EXCEPT !.dictsize = Shrunk(k)]
        /\ To(k, [blk[k] EXCEPT !.pc = "retry"])
     \/ /\ blk[k].dict <= MinDict /\ blk[k].level > 1
        /\ To(k, [blk[k] EXCEPT !.pc = "retry", !.level = @ - 1])
        /\ UNCHANGED ctl
     \/ /\ blk[k].dict <= MinDict /\ blk[k].level = 1
        /\ To(k, [Restored(blk[k]) EXCEPT !.pc = "bzip2"])
        /\ UNCHANGED ctl
  /\ UNCHANGED <<mode, chunk, turn, magic, sealed, ustate>>

(* bzip2_compress_buf as the last resort: its own lz4 test has been made,   *)
(* so the block was compressible.                                          *)
Bzip2Fallback(k) ==
  /\ blk[k].pc = "bzip2"
  /\ \/ Only(k, [blk[k] EXCEPT !.pc = "ready", !.ctype = CTYPE_BZIP2, !.buf.by = "bzip2"])
     \/ Only(k, [blk[k] EXCEPT !.pc = "ready"])
     \/ Only(k, [blk[k] EXCEPT !.pc = IF blk[k].waited THEN "fatal" ELSE "failed"])

(* A variant that is off by one. *)
CtypeFromOne(f) == IF f = 0 THEN CTYPE_LZMA ELSE CTYPE_LZMA_BCJ + f

(* The block type names the prefilter. *)
CtypeOf(f) == IF f = 0 THEN CTYPE_LZMA ELSE CTYPE_LZMA_BCJ + f - 1

(* A variant that lets the last block win. *)
PublishLast(d) == ctl' = [ctl EXCEPT !.props = d, !.propset = TRUE]

(* Success.  lzma publishes its properties: the first block sets them and   *)
(* asks for the magic to be written again unless it is already out; later   *)
(* ones only replace a smaller dictionary.                                  *)
Publish(d) ==
  ctl' = IF ctl.propset
           THEN [ctl EXCEPT !.props = IF d > @ THEN d ELSE @]
           ELSE [ctl EXCEPT !.props = d, !.propset = TRUE,
                            !.written = @ /\ ~(mode.stdout /\ ctl.done = 0)]

Compress(k) ==
  /\ blk[k].pc = "try"
  /\ IF mode.by = "lzma"
       THEN /\ Publish(UsedDict(blk[k]))
            /\ To(k, [blk[k] EXCEPT !.pc = "ready", !.ctype = CtypeOf(blk[k].filter),
                                    !.buf.by = "lzma", !.buf.dict = UsedDict(blk[k])])
       ELSE /\ To(k, [blk[k] EXCEPT !.pc = "ready", !.ctype = Ctype[mode.by], !.buf.by = mode.by])
            /\ UNCHANGED ctl
  /\ UNCHANGED <<mode, chunk, turn, magic, sealed, ustate>>

(* The block's turn.  The first block of a chunk that goes to stdout        *)
(* writes the magic, unless it is there or a block is flushed already.      *)
FirstOfChunk(k) == (k - 1) % PerChunk = 0

WriteMagic == IF ctl.done = 0 THEN magic' = ctl.props /\ ctl' = [ctl EXCEPT !.written = TRUE]
              ELSE UNCHANGED <<magic, ctl>>

Write(k) ==
  /\ blk[k].pc = "ready" /\ turn = k
  /\ To(k, [NewBlock EXCEPT !.pc = "written", !.buf = blk[k].buf, !.ctype = blk[k].ctype])
  /\ turn' = k + 1
  /\ IF FirstOfChunk(k) /\ mode.stdout /\ ~ctl.written THEN WriteMagic ELSE UNCHANGED <<magic, ctl>>
  /\ UNCHANGED <<mode, chunk, sealed, ustate>>

(* rzip_fd after a chunk, which waits for its threads: to stdout the magic  *)
(* is finished and the chunk flushed.  To a file the magic is written last. *)
EndChunk ==
  /\ chunk <= Chunks /\ turn = chunk * PerChunk + 1
  /\ chunk' = chunk + 1
  /\ IF mode.stdout
       THEN /\ magic' = IF ctl.done = 0 /\ ~ctl.written THEN ctl.props ELSE magic
            /\ ctl' = [ctl EXCEPT !.done = @ + 1, !.written = TRUE]
            /\ sealed' = TRUE
       ELSE /\ magic' = IF chunk = Chunks THEN ctl.props ELSE magic
            /\ UNCHANGED <<ctl, sealed>>
  /\ UNCHANGED <<mode, blk, turn, ustate>>

-----------------------------------------------------------------------------
(* ucompthread *)

CtypeFilterKind(c) == IF c \in 9..14 THEN 1 + c - CTYPE_LZMA_BCJ ELSE 0

LzmaDict == IF magic < DicMin THEN DicMin ELSE magic

(* What the back end that the type names makes of a buffer; what it did not *)
(* write it cannot read.                                                    *)
Unpacked(c, buf) ==
  CASE c = CTYPE_NONE -> buf
    [] c \in {CTYPE_LZMA} \cup 9..14 ->
         IF buf.by = "lzma" /\ buf.dict <= LzmaDict
           THEN Convert([buf EXCEPT !.by = "none", !.dict = 0], CtypeFilterKind(c), FALSE)
           ELSE [buf EXCEPT !.by = "error"]
    [] OTHER -> IF \E n \in DOMAIN Ctype : Ctype[n] = c /\ n = buf.by
                  THEN [buf EXCEPT !.by = "none"] ELSE [buf EXCEPT !.by = "error"]

Reached(k) == chunk = Chunks + 1 /\ \A j \in 1..k - 1 : ustate[j] \in {"right", "wrong", "refused"}

(* A failure for want of memory is retried once, alone; a second ends the   *)
(* program, as do bytes the back end refuses.                               *)
Decompress(k) ==
  /\ Reached(k) /\ ustate[k] \in {"none", "waiting"}
  /\ \E u \in {Unpacked(blk[k].ctype, blk[k].buf)} :
       ustate' = [ustate EXCEPT ![k] = IF u.by = "error" THEN "refused"
                                       ELSE IF u = Plain THEN "right" ELSE "wrong"]
  /\ UNCHANGED <<mode, ctl, chunk, blk, turn, magic, sealed>>

NoMemory(k) ==
  /\ Reached(k) /\ blk[k].ctype # CTYPE_NONE
  /\ ustate[k] \in {"none", "waiting"}
  /\ ustate' = [ustate EXCEPT ![k] = IF @ = "none" THEN "waiting" ELSE "fatal"]
  /\ UNCHANGED <<mode, ctl, chunk, blk, turn, magic, sealed>>

Fatal == \E k \in Blocks : blk[k].pc = "fatal" \/ ustate[k] = "fatal"
Done  == \A k \in Blocks : ustate[k] \in {"right", "wrong", "refused"}

Step(k) ==
  \/ Start(k) \/ Lz4Compresses(k) \/ PickFilter(k) \/ ReadDict(k)
  \/ Incompressible(k) \/ Failing(k) \/ RetrySerial(k) \/ OutOfMemory(k) \/ Bzip2Fallback(k)
  \/ Compress(k) \/ Write(k) \/ Decompress(k) \/ NoMemory(k)

Next ==
  \/ ~Fatal /\ (EndChunk \/ \E k \in Blocks : Step(k))
  \/ (Fatal \/ Done) /\ UNCHANGED vars

(* The scheduler runs every thread that can run. *)
Spec == Init /\ [][Next]_vars /\ WF_vars(Next)

-----------------------------------------------------------------------------
(* The blocks, what the threads publish and the magic keep their types. *)
TypeOK ==
  /\ \A k \in Blocks :
       /\ blk[k].pc \in {"idle", "lz4", "filter", "retry", "try", "failed", "bzip2", "ready",
                         "written", "fatal"}
       /\ blk[k].filter \in Filters \cup {0} /\ blk[k].level \in 1..MaxLevel
       /\ blk[k].dict \in Nat /\ blk[k].ctype \in 3..14
       /\ ustate[k] \in {"none", "waiting", "right", "wrong", "refused", "fatal"}
  /\ ctl.dictsize \in Nat /\ ctl.props \in Nat /\ ctl.done \in 0..Chunks
  /\ chunk \in 1..Chunks + 1 /\ turn \in 1..Chunks * PerChunk + 1 /\ magic \in Nat \cup {-1}

(* A block that goes out as it is holds the original bytes: no conversion   *)
(* is left in it by a back end that gave up.                                *)
StoredIsOriginal ==
  \A k \in Blocks : blk[k].pc \in {"ready", "failed", "written", "fatal"} /\ blk[k].ctype < CTYPE_LZMA_BCJ
                      => blk[k].buf.filter = 0

(* Whatever the back end did, and after every retry and fallback, a block   *)
(* decompresses to the bytes it had, or lzma refuses it because the magic   *)
(* promised too small a dictionary; it is never decompressed to others.     *)
BlockRestored ==
  /\ TypeOK /\ StoredIsOriginal
  /\ \A k \in Blocks :
       /\ ustate[k] # "wrong"
       /\ ustate[k] = "refused" => mode.stdout /\ blk[k].buf.by = "lzma" /\ blk[k].buf.dict > LzmaDict

(* In an archive written to a file the magic names a dictionary at least as *)
(* large as that of every block, in whatever order the threads published.   *)
FileDictCovers ==
  ~mode.stdout /\ chunk = Chunks + 1 =>
    \A k \in Blocks : blk[k].buf.dict <= magic

(* The same of every archive. *)
DictCovers == chunk = Chunks + 1 => \A k \in Blocks : blk[k].buf.dict <= LzmaDict

(* The retries end: every block is decompressed or the program gives up. *)
Terminates == <>(Fatal \/ Done)

=============================================================================
