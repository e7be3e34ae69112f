------------------------------ MODULE LzFindMt ------------------------------
(***************************************************************************)
(* The match finder as the LZMA encoder runs it for one block of lrzip:    *)
(* either one of the single-threaded finders of LzFind, or the pipeline of *)
(* lzma/C/LzFindMt.c, where a hash thread turns the text into blocks of    *)
(* head distances, a binary tree (BT) thread turns those into blocks of    *)
(* matches, and the encoder's own thread (LZ) takes matches from them.     *)
(* The threads meet only in two CMtSync objects (an event to start, one to *)
(* say it stopped, a semaphore of free and one of filled blocks, and plain *)
(* flags) and in the two rings of blocks.                                  *)
(*                                                                         *)
(* The encoder may stop at any position (its output buffer is full), and   *)
(* thread creation may fail.  A slot of a ring is read when the code reads *)
(* it, so a block overwritten too early would be seen.                     *)
(***************************************************************************)
EXTENDS LzFind

CONSTANTS Inputs,        \* the blocks to encode: records [mode, text]
          HashBlock,     \* kMtHashBlockSize - 2: heads in a hash block
          HashBlocks,    \* kMtHashNumBlocks
          BtLimit,       \* items after which a BT block is full
          BtBlocks,      \* kMtBtNumBlocks
          NormMt,        \* kMtMaxValForNormalize
          NormLz         \* kMtMaxValForNormalize - kMtBtBlockSize

ASSUME LzFindMtAssumption ==
  /\ HashBlock >= 1 /\ HashBlocks >= 1 /\ BtBlocks >= 1 /\ BtLimit > 2
  /\ NormMt > HistorySize + 1 + HashBlock /\ NormLz > HistorySize + 1
  /\ KeepSizeAfter >= MatchMaxLen + HashBlock  \* MatchFinderMt_Create adds the block

VARIABLES
  inp,    \* the mode of the finder and the text
  lpc,    \* where the LZ thread is
  lz,     \* the LZ thread's side: current BT block, low hash tables, position
  out,    \* what GetMatches returned last: the position and the matches
  f,      \* CMatchFinder: the whole finder, or the hash thread's part of it
  hpc, hblk,  \* the hash thread: where it is, blocks filled so far
  bpc, bblk,  \* the BT thread
  b,      \* the BT thread's side: current hash block, tree, block being built
  s,      \* the two CMtSync objects
  hashBuf, btBuf  \* the rings of blocks

vars == <<inp, lpc, lz, out, f, hpc, hblk, bpc, bblk, b, s, hashBuf, btBuf>>

text == inp.text
Mt == inp.mode = "mt"
NumHashBytes == IF inp.mode = "hc5" THEN 5 ELSE 4

\* MtSync_Construct and MtSync_Create before the thread exists.
NewSync == [created |-> FALSE, needStart |-> TRUE, canStart |-> FALSE, wasStopped |-> FALSE,
            free |-> 0, filled |-> 0, entered |-> FALSE, stop |-> FALSE, exit |-> TRUE,
            processed |-> 0, broken |-> FALSE]

NoHashBlock == [avail |-> 0, heads |-> <<>>]
NoBtBlock == [avail |-> 0, items |-> <<>>, ok |-> TRUE]

\* What the encoder learned last: matches at a position, or that no byte is left.
Nothing == [at |-> 0, ds |-> <<>>, lim |-> 0, end |-> FALSE]

Init ==
  /\ inp \in Inputs
  /\ lpc = "create"
  /\ lz = [slot |-> 0, idx |-> 0, left |-> 0, avail |-> 0, pos |-> 1, cur |-> 1,
           h2 |-> NoHash2, h3 |-> NoHash3]
  /\ out = Nothing
  /\ f = EmptyFinder(Len(text), TRUE, 4)
  /\ hpc = "none" /\ hblk = 0 /\ bpc = "none" /\ bblk = 0
  /\ b = [slot |-> 0, idx |-> 0, left |-> 0, avail |-> 0, pos |-> 1, cyc |-> 1, buf |-> 1,
          son |-> [i \in 0 .. 2 * CyclicBufferSize - 1 |-> 0], done |-> 0, total |-> 0,
          items |-> <<>>, used |-> 2, fail |-> FALSE]
  /\ s = [hash |-> NewSync, bt |-> NewSync]
  /\ hashBuf = [i \in 0 .. HashBlocks - 1 |-> NoHashBlock]
  /\ btBuf = [i \in 0 .. BtBlocks - 1 |-> NoBtBlock]

-----------------------------------------------------------------------------
(* Threads.c and the CMtSync operations.                                    *)

\* Semaphore_ReleaseN refuses to go over the maximum, and nobody looks at
\* the refusal: broken records that it happened.
FreeReleased(y, max) ==
  IF y.free < max THEN [y EXCEPT !.free = @ + 1] ELSE [y EXCEPT !.broken = TRUE]
FilledReleased(y, max) ==
  IF y.filled < max THEN [y EXCEPT !.filled = @ + 1] ELSE [y EXCEPT !.broken = TRUE]

\* LOCK_BUFFER and UNLOCK_BUFFER with the checks of DEBUG_BUFFER_LOCK.
Locked(y) == [y EXCEPT !.entered = TRUE, !.broken = @ \/ y.entered]
Unlocked(y) == [y EXCEPT !.entered = FALSE, !.broken = @ \/ ~y.entered]

\* A variant that keeps the lock over the wait for the next block.
NextUnderLock(y, max) ==
  IF y.needStart
  THEN [y EXCEPT !.processed = 1, !.needStart = FALSE, !.stop = FALSE, !.exit = FALSE,
                 !.wasStopped = FALSE, !.canStart = TRUE]
  ELSE FreeReleased([y EXCEPT !.processed = @ + 1], max)

\* MtSync_GetNextBlock up to its wait: start the thread, or give a block back.
NextAsked(y, max) ==
  IF y.needStart
  THEN [y EXCEPT !.processed = 1, !.needStart = FALSE, !.stop = FALSE, !.exit = FALSE,
                 !.wasStopped = FALSE, !.canStart = TRUE, !.broken = @ \/ y.entered]
  ELSE FreeReleased([Unlocked(y) EXCEPT !.processed = @ + 1], max)

\* ... its wait for a filled block, and the block it then holds.
NextTaken(y) == Locked([y EXCEPT !.filled = @ - 1])
BlockHeld(y) == y.processed - 1

\* MtSync_StopWriting: nothing to do for a thread that is not running.
Idle(y) == ~y.created \/ y.needStart
\* A variant that frees a block without saying stop.
StopUnsaid(y) == IF y.entered THEN Unlocked(y) ELSE y
StopFlagged(y) == [(IF y.entered THEN Unlocked(y) ELSE y) EXCEPT !.stop = TRUE]
StopSeen(y) == [y EXCEPT !.wasStopped = FALSE, !.needStart = TRUE]

\* MtSync_Init: fresh counts for a finder that has not been started.
SyncInit(y, n) == [y EXCEPT !.free = n, !.filled = 0]

-----------------------------------------------------------------------------
(* HashThreadFunc                                                           *)

HashStart ==
  /\ hpc = "wait" /\ s.hash.canStart
  /\ s' = [s EXCEPT !.hash.canStart = FALSE]
  /\ hblk' = 0
  /\ IF s.hash.exit THEN hpc' = "dead" /\ f' = f
     ELSE hpc' = "free" /\ f' = [f EXCEPT !.hv = NoHashV]
  /\ UNCHANGED <<inp, lpc, lz, out, bpc, bblk, b, hashBuf, btBuf>>

HashWaitFree ==
  /\ hpc = "free" /\ s.hash.free > 0
  /\ s' = [s EXCEPT !.hash.free = @ - 1]
  /\ hpc' = "fill"
  /\ UNCHANGED <<inp, lpc, lz, out, f, hblk, bpc, bblk, b, hashBuf, btBuf>>

\* GetHeads: distances to the last position with the same hash.
RECURSIVE GetHeads(_)
HeadStep(g) ==
  LET h == HashV(text, g.buf, 4)
  IN IF g.num = 0 THEN g
     ELSE GetHeads([g EXCEPT !.hv[h] = g.pos, !.heads = Append(@, g.pos - g.hv[h]),
                             !.pos = @ + 1, !.buf = @ + 1, !.num = @ - 1])
GetHeads(v) == Applied(HeadStep, v)

\* One hash block.  At the end of the text the blocks carry no heads, and
\* the hash thread still moves over the bytes that are left.
HashNormalized(g, num) ==
  LET sub == g.pos - HistorySize - 1 IN
  IF g.pos > NormMt - num
  THEN [g EXCEPT !.pos = @ - sub, !.streamPos = @ - sub, !.hv = Normalize3(sub, @)]
  ELSE g

ReadIfRequired(g) == IF KeepSizeAfter >= Avail(g) THEN ReadBlock(g) ELSE g

HashFill ==
  /\ hpc = "fill"
  /\ IF s.hash.exit \/ s.hash.stop
     THEN /\ hpc' = IF s.hash.exit THEN "dead" ELSE "stopped"
          /\ UNCHANGED <<f, hblk, hashBuf>>
     ELSE \E r \in {ReadIfRequired(f)} :
          \E num \in {IF Avail(r) >= 4 THEN Least(Avail(r) - 3, HashBlock) ELSE Avail(r)} :
          \E g \in {IF Avail(r) >= 4 THEN HashNormalized(r, num) ELSE r} :
          \E got \in {GetHeads([pos |-> g.pos, buf |-> g.buf, hv |-> g.hv, heads |-> <<>>,
                              num |-> IF Avail(r) >= 4 THEN num ELSE 0])} :
            /\ hashBuf' = [hashBuf EXCEPT ![hblk % HashBlocks] =
                             [avail |-> Avail(r), heads |-> got.heads]]
            /\ f' = [g EXCEPT !.hv = got.hv, !.pos = @ + num, !.buf = @ + num]
            /\ hblk' = hblk + 1 /\ hpc' = "post"
  /\ UNCHANGED <<inp, lpc, lz, out, bpc, bblk, b, s, btBuf>>

HashPost ==
  /\ hpc = "post"
  /\ s' = [s EXCEPT !.hash = FilledReleased(@, HashBlocks)]
  /\ hpc' = "free"
  /\ UNCHANGED <<inp, lpc, lz, out, f, hblk, bpc, bblk, b, hashBuf, btBuf>>

HashStopped ==
  /\ hpc = "stopped"
  /\ s' = [s EXCEPT !.hash.wasStopped = TRUE]
  /\ hpc' = "wait"
  /\ UNCHANGED <<inp, lpc, lz, out, f, hblk, bpc, bblk, b, hashBuf, btBuf>>

-----------------------------------------------------------------------------
(* BtThreadFunc, BtFillBlock and BtGetMatches                               *)

BtStart ==
  /\ bpc = "wait" /\ s.bt.canStart
  /\ s' = [s EXCEPT !.bt.canStart = FALSE]
  /\ bblk' = 0 /\ bpc' = "top"
  /\ UNCHANGED <<inp, lpc, lz, out, f, hpc, hblk, b, hashBuf, btBuf>>

BtTop ==
  /\ bpc = "top"
  /\ bpc' = IF s.bt.exit THEN "dead" ELSE "free"
  /\ UNCHANGED <<inp, lpc, lz, out, f, hpc, hblk, bblk, b, s, hashBuf, btBuf>>

BtWaitFree ==
  /\ bpc = "free" /\ s.bt.free > 0
  /\ s' = [s EXCEPT !.bt.free = @ - 1]
  /\ bpc' = "check"
  /\ UNCHANGED <<inp, lpc, lz, out, f, hpc, hblk, bblk, b, hashBuf, btBuf>>

BtCheck ==
  /\ bpc = "check"
  /\ IF s.bt.stop THEN bpc' = "halt" /\ UNCHANGED <<s, b>>
     ELSE /\ bpc' = IF b.fail THEN "post" ELSE "work"
          /\ s' = IF s.hash.needStart THEN s ELSE [s EXCEPT !.hash = Locked(@)]
          /\ b' = [b EXCEPT !.items = <<>>, !.used = 2, !.done = 0, !.total = b.avail]
  /\ UNCHANGED <<inp, lpc, lz, out, f, hpc, hblk, bblk, hashBuf, btBuf>>

\* The current hash block is used up: ask for the next one ...
BtAskHash ==
  /\ bpc = "work" /\ b.used < BtLimit /\ b.left = 0
  /\ s' = [s EXCEPT !.hash = NextAsked(@, HashBlocks)]
  /\ bpc' = "next"
  /\ UNCHANGED <<inp, lpc, lz, out, f, hpc, hblk, bblk, b, hashBuf, btBuf>>

\* The bytes on offer from the start of this BT block, saturated as a UInt32.
AvailSum(done, avail) == Least(done + avail, MaxAvail)

\* ... and take it.  Fewer bytes than a hash needs: the text is at its end,
\* each byte left has no match, and the block is complete.
BtTakeHash ==
  /\ bpc = "next" /\ s.hash.filled > 0
  /\ s' = [s EXCEPT !.hash = NextTaken(@)]
  /\ \E slot \in {BlockHeld(s.hash) % HashBlocks} :
     \E avail \in {hashBuf[slot].avail} :
       IF avail >= 4
       THEN /\ b' = [b EXCEPT !.slot = slot, !.idx = 0, !.left = Len(hashBuf[slot].heads),
                              !.avail = avail, !.total = AvailSum(b.done, avail)]
            /\ bpc' = "work"
       ELSE /\ b' = [b EXCEPT !.slot = slot, !.idx = 0, !.left = 0, !.avail = 0,
                              !.total = AvailSum(b.done, avail), !.used = @ + avail,
                              !.items = @ \o [i \in 1 .. avail |-> <<>>]]
            /\ bpc' = "post"
  /\ UNCHANGED <<inp, lpc, lz, out, f, hpc, hblk, bblk, hashBuf, btBuf>>

\* A run of positions of the current hash block, cut at the end of the
\* cyclic buffer and where the length limit would have to change.
BtLenLimit == Least(MatchMaxLen, b.avail)
BtSize == Least(Least(b.left, b.avail - BtLenLimit + 1), CyclicBufferSize - b.cyc)
BtSub == IF b.pos > NormMt - BtSize THEN b.pos - CyclicBufferSize ELSE 0

BtRun ==
  /\ bpc = "work" /\ b.used < BtLimit /\ b.left > 0
  /\ \E n \in {GetMatchesSpecN(
                 [t |-> text, lim |-> BtLenLimit, limit |-> BtLimit,
                  heads |-> SubSeq(hashBuf[b.slot].heads, b.idx + 1, b.idx + BtSize),
                  son |-> Normalize3(BtSub, b.son), pos |-> b.pos - BtSub, cyc |-> b.cyc,
                  buf |-> b.buf, items |-> b.items, used |-> b.used, nhb |-> 4,
                  long |-> 0, fail |-> b.fail])} :
     \E k \in {n.buf - b.buf} :
       /\ b' = [b EXCEPT !.son = n.son, !.pos = n.pos, !.buf = n.buf, !.items = n.items,
                         !.cyc = IF n.cyc = CyclicBufferSize THEN 0 ELSE n.cyc,
                         !.used = n.used, !.fail = n.fail, !.done = @ + k,
                         !.idx = @ + k, !.left = @ - k, !.avail = @ - k]
       /\ bpc' = IF n.fail THEN "post" ELSE "work"
  /\ UNCHANGED <<inp, lpc, lz, out, f, hpc, hblk, bblk, s, hashBuf, btBuf>>

BtFull ==
  /\ bpc = "work" /\ b.used >= BtLimit
  /\ bpc' = "post"
  /\ UNCHANGED <<inp, lpc, lz, out, f, hpc, hblk, bblk, b, s, hashBuf, btBuf>>

\* The block is in its slot; unlock the hash buffer and count it as filled.
BtPost ==
  /\ bpc = "post"
  /\ btBuf' = [btBuf EXCEPT ![bblk % BtBlocks] = [avail |-> b.total, items |-> IF b.fail THEN <<>> ELSE b.items, ok |-> ~b.fail]]
  /\ s' = [s EXCEPT !.hash = Unlocked(@), !.bt = FilledReleased(@, BtBlocks)]
  /\ bblk' = bblk + 1 /\ bpc' = "top"
  /\ UNCHANGED <<inp, lpc, lz, out, f, hpc, hblk, b, hashBuf>>

\* MtSync_StopWriting(&mt->hashSync) in its three steps, then wasStopped.
BtHalt ==
  /\ bpc = "halt"
  /\ IF Idle(s.hash) THEN bpc' = "stopped" /\ s' = s
     ELSE bpc' = "halt2" /\ s' = [s EXCEPT !.hash = StopFlagged(@)]
  /\ UNCHANGED <<inp, lpc, lz, out, f, hpc, hblk, bblk, b, hashBuf, btBuf>>

BtHaltFree ==
  /\ bpc = "halt2"
  /\ s' = [s EXCEPT !.hash = FreeReleased(@, HashBlocks)]
  /\ bpc' = "halt3"
  /\ UNCHANGED <<inp, lpc, lz, out, f, hpc, hblk, bblk, b, hashBuf, btBuf>>

BtHaltWait ==
  /\ bpc = "halt3" /\ s.hash.wasStopped
  /\ s' = [s EXCEPT !.hash = StopSeen(@)]
  /\ bpc' = "stopped"
  /\ UNCHANGED <<inp, lpc, lz, out, f, hpc, hblk, bblk, b, hashBuf, btBuf>>

BtStopped ==
  /\ bpc = "stopped"
  /\ s' = [s EXCEPT !.bt.wasStopped = TRUE]
  /\ bpc' = "wait"
  /\ UNCHANGED <<inp, lpc, lz, out, f, hpc, hblk, bblk, b, hashBuf, btBuf>>

-----------------------------------------------------------------------------
(* The encoder's thread                                                     *)

\* LzmaEnc_Alloc: the finder's threads are created one after the other; when
\* one cannot be, what exists is destroyed.
LzCreate ==
  /\ lpc = "create"
  /\ \E made \in IF Mt THEN {{}, {"hash"}, {"hash", "bt"}} ELSE {{}} :
       /\ s' = [t \in {"hash", "bt"} |-> [s[t] EXCEPT !.created = t \in made]]
       /\ hpc' = IF "hash" \in made THEN "wait" ELSE "none"
       /\ bpc' = IF "bt" \in made THEN "wait" ELSE "none"
       /\ lpc' = IF Mt /\ "bt" \notin made THEN "killbt" ELSE "init"
  /\ UNCHANGED <<inp, lz, out, f, hblk, bblk, b, hashBuf, btBuf>>

\* MatchFinderMt_InitMt and MatchFinderMt_Init, or MatchFinder_Init.
LzInit ==
  /\ lpc = "init" /\ lpc' = "avail"
  /\ IF Mt
     THEN /\ s' = [hash |-> SyncInit(s.hash, HashBlocks), bt |-> SyncInit(s.bt, BtBlocks)]
          /\ f' = f
     ELSE f' = MatchFinderInit(Len(text), inp.mode = "bt4", NumHashBytes) /\ s' = s
  /\ UNCHANGED <<inp, lz, out, hpc, hblk, bpc, bblk, b, hashBuf, btBuf>>

\* GetNumAvailableBytes: the bytes left say whether to go on.
StAvail ==
  /\ lpc = "avail" /\ ~Mt
  /\ lpc' = IF Avail(f) = 0 THEN "release" ELSE "use"
  /\ out' = [Nothing EXCEPT !.end = Avail(f) = 0]
  /\ UNCHANGED <<inp, lz, f, hpc, hblk, bpc, bblk, b, s, hashBuf, btBuf>>

MtAvail ==
  /\ lpc = "avail" /\ Mt /\ lz.left > 0
  /\ lpc' = IF lz.avail = 0 THEN "release" ELSE "use"
  /\ out' = [Nothing EXCEPT !.end = lz.avail = 0]
  /\ UNCHANGED <<inp, lz, f, hpc, hblk, bpc, bblk, b, s, hashBuf, btBuf>>

MtAskBt ==
  /\ lpc = "avail" /\ Mt /\ lz.left = 0
  /\ s' = [s EXCEPT !.bt = NextAsked(@, BtBlocks)]
  /\ lpc' = "next"
  /\ UNCHANGED <<inp, lz, out, f, hpc, hblk, bpc, bblk, b, hashBuf, btBuf>>

\* MatchFinderMt_GetNextBlock_Bt: take a block of matches, and normalise the
\* low hash tables when the position has grown far enough.  A block marked
\* as failed ends the encoding with an error (failure_LZ_BT, CheckErrors).
MtTakeBt ==
  /\ lpc = "next" /\ s.bt.filled > 0
  /\ s' = [s EXCEPT !.bt = NextTaken(@)]
  /\ \E slot \in {BlockHeld(s.bt) % BtBlocks} :
     \E sub \in {IF lz.pos >= NormLz THEN lz.pos - HistorySize - 1 ELSE 0} :
       /\ lz' = [lz EXCEPT !.slot = slot, !.idx = 0, !.left = Len(btBuf[slot].items),
                           !.avail = btBuf[slot].avail, !.pos = @ - sub,
                           !.h2 = Normalize3(sub, @), !.h3 = Normalize3(sub, @)]
       /\ lpc' = IF btBuf[slot].avail = 0 \/ ~btBuf[slot].ok THEN "release" ELSE "use"
       /\ out' = [Nothing EXCEPT !.end = btBuf[slot].avail = 0]
  /\ UNCHANGED <<inp, f, hpc, hblk, bpc, bblk, b, hashBuf, btBuf>>

\* A variant that trusts the 2-byte hash.
MixTrusting(minPos) ==
  LET c2 == lz.h2[Hash2(text, lz.cur)]
  IN IF c2 >= minPos THEN <<<<2, lz.pos - c2 - 1>>>> ELSE <<>>

\* MixMatches3: matches of 2 and 3 bytes nearer than the nearest of the tree.
MixMatches(minPos) ==
  LET cur == lz.cur
      c2  == lz.h2[Hash2(text, cur)]
      c3  == lz.h3[Hash3(text, cur)]
      hit2 == c2 >= minPos /\ text[cur + c2 - lz.pos] = text[cur]
      hit3 == c3 >= minPos /\ text[cur + c3 - lz.pos] = text[cur]
      three == hit2 /\ text[cur + c2 - lz.pos + 2] = text[cur + 2]
  IN (IF hit2 THEN <<<<IF three THEN 3 ELSE 2, lz.pos - c2 - 1>>>> ELSE <<>>)
     \o (IF hit3 /\ ~three THEN <<<<3, lz.pos - c3 - 1>>>> ELSE <<>>)

LzMoved(hashed) ==
  [lz EXCEPT !.idx = @ + 1, !.left = @ - 1, !.avail = @ - 1, !.pos = @ + 1, !.cur = @ + 1,
             !.h2 = IF hashed THEN [@ EXCEPT ![Hash2(text, lz.cur)] = lz.pos] ELSE @,
             !.h3 = IF hashed THEN [@ EXCEPT ![Hash3(text, lz.cur)] = lz.pos] ELSE @]

\* MatchFinderMt_GetMatches
MtGetMatches ==
  /\ lpc = "use" /\ Mt /\ lpc' = "avail"
  /\ \E bt \in {btBuf[lz.slot].items[lz.idx + 1]} :
     \E mixed \in {bt # <<>> \/ lz.avail - 1 >= 3} :
     \E minPos \in {IF bt # <<>> THEN lz.pos - bt[1][2]
                    ELSE IF lz.pos > HistorySize THEN lz.pos - HistorySize ELSE 1} :
       /\ out' = [at |-> lz.cur, lim |-> Least(MatchMaxLen, Len(text) - lz.cur + 1),
                  ds |-> (IF mixed THEN MixMatches(minPos) ELSE <<>>) \o bt, end |-> FALSE]
       /\ lz' = LzMoved(mixed)
  /\ UNCHANGED <<inp, f, hpc, hblk, bpc, bblk, b, s, hashBuf, btBuf>>

\* MatchFinderMt3_Skip by one position.
MtSkip ==
  /\ lpc = "use" /\ Mt /\ lpc' = "avail"
  /\ lz' = LzMoved(lz.avail >= 3) /\ out' = Nothing
  /\ UNCHANGED <<inp, f, hpc, hblk, bpc, bblk, b, s, hashBuf, btBuf>>

StGetMatches ==
  /\ lpc = "use" /\ ~Mt /\ lpc' = "avail"
  /\ \E got \in {Found(text, f)} :
       /\ out' = [at |-> f.buf, lim |-> f.lenLimit, ds |-> got.ds, end |-> FALSE]
       /\ f' = MovePos(got.f)
  /\ UNCHANGED <<inp, lz, hpc, hblk, bpc, bblk, b, s, hashBuf, btBuf>>

StSkip ==
  /\ lpc = "use" /\ ~Mt /\ lpc' = "avail"
  /\ f' = MovePos(Skipped(text, f)) /\ out' = Nothing
  /\ UNCHANGED <<inp, lz, hpc, hblk, bpc, bblk, b, s, hashBuf, btBuf>>

\* CheckErrors saw a full output buffer: the rest is not encoded.
LzGiveUp ==
  /\ lpc = "use" /\ lpc' = "release"
  /\ UNCHANGED <<inp, lz, out, f, hpc, hblk, bpc, bblk, b, s, hashBuf, btBuf>>

\* MatchFinderMt_ReleaseStream: MtSync_StopWriting(&p->btSync).
LzRelease ==
  /\ lpc = "release"
  /\ IF Idle(s.bt) THEN lpc' = "killbt" /\ s' = s
     ELSE lpc' = "release2" /\ s' = [s EXCEPT !.bt = StopFlagged(@)]
  /\ UNCHANGED <<inp, lz, out, f, hpc, hblk, bpc, bblk, b, hashBuf, btBuf>>

LzReleaseFree ==
  /\ lpc = "release2"
  /\ s' = [s EXCEPT !.bt = FreeReleased(@, BtBlocks)]
  /\ lpc' = "release3"
  /\ UNCHANGED <<inp, lz, out, f, hpc, hblk, bpc, bblk, b, hashBuf, btBuf>>

LzReleaseWait ==
  /\ lpc = "release3" /\ s.bt.wasStopped
  /\ s' = [s EXCEPT !.bt = StopSeen(@)]
  /\ lpc' = "killbt"
  /\ UNCHANGED <<inp, lz, out, f, hpc, hblk, bpc, bblk, b, hashBuf, btBuf>>

\* MatchFinderMt_Destruct: MtSync_Destruct of a stopped thread sends it exit
\* through canStart and joins it; first the BT thread, then the hash thread.
ExitSent(y) == [y EXCEPT !.exit = TRUE, !.canStart = TRUE]

LzKillBt ==
  /\ lpc = "killbt"
  /\ IF s.bt.created THEN lpc' = "joinbt" /\ s' = [s EXCEPT !.bt = ExitSent(@)]
     ELSE lpc' = "killhash" /\ s' = s
  /\ UNCHANGED <<inp, lz, out, f, hpc, hblk, bpc, bblk, b, hashBuf, btBuf>>

LzJoinBt ==
  /\ lpc = "joinbt" /\ bpc = "dead"
  /\ lpc' = "killhash" /\ s' = [s EXCEPT !.bt.created = FALSE]
  /\ UNCHANGED <<inp, lz, out, f, hpc, hblk, bpc, bblk, b, hashBuf, btBuf>>

LzKillHash ==
  /\ lpc = "killhash"
  /\ IF s.hash.created THEN lpc' = "joinhash" /\ s' = [s EXCEPT !.hash = ExitSent(@)]
     ELSE lpc' = "end" /\ s' = s
  /\ UNCHANGED <<inp, lz, out, f, hpc, hblk, bpc, bblk, b, hashBuf, btBuf>>

LzJoinHash ==
  /\ lpc = "joinhash" /\ hpc = "dead"
  /\ lpc' = "end" /\ s' = [s EXCEPT !.hash.created = FALSE]
  /\ UNCHANGED <<inp, lz, out, f, hpc, hblk, bpc, bblk, b, hashBuf, btBuf>>

Done == lpc = "end" /\ UNCHANGED vars

HashStep == HashStart \/ HashWaitFree \/ HashFill \/ HashPost \/ HashStopped
BtStep == \/ BtStart \/ BtTop \/ BtWaitFree \/ BtCheck \/ BtAskHash \/ BtTakeHash \/ BtRun
          \/ BtFull \/ BtPost \/ BtHalt \/ BtHaltFree \/ BtHaltWait \/ BtStopped
LzUse == MtGetMatches \/ MtSkip \/ StGetMatches \/ StSkip
LzStep == \/ LzCreate \/ LzInit \/ StAvail \/ MtAvail \/ MtAskBt \/ MtTakeBt
          \/ LzUse \/ LzGiveUp
          \/ LzRelease \/ LzReleaseFree \/ LzReleaseWait
          \/ LzKillBt \/ LzJoinBt \/ LzKillHash \/ LzJoinHash
Next == LzStep \/ BtStep \/ HashStep \/ Done

\* Every thread keeps running while it can.
Spec == Init /\ [][Next]_vars /\ WF_vars(LzStep) /\ WF_vars(BtStep) /\ WF_vars(HashStep)

-----------------------------------------------------------------------------
(* What makes a match finder correct                                        *)

Cur == IF Mt THEN lz.cur ELSE f.buf
Remaining == Len(text) - Cur + 1
MatchAt(p, d, len) == \A k \in 0 .. len - 1 : text[p + k] = text[p + k - d]

\* The finder, its threads and the rings stay within their shapes: the
\* semaphores within their counts, the positions within the tables.
TypeOK ==
  /\ s.hash.free \in 0 .. HashBlocks /\ s.hash.filled \in 0 .. HashBlocks
  /\ s.bt.free \in 0 .. BtBlocks /\ s.bt.filled \in 0 .. BtBlocks
  /\ f.pos <= Least(f.streamPos, (IF Mt THEN NormMt ELSE NormSt) + NumHashBytes - 1)
  /\ f.cyc \in 0 .. CyclicBufferSize
  /\ b.cyc \in 0 .. CyclicBufferSize - 1 /\ b.pos <= NormMt + 1 /\ Cur <= Len(text) + 1

\* Every match GetMatches reports is one: inside the dictionary, inside what
\* is left of the text, equal byte for byte; and each is longer and farther
\* than the one before, as the optimal parser takes for granted.  Hash
\* collisions, normalised positions, the reused cyclic buffer and blocks
\* filled ahead of the encoder are what could break it (MixMatches3,
\* GetMatchesSpec1, MatchFinder_Normalize3, GetMatchesSpecN_2).
MatchesReal ==
  \A i \in 1 .. Len(out.ds) : \E len \in {out.ds[i][1]}, d \in {out.ds[i][2] + 1} :
    /\ d <= HistorySize /\ d < out.at /\ len <= Len(text) - out.at + 1
    /\ MatchAt(out.at, d, len)
    /\ i > 1 => len > out.ds[i - 1][1] /\ d > out.ds[i - 1][2] + 1

\* Nothing is missed: when a search may visit the whole window, then for
\* every length a hash covers the nearest match of at least that length in
\* the dictionary is reported, whatever was searched or only skipped before,
\* and by the threads as by the single-threaded finders.
NearestFound ==
  (out.at > 0 /\ CutValue >= HistorySize) =>
    \A len \in NumHashBytes .. out.lim :
    \A d \in 1 .. Least(HistorySize, out.at - 1) :
      (MatchAt(out.at, d, len) /\ \A e \in 1 .. d - 1 : ~MatchAt(out.at, e, len))
        => \E i \in 1 .. Len(out.ds) : out.ds[i][1] >= len /\ out.ds[i][2] + 1 = d

\* The bytes on offer are the bytes there are: the encoder is told the end
\* only at the end, and never more than is left, although the hash thread,
\* the BT thread and the encoder are at three positions of the text.
AvailHonest ==
  /\ out.end => Remaining = 0
  /\ lpc = "use" => \E n \in {IF Mt THEN lz.avail ELSE Avail(f)} :
                      n <= Remaining /\ n >= Least(Remaining, MatchMaxLen)

\* The handshake of the threads holds: no semaphore is released over its
\* maximum (StopWriting: "check semaphore count !!!"), the buffer locks
\* alternate as DEBUG_BUFFER_LOCK demands, and the BT thread never meets a
\* head distance or a child that cannot be (failure_BT); and what passes
\* through the rings is honest about the bytes left.
PipelineSound == TypeOK /\ AvailHonest /\ ~s.hash.broken /\ ~s.bt.broken /\ ~b.fail

\* However far the threads got when the encoder stops, and whichever of them
\* could be created, all of them end and the encoder gets its answer.
Ends == <>(lpc = "end" /\ hpc \in {"none", "dead"} /\ bpc \in {"none", "dead"})
=============================================================================
