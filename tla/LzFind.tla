------------------------------- MODULE LzFind -------------------------------
(***************************************************************************)
(* The match finders of the LZMA encoder, as functions on their tables:    *)
(* the binary tree and hash chain searches of lzma/C/LzFind.c, the run of  *)
(* tree searches of lzma/C/LzFindOpt.c, and the single-threaded finders    *)
(* bt4 and hc5 built on them.  lrzip always hands the encoder a whole      *)
(* buffer (LzmaEncode, LzmaEnc_MemPrepare), so input is direct and the     *)
(* window never moves in memory.                                           *)
(*                                                                         *)
(* A text is a sequence of small numbers.  Positions in it (buf) count     *)
(* from 1; pos is the finder's own numbering, which also starts at 1 and   *)
(* is pulled back by normalisation.  A match is <<length, distance - 1>>,  *)
(* as the code writes it.                                                  *)
(***************************************************************************)
EXTENDS Integers, Sequences, FiniteSets, SequencesExt

CONSTANTS HistorySize,   \* the dictionary: the longest distance
          MatchMaxLen,   \* numFastBytes: the longest match looked for
          CutValue,      \* how many candidates one search visits
          KeepSizeAfter, \* look-ahead the encoder wants kept
          MaxAvail,      \* 0xFFFFFFFF in the code: most bytes on offer at once
          NormSt         \* kMaxValForNormalize of LzFind.c (2^32)

ASSUME LzFindAssumption ==
  /\ HistorySize >= 1 /\ MatchMaxLen >= 5 /\ CutValue >= 1
  /\ KeepSizeAfter >= MatchMaxLen /\ MaxAvail > KeepSizeAfter
  /\ NormSt > HistorySize + 1

CyclicBufferSize == HistorySize + 1

Least(a, b) == IF a < b THEN a ELSE b

\* Op(v), with v evaluated once and not again for each of its uses in Op.
Applied(Op(_), v) == CHOOSE r \in {Op(x) : x \in {v}} : TRUE

\* The index in son[] of the record of the position delta back.
Slot(cyc, delta, cbs) == cyc - delta + (IF cyc < delta THEN cbs ELSE 0)

\* The length of the match at distance d from position cur, known to be at
\* least from, compared up to lim.
Extend(t, cur, d, from, lim) ==
  CHOOSE n \in from .. lim :
    /\ n = lim \/ t[cur + n] # t[cur + n - d]
    /\ \A k \in from .. n - 1 : t[cur + k] = t[cur + k - d]

\* The hashes of 2, 3, 4 and 5 bytes: like the CRC ones they collide, but a
\* first byte that is known fixes the second (h2) and the third (h3).
Hash2(t, c) == (t[c] + t[c + 1]) % 2
Hash3(t, c) == <<Hash2(t, c), t[c + 2]>>
HashV(t, c, nhb) ==
  <<Hash2(t, c), (t[c + 2] + t[c + 3]) % 2, IF nhb = 5 THEN t[c + 4] ELSE 0>>

NoHash2 == [h \in 0 .. 1 |-> 0]
NoHash3 == [h \in (0 .. 1) \X (0 .. 1) |-> 0]
NoHashV == [h \in (0 .. 1) \X (0 .. 1) \X (0 .. 1) |-> 0]

\* SASUB_32 on every item: what falls out of the window becomes empty.
Normalize3(sub, items) ==
  [i \in DOMAIN items |-> IF items[i] < sub THEN 0 ELSE items[i] - sub]

-----------------------------------------------------------------------------
(* The binary tree.  son[2s] and son[2s+1] are the children of slot s;      *)
(* ptr1 and ptr0 are the two open ends that the walk fills.                 *)

RECURSIVE TreeWalk(_)
TreeStep(w) ==
  LET delta == w.pos - w.match
      pair  == 2 * Slot(w.cyc, delta, w.cbs)
      len   == Extend(w.t, w.cur, delta, Least(w.len0, w.len1), w.lim)
      longer == len > w.maxLen
      found == [w EXCEPT !.maxLen = IF longer THEN len ELSE @, !.cut = @ - 1,
                         !.ds = IF longer THEN Append(@, <<len, delta - 1>>) ELSE @]
      right == w.son[pair + 1]
      left  == w.son[pair]
  IN IF w.cut = 0 \/ w.match = 0 \/ delta >= w.cbs
     THEN [w EXCEPT !.son[w.ptr0] = 0, !.son[w.ptr1] = 0]
     ELSE IF len = w.lim
     THEN [found EXCEPT !.son[w.ptr1] = left, !.son[w.ptr0] = right, !.full = delta]
     ELSE IF w.t[w.cur + len - delta] < w.t[w.cur + len]
     THEN TreeWalk([found EXCEPT !.son[w.ptr1] = w.match, !.match = right,
                      !.ptr1 = pair + 1, !.len1 = len, !.bad = @ \/ right >= w.match])
     ELSE TreeWalk([found EXCEPT !.son[w.ptr0] = w.match, !.match = left,
                      !.ptr0 = pair, !.len0 = len, !.bad = @ \/ left >= w.match])
TreeWalk(v) == Applied(TreeStep, v)

\* A walk for the position cur, called pos, whose own record is slot cyc.
Walk(t, cur, pos, cyc, cbs, lim, match, son, maxLen) ==
  TreeWalk([t |-> t, cur |-> cur, pos |-> pos, cyc |-> cyc, cbs |-> cbs, lim |-> lim,
            son |-> son, match |-> match, ptr0 |-> 2 * cyc + 1, ptr1 |-> 2 * cyc,
            len0 |-> 0, len1 |-> 0, maxLen |-> maxLen, cut |-> CutValue,
            ds |-> <<>>, full |-> 0, bad |-> FALSE])

\* GetMatchesSpec1; SkipMatchesSpec is the same walk with the matches dropped.
GetMatchesSpec1(t, f, match, maxLen) ==
  Walk(t, f.buf, f.pos, f.cyc, CyclicBufferSize, f.lenLimit, match, f.son, maxLen)

\* Hc_GetMatchesSpec: follow the chain of positions with the same hash.
RECURSIVE ChainWalk(_)
ChainStep(w) ==
  LET delta == w.pos - w.match
      next  == w.son[Slot(w.cyc, delta, CyclicBufferSize)]
      len   == IF w.t[w.cur + w.maxLen] = w.t[w.cur + w.maxLen - delta]
               THEN Extend(w.t, w.cur, delta, 0, w.lim) ELSE 0
      ds    == Append(w.ds, <<len, delta - 1>>)
  IN IF w.cut = 0 \/ w.match = 0 \/ delta >= CyclicBufferSize THEN w.ds
     ELSE IF len <= w.maxLen THEN ChainWalk([w EXCEPT !.match = next, !.cut = @ - 1])
     ELSE IF len = w.lim THEN ds
     ELSE ChainWalk([w EXCEPT !.match = next, !.cut = @ - 1, !.maxLen = len, !.ds = ds])
ChainWalk(v) == Applied(ChainStep, v)

HcGetMatchesSpec(t, f, match, maxLen) ==
  ChainWalk([t |-> t, cur |-> f.buf, pos |-> f.pos, cyc |-> f.cyc, lim |-> f.lenLimit,
             son |-> [f.son EXCEPT ![f.cyc] = match], match |-> match, maxLen |-> maxLen,
             cut |-> CutValue, ds |-> <<>>])

-----------------------------------------------------------------------------
(* One single-threaded finder, CMatchFinder with directInput set.           *)

Avail(f) == f.streamPos - f.pos

\* MatchFinder_ReadBlock with directInput.
ReadBlock(f) ==
  LET n == Least(MaxAvail - Avail(f), f.rem)
  IN IF f.eos THEN f
     ELSE [f EXCEPT !.streamPos = @ + n, !.rem = @ - n, !.eos = f.rem = n]

\* MatchFinder_SetLimits: how far the finder may go before it must look at
\* its limits again, and how long a match may be until then.
SetLimits(f) ==
  LET k     == Avail(f)
      ahead == IF k > KeepSizeAfter THEN k - KeepSizeAfter
               ELSE IF k >= MatchMaxLen THEN k - MatchMaxLen + 1
               ELSE Least(k, 1)
      cyc   == CyclicBufferSize - f.cyc
      n     == IF f.pos < NormSt THEN Least(NormSt - f.pos, cyc) ELSE cyc
  IN [f EXCEPT !.lenLimit = IF k > KeepSizeAfter THEN MatchMaxLen ELSE Least(k, MatchMaxLen),
               !.posLimit = f.pos + Least(n, ahead)]

\* MatchFinder_Init_4: an empty finder over a text of n bytes.
EmptyFinder(n, bt, nhb) ==
  [pos |-> 1, streamPos |-> 1, rem |-> n, eos |-> FALSE, buf |-> 1, cyc |-> 1,
   posLimit |-> 1, lenLimit |-> 0, bt |-> bt, nhb |-> nhb,
   h2 |-> NoHash2, h3 |-> NoHash3, hv |-> NoHashV,
   son |-> [i \in 0 .. (IF bt THEN 2 ELSE 1) * CyclicBufferSize - 1 |-> 0]]

MatchFinderInit(n, bt, nhb) == SetLimits(ReadBlock(EmptyFinder(n, bt, nhb)))

\* MatchFinder_CheckLimits: refill exactly at the look-ahead mark, normalise
\* the positions before they run over, wrap the cyclic buffer.
Refilled(f) == IF Avail(f) = KeepSizeAfter THEN ReadBlock(f) ELSE f
Normalized(f) ==
  LET sub == f.pos - HistorySize - 1 IN
  IF f.pos = NormSt /\ Avail(f) >= f.nhb
  THEN [f EXCEPT !.pos = @ - sub, !.streamPos = @ - sub,
                 !.h2 = Normalize3(sub, @), !.h3 = Normalize3(sub, @),
                 !.hv = Normalize3(sub, @), !.son = Normalize3(sub, @)]
  ELSE f
Wrapped(f) == IF f.cyc = CyclicBufferSize THEN [f EXCEPT !.cyc = 0] ELSE f
CheckLimits(f) ==
  Applied(SetLimits, Applied(Wrapped, Applied(Normalized, Applied(Refilled, f))))

Moved(f) == [f EXCEPT !.pos = @ + 1, !.cyc = @ + 1, !.buf = @ + 1]
Checked(f) == IF f.pos = f.posLimit THEN CheckLimits(f) ELSE f
MovePos(f) == Applied(Checked, Moved(f))

\* The entries of the three hash tables for the current position.
Hashed(t, f) ==
  [f EXCEPT !.h2[Hash2(t, f.buf)] = f.pos, !.h3[Hash3(t, f.buf)] = f.pos,
            !.hv[HashV(t, f.buf, f.nhb)] = f.pos]

\* The matches the 2- and 3-byte tables give, before the tree or the chain
\* is searched, and the length the search has to beat.
ShortMatches(t, f) ==
  LET cur  == f.buf
      d2   == f.pos - f.h2[Hash2(t, cur)]
      d3   == f.pos - f.h3[Hash3(t, cur)]
      mmm  == Least(CyclicBufferSize, f.pos)
      hit2 == d2 < mmm /\ t[cur - d2] = t[cur]
      hit3 == d3 < mmm /\ t[cur - d3] = t[cur]
      three == hit2 /\ t[cur - d2 + 2] = t[cur + 2]
      dd   == IF three THEN d2 ELSE IF hit3 THEN d3 ELSE 0
      two  == IF hit2 /\ ~three THEN <<<<2, d2 - 1>>>> ELSE <<>>
      len  == IF f.nhb = 5 /\ t[cur - dd + 3] # t[cur + 3] THEN 3
              ELSE Extend(t, cur, dd, 3, f.lenLimit)
  IN IF dd = 0 THEN [ds |-> two, maxLen |-> f.nhb - 1]
     ELSE [ds |-> Append(two, <<len, dd - 1>>),
           maxLen |-> IF len = 3 THEN f.nhb - 1 ELSE len]

\* Bt4_MatchFinder_GetMatches and Hc5_MatchFinder_GetMatches: the matches at
\* the current position, and the finder moved on by one.
Found(t, f) ==
  LET short == ShortMatches(t, f)
      match == f.hv[HashV(t, f.buf, f.nhb)]
      g     == Hashed(t, f)
      full  == short.maxLen = f.lenLimit
      tree  == GetMatchesSpec1(t, f, match, short.maxLen)
      chain == HcGetMatchesSpec(t, f, match, short.maxLen)
  IN CASE f.lenLimit < f.nhb -> [ds |-> <<>>, f |-> f]
       [] f.lenLimit >= f.nhb /\ f.bt ->
            [ds |-> short.ds \o (IF full THEN <<>> ELSE tree.ds), f |-> [g EXCEPT !.son = tree.son]]
       [] f.lenLimit >= f.nhb /\ ~f.bt ->
            [ds |-> short.ds \o (IF full THEN <<>> ELSE chain), f |-> [g EXCEPT !.son[f.cyc] = match]]

\* A variant that skips without entering the position in the tree.
SkippedUnseen(t, f) == IF f.lenLimit < f.nhb THEN f ELSE Hashed(t, f)

\* Bt4_MatchFinder_Skip and Hc5_MatchFinder_Skip by one position.
Skipped(t, f) ==
  LET match == f.hv[HashV(t, f.buf, f.nhb)] IN
  CASE f.lenLimit < f.nhb -> f
    [] f.lenLimit >= f.nhb /\ f.bt ->
         [Hashed(t, f) EXCEPT !.son =
            GetMatchesSpec1(t, f, match, 0).son]
    [] f.lenLimit >= f.nhb /\ ~f.bt -> [Hashed(t, f) EXCEPT !.son[f.cyc] = match]

-----------------------------------------------------------------------------
(* GetMatchesSpecN_2: tree searches for a run of positions, from the head   *)
(* distances the hash thread computed.  limit bounds the items written.     *)

\* A tree search for one position; an empty head ends in two empty children.
SearchedOne(n, delta) ==
  LET w == Walk(n.t, n.buf, n.pos, n.cyc, Least(CyclicBufferSize, n.pos), n.lim,
                n.pos - delta, n.son, n.nhb - 1)
  IN [n EXCEPT !.son = w.son, !.items = Append(@, w.ds), !.used = @ + 1 + 2 * Len(w.ds),
               !.long = w.full,
               !.fail = @ \/ w.bad \/ delta = 0 \/ (n.pos < CyclicBufferSize /\ delta > n.pos)]

\* USE_LONG_MATCH_OPT: a full match at the same distance as the one before
\* copies that position's children and is not searched for.
CopiedOne(n, delta) ==
  LET src == 2 * Slot(n.cyc, delta, Least(CyclicBufferSize, n.pos))
  IN [n EXCEPT !.son[2 * n.cyc] = n.son[src], !.son[2 * n.cyc + 1] = n.son[src + 1],
               !.items = Append(@, <<<<n.lim, delta - 1>>>>), !.used = @ + 3]

RECURSIVE GetMatchesSpecN(_)
SpecNStep(n) ==
  LET delta == Head(n.heads)
      ahead == n.buf + n.lim - 1
      again == n.long # 0 /\ delta = n.long /\ n.t[ahead] = n.t[ahead - delta]
      one   == IF again THEN CopiedOne(n, delta) ELSE SearchedOne(n, delta)
  IN IF n.heads = <<>> \/ n.used >= n.limit \/ n.fail THEN n
     ELSE GetMatchesSpecN([Moved(one) EXCEPT !.heads = Tail(n.heads)])
GetMatchesSpecN(v) == Applied(SpecNStep, v)
=============================================================================
