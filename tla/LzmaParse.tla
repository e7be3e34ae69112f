------------------------------ MODULE LzmaParse ------------------------------
(***************************************************************************)
(* How the LZMA encoder cuts a text into symbols (lzma/C/LzmaEnc.c):       *)
(* GetOptimumFast, and the steps of GetOptimum, which prices the ways to   *)
(* reach each of the next positions, opt[1 ..], and goes back along the    *)
(* cheapest.                                                               *)
(*                                                                         *)
(* t is the text; a position is the number of bytes before it.  p holds    *)
(* what the encoder keeps about the match finder: mf bytes were given to   *)
(* it, add of them are not coded yet (additionalOffset), and for the last  *)
(* of them the bytes available (avail), its matches as <<length, distance  *)
(* - 1>> and the longest of them.  Prices are abstract: a table w gives    *)
(* each kind of symbol any price, as the adaptive probabilities may.       *)
(***************************************************************************)
EXTENDS LzmaBits

CONSTANTS NumFastBytes,        \* the length that is taken without a search
          NumOpts, OptMargin,  \* kNumOpts and the 64 it is kept below
          ChangeShift, FarPair, FarRep2, FarRep3 \* 7, 0x80, 1 << 9, 1 << 15

kInfinityPrice == 2 ^ 30
kState_MatchAfterLit == 7
kState_RepAfterLit == 8
Greater(a, b) == IF a > b THEN a ELSE b

-----------------------------------------------------------------------------
(* The text and the match finder                                            *)

\* data[j] = data[j - d], seen from position pos.
Same(t, pos, d, j) == t[pos + 1 + j] = t[pos + 1 + j - d]

\* for (; len < limit && data[len] == data2[len]; len++)
Grown(t, pos, d, len, limit) ==
  CHOOSE l \in len .. Greater(len, limit) :
    /\ l >= limit \/ ~Same(t, pos, d, l)
    /\ \A j \in len .. l - 1 : j < limit /\ Same(t, pos, d, j)

\* How far the text repeats at a distance; a single byte does not count.
RepLen(t, pos, d, limit) ==
  IF Same(t, pos, d, 0) /\ Same(t, pos, d, 1) THEN Grown(t, pos, d, 2, limit) ELSE 0

\* What a match finder may report: real matches within the dictionary, none
\* longer than NumFastBytes, longer ones further away.  Which of them, and
\* how much of each, is open: the searches stop after cutValue steps
\* (GetMatchesSpec1, Hc_GetMatchesSpec), the tables for two and three bytes
\* forget (Bt4_MatchFinder_GetMatches) and stop comparing early (MixMatches3).
\* f gives for each length the distance reported, 0 for none.
FoundMatches(t, pos, least) ==
  LET cap  == Lesser(NumFastBytes, Len(t) - pos)
      real(d, len) == \A j \in 0 .. len - 1 : Same(t, pos, d, j)
      near == {d \in 1 .. Lesser(pos, DictSize) : least <= cap /\ real(d, least)}
      found == {f \in [least .. cap -> {0} \cup near] :
                  \A n \in least .. cap : f[n] # 0 =>
                    real(f[n], n) /\ \A k \in least .. n - 1 : f[k] < f[n]}
      list(f) == [i \in 1 .. cap + 1 - least |-> <<least + i - 1, f[least + i - 1] - 1>>]
  IN {SelectSeq(list(f), LAMBDA x : x[2] >= 0) : f \in found}

NewParser == [mf |-> 0, add |-> 0, avail |-> 0, matches |-> <<>>, longest |-> 0]

\* ReadMatchDistances, with any answer of the finder: a match of the greatest
\* length it looks for is extended.
ReadMatchDistances(p, t, least) ==
  LET n == Len(t) - p.mf
      whole(f) == IF f = <<>> THEN 0
                  ELSE IF f[Len(f)][1] # NumFastBytes THEN f[Len(f)][1]
                  ELSE Grown(t, p.mf, f[Len(f)][2] + 1, NumFastBytes, Lesser(n, MatchLenMax))
  IN {[mf |-> p.mf + 1, add |-> p.add + 1, avail |-> n, matches |-> f, longest |-> whole(f)] :
        f \in FoundMatches(t, p.mf, least)}

\* MOVE_POS.
MovePos(p, n) == [p EXCEPT !.mf = @ + n, !.add = @ + n]

\* The distance the finder gave for a match of at least len bytes.
DistFor(matches, len) == SelectSeq(matches, LAMBDA x : x[1] >= len)[1][2]

-----------------------------------------------------------------------------
(* GetOptimumFast: the symbols it may code, each with the parser after it   *)

Decided(p, len, back) == [p |-> p, sym |-> <<len, back>>]

ChangePair(small, big) == big \div 2 ^ ChangeShift > small

\* A long match gives way to one a byte shorter that is far nearer.
RECURSIVE Nearer(_)
Nearer(matches) ==
  LET n == Len(matches) IN
  IF n > 1 /\ matches[n][1] = matches[n - 1][1] + 1 /\ ChangePair(matches[n - 1][2], matches[n][2])
  THEN Nearer(SubSeq(matches, 1, n - 1)) ELSE matches[n]

\* The repeated distance of the longest repetition, the first of equals.
BestRep(lens) ==
  CHOOSE i \in 1 .. 4 : \A j \in 1 .. 4 : lens[j] <= lens[i] /\ (j < i => lens[j] < lens[i])

\* A variant that forgets that a byte more was read.
AheadTakenAll(q, len, dist) == Decided(MovePos(q, len - 1), len, dist + 4)
\* The match is coded although the finder is a byte further already.
AheadTaken(q, len, dist) == Decided(MovePos(q, len - 2), len, dist + 4)

\* A match was chosen; the next position may offer something better.
FastAhead(p, t, least, reps, len, dist) ==
  LET ahead(q) ==
        LET new    == q.matches[Len(q.matches)][2]
            better == /\ q.longest >= 2
                      /\ \/ q.longest >= len /\ new < dist
                         \/ q.longest = len + 1 /\ ~ChangePair(dist, new)
                         \/ q.longest > len + 1
                         \/ q.longest + 1 >= len /\ len >= 3 /\ ChangePair(new, dist)
            \* a repetition that covers the rest of the match
            covered(d) == /\ Same(t, q.mf - 1, d, 0) /\ Same(t, q.mf - 1, d, 1)
                          /\ \A j \in 2 .. len - 2 : Same(t, q.mf - 1, d, j)
        IN IF better \/ \E i \in 1 .. 4 : covered(reps[i]) THEN Decided(q, 1, MarkLit)
           ELSE AheadTaken(q, len, dist)
  IN {ahead(q) : q \in ReadMatchDistances(p, t, least)}

FastChoice(p, t, least, reps, lens, main) ==
  LET i   == BestRep(lens)
      rep == lens[i]
  IN IF rep >= 2 /\ \/ rep + 1 >= main[1]
                    \/ rep + 2 >= main[1] /\ main[2] >= FarRep2
                    \/ rep + 3 >= main[1] /\ main[2] >= FarRep3
     THEN {Decided(MovePos(p, rep - 1), rep, i - 1)}
     ELSE IF main[1] < 2 \/ p.avail <= 2 THEN {Decided(p, 1, MarkLit)}
     ELSE FastAhead(p, t, least, reps, main[1], main[2])

FastFrom(p, t, least, reps) ==
  LET pos    == p.mf - 1
      limit  == Lesser(p.avail, MatchLenMax)
      lens   == [i \in 1 .. 4 |-> RepLen(t, pos, reps[i], limit)]
      long   == {i \in 1 .. 4 : lens[i] >= NumFastBytes}
      taken  == CHOOSE i \in long : \A j \in long : i <= j
      near   == Nearer(p.matches)
      main   == IF p.longest < 2 THEN <<p.longest, 0>>
                ELSE IF near[1] = 2 /\ near[2] >= FarPair THEN <<1, near[2]>> ELSE near
  IN CASE p.avail < 2 -> {Decided(p, 1, MarkLit)}
       [] p.avail >= 2 /\ long # {} ->
            {Decided(MovePos(p, lens[taken] - 1), lens[taken], taken - 1)}
       [] p.avail >= 2 /\ long = {} /\ p.longest >= NumFastBytes ->
            {Decided(MovePos(p, p.longest - 1), p.longest, p.matches[Len(p.matches)][2] + 4)}
       [] p.avail >= 2 /\ long = {} /\ p.longest < NumFastBytes ->
            FastChoice(p, t, least, reps, lens, main)

GetOptimumFast(p, t, least, reps) ==
  UNION {FastFrom(q, t, least, reps) :
           q \in IF p.add = 0 THEN ReadMatchDistances(p, t, least) ELSE {p}}

-----------------------------------------------------------------------------
(* GetOptimum: prices and the table of ways                                 *)

\* The price tables the encoder refills from its probabilities are abstracted
\* to w: any price may come out, but it grows with the repetition's index and
\* the distance's slot and depends on the length.
LenPrice(w, len) == IF len % 2 = 1 THEN w.odd ELSE 0
RepPrice(w, i, len) == w.rep + i + LenPrice(w, len)
MatchPrice(w, dist, len) == w.match + PosSlot(dist) + LenPrice(w, len)
RepAfterLitPrice(w, len) == w.lit + RepPrice(w, 0, len)

NewOpt == [price |-> kInfinityPrice, len |-> 0, dist |-> 0, extra |-> 0,
           state |-> 0, reps |-> <<1, 1, 1, 1>>]

\* A way to reach position "to": its last symbol, preceded by extra bytes
\* (a literal, or a match and a literal) when extra is not 0.
Way(to, price, len, dist, extra) ==
  [to |-> to, price |-> price, len |-> len, dist |-> dist, extra |-> extra]

\* if (price < opt->price) ...
Offer(opt, x) ==
  IF x.price < opt[x.to].price
  THEN [opt EXCEPT ![x.to] = [@ EXCEPT !.price = x.price, !.len = x.len, !.dist = x.dist,
                                       !.extra = x.extra]]
  ELSE opt
Offers(opt, ways) == FoldLeft(Offer, opt, ways)
Furthest(last, ways) == FoldLeft(LAMBDA l, x : Greater(l, x.to), last, ways)

\* The first position: the lengths of the four repetitions, and whether the
\* answer is known without a search.
RepLens(p, t, reps) ==
  [i \in 1 .. 4 |-> RepLen(t, p.mf - 1, reps[i], Lesser(p.avail, MatchLenMax))]

FirstIsShort(t, pos, reps, lens, w) ==
  Same(t, pos, reps[1], 0) /\ lens[1] = 0 /\ w.short < w.lit

FirstSymbol(p, t, reps, lens, w) ==
  LET best  == BestRep(lens)
      short == FirstIsShort(t, p.mf - 1, reps, lens, w)
  IN CASE p.avail < 2 -> Decided(p, 1, MarkLit)
       [] p.avail >= 2 /\ lens[best] >= NumFastBytes ->
            Decided(MovePos(p, lens[best] - 1), lens[best], best - 1)
       [] p.avail >= 2 /\ lens[best] < NumFastBytes /\ p.longest >= NumFastBytes ->
            Decided(MovePos(p, p.longest - 1), p.longest, p.matches[Len(p.matches)][2] + 4)
       [] OTHER -> Decided(p, 1, IF short THEN 0 ELSE MarkLit)

FirstIsKnown(p, lens) ==
  \/ p.avail < 2
  \/ lens[BestRep(lens)] >= NumFastBytes \/ p.longest >= NumFastBytes
  \/ Greater(lens[BestRep(lens)], p.longest) < 2

RepWays(cur, base, i, len, w) ==
  [k \in 1 .. Greater(0, len - 1) |->
    Way(cur + len + 1 - k, base + RepPrice(w, i - 1, len + 1 - k), len + 1 - k, i - 1, 0)]
MatchWays(cur, base, matches, from, to, w) ==
  [k \in 1 .. Greater(0, to + 1 - from) |->
    LET len  == from + k - 1
        dist == DistFor(matches, len)
    IN Way(cur + len, base + MatchPrice(w, dist, len), len, dist + 4, 0)]

FirstOpts(p, t, m, opt, lens, w) ==
  LET short == FirstIsShort(t, p.mf - 1, m.reps, lens, w)
      start == [opt EXCEPT ![0].state = m.state, ![0].reps = m.reps,
                  ![1] = [@ EXCEPT !.price = IF short THEN w.short ELSE w.lit, !.len = 1,
                                   !.dist = IF short THEN 0 ELSE MarkLit, !.extra = 0]]
      ways  == FlattenSeq([i \in 1 .. 4 |-> RepWays(0, 0, i, lens[i], w)])
               \o MatchWays(0, 0, p.matches, Greater(2, lens[1] + 1), p.longest, w)
  IN Offers(start, ways)
FirstLast(p, lens) == Greater(lens[BestRep(lens)], p.longest)

-----------------------------------------------------------------------------
(* A position reached: the model there, and the ways that lead on           *)

\* The state and the repeated distances along the way that reached cur; a
\* single byte leaves reps, those of the position before.
NodeState(opt, cur) ==
  LET o == opt[cur]
      s == opt[cur - o.len].state
  IN CASE o.len = 1 -> IF o.dist = 0 THEN kShortRepNextStates[s + 1] ELSE kLiteralNextStates[s + 1]
       [] o.len > 1 /\ o.extra = 0 -> IF o.dist < 4 THEN kRepNextStates[s + 1]
                                      ELSE kMatchNextStates[s + 1]
       [] o.len > 1 /\ o.extra # 0 -> IF o.extra > 1 \/ o.dist < 4 THEN kState_RepAfterLit
                                      ELSE kState_MatchAfterLit
\* A variant that forgets what precedes the last symbol of a combined way.
NodeRepsNear(opt, cur, reps) ==
  LET o    == opt[cur]
      from == opt[cur - o.len].reps
  IN IF o.len = 1 THEN reps
     ELSE IF o.dist < 4 THEN Rotated(from, o.dist) ELSE Shifted(from, o.dist - 3)

\* The repeated distances there.
NodeReps(opt, cur, reps) ==
  LET o    == opt[cur]
      from == opt[cur - o.len - o.extra].reps
  IN IF o.len = 1 THEN reps
     ELSE IF o.dist < 4 THEN Rotated(from, o.dist) ELSE Shifted(from, o.dist - 3)

\* X : LIT : REP_0 after a match of len bytes at distance d.
LitRepWays(t, pos, cur, d, len, base, full, dist, w) ==
  LET limit == Lesser(len + 1 + NumFastBytes, full)
      size  == Grown(t, pos, d, len + 3, limit)
  IN IF len + 3 <= limit /\ Same(t, pos, d, len + 1) /\ Same(t, pos, d, len + 2)
     THEN <<Way(cur + size, base + RepAfterLitPrice(w, size - len - 1), size - len - 1,
                dist, len + 1)>>
     ELSE <<>>

\* MATCH is cut to what is available.
CutMatches(matches, n) ==
  LET keep == SelectSeq(matches, LAMBDA x : x[1] < n) IN
  IF matches = <<>> \/ matches[Len(matches)][1] <= n THEN matches
  ELSE Append(keep, <<n, DistFor(matches, n)>>)

\* The ways from cur that take more than a byte.  q is the parser there,
\* base the price of cur.
LongWays(q, t, cur, reps, base, litFree, litPrice, full, w) ==
  LET pos   == q.mf - 1
      avail == Lesser(full, NumFastBytes)
      lens  == [i \in 1 .. 4 |-> RepLen(t, pos, reps[i], avail)]
      lit   == Grown(t, pos, reps[1], 3, Lesser(NumFastBytes + 1, full))
      cut   == CutMatches(q.matches, avail)
      new   == Lesser(q.longest, avail)
      from  == IF lens[1] = 0 THEN 2 ELSE lens[1] + 1
      litRep == IF litFree /\ ~Same(t, pos, reps[1], 0) /\ full > 2
                   /\ Same(t, pos, reps[1], 1) /\ Same(t, pos, reps[1], 2)
                THEN <<Way(cur + lit, litPrice + RepPrice(w, 0, lit - 1), lit - 1, 0, 1)>>
                ELSE <<>>
      repLit(i) == IF lens[i] = 0 THEN <<>>
                   ELSE LitRepWays(t, pos, cur, reps[i], lens[i],
                          base + RepPrice(w, i - 1, lens[i]), full, i - 1, w)
      \* MATCH, and MATCH : LIT : REP_0 where a match of the finder ends
      far(x) == IF x[1] < from THEN <<>>
                ELSE LitRepWays(t, pos, cur, x[2] + 1, x[1],
                       base + MatchPrice(w, x[2], x[1]), full, x[2] + 4, w)
      ends(k) == {j \in 1 .. Len(cut) : cut[j][1] = k}
      matchOn == [k \in 1 .. Greater(0, new + 1 - from) |->
                    MatchWays(cur, base, cut, from + k - 1, from + k - 1, w)
                    \o (IF ends(from + k - 1) = {} THEN <<>>
                        ELSE far(cut[CHOOSE j \in ends(from + k - 1) : TRUE]))]
  IN litRep
     \o FlattenSeq([i \in 1 .. 4 |-> RepWays(cur, base, i, lens[i], w) \o repLit(i)])
     \o FlattenSeq(matchOn)

\* The next position: a literal, unless something as good is known, or the
\* byte at the last distance.
NextBlocked(opt, cur, same, w) ==
  \/ opt[cur + 1].price < kInfinityPrice /\ same
  \/ opt[cur].price + w.flag > opt[cur + 1].price
WithLiteral(opt, cur, w) ==
  [opt EXCEPT ![cur + 1] = [@ EXCEPT !.price = opt[cur].price + w.lit, !.len = 1,
                                     !.dist = MarkLit, !.extra = 0]]
WithShortRep(opt, cur, w) ==
  [opt EXCEPT ![cur + 1] = [@ EXCEPT !.price = opt[cur].price + w.short, !.len = 1,
                                     !.dist = 0, !.extra = 0]]

\* A round of the loop of GetOptimum at cur, once its matches were read.
NodeStep(q, t, opt0, cur, last, reps, w) ==
  LET same    == Same(t, q.mf - 1, reps[1], 0)
      full    == Lesser(q.avail, NumOpts - 1 - cur)
      blocked == NextBlocked(opt0, cur, same, w)
      isLit   == ~blocked /\ opt0[cur].price + w.lit < opt0[cur + 1].price
      lit     == IF isLit THEN WithLiteral(opt0, cur, w) ELSE opt0
      next    == lit[cur + 1]
      isShort == /\ IsLitState(opt0[cur].state) /\ same
                 /\ next.len < 2 \/ next.dist # 0
                 /\ opt0[cur].price + w.short < next.price
      opt     == IF isShort THEN WithShortRep(lit, cur, w) ELSE lit
      ways    == IF full < 2 THEN <<>>
                 ELSE LongWays(q, t, cur, reps, opt0[cur].price, ~blocked /\ (~isLit \/ isShort),
                               opt0[cur].price + w.lit, full, w)
      done(v) == [opt |-> Offers(opt, v), last |-> Furthest(last, v)]
  IN Applied(done, ways)

\* Where the table is nearly full: the cheapest of what was reached.
Cheapest(opt, cur, last) ==
  CHOOSE b \in cur .. last :
    \A j \in cur .. last : opt[b].price <= opt[j].price /\ (j > b => opt[b].price < opt[j].price)

-----------------------------------------------------------------------------
(* Backward: the symbols of the way to cur, written over the table          *)

RECURSIVE Backward(_)
BackwardStep(b) ==
  LET o    == b.opt[b.cur]
      cur  == b.cur - o.len - o.extra
      put(opt, i, len, dist) == [opt EXCEPT ![i].len = len, ![i].dist = dist]
      last == IF o.extra = 0 THEN <<o.len, o.dist>>
              ELSE IF o.extra = 1 THEN <<1, MarkLit>> ELSE <<o.extra - 1, o.dist>>
      wr   == b.wr - (IF o.extra = 0 THEN 0 ELSE IF o.extra = 1 THEN 1 ELSE 2)
      opt  == CASE o.extra = 0 -> b.opt
                [] o.extra = 1 -> put(b.opt, b.wr - 1, o.len, o.dist)
                [] o.extra > 1 -> put(put(b.opt, b.wr - 1, o.len, 0), b.wr - 2, 1, MarkLit)
  IN IF cur = 0 THEN [opt |-> opt, optCur |-> wr, sym |-> last]
     ELSE Backward([opt |-> put(opt, wr - 1, last[1], last[2]), cur |-> cur, wr |-> wr - 1])
Backward(v) == Applied(BackwardStep, v)
=============================================================================
