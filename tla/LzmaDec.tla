------------------------------- MODULE LzmaDec -------------------------------
(***************************************************************************)
(* The LZMA decoder (lzma/C/LzmaDec.c) as functions on its state.  The     *)
(* destination is the dictionary and is never wrapped: dicPos and          *)
(* processedPos are both Len(d.out), dicBufSize and dicLimit are d.size.   *)
(*                                                                         *)
(* A symbol is found bit by bit: the bits so far say which probability is  *)
(* next, or that the symbol is complete.  The same is done twice near the  *)
(* end of the input, first by LzmaDec_TryDummy, which must never run past  *)
(* it, and then for real.  A read past the input or from a byte of the     *)
(* destination that was not written is noted in d.stray.                   *)
(***************************************************************************)
EXTENDS LzmaBits

CONSTANT RequiredMax           \* LZMA_REQUIRED_INPUT_MAX

RcInitSize == 5
EndMark == 2 ^ (2 ^ (SlotBits - 1)) - 1
Bound0 == ((Full - 1) \div ProbTotal) * (ProbTotal \div 2)
kBadRepCode == Bound0 + ((Full - 1 - Bound0) \div ProbTotal) * (ProbTotal \div 2)

\* The number w of whose bits are given, the highest or the lowest first.
Value(bits) == FoldLeft(LAMBDA v, b : 2 * v + b, 0, bits)
LowFirst(bits) == FoldRight(LAMBDA b, v : b + 2 * v, bits, 0)
After(bits, n) == SubSeq(bits, n + 1, Len(bits))

-----------------------------------------------------------------------------
(* The probability of the next bit of a symbol                              *)

Ended == <<"Ended", 0, 0>>

TreeNext(table, sub, base, w, bits) ==
  IF Len(bits) = w THEN Ended ELSE <<table, sub, base + 2 ^ Len(bits) + Value(bits)>>

\* REV_BIT: the decoder numbers the nodes of a level differently.
ReverseNext(table, base, w, bits) ==
  IF Len(bits) = w THEN Ended ELSE <<table, 0, base + 2 ^ Len(bits) + LowFirst(bits)>>

Written(d, i) == i \in 1 .. Len(d.out)
ByteAt(d, i) == IF Written(d, i) THEN d.out[i] ELSE 0
MatchByte(d) == ByteAt(d, Len(d.out) + 1 - d.reps[1])
LitProbs(d) == IF d.out = <<>> /\ d.check = 0 THEN 0
               ELSE LitTable(Len(d.out), d.out[Len(d.out)])

\* NORMAL_LITER_DEC and MATCHED_LITER_DEC.
LiteralNext(d, bits) ==
  LET k    == Len(bits)
      same == Value(bits) = MatchByte(d) \div 2 ^ (ByteBits - k)
      offs == IF ~IsLitState(d.state) /\ same
              THEN (1 + BitAt(MatchByte(d), k + 1, ByteBits)) * Byte ELSE 0
  IN TreeNext("Lit", LitProbs(d), offs, ByteBits, bits)

LengthNext(table, ps, bits) ==
  LET base == ps * 2 * LowSymbols
      n    == Len(bits)
  IN CASE n = 0 -> <<table, 0, 0>>
       [] n > 0 /\ bits[1] = 0 -> TreeNext(table, 0, base, LowBits, After(bits, 1))
       [] n = 1 /\ bits[1] = 1 -> <<table, 0, LowSymbols>>
       [] n > 1 /\ bits[1] = 1 /\ bits[2] = 0 ->
            TreeNext(table, 0, base + LowSymbols, LowBits, After(bits, 2))
       [] n > 1 /\ bits[1] = 1 /\ bits[2] = 1 -> TreeNext(table, 1, 0, HighBits, After(bits, 2))

\* How many bits a whole length has, and the length they are.
LengthSize(bits) ==
  IF bits[1] = 0 THEN 1 + LowBits ELSE IF bits[2] = 0 THEN 2 + LowBits ELSE 2 + HighBits
LengthOf(bits) ==
  IF bits[1] = 0 THEN Value(SubSeq(bits, 2, 1 + LowBits))
  ELSE IF bits[2] = 0 THEN LowSymbols + Value(SubSeq(bits, 3, 2 + LowBits))
  ELSE 2 * LowSymbols + Value(SubSeq(bits, 3, 2 + HighBits))

\* LZMA_DECODE_REAL's and TryDummy's choice of the slot tree.
LenStateReal(len) == IF len < LenStates THEN len ELSE LenStates - 1
LenStateDummy(len) == IF len < LenStates - 1 THEN len ELSE LenStates - 1
LenStateOf(trial, len) == IF trial THEN LenStateDummy(len) ELSE LenStateReal(len)

DistanceNext(lenState, bits) ==
  LET slot == Value(SubSeq(bits, 1, SlotBits))
      foot == FooterBits(slot)
      rest == After(bits, SlotBits)
      wide == foot - AlignBits
  IN IF Len(bits) < SlotBits THEN TreeNext("Slot", lenState, 0, SlotBits, bits)
     ELSE CASE slot < 4 -> Ended
            [] slot >= 4 /\ slot < EndSlot -> ReverseNext("Spec", SlotBase(slot), foot, rest)
            [] slot >= EndSlot /\ Len(rest) < wide -> Direct
            [] slot >= EndSlot /\ Len(rest) >= wide ->
                 ReverseNext("Align", 0, AlignBits, After(rest, wide))

DistanceOf(bits) ==
  LET slot == Value(SubSeq(bits, 1, SlotBits))
      wide == FooterBits(slot) - AlignBits
      rest == After(bits, SlotBits)
  IN CASE slot < 4 -> slot
       [] slot >= 4 /\ slot < EndSlot -> SlotBase(slot) + LowFirst(rest)
       [] slot >= EndSlot -> SlotBase(slot) + Value(SubSeq(rest, 1, wide)) * 2 ^ AlignBits
                               + LowFirst(After(rest, wide))

\* The bits before the length of a repeated distance: which one it is.
RepLead(bits) == IF bits[3] = 1 /\ bits[4] = 1 THEN 5 ELSE 4
RepIndex(bits) == IF bits[3] = 0 THEN 0 ELSE IF bits[4] = 0 THEN 1 ELSE 2 + bits[5]

RepNext(d, ps, bits) ==
  CASE Len(bits) = 2 -> <<"IsRepG0", 0, d.state>>
    [] Len(bits) = 3 /\ bits[3] = 0 -> <<"IsRep0Long", ps, d.state>>
    [] Len(bits) = 3 /\ bits[3] = 1 -> <<"IsRepG1", 0, d.state>>
    [] Len(bits) > 3 /\ bits[3] = 0 /\ bits[4] = 0 -> Ended
    [] Len(bits) = 4 /\ bits[3] = 1 /\ bits[4] = 1 -> <<"IsRepG2", 0, d.state>>
    [] OTHER -> LengthNext("RepLen", ps, After(bits, RepLead(bits)))

LengthDone(bits) == Len(bits) > 1 /\ Len(bits) >= LengthSize(bits)
MatchNext(ps, bits, trial) ==
  LET size == LengthSize(bits) IN
  IF LengthDone(bits)
  THEN DistanceNext(LenStateOf(trial, LengthOf(SubSeq(bits, 1, size))), After(bits, size))
  ELSE LengthNext("Len", ps, bits)

NextProb(d, bits, trial) ==
  LET ps == PosState(Len(d.out)) IN
  CASE bits = <<>> -> <<"IsMatch", ps, d.state>>
    [] bits # <<>> /\ bits[1] = 0 -> LiteralNext(d, Tail(bits))
    [] Len(bits) = 1 /\ bits[1] = 1 -> <<"IsRep", 0, d.state>>
    [] Len(bits) > 1 /\ bits[1] = 1 /\ bits[2] = 1 -> RepNext(d, ps, bits)
    [] Len(bits) > 1 /\ bits[1] = 1 /\ bits[2] = 0 -> MatchNext(ps, After(bits, 2), trial)

-----------------------------------------------------------------------------
(* The range decoder                                                        *)

\* NORMALIZE, which takes a byte of the input whatever is there.
Normalize(d) ==
  IF d.range >= Top THEN d
  ELSE [d EXCEPT !.range = @ * Byte, !.pos = @ + 1,
                 !.code = (@ * Byte + (IF d.pos < Len(d.in) THEN d.in[d.pos + 1] ELSE 0)) % Full,
                 !.stray = @ \/ d.pos >= Len(d.in)]

\* IF_BIT_0 with UPDATE_0 and UPDATE_1, or a direct bit.
GetBit(d, c) ==
  LET bound == IF c = Direct THEN d.range \div 2
               ELSE (d.range \div ProbTotal) * ProbOf(d.probs, c)
      zero  == d.code < bound
  IN [bit |-> IF zero THEN 0 ELSE 1,
      d |-> [d EXCEPT !.range = IF zero \/ c = Direct THEN bound ELSE @ - bound,
                      !.code = IF zero THEN @ ELSE @ - bound]]

\* The real decoder learns from every bit.
RealBit(d, c) ==
  LET g == GetBit(Normalize(d), c) IN
  [g EXCEPT !.d.probs = IF c = Direct THEN @ ELSE Learned(@, c, g.bit)]

RECURSIVE RealBits(_)
RealBitStep(w) ==
  LET c == NextProb(w.d, w.bits, FALSE)
      next(g) == [d |-> g.d, bits |-> Append(w.bits, g.bit)]
  IN IF c = Ended THEN w ELSE RealBits(Applied(next, RealBit(w.d, c)))
RealBits(v) == Applied(RealBitStep, v)

\* NORMALIZE_CHECK: the trial run ends where the input does, and learns nothing.
DummyEof(d) == d.range < Top /\ d.pos >= Len(d.in)

RECURSIVE DummyBits(_)
DummyBitStep(w) ==
  LET c == NextProb(w.d, w.bits, TRUE)
      next(g) == [w EXCEPT !.d = g.d, !.bits = Append(@, g.bit)]
  IN CASE DummyEof(w.d) -> [w EXCEPT !.eof = TRUE]
       [] ~DummyEof(w.d) /\ c = Ended -> [w EXCEPT !.d = Normalize(@)]
       [] ~DummyEof(w.d) /\ c # Ended ->
            DummyBits(Applied(next, GetBit(Normalize(w.d), c)))
DummyBits(v) == Applied(DummyBitStep, v)

LzmaDec_TryDummy(d) == DummyBits([d |-> d, bits |-> <<>>, eof |-> FALSE])

-----------------------------------------------------------------------------
(* Symbols                                                                  *)

\* n bytes from dist back, which may be among the ones just written.
Copied(d, dist, n) ==
  LET size == Len(d.out) IN
  [d EXCEPT !.stray = @ \/ dist > size,
            !.out = [i \in 1 .. size + n |->
                       IF i <= size THEN d.out[i]
                       ELSE ByteAt(d, size + 1 - dist + ((i - size - 1) % dist))]]

Literal(d, bits) ==
  [d EXCEPT !.out = Append(@, Value(bits)),
            !.state = IF @ < 4 THEN 0 ELSE IF @ < 10 THEN @ - 3 ELSE @ - 6,
            !.stray = @ \/ (~IsLitState(d.state) /\ d.reps[1] > Len(d.out))]

ShortRep(d) == [Copied(d, d.reps[1], 1) EXCEPT !.state = IF IsLitState(@) THEN 9 ELSE 11]

\* As much of a match as fits, the rest left for later.
CopyMatch(d, len, limit) ==
  LET n == Lesser(len, limit - Len(d.out)) IN
  [Copied(d, d.reps[1], n) EXCEPT !.remain = len - n]

RepMatch(d, bits, limit) ==
  CopyMatch([d EXCEPT !.reps = Rotated(@, RepIndex(bits)),
                      !.state = IF IsLitState(@) THEN 8 ELSE 11],
            2 + LengthOf(After(bits, RepLead(bits))), limit)

\* A variant that lets a match begin one byte before the text.
FarMatchLoose(d, len, dist, limit) ==
  LET next == [d EXCEPT !.reps = Shifted(@, dist + 1),
                        !.state = IF IsLitState(@) THEN 7 ELSE 10]
  IN IF dist = EndMark THEN [d EXCEPT !.end = TRUE]
     ELSE IF dist > (IF d.check = 0 THEN Len(d.out) ELSE d.check)
     THEN [next EXCEPT !.res = "Data"]
     ELSE CopyMatch(next, len, limit)

\* A match by distance: the end mark, a distance that does not exist yet, or
\* a copy.
FarMatch(d, len, dist, limit) ==
  LET next == [d EXCEPT !.reps = Shifted(@, dist + 1),
                        !.state = IF IsLitState(@) THEN 7 ELSE 10]
  IN IF dist = EndMark THEN [d EXCEPT !.end = TRUE]
     ELSE IF dist >= (IF d.check = 0 THEN Len(d.out) ELSE d.check)
     THEN [next EXCEPT !.res = "Data"]
     ELSE CopyMatch(next, len, limit)

SymbolTaken(d, bits, limit) ==
  LET rest == After(bits, 2) IN
  CASE bits[1] = 0 -> Literal(d, Tail(bits))
    [] bits[1] = 1 /\ bits[2] = 1 /\ bits[3] = 0 /\ bits[4] = 0 -> ShortRep(d)
    [] bits[1] = 1 /\ bits[2] = 1 /\ (bits[3] = 1 \/ bits[4] = 1) -> RepMatch(d, bits, limit)
    [] bits[1] = 1 /\ bits[2] = 0 ->
         FarMatch(d, 2 + LengthOf(rest), DistanceOf(After(rest, LengthSize(rest))), limit)

\* LZMA_DECODE_REAL: symbols until the limit of the output or of the input.
RECURSIVE DecodeReal(_)
DecodeRealStep(w) ==
  LET taken(r) == SymbolTaken(r.d, r.bits, w.limit)
      on(d) == IF Len(d.out) < w.limit /\ d.pos < w.bufLimit /\ d.res = "None" /\ ~d.end
               THEN DecodeReal([w EXCEPT !.d = d]) ELSE Normalize(d)
  IN Applied(on, Applied(taken, RealBits([d |-> w.d, bits |-> <<>>])))
DecodeReal(v) == Applied(DecodeRealStep, v)

\* LzmaDec_DecodeReal2: until the dictionary is full the distances are
\* checked against what was written, afterwards against its size.
Checked(d) == IF d.check = 0 /\ Len(d.out) >= DicSize THEN [d EXCEPT !.check = DicSize] ELSE d
LzmaDec_DecodeReal2(d, bufLimit) ==
  Applied(Checked, DecodeReal([d |-> d, bufLimit |-> bufLimit,
    limit |-> IF d.check = 0 THEN Lesser(d.size, DicSize) ELSE d.size]))

\* LzmaDec_WriteRem.
LzmaDec_WriteRem(d) ==
  LET n == Lesser(d.remain, d.size - Len(d.out)) IN
  IF n = 0 THEN d
  ELSE [Copied(d, d.reps[1], n) EXCEPT
          !.remain = @ - n,
          !.check = IF @ = 0 /\ DicSize - Len(d.out) <= n THEN DicSize ELSE @]

-----------------------------------------------------------------------------
(* LzmaDecode with LZMA_FINISH_ANY, as LzmaUncompress calls it              *)

InitialCode(in) == FoldLeft(LAMBDA v, b : Byte * v + b, 0, SubSeq(in, 2, RcInitSize))
NewDecoder(in, size) ==
  [in |-> in, size |-> size, pos |-> 0, range |-> Full - 1, code |-> 0, probs |-> <<>>,
   state |-> 0, reps |-> <<1, 1, 1, 1>>, out |-> <<>>, check |-> 0, remain |-> 0,
   end |-> FALSE, res |-> "None", stray |-> FALSE]

\* The first five bytes.
Begun(d) ==
  CASE Len(d.in) < RcInitSize -> [d EXCEPT !.res = "InputEof"]
    [] Len(d.in) >= RcInitSize /\ (d.in[1] # 0 \/ InitialCode(d.in) >= kBadRepCode) ->
         [d EXCEPT !.res = "Data"]
    [] OTHER -> [d EXCEPT !.pos = RcInitSize, !.code = InitialCode(d.in)]

\* One symbol when little input is left, else as many as are safe to read.
DecodeSome(d) ==
  LET short == Len(d.in) - d.pos < RequiredMax
      judged(y, r) ==
        IF (short /\ (y.d.pos - d.pos > RequiredMax \/ y.d.pos # r.pos)) \/ r.pos > Len(d.in)
        THEN [r EXCEPT !.res = "Fail"] ELSE r
      tried(y) ==
        LET real(r) == judged(y, r) IN
        IF y.eof THEN [d EXCEPT !.res = "InputEof"]
        ELSE Applied(real, LzmaDec_DecodeReal2(d, IF short THEN d.pos
                                                  ELSE Len(d.in) - RequiredMax))
  IN Applied(tried, IF short THEN LzmaDec_TryDummy(d) ELSE [d |-> d, bits |-> <<>>, eof |-> FALSE])

\* A round of LzmaDec_DecodeToDic.
DecodeToDic(d) ==
  LET on(r) == IF Len(r.out) >= r.size THEN [r EXCEPT !.res = "OK"] ELSE DecodeSome(r) IN
  IF d.end THEN [d EXCEPT !.res = IF d.code # 0 THEN "Data" ELSE "OK"]
  ELSE Applied(on, LzmaDec_WriteRem(d))
=============================================================================
