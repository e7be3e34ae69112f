------------------------------ MODULE LzmaBits ------------------------------
(***************************************************************************)
(* The entropy coder of LZMA as functions on its state: the range encoder  *)
(* with its carry, the bits of each symbol and the adaptive probability    *)
(* that codes each of them (lzma/C/LzmaEnc.c).                             *)
(*                                                                         *)
(* Widths are parameters: a byte has ByteBits bits, the range and the code *)
(* four such bytes, a probability ProbBits bits, and the trees of lengths  *)
(* and distances shrink with them.  A symbol is <<length, dist>> as        *)
(* CodeOneBlock sees it: dist is MarkLit for a literal, 0 .. 3 for a       *)
(* repeated distance and distance - 1 + 4 for a match; <<1, 0>> is the     *)
(* short rep.                                                              *)
(***************************************************************************)
EXTENDS Integers, Sequences, FiniteSets, SequencesExt

CONSTANTS ByteBits, ProbBits, MoveBits,
          LowBits, HighBits,   \* kLenNumLowBits, kLenNumHighBits
          SlotBits, EndSlot,   \* kNumPosSlotBits, kEndPosModelIndex
          AlignBits, LenStates,\* kNumAlignBits, kNumLenToPosStates
          Lc, Lp, Pb,          \* the properties of the stream
          DictSize,            \* the encoder's dictionary
          DictLogMin,          \* 11: 1 << 12 is the least dictionary written
          RcBufSize            \* RC_BUF_SIZE

Byte == 2 ^ ByteBits
Top == 2 ^ (3 * ByteBits)
Full == 2 ^ (4 * ByteBits)
ProbTotal == 2 ^ ProbBits
LowSymbols == 2 ^ LowBits
MatchLenMax == 2 + 2 * LowSymbols + 2 ^ HighBits - 1

ASSUME LzmaBitsAssumption ==
  /\ ByteBits >= Lc /\ Lp >= 0 /\ Pb >= 0 /\ RcBufSize >= 1
  /\ ProbTotal <= Byte          \* one byte is enough to bring the range back
  /\ EndSlot >= 4 /\ EndSlot % 2 = 0 /\ EndSlot < 2 ^ SlotBits

\* LzmaEnc_WriteProperties rounds the dictionary up to two significant bits
\* for the decoder (from 1 << 21 on, to whole MiB: also up, and left out).
DicSize ==
  LET v(i) == (2 + (i % 2)) * 2 ^ (i \div 2)
      big  == {i \in 2 * DictLogMin .. 2 * DictLogMin + 8 * ByteBits : v(i) >= DictSize}
  IN v(CHOOSE i \in big : \A j \in big : i <= j)

MarkLit == -1
Lesser(a, b) == IF a < b THEN a ELSE b

\* Op(v), with v evaluated once and not again for each of its uses in Op.
Applied(Op(_), v) == CHOOSE r \in {Op(x) : x \in {v}} : TRUE

-----------------------------------------------------------------------------
(* Probabilities: a table holds only the ones that were ever used.          *)

ProbOf(probs, c) == IF c \in DOMAIN probs THEN probs[c] ELSE ProbTotal \div 2
Moved(p, bit) ==
  IF bit = 0 THEN p + ((ProbTotal - p) \div 2 ^ MoveBits) ELSE p - (p \div 2 ^ MoveBits)
Learned(probs, c, bit) ==
  [x \in DOMAIN probs \cup {c} |-> IF x = c THEN Moved(ProbOf(probs, c), bit) ELSE probs[x]]

\* A bit of equal odds, outside the tables.
Direct == <<"Direct", 0, 0>>

(* The state of the symbol model, and what each symbol makes of it.         *)

kLiteralNextStates == <<0, 0, 0, 0, 1, 2, 3, 4, 5, 6, 4, 5>>
kMatchNextStates == <<7, 7, 7, 7, 7, 7, 7, 10, 10, 10, 10, 10>>
kRepNextStates == <<8, 8, 8, 8, 8, 8, 8, 11, 11, 11, 11, 11>>
kShortRepNextStates == <<9, 9, 9, 9, 9, 9, 9, 11, 11, 11, 11, 11>>
IsLitState(state) == state < 7

IsLit(sym) == sym[2] = MarkLit
IsShortRep(sym) == sym = <<1, 0>>
IsRep(sym) == sym[2] \in 0 .. 3
Shifted(reps, d) == <<d, reps[1], reps[2], reps[3]>>
Rotated(reps, i) ==
  CASE i = 0 -> reps
    [] i = 1 -> <<reps[2], reps[1], reps[3], reps[4]>>
    [] i = 2 -> <<reps[3], reps[1], reps[2], reps[4]>>
    [] i = 3 -> <<reps[4], reps[1], reps[2], reps[3]>>

\* The distance of a symbol that copies.
Distance(m, sym) == IF IsRep(sym) THEN m.reps[sym[2] + 1] ELSE sym[2] - 3

\* CodeOneBlock's model after a symbol.
Coded(m, sym) ==
  [m EXCEPT
    !.state = CASE IsLit(sym) -> kLiteralNextStates[@ + 1]
                [] IsShortRep(sym) -> kShortRepNextStates[@ + 1]
                [] IsRep(sym) /\ ~IsShortRep(sym) -> kRepNextStates[@ + 1]
                [] sym[2] > 3 -> kMatchNextStates[@ + 1],
    !.reps = IF IsLit(sym) THEN @
             ELSE IF IsRep(sym) THEN Rotated(@, sym[2]) ELSE Shifted(@, sym[2] - 3)]

NewModel == [state |-> 0, reps |-> <<1, 1, 1, 1>>]

-----------------------------------------------------------------------------
(* The bits of a symbol, each with its context, as the encoder writes them. *)

\* The i-th of w bits of v, the highest first.
BitAt(v, i, w) == (v \div 2 ^ (w - i)) % 2

\* A tree of w bits below the probabilities table[base + 1 ..]: RcTree_Encode.
TreeBits(table, sub, base, w, v) ==
  [i \in 1 .. w |-> <<<<table, sub, base + 2 ^ (i - 1) + (v \div 2 ^ (w - i + 1))>>, BitAt(v, i, w)>>]

\* RcTree_ReverseEncode: the lowest bit first.
ReverseBits(table, base, w, v) ==
  LET bit(j) == (v \div 2 ^ (j - 1)) % 2
      m[i \in 1 .. w] == IF i = 1 THEN 1 ELSE 2 * m[i - 1] + bit(i - 1)
  IN [i \in 1 .. w |-> <<<<table, 0, base + m[i]>>, bit(i)>>]

PosState(pos) == pos % 2 ^ Pb
LitTable(pos, prev) == ((pos % 2 ^ Lp) * 2 ^ Lc) + (prev \div 2 ^ (ByteBits - Lc))

\* LitEnc_Encode, and LitEnc_EncodeMatched: as long as the bits so far are
\* those of the byte at the last distance, its next bit picks the tree.
LiteralBits(lit, byte) == TreeBits("Lit", lit, 0, ByteBits, byte)
MatchedBits(lit, byte, match) ==
  [i \in 1 .. ByteBits |->
    LET same == byte \div 2 ^ (ByteBits - i + 1) = match \div 2 ^ (ByteBits - i + 1)
        offs == IF same THEN (1 + BitAt(match, i, ByteBits)) * Byte ELSE 0
    IN <<<<"Lit", lit, offs + 2 ^ (i - 1) + (byte \div 2 ^ (ByteBits - i + 1))>>,
         BitAt(byte, i, ByteBits)>>]

\* LenEnc_Encode: the two choices sit where the low trees leave a hole.
LengthBits(table, posState, v) ==
  LET base == posState * 2 * LowSymbols IN
  CASE v < LowSymbols ->
         <<<<<<table, 0, 0>>, 0>>>> \o TreeBits(table, 0, base, LowBits, v)
    [] v >= LowSymbols /\ v < 2 * LowSymbols ->
         <<<<<<table, 0, 0>>, 1>>, <<<<table, 0, LowSymbols>>, 0>>>>
           \o TreeBits(table, 0, base + LowSymbols, LowBits, v - LowSymbols)
    [] v >= 2 * LowSymbols ->
         <<<<<<table, 0, 0>>, 1>>, <<<<table, 0, LowSymbols>>, 1>>>>
           \o TreeBits(table, 1, 0, HighBits, v - 2 * LowSymbols)

\* GetPosSlot and GetLenToPosState.
PosSlot(d) ==
  IF d < 4 THEN d
  ELSE LET n == CHOOSE k \in 2 .. 4 * ByteBits : 2 ^ k <= d /\ d < 2 ^ (k + 1)
       IN (2 * n) + ((d \div 2 ^ (n - 1)) % 2)
LenToPosState(len) == IF len < LenStates + 1 THEN len - 2 ELSE LenStates - 1

FooterBits(slot) == (slot \div 2) - 1
SlotBase(slot) == (2 + (slot % 2)) * 2 ^ FooterBits(slot)

DistanceBits(len, d) ==
  LET slot == PosSlot(d)
      foot == FooterBits(slot)
  IN TreeBits("Slot", LenToPosState(len), 0, SlotBits, slot)
     \o (CASE d < 4 -> <<>>
          [] d >= 4 /\ d < 2 ^ (EndSlot \div 2) -> ReverseBits("Spec", SlotBase(slot), foot, d)
          [] d >= 2 ^ (EndSlot \div 2) ->
               [i \in 1 .. foot - AlignBits |-> <<Direct, (d \div 2 ^ (foot - i)) % 2>>]
                 \o ReverseBits("Align", 0, AlignBits, d))

\* The bits that say which of the four repeated distances it is.
RepBits(m, posState, sym) ==
  CASE sym[2] = 0 -> <<<<<<"IsRepG0", 0, m.state>>, 0>>,
                       <<<<"IsRep0Long", posState, m.state>>, IF sym[1] = 1 THEN 0 ELSE 1>>>>
    [] sym[2] = 1 -> <<<<<<"IsRepG0", 0, m.state>>, 1>>, <<<<"IsRepG1", 0, m.state>>, 0>>>>
    [] sym[2] > 1 -> <<<<<<"IsRepG0", 0, m.state>>, 1>>, <<<<"IsRepG1", 0, m.state>>, 1>>,
                       <<<<"IsRepG2", 0, m.state>>, sym[2] - 2>>>>

\* All bits of a symbol at position pos (from 0) of the text.
SymbolBits(t, pos, m, sym) ==
  LET ps  == PosState(pos)
      lit == LitTable(pos, t[pos])
      bit(b) == <<<<"IsMatch", ps, m.state>>, b>>
      rep(b) == <<<<"IsRep", 0, m.state>>, b>>
  IN CASE IsLit(sym) /\ IsLitState(m.state) -> <<bit(0)>> \o LiteralBits(lit, t[pos + 1])
       [] IsLit(sym) /\ ~IsLitState(m.state) ->
            <<bit(0)>> \o MatchedBits(lit, t[pos + 1], t[pos + 1 - m.reps[1]])
       [] IsRep(sym) -> <<bit(1), rep(1)>> \o RepBits(m, ps, sym)
            \o (IF sym[1] = 1 THEN <<>> ELSE LengthBits("RepLen", ps, sym[1] - 2))
       [] sym[2] > 3 -> <<bit(1), rep(0)>> \o LengthBits("Len", ps, sym[1] - 2)
            \o DistanceBits(sym[1], sym[2] - 4)

\* The first byte of a block has no byte before it.
FirstBits(byte) == <<<<<<"IsMatch", 0, 0>>, 0>>>> \o LiteralBits(0, byte)

-----------------------------------------------------------------------------
(* The range encoder                                                        *)

\* RangeEnc_Init, with room bytes in the caller's buffer.
NewEncoder(room) ==
  [low |-> 0, range |-> Full - 1, cache |-> 0, csize |-> 0, buf |-> <<>>,
   out |-> <<>>, room |-> room, res |-> TRUE, probs |-> <<>>]

\* RangeEnc_FlushStream into SeqOutStreamBuf_Write: what does not fit is
\* lost and remembered.
FlushStream(e) ==
  LET fits == Lesser(Len(e.buf), e.room) IN
  IF ~e.res THEN [e EXCEPT !.buf = <<>>]
  ELSE [e EXCEPT !.buf = <<>>, !.out = @ \o SubSeq(e.buf, 1, fits), !.room = @ - fits,
                 !.res = fits = Len(e.buf)]

RECURSIVE PutBytes(_)
PutByteStep(w) ==
  LET more == [w.e EXCEPT !.buf = Append(@, Head(w.bytes))] IN
  IF w.bytes = <<>> THEN w.e
  ELSE PutBytes([bytes |-> Tail(w.bytes),
                 e |-> IF Len(more.buf) = RcBufSize THEN FlushStream(more) ELSE more])
PutBytes(v) == Applied(PutByteStep, v)

\* A variant that forgets the pending bytes a carry runs through.
ShiftLowStill(e) ==
  LET low == e.low % Full
      high == e.low \div Full
  IN PutBytes([e |-> [e EXCEPT !.low = (low * Byte) % Full, !.cache = low \div Top],
               bytes |-> <<(e.cache + high) % Byte>>])

\* RangeEnc_ShiftLow: a byte leaves once no carry can reach it any more.
ShiftLow(e) ==
  LET low == e.low % Full
      high == e.low \div Full
      next == [e EXCEPT !.low = (low * Byte) % Full]
  IN IF low < (Byte - 1) * Top \/ high # 0
     THEN PutBytes([e |-> [next EXCEPT !.cache = low \div Top, !.csize = 0],
                    bytes |-> <<(e.cache + high) % Byte>>
                              \o [i \in 1 .. e.csize |-> (Byte - 1 + high) % Byte]])
     ELSE [next EXCEPT !.csize = @ + 1]

EncNormed(e) == IF e.range < Top THEN ShiftLow([e EXCEPT !.range = @ * Byte]) ELSE e

\* RC_BIT, and a direct bit.
PutBit(e, c, bit) ==
  LET half  == e.range \div 2
      bound == (e.range \div ProbTotal) * ProbOf(e.probs, c)
  IN Applied(EncNormed,
       IF c = Direct THEN [e EXCEPT !.range = half, !.low = @ + bit * half]
       ELSE [e EXCEPT !.range = IF bit = 0 THEN bound ELSE @ - bound,
                      !.low = @ + bit * bound, !.probs = Learned(@, c, bit)])

RECURSIVE PutBits(_)
PutBitStep(w) ==
  IF w.bits = <<>> THEN w.e
  ELSE PutBits([bits |-> Tail(w.bits), e |-> PutBit(w.e, w.bits[1][1], w.bits[1][2])])
PutBits(v) == Applied(PutBitStep, v)

\* RangeEnc_FlushData and RangeEnc_FlushStream.
FlushData(e) ==
  Applied(FlushStream, Applied(ShiftLow, Applied(ShiftLow, Applied(ShiftLow,
    Applied(ShiftLow, Applied(ShiftLow, e))))))
=============================================================================
