------------------------------ MODULE Digests ------------------------------
(***************************************************************************)
(* How the MD5 (md5.c) and SHA-512 (sha4.c) contexts gather the bytes they *)
(* are given piece by piece into blocks.  The compression function is      *)
(* free: a digest is the sequence of blocks it was computed from.  Sizes   *)
(* are scaled: a block is BlockLen bytes of which the last two of a digest *)
(* hold the length, a counter is a word of WordMod values, a byte has      *)
(* ByteBits bits.                                                          *)
(***************************************************************************)
EXTENDS Integers, Sequences, SequencesExt

CONSTANTS BlockLen, WordMod, ByteBits

ASSUME DigestAssumption ==
  /\ BlockLen \in Nat \ {0, 1, 2} /\ ByteBits \in Nat \ {0}
  /\ WordMod % BlockLen = 0 /\ WordMod % ByteBits = 0 /\ WordMod > BlockLen

Fill  == "fill"     \* the byte of the padding that is not zero
Zero  == "zero"

Lower(a, b) == IF a < b THEN a ELSE b
Carried(b)  == IF b THEN 1 ELSE 0
Whole(n)    == n - (n % BlockLen)
Blocks(s)   == [k \in 1 .. Len(s) \div BlockLen |-> SubSeq(s, (k - 1) * BlockLen + 1, k * BlockLen)]

\* buffer from place at on overwritten by s
Put(buffer, at, s) ==
  [k \in DOMAIN buffer |-> IF k > at /\ k <= at + Len(s) THEN s[k - at] ELSE buffer[k]]

\* The length in bits as the two words of a 64 (or 128) bit number.
LengthWords(lo, hi) ==
  <<(lo * ByteBits) % WordMod, ((hi * ByteBits) + (lo \div (WordMod \div ByteBits))) % WordMod>>

-----------------------------------------------------------------------------
(* MD5: the buffer holds two blocks                                        *)

md5_init_ctx == [lo |-> 0, hi |-> 0, buflen |-> 0, blocks |-> <<>>,
                 buffer |-> [k \in 1 .. 2 * BlockLen |-> Zero]]

\* A variant that loses the carry of the byte count.
ProcessBlockNoCarry(ctx, s) ==
  [ctx EXCEPT !.lo = (@ + Len(s)) % WordMod, !.blocks = @ \o Blocks(s),
              !.hi = (@ + (Len(s) \div WordMod)) % WordMod]

md5_process_block(ctx, s) ==
  LET lo == (ctx.lo + Len(s)) % WordMod IN
  [ctx EXCEPT !.lo = lo, !.blocks = @ \o Blocks(s),
              !.hi = (@ + (Len(s) \div WordMod) + Carried(lo < Len(s) % WordMod)) % WordMod]

\* When the buffer holds something, it is filled first.
Filled(ctx, s) ==
  LET add    == Lower(2 * BlockLen - ctx.buflen, Len(s))
      len    == ctx.buflen + add
      buffer == Put(ctx.buffer, ctx.buflen, SubSeq(s, 1, add))
      given  == [ctx EXCEPT !.buffer = buffer, !.buflen = len]
  IN IF ctx.buflen = 0 THEN [ctx |-> ctx, rest |-> s]
     ELSE [rest |-> SubSeq(s, add + 1, Len(s)),
           ctx  |-> IF len <= BlockLen THEN given
                    ELSE [md5_process_block(given, SubSeq(buffer, 1, Whole(len))) EXCEPT
                            !.buflen = len % BlockLen,
                            !.buffer = Put(buffer, 0, SubSeq(buffer, Whole(len) + 1, len))]]

\* Complete blocks straight from the input; where it is not aligned the last
\* one is left.
Direct(x, aligned) ==
  LET n == IF Len(x.rest) < BlockLen THEN 0
           ELSE IF aligned THEN Whole(Len(x.rest)) ELSE Whole(Len(x.rest) - 1)
      s == SubSeq(x.rest, 1, n)
      staged == IF aligned \/ n = 0 THEN x.ctx.buffer
                ELSE Put(x.ctx.buffer, 0, SubSeq(s, n - BlockLen + 1, n))
  IN [rest |-> SubSeq(x.rest, n + 1, Len(x.rest)),
      ctx  |-> [md5_process_block(x.ctx, s) EXCEPT !.buffer = staged]]

\* What is left goes to the buffer.
Kept(x) ==
  LET len    == x.ctx.buflen + Len(x.rest)
      buffer == Put(x.ctx.buffer, x.ctx.buflen, x.rest)
      given  == [x.ctx EXCEPT !.buffer = buffer, !.buflen = len]
  IN IF x.rest = <<>> THEN x.ctx
     ELSE IF len < BlockLen THEN given
     ELSE [md5_process_block(given, SubSeq(buffer, 1, BlockLen)) EXCEPT
             !.buflen = len - BlockLen,
             !.buffer = Put(buffer, 0, SubSeq(buffer, BlockLen + 1, len))]

md5_process_bytes(ctx, s, aligned) == Kept(Direct(Filled(ctx, s), aligned))

md5_finish_ctx(ctx) ==
  LET bytes  == ctx.buflen
      size   == IF bytes < BlockLen - 2 THEN BlockLen ELSE 2 * BlockLen
      lo     == (ctx.lo + bytes) % WordMod
      hi     == (ctx.hi + Carried(lo < bytes)) % WordMod
      pad    == <<Fill>> \o [k \in 1 .. size - 2 - bytes - 1 |-> Zero]
      buffer == Put(Put(ctx.buffer, size - 2, LengthWords(lo, hi)), bytes, pad)
  IN md5_process_block([ctx EXCEPT !.buffer = buffer, !.lo = lo, !.hi = hi],
                       SubSeq(buffer, 1, size)).blocks

-----------------------------------------------------------------------------
(* SHA-512: one block, filled up to the total modulo its length            *)

sha4_starts == [lo |-> 0, hi |-> 0, blocks |-> <<>>, buffer |-> [k \in 1 .. BlockLen |-> Zero]]

sha4_process(ctx, s) == [ctx EXCEPT !.blocks = @ \o Blocks(s)]

sha4_update(ctx, s) ==
  LET left == ctx.lo % BlockLen
      fill == BlockLen - left
      lo   == (ctx.lo + Len(s)) % WordMod
      top  == left # 0 /\ Len(s) >= fill
      rest == IF top THEN SubSeq(s, fill + 1, Len(s)) ELSE s
      full == IF top THEN Put(ctx.buffer, left, SubSeq(s, 1, fill)) ELSE ctx.buffer
      tail == SubSeq(rest, Whole(Len(rest)) + 1, Len(rest))
  IN IF s = <<>> THEN ctx
     ELSE [sha4_process(IF top THEN sha4_process(ctx, full) ELSE ctx, rest) EXCEPT
             !.lo = lo, !.hi = (@ + Carried(lo < Len(s))) % WordMod,
             !.buffer = Put(full, IF top THEN 0 ELSE left, tail)]

sha4_finish(ctx) ==
  LET last == ctx.lo % BlockLen
      padn == IF last < BlockLen - 2 THEN BlockLen - 2 - last ELSE 2 * BlockLen - 2 - last
      pad  == <<Fill>> \o [k \in 1 .. padn - 1 |-> Zero]
      len  == LengthWords(ctx.lo, ctx.hi)
  IN sha4_update(sha4_update(ctx, pad), <<len[2], len[1]>>).blocks

-----------------------------------------------------------------------------
(* What RFC 1321 and FIPS 180 say is digested for the message s.           *)

Reference(s, bigEndian) ==
  LET bits  == (Len(s) * ByteBits) % (WordMod * WordMod)
      words == <<bits % WordMod, bits \div WordMod>>
      zeros == (BlockLen - ((Len(s) + 3) % BlockLen)) % BlockLen
  IN Blocks(s \o <<Fill>> \o [k \in 1 .. zeros |-> Zero]
              \o (IF bigEndian THEN Reverse(words) ELSE words))
=============================================================================
