------------------------------ MODULE Filters ------------------------------
(***************************************************************************)
(* The reversible converters a chunk or a block may be given before it is  *)
(* compressed: the x86 branch converter (Bra86.c), whose state is carried  *)
(* from one slice to the next, the arm64 one (Bra.c), which works word by  *)
(* word, and delta (Delta.c); lrz_filter_stream_conv of filters.c, which   *)
(* drives them, and the choice of a filter.                                *)
(*                                                                         *)
(* A byte is a number below 256, a place p counts from 0.  The converters  *)
(* compute in 32 bits and keep 25, 26 or 21 of them; here they compute in  *)
(* those alone.                                                            *)
(***************************************************************************)
EXTENDS Integers, Sequences, FiniteSets, SequencesExt, FiniteSetsExt

CONSTANTS
  MinTrial,     \* bytes below which lrz_filter_trial does not try (1 MiB)
  MinChunkPick, \* bytes below which lrz_chunk_filter_pick does not (2 MiB)
  MaxSampled    \* bytes above which its samples say nothing of arm64

NoFilter == 0
X86      == 1
ARM64    == 2
Delta(d) == 2 + d
FilterMax      == Delta(4)
ChunkFilterMax == ARM64

-----------------------------------------------------------------------------
(* x86                                                                     *)

IsBcjByte(b)     == b \in {232, 233}
NeedConvMsByte(b) == b \in {0, 255}

BrConvert(v, c, encode, w) == (IF encode THEN v + c ELSE v - c) % w

\* v ^= (0x100 << 8k) - 1
Flipped(v, k) == LET w == 2^(8 * (k + 1)) IN v - 2 * (v % w) + w - 1

\* The operand at p as 25 bits: its top byte is 0 or 255.
Operand(b, p) ==
  b[p + 1] + 256 * b[p + 2] + 65536 * b[p + 3] + (IF b[p + 4] = 0 THEN 2^24 ELSE 0)
SetOperand(b, p, v) ==
  [b EXCEPT ![p + 1] = v % 256, ![p + 2] = (v \div 256) % 256,
            ![p + 3] = (v \div 65536) % 256, ![p + 4] = IF v >= 2^24 THEN 0 ELSE 255]

\* The operand converted; under a mask, again if its byte k is then one the
\* decoder would take for a converted one.
Converted(v, c, mask, encode) ==
  LET k  == mask \div 2
      v1 == BrConvert(v, c, encode, 2^25)
  IN IF mask # 0 /\ NeedConvMsByte((v1 \div 2^(8 * k)) % 256)
     THEN BrConvert(Flipped(v1, k), c, encode, 2^25)
     ELSE v1

\* From p on, in steps of four bytes and at every opcode byte: what became
\* of the buffer, where the scan stopped and the mask there.  The mask says
\* which of the three bytes before p were opcodes that were not converted.
RECURSIVE X86Scan(_, _, _, _, _, _)
X86Scan(b, p, mask, lim, pc, encode) ==
  LET hits == {n \in 0..3 : IsBcjByte(b[p + n + 1])} IN
  IF p >= lim THEN [buf |-> b, p |-> p, mask |-> mask]
  ELSE IF hits = {} THEN X86Scan(b, p + 4, 0, lim, pc, encode)
  ELSE LET n == Min(hits)
           q == p + n + 1
           m == IF n = 3 THEN 0 ELSE mask \div 2^n
       IN IF q > lim THEN [buf |-> b, p |-> q - 1, mask |-> m]
          ELSE IF \/ m > 4 \/ m = 3
                  \/ m # 0 /\ NeedConvMsByte(b[q + (m \div 2) + 1])
                  \/ ~NeedConvMsByte(b[q + 4])
               THEN X86Scan(b, q, (m \div 2) + 4, lim, pc, encode)
               ELSE X86Scan(SetOperand(b, q, Converted(Operand(b, q), pc + 4 + q, m, encode)),
                            q + 4, 0, lim, pc, encode)

BranchConvStX86(b, pc, mask, encode) ==
  IF Len(b) < 5 THEN [buf |-> b, p |-> 0, mask |-> mask]
  ELSE X86Scan(b, 0, mask, Len(b) - 4, pc, encode)

-----------------------------------------------------------------------------
(* arm64: BL, and ADRP whose page is near                                  *)

IsBL(b3)   == b3 \div 4 = 37
IsADRP(b3) == b3 \in {144, 176, 208, 240}
Flag       == 2^20

Bytes3(v)  == <<v % 256, (v \div 256) % 256, (v \div 65536) % 256>>

ConvBL(w, at, encode) ==
  LET v == w[1] + 256 * w[2] + 65536 * w[3] + 2^24 * (w[4] % 4)
      r == BrConvert(v, at \div 4, encode, 2^26)
  IN Append(Bytes3(r % 2^24), 148 + (r \div 2^24))

ConvADRP(w, at, encode) ==
  LET low == w[1] + 256 * w[2] + 65536 * w[3]
      v   == (low + Flag) % 2^24
      z   == (v - (v % 32)) + 8 * ((w[4] - 144) \div 32)
      r   == BrConvert(z, 8 * (at \div 4096), encode, 2 * Flag)
      imm == (r - Flag) % 2^24
  IN IF v >= 2 * Flag THEN w
     ELSE Append(Bytes3((low % 32) + imm - (imm % 32)), 144 + 32 * ((r \div 8) % 4))

ConvWord(w, at, encode) ==
  IF IsBL(w[4]) THEN ConvBL(w, at, encode)
  ELSE IF IsADRP(w[4]) THEN ConvADRP(w, at, encode) ELSE w

\* Whole words only; pc is the place of the first byte.
BranchConvARM64(b, pc, encode) ==
  LET word(i) == ConvWord(SubSeq(b, 4 * i + 1, 4 * i + 4), pc + 4 * i, encode)
      words   == [i \in 1 .. Len(b) \div 4 |-> word(i - 1)]
      size    == 4 * (Len(b) \div 4)
  IN [buf |-> FlattenSeq(words) \o SubSeq(b, size + 1, Len(b)), p |-> size]

-----------------------------------------------------------------------------
(* delta, from a state of zeros                                            *)

DeltaEncode(d, b) ==
  [k \in 1 .. Len(b) |-> (b[k] - (IF k > d THEN b[k - d] ELSE 0)) % 256]
DeltaDecode(d, b) ==
  LET out[k \in 1 .. Len(b)] == (b[k] + (IF k > d THEN out[k - d] ELSE 0)) % 256
  IN [k \in 1 .. Len(b) |-> out[k]]

-----------------------------------------------------------------------------
(* lrz_filter_stream                                                       *)

StreamInit(kind, encode) == [kind |-> kind, encode |-> encode, mask |-> 0, pc |-> 0]

\* A variant that starts each slice from a clear mask.
StreamConvClear(fs, b, last) ==
  LET x == CASE fs.kind = X86   -> BranchConvStX86(b, fs.pc, 0, fs.encode)
             [] fs.kind = ARM64 -> BranchConvARM64(b, fs.pc, fs.encode)
             [] fs.kind \in Delta(1) .. Delta(4) ->
                  [p |-> Len(b), buf |-> IF fs.encode THEN DeltaEncode(fs.kind - 2, b)
                                         ELSE DeltaDecode(fs.kind - 2, b)]
             [] OTHER -> [p |-> Len(b), buf |-> b]
      done == IF last THEN Len(b) ELSE x.p
  IN [buf |-> x.buf, done |-> done, fs |-> [fs EXCEPT !.pc = @ + done]]

\* One slice: its bytes, how many of them are done, and the stream then.
StreamConv(fs, b, last) ==
  LET x == CASE fs.kind = X86   -> BranchConvStX86(b, fs.pc, fs.mask, fs.encode)
             [] fs.kind = ARM64 -> BranchConvARM64(b, fs.pc, fs.encode)
             [] fs.kind \in Delta(1) .. Delta(4) ->
                  [p |-> Len(b), buf |-> IF fs.encode THEN DeltaEncode(fs.kind - 2, b)
                                         ELSE DeltaDecode(fs.kind - 2, b)]
             [] OTHER -> [p |-> Len(b), buf |-> b]
      done == IF last THEN Len(b) ELSE x.p
  IN [buf |-> x.buf, done |-> done,
      fs  |-> [fs EXCEPT !.pc = @ + done, !.mask = IF fs.kind = X86 THEN x.mask ELSE @]]

\* The region at place pc of the chunk, at once.
ConvertMem(b, kind, encode, pc) ==
  StreamConv([StreamInit(kind, encode) EXCEPT !.pc = pc], b, TRUE).buf

-----------------------------------------------------------------------------
(* The choice of a filter, from what the trials measured: a probe holds    *)
(* the size of a sample compressed plainly and after each filter (Failed   *)
(* where LzmaCompress failed), the repeated windows counted before and     *)
(* after conversion, and the share of BL words.                            *)

CONSTANT Failed

\* lrz_filter_trial: the best one that wins by a 64th.
FilterTrial(len, probe) ==
  LET limit == probe.plain - probe.plain \div 64
      good  == {k \in X86 .. FilterMax : probe.size[k] # Failed /\ probe.size[k] < limit}
      best  == {k \in good : \A j \in good : probe.size[k] <= probe.size[j]}
  IN IF len < MinTrial \/ ~probe.mem \/ probe.plain = Failed \/ good = {} THEN NoFilter
     ELSE Min(best)

StreamFilterPick(mode, len, probe) ==
  IF mode >= 0 THEN mode ELSE FilterTrial(len, probe)

\* lrz_chunk_filter_pick: more repeats for x86; for arm64 a smaller trial
\* that keeps the repeats, by the totals of the regions tried before a call of
\* LzmaCompress failed (Failed: the first one did).
ChunkFilterPick(len, probe) ==
  LET plain == probe.dups[NoFilter] IN
  IF len < MinChunkPick \/ ~probe.mem THEN NoFilter
  ELSE IF plain # 0 /\ probe.dups[X86] > plain + plain \div 32 THEN X86
  ELSE IF /\ len <= MaxSampled /\ probe.bl >= 18
          /\ probe.dups[ARM64] >= plain - plain \div 100
          /\ probe.plain # Failed /\ probe.size[ARM64] # Failed
          /\ probe.size[ARM64] < probe.plain - probe.plain \div 64
       THEN ARM64 ELSE NoFilter
=============================================================================
