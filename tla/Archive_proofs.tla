--------------------------- MODULE Archive_proofs ---------------------------
(***************************************************************************)
(* Proof that a decompressor which reports success has delivered what was  *)
(* compressed, for every size of window, block, token and buffer, every    *)
(* choice of tokens and every way through files, pipes and temporary       *)
(* buffers.  The argument is the one runzip_fd relies on: whatever was     *)
(* read, and from wherever, the digest covers exactly what was delivered,  *)
(* and there is one digest in the archive.                                 *)
(***************************************************************************)
EXTENDS Archive, SequenceTheorems, TLAPS

Tags == {"hole", "magic", "rcd", "lrzc", "csize", "head", "link", "lit", "match", "byte"}

FlawNames ==
  {"late_spill", "gap_read", "dump_read", "s0_tail", "empty_frame", "tail_unread"}

\* Cells without a digest: lengths and links are numbers, a match goes back, a filter
\* is on or off.
PlainCell ==
  {c \in Tags \X Int \X Int \X Int :
     /\ c[1] \in {"lit", "head", "link"} => c[2] \in Nat
     /\ c[1] = "match" => c[2] \in Nat \ {0} /\ c[3] \in Nat \ {0}
     /\ c[1] = "rcd" => c[4] \in 0 .. 1}

\* What an archive of src consists of: the only digest is that of src.
Cell == {<<"md5", 0, 0, src>>} \cup PlainCell

OutType(C) ==
  [tmp : BOOLEAN, buf : Seq(C), ofs : Int, relofs : Int, file : Seq(C), pos : Int,
   fd : BOOLEAN, pipe : Seq(C), maxlen : Int, ok : BOOLEAN, flaws : SUBSET FlawNames]

InType(C) ==
  [tmp : BOOLEAN, buf : Seq(C), len : Nat, ofs : Nat, rest : Seq(C), file : Seq(C), pos : Nat,
   got : Seq(C), maxlen : Nat, ok : BOOLEAN, flaws : SUBSET FlawNames]

ChunkType ==
  [buf : Seq(Int), size : Int, left : Int, s : [1 .. 2 -> Seq(PlainCell)],
   queue : Seq({1, 2} \X Seq(PlainCell)), begun : BOOLEAN, initial : Int, cur : Nat, head : [1 .. 2 -> Int]]

WriterType ==
  [ch : ChunkType, eof : BOOLEAN, stdin_eof : BOOLEAN, pass : Int, blocks_done : Int, lrzc : Int]

ReaderType ==
  [expected : Int, streaming : BOOLEAN, last_block : BOOLEAN, eof : BOOLEAN,
   total : Int, next : Int, md5 : Seq(Int), initial : Nat, payload_end : Int, total_read : Nat,
   filter : 0 .. 1, out_pos : Nat, ctotal : Nat, win : Seq(Cell), lit : Int, got : Seq(Cell),
   want : {1, 2}, back : {"s0", "tok"}, cur : [1 .. 2 -> Seq(Cell)], fifo : [1 .. 2 -> Seq(Seq(Cell))],
   eos : [1 .. 2 -> BOOLEAN], head : [1 .. 2 -> Nat]]

Writing == {"chunk", "token", "flushed"}
InChunk == {"tok", "s0", "fill", "take"}
Reading == InChunk \cup {"rcd", "next", "md5"}

\* The compressor writes no digest before the trailer.
WriteInv ==
  /\ sc \in Scenario /\ src \in Seq(Int)
  /\ pc \in Writing => w \in WriterType /\ out \in OutType(PlainCell)
  /\ pc = "written" => out \in OutType(Cell)

\* What is in front of the flushed part of the output.
Pending(o) == IF o.tmp THEN o.buf ELSE o.file

\* The output grows at its end only, in the buffer or in a file.
Shape(o) ==
  /\ o \in OutType(Cell)
  /\ o.tmp => sc.dout /\ o.ofs = Len(o.buf) /\ o.relofs = Len(o.pipe) /\ o.file = <<>> /\ o.pos = 0
  /\ ~o.tmp => o.pos = Len(o.file)
  /\ ~sc.dout => o.pipe = <<>>

\* The cells of the chunk that the filter has still to go over.
Raw(x) == IF x.filter = 1 THEN x.ctotal ELSE 0

\* Everything delivered but what is still raw is in the digest.
DigestInv(x, o, raw) ==
  x.md5 = Values(o.pipe \o SubSeq(Pending(o), 1, Len(Pending(o)) - raw))

\* Where the decoder believes its output to be; after a late spill that is beyond it.
PlaceInv(x, o) ==
  /\ x.ctotal <= Len(Pending(o))
  /\ o.tmp => x.out_pos = o.relofs + Len(o.buf)
  /\ ~o.tmp => x.out_pos >= o.pos /\ (x.ctotal = 0 => x.out_pos = o.pos)

InOk(i) == i \in InType(Cell) /\ (i.tmp => i.len <= Len(i.buf))

\* A decompressor at p with the state x, the input i and the output o.
ReadOk(p, x, i, o) ==
  /\ x \in ReaderType /\ Shape(o) /\ InOk(i)
  /\ p \in InChunk => PlaceInv(x, o) /\ DigestInv(x, o, Raw(x))
  /\ p \in {"rcd", "next"} => DigestInv(x, o, 0)
  /\ p = "md5" => x.md5 = Values(IF sc.dout THEN o.pipe ELSE o.file)
  /\ p = "take" => x.fifo[x.want] # <<>>

ReadInv == pc \in Reading => ReadOk(pc, r, in, dst)

\* The inductive invariant.
AInv ==
  /\ WriteInv /\ ReadInv /\ SuccessIsRight
  /\ pc \in Writing \cup Reading \cup {"written", "info", "infonext", "listed", "done", "failed", "nocompress"}
----------------------------------------------------------------------------
(* Sequences of cells. *)

\* A function on 1 .. n is a sequence.
LEMMA FunctionSeq ==
  ASSUME NEW C, NEW n \in Nat, NEW f, f = [k \in 1 .. n |-> f[k]], \A k \in 1 .. n : f[k] \in C
  PROVE  f \in Seq(C) /\ Len(f) = n
OBVIOUS

LEMMA MinOf ==
  ASSUME NEW a \in Int, NEW b \in Int
  PROVE  Min({a, b}) = IF a <= b THEN a ELSE b
<1>1. PICK m \in {a, b} : \A y \in {a, b} : m <= y
  <2>1. CASE a <= b
    BY <2>1
  <2>2. CASE ~(a <= b)
    BY <2>2
  <2> QED
    BY <2>1, <2>2
<1>2. Min({a, b}) \in {a, b} /\ \A y \in {a, b} : Min({a, b}) <= y
  BY <1>1 DEF Min
<1> QED
  BY <1>2

LEMMA MinNat ==
  ASSUME NEW a \in Nat, NEW b \in Nat
  PROVE  Min({a, b}) \in Nat /\ Min({a, b}) <= a /\ Min({a, b}) <= b
<1>1. a \in Int /\ b \in Int
  OBVIOUS
<1>2. Min({a, b}) = IF a <= b THEN a ELSE b
  BY <1>1, MinOf
<1> QED
  BY <1>2

LEMMA OverwriteSeq ==
  ASSUME NEW C, Hole \in C, NEW s \in Seq(C), NEW d \in Seq(C), NEW at \in Int
  PROVE  /\ Overwrite(s, at, d) \in Seq(C)
         /\ Len(Overwrite(s, at, d)) = IF at + Len(d) > Len(s) THEN at + Len(d) ELSE Len(s)
         /\ \A k \in 1 .. Len(Overwrite(s, at, d)) :
               Overwrite(s, at, d)[k] = IF k > at /\ k <= at + Len(d) THEN d[k - at]
                                        ELSE IF k <= Len(s) THEN s[k] ELSE Hole
<1>1. Len(s) \in Nat /\ Len(d) \in Nat
  BY LenProperties
<1>2. PICK m \in Nat : m = IF at + Len(d) > Len(s) THEN at + Len(d) ELSE Len(s)
  BY <1>1
<1> DEFINE e(k) == IF k > at /\ k <= at + Len(d) THEN d[k - at]
                   ELSE IF k <= Len(s) THEN s[k] ELSE Hole
<1>3. PICK f : f = [k \in 1 .. m |-> e(k)]
  OBVIOUS
<1>4. Overwrite(s, at, d) = f
  BY <1>2, <1>3 DEF Overwrite
<1>5. ASSUME NEW k \in 1 .. m PROVE e(k) \in C
  <2>1. CASE k > at /\ k <= at + Len(d)
    <3>1. k - at \in 1 .. Len(d)
      BY <1>1, <2>1
    <3> QED
      BY <2>1, <3>1, ElementOfSeq
  <2>2. CASE ~(k > at /\ k <= at + Len(d))
    <3>1. k <= Len(s) => k \in 1 .. Len(s)
      BY <1>1
    <3> QED
      BY <2>2, <3>1, ElementOfSeq
  <2> QED
    BY <2>1, <2>2
<1> HIDE DEF e
<1>6. f \in Seq(C) /\ Len(f) = m /\ \A k \in 1 .. m : f[k] = e(k)
  <2>1. \A k \in 1 .. m : f[k] = e(k)
    BY <1>3
  <2>2. f = [k \in 1 .. m |-> f[k]]
    BY <1>3
  <2>3. \A k \in 1 .. m : f[k] \in C
    BY <1>5, <2>1
  <2> QED
    BY <2>1, <2>2, <2>3, FunctionSeq
<1> QED
  BY <1>2, <1>4, <1>6 DEF e

\* Writing at the end appends, and writing over the end replaces it.
LEMMA OverwriteEnd ==
  ASSUME NEW C, Hole \in C, NEW s \in Seq(C), NEW d \in Seq(C), NEW n \in 0 .. Len(s), n + Len(d) >= Len(s)
  PROVE  Overwrite(s, n, d) = SubSeq(s, 1, n) \o d
<1>1. Len(s) \in Nat /\ Len(d) \in Nat /\ n \in Nat
  BY LenProperties
<1>2. \A i \in 1 .. n : s[i] \in C
  BY <1>1, ElementOfSeq
<1>3. PICK p : p = SubSeq(s, 1, n)
  OBVIOUS
<1>4. p \in Seq(C) /\ Len(p) = n /\ \A i \in 1 .. n : p[i] = s[i]
  <2>1. /\ SubSeq(s, 1, n) \in Seq(C)
        /\ Len(SubSeq(s, 1, n)) = IF 1 <= n THEN n - 1 + 1 ELSE 0
        /\ \A i \in 1 .. n - 1 + 1 : SubSeq(s, 1, n)[i] = s[1 + i - 1]
    BY <1>1, <1>2, SubSeqProperties
  <2> QED
    BY <1>1, <1>3, <2>1
<1>5. /\ p \o d \in Seq(C) /\ Len(p \o d) = n + Len(d)
      /\ \A i \in 1 .. n + Len(d) : (p \o d)[i] = IF i <= n THEN p[i] ELSE d[i - n]
  BY <1>4, ConcatProperties
<1>6. PICK o : o = Overwrite(s, n, d)
  OBVIOUS
<1>7. /\ o \in Seq(C) /\ Len(o) = n + Len(d)
      /\ \A k \in 1 .. Len(o) : o[k] = IF k > n /\ k <= n + Len(d) THEN d[k - n]
                                       ELSE IF k <= Len(s) THEN s[k] ELSE Hole
  <2>1. n \in Int
    BY <1>1
  <2>2. /\ o \in Seq(C) /\ Len(o) = IF n + Len(d) > Len(s) THEN n + Len(d) ELSE Len(s)
        /\ \A k \in 1 .. Len(o) : o[k] = IF k > n /\ k <= n + Len(d) THEN d[k - n]
                                         ELSE IF k <= Len(s) THEN s[k] ELSE Hole
    BY <1>6, <2>1, OverwriteSeq
  <2> QED
    BY <1>1, <2>2
<1>8. ASSUME NEW i \in 1 .. Len(o) PROVE o[i] = (p \o d)[i]
  <2>1. i \in 1 .. n + Len(d) /\ i \in Nat
    BY <1>1, <1>7
  <2>2. CASE i <= n
    <3>1. i \in 1 .. n /\ i <= Len(s) /\ ~(i > n)
      BY <1>1, <2>1, <2>2
    <3>2. o[i] = s[i]
      BY <1>7, <3>1
    <3>3. (p \o d)[i] = p[i]
      BY <1>5, <2>1, <2>2
    <3> QED
      BY <1>4, <3>1, <3>2, <3>3
  <2>3. CASE ~(i <= n)
    BY <1>1, <1>5, <1>7, <2>1, <2>3
  <2> QED
    BY <2>2, <2>3
<1> QED
  BY <1>3, <1>5, <1>6, <1>7, <1>8, SeqEqual

LEMMA OverwriteAppends ==
  ASSUME NEW C, Hole \in C, NEW s \in Seq(C), NEW d \in Seq(C)
  PROVE  Overwrite(s, Len(s), d) = s \o d
<1>1. Len(s) \in 0 .. Len(s) /\ Len(s) + Len(d) >= Len(s)
  BY LenProperties
<1>2. SubSeq(s, 1, Len(s)) = s
  BY SubSeqFull
<1> QED
  BY <1>1, <1>2, OverwriteEnd

LEMMA PeekSeq ==
  ASSUME NEW C, Hole \in C, NEW s \in Seq(C), NEW at \in Nat, NEW n \in Nat
  PROVE  Peek(s, at, n) \in Seq(C) /\ Len(Peek(s, at, n)) = n
<1>1. Len(s) \in Nat
  BY LenProperties
<1>2. PICK f : f = [k \in 1 .. n |-> IF at + k <= Len(s) THEN s[at + k] ELSE Hole]
  OBVIOUS
<1>3. ASSUME NEW k \in 1 .. n PROVE f[k] \in C
  <2>1. at + k <= Len(s) => at + k \in 1 .. Len(s)
    BY <1>1
  <2> QED
    BY <1>2, <2>1, ElementOfSeq
<1>4. f = [k \in 1 .. n |-> f[k]]
  BY <1>2
<1> QED
  BY <1>2, <1>3, <1>4, FunctionSeq DEF Peek

LEMMA PartSeq ==
  ASSUME NEW C, NEW s \in Seq(C), NEW m \in Nat \ {0}, NEW n \in Int, n <= Len(s)
  PROVE  /\ SubSeq(s, m, n) \in Seq(C)
         /\ Len(SubSeq(s, m, n)) = IF m <= n THEN n - m + 1 ELSE 0
         /\ \A i \in 1 .. n - m + 1 : SubSeq(s, m, n)[i] = s[m + i - 1]
<1>1. ASSUME NEW i \in m .. n PROVE s[i] \in C
  <2>1. i \in 1 .. Len(s)
    BY LenProperties
  <2> QED
    BY <2>1, ElementOfSeq
<1> QED
  BY <1>1, SubSeqProperties
----------------------------------------------------------------------------
(* Cells and their values. *)

LEMMA Cells ==
  /\ Hole \in PlainCell /\ Hole \in Cell /\ PlainCell \subseteq Cell
  /\ \A c \in PlainCell : c \in Tags \X Int \X Int \X Int
<1>1. Hole \in Tags \X Int \X Int \X Int /\ Hole[1] = "hole"
  BY DEF Hole, Tags
<1>2. Hole \in PlainCell
  BY <1>1 DEF PlainCell
<1> QED
  BY <1>2 DEF PlainCell, Cell

LEMMA CellValue ==
  ASSUME NEW c \in Cell
  PROVE  c[2] \in Int
<1>1. CASE c = <<"md5", 0, 0, src>>
  BY <1>1
<1>2. CASE c \in PlainCell
  BY <1>2 DEF PlainCell
<1> QED
  BY <1>1, <1>2 DEF Cell

\* What the fields of a cell of each kind are.
LEMMA CellFields ==
  ASSUME NEW c \in Cell
  PROVE  /\ c[1] \in {"lit", "head", "link"} => c[2] \in Nat
         /\ c[1] = "match" => c[2] \in Nat \ {0} /\ c[3] \in Nat \ {0}
         /\ c[1] = "rcd" => c[4] \in 0 .. 1
         /\ c[1] # "md5" => c \in PlainCell
         /\ c[1] = "md5" => c = <<"md5", 0, 0, src>>
<1>1. CASE c = <<"md5", 0, 0, src>>
  BY <1>1
<1>2. CASE c \in PlainCell
  BY <1>2 DEF PlainCell, Tags
<1> QED
  BY <1>1, <1>2 DEF Cell

LEMMA ValuesSeq ==
  ASSUME NEW s \in Seq(Cell)
  PROVE  /\ Values(s) \in Seq(Int) /\ Len(Values(s)) = Len(s)
         /\ \A k \in 1 .. Len(s) : Values(s)[k] = s[k][2]
<1>1. Len(s) \in Nat /\ DOMAIN s = 1 .. Len(s)
  BY LenProperties
<1>2. PICK n \in Nat : n = Len(s)
  BY <1>1
<1>3. PICK f : f = [k \in 1 .. n |-> s[k][2]]
  OBVIOUS
<1>4. f = Values(s)
  BY <1>1, <1>2, <1>3 DEF Values
<1>5. ASSUME NEW k \in 1 .. n PROVE f[k] \in Int /\ f[k] = s[k][2]
  <2>1. s[k] \in Cell
    BY <1>2, ElementOfSeq
  <2>2. f[k] = s[k][2]
    BY <1>3
  <2> QED
    BY <2>1, <2>2, CellValue
<1>6. f = [k \in 1 .. n |-> f[k]]
  BY <1>3
<1>7. f \in Seq(Int) /\ Len(f) = n
  BY <1>5, <1>6, FunctionSeq
<1> QED
  BY <1>2, <1>4, <1>5, <1>7

LEMMA ValuesConcat ==
  ASSUME NEW s \in Seq(Cell), NEW t \in Seq(Cell)
  PROVE  Values(s \o t) = Values(s) \o Values(t)
<1>1. /\ s \o t \in Seq(Cell) /\ Len(s \o t) = Len(s) + Len(t)
      /\ \A i \in 1 .. Len(s) + Len(t) : (s \o t)[i] = IF i <= Len(s) THEN s[i] ELSE t[i - Len(s)]
  BY ConcatProperties
<1>2. Len(s) \in Nat /\ Len(t) \in Nat
  BY LenProperties
<1>3. PICK a : a = Values(s \o t)
  OBVIOUS
<1>4. PICK b : b = Values(s)
  OBVIOUS
<1>5. PICK c : c = Values(t)
  OBVIOUS
<1>6. a \in Seq(Int) /\ Len(a) = Len(s) + Len(t) /\ \A k \in 1 .. Len(s) + Len(t) : a[k] = (s \o t)[k][2]
  BY <1>1, <1>3, ValuesSeq
<1>7. b \in Seq(Int) /\ Len(b) = Len(s) /\ \A k \in 1 .. Len(s) : b[k] = s[k][2]
  BY <1>4, ValuesSeq
<1>8. c \in Seq(Int) /\ Len(c) = Len(t) /\ \A k \in 1 .. Len(t) : c[k] = t[k][2]
  BY <1>5, ValuesSeq
<1>9. /\ b \o c \in Seq(Int) /\ Len(b \o c) = Len(s) + Len(t)
      /\ \A i \in 1 .. Len(s) + Len(t) : (b \o c)[i] = IF i <= Len(s) THEN b[i] ELSE c[i - Len(s)]
  <2>1. /\ b \o c \in Seq(Int) /\ Len(b \o c) = Len(b) + Len(c)
        /\ \A i \in 1 .. Len(b) + Len(c) : (b \o c)[i] = IF i <= Len(b) THEN b[i] ELSE c[i - Len(b)]
    <3>1. b \in Seq(Int) /\ c \in Seq(Int)
      BY <1>7, <1>8
    <3> QED
      BY <3>1, ConcatProperties
  <2> QED
    BY <1>7, <1>8, <2>1
<1>10. ASSUME NEW i \in 1 .. Len(a) PROVE a[i] = (b \o c)[i]
  <2>0. i \in 1 .. Len(s) + Len(t)
    BY <1>6
  <2>1. a[i] = (s \o t)[i][2]
    BY <1>6, <2>0
  <2>2. CASE i <= Len(s)
    <3>1. i \in 1 .. Len(s)
      BY <1>2, <2>0, <2>2
    <3>2. (s \o t)[i] = s[i] /\ (b \o c)[i] = b[i] /\ b[i] = s[i][2]
      BY <1>1, <1>7, <1>9, <2>0, <2>2, <3>1
    <3> QED
      BY <2>1, <3>2
  <2>3. CASE ~(i <= Len(s))
    <3>1. i - Len(s) \in 1 .. Len(t)
      BY <1>2, <2>0, <2>3
    <3>2. (s \o t)[i] = t[i - Len(s)] /\ (b \o c)[i] = c[i - Len(s)] /\ c[i - Len(s)] = t[i - Len(s)][2]
      BY <1>1, <1>8, <1>9, <2>0, <2>3, <3>1
    <3> QED
      BY <2>1, <3>2
  <2> QED
    BY <2>2, <2>3
<1> QED
  BY <1>3, <1>4, <1>5, <1>6, <1>9, <1>10, SeqEqual

LEMMA BytesSeq ==
  ASSUME NEW x \in Seq(Int)
  PROVE  Bytes(x) \in Seq(PlainCell) /\ Bytes(x) \in Seq(Cell) /\ Len(Bytes(x)) = Len(x) /\ Values(Bytes(x)) = x
<1>1. Len(x) \in Nat /\ DOMAIN x = 1 .. Len(x)
  BY LenProperties
<1>2. PICK n \in Nat : n = Len(x)
  BY <1>1
<1>3. PICK f : f = [k \in 1 .. n |-> <<"byte", x[k], 0, 0>>]
  OBVIOUS
<1>4. f = Bytes(x)
  BY <1>1, <1>2, <1>3 DEF Bytes
<1>5. ASSUME NEW k \in 1 .. n PROVE f[k] \in PlainCell /\ f[k][2] = x[k]
  <2>1. x[k] \in Int
    BY <1>2, ElementOfSeq
  <2>2. f[k] = <<"byte", x[k], 0, 0>>
    BY <1>3
  <2>3. f[k] \in Tags \X Int \X Int \X Int /\ f[k][1] = "byte" /\ f[k][2] = x[k]
    BY <2>1, <2>2 DEF Tags
  <2> QED
    BY <2>3 DEF PlainCell
<1>6. f = [k \in 1 .. n |-> f[k]]
  BY <1>3
<1>7. f \in Seq(PlainCell) /\ Len(f) = n
  BY <1>5, <1>6, FunctionSeq
<1>8. f \in Seq(Cell)
  BY <1>5, <1>6, Cells, FunctionSeq
<1>9. PICK v : v = Values(f)
  OBVIOUS
<1>10. v \in Seq(Int) /\ Len(v) = n /\ \A k \in 1 .. n : v[k] = f[k][2]
  BY <1>7, <1>8, <1>9, ValuesSeq
<1>11. v = x
  <2>1. \A k \in 1 .. Len(v) : v[k] = x[k]
    BY <1>5, <1>10
  <2> QED
    BY <1>2, <1>10, <2>1, SeqEqual
<1> QED
  BY <1>2, <1>4, <1>7, <1>8, <1>9, <1>11

LEMMA UnfilteredSeq ==
  ASSUME NEW x \in Seq(Int)
  PROVE  Unfiltered(x) \in Seq(Int) /\ Len(Unfiltered(x)) = Len(x)
<1>1. Len(x) \in Nat /\ DOMAIN x = 1 .. Len(x)
  BY LenProperties
<1>2. PICK n \in Nat : n = Len(x)
  BY <1>1
<1>3. PICK f : f = [k \in 1 .. n |-> (x[k] + Radix - (k % Radix)) % Radix]
  OBVIOUS
<1>4. f = Unfiltered(x)
  BY <1>1, <1>2, <1>3 DEF Unfiltered
<1>5. ASSUME NEW k \in 1 .. n PROVE f[k] \in Int
  <2>1. x[k] \in Int
    BY <1>2, ElementOfSeq
  <2>2. f[k] = (x[k] + Radix - (k % Radix)) % Radix
    BY <1>3
  <2> QED
    BY <2>1, <2>2 DEF Radix
<1>6. f = [k \in 1 .. n |-> f[k]]
  BY <1>3
<1> QED
  BY <1>2, <1>4, <1>5, <1>6, FunctionSeq

LEMMA ExpandSeq ==
  ASSUME NEW C, NEW s \in Seq(C), NEW offset \in Nat \ {0}, offset <= Len(s), NEW len \in Nat
  PROVE  Expand(s, offset, len) \in Seq(C) /\ Len(Expand(s, offset, len)) = len
<1>1. PICK f : f = [k \in 1 .. len |-> s[Len(s) - offset + 1 + ((k - 1) % offset)]]
  OBVIOUS
<1>2. ASSUME NEW k \in 1 .. len PROVE f[k] \in C
  <2>1. PICK m : m = (k - 1) % offset
    OBVIOUS
  <2>2. m \in 0 .. offset - 1
    BY <2>1
  <2>3. Len(s) - offset + 1 + m \in 1 .. Len(s)
    BY <2>2, LenProperties
  <2>4. f[k] = s[Len(s) - offset + 1 + m]
    BY <1>1, <2>1
  <2> QED
    BY <2>3, <2>4, ElementOfSeq
<1>3. f = [k \in 1 .. len |-> f[k]]
  BY <1>1
<1>4. f \in Seq(C) /\ Len(f) = len
  BY <1>2, <1>3, FunctionSeq
<1> QED
  BY <1>1, <1>4 DEF Expand

\* A cut sequence is what is beyond the cut.
LEMMA CutSeq ==
  ASSUME NEW C, NEW s \in Seq(C), NEW n \in Nat
  PROVE  Cut(s, n) \in Seq(C)
<1>1. Len(s) \in Nat /\ n + 1 \in Nat \ {0}
  BY LenProperties
<1> QED
  BY <1>1, PartSeq DEF Cut
----------------------------------------------------------------------------
(* The operations on an output. *)

LEMMA OutFields ==
  ASSUME NEW C, NEW o \in OutType(C)
  PROVE  /\ o.tmp \in BOOLEAN /\ o.fd \in BOOLEAN /\ o.ok \in BOOLEAN
         /\ o.buf \in Seq(C) /\ o.file \in Seq(C) /\ o.pipe \in Seq(C)
         /\ o.ofs \in Int /\ o.relofs \in Int /\ o.pos \in Int /\ o.maxlen \in Int
         /\ o.flaws \in SUBSET FlawNames
BY DEF OutType

LEMMA OutSetBuf ==
  ASSUME NEW C, NEW o \in OutType(C), NEW s \in Seq(C), NEW n \in Int
  PROVE  [o EXCEPT !.buf = s, !.ofs = n] \in OutType(C)
BY DEF OutType

LEMMA OutSetPos ==
  ASSUME NEW C, NEW o \in OutType(C), NEW n \in Int, NEW k \in BOOLEAN
  PROVE  [o EXCEPT !.pos = n, !.ok = k] \in OutType(C)
BY DEF OutType

LEMMA WriteFdoutType ==
  ASSUME NEW C, Hole \in C, NEW o \in OutType(C), NEW d \in Seq(C)
  PROVE  /\ WriteFdout(o, d) \in OutType(C)
         /\ WriteFdout(o, d).file = Overwrite(o.file, o.pos, d) /\ WriteFdout(o, d).pos = o.pos + Len(d)
         /\ WriteFdout(o, d).tmp = o.tmp /\ WriteFdout(o, d).buf = o.buf /\ WriteFdout(o, d).ofs = o.ofs
         /\ WriteFdout(o, d).relofs = o.relofs /\ WriteFdout(o, d).pipe = o.pipe /\ WriteFdout(o, d).ok = o.ok
<1>1. PICK f \in Seq(C) : f = Overwrite(o.file, o.pos, d)
  BY OutFields, OverwriteSeq
<1>2. PICK p \in Int : p = o.pos + Len(d)
  BY OutFields, LenProperties
<1>3. PICK q : q = [o EXCEPT !.file = f, !.pos = p]
  OBVIOUS
<1>4. WriteFdout(o, d) = q
  BY <1>1, <1>2, <1>3 DEF WriteFdout
<1>5. q \in OutType(C)
  BY <1>3 DEF OutType
<1>6. /\ q.file = f /\ q.pos = p /\ q.tmp = o.tmp /\ q.buf = o.buf /\ q.ofs = o.ofs
      /\ q.relofs = o.relofs /\ q.pipe = o.pipe /\ q.ok = o.ok
  BY <1>3 DEF OutType
<1> QED
  BY <1>1, <1>2, <1>4, <1>5, <1>6

LEMMA SpillOutType ==
  ASSUME NEW C, Hole \in C, NEW o \in OutType(C)
  PROVE  /\ SpillOut(o) \in OutType(C) /\ SpillOut(o).tmp = FALSE
         /\ SpillOut(o).file = Overwrite(o.file, o.pos, o.buf) /\ SpillOut(o).pos = o.pos + Len(o.buf)
         /\ SpillOut(o).pipe = o.pipe
<1>1. PICK a : a = WriteFdout(o, o.buf)
  OBVIOUS
<1>2. /\ a \in OutType(C) /\ a.file = Overwrite(o.file, o.pos, o.buf) /\ a.pos = o.pos + Len(o.buf)
      /\ a.pipe = o.pipe
  <2>1. o.buf \in Seq(C)
    BY OutFields
  <2> QED
    BY <1>1, <2>1, WriteFdoutType
<1>3. PICK k \in BOOLEAN : k = (a.ok /\ o.fd)
  OBVIOUS
<1>4. PICK e : e = [a EXCEPT !.ok = k]
  OBVIOUS
<1>41. e \in OutType(C) /\ e.file = a.file /\ e.pos = a.pos /\ e.pipe = a.pipe
  BY <1>2, <1>4 DEF OutType
<1>42. PICK b : b = [e EXCEPT !.tmp = FALSE, !.buf = <<>>]
  OBVIOUS
<1>5. b \in OutType(C) /\ b.tmp = FALSE /\ b.file = a.file /\ b.pos = a.pos /\ b.pipe = a.pipe
  <2>1. <<>> \in Seq(C)
    OBVIOUS
  <2>2. b \in OutType(C)
    BY <1>41, <1>42, <2>1 DEF OutType
  <2>3. b.tmp = FALSE /\ b.file = e.file /\ b.pos = e.pos /\ b.pipe = e.pipe
    BY <1>41, <1>42 DEF OutType
  <2> QED
    BY <1>41, <2>2, <2>3
<1>6. PICK x : x = IF o.relofs > 0 THEN b.flaws \cup {"late_spill"} ELSE b.flaws
  OBVIOUS
<1>7. x \in SUBSET FlawNames
  BY <1>5, <1>6, OutFields DEF FlawNames
<1>8. PICK c : c = [b EXCEPT !.flaws = x]
  OBVIOUS
<1>9. c \in OutType(C) /\ c.tmp = b.tmp /\ c.file = b.file /\ c.pos = b.pos /\ c.pipe = b.pipe
  BY <1>5, <1>7, <1>8 DEF OutType
<1>10. SpillOut(o) = c
  BY <1>1, <1>3, <1>4, <1>42, <1>6, <1>8 DEF SpillOut, CloseTmpoutbuf, Flaw
<1> QED
  BY <1>2, <1>5, <1>9, <1>10

LEMMA PutFdoutType ==
  ASSUME NEW C, Hole \in C, NEW o \in OutType(C), NEW d \in Seq(C)
  PROVE  PutFdout(o, d) \in OutType(C)
<1>1. CASE ~o.tmp
  BY <1>1, WriteFdoutType DEF PutFdout
<1>2. CASE o.tmp /\ o.ofs + Len(d) > o.maxlen
  <2>1. SpillOut(o) \in OutType(C)
    BY SpillOutType
  <2> QED
    BY <1>2, <2>1, WriteFdoutType DEF PutFdout
<1>3. CASE o.tmp /\ ~(o.ofs + Len(d) > o.maxlen)
  <2>1. PICK f \in Seq(C) : f = Overwrite(o.buf, o.ofs, d)
    BY OutFields, OverwriteSeq
  <2>2. PICK p \in Int : p = o.ofs + Len(d)
    BY OutFields, LenProperties
  <2>3. [o EXCEPT !.buf = f, !.ofs = p] \in OutType(C)
    BY DEF OutType
  <2> QED
    BY <1>3, <2>1, <2>2, <2>3 DEF PutFdout
<1> QED
  BY <1>1, <1>2, <1>3

LEMMA WriteBufType ==
  ASSUME NEW C, Hole \in C, NEW o \in OutType(C), NEW d \in Seq(C)
  PROVE  WriteBuf(o, d) \in OutType(C)
BY PutFdoutType DEF WriteBuf

LEMMA SeekOutType ==
  ASSUME NEW C, NEW o \in OutType(C), NEW pos \in Int
  PROVE  SeekOut(o, pos) \in OutType(C)
<1>1. CASE o.tmp
  <2>1. PICK p \in Int : p = pos - o.relofs
    BY OutFields
  <2>2. PICK k \in BOOLEAN : k = (o.ok /\ p \in 0 .. Len(o.buf))
    OBVIOUS
  <2>3. [o EXCEPT !.ofs = p, !.ok = k] \in OutType(C)
    BY DEF OutType
  <2> QED
    BY <1>1, <2>1, <2>2, <2>3 DEF SeekOut
<1>2. CASE ~o.tmp
  BY <1>2 DEF SeekOut, OutType
<1> QED
  BY <1>1, <1>2

LEMMA GetSeekType ==
  ASSUME NEW C, NEW o \in OutType(C)
  PROVE  GetSeek(o) \in Int
BY OutFields DEF GetSeek

LEMMA FlushTmpoutType ==
  ASSUME NEW C, NEW o \in OutType(C)
  PROVE  /\ FlushTmpout(o) \in OutType(C) /\ FlushTmpout(o).tmp = o.tmp
         /\ o.tmp => /\ FlushTmpout(o).pipe = o.pipe \o o.buf /\ FlushTmpout(o).relofs = o.relofs + Len(o.buf)
                     /\ FlushTmpout(o).buf = <<>> /\ FlushTmpout(o).ofs = 0
                     /\ FlushTmpout(o).file = o.file /\ FlushTmpout(o).pos = o.pos
         /\ ~o.tmp => /\ FlushTmpout(o).pipe = o.pipe \o o.file
                      /\ FlushTmpout(o).file = <<>> /\ FlushTmpout(o).pos = 0
<1>1. CASE o.tmp
  <2>1. PICK p \in Seq(C) : p = o.pipe \o o.buf
    BY OutFields, ConcatProperties
  <2>2. PICK x \in Int : x = o.relofs + Len(o.buf)
    BY OutFields, LenProperties
  <2>3. PICK q : q = [o EXCEPT !.pipe = p, !.relofs = x, !.buf = <<>>, !.ofs = 0]
    OBVIOUS
  <2>4. /\ q \in OutType(C) /\ q.tmp = o.tmp /\ q.pipe = p /\ q.relofs = x /\ q.buf = <<>> /\ q.ofs = 0
        /\ q.file = o.file /\ q.pos = o.pos
    <3>1. <<>> \in Seq(C)
      OBVIOUS
    <3>2. q \in OutType(C)
      <4>1. PICK a : a = [o EXCEPT !.pipe = p, !.relofs = x]
        OBVIOUS
      <4>2. a \in OutType(C)
        BY <4>1 DEF OutType
      <4>3. [a EXCEPT !.buf = <<>>, !.ofs = 0] \in OutType(C)
        BY <3>1, <4>2, 0 \in Int, OutSetBuf
      <4>4. [a EXCEPT !.buf = <<>>, !.ofs = 0] = q
        BY <2>3, <4>1
      <4> QED
        BY <4>3, <4>4
    <3>3. /\ q.tmp = o.tmp /\ q.pipe = p /\ q.relofs = x /\ q.buf = <<>> /\ q.ofs = 0
          /\ q.file = o.file /\ q.pos = o.pos
      BY <2>3 DEF OutType
    <3> QED
      BY <3>2, <3>3
  <2>5. FlushTmpout(o) = q
    BY <1>1, <2>1, <2>2, <2>3 DEF FlushTmpout, FlushTmpoutbuf
  <2> QED
    BY <1>1, <2>1, <2>2, <2>4, <2>5
<1>2. CASE ~o.tmp
  <2>1. PICK p \in Seq(C) : p = o.pipe \o o.file
    BY OutFields, ConcatProperties
  <2>2. PICK k \in BOOLEAN : k = (o.ok /\ o.fd)
    OBVIOUS
  <2>3. PICK q : q = [o EXCEPT !.pipe = p, !.file = <<>>, !.pos = 0, !.ok = k]
    OBVIOUS
  <2>4. q \in OutType(C) /\ q.tmp = o.tmp /\ q.pipe = p /\ q.file = <<>> /\ q.pos = 0
    <3>1. <<>> \in Seq(C)
      OBVIOUS
    <3>2. q \in OutType(C)
      <4>1. PICK a : a = [o EXCEPT !.pipe = p, !.file = <<>>]
        OBVIOUS
      <4>2. a \in OutType(C)
        BY <3>1, <4>1 DEF OutType
      <4>3. [a EXCEPT !.pos = 0, !.ok = k] \in OutType(C)
        BY <4>2, 0 \in Int, OutSetPos
      <4>4. [a EXCEPT !.pos = 0, !.ok = k] = q
        BY <2>3, <4>1
      <4> QED
        BY <4>3, <4>4
    <3>3. q.tmp = o.tmp /\ q.pipe = p /\ q.file = <<>> /\ q.pos = 0
      BY <2>3 DEF OutType
    <3> QED
      BY <3>2, <3>3
  <2>5. FlushTmpout(o) = q
    BY <1>2, <2>1, <2>2, <2>3 DEF FlushTmpout, DumpTmpoutfile
  <2> QED
    BY <1>2, <2>1, <2>4, <2>5
<1> QED
  BY <1>1, <1>2, OutFields

LEMMA FileOutType ==
  ASSUME NEW C
  PROVE  FileOut \in OutType(C)
BY DEF FileOut, OutType

LEMMA OpenTmpoutbufType ==
  ASSUME NEW C, Hole \in C, NEW maxlen \in Int, NEW n \in Nat, NEW fd \in BOOLEAN
  PROVE  OpenTmpoutbuf(maxlen, n, fd) \in OutType(C)
<1>1. PICK b : b = [k \in 1 .. n |-> Hole]
  OBVIOUS
<1>2. b = [k \in 1 .. n |-> b[k]] /\ \A k \in 1 .. n : b[k] \in C
  BY <1>1
<1>3. b \in Seq(C)
  BY <1>2, FunctionSeq
<1>4. [FileOut EXCEPT !.tmp = TRUE, !.maxlen = maxlen, !.fd = fd, !.buf = b, !.ofs = n] \in OutType(C)
  <2>1. FileOut \in OutType(C)
    BY FileOutType
  <2>2. PICK f : f = FileOut
    OBVIOUS
  <2>3. PICK a : a = [f EXCEPT !.tmp = TRUE, !.maxlen = maxlen, !.fd = fd]
    OBVIOUS
  <2>4. a \in OutType(C)
    BY <2>1, <2>2, <2>3 DEF OutType
  <2>5. [a EXCEPT !.buf = b, !.ofs = n] \in OutType(C)
    <3>1. n \in Int
      OBVIOUS
    <3> QED
      BY <1>3, <2>4, <3>1, OutSetBuf
  <2>6. PICK e : e = [a EXCEPT !.buf = b, !.ofs = n]
    OBVIOUS
  <2>7. e = [f EXCEPT !.tmp = TRUE, !.maxlen = maxlen, !.fd = fd, !.buf = b, !.ofs = n]
    BY <2>3, <2>6
  <2> QED
    BY <2>2, <2>5, <2>6, <2>7
<1> QED
  BY <1>1, <1>4 DEF OpenTmpoutbuf
LEMMA PutFdoutShape ==
  ASSUME NEW o, Shape(o), NEW d \in Seq(Cell), NEW p, p = PutFdout(o, d)
  PROVE  /\ Shape(p) /\ Pending(p) = Pending(o) \o d /\ p.pipe = o.pipe
         /\ p.tmp => o.tmp /\ p.relofs = o.relofs
<1>0. Hole \in Cell
  BY Cells
<1>1. o \in OutType(Cell)
  BY DEF Shape
<1>2. /\ o.tmp \in BOOLEAN /\ o.buf \in Seq(Cell) /\ o.file \in Seq(Cell) /\ o.ofs \in Int
      /\ o.relofs \in Int /\ o.pos \in Int
  BY <1>1, OutFields
<1>3. p \in OutType(Cell)
  BY <1>0, <1>1, PutFdoutType
<1>4. Len(d) \in Nat /\ Len(o.buf) \in Nat /\ Len(o.file) \in Nat
  BY <1>2, LenProperties
<1>5. CASE ~o.tmp
  <2>1. p = WriteFdout(o, d)
    BY <1>5 DEF PutFdout
  <2>2. /\ p.file = Overwrite(o.file, o.pos, d) /\ p.pos = o.pos + Len(d) /\ p.tmp = o.tmp
        /\ p.pipe = o.pipe
    <3>1. /\ WriteFdout(o, d).file = Overwrite(o.file, o.pos, d) /\ WriteFdout(o, d).pos = o.pos + Len(d)
          /\ WriteFdout(o, d).tmp = o.tmp /\ WriteFdout(o, d).pipe = o.pipe
      BY <1>0, <1>1, WriteFdoutType
    <3> QED
      BY <2>1, <3>1
  <2>3. o.pos = Len(o.file)
    BY <1>5 DEF Shape
  <2>4. p.file = o.file \o d
    BY <1>0, <1>2, <2>2, <2>3, OverwriteAppends
  <2>5. Len(p.file) = Len(o.file) + Len(d)
    BY <1>2, <2>4, ConcatProperties
  <2>6. p.pos = Len(p.file)
    BY <2>2, <2>3, <2>5
  <2> QED
    BY <1>3, <1>5, <2>2, <2>4, <2>6 DEF Shape, Pending
<1>6. CASE o.tmp /\ o.ofs + Len(d) > o.maxlen
  <2>1. PICK q : q = SpillOut(o)
    OBVIOUS
  <2>2. p = WriteFdout(q, d)
    BY <1>6, <2>1 DEF PutFdout
  <2>3. /\ q \in OutType(Cell) /\ q.tmp = FALSE /\ q.file = Overwrite(o.file, o.pos, o.buf)
        /\ q.pos = o.pos + Len(o.buf) /\ q.pipe = o.pipe
    BY <1>0, <1>1, <2>1, SpillOutType
  <2>4. o.file = <<>> /\ o.pos = 0 /\ sc.dout
    BY <1>6 DEF Shape
  <2>5. q.file = o.buf
    <3>1. Overwrite(o.file, Len(o.file), o.buf) = o.file \o o.buf
      BY <1>0, <1>2, OverwriteAppends
    <3>2. o.pos = Len(o.file) /\ o.file \o o.buf = o.buf
      BY <1>2, <2>4
    <3> QED
      BY <2>3, <3>1, <3>2
  <2>6. q.pos = Len(q.file) /\ q.file \in Seq(Cell)
    BY <1>2, <1>4, <2>3, <2>4, <2>5
  <2>7. p.file = Overwrite(q.file, q.pos, d) /\ p.pos = q.pos + Len(d) /\ p.tmp = q.tmp /\ p.pipe = q.pipe
    <3>0. q \in OutType(Cell)
      BY <2>3
    <3>1. /\ WriteFdout(q, d).file = Overwrite(q.file, q.pos, d) /\ WriteFdout(q, d).pos = q.pos + Len(d)
          /\ WriteFdout(q, d).tmp = q.tmp /\ WriteFdout(q, d).pipe = q.pipe
      BY <1>0, <3>0, WriteFdoutType
    <3> QED
      BY <2>2, <3>1
  <2>8. p.file = q.file \o d
    BY <1>0, <2>6, <2>7, OverwriteAppends
  <2>9. Len(p.file) = Len(q.file) + Len(d)
    BY <2>6, <2>8, ConcatProperties
  <2>10. p.pos = Len(p.file) /\ ~p.tmp
    BY <2>3, <2>6, <2>7, <2>9
  <2> QED
    BY <1>3, <1>6, <2>3, <2>4, <2>5, <2>7, <2>8, <2>10 DEF Shape, Pending
<1>7. CASE o.tmp /\ ~(o.ofs + Len(d) > o.maxlen)
  <2>1. PICK f : f = Overwrite(o.buf, o.ofs, d)
    OBVIOUS
  <2>2. PICK n \in Int : n = o.ofs + Len(d)
    BY <1>2, <1>4
  <2>3. p = [o EXCEPT !.buf = f, !.ofs = n]
    BY <1>7, <2>1, <2>2 DEF PutFdout
  <2>4. /\ p.buf = f /\ p.ofs = n /\ p.tmp = o.tmp /\ p.relofs = o.relofs /\ p.pipe = o.pipe
        /\ p.file = o.file /\ p.pos = o.pos
    BY <1>1, <2>3 DEF OutType
  <2>5. o.ofs = Len(o.buf) /\ o.relofs = Len(o.pipe) /\ o.file = <<>> /\ o.pos = 0 /\ sc.dout
    BY <1>7 DEF Shape
  <2>6. f = o.buf \o d
    BY <1>0, <1>2, <2>1, <2>5, OverwriteAppends
  <2>7. Len(f) = n
    BY <1>2, <2>2, <2>5, <2>6, ConcatProperties
  <2> QED
    BY <1>3, <1>7, <2>4, <2>5, <2>6, <2>7 DEF Shape, Pending
<1> QED
  BY <1>2, <1>5, <1>6, <1>7

LEMMA FlushShape ==
  ASSUME NEW o, Shape(o), sc.dout, NEW p, p = FlushTmpout(o)
  PROVE  Shape(p) /\ Pending(p) = <<>> /\ p.pipe = o.pipe \o Pending(o)
<1>1. o \in OutType(Cell)
  BY DEF Shape
<1>2. o.tmp \in BOOLEAN /\ o.buf \in Seq(Cell) /\ o.pipe \in Seq(Cell) /\ o.file \in Seq(Cell)
  BY <1>1, OutFields
<1>3. /\ p \in OutType(Cell) /\ p.tmp = o.tmp
      /\ o.tmp => /\ p.pipe = o.pipe \o o.buf /\ p.relofs = o.relofs + Len(o.buf)
                  /\ p.buf = <<>> /\ p.ofs = 0 /\ p.file = o.file /\ p.pos = o.pos
      /\ ~o.tmp => p.pipe = o.pipe \o o.file /\ p.file = <<>> /\ p.pos = 0
  BY <1>1, FlushTmpoutType
<1>4. CASE o.tmp
  <2>1. o.relofs = Len(o.pipe) /\ o.file = <<>> /\ o.pos = 0
    BY <1>4 DEF Shape
  <2>2. p.relofs = Len(p.pipe)
    <3>1. Len(o.pipe \o o.buf) = Len(o.pipe) + Len(o.buf)
      BY <1>2, ConcatProperties
    <3> QED
      BY <1>3, <1>4, <2>1, <3>1
  <2>3. p.ofs = Len(p.buf)
    BY <1>3, <1>4
  <2> QED
    BY <1>3, <1>4, <2>1, <2>2, <2>3 DEF Shape, Pending
<1>5. CASE ~o.tmp
  <2>1. p.pos = Len(p.file)
    BY <1>3, <1>5
  <2> QED
    BY <1>3, <1>5, <2>1 DEF Shape, Pending
<1> QED
  BY <1>2, <1>4, <1>5
----------------------------------------------------------------------------
(* The operations on an input. *)

LEMMA InFields ==
  ASSUME NEW i \in InType(Cell)
  PROVE  /\ i.tmp \in BOOLEAN /\ i.ok \in BOOLEAN /\ i.buf \in Seq(Cell) /\ i.rest \in Seq(Cell)
         /\ i.file \in Seq(Cell) /\ i.got \in Seq(Cell) /\ i.len \in Nat /\ i.ofs \in Nat /\ i.pos \in Nat
         /\ i.maxlen \in Nat /\ i.flaws \in SUBSET FlawNames
BY DEF InType

LEMMA FlawIn ==
  ASSUME NEW i, InOk(i), NEW cond \in BOOLEAN, NEW name \in FlawNames, NEW j, j = Flaw(i, cond, name)
  PROVE  InOk(j) /\ j.got = i.got /\ j.ok = i.ok /\ j.tmp = i.tmp /\ j.ofs = i.ofs /\ j.pos = i.pos
<1>1. i \in InType(Cell) /\ i.flaws \in SUBSET FlawNames
  BY InFields DEF InOk
<1>2. PICK x \in SUBSET FlawNames : x = IF cond THEN i.flaws \cup {name} ELSE i.flaws
  BY <1>1
<1>3. j = [i EXCEPT !.flaws = x]
  BY <1>2 DEF Flaw
<1>4. j \in InType(Cell)
  BY <1>1, <1>3 DEF InType
<1>5. /\ j.got = i.got /\ j.ok = i.ok /\ j.tmp = i.tmp /\ j.ofs = i.ofs /\ j.pos = i.pos
      /\ j.len = i.len /\ j.buf = i.buf
  BY <1>1, <1>3 DEF InType
<1> QED
  BY <1>4, <1>5 DEF InOk

LEMMA NoCells ==
  ASSUME NEW n \in Nat
  PROVE  Peek(<<>>, 0, n) \in Seq(Cell) /\ Len(Peek(<<>>, 0, n)) = n
<1>1. Hole \in Cell /\ <<>> \in Seq(Cell) /\ 0 \in Nat
  BY Cells
<1> QED
  BY <1>1, PeekSeq

LEMMA ReadFileIn ==
  ASSUME NEW i, InOk(i), NEW n \in Nat, NEW j, j = ReadFile(i, n)
  PROVE  InOk(j) /\ Len(j.got) = n
<1>1. i \in InType(Cell)
  BY DEF InOk
<1>2. i.file \in Seq(Cell) /\ i.pos \in Nat /\ Hole \in Cell
  BY <1>1, InFields, Cells
<1>3. PICK g : g = Peek(i.file, i.pos, n)
  OBVIOUS
<1>31. g \in Seq(Cell) /\ Len(g) = n
  BY <1>2, <1>3, PeekSeq
<1>4. PICK m \in Nat : m = i.pos + n
  BY <1>2
<1>5. PICK k \in BOOLEAN : k = (i.ok /\ i.pos + n <= Len(i.file))
  OBVIOUS
<1>6. j = [i EXCEPT !.got = g, !.pos = m, !.ok = k]
  BY <1>3, <1>4, <1>5 DEF ReadFile
<1>7. j \in InType(Cell) /\ j.got = g /\ j.tmp = i.tmp /\ j.len = i.len /\ j.buf = i.buf
  <2>1. j \in InType(Cell)
    BY <1>1, <1>31, <1>6 DEF InType
  <2> QED
    BY <1>1, <1>6, <2>1 DEF InType
<1> QED
  BY <1>31, <1>7 DEF InOk

LEMMA CopyInIn ==
  ASSUME NEW i, InOk(i), NEW n \in Nat, NEW j, j = CopyIn(i, n)
  PROVE  InOk(j) /\ Len(j.got) = n
<1>1. i \in InType(Cell)
  BY DEF InOk
<1>2. i.buf \in Seq(Cell) /\ i.ofs \in Nat /\ Hole \in Cell
  BY <1>1, InFields, Cells
<1>3. PICK g : g = Peek(i.buf, i.ofs, n)
  OBVIOUS
<1>31. g \in Seq(Cell) /\ Len(g) = n
  BY <1>2, <1>3, PeekSeq
<1>4. PICK m \in Nat : m = i.ofs + n
  BY <1>2
<1>5. j = [i EXCEPT !.got = g, !.ofs = m]
  BY <1>3, <1>4 DEF CopyIn
<1>6. j \in InType(Cell) /\ j.got = g /\ j.tmp = i.tmp /\ j.len = i.len /\ j.buf = i.buf
  <2>1. j \in InType(Cell)
    BY <1>1, <1>31, <1>5 DEF InType
  <2> QED
    BY <1>1, <1>5, <2>1 DEF InType
<1> QED
  BY <1>31, <1>6 DEF InOk

LEMMA GetcharsIn ==
  ASSUME NEW i, InOk(i), NEW n \in Nat, NEW j, j = Getchars(i, n)
  PROVE  /\ InOk(j) /\ Len(j.got) = n
         /\ j.tmp = i.tmp /\ j.buf = i.buf /\ j.len = i.len /\ j.ofs = i.ofs
<1>1. i \in InType(Cell)
  BY DEF InOk
<1>2. i.rest \in Seq(Cell)
  BY <1>1, InFields
<1>3. CASE n > Len(i.rest)
  <2>1. PICK g \in Seq(Cell) : g = Peek(<<>>, 0, n) /\ Len(g) = n
    BY NoCells
  <2>2. j = [i EXCEPT !.ok = FALSE, !.got = g]
    BY <1>3, <2>1 DEF Getchars
  <2>3. j \in InType(Cell)
    BY <1>1, <2>2 DEF InType
  <2>4. j.got = g /\ j.tmp = i.tmp /\ j.buf = i.buf /\ j.len = i.len /\ j.ofs = i.ofs
    BY <1>1, <2>2 DEF InType
  <2> QED
    BY <2>1, <2>3, <2>4 DEF InOk
<1>4. CASE ~(n > Len(i.rest))
  <2>0. Len(i.rest) \in Nat
    BY <1>2, LenProperties
  <2>1. PICK g \in Seq(Cell) : g = SubSeq(i.rest, 1, n) /\ Len(g) = n
    <3>1. n <= Len(i.rest) /\ 1 \in Nat \ {0} /\ n \in Int
      BY <1>4, <2>0
    <3>2. /\ SubSeq(i.rest, 1, n) \in Seq(Cell)
          /\ Len(SubSeq(i.rest, 1, n)) = IF 1 <= n THEN n - 1 + 1 ELSE 0
      BY <1>2, <3>1, PartSeq
    <3>3. Len(SubSeq(i.rest, 1, n)) = n
      BY <3>2
    <3> QED
      BY <3>2, <3>3
  <2>2. PICK t \in Seq(Cell) : t = SubSeq(i.rest, n + 1, Len(i.rest))
    <3>1. n + 1 \in Nat \ {0} /\ Len(i.rest) \in Int /\ Len(i.rest) <= Len(i.rest)
      BY <2>0
    <3> QED
      BY <1>2, <3>1, PartSeq
  <2>3. j = [i EXCEPT !.got = g, !.rest = t]
    BY <1>4, <2>1, <2>2 DEF Getchars
  <2>4. j \in InType(Cell)
    BY <1>1, <2>3 DEF InType
  <2>5. j.got = g /\ j.tmp = i.tmp /\ j.buf = i.buf /\ j.len = i.len /\ j.ofs = i.ofs
    BY <1>1, <2>3 DEF InType
  <2> QED
    BY <2>1, <2>4, <2>5 DEF InOk
<1> QED
  BY <1>3, <1>4

LEMMA ReadFdinIn ==
  ASSUME NEW i, InOk(i), NEW n \in Nat, NEW j, j = ReadFdin(i, n)
  PROVE  InOk(j) /\ j.tmp = i.tmp /\ j.ofs = i.ofs
<1>1. i \in InType(Cell)
  BY DEF InOk
<1>2. i.buf \in Seq(Cell) /\ i.ofs \in Nat /\ Hole \in Cell
  BY <1>1, InFields, Cells
<1>3. PICK c : c = Getchars(i, n)
  OBVIOUS
<1>4. InOk(c) /\ Len(c.got) = n /\ c.tmp = i.tmp /\ c.buf = i.buf /\ c.ofs = i.ofs
  BY <1>3, GetcharsIn
<1>5. c \in InType(Cell) /\ c.got \in Seq(Cell)
  BY <1>4, InFields DEF InOk
<1>6. PICK b : b = Overwrite(i.buf, i.ofs, c.got)
  OBVIOUS
<1>7. b \in Seq(Cell) /\ Len(b) = IF i.ofs + Len(c.got) > Len(i.buf) THEN i.ofs + Len(c.got) ELSE Len(i.buf)
  <2>1. i.ofs \in Int
    BY <1>2
  <2> QED
    BY <1>2, <1>5, <1>6, <2>1, OverwriteSeq
<1>8. PICK m \in Nat : m = i.ofs + n
  BY <1>2
<1>9. m <= Len(b)
  BY <1>2, <1>4, <1>7, <1>8, LenProperties
<1>10. PICK e : e = [c EXCEPT !.buf = b, !.len = m]
  OBVIOUS
<1>11. e \in InType(Cell) /\ e.buf = b /\ e.len = m /\ e.tmp = c.tmp /\ e.ofs = c.ofs
  <2>1. c \in InType(Cell) /\ b \in Seq(Cell)
    BY <1>5, <1>7
  <2>2. e \in InType(Cell)
    BY <1>10, <2>1 DEF InType
  <2> QED
    BY <1>10, <2>1, <2>2 DEF InType
<1>12. InOk(e)
  BY <1>9, <1>11 DEF InOk
<1>121. PICK f \in BOOLEAN : f = (i.ofs # i.len)
  OBVIOUS
<1>13. j = Flaw(e, f, "gap_read")
  BY <1>3, <1>4, <1>6, <1>8, <1>10, <1>121 DEF ReadFdin
<1>14. "gap_read" \in FlawNames
  BY DEF FlawNames
<1>15. InOk(j) /\ j.tmp = e.tmp /\ j.ofs = e.ofs
  BY <1>12, <1>13, <1>14, FlawIn
<1> QED
  BY <1>4, <1>11, <1>15
LEMMA DumpStdinIn ==
  ASSUME NEW i, InOk(i), i.tmp, NEW j, j = DumpStdin(i)
  PROVE  InOk(j) /\ j.tmp = FALSE
<1>1. i \in InType(Cell) /\ i.len <= Len(i.buf)
  BY DEF InOk
<1>2. i.buf \in Seq(Cell) /\ i.file \in Seq(Cell) /\ i.rest \in Seq(Cell) /\ i.len \in Nat
  BY <1>1, InFields
<1>3. PICK b : b = SubSeq(i.buf, 1, i.len)
  OBVIOUS
<1>4. b \in Seq(Cell)
  <2>1. 1 \in Nat \ {0} /\ i.len \in Int
    BY <1>2
  <2> QED
    BY <1>1, <1>2, <1>3, <2>1, PartSeq
<1>5. PICK f : f = i.file \o b
  OBVIOUS
<1>6. f \in Seq(Cell)
  BY <1>2, <1>4, <1>5, ConcatProperties
<1>7. PICK c : c = [i EXCEPT !.file = f]
  OBVIOUS
<1>8. c \in InType(Cell) /\ c.file = f /\ c.rest = i.rest
  BY <1>1, <1>6, <1>7 DEF InType
<1>9. PICK g : g = f \o i.rest
  OBVIOUS
<1>10. g \in Seq(Cell)
  BY <1>2, <1>6, <1>9, ConcatProperties
<1>11. PICK d : d = [c EXCEPT !.file = g, !.rest = <<>>, !.pos = 0]
  OBVIOUS
<1>12. d \in InType(Cell)
  <2>1. c \in InType(Cell) /\ <<>> \in Seq(Cell)
    BY <1>8
  <2> QED
    BY <1>10, <1>11, <2>1 DEF InType
<1>13. PICK e : e = [d EXCEPT !.tmp = FALSE, !.buf = <<>>]
  OBVIOUS
<1>14. e \in InType(Cell) /\ e.tmp = FALSE
  <2>1. <<>> \in Seq(Cell)
    OBVIOUS
  <2>2. e \in InType(Cell)
    BY <1>12, <1>13, <2>1 DEF InType
  <2> QED
    BY <1>12, <1>13, <2>2 DEF InType
<1>15. WriteFdin(i) = c
  BY <1>3, <1>5, <1>7 DEF WriteFdin
<1>16. ReadTmpinfile(c) = d
  BY <1>8, <1>9, <1>11 DEF ReadTmpinfile
<1>17. j = e
  BY <1>13, <1>15, <1>16 DEF DumpStdin, CloseTmpinbuf
<1> QED
  BY <1>14, <1>17 DEF InOk

LEMMA ReadAllIn ==
  ASSUME NEW i, InOk(i), NEW n \in Nat, NEW j, j = ReadAll(i, n)
  PROVE  InOk(j) /\ Len(j.got) = n
<1>1. i \in InType(Cell)
  BY DEF InOk
<1>2. i.tmp \in BOOLEAN /\ i.ofs \in Nat /\ i.len \in Nat /\ i.maxlen \in Nat
  BY <1>1, InFields
<1>3. CASE ~i.tmp
  BY <1>3, ReadFileIn DEF ReadAll
<1>4. CASE i.tmp /\ i.ofs + n > i.maxlen
  <2>1. PICK d : d = DumpStdin(i)
    OBVIOUS
  <2>2. InOk(d)
    BY <1>4, <2>1, DumpStdinIn
  <2>3. PICK c \in BOOLEAN : c = (i.ofs > 0)
    <3>1. CASE i.ofs > 0
      BY <3>1
    <3>2. CASE ~(i.ofs > 0)
      <4>1. (i.ofs > 0) = FALSE
        BY <3>2
      <4> QED
        BY <4>1, Zenon
    <3> QED
      BY <3>1, <3>2
  <2>4. PICK e : e = Flaw(d, c, "dump_read")
    OBVIOUS
  <2>5. "dump_read" \in FlawNames
    BY DEF FlawNames
  <2>6. InOk(e)
    BY <2>2, <2>4, <2>5, FlawIn
  <2>7. j = ReadFile(e, n)
    BY <1>4, <2>1, <2>3, <2>4 DEF ReadAll
  <2> QED
    BY <2>6, <2>7, ReadFileIn
<1>5. CASE i.tmp /\ ~(i.ofs + n > i.maxlen) /\ i.ofs + n > i.len
  <2>1. PICK m \in Nat : m = i.ofs + n - i.len
    BY <1>2, <1>5
  <2>2. PICK d : d = ReadFdin(i, m)
    OBVIOUS
  <2>3. InOk(d)
    BY <2>2, ReadFdinIn
  <2>4. j = CopyIn(d, n)
    BY <1>5, <2>1, <2>2 DEF ReadAll
  <2> QED
    BY <2>3, <2>4, CopyInIn
<1>6. CASE i.tmp /\ ~(i.ofs + n > i.maxlen) /\ ~(i.ofs + n > i.len)
  <2>1. j = CopyIn(i, n)
    BY <1>6 DEF ReadAll
  <2> QED
    BY <2>1, CopyInIn
<1> QED
  BY <1>2, <1>3, <1>4, <1>5, <1>6

LEMMA ReadBufIn ==
  ASSUME NEW i, InOk(i), NEW n \in Nat, NEW j, j = ReadBuf(i, n)
  PROVE  InOk(j) /\ Len(j.got) = n
<1>1. CASE i.ok
  BY <1>1, ReadAllIn DEF ReadBuf
<1>2. CASE ~i.ok
  <2>1. PICK g : g = Peek(<<>>, 0, n)
    OBVIOUS
  <2>2. g \in Seq(Cell) /\ Len(g) = n
    BY <2>1, NoCells
  <2>3. j = [i EXCEPT !.got = g]
    BY <1>2, <2>1 DEF ReadBuf
  <2>4. i \in InType(Cell)
    BY DEF InOk
  <2>5. j \in InType(Cell)
    BY <2>2, <2>3, <2>4 DEF InType
  <2>6. j.got = g /\ j.tmp = i.tmp /\ j.len = i.len /\ j.buf = i.buf
    BY <2>3, <2>4 DEF InType
  <2> QED
    BY <2>2, <2>5, <2>6 DEF InOk
<1> QED
  BY <1>1, <1>2

\* What a read returns is made of cells.
LEMMA GotCells ==
  ASSUME NEW i, InOk(i), NEW k \in 1 .. Len(i.got)
  PROVE  i.got[k] \in Cell
<1>1. i \in InType(Cell)
  BY DEF InOk
<1>2. i.got \in Seq(Cell)
  BY <1>1, InFields
<1> QED
  BY <1>2, ElementOfSeq

LEMMA ReadSeektoIn ==
  ASSUME NEW i, InOk(i), NEW pos \in Nat, NEW j, j = ReadSeekto(i, pos)
  PROVE  InOk(j)
<1>1. i \in InType(Cell)
  BY DEF InOk
<1>2. i.tmp \in BOOLEAN /\ i.ofs \in Nat /\ i.len \in Nat /\ i.maxlen \in Nat
  BY <1>1, InFields
<1>3. CASE ~i.tmp
  <2>1. j = [i EXCEPT !.pos = pos]
    BY <1>3 DEF ReadSeekto
  <2>2. j \in InType(Cell) /\ j.tmp = i.tmp
    BY <1>1, <2>1 DEF InType
  <2> QED
    BY <1>3, <2>2 DEF InOk
<1>4. CASE i.tmp /\ pos <= i.len
  <2>1. j = [i EXCEPT !.ofs = pos]
    BY <1>4 DEF ReadSeekto
  <2>2. j \in InType(Cell)
    BY <1>1, <2>1 DEF InType
  <2>3. j.len = i.len /\ j.buf = i.buf
    BY <1>1, <2>1 DEF InType
  <2> QED
    BY <1>4, <2>2, <2>3 DEF InOk
<1>5. CASE i.tmp /\ ~(pos <= i.len) /\ i.ofs + pos - i.len > i.maxlen
  <2>1. PICK d : d = DumpStdin(i)
    OBVIOUS
  <2>2. InOk(d) /\ d.tmp = FALSE
    BY <1>5, <2>1, DumpStdinIn
  <2>3. j = [d EXCEPT !.pos = pos]
    BY <1>5, <2>1 DEF ReadSeekto
  <2>4. d \in InType(Cell)
    BY <2>2 DEF InOk
  <2>5. j \in InType(Cell) /\ j.tmp = d.tmp
    BY <2>3, <2>4 DEF InType
  <2> QED
    BY <2>2, <2>5 DEF InOk
<1>6. CASE i.tmp /\ ~(pos <= i.len) /\ ~(i.ofs + pos - i.len > i.maxlen)
  <2>1. PICK m \in Nat : m = pos - i.len
    BY <1>2, <1>6
  <2>2. PICK d : d = ReadFdin(i, m)
    OBVIOUS
  <2>3. InOk(d)
    BY <2>2, ReadFdinIn
  <2>4. j = [d EXCEPT !.ofs = pos]
    BY <1>6, <2>1, <2>2 DEF ReadSeekto
  <2>5. d \in InType(Cell)
    BY <2>3 DEF InOk
  <2>6. j \in InType(Cell)
    BY <2>4, <2>5 DEF InType
  <2>7. j.len = d.len /\ j.buf = d.buf /\ j.tmp = d.tmp
    BY <2>4, <2>5 DEF InType
  <2> QED
    BY <2>3, <2>6, <2>7 DEF InOk
<1> QED
  BY <1>2, <1>3, <1>4, <1>5, <1>6

LEMMA ClearTmpinbufIn ==
  ASSUME NEW i, InOk(i), NEW j, j = ClearTmpinbuf(i)
  PROVE  InOk(j)
<1>1. i \in InType(Cell)
  BY DEF InOk
<1>2. i.tmp \in BOOLEAN /\ i.ofs \in Nat /\ i.len \in Nat /\ i.buf \in Seq(Cell) /\ Hole \in Cell
  BY <1>1, InFields, Cells
<1>3. CASE ~i.tmp
  BY <1>3 DEF ClearTmpinbuf
<1>4. CASE i.tmp /\ i.ofs < i.len
  <2>0. i.len <= Len(i.buf)
    BY <1>4 DEF InOk
  <2>1. PICK t : t = SubSeq(i.buf, i.ofs + 1, i.len)
    OBVIOUS
  <2>2. t \in Seq(Cell) /\ Len(t) = i.len - i.ofs
    <3>1. i.ofs + 1 \in Nat \ {0} /\ i.len \in Int
      BY <1>2
    <3>2. t \in Seq(Cell) /\ Len(t) = IF i.ofs + 1 <= i.len THEN i.len - (i.ofs + 1) + 1 ELSE 0
      BY <1>2, <2>0, <2>1, <3>1, PartSeq
    <3> QED
      BY <1>2, <1>4, <3>2
  <2>3. PICK b : b = Overwrite(i.buf, 0, t)
    OBVIOUS
  <2>4. b \in Seq(Cell) /\ Len(b) = IF 0 + Len(t) > Len(i.buf) THEN 0 + Len(t) ELSE Len(i.buf)
    BY <1>2, <2>2, <2>3, 0 \in Int, OverwriteSeq
  <2>5. PICK m \in Nat : m = i.len - i.ofs
    BY <1>2, <1>4
  <2>6. m <= Len(b)
    BY <1>2, <2>2, <2>4, <2>5, LenProperties
  <2>7. PICK c : c = [i EXCEPT !.buf = b, !.len = m, !.ofs = 0]
    OBVIOUS
  <2>8. c \in InType(Cell)
    BY <1>1, <2>4, <2>7 DEF InType
  <2>9. c.buf = b /\ c.len = m
    BY <1>1, <2>7 DEF InType
  <2>10. j = c
    BY <1>4, <2>1, <2>3, <2>5, <2>7 DEF ClearTmpinbuf
  <2> QED
    BY <2>6, <2>8, <2>9, <2>10 DEF InOk
<1>5. CASE i.tmp /\ ~(i.ofs < i.len)
  <2>0. PICK z \in Nat : z = 0
    OBVIOUS
  <2>1. j = [i EXCEPT !.len = z, !.ofs = z]
    BY <1>5, <2>0 DEF ClearTmpinbuf
  <2>2. j \in InType(Cell)
    BY <1>1, <2>1 DEF InType
  <2>3. j.len = 0 /\ j.buf = i.buf
    BY <1>1, <2>0, <2>1 DEF InType
  <2>4. 0 <= Len(i.buf)
    BY <1>2, LenProperties
  <2> QED
    BY <2>2, <2>3, <2>4 DEF InOk
<1> QED
  BY <1>2, <1>3, <1>4, <1>5

LEMMA SeekFdinendIn ==
  ASSUME NEW i, InOk(i), NEW j, j = SeekFdinend(i)
  PROVE  InOk(j)
<1>1. i \in InType(Cell)
  BY DEF InOk
<1>2. /\ i.tmp \in BOOLEAN /\ i.len \in Nat /\ i.buf \in Seq(Cell) /\ i.rest \in Seq(Cell)
      /\ i.file \in Seq(Cell) /\ Hole \in Cell
  BY <1>1, InFields, Cells
<1>3. Len(i.rest) \in Nat /\ Len(i.file) \in Nat /\ Len(i.buf) \in Nat
  BY <1>2, LenProperties
<1>4. CASE ~i.tmp
  <2>1. j = [i EXCEPT !.pos = Len(i.file)]
    BY <1>4 DEF SeekFdinend
  <2>2. j \in InType(Cell) /\ j.tmp = i.tmp
    BY <1>1, <1>3, <2>1 DEF InType
  <2> QED
    BY <1>4, <2>2 DEF InOk
<1>5. CASE i.tmp /\ i.len + Len(i.rest) > i.maxlen
  <2>1. j = [i EXCEPT !.ok = FALSE]
    BY <1>5 DEF SeekFdinend
  <2>2. j \in InType(Cell) /\ j.len = i.len /\ j.buf = i.buf /\ j.tmp = i.tmp
    <3>1. PICK k \in BOOLEAN : k = FALSE
      OBVIOUS
    <3>2. j = [i EXCEPT !.ok = k]
      BY <2>1, <3>1
    <3>3. j \in InType(Cell)
      BY <1>1, <3>2 DEF InType
    <3> QED
      BY <1>1, <3>2, <3>3 DEF InType
  <2> QED
    BY <2>2 DEF InOk
<1>6. CASE i.tmp /\ ~(i.len + Len(i.rest) > i.maxlen)
  <2>1. PICK b : b = Overwrite(i.buf, i.len, i.rest)
    OBVIOUS
  <2>2. PICK n \in Nat : n = i.len + Len(i.rest)
    BY <1>2, <1>3
  <2>3. b \in Seq(Cell) /\ Len(b) = IF i.len + Len(i.rest) > Len(i.buf) THEN i.len + Len(i.rest) ELSE Len(i.buf)
    <3>1. i.len \in Int
      BY <1>2
    <3> QED
      BY <1>2, <2>1, <3>1, OverwriteSeq
  <2>4. n <= Len(b)
    BY <1>2, <1>3, <2>2, <2>3
  <2>5. PICK c : c = [i EXCEPT !.buf = b, !.len = n]
    OBVIOUS
  <2>6. c \in InType(Cell) /\ c.buf = b /\ c.len = n
    BY <1>1, <2>3, <2>5 DEF InType
  <2>7. PICK d : d = [c EXCEPT !.ofs = n, !.rest = <<>>]
    OBVIOUS
  <2>8. d \in InType(Cell)
    <3>1. <<>> \in Seq(Cell) /\ c \in InType(Cell)
      BY <2>6
    <3> QED
      BY <2>7, <3>1 DEF InType
  <2>9. d.buf = c.buf /\ d.len = c.len
    BY <2>6, <2>7 DEF InType
  <2>10. j = d
    BY <1>6, <2>1, <2>2, <2>5, <2>7 DEF SeekFdinend
  <2> QED
    BY <2>4, <2>6, <2>8, <2>9, <2>10 DEF InOk
<1> QED
  BY <1>2, <1>4, <1>5, <1>6

\* The digest compared is a cell of the archive.
LEMMA TrailerCell ==
  ASSUME NEW i, InOk(i), TrailerIn(i).ok
  PROVE  TrailerIn(i).got[1] \in Cell
<1>1. PICK e : e = SeekFdinend(i)
  OBVIOUS
<1>2. InOk(e)
  BY <1>1, SeekFdinendIn
<1>3. e \in InType(Cell)
  BY <1>2 DEF InOk
<1>4. e.tmp \in BOOLEAN /\ e.ofs \in Nat /\ e.pos \in Nat /\ e.len \in Nat /\ e.maxlen \in Nat
  BY <1>3, InFields
<1>5. PICK p \in Int : p = GetReadseek(e) - 1
  BY <1>4 DEF GetReadseek
<1>6. PICK f : f = SeekFdin(e, p)
  OBVIOUS
<1>7. PICK j : j = ReadAll(f, 1)
  OBVIOUS
<1>8. j = TrailerIn(i)
  BY <1>1, <1>5, <1>6, <1>7 DEF TrailerIn
<1>9. CASE p >= 0
  <2>1. ASSUME e.tmp PROVE InOk(f)
    <3>1. PICK k \in BOOLEAN : k = (e.ok /\ p \in 0 .. e.len)
      OBVIOUS
    <3>2. f = [e EXCEPT !.ofs = p, !.ok = k]
      BY <1>6, <2>1, <3>1 DEF SeekFdin
    <3>3. p \in Nat
      BY <1>9
    <3>4. f \in InType(Cell)
      BY <1>3, <3>2, <3>3 DEF InType
    <3>5. f.len = e.len /\ f.buf = e.buf /\ f.tmp = e.tmp
      BY <1>3, <3>2 DEF InType
    <3> QED
      BY <1>2, <3>4, <3>5 DEF InOk
  <2>2. ASSUME ~e.tmp PROVE InOk(f)
    <3>1. PICK k \in BOOLEAN : k = (e.ok /\ p >= 0)
      OBVIOUS
    <3>2. f = [e EXCEPT !.pos = p, !.ok = k]
      BY <1>6, <2>2, <3>1 DEF SeekFdin
    <3>3. p \in Nat
      BY <1>9
    <3>4. f \in InType(Cell)
      BY <1>3, <3>2, <3>3 DEF InType
    <3>5. f.tmp = e.tmp
      BY <1>3, <3>2 DEF InType
    <3> QED
      BY <2>2, <3>4, <3>5 DEF InOk
  <2>3. InOk(f)
    BY <1>4, <2>1, <2>2
  <2>4. InOk(j) /\ Len(j.got) = 1
    BY <1>7, <2>3, ReadAllIn
  <2>5. 1 \in 1 .. Len(j.got)
    BY <2>4
  <2>6. j.got[1] \in Cell
    BY <2>4, <2>5, GotCells
  <2> QED
    BY <1>8, <2>6
<1>10. CASE ~(p >= 0)
  <2>1. p = -1
    BY <1>4, <1>5, <1>10 DEF GetReadseek
  <2>2. CASE e.tmp
    <3>1. f = [e EXCEPT !.ofs = p, !.ok = FALSE]
      <4>1. (e.ok /\ p \in 0 .. e.len) = FALSE
        BY <1>4, <1>10
      <4> QED
        BY <1>6, <2>2, <4>1 DEF SeekFdin
    <3>2. f.tmp /\ f.ofs = p /\ f.ok = FALSE /\ f.len = e.len /\ f.maxlen = e.maxlen
      BY <1>3, <2>2, <3>1 DEF InType
    <3>3. j = CopyIn(f, 1)
      BY <1>4, <1>7, <2>1, <3>2 DEF ReadAll
    <3>4. j.ok = f.ok
      <4>1. PICK g : g = Peek(f.buf, f.ofs, 1)
        OBVIOUS
      <4>2. PICK m : m = f.ofs + 1
        OBVIOUS
      <4>3. j = [f EXCEPT !.got = g, !.ofs = m]
        BY <3>3, <4>1, <4>2 DEF CopyIn
      <4>4. j = [[e EXCEPT !.ofs = p, !.ok = FALSE] EXCEPT !.got = g, !.ofs = m]
        BY <3>1, <4>3
      <4> QED
        BY <1>3, <3>2, <4>4 DEF InType
    <3> QED
      BY <1>8, <3>2, <3>4
  <2>3. CASE ~e.tmp
    <3>1. f = [e EXCEPT !.pos = p, !.ok = FALSE]
      BY <1>6, <1>10, <2>3 DEF SeekFdin
    <3>2. ~f.tmp /\ f.ok = FALSE
      BY <1>3, <2>3, <3>1 DEF InType
    <3>3. PICK g : g = Peek(f.file, f.pos, 1)
      OBVIOUS
    <3>4. PICK m : m = f.pos + 1
      OBVIOUS
    <3>5. j = [f EXCEPT !.got = g, !.pos = m, !.ok = FALSE]
      BY <1>7, <3>2, <3>3, <3>4 DEF ReadAll, ReadFile
    <3>6. j = [[e EXCEPT !.pos = p, !.ok = FALSE] EXCEPT !.got = g, !.pos = m, !.ok = FALSE]
      BY <3>1, <3>5
    <3>7. j.ok = FALSE
      BY <1>3, <3>6 DEF InType
    <3> QED
      BY <1>8, <3>7
  <2> QED
    BY <1>4, <2>2, <2>3
<1> QED
  BY <1>9, <1>10
----------------------------------------------------------------------------
(* The compressor writes plain cells until the trailer. *)

LEMMA Division ==
  ASSUME NEW a \in Nat, NEW b \in Nat \ {0}
  PROVE  a \div b \in Nat /\ b * (a \div b) \in Nat /\ (a \div b) * b <= a
<1>1. PICK q : q = a \div b
  OBVIOUS
<1>2. q \in Nat /\ b * q <= a
  BY <1>1, SMTT(30)
<1>3. b * q \in Nat /\ q * b = b * q
  BY <1>2, SMTT(30)
<1> QED
  BY <1>1, <1>2, <1>3

LEMMA BlockEnds ==
  ASSUME NEW a \in Nat, NEW b \in Nat \ {0}, NEW j \in 1 .. (a \div b)
  PROVE  (j - 1) * b + 1 \in Nat \ {0} /\ j * b \in Nat /\ j * b <= a
<1>1. PICK q \in Nat : q = a \div b /\ q * b <= a
  BY Division
<1>2. j \in Nat /\ j <= q /\ j >= 1
  BY <1>1
<1>3. PICK k \in Nat : k = q - j
  BY <1>2
<1>4. PICK i \in Nat : i = j - 1
  BY <1>2
<1>5. k * b \in Nat /\ i * b \in Nat /\ j * b \in Nat
  BY <1>2
<1>6. q * b = j * b + k * b
  <2>1. q = j + k
    BY <1>1, <1>2, <1>3
  <2> QED
    BY <1>2, <2>1
<1> QED
  BY <1>1, <1>4, <1>5, <1>6

LEMMA BlocksSeq ==
  ASSUME NEW s \in {1, 2}, NEW t \in Seq(PlainCell)
  PROVE  Blocks(s, t) \in Seq({1, 2} \X Seq(PlainCell))
<1>1. BufSize \in Nat \ {0}
  BY ArchiveAssumption
<1>2. Len(t) \in Nat
  BY LenProperties
<1>3. PICK n \in Nat : n = Len(t) \div BufSize
  BY <1>1, <1>2, Division
<1>4. PICK f : f = [j \in 1 .. n |-> <<s, SubSeq(t, (j - 1) * BufSize + 1, j * BufSize)>>]
  OBVIOUS
<1>5. ASSUME NEW j \in 1 .. n PROVE f[j] \in {1, 2} \X Seq(PlainCell)
  <2>1. (j - 1) * BufSize + 1 \in Nat \ {0} /\ j * BufSize \in Nat /\ j * BufSize <= Len(t)
    BY <1>1, <1>2, <1>3, BlockEnds
  <2>2. PICK u : u = SubSeq(t, (j - 1) * BufSize + 1, j * BufSize)
    OBVIOUS
  <2>3. u \in Seq(PlainCell)
    <3>1. j * BufSize \in Int
      BY <2>1
    <3> QED
      BY <2>1, <2>2, <3>1, PartSeq
  <2>4. f[j] = <<s, u>>
    BY <1>4, <2>2
  <2> QED
    BY <2>3, <2>4
<1>6. f = [j \in 1 .. n |-> f[j]]
  BY <1>4
<1>7. f \in Seq({1, 2} \X Seq(PlainCell))
  BY <1>5, <1>6, FunctionSeq
<1> QED
  BY <1>3, <1>4, <1>7 DEF Blocks

LEMMA ChunkFields ==
  ASSUME NEW c \in ChunkType
  PROVE  /\ c.buf \in Seq(Int) /\ c.size \in Int /\ c.left \in Int
         /\ c.s \in [1 .. 2 -> Seq(PlainCell)] /\ c.s[1] \in Seq(PlainCell) /\ c.s[2] \in Seq(PlainCell)
         /\ c.queue \in Seq({1, 2} \X Seq(PlainCell)) /\ c.begun \in BOOLEAN
         /\ c.initial \in Int /\ c.cur \in Nat /\ c.head \in [1 .. 2 -> Int]
         /\ c.head[1] \in Int /\ c.head[2] \in Int
<1>1. /\ c.buf \in Seq(Int) /\ c.size \in Int /\ c.left \in Int
      /\ c.s \in [1 .. 2 -> Seq(PlainCell)]
      /\ c.queue \in Seq({1, 2} \X Seq(PlainCell)) /\ c.begun \in BOOLEAN
      /\ c.initial \in Int /\ c.cur \in Nat /\ c.head \in [1 .. 2 -> Int]
  BY DEF ChunkType
<1> QED
  BY <1>1

LEMMA WriteStreamType ==
  ASSUME NEW c \in ChunkType, NEW s \in {1, 2}, NEW d \in Seq(PlainCell)
  PROVE  /\ WriteStream(c, s, d) \in ChunkType
         /\ WriteStream(c, s, d).buf = c.buf /\ WriteStream(c, s, d).left = c.left
<1>1. c.s \in [1 .. 2 -> Seq(PlainCell)] /\ c.s[s] \in Seq(PlainCell) /\ c.queue \in Seq({1, 2} \X Seq(PlainCell))
  BY ChunkFields
<1>2. PICK t : t = c.s[s] \o d
  OBVIOUS
<1>3. t \in Seq(PlainCell) /\ Len(t) \in Nat
  BY <1>1, <1>2, ConcatProperties, LenProperties
<1>4. PICK b : b = Cut(t, BufSize * (Len(t) \div BufSize))
  OBVIOUS
<1>5. b \in Seq(PlainCell)
  <2>1. BufSize \in Nat \ {0}
    BY ArchiveAssumption
  <2>2. BufSize * (Len(t) \div BufSize) \in Nat
    BY <1>3, <2>1, Division
  <2> QED
    BY <1>3, <1>4, <2>2, CutSeq
<1>6. PICK q : q = c.queue \o Blocks(s, t)
  OBVIOUS
<1>7. q \in Seq({1, 2} \X Seq(PlainCell))
  BY <1>1, <1>3, <1>6, BlocksSeq, ConcatProperties
<1>8. PICK u : u = [c.s EXCEPT ![s] = b]
  OBVIOUS
<1>9. u \in [1 .. 2 -> Seq(PlainCell)]
  BY <1>1, <1>5, <1>8
<1>10. PICK e : e = [c EXCEPT !.s = u, !.queue = q]
  OBVIOUS
<1>11. e \in ChunkType
  BY <1>7, <1>9, <1>10 DEF ChunkType
<1>12. e.buf = c.buf /\ e.left = c.left
  BY <1>10 DEF ChunkType
<1>13. WriteStream(c, s, d) = e
  BY <1>2, <1>4, <1>6, <1>8, <1>10 DEF WriteStream
<1> QED
  BY <1>11, <1>12, <1>13

LEMMA ClearBuffersType ==
  ASSUME NEW c \in ChunkType
  PROVE  ClearBuffers(c) \in ChunkType
<1>1. c.queue \in Seq({1, 2} \X Seq(PlainCell)) /\ c.s[1] \in Seq(PlainCell) /\ c.s[2] \in Seq(PlainCell)
  BY ChunkFields
<1>2. PICK x : x = <<1, c.s[1]>>
  OBVIOUS
<1>3. PICK y : y = <<2, c.s[2]>>
  OBVIOUS
<1>4. x \in {1, 2} \X Seq(PlainCell) /\ y \in {1, 2} \X Seq(PlainCell)
  BY <1>1, <1>2, <1>3
<1>5. PICK q : q = c.queue \o <<x, y>>
  OBVIOUS
<1>6. q \in Seq({1, 2} \X Seq(PlainCell))
  <2>1. <<x, y>> \in Seq({1, 2} \X Seq(PlainCell))
    BY <1>4
  <2> QED
    BY <1>1, <1>5, <2>1, ConcatProperties
<1>7. PICK z : z = <<<<>>, <<>>>>
  OBVIOUS
<1>8. z \in [1 .. 2 -> Seq(PlainCell)]
  <2>1. PICK e : e = <<>>
    OBVIOUS
  <2>2. e \in Seq(PlainCell)
    BY <2>1
  <2>3. z = <<e, e>>
    BY <1>7, <2>1
  <2> QED
    BY <2>2, <2>3
<1>9. [c EXCEPT !.queue = q, !.s = z] \in ChunkType
  BY <1>6, <1>8 DEF ChunkType
<1> QED
  BY <1>2, <1>3, <1>5, <1>7, <1>9 DEF ClearBuffers
LEMMA NewChunkType ==
  NewChunk \in ChunkType
<1>1. PICK e : e = <<>>
  OBVIOUS
<1>2. e \in Seq(Int) /\ e \in Seq(PlainCell) /\ e \in Seq({1, 2} \X Seq(PlainCell))
  BY <1>1
<1>3. <<e, e>> \in [1 .. 2 -> Seq(PlainCell)]
  BY <1>2
<1>4. <<0, 0>> \in [1 .. 2 -> Int]
  OBVIOUS
<1>5. PICK y : y = <<e, e>>
  OBVIOUS
<1>6. PICK z : z = <<0, 0>>
  OBVIOUS
<1>7. [buf |-> e, size |-> 0, left |-> 0, s |-> y, queue |-> e, begun |-> FALSE, initial |-> 0, cur |-> 0, head |-> z]
        \in ChunkType
  BY <1>2, <1>3, <1>4, <1>5, <1>6 DEF ChunkType
<1> QED
  BY <1>1, <1>5, <1>6, <1>7 DEF NewChunk

LEMMA WriterFields ==
  ASSUME NEW x \in WriterType
  PROVE  /\ x.ch \in ChunkType /\ x.eof \in BOOLEAN /\ x.stdin_eof \in BOOLEAN
         /\ x.pass \in Int /\ x.blocks_done \in Int /\ x.lrzc \in Int
BY DEF WriterType

LEMMA SetChunk ==
  ASSUME NEW x \in WriterType, NEW c \in ChunkType
  PROVE  [x EXCEPT !.ch = c] \in WriterType
BY DEF WriterType

LEMMA ScenarioFields ==
  ASSUME sc \in Scenario
  PROVE  /\ sc.cin \in BOOLEAN /\ sc.cout \in BOOLEAN /\ sc.din \in BOOLEAN /\ sc.dout \in BOOLEAN
         /\ sc.info \in BOOLEAN /\ sc.size \in Nat /\ sc.filter \in 0 .. 1 /\ sc.threads \in Nat
         /\ sc.fd \in BOOLEAN /\ sc.comax \in Nat /\ sc.doutmax \in Nat /\ sc.dinmax \in Nat
BY DEF Scenario

LEMMA WriterInit ==
  Writer \in WriterType
<1>1. PICK c : c = NewChunk
  OBVIOUS
<1>2. c \in ChunkType
  BY <1>1, NewChunkType
<1>3. [ch |-> c, eof |-> FALSE, stdin_eof |-> FALSE, pass |-> 0, blocks_done |-> 0, lrzc |-> 0] \in WriterType
  BY <1>2 DEF WriterType
<1> QED
  BY <1>1, <1>3 DEF Writer

LEMMA OneCell ==
  ASSUME NEW C, NEW c \in C
  PROVE  <<c>> \in Seq(C) /\ Len(<<c>>) = 1
OBVIOUS

LEMMA TwoCells ==
  ASSUME NEW C, NEW c \in C, NEW e \in C
  PROVE  <<c, e>> \in Seq(C)
OBVIOUS

LEMMA OpenOutType ==
  ASSUME sc \in Scenario
  PROVE  OpenOut \in OutType(PlainCell)
<1>0. Hole \in PlainCell
  BY Cells
<1>1. sc.comax \in Int /\ sc.fd \in BOOLEAN /\ 1 \in Nat
  BY ScenarioFields
<1>2. OpenTmpoutbuf(sc.comax, 1, sc.fd) \in OutType(PlainCell)
  BY <1>0, <1>1, OpenTmpoutbufType
<1>3. FileOut \in OutType(PlainCell) /\ <<Hole>> \in Seq(PlainCell)
  BY <1>0, FileOutType, OneCell
<1>4. PutFdout(FileOut, <<Hole>>) \in OutType(PlainCell)
  BY <1>0, <1>3, PutFdoutType
<1> QED
  BY <1>2, <1>4 DEF OpenOut

\* A step of the compressor that stays among its own.
LEMMA WriteFrame ==
  ASSUME pc' \in Writing, sc' = sc, sc \in Scenario, src' \in Seq(Int), w' \in WriterType,
         out' \in OutType(PlainCell)
  PROVE  AInv'
<1>1. pc' \notin Reading /\ pc' # "done" /\ pc' # "written"
  BY DEF Writing, Reading, InChunk
<1>2. WriteInv'
  BY <1>1 DEF WriteInv
<1>3. ReadInv' /\ SuccessIsRight'
  BY <1>1 DEF ReadInv, SuccessIsRight
<1> QED
  BY <1>2, <1>3 DEF AInv

\* And one that ends outside.
LEMMA EndFrame ==
  ASSUME pc' \in {"info", "infonext", "listed", "failed", "nocompress"}, sc' = sc, src' = src, WriteInv
  PROVE  AInv'
<1>1. pc' \notin Reading /\ pc' # "done" /\ pc' # "written" /\ pc' \notin Writing
  BY DEF Writing, Reading, InChunk
<1>2. WriteInv'
  BY <1>1 DEF WriteInv
<1>3. ReadInv' /\ SuccessIsRight'
  BY <1>1 DEF ReadInv, SuccessIsRight
<1> QED
  BY <1>2, <1>3 DEF AInv

LEMMA InitInv ==
  ASSUME Init
  PROVE  AInv
<1>1. sc \in Scenario
  BY ScenariosAssumption DEF Init
<1>2. pc = "chunk" /\ src = <<>> /\ w = Writer /\ out = OpenOut
  BY DEF Init
<1>3. w \in WriterType /\ out \in OutType(PlainCell)
  BY <1>1, <1>2, WriterInit, OpenOutType
<1>4. src \in Seq(Int)
  BY <1>2
<1>5. pc \in Writing /\ pc \notin Reading /\ pc # "done" /\ pc # "written"
  BY <1>2 DEF Writing, Reading, InChunk
<1> QED
  BY <1>1, <1>3, <1>4, <1>5 DEF AInv, WriteInv, ReadInv, SuccessIsRight

LEMMA NextChunkStep ==
  ASSUME AInv, NextChunk
  PROVE  AInv'
<1>1. pc = "chunk" /\ pc' = "token" /\ sc' = sc /\ src' = src /\ out' = out
  BY DEF NextChunk
<1>2. sc \in Scenario /\ src \in Seq(Int) /\ w \in WriterType /\ out \in OutType(PlainCell)
  BY <1>1 DEF AInv, WriteInv, Writing
<1>3. PICK n \in Int : n = Min({Window, sc.size - Len(src)})
  <2>1. sc.size \in Nat /\ Len(src) \in Nat /\ Window \in Nat
    BY <1>2, ScenarioFields, LenProperties, ArchiveAssumption
  <2>2. Window \in Int /\ sc.size - Len(src) \in Int
    BY <2>1
  <2> QED
    BY <2>2, MinOf
<1>4. PICK c : c = [NewChunk EXCEPT !.size = n, !.left = n]
  OBVIOUS
<1>5. c \in ChunkType
  BY <1>4, NewChunkType DEF ChunkType
<1>6. PICK p \in Int : p = w.pass + 1
  BY <1>2, WriterFields
<1>7. PICK x : x = [w EXCEPT !.ch = c, !.pass = p]
  OBVIOUS
<1>8. x \in WriterType
  BY <1>2, <1>5, <1>7 DEF WriterType
<1>9. MmapChunk(n) = x
  BY <1>4, <1>6, <1>7 DEF MmapChunk
<1>10. MmapStdin(n) \in WriterType
  <2>1. PICK b \in BOOLEAN : b = (n < Window)
    <3>1. (n < Window) = TRUE \/ (n < Window) = FALSE
      OBVIOUS
    <3> QED
      BY <3>1, Zenon
  <2>2. [x EXCEPT !.stdin_eof = b, !.eof = b] \in WriterType
    BY <1>8 DEF WriterType
  <2> QED
    BY <1>9, <2>1, <2>2 DEF MmapStdin
<1>11. MmapFile(n) \in WriterType
  <2>1. PICK b \in BOOLEAN : b = (n = sc.size - Len(src))
    OBVIOUS
  <2>2. [x EXCEPT !.eof = b] \in WriterType
    BY <1>8 DEF WriterType
  <2> QED
    BY <1>9, <2>1, <2>2 DEF MmapFile
<1>12. w' \in WriterType
  BY <1>3, <1>10, <1>11 DEF NextChunk
<1>13. pc' \in Writing /\ src' \in Seq(Int) /\ out' \in OutType(PlainCell)
  BY <1>1, <1>2 DEF Writing
<1> QED
  BY <1>1, <1>2, <1>12, <1>13, WriteFrame
\* What the steps of the compressor start from.
LEMMA WritingNow ==
  ASSUME AInv, pc \in Writing
  PROVE  /\ sc \in Scenario /\ src \in Seq(Int) /\ w \in WriterType /\ out \in OutType(PlainCell)
         /\ w.ch \in ChunkType
<1>1. sc \in Scenario /\ src \in Seq(Int) /\ w \in WriterType /\ out \in OutType(PlainCell)
  BY DEF AInv, WriteInv
<1> QED
  BY <1>1, WriterFields

LEMMA TokenCells ==
  ASSUME NEW n \in Nat \ {0}, NEW offset \in Nat \ {0}
  PROVE  /\ <<<<"lit", n, 0, 0>>>> \in Seq(PlainCell)
         /\ <<<<"match", n, offset, 0>>>> \in Seq(PlainCell)
         /\ <<<<"lit", 0, 0, 0>>>> \in Seq(PlainCell)
<1>1. ASSUME NEW c, c = <<"lit", n, 0, 0>> PROVE c \in PlainCell
  <2>1. c \in Tags \X Int \X Int \X Int /\ c[1] = "lit" /\ c[2] \in Nat
    BY <1>1 DEF Tags
  <2> QED
    BY <2>1 DEF PlainCell
<1>2. ASSUME NEW c, c = <<"match", n, offset, 0>> PROVE c \in PlainCell
  <2>1. c \in Tags \X Int \X Int \X Int /\ c[1] = "match" /\ c[2] \in Nat \ {0} /\ c[3] \in Nat \ {0}
    BY <1>2 DEF Tags
  <2> QED
    BY <2>1 DEF PlainCell
<1>3. ASSUME NEW c, c = <<"lit", 0, 0, 0>> PROVE c \in PlainCell
  <2>1. c \in Tags \X Int \X Int \X Int /\ c[1] = "lit" /\ c[2] \in Nat
    BY <1>3 DEF Tags
  <2> QED
    BY <2>1 DEF PlainCell
<1> QED
  BY <1>1, <1>2, <1>3, OneCell

LEMMA LiteralType ==
  ASSUME w \in WriterType, src \in Seq(Int), NEW n \in Nat \ {0}, Literal(n)
  PROVE  w' \in WriterType /\ src' = src
<1>0. w.ch \in ChunkType
  BY WriterFields
<1>1. PICK d : /\ d = [k \in 1 .. n |-> Len(src) + Len(w.ch.buf) + k]
               /\ w' = [w EXCEPT !.ch = [WriteStream(WriteStream(w.ch, 1, <<<<"lit", n, 0, 0>>>>), 2, Bytes(d))
                                           EXCEPT !.buf = @ \o d, !.left = @ - n]]
  BY DEF Literal
<1>2. d \in Seq(Int)
  <2>1. w.ch.buf \in Seq(Int)
    BY <1>0, ChunkFields
  <2>2. Len(src) \in Nat /\ Len(w.ch.buf) \in Nat
    BY <2>1, LenProperties
  <2>3. d = [k \in 1 .. n |-> d[k]] /\ \A k \in 1 .. n : d[k] = Len(src) + Len(w.ch.buf) + k
    BY <1>1
  <2>4. \A k \in 1 .. n : d[k] \in Int
    BY <2>2, <2>3
  <2> QED
    BY <2>3, <2>4, FunctionSeq
<1>3. PICK a : a = WriteStream(w.ch, 1, <<<<"lit", n, 0, 0>>>>)
  OBVIOUS
<1>4. a \in ChunkType
  <2>1. <<<<"lit", n, 0, 0>>>> \in Seq(PlainCell)
    BY TokenCells
  <2> QED
    BY <1>0, <1>3, <2>1, WriteStreamType
<1>5. PICK c : c = WriteStream(a, 2, Bytes(d))
  OBVIOUS
<1>6. c \in ChunkType
  <2>1. Bytes(d) \in Seq(PlainCell)
    BY <1>2, BytesSeq
  <2> QED
    BY <1>4, <1>5, <2>1, WriteStreamType
<1>7. PICK b : b = c.buf \o d
  OBVIOUS
<1>8. PICK m : m = c.left - n
  OBVIOUS
<1>9. b \in Seq(Int) /\ m \in Int
  <2>1. c.buf \in Seq(Int) /\ c.left \in Int
    BY <1>6, ChunkFields
  <2> QED
    BY <1>2, <1>7, <1>8, <2>1, ConcatProperties
<1>10. PICK e : e = [c EXCEPT !.buf = b, !.left = m]
  OBVIOUS
<1>11. e \in ChunkType
  BY <1>6, <1>9, <1>10 DEF ChunkType
<1>12. w' = [w EXCEPT !.ch = e]
  BY <1>1, <1>3, <1>5, <1>7, <1>8, <1>10
<1> QED
  BY <1>11, <1>12, SetChunk DEF Literal

LEMMA MatchType ==
  ASSUME w \in WriterType, NEW n \in Nat \ {0}, NEW offset \in Nat \ {0}, offset <= Len(w.ch.buf), Match(n, offset)
  PROVE  w' \in WriterType /\ src' = src
<1>0. w.ch \in ChunkType
  BY WriterFields
<1>1. PICK c : c = WriteStream(w.ch, 1, <<<<"match", n, offset, 0>>>>)
  OBVIOUS
<1>2. c \in ChunkType
  <2>1. <<<<"match", n, offset, 0>>>> \in Seq(PlainCell)
    BY TokenCells
  <2> QED
    BY <1>0, <1>1, <2>1, WriteStreamType
<1>3. PICK d : d = Expand(w.ch.buf, offset, n)
  OBVIOUS
<1>4. d \in Seq(Int)
  <2>1. w.ch.buf \in Seq(Int)
    BY <1>0, ChunkFields
  <2> QED
    BY <1>3, <2>1, ExpandSeq
<1>5. PICK b : b = c.buf \o d
  OBVIOUS
<1>6. PICK m : m = c.left - n
  OBVIOUS
<1>7. b \in Seq(Int) /\ m \in Int
  <2>1. c.buf \in Seq(Int) /\ c.left \in Int
    BY <1>2, ChunkFields
  <2> QED
    BY <1>4, <1>5, <1>6, <2>1, ConcatProperties
<1>8. PICK e : e = [c EXCEPT !.buf = b, !.left = m]
  OBVIOUS
<1>9. e \in ChunkType
  BY <1>2, <1>7, <1>8 DEF ChunkType
<1>10. w' = [w EXCEPT !.ch = e]
  BY <1>1, <1>3, <1>5, <1>6, <1>8 DEF Match
<1> QED
  BY <1>9, <1>10, SetChunk DEF Match

LEMMA PutTokenStep ==
  ASSUME AInv, PutToken
  PROVE  AInv'
<1>1. pc = "token" /\ pc' = pc /\ sc' = sc /\ out' = out
  BY DEF PutToken
<1>2. pc \in Writing
  BY <1>1 DEF Writing
<1>3. /\ sc \in Scenario /\ src \in Seq(Int) /\ w \in WriterType /\ out \in OutType(PlainCell)
      /\ w.ch \in ChunkType
  BY <1>2, WritingNow
<1>4. PICK n \in Nat \ {0} : Literal(n) \/ \E offset \in 1 .. Len(w.ch.buf) : Match(n, offset)
  <2>1. PICK n \in 1 .. Min({MaxToken, w.ch.left}) : Literal(n) \/ \E offset \in 1 .. Len(w.ch.buf) : Match(n, offset)
    BY DEF PutToken
  <2>2. MaxToken \in Int /\ w.ch.left \in Int
    BY <1>3, ChunkFields, ArchiveAssumption
  <2>3. n \in Nat \ {0}
    BY <2>1, <2>2, MinOf
  <2> QED
    BY <2>1, <2>3
<1>5. w' \in WriterType /\ src' = src
  <2>1. CASE Literal(n)
    BY <1>3, <2>1, LiteralType
  <2>2. ASSUME NEW offset \in 1 .. Len(w.ch.buf), Match(n, offset) PROVE w' \in WriterType /\ src' = src
    <3>1. w.ch.buf \in Seq(Int)
      BY <1>3, ChunkFields
    <3>2. offset \in Nat \ {0} /\ offset <= Len(w.ch.buf)
      BY <3>1, LenProperties
    <3> QED
      BY <1>3, <2>2, <3>2, MatchType
  <2> QED
    BY <1>4, <2>1, <2>2
<1>6. pc' \in Writing /\ src' \in Seq(Int) /\ out' \in OutType(PlainCell)
  BY <1>1, <1>2, <1>3, <1>5
<1> QED
  BY <1>1, <1>3, <1>5, <1>6, WriteFrame

LEMMA EndChunkStep ==
  ASSUME AInv, EndChunk
  PROVE  AInv'
<1>1. pc = "token" /\ pc' = "flushed" /\ sc' = sc /\ out' = out
  BY DEF EndChunk
<1>2. pc \in Writing /\ pc' \in Writing
  BY <1>1 DEF Writing
<1>3. /\ sc \in Scenario /\ src \in Seq(Int) /\ w \in WriterType /\ out \in OutType(PlainCell)
      /\ w.ch \in ChunkType
  BY <1>2, WritingNow
<1>4. PICK c : c = WriteStream(w.ch, 1, <<<<"lit", 0, 0, 0>>>>)
  OBVIOUS
<1>5. c \in ChunkType
  <2>1. <<<<"lit", 0, 0, 0>>>> \in Seq(PlainCell)
    BY 1 \in Nat \ {0}, TokenCells
  <2> QED
    BY <1>3, <1>4, <2>1, WriteStreamType
<1>6. PICK e : e = ClearBuffers(c)
  OBVIOUS
<1>7. e \in ChunkType
  BY <1>5, <1>6, ClearBuffersType
<1>8. w' = [w EXCEPT !.ch = e]
  BY <1>4, <1>6 DEF EndChunk
<1>9. w' \in WriterType
  BY <1>3, <1>7, <1>8, SetChunk
<1>10. src' \in Seq(Int)
  <2>1. w.ch.buf \in Seq(Int)
    BY <1>3, ChunkFields
  <2>2. Unfiltered(w.ch.buf) \in Seq(Int)
    BY <2>1, UnfilteredSeq
  <2>3. PICK d \in Seq(Int) : d = IF sc.filter = 1 THEN Unfiltered(w.ch.buf) ELSE w.ch.buf
    BY <2>1, <2>2
  <2>4. src' = src \o d
    BY <2>3 DEF EndChunk
  <2> QED
    BY <1>3, <2>4, ConcatProperties
<1>11. out' \in OutType(PlainCell)
  BY <1>1, <1>3
<1> QED
  BY <1>1, <1>2, <1>3, <1>9, <1>10, <1>11, WriteFrame
LEMMA FrameCells ==
  ASSUME NEW a \in Int, NEW b \in Int, NEW c \in Int, NEW n \in Nat, NEW f \in 0 .. 1
  PROVE  /\ <<"magic", a, b, c>> \in PlainCell /\ <<"lrzc", a, b, 0>> \in PlainCell
         /\ <<"csize", a, 0, 0>> \in PlainCell /\ <<"rcd", a, b, f>> \in PlainCell
         /\ <<"head", n, 0, 0>> \in PlainCell /\ <<"link", n, 0, 0>> \in PlainCell
<1>1. ASSUME NEW x, x = <<"magic", a, b, c>> PROVE x \in PlainCell
  <2>1. x \in Tags \X Int \X Int \X Int /\ x[1] = "magic"
    BY <1>1 DEF Tags
  <2> QED
    BY <2>1 DEF PlainCell
<1>2. ASSUME NEW x, x = <<"lrzc", a, b, 0>> PROVE x \in PlainCell
  <2>1. x \in Tags \X Int \X Int \X Int /\ x[1] = "lrzc"
    BY <1>2 DEF Tags
  <2> QED
    BY <2>1 DEF PlainCell
<1>3. ASSUME NEW x, x = <<"csize", a, 0, 0>> PROVE x \in PlainCell
  <2>1. x \in Tags \X Int \X Int \X Int /\ x[1] = "csize"
    BY <1>3 DEF Tags
  <2> QED
    BY <2>1 DEF PlainCell
<1>4. ASSUME NEW x, x = <<"rcd", a, b, f>> PROVE x \in PlainCell
  <2>1. x \in Tags \X Int \X Int \X Int /\ x[1] = "rcd" /\ x[4] \in 0 .. 1
    BY <1>4 DEF Tags
  <2> QED
    BY <2>1 DEF PlainCell
<1>5. ASSUME NEW x, x = <<"head", n, 0, 0>> PROVE x \in PlainCell
  <2>1. x \in Tags \X Int \X Int \X Int /\ x[1] = "head" /\ x[2] \in Nat
    BY <1>5 DEF Tags
  <2> QED
    BY <2>1 DEF PlainCell
<1>6. ASSUME NEW x, x = <<"link", n, 0, 0>> PROVE x \in PlainCell
  <2>1. x \in Tags \X Int \X Int \X Int /\ x[1] = "link" /\ x[2] \in Nat
    BY <1>6 DEF Tags
  <2> QED
    BY <2>1 DEF PlainCell
<1> QED
  BY <1>1, <1>2, <1>3, <1>4, <1>5, <1>6

LEMMA MagicCell ==
  ASSUME sc \in Scenario, src \in Seq(Int)
  PROVE  Magic \in PlainCell
<1>1. sc.size \in Nat /\ Len(src) \in Nat
  BY ScenarioFields, LenProperties
<1>2. PICK a \in Int : a = IF ~sc.cin \/ ~sc.cout \/ w.eof THEN StSize ELSE 0
  BY <1>1 DEF StSize
<1>3. PICK b \in Int : b = Bit(sc.cout /\ ~w.eof)
  BY DEF Bit
<1>4. PICK c \in Int : c = Bit(~(sc.cout /\ ~w.eof))
  BY DEF Bit
<1>5. <<"magic", a, b, c>> \in PlainCell
  BY 0 \in Nat, 0 \in 0 .. 1, FrameCells
<1> QED
  BY <1>2, <1>3, <1>4, <1>5 DEF Magic

LEMMA WriteMagicType ==
  ASSUME NEW C, PlainCell \subseteq C, sc \in Scenario, src \in Seq(Int), NEW o \in OutType(C)
  PROVE  WriteMagic(o) \in OutType(C)
<1>1. Hole \in C /\ Magic \in C
  BY Cells, MagicCell
<1>2. PICK p : p = SeekOut(o, 0)
  OBVIOUS
<1>3. p \in OutType(C)
  BY <1>2, 0 \in Int, SeekOutType
<1>4. <<Magic>> \in Seq(C)
  BY <1>1, OneCell
<1>5. PutFdout(p, <<Magic>>) \in OutType(C)
  BY <1>1, <1>3, <1>4, PutFdoutType
<1> QED
  BY <1>2, <1>5 DEF WriteMagic

LEMMA HeaderSeq ==
  ASSUME NEW n \in Nat
  PROVE  Header(n) \in Seq(PlainCell)
<1>1. <<"head", n, 0, 0>> \in PlainCell /\ <<"link", 0, 0, 0>> \in PlainCell
  BY 0 \in Int, 0 \in Nat, 0 \in 0 .. 1, FrameCells
<1>2. PICK x : x = <<"head", n, 0, 0>>
  OBVIOUS
<1>3. PICK y : y = <<"link", 0, 0, 0>>
  OBVIOUS
<1>4. <<x, y>> \in Seq(PlainCell)
  BY <1>1, <1>2, <1>3, TwoCells
<1> QED
  BY <1>2, <1>3, <1>4 DEF Header

LEMMA RcdType ==
  ASSUME sc \in Scenario, src \in Seq(Int), w \in WriterType, NEW o \in OutType(PlainCell)
  PROVE  Rcd(Preamble(o)) \in OutType(PlainCell)
<1>0. Hole \in PlainCell
  BY Cells
<1>1. w.ch \in ChunkType /\ w.ch.size \in Int /\ sc.filter \in 0 .. 1
  BY WriterFields, ChunkFields, ScenarioFields
<1>2. PICK b \in Int : b = Bit(w.eof)
  BY DEF Bit
<1>3. WriteLrzc(o) \in OutType(PlainCell)
  <2>1. PICK x : x = <<"lrzc", w.ch.size, b, 0>>
    OBVIOUS
  <2>2. PICK y : y = <<"csize", 0, 0, 0>>
    OBVIOUS
  <2>3. x \in PlainCell /\ y \in PlainCell
    BY <1>1, <2>1, <2>2, 0 \in Int, 0 \in Nat, 0 \in 0 .. 1, FrameCells
  <2>4. PICK d : d = <<x, y>>
    OBVIOUS
  <2>5. d \in Seq(PlainCell)
    BY <2>3, <2>4, TwoCells
  <2>6. WriteBuf(o, d) \in OutType(PlainCell)
    BY <1>0, <2>5, WriteBufType
  <2> QED
    BY <1>2, <2>1, <2>2, <2>4, <2>6 DEF WriteLrzc
<1>4. WriteMagic(o) \in OutType(PlainCell)
  BY WriteMagicType
<1>5. PICK p : p = Preamble(o)
  OBVIOUS
<1>6. p \in OutType(PlainCell)
  BY <1>3, <1>4, <1>5 DEF Preamble
<1>7. PICK x : x = <<"rcd", b, w.ch.size, sc.filter>>
  OBVIOUS
<1>8. x \in PlainCell
  BY <1>1, <1>7, 0 \in Nat, FrameCells
<1>9. <<x>> \in Seq(PlainCell)
  BY <1>8, OneCell
<1>10. WriteBuf(p, <<x>>) \in OutType(PlainCell)
  BY <1>0, <1>6, <1>9, WriteBufType
<1> QED
  BY <1>2, <1>5, <1>7, <1>10 DEF Rcd

LEMMA BeginChunkStep ==
  ASSUME AInv, BeginChunk
  PROVE  AInv'
<1>0. Hole \in PlainCell
  BY Cells
<1>1. pc \in {"token", "flushed"} /\ pc' = pc /\ sc' = sc /\ src' = src
  BY DEF BeginChunk
<1>2. pc \in Writing
  BY <1>1 DEF Writing
<1>3. /\ sc \in Scenario /\ src \in Seq(Int) /\ w \in WriterType /\ out \in OutType(PlainCell)
      /\ w.ch \in ChunkType
  BY <1>2, WritingNow
<1>4. PICK p : p = Rcd(Preamble(out))
  OBVIOUS
<1>5. p \in OutType(PlainCell)
  BY <1>3, <1>4, RcdType
<1>6. out' \in OutType(PlainCell)
  <2>1. PICK d : d = Header(0) \o Header(0)
    OBVIOUS
  <2>2. d \in Seq(PlainCell)
    BY <2>1, 0 \in Nat, HeaderSeq, ConcatProperties
  <2>3. WriteBuf(p, d) \in OutType(PlainCell)
    BY <1>0, <1>5, <2>2, WriteBufType
  <2>4. out' = WriteBuf(p, d)
    BY <1>4, <2>1 DEF BeginChunk, ChunkHeader
  <2> QED
    BY <2>3, <2>4
<1>7. w' \in WriterType
  <2>1. PICK i \in Int : i = GetSeek(p)
    BY <1>5, GetSeekType
  <2>2. PICK n \in Nat : n = 2 * StreamHead
    BY DEF StreamHead
  <2>3. PICK h : h = <<StreamHead - 1, 2 * StreamHead - 1>>
    OBVIOUS
  <2>4. h \in [1 .. 2 -> Int]
    BY <2>3 DEF StreamHead
  <2>5. PICK l \in Int : l = IF sc.cout /\ w.blocks_done > 0 THEN GetSeek(out) ELSE w.lrzc
    <3>1. GetSeek(out) \in Int /\ w.lrzc \in Int
      BY <1>3, GetSeekType, WriterFields
    <3> QED
      BY <3>1
  <2>6. PICK c : c = w.ch
    OBVIOUS
  <2>7. PICK t \in BOOLEAN : t = TRUE
    OBVIOUS
  <2>8. PICK e : e = [c EXCEPT !.begun = t, !.initial = i, !.cur = n, !.head = h]
    OBVIOUS
  <2>9. e \in ChunkType
    <3>1. c \in ChunkType
      BY <1>3, <2>6
    <3> QED
      BY <2>4, <2>8, <3>1 DEF ChunkType
  <2>10. w' = [w EXCEPT !.ch = e, !.lrzc = l]
    <3>1. w' = [w EXCEPT !.ch.begun = TRUE,
                    !.ch.initial = i,
                    !.ch.cur = n,
                    !.ch.head = h,
                    !.lrzc = l]
      BY <1>4, <2>1, <2>2, <2>3, <2>5 DEF BeginChunk
    <3> QED
      BY <1>3, <2>6, <2>7, <2>8, <3>1 DEF WriterType
  <2> QED
    BY <1>3, <2>9, <2>10 DEF WriterType
<1>8. pc' \in Writing /\ src' \in Seq(Int)
  BY <1>1, <1>2, <1>3
<1> QED
  BY <1>1, <1>3, <1>6, <1>7, <1>8, WriteFrame
LEMMA WriteBlockStep ==
  ASSUME AInv, WriteBlock
  PROVE  AInv'
<1>0. Hole \in PlainCell
  BY Cells
<1>1. pc \in {"token", "flushed"} /\ w.ch.queue # <<>> /\ pc' = pc /\ sc' = sc /\ src' = src
  BY DEF WriteBlock
<1>2. pc \in Writing
  BY <1>1 DEF Writing
<1>3. /\ sc \in Scenario /\ src \in Seq(Int) /\ w \in WriterType /\ out \in OutType(PlainCell)
      /\ w.ch \in ChunkType
  BY <1>2, WritingNow
<1>4. PICK c : c = w.ch
  OBVIOUS
<1>5. c \in ChunkType
  BY <1>3, <1>4
<1>6. /\ c.queue \in Seq({1, 2} \X Seq(PlainCell)) /\ c.initial \in Int /\ c.cur \in Nat
      /\ c.head \in [1 .. 2 -> Int] /\ c.head[1] \in Int /\ c.head[2] \in Int
  BY <1>5, ChunkFields
<1>7. c.queue[1] \in {1, 2} \X Seq(PlainCell) /\ Tail(c.queue) \in Seq({1, 2} \X Seq(PlainCell))
  <2>1. 1 \in 1 .. Len(c.queue)
    BY <1>1, <1>4, <1>6, EmptySeq, LenProperties
  <2> QED
    BY <1>1, <1>4, <1>6, <2>1, ElementOfSeq, HeadTailProperties
<1>8. PICK s \in {1, 2}, d \in Seq(PlainCell) :
        /\ s = c.queue[1][1] /\ d = c.queue[1][2]
        /\ out' = AppendBlock(LinkBlock(out, c, s), c, d)
        /\ w' = [w EXCEPT !.ch.queue = Tail(@),
                          !.ch.head[s] = w.ch.cur + StreamHead - 1,
                          !.ch.cur = @ + StreamHead + Len(d)]
  BY <1>4, <1>7 DEF WriteBlock
<1>9. PICK p : p = LinkBlock(out, c, s)
  OBVIOUS
<1>10. p \in OutType(PlainCell)
  <2>1. PICK at \in Int : at = c.initial + c.head[s]
    BY <1>6
  <2>2. PICK o : o = SeekOut(out, at)
    OBVIOUS
  <2>3. o \in OutType(PlainCell)
    BY <1>3, <2>2, SeekOutType
  <2>4. PICK x : x = <<"link", c.cur, 0, 0>>
    OBVIOUS
  <2>5. x \in PlainCell
    BY <1>6, <2>4, 0 \in Int, 0 \in 0 .. 1, FrameCells
  <2>6. <<x>> \in Seq(PlainCell)
    BY <2>5, OneCell
  <2>7. WriteBuf(o, <<x>>) \in OutType(PlainCell)
    BY <1>0, <2>3, <2>6, WriteBufType
  <2> QED
    BY <1>9, <2>1, <2>2, <2>4, <2>7 DEF LinkBlock
<1>11. out' \in OutType(PlainCell)
  <2>1. PICK at \in Int : at = c.initial + c.cur
    BY <1>6
  <2>2. PICK o : o = SeekOut(p, at)
    OBVIOUS
  <2>3. o \in OutType(PlainCell)
    BY <1>10, <2>2, SeekOutType
  <2>4. PICK h : h = Header(Len(d))
    OBVIOUS
  <2>5. h \in Seq(PlainCell)
    BY <2>4, LenProperties, HeaderSeq
  <2>6. PICK q : q = WriteBuf(o, h)
    OBVIOUS
  <2>7. q \in OutType(PlainCell)
    BY <1>0, <2>3, <2>5, <2>6, WriteBufType
  <2>8. WriteBuf(q, d) \in OutType(PlainCell)
    BY <1>0, <2>7, WriteBufType
  <2> QED
    BY <1>8, <1>9, <2>1, <2>2, <2>4, <2>6, <2>8 DEF AppendBlock
<1>12. w' \in WriterType
  <2>1. PICK q : q = Tail(c.queue)
    OBVIOUS
  <2>2. q \in Seq({1, 2} \X Seq(PlainCell))
    BY <1>7, <2>1
  <2>3. PICK m \in Int : m = c.cur + StreamHead - 1
    BY <1>6 DEF StreamHead
  <2>4. PICK n \in Nat : n = c.cur + StreamHead + Len(d)
    BY <1>6, LenProperties DEF StreamHead
  <2>5. PICK h : h = [c.head EXCEPT ![s] = m]
    OBVIOUS
  <2>6. h \in [1 .. 2 -> Int]
    BY <1>6, <2>5
  <2>7. PICK e : e = [c EXCEPT !.queue = q, !.head = h, !.cur = n]
    OBVIOUS
  <2>8. e \in ChunkType
    BY <1>5, <2>2, <2>6, <2>7 DEF ChunkType
  <2>9. w' = [w EXCEPT !.ch = e]
    BY <1>3, <1>4, <1>8, <2>1, <2>3, <2>4, <2>5, <2>7 DEF WriterType
  <2> QED
    BY <1>3, <2>8, <2>9, SetChunk
<1>13. pc' \in Writing /\ src' \in Seq(Int)
  BY <1>1, <1>2, <1>3
<1> QED
  BY <1>1, <1>3, <1>11, <1>12, <1>13, WriteFrame

LEMMA PatchLrzcType ==
  ASSUME w \in WriterType, NEW o \in OutType(PlainCell)
  PROVE  PatchLrzc(o) \in OutType(PlainCell)
<1>0. Hole \in PlainCell
  BY Cells
<1>1. w.lrzc \in Int
  BY WriterFields
<1>2. o.buf \in Seq(PlainCell) /\ o.file \in Seq(PlainCell) /\ o.relofs \in Int /\ o.pos \in Int /\ o.tmp \in BOOLEAN
  BY OutFields
<1>3. Len(o.buf) \in Nat
  BY <1>2, LenProperties
<1>4. ASSUME o.tmp PROVE PatchLrzc(o) \in OutType(PlainCell)
  <2>1. PICK at \in Int : at = w.lrzc - o.relofs + 1
    BY <1>1, <1>2
  <2>2. PICK v \in Int : v = o.relofs + Len(o.buf) - w.lrzc - 2
    BY <1>1, <1>2, <1>3
  <2>3. PICK x : x = <<"csize", v, 0, 0>>
    OBVIOUS
  <2>4. x \in PlainCell
    BY <2>3, 0 \in Int, 0 \in Nat, 0 \in 0 .. 1, FrameCells
  <2>5. PICK d : d = <<x>>
    OBVIOUS
  <2>6. d \in Seq(PlainCell)
    BY <2>4, <2>5, OneCell
  <2>7. PICK b : b = Overwrite(o.buf, at, d)
    OBVIOUS
  <2>8. b \in Seq(PlainCell)
    BY <1>0, <1>2, <2>6, <2>7, OverwriteSeq
  <2>9. PICK k \in BOOLEAN : k = (o.ok /\ w.lrzc >= o.relofs)
    OBVIOUS
  <2>10. PICK e : e = [o EXCEPT !.buf = b, !.ok = k]
    OBVIOUS
  <2>11. e \in OutType(PlainCell)
    BY <2>8, <2>10 DEF OutType
  <2>12. PatchLrzc(o) = e
    BY <1>4, <2>1, <2>2, <2>3, <2>5, <2>7, <2>9, <2>10 DEF PatchLrzc
  <2> QED
    BY <2>11, <2>12
<1>5. ASSUME ~o.tmp PROVE PatchLrzc(o) \in OutType(PlainCell)
  <2>1. PICK at \in Int : at = w.lrzc + 1
    BY <1>1
  <2>2. PICK v \in Int : v = o.pos - w.lrzc - 2
    BY <1>1, <1>2
  <2>3. PICK x : x = <<"csize", v, 0, 0>>
    OBVIOUS
  <2>4. x \in PlainCell
    BY <2>3, 0 \in Int, 0 \in Nat, 0 \in 0 .. 1, FrameCells
  <2>5. PICK d : d = <<x>>
    OBVIOUS
  <2>6. d \in Seq(PlainCell)
    BY <2>4, <2>5, OneCell
  <2>7. PICK b : b = Overwrite(o.file, at, d)
    OBVIOUS
  <2>8. b \in Seq(PlainCell)
    BY <1>0, <1>2, <2>6, <2>7, OverwriteSeq
  <2>9. PICK k \in BOOLEAN : k = (o.ok /\ v >= 0)
    OBVIOUS
  <2>10. PICK e : e = [o EXCEPT !.file = b, !.ok = k]
    OBVIOUS
  <2>11. e \in OutType(PlainCell)
    BY <2>8, <2>10 DEF OutType
  <2>12. PatchLrzc(o) = e
    BY <1>5, <2>1, <2>2, <2>3, <2>5, <2>7, <2>9, <2>10 DEF PatchLrzc
  <2> QED
    BY <2>11, <2>12
<1> QED
  BY <1>2, <1>4, <1>5

LEMMA AfterChunkStep ==
  ASSUME AInv, AfterChunk
  PROVE  AInv'
<1>1. pc = "flushed" /\ pc' = "chunk" /\ sc' = sc /\ src' = src
  BY DEF AfterChunk
<1>2. pc \in Writing /\ pc' \in Writing
  BY <1>1 DEF Writing
<1>3. sc \in Scenario /\ src \in Seq(Int) /\ w \in WriterType /\ out \in OutType(PlainCell)
  BY <1>2, WritingNow
<1>4. w' \in WriterType /\ out' \in OutType(PlainCell)
  <2>1. ASSUME sc.cout PROVE w' \in WriterType /\ out' \in OutType(PlainCell)
    <3>1. PICK lzma \in BOOLEAN : out' = FlushTmpout(FinishBlock(out, lzma))
      BY <2>1 DEF AfterChunk
    <3>2. PICK o : o = FinishBlock(out, lzma)
      OBVIOUS
    <3>3. PatchLrzc(out) \in OutType(PlainCell) /\ WriteMagic(out) \in OutType(PlainCell)
      BY <1>3, PatchLrzcType, WriteMagicType
    <3>4. o \in OutType(PlainCell)
      BY <1>3, <3>2, <3>3 DEF FinishBlock
    <3>5. out' \in OutType(PlainCell)
      BY <3>1, <3>2, <3>4, FlushTmpoutType
    <3>6. PICK n \in Int : n = w.blocks_done + 1
      BY <1>3, WriterFields
    <3>7. w' = [w EXCEPT !.blocks_done = n]
      BY <2>1, <3>6 DEF AfterChunk
    <3>8. w' \in WriterType
      BY <1>3, <3>7 DEF WriterType
    <3> QED
      BY <3>5, <3>8
  <2>2. ASSUME ~sc.cout PROVE w' \in WriterType /\ out' \in OutType(PlainCell)
    BY <1>3, <2>2 DEF AfterChunk
  <2> QED
    BY <1>3, <2>1, <2>2, ScenarioFields
<1>5. src' \in Seq(Int)
  BY <1>1, <1>3
<1> QED
  BY <1>1, <1>2, <1>3, <1>4, <1>5, WriteFrame

LEMMA PlainIsCell ==
  ASSUME NEW o \in OutType(PlainCell)
  PROVE  o \in OutType(Cell)
<1>1. PlainCell \subseteq Cell
  BY Cells
<1>2. \A s \in Seq(PlainCell) : s \in Seq(Cell)
  BY <1>1, SeqMonotonic
<1>3. o.buf \in Seq(Cell) /\ o.file \in Seq(Cell) /\ o.pipe \in Seq(Cell)
  BY <1>2, OutFields
<1> QED
  BY <1>3 DEF OutType

LEMMA FinishArchiveStep ==
  ASSUME AInv, FinishArchive
  PROVE  AInv'
<1>0. Hole \in Cell /\ PlainCell \subseteq Cell
  BY Cells
<1>1. pc = "chunk" /\ pc' = "written" /\ sc' = sc /\ src' = src
  BY DEF FinishArchive
<1>2. pc \in Writing
  BY <1>1 DEF Writing
<1>3. sc \in Scenario /\ src \in Seq(Int) /\ out \in OutType(PlainCell)
  BY <1>2, WritingNow
<1>4. out \in OutType(Cell)
  BY <1>3, PlainIsCell
<1>5. PICK o : o = Trailer(out)
  OBVIOUS
<1>6. o \in OutType(Cell)
  <2>1. PICK x : x = <<"md5", 0, 0, src>>
    OBVIOUS
  <2>2. x \in Cell
    BY <2>1 DEF Cell
  <2>3. <<x>> \in Seq(Cell)
    BY <2>2, OneCell
  <2>4. PutFdout(out, <<x>>) \in OutType(Cell)
    BY <1>0, <1>4, <2>3, PutFdoutType
  <2> QED
    BY <1>5, <2>1, <2>4 DEF Trailer, Digest
<1>7. FlushTmpout(o) \in OutType(Cell) /\ WriteMagic(o) \in OutType(Cell)
  BY <1>0, <1>3, <1>6, FlushTmpoutType, WriteMagicType
<1>8. out' \in OutType(Cell)
  BY <1>5, <1>7 DEF FinishArchive
<1>9. (out \in OutType(Cell))'
  BY <1>1, <1>8 DEF Cell
<1>10. pc' \notin Reading /\ pc' # "done" /\ pc' \notin Writing
  BY <1>1 DEF Writing, Reading, InChunk
<1>11. WriteInv'
  BY <1>1, <1>3, <1>9, <1>10 DEF WriteInv
<1>12. ReadInv' /\ SuccessIsRight'
  BY <1>10 DEF ReadInv, SuccessIsRight
<1> QED
  BY <1>1, <1>11, <1>12 DEF AInv

LEMMA CompressFailsStep ==
  ASSUME AInv, CompressFails
  PROVE  AInv'
<1>1. pc' \in {"info", "infonext", "listed", "failed", "nocompress"} /\ sc' = sc /\ src' = src
  BY DEF CompressFails
<1> QED
  BY <1>1, EndFrame DEF AInv

LEMMA CompressStep ==
  ASSUME AInv, Compress
  PROVE  AInv'
BY NextChunkStep, PutTokenStep, EndChunkStep, BeginChunkStep, WriteBlockStep, AfterChunkStep,
   FinishArchiveStep, CompressFailsStep DEF Compress
----------------------------------------------------------------------------
(* The decompressor. *)

LEMMA ReaderFields ==
  ASSUME NEW x \in ReaderType
  PROVE  /\ x.expected \in Int /\ x.streaming \in BOOLEAN /\ x.last_block \in BOOLEAN /\ x.eof \in BOOLEAN
         /\ x.total \in Int /\ x.next \in Int /\ x.md5 \in Seq(Int) /\ x.initial \in Nat
         /\ x.payload_end \in Int /\ x.total_read \in Nat /\ x.filter \in 0 .. 1 /\ x.out_pos \in Nat
         /\ x.ctotal \in Nat /\ x.win \in Seq(Cell) /\ x.lit \in Int /\ x.got \in Seq(Cell)
         /\ x.want \in {1, 2} /\ x.back \in {"s0", "tok"} /\ x.cur \in [1 .. 2 -> Seq(Cell)]
         /\ x.fifo \in [1 .. 2 -> Seq(Seq(Cell))] /\ x.eos \in [1 .. 2 -> BOOLEAN] /\ x.head \in [1 .. 2 -> Nat]
BY DEF ReaderType

LEMMA ReadFrame ==
  ASSUME WriteInv, pc' \in Reading, sc' = sc, src' = src, ReadOk(pc', r', in', dst')
  PROVE  AInv'
<1>1. pc' # "done" /\ pc' # "written" /\ pc' \notin Writing
  BY DEF Writing, Reading, InChunk
<1>2. WriteInv'
  BY <1>1 DEF WriteInv
<1>3. SuccessIsRight'
  BY <1>1 DEF SuccessIsRight
<1>4. Cell' = Cell
  BY DEF Cell
<1>5. (r \in ReaderType)' /\ Shape(dst)' /\ InOk(in)'
  <2>1. r' \in ReaderType /\ Shape(dst') /\ InOk(in')
    BY DEF ReadOk
  <2>2. (r \in ReaderType)'
    BY <1>4, <2>1 DEF ReaderType
  <2>3. Shape(dst)'
    BY <1>4, <2>1 DEF Shape, OutType
  <2>4. InOk(in)'
    BY <1>4, <2>1 DEF InOk, InType
  <2> QED
    BY <2>2, <2>3, <2>4
<1>6. ReadOk(pc, r, in, dst)'
  <2>1. /\ pc' \in InChunk => PlaceInv(r', dst') /\ DigestInv(r', dst', Raw(r'))
        /\ pc' \in {"rcd", "next"} => DigestInv(r', dst', 0)
        /\ pc' = "md5" => r'.md5 = Values(IF sc.dout THEN dst'.pipe ELSE dst'.file)
        /\ pc' = "take" => r'.fifo[r'.want] # <<>>
    BY DEF ReadOk
  <2> QED
    BY <1>5, <2>1 DEF ReadOk
<1> QED
  BY <1>2, <1>3, <1>6 DEF AInv, ReadInv

\* What the steps of the decompressor start from.
LEMMA ReadingNow ==
  ASSUME AInv, pc \in Reading
  PROVE  WriteInv /\ ReadOk(pc, r, in, dst) /\ r \in ReaderType /\ Shape(dst) /\ InOk(in) /\ sc \in Scenario
BY DEF AInv, ReadInv, ReadOk, WriteInv

\* A step within a chunk that delivers nothing.
LEMMA SameOutput ==
  ASSUME NEW p \in InChunk, NEW x, NEW i, NEW o, ReadOk(p, x, i, o), NEW q \in InChunk,
         NEW y \in ReaderType, y.md5 = x.md5, y.filter = x.filter, y.ctotal = x.ctotal, y.out_pos = x.out_pos,
         NEW j, InOk(j), q = "take" => y.fifo[y.want] # <<>>
  PROVE  ReadOk(q, y, j, o)
<1>1. Shape(o) /\ PlaceInv(x, o) /\ DigestInv(x, o, Raw(x))
  BY DEF ReadOk
<1>2. PlaceInv(y, o)
  BY <1>1 DEF PlaceInv
<1>3. Raw(y) = Raw(x)
  BY DEF Raw
<1>4. DigestInv(y, o, Raw(y))
  BY <1>1, <1>3 DEF DigestInv
<1>5. q \notin {"rcd", "next"} /\ q # "md5"
  BY DEF InChunk
<1> QED
  BY <1>1, <1>2, <1>4, <1>5 DEF ReadOk

LEMMA ReaderInit ==
  Reader \in ReaderType
<1>1. PICK e : e = <<>>
  OBVIOUS
<1>2. e \in Seq(Int) /\ e \in Seq(Cell) /\ e \in Seq(Seq(Cell))
  BY <1>1
<1>3. PICK y : y = <<e, e>>
  OBVIOUS
<1>4. y \in [1 .. 2 -> Seq(Cell)] /\ y \in [1 .. 2 -> Seq(Seq(Cell))]
  BY <1>2, <1>3
<1>5. PICK z : z = <<0, 0>>
  OBVIOUS
<1>6. z \in [1 .. 2 -> Nat]
  BY <1>5
<1>7. PICK f : f = <<FALSE, FALSE>>
  OBVIOUS
<1>8. f \in [1 .. 2 -> BOOLEAN]
  <2>1. PICK b \in BOOLEAN : b = FALSE
    OBVIOUS
  <2>2. f = <<b, b>>
    BY <1>7, <2>1
  <2> QED
    BY <2>2
<1>9. [expected |-> 0, streaming |-> FALSE, last_block |-> FALSE, eof |-> FALSE,
       total |-> 0, next |-> 0, md5 |-> e,
       initial |-> 0, payload_end |-> 0, total_read |-> 0, filter |-> 0,
       out_pos |-> 0, ctotal |-> 0, win |-> e, lit |-> 0, got |-> e,
       want |-> 1, back |-> "s0", cur |-> y, fifo |-> y, eos |-> f, head |-> z] \in ReaderType
  BY <1>2, <1>4, <1>6, <1>8 DEF ReaderType
<1> QED
  BY <1>1, <1>3, <1>5, <1>7, <1>9 DEF Reader

LEMMA GetMagicType ==
  ASSUME NEW m \in Cell, m[1] = "magic", NEW x, x = GetMagic(m)
  PROVE  x \in ReaderType /\ x.md5 = <<>>
<1>1. m[2] \in Int
  BY CellValue
<1>2. PICK s \in BOOLEAN : s = (m[3] = 1)
  OBVIOUS
<1>3. PICK l \in BOOLEAN : l = (m[4] = 1)
  OBVIOUS
<1>4. PICK y : y = Reader
  OBVIOUS
<1>5. y \in ReaderType /\ y.md5 = <<>>
  <2>1. Reader.md5 = <<>>
    BY DEF Reader
  <2> QED
    BY <1>4, <2>1, ReaderInit
<1>6. PICK a \in Int : a = m[2]
  BY <1>1
<1>7. x = [y EXCEPT !.expected = a, !.streaming = s, !.last_block = l]
  BY <1>2, <1>3, <1>4, <1>6 DEF GetMagic
<1>8. x \in ReaderType
  BY <1>5, <1>7 DEF ReaderType
<1>9. x.md5 = y.md5
  BY <1>5, <1>7 DEF ReaderType
<1> QED
  BY <1>5, <1>8, <1>9

LEMMA OpenArchiveIn ==
  ASSUME sc \in Scenario, out \in OutType(Cell), NEW i, i = OpenArchive
  PROVE  InOk(i) /\ Len(i.got) = 1
<1>1. PICK a : a = TheArchive
  OBVIOUS
<1>2. a \in Seq(Cell)
  BY <1>1, OutFields DEF TheArchive
<1>3. <<>> \in Seq(Cell)
  OBVIOUS
<1>4. PICK e : e = <<>>
  OBVIOUS
<1>5. PICK f : f = FileIn(a)
  OBVIOUS
<1>6. f \in InType(Cell) /\ f.tmp = FALSE
  <2>1. f = [tmp |-> FALSE, buf |-> e, len |-> 0, ofs |-> 0, rest |-> e, file |-> a, pos |-> 0,
             got |-> e, maxlen |-> 0, ok |-> TRUE, flaws |-> {}]
    BY <1>4, <1>5 DEF FileIn
  <2>2. f \in InType(Cell)
    BY <1>2, <1>3, <1>4, <2>1 DEF InType
  <2> QED
    BY <2>1, <2>2
<1>7. InOk(f)
  BY <1>6 DEF InOk
<1>8. PICK g : g = FileIn(<<>>)
  OBVIOUS
<1>9. g \in InType(Cell) /\ g.len = 0 /\ g.buf = <<>>
  <2>1. g = [tmp |-> FALSE, buf |-> e, len |-> 0, ofs |-> 0, rest |-> e, file |-> e, pos |-> 0,
             got |-> e, maxlen |-> 0, ok |-> TRUE, flaws |-> {}]
    BY <1>4, <1>8 DEF FileIn
  <2>2. g \in InType(Cell)
    BY <1>3, <1>4, <2>1 DEF InType
  <2> QED
    BY <1>4, <2>1, <2>2
<1>10. PICK n \in Nat : n = sc.dinmax
  BY ScenarioFields
<1>11. PICK t \in BOOLEAN : t = TRUE
  OBVIOUS
<1>12. PICK h : h = [g EXCEPT !.tmp = t, !.rest = a, !.maxlen = n]
  OBVIOUS
<1>13. h \in InType(Cell) /\ h.len = g.len /\ h.buf = g.buf
  <2>1. h \in InType(Cell)
    BY <1>2, <1>9, <1>12 DEF InType
  <2> QED
    BY <1>9, <1>12, <2>1 DEF InType
<1>14. h.len = 0 /\ Len(h.buf) = 0
  BY <1>9, <1>13
<1>15. InOk(h)
  BY <1>13, <1>14 DEF InOk
<1>16. OpenTmpinbuf(TheArchive, sc.dinmax) = h
  BY <1>1, <1>8, <1>10, <1>11, <1>12 DEF OpenTmpinbuf
<1>17. CASE sc.din
  <2>1. i = Getchars(h, 1)
    BY <1>16, <1>17 DEF OpenArchive
  <2>2. PICK m \in Nat : m = 1
    OBVIOUS
  <2>3. i = Getchars(h, m)
    BY <2>1, <2>2
  <2>4. InOk(i) /\ Len(i.got) = m
    BY <1>15, <2>3, GetcharsIn
  <2> QED
    BY <2>2, <2>4
<1>18. CASE ~sc.din
  <2>1. i = ReadFile(f, 1)
    BY <1>1, <1>5, <1>18 DEF OpenArchive
  <2> QED
    BY <1>7, <2>1, 1 \in Nat, ReadFileIn
<1> QED
  BY <1>17, <1>18

LEMMA NewOutput ==
  ASSUME sc \in Scenario, NEW o, o = IF sc.dout THEN OpenTmpoutbuf(sc.doutmax, 0, sc.fd) ELSE FileOut
  PROVE  Shape(o) /\ o.pipe = <<>> /\ Pending(o) = <<>>
<1>1. CASE sc.dout
  <2>1. PICK f : f = FileOut
    OBVIOUS
  <2>2. /\ f \in OutType(Cell) /\ f.relofs = 0 /\ f.file = <<>> /\ f.pos = 0 /\ f.pipe = <<>>
    BY <2>1, FileOutType DEF FileOut
  <2>3. PICK b : b = [k \in 1 .. 0 |-> Hole]
    OBVIOUS
  <2>4. b = <<>>
    BY <2>3
  <2>5. PICK n : n = sc.doutmax
    OBVIOUS
  <2>6. o = [f EXCEPT !.tmp = TRUE, !.maxlen = n, !.fd = sc.fd, !.buf = b, !.ofs = 0]
    BY <1>1, <2>1, <2>3, <2>5 DEF OpenTmpoutbuf
  <2>7. o \in OutType(Cell)
    <3>1. sc.doutmax \in Int /\ sc.fd \in BOOLEAN /\ 0 \in Nat /\ Hole \in Cell
      BY ScenarioFields, Cells
    <3> QED
      BY <1>1, <3>1, OpenTmpoutbufType
  <2>8. o.tmp = TRUE /\ o.buf = b /\ o.ofs = 0
    BY <2>2, <2>6 DEF OutType
  <2>9. o.relofs = f.relofs /\ o.file = f.file /\ o.pos = f.pos /\ o.pipe = f.pipe
    BY <2>2, <2>6 DEF OutType
  <2>10. o.tmp /\ o.buf = <<>> /\ o.ofs = 0 /\ o.relofs = 0 /\ o.file = <<>> /\ o.pos = 0 /\ o.pipe = <<>>
    BY <2>2, <2>4, <2>8, <2>9
  <2>11. Len(o.buf) = 0 /\ Len(o.pipe) = 0
    BY <2>10
  <2> QED
    BY <1>1, <2>7, <2>10, <2>11 DEF Shape, Pending
<1>2. CASE ~sc.dout
  <2>1. o = FileOut
    BY <1>2
  <2>2. o.tmp = FALSE /\ o.pipe = <<>> /\ o.file = <<>> /\ o.pos = 0
    BY <2>1 DEF FileOut
  <2>3. o \in OutType(Cell)
    BY <2>1, FileOutType
  <2>4. Len(o.file) = 0
    BY <2>2
  <2> QED
    BY <1>2, <2>2, <2>3, <2>4 DEF Shape, Pending
<1> QED
  BY <1>1, <1>2

LEMMA ReadMagicStep ==
  ASSUME AInv, ReadMagic
  PROVE  AInv'
<1>1. pc = "written" /\ sc' = sc /\ src' = src
  BY DEF ReadMagic
<1>2. WriteInv /\ sc \in Scenario /\ out \in OutType(Cell)
  BY <1>1 DEF AInv, WriteInv
<1>3. PICK i : i = OpenArchive
  OBVIOUS
<1>4. InOk(i) /\ Len(i.got) = 1
  BY <1>2, <1>3, OpenArchiveIn
<1>5. i.got[1] \in Cell
  BY <1>4, 1 \in 1 .. 1, GotCells
<1>6. /\ in' = i /\ r' = GetMagic(i.got[1])
      /\ dst' = IF sc.dout THEN OpenTmpoutbuf(sc.doutmax, 0, sc.fd) ELSE FileOut
      /\ pc' = IF i.got[1][1] # "magic" THEN "failed" ELSE IF sc.info THEN "info" ELSE "rcd"
  BY <1>3 DEF ReadMagic
<1>7. CASE i.got[1][1] # "magic" \/ sc.info
  <2>1. pc' \in {"info", "infonext", "listed", "failed", "nocompress"}
    BY <1>6, <1>7
  <2> QED
    BY <1>1, <1>2, <2>1, EndFrame
<1>8. CASE i.got[1][1] = "magic" /\ ~sc.info
  <2>1. pc' = "rcd"
    BY <1>6, <1>8
  <2>2. r' \in ReaderType /\ r'.md5 = <<>>
    BY <1>5, <1>6, <1>8, GetMagicType
  <2>3. Shape(dst') /\ dst'.pipe = <<>> /\ Pending(dst') = <<>>
    BY <1>2, <1>6, NewOutput
  <2>4. DigestInv(r', dst', 0)
    <3>1. <<>> \o SubSeq(<<>>, 1, Len(<<>>) - 0) = <<>>
      OBVIOUS
    <3>2. Values(<<>>) = <<>>
      BY DEF Values
    <3> QED
      BY <2>2, <2>3, <3>1, <3>2 DEF DigestInv
  <2>5. ReadOk(pc', r', in', dst')
    <3>1. pc' \notin InChunk /\ pc' # "md5" /\ pc' # "take"
      BY <2>1 DEF InChunk
    <3> QED
      BY <1>4, <1>6, <2>2, <2>3, <2>4, <3>1 DEF ReadOk
  <2>6. pc' \in Reading
    BY <2>1 DEF Reading
  <2> QED
    BY <1>1, <1>2, <2>5, <2>6, ReadFrame
<1> QED
  BY <1>7, <1>8
\* A stream header: a length and a link.
LEMMA HeadCells ==
  ASSUME NEW i, InOk(i), Len(i.got) = StreamHead, IsHead(i.got)
  PROVE  i.got[1][2] \in Nat /\ i.got[2][2] \in Nat
<1>1. 1 \in 1 .. Len(i.got) /\ 2 \in 1 .. Len(i.got)
  BY DEF StreamHead
<1>2. i.got[1] \in Cell /\ i.got[2] \in Cell
  BY <1>1, GotCells
<1>3. i.got[1][1] = "head" /\ i.got[2][1] = "link"
  BY DEF IsHead
<1>4. "head" \in {"lit", "head", "link"} /\ "link" \in {"lit", "head", "link"}
  OBVIOUS
<1> QED
  BY <1>2, <1>3, <1>4, CellFields

LEMMA OutPlace ==
  ASSUME NEW o, Shape(o)
  PROVE  /\ GetSeek(o) \in Nat /\ Len(Pending(o)) \in Nat /\ Pending(o) \in Seq(Cell) /\ o.pipe \in Seq(Cell)
         /\ o.tmp => GetSeek(o) = o.relofs + Len(o.buf) /\ Pending(o) = o.buf /\ o.relofs \in Nat
         /\ ~o.tmp => GetSeek(o) = o.pos /\ Pending(o) = o.file /\ o.pos = Len(o.file)
<1>1. o \in OutType(Cell)
  BY DEF Shape
<1>2. o.buf \in Seq(Cell) /\ o.file \in Seq(Cell) /\ o.pipe \in Seq(Cell) /\ o.tmp \in BOOLEAN
  BY <1>1, OutFields
<1>3. Len(o.buf) \in Nat /\ Len(o.file) \in Nat /\ Len(o.pipe) \in Nat
  BY <1>2, LenProperties
<1>4. CASE o.tmp
  <2>1. o.ofs = Len(o.buf) /\ o.relofs = Len(o.pipe)
    BY <1>4 DEF Shape
  <2>2. GetSeek(o) = o.relofs + o.ofs /\ Pending(o) = o.buf
    BY <1>4 DEF GetSeek, Pending
  <2>3. GetSeek(o) \in Nat /\ o.relofs \in Nat /\ GetSeek(o) = o.relofs + Len(o.buf)
    <3>1. PICK a \in Nat : a = Len(o.buf)
      BY <1>3
    <3>2. PICK b \in Nat : b = Len(o.pipe)
      BY <1>3
    <3>3. GetSeek(o) = b + a /\ o.relofs = b
      BY <2>1, <2>2, <3>1, <3>2
    <3> QED
      BY <3>1, <3>3
  <2>4. Len(Pending(o)) \in Nat /\ Pending(o) \in Seq(Cell)
    BY <1>2, <1>3, <2>2
  <2> QED
    BY <1>2, <1>4, <2>2, <2>3, <2>4
<1>5. CASE ~o.tmp
  <2>1. o.pos = Len(o.file) /\ GetSeek(o) = o.pos /\ Pending(o) = o.file
    BY <1>5 DEF Shape, GetSeek, Pending
  <2> QED
    BY <1>2, <1>3, <1>5, <2>1
<1> QED
  BY <1>2, <1>4, <1>5

LEMMA OpenChunkType ==
  ASSUME r \in ReaderType, InOk(in), Shape(dst), InOk(ReadRcd(in)), NEW rcd, NEW h0, NEW h1,
         rcd[4] \in 0 .. 1, h0[2][2] \in Nat, h1[2][2] \in Nat, NEW x, x = OpenChunk(rcd, h0, h1)
  PROVE  x \in ReaderType /\ x.ctotal = 0 /\ x.out_pos = GetSeek(dst) /\ x.md5 = r.md5
<1>01. PICK f \in 0 .. 1 : f = rcd[4]
  OBVIOUS
<1>02. PICK h : h = <<h0[2][2], h1[2][2]>>
  OBVIOUS
<1>03. h \in [1 .. 2 -> Nat]
  BY <1>02
<1>04. PICK e \in BOOLEAN : e = (rcd[2] = 1)
  OBVIOUS
<1>05. in \in InType(Cell) /\ ReadRcd(in) \in InType(Cell)
  BY DEF InOk
<1>06. GetReadseek(in) \in Nat /\ GetReadseek(ReadRcd(in)) \in Nat
  BY <1>05, InFields DEF GetReadseek
<1>07. PICK i \in Nat : i = GetReadseek(ReadRcd(in))
  BY <1>06
<1>08. PICK p \in Int : p = IF r.next > 0 THEN GetReadseek(in) + r.next ELSE 0
  BY <1>06, ReaderFields
<1>09. PICK o \in Nat : o = GetSeek(dst)
  BY OutPlace
<1>10. PICK t \in Nat : t = 2 * StreamHead
  BY DEF StreamHead
<1>11. PICK n : n = <<>>
  OBVIOUS
<1>12. n \in Seq(Cell) /\ n \in Seq(Seq(Cell))
  BY <1>11
<1>13. PICK y : y = <<n, n>>
  OBVIOUS
<1>14. y \in [1 .. 2 -> Seq(Cell)] /\ y \in [1 .. 2 -> Seq(Seq(Cell))]
  BY <1>12, <1>13
<1>15. PICK b \in BOOLEAN : b = FALSE
  OBVIOUS
<1>16. PICK z : z = <<b, b>>
  OBVIOUS
<1>17. z \in [1 .. 2 -> BOOLEAN]
  BY <1>16
<1>18. PICK k \in Nat : k = 0
  OBVIOUS
<1>21. PICK x1 : x1 = [r EXCEPT !.eof = e, !.filter = f, !.initial = i, !.payload_end = p]
  OBVIOUS
<1>22. x1 \in ReaderType
  BY <1>21 DEF ReaderType
<1>23. PICK x2 : x2 = [x1 EXCEPT !.next = k, !.total_read = t]
  OBVIOUS
<1>24. x2 \in ReaderType
  <2>1. k \in Int /\ t \in Nat
    OBVIOUS
  <2>2. PICK y1 : y1 = [x1 EXCEPT !.next = k]
    OBVIOUS
  <2>3. y1 \in ReaderType
    BY <1>22, <2>1, <2>2 DEF ReaderType
  <2>4. [y1 EXCEPT !.total_read = t] \in ReaderType
    BY <2>1, <2>3 DEF ReaderType
  <2> QED
    BY <1>23, <2>2, <2>4
<1>25. PICK x3 : x3 = [x2 EXCEPT !.ctotal = k, !.out_pos = o]
  OBVIOUS
<1>26. x3 \in ReaderType
  BY <1>24, <1>25 DEF ReaderType
<1>27. PICK x4 : x4 = [x3 EXCEPT !.win = n, !.cur = y, !.fifo = y, !.eos = z, !.head = h]
  OBVIOUS
<1>28. x4 \in ReaderType
  BY <1>03, <1>12, <1>14, <1>17, <1>26, <1>27 DEF ReaderType
<1>31. x1.md5 = r.md5
  BY <1>21 DEF ReaderType
<1>32. x2.md5 = x1.md5
  BY <1>22, <1>23 DEF ReaderType
<1>33. x3.md5 = x2.md5 /\ x3.ctotal = k /\ x3.out_pos = o
  BY <1>24, <1>25 DEF ReaderType
<1>34. x4.md5 = x3.md5 /\ x4.ctotal = x3.ctotal /\ x4.out_pos = x3.out_pos
  BY <1>26, <1>27 DEF ReaderType
<1>35. x = [r EXCEPT !.eof = e, !.filter = f, !.initial = i, !.payload_end = p,
                     !.next = k, !.total_read = t, !.ctotal = k, !.out_pos = o, !.win = n,
                     !.cur = y, !.fifo = y, !.eos = z, !.head = h]
  BY <1>01, <1>02, <1>04, <1>07, <1>08, <1>09, <1>10, <1>11, <1>13, <1>15, <1>16, <1>18 DEF OpenChunk
<1>36. x = x4
  BY <1>21, <1>23, <1>25, <1>27, <1>35
<1> QED
  BY <1>09, <1>18, <1>28, <1>31, <1>32, <1>33, <1>34, <1>36

LEMMA OpenStreamInStep ==
  ASSUME AInv, OpenStreamIn
  PROVE  AInv'
<1>1. pc = "rcd" /\ sc' = sc /\ src' = src /\ dst' = dst /\ in' = OpenedIn(in)
  BY DEF OpenStreamIn
<1>2. pc \in Reading
  BY <1>1 DEF Reading
<1>3. WriteInv /\ ReadOk(pc, r, in, dst) /\ r \in ReaderType /\ Shape(dst) /\ InOk(in)
  BY <1>2, ReadingNow
<1>4. CASE ~GoodOpening(in)
  <2>1. pc' \in {"info", "infonext", "listed", "failed", "nocompress"}
    BY <1>4 DEF OpenStreamIn
  <2> QED
    BY <1>1, <1>3, <2>1, EndFrame
<1>5. CASE GoodOpening(in)
  <2>1. PICK a : a = ReadRcd(in)
    OBVIOUS
  <2>2. PICK b : b = ReadHead(a)
    OBVIOUS
  <2>3. PICK c : c = ReadHead(b)
    OBVIOUS
  <2>4. c = OpenedIn(in)
    BY <2>1, <2>2, <2>3 DEF OpenedIn
  <2>5. StreamHead \in Nat /\ 1 \in Nat
    BY DEF StreamHead
  <2>6. InOk(a) /\ Len(a.got) = 1
    BY <1>3, <2>1, <2>5, ReadBufIn DEF ReadRcd
  <2>7. InOk(b) /\ Len(b.got) = StreamHead
    BY <2>2, <2>5, <2>6, ReadBufIn DEF ReadHead
  <2>8. InOk(c) /\ Len(c.got) = StreamHead
    BY <2>3, <2>5, <2>7, ReadBufIn DEF ReadHead
  <2>9. a.got[1][1] = "rcd" /\ IsHead(b.got) /\ IsHead(c.got)
    BY <1>5, <2>1, <2>2, <2>4 DEF GoodOpening
  <2>10. a.got[1][4] \in 0 .. 1
    <3>1. a.got[1] \in Cell
      BY <2>6, 1 \in 1 .. 1, GotCells
    <3> QED
      BY <2>9, <3>1, CellFields
  <2>11. b.got[2][2] \in Nat /\ c.got[2][2] \in Nat
    BY <2>7, <2>8, <2>9, HeadCells
  <2>18. r' = OpenChunk(a.got[1], b.got, c.got) /\ pc' = "tok"
    BY <1>5, <2>1, <2>2, <2>4 DEF OpenStreamIn
  <2>19. PICK x : x = OpenChunk(a.got[1], b.got, c.got)
    OBVIOUS
  <2>20. r' \in ReaderType /\ r'.ctotal = 0 /\ r'.out_pos = GetSeek(dst) /\ r'.md5 = r.md5
    <3>1. InOk(ReadRcd(in))
      BY <2>1, <2>6
    <3>2. x \in ReaderType /\ x.ctotal = 0 /\ x.out_pos = GetSeek(dst) /\ x.md5 = r.md5
      BY <1>3, <2>10, <2>11, <2>19, <3>1, OpenChunkType
    <3> QED
      BY <2>18, <2>19, <3>2
  <2>21. PlaceInv(r', dst)
    BY <1>3, <2>20, OutPlace DEF PlaceInv
  <2>22. DigestInv(r', dst, Raw(r'))
    <3>1. DigestInv(r, dst, 0)
      BY <1>1, <1>3 DEF ReadOk
    <3>2. Raw(r') = 0
      BY <2>20 DEF Raw
    <3> QED
      BY <2>20, <3>1, <3>2 DEF DigestInv
  <2>23. ReadOk(pc', r', in', dst')
    <3>1. pc' \notin {"rcd", "next"} /\ pc' # "md5" /\ pc' # "take"
      BY <2>18
    <3> QED
      BY <1>1, <1>3, <2>4, <2>8, <2>20, <2>21, <2>22, <3>1 DEF ReadOk
  <2>24. pc' \in Reading
    BY <2>18 DEF Reading, InChunk
  <2> QED
    BY <1>1, <1>3, <2>23, <2>24, ReadFrame
<1> QED
  BY <1>4, <1>5

LEMMA HeadInIn ==
  ASSUME r \in ReaderType, InOk(in), NEW s \in {1, 2}, NEW h, h = HeadIn(s)
  PROVE  InOk(h) /\ Len(h.got) = StreamHead
<1>1. PICK p \in Nat : p = r.initial + r.head[s]
  <2>1. r.initial \in Nat /\ r.head \in [1 .. 2 -> Nat]
    BY ReaderFields
  <2>2. r.head[s] \in Nat
    BY <2>1
  <2> QED
    BY <2>1, <2>2
<1>2. PICK i : i = ReadSeekto(in, p)
  OBVIOUS
<1>3. InOk(i)
  BY <1>2, ReadSeektoIn
<1>4. h = ReadBuf(i, StreamHead)
  BY <1>1, <1>2 DEF HeadIn, ReadHead
<1>5. StreamHead \in Nat
  BY DEF StreamHead
<1> QED
  BY <1>3, <1>4, <1>5, ReadBufIn

LEMMA FillAnotherStep ==
  ASSUME AInv, FillAnother
  PROVE  AInv'
<1>1. pc = "fill" /\ sc' = sc /\ src' = src /\ dst' = dst
  BY DEF FillAnother
<1>2. pc \in Reading /\ pc \in InChunk
  BY <1>1 DEF Reading, InChunk
<1>3. WriteInv /\ ReadOk(pc, r, in, dst) /\ r \in ReaderType /\ Shape(dst) /\ InOk(in)
  BY <1>2, ReadingNow
<1>4. PICK s \in {1, 2} : s = r.want
  BY <1>3, ReaderFields
<1>5. PICK h : h = HeadIn(s)
  OBVIOUS
<1>6. InOk(h) /\ Len(h.got) = StreamHead
  BY <1>3, <1>5, HeadInIn
<1>7. ASSUME pc' = "failed" PROVE AInv'
  <2>1. pc' \in {"info", "infonext", "listed", "failed", "nocompress"}
    BY <1>7
  <2> QED
    BY <1>1, <1>3, <2>1, EndFrame
<1>8. CASE h.ok /\ IsHead(h.got)
  <2>1. PICK n \in Nat : n = h.got[1][2]
    BY <1>6, <1>8, HeadCells
  <2>2. PICK k \in Nat : k = h.got[2][2]
    BY <1>6, <1>8, HeadCells
  <2>3. SkipEmpty(s, n, k) \/ StartBlock(s, n, k) \/ BadBlock(s, n, k)
    BY <1>4, <1>5, <1>8, <2>1, <2>2 DEF FillAnother
  <2>4. r.total_read \in Nat /\ r.eos \in [1 .. 2 -> BOOLEAN] /\ r.head \in [1 .. 2 -> Nat]
        /\ r.fifo \in [1 .. 2 -> Seq(Seq(Cell))]
    BY <1>3, ReaderFields
  <2>5. ASSUME SkipEmpty(s, n, k), pc' # "failed" PROVE AInv'
    <3>1. in' = h /\ pc' = "take" /\ r.fifo[s] # <<>>
      BY <1>5, <2>5 DEF SkipEmpty
    <3>2. PICK t \in Nat : t = r.total_read + StreamHead
      BY <2>4 DEF StreamHead
    <3>3. PICK b \in BOOLEAN : b = TRUE
      OBVIOUS
    <3>4. PICK e : e = [r.eos EXCEPT ![s] = b]
      OBVIOUS
    <3>5. e \in [1 .. 2 -> BOOLEAN]
      BY <2>4, <3>4
    <3>6. r' = [r EXCEPT !.total_read = t, !.eos = e]
      BY <2>5, <3>2, <3>3, <3>4 DEF SkipEmpty
    <3>7. r' \in ReaderType
      BY <1>3, <3>5, <3>6 DEF ReaderType
    <3>8. /\ r'.md5 = r.md5 /\ r'.filter = r.filter /\ r'.ctotal = r.ctotal /\ r'.out_pos = r.out_pos
          /\ r'.fifo = r.fifo /\ r'.want = r.want
      BY <1>3, <3>6 DEF ReaderType
    <3>9. r'.fifo[r'.want] # <<>>
      BY <1>4, <3>1, <3>8
    <3>10. pc' \in InChunk /\ pc' \in Reading
      BY <3>1 DEF InChunk, Reading
    <3>11. ReadOk(pc', r', in', dst)
      BY <1>2, <1>3, <1>6, <3>1, <3>7, <3>8, <3>9, <3>10, SameOutput
    <3> QED
      BY <1>1, <1>3, <3>10, <3>11, ReadFrame
  <2>6. ASSUME StartBlock(s, n, k) PROVE AInv'
    <3>1. PICK i : i = BlockIn(s, n)
      OBVIOUS
    <3>2. InOk(i)
      BY <1>5, <1>6, <3>1, ReadBufIn DEF BlockIn
    <3>3. i \in InType(Cell) /\ i.got \in Seq(Cell)
      BY <3>2, InFields DEF InOk
    <3>4. PICK t \in Nat : t = r.total_read + StreamHead + n
      BY <2>4 DEF StreamHead
    <3>5. PICK b \in BOOLEAN : b = (k = 0)
      OBVIOUS
    <3>6. PICK e : e = [r.eos EXCEPT ![s] = b]
      OBVIOUS
    <3>7. e \in [1 .. 2 -> BOOLEAN]
      BY <2>4, <3>6
    <3>8. PICK y : y = [r.head EXCEPT ![s] = k]
      OBVIOUS
    <3>9. y \in [1 .. 2 -> Nat]
      BY <2>4, <3>8
    <3>10. PICK q : q = Append(r.fifo[s], i.got)
      OBVIOUS
    <3>11. q \in Seq(Seq(Cell)) /\ q # <<>>
      <4>1. r.fifo[s] \in Seq(Seq(Cell))
        BY <2>4
      <4>2. Append(r.fifo[s], i.got) \in Seq(Seq(Cell)) /\ Append(r.fifo[s], i.got) # <<>>
        BY <3>3, <4>1, AppendProperties
      <4> QED
        BY <3>10, <4>2
    <3>12. PICK z : z = [r.fifo EXCEPT ![s] = q]
      OBVIOUS
    <3>13. z \in [1 .. 2 -> Seq(Seq(Cell))] /\ z[s] = q
      BY <2>4, <3>11, <3>12
    <3>14. r' = [r EXCEPT !.total_read = t, !.eos = e, !.head = y, !.fifo = z]
      BY <2>6, <3>1, <3>4, <3>5, <3>6, <3>8, <3>10, <3>12 DEF StartBlock
    <3>15. r' \in ReaderType
      BY <1>3, <3>7, <3>9, <3>13, <3>14 DEF ReaderType
    <3>16. /\ r'.md5 = r.md5 /\ r'.filter = r.filter /\ r'.ctotal = r.ctotal /\ r'.out_pos = r.out_pos
           /\ r'.fifo = z /\ r'.want = r.want
      BY <1>3, <3>14 DEF ReaderType
    <3>17. r'.fifo[r'.want] # <<>>
      BY <1>4, <3>11, <3>13, <3>16
    <3>18. pc' \in InChunk /\ pc' \in Reading /\ in' = i
      BY <2>6, <3>1 DEF StartBlock, InChunk, Reading
    <3>19. ReadOk(pc', r', in', dst)
      BY <1>2, <1>3, <3>2, <3>15, <3>16, <3>17, <3>18, SameOutput
    <3> QED
      BY <1>1, <1>3, <3>18, <3>19, ReadFrame
  <2>7. ASSUME BadBlock(s, n, k) PROVE AInv'
    BY <1>7, <2>7 DEF BadBlock
  <2> QED
    BY <1>7, <2>3, <2>5, <2>6, <2>7
<1>9. CASE ~(h.ok /\ IsHead(h.got))
  <2>1. pc' = "failed"
    BY <1>4, <1>5, <1>9 DEF FillAnother
  <2> QED
    BY <1>7, <2>1
<1> QED
  BY <1>8, <1>9
LEMMA TakeDataStep ==
  ASSUME AInv, TakeData
  PROVE  AInv'
<1>1. pc = "take" /\ sc' = sc /\ src' = src /\ dst' = dst /\ in' = in /\ pc' = r.back
  BY DEF TakeData
<1>2. pc \in Reading /\ pc \in InChunk
  BY <1>1 DEF Reading, InChunk
<1>3. WriteInv /\ ReadOk(pc, r, in, dst) /\ r \in ReaderType /\ Shape(dst) /\ InOk(in)
  BY <1>2, ReadingNow
<1>4. /\ r.want \in {1, 2} /\ r.back \in {"s0", "tok"} /\ r.cur \in [1 .. 2 -> Seq(Cell)]
      /\ r.fifo \in [1 .. 2 -> Seq(Seq(Cell))]
  BY <1>3, ReaderFields
<1>5. PICK s \in {1, 2} : s = r.want
  BY <1>4
<1>6. r.fifo[s] \in Seq(Seq(Cell)) /\ r.fifo[s] # <<>>
  BY <1>1, <1>3, <1>4, <1>5 DEF ReadOk
<1>7. Head(r.fifo[s]) \in Seq(Cell) /\ Tail(r.fifo[s]) \in Seq(Seq(Cell))
  BY <1>6, HeadTailProperties
<1>8. PICK c : c = [r.cur EXCEPT ![s] = Head(r.fifo[s])]
  OBVIOUS
<1>9. PICK f : f = [r.fifo EXCEPT ![s] = Tail(r.fifo[s])]
  OBVIOUS
<1>10. c \in [1 .. 2 -> Seq(Cell)] /\ f \in [1 .. 2 -> Seq(Seq(Cell))]
  BY <1>4, <1>7, <1>8, <1>9
<1>11. r' = [r EXCEPT !.cur = c, !.fifo = f]
  BY <1>5, <1>8, <1>9 DEF TakeData
<1>12. r' \in ReaderType
  BY <1>3, <1>10, <1>11 DEF ReaderType
<1>13. r'.md5 = r.md5 /\ r'.filter = r.filter /\ r'.ctotal = r.ctotal /\ r'.out_pos = r.out_pos
  BY <1>3, <1>11 DEF ReaderType
<1>14. pc' \in InChunk /\ pc' \in Reading /\ pc' # "take"
  BY <1>1, <1>4 DEF InChunk, Reading
<1>15. ReadOk(pc', r', in', dst)
  BY <1>1, <1>2, <1>3, <1>12, <1>13, <1>14, SameOutput
<1> QED
  BY <1>1, <1>3, <1>14, <1>15, ReadFrame

LEMMA RefillStep ==
  ASSUME AInv, pc \in InChunk, NEW s \in {1, 2}, NEW back \in {"s0", "tok"}, Refill(s, back)
  PROVE  AInv'
<1>1. sc' = sc /\ src' = src /\ dst' = dst /\ in' = in
  BY DEF Refill
<1>2. pc \in Reading
  BY DEF Reading
<1>3. WriteInv /\ ReadOk(pc, r, in, dst) /\ r \in ReaderType /\ Shape(dst) /\ InOk(in)
  BY <1>2, ReadingNow
<1>4. r' = [r EXCEPT !.want = s, !.back = back]
  BY DEF Refill
<1>5. r' \in ReaderType
  BY <1>3, <1>4 DEF ReaderType
<1>6. /\ r'.md5 = r.md5 /\ r'.filter = r.filter /\ r'.ctotal = r.ctotal /\ r'.out_pos = r.out_pos
      /\ r'.fifo = r.fifo /\ r'.want = s
  BY <1>3, <1>4 DEF ReaderType
<1>7. pc' \in InChunk /\ pc' \in Reading
  BY DEF Refill, InChunk, Reading
<1>8. pc' = "take" => r'.fifo[r'.want] # <<>>
  <2>1. pc' = "take" => r.eos[s]
    BY DEF Refill
  <2>2. r.cur[s] = <<>> /\ ~Drained(s)
    BY DEF Refill
  <2> QED
    BY <1>6, <2>1, <2>2 DEF Drained
<1>9. ReadOk(pc', r', in', dst)
  BY <1>1, <1>3, <1>5, <1>6, <1>7, <1>8, SameOutput
<1> QED
  BY <1>1, <1>3, <1>7, <1>9, ReadFrame

LEMMA NeedS0Step ==
  ASSUME AInv, NeedS0
  PROVE  AInv'
<1>1. pc = "s0"
  BY DEF NeedS0
<1>2. pc \in Reading /\ pc \in InChunk
  BY <1>1 DEF Reading, InChunk
<1>3. WriteInv /\ ReadOk(pc, r, in, dst) /\ r \in ReaderType /\ Shape(dst) /\ InOk(in)
  BY <1>2, ReadingNow
<1>4. CASE Refill(1, "s0")
  BY <1>2, <1>4, 1 \in {1, 2}, "s0" \in {"s0", "tok"}, RefillStep
<1>5. CASE /\ \E n \in {Min({S0Win - Len(r.win), Len(r.cur[1])})} :
                r' = [r EXCEPT !.win = @ \o SubSeq(r.cur[1], 1, n), !.cur[1] = Cut(@, n)]
           /\ Len(r.win) < S0Win
           /\ UNCHANGED <<pc, sc, src, w, out, in, dst>>
  <2>1. r.win \in Seq(Cell) /\ r.cur \in [1 .. 2 -> Seq(Cell)]
    BY <1>3, ReaderFields
  <2>2. r.cur[1] \in Seq(Cell)
    BY <2>1
  <2>3. Len(r.win) \in Nat /\ Len(r.cur[1]) \in Nat /\ S0Win \in Nat
    BY <2>1, <2>2, LenProperties, ArchiveAssumption
  <2>4. PICK n \in Nat : /\ n <= Len(r.cur[1])
                         /\ r' = [r EXCEPT !.win = @ \o SubSeq(r.cur[1], 1, n), !.cur[1] = Cut(@, n)]
    <3>1. PICK n : n = Min({S0Win - Len(r.win), Len(r.cur[1])})
      OBVIOUS
    <3>2. n \in Nat /\ n <= Len(r.cur[1])
      <4>1. S0Win - Len(r.win) \in Nat
        BY <1>5, <2>3
      <4> QED
        BY <2>3, <3>1, <4>1, MinNat
    <3> QED
      BY <1>5, <3>1, <3>2
  <2>5. PICK v : v = r.win \o SubSeq(r.cur[1], 1, n)
    OBVIOUS
  <2>6. v \in Seq(Cell)
    <3>1. SubSeq(r.cur[1], 1, n) \in Seq(Cell)
      BY <2>2, <2>4, 1 \in Nat \ {0}, n \in Int, PartSeq
    <3> QED
      BY <2>1, <2>5, <3>1, ConcatProperties
  <2>7. PICK c : c = [r.cur EXCEPT ![1] = Cut(r.cur[1], n)]
    OBVIOUS
  <2>8. c \in [1 .. 2 -> Seq(Cell)]
    <3>1. Cut(r.cur[1], n) \in Seq(Cell)
      BY <2>2, CutSeq
    <3> QED
      BY <2>1, <2>7, <3>1
  <2>9. r' = [r EXCEPT !.win = v, !.cur = c]
    BY <2>4, <2>5, <2>7
  <2>10. r' \in ReaderType
    BY <1>3, <2>6, <2>8, <2>9 DEF ReaderType
  <2>11. r'.md5 = r.md5 /\ r'.filter = r.filter /\ r'.ctotal = r.ctotal /\ r'.out_pos = r.out_pos
    BY <1>3, <2>9 DEF ReaderType
  <2>12. pc' \in InChunk /\ pc' \in Reading /\ pc' # "take" /\ in' = in /\ dst' = dst /\ sc' = sc /\ src' = src
    BY <1>1, <1>2, <1>5
  <2>13. ReadOk(pc', r', in', dst)
    BY <1>2, <1>3, <2>10, <2>11, <2>12, SameOutput
  <2> QED
    BY <1>3, <2>12, <2>13, ReadFrame
<1>6. CASE /\ pc' = IF r.win = <<>> THEN "failed" ELSE "tok"
           /\ UNCHANGED <<sc, src, w, out, r, in, dst>>
  <2>1. CASE pc' = "failed"
    <3>1. pc' \in {"info", "infonext", "listed", "failed", "nocompress"} /\ sc' = sc /\ src' = src
      BY <1>6, <2>1
    <3> QED
      BY <1>3, <3>1, EndFrame
  <2>2. CASE pc' = "tok"
    <3>1. pc' \in InChunk /\ pc' \in Reading /\ pc' # "take"
      BY <2>2 DEF InChunk, Reading
    <3>2. in' = in /\ dst' = dst /\ r' = r /\ sc' = sc /\ src' = src
      BY <1>6
    <3>3. ReadOk(pc', r, in, dst)
      BY <1>2, <1>3, <3>1, SameOutput
    <3> QED
      BY <1>3, <3>1, <3>2, <3>3, ReadFrame
  <2> QED
    BY <1>6, <2>1, <2>2
<1> QED
  BY <1>4, <1>5, <1>6 DEF NeedS0

LEMMA EmptyWindowStep ==
  ASSUME AInv, EmptyWindow
  PROVE  AInv'
<1>1. pc = "tok" /\ pc' = "s0" /\ in' = in /\ dst' = dst /\ r' = r /\ sc' = sc /\ src' = src
  BY DEF EmptyWindow
<1>2. pc \in Reading /\ pc \in InChunk /\ pc' \in InChunk /\ pc' \in Reading /\ pc' # "take"
  BY <1>1 DEF Reading, InChunk
<1>3. WriteInv /\ ReadOk(pc, r, in, dst) /\ r \in ReaderType /\ InOk(in)
  BY <1>2, ReadingNow
<1>4. ReadOk(pc', r, in, dst)
  BY <1>2, <1>3, SameOutput
<1> QED
  BY <1>1, <1>2, <1>3, <1>4, ReadFrame

LEMMA AdvanceType ==
  ASSUME r \in ReaderType, r.win # <<>>, NEW n \in Nat, NEW sums \in Seq(Int), NEW x, x = Advance(n, sums)
  PROVE  /\ x \in ReaderType /\ x.out_pos = r.out_pos + n /\ x.ctotal = r.ctotal + n /\ x.filter = r.filter
         /\ x.md5 = IF r.filter = 0 THEN r.md5 \o sums ELSE r.md5
<1>1. r.out_pos \in Nat /\ r.ctotal \in Nat /\ r.win \in Seq(Cell) /\ r.md5 \in Seq(Int)
  BY ReaderFields
<1>2. PICK a \in Nat : a = r.out_pos + n
  BY <1>1
<1>3. PICK b \in Nat : b = r.ctotal + n
  BY <1>1
<1>4. PICK v : v = Tail(r.win)
  OBVIOUS
<1>5. v \in Seq(Cell)
  BY <1>1, <1>4, HeadTailProperties
<1>6. PICK m : m = IF r.filter = 0 THEN r.md5 \o sums ELSE r.md5
  OBVIOUS
<1>7. m \in Seq(Int)
  BY <1>1, <1>6, ConcatProperties
<1>8. PICK e : e = <<>>
  OBVIOUS
<1>9. e \in Seq(Cell)
  BY <1>8
<1>10. PICK y : y = [r EXCEPT !.out_pos = a, !.ctotal = b]
  OBVIOUS
<1>11. y \in ReaderType
  BY <1>10 DEF ReaderType
<1>12. y.out_pos = a /\ y.ctotal = b /\ y.filter = r.filter
  BY <1>10 DEF ReaderType
<1>13. PICK z : z = [y EXCEPT !.win = v, !.got = e, !.md5 = m]
  OBVIOUS
<1>14. z \in ReaderType
  BY <1>5, <1>7, <1>9, <1>11, <1>13 DEF ReaderType
<1>15. z.out_pos = y.out_pos /\ z.ctotal = y.ctotal /\ z.filter = y.filter /\ z.md5 = m
  BY <1>11, <1>13 DEF ReaderType
<1>16. x = [r EXCEPT !.out_pos = a, !.ctotal = b, !.win = v, !.got = e, !.md5 = m]
  BY <1>2, <1>3, <1>4, <1>6, <1>8 DEF Advance
<1>17. x = z
  BY <1>10, <1>13, <1>16
<1> QED
  BY <1>2, <1>3, <1>6, <1>12, <1>14, <1>15, <1>17

LEMMA PrefixOfConcat ==
  ASSUME NEW C, NEW s \in Seq(C), NEW d \in Seq(C), NEW n \in 0 .. Len(s)
  PROVE  SubSeq(s \o d, 1, n) = SubSeq(s, 1, n)
<1>1. Len(s) \in Nat /\ Len(d) \in Nat /\ n \in Nat
  BY LenProperties
<1>2. /\ s \o d \in Seq(C) /\ Len(s \o d) = Len(s) + Len(d)
      /\ \A i \in 1 .. Len(s) + Len(d) : (s \o d)[i] = IF i <= Len(s) THEN s[i] ELSE d[i - Len(s)]
  BY ConcatProperties
<1>3. PICK t : t = s \o d
  OBVIOUS
<1>4. PICK a : a = SubSeq(t, 1, n)
  OBVIOUS
<1>5. PICK b : b = SubSeq(s, 1, n)
  OBVIOUS
<1>6. t \in Seq(C) /\ n <= Len(t)
  BY <1>1, <1>2, <1>3
<1>7. a \in Seq(C) /\ Len(a) = n /\ \A i \in 1 .. n : a[i] = t[i]
  <2>1. /\ a \in Seq(C) /\ Len(a) = IF 1 <= n THEN n - 1 + 1 ELSE 0
        /\ \A i \in 1 .. n - 1 + 1 : a[i] = t[1 + i - 1]
    BY <1>4, <1>6, 1 \in Nat \ {0}, n \in Int, PartSeq
  <2> QED
    BY <1>1, <2>1
<1>8. b \in Seq(C) /\ Len(b) = n /\ \A i \in 1 .. n : b[i] = s[i]
  <2>1. /\ b \in Seq(C) /\ Len(b) = IF 1 <= n THEN n - 1 + 1 ELSE 0
        /\ \A i \in 1 .. n - 1 + 1 : b[i] = s[1 + i - 1]
    BY <1>1, <1>5, 1 \in Nat \ {0}, n \in Int, n <= Len(s), PartSeq
  <2> QED
    BY <1>1, <2>1
<1>9. ASSUME NEW i \in 1 .. Len(a) PROVE a[i] = b[i]
  <2>1. i \in 1 .. n /\ i <= Len(s) /\ i \in 1 .. Len(s) + Len(d)
    BY <1>1, <1>7
  <2>2. t[i] = s[i]
    BY <1>2, <1>3, <2>1
  <2> QED
    BY <1>7, <1>8, <2>1, <2>2
<1>10. a = b
  BY <1>7, <1>8, <1>9, SeqEqual
<1> QED
  BY <1>3, <1>4, <1>5, <1>10
\* What is delivered at the end of the output enters the digest, or waits for the filter.
LEMMA Grow ==
  ASSUME ReadOk("tok", r, in, dst), r.win # <<>>, NEW d \in Seq(Cell), d # <<>>,
         NEW p, p = PutFdout(dst, d), NEW x, x = Advance(Len(d), Values(d))
  PROVE  ReadOk("tok", x, in, p)
<1>0. "tok" \in InChunk /\ "tok" \notin {"rcd", "next"} /\ "tok" # "md5" /\ "tok" # "take"
  BY DEF InChunk
<1>1. r \in ReaderType /\ Shape(dst) /\ InOk(in) /\ PlaceInv(r, dst) /\ DigestInv(r, dst, Raw(r))
  BY <1>0 DEF ReadOk
<1>2. Values(d) \in Seq(Int) /\ Len(d) \in Nat /\ Len(d) > 0
  BY ValuesSeq, LenProperties, EmptySeq
<1>3. /\ x \in ReaderType /\ x.out_pos = r.out_pos + Len(d) /\ x.ctotal = r.ctotal + Len(d) /\ x.filter = r.filter
      /\ x.md5 = IF r.filter = 0 THEN r.md5 \o Values(d) ELSE r.md5
  BY <1>1, <1>2, AdvanceType
<1>4. Shape(p) /\ Pending(p) = Pending(dst) \o d /\ p.pipe = dst.pipe /\ (p.tmp => dst.tmp /\ p.relofs = dst.relofs)
  BY <1>1, PutFdoutShape
<1>5. r.out_pos \in Nat /\ r.ctotal \in Nat /\ r.filter \in 0 .. 1 /\ r.md5 \in Seq(Int)
  BY <1>1, ReaderFields
<1>6. PICK q : q = Pending(dst)
  OBVIOUS
<1>7. q \in Seq(Cell) /\ Len(q) \in Nat /\ dst.pipe \in Seq(Cell)
  BY <1>1, <1>6, OutPlace
<1>8. q \o d \in Seq(Cell) /\ Len(q \o d) = Len(q) + Len(d)
  BY <1>7, ConcatProperties
<1>9. r.ctotal <= Len(q)
  BY <1>1, <1>6 DEF PlaceInv
<1>10. PlaceInv(x, p)
  <2>1. Len(Pending(p)) = Len(q) + Len(d)
    BY <1>4, <1>6, <1>8
  <2>2. x.ctotal <= Len(Pending(p))
    BY <1>2, <1>3, <1>5, <1>7, <1>9, <2>1
  <2>3. ASSUME p.tmp PROVE x.out_pos = p.relofs + Len(p.buf)
    <3>1. dst.tmp /\ p.relofs = dst.relofs
      BY <1>4, <2>3
    <3>2. r.out_pos = dst.relofs + Len(dst.buf) /\ dst.buf = q /\ dst.relofs \in Nat /\ p.buf = Pending(p)
      BY <1>1, <1>4, <1>6, <2>3, <3>1, OutPlace DEF PlaceInv
    <3>3. r.out_pos = dst.relofs + Len(q) /\ Len(p.buf) = Len(q) + Len(d)
      BY <2>1, <3>2
    <3>4. PICK a \in Nat, b \in Nat, c \in Nat : a = dst.relofs /\ b = Len(q) /\ c = Len(d)
      BY <1>2, <1>7, <3>2
    <3>5. x.out_pos = (a + b) + c /\ p.relofs + Len(p.buf) = a + (b + c)
      BY <1>3, <3>1, <3>3, <3>4
    <3> QED
      BY <3>4, <3>5
  <2>4. ASSUME ~p.tmp PROVE x.out_pos >= p.pos /\ x.ctotal # 0
    <3>1. p.pos = Len(Pending(p))
      BY <1>4, <2>4, OutPlace
    <3>2. r.out_pos >= Len(q)
      <4>1. CASE dst.tmp
        <5>1. r.out_pos = dst.relofs + Len(dst.buf) /\ dst.buf = q /\ dst.relofs \in Nat
          BY <1>1, <1>6, <4>1, OutPlace DEF PlaceInv
        <5> QED
          BY <1>7, <5>1
      <4>2. CASE ~dst.tmp
        <5>1. r.out_pos >= dst.pos /\ dst.pos = Len(q)
          BY <1>1, <1>6, <4>2, OutPlace DEF PlaceInv
        <5> QED
          BY <5>1
      <4> QED
        BY <4>1, <4>2
    <3> QED
      BY <1>2, <1>3, <1>5, <1>7, <2>1, <3>1, <3>2
  <2> QED
    BY <2>2, <2>3, <2>4 DEF PlaceInv
<1>11. DigestInv(x, p, Raw(x))
  <2>1. CASE r.filter = 0
    <3>1. Raw(x) = 0 /\ Raw(r) = 0
      BY <1>3, <2>1 DEF Raw
    <3>2. r.md5 = Values(dst.pipe \o SubSeq(q, 1, Len(q) - 0))
      BY <1>1, <1>6, <3>1 DEF DigestInv
    <3>3. SubSeq(q, 1, Len(q) - 0) = q
      BY <1>7, SubSeqFull
    <3>4. SubSeq(q \o d, 1, Len(q \o d) - 0) = q \o d
      <4>1. Len(q \o d) - 0 = Len(q \o d)
        BY <1>2, <1>7, <1>8
      <4> QED
        BY <1>8, <4>1, SubSeqFull
    <3>5. x.md5 = Values(dst.pipe \o q) \o Values(d)
      BY <1>3, <2>1, <3>2, <3>3
    <3>6. dst.pipe \o q \in Seq(Cell)
      BY <1>7, ConcatProperties
    <3>7. Values((dst.pipe \o q) \o d) = Values(dst.pipe \o q) \o Values(d)
      BY <3>6, ValuesConcat
    <3>8. (dst.pipe \o q) \o d = dst.pipe \o (q \o d)
      <4>1. PICK g : g = dst.pipe
        OBVIOUS
      <4>2. g \in Seq(Cell)
        BY <1>7, <4>1
      <4>3. (g \o q) \o d = g \o (q \o d)
        BY <1>7, <4>2, ConcatAssociative
      <4> QED
        BY <4>1, <4>3
    <3>9. x.md5 = Values(dst.pipe \o SubSeq(q \o d, 1, Len(q \o d) - 0))
      BY <3>4, <3>5, <3>7, <3>8
    <3> QED
      BY <1>4, <1>6, <3>1, <3>9 DEF DigestInv
  <2>2. CASE r.filter = 1
    <3>1. Raw(x) = r.ctotal + Len(d) /\ Raw(r) = r.ctotal
      BY <1>3, <2>2 DEF Raw
    <3>2. PICK n \in 0 .. Len(q) : n = Len(q) - r.ctotal
      BY <1>5, <1>7, <1>9
    <3>3. r.md5 = Values(dst.pipe \o SubSeq(q, 1, n))
      BY <1>1, <1>6, <3>1, <3>2 DEF DigestInv
    <3>4. Len(q \o d) - (r.ctotal + Len(d)) = n
      BY <1>2, <1>5, <1>7, <1>8, <3>2
    <3>5. SubSeq(q \o d, 1, n) = SubSeq(q, 1, n)
      BY <1>7, PrefixOfConcat
    <3>6. x.md5 = Values(dst.pipe \o SubSeq(q \o d, 1, Len(q \o d) - (r.ctotal + Len(d))))
      <4>1. SubSeq(q \o d, 1, Len(q \o d) - (r.ctotal + Len(d))) = SubSeq(q, 1, n)
        BY <3>4, <3>5
      <4>2. x.md5 = r.md5
        BY <1>3, <2>2
      <4> QED
        BY <3>3, <4>1, <4>2
    <3> QED
      BY <1>4, <1>6, <3>1, <3>6 DEF DigestInv
  <2> QED
    BY <1>5, <2>1, <2>2
<1> QED
  BY <1>0, <1>1, <1>3, <1>4, <1>10, <1>11 DEF ReadOk

LEMMA UnzipLiteralStep ==
  ASSUME AInv, UnzipLiteral
  PROVE  AInv'
<1>1. pc = "tok" /\ r.win # <<>> /\ r.win[1][1] = "lit" /\ r.win[1][2] > 0
  BY DEF UnzipLiteral
<1>2. pc \in Reading /\ pc \in InChunk
  BY <1>1 DEF Reading, InChunk
<1>3. WriteInv /\ ReadOk(pc, r, in, dst) /\ r \in ReaderType /\ Shape(dst) /\ InOk(in)
  BY <1>2, ReadingNow
<1>4. r.got \in Seq(Cell) /\ r.win \in Seq(Cell) /\ r.cur \in [1 .. 2 -> Seq(Cell)]
  BY <1>3, ReaderFields
<1>5. PICK l \in Nat : l = r.win[1][2]
  <2>1. 1 \in 1 .. Len(r.win)
    BY <1>1, <1>4, EmptySeq, LenProperties
  <2>2. r.win[1] \in Cell
    BY <1>4, <2>1, ElementOfSeq
  <2> QED
    BY <1>1, <2>2, "lit" \in {"lit", "head", "link"}, CellFields
<1>6. CASE Refill(2, "tok")
  BY <1>2, <1>6, 2 \in {1, 2}, "tok" \in {"s0", "tok"}, RefillStep
<1>7. CASE /\ Len(r.got) < l
           /\ \E n \in {Min({l - Len(r.got), Len(r.cur[2])})} :
                r' = [r EXCEPT !.got = @ \o SubSeq(r.cur[2], 1, n), !.cur[2] = Cut(@, n)]
           /\ UNCHANGED <<pc, sc, src, w, out, in, dst>>
  <2>2. r.cur[2] \in Seq(Cell)
    BY <1>4
  <2>3. Len(r.got) \in Nat /\ Len(r.cur[2]) \in Nat
    BY <1>4, <2>2, LenProperties
  <2>4. PICK n \in Nat : /\ n <= Len(r.cur[2])
                         /\ r' = [r EXCEPT !.got = @ \o SubSeq(r.cur[2], 1, n), !.cur[2] = Cut(@, n)]
    <3>1. PICK n : n = Min({l - Len(r.got), Len(r.cur[2])})
      OBVIOUS
    <3>2. n \in Nat /\ n <= Len(r.cur[2])
      <4>1. l - Len(r.got) \in Nat
        BY <1>7, <2>3
      <4> QED
        BY <2>3, <3>1, <4>1, MinNat
    <3> QED
      BY <1>7, <3>1, <3>2
  <2>5. PICK v : v = r.got \o SubSeq(r.cur[2], 1, n)
    OBVIOUS
  <2>6. v \in Seq(Cell)
    <3>1. SubSeq(r.cur[2], 1, n) \in Seq(Cell)
      BY <2>2, <2>4, 1 \in Nat \ {0}, n \in Int, PartSeq
    <3> QED
      BY <1>4, <2>5, <3>1, ConcatProperties
  <2>7. PICK c : c = [r.cur EXCEPT ![2] = Cut(r.cur[2], n)]
    OBVIOUS
  <2>8. c \in [1 .. 2 -> Seq(Cell)]
    <3>1. Cut(r.cur[2], n) \in Seq(Cell)
      BY <2>2, CutSeq
    <3> QED
      BY <1>4, <2>7, <3>1
  <2>9. r' = [r EXCEPT !.got = v, !.cur = c]
    BY <2>4, <2>5, <2>7
  <2>10. r' \in ReaderType
    BY <1>3, <2>6, <2>8, <2>9 DEF ReaderType
  <2>11. r'.md5 = r.md5 /\ r'.filter = r.filter /\ r'.ctotal = r.ctotal /\ r'.out_pos = r.out_pos
    BY <1>3, <2>9 DEF ReaderType
  <2>12. pc' \in InChunk /\ pc' \in Reading /\ pc' # "take" /\ in' = in /\ dst' = dst /\ sc' = sc /\ src' = src
    BY <1>1, <1>2, <1>7
  <2>13. ReadOk(pc', r', in', dst)
    BY <1>2, <1>3, <2>10, <2>11, <2>12, SameOutput
  <2> QED
    BY <1>3, <2>12, <2>13, ReadFrame
<1>8. CASE /\ dst' = PutFdout(dst, r.got)
           /\ r' = Advance(Len(r.got), Values(r.got))
           /\ pc' = IF dst'.ok /\ Len(r.got) = l THEN "tok" ELSE "failed"
           /\ UNCHANGED <<sc, src, w, out, in>>
  <2>1. CASE pc' = "failed"
    <3>1. pc' \in {"info", "infonext", "listed", "failed", "nocompress"} /\ sc' = sc /\ src' = src
      BY <1>8, <2>1
    <3> QED
      BY <1>3, <3>1, EndFrame
  <2>2. CASE pc' = "tok" /\ Len(r.got) = l
    <3>1. r.got # <<>>
      BY <1>1, <1>4, <1>5, <2>2, EmptySeq
    <3>2. ReadOk("tok", r, in, dst)
      BY <1>1, <1>3
    <3>3. ReadOk("tok", r', in, dst')
      BY <1>1, <1>4, <1>8, <3>1, <3>2, Grow
    <3>4. pc' \in Reading /\ sc' = sc /\ src' = src /\ in' = in
      BY <1>8, <2>2 DEF Reading, InChunk
    <3>5. ReadOk(pc', r', in', dst')
      BY <2>2, <3>3, <3>4
    <3> QED
      BY <1>3, <3>4, <3>5, ReadFrame
  <2> QED
    BY <1>8, <2>1, <2>2
<1> QED
  BY <1>5, <1>6, <1>7, <1>8 DEF UnzipLiteral
LEMMA HistCells ==
  ASSUME NEW o, Shape(o), NEW pos \in Nat, NEW n \in Nat, o.tmp => pos >= o.relofs, ~o.tmp => pos + n <= Len(o.file)
  PROVE  ReadHist(o, pos, n) \in Seq(Cell) /\ Len(ReadHist(o, pos, n)) = n
<1>1. o \in OutType(Cell)
  BY DEF Shape
<1>2. o.buf \in Seq(Cell) /\ o.file \in Seq(Cell) /\ Hole \in Cell
  BY <1>1, OutFields, Cells
<1>3. CASE o.tmp
  <2>1. o.relofs \in Nat
    BY <1>3, OutPlace
  <2>2. PICK at \in Nat : at = pos - o.relofs
    BY <1>3, <2>1
  <2>3. Peek(o.buf, at, n) \in Seq(Cell) /\ Len(Peek(o.buf, at, n)) = n
    BY <1>2, PeekSeq
  <2> QED
    BY <1>3, <2>2, <2>3 DEF ReadHist
<1>4. CASE ~o.tmp
  <2>1. PICK m \in Nat \ {0} : m = pos + 1
    OBVIOUS
  <2>2. PICK k \in Int : k = pos + n
    OBVIOUS
  <2>3. SubSeq(o.file, m, k) \in Seq(Cell) /\ Len(SubSeq(o.file, m, k)) = IF m <= k THEN k - m + 1 ELSE 0
    BY <1>2, <1>4, <2>2, PartSeq
  <2>4. Len(SubSeq(o.file, m, k)) = n
    BY <2>1, <2>2, <2>3
  <2> QED
    BY <1>4, <2>1, <2>2, <2>3, <2>4 DEF ReadHist
<1> QED
  BY <1>3, <1>4

LEMMA UnzipMatchStep ==
  ASSUME AInv, UnzipMatch
  PROVE  AInv'
<1>1. pc = "tok" /\ r.win # <<>>
  BY DEF UnzipMatch
<1>2. pc \in Reading /\ pc \in InChunk
  BY <1>1 DEF Reading, InChunk
<1>3. WriteInv /\ ReadOk(pc, r, in, dst) /\ r \in ReaderType /\ Shape(dst) /\ InOk(in)
  BY <1>2, ReadingNow
<1>4. PICK len : len = r.win[1][2]
  OBVIOUS
<1>5. PICK offset : offset = r.win[1][3]
  OBVIOUS
<1>6. IF ~CanMatch(len, offset)
      THEN Fail /\ UNCHANGED <<r, in, dst>>
      ELSE /\ dst' = PutFdout(dst, MatchBytes(len, offset))
           /\ r' = Advance(len, Values(MatchBytes(len, offset)))
           /\ pc' = IF dst'.ok THEN "tok" ELSE "failed"
           /\ UNCHANGED <<sc, src, w, out, in>>
  BY <1>4, <1>5 DEF UnzipMatch
<1>7. CASE pc' = "failed"
  <2>1. pc' \in {"info", "infonext", "listed", "failed", "nocompress"} /\ sc' = sc /\ src' = src
    BY <1>6, <1>7 DEF Fail
  <2> QED
    BY <1>3, <2>1, EndFrame
<1>8. CASE CanMatch(len, offset) /\ pc' = "tok"
  <2>1. /\ r.win[1][1] = "match" /\ offset <= r.out_pos
        /\ HistOk(dst, r.out_pos - offset, Min({len, offset}))
    BY <1>8 DEF CanMatch
  <2>2. len \in Nat \ {0} /\ offset \in Nat \ {0}
    <3>1. r.win \in Seq(Cell)
      BY <1>3, ReaderFields
    <3>2. 1 \in 1 .. Len(r.win)
      BY <1>1, <3>1, EmptySeq, LenProperties
    <3>3. r.win[1] \in Cell
      BY <3>1, <3>2, ElementOfSeq
    <3> QED
      BY <1>4, <1>5, <2>1, <3>3, CellFields
  <2>3. PICK n \in Nat \ {0} : n = Min({len, offset})
    BY <2>2, MinOf
  <2>4. PICK pos \in Nat : pos = r.out_pos - offset
    <3>1. r.out_pos \in Nat
      BY <1>3, ReaderFields
    <3> QED
      BY <2>1, <2>2, <3>1
  <2>5. (dst.tmp => pos >= dst.relofs) /\ (~dst.tmp => pos + n <= Len(dst.file))
    BY <2>1, <2>3, <2>4 DEF HistOk
  <2>6. PICK b : b = ReadHist(dst, pos, n)
    OBVIOUS
  <2>7. b \in Seq(Cell) /\ Len(b) = n
    BY <1>3, <2>5, <2>6, HistCells
  <2>8. PICK d : d = Expand(b, n, len)
    OBVIOUS
  <2>9. d \in Seq(Cell) /\ Len(d) = len
    <3>1. n <= Len(b) /\ len \in Nat
      BY <2>2, <2>7
    <3> QED
      BY <2>7, <2>8, <3>1, ExpandSeq
  <2>10. d = MatchBytes(len, offset)
    BY <2>3, <2>4, <2>6, <2>8 DEF MatchBytes
  <2>11. d # <<>>
    BY <2>2, <2>9, EmptySeq
  <2>12. dst' = PutFdout(dst, d) /\ r' = Advance(Len(d), Values(d)) /\ sc' = sc /\ src' = src /\ in' = in
    BY <1>6, <1>8, <2>9, <2>10
  <2>13. ReadOk("tok", r, in, dst)
    BY <1>1, <1>3
  <2>14. ReadOk("tok", r', in, dst')
    BY <1>1, <2>9, <2>11, <2>12, <2>13, Grow
  <2>15. pc' \in Reading
    BY <1>8 DEF Reading, InChunk
  <2>16. ReadOk(pc', r', in', dst')
    BY <1>8, <2>12, <2>14
  <2> QED
    BY <1>3, <2>12, <2>15, <2>16, ReadFrame
<1> QED
  BY <1>6, <1>7, <1>8 DEF Fail

\* The filter rewrites the end of the output, and with that the digest covers all of it.
LEMMA UnfilterAll ==
  ASSUME ReadOk("tok", r, in, dst), r.filter = 1, UnfilterOk, NEW p, p = Unfilter(dst, Restored),
         NEW x, x = [r EXCEPT !.md5 = @ \o Restored]
  PROVE  x \in ReaderType /\ Shape(p) /\ DigestInv(x, p, 0)
<1>1. r \in ReaderType /\ Shape(dst) /\ PlaceInv(r, dst) /\ DigestInv(r, dst, r.ctotal)
  BY DEF ReadOk, InChunk, Raw
<1>2. r.out_pos \in Nat /\ r.ctotal \in Nat /\ r.md5 \in Seq(Int)
  BY <1>1, ReaderFields
<1>3. PICK q : q = Pending(dst)
  OBVIOUS
<1>4. q \in Seq(Cell) /\ Len(q) \in Nat /\ dst.pipe \in Seq(Cell)
  BY <1>1, <1>3, OutPlace
<1>5. r.ctotal <= Len(q)
  BY <1>1, <1>3 DEF PlaceInv
<1>6. PICK n \in 0 .. Len(q) : n = Len(q) - r.ctotal
  BY <1>2, <1>4, <1>5
<1>7. dst.tmp => Region - dst.relofs = n /\ dst.relofs \in Nat /\ dst.buf = q
  <2>1. ASSUME dst.tmp PROVE Region - dst.relofs = n /\ dst.relofs \in Nat /\ dst.buf = q
    <3>1. r.out_pos = dst.relofs + Len(dst.buf) /\ dst.buf = q /\ dst.relofs \in Nat
      BY <1>1, <1>3, <2>1, OutPlace DEF PlaceInv
    <3> QED
      BY <1>2, <1>4, <1>6, <3>1 DEF Region
  <2> QED
    BY <2>1
<1>8. ~dst.tmp => Region = n /\ dst.file = q /\ dst.pos = Len(q)
  <2>1. ASSUME ~dst.tmp PROVE Region = n /\ dst.file = q /\ dst.pos = Len(q)
    <3>1. dst.file = q /\ dst.pos = Len(q)
      BY <1>1, <1>3, <2>1, OutPlace
    <3>2. r.out_pos >= Len(q) /\ (r.ctotal = 0 => r.out_pos = Len(q))
      BY <1>1, <2>1, <3>1 DEF PlaceInv
    <3>3. r.ctotal = 0 \/ Region + r.ctotal <= Len(q)
      BY <2>1, <3>1 DEF UnfilterOk
    <3>4. r.out_pos = Len(q)
      BY <1>2, <1>4, <3>2, <3>3 DEF Region
    <3> QED
      BY <1>2, <1>4, <1>6, <3>1, <3>4 DEF Region
  <2> QED
    BY <2>1
<1>9. PICK h : h = ReadHist(dst, Region, r.ctotal)
  OBVIOUS
<1>10. h \in Seq(Cell) /\ Len(h) = r.ctotal
  <2>1. Region \in Nat /\ (dst.tmp => Region >= dst.relofs) /\ (~dst.tmp => Region + r.ctotal <= Len(dst.file))
    <3>1. CASE dst.tmp
      <4>1. Region \in Int
        BY <1>2 DEF Region
      <4> QED
        BY <1>4, <1>6, <1>7, <3>1, <4>1
    <3>2. CASE ~dst.tmp
      BY <1>2, <1>4, <1>6, <1>8, <3>2
    <3> QED
      BY <3>1, <3>2
  <2> QED
    BY <1>1, <1>2, <1>9, <2>1, HistCells
<1>11. PICK t : t = Restored
  OBVIOUS
<1>12. t \in Seq(Int) /\ Len(t) = r.ctotal
  <2>1. PICK v : v = Values(h)
    OBVIOUS
  <2>2. v \in Seq(Int) /\ Len(v) = r.ctotal
    BY <1>10, <2>1, ValuesSeq
  <2>3. t = Unfiltered(v)
    BY <1>9, <1>11, <2>1 DEF Restored
  <2> QED
    BY <2>2, <2>3, UnfilteredSeq
<1>13. PICK d : d = Bytes(t)
  OBVIOUS
<1>14. d \in Seq(Cell) /\ Len(d) = r.ctotal /\ Values(d) = t
  BY <1>12, <1>13, BytesSeq
<1>15. PICK e : e = Overwrite(q, n, d)
  OBVIOUS
<1>16. PICK a : a = SubSeq(q, 1, n)
  OBVIOUS
<1>17. a \in Seq(Cell) /\ Len(a) = n
  <2>1. 1 \in Nat \ {0} /\ n \in Int /\ n <= Len(q)
    BY <1>4
  <2>2. a \in Seq(Cell) /\ Len(a) = IF 1 <= n THEN n - 1 + 1 ELSE 0
    BY <1>4, <1>16, <2>1, PartSeq
  <2> QED
    BY <1>4, <2>2
<1>18. e = a \o d
  <2>1. n + Len(d) >= Len(q) /\ Hole \in Cell
    BY <1>2, <1>4, <1>6, <1>14, Cells
  <2> QED
    BY <1>4, <1>14, <1>15, <1>16, <2>1, OverwriteEnd
<1>19. e \in Seq(Cell) /\ Len(e) = Len(q)
  <2>1. a \o d \in Seq(Cell) /\ Len(a \o d) = Len(a) + Len(d)
    BY <1>14, <1>17, ConcatProperties
  <2>2. Len(a) + Len(d) = Len(q)
    BY <1>2, <1>4, <1>6, <1>14, <1>17
  <2> QED
    BY <1>18, <2>1, <2>2
<1>20. Shape(p) /\ Pending(p) = e /\ p.pipe = dst.pipe
  <2>1. dst \in OutType(Cell)
    BY <1>1 DEF Shape
  <2>2. CASE dst.tmp
    <3>1. p = [dst EXCEPT !.buf = e]
      BY <1>7, <1>11, <1>13, <1>15, <2>2 DEF Unfilter
    <3>2. p \in OutType(Cell)
      BY <1>19, <2>1, <3>1 DEF OutType
    <3>3. /\ p.buf = e /\ p.tmp = dst.tmp /\ p.ofs = dst.ofs /\ p.relofs = dst.relofs /\ p.file = dst.file
          /\ p.pos = dst.pos /\ p.pipe = dst.pipe
      BY <2>1, <3>1 DEF OutType
    <3>4. dst.ofs = Len(dst.buf) /\ dst.buf = q
      BY <1>1, <1>7, <2>2 DEF Shape
    <3>5. p.ofs = Len(p.buf)
      BY <1>19, <3>3, <3>4
    <3> QED
      BY <1>1, <2>2, <3>2, <3>3, <3>5 DEF Shape, Pending
  <2>3. CASE ~dst.tmp
    <3>1. p = [dst EXCEPT !.file = e]
      BY <1>8, <1>11, <1>13, <1>15, <2>3 DEF Unfilter
    <3>2. p \in OutType(Cell)
      BY <1>19, <2>1, <3>1 DEF OutType
    <3>3. p.file = e /\ p.tmp = dst.tmp /\ p.pos = dst.pos /\ p.pipe = dst.pipe
      BY <2>1, <3>1 DEF OutType
    <3>4. p.pos = Len(p.file)
      BY <1>8, <1>19, <2>3, <3>3
    <3> QED
      BY <1>1, <2>3, <3>2, <3>3, <3>4 DEF Shape, Pending
  <2> QED
    BY <2>2, <2>3
<1>21. PICK m : m = r.md5 \o t
  OBVIOUS
<1>22. m \in Seq(Int)
  BY <1>2, <1>12, <1>21, ConcatProperties
<1>23. x \in ReaderType /\ x.md5 = m
  <2>1. x = [r EXCEPT !.md5 = m]
    BY <1>11, <1>21
  <2>2. x \in ReaderType
    BY <1>1, <1>22, <2>1 DEF ReaderType
  <2> QED
    BY <1>1, <2>1, <2>2 DEF ReaderType
<1>24. DigestInv(x, p, 0)
  <2>1. r.md5 = Values(dst.pipe \o a)
    BY <1>1, <1>3, <1>6, <1>16 DEF DigestInv
  <2>2. PICK g : g = dst.pipe
    OBVIOUS
  <2>3. g \in Seq(Cell)
    BY <1>4, <2>2
  <2>4. g \o a \in Seq(Cell)
    BY <1>17, <2>3, ConcatProperties
  <2>5. Values((g \o a) \o d) = Values(g \o a) \o Values(d)
    BY <1>14, <2>4, ValuesConcat
  <2>6. (g \o a) \o d = g \o (a \o d)
    BY <1>14, <1>17, <2>3, ConcatAssociative
  <2>7. SubSeq(e, 1, Len(e) - 0) = e
    <3>1. Len(e) - 0 = Len(e)
      BY <1>4, <1>19
    <3> QED
      BY <1>19, <3>1, SubSeqFull
  <2>8. m = Values(g \o e)
    BY <1>14, <1>18, <1>21, <2>1, <2>2, <2>5, <2>6
  <2> QED
    BY <1>20, <1>23, <2>2, <2>7, <2>8 DEF DigestInv
<1> QED
  BY <1>20, <1>23, <1>24
\* Between chunks the digest covers all of the output.
LEMMA DigestWhole ==
  ASSUME NEW o, Shape(o), NEW x
  PROVE  DigestInv(x, o, 0) <=> x.md5 = Values(o.pipe \o Pending(o))
<1>1. Pending(o) \in Seq(Cell) /\ Len(Pending(o)) \in Nat
  BY OutPlace
<1>2. Len(Pending(o)) - 0 = Len(Pending(o))
  BY <1>1
<1>3. SubSeq(Pending(o), 1, Len(Pending(o))) = Pending(o)
  BY <1>1
<1> QED
  BY <1>2, <1>3 DEF DigestInv

LEMMA ClosedInIn ==
  ASSUME r \in ReaderType, InOk(in), NEW j, j = ClosedIn
  PROVE  InOk(j)
<1>1. /\ r.eos \in [1 .. 2 -> BOOLEAN] /\ r.payload_end \in Int /\ r.eof \in BOOLEAN
      /\ r.initial \in Nat /\ r.total_read \in Nat
  BY ReaderFields
<1>2. PICK p \in Nat : p = r.initial + r.total_read
  BY <1>1
<1>3. PICK a : a = ReadSeekto(in, p)
  OBVIOUS
<1>4. InOk(a)
  BY <1>3, ReadSeektoIn
<1>5. PICK u \in BOOLEAN : u = Unread(1)
  BY DEF Unread
<1>6. PICK v \in BOOLEAN : v = Unread(2)
  BY DEF Unread
<1>7. PICK b : b = Flaw(a, u, "s0_tail")
  OBVIOUS
<1>8. InOk(b)
  BY <1>4, <1>7, "s0_tail" \in FlawNames, FlawIn DEF FlawNames
<1>9. PICK n : n = IF r.ctotal = 0 THEN "empty_frame" ELSE "tail_unread"
  OBVIOUS
<1>10. n \in FlawNames
  BY <1>9 DEF FlawNames
<1>11. j = Flaw(b, v, n)
  BY <1>2, <1>3, <1>5, <1>6, <1>7, <1>9 DEF ClosedIn
<1> QED
  BY <1>8, <1>10, <1>11, FlawIn

LEMMA CloseStreamInStep ==
  ASSUME AInv, CloseStreamIn
  PROVE  AInv'
<1>1. pc = "tok" /\ in' = ClosedIn /\ sc' = sc /\ src' = src /\ pc' \in {"next", "failed"}
  BY DEF CloseStreamIn
<1>2. pc \in Reading /\ pc \in InChunk
  BY <1>1 DEF Reading, InChunk
<1>3. WriteInv /\ ReadOk(pc, r, in, dst) /\ r \in ReaderType /\ Shape(dst) /\ InOk(in)
  BY <1>2, ReadingNow
<1>4. CASE pc' = "failed"
  <2>1. pc' \in {"info", "infonext", "listed", "failed", "nocompress"}
    BY <1>4
  <2> QED
    BY <1>1, <1>3, <2>1, EndFrame
<1>5. CASE pc' = "next"
  <2>1. InOk(in')
    BY <1>1, <1>3, ClosedInIn
  <2>2. r' \in ReaderType /\ Shape(dst') /\ DigestInv(r', dst', 0)
    <3>1. r.filter = 1 => UnfilterOk
      BY <1>5 DEF CloseStreamIn
    <3>2. CASE r.filter = 1
      <4>1. dst' = Unfilter(dst, Restored) /\ r' = [r EXCEPT !.md5 = @ \o Restored]
        BY <3>1, <3>2 DEF CloseStreamIn
      <4>2. ReadOk("tok", r, in, dst)
        BY <1>1, <1>3
      <4> QED
        BY <3>1, <3>2, <4>1, <4>2, UnfilterAll
    <3>3. CASE r.filter # 1
      <4>1. dst' = dst /\ r' = r
        BY <3>3 DEF CloseStreamIn
      <4>2. DigestInv(r, dst, Raw(r)) /\ Raw(r) = 0
        BY <1>2, <1>3, <3>3 DEF ReadOk, Raw
      <4> QED
        BY <1>3, <4>1, <4>2
    <3> QED
      BY <3>2, <3>3
  <2>3. pc' \in Reading /\ pc' \notin InChunk /\ pc' # "md5" /\ pc' # "take"
    BY <1>5 DEF Reading, InChunk
  <2>4. ReadOk(pc', r', in', dst')
    BY <2>1, <2>2, <2>3 DEF ReadOk
  <2> QED
    BY <1>1, <1>3, <2>3, <2>4, ReadFrame
<1> QED
  BY <1>1, <1>4, <1>5

LEMMA ContinuedType ==
  ASSUME r \in ReaderType, InOk(in), NEW lrzc \in BOOLEAN, NEW x, x = Continued(in, lrzc)
  PROVE  x \in ReaderType /\ x.md5 = r.md5
<1>1. r.total \in Int /\ r.ctotal \in Nat /\ r.last_block \in BOOLEAN
  BY ReaderFields
<1>2. PICK l : l = ReadLrzc(in)
  OBVIOUS
<1>3. InOk(l) /\ Len(l.got) = 2
  BY <1>2, 2 \in Nat, ReadAllIn DEF ReadLrzc
<1>4. l.got[2] \in Cell
  BY <1>3, 2 \in 1 .. 2, GotCells
<1>5. PICK n \in Int : n = IF lrzc THEN l.got[2][2] ELSE 0
  BY <1>4, CellValue
<1>6. PICK last \in BOOLEAN : last = IF lrzc THEN (l.got[1][3] = 1) ELSE r.last_block
  BY <1>1
<1>7. PICK t \in Int : t = r.total + r.ctotal
  BY <1>1
<1>8. x = [r EXCEPT !.total = t, !.next = n, !.last_block = last]
  BY <1>2, <1>5, <1>6, <1>7 DEF Continued
<1>9. x \in ReaderType
  BY <1>8 DEF ReaderType
<1>10. x.md5 = r.md5
  BY <1>8 DEF ReaderType
<1> QED
  BY <1>9, <1>10
\* A block ends with the whole of it delivered, and digested.
LEMMA NextBlockOut ==
  ASSUME Shape(dst), NEW x, DigestInv(x, dst, 0), NEW p, p = IF sc.dout THEN FlushTmpout(dst) ELSE dst
  PROVE  Shape(p) /\ DigestInv(x, p, 0) /\ x.md5 = Values(IF sc.dout THEN p.pipe ELSE p.file)
<1>1. x.md5 = Values(dst.pipe \o Pending(dst))
  BY DigestWhole
<1>2. dst.pipe \in Seq(Cell) /\ Pending(dst) \in Seq(Cell)
  BY OutPlace
<1>3. CASE sc.dout
  <2>1. Shape(p) /\ Pending(p) = <<>> /\ p.pipe = dst.pipe \o Pending(dst)
    BY <1>3, FlushShape
  <2>2. p.pipe \in Seq(Cell)
    BY <2>1, OutPlace
  <2>3. p.pipe \o Pending(p) = p.pipe
    BY <2>1, <2>2, ConcatEmptySeq
  <2>4. x.md5 = Values(p.pipe)
    BY <1>1, <2>1
  <2> QED
    BY <1>3, <2>1, <2>3, <2>4, DigestWhole
<1>4. CASE ~sc.dout
  <2>1. p = dst /\ dst.pipe = <<>> /\ ~dst.tmp
    BY <1>4 DEF Shape
  <2>2. Pending(dst) = dst.file
    BY <2>1 DEF Pending
  <2>3. dst.pipe \o Pending(dst) = dst.file
    BY <1>2, <2>1, <2>2, ConcatEmptySeq
  <2> QED
    BY <1>1, <1>4, <2>1, <2>3
<1>5. sc.dout \/ ~sc.dout
  OBVIOUS
<1> QED
  BY <1>3, <1>4, <1>5

LEMMA NextBlockStep ==
  ASSUME AInv, NextBlock
  PROVE  AInv'
<1>1. pc = "next"
  BY DEF NextBlock
<1>2. pc \in Reading
  BY <1>1 DEF Reading
<1>3. WriteInv /\ ReadOk(pc, r, in, dst) /\ r \in ReaderType /\ Shape(dst) /\ InOk(in)
  BY <1>2, ReadingNow
<1>4. sc' = sc /\ src' = src
  BY DEF NextBlock, Fail
<1>5. CASE pc' = "failed"
  <2>1. pc' \in {"info", "infonext", "listed", "failed", "nocompress"}
    BY <1>5
  <2> QED
    BY <1>3, <1>4, <2>1, EndFrame
<1>6. CASE pc' # "failed"
  <2>1. PICK lrzc \in BOOLEAN :
          /\ r' = Continued(in, lrzc)
          /\ in' = ClearTmpinbuf(IF lrzc THEN ReadLrzc(in) ELSE in)
          /\ dst' = IF sc.dout THEN FlushTmpout(dst) ELSE dst
          /\ pc' \in {"rcd", "md5"}
    <3>1. r.streaming \in BOOLEAN /\ r.eof \in BOOLEAN
      BY <1>3, ReaderFields
    <3>2. (r.streaming /\ ~r.eof) \in BOOLEAN
      BY <3>1
    <3> QED
      BY <1>6, <3>2 DEF NextBlock, Fail
  <2>2. r' \in ReaderType /\ r'.md5 = r.md5
    BY <1>3, <2>1, ContinuedType
  <2>3. InOk(in')
    <3>1. PICK i : i = IF lrzc THEN ReadLrzc(in) ELSE in
      OBVIOUS
    <3>2. InOk(ReadLrzc(in))
      BY <1>3, 2 \in Nat, ReadAllIn DEF ReadLrzc
    <3>3. InOk(i)
      BY <1>3, <3>1, <3>2
    <3>4. in' = ClearTmpinbuf(i)
      BY <2>1, <3>1
    <3> QED
      BY <3>3, <3>4, ClearTmpinbufIn
  <2>4. DigestInv(r', dst, 0)
    <3>1. DigestInv(r, dst, 0)
      BY <1>1, <1>3 DEF ReadOk
    <3> QED
      BY <2>2, <3>1 DEF DigestInv
  <2>5. Shape(dst') /\ DigestInv(r', dst', 0) /\ r'.md5 = Values(IF sc.dout THEN dst'.pipe ELSE dst'.file)
    BY <1>3, <2>1, <2>4, NextBlockOut
  <2>6. pc' \in Reading /\ pc' \notin InChunk /\ pc' # "take"
    BY <2>1 DEF Reading, InChunk
  <2>7. ReadOk(pc', r', in', dst')
    BY <2>2, <2>3, <2>5, <2>6 DEF ReadOk
  <2> QED
    BY <1>3, <1>4, <2>6, <2>7, ReadFrame
<1> QED
  BY <1>5, <1>6

\* The one digest in the archive is that of the input.
LEMMA CheckMd5Step ==
  ASSUME AInv, CheckMd5
  PROVE  AInv'
<1>1. pc = "md5" /\ sc' = sc /\ src' = src /\ r' = r /\ dst' = dst /\ pc' \in {"done", "failed"}
  BY DEF CheckMd5
<1>2. pc \in Reading
  BY <1>1 DEF Reading
<1>3. WriteInv /\ ReadOk(pc, r, in, dst) /\ r \in ReaderType /\ Shape(dst) /\ InOk(in)
  BY <1>2, ReadingNow
<1>4. CASE pc' = "failed"
  <2>1. pc' \in {"info", "infonext", "listed", "failed", "nocompress"}
    BY <1>4
  <2> QED
    BY <1>1, <1>3, <2>1, EndFrame
<1>5. CASE pc' = "done"
  <2>1. TrailerIn(in).ok /\ TrailerIn(in).got[1] = <<"md5", 0, 0, Digest(r.md5)>>
    BY <1>5 DEF CheckMd5
  <2>2. PICK c \in Cell : c = TrailerIn(in).got[1]
    BY <1>3, <2>1, TrailerCell
  <2>3. c = <<"md5", 0, 0, Digest(r.md5)>> /\ c[1] = "md5"
    BY <2>1, <2>2
  <2>4. c = <<"md5", 0, 0, src>>
    BY <2>3, CellFields
  <2>5. r.md5 = src
    <3>1. c[4] = Digest(r.md5) /\ c[4] = src
      BY <2>3, <2>4
    <3> QED
      BY <3>1 DEF Digest
  <2>6. r.md5 = Output
    BY <1>1, <1>3 DEF ReadOk, Output
  <2>7. Output' = Output
    BY <1>1 DEF Output
  <2>8. SuccessIsRight'
    BY <1>1, <2>5, <2>6, <2>7 DEF SuccessIsRight
  <2>9. pc' \notin Reading /\ pc' # "written" /\ pc' \notin Writing
    BY <1>5 DEF Writing, Reading, InChunk
  <2>10. WriteInv'
    BY <1>1, <1>3, <2>9 DEF WriteInv
  <2>11. ReadInv'
    BY <2>9 DEF ReadInv
  <2> QED
    BY <1>5, <2>8, <2>10, <2>11 DEF AInv
<1> QED
  BY <1>1, <1>4, <1>5

LEMMA DecompressStep ==
  ASSUME AInv, Decompress
  PROVE  AInv'
BY ReadMagicStep, OpenStreamInStep, FillAnotherStep, TakeDataStep, NeedS0Step, EmptyWindowStep,
   UnzipLiteralStep, UnzipMatchStep, CloseStreamInStep, NextBlockStep, CheckMd5Step DEF Decompress

\* A listing delivers nothing.
LEMMA GetFileinfoStep ==
  ASSUME AInv, GetFileinfo
  PROVE  AInv'
<1>1. sc' = sc /\ src' = src
  BY DEF GetFileinfo, InfoChunk, InfoNext, Fail
<1>2. pc' \in {"info", "infonext", "listed", "failed", "nocompress"}
  <2>1. CASE InfoChunk
    BY <2>1 DEF InfoChunk, Fail
  <2>2. CASE InfoNext
    BY <2>2 DEF InfoNext
  <2> QED
    BY <2>1, <2>2 DEF GetFileinfo
<1> QED
  BY <1>1, <1>2, EndFrame DEF AInv

LEMMA Unmoved ==
  ASSUME AInv, UNCHANGED vars
  PROVE  AInv'
<1>1. pc' = pc /\ sc' = sc /\ src' = src /\ w' = w /\ out' = out /\ r' = r /\ in' = in /\ dst' = dst
  BY DEF vars
<1>2. Cell' = Cell
  BY <1>1 DEF Cell
<1>3. WriteInv'
  BY <1>1, <1>2 DEF AInv, WriteInv, OutType
<1>4. SuccessIsRight'
  BY <1>1 DEF AInv, SuccessIsRight, Output
<1>5. ReadInv'
  <2>1. CASE pc \in Reading
    <3>1. ReadOk(pc', r', in', dst')
      BY <1>1, <2>1 DEF AInv, ReadInv
    <3> QED
      BY <1>1, <2>1, <3>1, ReadFrame DEF AInv
  <2>2. CASE pc \notin Reading
    BY <1>1, <2>2 DEF ReadInv
  <2> QED
    BY <2>1, <2>2
<1> QED
  BY <1>1, <1>3, <1>4, <1>5 DEF AInv

LEMMA NextStep ==
  ASSUME AInv, [Next]_vars
  PROVE  AInv'
<1>1. CASE Finished
  BY <1>1, Unmoved DEF Finished
<1> QED
  BY <1>1, CompressStep, DecompressStep, GetFileinfoStep, Unmoved DEF Next

\* A decompressor that reports success has delivered exactly what was compressed, for all
\* sizes of window, block, token and buffer, all tokens the search may choose, with and
\* without a filter, through files, pipes, temporary buffers and the files these spill to:
\* the test of the MD5 trailer at the end of runzip_fd covers every mistake on the way.
THEOREM DeliveredIsInput == Spec => []SuccessIsRight
<1>1. Init => AInv
  BY InitInv
<1>2. AInv /\ [Next]_vars => AInv'
  BY NextStep
<1>3. AInv => SuccessIsRight
  BY DEF AInv
<1> QED
  BY <1>1, <1>2, <1>3, PTL DEF Spec
=============================================================================
