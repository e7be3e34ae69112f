----------------------------- MODULE TmpBuffers -----------------------------
(***************************************************************************)
(* The pseudo files lrzip keeps in RAM when it writes to stdout or reads   *)
(* an archive from stdin, and the real temporary files it falls back to    *)
(* when they no longer fit (lrzip.c, the lower half of stream.c).  An      *)
(* output and an input are records, the operations are operators on them:  *)
(*                                                                         *)
(*   output  tmp     FLAG_TMP_OUTBUF                                       *)
(*           buf     tmp_outbuf, its length being out_len                  *)
(*           ofs     out_ofs              relofs  out_relofs               *)
(*           file    what fd_out holds    pos     its offset               *)
(*           fd      a temporary file could be created                     *)
(*           pipe    what has been written to stdout                       *)
(*   input   tmp     FLAG_TMP_INBUF                                        *)
(*           buf     the memory of tmp_inbuf                               *)
(*           len     in_len               ofs     in_ofs                   *)
(*           rest    what stdin has still to deliver                       *)
(*           file    what fd_in holds     pos     its offset               *)
(*           got     what the last read returned                           *)
(*                                                                         *)
(* Both have maxlen (out_maxlen, in_maxlen), ok, which is FALSE once an    *)
(* operation has failed, and the set flaws of the situations met in which  *)
(* the code confuses two positions.  A cell stands for one field or one    *)
(* byte, and Hole for bytes nobody wrote.                                  *)
(***************************************************************************)
EXTENDS Integers, Sequences

Hole == <<"hole", 0, 0, 0>>

(* write(2) or memcpy of d at the offset at, beyond the end if need be. *)
Overwrite(s, at, d) ==
  [k \in 1..(IF at + Len(d) > Len(s) THEN at + Len(d) ELSE Len(s)) |->
     IF k > at /\ k <= at + Len(d) THEN d[k - at]
     ELSE IF k <= Len(s) THEN s[k] ELSE Hole]

(* n cells from the offset at, reading uninitialised memory past the end. *)
Peek(s, at, n) == [k \in 1..n |-> IF at + k <= Len(s) THEN s[at + k] ELSE Hole]

Flaw(r, cond, name) == [r EXCEPT !.flaws = IF cond THEN @ \cup {name} ELSE @]

-----------------------------------------------------------------------------
(* Output *)

FileOut == [tmp |-> FALSE, buf |-> <<>>, ofs |-> 0, relofs |-> 0, file |-> <<>>, pos |-> 0,
            fd |-> TRUE, pipe |-> <<>>, maxlen |-> 0, ok |-> TRUE, flaws |-> {}]

(* open_tmpoutbuf: a compressor leaves room for the magic, reserved cells. *)
OpenTmpoutbuf(maxlen, reserved, fd) ==
  [FileOut EXCEPT !.tmp = TRUE, !.maxlen = maxlen, !.fd = fd,
                  !.buf = [k \in 1..reserved |-> Hole], !.ofs = reserved]

WriteFdout(o, d) == [o EXCEPT !.file = Overwrite(@, o.pos, d), !.pos = @ + Len(d)]

CloseTmpoutbuf(o) == [o EXCEPT !.tmp = FALSE, !.buf = <<>>]

(* The fall back to a physical file: the buffer alone is copied, while the *)
(* positions its owner holds count what was flushed before it too.         *)
SpillOut(o) ==
  Flaw(CloseTmpoutbuf([WriteFdout(o, o.buf) EXCEPT !.ok = @ /\ o.fd]), o.relofs > 0, "late_spill")

PutFdout(o, d) ==
  IF ~o.tmp THEN WriteFdout(o, d)
  ELSE IF o.ofs + Len(d) > o.maxlen THEN WriteFdout(SpillOut(o), d)
  ELSE [o EXCEPT !.buf = Overwrite(@, o.ofs, d), !.ofs = @ + Len(d)]

(* write_buf, write_u8 and write_val, which stop at a failure of put_fdout *)
WriteBuf(o, d) == IF o.ok THEN PutFdout(o, d) ELSE o

(* seekto; fdout_seekto of lrzip.c is the same *)
SeekOut(o, pos) ==
  IF o.tmp THEN [o EXCEPT !.ofs = pos - o.relofs,
                          !.ok = @ /\ pos - o.relofs \in 0..Len(o.buf)]
  ELSE [o EXCEPT !.pos = pos]

GetSeek(o) == IF o.tmp THEN o.relofs + o.ofs ELSE o.pos

FlushTmpoutbuf(o) ==
  [o EXCEPT !.pipe = @ \o o.buf, !.relofs = @ + Len(o.buf), !.buf = <<>>, !.ofs = 0]

DumpTmpoutfile(o) == [o EXCEPT !.pipe = @ \o o.file, !.file = <<>>, !.pos = 0, !.ok = @ /\ o.fd]

FlushTmpout(o) == IF o.tmp THEN FlushTmpoutbuf(o) ELSE DumpTmpoutfile(o)

(* seekto_fdhist and read_fdhist: the n cells of output at the position pos *)
(* as the match copier sees them; fewer when they are not there.            *)
ReadHist(o, pos, n) ==
  IF o.tmp THEN Peek(o.buf, pos - o.relofs, n)
  ELSE SubSeq(o.file, pos + 1, pos + n)

HistOk(o, pos, n) ==
  IF o.tmp THEN pos >= o.relofs /\ pos - o.relofs + n <= o.maxlen
  ELSE pos + n <= Len(o.file)

-----------------------------------------------------------------------------
(* Input *)

FileIn(archive) ==
  [tmp |-> FALSE, buf |-> <<>>, len |-> 0, ofs |-> 0, rest |-> <<>>, file |-> archive, pos |-> 0,
   got |-> <<>>, maxlen |-> 0, ok |-> TRUE, flaws |-> {}]

OpenTmpinbuf(archive, maxlen) ==
  [FileIn(<<>>) EXCEPT !.tmp = TRUE, !.rest = archive, !.maxlen = maxlen]

(* getchar, n times *)
Getchars(i, n) ==
  IF n > Len(i.rest) THEN [i EXCEPT !.ok = FALSE, !.got = Peek(<<>>, 0, n)]
  ELSE [i EXCEPT !.got = SubSeq(i.rest, 1, n), !.rest = SubSeq(@, n + 1, Len(@))]

(* The bytes go to in_ofs, although stdin has been read up to in_len. *)
ReadFdin(i, n) ==
  Flaw([Getchars(i, n) EXCEPT !.buf = Overwrite(@, i.ofs, Getchars(i, n).got), !.len = i.ofs + n],
       i.ofs # i.len, "gap_read")

WriteFdin(i) == [i EXCEPT !.file = @ \o SubSeq(i.buf, 1, i.len)]

(* The rest of stdin follows, and the file is rewound. *)
ReadTmpinfile(i) == [i EXCEPT !.file = @ \o i.rest, !.rest = <<>>, !.pos = 0]

CloseTmpinbuf(i) == [i EXCEPT !.tmp = FALSE, !.buf = <<>>]

DumpStdin(i) == CloseTmpinbuf(ReadTmpinfile(WriteFdin(i)))

ReadFile(i, n) ==
  [i EXCEPT !.got = Peek(i.file, i.pos, n), !.pos = @ + n, !.ok = @ /\ i.pos + n <= Len(i.file)]

CopyIn(i, n) == [i EXCEPT !.got = Peek(i.buf, i.ofs, n), !.ofs = @ + n]

ReadAll(i, n) ==
  IF ~i.tmp THEN ReadFile(i, n)
  ELSE IF i.ofs + n > i.maxlen
       THEN ReadFile(Flaw(DumpStdin(i), i.ofs > 0, "dump_read"), n)
  ELSE IF i.ofs + n > i.len THEN CopyIn(ReadFdin(i, i.ofs + n - i.len), n)
  ELSE CopyIn(i, n)

(* read_buf, read_u8 and read_val, which give up after a failure *)
ReadBuf(i, n) == IF i.ok THEN ReadAll(i, n) ELSE [i EXCEPT !.got = Peek(<<>>, 0, n)]

ReadSeekto(i, pos) ==
  IF ~i.tmp THEN [i EXCEPT !.pos = pos]
  ELSE IF pos <= i.len THEN [i EXCEPT !.ofs = pos]
  ELSE IF i.ofs + pos - i.len > i.maxlen THEN [DumpStdin(i) EXCEPT !.pos = pos]
  ELSE [ReadFdin(i, pos - i.len) EXCEPT !.ofs = pos]

GetReadseek(i) == IF i.tmp THEN i.ofs ELSE i.pos

(* clear_tmpinbuf, after a chunk: what is buffered beyond it is kept. *)
ClearTmpinbuf(i) ==
  IF ~i.tmp THEN i
  ELSE IF i.ofs < i.len
       THEN [i EXCEPT !.buf = Overwrite(@, 0, SubSeq(i.buf, i.ofs + 1, i.len)),
                      !.len = i.len - i.ofs, !.ofs = 0]
  ELSE [i EXCEPT !.len = 0, !.ofs = 0]

(* seekto_fdinend, then seekto_fdin n cells before the end *)
SeekFdinend(i) ==
  IF ~i.tmp THEN [i EXCEPT !.pos = Len(i.file)]
  ELSE IF i.len + Len(i.rest) > i.maxlen THEN [i EXCEPT !.ok = FALSE]
  ELSE [i EXCEPT !.buf = Overwrite(@, i.len, i.rest), !.len = @ + Len(i.rest),
                 !.ofs = i.len + Len(i.rest), !.rest = <<>>]

SeekFdin(i, pos) ==
  IF i.tmp THEN [i EXCEPT !.ofs = pos, !.ok = @ /\ pos \in 0..i.len]
  ELSE [i EXCEPT !.pos = pos, !.ok = @ /\ pos >= 0]
=============================================================================
