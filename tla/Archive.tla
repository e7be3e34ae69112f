------------------------------- MODULE Archive -------------------------------
(***************************************************************************)
(* One archive written by rzip_fd and read back by runzip_fd, or listed by *)
(* get_fileinfo: the magic, the framing of streamed blocks (LRZC), the     *)
(* chunk headers (RCD), the linked blocks of the two streams, the tokens   *)
(* and the MD5 trailer, through files or through the temporary buffers of  *)
(* module TmpBuffers.                                                      *)
(*                                                                         *)
(* The threads are left out: CompThreads shows that blocks reach the       *)
(* archive in the order they are cut, StreamIn that they are handed out in *)
(* that order.  What the search of rzip_chunk finds is a choice (module    *)
(* RzipSearch shows that it describes the input), so the tokens chosen     *)
(* define the input.  Every field is one cell:                             *)
(*                                                                         *)
(*   <<"magic", st_size, streaming, last>>   <<"rcd", eof, size, filter>>  *)
(*   <<"lrzc", u_size, last, 0>> <<"csize", c_size, 0, 0>>                 *)
(*   <<"head", c_len, 0, 0>> <<"link", last_head, 0, 0>>                   *)
(*   <<"lit", len, 0, 0>> <<"match", len, offset, 0>>     (stream 0)       *)
(*   <<"byte", value, 0, 0>>                              (stream 1)       *)
(*   <<"md5", 0, 0, digest>>                                               *)
(***************************************************************************)
EXTENDS TmpBuffers, FiniteSetsExt

CONSTANTS
  Scenarios,  \* how the archive is written and read, see Scenario
  Window,     \* max_chunk and max_mmap: the size of a full chunk
  BufSize,    \* sinfo->bufsize: a stream is cut into blocks of this size
  MaxToken,   \* the longest token, 0xFFFF in the format
  S0Win,      \* RUNZIP_S0_WIN
  PageSize    \* what tmp_inbuf has beyond in_maxlen

ASSUME ArchiveAssumption ==
  {Window, BufSize, MaxToken, S0Win, PageSize} \subseteq Nat \ {0}

VARIABLES
  pc,     \* what the process does next
  sc,     \* the scenario
  src,    \* the bytes given to the compressor so far
  w,      \* the compressor: chunk, streams and blocks
  out,    \* its output
  r,      \* the decompressor
  in,     \* its input
  dst     \* its output

vars == <<pc, sc, src, w, out, r, in, dst>>

\* cin, cout, din, dout: the compressor or decompressor uses stdin or stdout
\* fd: temporary files can be created; info: list the archive instead
Scenario == [cin : BOOLEAN, cout : BOOLEAN, din : BOOLEAN, dout : BOOLEAN, info : BOOLEAN,
             size : Nat, filter : 0..1, threads : Nat, fd : BOOLEAN,
             comax : Nat, doutmax : Nat, dinmax : Nat]

ASSUME ScenariosAssumption == Scenarios \subseteq Scenario

-----------------------------------------------------------------------------
(* Bytes are numbered, so that no displaced byte goes unnoticed. *)

Radix == 16

(* A chunk filter adds to a byte its place in the chunk (module Filters has *)
(* the real ones); this is its inverse.                                     *)
Unfiltered(s) == [k \in DOMAIN s |-> (s[k] + Radix - (k % Radix)) % Radix]

(* A digest without collisions: the bytes themselves. *)
Digest(s) == s

Bytes(s)  == [k \in DOMAIN s |-> <<"byte", s[k], 0, 0>>]
Values(s) == [k \in DOMAIN s |-> s[k][2]]

(* match_expand: len bytes that repeat the last offset bytes of s. *)
Expand(s, offset, len) == [k \in 1..len |-> s[Len(s) - offset + 1 + ((k - 1) % offset)]]

Cut(s, n) == SubSeq(s, n + 1, Len(s))

-----------------------------------------------------------------------------
(* The compressor *)

NewChunk == [buf |-> <<>>,            \* the chunk so far, as the search sees it
             size |-> 0, left |-> 0,  \* its size, and what has no token yet
             s |-> <<<<>>, <<>>>>,    \* the stream buffers
             queue |-> <<>>,          \* blocks cut, not yet written
             begun |-> FALSE,         \* ctis->chunks > 0
             initial |-> 0, cur |-> 0, head |-> <<0, 0>>]

Writer == [ch |-> NewChunk, eof |-> FALSE, stdin_eof |-> FALSE, pass |-> 0, blocks_done |-> 0,
           lrzc |-> 0]

(* The decompressor; everything from initial on belongs to one chunk. *)
Reader == [expected |-> 0, streaming |-> FALSE, last_block |-> FALSE, eof |-> FALSE,
           total |-> 0, next |-> 0, md5 |-> <<>>,
           initial |-> 0, payload_end |-> 0, total_read |-> 0, filter |-> 0,
           out_pos |-> 0, ctotal |-> 0, win |-> <<>>, lit |-> 0, got |-> <<>>,
           want |-> 1, back |-> "s0",
           cur |-> <<<<>>, <<>>>>, fifo |-> <<<<>>, <<>>>>, eos |-> <<FALSE, FALSE>>,
           head |-> <<0, 0>>]

(* initialise_control, then compress_file: the output is a file that begins *)
(* with room for the magic, or a temporary buffer that does.                *)
OpenOut ==
  IF sc.cout THEN OpenTmpoutbuf(sc.comax, 1, sc.fd) ELSE PutFdout(FileOut, <<Hole>>)

Init ==
  /\ sc \in Scenarios
  /\ pc = "chunk"
  /\ src = <<>>
  /\ w = Writer
  /\ out = OpenOut
  /\ r = Reader /\ in = FileIn(<<>>) /\ dst = FileOut

MorePasses == w.pass = 0 \/ (IF sc.cin THEN ~w.stdin_eof ELSE Len(src) < sc.size)

MmapChunk(n) ==
  [w EXCEPT !.ch = [NewChunk EXCEPT !.size = n, !.left = n], !.pass = @ + 1]

(* Only a read that returns nothing shows the end of stdin. *)
MmapStdin(n) == [MmapChunk(n) EXCEPT !.stdin_eof = n < Window, !.eof = n < Window]

MmapFile(n) == [MmapChunk(n) EXCEPT !.eof = (n = sc.size - Len(src))]

(* The head of the loop of rzip_fd: mmap_stdin reads a window or what is left, *)
(* a file is cut into windows.                                                 *)
NextChunk ==
  /\ pc = "chunk" /\ MorePasses
  /\ w' = IF sc.cin THEN MmapStdin(Min({Window, sc.size - Len(src)}))
           ELSE MmapFile(Min({Window, sc.size - Len(src)}))
  /\ pc' = "token"
  /\ UNCHANGED <<sc, src, out, r, in, dst>>

(* write_stream, which cuts a block every time the buffer is full. *)
Blocks(s, t) == [j \in 1..(Len(t) \div BufSize) |-> <<s, SubSeq(t, (j - 1) * BufSize + 1, j * BufSize)>>]

WriteStream(ch, s, d) ==
  [ch EXCEPT !.s[s] = Cut(ch.s[s] \o d, BufSize * (Len(ch.s[s] \o d) \div BufSize)),
             !.queue = @ \o Blocks(s, ch.s[s] \o d)]

(* put_literal and put_match.  The bytes of a literal are new ones. *)
Literal(n) ==
  /\ src' = src
  /\ \E d \in {[k \in 1..n |-> Len(src) + Len(w.ch.buf) + k]} :
       w' = [w EXCEPT !.ch = [WriteStream(WriteStream(w.ch, 1, <<<<"lit", n, 0, 0>>>>), 2, Bytes(d))
                                EXCEPT !.buf = @ \o d, !.left = @ - n]]

Match(n, offset) ==
  /\ src' = src
  /\ w' = [w EXCEPT !.ch = [WriteStream(w.ch, 1, <<<<"match", n, offset, 0>>>>)
                              EXCEPT !.buf = @ \o Expand(w.ch.buf, offset, n), !.left = @ - n]]

PutToken ==
  /\ pc = "token" /\ w.ch.queue = <<>> /\ w.ch.left > 0
  /\ \E n \in 1..Min({MaxToken, w.ch.left}) :
       \/ Literal(n)
       \/ \E offset \in 1..Len(w.ch.buf) : Match(n, offset)
  /\ UNCHANGED <<pc, sc, out, r, in, dst>>

(* A variant that clears the last stream first. *)
ClearBackwards(ch) ==
  [ch EXCEPT !.queue = @ \o <<<<2, ch.s[2]>>, <<1, ch.s[1]>>>>, !.s = <<<<>>, <<>>>>]

(* The end of rzip_chunk: the end token, then close_stream_out, which cuts *)
(* both buffers, empty ones too.                                           *)
ClearBuffers(ch) ==
  [ch EXCEPT !.queue = @ \o <<<<1, ch.s[1]>>, <<2, ch.s[2]>>>>, !.s = <<<<>>, <<>>>>]

EndChunk ==
  /\ pc = "token" /\ w.ch.queue = <<>> /\ w.ch.left = 0
  /\ w' = [w EXCEPT !.ch = ClearBuffers(WriteStream(w.ch, 1, <<<<"lit", 0, 0, 0>>>>))]
  /\ src' = src \o (IF sc.filter = 1 THEN Unfiltered(w.ch.buf) ELSE w.ch.buf)
  /\ pc' = "flushed"
  /\ UNCHANGED <<sc, out, r, in, dst>>

Bit(b) == IF b THEN 1 ELSE 0

StSize == IF sc.cin THEN Len(src) ELSE sc.size

Magic == <<"magic",
           IF ~sc.cin \/ ~sc.cout \/ w.eof THEN StSize ELSE 0,
           Bit(sc.cout /\ ~w.eof), Bit(~(sc.cout /\ ~w.eof))>>

WriteMagic(o) == PutFdout(SeekOut(o, 0), <<Magic>>)

(* compthread, the first block of a chunk: magic or LRZC, RCD, and one empty *)
(* header for each stream.                                                   *)
WriteLrzc(o) == WriteBuf(o, <<<<"lrzc", w.ch.size, Bit(w.eof), 0>>, <<"csize", 0, 0, 0>>>>)

Preamble(o) ==
  IF ~sc.cout THEN o ELSE IF w.blocks_done = 0 THEN WriteMagic(o) ELSE WriteLrzc(o)

Rcd(o) == WriteBuf(o, <<<<"rcd", Bit(w.eof), w.ch.size, sc.filter>>>>)

Header(c_len) == <<<<"head", c_len, 0, 0>>, <<"link", 0, 0, 0>>>>

ChunkHeader(o) == WriteBuf(Rcd(Preamble(o)), Header(0) \o Header(0))

StreamHead == 2

BeginChunk ==
  /\ pc \in {"token", "flushed"} /\ w.ch.queue # <<>> /\ ~w.ch.begun
  /\ out' = ChunkHeader(out)
  /\ w' = [w EXCEPT !.ch.begun = TRUE,
                    !.ch.initial = GetSeek(Rcd(Preamble(out))),
                    !.ch.cur = 2 * StreamHead,
                    !.ch.head = <<StreamHead - 1, 2 * StreamHead - 1>>,
                    !.lrzc = IF sc.cout /\ w.blocks_done > 0 THEN GetSeek(out) ELSE @]
  /\ UNCHANGED <<pc, sc, src, r, in, dst>>

(* compthread, any block: the link of the stream's last block is filled in, *)
(* then the block goes to the end.                                          *)
LinkBlock(o, ch, s) == WriteBuf(SeekOut(o, ch.initial + ch.head[s]), <<<<"link", ch.cur, 0, 0>>>>)

AppendBlock(o, ch, d) == WriteBuf(WriteBuf(SeekOut(o, ch.initial + ch.cur), Header(Len(d))), d)

WriteBlock ==
  /\ pc \in {"token", "flushed"} /\ w.ch.queue # <<>> /\ w.ch.begun
  /\ \E s \in {w.ch.queue[1][1]}, d \in {w.ch.queue[1][2]} :
       /\ out' = AppendBlock(LinkBlock(out, w.ch, s), w.ch, d)
       /\ w' = [w EXCEPT !.ch.queue = Tail(@),
                         !.ch.head[s] = w.ch.cur + StreamHead - 1,
                         !.ch.cur = @ + StreamHead + Len(d)]
  /\ UNCHANGED <<pc, sc, src, r, in, dst>>

(* A variant that counts the LRZC header itself. *)
PatchWithHeader(o) ==
  IF o.tmp
  THEN [o EXCEPT !.buf = Overwrite(@, w.lrzc - o.relofs + 1,
                                   <<<<"csize", o.relofs + Len(o.buf) - w.lrzc, 0, 0>>>>)]
  ELSE [o EXCEPT !.file = Overwrite(@, w.lrzc + 1, <<<<"csize", o.pos - w.lrzc, 0, 0>>>>)]

(* patch_lrzc_c_size *)
PatchLrzc(o) ==
  IF o.tmp
  THEN [o EXCEPT !.buf = Overwrite(@, w.lrzc - o.relofs + 1,
                                   <<<<"csize", o.relofs + Len(o.buf) - w.lrzc - 2, 0, 0>>>>),
                 !.ok = @ /\ w.lrzc >= o.relofs]
  ELSE [o EXCEPT !.file = Overwrite(@, w.lrzc + 1, <<<<"csize", o.pos - w.lrzc - 2, 0, 0>>>>),
                 !.ok = @ /\ o.pos - w.lrzc - 2 >= 0]

(* The end of the loop of rzip_fd: with STDOUT the magic, which lzma's first *)
(* block makes out of date, is written again, or the LRZC finished, and the  *)
(* block goes to the pipe.                                                   *)
FinishBlock(o, lzma) ==
  IF w.blocks_done > 0 THEN PatchLrzc(o) ELSE IF lzma THEN WriteMagic(o) ELSE o

AfterChunk ==
  /\ pc = "flushed" /\ w.ch.queue = <<>>
  /\ IF sc.cout
     THEN /\ \E lzma \in BOOLEAN : out' = FlushTmpout(FinishBlock(out, lzma))
          /\ w' = [w EXCEPT !.blocks_done = @ + 1]
     ELSE UNCHANGED <<out, w>>
  /\ pc' = "chunk"
  /\ UNCHANGED <<sc, src, r, in, dst>>

(* The MD5 trailer and the last flush of rzip_fd; compress_file writes the *)
(* magic of a file last.                                                   *)
Trailer(o) == PutFdout(o, <<<<"md5", 0, 0, Digest(src)>>>>)

FinishArchive ==
  /\ pc = "chunk" /\ ~MorePasses
  /\ out' = IF sc.cout THEN FlushTmpout(Trailer(out)) ELSE WriteMagic(Trailer(out))
  /\ pc' = "written"
  /\ UNCHANGED <<sc, src, w, r, in, dst>>

CompressFails ==
  /\ ~out.ok /\ pc \in {"chunk", "token", "flushed", "written"}
  /\ pc' = "nocompress"
  /\ UNCHANGED <<sc, src, w, out, r, in, dst>>

Compress ==
  \/ out.ok /\ (\/ NextChunk \/ PutToken \/ EndChunk \/ BeginChunk \/ WriteBlock
                \/ AfterChunk \/ FinishArchive)
  \/ CompressFails

TheArchive == IF sc.cout THEN out.pipe ELSE out.file

-----------------------------------------------------------------------------
(* The decompressor *)

Fail == pc' = "failed" /\ UNCHANGED <<sc, src, w, out>>

(* decompress_file: read_magic or read_tmpinmagic, which bypasses the buffer. *)
OpenArchive ==
  IF sc.din THEN Getchars(OpenTmpinbuf(TheArchive, sc.dinmax), 1) ELSE ReadFile(FileIn(TheArchive), 1)

GetMagic(m) ==
  [Reader EXCEPT !.expected = m[2], !.streaming = (m[3] = 1), !.last_block = (m[4] = 1)]

ReadMagic ==
  /\ pc = "written" /\ out.ok
  /\ in' = OpenArchive
  /\ dst' = IF sc.dout THEN OpenTmpoutbuf(sc.doutmax, 0, sc.fd) ELSE FileOut
  /\ r' = GetMagic(OpenArchive.got[1])
  /\ pc' = IF OpenArchive.got[1][1] # "magic" THEN "failed"
           ELSE IF sc.info THEN "info" ELSE "rcd"
  /\ UNCHANGED <<sc, src, w, out>>

(* runzip_chunk and open_stream_in read the chunk header and the two empty *)
(* stream headers.                                                         *)
ReadRcd(i)   == ReadBuf(i, 1)
ReadHead(i)  == ReadBuf(i, StreamHead)
OpenedIn(i)  == ReadHead(ReadHead(ReadRcd(i)))

IsHead(cells) == cells[1][1] = "head" /\ cells[2][1] = "link"

GoodOpening(i) ==
  /\ ReadRcd(i).got[1][1] = "rcd"
  /\ \A h \in {ReadHead(ReadRcd(i)).got, OpenedIn(i).got} : IsHead(h) /\ h[1][2] = 0
  /\ OpenedIn(i).ok

OpenChunk(rcd, h0, h1) ==
  [r EXCEPT !.eof = (rcd[2] = 1), !.filter = rcd[4],
            !.initial = GetReadseek(ReadRcd(in)),
            !.payload_end = IF r.next > 0 THEN GetReadseek(in) + r.next ELSE 0,
            !.next = 0, !.total_read = 2 * StreamHead, !.ctotal = 0,
            !.out_pos = GetSeek(dst), !.win = <<>>,
            !.cur = <<<<>>, <<>>>>, !.fifo = <<<<>>, <<>>>>, !.eos = <<FALSE, FALSE>>,
            !.head = <<h0[2][2], h1[2][2]>>]

OpenStreamIn ==
  /\ pc = "rcd"
  /\ in' = OpenedIn(in)
  /\ IF GoodOpening(in)
     THEN /\ r' = OpenChunk(ReadRcd(in).got[1], ReadHead(ReadRcd(in)).got, OpenedIn(in).got)
          /\ pc' = "tok"
     ELSE pc' = "failed" /\ UNCHANGED r
  /\ UNCHANGED <<sc, src, w, out, dst>>

(* fill_buffer.  One thread serves stream 0, the others read ahead in     *)
(* stream 1 (here 1 and 2).                                               *)
Capacity(s) == IF s = 1 \/ sc.threads = 1 THEN 1 ELSE sc.threads + 1

HeadIn(s)    == ReadHead(ReadSeekto(in, r.initial + r.head[s]))
BlockIn(s, n) == ReadBuf(HeadIn(s), n)

(* The tests fill_buffer makes on a header with the lengths n and the link next. *)
GoodHead(s, n, next) ==
  /\ n >= 1
  /\ next = 0 \/ next > r.head[s]
  /\ next = 0 \/ r.payload_end = 0 \/ r.initial + next < r.payload_end
  /\ next = 0 \/ HeadIn(s).tmp \/ r.initial + next < Len(HeadIn(s).file)
  /\ r.payload_end = 0 \/ r.initial + r.total_read + StreamHead + n <= r.payload_end

GoodBlock(s, n, next) == GoodHead(s, n, next) /\ BlockIn(s, n).ok

SkipEmpty(s, n, next) ==
  /\ n = 0 /\ s = 2 /\ next = 0
  /\ in' = HeadIn(s)
  /\ r' = [r EXCEPT !.total_read = @ + StreamHead, !.eos[s] = TRUE]
  /\ pc' = IF r.fifo[s] = <<>> THEN "failed" ELSE "take"

StartBlock(s, n, next) ==
  /\ GoodBlock(s, n, next)
  /\ in' = BlockIn(s, n)
  /\ r' = [r EXCEPT !.total_read = @ + StreamHead + n, !.eos[s] = (next = 0), !.head[s] = next,
                    !.fifo[s] = Append(@, BlockIn(s, n).got)]
  /\ \/ next # 0 /\ Len(r.fifo[s]) + 1 < Capacity(s) /\ pc' = "fill"
     \/ pc' = "take"  \* the end, no free thread, or ram_alloced >= maxram

BadBlock(s, n, next) ==
  /\ ~GoodBlock(s, n, next) /\ ~(n = 0 /\ s = 2 /\ next = 0)
  /\ in' = IF GoodHead(s, n, next) THEN BlockIn(s, n)
           ELSE Flaw(HeadIn(s), n = 0 /\ s = 1, "s0_tail")
  /\ pc' = "failed" /\ UNCHANGED r

FillAnother ==
  /\ pc = "fill"
  /\ \E s \in {r.want}, h \in {HeadIn(r.want)} :
       IF h.ok /\ IsHead(h.got)
       THEN \/ SkipEmpty(s, h.got[1][2], h.got[2][2])
            \/ StartBlock(s, h.got[1][2], h.got[2][2])
            \/ BadBlock(s, h.got[1][2], h.got[2][2])
       ELSE in' = h /\ pc' = "failed" /\ UNCHANGED r
  /\ UNCHANGED <<sc, src, w, out, dst>>

TakeData ==
  /\ pc = "take"
  /\ r' = [r EXCEPT !.cur[r.want] = Head(r.fifo[r.want]), !.fifo[r.want] = Tail(@)]
  /\ pc' = r.back
  /\ UNCHANGED <<sc, src, w, out, in, dst>>

Drained(s) == r.cur[s] = <<>> /\ r.eos[s] /\ r.fifo[s] = <<>>

(* read_stream, out of data, calls fill_buffer. *)
Refill(s, back) ==
  /\ r.cur[s] = <<>> /\ ~Drained(s)
  /\ r' = [r EXCEPT !.want = s, !.back = back]
  /\ pc' = IF r.eos[s] THEN "take" ELSE "fill"
  /\ UNCHANGED <<sc, src, w, out, in, dst>>

(* s0_need fills its whole window, as far as stream 0 goes. *)
NeedS0 ==
  /\ pc = "s0"
  /\ \/ /\ Len(r.win) < S0Win /\ Refill(1, "s0")
     \/ /\ Len(r.win) < S0Win /\ r.cur[1] # <<>>
        /\ \E n \in {Min({S0Win - Len(r.win), Len(r.cur[1])})} :
             r' = [r EXCEPT !.win = @ \o SubSeq(r.cur[1], 1, n), !.cur[1] = Cut(@, n)]
        /\ UNCHANGED <<pc, sc, src, w, out, in, dst>>
     \/ /\ Len(r.win) = S0Win \/ Drained(1)
        /\ pc' = IF r.win = <<>> THEN "failed" ELSE "tok"
        /\ UNCHANGED <<sc, src, w, out, r, in, dst>>

Advance(n, sums) ==
  [r EXCEPT !.out_pos = @ + n, !.ctotal = @ + n, !.win = Tail(@), !.got = <<>>,
            !.md5 = IF r.filter = 0 THEN @ \o sums ELSE @]

(* read_header, and unzip_literal or unzip_match *)
EmptyWindow ==
  /\ pc = "tok" /\ r.win = <<>>
  /\ pc' = "s0"
  /\ UNCHANGED <<sc, src, w, out, r, in, dst>>

UnzipLiteral ==
  /\ pc = "tok" /\ r.win # <<>> /\ r.win[1][1] = "lit" /\ r.win[1][2] > 0
  /\ \/ /\ Len(r.got) < r.win[1][2] /\ Refill(2, "tok")
     \/ /\ Len(r.got) < r.win[1][2] /\ r.cur[2] # <<>>
        /\ \E n \in {Min({r.win[1][2] - Len(r.got), Len(r.cur[2])})} :
             r' = [r EXCEPT !.got = @ \o SubSeq(r.cur[2], 1, n), !.cur[2] = Cut(@, n)]
        /\ UNCHANGED <<pc, sc, src, w, out, in, dst>>
     \/ /\ Len(r.got) = r.win[1][2] \/ Drained(2)
        /\ dst' = PutFdout(dst, r.got)
        /\ r' = Advance(Len(r.got), Values(r.got))
        /\ pc' = IF dst'.ok /\ Len(r.got) = r.win[1][2] THEN "tok" ELSE "failed"
        /\ UNCHANGED <<sc, src, w, out, in>>

MatchBytes(len, offset) ==
  LET period == Min({len, offset})
  IN  Expand(ReadHist(dst, r.out_pos - offset, period), period, len)

(* Cells that are no token (the reader has lost its place) are a match that *)
(* fails these tests or, later, the MD5's.                                  *)
CanMatch(len, offset) ==
  /\ r.win[1][1] = "match"
  /\ offset <= r.out_pos
  /\ HistOk(dst, r.out_pos - offset, Min({len, offset}))
  /\ dst.tmp => dst.ofs = r.out_pos - dst.relofs

UnzipMatch ==
  /\ pc = "tok" /\ r.win # <<>> /\ r.win[1][1] # "lit"
  /\ \E len \in {r.win[1][2]}, offset \in {r.win[1][3]} :
       IF ~CanMatch(len, offset)
       THEN Fail /\ UNCHANGED <<r, in, dst>>
       ELSE /\ dst' = PutFdout(dst, MatchBytes(len, offset))
            /\ r' = Advance(len, Values(MatchBytes(len, offset)))
            /\ pc' = IF dst'.ok THEN "tok" ELSE "failed"
            /\ UNCHANGED <<sc, src, w, out, in>>

(* unfilter_chunk rewrites the chunk in the buffer or, through fd_hist and *)
(* pwrite, in the file.                                                    *)
Region == r.out_pos - r.ctotal

UnfilterOk ==
  r.ctotal = 0 \/ (IF dst.tmp THEN Region >= dst.relofs ELSE Region + r.ctotal <= Len(dst.file))

(* A variant that forgets what was flushed before. *)
UnfilterAtStart(o, bytes) ==
  IF o.tmp THEN [o EXCEPT !.buf = Overwrite(@, Region, Bytes(bytes))]
  ELSE [o EXCEPT !.file = Overwrite(@, Region, Bytes(bytes))]

Unfilter(o, bytes) ==
  IF o.tmp THEN [o EXCEPT !.buf = Overwrite(@, Region - o.relofs, Bytes(bytes))]
  ELSE [o EXCEPT !.file = Overwrite(@, Region, Bytes(bytes))]

Restored == Unfiltered(Values(ReadHist(dst, Region, r.ctotal)))

(* close_stream_in: the next chunk begins after all the blocks counted in    *)
(* total_read.  An empty last block that nobody had reason to read is not.   *)
Unread(s) == ~r.eos[s] /\ (r.payload_end > 0 \/ ~r.eof)

ClosedIn ==
  Flaw(Flaw(ReadSeekto(in, r.initial + r.total_read), Unread(1), "s0_tail"),
       Unread(2), IF r.ctotal = 0 THEN "empty_frame" ELSE "tail_unread")

CloseStreamIn ==
  /\ pc = "tok" /\ r.win # <<>> /\ r.win[1] = <<"lit", 0, 0, 0>>
  /\ in' = ClosedIn
  /\ IF r.filter = 1 /\ UnfilterOk
     THEN /\ dst' = Unfilter(dst, Restored)
          /\ r' = [r EXCEPT !.md5 = @ \o Restored]
     ELSE UNCHANGED <<dst, r>>
  /\ pc' = IF /\ r.filter = 1 => UnfilterOk
              /\ ClosedIn.ok
              /\ r.payload_end > 0 => r.initial + r.total_read = r.payload_end
           THEN "next" ELSE "failed"
  /\ UNCHANGED <<sc, src, w, out>>

(* The loop of runzip_fd after a chunk. *)
MoreChunks(total) ==
  total < r.expected \/ (r.expected = 0 /\ ~r.eof)

ReadLrzc(i) == ReadAll(i, 2)

GoodLrzc(i) ==
  /\ ReadLrzc(i).ok /\ ReadLrzc(i).got[1][1] = "lrzc"
  /\ ReadLrzc(i).got[2][1] = "csize" /\ ReadLrzc(i).got[2][2] > 0

Continued(i, lrzc) ==
  [r EXCEPT !.total = @ + r.ctotal,
            !.next = IF lrzc THEN ReadLrzc(i).got[2][2] ELSE 0,
            !.last_block = IF lrzc THEN (ReadLrzc(i).got[1][3] = 1) ELSE @]

NextBlock ==
  /\ pc = "next"
  /\ \E lrzc \in {r.streaming /\ ~r.eof} :
       IF \/ r.ctotal = 0 /\ r.total < r.expected
          \/ lrzc /\ ~GoodLrzc(in)
       THEN Fail /\ in' = ReadLrzc(in) /\ UNCHANGED <<r, dst>>
       ELSE /\ r' = Continued(in, lrzc)
            /\ in' = ClearTmpinbuf(IF lrzc THEN ReadLrzc(in) ELSE in)
            /\ dst' = IF sc.dout THEN FlushTmpout(dst) ELSE dst
            /\ pc' = IF ~dst'.ok THEN "failed"
                     ELSE IF MoreChunks(r'.total) THEN "rcd"
                     ELSE IF r.streaming /\ ~r.eof /\ ~r'.last_block THEN "failed"
                     ELSE "md5"
            /\ UNCHANGED <<sc, src, w, out>>

TrailerIn(i) == ReadAll(SeekFdin(SeekFdinend(i), GetReadseek(SeekFdinend(i)) - 1), 1)

CheckMd5 ==
  /\ pc = "md5"
  /\ in' = TrailerIn(in)
  /\ pc' = IF TrailerIn(in).ok /\ TrailerIn(in).got[1] = <<"md5", 0, 0, Digest(r.md5)>>
           THEN "done" ELSE "failed"
  /\ UNCHANGED <<sc, src, w, out, r, dst>>

Decompress == \/ ReadMagic \/ OpenStreamIn \/ FillAnother \/ TakeData \/ NeedS0
              \/ EmptyWindow \/ UnzipLiteral \/ UnzipMatch \/ CloseStreamIn
              \/ NextBlock \/ CheckMd5

-----------------------------------------------------------------------------
(* get_fileinfo walks the headers of a file without reading the data.  Its  *)
(* position is in.pos, after the last block of stream 1 that it saw.        *)

HeadAt(i, pos) == ReadFile([i EXCEPT !.pos = pos], StreamHead)

Walk(i, ofs, s) ==
  LET walk[head \in Nat] ==
        LET j == HeadAt(i, ofs + head)
        IN  IF ~j.ok \/ ~IsHead(j.got) THEN [end |-> 0, ok |-> FALSE]
            ELSE IF j.got[2][2] <= head
            THEN [end |-> j.pos + j.got[1][2], ok |-> j.got[2][2] = 0]
            ELSE walk[j.got[2][2]]
  IN  walk[(s - 1) * StreamHead]

InfoChunk ==
  /\ pc = "info"
  /\ \E j \in {ReadRcd(in)} : \E s0 \in {Walk(j, j.pos, 1)}, s1 \in {Walk(j, j.pos, 2)} :
       IF j.got[1][1] # "rcd" \/ ~s0.ok \/ ~s1.ok
       THEN Fail /\ UNCHANGED <<r, in, dst>>
       ELSE /\ in' = [j EXCEPT !.pos = s1.end]
            /\ r' = [r EXCEPT !.eof = (j.got[1][2] = 1), !.total = @ + j.got[1][3]]
            /\ pc' = IF s1.end >= Len(j.file) - 1 THEN "listed" ELSE "infonext"
            /\ UNCHANGED <<sc, src, w, out, dst>>

InfoNext ==
  /\ pc = "infonext"
  /\ IF r.streaming /\ ~r.eof
     THEN in' = ReadLrzc(in) /\ pc' = IF GoodLrzc(in) THEN "info" ELSE "failed"
     ELSE UNCHANGED in /\ pc' = "info"
  /\ UNCHANGED <<sc, src, w, out, r, dst>>

GetFileinfo == InfoChunk \/ InfoNext

Finished == pc \in {"done", "failed", "listed", "nocompress"} /\ UNCHANGED vars

Next == Compress \/ Decompress \/ GetFileinfo \/ Finished

Spec == Init /\ [][Next]_vars

-----------------------------------------------------------------------------
(* Properties *)

Flaws == out.flaws \cup in.flaws \cup dst.flaws

Output == Values(IF sc.dout THEN dst.pipe ELSE dst.file)

(* The two sides keep to the layout of the archive: positions are inside what *)
(* was written, and the flags of a chunk and of its frame agree.              *)
TypeOK ==
  /\ sc \in Scenarios
  /\ Len(src) <= sc.size /\ w.ch.left <= w.ch.size /\ w.ch.size <= Window
  /\ \A s \in 1..2 : Len(w.ch.s[s]) < BufSize
  /\ Len(r.win) <= S0Win /\ \A s \in 1..2 : Len(r.fifo[s]) <= Capacity(s)
  /\ out.tmp => out.ofs <= Len(out.buf)

(* tmp_outbuf and tmp_inbuf are never written past what was allocated. *)
InBounds ==
  /\ Len(out.buf) <= sc.comax \/ ~out.tmp
  /\ Len(dst.buf) <= sc.doutmax \/ ~dst.tmp
  /\ in.tmp => Len(in.buf) <= in.maxlen + PageSize

(* However the archive and the output travel, the positions and the buffers   *)
(* of both sides stay in their bounds all the way.                            *)
BuffersKept == TypeOK /\ InBounds

(* A decompressor that reports success has delivered the input, whichever     *)
(* way the archive and the output travelled: through files, pipes, temporary  *)
(* buffers or the files these spill to (runzip_fd's MD5 test covers it all).  *)
SuccessIsRight == pc = "done" => Output = src

(* An archive is refused only where one of the known confusions of positions  *)
(* was met on the way; in every other combination of window, block size,      *)
(* pipes and buffer sizes what rzip_fd wrote, runzip_fd accepts, unless it    *)
(* needs a temporary file that cannot be created.  Nor is a buffer overrun or *)
(* a position lost on the way there.                                          *)
FailureIsKnown == BuffersKept /\ (pc = "failed" => Flaws # {} \/ (~dst.ok /\ ~sc.fd))

(* get_fileinfo, which follows only the links, finds the end of every chunk:  *)
(* it stops exactly before the trailer, having seen all the input's bytes.    *)
InfoAgrees ==
  sc.info /\ Flaws = {} =>
    /\ pc # "failed"
    /\ pc = "listed" => in.pos = Len(in.file) - 1 /\ r.total = Len(src)

(* Falling back to a physical file when the temporary buffer overflows, as the *)
(* comment at lrzip.c:755 promises, leaves an archive that can be restored.    *)
SpillRestores == pc = "failed" => Flaws # {"late_spill"}
=============================================================================
