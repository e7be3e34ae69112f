----------------------------- MODULE LzmaStream -----------------------------
(***************************************************************************)
(* A block through the LZMA coder and back: LzmaCompress on the text of a  *)
(* block (lzma/C/LzmaEnc.c: LzmaEnc_MemEncode, LzmaEnc_CodeOneBlock), then *)
(* LzmaUncompress on what reached the archive (lzma/C/LzmaDec.c), which    *)
(* may have lost its end or a byte of its middle.                          *)
(*                                                                         *)
(* One step is a call of the parser, a round of its search, a symbol, or a *)
(* round of the decoder's loop.                                            *)
(***************************************************************************)
EXTENDS LzmaParse, LzmaDec

CONSTANTS Texts,      \* the blocks to code
          Modes,      \* [fast, least]: the parser, and the finder's shortest match
          Rooms,      \* sizes of the caller's output buffer
          PriceTables,\* what the symbols may cost
          BlockMax,   \* 1 << 17: the bytes after which errors are looked at
          Damaged     \* the texts whose streams are damaged in one byte

VARIABLES
  text, mode,
  pc,      \* "start", "parse", "node", "code", "flush", "coded", "decode", "end"
  p,       \* the parser and the match finder
  m,       \* the state and the repeated distances of the coder
  enc,     \* the range encoder
  now,     \* nowPos32, start: where CodeOneBlock began
  start,
  opt,     \* the table of GetOptimum
  queue,   \* [cur, end]: optCur and optEnd, the symbols waiting in it
  node,    \* [cur, last, reps, w]: GetOptimum's position in its search
  sym,     \* the symbol to code
  res,     \* the result of LzmaEnc_MemEncode
  dec      \* the decoder

vars == <<text, mode, pc, p, m, enc, now, start, opt, queue, node, sym, res, dec>>
parse == <<p, opt, queue, node, sym>>
coder == <<m, enc, now, start>>

NoNode == [cur |-> 0, last |-> 0, reps |-> <<1, 1, 1, 1>>, w |-> CHOOSE w \in PriceTables : TRUE]
NoSym == <<0, 0>>

Init ==
  /\ text \in Texts /\ mode \in Modes
  /\ pc = "start"
  /\ p = NewParser /\ m = NewModel /\ now = 0 /\ start = 0
  /\ \E room \in Rooms : enc = NewEncoder(room)
  /\ opt = [i \in 0 .. NumOpts - 1 |-> NewOpt]
  /\ queue = [cur |-> 0, end |-> 0] /\ node = NoNode /\ sym = NoSym
  /\ res = "None" /\ dec = NewDecoder(<<>>, 0)

-----------------------------------------------------------------------------
(* LzmaEnc_CodeOneBlock                                                     *)

\* The first byte is a literal without a byte before it.
FirstByte ==
  /\ pc = "start"
  /\ IF text = <<>> THEN pc' = "flush" /\ UNCHANGED <<p, coder>>
     ELSE \E q \in ReadMatchDistances(p, text, mode.least) :
            /\ enc' = PutBits([e |-> enc, bits |-> FirstBits(text[1])])
            /\ p' = [q EXCEPT !.add = @ - 1]
            /\ now' = 1
            /\ pc' = IF q.mf = Len(text) THEN "flush" ELSE "parse"
            /\ UNCHANGED <<m, start>>
  /\ UNCHANGED <<text, mode, opt, queue, node, sym, res, dec>>

\* MatchFinderMt_InitMt cannot make the semaphores or start the threads of
\* the finder (mtMode: the fast parser has none).
InitFails ==
  /\ pc = "start" /\ ~mode.fast
  /\ res' = "Thread" /\ pc' = "coded"
  /\ UNCHANGED <<text, mode, parse, coder, dec>>

\* LzmaEnc_AllocAndInit finds no memory.
AllocFails ==
  /\ pc = "start"
  /\ res' = "Mem" /\ pc' = "coded"
  /\ UNCHANGED <<text, mode, parse, coder, dec>>

ParseFast ==
  /\ pc = "parse" /\ mode.fast
  /\ \E d \in GetOptimumFast(p, text, mode.least, m.reps) : p' = d.p /\ sym' = d.sym
  /\ pc' = "code"
  /\ UNCHANGED <<text, mode, coder, opt, queue, node, res, dec>>

\* A symbol of the last search is still waiting.
ParseQueued ==
  /\ pc = "parse" /\ ~mode.fast /\ queue.cur # queue.end
  /\ sym' = <<opt[queue.cur].len, opt[queue.cur].dist>>
  /\ queue' = [queue EXCEPT !.cur = @ + 1]
  /\ pc' = "code"
  /\ UNCHANGED <<text, mode, coder, p, opt, node, res, dec>>

\* GetOptimum up to its loop.
ParseOptimum ==
  /\ pc = "parse" /\ ~mode.fast /\ queue.cur = queue.end
  /\ \E w \in PriceTables :
     \E q \in IF p.add = 0 THEN ReadMatchDistances(p, text, mode.least) ELSE {p} :
     \E lens \in {IF q.avail < 2 THEN <<0, 0, 0, 0>> ELSE RepLens(q, text, m.reps)} :
       IF FirstIsKnown(q, lens)
       THEN /\ \E d \in {FirstSymbol(q, text, m.reps, lens, w)} : p' = d.p /\ sym' = d.sym
            /\ pc' = "code"
            /\ UNCHANGED <<opt, node>>
       ELSE /\ p' = q
            /\ opt' = FirstOpts(q, text, m, opt, lens, w)
            /\ node' = [cur |-> 1, last |-> FirstLast(q, lens), reps |-> m.reps, w |-> w]
            /\ pc' = "node"
            /\ UNCHANGED sym
  /\ queue' = [cur |-> 0, end |-> 0]
  /\ UNCHANGED <<text, mode, coder, res, dec>>

\* The search ends at cur: the table is cleared up to last.
Cleared(o, last) == [i \in DOMAIN o |-> IF i \in 1 .. last THEN [o[i] EXCEPT !.price = kInfinityPrice]
                                        ELSE o[i]]
EndSearch(o, cur) ==
  /\ \E b \in {Backward([opt |-> Cleared(o, node.last), cur |-> cur, wr |-> cur + 1])} :
       /\ opt' = b.opt
       /\ sym' = b.sym
       /\ queue' = [cur |-> b.optCur, end |-> cur + 1]
  /\ node' = NoNode
  /\ pc' = "code"

\* A round of GetOptimum's loop at node.cur.
SearchNode ==
  /\ pc = "node"
  /\ CASE node.cur = node.last -> EndSearch(opt, node.cur) /\ UNCHANGED p
       [] node.cur # node.last /\ node.cur >= NumOpts - OptMargin ->
            \E best \in {Cheapest(opt, node.cur, node.last)} :
              EndSearch(opt, best) /\ p' = MovePos(p, best - node.cur)
       [] node.cur # node.last /\ node.cur < NumOpts - OptMargin ->
            \E q \in ReadMatchDistances(p, text, mode.least) :
              /\ p' = q
              /\ IF q.longest >= NumFastBytes THEN EndSearch(opt, node.cur)
                 ELSE \E reps \in {NodeReps(opt, node.cur, node.reps)} :
                      \E o \in {[opt EXCEPT ![node.cur].state = NodeState(opt, node.cur),
                                            ![node.cur].reps = reps]} :
                      \E s \in {NodeStep(q, text, o, node.cur, node.last, reps, node.w)} :
                        /\ opt' = s.opt
                        /\ node' = [node EXCEPT !.cur = @ + 1, !.last = s.last, !.reps = reps]
                        /\ UNCHANGED <<pc, sym, queue>>
  /\ UNCHANGED <<text, mode, coder, res, dec>>

\* The rest of the loop of CodeOneBlock: a symbol is coded.  Where nothing is
\* left over from the parser the block may end: with the text, or after
\* BlockMax bytes, when an error of the output stops the coder.
CodeSymbol ==
  /\ pc = "code"
  /\ enc' = PutBits([e |-> enc, bits |-> SymbolBits(text, now, m, sym)])
  /\ m' = Coded(m, sym)
  /\ now' = now + sym[1]
  /\ p' = [p EXCEPT !.add = @ - sym[1]]
  /\ IF p'.add # 0 THEN pc' = "parse" /\ UNCHANGED <<start, res>>
     ELSE IF p.mf = Len(text) THEN pc' = "flush" /\ UNCHANGED <<start, res>>
     ELSE IF now' - start < BlockMax THEN pc' = "parse" /\ UNCHANGED <<start, res>>
     ELSE /\ start' = now'
          /\ IF enc'.res THEN pc' = "parse" /\ UNCHANGED res
             ELSE pc' = "coded" /\ res' = "OutputEof"
  /\ sym' = NoSym
  /\ UNCHANGED <<text, mode, opt, queue, node, dec>>

\* Flush, and the end of LzmaEnc_MemEncode.
Flush ==
  /\ pc = "flush"
  /\ enc' = FlushData(enc)
  /\ res' = IF ~enc'.res THEN "OutputEof" ELSE IF now # Len(text) THEN "Fail" ELSE "OK"
  /\ pc' = "coded"
  /\ UNCHANGED <<text, mode, parse, m, now, start, dec>>

-----------------------------------------------------------------------------
(* LzmaUncompress                                                           *)

\* What may be read back: the stream, less bytes at its end, or with one
\* byte changed.
Received ==
  {SubSeq(enc.out, 1, n) : n \in 0 .. Len(enc.out)}
  \cup {[enc.out EXCEPT ![i] = b] :
          i \in IF text \in Damaged THEN DOMAIN enc.out ELSE {}, b \in 0 .. Byte - 1}

BeginDecode ==
  /\ pc = "coded" /\ res = "OK"
  /\ \E in \in Received : dec' = Begun(NewDecoder(in, Len(text)))
  /\ pc' = "decode"
  /\ UNCHANGED <<text, mode, parse, coder, res>>

DecodeRound ==
  /\ pc = "decode" /\ dec.res = "None"
  /\ dec' = DecodeToDic(dec)
  /\ UNCHANGED <<text, mode, pc, parse, coder, res>>

Finished ==
  /\ \/ pc = "coded" /\ res # "OK"
     \/ pc = "decode" /\ dec.res # "None"
  /\ UNCHANGED vars

Next ==
  \/ AllocFails \/ InitFails \/ FirstByte \/ ParseFast \/ ParseQueued \/ ParseOptimum
  \/ SearchNode \/ CodeSymbol \/ Flush \/ BeginDecode \/ DecodeRound \/ Finished

Spec == Init /\ [][Next]_vars

-----------------------------------------------------------------------------
(* Properties                                                               *)

\* A symbol stands for the bytes at a position: its distance is within the
\* text before it and the dictionary, its length within the code, and the
\* bytes there are the text's.
Legal(pos, mdl, s) ==
  \/ IsLit(s) /\ s[1] = 1
  \/ /\ ~IsLit(s) /\ s[1] <= MatchLenMax /\ pos + s[1] <= Len(text)
     /\ s[1] >= 2 \/ IsShortRep(s)
     /\ Distance(mdl, s) \in 1 .. Lesser(pos, DicSize)
     /\ \A j \in 0 .. s[1] - 1 : Same(text, pos, Distance(mdl, s), j)

\* The symbols waiting in the table.
Queued(q) == [i \in 1 .. q.end - q.cur |-> <<opt[q.cur + i - 1].len, opt[q.cur + i - 1].dist>>]

RECURSIVE Replay(_, _, _)
Replay(pos, mdl, ways) ==
  IF ways = <<>> THEN [pos |-> pos, m |-> mdl, ok |-> TRUE]
  ELSE IF ~Legal(pos, mdl, Head(ways)) THEN [pos |-> pos, m |-> mdl, ok |-> FALSE]
  ELSE Replay(pos + Head(ways)[1], Coded(mdl, Head(ways)), Tail(ways))

\* The ways the search keeps are ones the coder could follow: each position
\* behind the search (LzmaEnc.c:1507-1582) holds the state and the repeated
\* distances that coding its way, symbol by symbol, would give; positions up
\* to the last one were all reached; and a finished search leaves no price
\* behind for the next one to be misled by.
WayTo(i) ==
  LET symbols(b) == <<b.sym>> \o [k \in 1 .. i + 1 - b.optCur |->
        <<b.opt[b.optCur + k - 1].len, b.opt[b.optCur + k - 1].dist>>]
  IN IF i = 0 THEN <<>> ELSE Applied(symbols, Backward([opt |-> opt, cur |-> i, wr |-> i + 1]))
SearchTracks ==
  IF pc = "node"
  THEN /\ \E r \in {Replay(now, m, WayTo(node.cur - 1))} :
            r.ok /\ r.m = [state |-> opt[node.cur - 1].state, reps |-> opt[node.cur - 1].reps]
       /\ opt[node.cur].price < kInfinityPrice
       /\ \A i \in node.last + 1 .. NumOpts - 1 : opt[i].price = kInfinityPrice
  ELSE \A i \in 2 .. NumOpts - 1 : opt[i].price = kInfinityPrice

\* Whichever real matches the finder reports or misses, whatever the search
\* keeps from one position to the next and however the symbols cost, every
\* symbol the encoder is about to code (LzmaEnc.c:2435-2450) reproduces the text with the distances the
\* decoder will have then, and the ways the search still weighs are ones it
\* could take.
ParseLegal == SearchTracks /\ (pc = "code" => Legal(now, m, sym))

\* The encoder and its match finder stay in step: the bytes the finder was
\* given and the coder has not used are exactly the ones additionalOffset
\* counts (LzmaEnc.c:1089, 2634), the symbols waiting end where the finder
\* stands or one byte before it, and the text ends for both at once.
InStep ==
  /\ p.mf <= Len(text)
  /\ pc \in {"parse", "code", "flush"} => p.add = p.mf - now
  /\ pc = "node" => p.add = node.cur /\ p.mf = now + node.cur
  /\ pc \in {"parse", "code"} =>
       FoldLeft(LAMBDA n, s : n + s[1], now + sym[1], Queued(queue)) \in
         IF Queued(queue) = <<>> /\ pc = "parse" THEN {now} ELSE {p.mf - 1, p.mf}
  /\ pc = "flush" => now = Len(text)

\* The block comes back: an encoder that says OK has put all of the text in
\* its buffer, and a decoder that says OK about a stream that was cut or not
\* cut returns that text; the whole stream is never refused.
RoundTrip ==
  pc = "decode" =>
    /\ dec.res = "OK" /\ IsPrefix(dec.in, enc.out) => dec.out = text
    /\ dec.in = enc.out => dec.res \in {"None", "OK"}

\* From a stream cut anywhere, and from one with any one byte changed (of the
\* texts in Damaged), the decoder reads no byte past what arrived and copies
\* none it has not written, writes no more than the block has, and the trial run
\* before a symbol (LzmaDec.c:1044-1097) agrees with the real one.
DecoderSound ==
  /\ ~dec.stray
  /\ dec.res # "Fail"
  /\ Len(dec.out) <= dec.size
  /\ dec.pos <= Len(dec.in)
=============================================================================
