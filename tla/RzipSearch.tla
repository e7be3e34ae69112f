----------------------------- MODULE RzipSearch -----------------------------
(***************************************************************************)
(* hash_search of rzip.c on one chunk, and the loop of runzip_chunk that   *)
(* turns what it wrote back into the chunk.                                *)
(*                                                                         *)
(* The compressor slides a window of MinimumMatch bytes over the chunk,    *)
(* keeps the tag of the window up to date, looks the tag up in the table   *)
(* of RzipHash, remembers the best match and writes literals and matches   *)
(* to stream 0 and the literal bytes to stream 1.  The streams are the     *)
(* business of CompThreads and StreamIn: here they are sequences.  The     *)
(* digest is the business of Md5Worker.                                    *)
(***************************************************************************)
EXTENDS RzipHash, SlidingMap

CONSTANTS
    Bytes,         \* the values of a byte
    HashIndex,     \* st->hash_index: a random tag for every byte
    Chunks,        \* bound: the chunks that are tried
    MinimumMatch,  \* MINIMUM_MATCH
    GreatMatch,    \* GREAT_MATCH
    MaxToken,      \* longest match or literal of one token (0xFFFF)
    MmapSize       \* st->mmap_size: a longer chunk is read by sliding

ASSUME SearchAssumption ==
    /\ Bytes # {}
    /\ HashIndex \in [Bytes -> SUBSET Bits]
    /\ Chunks \subseteq Seq(Bytes)
    /\ MinimumMatch \in Nat \ {0} /\ MmapSize \in Nat \ {0}
    /\ PageSize \in Nat \ {0}
    /\ GreatMatch \in Nat /\ GreatMatch >= MinimumMatch
    /\ MaxToken \in Nat /\ MaxToken >= MinimumMatch

VARIABLES
    data,        \* the chunk
    stray,       \* what a read outside the chunk returns
    sb,          \* control->sb, where the two windows are
    ht,          \* the tag table
    tagMask,     \* tag_mask: the low bits a tag must have to be inserted
    p,           \* the search position
    t,           \* the tag of the window at p
    lastMatch,   \* st->last_match: everything before it is written
    current,     \* the best match not yet written
    s0, s1,      \* the streams: tokens, and literal bytes
    out,         \* what runzip has reconstructed
    pc           \* "search", "unzip", "done" or "failed"

vars == <<data, stray, sb, ht, tagMask, p, t, lastMatch, current, s0, s1, out, pc>>
searchVars == <<stray, sb, ht, tagMask, p, t, lastMatch, current>>

Chunk   == Len(data)
End     == Chunk - MinimumMatch
Sliding == MmapSize < Chunk

Xor(a, b) == (a \ b) \cup (b \ a)

\* The tag of the first MinimumMatch bytes of b.
TagOfBytes(b) ==
    LET x[k \in 0 .. MinimumMatch] == IF k = 0 THEN {} ELSE Xor(x[k - 1], HashIndex[b[k]])
    IN  x[MinimumMatch]

Literal(n)    == [head |-> 0, len |-> n, ofs |-> 0]
Match(n, ofs) == [head |-> 1, len |-> n, ofs |-> ofs]

Init ==
    /\ data \in Chunks
    /\ stray \in IF Sliding THEN Bytes ELSE {CHOOSE b \in Bytes : TRUE}
    /\ sb = InitSlidingMmap(Smallest(MmapSize, Len(data)))
    /\ \E v \in 0 .. MaxChainLen - 1 : ht = EmptyTable(v)
    /\ tagMask = InitialFreq
    /\ p = 0 /\ lastMatch = 0
    /\ t = IF End > 0
           THEN TagOfBytes(data)
           ELSE {}
    /\ current = [p |-> 0, len |-> 0, ofs |-> 0]
    /\ s0 = <<>> /\ s1 = <<>> /\ out = <<>>
    /\ pc = "search"

(***************************************************************************)
(* Reading the chunk.  Every operator returns the windows it leaves.       *)
(***************************************************************************)
CopyBytes(m, q, n) ==
    IF Sliding THEN Mcpy(m, data, stray, q, n)
               ELSE [sb |-> m, bytes |-> SubSeq(data, q + 1, q + n)]

FullTag(m, q) ==
    LET w == CopyBytes(m, q, MinimumMatch)
    IN  [sb |-> w.sb, t |-> TagOfBytes(w.bytes)]

\* next_tag at q: the byte before the window leaves, its last byte enters.
NextTag(m, q) ==
    LET gone == CopyBytes(m, q - 1, 1)
        come == CopyBytes(gone.sb, q + MinimumMatch - 1, 1)
    IN  [sb |-> come.sb,
         t  |-> Xor(Xor(t, HashIndex[gone.bytes[1]]), HashIndex[come.bytes[1]])]

\* Agreement of the chunk with itself at a and b, on at most n bytes.
Prefix(a, b, n) == Max({k \in 0 .. n : \A i \in 1 .. k : data[a + i] = data[b + i]})
Suffix(a, b, n) == Max({k \in 0 .. n : \A i \in 0 .. k - 1 : data[a - i] = data[b - i]})

\* match_len_linear on the low window of a sliding map may look at bytes in
\* front of the window.
LinearReverse(m, q, o, n) ==
    Max({k \in 0 .. n : \A i \in 1 .. k :
            data[q - i + 1] = Deref(m, data, stray, [win |-> "low", at |-> o - m.low], -i)})

InLowMap(m, q, o) ==
    /\ m.low <= lastMatch /\ m.low <= q /\ m.low <= o
    /\ End <= m.low + m.lsz

\* How far back a match may reach: not into what is already written, not
\* before the chunk.
ReverseAnywhere(q, o) == o                \* bug: forgets last_match
MaxReverse(q, o) == Smallest(q - lastMatch, o)

Forward(m, q, o) ==
    IF Sliding /\ ~InLowMap(m, q, o)
    THEN SlidingForward(m, data, stray, q, o, End - q)
    ELSE [sb |-> m, len |-> Prefix(q, o, End - q)]

Reverse(m, q, o, n) ==
    CASE ~Sliding -> [sb |-> m, len |-> Suffix(q, o, n)]
      [] Sliding /\ InLowMap(m, q, o) ->
            [sb |-> m, len |-> LinearReverse(m, q, o, n)]
      [] OTHER -> SlidingReverse(m, data, stray, q, o, n)

NoMatch(m) == [sb |-> m, len |-> 0, rev |-> 0]
TooShort(n, best) == n < MinimumMatch \/ n <= best

Judge(fwd, rev, best) ==
    IF TooShort(fwd.len + rev.len, best) THEN NoMatch(rev.sb)
    ELSE [sb |-> rev.sb, len |-> fwd.len + rev.len, rev |-> rev.len]

Extend(fwd, q, o, best) ==
    IF TooShort(fwd.len + MaxReverse(q, o), best) THEN NoMatch(fwd.sb)
    ELSE Judge(fwd, Reverse(fwd.sb, q, o, MaxReverse(q, o)), best)

\* match_len: how far the chunk agrees at q and at an earlier o, forward to
\* End and back to the last match; 0 unless it is long enough and better.
MatchLen(m, q, o, best) ==
    IF o >= q THEN NoMatch(m) ELSE Extend(Forward(m, q, o), q, o, best)

\* Where the earlier copy starts once a match has been extended back.
MatchStart(off, rev) == off - rev

\* find_best_match: the probe sequence of tag, to the first empty slot or
\* the caps on slots and on slots of this tag.
MaxProbes == MaxChainLen * 4 + 16
Better(best, m, off) ==
    IF m.len = 0 THEN [best EXCEPT !.sb = m.sb]
    ELSE [sb |-> m.sb, len |-> m.len, ofs |-> MatchStart(off, m.rev), rev |-> m.rev]

ProbeStep(tag, q, w) ==
    LET e == ht.slot[Probe(tag, w.i)]
    IN  CASE e = Empty \/ (e.t = tag /\ w.hits >= MaxChainLen) -> w
          [] e # Empty /\ e.t # tag -> [w EXCEPT !.i = @ + 1]
          [] OTHER ->
                [i |-> w.i + 1, hits |-> w.hits + 1,
                 best |-> Better(w.best, MatchLen(w.best.sb, q, e.off, w.best.len), e.off)]

FindBestMatch(tag, q, m) ==
    LET walk[k \in 0 .. MaxProbes] ==
            IF k = 0
            THEN [i |-> 0, hits |-> 0, best |-> [sb |-> m, len |-> 0, ofs |-> 0, rev |-> 0]]
            ELSE ProbeStep(tag, q, walk[k - 1])
    IN  walk[MaxProbes].best

(***************************************************************************)
(* Writing tokens: a long match or literal is split.                       *)
(***************************************************************************)
Pieces(len) == IF len = 0 THEN 1 ELSE (len + MaxToken - 1) \div MaxToken
Piece(len, k) == Smallest(MaxToken, len - (k - 1) * MaxToken)
PutMatch(len, ofs) == [k \in 1 .. Pieces(len) |-> Match(Piece(len, k), ofs)]
PutLiteral(len) == [k \in 1 .. Pieces(len) |-> Literal(Piece(len, k))]

(***************************************************************************)
(* One iteration of the loop of hash_search.                               *)
(***************************************************************************)
\* The tag of this position is not one the table holds: go on.
SkipPosition ==
    /\ pc = "search" /\ p < End
    /\ LET n == NextTag(RemapLow(sb, Chunk, p + 1), p + 1)
       IN  /\ ~ (Mask(ht.min) \subseteq n.t)
           /\ t' = n.t /\ sb' = n.sb
    /\ p' = p + 1
    /\ UNCHANGED <<data, stray, ht, tagMask, lastMatch, current, s0, s1, out, pc>>

\* Only insert occasionally, and never beyond the limit.
InsertTag(tag, q) ==
    IF Mask(tagMask) \subseteq tag THEN InsertHash([ht EXCEPT !.count = @ + 1], tag, q) ELSE ht
Overfull(h, tag) == Mask(tagMask) \subseteq tag /\ h.count > HashLimit

\* A match is written when it is great, or when the search has moved a whole
\* window past its start without finding a better one.
Ripe(c, q) ==
    /\ c.len >= GreatMatch \/ q >= c.p + MinimumMatch
    /\ c.len >= MinimumMatch

\* The better of the pending match and what was found at q.
NewCurrent(found, q) ==
    IF found.len > current.len
    THEN [p |-> q - found.rev, len |-> found.len, ofs |-> found.ofs]
    ELSE current

\* Write the pending match c, after the literal before it, and jump behind it.
WriteMatch(c, m) ==
    \E lit \in {CopyBytes(m, lastMatch, c.p - lastMatch)} :
    \E full \in {FullTag(lit.sb, c.p + c.len)} :
        /\ s0' = s0 \o (IF lastMatch < c.p THEN PutLiteral(c.p - lastMatch) ELSE <<>>)
                    \o PutMatch(c.len, c.p - c.ofs)
        /\ s1' = s1 \o lit.bytes
        /\ lastMatch' = c.p + c.len
        /\ p' = c.p + c.len
        /\ current' = [p |-> c.p + c.len, len |-> 0, ofs |-> c.ofs]
        /\ t' = full.t /\ sb' = full.sb

SearchPosition ==
    /\ pc = "search" /\ p < End
    /\ \E n \in {NextTag(RemapLow(sb, Chunk, p + 1), p + 1)} :
        /\ Mask(ht.min) \subseteq n.t
        /\ \E h \in {InsertTag(n.t, p + 1)} :
              IF Overfull(h, n.t)
              THEN /\ Sweepable(h)
                   /\ \E cleaned \in {CleanOne(h)} :
                         ht' = cleaned /\ tagMask' = IncreaseMask(cleaned.min)
              ELSE ht' = h /\ tagMask' = tagMask
        /\ \E found \in {FindBestMatch(n.t, p + 1, n.sb)} :
           \E c \in {NewCurrent(found, p + 1)} :
              IF Ripe(c, p + 1)
              THEN WriteMatch(c, found.sb)
              ELSE /\ p' = p + 1 /\ t' = n.t /\ sb' = found.sb /\ current' = c
                   /\ UNCHANGED <<s0, s1, lastMatch>>
    /\ UNCHANGED <<data, stray, out, pc>>

\* The rest of the chunk is literal; a literal of length 0 ends the stream.
FinishSearch ==
    /\ pc = "search" /\ p >= End
    /\ LET tail == CopyBytes(sb, lastMatch, Chunk - lastMatch)
       IN  /\ s0' = s0 \o (IF lastMatch < Chunk THEN PutLiteral(Chunk - lastMatch)
                                                ELSE <<>>) \o <<Literal(0)>>
           /\ s1' = s1 \o tail.bytes
           /\ sb' = tail.sb
    /\ pc' = "unzip"
    /\ UNCHANGED <<data, stray, ht, tagMask, p, t, lastMatch, current, out>>

(***************************************************************************)
(* runzip_chunk: read a header, then the literal or the match it announces.*)
(***************************************************************************)
UnzipEnd ==
    /\ pc = "unzip" /\ Head(s0) = Literal(0)
    /\ pc' = "done" /\ s0' = Tail(s0)
    /\ UNCHANGED <<data, s1, out, searchVars>>

UnzipLiteral ==
    LET n == Head(s0).len
    IN  /\ pc = "unzip" /\ Head(s0).head = 0 /\ n > 0
        /\ IF n > MaxToken \/ n > Len(s1)
           THEN pc' = "failed" /\ UNCHANGED <<s0, s1, out>>
           ELSE /\ out' = out \o SubSeq(s1, 1, n)
                /\ s1' = SubSeq(s1, n + 1, Len(s1))
                /\ s0' = Tail(s0)
                /\ UNCHANGED pc
        /\ UNCHANGED <<data, searchVars>>

\* match_expand: the bytes from the offset on, as often as they are needed.
MatchExpand(offset, n) ==
    [i \in 1 .. n |-> out[Len(out) - offset + 1 + ((i - 1) % offset)]]

UnzipMatch ==
    LET tok == Head(s0)
    IN  /\ pc = "unzip" /\ tok.head = 1
        /\ IF tok.len > MaxToken \/ tok.ofs < 1 \/ tok.ofs > Len(out)
           THEN pc' = "failed" /\ UNCHANGED <<s0, out>>
           ELSE /\ out' = out \o MatchExpand(tok.ofs, tok.len)
                /\ s0' = Tail(s0)
                /\ UNCHANGED pc
        /\ UNCHANGED <<data, s1, searchVars>>

Finished == pc \in {"done", "failed"} /\ UNCHANGED vars

Next == \/ SkipPosition \/ SearchPosition \/ FinishSearch
        \/ UnzipEnd \/ UnzipLiteral \/ UnzipMatch
        \/ Finished

Spec == Init /\ [][Next]_vars
-----------------------------------------------------------------------------
\* Types: the table, the position and the pending match of hash_search.
TypeOK ==
    /\ data \in Seq(Bytes) /\ out \in Seq(Bytes) /\ s1 \in Seq(Bytes)
    /\ stray \in Bytes
    /\ sb.low \in 0 .. Chunk /\ sb.high \in 0 .. Chunk
    /\ ht.slot \in [Slots -> [t : SUBSET Bits, off : 0 .. Chunk]]
    /\ ht.min \in 0 .. TagBits /\ tagMask \in ht.min .. TagBits
    /\ ht.ptr \in Slots /\ ht.victim \in 0 .. MaxChainLen - 1
    /\ p \in 0 .. Chunk /\ lastMatch \in 0 .. p /\ t \subseteq Bits
    /\ current.p \in lastMatch .. Chunk /\ current.p + current.len <= Chunk
    /\ pc \in {"search", "unzip", "done", "failed"}

\* What runzip makes of the tokens and literals of hash_search is the chunk:
\* a prefix of it at every token, all of it at the end of stream marker, with
\* no literal left over and no token refused.
RoundTrip ==
    /\ pc # "failed"
    /\ out = SubSeq(data, 1, Len(out))
    /\ pc = "done" => out = data /\ s0 = <<>> /\ s1 = <<>>

\* hash_count is the number of occupied slots (the warning of show_distrib is
\* never printed), and a third of the table is always empty, which is what
\* ends the probe loops of insert_hash and find_best_match.
CountExact ==
    /\ ht.count = Cardinality(Occupied(ht))
    /\ ht.count <= HashLimit

\* An entry that is not due for cleaning can be found: no slot between its
\* primary slot and its own is empty, whatever was replaced, moved or cleaned
\* since.  Not so for the one tag with every bit set, which lesser_bitness
\* takes for the first to be cleaned.
Findable ==
    \A s \in Occupied(ht) :
        LET e == ht.slot[s]
            d == CHOOSE i \in Slots : Probe(e.t, i) = s
        IN  ~MinimumBitness(ht, e.t) /\ e.t # Bits =>
                \A i \in 0 .. d : ht.slot[Probe(e.t, i)] # Empty

\* The sweep of clean_one_from_hash leaves nothing behind: every slot behind
\* tag_clean_ptr satisfies the better mask, every slot the minimum, so that
\* raising the minimum at the end of the table is right.
Swept ==
    \A s \in Occupied(ht) :
        /\ Mask(ht.min) \subseteq ht.slot[s].t
        /\ s < ht.ptr => Mask(IncreaseMask(ht.min)) \subseteq ht.slot[s].t

\* The tag kept up to date byte by byte is the tag of the window at p, also
\* after the jump to the end of a match; and every entry of the table holds the
\* tag of the window at its offset.  That offset may lie ahead of p: a match
\* found before a run of skipped positions is written at the first position
\* after them, and the search goes back to the end of the match.
TagOf(q) == TagOfBytes([i \in 1 .. MinimumMatch |-> data[q + i]])
RollingTag ==
    pc = "search" /\ End > 0 =>
        /\ t = TagOf(p)
        /\ \A s \in Occupied(ht) :
              /\ ht.slot[s].off \in 1 .. End
              /\ ht.slot[s].t = TagOf(ht.slot[s].off)

\* The tag table, the sweep over it and the tag that is looked up in it stay
\* consistent over every insertion, replacement and cleaning of hash_search.
TableSound == TypeOK /\ CountExact /\ Swept /\ RollingTag
=============================================================================
