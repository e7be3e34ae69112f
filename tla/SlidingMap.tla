----------------------------- MODULE SlidingMap -----------------------------
(***************************************************************************)
(* The sliding mmap of rzip.c: a chunk larger than one mapping is read     *)
(* through a large low window that follows the search and a high window of *)
(* one page that is moved to whatever else is asked for.                   *)
(*                                                                         *)
(* sb is the record of control->sb: [low, lsz] and [high, hsz] are the     *)
(* offset and size of the windows.  munmap and mmap with the old address   *)
(* as the hint put the moved window where the old one was, so a pointer is *)
(* a window and an index, and what it reads depends on where the window is *)
(* when it is read, not when it was made.                                  *)
(***************************************************************************)
EXTENDS Integers, Sequences, FiniteSetsExt

CONSTANTS PageSize

Smallest(a, b) == IF a < b THEN a ELSE b
PageStart(n) == (n \div PageSize) * PageSize
\* round_to_page never returns 0.
RoundToPage(n) == IF n < PageSize THEN PageSize ELSE PageStart(n)

InLow(sb, q)  == sb.low <= q /\ q < sb.low + sb.lsz
InHigh(sb, q) == sb.high <= q /\ q < sb.high + sb.hsz

InitSlidingMmap(mmapSize) ==
    [low |-> 0, lsz |-> mmapSize, high |-> 0, hsz |-> PageSize]

\* offset_search has moved past the low window: slide it up, to the end of
\* the chunk at most.
RemapLow(sb, chunk, p) ==
    IF p > sb.low + sb.lsz
    THEN [sb EXCEPT !.low = RoundToPage(p),
                    !.lsz = Smallest(@, chunk - RoundToPage(p))]
    ELSE sb

\* sliding_get_sb, sliding_map_fwd: move the high window unless q is mapped.
MapByte(sb, chunk, q) ==
    IF InLow(sb, q) \/ InHigh(sb, q) THEN sb
    ELSE [sb EXCEPT !.high = PageStart(q),
                    !.hsz = Smallest(PageSize, chunk - PageStart(q))]

Pointer(sb, q) ==
    IF InLow(sb, q) THEN [win |-> "low",  at |-> q - sb.low]
                    ELSE [win |-> "high", at |-> q - sb.high]

\* A window shows the chunk; what a pointer finds behind the end of it or in
\* front of its window is not the chunk's: any byte, stray.
Deref(sb, data, stray, ptr, k) ==
    LET q == (IF ptr.win = "low" THEN sb.low ELSE sb.high) + ptr.at + k
    IN  IF ptr.at + k >= 0 /\ q < Len(data) THEN data[q + 1] ELSE stray

ReadByte(sb, data, stray, q) == Deref(sb, data, stray, Pointer(sb, q), 0)

\* Mapped bytes from q on, and up to and including q.
ContigFrom(sb, q) ==
    IF InLow(sb, q) THEN sb.low + sb.lsz - q ELSE sb.high + sb.hsz - q
ContigTo(sb, q) ==
    IF InLow(sb, q) THEN q - sb.low + 1 ELSE q - sb.high + 1

\* sliding_mcpy, a byte at a time: every pointer is used before the next is
\* made.
Mcpy(sb, data, stray, q, n) ==
    LET map[k \in 0 .. n] ==
            IF k = 0 THEN sb ELSE MapByte(map[k - 1], Len(data), q + k - 1)
    IN  [sb |-> map[n],
         bytes |-> [k \in 1 .. n |-> ReadByte(map[k], data, stray, q + k - 1)]]

\* The number of bytes two pointers agree on, of n, going up (s = 1) or down
\* (s = -1).
Agree(sb, data, stray, a, b, s, n) ==
    Max({m \in 0 .. n : \A k \in 0 .. m - 1 :
            Deref(sb, data, stray, a, s * k) = Deref(sb, data, stray, b, s * k)})

\* The forward loop of sliding_match_len: compare as far as both pointers
\* reach, and go on as long as all of it agrees.
ForwardSpan(w, data, stray, p, o, max) ==
    LET sba == MapByte(w.sb, Len(data), p + w.len)
        a   == Pointer(sba, p + w.len)
        c1  == ContigFrom(sba, p + w.len)
        sbb == MapByte(sba, Len(data), o + w.len)
        b   == Pointer(sbb, o + w.len)
        n   == Smallest(Smallest(c1, ContigFrom(sbb, o + w.len)), max - w.len)
        m   == Agree(sbb, data, stray, a, b, 1, n)
    IN  IF w.on /\ w.len < max THEN [sb |-> sbb, len |-> w.len + m, on |-> m = n] ELSE w

SlidingForward(sb, data, stray, p, o, max) ==
    LET run[k \in 0 .. max] ==
            IF k = 0 THEN [sb |-> sb, len |-> 0, on |-> TRUE]
            ELSE ForwardSpan(run[k - 1], data, stray, p, o, max)
    IN  run[max]

\* The reverse loop: w.len bytes so far, max at most.
ReverseSpan(w, data, stray, p, o, max) ==
    LET pb  == p - w.len - 1
        ob  == o - w.len - 1
        sb1 == MapByte(w.sb, Len(data), pb)
        sb2 == MapByte(sb1, Len(data), ob)
        n   == Smallest(Smallest(ContigTo(sb1, pb), ContigTo(sb2, ob)), max - w.len)
        sba == MapByte(sb2, Len(data), pb)
        a   == Pointer(sba, pb)
        sbb == MapByte(sba, Len(data), ob)
        b   == Pointer(sbb, ob)
        m   == Agree(sbb, data, stray, a, b, -1, n)
    IN  IF w.on /\ w.len < max THEN [sb |-> sbb, len |-> w.len + m, on |-> m = n] ELSE w

SlidingReverse(sb, data, stray, p, o, max) ==
    LET run[k \in 0 .. max] ==
            IF k = 0 THEN [sb |-> sb, len |-> 0, on |-> TRUE]
            ELSE ReverseSpan(run[k - 1], data, stray, p, o, max)
    IN  run[max]
=============================================================================
