----------------------------- MODULE MCLzFindMt -----------------------------
EXTENDS LzFindMt
Bits(n) == [1 .. n -> {0, 1}]
\* For the single-threaded finders every text of 11 bytes up to complement;
\* for the threads an empty text, texts shorter than a hash, texts with runs,
\* periods and repeats on both sides of the dictionary's length, and the
\* texts of 8 bytes with an early repeat.
MtTexts ==
  {<<>>, <<0, 1, 0>>, <<0, 0, 0, 0, 0, 0, 0, 0, 0, 0, 0>>, <<0, 1, 0, 1, 0, 1, 0, 1, 0, 1, 0>>,
   <<0, 1, 1, 0, 0, 1, 1, 0, 1, 1, 0>>, <<1, 0, 0, 0, 1, 0, 0, 0, 0, 0, 0>>}
  \cup {t \in Bits(8) : t[1] = 0 /\ t[4] = 0 /\ t[5] = t[2] /\ t[3] = 1}
MCInputs ==
  [mode : {"bt4", "hc5"}, text : {t \in Bits(11) : t[1] = 0}] \cup [mode : {"mt"}, text : MtTexts]
=============================================================================
