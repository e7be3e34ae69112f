---------------------------- MODULE MCLzmaStream ----------------------------
EXTENDS LzmaStream
Table(lit, short, rep, match, odd) ==
  [lit |-> lit, short |-> short, rep |-> rep, match |-> match, odd |-> odd, flag |-> 1]
\* Prices as after a run of literals, of matches, of short reps, and of
\* matches of even length.
MCPriceTables == {Table(4, 9, 9, 14, 0), Table(20, 24, 4, 6, 0), Table(9, 2, 12, 20, 0),
                  Table(12, 14, 7, 7, 12)}
MCModes == [fast : BOOLEAN, least : {2, 3}]
\* Texts whose repetitions end, resume after a byte, cross the dictionary's
\* length and the longest match, and fill the table of the search; the last
\* four repeat at the distances 9, 10 and 11, whose bits are direct and
\* aligned ones, and at 12, beyond the dictionary.
Special ==
  {<<>>, <<2>>, <<0, 1, 2, 0, 1, 2, 0, 1, 2, 3>>, <<0, 0, 0, 0, 0, 0, 0, 0, 0, 0, 0, 1, 0, 0>>,
   <<0, 1, 2, 3, 0, 1, 1, 3, 0, 1, 2, 3, 1>>, <<3, 3, 0, 3, 3, 1, 3, 3, 2, 3, 3, 1, 3, 3>>,
   <<0, 1, 2, 1, 3, 0, 1, 0, 1, 3, 0, 1, 2, 1>>, <<1, 0, 2, 0, 1, 3, 2, 0, 1, 0, 2, 0, 3, 0>>,
   <<0, 1, 0, 2, 0, 3, 0, 1, 0, 2, 0, 3, 0, 1>>,
   <<0, 1, 2, 3, 3, 2, 1, 3, 2, 0, 1, 2, 3, 0>>, <<0, 1, 2, 3, 3, 2, 1, 3, 2, 1, 0, 1, 2, 1>>,
   <<0, 1, 2, 2, 3, 3, 1, 3, 2, 0, 3, 0, 1, 2, 2>>,
   <<0, 0, 1, 2, 3, 3, 1, 3, 2, 1, 1, 3, 0, 0, 1>>}
MCTexts == Special \cup {t \in [1 .. 8 -> {0, 3}] : t[1] = 0}
           \cup {t \in [1 .. 9 -> {0, 3}] : SubSeq(t, 1, 4) = <<0, 3, 3, 0>>}
MCDamaged == {<<0, 1, 2, 0, 1, 2, 0, 1, 2, 3>>, <<0, 0, 3, 0, 3, 3, 0, 0>>}
=============================================================================
