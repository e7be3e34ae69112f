---------------------------- MODULE MCRzipSearch ----------------------------
(* Chunks of up to eight bytes of three values and of up to twelve bytes of  *)
(* two, windows of three bytes, a table of four slots that may hold two tags *)
(* of three degrees of bitness.                                              *)
EXTENDS RzipSearch

MCBytes == {"a", "b", "c", "d"}
MCChunks ==
    UNION {[1 .. n -> {"a", "b", "d"}] : n \in 0 .. 8}
        \cup UNION {[1 .. n -> {"b", "c"}] : n \in 1 .. 12}
MCSlideChunks == [1 .. 8 -> {"a", "b"}]
MCHashIndex == [x \in MCBytes |->
    CASE x = "a" -> {0} [] x = "b" -> {0, 1} [] x = "c" -> {2} [] x = "d" -> {0, 2}]
=============================================================================
