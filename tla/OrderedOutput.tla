--------------------------- MODULE OrderedOutput ---------------------------
(***************************************************************************)
(* What the pool of compression threads promises to the rest of lrzip:     *)
(* blocks are handed over one at a time, at most Window of them are in     *)
(* flight, and they are settled strictly in the order they were handed     *)
(* over.  Settling a block normally means that it was written; a block     *)
(* may be settled unwritten only when its thread gave up.  The program     *)
(* ends successfully only when every block has been settled.               *)
(***************************************************************************)
EXTENDS Naturals

CONSTANT Window

VARIABLES
  taken,      \* number of blocks handed over so far
  settled,    \* number of blocks, a prefix of the taken ones, that are done
  written,    \* the numbers of the blocks that reached the archive
  status      \* "running", "success" or "failure"

absVars == <<taken, settled, written, status>>

Init ==
  /\ taken = 0
  /\ settled = 0
  /\ written = {}
  /\ status = "running"

Take ==
  /\ status = "running"
  /\ taken - settled < Window
  /\ taken' = taken + 1
  /\ UNCHANGED <<settled, written, status>>

\* Only the oldest unsettled block can be written, and only once.
Write ==
  /\ status = "running"
  /\ settled < taken
  /\ settled + 1 \notin written
  /\ written' = written \union {settled + 1}
  /\ UNCHANGED <<taken, settled, status>>

Settle ==
  /\ status = "running"
  /\ settled < taken
  /\ settled' = settled + 1
  /\ UNCHANGED <<taken, written, status>>

Succeed ==
  /\ status = "running"
  /\ settled = taken
  /\ status' = "success"
  /\ UNCHANGED <<taken, settled, written>>

Fail ==
  /\ status = "running"
  /\ status' = "failure"
  /\ UNCHANGED <<taken, settled, written>>

Next == Take \/ Write \/ Settle \/ Succeed \/ Fail

Spec == Init /\ [][Next]_absVars

=============================================================================
