------------------------------ MODULE MCArchive ------------------------------
EXTENDS Archive

CONSTANTS Sizes, Comaxes, Doutmaxes, Dinmaxes, ThreadCounts

(* Every way through files and pipes; the limits matter where a buffer is used. *)
MCScenarios ==
  {x \in [cin : BOOLEAN, cout : BOOLEAN, din : BOOLEAN, dout : BOOLEAN, info : BOOLEAN,
          size : Sizes, filter : 0..1, threads : ThreadCounts, fd : BOOLEAN,
          comax : Comaxes \cup {0}, doutmax : Doutmaxes \cup {0}, dinmax : Dinmaxes \cup {0}] :
     /\ x.cout = (x.comax > 0) /\ x.dout = (x.doutmax > 0) /\ x.din = (x.dinmax > 0)
     /\ x.info => ~x.din /\ ~x.dout /\ x.filter = 0 /\ x.threads = 1
     /\ ~x.fd => x.filter = 0 /\ x.threads = 1 /\ ~x.din /\ ~x.cin}
=============================================================================
