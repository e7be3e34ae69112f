--------------------------- MODULE Session_proofs ---------------------------
(***************************************************************************)
(* Proofs about one run of the program: what it leaves in the file system  *)
(* and which files it can lose, for every set of names, every start, every *)
(* list of arguments and options, and a signal at any time.                *)
(***************************************************************************)
EXTENDS Session, TLAPS

\* The states of compress_file, decompress_file and get_fileinfo: before an output
\* exists, and from the work on.
Before == {"info", "c_in", "c_name", "d_name", "d_in", "create", "mkstemp_in", "register_in",
           "unlink_in", "mkstemp_out", "register_out", "unlink_out"}
Since == {"work", "close", "unlink", "release"}
Between == {"options", "loop", "entry"}

\* A temporary file has a name only from mkstemp to unlink, and is registered
\* before it is unlinked.
TmpInv ==
  /\ pc \in {"register_in", "unlink_in"} => tmp = {"in"}
  /\ pc \in {"register_out", "unlink_out"} => tmp = {"out"}
  /\ pc \notin {"register_in", "unlink_in", "register_out", "unlink_out", "exit"} => tmp = {}
  /\ pc = "unlink_in" => "in" \in lc.registered
  /\ pc = "unlink_out" => "out" \in lc.registered

\* Only the output of the file in hand is not complete, and only during the work.
WholeInv ==
  pc # "exit" => \A n \in Names : fs[n] # Absent => fs[n].whole \/ (pc = "work" /\ lc.mine /\ n = lc.outfile)

\* Every file descends from a file of the start, or from stdin once FLAG_STDIN is set.
SourceInv ==
  \A n \in Names : fs[n] # Absent => fs[n].src \in Sources \/ (opt.stdin /\ fs[n].src = Stdin)

\* What main and initialise have settled when a file is in hand: its flags are
\* main's, and where it comes from and goes to is known.
HandInv ==
  /\ pc \in Before \cup Since =>
       /\ lc.stdout = opt.stdout /\ lc.test = opt.test
       /\ ~opt.stdin => lc.infile \in Names
       /\ ~opt.stdout => opt.outname # Stdin /\ ~(opt.outname = None /\ opt.stdin)
  /\ pc \in {"c_in", "c_name"} => ~opt.test
  /\ pc = "unlink" => ~opt.stdin
  /\ pc = "options" => ~opt.stdin
  /\ pc # "exit" => exit = "none"
  /\ ~opt.stdin =>
       /\ list \subseteq Names
       /\ \A k \in 1..Len(args) : args[k] # None

\* Who owns the name of the output file.
OutInv ==
  /\ pc \in Between => lc.outfile = None
  /\ pc \in Before => ~lc.mine /\ ~lc.gone
  /\ pc \in {"info", "c_in", "c_name", "d_name"} => lc.outfile = None
  /\ pc \in {"mkstemp_in", "register_in", "unlink_in", "d_in"} =>
       IF opt.stdout \/ opt.test THEN lc.outfile = None ELSE lc.outfile \in Names
  /\ pc \in {"mkstemp_out", "register_out", "unlink_out"} => lc.outfile = None /\ (opt.stdout \/ opt.test)
  /\ pc = "create" => lc.outfile \in Names /\ ~opt.stdout /\ ~opt.test
  /\ pc \in Since =>
       /\ lc.mine => lc.outfile \in Names /\ ~opt.stdout /\ ~opt.test
       /\ ~lc.mine => lc.outfile = None
       /\ pc # "release" => ~lc.gone /\ (lc.mine \/ opt.stdout \/ opt.test)

\* The input is still there, or -f has replaced it by its own output.
InputKept ==
  \/ opt.stdin /\ lc.data.src = Stdin
  \/ /\ ~opt.stdin /\ lc.data.src \in Sources
     /\ IF lc.mine /\ lc.infile = lc.outfile THEN "force" \in cause[lc.data.src]
        ELSE fs[lc.infile] = lc.data /\ lc.data.whole

\* The output of the file in hand, and its input until that is unlinked.
DataInv ==
  /\ \/ pc \in {"c_name", "create", "mkstemp_out", "register_out", "unlink_out", "work", "close", "unlink"}
     \/ pc = "release" /\ lc.mine /\ ~lc.gone
     => InputKept
  /\ pc \in {"work", "close", "unlink"} /\ lc.mine => fs[lc.outfile].src = lc.data.src /\ fs[lc.outfile] # Absent
  /\ pc = "release" /\ lc.mine /\ ~lc.gone => fs[lc.outfile].src = lc.data.src
  /\ pc \in {"close", "unlink"} /\ opt.stdout /\ ~opt.test /\ ~opt.stdin => lc.data.src \in sent

LossInv == \A n \in Sources : Held(n) \/ cause[n] \cap {"force", "early", "late", "test"} # {}

\* The inductive invariant.
IInv ==
  /\ TypeOK
  /\ TmpInv /\ WholeInv /\ SourceInv /\ HandInv /\ OutInv /\ DataInv
  /\ LossInv /\ NothingLeft

----------------------------------------------------------------------------
(* Names, files and records. *)

\* The names that stand for no file are none.
LEMMA NameFacts ==
  /\ None \notin Names /\ Stdin \notin Names /\ None # Stdin
  /\ Absent \notin Files
  /\ \A n \in Names : n[1] \in Dirs /\ \A d \in Dirs, b \in BOOLEAN : <<d, n[2], b>> \in Names
  /\ Sources \subseteq Names
<1>1. None \notin Names /\ Stdin \notin Names /\ None # Stdin
  BY NamesAssumption DEF Names, None, Stdin
<1>2. Absent \notin Files
  BY <1>1 DEF Absent, File, Files
<1>3. \A n \in Names : n[1] \in Dirs /\ \A d \in Dirs, b \in BOOLEAN : <<d, n[2], b>> \in Names
  BY DEF Names
<1> QED
  BY <1>1, <1>2, <1>3 DEF Sources

\* A file that is there has a source.
LEMMA FileFacts ==
  ASSUME TypeOK, NEW n \in Names
  PROVE  /\ fs[n] # Absent => fs[n] \in Files /\ fs[n].src \in Names \cup {Stdin} /\ fs[n].depth \in Int
         /\ fs[n] \in Files \cup {Absent}
         /\ fs[n] \in Files => fs[n] # Absent
<1>1. fs[n] \in Files \cup {Absent}
  BY DEF TypeOK
<1>2. fs[n] \in Files => fs[n].src \in Names \cup {Stdin} /\ fs[n].depth \in Int
  BY DEF Files
<1> QED
  BY <1>1, <1>2, NameFacts

\* The flags after an option.
LEMMA OptionType ==
  ASSUME NEW o \in OptType, NEW c \in Options PROVE Parsed(o, c) \in OptType
<1>0. /\ c[1] \in {"c", "d", "D", "f", "i", "k", "o", "O", "r", "t"}
      /\ c[1] = "o" => c[2] \in Names \cup {Stdin}
      /\ c[1] = "O" => c[2][1] \in Dirs
  <2>1. ASSUME NEW a \in DirArgs PROVE a[1] \in Dirs
    <3>1. PICK d \in Dirs : a = <<d, "", FALSE>>
      BY DEF DirArgs, DirArg
    <3>2. <<d, "", FALSE>>[1] = d
      OBVIOUS
    <3> QED
      BY <3>1, <3>2
  <2> QED
    BY <2>1, OptionsAssumption
<1> USE DEF OptType
<1>1. CASE c[1] = "c"
  BY <1>1 DEF Parsed
<1>2. CASE c[1] = "d"
  BY <1>2 DEF Parsed
<1>3. CASE c[1] = "D"
  BY <1>3 DEF Parsed
<1>4. CASE c[1] = "f"
  BY <1>4 DEF Parsed
<1>5. CASE c[1] = "i"
  BY <1>5 DEF Parsed
<1>6. CASE c[1] = "k"
  BY <1>6 DEF Parsed
<1>7. CASE c[1] = "o"
  BY <1>0, <1>7 DEF Parsed
<1>8. CASE c[1] = "O"
  BY <1>0, <1>8 DEF Parsed
<1>9. CASE c[1] = "r"
  BY <1>9 DEF Parsed
<1>10. CASE c[1] = "t"
  BY <1>10 DEF Parsed
<1> QED
  BY <1>0, <1>1, <1>2, <1>3, <1>4, <1>5, <1>6, <1>7, <1>8, <1>9, <1>10

\* What IInv says of the record of the file in hand and of the flags.
LEMMA Records ==
  ASSUME TypeOK
  PROVE  /\ lc \in LocalType /\ opt \in OptType
         /\ lc.infile \in Names \cup {Stdin, None} /\ lc.outfile \in Names \cup {None}
         /\ lc.data \in Files \cup {Absent} /\ lc.registered \subseteq {"in", "out"}
         /\ lc.mine \in BOOLEAN /\ lc.gone \in BOOLEAN
         /\ opt.outname \in Names \cup {None, Stdin} /\ opt.outdir \in Dirs \cup {""}
         /\ opt.stdin \in BOOLEAN /\ opt.stdout \in BOOLEAN /\ opt.test \in BOOLEAN
         /\ opt.decompress \in BOOLEAN
<1>1. lc \in LocalType /\ opt \in OptType
  BY DEF TypeOK
<1>2. /\ lc.infile \in Names \cup {Stdin, None} /\ lc.outfile \in Names \cup {None}
      /\ lc.data \in Files \cup {Absent} /\ lc.registered \subseteq {"in", "out"}
      /\ lc.mine \in BOOLEAN /\ lc.gone \in BOOLEAN
  BY <1>1 DEF LocalType
<1>3. /\ opt.outname \in Names \cup {None, Stdin} /\ opt.outdir \in Dirs \cup {""}
      /\ opt.stdin \in BOOLEAN /\ opt.stdout \in BOOLEAN /\ opt.test \in BOOLEAN
      /\ opt.decompress \in BOOLEAN
  BY <1>1 DEF OptType
<1> QED
  BY <1>1, <1>2, <1>3

\* Blaming is typed and only adds.
LEMMA BlameFacts ==
  ASSUME TypeOK, was' = was, NEW files, NEW why \in SUBSET Causes, Blame(files, why)
  PROVE  /\ cause' \in [Sources -> SUBSET Causes]
         /\ \A n \in Sources : cause[n] \subseteq cause'[n]
         /\ \A n \in Sources : n \in files => why \subseteq cause'[n]
BY DEF Blame, TypeOK

\* The sources are those of the start.
LEMMA SourcesStay == ASSUME was' = was PROVE Sources' = Sources
BY DEF Sources

\* A file vanishes from the name at or is replaced there, and whatever it descends
\* from is blamed or there is another complete copy.
LEMMA VanishKeepsLoss ==
  ASSUME TypeOK, LossInv, was' = was, NEW at \in Names, \A m \in Names : m # at => fs'[m] = fs[m],
         sent \subseteq sent',
         \A n \in Sources : cause[n] \subseteq cause'[n],
         \A n \in Sources : fs[at] # Absent /\ fs[at].src = n =>
           \/ cause'[n] \cap {"force", "early", "late", "test"} # {}
           \/ n \in sent'
           \/ \E m \in Names : m # at /\ fs[m] # Absent /\ fs[m].whole /\ fs[m].src = n
  PROVE  LossInv'
<1>0. Sources' = Sources
  BY SourcesStay
<1> SUFFICES ASSUME NEW n \in Sources
             PROVE  \/ n \in sent'
                    \/ \E m \in Names : fs'[m] # Absent /\ fs'[m].whole /\ fs'[m].src = n
                    \/ cause'[n] \cap {"force", "early", "late", "test"} # {}
  BY <1>0 DEF LossInv, Held
<1>2. CASE n \in sent
  BY <1>2
<1>3. CASE cause[n] \cap {"force", "early", "late", "test"} # {}
  BY <1>3
<1>4. ASSUME NEW m \in Names, fs[m] # Absent, fs[m].whole, fs[m].src = n, m # at
      PROVE  \E k \in Names : fs'[k] # Absent /\ fs'[k].whole /\ fs'[k].src = n
  BY <1>4
<1>5. ASSUME fs[at] # Absent, fs[at].src = n
      PROVE  \/ n \in sent'
             \/ \E m \in Names : fs'[m] # Absent /\ fs'[m].whole /\ fs'[m].src = n
             \/ cause'[n] \cap {"force", "early", "late", "test"} # {}
  BY <1>4, <1>5
<1> QED
  BY <1>2, <1>3, <1>4, <1>5 DEF LossInv, Held

----------------------------------------------------------------------------
(* The ways out. *)

\* exit() in main.
LEMMA PlainExitIInv ==
  ASSUME IInv, NEW how \in {"ok", "fail", "soft"}, PlainExit(how),
         how # "soft" => pc \in Between \cup {"c_in"}
  PROVE  IInv'
<1> USE DEF PlainExit, Leave, history
<1>0. Sources' = Sources
  BY SourcesStay
<1>1. TypeOK'
  BY <1>0 DEF IInv, TypeOK
<1>2. TmpInv' /\ WholeInv' /\ OutInv' /\ DataInv'
  BY DEF TmpInv, WholeInv, OutInv, DataInv, Between, Before, Since
<1>3. SourceInv' /\ HandInv'
  BY <1>0 DEF IInv, SourceInv, HandInv, Before, Since
<1>4. LossInv'
  BY <1>0 DEF IInv, LossInv, Held
<1>5. NothingLeft'
  BY DEF IInv, NothingLeft, TmpInv, WholeInv, Between
<1> QED
  BY <1>1, <1>2, <1>3, <1>4, <1>5 DEF IInv

\* fatal_exit, on a failure or a signal.
LEMMA FatalExitIInv ==
  ASSUME IInv, pc # "exit", NEW l, NEW how \in {"fail", "cut"}, NEW why, FatalExit(l, how, why),
         \/ l = lc /\ why = Excuse
         \/ l = KeepBroken(lc) /\ why = {} /\ pc = "create",
         how = "fail" => pc \notin {"register_in", "register_out"}
  PROVE  IInv'
<1> USE DEF Leave, history
<1>0. /\ Sources' = Sources /\ TypeOK /\ was' = was /\ pc' = "exit" /\ exit' = how
      /\ UNCHANGED <<opt, given, args, list, lc, sent>> /\ tmp' = tmp \ l.registered
  BY SourcesStay DEF FatalExit, IInv
<1>1. /\ lc \in LocalType /\ opt \in OptType
      /\ lc.infile \in Names \cup {Stdin, None} /\ lc.outfile \in Names \cup {None}
      /\ lc.data \in Files \cup {Absent} /\ lc.registered \subseteq {"in", "out"}
      /\ lc.mine \in BOOLEAN /\ lc.gone \in BOOLEAN
  BY <1>0, Records
<1>2. l.registered = lc.registered /\ (l # lc => l.broken)
  BY <1>1 DEF KeepBroken, LocalType
<1>3. why \in SUBSET Causes
  BY DEF Excuse, Causes
<1>4. tmp' \subseteq {"in", "out"} /\ (how = "fail" => tmp' = {})
  BY <1>0, <1>2 DEF IInv, TmpInv, TypeOK
<1>5. CASE ~UnlinksOutput(l)
  <2>0. UNCHANGED <<fs, cause>>
    BY <1>5 DEF FatalExit
  <2>1. TypeOK'
    BY <1>0, <1>4, <2>0 DEF TypeOK
  <2>2. TmpInv' /\ WholeInv' /\ OutInv' /\ DataInv'
    BY <1>0 DEF TmpInv, WholeInv, OutInv, DataInv, Between, Before, Since
  <2>3. SourceInv' /\ HandInv'
    BY <1>0, <2>0 DEF IInv, SourceInv, HandInv, Before, Since
  <2>4. LossInv'
    BY <1>0, <2>0 DEF IInv, LossInv, Held
  <2>5. NothingLeft'
    <3> SUFFICES ASSUME how = "fail", ~lc.broken, NEW n \in Names, fs[n] # Absent PROVE fs[n].whole
      BY <1>0, <1>4, <2>0 DEF NothingLeft
    <3>1. CASE pc = "work" /\ lc.mine
      <4>1. l = lc /\ lc.outfile \in Names /\ ~lc.stdout /\ ~lc.test
        BY <3>1 DEF IInv, OutInv, HandInv, Since, Before
      <4> QED
        BY <1>5, <4>1, NameFacts DEF UnlinksOutput
    <3>2. CASE ~(pc = "work" /\ lc.mine)
      BY <3>2 DEF IInv, WholeInv
    <3> QED BY <3>1, <3>2
  <2> QED
    BY <2>1, <2>2, <2>3, <2>4, <2>5 DEF IInv
<1>6. CASE UnlinksOutput(l)
  <2>0. /\ l = lc /\ why = Excuse /\ lc.outfile \in Names
    <3>1. ~l.broken /\ l.outfile # None
      BY <1>6 DEF UnlinksOutput
    <3>2. l = KeepBroken(lc) => l.broken
      BY <1>1 DEF KeepBroken, LocalType
    <3>3. l = lc /\ why = Excuse
      BY <3>1, <3>2
    <3> QED
      BY <1>1, <3>1, <3>3
  <2>1. /\ fs' = [fs EXCEPT ![lc.outfile] = Absent] /\ Blame(SrcAt(lc.outfile), Excuse)
    BY <1>6, <2>0 DEF FatalExit
  <2> DEFINE at == lc.outfile
  <2>2. /\ cause' \in [Sources -> SUBSET Causes]
        /\ \A n \in Sources : cause[n] \subseteq cause'[n]
        /\ \A n \in Sources : n \in SrcAt(at) => Excuse \subseteq cause'[n]
    BY <1>0, <1>3, <2>0, <2>1, BlameFacts
  <2>3. fs' \in [Names -> Files \cup {Absent}] /\ fs'[at] = Absent /\ \A m \in Names : m # at => fs'[m] = fs[m]
    BY <1>0, <2>0, <2>1 DEF TypeOK
  <2>4. TypeOK'
    BY <1>0, <1>4, <2>2, <2>3 DEF TypeOK
  <2>5. TmpInv' /\ WholeInv' /\ OutInv' /\ DataInv'
    BY <1>0 DEF TmpInv, WholeInv, OutInv, DataInv, Between, Before, Since
  <2>6. SourceInv' /\ HandInv'
    BY <1>0, <2>3 DEF IInv, SourceInv, HandInv, Before, Since
  <2>7. ASSUME NEW n \in Sources, fs[at] # Absent, fs[at].src = n
        PROVE  \/ cause'[n] \cap {"force", "early", "late", "test"} # {}
               \/ \E m \in Names : m # at /\ fs[m] # Absent /\ fs[m].whole /\ fs[m].src = n
    <3>1. n \in SrcAt(at)
      BY <2>7 DEF SrcAt
    <3>2. CASE ~lc.mine \/ lc.gone
      BY <2>2, <3>1, <3>2 DEF Excuse
    <3>3. CASE lc.mine /\ ~lc.gone
      <4>1. pc \in Since /\ n # Stdin
        <5>1. pc \in Before \cup Since \cup Between
          BY <1>0 DEF TypeOK, Before, Since, Between
        <5> QED
          BY <2>0, <3>3, <5>1, NameFacts DEF IInv, OutInv
      <4>2. lc.data.src = n /\ InputKept
        BY <2>7, <3>3, <4>1 DEF IInv, DataInv, Since
      <4>3. CASE lc.infile = lc.outfile
        <5>1. "force" \in cause[n]
          BY <3>3, <4>1, <4>2, <4>3 DEF InputKept
        <5> QED
          BY <2>2, <5>1
      <4>4. CASE lc.infile # lc.outfile
        <5>1. ~opt.stdin /\ fs[lc.infile] = lc.data /\ lc.data.whole
          BY <4>1, <4>2, <4>4 DEF InputKept
        <5>2. lc.infile \in Names
          BY <4>1, <5>1 DEF IInv, HandInv
        <5>3. fs[lc.infile] # Absent
          BY <4>2, <5>1, NameFacts DEF Absent, File
        <5> QED
          BY <4>2, <4>4, <5>1, <5>2, <5>3
      <4> QED BY <4>3, <4>4
    <3> QED BY <1>1, <3>2, <3>3
  <2>8. LossInv'
    <3> HIDE DEF at
    <3>1. at \in Names /\ LossInv /\ sent' = sent
      BY <1>0, <2>0, <2>1 DEF IInv, at
    <3> QED
      BY <1>0, <2>2, <2>3, <2>7, <3>1, VanishKeepsLoss
  <2>9. NothingLeft'
    <3> SUFFICES ASSUME how = "fail", NEW n \in Names, fs'[n] # Absent PROVE fs'[n].whole
      BY <1>0, <1>4 DEF NothingLeft
    <3>1. n # at /\ fs'[n] = fs[n]
      BY <2>3
    <3> QED
      BY <3>1 DEF IInv, WholeInv
  <2> QED
    BY <2>4, <2>5, <2>6, <2>8, <2>9 DEF IInv
<1> QED
  BY <1>5, <1>6

\* A failure of the step in hand.
LEMMA FatalIInv ==
  ASSUME IInv, pc \notin {"exit", "register_in", "register_out"}, Fatal PROVE IInv'
BY FatalExitIInv DEF Fatal

\* sighandler.
LEMMA InterruptIInv == ASSUME IInv, Interrupt PROVE IInv'
<1>1. PICK how \in {"fail", "cut"} :
        /\ FatalExit(lc, how, Excuse) /\ pc # "exit"
        /\ how = "fail" => pc \notin {"register_in", "register_out"}
  BY DEF Interrupt
<1> QED
  BY <1>1, FatalExitIInv

----------------------------------------------------------------------------
(* The steps of main. *)

\* A step that leaves the files alone.
LEMMA Quiet ==
  ASSUME IInv, pc # "exit", pc' # "exit", UNCHANGED <<fs, was, exit>>, sent \subseteq sent',
         opt.stdin => opt'.stdin, \A n \in Sources : cause[n] \subseteq cause'[n]
  PROVE  /\ Sources' = Sources /\ SourceInv' /\ LossInv' /\ NothingLeft'
         /\ pc # "work" => WholeInv'
         /\ exit' = "none" /\ exit' \in {"none", "ok", "fail", "soft", "cut"}
<1>1. Sources' = Sources
  BY SourcesStay
<1>2. SourceInv'
  BY <1>1 DEF IInv, SourceInv
<1>3. LossInv'
  <2> SUFFICES ASSUME NEW n \in Sources
               PROVE  \/ n \in sent'
                      \/ \E m \in Names : fs[m] # Absent /\ fs[m].whole /\ fs[m].src = n
                      \/ cause'[n] \cap {"force", "early", "late", "test"} # {}
    BY <1>1 DEF LossInv, Held
  <2>1. \/ n \in sent
        \/ \E m \in Names : fs[m] # Absent /\ fs[m].whole /\ fs[m].src = n
        \/ cause[n] \cap {"force", "early", "late", "test"} # {}
    BY DEF IInv, LossInv, Held
  <2> QED BY <2>1
<1>4. exit' = "none"
  BY DEF IInv, HandInv
<1>5. NothingLeft'
  BY <1>4 DEF NothingLeft
<1>6. pc # "work" => WholeInv'
  BY DEF IInv, WholeInv
<1> QED
  BY <1>1, <1>2, <1>3, <1>4, <1>5, <1>6

\* An option.
LEMMA ParseOptionIInv == ASSUME IInv, NEW c \in Options, ParseOption(c) PROVE IInv'
<1>1. CASE PlainExit("fail")
  BY <1>1, PlainExitIInv DEF ParseOption, Between
<1>2. CASE /\ opt' = Parsed(opt, c)
           /\ UNCHANGED <<pc, args, list, lc, fs, tmp, sent, exit, history, cause>>
  <2>0. pc = "options" /\ opt \in OptType /\ opt.stdin = FALSE
    BY DEF IInv, HandInv, ParseOption, TypeOK, OptType
  <2>1. opt' \in OptType
    BY <1>2, <2>0, OptionType
  <2>2. opt'.stdin = FALSE
    BY <1>2, <2>0, OptionsAssumption DEF Parsed, OptType
  <2>3. /\ Sources' = Sources /\ SourceInv' /\ LossInv' /\ NothingLeft' /\ WholeInv' /\ exit' = "none"
    BY <1>2, <2>0, <2>2, Quiet DEF history
  <2>4. TypeOK'
    BY <1>2, <2>1, <2>3 DEF IInv, TypeOK, history
  <2>5. TmpInv' /\ OutInv'
    BY <1>2, <2>0 DEF IInv, TmpInv, OutInv, Between, Before, Since
  <2>6. HandInv'
    BY <1>2, <2>0, <2>2, <2>3 DEF IInv, HandInv, Before, Since
  <2>7. DataInv'
    BY <1>2, <2>0 DEF DataInv
  <2> QED
    BY <2>3, <2>4, <2>5, <2>6, <2>7 DEF IInv
<1> QED
  BY <1>1, <1>2 DEF ParseOption

\* The checks after the options.
LEMMA EndOptionsIInv == ASSUME IInv, EndOptions PROVE IInv'
<1>0. pc = "options"
  BY DEF EndOptions
<1>1. CASE PlainExit("fail")
  BY <1>0, <1>1, PlainExitIInv DEF Between
<1>2. CASE /\ pc' = "loop" /\ opt' = [opt EXCEPT !.stdin = args = <<>>]
           /\ args' = IF args = <<>> THEN <<None>> ELSE args
           /\ UNCHANGED <<list, lc, fs, tmp, sent, exit, history, cause>>
  <2>0. opt \in OptType /\ opt.stdin = FALSE /\ args \in Seq(Names \cup DirArgs \cup {Stdin, None})
    BY <1>0 DEF IInv, HandInv, TypeOK, OptType
  <2>1. PICK b \in BOOLEAN : b = (args = <<>>) /\ opt' = [opt EXCEPT !.stdin = b]
    BY <1>2
  <2>2. opt' \in OptType /\ opt'.stdin = (args = <<>>)
    BY <2>0, <2>1 DEF OptType
  <2>3. /\ Sources' = Sources /\ SourceInv' /\ LossInv' /\ NothingLeft' /\ WholeInv' /\ exit' = "none"
    BY <1>0, <1>2, <2>0, Quiet DEF history
  <2>4. args' \in Seq(Names \cup DirArgs \cup {Stdin, None})
    BY <1>2, <2>0
  <2>5. TypeOK'
    BY <1>2, <2>2, <2>3, <2>4 DEF IInv, TypeOK, history
  <2>6. TmpInv' /\ OutInv'
    BY <1>0, <1>2 DEF IInv, TmpInv, OutInv, Between, Before, Since
  <2>7. HandInv'
    <3>1. ~opt'.stdin => args' = args
      BY <1>2, <2>2
    <3> QED
      BY <1>0, <1>2, <2>0, <2>3, <3>1 DEF IInv, HandInv, Before, Since
  <2>8. DataInv'
    BY <1>2 DEF DataInv
  <2> QED
    BY <2>3, <2>5, <2>6, <2>7, <2>8 DEF IInv
<1> QED
  BY <1>1, <1>2 DEF EndOptions

\* The next argument.
LEMMA NextArgIInv == ASSUME IInv, NextArg PROVE IInv'
<1>0. pc = "loop" /\ list = {} /\ args # <<>>
  BY DEF NextArg
<1>1. CASE PlainExit("fail")
  BY <1>0, <1>1, PlainExitIInv DEF Between
<1>2. CASE ~PlainExit("fail")
  <2> DEFINE a == Head(args)
             stdin == opt.stdin \/ Head(args) = Stdin
  <2>0. /\ opt' = [opt EXCEPT !.stdin = stdin]
        /\ list' = IF a \in DirArgs THEN RecurseDirlist(a[1]) ELSE {a}
        /\ args' = Tail(args)
        /\ pc' = IF list' = {} THEN "loop" ELSE "entry"
        /\ UNCHANGED <<given, lc, fs, tmp, sent, exit, history, cause>>
    BY <1>2 DEF NextArg
  <2>1. /\ opt \in OptType /\ opt.stdin \in BOOLEAN /\ args \in Seq(Names \cup DirArgs \cup {Stdin, None})
    BY Records DEF IInv, TypeOK
  <2>2. opt' \in OptType /\ opt'.stdin = stdin
    <3>1. stdin \in BOOLEAN
      BY <2>1
    <3> HIDE DEF stdin
    <3> QED
      BY <2>0, <2>1, <3>1 DEF OptType
  <2>3. /\ Sources' = Sources /\ SourceInv' /\ LossInv' /\ NothingLeft' /\ WholeInv' /\ exit' = "none"
    BY <1>0, <2>0, <2>2, Quiet DEF history
  <2>4. /\ a \in Names \cup DirArgs \cup {Stdin, None}
        /\ args' \in Seq(Names \cup DirArgs \cup {Stdin, None})
        /\ Len(args) > 0 /\ Len(args') = Len(args) - 1 /\ a = args[1]
        /\ \A k \in 1..Len(args') : args'[k] = args[k + 1]
    BY <1>0, <2>0, <2>1
  <2>5. list' \subseteq Names \cup {Stdin, None}
    BY <2>0, <2>4 DEF RecurseDirlist
  <2>6. TypeOK'
    BY <2>0, <2>2, <2>3, <2>4, <2>5 DEF IInv, TypeOK, history
  <2>7. TmpInv' /\ OutInv'
    BY <1>0, <2>0 DEF IInv, TmpInv, OutInv, Between, Before, Since
  <2>8. HandInv'
    <3>1. ASSUME ~opt'.stdin PROVE list' \subseteq Names /\ \A k \in 1..Len(args') : args'[k] # None
      <4>1. ~opt.stdin /\ a # Stdin
        BY <2>2, <3>1
      <4>2. \A k \in 1..Len(args) : args[k] # None
        BY <4>1 DEF IInv, HandInv
      <4>3. \A k \in 1..Len(args') : k + 1 \in 1..Len(args)
        BY <2>1, <2>4
      <4>4. a # None
        BY <2>1, <2>4, <4>2
      <4>5. list' \subseteq Names
        BY <2>0, <2>4, <4>1, <4>4 DEF RecurseDirlist
      <4> QED
        BY <2>4, <4>2, <4>3, <4>5
    <3> QED
      BY <2>0, <2>3, <3>1 DEF HandInv, Before, Since
  <2>9. DataInv'
    BY <2>0 DEF DataInv
  <2> QED
    BY <2>3, <2>6, <2>7, <2>8, <2>9 DEF IInv
<1> QED
  BY <1>1, <1>2

\* A file of the list.
LEMMA EntryIInv == ASSUME IInv, NEW n \in list, Entry(n) PROVE IInv'
<1>0. /\ pc = "entry" /\ opt' = [opt EXCEPT !.stdout = StdoutNow]
      /\ lc' = [NoLocal EXCEPT !.infile = n, !.broken = opt.broken, !.stdout = StdoutNow, !.test = opt.test]
      /\ pc' = IF opt.decompress \/ opt.test THEN "d_name" ELSE IF opt.info THEN "info" ELSE "c_in"
      /\ list' = list \ {n}
      /\ UNCHANGED <<given, args, fs, tmp, sent, exit, history>>
      /\ IF opt.stdin /\ n \in Sources THEN Blame({n}, {"sticky"}) ELSE UNCHANGED cause
  BY DEF Entry
<1>1. opt \in OptType /\ n \in Names \cup {Stdin, None} /\ StdoutNow \in BOOLEAN /\ opt.broken \in BOOLEAN
      /\ opt.test \in BOOLEAN /\ opt.stdin \in BOOLEAN /\ TypeOK
  BY DEF IInv, TypeOK, OptType, StdoutNow
<1>2. /\ opt' \in OptType /\ opt'.stdout = StdoutNow /\ opt'.stdin = opt.stdin /\ opt'.test = opt.test
      /\ opt'.outname = opt.outname
  BY <1>0, <1>1 DEF OptType
<1>3. /\ lc' \in LocalType /\ lc'.infile = n /\ lc'.stdout = StdoutNow /\ lc'.test = opt.test
      /\ ~lc'.mine /\ ~lc'.gone /\ lc'.outfile = None
  BY <1>0, <1>1 DEF NoLocal, LocalType
<1>4. cause' \in [Sources -> SUBSET Causes] /\ \A m \in Sources : cause[m] \subseteq cause'[m]
  <2>1. CASE opt.stdin /\ n \in Sources
    <3>1. Blame({n}, {"sticky"}) /\ was' = was /\ {"sticky"} \in SUBSET Causes
      BY <1>0, <2>1 DEF history, Causes
    <3> QED
      BY <1>1, <3>1, BlameFacts
  <2>2. CASE ~(opt.stdin /\ n \in Sources)
    BY <1>0, <1>1, <2>2 DEF TypeOK
  <2> QED BY <2>1, <2>2
<1>5. /\ Sources' = Sources /\ SourceInv' /\ LossInv' /\ NothingLeft' /\ WholeInv' /\ exit' = "none"
  BY <1>0, <1>2, <1>4, Quiet DEF history
<1>6. TypeOK'
  BY <1>0, <1>1, <1>2, <1>3, <1>4, <1>5 DEF TypeOK, history
<1>7. TmpInv' /\ OutInv'
  BY <1>0, <1>3 DEF IInv, TmpInv, OutInv, Between, Before, Since
<1>8. HandInv'
  <2>1. ~StdoutNow => opt.outname # Stdin /\ ~(opt.outname = None /\ opt.stdin)
    BY DEF StdoutNow
  <2>2. pc' \in {"d_name", "info", "c_in"} /\ (pc' = "c_in" => ~opt.test)
    BY <1>0
  <2>3. ~opt.stdin => list \subseteq Names /\ \A k \in 1..Len(args) : args[k] # None
    BY DEF IInv, HandInv
  <2>4. args' = args /\ list' \subseteq list
    BY <1>0
  <2> QED
    BY <1>2, <1>3, <1>5, <2>1, <2>2, <2>3, <2>4 DEF HandInv
<1>9. DataInv'
  BY <1>0 DEF DataInv
<1> QED
  BY <1>5, <1>6, <1>7, <1>8, <1>9 DEF IInv

----------------------------------------------------------------------------
(* The steps of compress_file and decompress_file. *)

\* A step with the file in hand keeps its flags and its input.
LEMMA HandStays ==
  ASSUME IInv, pc \in Before \cup Since, NEW to \in Before \cup Since, GoTo(to),
         lc'.stdout = lc.stdout, lc'.test = lc.test, lc'.infile = lc.infile,
         to \in {"c_in", "c_name"} => ~opt.test, to = "unlink" => ~opt.stdin
  PROVE  HandInv'
BY DEF IInv, HandInv, GoTo, Before, Since

\* A step with the file in hand that leaves the files alone.
LEMMA QuietGoTo ==
  ASSUME IInv, pc \in Before \cup Since, NEW to \in Before \cup Since, GoTo(to),
         lc' \in LocalType, lc'.stdout = lc.stdout, lc'.test = lc.test, lc'.infile = lc.infile,
         to \in {"c_in", "c_name"} => ~opt.test, to = "unlink" => ~opt.stdin,
         UNCHANGED <<fs, cause, sent>>, tmp' \subseteq {"in", "out"}
  PROVE  /\ TypeOK' /\ HandInv' /\ Sources' = Sources /\ SourceInv' /\ LossInv' /\ NothingLeft'
         /\ pc # "work" => WholeInv'
<1>1. pc # "exit" /\ pc' # "exit" /\ pc' = to /\ UNCHANGED <<opt, args, list, exit, was>>
  BY DEF GoTo, Before, Since, history
<1>2. /\ Sources' = Sources /\ SourceInv' /\ LossInv' /\ NothingLeft'
      /\ pc # "work" => WholeInv'
      /\ exit' \in {"none", "ok", "fail", "soft", "cut"}
  BY <1>1, Quiet
<1>3. TypeOK'
  BY <1>1, <1>2 DEF IInv, TypeOK, Before, Since
<1> QED
  BY <1>2, <1>3, HandStays

\* The input of compress_file.
LEMMA CompressOpenIInv == ASSUME IInv, CompressOpen PROVE IInv'
<1>0. pc = "c_in"
  BY DEF CompressOpen
<1>1. CASE PlainExit("fail")
  BY <1>0, <1>1, PlainExitIInv DEF Between
<1>2. CASE Fatal
  BY <1>0, <1>2, FatalIInv
<1>3. CASE /\ ~opt.stdin => fs[lc.infile] # Absent
           /\ lc' = [lc EXCEPT !.data = Content]
           /\ GoTo("c_name") /\ UNCHANGED <<fs, tmp, sent, cause>>
  <2>0. /\ TypeOK /\ lc \in LocalType /\ opt.stdin \in BOOLEAN /\ ~opt.test /\ ~lc.mine /\ ~lc.gone
        /\ ~opt.stdin => lc.infile \in Names
    BY <1>0, Records DEF IInv, HandInv, OutInv, Before
  <2>1. Content \in Files \cup {Absent}
    BY <2>0, FileFacts DEF Content, File, Files
  <2>2. /\ lc' \in LocalType /\ lc'.data = Content
        /\ lc'.infile = lc.infile /\ lc'.outfile = lc.outfile /\ lc'.broken = lc.broken /\ lc'.stdout = lc.stdout
        /\ lc'.test = lc.test /\ lc'.registered = lc.registered /\ lc'.mine = lc.mine /\ lc'.gone = lc.gone
    BY <1>3, <2>0, <2>1 DEF LocalType
  <2>3. TypeOK' /\ HandInv' /\ Sources' = Sources /\ SourceInv' /\ LossInv' /\ NothingLeft' /\ WholeInv'
    <3>1. tmp' \subseteq {"in", "out"}
      BY <1>3, <2>0 DEF TypeOK
    <3> QED
      BY <1>0, <1>3, <2>0, <2>2, <3>1, QuietGoTo DEF Before
  <2>4. pc' = "c_name" /\ opt' = opt
    BY <1>3 DEF GoTo
  <2>5. TmpInv' /\ OutInv'
    BY <1>0, <1>3, <2>0, <2>2, <2>4 DEF IInv, TmpInv, OutInv, Between, Before, Since
  <2>6. InputKept'
    <3>1. CASE opt.stdin
      BY <2>2, <2>4, <3>1 DEF InputKept, Content, File
    <3>2. CASE ~opt.stdin
      <4>1. lc'.data = fs[lc.infile] /\ fs[lc.infile] # Absent
        BY <1>3, <2>2, <3>2 DEF Content
      <4>2. fs[lc.infile].src \in Sources /\ fs[lc.infile].whole
        BY <1>0, <2>0, <3>2, <4>1 DEF IInv, SourceInv, WholeInv
      <4> QED
        BY <1>3, <2>0, <2>2, <2>3, <2>4, <3>2, <4>1, <4>2 DEF InputKept
    <3> QED BY <3>1, <3>2
  <2>7. DataInv'
    BY <2>4, <2>6 DEF DataInv
  <2> QED
    BY <2>3, <2>5, <2>7 DEF IInv
<1> QED
  BY <1>1, <1>2, <1>3 DEF CompressOpen

\* The input of decompress_file.
LEMMA DecompressOpenIInv == ASSUME IInv, DecompressOpen PROVE IInv'
<1>0. pc = "d_in"
  BY DEF DecompressOpen
<1>2. CASE Fatal
  BY <1>0, <1>2, FatalIInv
<1>3. CASE /\ ~opt.stdin => fs[lc.infile] # Absent
           /\ lc' = [lc EXCEPT !.data = Content]
           /\ GoTo(IF opt.stdout \/ opt.test THEN "mkstemp_out" ELSE "create")
           /\ UNCHANGED <<fs, tmp, sent, cause>>
  <2>0. /\ TypeOK /\ lc \in LocalType /\ opt.stdin \in BOOLEAN /\ ~lc.mine /\ ~lc.gone
        /\ ~opt.stdin => lc.infile \in Names
        /\ opt.stdout \/ opt.test => lc.outfile = None
        /\ ~(opt.stdout \/ opt.test) => lc.outfile \in Names
    BY <1>0, Records DEF IInv, HandInv, OutInv, Before
  <2>1. Content \in Files \cup {Absent}
    BY <2>0, FileFacts DEF Content, File, Files
  <2>2. /\ lc' \in LocalType /\ lc'.data = Content
        /\ lc'.infile = lc.infile /\ lc'.outfile = lc.outfile /\ lc'.broken = lc.broken /\ lc'.stdout = lc.stdout
        /\ lc'.test = lc.test /\ lc'.registered = lc.registered /\ lc'.mine = lc.mine /\ lc'.gone = lc.gone
    BY <1>3, <2>0, <2>1 DEF LocalType
  <2>4. pc' \in {"mkstemp_out", "create"} /\ opt' = opt /\ GoTo(pc') /\ was' = was
    BY <1>3 DEF GoTo, history
  <2>3. TypeOK' /\ HandInv' /\ Sources' = Sources /\ SourceInv' /\ LossInv' /\ NothingLeft' /\ WholeInv'
    <3>1. tmp' \subseteq {"in", "out"}
      BY <1>3, <2>0 DEF TypeOK
    <3>2. PICK to \in {"mkstemp_out", "create"} : GoTo(to)
      BY <1>3
    <3> QED
      BY <1>0, <1>3, <2>0, <2>2, <3>1, <3>2, QuietGoTo DEF Before
  <2>5. TmpInv' /\ OutInv'
    <3>1. pc' = "create" => ~(opt.stdout \/ opt.test)
      BY <1>3 DEF GoTo
    <3>2. pc' = "mkstemp_out" => opt.stdout \/ opt.test
      BY <1>3 DEF GoTo
    <3>3. TmpInv'
      BY <1>0, <1>3, <2>4 DEF IInv, TmpInv
    <3>4. OutInv'
      BY <2>0, <2>2, <2>4, <3>1, <3>2 DEF OutInv, Between, Before, Since
    <3> QED BY <3>3, <3>4
  <2>6. InputKept'
    <3>1. CASE opt.stdin
      BY <2>2, <2>4, <3>1 DEF InputKept, Content, File
    <3>2. CASE ~opt.stdin
      <4>1. lc'.data = fs[lc.infile] /\ fs[lc.infile] # Absent
        BY <1>3, <2>2, <3>2 DEF Content
      <4>2. fs[lc.infile].src \in Sources /\ fs[lc.infile].whole
        BY <1>0, <2>0, <3>2, <4>1 DEF IInv, SourceInv, WholeInv
      <4> QED
        BY <1>3, <2>0, <2>2, <2>3, <2>4, <3>2, <4>1, <4>2 DEF InputKept
    <3> QED BY <3>1, <3>2
  <2>7. DataInv'
    BY <2>4, <2>6 DEF DataInv
  <2> QED
    BY <2>3, <2>5, <2>7 DEF IInv
<1> QED
  BY <1>2, <1>3 DEF DecompressOpen

\* The output name: -o, or a name in the directory of -O or of the input.
LEMMA OutputName ==
  ASSUME IInv, pc \in Before, ~opt.stdout, NEW b \in BOOLEAN
  PROVE  (IF opt.outname # None THEN opt.outname
          ELSE <<IF opt.outdir # "" THEN opt.outdir ELSE lc.infile[1], lc.infile[2], b>>) \in Names
<1>1. /\ opt.outname \in Names \cup {None, Stdin} /\ opt.outdir \in Dirs \cup {""}
      /\ ~opt.stdin => lc.infile \in Names
      /\ opt.outname # Stdin /\ ~(opt.outname = None /\ opt.stdin)
  BY Records DEF IInv, HandInv
<1>2. CASE opt.outname # None
  BY <1>1, <1>2
<1>3. CASE opt.outname = None
  <2>1. lc.infile \in Names
    BY <1>1, <1>3
  <2>2. PICK d \in Dirs : d = IF opt.outdir # "" THEN opt.outdir ELSE lc.infile[1]
    BY <1>1, <2>1, NameFacts
  <2>3. <<d, lc.infile[2], b>> \in Names
    BY <2>1, NameFacts
  <2> QED
    BY <1>3, <2>2, <2>3
<1> QED
  BY <1>2, <1>3

\* InputKept is about the input, the output's name and owner, and the files.
LEMMA InputStays ==
  ASSUME TypeOK, InputKept, UNCHANGED <<fs, cause, was>>, opt'.stdin = opt.stdin, lc'.data = lc.data,
         lc'.infile = lc.infile, lc'.mine = lc.mine, lc.mine => lc'.outfile = lc.outfile
  PROVE  InputKept'
BY SourcesStay DEF InputKept

\* The output name of compress_file.
LEMMA CompressNameIInv == ASSUME IInv, CompressName PROVE IInv'
<1> DEFINE name == IF opt.outname # None THEN opt.outname
                   ELSE <<IF opt.outdir # "" THEN opt.outdir ELSE lc.infile[1], lc.infile[2], TRUE>>
<1>0. /\ pc = "c_name" /\ lc' = (IF opt.stdout THEN lc ELSE [lc EXCEPT !.outfile = name])
      /\ GoTo(IF opt.stdout THEN "mkstemp_out" ELSE "create") /\ UNCHANGED <<fs, tmp, sent, cause>>
  BY DEF CompressName
<1>1. /\ TypeOK /\ lc \in LocalType /\ ~lc.mine /\ ~lc.gone /\ lc.outfile = None /\ ~opt.test /\ InputKept
      /\ opt.stdout \in BOOLEAN
  BY <1>0, Records DEF IInv, HandInv, OutInv, DataInv, Before
<1>2. ~opt.stdout => name \in Names
  BY <1>0, OutputName DEF Before
<1> HIDE DEF name
<1>3. /\ lc' \in LocalType /\ lc'.outfile = (IF opt.stdout THEN None ELSE name) /\ lc'.data = lc.data
      /\ lc'.infile = lc.infile /\ lc'.broken = lc.broken /\ lc'.stdout = lc.stdout
      /\ lc'.test = lc.test /\ lc'.registered = lc.registered /\ lc'.mine = lc.mine /\ lc'.gone = lc.gone
  BY <1>0, <1>1, <1>2 DEF LocalType
<1>4. pc' = (IF opt.stdout THEN "mkstemp_out" ELSE "create") /\ opt' = opt /\ was' = was
  BY <1>0 DEF GoTo, history
<1>5. TypeOK' /\ HandInv' /\ Sources' = Sources /\ SourceInv' /\ LossInv' /\ NothingLeft' /\ WholeInv'
  <2>1. tmp' \subseteq {"in", "out"}
    BY <1>0, <1>1 DEF TypeOK
  <2>2. PICK to \in {"mkstemp_out", "create"} : GoTo(to)
    BY <1>0
  <2> QED
    BY <1>0, <1>3, <2>1, <2>2, QuietGoTo DEF Before
<1>6. TmpInv'
  BY <1>0, <1>4 DEF IInv, TmpInv
<1>7. OutInv'
  BY <1>1, <1>2, <1>3, <1>4 DEF OutInv, Between, Before, Since
<1>8. InputKept'
  BY <1>0, <1>1, <1>3, <1>4, InputStays
<1>9. DataInv'
  BY <1>4, <1>8 DEF DataInv
<1> QED
  BY <1>5, <1>6, <1>7, <1>9 DEF IInv

\* The output name of decompress_file.
LEMMA DecompressNameIInv == ASSUME IInv, DecompressName PROVE IInv'
<1> DEFINE name == IF opt.outname # None THEN opt.outname
                   ELSE <<IF opt.outdir # "" THEN opt.outdir ELSE lc.infile[1], lc.infile[2], FALSE>>
           none == opt.stdout \/ opt.test
<1>0. /\ pc = "d_name" /\ lc' = (IF none THEN lc ELSE [lc EXCEPT !.outfile = name])
      /\ GoTo(IF opt.stdin THEN "mkstemp_in" ELSE "d_in") /\ UNCHANGED <<fs, tmp, sent, cause>>
  BY DEF DecompressName
<1>1. /\ TypeOK /\ lc \in LocalType /\ ~lc.mine /\ ~lc.gone /\ lc.outfile = None
  BY <1>0, Records DEF IInv, OutInv, Before
<1>2. ~none => name \in Names
  BY <1>0, OutputName DEF Before
<1> HIDE DEF name
<1>3. /\ lc' \in LocalType /\ lc'.outfile = (IF none THEN None ELSE name) /\ lc'.data = lc.data
      /\ lc'.infile = lc.infile /\ lc'.broken = lc.broken /\ lc'.stdout = lc.stdout
      /\ lc'.test = lc.test /\ lc'.registered = lc.registered /\ lc'.mine = lc.mine /\ lc'.gone = lc.gone
  BY <1>0, <1>1, <1>2 DEF LocalType
<1>4. pc' \in {"mkstemp_in", "d_in"} /\ opt' = opt /\ was' = was
  BY <1>0 DEF GoTo, history
<1>5. TypeOK' /\ HandInv' /\ Sources' = Sources /\ SourceInv' /\ LossInv' /\ NothingLeft' /\ WholeInv'
  <2>1. tmp' \subseteq {"in", "out"}
    BY <1>0, <1>1 DEF TypeOK
  <2>2. PICK to \in {"mkstemp_in", "d_in"} : GoTo(to)
    BY <1>0
  <2> QED
    BY <1>0, <1>3, <2>1, <2>2, QuietGoTo DEF Before
<1>6. TmpInv'
  BY <1>0, <1>4 DEF IInv, TmpInv
<1>7. OutInv'
  BY <1>1, <1>2, <1>3, <1>4 DEF OutInv, Between, Before, Since
<1>9. DataInv'
  BY <1>4 DEF DataInv
<1> QED
  BY <1>5, <1>6, <1>7, <1>9 DEF IInv

\* Steps that change nothing of the file in hand but its temporary files.
LEMMA TmpStep ==
  ASSUME IInv, pc \in Before \cup Since, pc # "release", NEW to \in Before \cup {"work"},
         GoTo(to), lc' \in LocalType,
         lc'.data = lc.data, lc'.infile = lc.infile, lc'.outfile = lc.outfile, lc'.stdout = lc.stdout,
         lc'.test = lc.test, lc'.mine = lc.mine, lc'.gone = lc.gone,
         UNCHANGED <<fs, cause, sent>>, tmp' \subseteq {"in", "out"},
         \/ /\ pc \in {"mkstemp_in", "register_in", "unlink_in"}
            /\ to \in {"register_in", "unlink_in", "d_in"}
         \/ /\ pc \in {"mkstemp_out", "register_out", "unlink_out"}
            /\ to \in {"register_out", "unlink_out", "work"}
  PROVE  /\ TypeOK' /\ HandInv' /\ SourceInv' /\ LossInv' /\ NothingLeft' /\ WholeInv' /\ OutInv' /\ DataInv'
<1>1. TypeOK' /\ HandInv' /\ Sources' = Sources /\ SourceInv' /\ LossInv' /\ NothingLeft' /\ WholeInv'
  BY QuietGoTo DEF Before, Since
<1>2. pc' = to /\ opt' = opt /\ was' = was /\ TypeOK
  BY DEF GoTo, history, IInv
<1>3. OutInv'
  BY <1>2 DEF IInv, OutInv, Between, Before, Since
<1>4. InputKept => InputKept'
  BY <1>2, InputStays
<1>5. DataInv'
  BY <1>2, <1>4 DEF IInv, DataInv, OutInv, Before
<1> QED
  BY <1>1, <1>3, <1>5

\* mkstemp.
LEMMA MkstempIInv == ASSUME IInv, NEW which \in {"in", "out"}, Mkstemp(which) PROVE IInv'
<1>0. TypeOK /\ lc \in LocalType /\ lc' = lc /\ UNCHANGED <<fs, cause, sent>> /\ tmp = {}
  BY DEF IInv, TypeOK, Mkstemp, TmpInv, MkstempAt
<1>1. CASE which = "in"
  <2>1. pc = "mkstemp_in"
    BY <1>1 DEF Mkstemp, MkstempAt
  <2>2. PICK to \in {"register_in", "d_in"} :
          GoTo(to) /\ tmp' = (IF to = "register_in" THEN {"in"} ELSE {})
    BY <1>0, <1>1 DEF Mkstemp, RegisterAt, AfterTmp
  <2>3. TmpInv'
    BY <1>0, <2>2 DEF TmpInv, GoTo
  <2> QED
    BY <1>0, <2>1, <2>2, <2>3, TmpStep DEF IInv, Before
<1>2. CASE which = "out"
  <2>1. pc = "mkstemp_out"
    BY <1>2 DEF Mkstemp, MkstempAt
  <2>2. PICK to \in {"register_out", "work"} :
          GoTo(to) /\ tmp' = (IF to = "register_out" THEN {"out"} ELSE {})
    BY <1>0, <1>2 DEF Mkstemp, RegisterAt, AfterTmp
  <2>3. TmpInv'
    BY <1>0, <2>2 DEF TmpInv, GoTo
  <2> QED
    BY <1>0, <2>1, <2>2, <2>3, TmpStep DEF IInv, Before
<1> QED BY <1>1, <1>2

\* register_infile and register_outfile.
LEMMA RegisterIInv == ASSUME IInv, NEW which \in {"in", "out"}, Register(which) PROVE IInv'
<1>0. /\ TypeOK /\ lc \in LocalType /\ UNCHANGED <<fs, cause, sent, tmp>> /\ tmp \subseteq {"in", "out"}
      /\ lc' = [lc EXCEPT !.registered = @ \cup {which}]
  BY DEF IInv, TypeOK, Register
<1>1. /\ lc' \in LocalType /\ which \in lc'.registered
      /\ lc'.data = lc.data /\ lc'.infile = lc.infile /\ lc'.outfile = lc.outfile /\ lc'.stdout = lc.stdout
      /\ lc'.test = lc.test /\ lc'.mine = lc.mine /\ lc'.gone = lc.gone
  BY <1>0 DEF LocalType
<1>2. CASE which = "in"
  <2>1. pc = "register_in" /\ GoTo("unlink_in")
    BY <1>2 DEF Register, RegisterAt, UnlinkAt
  <2>2. TmpInv'
    BY <1>0, <1>1, <1>2, <2>1 DEF IInv, TmpInv, GoTo
  <2> QED
    BY <1>0, <1>1, <2>1, <2>2, TmpStep DEF IInv, Before
<1>3. CASE which = "out"
  <2>1. pc = "register_out" /\ GoTo("unlink_out")
    BY <1>3 DEF Register, RegisterAt, UnlinkAt
  <2>2. TmpInv'
    BY <1>0, <1>1, <1>3, <2>1 DEF IInv, TmpInv, GoTo
  <2> QED
    BY <1>0, <1>1, <2>1, <2>2, TmpStep DEF IInv, Before
<1> QED BY <1>2, <1>3

\* The unlink of a temporary file.
LEMMA UnlinkTmpIInv == ASSUME IInv, NEW which \in {"in", "out"}, UnlinkTmp(which) PROVE IInv'
<1>1. CASE Fatal
  BY <1>1, FatalIInv DEF UnlinkTmp, UnlinkAt
<1>2. CASE tmp' = tmp \ {which} /\ GoTo(AfterTmp[which]) /\ UNCHANGED <<lc, fs, sent, cause>>
  <2>0. TypeOK /\ lc \in LocalType /\ tmp \subseteq {"in", "out"}
    BY DEF IInv, TypeOK
  <2>1. CASE which = "in"
    <3>1. pc = "unlink_in" /\ GoTo("d_in") /\ tmp = {"in"}
      BY <1>2, <2>1 DEF UnlinkTmp, UnlinkAt, AfterTmp, IInv, TmpInv
    <3>2. TmpInv' /\ tmp' \subseteq {"in", "out"}
      BY <1>2, <2>1, <3>1 DEF TmpInv, GoTo
    <3> QED
      BY <1>2, <2>0, <3>1, <3>2, TmpStep DEF IInv, Before
  <2>2. CASE which = "out"
    <3>1. pc = "unlink_out" /\ GoTo("work") /\ tmp = {"out"}
      BY <1>2, <2>2 DEF UnlinkTmp, UnlinkAt, AfterTmp, IInv, TmpInv
    <3>2. TmpInv' /\ tmp' \subseteq {"in", "out"}
      BY <1>2, <2>2, <3>1 DEF TmpInv, GoTo
    <3> QED
      BY <1>2, <2>0, <3>1, <3>2, TmpStep DEF IInv, Before
  <2> QED BY <2>1, <2>2
<1> QED
  BY <1>1, <1>2 DEF UnlinkTmp

\* The output file, with -f in place of another.
LEMMA CreateIInv == ASSUME IInv, Create PROVE IInv'
<1>0. pc = "create" /\ TypeOK /\ InputKept
  BY DEF Create, IInv, DataInv
<1>1. CASE FatalExit(KeepBroken(lc), "fail", {})
  BY <1>0, <1>1, FatalExitIInv
<1>2. CASE ~FatalExit(KeepBroken(lc), "fail", {})
  <2> DEFINE at == lc.outfile
             new == File(lc.data.src, lc.data.depth + (IF opt.decompress THEN -1 ELSE 1), FALSE)
  <2>0. /\ Blame(SrcAt(at), {"force"}) /\ fs' = [fs EXCEPT ![at] = new]
        /\ lc' = [lc EXCEPT !.mine = TRUE] /\ GoTo("work") /\ UNCHANGED <<tmp, sent>>
    BY <1>2 DEF Create
  <2>1. /\ lc \in LocalType /\ opt.decompress \in BOOLEAN /\ lc.data \in Files \cup {Absent}
        /\ at \in Names /\ ~opt.stdout /\ ~opt.test /\ ~lc.mine /\ ~lc.gone
    BY <1>0, Records DEF IInv, OutInv, Before
  <2>2. /\ lc' \in LocalType /\ lc'.mine
        /\ lc'.data = lc.data /\ lc'.infile = lc.infile /\ lc'.outfile = at /\ lc'.stdout = lc.stdout
        /\ lc'.test = lc.test /\ lc'.gone = lc.gone
    BY <2>0, <2>1 DEF LocalType
  <2>3. /\ pc' = "work" /\ UNCHANGED <<opt, args, list, exit, was, tmp, sent>> /\ Sources' = Sources
        /\ exit' = "none"
    BY <1>0, <2>0, SourcesStay DEF GoTo, history, IInv, HandInv
  <2>4. /\ cause' \in [Sources -> SUBSET Causes]
        /\ \A n \in Sources : cause[n] \subseteq cause'[n]
        /\ \A n \in Sources : n \in SrcAt(at) => "force" \in cause'[n]
    <3>1. {"force"} \in SUBSET Causes
      BY DEF Causes
    <3> QED
      BY <1>0, <2>0, <2>3, <3>1, BlameFacts
  <2>5. lc.data.src \in Sources \/ (opt.stdin /\ lc.data.src = Stdin)
    BY <1>0 DEF InputKept
  <2>6. new \in Files /\ new # Absent /\ new.src = lc.data.src
    <3>1. lc.data.src \in Names \cup {Stdin}
      BY <2>5, NameFacts
    <3>2. lc.data.depth + (IF opt.decompress THEN -1 ELSE 1) \in Int
      <4>1. lc.data.depth \in Int
        BY <2>1 DEF Files, Absent, File
      <4> QED BY <4>1
    <3>3. new \in Files /\ new.src = lc.data.src
      BY <3>1, <3>2 DEF File, Files
    <3> QED
      BY <3>3, NameFacts
  <2> HIDE DEF new
  <2>7. fs' \in [Names -> Files \cup {Absent}] /\ fs'[at] = new /\ \A m \in Names : m # at => fs'[m] = fs[m]
    BY <1>0, <2>0, <2>1, <2>6 DEF TypeOK
  <2> HIDE DEF at
  <2>8. TypeOK'
    BY <1>0, <2>2, <2>3, <2>4, <2>7 DEF TypeOK
  <2>9. TmpInv' /\ OutInv'
    BY <1>0, <2>1, <2>2, <2>3 DEF IInv, TmpInv, OutInv, Between, Before, Since
  <2>10. HandInv'
    BY <1>0, <2>0, <2>2, HandStays DEF Before, Since
  <2>11. WholeInv'
    BY <1>0, <2>2, <2>3, <2>7 DEF IInv, WholeInv
  <2>12. SourceInv'
    BY <2>3, <2>5, <2>6, <2>7 DEF IInv, SourceInv
  <2>13. LossInv'
    <3>1. ASSUME NEW n \in Sources, fs[at] # Absent, fs[at].src = n PROVE "force" \in cause'[n]
      BY <2>4, <3>1 DEF SrcAt
    <3> QED
      BY <1>0, <2>1, <2>3, <2>4, <2>7, <3>1, VanishKeepsLoss DEF IInv
  <2>14. DataInv'
    <3>1. InputKept'
      <4>1. CASE opt.stdin
        BY <1>0, <2>2, <2>3, <4>1 DEF InputKept
      <4>2. CASE ~opt.stdin
        <5>1. lc.data.src \in Sources /\ fs[lc.infile] = lc.data /\ lc.data.whole /\ lc.infile \in Names
          BY <1>0, <2>1, <4>2 DEF InputKept, IInv, HandInv, Before
        <5>2. CASE lc.infile = at
          <6>1. lc.data # Absent
            BY <5>1, NameFacts DEF Absent, File
          <6>2. "force" \in cause'[lc.data.src]
            BY <2>4, <5>1, <5>2, <6>1 DEF SrcAt
          <6> QED
            BY <2>2, <2>3, <4>2, <5>1, <5>2, <6>2 DEF InputKept
        <5>3. CASE lc.infile # at
          BY <2>2, <2>3, <2>7, <4>2, <5>1, <5>3 DEF InputKept
        <5> QED BY <5>2, <5>3
      <4> QED BY <4>1, <4>2
    <3> QED
      BY <2>2, <2>3, <2>6, <2>7, <3>1 DEF DataInv
  <2>15. NothingLeft'
    BY <2>3 DEF NothingLeft
  <2> QED
    BY <2>8, <2>9, <2>10, <2>11, <2>12, <2>13, <2>14, <2>15 DEF IInv
<1> QED
  BY <1>1, <1>2

\* The work on the data.
LEMMA WorkIInv == ASSUME IInv, Work PROVE IInv'
<1>0. pc = "work" /\ TypeOK /\ InputKept
  BY DEF Work, IInv, DataInv
<1>1. CASE Fatal
  BY <1>0, <1>1, FatalIInv
<1>2. CASE ~Fatal
  <2> DEFINE at == lc.outfile
  <2>0. /\ fs' = IF opt.stdout \/ opt.test THEN fs ELSE [fs EXCEPT ![at].whole = TRUE]
        /\ sent' = IF opt.stdout /\ ~opt.test /\ ~opt.stdin THEN sent \cup {lc.data.src} ELSE sent
        /\ GoTo("close") /\ UNCHANGED <<lc, tmp, cause>>
    BY <1>2 DEF Work
  <2>1. /\ pc' = "close" /\ UNCHANGED <<opt, args, list, exit, was>> /\ Sources' = Sources /\ exit' = "none"
    BY <1>0, <2>0, SourcesStay DEF GoTo, history, IInv, HandInv
  <2>2. /\ lc.mine => at \in Names /\ ~opt.stdout /\ ~opt.test /\ fs[at] # Absent
                      /\ fs[at].src = lc.data.src
        /\ lc.mine \/ opt.stdout \/ opt.test
        /\ ~lc.gone /\ lc.mine \in BOOLEAN
    BY <1>0, Records DEF IInv, OutInv, DataInv, Since
  <2>3. /\ fs' \in [Names -> Files \cup {Absent}]
        /\ \A m \in Names : fs[m] = Absent => fs'[m] = Absent
        /\ \A m \in Names : fs[m] # Absent => fs'[m] # Absent /\ fs'[m].src = fs[m].src /\ fs'[m].whole
        /\ \A m \in Names : ~(lc.mine /\ m = at) => fs'[m] = fs[m]
    <3>1. CASE ~lc.mine
      BY <1>0, <2>0, <2>2, <3>1 DEF IInv, TypeOK, WholeInv
    <3>2. CASE lc.mine
      <4>1. fs' = [fs EXCEPT ![at] = [fs[at] EXCEPT !.whole = TRUE]] /\ at \in Names
        BY <2>0, <2>2, <3>2
      <4>2. fs[at] \in Files
        BY <1>0, <2>2, <3>2, FileFacts
      <4>3. /\ [fs[at] EXCEPT !.whole = TRUE] \in Files
            /\ [fs[at] EXCEPT !.whole = TRUE].src = fs[at].src
            /\ [fs[at] EXCEPT !.whole = TRUE].whole
        BY <4>2 DEF Files
      <4>4. fs' \in [Names -> Files \cup {Absent}] /\ fs'[at] = [fs[at] EXCEPT !.whole = TRUE]
            /\ \A m \in Names : m # at => fs'[m] = fs[m]
        BY <1>0, <4>1, <4>3 DEF TypeOK
      <4>5. fs'[at] # Absent /\ fs'[at].src = fs[at].src /\ fs'[at].whole
        BY <4>3, <4>4, NameFacts
      <4>6. \A m \in Names : m # at /\ fs[m] # Absent => fs[m].whole
        BY <1>0 DEF IInv, WholeInv
      <4> QED
        BY <2>2, <3>2, <4>4, <4>5, <4>6
    <3> QED BY <2>2, <3>1, <3>2
  <2>4. sent' \subseteq Sources /\ sent \subseteq sent'
    BY <1>0, <2>0 DEF InputKept, TypeOK
  <2>5. TypeOK'
    BY <1>0, <2>0, <2>1, <2>3, <2>4 DEF TypeOK
  <2>6. TmpInv' /\ OutInv'
    BY <1>0, <2>0, <2>1, <2>2 DEF IInv, TmpInv, OutInv, Between, Before, Since
  <2>7. HandInv'
    BY <1>0, <2>0, HandStays DEF Before, Since
  <2>8. WholeInv'
    BY <2>3 DEF WholeInv
  <2>9. SourceInv'
    BY <2>1, <2>3 DEF IInv, SourceInv
  <2>10. LossInv'
    <3> SUFFICES ASSUME NEW n \in Sources
                 PROVE  \/ n \in sent'
                        \/ \E m \in Names : fs'[m] # Absent /\ fs'[m].whole /\ fs'[m].src = n
                        \/ cause[n] \cap {"force", "early", "late", "test"} # {}
      BY <2>0, <2>1 DEF LossInv, Held
    <3>1. \/ n \in sent
          \/ \E m \in Names : fs[m] # Absent /\ fs[m].whole /\ fs[m].src = n
          \/ cause[n] \cap {"force", "early", "late", "test"} # {}
      BY DEF IInv, LossInv, Held
    <3> QED
      BY <2>3, <2>4, <3>1
  <2>11. DataInv'
    <3>1. InputKept'
      <4>1. CASE opt.stdin
        BY <1>0, <2>0, <2>1, <4>1 DEF InputKept
      <4>2. CASE ~opt.stdin
        <5>1. lc.infile \in Names
          BY <1>0, <4>2 DEF IInv, HandInv, Since
        <5> QED
          BY <1>0, <2>0, <2>1, <2>3, <4>2, <5>1 DEF InputKept
      <4> QED BY <4>1, <4>2
    <3>2. lc.mine => fs'[at] # Absent /\ fs'[at].src = lc.data.src
      BY <2>2, <2>3
    <3>3. opt.stdout /\ ~opt.test /\ ~opt.stdin => lc.data.src \in sent'
      BY <2>0
    <3> QED
      BY <2>0, <2>1, <3>1, <3>2, <3>3 DEF DataInv
  <2>12. NothingLeft'
    BY <2>1 DEF NothingLeft
  <2> QED
    BY <2>5, <2>6, <2>7, <2>8, <2>9, <2>10, <2>11, <2>12 DEF IInv
<1> QED
  BY <1>1, <1>2

\* The closes.
LEMMA CloseIInv == ASSUME IInv, Close PROVE IInv'
<1>0. pc = "close" /\ TypeOK /\ InputKept
  BY DEF Close, IInv, DataInv
<1>1. CASE Fatal
  BY <1>0, <1>1, FatalIInv
<1>2. CASE GoTo(IF opt.keep \/ opt.stdin THEN "release" ELSE "unlink") /\ UNCHANGED <<lc, fs, tmp, sent, cause>>
  <2>0. PICK to \in {"release", "unlink"} : GoTo(to) /\ (to = "unlink" => ~opt.stdin)
    BY <1>2
  <2>1. pc' = to /\ opt' = opt /\ was' = was
    BY <2>0 DEF GoTo, history
  <2>2. TypeOK' /\ HandInv' /\ Sources' = Sources /\ SourceInv' /\ LossInv' /\ NothingLeft' /\ WholeInv'
    <3>1. lc' \in LocalType /\ tmp' \subseteq {"in", "out"}
      BY <1>0, <1>2 DEF TypeOK
    <3> QED
      BY <1>0, <1>2, <2>0, <3>1, QuietGoTo DEF Before, Since
  <2>3. TmpInv' /\ OutInv'
    BY <1>0, <1>2, <2>1 DEF IInv, TmpInv, OutInv, Between, Before, Since
  <2>4. InputKept'
    BY <1>0, <1>2, <2>1, InputStays
  <2>5. DataInv'
    BY <1>0, <1>2, <2>1, <2>4 DEF IInv, DataInv
  <2> QED
    BY <2>2, <2>3, <2>5 DEF IInv
<1> QED
  BY <1>1, <1>2 DEF Close

\* The unlink of the input: what it held is complete elsewhere, or blamed.
LEMMA UnlinkInputIInv == ASSUME IInv, UnlinkInput PROVE IInv'
<1>0. pc = "unlink" /\ TypeOK /\ InputKept /\ ~opt.stdin
  BY DEF UnlinkInput, IInv, DataInv, HandInv
<1>1. CASE Fatal
  BY <1>0, <1>1, FatalIInv
<1>2. CASE ~Fatal
  <2> DEFINE at == lc.infile
  <2>0. /\ fs' = [fs EXCEPT ![at] = Absent] /\ lc' = [lc EXCEPT !.gone = TRUE]
        /\ IF opt.test THEN Blame(SrcAt(at), {"test"}) ELSE UNCHANGED cause
        /\ GoTo("release") /\ UNCHANGED <<tmp, sent>>
    BY <1>2 DEF UnlinkInput
  <2>1. /\ pc' = "release" /\ UNCHANGED <<opt, args, list, exit, was>> /\ Sources' = Sources /\ exit' = "none"
    BY <1>0, <2>0, SourcesStay DEF GoTo, history, IInv, HandInv
  <2>2. /\ lc \in LocalType /\ at \in Names /\ lc.mine \in BOOLEAN
        /\ lc.mine => lc.outfile \in Names /\ fs[lc.outfile] # Absent /\ fs[lc.outfile].src = lc.data.src
        /\ ~lc.mine => opt.stdout \/ opt.test
        /\ opt.stdout /\ ~opt.test => lc.data.src \in sent
    BY <1>0, Records DEF IInv, HandInv, OutInv, DataInv, Since
  <2>3. /\ lc' \in LocalType /\ lc'.gone
        /\ lc'.data = lc.data /\ lc'.infile = lc.infile /\ lc'.outfile = lc.outfile /\ lc'.stdout = lc.stdout
        /\ lc'.test = lc.test /\ lc'.mine = lc.mine
    BY <2>0, <2>2 DEF LocalType
  <2>4. fs' \in [Names -> Files \cup {Absent}] /\ fs'[at] = Absent /\ \A m \in Names : m # at => fs'[m] = fs[m]
    BY <1>0, <2>0, <2>2 DEF TypeOK
  <2>5. /\ cause' \in [Sources -> SUBSET Causes]
        /\ \A n \in Sources : cause[n] \subseteq cause'[n]
        /\ opt.test => \A n \in Sources : n \in SrcAt(at) => "test" \in cause'[n]
    <3>1. CASE opt.test
      <4>1. {"test"} \in SUBSET Causes /\ Blame(SrcAt(at), {"test"})
        BY <2>0, <3>1 DEF Causes
      <4> QED
        BY <1>0, <2>1, <4>1, BlameFacts
    <3>2. CASE ~opt.test
      BY <1>0, <2>0, <3>2 DEF TypeOK
    <3> QED BY <3>1, <3>2
  <2>6. ASSUME NEW n \in Sources, fs[at] # Absent, fs[at].src = n
        PROVE  \/ cause'[n] \cap {"force", "early", "late", "test"} # {}
               \/ n \in sent'
               \/ \E m \in Names : m # at /\ fs[m] # Absent /\ fs[m].whole /\ fs[m].src = n
    <3>1. CASE opt.test
      BY <2>5, <2>6, <3>1 DEF SrcAt
    <3>2. CASE ~opt.test /\ lc.mine /\ at = lc.outfile
      <4>1. lc.data.src = n /\ "force" \in cause[n]
        BY <1>0, <2>2, <2>6, <3>2 DEF InputKept
      <4> QED
        BY <2>5, <4>1
    <3>3. CASE ~opt.test /\ lc.mine /\ at # lc.outfile
      <4>1. fs[at] = lc.data
        BY <1>0, <3>3 DEF InputKept
      <4>2. fs[lc.outfile].whole
        BY <1>0, <2>2, <3>3 DEF IInv, WholeInv
      <4> QED
        BY <2>2, <2>6, <3>3, <4>1, <4>2
    <3>4. CASE ~opt.test /\ ~lc.mine
      <4>1. fs[at] = lc.data
        BY <1>0, <3>4 DEF InputKept
      <4> QED
        BY <2>0, <2>2, <2>6, <3>4, <4>1
    <3> QED BY <2>2, <3>1, <3>2, <3>3, <3>4
  <2>7. LossInv'
    <3> HIDE DEF at
    <3>1. LossInv /\ sent' = sent
      BY <2>0 DEF IInv
    <3> QED
      BY <1>0, <2>1, <2>2, <2>4, <2>5, <2>6, <3>1, VanishKeepsLoss
  <2>8. TypeOK'
    BY <1>0, <2>0, <2>1, <2>3, <2>4, <2>5 DEF TypeOK
  <2>9. TmpInv' /\ OutInv'
    BY <1>0, <2>0, <2>1, <2>3 DEF IInv, TmpInv, OutInv, Between, Before, Since
  <2>10. HandInv'
    BY <1>0, <2>0, <2>3, HandStays DEF Before, Since
  <2>11. WholeInv' /\ SourceInv'
    BY <1>0, <2>1, <2>4 DEF IInv, WholeInv, SourceInv
  <2>12. DataInv'
    BY <2>1, <2>3 DEF DataInv
  <2>13. NothingLeft'
    BY <2>1 DEF NothingLeft
  <2> QED
    BY <2>7, <2>8, <2>9, <2>10, <2>11, <2>12, <2>13 DEF IInv
<1> QED
  BY <1>1, <1>2

\* The end of a file.
LEMMA ReleaseIInv == ASSUME IInv, Release PROVE IInv'
<1>0. /\ pc = "release" /\ lc' = [lc EXCEPT !.outfile = None] /\ UNCHANGED <<fs, tmp, sent, cause>>
      /\ pc' \in {"loop", "entry"} /\ UNCHANGED <<opt, args, list, exit, was>> /\ TypeOK
  BY DEF Release, GoTo, history, IInv
<1>1. lc' \in LocalType /\ lc'.outfile = None
  BY <1>0 DEF TypeOK, LocalType
<1>2. /\ Sources' = Sources /\ SourceInv' /\ LossInv' /\ NothingLeft' /\ WholeInv' /\ exit' = "none"
  BY <1>0, Quiet
<1>3. TypeOK'
  BY <1>0, <1>1, <1>2 DEF TypeOK
<1>4. TmpInv' /\ OutInv'
  BY <1>0, <1>1 DEF IInv, TmpInv, OutInv, Between, Before, Since
<1>5. HandInv'
  BY <1>0, <1>2 DEF IInv, HandInv, Before, Since
<1>6. DataInv'
  BY <1>0 DEF DataInv
<1> QED
  BY <1>2, <1>3, <1>4, <1>5, <1>6 DEF IInv

\* get_fileinfo.
LEMMA InfoIInv == ASSUME IInv, Info PROVE IInv'
<1>0. pc = "info" /\ TypeOK
  BY DEF Info, IInv
<1>1. CASE Fatal
  BY <1>0, <1>1, FatalIInv
<1>2. CASE GoTo("release") /\ UNCHANGED <<lc, fs, tmp, sent, cause>>
  <2>1. pc' = "release" /\ opt' = opt /\ ~lc.mine /\ ~lc.gone /\ lc.outfile = None
    BY <1>0, <1>2 DEF GoTo, IInv, OutInv, Before
  <2>2. TypeOK' /\ HandInv' /\ Sources' = Sources /\ SourceInv' /\ LossInv' /\ NothingLeft' /\ WholeInv'
    <3>1. lc' \in LocalType /\ tmp' \subseteq {"in", "out"}
      BY <1>0, <1>2 DEF TypeOK
    <3> QED
      BY <1>0, <1>2, <3>1, QuietGoTo DEF Before, Since
  <2>3. TmpInv' /\ OutInv' /\ DataInv'
    BY <1>0, <1>2, <2>1 DEF IInv, TmpInv, OutInv, DataInv, Between, Before, Since
  <2> QED
    BY <2>2, <2>3 DEF IInv
<1> QED
  BY <1>1, <1>2 DEF Info

----------------------------------------------------------------------------
\* A run starts with an arbitrary file system and the flags of its name and of lrzip.conf.
LEMMA InitIInv == ASSUME Init PROVE IInv
<1>0. PICK name \in Programs, conf \in Configs : opt = ReadConfig(Program(name), conf)
  BY DEF Init
<1>1. opt \in OptType /\ ~opt.stdin
  <2>1. PICK o : o = Program(name)
    OBVIOUS
  <2>2. o \in OptType /\ o.stdin = FALSE
    <3>1. /\ (name \in {"lrunzip", "lrzcat"}) \in BOOLEAN /\ (name = "lrzcat") \in BOOLEAN
          /\ (name = "lrz") \in BOOLEAN /\ (name # "lrz") \in BOOLEAN
      OBVIOUS
    <3>2. ASSUME NEW d \in BOOLEAN, NEW z \in BOOLEAN, NEW c \in BOOLEAN, NEW k \in BOOLEAN,
                 NEW r, r = [decompress |-> d, stdout |-> z, lrzcat |-> z, compat |-> c, keep |-> k,
                   broken |-> FALSE, force |-> FALSE, test |-> FALSE, info |-> FALSE, stdin |-> FALSE,
                   recurse |-> FALSE, outname |-> None, outdir |-> ""]
          PROVE  r \in OptType /\ r.stdin = FALSE
      BY <3>2 DEF OptType
    <3> QED
      BY <2>1, <3>1, <3>2, Zenon DEF Program
  <2>3. PICK p : p = [o EXCEPT !.broken = @ \/ "keepbroken" \in conf]
    OBVIOUS
  <2>4. p \in OptType /\ p.stdin = FALSE
    BY <2>2, <2>3 DEF OptType
  <2>5. PICK q : q = [p EXCEPT !.keep = @ /\ "DELETEFILES" \notin conf]
    OBVIOUS
  <2>6. q \in OptType /\ q.stdin = FALSE
    BY <2>4, <2>5 DEF OptType
  <2>7. opt = [q EXCEPT !.force = @ \/ "REPLACEFILE" \in conf]
    BY <1>0, <2>1, <2>3, <2>5 DEF ReadConfig
  <2> QED
    BY <2>6, <2>7 DEF OptType
<1>2. lc \in LocalType /\ lc.outfile = None
  BY DEF Init, NoLocal, LocalType
<1>3. fs \in [Names -> Files \cup {Absent}] /\ was = fs
      /\ \A n \in Names : fs[n] # Absent => fs[n].src = n /\ fs[n].whole
  BY InitsAssumption DEF Init
<1>4. args \in Seq(Names \cup DirArgs \cup {Stdin})
  BY ArgsAssumption DEF Init
<1>5. /\ args \in Seq(Names \cup DirArgs \cup {Stdin, None})
      /\ \A k \in 1..Len(args) : args[k] # None
  <2>1. None \notin Names \cup DirArgs \cup {Stdin}
    <3>1. \A d \in Dirs : DirArg(d) # None
      BY NamesAssumption DEF DirArg, None
    <3> QED
      BY <3>1, NameFacts DEF DirArgs
  <2>2. Names \cup DirArgs \cup {Stdin} \subseteq Names \cup DirArgs \cup {Stdin, None}
    OBVIOUS
  <2> QED
    BY <1>4, <2>1, <2>2
<1>6. TypeOK
  BY <1>1, <1>2, <1>3, <1>5 DEF Init, TypeOK
<1>7. TmpInv /\ WholeInv /\ OutInv /\ DataInv /\ NothingLeft
  BY <1>2, <1>3 DEF Init, TmpInv, WholeInv, OutInv, DataInv, NothingLeft, Between, Before, Since
<1>8. HandInv
  BY <1>1, <1>5 DEF Init, HandInv, Before, Since
<1>9. SourceInv /\ LossInv
  BY <1>3 DEF SourceInv, LossInv, Held, Sources
<1> QED
  BY <1>6, <1>7, <1>8, <1>9 DEF IInv

\* Every step keeps the inductive invariant.
LEMMA NextIInv == ASSUME IInv, [Next]_vars PROVE IInv'
<1>1. CASE UNCHANGED vars
  BY <1>1 DEF vars, IInv, TypeOK, TmpInv, WholeInv, SourceInv, HandInv, OutInv, DataInv, InputKept,
              LossInv, NothingLeft, Held, Sources
<1>2. ASSUME NEW c \in Options, ParseOption(c) PROVE IInv'
  BY <1>2, ParseOptionIInv
<1>3. CASE EndOptions
  BY <1>3, EndOptionsIInv
<1>4. CASE NextArg
  BY <1>4, NextArgIInv
<1>5. CASE Finish
  BY <1>5, PlainExitIInv DEF Finish, Between
<1>6. ASSUME NEW n \in list, Entry(n) PROVE IInv'
  BY <1>6, EntryIInv
<1>7. CASE Terminal
  BY <1>7, PlainExitIInv DEF Terminal, Between
<1>8. CASE CompressOpen
  BY <1>8, CompressOpenIInv
<1>9. CASE CompressName
  BY <1>9, CompressNameIInv
<1>10. CASE DecompressName
  BY <1>10, DecompressNameIInv
<1>11. CASE DecompressOpen
  BY <1>11, DecompressOpenIInv
<1>12. ASSUME NEW which \in {"in", "out"}, Mkstemp(which) \/ Register(which) \/ UnlinkTmp(which) PROVE IInv'
  BY <1>12, MkstempIInv, RegisterIInv, UnlinkTmpIInv
<1>13. CASE Create
  BY <1>13, CreateIInv
<1>14. CASE Work
  BY <1>14, WorkIInv
<1>15. CASE SoftFailure
  BY <1>15, PlainExitIInv DEF SoftFailure
<1>16. CASE Close
  BY <1>16, CloseIInv
<1>17. CASE UnlinkInput
  BY <1>17, UnlinkInputIInv
<1>18. CASE Release
  BY <1>18, ReleaseIInv
<1>19. CASE Info
  BY <1>19, InfoIInv
<1>20. CASE Interrupt
  BY <1>20, InterruptIInv
<1>21. CASE Exited
  BY <1>1, <1>21 DEF Exited
<1> QED
  BY <1>1, <1>2, <1>3, <1>4, <1>5, <1>6, <1>7, <1>8, <1>9, <1>10, <1>11, <1>12, <1>13, <1>14, <1>15,
     <1>16, <1>17, <1>18, <1>19, <1>20, <1>21 DEF Next

\* The inductive invariant holds throughout.
LEMMA SpecIInv == Spec => []IInv
BY InitIInv, NextIInv, PTL DEF Spec

\* No file of the start is lost without one of the four known causes: at every instant of
\* every run, whichever call fails and whenever a signal arrives, what it held is there,
\* is in a complete output, or went to stdout in full.
THEOREM NoSilentLoss == Spec => []LossIsKnown
<1>1. IInv => LossIsKnown
  BY DEF IInv, LossInv, LossIsKnown
<1> QED
  BY <1>1, SpecIInv, PTL

\* fatal_exit and the normal end leave no temporary file behind, and no unfinished output
\* unless broken files are to be kept.
THEOREM CleanExit == Spec => []NothingLeft
<1>1. IInv => NothingLeft
  BY DEF IInv
<1> QED
  BY <1>1, SpecIInv, PTL
----------------------------------------------------------------------------
(* What an exit status of 0 says. *)

\* From the open of the input to its unlink.
Opened == {"c_name", "create", "mkstemp_out", "register_out", "unlink_out", "work", "close", "unlink"}
Hand == Before \cup Since

\* The files of the start have their own names as source and are complete.
WasInv == \A n \in Names : was[n] # Absent => was[n].src = n /\ was[n].whole /\ was[n].depth \in Int

\* What a conversion does to the depth, and what has been converted.
Shift == IF opt.decompress THEN -1 ELSE 1
Beyond(n, d) == IF opt.decompress THEN d < was[n].depth ELSE d > was[n].depth
New(x) == fs[x] # Absent /\ fs[x] # was[x]

\* Nothing happens before the options are known.
StartInv == pc = "options" => fs = was /\ args = argv /\ list = {}

\* With -o there is one argument, no directory, and one file.
OneInv ==
  opt.outname # None /\ pc # "options" =>
    /\ ~opt.recurse
    /\ \/ pc = "loop" /\ list = {} /\ Len(args) <= 1 /\ (args # <<>> => fs = was)
       \/ pc = "entry" /\ args = <<>> /\ (\E a \in list : list = {a}) /\ fs = was
       \/ pc \in Before /\ args = <<>> /\ list = {} /\ fs = was
       \/ pc \in Since /\ args = <<>> /\ list = {}

\* What this run has made was converted at least once.
DepthInv ==
  /\ \A x \in Names : New(x) /\ fs[x].src \in Sources => Beyond(fs[x].src, fs[x].depth)
  /\ pc \in Opened /\ lc.data.src \in Sources =>
       lc.data.depth = was[lc.data.src].depth \/ Beyond(lc.data.src, lc.data.depth)

\* Without -o an output is known by its name: it has the suffix, or has it not, and
\* is in the output directory.
Destination == <<IF opt.outdir # "" THEN opt.outdir ELSE lc.infile[1], lc.infile[2], ~opt.decompress>>
NameInv ==
  opt.outname = None =>
    \A x \in Names : New(x) => x[3] = ~opt.decompress /\ (opt.outdir # "" => x[1] = opt.outdir)

\* Which way the file in hand takes.
WayInv ==
  /\ pc \in Hand => (opt.stdout <=> StdoutNow)
  /\ ~opt.stdin /\ StdoutNow => \A x \in Names : ~New(x)
  /\ pc \in {"c_in", "c_name"} => ~opt.decompress
  /\ pc \in {"d_name", "d_in", "mkstemp_in", "register_in", "unlink_in"} => opt.decompress
  /\ pc \in {"mkstemp_in", "register_in", "unlink_in"} => opt.stdin
  /\ pc \in {"d_in", "create"} /\ opt.outname = None /\ ~opt.stdout => lc.outfile = Destination
  /\ pc # "info" /\ (pc = "unlink" => ~opt.keep)

\* The input is a file of the start, or -f replaces it by its own output; the output
\* is not complete before the work is done.
InputInv ==
  /\ ~opt.stdin /\ pc \in Opened =>
       \/ fs[lc.infile] = was[lc.infile] /\ lc.data = was[lc.infile]
       \/ lc.infile = lc.outfile /\ pc = "create" /\ lc.data = fs[lc.infile]
       \/ lc.infile = lc.outfile /\ lc.mine /\ "force" \in cause[lc.data.src]
  /\ pc = "work" /\ lc.mine => ~fs[lc.outfile].whole

\* A file that was named is still to come, in hand, or done.
Converted(n) == n \in sent \/ \E m \in Names : fs[m] = File(n, was[n].depth + Shift, TRUE)
Waiting(n) ==
  /\ fs[n] = was[n] /\ ~(pc \in Hand /\ lc.infile = n)
  /\ n \in list \/ \E k \in 1 .. Len(args) : args[k] \in {n, DirArg(n[1])}
InHand(n) ==
  /\ lc.infile = n /\ fs[n] = was[n] /\ ~opt.stdin
  /\ \/ pc \in {"c_in", "d_name", "d_in"}
     \/ /\ pc \in Opened /\ lc.data = was[n]
        /\ pc = "work" /\ lc.mine => fs[lc.outfile] = File(n, was[n].depth + Shift, FALSE)
        /\ pc \in {"close", "unlink"} => Converted(n)
Done(n) == Converted(n) /\ IF opt.keep THEN fs[n] = was[n] ELSE fs[n] # was[n]
ProgressInv == \A n \in Named : cause[n] = {} => Waiting(n) \/ InHand(n) \/ Done(n)

Live == pc # "exit" /\ ~opt.test /\ ~opt.info
Tracked == StartInv /\ OneInv /\ DepthInv /\ NameInv /\ WayInv /\ InputInv /\ ProgressInv
DInv == Live => Tracked

\* An option comes before everything else.
LEMMA ParseOptionDone ==
  ASSUME IInv, Tracked, NEW c \in Options, ParseOption(c), pc' # "exit"
  PROVE  Tracked'
<1>1. /\ pc = "options" /\ pc' = "options"
      /\ UNCHANGED <<args, list, lc, fs, sent, was, argv, cause>>
  BY DEF ParseOption, PlainExit, Leave, history
<1>2. fs = was /\ args = argv /\ list = {} /\ args \in Seq(Names \cup DirArgs \cup {Stdin, None})
  BY <1>1 DEF Tracked, StartInv, IInv, TypeOK
<1>3. StartInv' /\ OneInv' /\ DepthInv' /\ NameInv' /\ InputInv'
  BY <1>1, <1>2 DEF StartInv, OneInv, DepthInv, NameInv, InputInv, New, Opened
<1>4. WayInv'
  BY <1>1, <1>2 DEF WayInv, New, Hand, Before, Since
<1>5. ProgressInv'
  BY <1>1, <1>2 DEF ProgressInv, Named, Sources, Waiting, Hand, Before, Since
<1> QED
  BY <1>3, <1>4, <1>5 DEF Tracked

LEMMA EndOptionsDone ==
  ASSUME IInv, Tracked, EndOptions, pc' # "exit"
  PROVE  Tracked'
<1>1. /\ pc = "options" /\ pc' = "loop" /\ opt' = [opt EXCEPT !.stdin = args = <<>>]
      /\ ~(opt.outname # None /\ (Len(args) > 1 \/ opt.recurse))
      /\ args' = IF args = <<>> THEN <<None>> ELSE args
      /\ UNCHANGED <<list, lc, fs, sent, was, argv, cause>>
  BY DEF EndOptions, PlainExit, Leave, history
<1>2. fs = was /\ args = argv /\ list = {} /\ args \in Seq(Names \cup DirArgs \cup {Stdin, None})
  BY <1>1 DEF Tracked, StartInv, IInv, TypeOK
<1>3. opt'.outname = opt.outname /\ opt'.recurse = opt.recurse
  BY <1>1, Records DEF IInv, OptType
<1>4. StartInv' /\ DepthInv' /\ NameInv' /\ InputInv'
  BY <1>1, <1>2 DEF StartInv, DepthInv, NameInv, InputInv, New, Opened
<1>5. OneInv'
  <2>1. Len(args) \in Nat /\ Len(<<None>>) = 1
    BY <1>2
  <2>2. opt.outname # None => Len(args') <= 1
    BY <1>1, <2>1
  <2> QED
    BY <1>1, <1>2, <1>3, <2>2 DEF OneInv
<1>6. WayInv'
  BY <1>1, <1>2 DEF WayInv, New, Hand, Before, Since
<1>7. ProgressInv'
  <2>1. CASE args = <<>>
    BY <1>1, <1>2, <2>1 DEF ProgressInv, Named
  <2>2. CASE args # <<>>
    BY <1>1, <1>2, <2>2 DEF ProgressInv, Named, Sources, Waiting, Hand, Before, Since
  <2> QED
    BY <2>1, <2>2
<1> QED
  BY <1>4, <1>5, <1>6, <1>7 DEF Tracked

\* What depends only on the files and on flags that stay.
LEMMA FilesStay ==
  ASSUME Tracked, UNCHANGED <<fs, was, argv, sent>>, opt'.decompress = opt.decompress,
         opt'.outname = opt.outname, opt'.outdir = opt.outdir, opt'.keep = opt.keep
  PROVE  /\ Sources' = Sources /\ Named' = Named /\ NameInv'
         /\ \A x \in Names : New(x) /\ fs[x].src \in Sources => Beyond(fs[x].src, fs[x].depth)
         /\ \A n, d : Beyond(n, d)' <=> Beyond(n, d)
         /\ \A x : New(x)' <=> New(x)
         /\ \A n : Converted(n)' <=> Converted(n)
         /\ \A n : Done(n)' <=> Done(n)
<1>1. Sources' = Sources /\ Named' = Named
  BY DEF Sources, Named
<1>2. NameInv'
  BY DEF Tracked, NameInv, New
<1>3. /\ \A n, d : Beyond(n, d)' <=> Beyond(n, d)
      /\ \A x : New(x)' <=> New(x)
  BY DEF Beyond, New
<1>4. \A n : Converted(n)' <=> Converted(n)
  BY DEF Converted, Shift
<1>5. \A n : Done(n)' <=> Done(n)
  BY <1>4 DEF Done
<1> QED
  BY <1>1, <1>2, <1>3, <1>4, <1>5 DEF Tracked, DepthInv

\* The next argument: what it stands for is in the list.
LEMMA NextArgDone ==
  ASSUME IInv, Tracked, NextArg, pc' # "exit"
  PROVE  Tracked'
<1> DEFINE a == Head(args)
<1>1. /\ pc = "loop" /\ list = {} /\ args # <<>>
      /\ ~(a \in Names /\ (fs[a] = Absent \/ opt.recurse)) /\ ~(a \in DirArgs /\ ~opt.recurse)
      /\ opt' = [opt EXCEPT !.stdin = opt.stdin \/ a = Stdin]
      /\ list' = IF a \in DirArgs THEN RecurseDirlist(a[1]) ELSE {a}
      /\ args' = Tail(args) /\ pc' = IF list' = {} THEN "loop" ELSE "entry"
      /\ UNCHANGED <<lc, fs, sent, was, argv, cause>>
  BY DEF NextArg, PlainExit, Leave, history
<1>2. /\ args \in Seq(Names \cup DirArgs \cup {Stdin, None}) /\ Len(args) \in Nat /\ Len(args) > 0
      /\ Len(args') = Len(args) - 1 /\ a = args[1]
      /\ \A k \in 1 .. Len(args) - 1 : args'[k] = args[k + 1]
  BY <1>1 DEF IInv, TypeOK
<1>3. /\ opt'.decompress = opt.decompress /\ opt'.outname = opt.outname /\ opt'.outdir = opt.outdir
      /\ opt'.keep = opt.keep /\ opt'.recurse = opt.recurse /\ opt'.stdout = opt.stdout
      /\ opt'.lrzcat = opt.lrzcat /\ opt'.stdin = (opt.stdin \/ a = Stdin)
  <2>1. PICK b : b = (opt.stdin \/ a = Stdin) /\ opt' = [opt EXCEPT !.stdin = b]
    BY <1>1
  <2>2. opt \in OptType
    BY Records DEF IInv
  <2> QED
    BY <2>1, <2>2 DEF OptType
<1>4. pc' \in {"loop", "entry"}
  BY <1>1
<1>5. StartInv' /\ InputInv' /\ DepthInv' /\ NameInv'
  BY <1>1, <1>3, <1>4, FilesStay DEF StartInv, InputInv, DepthInv, Opened
<1>6. OneInv'
  <2> SUFFICES ASSUME opt'.outname # None
               PROVE  /\ ~opt'.recurse /\ pc' = "entry" /\ args' = <<>>
                      /\ (\E x \in list' : list' = {x}) /\ fs' = was'
    BY DEF OneInv
  <2>1. ~opt.recurse /\ Len(args) <= 1 /\ fs = was
    BY <1>1, <1>3 DEF Tracked, OneInv, Before, Since
  <2>2. list' = {a} /\ pc' = "entry"
    BY <1>1, <2>1
  <2>3. args' = <<>>
    <3>1. Len(args') = 0 /\ args' \in Seq(Names \cup DirArgs \cup {Stdin, None})
      BY <1>1, <1>2, <2>1
    <3> QED
      BY <3>1
  <2> HIDE DEF a
  <2> QED
    BY <1>1, <1>3, <2>1, <2>2, <2>3
<1>7. WayInv'
  <2>1. ~opt'.stdin => (StdoutNow' <=> StdoutNow) /\ ~opt.stdin
    BY <1>3 DEF StdoutNow
  <2>2. \A x \in Names : New(x)' <=> New(x)
    BY <1>1, <1>3, FilesStay
  <2> QED
    BY <1>4, <2>1, <2>2 DEF Tracked, WayInv, Hand, Before, Since
<1>8. ProgressInv'
  <2> SUFFICES ASSUME NEW n \in Named, cause[n] = {}
               PROVE  Waiting(n)' \/ Done(n)'
    BY <1>1, <1>3, FilesStay DEF ProgressInv
  <2>1. Waiting(n) \/ Done(n)
    BY <1>1 DEF Tracked, ProgressInv, InHand, Opened
  <2>2. n \in Names /\ fs[n] = was[n] => fs[n] # Absent
    BY DEF Named, Sources
  <2>3. n \in Names /\ n[1] \in Dirs
    BY NameFacts DEF Named, Sources
  <2>4. ASSUME Waiting(n)
        PROVE  Waiting(n)'
    <3>1. PICK k \in 1 .. Len(args) : args[k] \in {n, DirArg(n[1])}
      BY <1>1, <2>4 DEF Waiting
    <3>2. CASE k = 1
      <4>1. CASE a = n
        BY <1>1, <1>4, <2>3, <2>4, <4>1 DEF Waiting, Hand, Before, Since
      <4>2. CASE a = DirArg(n[1])
        <5>1. a \in DirArgs /\ a[1] = n[1]
          <6>1. DirArg(n[1]) \in DirArgs
            BY <2>3 DEF DirArgs
          <6>2. DirArg(n[1])[1] = n[1]
            BY DEF DirArg
          <6> QED
            BY <4>2, <6>1, <6>2
        <5>2. n \in list'
          BY <1>1, <2>2, <2>3, <2>4, <5>1 DEF RecurseDirlist, Waiting
        <5> QED
          BY <1>1, <1>4, <2>4, <5>2 DEF Waiting, Hand, Before, Since
      <4> QED
        BY <1>2, <3>1, <3>2, <4>1, <4>2
    <3>3. CASE k # 1
      <4>1. k - 1 \in 1 .. Len(args') /\ k - 1 \in 1 .. Len(args) - 1 /\ (k - 1) + 1 = k
        BY <1>2, <3>3
      <4>2. args'[k - 1] \in {n, DirArg(n[1])}
        BY <1>2, <3>1, <4>1
      <4> QED
        BY <1>1, <1>4, <2>4, <4>1, <4>2 DEF Waiting, Hand, Before, Since
    <3> QED
      BY <3>2, <3>3
  <2>5. Done(n) => Done(n)'
    BY <1>1, <1>3, FilesStay
  <2> QED
    BY <2>1, <2>4, <2>5
<1> QED
  BY <1>5, <1>6, <1>7, <1>8 DEF Tracked

\* A file of the list is in hand.
LEMMA EntryDone ==
  ASSUME IInv, Live, Tracked, NEW f \in list, Entry(f)
  PROVE  Tracked'
<1>1. /\ pc = "entry" /\ pc' = (IF opt.decompress THEN "d_name" ELSE "c_in")
      /\ opt' = [opt EXCEPT !.stdout = StdoutNow] /\ lc'.infile = f /\ list' = list \ {f}
      /\ UNCHANGED <<args, fs, sent, was, argv>>
      /\ IF opt.stdin /\ f \in Sources THEN Blame({f}, {"sticky"}) ELSE UNCHANGED cause
  <2>1. lc' = [NoLocal EXCEPT !.infile = f, !.broken = opt.broken, !.stdout = StdoutNow, !.test = opt.test]
    BY DEF Entry
  <2>2. lc'.infile = f
    BY <2>1 DEF NoLocal
  <2> QED
    BY <2>2 DEF Entry, Live, history
<1>2. /\ opt'.decompress = opt.decompress /\ opt'.outname = opt.outname /\ opt'.outdir = opt.outdir
      /\ opt'.keep = opt.keep /\ opt'.recurse = opt.recurse /\ opt'.stdout = StdoutNow
      /\ opt'.lrzcat = opt.lrzcat /\ opt'.stdin = opt.stdin
  <2>1. opt \in OptType
    BY Records DEF IInv
  <2> QED
    BY <1>1, <2>1 DEF OptType
<1>3. pc' \in {"d_name", "c_in"}
  BY <1>1
<1>4. StartInv' /\ InputInv' /\ DepthInv' /\ NameInv'
  BY <1>1, <1>2, <1>3, FilesStay DEF StartInv, InputInv, DepthInv, Opened
<1>5. OneInv'
  BY <1>1, <1>2, <1>3 DEF Tracked, OneInv, Before, Since
<1>6. WayInv'
  <2>1. StdoutNow' <=> StdoutNow
    BY <1>2 DEF StdoutNow
  <2>2. \A x \in Names : New(x)' <=> New(x)
    BY <1>1, <1>2, FilesStay
  <2> QED
    BY <1>1, <1>2, <2>1, <2>2 DEF Tracked, WayInv, Hand, Before, Since
<1>7. ProgressInv'
  <2> SUFFICES ASSUME NEW n \in Named, cause'[n] = {}
               PROVE  Waiting(n)' \/ InHand(n)' \/ Done(n)'
    BY <1>1, <1>2, FilesStay DEF ProgressInv
  <2>1. n \in Sources
    BY DEF Named
  <2>2. cause[n] = {} /\ (n = f => ~opt.stdin)
    <3>1. CASE opt.stdin /\ f \in Sources
      <4>1. Blame({f}, {"sticky"}) /\ {"sticky"} \in SUBSET Causes /\ TypeOK /\ was' = was
        BY <1>1, <3>1 DEF Causes, IInv
      <4>2. cause[n] \subseteq cause'[n] /\ (n \in {f} => {"sticky"} \subseteq cause'[n])
        BY <2>1, <4>1, BlameFacts
      <4> QED
        BY <4>2
    <3>2. CASE ~(opt.stdin /\ f \in Sources)
      BY <1>1, <2>1, <3>2
    <3> QED
      BY <3>1, <3>2
  <2>3. Waiting(n) \/ Done(n)
    BY <1>1, <2>2 DEF Tracked, ProgressInv, InHand, Opened
  <2>4. CASE n = f /\ fs[n] = was[n]
    BY <1>1, <1>2, <1>3, <2>2, <2>4 DEF InHand
  <2>5. CASE n # f /\ Waiting(n)
    BY <1>1, <2>5 DEF Waiting
  <2>6. CASE Done(n)
    BY <1>1, <1>2, <2>6, FilesStay
  <2> QED
    BY <2>3, <2>4, <2>5, <2>6 DEF Waiting
<1> QED
  BY <1>4, <1>5, <1>6, <1>7 DEF Tracked

\* A step with the file in hand that leaves the files and the input alone.
LEMMA HandGoes ==
  ASSUME IInv, Tracked, pc \in Hand, NEW to \in Hand, GoTo(to), UNCHANGED <<fs, sent, cause>>,
         lc'.infile = lc.infile, to \in Before => pc \in Before,
         to = "work" => ~lc'.mine,
         to \in Opened /\ pc # "d_in" /\ pc # "c_in" =>
            /\ pc \in Opened /\ lc'.data = lc.data /\ ~lc.mine /\ pc # "create",
         pc # "close" /\ pc # "unlink" /\ to # "close" /\ to # "unlink" /\ to # "release",
         to # "info", to = "c_name" => pc = "c_in", to # "c_in",
         to \in {"d_name", "d_in", "mkstemp_in", "register_in", "unlink_in"} =>
            pc \in {"d_name", "mkstemp_in", "register_in", "unlink_in"},
         to \in {"mkstemp_in", "register_in", "unlink_in"} => opt.stdin,
         to \in {"d_in", "create"} /\ opt.outname = None /\ ~opt.stdout => lc'.outfile = Destination,
         pc \in {"c_in", "d_in"} => to \in Opened /\ (~opt.stdin => lc'.data = fs[lc.infile]),
         pc \in {"c_in", "d_in"} /\ ~opt.stdin =>
            \/ fs[lc.infile] = was[lc.infile]
            \/ to = "create" /\ lc.infile = lc'.outfile,
         pc \in {"c_in", "d_in"} /\ lc'.data.src \in Sources =>
            lc'.data.depth = was[lc'.data.src].depth \/ Beyond(lc'.data.src, lc'.data.depth)
  PROVE  Tracked'
<1>1. pc' = to /\ UNCHANGED <<opt, args, list, was, argv>>
  BY DEF GoTo, history
<1>2. /\ Sources' = Sources /\ Named' = Named /\ NameInv'
      /\ \A x \in Names : New(x) /\ fs[x].src \in Sources => Beyond(fs[x].src, fs[x].depth)
      /\ \A n, d : Beyond(n, d)' <=> Beyond(n, d)
      /\ \A x : New(x)' <=> New(x)
      /\ \A n : Done(n)' <=> Done(n)
  BY <1>1, FilesStay
<1>3. StartInv'
  BY <1>1 DEF StartInv, Hand, Before, Since
<1>4. OneInv'
  BY <1>1 DEF Tracked, OneInv, Hand, Before, Since
<1>5. DepthInv'
  <2>1. ASSUME to \in Opened, lc'.data.src \in Sources
        PROVE  lc'.data.depth = was[lc'.data.src].depth \/ Beyond(lc'.data.src, lc'.data.depth)
    BY <2>1 DEF Tracked, DepthInv
  <2> QED
    BY <1>1, <1>2, <2>1 DEF DepthInv, Beyond
<1>6. WayInv'
  <2>1. StdoutNow' <=> StdoutNow
    BY <1>1 DEF StdoutNow
  <2>2. Destination' = Destination
    BY <1>1 DEF Destination
  <2>3. /\ pc \in Hand => (opt.stdout <=> StdoutNow)
        /\ ~opt.stdin /\ StdoutNow => \A x \in Names : ~New(x)
        /\ pc \in {"c_in", "c_name"} => ~opt.decompress
        /\ pc \in {"d_name", "d_in", "mkstemp_in", "register_in", "unlink_in"} => opt.decompress
    BY DEF Tracked, WayInv
  <2> QED
    BY <1>1, <1>2, <2>1, <2>2, <2>3 DEF WayInv
<1>7. InputInv'
  <2>1. CASE pc \in {"c_in", "d_in"}
    BY <1>1, <2>1 DEF InputInv
  <2>2. CASE pc \notin {"c_in", "d_in"}
    BY <1>1, <2>2 DEF Tracked, InputInv
  <2> QED
    BY <2>1, <2>2
<1>8. ProgressInv'
  <2> SUFFICES ASSUME NEW n \in Named, cause[n] = {}
               PROVE  Waiting(n)' \/ InHand(n)' \/ Done(n)'
    BY <1>2 DEF ProgressInv
  <2>1. Waiting(n) \/ InHand(n) \/ Done(n)
    BY DEF Tracked, ProgressInv
  <2>2. Waiting(n) => Waiting(n)'
    BY <1>1 DEF Waiting
  <2>3. ASSUME InHand(n)
        PROVE  InHand(n)'
    <3>1. lc'.infile = n /\ fs'[n] = was'[n] /\ ~opt'.stdin
      BY <1>1, <2>3 DEF InHand
    <3>2. CASE to \in Opened
      <4>1. lc'.data = was[n]
        BY <2>3, <3>2 DEF InHand, Opened
      <4> QED
        BY <1>1, <3>1, <3>2, <4>1 DEF InHand, Opened
    <3>3. CASE to \notin Opened
      <4>1. to \in {"d_name", "d_in"}
        BY <2>3, <3>3 DEF InHand, Hand, Before, Since, Opened
      <4> QED
        BY <1>1, <3>1, <4>1 DEF InHand
    <3> QED
      BY <3>2, <3>3
  <2> QED
    BY <1>2, <2>1, <2>2, <2>3
<1> QED
  BY <1>2, <1>3, <1>4, <1>5, <1>6, <1>7, <1>8 DEF Tracked

\* What is read has the depth of the start, or has been converted.
LEMMA ContentDepth ==
  ASSUME IInv, WasInv, Tracked, pc \in Hand, ~opt.stdin => fs[lc.infile] # Absent,
         Content.src \in Sources
  PROVE  Content.depth = was[Content.src].depth \/ Beyond(Content.src, Content.depth)
<1>1. CASE opt.stdin
  <2>1. Content.src = Stdin
    BY <1>1 DEF Content, File
  <2> QED
    BY <2>1, NameFacts
<1>2. CASE ~opt.stdin
  <2>1. Content = fs[lc.infile] /\ lc.infile \in Names
    BY <1>2 DEF Content, IInv, HandInv, Hand
  <2>2. CASE New(lc.infile)
    BY <2>1, <2>2 DEF Tracked, DepthInv
  <2>3. CASE ~New(lc.infile)
    <3>1. Content = was[lc.infile] /\ was[lc.infile] # Absent
      BY <1>2, <2>1, <2>3 DEF New
    <3>2. Content.src = lc.infile
      BY <2>1, <3>1 DEF WasInv
    <3> QED
      BY <3>1, <3>2
  <2> QED
    BY <2>2, <2>3
<1> QED
  BY <1>1, <1>2

LEMMA CompressOpenDone ==
  ASSUME IInv, WasInv, Live, Tracked, CompressOpen, pc' # "exit"
  PROVE  Tracked'
<1>1. /\ pc = "c_in" /\ ~Skipped /\ (~opt.stdin => fs[lc.infile] # Absent)
      /\ lc' = [lc EXCEPT !.data = Content]
      /\ GoTo("c_name") /\ UNCHANGED <<fs, sent, cause>>
  BY DEF CompressOpen, PlainExit, Leave, Fatal, FatalExit
<1>2. lc'.data = Content /\ lc'.infile = lc.infile /\ lc'.mine = lc.mine /\ lc'.outfile = lc.outfile
  BY <1>1, Records DEF IInv, LocalType
<1>3. pc \in Hand /\ "c_name" \in Hand /\ "c_name" \in Opened /\ "c_name" \in Before /\ pc \in Before
  BY <1>1 DEF Hand, Before, Opened
<1>4. ~opt.stdin => fs[lc.infile] = was[lc.infile] /\ Content = fs[lc.infile]
  <2> SUFFICES ASSUME ~opt.stdin, New(lc.infile)
               PROVE  FALSE
    BY <1>1 DEF New, Content
  <2>1. lc.infile \in Names
    BY <1>3 DEF IInv, HandInv
  <2>2. opt.outname = None
    BY <1>1, <2>1, <1>3 DEF Tracked, OneInv, New, Before, Since
  <2>3. lc.infile[3] = TRUE
    BY <1>1, <2>1, <2>2 DEF Tracked, NameInv, WayInv
  <2> QED
    BY <1>1, <2>2, <2>3 DEF Skipped
<1>5. Content.src \in Sources => Content.depth = was[Content.src].depth \/ Beyond(Content.src, Content.depth)
  BY <1>1, <1>3, ContentDepth
<1> QED
  BY <1>1, <1>2, <1>3, <1>4, <1>5, HandGoes

LEMMA DecompressOpenDone ==
  ASSUME IInv, WasInv, Live, Tracked, DecompressOpen, pc' # "exit"
  PROVE  Tracked'
<1>1. PICK to \in {"mkstemp_out", "create"} :
         /\ pc = "d_in" /\ (~opt.stdin => fs[lc.infile] # Absent)
         /\ lc' = [lc EXCEPT !.data = Content]
         /\ GoTo(to) /\ (opt.stdout <=> to = "mkstemp_out") /\ UNCHANGED <<fs, sent, cause>>
  BY Records DEF DecompressOpen, Leave, Fatal, FatalExit, Live, IInv
<1>2. lc'.data = Content /\ lc'.infile = lc.infile /\ lc'.mine = lc.mine /\ lc'.outfile = lc.outfile
  BY <1>1, Records DEF IInv, LocalType
<1>3. pc \in Hand /\ to \in Hand /\ to \in Opened /\ to \in Before /\ pc \in Before
  BY <1>1 DEF Hand, Before, Opened
<1>4. ~opt.stdin => Content = fs[lc.infile]
  BY DEF Content
<1>5. ~opt.stdin => fs[lc.infile] = was[lc.infile] \/ (to = "create" /\ lc.infile = lc.outfile)
  <2> SUFFICES ASSUME ~opt.stdin, New(lc.infile)
               PROVE  to = "create" /\ lc.infile = lc.outfile
    BY <1>1 DEF New
  <2>1. lc.infile \in Names
    BY <1>3 DEF IInv, HandInv
  <2>2. opt.outname = None
    BY <1>1, <2>1, <1>3 DEF Tracked, OneInv, New, Before, Since
  <2>3. ~opt.stdout
    BY <1>3, <2>1 DEF Tracked, WayInv
  <2>4. lc.infile[3] = ~opt.decompress /\ (opt.outdir # "" => lc.infile[1] = opt.outdir)
    BY <2>1, <2>2 DEF Tracked, NameInv
  <2>5. lc.outfile = Destination
    BY <1>1, <2>2, <2>3 DEF Tracked, WayInv
  <2>6. lc.infile = <<lc.infile[1], lc.infile[2], lc.infile[3]>>
    BY <2>1 DEF Names
  <2> QED
    BY <1>1, <2>3, <2>4, <2>5, <2>6 DEF Destination
<1>6. Content.src \in Sources => Content.depth = was[Content.src].depth \/ Beyond(Content.src, Content.depth)
  BY <1>1, <1>3, ContentDepth
<1>7. to = "create" /\ opt.outname = None /\ ~opt.stdout => lc'.outfile = Destination
  BY <1>1, <1>2 DEF Tracked, WayInv
<1> QED
  BY <1>1, <1>2, <1>3, <1>4, <1>5, <1>6, <1>7, HandGoes

LEMMA CompressNameDone ==
  ASSUME IInv, Live, Tracked, CompressName
  PROVE  Tracked'
<1>1. PICK to \in {"mkstemp_out", "create"} :
         /\ pc = "c_name" /\ GoTo(to) /\ (opt.stdout <=> to = "mkstemp_out")
         /\ lc' = IF opt.stdout THEN lc
                  ELSE [lc EXCEPT !.outfile = IF opt.outname # None THEN opt.outname
                     ELSE <<IF opt.outdir # "" THEN opt.outdir ELSE lc.infile[1], lc.infile[2], TRUE>>]
         /\ UNCHANGED <<fs, sent, cause>>
  BY Records DEF CompressName, IInv
<1>2. PICK o : o = <<IF opt.outdir # "" THEN opt.outdir ELSE lc.infile[1], lc.infile[2], TRUE>>
  OBVIOUS
<1>3. /\ lc'.infile = lc.infile /\ lc'.data = lc.data /\ lc'.mine = lc.mine
      /\ opt.outname = None /\ ~opt.stdout => lc'.outfile = o
  BY <1>1, <1>2, Records DEF IInv, LocalType
<1>4. /\ pc \in Hand /\ to \in Hand /\ to \in Before /\ pc \in Before /\ pc \in Opened /\ ~lc.mine
  BY <1>1 DEF Hand, Before, Opened, IInv, OutInv
<1>5. o = Destination
  BY <1>1, <1>2 DEF Destination, Tracked, WayInv
<1> QED
  BY <1>1, <1>3, <1>4, <1>5, HandGoes

LEMMA DecompressNameDone ==
  ASSUME IInv, Live, Tracked, DecompressName
  PROVE  Tracked'
<1>1. PICK to \in {"mkstemp_in", "d_in"} :
         /\ pc = "d_name" /\ GoTo(to) /\ (opt.stdin <=> to = "mkstemp_in")
         /\ lc' = IF opt.stdout \/ opt.test THEN lc
                  ELSE [lc EXCEPT !.outfile = IF opt.outname # None THEN opt.outname
                     ELSE <<IF opt.outdir # "" THEN opt.outdir ELSE lc.infile[1], lc.infile[2], FALSE>>]
         /\ UNCHANGED <<fs, sent, cause>>
  BY Records DEF DecompressName, IInv
<1>2. PICK o : o = <<IF opt.outdir # "" THEN opt.outdir ELSE lc.infile[1], lc.infile[2], FALSE>>
  OBVIOUS
<1>3. /\ lc'.infile = lc.infile /\ lc'.data = lc.data /\ lc'.mine = lc.mine
      /\ opt.outname = None /\ ~opt.stdout => lc'.outfile = o
  BY <1>1, <1>2, Records DEF IInv, LocalType, Live
<1>4. /\ pc \in Hand /\ to \in Hand /\ to \in Before /\ pc \in Before /\ to \notin Opened
  BY <1>1 DEF Hand, Before, Opened
<1>5. o = Destination
  BY <1>1, <1>2 DEF Destination, Tracked, WayInv
<1> QED
  BY <1>1, <1>3, <1>4, <1>5, HandGoes

\* The temporary files.
LEMMA TmpDone ==
  ASSUME IInv, Live, Tracked, NEW which \in {"in", "out"},
         Mkstemp(which) \/ Register(which) \/ UnlinkTmp(which), pc' # "exit"
  PROVE  Tracked'
<1> DEFINE States == IF which = "in" THEN {"mkstemp_in", "register_in", "unlink_in"}
                     ELSE {"mkstemp_out", "register_out", "unlink_out"}
<1>1. PICK to \in States \cup {AfterTmp[which]} :
         /\ pc \in States /\ GoTo(to) /\ UNCHANGED <<fs, sent, cause>>
         /\ lc' = lc \/ lc' = [lc EXCEPT !.registered = @ \cup {which}]
  <2>1. CASE Mkstemp(which)
    BY <2>1 DEF Mkstemp, MkstempAt, RegisterAt
  <2>2. CASE Register(which)
    BY <2>2 DEF Register, UnlinkAt, RegisterAt
  <2>3. CASE UnlinkTmp(which)
    BY <2>3 DEF UnlinkTmp, UnlinkAt, Fatal, FatalExit, Leave
  <2> QED
    BY <2>1, <2>2, <2>3
<1>2. lc'.infile = lc.infile /\ lc'.data = lc.data /\ lc'.mine = lc.mine /\ lc'.outfile = lc.outfile
  BY <1>1, Records DEF IInv, LocalType
<1>3. pc \in Hand /\ pc \in Before /\ ~lc.mine
  BY <1>1 DEF Hand, Before, IInv, OutInv
<1>4. CASE which = "in"
  <2>1. to \in {"mkstemp_in", "register_in", "unlink_in", "d_in"}
    BY <1>1, <1>4 DEF AfterTmp
  <2>2. opt.stdin /\ (opt.stdout <=> StdoutNow)
    BY <1>1, <1>3, <1>4 DEF Tracked, WayInv
  <2>3. opt.outname = None => opt.stdout
    BY <2>2 DEF StdoutNow
  <2>4. to \in Hand /\ to \in Before /\ to \notin Opened
    BY <2>1 DEF Hand, Before, Opened
  <2> QED
    BY <1>1, <1>2, <1>3, <1>4, <2>1, <2>2, <2>3, <2>4, HandGoes
<1>5. CASE which = "out"
  <2>1. to \in {"mkstemp_out", "register_out", "unlink_out", "work"}
    BY <1>1, <1>5 DEF AfterTmp
  <2>2. to \in Hand /\ to \in Opened /\ pc \in Opened
    BY <1>1, <1>5, <2>1 DEF Hand, Before, Since, Opened
  <2> QED
    BY <1>1, <1>2, <1>3, <1>5, <2>1, <2>2, HandGoes
<1> QED
  BY <1>4, <1>5
\* The output replaces at most a file whose source is blamed.
LEMMA CreateDone ==
  ASSUME IInv, WasInv, Live, Tracked, Create, pc' # "exit"
  PROVE  Tracked'
<1> DEFINE at == lc.outfile
<1>0. PICK new : new = File(lc.data.src, lc.data.depth + Shift, FALSE)
  OBVIOUS
<1>1. /\ pc = "create" /\ Blame(SrcAt(at), {"force"}) /\ fs' = [fs EXCEPT ![at] = new]
      /\ lc' = [lc EXCEPT !.mine = TRUE] /\ pc' = "work"
      /\ UNCHANGED <<opt, args, list, was, argv, sent>>
  BY <1>0 DEF Create, FatalExit, Leave, GoTo, history, Shift
<1>2. /\ lc'.mine /\ lc'.data = lc.data /\ lc'.infile = lc.infile /\ lc'.outfile = at /\ TypeOK
  BY <1>1, Records DEF IInv, LocalType
<1>3. at \in Names /\ ~opt.stdout /\ ~lc.mine /\ (opt.stdin \/ lc.infile \in Names)
  BY <1>1 DEF IInv, OutInv, HandInv, Before
<1>4. fs'[at] = new /\ \A m \in Names : m # at => fs'[m] = fs[m]
  BY <1>1, <1>2, <1>3 DEF TypeOK
<1>5. new.src = lc.data.src /\ new.depth = lc.data.depth + Shift /\ ~new.whole
  BY <1>0 DEF File
<1>6. Sources' = Sources /\ Named' = Named
  BY <1>1 DEF Sources, Named
<1>7. \A n \in Sources : cause'[n] = {} => cause[n] = {} /\ n \notin SrcAt(at)
  <2>1. {"force"} \in SUBSET Causes
    BY DEF Causes
  <2>2. /\ \A n \in Sources : cause[n] \subseteq cause'[n]
        /\ \A n \in Sources : n \in SrcAt(at) => {"force"} \subseteq cause'[n]
    BY <1>1, <1>2, <2>1, BlameFacts
  <2> QED
    BY <2>2
<1>8. \A m \in Names : m # at => (New(m)' <=> New(m))
  BY <1>1, <1>4 DEF New
<1> HIDE DEF at
<1>9. StartInv' /\ OneInv'
  BY <1>1 DEF Tracked, StartInv, OneInv, Before, Since
<1>10. DepthInv'
  <2>1. ASSUME lc.data.src \in Sources
        PROVE  Beyond(lc.data.src, new.depth)
    <3>1. lc.data.depth = was[lc.data.src].depth \/ Beyond(lc.data.src, lc.data.depth)
      BY <1>1, <2>1 DEF Tracked, DepthInv, Opened
    <3>2. was[lc.data.src].depth \in Int
      BY <2>1, NameFacts DEF WasInv, Sources
    <3>3. lc.data.depth \in Int
      <4>1. lc.data \in Files \cup {Absent}
        BY <1>2, Records
      <4> QED
        BY <4>1 DEF Files, Absent, File
    <3> QED
      BY <1>5, <3>1, <3>2, <3>3 DEF Beyond, Shift
  <2>2. ASSUME NEW x \in Names, New(x)', fs'[x].src \in Sources
        PROVE  Beyond(fs'[x].src, fs'[x].depth)
    <3>1. CASE x = at
      BY <1>4, <1>5, <2>1, <2>2, <3>1
    <3>2. CASE x # at
      BY <1>4, <1>8, <2>2, <3>2 DEF Tracked, DepthInv
    <3> QED
      BY <3>1, <3>2
  <2>4. lc.data.src \in Sources => lc.data.depth = was[lc.data.src].depth \/ Beyond(lc.data.src, lc.data.depth)
    BY <1>1 DEF Tracked, DepthInv, Opened
  <2> QED
    BY <1>1, <1>2, <1>6, <2>2, <2>4 DEF DepthInv, Beyond
<1>11. NameInv'
  <2>1. opt.outname = None => at[3] = ~opt.decompress /\ (opt.outdir # "" => at[1] = opt.outdir)
    <3>1. opt.outname = None => at = Destination
      BY <1>1, <1>3 DEF Tracked, WayInv, at
    <3>2. Destination[3] = ~opt.decompress /\ (opt.outdir # "" => Destination[1] = opt.outdir)
      BY DEF Destination
    <3> QED
      BY <3>1, <3>2
  <2> QED
    BY <1>1, <1>8, <2>1 DEF Tracked, NameInv
<1>12. WayInv'
  <2>1. ~StdoutNow /\ (StdoutNow' <=> StdoutNow)
    BY <1>1, <1>3 DEF Tracked, WayInv, Hand, Before, StdoutNow
  <2> QED
    BY <1>1, <1>3, <2>1 DEF WayInv
<1>13. InputInv'
  <2>1. DataInv'
    BY CreateIInv DEF IInv
  <2>2. InputKept'
    BY <1>1, <2>1 DEF DataInv
  <2>3. ~fs'[lc'.outfile].whole
    BY <1>2, <1>4, <1>5
  <2>4. CASE opt.stdin \/ lc.infile = at
    BY <1>1, <1>2, <2>2, <2>3, <2>4 DEF InputInv, InputKept
  <2>5. CASE ~opt.stdin /\ lc.infile # at
    <3>1. fs[lc.infile] = was[lc.infile] /\ lc.data = was[lc.infile]
      BY <1>1, <1>3, <2>5 DEF Tracked, InputInv, Opened, at
    <3> QED
      BY <1>1, <1>2, <1>3, <1>4, <2>3, <2>5, <3>1 DEF InputInv
  <2> QED
    BY <2>4, <2>5
<1>14. ProgressInv'
  <2> SUFFICES ASSUME NEW n \in Named, cause'[n] = {}
               PROVE  Waiting(n)' \/ InHand(n)' \/ Done(n)'
    BY <1>6 DEF ProgressInv
  <2>1. n \in Sources /\ n \in Names /\ was[n] # Absent /\ was[n].src = n /\ was[n].whole
    BY NameFacts DEF Named, Sources, WasInv
  <2>2. cause[n] = {} /\ n \notin SrcAt(at)
    BY <1>7, <2>1
  <2>3. fs[at] = Absent \/ fs[at].src # n
    BY <2>1, <2>2 DEF SrcAt
  <2>4. fs[n] = was[n] => n # at /\ fs'[n] = was[n]
    BY <1>4, <2>1, <2>3
  <2>5. Waiting(n) \/ InHand(n) \/ Done(n)
    BY <2>2 DEF Tracked, ProgressInv
  <2>6. CASE Waiting(n)
    <3>1. lc.infile # n
      BY <1>1, <2>6 DEF Waiting, Hand, Before
    <3> QED
      BY <1>1, <1>2, <2>4, <2>6, <3>1 DEF Waiting
  <2>7. CASE InHand(n)
    <3>1. lc.infile = n /\ fs[n] = was[n] /\ ~opt.stdin /\ lc.data = was[n]
      BY <1>1, <2>7 DEF InHand, Opened
    <3>2. new = File(n, was[n].depth + Shift, FALSE) /\ Shift' = Shift
      BY <1>0, <1>1, <2>1, <3>1 DEF Shift
    <3> QED
      BY <1>1, <1>2, <1>4, <2>4, <3>1, <3>2 DEF InHand, Opened
  <2>8. CASE Done(n)
    <3>1. Converted(n)'
      <4>1. Shift' = Shift
        BY <1>1 DEF Shift
      <4>2. \A d : File(n, d, TRUE) # Absent /\ File(n, d, TRUE).src = n
        BY <2>1, NameFacts DEF File, Absent
      <4> QED
        BY <1>1, <1>4, <2>3, <2>8, <4>1, <4>2 DEF Done, Converted
    <3>2. opt.keep => fs'[n] = was[n]
      BY <2>4, <2>8 DEF Done
    <3>3. ~opt.keep => fs'[n] # was[n]
      BY <1>4, <1>5, <2>1, <2>8 DEF Done
    <3> QED
      BY <1>1, <3>1, <3>2, <3>3 DEF Done
  <2> QED
    BY <2>5, <2>6, <2>7, <2>8
<1> QED
  BY <1>9, <1>10, <1>11, <1>12, <1>13, <1>14 DEF Tracked
\* The work completes the output, or what went to stdout.
LEMMA WorkDone ==
  ASSUME IInv, WasInv, Live, Tracked, Work, pc' # "exit"
  PROVE  Tracked'
<1> DEFINE at == lc.outfile
<1>1. /\ pc = "work" /\ pc' = "close" /\ UNCHANGED <<lc, cause, opt, args, list, was, argv>>
      /\ fs' = (IF opt.stdout THEN fs ELSE [fs EXCEPT ![at].whole = TRUE])
      /\ sent' = IF opt.stdout /\ ~opt.stdin THEN sent \cup {lc.data.src} ELSE sent
  BY DEF Work, Fatal, FatalExit, Leave, GoTo, history, Live
<1>2. TypeOK /\ Sources' = Sources /\ Named' = Named /\ Shift' = Shift /\ sent \subseteq sent'
  BY <1>1 DEF IInv, Sources, Named, Shift
<1>3. lc.mine <=> ~opt.stdout
  BY <1>1, <1>2, Records DEF IInv, OutInv, Since, Live
<1>4. ASSUME ~opt.stdout
      PROVE  /\ at \in Names /\ fs[at] \in Files /\ fs[at] # Absent /\ ~fs[at].whole
             /\ fs'[at] = File(fs[at].src, fs[at].depth, TRUE)
             /\ \A m \in Names : m # at => fs'[m] = fs[m]
  <2>1. at \in Names /\ fs[at] # Absent /\ ~fs[at].whole
    BY <1>1, <1>3, <1>4 DEF IInv, OutInv, DataInv, Since, Tracked, InputInv
  <2>2. fs[at] \in Files
    BY <1>2, <2>1, FileFacts
  <2>3. [fs[at] EXCEPT !.whole = TRUE] = File(fs[at].src, fs[at].depth, TRUE)
    <3>1. PICK f : f = fs[at]
      OBVIOUS
    <3>2. PICK g : g = [f EXCEPT !.whole = TRUE]
      OBVIOUS
    <3>3. f \in Files
      BY <2>2, <3>1
    <3>4. g \in Files /\ g.src = f.src /\ g.depth = f.depth /\ g.whole = TRUE
      BY <3>2, <3>3 DEF Files
    <3>5. g = [src |-> g.src, depth |-> g.depth, whole |-> g.whole]
      BY <3>4 DEF Files
    <3> QED
      BY <3>1, <3>2, <3>4, <3>5 DEF File
  <2> QED
    BY <1>1, <1>2, <1>4, <2>1, <2>2, <2>3 DEF TypeOK
<1> HIDE DEF at
<1>5. \A n \in Names : was[n] # Absent /\ fs[n] = was[n] => fs'[n] = was[n]
  BY <1>1, <1>4 DEF WasInv
<1>6. ASSUME NEW x \in Names
      PROVE  /\ New(x)' => New(x)
             /\ fs'[x].src = fs[x].src /\ fs'[x].depth = fs[x].depth
  <2>1. CASE opt.stdout \/ x # at
    BY <1>1, <1>4, <2>1 DEF New
  <2>2. CASE ~opt.stdout /\ x = at
    <3>1. New(at)
      BY <1>4, <2>2 DEF New, WasInv
    <3> QED
      BY <1>4, <2>2, <3>1 DEF File
  <2> QED
    BY <2>1, <2>2
<1>7. StartInv' /\ OneInv'
  BY <1>1 DEF Tracked, StartInv, OneInv, Before, Since
<1>8. DepthInv'
  <2>1. ASSUME NEW x \in Names, New(x)', fs'[x].src \in Sources
        PROVE  Beyond(fs'[x].src, fs'[x].depth)
    BY <1>6, <2>1 DEF Tracked, DepthInv
  <2>2. lc.data.src \in Sources => lc.data.depth = was[lc.data.src].depth \/ Beyond(lc.data.src, lc.data.depth)
    BY <1>1 DEF Tracked, DepthInv, Opened
  <2> QED
    BY <1>1, <1>2, <2>1, <2>2 DEF DepthInv, Beyond
<1>9. NameInv'
  BY <1>1, <1>6 DEF Tracked, NameInv
<1>10. WayInv'
  <2>1. StdoutNow' <=> StdoutNow
    BY <1>1 DEF StdoutNow
  <2>2. (opt.stdout <=> StdoutNow) /\ (~opt.stdin /\ StdoutNow => \A x \in Names : ~New(x))
    BY <1>1 DEF Tracked, WayInv, Hand, Since
  <2> QED
    BY <1>1, <1>6, <2>1, <2>2 DEF WayInv
<1>11. InputInv'
  <2> SUFFICES ASSUME ~opt.stdin
               PROVE  \/ fs'[lc.infile] = was[lc.infile] /\ lc.data = was[lc.infile]
                      \/ lc.infile = lc.outfile /\ lc.mine /\ "force" \in cause[lc.data.src]
    BY <1>1 DEF InputInv
  <2>1. \/ fs[lc.infile] = was[lc.infile] /\ lc.data = was[lc.infile]
        \/ lc.infile = lc.outfile /\ lc.mine /\ "force" \in cause[lc.data.src]
    BY <1>1 DEF Tracked, InputInv, Opened
  <2>2. lc.infile \in Names
    BY <1>1 DEF IInv, HandInv, Since
  <2>3. was[lc.infile] = fs[lc.infile] => fs'[lc.infile] = was[lc.infile]
    BY <1>1, <1>4, <1>5, <2>2
  <2> QED
    BY <2>1, <2>3
<1>12. ProgressInv'
  <2> SUFFICES ASSUME NEW n \in Named, cause[n] = {}
               PROVE  Waiting(n)' \/ InHand(n)' \/ Done(n)'
    BY <1>1, <1>2 DEF ProgressInv
  <2>1. /\ n \in Sources /\ n \in Names /\ was[n] # Absent /\ was[n].src = n /\ was[n].whole
        /\ was[n].depth \in Int
    BY NameFacts DEF Named, Sources, WasInv
  <2>2. fs[n] = was[n] => fs'[n] = was[n]
    BY <1>5, <2>1
  <2>3. Waiting(n) \/ InHand(n) \/ Done(n)
    BY DEF Tracked, ProgressInv
  <2>4. CASE Waiting(n)
    BY <1>1, <2>2, <2>4 DEF Waiting, Hand, Since
  <2>5. CASE InHand(n)
    <3>1. /\ lc.infile = n /\ fs[n] = was[n] /\ ~opt.stdin /\ lc.data = was[n]
          /\ lc.mine => fs[at] = File(n, was[n].depth + Shift, FALSE)
      BY <1>1, <2>5 DEF InHand, Opened, at
    <3>2. Converted(n)'
      <4>1. CASE opt.stdout
        BY <1>1, <2>1, <3>1, <4>1 DEF Converted
      <4>2. CASE ~opt.stdout
        <5>1. fs'[at] = File(n, was[n].depth + Shift, TRUE)
          <6>1. \A d : File(n, d, FALSE).src = n /\ File(n, d, FALSE).depth = d
            BY DEF File
          <6>2. fs[at] = File(n, was[n].depth + Shift, FALSE)
            BY <1>3, <3>1, <4>2
          <6>3. fs[at].src = n /\ fs[at].depth = was[n].depth + Shift
            BY <6>1, <6>2, Zenon
          <6>4. fs'[at] = File(fs[at].src, fs[at].depth, TRUE)
            BY <1>4, <4>2
          <6> QED
            BY <6>3, <6>4, Zenon
        <5> QED
          BY <1>1, <1>2, <1>4, <4>2, <5>1 DEF Converted
      <4> QED
        BY <4>1, <4>2
    <3> QED
      BY <1>1, <2>2, <3>1, <3>2 DEF InHand, Opened
  <2>6. CASE Done(n)
    <3>1. Converted(n)'
      <4>1. \A d : File(n, d, TRUE).whole
        BY DEF File
      <4> QED
        BY <1>1, <1>2, <1>4, <2>6, <4>1 DEF Done, Converted
    <3>2. ASSUME ~opt.keep
          PROVE  fs'[n] # was[n]
      <4>1. fs[n] # was[n]
        BY <2>6, <3>2 DEF Done
      <4>2. CASE opt.stdout \/ n # at
        BY <1>1, <1>4, <2>1, <4>1, <4>2
      <4>3. CASE ~opt.stdout /\ n = at
        <5>1. New(n)
          BY <1>4, <4>1, <4>3 DEF New
        <5>2. fs[n].src = n => Beyond(n, fs[n].depth)
          BY <2>1, <5>1 DEF Tracked, DepthInv
        <5>3. fs[n].depth \in Int
          BY <1>4, <4>3 DEF Files
        <5>4. fs'[n] = was[n] => fs[n].src = n /\ fs[n].depth = was[n].depth
          BY <1>6, <2>1
        <5> QED
          BY <2>1, <5>2, <5>3, <5>4 DEF Beyond
      <4> QED
        BY <4>2, <4>3
    <3> QED
      BY <1>1, <2>2, <2>6, <3>1, <3>2 DEF Done
  <2> QED
    BY <2>3, <2>4, <2>5, <2>6
<1> QED
  BY <1>7, <1>8, <1>9, <1>10, <1>11, <1>12 DEF Tracked

\* The input is kept, or unlinked next.
LEMMA CloseDone ==
  ASSUME IInv, Live, Tracked, Close, pc' # "exit"
  PROVE  Tracked'
<1>1. /\ pc = "close" /\ UNCHANGED <<lc, fs, sent, cause, opt, args, list, was, argv>>
      /\ pc' = IF opt.keep \/ opt.stdin THEN "release" ELSE "unlink"
  BY DEF Close, Fatal, FatalExit, Leave, GoTo, history
<1>2. /\ Sources' = Sources /\ Named' = Named /\ NameInv'
      /\ \A x \in Names : New(x) /\ fs[x].src \in Sources => Beyond(fs[x].src, fs[x].depth)
      /\ \A x : New(x)' <=> New(x)
      /\ \A n : Converted(n)' <=> Converted(n)
      /\ \A n : Done(n)' <=> Done(n)
  BY <1>1, FilesStay
<1>3. pc' \in {"release", "unlink"} /\ (pc' = "unlink" => ~opt.keep /\ ~opt.stdin)
  BY <1>1
<1>4. StartInv' /\ OneInv'
  BY <1>1, <1>3 DEF Tracked, StartInv, OneInv, Before, Since
<1>5. DepthInv'
  BY <1>1, <1>2 DEF Tracked, DepthInv, Beyond, Opened
<1>6. WayInv'
  <2>1. StdoutNow' <=> StdoutNow
    BY <1>1 DEF StdoutNow
  <2>2. (opt.stdout <=> StdoutNow) /\ (~opt.stdin /\ StdoutNow => \A x \in Names : ~New(x))
    BY <1>1 DEF Tracked, WayInv, Hand, Since
  <2> QED
    BY <1>1, <1>2, <1>3, <2>1, <2>2 DEF WayInv
<1>7. InputInv'
  BY <1>1, <1>3 DEF Tracked, InputInv, Opened
<1>8. ProgressInv'
  <2> SUFFICES ASSUME NEW n \in Named, cause[n] = {}
               PROVE  Waiting(n)' \/ InHand(n)' \/ Done(n)'
    BY <1>1, <1>2 DEF ProgressInv
  <2>1. Waiting(n) \/ InHand(n) \/ Done(n)
    BY DEF Tracked, ProgressInv
  <2>2. Waiting(n) => Waiting(n)'
    BY <1>1, <1>3 DEF Waiting, Hand, Since
  <2>3. ASSUME InHand(n)
        PROVE  InHand(n)' \/ Done(n)'
    <3>1. lc.infile = n /\ fs[n] = was[n] /\ ~opt.stdin /\ lc.data = was[n] /\ Converted(n)
      BY <1>1, <2>3 DEF InHand, Opened
    <3>2. CASE opt.keep
      BY <1>2, <3>1, <3>2 DEF Done
    <3>3. CASE ~opt.keep
      BY <1>1, <1>2, <3>1, <3>3 DEF InHand, Opened
    <3> QED
      BY <3>2, <3>3
  <2> QED
    BY <1>2, <2>1, <2>2, <2>3
<1> QED
  BY <1>2, <1>4, <1>5, <1>6, <1>7, <1>8 DEF Tracked
\* The input goes once its output is complete.
LEMMA UnlinkInputDone ==
  ASSUME IInv, WasInv, Live, Tracked, UnlinkInput, pc' # "exit"
  PROVE  Tracked'
<1> DEFINE at == lc.infile
<1>1. /\ pc = "unlink" /\ pc' = "release" /\ fs' = [fs EXCEPT ![at] = Absent]
      /\ lc' = [lc EXCEPT !.gone = TRUE]
      /\ UNCHANGED <<cause, opt, args, list, was, argv, sent>>
  BY DEF UnlinkInput, Fatal, FatalExit, Leave, GoTo, history, Live
<1>2. TypeOK /\ Sources' = Sources /\ Named' = Named /\ Shift' = Shift
  BY <1>1 DEF IInv, Sources, Named, Shift
<1>3. lc'.infile = at /\ lc'.outfile = lc.outfile
  BY <1>1, <1>2, Records DEF LocalType
<1>4. ~opt.stdin /\ at \in Names /\ ~opt.keep
  BY <1>1 DEF IInv, HandInv, Since, Tracked, WayInv
<1>5. fs'[at] = Absent /\ \A m \in Names : m # at => fs'[m] = fs[m]
  BY <1>1, <1>2, <1>4 DEF TypeOK
<1> HIDE DEF at
<1>6. \A x \in Names : New(x)' => New(x) /\ fs'[x] = fs[x]
  BY <1>1, <1>5 DEF New
<1>7. StartInv' /\ OneInv' /\ InputInv'
  BY <1>1 DEF Tracked, StartInv, OneInv, InputInv, Before, Since, Opened
<1>8. DepthInv'
  <2>1. ASSUME NEW x \in Names, New(x)', fs'[x].src \in Sources
        PROVE  Beyond(fs'[x].src, fs'[x].depth)
    BY <1>6, <2>1 DEF Tracked, DepthInv
  <2> QED
    BY <1>1, <1>2, <2>1 DEF DepthInv, Beyond, Opened
<1>9. NameInv'
  BY <1>1, <1>6 DEF Tracked, NameInv
<1>10. WayInv'
  <2>1. StdoutNow' <=> StdoutNow
    BY <1>1 DEF StdoutNow
  <2>2. (opt.stdout <=> StdoutNow) /\ (~opt.stdin /\ StdoutNow => \A x \in Names : ~New(x))
    BY <1>1 DEF Tracked, WayInv, Hand, Since
  <2> QED
    BY <1>1, <1>6, <2>1, <2>2 DEF WayInv
<1>11. ProgressInv'
  <2> SUFFICES ASSUME NEW n \in Named, cause[n] = {}
               PROVE  Waiting(n)' \/ InHand(n)' \/ Done(n)'
    BY <1>1, <1>2 DEF ProgressInv
  <2>1. /\ n \in Sources /\ n \in Names /\ was[n] # Absent /\ was[n].src = n /\ was[n].depth \in Int
    BY NameFacts DEF Named, Sources, WasInv
  <2>2. Waiting(n) \/ InHand(n) \/ Done(n)
    BY DEF Tracked, ProgressInv
  <2>3. CASE Waiting(n)
    <3>1. n # at
      BY <1>1, <2>3 DEF Waiting, Hand, Since, at
    <3> QED
      BY <1>1, <1>3, <1>5, <2>1, <2>3, <3>1 DEF Waiting
  <2>4. CASE InHand(n) \/ Done(n)
    <3>1. Converted(n)
      BY <1>1, <2>4 DEF InHand, Done, Opened
    <3>2. fs'[n] # was[n]
      <4>1. CASE n = at
        BY <1>5, <2>1, <4>1
      <4>2. CASE n # at
        BY <1>4, <1>5, <2>1, <2>4, <4>2 DEF InHand, Done, at
      <4> QED
        BY <4>1, <4>2
    <3>3. fs[at] # File(n, was[n].depth + Shift, TRUE)
      <4> SUFFICES ASSUME fs[at] = File(n, was[n].depth + Shift, TRUE)
                   PROVE  FALSE
        OBVIOUS
      <4>1. \A d : File(n, d, TRUE).src = n /\ File(n, d, TRUE).depth = d
        BY DEF File
      <4>2. fs[at].src = n /\ fs[at].depth = was[n].depth + Shift
        BY <4>1, Zenon
      <4>3. fs[at].depth # was[n].depth
        <5>1. PICK s \in {-1, 1} : s = Shift
          BY DEF Shift
        <5>2. \A d \in Int : d + s # d
          OBVIOUS
        <5> QED
          BY <2>1, <4>2, <5>1, <5>2
      <4>4. fs[at] # Absent
        BY <2>1, <4>2, NameFacts DEF Absent, File
      <4>5. CASE fs[at] = was[at]
        BY <1>4, <4>2, <4>3, <4>4, <4>5 DEF WasInv
      <4>6. CASE at = lc.outfile /\ lc.mine /\ "force" \in cause[lc.data.src]
        <5>1. fs[lc.outfile].src = lc.data.src
          BY <1>1, <4>6 DEF IInv, DataInv
        <5> QED
          BY <4>2, <4>6, <5>1
      <4> QED
        BY <1>1, <1>4, <4>5, <4>6 DEF Tracked, InputInv, Opened, at
    <3>4. Converted(n)'
      BY <1>1, <1>2, <1>5, <3>1, <3>3 DEF Converted
    <3> QED
      BY <1>1, <1>4, <3>2, <3>4 DEF Done
  <2> QED
    BY <2>2, <2>3, <2>4
<1> QED
  BY <1>7, <1>8, <1>9, <1>10, <1>11 DEF Tracked

\* The file in hand is done.
LEMMA ReleaseDone ==
  ASSUME IInv, Live, Tracked, Release
  PROVE  Tracked'
<1>1. /\ pc = "release" /\ UNCHANGED <<fs, sent, cause, opt, args, list, was, argv>>
      /\ pc' = IF list = {} THEN "loop" ELSE "entry"
  BY DEF Release, GoTo, history
<1>2. /\ Sources' = Sources /\ Named' = Named /\ NameInv'
      /\ \A x \in Names : New(x) /\ fs[x].src \in Sources => Beyond(fs[x].src, fs[x].depth)
      /\ \A x : New(x)' <=> New(x)
      /\ \A n : Done(n)' <=> Done(n)
  BY <1>1, FilesStay
<1>3. pc' \in {"loop", "entry"}
  BY <1>1
<1>4. StartInv' /\ InputInv'
  BY <1>1, <1>3 DEF Tracked, StartInv, InputInv, Opened
<1>5. OneInv'
  <2>1. opt.outname # None => ~opt.recurse /\ args = <<>> /\ list = {}
    BY <1>1 DEF Tracked, OneInv, Before, Since
  <2>2. Len(<<>>) <= 1
    OBVIOUS
  <2> QED
    BY <1>1, <2>1, <2>2 DEF OneInv
<1>6. DepthInv'
  BY <1>1, <1>2, <1>3 DEF DepthInv, Beyond, Opened
<1>7. WayInv'
  <2>1. StdoutNow' <=> StdoutNow
    BY <1>1 DEF StdoutNow
  <2>2. ~opt.stdin /\ StdoutNow => \A x \in Names : ~New(x)
    BY DEF Tracked, WayInv
  <2> QED
    BY <1>1, <1>2, <1>3, <2>1, <2>2 DEF WayInv, Hand, Before, Since
<1>8. ProgressInv'
  <2> SUFFICES ASSUME NEW n \in Named, cause[n] = {}
               PROVE  Waiting(n)' \/ Done(n)'
    BY <1>1, <1>2 DEF ProgressInv
  <2>1. Waiting(n) \/ Done(n)
    BY <1>1 DEF Tracked, ProgressInv, InHand, Opened
  <2>2. Waiting(n) => Waiting(n)'
    BY <1>1, <1>3 DEF Waiting, Hand, Before, Since
  <2> QED
    BY <1>2, <2>1, <2>2
<1> QED
  BY <1>2, <1>4, <1>5, <1>6, <1>7, <1>8 DEF Tracked

\* Nothing is done at the start, and all that is named waits.
LEMMA InitDone ==
  ASSUME Init
  PROVE  WasInv /\ DInv
<1>1. /\ pc = "options" /\ list = {} /\ args = argv /\ fs = was /\ fs \in Inits
      /\ args \in Seq(Names \cup DirArgs \cup {Stdin})
  BY ArgsAssumption DEF Init
<1>2. WasInv
  <2>1. was \in [Names -> Files \cup {Absent}] /\ \A n \in Names : was[n] # Absent => was[n].src = n /\ was[n].whole
    BY <1>1, InitsAssumption
  <2>2. \A n \in Names : was[n] # Absent => was[n].depth \in Int
    BY <2>1 DEF Files
  <2> QED
    BY <2>1, <2>2 DEF WasInv
<1>3. StartInv /\ OneInv /\ DepthInv /\ NameInv /\ InputInv
  BY <1>1 DEF StartInv, OneInv, DepthInv, NameInv, InputInv, New, Opened
<1>4. WayInv
  BY <1>1 DEF WayInv, New, Hand, Before, Since
<1>5. ProgressInv
  BY <1>1 DEF ProgressInv, Named, Sources, Waiting, Hand, Before, Since
<1> QED
  BY <1>2, <1>3, <1>4, <1>5 DEF DInv, Tracked
\* The flags -t and -i are never cleared, and nothing changes what the start was.
LEMMA HistoryStays ==
  ASSUME IInv, WasInv, Next
  PROVE  WasInv' /\ (Live' => Live)
<1>1. was' = was
  <2>1. \A c \in Options : ParseOption(c) => was' = was
    BY DEF ParseOption, PlainExit, history
  <2>2. EndOptions \/ NextArg \/ Finish \/ Terminal \/ SoftFailure => was' = was
    BY DEF EndOptions, NextArg, Finish, Terminal, SoftFailure, PlainExit, history
  <2>3. \A n \in list : Entry(n) => was' = was
    BY DEF Entry, history
  <2>4. CompressOpen \/ CompressName \/ DecompressName \/ DecompressOpen => was' = was
    BY DEF CompressOpen, CompressName, DecompressName, DecompressOpen, PlainExit, Fatal, FatalExit, GoTo, history
  <2>5. \A which \in {"in", "out"} : Mkstemp(which) \/ Register(which) \/ UnlinkTmp(which) => was' = was
    BY DEF Mkstemp, Register, UnlinkTmp, Fatal, FatalExit, GoTo, history
  <2>6. Create \/ Work \/ Close \/ UnlinkInput \/ Release \/ Info \/ Interrupt \/ Exited => was' = was
    BY DEF Create, Work, Close, UnlinkInput, Release, Info, Interrupt, Exited, Fatal, FatalExit, GoTo, history, vars
  <2> QED
    BY <2>1, <2>2, <2>3, <2>4, <2>5, <2>6 DEF Next
<1>2. Live' => Live
  <2> SUFFICES ASSUME pc' # "exit"
               PROVE  pc # "exit" /\ (opt.test => opt'.test) /\ (opt.info => opt'.info)
    BY DEF Live
  <2>0. opt \in OptType
    BY Records DEF IInv
  <2>1. ASSUME NEW c \in Options, ParseOption(c)
        PROVE  pc # "exit" /\ (opt.test => opt'.test) /\ (opt.info => opt'.info)
    <3>1. pc = "options" /\ opt' = Parsed(opt, c)
      BY <2>1 DEF ParseOption, PlainExit, Leave
    <3>2. c[1] \in {"c", "d", "D", "f", "i", "k", "o", "O", "r", "t"}
      BY OptionsAssumption
    <3>3. (opt.test => Parsed(opt, c).test) /\ (opt.info => Parsed(opt, c).info)
      <4> USE <2>0 DEF OptType, Parsed
      <4>1. CASE c[1] \in {"c", "k"}
        BY <4>1
      <4>2. CASE c[1] \in {"d", "D", "f"}
        BY <4>2
      <4>3. CASE c[1] \in {"i", "t"}
        BY <4>3
      <4>4. CASE c[1] \in {"o", "O", "r"}
        BY <4>4
      <4> QED
        BY <3>2, <4>1, <4>2, <4>3, <4>4
    <3> QED
      BY <3>1, <3>3
  <2>2. CASE EndOptions
    <3>1. PICK b : opt' = [opt EXCEPT !.stdin = b] /\ pc = "options"
      BY <2>2 DEF EndOptions, PlainExit, Leave
    <3> QED
      BY <2>0, <3>1 DEF OptType
  <2>3. CASE NextArg
    <3>1. PICK b : opt' = [opt EXCEPT !.stdin = b] /\ pc = "loop"
      BY <2>3 DEF NextArg, PlainExit, Leave
    <3> QED
      BY <2>0, <3>1 DEF OptType
  <2>4. ASSUME NEW n \in list, Entry(n)
        PROVE  pc # "exit" /\ (opt.test => opt'.test) /\ (opt.info => opt'.info)
    <3>1. PICK b : opt' = [opt EXCEPT !.stdout = b] /\ pc = "entry"
      BY <2>4 DEF Entry
    <3> QED
      BY <2>0, <3>1 DEF OptType
  <2>5. CASE Finish \/ Terminal \/ SoftFailure \/ Interrupt \/ Exited
    BY <2>5 DEF Finish, Terminal, SoftFailure, Interrupt, Exited, PlainExit, FatalExit, Leave, vars
  <2>6. CASE CompressOpen \/ CompressName \/ DecompressName \/ DecompressOpen
    BY <2>6 DEF CompressOpen, CompressName, DecompressName, DecompressOpen, PlainExit, Fatal, FatalExit, Leave, GoTo
  <2>7. ASSUME NEW which \in {"in", "out"}, Mkstemp(which) \/ Register(which) \/ UnlinkTmp(which)
        PROVE  pc # "exit" /\ opt' = opt
    BY <2>7 DEF Mkstemp, Register, UnlinkTmp, MkstempAt, RegisterAt, UnlinkAt, Fatal, FatalExit, Leave, GoTo
  <2>8. CASE Create \/ Work \/ Close \/ UnlinkInput \/ Release \/ Info
    BY <2>8 DEF Create, Work, Close, UnlinkInput, Release, Info, Fatal, FatalExit, Leave, GoTo
  <2> QED
    BY <2>1, <2>2, <2>3, <2>4, <2>5, <2>6, <2>7, <2>8 DEF Next
<1> QED
  BY <1>1, <1>2 DEF WasInv

\* Every step keeps track of every file that was named.
LEMMA NextDone ==
  ASSUME IInv, WasInv, DInv, [Next]_vars
  PROVE  WasInv' /\ DInv'
<1>1. CASE UNCHANGED vars
  <2>1. UNCHANGED <<pc, opt, args, list, lc, fs, sent, was, argv, cause>>
    BY <1>1 DEF vars
  <2>2. WasInv' /\ (Live' <=> Live)
    BY <2>1 DEF WasInv, Live
  <2>3. /\ StartInv => StartInv'
        /\ OneInv => OneInv'
    BY <2>1 DEF StartInv, OneInv
  <2>4. /\ DepthInv => DepthInv'
        /\ NameInv => NameInv'
    BY <2>1 DEF DepthInv, NameInv, New, Beyond, Sources
  <2>5. WayInv => WayInv'
    BY <2>1 DEF WayInv, New, StdoutNow, Destination
  <2>6. InputInv => InputInv'
    BY <2>1 DEF InputInv
  <2>7. ProgressInv => ProgressInv'
    <3>1. Named' = Named /\ \A n : Converted(n)' <=> Converted(n)
      BY <2>1 DEF Named, Sources, Converted, Shift
    <3>2. \A n : (Waiting(n)' <=> Waiting(n)) /\ (Done(n)' <=> Done(n))
      BY <2>1, <3>1 DEF Waiting, Done
    <3>3. \A n : InHand(n)' <=> InHand(n)
      BY <2>1, <3>1 DEF InHand, Shift
    <3> QED
      BY <2>1, <3>1, <3>2, <3>3 DEF ProgressInv
  <2> QED
    BY <2>2, <2>3, <2>4, <2>5, <2>6, <2>7 DEF DInv, Tracked
<1>2. CASE Next
  <2>0. WasInv' /\ (Live' => Live)
    BY <1>2, HistoryStays
  <2> SUFFICES ASSUME Live'
               PROVE  Tracked'
    BY <2>0 DEF DInv
  <2>1. Live /\ Tracked /\ pc' # "exit" /\ pc # "exit"
    BY <2>0 DEF DInv, Live
  <2>2. ASSUME NEW c \in Options, ParseOption(c) PROVE Tracked'
    BY <2>1, <2>2, ParseOptionDone
  <2>3. CASE EndOptions
    BY <2>1, <2>3, EndOptionsDone
  <2>4. CASE NextArg
    BY <2>1, <2>4, NextArgDone
  <2>5. ASSUME NEW n \in list, Entry(n) PROVE Tracked'
    BY <2>1, <2>5, EntryDone
  <2>6. CASE Finish \/ Terminal \/ SoftFailure \/ Interrupt \/ Exited
    BY <2>1, <2>6 DEF Finish, Terminal, SoftFailure, Interrupt, Exited, PlainExit, FatalExit, Leave
  <2>7. CASE CompressOpen \/ CompressName \/ DecompressName \/ DecompressOpen
    BY <2>1, <2>7, CompressOpenDone, CompressNameDone, DecompressNameDone, DecompressOpenDone
  <2>8. ASSUME NEW which \in {"in", "out"}, Mkstemp(which) \/ Register(which) \/ UnlinkTmp(which) PROVE Tracked'
    BY <2>1, <2>8, TmpDone
  <2>9. CASE Create \/ Work \/ Close \/ UnlinkInput \/ Release
    BY <2>1, <2>9, CreateDone, WorkDone, CloseDone, UnlinkInputDone, ReleaseDone
  <2>10. CASE Info
    BY <2>1, <2>10 DEF Info, Tracked, WayInv
  <2> QED
    BY <1>2, <2>2, <2>3, <2>4, <2>5, <2>6, <2>7, <2>8, <2>9, <2>10 DEF Next
<1> QED
  BY <1>1, <1>2

\* main returns 0 only when nothing waits and nothing is in hand.
LEMMA FinishDone ==
  ASSUME IInv, DInv, SuccessIsDone, [Next]_vars
  PROVE  SuccessIsDone'
<1>1. CASE pc = "exit"
  <2>1. UNCHANGED vars
    <3>1. pc = "exit" => UNCHANGED vars
      <4>1. CASE \E c \in Options : ParseOption(c)
        BY <1>1, <4>1 DEF ParseOption
      <4>2. CASE \E which \in {"in", "out"} : Mkstemp(which) \/ Register(which) \/ UnlinkTmp(which)
        BY <1>1, <4>2 DEF Mkstemp, Register, UnlinkTmp, MkstempAt, RegisterAt, UnlinkAt
      <4> QED
        BY <1>1, <4>1, <4>2 DEF Next, EndOptions, NextArg, Finish, Entry, Terminal, CompressOpen,
           CompressName, DecompressName, DecompressOpen, Create, Work, SoftFailure, Close,
           UnlinkInput, Release, Info, Interrupt, Exited
    <3> QED
      BY <1>1, <3>1
  <2> QED
    BY <2>1 DEF vars, SuccessIsDone, Named, Sources
<1>2. CASE pc # "exit"
  <2> SUFFICES ASSUME exit' = "ok", ~opt'.test, ~opt'.info
               PROVE  SuccessIsDone'
    BY DEF SuccessIsDone
  <2>1. exit = "none"
    BY <1>2 DEF IInv, HandInv
  <2>2. Finish
    <3>1. UNCHANGED exit \/ Finish \/ \E how \in {"fail", "cut", "soft"} : exit' = how
      <4>1. CASE \E c \in Options : ParseOption(c)
        BY <4>1 DEF ParseOption, PlainExit, Leave
      <4>2. CASE \E which \in {"in", "out"} : Mkstemp(which) \/ Register(which) \/ UnlinkTmp(which)
        BY <4>2 DEF Mkstemp, Register, UnlinkTmp, Fatal, FatalExit, Leave, GoTo
      <4>3. CASE EndOptions \/ NextArg \/ Terminal \/ SoftFailure \/ Interrupt \/ Exited
        BY <4>3 DEF EndOptions, NextArg, Terminal, SoftFailure, Interrupt, Exited, PlainExit, FatalExit, Leave, vars
      <4>4. CASE \E n \in list : Entry(n)
        BY <4>4 DEF Entry
      <4>5. CASE CompressOpen \/ CompressName \/ DecompressName \/ DecompressOpen
        BY <4>5 DEF CompressOpen, CompressName, DecompressName, DecompressOpen, PlainExit, Fatal, FatalExit,
                    Leave, GoTo
      <4>6. CASE Create \/ Work \/ Close \/ UnlinkInput \/ Release \/ Info
        BY <4>6 DEF Create, Work, Close, UnlinkInput, Release, Info, Fatal, FatalExit, Leave, GoTo
      <4>7. CASE UNCHANGED vars
        BY <4>7 DEF vars
      <4> QED
        BY <4>1, <4>2, <4>3, <4>4, <4>5, <4>6, <4>7 DEF Next
    <3> QED
      BY <2>1, <3>1
  <2>3. /\ pc = "loop" /\ list = {} /\ args = <<>>
        /\ UNCHANGED <<opt, fs, sent, was, argv, cause>>
    BY <2>2 DEF Finish, PlainExit, history
  <2>4. Tracked
    BY <2>3 DEF DInv, Live
  <2>5. \A n \in Named : cause[n] = {} => Done(n)
    <3>1. Len(<<>>) = 0
      OBVIOUS
    <3> QED
      BY <2>3, <2>4, <3>1 DEF Tracked, ProgressInv, Waiting, InHand, Opened
  <2>6. Named' = Named
    BY <2>3 DEF Named, Sources
  <2> QED
    BY <2>3, <2>5, <2>6 DEF SuccessIsDone, Done, Converted, Shift
<1> QED
  BY <1>1, <1>2

\* An exit status of 0 is the truth: every file the arguments named, itself or by its
\* directory, was converted and is in a complete output or went to stdout, and the original
\* is there exactly when files are to be kept; only the names after a "-" and the files -f
\* has replaced are excepted.  For every list of files, options and starts.
THEOREM SuccessMeansDone == Spec => []SuccessIsDone
<1>1. Init => SuccessIsDone
  BY DEF Init, SuccessIsDone
<1> QED
  BY <1>1, InitDone, NextDone, FinishDone, SpecIInv, PTL DEF Spec
==============================================================================
