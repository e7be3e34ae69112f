------------------------------- MODULE Session -------------------------------
(***************************************************************************)
(* One run of the program over its arguments: the configuration file and   *)
(* the options in the order given (main), the loop over the files, the     *)
(* temporary, partial and finished files that compress_file and            *)
(* decompress_file leave in the file system, and the two ways out, a       *)
(* return to main and fatal_exit, which a signal may force at any time.    *)
(*                                                                         *)
(* A name is <<directory, base, has the suffix>>.  A file is what it holds: *)
(* the file of the start it descends from, how often that was compressed,  *)
(* and whether all of it is there.  What (de)compression does to the bytes *)
(* is module Archive; here it succeeds or fails.                           *)
(***************************************************************************)
EXTENDS Integers, Sequences, FiniteSets

CONSTANTS
  Dirs, Bases,  \* the parts of a file name
  Programs,     \* the names the program may be called by
  Configs,      \* the settings lrzip.conf may hold
  Inits,        \* the file systems a run may start with
  ArgLists,     \* the arguments a run may be given
  Options,      \* the options a run may be given, in any order
  MaxOptions,   \* how many of them at most
  Signals       \* whether SIGINT and SIGTERM arrive

ASSUME SessionAssumption == MaxOptions \in Nat /\ Signals \in BOOLEAN

VARIABLES
  pc,      \* what the process does next
  opt,     \* base_control: flags, outname and outdir, and main's recurse and compat
  given,   \* the options parsed so far
  args,    \* the arguments that are left
  list,    \* infile, or what recurse_dirlist found
  lc,      \* local_control of the file in hand
  fs,      \* the file system, temporary files aside
  tmp,     \* the temporary files that have a name: "in", "out"
  sent,    \* what went to stdout in full
  exit,    \* "none", "ok" or "fail"; "soft" and "cut": see SoftFailure, Interrupt
  was,     \* history: the file system at the start
  argv,    \* history: the arguments at the start
  cause    \* history: why a file of the start is not there any more

vars == <<pc, opt, given, args, list, lc, fs, tmp, sent, exit, was, argv, cause>>

Names  == Dirs \X Bases \X BOOLEAN
None   == <<"", "none", FALSE>>
Stdin  == <<"", "-", FALSE>>
DirArg(d) == <<d, "", FALSE>>
DirArgs   == {DirArg(d) : d \in Dirs}

File(src, depth, whole) == [src |-> src, depth |-> depth, whole |-> whole]
Absent == File(None, 0, FALSE)
Files == [src : Names \cup {Stdin}, depth : Int, whole : BOOLEAN]
Sources == {n \in Names : was[n] # Absent}

(* Names are not empty, the files of the start are complete, and options     *)
(* take the operands getopt and main accept.                                 *)
ASSUME NamesAssumption == "" \notin Dirs
ASSUME InitsAssumption ==
  \A f \in Inits : /\ f \in [Names -> Files \cup {Absent}]
                   /\ \A n \in Names : f[n] # Absent => f[n].src = n /\ f[n].whole
ASSUME ArgsAssumption == ArgLists \subseteq Seq(Names \cup DirArgs \cup {Stdin})
ASSUME OptionsAssumption ==
  \A c \in Options : /\ c[1] \in {"c", "d", "D", "f", "i", "k", "o", "O", "r", "t"}
                     /\ c[1] = "o" => c[2] \in Names \cup {Stdin}
                     /\ c[1] = "O" => c[2] \in DirArgs

Causes == {"force", "early", "late", "test", "sticky"}

(* What the program is called sets flags before any option does. *)
Program(name) ==
  [decompress |-> name \in {"lrunzip", "lrzcat"}, stdout |-> name = "lrzcat",
   lrzcat |-> name = "lrzcat", compat |-> name = "lrz", keep |-> name # "lrz",
   broken |-> FALSE, force |-> FALSE, test |-> FALSE, info |-> FALSE, stdin |-> FALSE,
   recurse |-> FALSE, outname |-> None, outdir |-> ""]

(* read_config: keepbroken, DELETEFILES and REPLACEFILE. *)
ReadConfig(o, conf) ==
  [o EXCEPT !.broken = @ \/ "keepbroken" \in conf,
            !.keep   = @ /\ "DELETEFILES" \notin conf,
            !.force  = @ \/ "REPLACEFILE" \in conf]

(* data is what fd_in reads; mine and gone are history: outfile is a file *)
(* this run created, infile was unlinked.                                 *)
NoLocal == [infile |-> None, data |-> Absent, outfile |-> None, broken |-> FALSE, stdout |-> FALSE,
            test |-> FALSE, registered |-> {}, mine |-> FALSE, gone |-> FALSE]

Init ==
  /\ pc = "options" /\ given = {} /\ list = {} /\ lc = NoLocal
  /\ \E name \in Programs, conf \in Configs : opt = ReadConfig(Program(name), conf)
  /\ args \in ArgLists /\ argv = args
  /\ fs \in Inits /\ was = fs
  /\ tmp = {} /\ sent = {} /\ exit = "none" /\ cause = [n \in Sources |-> {}]

history == <<was, argv>>

-----------------------------------------------------------------------------
(* The ways out. *)

Leave(how) == pc' = "exit" /\ exit' = how

Blame(files, why) == cause' = [n \in Sources |-> IF n \in files THEN cause[n] \cup why ELSE cause[n]]

SrcAt(n) == IF fs[n] = Absent THEN {} ELSE {fs[n].src} \cap Sources

(* fatal_exit(l): registered temporary files go, and so does the output   *)
(* file unless it is to be kept.  It is known by its name only: before    *)
(* our own open that name may belong to another file, and after the input *)
(* is unlinked it is the only copy.                                       *)
UnlinksOutput(l) == ~l.stdout /\ ~l.test /\ l.outfile # None /\ ~l.broken

FatalExit(l, how, why) ==
  /\ Leave(how)
  /\ tmp' = tmp \ l.registered
  /\ IF UnlinksOutput(l)
       THEN fs' = [fs EXCEPT ![l.outfile] = Absent] /\ Blame(SrcAt(l.outfile), why)
       ELSE UNCHANGED <<fs, cause>>
  /\ UNCHANGED <<opt, given, args, list, lc, sent, history>>

(* A failure of the step in hand. *)
Excuse == IF ~lc.mine THEN {"early"} ELSE IF lc.gone THEN {"late"} ELSE {}
Fatal  == FatalExit(lc, "fail", Excuse)

(* exit() in main, without fatal_exit's clean-up. *)
PlainExit(how) == Leave(how) /\ UNCHANGED <<opt, given, args, list, lc, fs, tmp, sent, history, cause>>

-----------------------------------------------------------------------------
(* Options: one at a time, in the order of the command line. *)

(* The options this option may not follow. *)
Refused(c) ==
  CASE c[1] = "o" -> opt.outdir # "" \/ opt.stdout
    [] c[1] = "O" -> opt.outname # None \/ opt.stdout
    [] c[1] = "t" -> opt.outname # None \/ ~(opt.compat \/ opt.keep)
    [] OTHER -> FALSE

Parsed(o, c) ==
  CASE c[1] = "c" -> IF o.compat THEN [o EXCEPT !.keep = TRUE, !.stdout = TRUE] ELSE o
    [] c[1] = "d" -> [o EXCEPT !.decompress = TRUE]
    [] c[1] = "D" -> [o EXCEPT !.keep = FALSE]
    [] c[1] = "f" -> [o EXCEPT !.force = TRUE]
    [] c[1] = "i" -> [o EXCEPT !.info = TRUE, !.decompress = FALSE]
    [] c[1] = "k" -> IF o.compat THEN [o EXCEPT !.keep = TRUE] ELSE [o EXCEPT !.broken = TRUE]
    [] c[1] = "o" -> [o EXCEPT !.outname = c[2]]
    [] c[1] = "O" -> [o EXCEPT !.outdir = c[2][1]]
    [] c[1] = "r" -> [o EXCEPT !.recurse = TRUE]
    [] c[1] = "t" -> [o EXCEPT !.test = TRUE, !.keep = @ \/ o.compat]

(* coptions, the options of lrz, has no D, but --delete of long_options is *)
(* taken in both modes. *)
ParseOption(c) ==
  /\ pc = "options" /\ Cardinality(given) < MaxOptions
  /\ c \notin given
  /\ IF Refused(c)
       THEN PlainExit("fail")
       ELSE /\ opt' = Parsed(opt, c) /\ given' = given \cup {c}
            /\ UNCHANGED <<pc, args, list, lc, fs, tmp, sent, exit, history, cause>>

(* What main checks once all are known; without arguments it reads stdin. *)
EndOptions ==
  /\ pc = "options"
  /\ IF opt.outname # None /\ (Len(args) > 1 \/ opt.recurse)
       THEN PlainExit("fail")
       ELSE /\ pc' = "loop"
            /\ opt' = [opt EXCEPT !.stdin = args = <<>>]
            /\ args' = IF args = <<>> THEN <<None>> ELSE args
            /\ given' = {}
            /\ UNCHANGED <<list, lc, fs, tmp, sent, exit, history, cause>>

-----------------------------------------------------------------------------
(* The loop over the arguments. *)

(* recurse_dirlist: the regular files below a directory when it is read. *)
RecurseDirlist(dir) == {n \in Names : n[1] = dir /\ fs[n] # Absent}

(* stat, the checks on the argument, and the list of files it stands for. *)
NextArg ==
  /\ pc = "loop" /\ list = {} /\ args # <<>>
  /\ \E a \in {Head(args)}, stdin \in {opt.stdin \/ Head(args) = Stdin} :
       IF \/ a \in Names /\ (fs[a] = Absent \/ opt.recurse)
          \/ a \in DirArgs /\ ~opt.recurse
          \/ opt.recurse /\ (stdin \/ opt.stdout)
          \/ opt.info /\ stdin
         THEN PlainExit("fail")
         ELSE /\ opt' = [opt EXCEPT !.stdin = stdin]
              /\ list' = IF a \in DirArgs THEN RecurseDirlist(a[1]) ELSE {a}
              /\ args' = Tail(args)
              /\ pc' = IF list' = {} THEN "loop" ELSE "entry"
              /\ UNCHANGED <<given, lc, fs, tmp, sent, exit, history, cause>>

(* main returns 0 when no argument is left. *)
Finish == pc = "loop" /\ list = {} /\ args = <<>> /\ PlainExit("ok")

StdoutNow == opt.stdout \/ opt.lrzcat \/ opt.outname = Stdin \/ (opt.outname = None /\ opt.stdin)

(* The next file: stdout by default for stdin, a copy of the flags for     *)
(* this file, and the function the flags ask for.  readdir's order is any. *)
Entry(n) ==
  /\ pc = "entry"
  /\ \E stdout \in {StdoutNow} :
       /\ opt' = [opt EXCEPT !.stdout = stdout]
       /\ lc' = [NoLocal EXCEPT !.infile = n, !.broken = opt.broken, !.stdout = stdout,
                                !.test = opt.test]
       /\ pc' = IF opt.decompress \/ opt.test THEN "d_name" ELSE IF opt.info THEN "info" ELSE "c_in"
       /\ list' = list \ {n}
       /\ IF opt.stdin /\ n \in Sources THEN Blame({n}, {"sticky"}) ELSE UNCHANGED cause
       /\ UNCHANGED <<given, args, fs, tmp, sent, exit, history>>

(* Without -f main neither reads stdin from a terminal nor writes there. *)
Terminal ==
  /\ pc = "entry" /\ ~opt.force
  /\ \/ opt.stdin
     \/ StdoutNow /\ ~opt.test /\ ~opt.compat
  /\ PlainExit("fail")

Content == IF opt.stdin THEN File(Stdin, 1, TRUE) ELSE fs[lc.infile]

GoTo(state) == pc' = state /\ UNCHANGED <<opt, given, args, list, exit, history>>

-----------------------------------------------------------------------------
(* compress_file *)

(* A name that has the suffix already ends the whole run, unless -o, which *)
(* empties the suffix, was given.                                          *)
Skipped == ~opt.stdin /\ opt.outname = None /\ lc.infile[3]

(* A variant that goes on with the next file. *)
SkipAndContinue ==
  /\ pc = "c_in"
  /\ \/ ~opt.stdin /\ Fatal
     \/ /\ ~opt.stdin => fs[lc.infile] # Absent
        /\ lc' = [lc EXCEPT !.data = Content]
        /\ GoTo(IF Skipped THEN "release" ELSE "c_name") /\ UNCHANGED <<fs, tmp, sent, cause>>

CompressOpen ==
  /\ pc = "c_in"
  /\ \/ Skipped /\ PlainExit("fail")
     \/ ~Skipped /\ ~opt.stdin /\ Fatal
     \/ /\ ~Skipped
        /\ ~opt.stdin => fs[lc.infile] # Absent
        /\ lc' = [lc EXCEPT !.data = Content]
        /\ GoTo("c_name") /\ UNCHANGED <<fs, tmp, sent, cause>>

CompressName ==
  /\ pc = "c_name"
  /\ lc' = IF opt.stdout THEN lc
           ELSE [lc EXCEPT !.outfile =
                   IF opt.outname # None THEN opt.outname
                   ELSE <<IF opt.outdir # "" THEN opt.outdir ELSE lc.infile[1], lc.infile[2], TRUE>>]
  /\ GoTo(IF opt.stdout THEN "mkstemp_out" ELSE "create")
  /\ UNCHANGED <<fs, tmp, sent, cause>>

-----------------------------------------------------------------------------
(* decompress_file *)

(* The output name: the input's without its suffix. *)
DecompressName ==
  /\ pc = "d_name"
  /\ lc' = IF opt.stdout \/ opt.test THEN lc
           ELSE [lc EXCEPT !.outfile =
                   IF opt.outname # None THEN opt.outname
                   ELSE <<IF opt.outdir # "" THEN opt.outdir ELSE lc.infile[1], lc.infile[2], FALSE>>]
  /\ GoTo(IF opt.stdin THEN "mkstemp_in" ELSE "d_in")
  /\ UNCHANGED <<fs, tmp, sent, cause>>

(* The input: a file, or stdin with a temporary file behind it, whose     *)
(* magic is read at once.                                                 *)
DecompressOpen ==
  /\ pc = "d_in"
  /\ \/ Fatal
     \/ /\ ~opt.stdin => fs[lc.infile] # Absent
        /\ lc' = [lc EXCEPT !.data = Content]
        /\ GoTo(IF opt.stdout \/ opt.test THEN "mkstemp_out" ELSE "create")
        /\ UNCHANGED <<fs, tmp, sent, cause>>

-----------------------------------------------------------------------------
(* Both: the output file, the work, the end. *)

(* open_tmpinfile and open_tmpoutfile: mkstemp, register, unlink.  When    *)
(* mkstemp fails the program goes on without the file.                     *)
MkstempAt  == [in |-> "mkstemp_in", out |-> "mkstemp_out"]
RegisterAt == [in |-> "register_in", out |-> "register_out"]
UnlinkAt   == [in |-> "unlink_in", out |-> "unlink_out"]
AfterTmp   == [in |-> "d_in", out |-> "work"]

Mkstemp(which) ==
  /\ pc = MkstempAt[which]
  /\ \/ tmp' = tmp \cup {which} /\ GoTo(RegisterAt[which])
     \/ UNCHANGED tmp /\ GoTo(AfterTmp[which])
  /\ UNCHANGED <<lc, fs, sent, cause>>

(* A variant that does not register. *)
RegisterNothing(which) ==
  /\ pc = RegisterAt[which]
  /\ GoTo(UnlinkAt[which])
  /\ UNCHANGED <<lc, fs, tmp, sent, cause>>

Register(which) ==
  /\ pc = RegisterAt[which]
  /\ lc' = [lc EXCEPT !.registered = @ \cup {which}]
  /\ GoTo(UnlinkAt[which])
  /\ UNCHANGED <<fs, tmp, sent, cause>>

UnlinkTmp(which) ==
  /\ pc = UnlinkAt[which]
  /\ \/ tmp' = tmp \ {which} /\ GoTo(AfterTmp[which]) /\ UNCHANGED <<lc, fs, sent, cause>>
     \/ Fatal

(* A variant that leaves it to fatal_exit. *)
DeleteBroken(l) == l

(* A failed open must not delete the file that is in the way, so            *)
(* FLAG_KEEP_BROKEN is set first.                                           *)
KeepBroken(l) == [l EXCEPT !.broken = TRUE]

(* open with O_EXCL; with -f an existing file is unlinked and the open      *)
(* repeated.                                                                *)
Create ==
  /\ pc = "create"
  /\ \/ FatalExit(KeepBroken(lc), "fail", {})
     \/ /\ fs[lc.outfile] = Absent \/ opt.force
        /\ Blame(SrcAt(lc.outfile), {"force"})
        /\ fs' = [fs EXCEPT ![lc.outfile] =
                    File(lc.data.src, lc.data.depth + (IF opt.decompress THEN -1 ELSE 1), FALSE)]
        /\ lc' = [lc EXCEPT !.mine = TRUE]
        /\ GoTo("work")
        /\ UNCHANGED <<tmp, sent>>

(* rzip_fd and write_magic, or read_magic, the check of the free space and *)
(* runzip_fd.  What is not an archive fails; anything may.  runzip_fd also *)
(* returns without fatal_exit, on a streamed archive without a last block. *)
SoftFailure ==
  /\ pc = "work" /\ (opt.decompress \/ opt.test)
  /\ PlainExit("soft")

Work ==
  /\ pc = "work"
  /\ \/ Fatal
     \/ /\ opt.decompress \/ opt.test => lc.data.depth > 0
        /\ fs' = IF opt.stdout \/ opt.test THEN fs ELSE [fs EXCEPT ![lc.outfile].whole = TRUE]
        /\ sent' = IF opt.stdout /\ ~opt.test /\ ~opt.stdin
                     THEN sent \cup {lc.data.src} ELSE sent
        /\ GoTo("close")
        /\ UNCHANGED <<lc, tmp, cause>>

(* preserve_times, the closes, and the input unless it is kept. *)
Close ==
  /\ pc = "close"
  /\ \/ Fatal
     \/ GoTo(IF opt.keep \/ opt.stdin THEN "release" ELSE "unlink") /\ UNCHANGED <<lc, fs, tmp, sent, cause>>

UnlinkInput ==
  /\ pc = "unlink"
  /\ \/ Fatal
     \/ /\ fs[lc.infile] # Absent
        /\ fs' = [fs EXCEPT ![lc.infile] = Absent]
        /\ lc' = [lc EXCEPT !.gone = TRUE]
        /\ IF opt.test THEN Blame(SrcAt(lc.infile), {"test"}) ELSE UNCHANGED cause
        /\ GoTo("release")
        /\ UNCHANGED <<tmp, sent>>

(* dealloc(outfile), return true, and main's loop. *)
Release ==
  /\ pc = "release"
  /\ lc' = [lc EXCEPT !.outfile = None]
  /\ GoTo(IF list = {} THEN "loop" ELSE "entry")
  /\ UNCHANGED <<fs, tmp, sent, cause>>

(* get_fileinfo changes nothing. *)
Info ==
  /\ pc = "info"
  /\ \/ Fatal
     \/ /\ fs[lc.infile] # Absent /\ fs[lc.infile].depth > 0
        /\ GoTo("release") /\ UNCHANGED <<lc, fs, tmp, sent, cause>>

(* sighandler: fatal_exit on local_control, whose outfile is NULL between   *)
(* files.  Between mkstemp and register_outfile nobody knows of the file.  *)
Interrupt ==
  /\ Signals /\ pc # "exit"
  /\ FatalExit(lc, IF pc \in {"register_in", "register_out"} THEN "cut" ELSE "fail", Excuse)

Exited == pc = "exit" /\ UNCHANGED vars

Next ==
  \/ \E c \in Options : ParseOption(c)
  \/ EndOptions \/ NextArg \/ Finish
  \/ \E n \in list : Entry(n)
  \/ Terminal
  \/ CompressOpen \/ CompressName \/ DecompressName \/ DecompressOpen
  \/ \E which \in {"in", "out"} : Mkstemp(which) \/ Register(which) \/ UnlinkTmp(which)
  \/ Create \/ Work \/ SoftFailure \/ Close \/ UnlinkInput \/ Release \/ Info
  \/ Interrupt \/ Exited

Spec == Init /\ [][Next]_vars

-----------------------------------------------------------------------------
OptType ==
  [decompress : BOOLEAN, stdout : BOOLEAN, lrzcat : BOOLEAN, compat : BOOLEAN, keep : BOOLEAN,
   broken : BOOLEAN, force : BOOLEAN, test : BOOLEAN, info : BOOLEAN, stdin : BOOLEAN,
   recurse : BOOLEAN, outname : Names \cup {None, Stdin}, outdir : Dirs \cup {""}]

LocalType ==
  [infile : Names \cup {Stdin, None}, data : Files \cup {Absent}, outfile : Names \cup {None},
   broken : BOOLEAN, stdout : BOOLEAN, test : BOOLEAN, registered : SUBSET {"in", "out"},
   mine : BOOLEAN, gone : BOOLEAN]

(* Where initialise, compress_file and decompress_file are, the flags, the   *)
(* files, the lists and the names that are still held keep their types.      *)
TypeOK ==
  /\ pc \in {"options", "loop", "entry", "info", "c_in", "c_name", "d_name", "d_in", "create",
             "mkstemp_in", "mkstemp_out", "register_in", "register_out", "unlink_in", "unlink_out",
             "work", "close", "unlink", "release", "exit"}
  /\ exit \in {"none", "ok", "fail", "soft", "cut"}
  /\ opt \in OptType /\ lc \in LocalType
  /\ was \in [Names -> Files \cup {Absent}]
  /\ fs \in [Names -> Files \cup {Absent}]
  /\ args \in Seq(Names \cup DirArgs \cup {Stdin, None})
  /\ list \subseteq Names \cup {Stdin, None}
  /\ tmp \subseteq {"in", "out"} /\ sent \subseteq Sources
  /\ cause \in [Sources -> SUBSET Causes]

(* What the file n held at the start can still be had. *)
Held(n) == n \in sent \/ \E m \in Names : fs[m] # Absent /\ fs[m].whole /\ fs[m].src = n

(* No file of the start is lost: at every instant, whatever fails and        *)
(* whenever a signal arrives, it is there, or a complete output made from it *)
(* is, or it went to stdout in full.  The exceptions are -f, which unlinks   *)
(* what is in the way; fatal_exit before the output file was created, which  *)
(* unlinks whatever has its name; a signal between the unlink of the input   *)
(* and dealloc(outfile), which unlinks the only copy; and -D after -t.       *)
LossIsKnown ==
  /\ TypeOK
  /\ \A n \in Sources : Held(n) \/ cause[n] \cap {"force", "early", "late", "test"} # {}

(* The files of the start that the arguments name, directories resolved. *)
Named == {n \in Sources : \E k \in DOMAIN argv : argv[k] \in {n, DirArg(n[1])}}

(* An exit status of 0 means that every file named was converted, and that  *)
(* the original is there exactly when files are to be kept.  Not so for     *)
(* the names after a "-": FLAG_STDIN stays set and they are never opened.   *)
SuccessIsDone ==
  exit = "ok" /\ ~opt.test /\ ~opt.info =>
    \A n \in Named : cause[n] = {} =>
      /\ n \in sent \/ \E m \in Names : fs[m] = File(n, was[n].depth + (IF opt.decompress THEN -1 ELSE 1), TRUE)
      /\ IF opt.keep THEN fs[n] = was[n] ELSE fs[n] # was[n]

(* Unless broken files are to be kept, no exit leaves a temporary file or    *)
(* an unfinished output behind, except where runzip_fd fails without         *)
(* fatal_exit and where a signal finds a temporary file not yet registered.  *)
NothingLeft ==
  exit \in {"ok", "fail"} =>
    /\ tmp = {}
    /\ lc.broken \/ \A n \in Names : fs[n] # Absent => fs[n].whole

(* -f was not given and files are to be kept: the files of the start are    *)
(* as they were.                                                            *)
ExistingKept == ~opt.force /\ opt.keep => \A n \in Sources : fs[n] = was[n]

(* A run that only tests leaves every file as it was. *)
TestKeeps == opt.test => \A n \in Sources : fs[n] = was[n]
==============================================================================
