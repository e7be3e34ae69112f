------------------------------ MODULE MCPasses ------------------------------
(***************************************************************************)
(* Every text of x86 bytes of the length given, with the three that matter *)
(* to the converter (an opcode and the two top bytes of a near operand),   *)
(* at two places of a chunk; every sequence of a few arm64 words; digests  *)
(* of messages up to three blocks; every buffer of up to nine bits in      *)
(* blocks of three.                                                        *)
(***************************************************************************)
EXTENDS Passes

CONSTANTS X86Len, X86Bytes, Words, MaxWords, MsgLen, CryptLen

Job(stage, text, mode, base, salt) ==
  [stage |-> stage, text |-> text, mode |-> mode, base |-> base, salt |-> salt]

Texts(n) == [1 .. n -> X86Bytes]

(* Words of arm64: near and far calls, page addresses that wrap either way *)
(* and one too far to convert, and data.                                   *)
MCWords ==
  { <<0, 0, 0, 148>>, <<255, 255, 255, 151>>, <<37, 0, 0, 144>>, <<229, 255, 255, 240>>,
    <<224, 255, 15, 208>>, <<0, 0, 32, 176>>, <<1, 2, 3, 4>> }
ArmTexts == {FlattenSeq(s) \o t : s \in UNION {[1 .. n -> Words] : n \in 1 .. MaxWords},
                                  t \in {<<>>, <<0, 0, 148>>}}

MCJobs ==
  {Job("chunk", t, X86, 1513488, 0) : t \in Texts(X86Len)}
  \cup {Job("chunk", t, X86, 0, 0) : t \in Texts(X86Len - 2)}
  \cup {Job("chunk", t, ARM64, b, 0) : t \in ArmTexts, b \in {0, 12296}}
  \cup {Job("chunk", <<232, 0, 0, 0, 0, 9>>, m, 0, 0) : m \in {-1, NoFilter, Delta(1)}}
  \cup {Job("chunk", <<232, 0>>, X86, 0, 0)}
  \cup {Job("block", t, m, 0, 0) : t \in UNION {Texts(n) : n \in 0 .. 6},
                                   m \in {-1} \cup NoFilter .. FilterMax}
  \cup {Job(s, [k \in 1 .. n |-> k], 0, 0, 0) : s \in {"md5", "sha4"}, n \in 0 .. MsgLen}
  \cup {Job("payload", t, 0, 0, s) : t \in UNION {[1 .. n -> Bit01] : n \in 0 .. CryptLen},
                                     s \in DOMAIN Aes}
  \cup {Job("header", t, 0, 0, s) : t \in [1 .. CbcLen + 2 -> Bit01], s \in DOMAIN Aes}

Sizes(x, a) == [k \in X86 .. FilterMax |-> IF k = X86 THEN x ELSE IF k = ARM64 THEN a ELSE 90]
Probe(got, plain, x, a, dups, dx, da, bl) ==
  [mem |-> got, plain |-> plain, size |-> Sizes(x, a), bl |-> bl,
   dups |-> [k \in {NoFilter, X86, ARM64} |->
               IF k = X86 THEN dx ELSE IF k = ARM64 THEN da ELSE dups]]
MCProbes ==
  { Probe(FALSE, 90, 80, 80, 1, 2, 2, 30), Probe(TRUE, 90, 80, Failed, 1, 2, 2, 0),
    Probe(TRUE, 90, 90, 80, 1, 1, 1, 30), Probe(TRUE, 90, 90, 90, 0, 1, 0, 30),
    Probe(TRUE, Failed, 80, 80, 0, 0, 0, 30) }

(* Two keys: permutations of the eight blocks that are not linear. *)
Number(b) == b[1] + 2 * b[2] + 4 * b[3]
MCAes ==
  <<[b \in BlockSet |-> CHOOSE c \in BlockSet : Number(c) = <<3, 6, 0, 5, 7, 1, 4, 2>>[Number(b) + 1]],
    [b \in BlockSet |-> CHOOSE c \in BlockSet : Number(c) = <<1, 2, 4, 0, 6, 7, 5, 3>>[Number(b) + 1]]>>
MCIv == <<<<1, 0, 1>>, <<0, 1, 1>>>>
=============================================================================
