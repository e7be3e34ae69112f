------------------------------- MODULE Passes -------------------------------
(***************************************************************************)
(* Bytes that pass through a stage on the way into the archive and through *)
(* its inverse on the way out, cut in different places on the two sides:   *)
(*                                                                         *)
(*   chunk    a prefilter over a whole chunk at once (rzip_chunk), undone  *)
(*            slice by slice with the bytes left over carried along        *)
(*            (unfilter_chunk);                                            *)
(*   block    a filter over the block of a back end, both ways at once;    *)
(*   md5,     the digest of bytes given in pieces of any size;             *)
(*   sha4                                                                  *)
(*   payload  a block enciphered, padded to a cipher block when short;     *)
(*   header   a block header written in clear, its last_head set later and *)
(*            then enciphered in place (rewrite_encrypted).                *)
(***************************************************************************)
EXTENDS Filters, Digests, CbcStealing

CONSTANTS
  Jobs,         \* what may be done: records stage, text, mode, base, salt
  Probes,       \* what the filter trials may measure
  Slice,        \* bytes unfilter_chunk reads at a time (16 MiB)
  MinChunk,     \* the smallest chunk that is prefiltered (1 MiB)
  HeadLen       \* bytes of a header before its last_head (17 of 25)

VARIABLES
  job,
  pc,           \* "in", "stored", "out", "done", "failed"
  mem,          \* the bytes where they are converted in place
  fs,           \* lrz_filter_stream of the side at work
  carry,        \* bytes of the last slice that were not done
  processed,    \* bytes done
  fed,          \* what the checksums were fed: in, then out
  ctx,          \* the digest's context
  at,           \* bytes of the text given to the digest
  kept          \* what the archive says of the bytes: filter, c_len, salt

vars == <<job, pc, mem, fs, carry, processed, fed, ctx, at, kept>>

NoFs   == StreamInit(NoFilter, TRUE)
NoneKept == [filter |-> NoFilter, c_len |-> 0, broken |-> FALSE]

Init ==
  /\ job \in Jobs
  /\ pc = "in" /\ mem = job.text /\ fs = NoFs /\ carry = <<>> /\ processed = 0
  /\ fed = [in |-> <<>>, out |-> <<>>] /\ at = 0 /\ kept = NoneKept
  /\ ctx = CASE job.stage = "md5" -> md5_init_ctx [] job.stage = "sha4" -> sha4_starts
             [] OTHER -> <<>>

-----------------------------------------------------------------------------
(* The chunk prefilter                                                     *)

ChunkKinds ==
  IF job.mode = NoFilter \/ Len(job.text) < MinChunk THEN {NoFilter}
  ELSE IF job.mode > 0 THEN {IF job.mode <= ChunkFilterMax THEN job.mode ELSE NoFilter}
  ELSE {ChunkFilterPick(Len(job.text), probe) : probe \in Probes}

\* rzip_chunk: the checksum takes the original bytes, whether they are
\* converted or not.  They are not when the chunk does not qualify (not lzma,
\* not mapped whole) and when the private map cannot be had.
PrefilterChunk ==
  /\ job.stage = "chunk" /\ pc = "in"
  /\ \E kind \in ChunkKinds : \E mapped \in BOOLEAN :
       LET k == IF mapped THEN kind ELSE NoFilter IN
       /\ mem' = ConvertMem(mem, k, TRUE, job.base)
       /\ kept' = [kept EXCEPT !.filter = k]
  /\ fed' = [fed EXCEPT !.in = mem]
  /\ pc' = "stored"
  /\ UNCHANGED <<job, fs, carry, processed, ctx, at>>

\* unfilter_chunk begins; a chunk with no filter was summed as it was
\* written.
StartUnfilter ==
  /\ job.stage = "chunk" /\ pc = "stored"
  /\ fs' = [StreamInit(kept.filter, FALSE) EXCEPT !.pc = job.base]
  /\ IF kept.filter = NoFilter
     THEN pc' = "done" /\ fed' = [fed EXCEPT !.out = mem]
     ELSE pc' = "out" /\ UNCHANGED fed
  /\ UNCHANGED <<job, mem, carry, processed, ctx, at, kept>>

\* All of it in the temporary buffer.
UnfilterMem ==
  /\ job.stage = "chunk" /\ pc = "out" /\ processed = 0 /\ carry = <<>>
  /\ LET x == StreamConv(fs, mem, TRUE) IN
     /\ mem' = x.buf /\ fs' = x.fs /\ fed' = [fed EXCEPT !.out = x.buf]
  /\ pc' = "done"
  /\ UNCHANGED <<job, carry, processed, ctx, at, kept>>

\* One round of its loop over the file: read after what was carried, write
\* and sum what is done, carry the rest.
UnfilterSlice ==
  /\ job.stage = "chunk" /\ pc = "out" /\ processed + Len(carry) < Len(mem)
  /\ LET from == processed + Len(carry)
         n    == Min({Slice - Len(carry), Len(mem) - from})
         buf  == carry \o SubSeq(mem, from + 1, from + n)
     IN \E x \in {StreamConv(fs, buf, processed + Len(buf) = Len(mem))} :
          LET out == SubSeq(x.buf, 1, x.done) IN
          /\ mem' = Put(mem, processed, out)
          /\ fed' = [fed EXCEPT !.out = @ \o out]
          /\ carry' = SubSeq(x.buf, x.done + 1, Len(x.buf))
          /\ processed' = processed + x.done
          /\ fs' = x.fs
          /\ pc' = IF processed + Len(buf) = Len(mem) THEN "done" ELSE "out"
  /\ UNCHANGED <<job, ctx, at, kept>>

\* A read or a write fails.
UnfilterFails ==
  /\ job.stage = "chunk" /\ pc = "out"
  /\ pc' = "failed"
  /\ UNCHANGED <<job, mem, fs, carry, processed, fed, ctx, at, kept>>

-----------------------------------------------------------------------------
(* The filter of a block                                                   *)

FilterBlock ==
  /\ job.stage = "block" /\ pc = "in"
  /\ \E k \in {StreamFilterPick(job.mode, Len(mem), probe) : probe \in Probes} :
       /\ mem' = ConvertMem(mem, k, TRUE, 0)
       /\ kept' = [kept EXCEPT !.filter = k]
  /\ pc' = "stored"
  /\ UNCHANGED <<job, fs, carry, processed, fed, ctx, at>>

UnfilterBlock ==
  /\ job.stage = "block" /\ pc = "stored"
  /\ mem' = ConvertMem(mem, kept.filter, FALSE, 0)
  /\ pc' = "done"
  /\ UNCHANGED <<job, fs, carry, processed, fed, ctx, at, kept>>

-----------------------------------------------------------------------------
(* Digests                                                                 *)

Digest ==
  /\ job.stage \in {"md5", "sha4"} /\ pc = "in"
  /\ \E n \in 0 .. Len(job.text) - at : \E aligned \in BOOLEAN :
       LET s == SubSeq(job.text, at + 1, at + n) IN
       /\ job.stage = "sha4" => n < WordMod      \* an int, counted in 64 bits
       /\ ctx' = IF job.stage = "md5" THEN md5_process_bytes(ctx, s, aligned)
                 ELSE sha4_update(ctx, s)
       /\ at' = at + n
  /\ UNCHANGED <<job, pc, mem, fs, carry, processed, fed, kept>>

Finish ==
  /\ job.stage \in {"md5", "sha4"} /\ pc = "in" /\ at = Len(job.text)
  /\ mem' = IF job.stage = "md5" THEN md5_finish_ctx(ctx) ELSE sha4_finish(ctx)
  /\ pc' = "done"
  /\ UNCHANGED <<job, fs, carry, processed, fed, ctx, at, kept>>

-----------------------------------------------------------------------------
(* Encryption                                                              *)

\* The least encrypted block of the CBC format (AEAD blocks have none).
MinSize == CbcLen

\* compthread: a short block is padded with whatever get_rand gives.
EncryptPayload ==
  /\ job.stage = "payload" /\ pc = "in"
  /\ \E pad \in [1 .. MinSize -> Bit01] :
       /\ \A k \in 1 .. MinSize : k <= Len(mem) => pad[k] = mem[k]
       /\ mem' = lrz_encrypt(IF Len(mem) < MinSize THEN pad ELSE mem, job.salt)
  /\ kept' = [kept EXCEPT !.c_len = Len(mem)]
  /\ pc' = "stored"
  /\ UNCHANGED <<job, fs, carry, processed, fed, ctx, at>>

\* fill_buffer reads padded_len bytes.
DecryptPayload ==
  /\ job.stage = "payload" /\ pc = "stored"
  /\ LET padded == Max({kept.c_len, MinSize}) IN
     mem' = SubSeq(lrz_decrypt(SubSeq(mem, 1, padded), job.salt), 1, kept.c_len)
  /\ pc' = "done"
  /\ UNCHANGED <<job, fs, carry, processed, fed, ctx, at, kept>>

\* The header of a block as compthread writes it, with no last_head yet.
Cleared(h) == [k \in DOMAIN h |-> IF k <= HeadLen THEN h[k] ELSE 0]

WriteHeader ==
  /\ job.stage = "header" /\ pc = "in"
  /\ mem' = Cleared(mem)
  /\ pc' = "linked"
  /\ UNCHANGED <<job, fs, carry, processed, fed, ctx, at, kept>>

\* The next block of the stream sets last_head, and rewrite_encrypted goes
\* over the header; compthread does not look at its result.
LinkHeader ==
  /\ job.stage = "header" /\ pc = "linked"
  /\ LET linked == Put(mem, HeadLen, SubSeq(job.text, HeadLen + 1, Len(mem))) IN
     \/ mem' = lrz_encrypt(linked, job.salt) /\ UNCHANGED kept
     \/ mem' = linked /\ kept' = [kept EXCEPT !.broken = TRUE]
  /\ pc' = "stored"
  /\ UNCHANGED <<job, fs, carry, processed, fed, ctx, at>>

decrypt_header ==
  /\ job.stage = "header" /\ pc = "stored"
  /\ mem' = lrz_decrypt(mem, job.salt)
  /\ pc' = "done"
  /\ UNCHANGED <<job, fs, carry, processed, fed, ctx, at, kept>>

-----------------------------------------------------------------------------

Next ==
  \/ PrefilterChunk \/ StartUnfilter \/ UnfilterMem \/ UnfilterSlice \/ UnfilterFails
  \/ FilterBlock \/ UnfilterBlock
  \/ Digest \/ Finish
  \/ EncryptPayload \/ DecryptPayload \/ WriteHeader \/ LinkHeader \/ decrypt_header

Spec == Init /\ [][Next]_vars

-----------------------------------------------------------------------------

(* Whatever way out was taken, and wherever it cut, the bytes that come    *)
(* back are the bytes that went in, and the checksums of the two sides     *)
(* were fed the same: for the filters, whose converters decide by the      *)
(* bytes around a branch which may lie beyond a cut or be converted        *)
(* already, and for enciphered blocks and headers of every length.         *)
Restores ==
  pc = "done" /\ job.stage \notin {"md5", "sha4"} /\ ~kept.broken
     => mem = job.text /\ fed.out = fed.in

(* However the bytes were cut into pieces, and whether or not they were    *)
(* aligned, the blocks digested are those of the padded message with its   *)
(* length, the words of which may have overflowed into one another.        *)
DigestCutFree ==
  pc = "done" /\ job.stage \in {"md5", "sha4"}
     => mem = Reference(job.text, job.stage = "sha4")
=============================================================================
