# A TLA+ model of lrzip

lrzip compresses a file in two stages. `rzip.c` removes long-range repetition
from each chunk of the input and writes a stream of tokens (stream 0) and a
stream of literal bytes (stream 1); `stream.c` cuts the two streams into blocks
and compresses the blocks with a pool of threads. `runzip.c` and the other half
of `stream.c` undo this. An MD5 of the original bytes is computed on the side
by one more thread. This directory models these parts, checks them with TLC on
small instances and proves the central results with TLAPS for all instances.

## Inventory

| Part | State | Operations | What is hard | What makes it correct |
|---|---|---|---|---|
| compression pool (`stream.c`: `clear_buffer`, `compthread`, `close_stream_out`, `*_streamout_threads`) | ring index, `output_thread`, one semaphore per slot, `last_head`, the file | hand over a buffer, compress, take the turn, write header, link and body, give up the turn, wait for all | threads finish in any order, retry, give up; the file and `sinfo` have no lock but the turn; the main thread goes on to the next chunk meanwhile | one writer, blocks in order, complete link chains, success only when all is written, no one waits for ever |
| decompression pool (`stream.c`: `read_stream`, `fill_buffer`, `ucompthread`, `close_stream_in`) | a ring of slots per stream, `output_thread`, `ram_alloced`, `eos`, `total_read` | read a block ahead, start a thread, join it, retry in turn, close the chunk | two streams share one turn; data is still in threads when a stream has ended; a memory limit stops reading ahead | data in order, nothing dropped, memory bounded, the whole chunk consumed |
| MD5 worker (`rzip.c: md5_*`, `runzip.c: runzip_md5_*`) | one buffer, two semaphores, `filling`, `shutdown` | queue a batch, hash it, drain, flush the partial batch, stop | the buffer has no lock; the chunk is converted in place right after it was queued | one owner of the buffer, original bytes in order, all of them at the end |
| rzip search (`rzip.c: hash_search` and what it calls) | tag table, sweep position, minimum mask, rolling tag, best match, `last_match` | look up and insert tags, clean one, extend a match, write tokens | entries are moved and replaced during a sweep; matches overlap themselves and each other | decoding gives the chunk; table count, sweep and probe sequences stay consistent |
| sliding mmap (`rzip.c: sliding_*`, `remap_*`) | offset and size of two windows | map a byte, slide the low window, copy, compare | pointers outlive the window they point into | what is read is what is in the file |
| token decoder (`runzip.c: unzip_literal`, `unzip_match`, `unfilter_chunk`) | output position, history, token window | expand a literal or a match, undo the chunk filter | self-overlapping matches; history in RAM or in a file that changes places in between | inverse of the search |
| chunk loop, framing, magic (`rzip_fd`, `runzip_fd`, LRZC frames, `get_fileinfo`) | `eof`, `last_block`, frame sizes, links | write and patch headers, read them back, list them | size known only afterwards, exact multiples, empty chunks | what was written is accepted, and restored |
| temporary buffers (`put_fdout`, `read_seekto`, `dump_stdin`, `flush_tmpout`) | offsets into RAM buffers and files | write, seek, flush, fall back to files | fall-back in the middle of an operation, positions relative to what was flushed | same bytes at the same positions |
| command line (`main.c`, `compress_file`, `decompress_file`, `fatal_exit`) | flags, output name, registered files, the file system | parse options, take the next file, create, unlink, exit | options checked in the order given; any call may fail; a signal may arrive anywhere | no file lost, nothing left behind, status 0 means done |
| block codec (`stream.c: *_compress_buf`, `lzma_decompress_buf`...) | block buffer, `lz4_test` result, `lzma_dictsize`, `lzma_properties` | test, filter, compress, retry, fall back, publish properties | all threads share dictionary size and properties, which the magic records once | block restored, dictionary large enough, retries end |
| match finder (`LzFind.c`, `LzFindMt.c`) | hash tables, tree, positions; two threads, two rings of blocks, semaphores | search, skip, normalise, start and stop the threads | three actors at three positions; stopping at any moment; positions that wrap | real matches, the nearest ones, everything stops |
| LZMA coder (`LzmaEnc.c`, `LzmaDec.c`) | the parser's table, repeated distances, probabilities, range | parse, code, flush, decode | stale table entries, carries, a finder ahead of the coder, damaged input | text restored, decoder inside its buffers |
| filters (`filters.c`, `Bra86.c`, `Bra.c`, `Delta.c`) | mask and carry between calls | convert forward and back | cut points inside an instruction | inverse, independent of cuts |
| digests, encryption (`md5.c`, `sha4.c`, `lrz_crypt`) | gathered bytes, length; chaining block | feed, finish; encipher in place | pieces of any size, counters that overflow; lengths that are no multiple of a block | independent of cuts; inverse |
| zpaq and system back ends, RAM set-up | | | | not modelled, see below |

The parts meet as follows. `rzip_fd` runs `hash_search` on each chunk, which
calls `write_stream`; full buffers go to the pool through `clear_buffer`. The
search also feeds the MD5 worker. `runzip_chunk` asks `read_stream` for tokens
and literals, and gives the bytes it reconstructs to its own MD5 worker. A pool
thread runs the block codec, which for lzma starts an encoder with its own two
match-finder threads. All output goes through `put_fdout`, all archive input
through `read_buf` and `read_seekto`, which use a temporary buffer when a pipe is
at the other end. `main` calls `compress_file` or `decompress_file` once for
each file and owns what is left in the file system. Pool
and workers share memory with the main thread and synchronise by semaphores,
one mutex, one condition variable and `pthread_join`. Every `failure()` or
`fatal()` ends the process.

## Modules

| Module | Models |
|---|---|
| `OrderedOutput` | what the compression pool promises: blocks are settled in the order they were handed over, within a window |
| `CompThreads` | the compression pool with the main thread that drives it; implements `OrderedOutput` |
| `CompThreads_proofs`, `CompThreadsFile_proofs` | its theorems: the ring, the turn, the order of the blocks and the refinement; what stands in the archive |
| `StreamIn`, `StreamIn_proofs` | reading one chunk: token loop, both streams' readers, the decompression threads; its theorems |
| `Md5Worker`, `Md5Worker_proofs` | the MD5 worker in both directions, and its theorems |
| `RzipHash` | the tag table, as operators on a record |
| `SlidingMap` | the two windows and the pointers into them, as operators on a record |
| `RzipSearch`, `RzipSearch_proofs` | `hash_search` on one chunk and the decoder; uses `RzipHash` and `SlidingMap`; its theorems |
| `TmpBuffers` | the pseudo files in RAM and the files behind them, as operators on two records |
| `Archive`, `Archive_proofs` | one archive from `rzip_fd` to `runzip_fd` or `get_fileinfo`; uses `TmpBuffers` for every read and write; its theorem |
| `Session`, `Session_proofs` | one run of the program over its arguments, and the file system; its theorems |
| `BlockCodec`, `BlockCodec_proofs` | the blocks of a run through filter and back end and back; its theorems |
| `LzFind` | the hash-chain and binary-tree match finders, as functions on their tables |
| `LzFindMt` | the match finder with its two threads, or single-threaded; uses `LzFind` |
| `LzmaBits` | range encoder and symbol coding at reduced widths |
| `LzmaParse` | the two parsers; uses `LzmaBits` |
| `LzmaDec` | the decoder; uses `LzmaBits` |
| `LzmaStream` | a block through parser, coder and decoder; uses the three |
| `Filters`, `Digests`, `CbcStealing` | converters, block gathering of the digests, CBC with ciphertext stealing, as functions |
| `Passes` | the stages that are cut differently on the way in and out; uses the three |
| `MC*` | instances for TLC |

Variables have the names of the fields they stand for wherever there is one. `map` in
`PROJECT.json` gives the lines of every definition. Definitions whose comment says
"Fault", "bug" or "a variant" are wrong on purpose: substituted for the definition
behind them, they make the property they are listed with in `PROJECT.json` fail.

How the modules fit together. Each one takes from the others what they establish:
`Archive` has no threads because `CompThreads` shows that blocks reach the archive
in the order they are cut and `StreamIn` that they are delivered in it; its tokens
are any tokens because `RzipSearch` shows that the search describes its chunk;
`BlockCodec` takes a filter for its own inverse, which `Passes` shows of the real
ones; `LzmaStream` takes any real matches the finder may report, or none, which is
`MatchesReal` of `LzFindMt`; `Session` reduces a whole (de)compression to success or
failure, which is `Archive`.

**CompThreads.** One action per step of a thread at which another thread can
see a difference: the attempt to compress, taking the turn, the chunk header,
the link, the body, passing the turn on, posting the semaphore, calling
`failure()`. The main thread's loops over the semaphores advance one semaphore
per step. The archive is a sequence of headers and blocks; a position is an
index into it; `sealed` counts how often a header was encrypted. What a back
end does is reduced to whether the attempt succeeded. `Start` is the ring
position an earlier file of the same invocation has left behind, `MinThreads`
the number of threads `open_stream_out`'s memory limits may leave.

**StreamIn.** A chunk is any layout of blocks `write_stream` can produce, the
empty tail blocks included. `FillBuffer` to `JoinThread` follow `fill_buffer`;
`fill_another`, `skip_empty` and `out` are places of the main thread. Lengths
are in units, a literal is any length that still fits.

**Md5Worker.** Byte number p of the file is p, or -p while its chunk is in
filtered form, so the digest (a sequence) shows both order and form.

**RzipSearch.** A tag is the set of its one-bits, a mask 2^k - 1 is k. One
action is one iteration of the search loop, with everything it calls. A
pointer is a window and an index: `munmap` followed by `mmap` with the old
address as a hint puts the new window at the same address, so an old pointer
reads the new window. A read in front of the low window, or behind the end of
the chunk, returns an arbitrary byte (`stray`). The digest's own copies through
the windows are left to `Md5Worker`, progress reports are left out. `insert_hash`
calls itself for the entry it pushes out before it writes its own slot, so all
the entries it moves are chosen on the table as it was (`Displaced`) and written
on the way back (`Placed`).

**TmpBuffers, Archive.** An archive is a sequence of cells: a cell is a header
field, a block's head, a token or a literal byte, and a position is an index, so
a reader at a wrong offset sees a cell it did not ask for and fails, as
the program does. A digest is taken to be free of collisions: it is the sequence
of the bytes. All reads and writes go through the operators of
`TmpBuffers`, on a record with a RAM buffer, a file and both offsets; each
fall-back to a file is taken where the code takes it. Tokens are chosen freely
among those that describe the chunk. Six situations the code does not handle
are named (`Flaws`): `late_spill` (an output buffer goes to a file after part of
the output was already flushed, so the positions its owner holds no longer fit),
`gap_read` (bytes from stdin are stored at `in_ofs` although it was read to
`in_len`), `dump_read` (the input buffer is given up with `in_ofs` past its
start), `s0_tail` (stream 0 ends with an empty block), `empty_frame` (a chunk of
size 0 at the end of a pipe), `tail_unread` (stream 1 ends with an empty block
that nobody had reason to read).
`FailureIsKnown` says that nothing else makes the decompressor refuse an
archive the compressor wrote.

**Session.** One process: options one at a time in the order given, then the
arguments, then for each file the steps of `compress_file`, `decompress_file`
or `get_fileinfo` between two calls that may fail or be interrupted. A file
holds plain or packed contents, complete or partial. `cause` records why a
file of the start is gone: `force` (-f), `early` and `late` (`fatal_exit`
removes a file of the output's name before the program created its own, or
after), `test` (-D given after -t), `sticky` (a flag set for one file is still
set for the next). Exit `soft` is a failure of `runzip_fd` that does not go
through `fatal_exit`, `cut` a signal that finds a temporary file not yet
registered.

**BlockCodec.** Each block of a chunk goes through the lz4 test, the filter, the
back end, the retry in turn, the fall-back and the writing, in any
interleaving that respects the turns; `control->lzma_dictsize`, the
published properties and the magic are shared. The size of a block and the
memory an attempt gets are free; only the kind of result is kept.

**LzFind, LzFindMt.** The finders lrzip's settings can choose: `hc5` and `bt4`
in one thread, `bt4` in two. `LzFind` has hash tables, chain and tree as
functions; `LzFindMt` has the encoder's thread and the two others with their
`CMtSync` objects, one action per wait, post, lock or block. Positions wrap at
small limits so that each of the three normalisations happens.

**LzmaBits, LzmaParse, LzmaDec, LzmaStream.** The coder with widths as
parameters: bytes, probabilities, range, slots, lengths. The finder
may report to `LzmaParse` any list of real matches, longer ones further away,
including none and including less than a match's full length: the searches of
`LzFind.c` stop after `cutValue` steps and its small tables forget, so the parser
is given nothing of `NearestFound`, only of `MatchesReal`.
Prices are any of a set of tables, chosen anew for each search (`LenPrice`,
`RepPrice` and their like stand for the encoder's adaptive price tables without
translating how these are filled): nothing about correctness may depend on them. `GetOptimum`
advances one position per step. The decoder also gets each stream cut short
and, for two texts, each stream with any one byte changed.

**Filters, Digests, CbcStealing, Passes.** The converters work on real byte
values; block contents of the digests and the cipher are small. `Passes` takes
a job (filter a chunk whole and undo it in slices, filter a block, feed a digest
in pieces, encipher a buffer) from the side that writes to the side that
reads. The cipher is any permutation given as a constant.

## Runs

| Run | Shows | Instance |
|---|---|---|
| `comp_file` | writing a file: `TypeOK`, `OneWriter`, `BlocksInOrder`, `StreamChains`, `SuccessIsComplete`, `Terminates`, `ImplementsOrderedOutput` | 2 CPUs (3 slots, ring may shrink to 2), 2 chunks, 1 flush per chunk, 1 thread that gives up |
| `comp_pipe` | the same pool encrypting to a pipe: nothing already sent or encrypted is touched again (`Immutable`), the last-chunk flag is right (`EofIsLast`) | as above |
| `read_chunk` | reading a chunk: `InOrder`, `ClosedIsComplete`, `RamBounded`, `Terminates` | 2 threads (4 slots), up to 5 full blocks, memory for one block and a half, 2 failing attempts |
| `md5_worker` | buffer ownership, order, completeness, termination, both directions | buffer of 2, 2 chunks of up to 5 bytes |
| `rzip_chunk` | `RoundTrip`: decoding gives the chunk; `Findable`: a live tag is found; `TableSound`: count, sweep, victim and rolling tag | all chunks of up to 8 bytes of 3 values and of up to 12 bytes of 2, window 3, 4 slots, limit 2, chains of 2 |
| `rzip_slide` | violation: through the sliding map a match is found that is not in the data | 8 bytes, low window 4, page 2 |
| `archive` | `SuccessIsRight`: success means the original bytes; `FailureIsKnown`, with the bounds of positions, streams and temporary buffers (`BuffersKept`); `InfoAgrees`: the listing follows the same frames to the same end | sizes 0, 3 and 5 in windows of 3, blocks of 2, tokens of 2; buffers that hold everything or spill; 1 and 2 threads; file and pipe at each end |
| `session` | `LossIsKnown`, `SuccessIsDone`, `NothingLeft` | 3 program names, 4 configurations, 4 file names, up to 3 options in any order, any call failing, a signal anywhere |
| `block_codec` | `BlockRestored`, `FileDictCovers`, `Terminates` | all 6 back ends, 2 chunks of 2 blocks, 2 levels of memory, dictionary of 4 that can shrink to 1 |
| `match_finder` | `MatchesReal`, `NearestFound`, `PipelineSound`, `Ends` | dictionary of 4, matches up to 5, texts up to 11 bytes, rings of 2 blocks, any mix of search and skip, stop anywhere |
| `lzma_stream` | `ParseLegal`, `InStep`, `RoundTrip`, `DecoderSound` | all texts of 8 bytes of 2 values, 32 of 9 bytes and 13 others of up to 15 bytes, dictionary 11, whatever the finder reports, 4 price tables, output room that does and does not suffice |
| `passes` | `Restores`, `DigestCutFree` | x86 texts of 9 bytes, up to 3 arm64 words, delta, slices of 8, digest messages of up to 13 bytes, enciphered lengths up to 9 |

The largest is `session` with 1.3 million states; the others have between 3
thousand and 440 thousand.

Why the bounds are enough to be interesting.

* Three slots and two chunks let a thread of the first chunk still write while
  the main thread has begun the second, and let every slot be reused.
* The memory limit of `read_chunk` stops reading ahead in the middle of a
  stream, and its layouts include both exact multiples and the empty tails.
* In the digest's instance chunks are longer than the buffer, equal to it and
  empty.
* In `rzip_chunk` a sweep is completed and the next one begun, tags of three
  degrees of bitness collide, are rehashed and thrown out of full chains,
  matches overlap themselves, reach back to the previous match and are split
  into several tokens.
* In `archive` the sizes are empty, exactly one window, and one window and a
  part; the spilling buffers are smaller than one archive and larger than its
  magic, so that they spill inside a block as well as between two.
* In `session` three options are what it takes to pass a check and then set
  what it checked; two files show what one leaves behind for the next.
* Two chunks of two blocks are the smallest case in which a dictionary changes
  after the magic, and a block retries while another one waits.
* In `match_finder` the text is longer than the dictionary and the rings, so
  the tree wraps, blocks are reused and every counter is normalised.
* In `lzma_stream` some texts are longer than the dictionary, searches are longer
  than the table of the parser, and a run of carries is longer than a byte. A
  dictionary of 11 makes distances of all three forms: a slot alone (to 4), with
  modelled bits (5 to 8), with direct and aligned bits (9 to 11).
* `comp_file` begins at `Start = 1`, the index an earlier file of the command line
  left, with a ring that then shrinks from 3 slots to 2; `comp_pipe` at 0.
* In `passes` a cut falls at every place of an instruction, and the length
  counters of the digests overflow into their second word.

Deadlock checking is on, so a process that is not finished can always go on; a
process that has ended only stutters. `passes` is the exception: a job simply
ends there.

### Fairness

Weak fairness of each thread and of the main thread (`CompThreads`, `StreamIn`,
`Md5Worker`, `LzFindMt`), nothing stronger: a thread that can run is eventually
run by the scheduler. A waiting thread is disabled in the model, so nothing is
assumed about who gets a semaphore. `BlockCodec` has weak fairness of its whole
next-state relation, since its blocks never wait for each other but for the turn.
That an attempt to compress ends is assumed of the back ends; that it succeeds
is not. The other modules state safety only and no fairness.

## What the violation means

`rzip_slide`: `sliding_match_len` maps one side, then the other, then compares
through both pointers. If both sides are outside the low window the second
call has moved the page under the first pointer. When the two positions are a
whole number of pages apart both pointers read the same bytes. The model's
example is a chunk `aaabaaab`, where bytes 2 to 4 (`aba`) are written as a copy
of bytes 0 to 2 (`aaa`). The sliding map is used whenever a chunk is larger
than the mapping; the stored MD5 is that of the real bytes, so the error shows
when the archive is unpacked.

### Known disagreements

These definitions are kept in the modules although the code does not satisfy
them under the constants named. Each can be seen by adding it as an INVARIANT to
the configuration named, with the change given.

| Definition | Where | What happens |
|---|---|---|
| `EofIsLast` | `CompFile.cfg`, `MaxFaults = 0` | the last-chunk flag is read from `control->eof` when the chunk's first block is written, so it can be set in an earlier chunk. A reader that knows the size from the magic does not rely on it |
| `SuccessIsHonest` | `CompFile.cfg`, 1 chunk, 1 fault | the semaphore is posted before `failure()`: if the main thread is scheduled first it completes the archive and returns success |
| `RingInPool` | `CompFile.cfg`, `Start = 2`, `MinThreads = 1` | a ring index left by an earlier file of the command line leaves the pool when the ring has shrunk |
| `ChunkConsumed` | `ReadChunk.cfg`, `Threads = 1` | the trailing empty block is not consumed: the reader stops one block header short |
| `RetrySerialised` | `ReadChunk.cfg`, ample `MaxRam` | a retry does not wait for earlier threads; only memory is at stake |
| `SpillRestores` | `Archive.cfg` | a temporary buffer that overflows after an earlier flush is copied to the start of the file, while its owner goes on seeking to positions that count what was flushed |
| `TestKeeps` | `Session.cfg` | -D after -t passes the check that guards -t, and the archive is deleted when its test has succeeded |
| `ExistingKept` | `Session.cfg` | without -f, a decompression that fails before it creates its output removes an existing file of that name |
| `DictCovers` | `BlockCodec.cfg` | to a pipe, the magic is out before a later block publishes a larger dictionary |

## Proofs

All theorems are for every value of the constants that satisfies the `ASSUME`s.

*Compression pool* (`CompThreads_proofs`, `CompThreadsFile_proofs`). Condition `RingFits`, that is `Start < MinThreads`: it
holds for the first file of every invocation (`Start = 0`) and for a later one
while the left-over index is within the smallest ring, and `RingInPool` fails
without it (`Start = 2`, `MinThreads = 1`). The inductive invariant `IInv` says how
slots, turn and semaphores hang together: the blocks in flight are the last
`Len(submitted) - released` ones, block n sits in the slot that is n places on in
the ring (`RingInv`, `InFlight`), a slot's semaphore is 1 exactly when no thread
holds it (`SlotInv`), the waiting loops have passed only idle slots (`WaitInv`),
and the block being written is the oldest in flight (`WrittenInv`). Mutual
exclusion alone is not inductive: two threads could wait for the same turn if two
slots held blocks n and n + threads, which is what `InFlight` excludes.

* `TypeCorrect`: `[]TypeOK`, which includes that all ring indexes are in the pool.
* `MutualExclusion`: `[]OneWriter`.
* `ArchiveOrder`: `[]BlocksInOrder`, with `OrderInv` on top of `IInv`: blocks
  were handed over in the order of their chunks, the archive holds only blocks
  whose turn has come, and a chunk's header precedes its blocks.
* `Refinement`: the specification implements `OrderedOutput`. Each action is a
  step of it or leaves its state alone.
* `StreamsChained`: `[]StreamChains`. `CompleteOnSuccess`: `[]SuccessIsComplete`.
  `WrittenOnce`: `Immutable`. They rest on `FileInv`, on top of `OrderInv`:
  `last_head` names the last header of its stream, or the place where a thread is
  about to append (`HeadInv`); the link of every other header names the next block
  and nothing of the stream stands in between (`ChainInv`); a header is encrypted
  exactly when its link is final (`SealInv`); with encryption or a pipe the pool is
  drained between chunks (`DrainInv`), so that what was flushed belongs to chunks
  that are finished (`FlushInv`). The links are right only as long as no thread has
  given up; `SoundBack` says that this is never regained.
* `EofOfLastChunk`: `[]EofIsLast`, if `Encrypt \/ Stdout`. Without either it is
  false, see the table above: the condition is what makes the main thread wait for
  the pool before it sets `control->eof`.

*Decompression pool* (`StreamIn_proofs`), without conditions.

* `BlocksInOrder`: `[]InOrder`, which includes `TypeOK`.
* `ReadAheadBounded`: `[]RamBounded`.
* `ChunkComplete`: `[]ClosedIsComplete`.

The inductive invariant has two halves. `PoolInv`: the busy slots of a stream go
from `unext_thread` round the ring to `uthread_no`, all of them only while one is
about to be joined (`RingInv`); they hold the stream's blocks between the one taken
last and `last_head`, in the order of the ring (`OrderInv`); `eos` means that
`last_head` is 0 or at an empty last block (`EosInv`); `ram_alloced` is the size of
the blocks in flight, below the limit except on the way to a join (`RamInv`).
`ReadInv` is the balance of the reader: what was taken of a stream is what is left
in its buffer plus what the token loop has had of it. That a literal is never short
follows from the balance: with `eos` set and no slot busy, all of the stream has
been taken (`AllTaken`), and more than the stream holds is never asked for. The
bound on memory needs one step more than the guard in `fill_buffer`: a join gives
back a whole buffer, unless the block is the last of stream 1, which is then the
only one in flight. Sizes of sets of blocks are `Weight`, whose lemmas replace an
induction over the chunk.

*MD5 worker* (`Md5Worker_proofs`). `IInv` consists of `SemInv` (semaphores,
worker and main thread: exactly one of them has the buffer), `PlaceInv` (where
the main thread is in the file) and `BatchInv` (digest followed by the pending
batch is what was fed).

* `Md5TypeCorrect`: `[]TypeOK`.
* `Md5BufferOwned`: `[]BufferOwned`.
* `Md5Correct`: `[]DigestInOrder`.
* `Md5Complete`: `[]DigestComplete`.

*Block codec* (`BlockCodec_proofs`). `IInv`: where a block is determines what was
done to its bytes (`BlockInv`); in particular the filter applied in place is the
one the thread remembers as long as a back end works on the block, and a block
that is given up is as it was. `DictInv`: the published properties cover every
block so far, and the magic of a file is made from them when all blocks are done.

* `CodecRestores`: `[]BlockRestored`. `CodecFileDict`: `[]FileDictCovers`.

*Command line* (`Session_proofs`). Assumed of the constants: no directory has the
empty name, the files of the start are whole and descend from themselves,
arguments are names, directories or `-`, options are the ones modelled. `IInv`
lists, per program counter, which temporary file has a name and whether it is
registered (`TmpInv`), which files may be incomplete (`WholeInv`), who owns the
output's name (`OutInv`), and that the input is there until its complete output is
(`DataInv`, `InputKept`). `LossIsKnown` alone is not inductive: that `unlink`
removes the input only after `close` has completed the output is in `DataInv`.

* `NoSilentLoss`: `[]LossIsKnown`, which includes `TypeOK`. `CleanExit`:
  `[]NothingLeft`.
* `SuccessMeansDone`: `[]SuccessIsDone`, with `DInv` on top of `IInv`. Its core is
  `ProgressInv`: every file named by an argument, unless a cause is recorded for it,
  is still to come (`Waiting`), in hand (`InHand`) or converted (`Done`). The danger
  is a later file undoing an earlier one: an output could replace a file that waits,
  or one that is done. What rules it out is that with `-o` there is one file only
  (`OneInv`), that otherwise an output is told from an input by its suffix and
  directory (`NameInv`), and that what this run has made was converted at least once
  more than what it started from (`DepthInv`), so that a second conversion is never
  taken for the first.

*Search* (`RzipSearch_proofs`), on condition `Whole`: no chunk is longer than the
mapping, so it is read without the sliding map. Without the condition
`RoundTrip` is false; that is what `rzip_slide` shows. Everything else is free: the
chunk, the bytes' tags, the size of the table, the limits of the level.

* `SearchRoundTrips`: `[]RoundTrip`. `StreamInv` says that the tokens and literals
  written so far describe the chunk up to `last_match` (`Describes`), and during
  unpacking that those still to be read describe the rest; `PlaceInv` that the
  pending match is real and begins at or behind `last_match`. A match that was
  extended backwards begins before the position it was found at, and the last match
  bounds how far. That a match may overlap its own copy is `Echo` and `Repeat`: a
  copy that agrees byte by byte is the periodic continuation `match_expand` writes.
* `TableStaysSound`: `[]TableSound`, which includes `TypeOK`. `TableInv` has the exact
  count with at least a third of the slots empty, the sweep (`SweptInv`) and
  the tags (`Tagged`). The count needs that an insertion with all the entries it
  pushes out occupies exactly one more slot, or loses exactly one entry
  (`Inserted`): each entry takes the slot of the one it pushes out, and pushing ends since each entry pushed out has strictly fewer low
  bits set than the one that pushes (`ChainOf`).
* `EntriesFindable`: `[]Findable`. `PathInv` is stronger than the property: the
  slots between the primary slot of an entry and its own hold entries that are
  cleaned no earlier, so cleaning the first one due opens no gap in front of
  another. The tag of all ones is excepted, as in the property: `lesser_bitness`
  takes it for the first to be cleaned.

One clause of `TableSound` was wrong before the proof: it had every entry at
an offset up to `p`. A match found before a run of positions that are skipped is
written at the next position looked at, and `p` goes back to the end of the match:
entries can lie ahead of `p`. The code is right all the same, since `match_len`
refuses an offset that is not behind `p` (`o >= q` in `MatchLen`).

*Archive* (`Archive_proofs`). Assumed of the constants: sizes are at least 1, and
the scenarios are ones of the type `Scenario`.

* `DeliveredIsInput`: `[]SuccessIsRight`. The argument is that of the program: no
  property of the frames, links, positions or buffers on the way is used, only that
  the digest covers exactly what is delivered, and that there is one digest to
  compare it with. `WriteInv`: the compressor writes cells that are not digests
  (`PlainCell`) until the trailer, so that the one digest in the archive is that of
  the input (`Cell`), wherever the reader looks for it. `DigestInv`: at every point
  the digest is that of all that was flushed and all that is pending, except the
  cells of the chunk a filter has still to go over (`Raw`). `Shape`: output only
  grows at its end, in the buffer or the file. `PlaceInv`: where the decoder
  believes its output to be; after a `late_spill` that is beyond the end of the
  file, and what keeps the filter from rewriting the wrong cells there is the test
  on the length in `UnfilterOk`.

Every part of these invariants was checked with TLC on the run's instance before
it was proved.

The loops of the search are recursive functions. The library's induction theorems
take an operator, which the provers cannot instantiate; `LeastNat`, `UpTo` and
`Iteration` of `RzipSearch_proofs` state induction over a set of numbers instead,
and the lemmas about loops build on them.

Only model-checked:

* all liveness (the prover does not reason about fairness and `ENABLED`);
* `FailureIsKnown` and `InfoAgrees` of `Archive`: they are about what both sides agree
  on, cell by cell, and need the whole layout of an archive as an invariant;
* the search through a sliding map, where the property fails;
* `LzFindMt`, `LzmaStream` and `Passes`, whose functions are recursive operators, which
  the prover does not accept in a module it works on.

## Not modelled

* libzpaq, and the system's bzip2, zlib, lzo and lz4: an attempt succeeds, fails
  or does not shrink the block (`BlockCodec`). libzpaq is vendored numeric code.
* The rounds of AES, MD5 and SHA-512, GCM, and the derivation of keys:
  `CbcStealing` takes any permutation for the cipher, a digest is the sequence of
  its blocks.
* The computation of thread counts and memory limits (`setup_ram` and friends):
  parameters.
* Archive formats of earlier versions, and the bounds checks on damaged archives
  outside the LZMA decoder.
* LZMA match finders that lrzip's settings never select, stream input of the
  finder, and the assembler and SIMD variants.
* Progress and information output, wording, the demonstration program, `lrztar`.
* Short writes: a write is whole or ends the process.

## Plan

Done: all modules above; proofs of the compression pool, the decompression pool,
the MD5 worker, the block codec, the command line, the search and the archive.

What would come next, all proofs:

1. `Archive`: `BuffersKept` from the invariant of `Archive_proofs` and bounds on
   the chunk; then the layout of an archive as an invariant, for `FailureIsKnown`.
2. `LzFindMt`: the hand-over of blocks between the three actors, for which the
   recursive `GetHeads` and `LzFind` have to be written as recursive functions, as
   was done for the search.
3. `CbcStealing`: that deciphering undoes enciphering for every length.
4. `Passes`: what of it does not depend on the x86 scan.
