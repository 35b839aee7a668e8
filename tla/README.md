# Bakeware in TLA+

Bakeware turns an Erlang/OTP release into one executable file: a launcher written in C, a
CPIO archive of the release, and a trailer. Starting the file makes the launcher extract the
archive into a cache directory, unless an earlier start has done so, and exec the release's
`start` script. This directory holds TLA+ models of that system, TLC configurations that check
them on small instances, and TLAPS proofs that what they check holds for instances of any size.

Paths in this file are relative to the repository.

## 1. The system

### Components

| Part | Source | State it keeps | Operations |
| --- | --- | --- | --- |
| Assembler | `lib/bakeware/assembler.ex` | temporary files `<random>.cpio`, `<random>.trailer`; the output file; `start`, `start.bat` in the release | create paths, write start scripts, build archive, build trailer, concatenate with `cat`, clean up |
| CPIO builder | `lib/bakeware/cpio.ex` | the archive file, open for appending | append a header and contents for each file of a wildcard, append `TRAILER!!!`, compress with `zstd --rm`, rename |
| Launcher: main | `src/main.c` | `bw`: options, paths, trailer, file descriptor | parse arguments, read trailer, validate cache, set environment, exec |
| Launcher: trailer | `src/trailer.c` | none | read and decode the last 48 bytes |
| Launcher: cache | `src/cache.c` | the directories `<cache>`, `.tmp`, `.index`, `<sha1>` | probe, extract, verify, rename, clean up |
| Launcher: CPIO extractor | `src/cpio.c` | position in the archive, the open output file | one entry at a time: header, name, contents, mode |
| Launcher: Zstandard reader | `src/unzstd.c` | input and output buffer, the decoder | `unzstd_read`: copy, refill, decode |
| Launcher: SHA-1 | `src/sha1.c`, `src/sha_read.c` | one global context | update on every read, final |
| Launcher: index | `src/index.c` | files under `.index` | write the path of an executable under its digest |
| Launcher: removal | `src/rm_fr.c` | none | remove a tree bottom up, stop at the first error |
| `Bakeware.Script` | `lib/bakeware/script.ex` | none | read `BAKEWARE_ARGC` and `BAKEWARE_ARGn`, map results to exit codes |
| Zstandard: streaming | `src/zstd/lib/decompress/zstd_decompress.c` (vendored) | stages of stream and frame, input and output buffer with the window in it, the "hostage" byte | `ZSTD_decompressStream`, `ZSTD_decompressContinue`, `ZSTD_decompressFrame` |
| Zstandard: blocks | `zstd_decompress_block.c`, `huf_decompress.c`, `src/zstd/lib/common/` | tables and repeat offsets carried from block to block, literals, bit stream | literals, sequence headers, sequences, copies |
| Zstandard: checksum | `src/zstd/lib/common/xxhash.c` | `XXH64` state | reset, update with each block, digest |

### How they interact

- At build time the assembler calls the builder, hashes the (compressed) archive, and joins
  launcher, archive and trailer. The file format is the only link to run time. Assemblies of one
  release share its directory and the executable; their temporary files have random names.
- At run time one process does everything, in order: arguments, trailer, cache, environment,
  exec. The extractor pulls bytes through a function pointer, `sha_read` or `unzstd_read`; the
  latter pulls from `sha_read`. So the digest is fed as a side effect of extraction.
- `unzstd_read` gives the decoder one input buffer and one output buffer. The decoder decodes a
  block into a buffer of its own, which is at the same time the window of the next blocks, and
  flushes it in portions. Blocks keep tables and offsets for the next block of their frame.
- Launchers of the same user share the cache directory. Nothing coordinates them except what
  `mkdir`, `open`, `rename` and `rmdir` guarantee.
- The application inherits the environment, and may start other Bakeware executables.

### What is hard

- **Interleaving**: any number of launchers, of the same or of different archives, at any step;
  several assemblies of one release, and launches of an executable that is being written.
- **Crashes**: a launcher can be killed at any step; nothing is cleaned up later.
- **Partial failure**: some calls are checked, some are not, some checks leave things behind.
- **Stale state**: a look at one file (`start`) decides about a whole directory; a name is chosen
  by `mktemp` before the directory is made; the size in a CPIO header is older than the contents;
  environment variables outlive their launch.
- **Buffers**: three layers of buffers with different sizes between the file and the extractor;
  a window that lies in two pieces; copies that write more than they should.
- **Widths**: 32-bit lengths in trailer and headers; a bit-stream register of 32 or 64 bits; a
  count of bits in two words.

`PROJECT.json` lists each of these hazards at its line, with the properties that cover it.

### What makes each part correct

- *Cache*: an entry that can be seen is complete, and stays; an application runs only from such
  an entry; concurrent launches all succeed; nothing is left under `.tmp` by a launch that
  succeeds; every launch ends; the index does not dangle.
- *Assembler, builder and extractor*: what a launch accepts is what one assembly archived, and an
  executable that was written whole is not refused.
- *Zstandard reader and streaming decoder*: deliver every byte once and in order, keep the window,
  announce the end only at the end, never refuse a good archive, always return; the digest covers
  the archive.
- *Block decoder and digests*: decode what an encoder can have written, refuse what it cannot,
  write nothing behind the buffer; checksum and digest do not depend on how the text is cut.
- *Arguments*: the application sees the arguments of its own launch and no others; the first
  launcher option decides what the launcher does.

## 2. Modules

| Module | Models |
| --- | --- |
| `LauncherCache` | any number of launchers over one cache directory: `main.c`, `cache.c`, `cpio.c`, `index.c`, `rm_fr.c` |
| `AppCache` | what the cache promises, without files: an entry is absent or complete |
| `MCLauncherCache` | archives, names and directories for TLC |
| `LauncherCache_proofs` | its inductive invariant, and what published entries can be relied on for; the index, what is left under `.tmp`, launches that cannot fail, the refinement of `AppCache` |
| `Cpio` | the archive format: what the builder writes, what `cpio_extract_all` makes of it |
| `Assembler` (extends `Cpio`) | assemblies of one release, and launches of the executable they write |
| `MCAssembler` | releases and options for TLC |
| `Cpio_proofs` | what an extraction makes of an archive, by induction over its entries |
| `Assembler_proofs` (extends it) | types, trailers, that a launch accepts one assembly or none, and that a finished executable starts |
| `ZstdStream` | `ZSTD_decompressStream` and everything under it down to whole blocks |
| `UnzstdRead` (extends `ZstdStream`) | `unzstd_read` between the extractor, `sha_read` and the decoder |
| `MCUnzstdRead` | archives of Zstandard frames for TLC |
| `UnzstdRead_proofs` | where reader and decoder are in the archive, step by step, and what follows |
| `UnzstdBuffers_proofs` (extends it) | that the decoder's buffers keep the window and fit, that every call makes progress, and that a good archive is decoded |
| `BitStream`, `Fse`, `Huf`, `SeqTables`, `LzCopy` | the reader of bits, the two entropy decoders, the tables of the three codes of a sequence, and the copies |
| `ZstdBlock` (extends these) | the block decoder, from literals to the last copy |
| `LzCopy_proofs` | that the copies of a sequence produce what copying byte by byte would |
| `Words`, `Sha1`, `Xxh64` | words as bytes, SHA-1, XXH64 |
| `Codec` (extends `ZstdBlock`, `Sha1`, `Xxh64`) | the blocks of a frame with the checksum; a message hashed in pieces |
| `Codec_proofs` | that checksum and digest are those of the whole text and the whole message |
| `MCEncoder`, `MCCodec` | an encoder for blocks, and the blocks and messages for TLC |
| `LauncherArgs` | arguments and environment: `main.c`, `utils.c`, `script.ex`; it is its own model-checking module |
| `LauncherArgs_proofs` | its inductive invariant and three theorems |

Operators called `X_Y`, where `X` is a definition of the same module (`Copy_Drop`,
`LoseRace_Retry`), are mutants: plausible bugs that take the place of `X` to see that a
property notices them. They are no part of the specifications.

### LauncherCache

A launcher is a program counter `pc[p]` with the executable it runs, its mode (run, install,
info), the name `mktemp` gave it, the archive entry it is at, and the directory of its open file.
Each step is one system call with the control flow up to the next.

The file system is modelled by inodes. `tmpDir` and `appDir` link a directory from
`.tmp/<name>` and from `<sha1>`; `content` and `runnable` say what each file of each directory
holds and whether its mode has been applied. A lookup by path and an open file can therefore
disagree, as they do in the program: `fopen` and `chmod` go by path, `fwrite` by the open file.
Contents are represented by their digest. A file that is being written, or lost a write, is
`Short`.

| Actions | Code |
| --- | --- |
| `Launch`, `ReadTrailer` | `main.c:107-126`, `trailer.c` |
| `Probe`, `MkCacheDirs`, `Mktemp`, `MkTmpDir` | `cache.c:45-90` |
| `OpenFile`, `WriteFile`, `ChmodFile`, `EndOfArchive` | `cpio.c:14-124` |
| `Verify`, `Rename`, `Recheck` | `cache.c:91-116` |
| `RmFile`, `RmDir`, `RmGiveUp` | `rm_fr.c` |
| `AddIndex` | `index.c` |
| `Exec` | `main.c:130-142` |
| `AppExit`, `Crash` | outside the code |

`Faults` says what may go wrong: `"crash"`, a launcher is killed between two steps; `"io"`, a
call whose result is checked fails; `"lost"`, a call whose result is *not* looked at fails
(`fwrite`, `fclose`, `chmod`, the first `mkdir`s, `rm_fr`, the index); `"collision"`, `mktemp` returns
a name that it has returned to another launcher whose `mkdir` is still to come. All launchers draw
from one set of names, and `mktemp` passes over what exists (`FreeNames`). Names are random, so that
a collision is improbable, and most runs are about launches without; but nothing in the code
prevents one, and what it does to the launches is modelled as everything else: `mkdir` finds the
directory there and goes on, both launchers extract into it, and a file that two of them write may
be left `Short` (`SoleWriter`).

What is abstracted: directories inside an archive (a flat set of files stands for the tree),
file modes other than "applied or not", bytes, messages. That a healthy archive has the digest of
its trailer is taken from its image here; whether the digest is computed over all of it is the
subject of `UnzstdRead`, and what the digest is, of `Codec`. The format of the archive is in `Cpio`. The windows variant is not modelled: the actions follow POSIX.

`leftBy` is a history variable: the executable whose launch abandoned a temporary directory. No
action reads it.

### AppCache and the refinement

`AppCache` has three variables: entries, absent or complete; the phase of each launcher; what it
wants to start. `LauncherCache` implements it (`RefinesAppCache`) with the mapping at the
end of that module. An entry that is linked without being complete maps to a value that
`AppCache` never has, so that the refinement fails as soon as anyone could see half an entry.
The abstract specification has its own fairness (a launch does not hang), which the detailed one
has to implement. `RefinesAppCacheSteps` is the same mapping without that fairness: initial states
map to initial states, and every step to a step or a stutter. That part is proved.

### Cpio and Assembler

An archive is a sequence of *pieces*, one for the header of an entry, one for its name, one for
each unit of its data, so that a reader that has lost its place meets data where it expects a
header. `ExtractOne` is `cpio_extract_one`: its checks in their order, the 32-bit sum of
`cpio.c:108` modulo `Word`, the limit on names, directories that must exist. `Extract` is the loop.

A baker is a run of `assemble/1`: `Configure`, the start scripts (`EmptyScript`, `FillScript`: a
script that is written is empty for a moment), `Open` (which lists the paths to archive: `todo`, a
set, of which the first in `Order` is always next), for each path `Stat` and `Contents` (the
header is made from what `stat` gave, the data from a later read), `EndArchive`, `Compress`,
`Rename`, `BuildTrailer`, `OpenOutput`, `WriteOutput`, `Chmod`, `Cleanup`. `Path.wildcard` passes over names that
start with a dot. `cat` and `File.rename` have results that nobody looks at (fault `"silent"`);
other calls raise (`"stop"`). `Touch` is somebody else who changes the release meanwhile: a file
becomes longer, shorter or empty.
`assemble/2` has no release to take options from and always raises in `set_compression`.

A launch is `ReadTrailer`, `Read`, `Validate` over the executable as it is at each of these
moments. The cache is left to `LauncherCache`. A digest is named by the baker whose archive has it
(no two archives share one). A compressed archive is a sequence of parts, useless unless all are
there in order. The `contents_length` of the trailer is read only for compressed archives, as in
the code. The trailer is one piece: a launch sees it whole or not at all.

`AcceptedIsOneAssembly` has two exceptions, in both of which the code accepts what was not archived. An
entry whose length is 0 modulo 2^32 is taken for the end of the archive (`SumWraps`). And a file that
has shrunk between `stat` and `read` by at least a header and a name makes the extractor take the next
entry for contents of that file (`Swallows`); the digest agrees, as it is that of the archive. A file
that shrinks by less is refused, as the extractor meets data where it expects a header. There is no
third exception: that is what the property says. `GoodExecutableStarts` is about the releases the formats
can hold (`Representable`). See section 4 for what the properties leave out.

`steady` is a history variable that no action reads: the launches since whose start nobody has
written the executable. Without it `GoodExecutableStarts` would compare what a launch has read with
an executable that has been replaced since.

### ZstdStream and UnzstdRead

`ZstdStream` has the stages of `ZSTD_decompressStream` (`zds.streamStage`: init, loadHeader, read,
load, flush) and those of a frame under it (`zds.stage`), one action per turn of its loop. The
bytes of the plain text are numbered and the output buffer `outBuff` holds the numbers, so that
what is in the window and what is flushed can be compared with what was decoded. Compressed bytes
are counted. Blocks are raw, repeated, compressed or reserved; frames may state their size, be a single
segment, have a checksum, be skippable, or be damaged in each way the decoder checks for.
`ZstdAssumption` says of archives only what the format makes of any bytes at all: a raw block is
its content, an empty block has none, and a single segment states its size. A
compressed block overwrites up to `OverLength` bytes behind its output, as the copies do.
`SinglePass` is the short cut for a frame that is complete in both buffers. The values of the
stages' helper fields are as in the code, the size of the buffer (`DecodingBufferSize`) and when
it is reallocated (`OversizedDuration`) included.

`Consumed` is how many bytes of the archive the decoder has taken: the frames before, the units of
this one that are done, the raw bytes of a block, the loaded part of the next unit.

`Call`, `Copy`, `Refill` are the loop of `unzstd.c:47-99`. A read brings any number of the bytes that
were asked for, at least one, as `sha_read` may return fewer. A malformed *archive* inside the frames
is included: `BeyondEnd` lets the extractor ask for more than there is.

### The codec modules

These are the computations between a compressed block and its text, bit for bit. A loop of the
code is a recursive function over its turns, or `While` (in `BitStream`), which takes the turns of a
loop with a test; only the encoder in `MCEncoder` uses recursive operators.

- `BitStream`: a register of `word` bytes (4 or 8) over the block, read backwards; `Reload` and
  its four statuses; the fast forms with their preconditions.
- `Fse`: counts (`ReadNCount`, in the form for short inputs too), the two ways of spreading symbols
  over the table, decoding with two states.
- `Huf`: weights, both table types (`DTableX1`, `DTableX2`), one stream and four, `LockStep` and
  the rest after it. For four fresh streams both table types are tried where the code asks
  `HUF_selectDecoder`, which only estimates speed.
- `SeqTables`: bases and extra bits; the default tables as they are printed in the source, of
  which TLC checks the decoding against an encoder that computes them from the default counts.
- `LzCopy`: `ZSTD_wildcopy`, `ZSTD_overlapCopy8`, `ZSTD_safecopy` and `ZSTD_execSequence` with its
  form near the end of the buffer, in a memory of bytes by address: a read outside of it has no value.
- `ZstdBlock`: the limit on the size of a block (`BlockSizes`), literals, headers, `Sequence` (the plain decoder) and `Ahead`, `FinishQueue` (the one
  that keeps four sequences queued), `LastLiterals`; which decoder is used; refills on 32-bit
  registers for long offsets; what a block leaves for the next.
- Intermediate results are passed to a local operator (`LET counts(s) == ... IN counts(ReadCounts(...))`)
  where a local name would do: TLC keeps coverage counts for every way an expression can be
  reached, and a name used several times multiplies them at each level.
- `Codec`: `BlockStep` is a step of the block decoder, with the update of the checksum that
  `ZSTD_decompressContinue` does after a block; `HashStep` hashes the next piece of a message.
  `StandardDigest` is the standard's description of SHA-1: pad the whole message, then compress it.
- `Xxh64`, `Sha1`: over words that are sequences of bytes, since TLC's integers have 32 bits. Their
  results agree with published digests and with the compiled library: `ChecksumsAreKnown` in `MCCodec`,
  which TLC evaluates, has checksums that the library's own `xxhash.c` computes.

`MCEncoder` is an encoder written from the format, not from the decoder: it lays out bits
from front to back and takes from `SeqTables` only the constants. Of its blocks, 748 were also
given to the decoder compiled from the C sources, with the same results.

Two abstractions: far offsets (up to 2^28) have a sparse memory with only the bytes in reach;
and in jobs that start again at the beginning of the buffer, address 200 stands for the end of a
longer first segment.

### LauncherArgs

A launch takes a command line, walks through it (`ParseArg`), finds the path of its executable and
the directory of the cache (`FindExecutable`, `CacheDirectory`), decides (`Proceed`), sets the
environment (`SetArg`, `SetArgc`) and execs. The next launch inherits the environment. The cache,
which comes in between, is left to `LauncherCache`. `Are` says what an application should see
without computing it: so many arguments, and each argument that is kept at the place that the
number of kept ones up to it gives.

`Kept` are the arguments that are not processed and not empty: the loop blanks what it has processed, and
`update_environment` skips what is blank. So an empty argument of the user is lost with them, against the
README of the repository, which says that arguments are passed through and what `BAKEWARE_ARGn` and
`BAKEWARE_ARGC` are. That promise is `ArgumentsPassThrough`, and run `args_empty` refutes it.
`ScriptSeesOwnArgs` says that nothing else is lost, added, or left over from a launch around this one.
`FirstOptionDecides` says of all that follows the loop, the crash for want of an operand included,
that it depends on the first option only.

## 3. Runs

| Run | Distinct states | Shows |
| --- | --- | --- |
| `cache_concurrent` | 170,070 | two launchers; an executable, its copy at another path, an upgrade at its path, and six defective ones; every checked call may fail. `PublishedComplete`, `TmpAccounted`, `StartStays`, `IndexOnlyPublished`, `EntryNeverChanges` and `RefinesAppCacheSteps` hold. |
| `cache_three` | 734,706 | three launchers of one archive, two of which can lose the race, any of which may be killed: no launch fails (`HealthyLaunchNeverFails`), entries are complete and `.tmp` is accounted for. |
| `cache_collide` | 1,439,949 | two launchers that may draw one temporary name and extract into one directory, with every other fault as well: what is published keeps its files (`PublishedStays`), `StartStays` and `IndexOnlyPublished` hold. What does not is in `name_collision` and `lost_write`. |
| `cache_live` | 78,233 | fair scheduling and crashes: `LaunchEnds`, `HealthyStarts` and the refinement. |
| `assemble` | 2,468,421 | two assemblies into one executable and a launch of it, each step of which may come in between, fail, or fail unnoticed: `AcceptedIsOneAssembly`, `GoodExecutableStarts`, `TrailerFitsArchive`. |
| `unzstd_read` | 520,688 | good and damaged archives of up to four frames, read in portions of any size: `NoByteLost`, `FlushesInOrder`, `WindowIntact`, `HashMatchesInput`, `NoEarlyEnd`, `GoodArchiveDecodes`, `CallReturns`. |
| `codec` | 4,364 | 635 frames and messages: `OutputIsReference`, `GoodBlocksDecode`, `CorruptRefused`, `OutputStays`, `ChecksumOfText`, `DigestOfMessage`. |
| `args` | 2,454,550 | `ScriptSeesOwnArgs`, `FirstOptionDecides`, for one launch and for a launch inside it. |
| `lost_write` | until found | finding: `PublishedComplete` fails when a write fails unnoticed. |
| `name_collision` | until found | finding: `HealthyLaunchNeverFails` fails when two launchers draw one name. |
| `unzstd_tail` | until found | finding: `WholeArchiveHashed` fails. |
| `args_empty` | until found | finding: `ArgumentsPassThrough` fails. |

In `cache_concurrent` calls fail, and in `cache_three` launchers are killed, so the last conjunct of `TmpAccounted`,
which is about launches with no fault at all, says nothing there; the theorem `LeftoversAccounted` has it with
the rest.

### Bounds and why they are enough

- *Launchers*: two meet in every pairwise race there is; three add the case of two losers, whose
  cleanups overlap, and of a third that finds the entry while the others race. The proofs cover
  any number.
- *Files per archive*: two, so that `start` exists while the archive is incomplete and the other
  way round; one where faults multiply the states.
- *Launches per process*: one; another process is the later launcher, which meets what an earlier
  one left.
- *Directories*: at least as many as can be referred to at one time, so that `MkTmpDir` is never
  short of an inode; they are interchangeable (`SYMMETRY Dirs`, not used in the runs that check
  liveness).
- *Names*: one per launcher, from one set; `mktemp` may return one twice in `cache_collide` and `name_collision`.
- *Bakers*: two bakers and one launch: every conflict in the code is between two of them. Releases
  have a directory with a file, a hidden directory, a script; a file whose entry's length is 0 modulo
  `Word` = 8, one that is too large for a header, a name that is too long, a file that can shrink by
  a header and a name before another entry, an archive whose length does not fit a trailer even when it is
  compressed. `Chunk` = 8 pieces at a time, so that an executable takes more than one write and one read. One change of the release by
  somebody else (`MaxTouches`). Bakers are interchangeable (`SYMMETRY Bakers`).
- *Frames*: up to two blocks of every type in every order, and some of up to nine blocks, enough for
  the decoder to go round its buffer twice. `BlockSizeMax` = 3, `MinCBlockSize` = 1 and `OverLength` = 2
  stand for 128 KiB, 3 and 32 bytes, windows of 2 to 6 for 1 KiB to 8 MiB: only the ratios matter to the control
  flow. Blocks straddle buffers, fill them exactly, share them, are empty; a checksum begins in one
  buffer and ends in another. `MaxStalls` and `MaxOversized` are the code's counters, made small.
- *Blocks*: match distances 1 to 9 and 15 to 17 (the tables of the overlapping copy end at 8, the
  wide copy at 16) at several distances from the end of the buffer; literal runs around 8, 16 and 32; every
  combination of repeat offsets; transmitted, default, single-code and kept tables; five Huffman
  trees up to 11 bits, direct and compressed; offsets up to 2^28; windows at 2^24 and one
  above, where the decoder changes; 4 to 8 and, where literals are used in place, 24 sequences.
- *Messages*: the standard's examples, cut everywhere; a message of 150 bytes in three pieces; the tail
  of a message of 2^29 bytes, where the count of bits passes 2^32.
- *Arguments*: up to three of two ordinary words, five options, `--` and the empty word. Three is
  enough for an option, its operand and an argument behind or before them. Two executables (`"outer"`
  and `"inner"`) and one cache directory: a launch and one inside it, of the same executable or another.

`CHECK_DEADLOCK` is off everywhere because the system does stop: launchers, assemblies and jobs
end, and nobody has to start another.

### Fairness

`LauncherCache!Fairness` is weak fairness of each launcher's own next step: the operating system
schedules every process, and no step of a launcher waits for another launcher. There is no
fairness for `Launch` (nobody has to start anything), `AppExit` (an application may run for ever)
or `Crash`. `UnzstdRead` has weak fairness of the steps inside a call, which is sequential code;
the extractor need not make a call. `Assembler` and `Codec` have no fairness: only safety is
checked of them.

## 4. Findings

1. **A lost write is published** (`lost_write`). `cpio.c:40-43` ignores the results of `fwrite`
   and `fclose`. The digest is of the bytes read, so it matches; the directory is renamed, and
   every later launch trusts it ("if the cache directory exists for the app, THEN the cache is
   valid", `cache.c:45`).
2. **Two launchers, one temporary name** (`name_collision`). `mktemp` does not create, and `mkdir`
   accepts `EEXIST`. If two launchers draw the same name at the same moment one of them fails,
   against the comment in `test/bakeware_test.exs:116-118`. Names are random, so it is rare. (TLC
   refutes `PublishedComplete` with these faults too: one launcher may publish the directory while the
   other has emptied a file to write it again.)
3. **The tail of an archive may not be hashed** (`unzstd_tail`). `unzstd_read` reads a chunk only
   when the extractor needs more output. When the last compressed bytes (checksum, empty last
   block) lie in the next chunk, the extractor is done before they are read, and
   `cache_validate` refuses a good archive. It takes an archive whose length is at most a few bytes
   above a multiple of the decoder's input size (128 KiB + 3). Compiled from the C sources,
   `unzstd_read` does this on a frame of 131077 bytes: it delivers all the data, and the digest
   differs from that of the file.
4. **Empty arguments are dropped** (`args_empty`). `main.c:59` skips every blank argument, whoever
   made it blank, so an empty argument of the user does not reach the application, those behind it
   are numbered anew, and `BAKEWARE_ARGC` is too small. The README of the repository says otherwise
   (lines 251 and 268-270).

What the code also does, and no run states a property about:

- Each option ends the loop of `process_arguments`, so a second option, even before any `--`, goes to the
  application; line 251 of the repository's README reads as if parsing went on up to `--`.
- The two exceptions of `AcceptedIsOneAssembly`: an entry of 2^32 bytes ends the extraction, and of a
  compressed archive, whose digest is right if the decoder's input buffer has the rest of it, the files
  behind it are then missing (a plain archive is refused, as the rest is not hashed); a file that shrinks by
  a whole entry while it is archived takes that entry in.
- Two assemblies of one release write the same `start` (`assembler.ex:107-108`), and one can archive it
  while the other has emptied it. What a launch accepts then is what was archived, an empty script.
- A path of 512 bytes or more is archived without complaint and refused by `cpio.c:93`: such an executable
  never starts.
- The plain sequence decoder refuses a block whose bit stream does not end exactly, except for as many bits as
  the last state transitions read; the one that works ahead has no such check
  (`zstd_decompress_block.c:1298`). So the same damaged block can be refused with a small window and
  accepted with a large one. The frame's checksum and the digest of the archive make up for it.

## 5. Proofs

Eight modules of proofs, checked by TLAPS: `LauncherCache_proofs`, `LauncherArgs_proofs`, `Cpio_proofs`,
`Assembler_proofs`, `UnzstdRead_proofs`, `UnzstdBuffers_proofs`, `LzCopy_proofs`, `Codec_proofs`. Each theorem
holds for every value of the constants that the assumptions of its module allow: any number of launchers,
bakers and launches, releases and archives of any shape, files, command lines and buffers of any size,
sequences of any length at any distance, texts and messages cut in any way.

| Module | Theorem | States |
| --- | --- | --- |
| `LauncherCache_proofs` | `TypeCorrect` | `Spec => []TypeOK` |
| | `PublishedIsComplete` | `Spec => []PublishedComplete` |
| | `PublishedIsKept` | `Spec => PublishedStays` |
| | `EntriesNeverChange` | `Spec => EntryNeverChanges` |
| | `StartIsThere` | `Spec => []StartStays` |
| | `LeftoversAccounted` | `Spec => []TmpAccounted` |
| | `IndexDoesNotDangle` | `Spec => []IndexOnlyPublished` |
| | `HealthyNeverFails` | `Spec => []HealthyLaunchNeverFails` |
| | `ImplementsAppCache` | `Spec => RefinesAppCacheSteps` |
| `LauncherArgs_proofs` | `ArgsTypeCorrect` | `Spec => []TypeOK` |
| | `ScriptArgsAreOwn` | `Spec => []ScriptSeesOwnArgs` |
| | `FirstOptionIsDecisive` | `Spec => []FirstOptionDecides` |
| `Cpio_proofs` | `ExtractedAreEntries` | an extraction that ends well has made exactly the entries |
| | `GoodArchivesExtract` | a good archive is extracted to its end, and no part of it refused |
| `Assembler_proofs` | `AssemblerTypeCorrect` | `Spec => []TypeOK` |
| | `TrailerTellsTheTruth` | `Spec => []TrailerFitsArchive` |
| | `LaunchesOneAssembly` | `Spec => []AcceptedIsOneAssembly` |
| | `FinishedExecutableStarts` | `Spec => []GoodExecutableStarts` |
| `UnzstdRead_proofs` | `ReadInvariant` | `Spec => []ReadInv` |
| | `TypeCorrect` | `Spec => []TypeOK` |
| | `NothingLost` | `Spec => []NoByteLost` |
| | `DigestMatches` | `Spec => []HashMatchesInput` |
| | `FlushesDecoded` | `Spec => []FlushesInOrder` |
| | `EndsAtTheEnd` | `Spec => []NoEarlyEnd` |
| `UnzstdBuffers_proofs` | `WindowInvariant` | `Spec => [](ReadInv /\ WindowInv)` |
| | `WindowStays` | `Spec => []WindowIntact` |
| | `CallsProgress` | `Spec => [](ReadInv /\ ProgressInv)`: no call of the decoder does nothing |
| | `BuffersFit` | `Spec => [](ReadInv /\ WindowInv /\ ProgressInv /\ FitsInv)` |
| | `GoodArchives` | `Spec => []GoodArchiveDecodes` |
| `LzCopy_proofs` | `SequenceExecuted` | `ZSTD_execSequence` does what copying byte by byte does, or refuses |
| `Codec_proofs` | `ChecksumCorrect` | `Spec => []ChecksumOfText` |
| | `DigestCorrect` | `Spec => []DigestOfMessage` |

### Assumptions

Those of each module about its constants, which TLC evaluates on every run. The theorems about the
cache state more, because without it they are false:

- `NoCollisions`: no temporary name is drawn while it is on its way to another launcher's `mkdir`.
  `PublishedIsComplete`, `EntriesNeverChange`, `LeftoversAccounted`, `HealthyNeverFails` and
  `ImplementsAppCache` need it; run `name_collision` shows what happens without. `TypeCorrect`, `PublishedIsKept`, `StartIsThere` and `IndexDoesNotDangle` do without, so
  they hold of launchers that share a directory as well.
- `NoLostCalls`: no call whose result is ignored fails. `PublishedIsComplete`, `HealthyNeverFails`
  and `ImplementsAppCache` need it; run `lost_write` shows why. The others hold although such
  calls fail.
- `NamesSuffice`, `ParentExists`, `NoIoFaults`, for `HealthyNeverFails` only: `mktemp` finds a name, the
  directory of the cache can be made, and no checked call fails. Other launchers may be killed at any step.

Of the rest, `ReleaseAssumption` (`Assembler`) says what a release directory and `Path.wildcard`
are like: a directory is listed before what is in it. `ZstdAssumption` (`ZstdStream`) says
what frames can be written at all; damaged ones are among them. `JobsAssumption` (`ZstdBlock`) says
that a frame has blocks and each a place in the buffer, which may be any. `HashJobsAssumption` (`Codec`) says
that messages consist of bytes, that a message which goes on from an earlier one does so after whole blocks
of 64 bytes, and that the digest which comes with it is the standard's.

### Arguments

*LauncherCache.* `PublishedComplete` is not inductive: that a directory is complete when it is
renamed is known only to the launcher that filled it. `IInv` adds what each launcher knows:

- `Holding(p)`: while it extracts, its name links to a directory; it has a
  file open exactly when it is writing, and that file is in its directory;
- `Position(p)`: how far the program counter and the entry number have come together, and that
  the digest matched before the rename;
- `Filled(p)`: the files before the current entry are complete, those after it absent;
- `NamesApart`: no two launchers have the same name in hand, which is where `NoCollisions` is used: `mktemp`
  passes over the directories of those that extract, and without collisions over the names of those
  about to make theirs (`NextApart`);
- `LinkedOnce`: no directory has two names, neither under `.tmp`, nor as entries, nor one of each.

A step of `p` touches files only in `p`'s directory, which by `LinkedOnce` and `NamesApart`
(lemma `Apart`) is no other launcher's and no entry; so it preserves what others know (lemmas
`Frame`, `OwnFiles`) and every published entry. There is one lemma per action, or one for the
actions that only move control. `Rename` publishes a directory of which `Filled` and `Position`
say that it is complete; it cannot replace an entry, because an entry is never empty
(`PublishedNotEmpty`). `EntryNeverChanges` follows from `IInv` step by step (`EntryStep`). What depends on `NoLostCalls` is stated as
an implication inside `IInv`, so that one induction serves both kinds of theorem.

*Whatever goes wrong.* Launchers that share a directory leave little of `IInv`. `Base` is what remains: types, what a
launcher has in hand (`Hand`), and `LinkedOnce`. It is enough for `KeepStep`: files are removed by a path under
`.tmp`, which leads to no entry, and a rename does not replace a directory with files. `PublishedIsKept` is that, and
`StartIsThere` and `IndexDoesNotDangle` are inductions on top of it (`StartStep`, `IndexStep`).

*Outcomes.* `TmpAccounted` is inductive on top of `IInv`: a directory appears under `.tmp` with
its launcher, and leaves with `Rename` or the last `RmDir`, or its launch ends and is recorded in
`leftBy`. `HealthyLaunchNeverFails` needs `Outcome`: that a name is left to draw (`Budget`, a
count of the names in use) and that each launcher stands on what its next call needs
(`Ground`). In the refinement every action of a launcher maps to a step of `AppCache` or to a stutter;
the work is in `Rename`, which is the only step that makes an entry, and in showing that
no other step changes what a look at an entry finds (`EntryIsLinked`, `ShownStep`).

*LauncherArgs.* `ArgsInv` says what the loop has looked at (`Looking`), what it has made of the command line
(`Processed`), and which of its arguments are in the environment so far (`Exported`): the one at
place `k` under the number of kept arguments up to `k`. The lemmas are about that number: blanking
the option, and its operand, leaves exactly the kept places non-empty (`KeptIsLeft`).

*Cpio.* `Extract` is a recursive function, one turn per entry. `ExtractTurns` unrolls it, by induction
over the natural numbers in the form the provers can use: a set that has 0 and the successors of its
members has every number (`NatSetInduction`; the set is defined by what is to be shown). A turn
that begins at a header either makes that entry or refuses (`EntryTurn`); one that does not begin
at a header is refused (`AstrayFails`).

*Assembler.* `AssemblerInv` says for each baker which paths are archived, each once (`Growing`),
that the archive is whole from compression on and then stays (`Finished`), what its trailer says
(`Described`); and for each launch that what it has seen is a trailer some baker wrote. A launch
that accepts has the digest of that baker's archive, so it has the archive, and `ExtractedAreEntries`
says what came out of it. `FinishedExecutableStarts` needs the order of the entries as well
(`OrderInv`: a directory before what is in it; lengths and offsets modulo 2^32) and what a launch of
an executable that is left alone has read so far (`ReadInv`: the beginning of the archive).

*UnzstdRead.* `ReadInv` says where the decoder is in the archive. `StageInv`: in each stage of the
stream, which unit of which frame comes next and how many bytes it expects. `CallInv`: what a call may find
and leave, above all that a frame whose output is still pending has kept a byte of its input back, so
that the caller comes again. `Counted`: what was hashed is what the decoder has consumed
and what lies in the input buffer; what was decoded is the plain text up to there. Both
count in terms of sums over frames and blocks (`SumRuns`, `SumOpenings`, again by `NatSetInduction`),
of which a step needs only that each is the one before and one frame or block more. There is one lemma for each kind
of unit (`BlockHeaderDone`, `BlockDone`, `FrameEndDone`), one for each turn of the loop of
`ZSTD_decompressStream` (from `StartFrameStep` to `ResultStep`, with `Ready` and `StepOk` for what a
turn needs and keeps), and one for each action of the reader. `NoEarlyEnd` follows: when all
bytes are taken the last frame is decoded to its end (`AllTaken`), and had any of its output been
pending, a byte would have been kept back and the input would not be used up.

*UnzstdBuffers.* `WindowIntact` speaks of the moment before a compressed block; `WindowInv` says what
keeps it true, among the blocks of a frame:

- `Roomy`: the buffer holds the window, a block and two overrunning copies, or the whole frame;
- `Prefix`: from its start up to `outEnd` it holds the last bytes of the text;
- `Behind`: further up, beyond what a copy may have run over, and below the end of the piece before, it holds
  the text that comes before the prefix, and that piece is longer than the window;
- where `CheckContinuity` stands: the window is in one piece (`OnePiece`), in two and the fields of the
  `ZSTD_DCtx` say so (`TwoPieces`), or the buffer is to be used from its start again
  and the decoder has not seen it yet (`Turned`).

`LeavesWindow` is the arithmetic of `ZSTD_decodingBufferSize_min`: where the next block does not fit any
more, the text in the buffer is longer than a window and an overrun. So a restart (`TurnWindow`) leaves the
window behind the new prefix, and a block that is written (`BlockWritten`) takes as much from the second piece
as it adds to the prefix. `WindowShown` then follows a distance to either piece, where `SourceInOne` and
`SourceInTwo` say what the block decoder computes.

`GoodArchiveDecodes` has a premise in the archive only, so each of the ways in which the decoder can
fail must be refuted, and two of them depend on how it got where it is:

- No progress. `ZSTD_decompressStream` gives up after a number of calls that neither read nor write
  (`stalls`). `ProgressInv` says that there is never such a call: a call begins with something to do
  (`Fresh`: a unit to decode, output to flush, or a header not yet whole) and with input; one that
  is over has taken input or put out something; and a byte is kept back only where the caller still
  has it. The case to see is a frame whose last output leaves the decoder together with the byte
  that was kept back (`ResultProgress`).
- No room. `FitsInv` says that among the units of a frame the input buffer holds any of them
  (`LoadsWhole`), and that the output buffer has room for the next block or holds the whole frame
  and has been filled from its start (`HasRoom`; then what is decoded is the sum of the plain sizes
  of the blocks before, `decodedSize = PlainInside`, and the rest of the frame is within its content
  size).

The other checks compare the unit at hand with what the archive says of it: the header
(`HeaderAccepted`, `SinglePassAccepted`), the size of a block and its text (`BlockAccepted`), the content
size and the checksum at the end (`UnitAccepted`). `ReadInv` says which unit that is, and a good
archive has only units that pass. These lemmas have no induction of their own.

*LzCopy.* `CopyBytes` is a copy of one byte after the other, in closed form: behind the source, at a
distance, it repeats it. Copies that go on from one another are one copy (`CopyTwice`), so the loops of
`ZSTD_wildcopy`, which take 8 or 16 bytes at a time and at least one step, are a copy of too many bytes
(`WildNear`, `WildFar`). `OverlapCopyIs`: the first eight bytes of a match at a distance below 8, taken 4 and 4
with the tables `dec32table` and `dec64table`, are right, and the distance afterwards is a multiple
of the match's own (`Spread`), so that the rest may be copied eight at a time (`SpreadCopy`). Near the end of
the buffer `ZSTD_safecopy` splits the copy at `oend_w` (`EndSequence`). `Assembled` puts
literals, the part of a match in the older segment, and the rest together. `SequenceExecuted` has one
premise, `Callable`, about the caller: the literals lie outside of the output buffer, and the literals of the
sequence, which write up to 32 bytes too many, do not run over the source of its match in the older
segment. That the buffer is laid out so is what `WindowIntact` says of the streaming decoder, and
`WindowStays` proves. About `ZSTD_safecopy` there is no theorem of its own: what it does to an overlapping
match is stated for matches that end behind `oend_w`, since the guard of `ZSTD_execSequence` gives
`ZSTD_execSequenceEnd`, its only caller, no others (`EndSequence`).

*Checksum.* `Absorbed(t)` is what `XXH64_update` makes of a text `t` at once: its whole stripes
mixed in, the rest in the buffer. `AbsorbedMore`: the update of `Absorbed(t)` with a piece `x` is
`Absorbed(t \o x)`, by the numbers of stripes before, across and behind the border (`NumbersFit`) and the fact that
stripes taken from another sequence with the same bytes go on where they were (`StripesOn`). `SumInv` is the
invariant: the state is that of the text so far. Nothing has to be known about how a block is decoded.

*Digest.* `IsHash(c, b, t)`: the context `c` is that of the message `t`, `b` bits having been counted before it.
`HashMore`: `SHA1Update` keeps it, for pieces of every length. The counters are two words of bytes, so this
rests on what `Add`, `Less` and `Word` compute (`CarriedIs`, `Add4`, `Less4`, `Word4`, `CarryIs`), from which `CountedIs`:
the two counters are the number of bits modulo 2^64. `IndexIs`: six bits of the lower counter say how many
bytes wait in the buffer. `PaddedHash`: the zeros that `SHA1Final` hashes one by one are those of
the standard, and fewer than 64 turns are enough. `HashFinal`: with the count behind them the padding is the
standard's. Lengths are any numbers here; in the code a piece has fewer than 2^32 bytes.

### What is only model-checked, and why

- `LaunchEnds`, `HealthyStarts`, `CallReturns`, and the fairness in `RefinesAppCache`: liveness, which
  is out of the prover's reach.
- Of `Codec`: `OutputIsReference`, `GoodBlocksDecode`, `CorruptRefused`, and, because they need the range of what
  the entropy decoders return, `OutputStays` and `TypeOK`. Their tables and bits are computed by nested recursive
  functions over data with exponents (2^n for an n that was read), which the provers have no theory
  of, and what they compute for every input needs induction over data. What of them does not depend on how a
  sequence was decoded is `SequenceExecuted`.

## 6. Not modelled

- In the Zstandard library: what a launcher never reaches, which is most of its interface: one-shot
  and frame-level calls, dictionaries, legacy formats, static contexts, stable output buffers, magicless
  frames, XXH32, compression, the pool and the threads.
- How fast anything is: prefetching, `HUF_selectDecoder`, processor-specific variants of the same loop.
- Windows: `type` in place of `cat`, paths. `Scripts` may list `start.bat`; the run has `start` only.
- Hexadecimal output, messages, `--bw-info`'s output, `result_to_halt`: single calls without state.
- Of `utils.c`, what other systems than Linux do to find the path of the executable.
- A launch that reads an executable while the trailer itself is half written: the trailer is one piece.
- Reading the size of the launcher before `cat` reads the launcher: it would need the launcher to be rebuilt
  meanwhile.
- Build files, examples, and the tests, which are quoted where they promise something.

## 7. Plan

The modules of section 2 exist, and every safety property that a run checks is proved except five of
`Codec` (section 5, last list). Next:

1. The types of what the entropy decoders return, from which `OutputStays` follows with `SequenceExecuted`.
2. An abstract sequence of blocks that `ZstdStream` and `Codec` both refine; they meet only in
   `WindowIntact` and `Callable` so far.
