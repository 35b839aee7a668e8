------------------------------ MODULE ZstdStream -------------------------------
(***************************************************************************)
(* The streaming Zstandard decoder the launcher uses: ZSTD_decompressStream *)
(* over ZSTD_decompressContinue, with buffered output, without dictionary. *)
(*                                                                         *)
(* A frame is decoded unit by unit (header, block headers, blocks,         *)
(* checksum) into a buffer from which the output is flushed and which is   *)
(* also the window that later blocks copy from.  The buffer is reused from *)
(* its start, so that the window may lie in two pieces: the prefix, where  *)
(* the decoder writes, and what is left of the round before.               *)
(*                                                                         *)
(* The bytes of the plain text are numbered, and the buffer holds their    *)
(* numbers; compressed bytes are counted.  Addresses in the buffer start   *)
(* from 1, and 0 is NULL.                                                  *)
(***************************************************************************)
EXTENDS Integers, Sequences

CONSTANTS
  Archives,       \* what may be decoded: sequences of frames
  BlockSizeMax,   \* ZSTD_BLOCKSIZE_MAX
  MinCBlockSize,  \* MIN_CBLOCK_SIZE: no compressed block is shorter
  OverLength,     \* WILDCOPY_OVERLENGTH
  MinWindow,      \* 1 << ZSTD_WINDOWLOG_ABSOLUTEMIN
  MaxWindow,      \* ZSTD_MAXWINDOWSIZE_DEFAULT
  MaxOversized,   \* ZSTD_WORKSPACETOOLARGE_MAXDURATION
  MaxStalls       \* ZSTD_NO_FORWARD_PROGRESS_MAX

Unknown == -1     \* ZSTD_CONTENTSIZE_UNKNOWN
PrefixSize == 5   \* ZSTD_startingInputLength
SkipHeaderSize == 8
BlockHeaderSize == 3
ChecksumSize == 4
TooLargeFactor == 3
DStreamInSize == BlockSizeMax + BlockHeaderSize
DStreamOutSize == BlockSizeMax

Block == [type : {"raw", "rle", "compressed", "reserved"}, csize : Nat, size : Nat]

\* A Zstandard frame: magic, with a valid magic number and descriptor; single, the
\* single-segment flag; fcs, the frame content size or Unknown; honest, with a
\* checksum that matches if it has one.  A skippable frame has skip bytes.
ZstdFrames ==
  [kind : {"zstd"}, magic : BOOLEAN, single : BOOLEAN, fcs : Nat \cup {Unknown}, fcsId : 0..3,
   window : Nat, checksum : BOOLEAN, honest : BOOLEAN, blocks : Seq(Block) \ {<<>>}]
SkippableFrames == [kind : {"skippable"}, skip : Nat]

\* A raw block is its content, and an empty block has none.
ASSUME ZstdAssumption ==
  /\ Archives \subseteq Seq(ZstdFrames \cup SkippableFrames)
  /\ \A a \in Archives : \A i \in DOMAIN a : a[i].kind = "zstd" =>
       /\ a[i].single => a[i].fcs # Unknown /\ a[i].window = a[i].fcs
       /\ \A j \in DOMAIN a[i].blocks :
            LET b == a[i].blocks[j] IN
            /\ b.type = "raw" => b.csize = b.size
            /\ b.csize = 0 => b.size = 0
  /\ BlockSizeMax \in Nat \ {0} /\ MinCBlockSize \in Nat \ {0} /\ OverLength \in Nat
  /\ MinWindow \in Nat \ {0} /\ MaxWindow \in Nat
  /\ MaxOversized \in Nat /\ MaxStalls \in Nat \ {0}

VARIABLES
  archive,   \* the frames
  call,      \* "out" of ZSTD_decompressStream, "loop", "result", or "error" returned
  inPos,     \* input.pos
  inLen,     \* input.size
  outLen,    \* output.pos
  istart,    \* input.pos when the call began
  zds,       \* the fields of the ZSTD_DCtx
  outBuff,   \* its output buffer: numbers of plain bytes, 0 for garbage
  decoded    \* plain bytes decoded so far, of all frames

decoderVars == <<archive, call, inPos, inLen, outLen, istart, zds, outBuff, decoded>>

Larger(a, b) == IF a < b THEN b ELSE a
Smaller(a, b) == IF a < b THEN a ELSE b
\* The sum of a sequence of numbers
SumOf(s) ==
  LET upTo[n \in 0..Len(s)] == IF n = 0 THEN 0 ELSE upTo[n - 1] + s[n]
  IN upTo[Len(s)]

-----------------------------------------------------------------------------
(* Frames                                                                  *)

FcsFieldSize == <<0, 2, 4, 8>>

\* ZSTD_frameHeaderSize_internal, for a frame that names no dictionary.
HeaderSize(f) ==
  PrefixSize + (IF f.single THEN 0 ELSE 1) + FcsFieldSize[f.fcsId + 1]
    + (IF f.single /\ f.fcsId = 0 THEN 1 ELSE 0)

\* ZSTD_getFrameHeader_advanced: how much of the header must be there, 0 when it is.
HeaderWants(f, have) ==
  LET whole == IF f.kind = "skippable" THEN SkipHeaderSize ELSE HeaderSize(f)
  IN IF have < PrefixSize THEN PrefixSize ELSE IF have < whole THEN whole ELSE 0

MaxBlock(f) == Smaller(f.window, BlockSizeMax)

FrameSize(f) ==
  IF f.kind = "skippable" THEN SkipHeaderSize + f.skip
  ELSE HeaderSize(f)
         + SumOf([i \in DOMAIN f.blocks |-> BlockHeaderSize + f.blocks[i].csize])
         + (IF f.checksum THEN ChecksumSize ELSE 0)

PlainSize(f) ==
  IF f.kind = "skippable" THEN 0
  ELSE SumOf([i \in DOMAIN f.blocks |-> f.blocks[i].size])

ArchiveSize(a) == SumOf([i \in DOMAIN a |-> FrameSize(a[i])])
ArchivePlain(a) == SumOf([i \in DOMAIN a |-> PlainSize(a[i])])

Frame(z) == archive[z.frame]
LastBlock(z) == z.block = Len(Frame(z).blocks)

-----------------------------------------------------------------------------
(* ZSTD_decompressContinue                                                 *)

\* Where it reads from and writes to lies on one line: a new piece of the window
\* begins when the destination does not continue the last one.
CheckContinuity(z, dst) ==
  IF dst = z.previousDstEnd THEN z
  ELSE [z EXCEPT !.dictEnd = z.previousDstEnd,
                 !.virtualStart = dst - (z.previousDstEnd - z.prefixStart),
                 !.prefixStart = dst, !.previousDstEnd = dst]

\* The sizes ZSTD_decompressBlock_internal does not refuse.
CBlockSizes == MinCBlockSize..(BlockSizeMax - 1)

EndOfBlocks(z) ==
  IF Frame(z).checksum
    THEN [z EXCEPT !.expected = ChecksumSize, !.stage = "checksum"]
    ELSE [z EXCEPT !.expected = 0, !.stage = "frameHeader"]

ToBlockHeader(z) == [z EXCEPT !.expected = BlockHeaderSize, !.stage = "blockHeader"]

Done(z) == [z |-> z, size |-> 0, fails |-> FALSE]
Fails(z) == [z |-> z, size |-> 0, fails |-> TRUE]

\* ZSTDds_decodeBlockHeader
DecodeBlockHeader(z) ==
  LET y == [z EXCEPT !.block = @ + 1]
      b == Frame(y).blocks[y.block]
  IN IF b.type = "reserved" \/ b.csize > MaxBlock(Frame(y)) THEN Fails(y)
     ELSE IF b.csize > 0 THEN Done([y EXCEPT !.expected = b.csize, !.stage = "block"])
     ELSE IF LastBlock(y) THEN Done(EndOfBlocks(y))
     ELSE Done(ToBlockHeader(y))

\* ZSTDds_decompressBlock and ZSTDds_decompressLastBlock: n bytes of a raw block, or
\* the whole of another one, at dst where there is room for capacity bytes.
DecompressBlock(z, n, dst, capacity) ==
  LET f == Frame(z)
      b == f.blocks[z.block]
      size == IF b.type = "raw" THEN n ELSE b.size
      left == IF b.type = "raw" THEN z.expected - n ELSE 0
      y == [z EXCEPT !.expected = left, !.decodedSize = @ + size,
                     !.previousDstEnd = dst + size]
      next == IF left > 0 THEN y
              ELSE IF LastBlock(z) THEN EndOfBlocks(y) ELSE ToBlockHeader(y)
  IN IF \/ size > capacity
        \/ size > MaxBlock(f)
        \/ b.type = "compressed" /\ n \notin CBlockSizes
        \/ left = 0 /\ LastBlock(z) /\ f.fcs # Unknown /\ y.decodedSize # f.fcs
       THEN Fails(z)
       ELSE [z |-> next, size |-> size, fails |-> FALSE]

EndOfFrame(z) == [z EXCEPT !.expected = 0, !.stage = "frameHeader"]

Continue(z, n, dst, capacity) ==
  LET y == IF capacity > 0 THEN CheckContinuity(z, dst) ELSE z
  IN CASE z.stage = "blockHeader" -> DecodeBlockHeader(y)
       [] z.stage = "block" -> DecompressBlock(y, n, dst, capacity)
       [] z.stage = "checksum" -> IF Frame(y).honest THEN Done(EndOfFrame(y)) ELSE Fails(y)
       [] z.stage = "skipFrame" -> Done(EndOfFrame(y))

\* ZSTD_nextSrcSizeToDecompressWithInputSize: a raw block need not be whole.
NextSrcSize(z, available) ==
  IF z.stage = "block" /\ Frame(z).blocks[z.block].type = "raw"
    THEN Smaller(Larger(available, 1), z.expected)
    ELSE z.expected

\* The buffer after a block: numbered bytes at dst, and, when it was decompressed,
\* garbage after them, as copies may run over by OverLength bytes.
Written(dst, size, overruns) ==
  [a \in DOMAIN outBuff |->
     IF a >= dst /\ a < dst + size THEN decoded + 1 + (a - dst)
     ELSE IF overruns /\ a >= dst + size /\ a < dst + size + OverLength THEN 0
     ELSE outBuff[a]]

-----------------------------------------------------------------------------
(* ZSTD_decompressStream                                                   *)

Looping == call = "loop" /\ UNCHANGED <<archive, inLen, istart>>
Available == inLen - inPos
Room == DStreamOutSize - outLen

\* ZSTD_createDCtx
NoFrame ==
  [streamStage |-> "init", stage |-> "frameHeader", frame |-> 0, block |-> 0,
   lhSize |-> 0, inPos |-> 0, outStart |-> 0, outEnd |-> 0, hostageByte |-> FALSE,
   inBuffSize |-> 0, outBuffSize |-> 0, oversized |-> 0, stalls |-> 0, expected |-> 0,
   window |-> 0, decodedSize |-> 0,
   previousDstEnd |-> 0, prefixStart |-> 0, virtualStart |-> 0, dictEnd |-> 0]

DecoderInit ==
  /\ archive \in Archives
  /\ call = "out" /\ inPos = 0 /\ inLen = 0 /\ outLen = 0 /\ istart = 0
  /\ zds = NoFrame /\ outBuff = <<>> /\ decoded = 0

\* zdss_init
StartFrame ==
  /\ Looping /\ zds.streamStage = "init"
  /\ zds' = [zds EXCEPT !.streamStage = "loadHeader", !.frame = @ + 1, !.block = 0,
                        !.lhSize = 0, !.inPos = 0, !.outStart = 0, !.outEnd = 0,
                        !.hostageByte = FALSE]
  /\ UNCHANGED <<call, inPos, outLen, outBuff, decoded>>

LoadingHeader == Looping /\ zds.streamStage = "loadHeader"
BadHeader ==
  /\ Frame(zds).kind = "zstd" /\ ~Frame(zds).magic /\ zds.lhSize >= PrefixSize

\* zdss_loadHeader, with a part of the header to load still: if the input ends
\* first the call returns at once.
LoadHeader ==
  /\ LoadingHeader /\ ~BadHeader
  /\ LET wants == HeaderWants(Frame(zds), zds.lhSize)
         n == Smaller(wants - zds.lhSize, Available)
     IN /\ wants > 0
        /\ zds' = [zds EXCEPT !.lhSize = @ + n]
        /\ inPos' = inPos + n
        /\ call' = IF zds.lhSize + n < wants THEN "out" ELSE "loop"
  /\ UNCHANGED <<outLen, outBuff, decoded>>

HeaderLoaded ==
  /\ LoadingHeader /\ ~BadHeader
  /\ HeaderWants(Frame(zds), zds.lhSize) = 0

\* The whole frame is in the input, its header was loaded by this call, and the
\* output has room for the content.
SinglePassPossible ==
  LET f == Frame(zds) IN
  /\ f.kind = "zstd" /\ f.fcs # Unknown /\ Room >= f.fcs
  /\ istart + zds.lhSize = inPos
  /\ inLen - istart >= FrameSize(f)
  /\ \A i \in DOMAIN f.blocks : f.blocks[i].type # "reserved"

\* ZSTD_decompressFrame writes into the output itself.
SinglePassSucceeds ==
  LET f == Frame(zds) IN
  /\ f.fcs = PlainSize(f) /\ (f.checksum => f.honest)
  /\ \A i \in DOMAIN f.blocks :
       f.blocks[i].type = "compressed" => f.blocks[i].csize \in CBlockSizes

HeaderFails ==
  /\ LoadingHeader
  /\ \/ BadHeader
     \/ /\ HeaderLoaded /\ ~SinglePassPossible
        /\ Frame(zds).kind = "zstd" /\ Frame(zds).window > MaxWindow
  /\ call' = "error"
  /\ UNCHANGED <<inPos, outLen, zds, outBuff, decoded>>

SinglePass ==
  /\ HeaderLoaded /\ SinglePassPossible
  /\ IF SinglePassSucceeds
       THEN /\ inPos' = istart + FrameSize(Frame(zds))
            /\ outLen' = outLen + PlainSize(Frame(zds))
            /\ decoded' = decoded + PlainSize(Frame(zds))
            /\ zds' = [zds EXCEPT !.expected = 0, !.stage = "frameHeader", !.streamStage = "init"]
            /\ call' = "result"
       ELSE call' = "error" /\ UNCHANGED <<inPos, outLen, decoded, zds>>
  /\ UNCHANGED outBuff

\* Mutant: no room for copies that run over.
DecodingBufferSize_NoOver(window, fcs) ==
  LET needed == window + Smaller(window, BlockSizeMax)
  IN IF fcs = Unknown THEN needed ELSE Smaller(fcs, needed)

\* ZSTD_decodingBufferSize_min
DecodingBufferSize(window, fcs) ==
  LET needed == window + Smaller(window, BlockSizeMax) + 2 * OverLength
  IN IF fcs = Unknown THEN needed ELSE Smaller(fcs, needed)

\* ZSTD_DCtx_updateOversizedDuration: frames in a row whose buffers could have been
\* much smaller.
OversizedDuration(z, needIn, needOut) ==
  IF z.inBuffSize + z.outBuffSize >= (needIn + needOut) * TooLargeFactor
    THEN z.oversized + 1 ELSE 0

\* ZSTD_decompressBegin_usingDDict, without a dictionary
DecompressBegin(z) ==
  [z EXCEPT !.expected = PrefixSize, !.stage = "frameHeader", !.decodedSize = 0,
            !.previousDstEnd = 0, !.prefixStart = 0, !.virtualStart = 0, !.dictEnd = 0]

\* The rest of zdss_loadHeader: ZSTD_decompressBegin, ZSTD_decodeFrameHeader, and
\* buffers of the size that the frame needs.
ConsumeHeader ==
  /\ HeaderLoaded /\ ~SinglePassPossible
  /\ LET f == Frame(zds)
         skips == f.kind = "skippable"
         window == Larger(IF skips THEN 0 ELSE f.window, MinWindow)
         needIn == Larger(IF skips THEN 0 ELSE MaxBlock(f), ChecksumSize)
         needOut == IF skips
                      THEN DecodingBufferSize(window, f.skip)
                      ELSE DecodingBufferSize(window, f.fcs)
         oversized == OversizedDuration(zds, needIn, needOut)
         resize == \/ zds.inBuffSize < needIn \/ zds.outBuffSize < needOut
                   \/ oversized >= MaxOversized
     IN /\ f.kind = "zstd" => f.window <= MaxWindow
        /\ zds' = [DecompressBegin(zds) EXCEPT
             !.streamStage = "read",
             !.stage = IF skips THEN "skipFrame" ELSE "blockHeader",
             !.expected = IF skips THEN f.skip ELSE BlockHeaderSize,
             !.window = window, !.oversized = oversized,
             !.inBuffSize = IF resize THEN needIn ELSE @,
             !.outBuffSize = IF resize THEN needOut ELSE @]
        /\ outBuff' = IF resize THEN [a \in 1..needOut |-> 0] ELSE outBuff
  /\ UNCHANGED <<call, inPos, outLen, decoded>>

\* Mutant: a block is written at the start of the buffer.
ContinueStream_Front(z, n) ==
  LET r == Continue(z, n, 1, IF z.stage = "skipFrame" THEN 0 ELSE z.outBuffSize)
  IN IF r.fails
       THEN call' = "error" /\ UNCHANGED <<zds, outBuff, decoded>>
       ELSE /\ zds' = IF r.size = 0 /\ z.stage # "skipFrame"
                        THEN [r.z EXCEPT !.streamStage = "read"]
                        ELSE [r.z EXCEPT !.streamStage = "flush", !.outEnd = z.outStart + r.size]
            /\ outBuff' = IF z.stage = "block" THEN Written(1, r.size, FALSE) ELSE outBuff
            /\ decoded' = decoded + r.size
            /\ UNCHANGED call

\* ZSTD_decompressContinueStream on n bytes: what it has written is flushed before
\* anything else is decoded.
ContinueStream(z, n) ==
  LET skips == z.stage = "skipFrame"
      dst == z.outStart + 1
      r == Continue(z, n, dst, IF skips THEN 0 ELSE z.outBuffSize - z.outStart)
      overruns == z.stage = "block" /\ Frame(z).blocks[z.block].type = "compressed"
  IN IF r.fails
       THEN call' = "error" /\ UNCHANGED <<zds, outBuff, decoded>>
       ELSE /\ zds' = IF r.size = 0 /\ ~skips
                        THEN [r.z EXCEPT !.streamStage = "read"]
                        ELSE [r.z EXCEPT !.streamStage = "flush", !.outEnd = z.outStart + r.size]
            /\ outBuff' = IF z.stage = "block" THEN Written(dst, r.size, overruns) ELSE outBuff
            /\ decoded' = decoded + r.size
            /\ UNCHANGED call

\* zdss_read at the end of a frame
ReadEnd ==
  /\ Looping /\ zds.streamStage = "read" /\ zds.expected = 0
  /\ zds' = [zds EXCEPT !.streamStage = "init"]
  /\ call' = "result"
  /\ UNCHANGED <<inPos, outLen, outBuff, decoded>>

\* zdss_read, decoding from the input
ReadDirect ==
  /\ Looping /\ zds.streamStage = "read" /\ zds.expected > 0
  /\ LET n == NextSrcSize(zds, Available) IN
     /\ Available >= n
     /\ ContinueStream(zds, n)
     /\ inPos' = inPos + n
  /\ UNCHANGED outLen

\* Mutant: no input does not end the call.
ReadShort_Loop ==
  /\ Looping /\ zds.streamStage = "read" /\ zds.expected > 0
  /\ Available < NextSrcSize(zds, Available)
  /\ zds' = [zds EXCEPT !.streamStage = IF Available = 0 THEN "read" ELSE "load"]
  /\ UNCHANGED <<call, inPos, outLen, outBuff, decoded>>

\* zdss_read, with too little input
ReadShort ==
  /\ Looping /\ zds.streamStage = "read" /\ zds.expected > 0
  /\ Available < NextSrcSize(zds, Available)
  /\ IF Available = 0
       THEN call' = "result" /\ UNCHANGED zds
       ELSE zds' = [zds EXCEPT !.streamStage = "load"] /\ UNCHANGED call
  /\ UNCHANGED <<inPos, outLen, outBuff, decoded>>

\* zdss_load
Load ==
  /\ Looping /\ zds.streamStage = "load"
  /\ LET toLoad == zds.expected - zds.inPos
         n == Smaller(toLoad, Available)
         tooMuch == zds.stage # "skipFrame" /\ toLoad > zds.inBuffSize - zds.inPos
     IN IF tooMuch
          THEN call' = "error" /\ UNCHANGED <<inPos, zds, outBuff, decoded>>
          ELSE /\ inPos' = inPos + n
               /\ IF n < toLoad
                    THEN /\ zds' = [zds EXCEPT !.inPos = @ + n]
                         /\ call' = "result"
                         /\ UNCHANGED <<outBuff, decoded>>
                    ELSE ContinueStream([zds EXCEPT !.inPos = 0], zds.expected)
  /\ UNCHANGED outLen

\* Mutant: the buffer is used to its end.
Restarts_Full(z, start) == Frame(z).kind = "zstd" /\ start = z.outBuffSize

\* The next block might not fit behind what is in the buffer.
Restarts(z, start) ==
  LET f == Frame(z) IN
  IF f.kind = "skippable"
    THEN z.outBuffSize < f.skip /\ start > z.outBuffSize
    ELSE /\ f.fcs = Unknown \/ z.outBuffSize < f.fcs
         /\ start + MaxBlock(f) > z.outBuffSize

\* zdss_flush
Flush ==
  /\ Looping /\ zds.streamStage = "flush"
  /\ LET toFlush == zds.outEnd - zds.outStart
         n == Smaller(toFlush, Room)
         start == zds.outStart + n
     IN /\ outLen' = outLen + n
        /\ zds' = IF n < toFlush THEN [zds EXCEPT !.outStart = start]
                  ELSE IF Restarts(zds, start)
                    THEN [zds EXCEPT !.streamStage = "read", !.outStart = 0, !.outEnd = 0]
                    ELSE [zds EXCEPT !.streamStage = "read", !.outStart = start]
        /\ call' = IF n < toFlush THEN "result" ELSE "loop"
  /\ UNCHANGED <<inPos, outBuff, decoded>>

\* Mutant: input is given back as consumed although output is still pending.
TakeHostage_Never(z) == zds' = z /\ UNCHANGED inPos

\* A frame that is decoded but not flushed keeps its last input byte back, so that
\* the caller sees unused input and calls again.
TakeHostage(z) ==
  /\ inPos' = IF z.hostageByte THEN inPos ELSE inPos - 1
  /\ zds' = [z EXCEPT !.hostageByte = TRUE]

ReleaseHostage(z) ==
  IF z.hostageByte /\ inPos >= inLen
    THEN zds' = [z EXCEPT !.streamStage = "read"] /\ UNCHANGED inPos
    ELSE zds' = z /\ inPos' = IF z.hostageByte THEN inPos + 1 ELSE inPos

\* The result of the call.  Sixteen calls in a row that do nothing are an error.
Result ==
  /\ call = "result"
  /\ LET stalls == IF inPos = istart /\ outLen = 0 THEN zds.stalls + 1 ELSE 0
         z == [zds EXCEPT !.stalls = stalls]
     IN IF stalls >= MaxStalls
          THEN call' = "error" /\ UNCHANGED <<inPos, zds>>
          ELSE /\ call' = "out"
               /\ IF zds.expected > 0 THEN zds' = z /\ UNCHANGED inPos
                  ELSE IF zds.outEnd = zds.outStart THEN ReleaseHostage(z) ELSE TakeHostage(z)
  /\ UNCHANGED <<archive, inLen, istart, outLen, outBuff, decoded>>

Decode ==
  \/ StartFrame \/ LoadHeader \/ HeaderFails \/ SinglePass \/ ConsumeHeader
  \/ ReadEnd \/ ReadDirect \/ ReadShort \/ Load \/ Flush \/ Result

-----------------------------------------------------------------------------
(* Good archives, and what holds of their decoding.                        *)

FrameOk(f) ==
  \/ f.kind = "skippable"
  \/ /\ f.magic /\ f.window <= MaxWindow /\ (f.checksum => f.honest)
     /\ f.fcs \in {Unknown, PlainSize(f)}
     /\ \A i \in DOMAIN f.blocks :
          LET b == f.blocks[i] IN
          /\ b.type # "reserved"
          /\ b.csize <= MaxBlock(f) /\ b.size <= MaxBlock(f)
          /\ b.type = "raw" => b.csize = b.size
          /\ b.type = "compressed" => b.csize \in CBlockSizes

ArchiveOk == \A i \in DOMAIN archive : FrameOk(archive[i])

\* The sizes of the frames before a frame, and of the blocks up to a block.
Sizes(k) == SumOf([i \in 1..k |-> FrameSize(archive[i])])
BlockSizes(f, k) == SumOf([i \in 1..k |-> BlockHeaderSize + f.blocks[i].csize])

\* How much of a frame the decoder has taken: the units it has finished, the raw
\* bytes of a block, or its part of the header.
Inside(z) ==
  LET f == Frame(z) IN
  IF z.streamStage = "loadHeader" THEN z.lhSize
  ELSE IF z.expected = 0 THEN FrameSize(f)
  ELSE IF z.stage = "skipFrame" THEN SkipHeaderSize
  ELSE HeaderSize(f) + BlockSizes(f, z.block) - (IF z.stage = "block" THEN z.expected ELSE 0)

\* Input the decoder has taken, the loaded part of the next unit included.
Consumed(z) == IF z.frame = 0 THEN 0 ELSE Sizes(z.frame - 1) + Inside(z) + z.inPos
Taken == Consumed(zds)

\* What is flushed is the plain text that was decoded last and in order, although the
\* buffer is refilled from its start while its end is still the window.
FlushesInOrder ==
  zds.streamStage = "flush" =>
    \A a \in (zds.outStart + 1)..zds.outEnd : outBuff[a] = decoded - zds.outEnd + a

\* The address the block decoder computes for the byte d before address a
\* (prefixStart, virtualStart and dictEnd of ZSTD_execSequence).
SourceOf(z, a, d) ==
  IF d <= a - z.prefixStart THEN a - d ELSE z.dictEnd - (z.prefixStart - (a - d))

\* Whatever block is decompressed next, every byte of the window is still in the
\* buffer where the decoder looks for it, at every position of the block: neither
\* the blocks decoded since, nor what copies ran over, nor the copies of this very
\* block have overwritten it.
WindowIntact ==
  /\ zds.streamStage \in {"read", "load"} /\ zds.stage = "block"
  /\ Frame(zds).blocks[zds.block].type = "compressed"
  => LET dst == zds.outStart + 1
         z == CheckContinuity(zds, dst)
     IN \A k \in 0..(Frame(zds).blocks[zds.block].size - 1) :
        \A d \in 1..Smaller(Frame(zds).window, zds.decodedSize + k) :
          LET a == dst + k
              s == SourceOf(z, a, d)
          IN /\ d <= a - z.virtualStart
             /\ \/ s >= dst /\ s < a
                \/ /\ s \in DOMAIN outBuff /\ outBuff[s] = decoded + k + 1 - d
                   /\ s < dst \/ s >= a + OverLength
=============================================================================
