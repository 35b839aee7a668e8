--------------------------- MODULE UnzstdRead_proofs ---------------------------
(***************************************************************************)
(* Proofs about UnzstdRead and the streaming decoder under it, for         *)
(* archives of any frames and blocks, and buffers of any size.             *)
(***************************************************************************)
EXTENDS UnzstdRead, WellFoundedInduction, TLAPS

-----------------------------------------------------------------------------
(* The inductive invariant                                                 *)

Zds ==
  [streamStage : {"init", "loadHeader", "read", "load", "flush"},
   stage : {"frameHeader", "blockHeader", "block", "checksum", "skipFrame"},
   frame : Nat, block : Nat, lhSize : Nat, inPos : Nat, outStart : Nat, outEnd : Nat,
   hostageByte : BOOLEAN, inBuffSize : Nat, outBuffSize : Nat, oversized : Nat, stalls : Nat,
   expected : Nat, window : Nat, decodedSize : Nat,
   previousDstEnd : Int, prefixStart : Int, virtualStart : Int, dictEnd : Int]

Typed ==
  /\ archive \in Archives
  /\ pc \in {"idle", "copy", "refill", "decode", "eof", "ioerror", "fatal"}
  /\ call \in {"out", "loop", "result", "error"}
  /\ inLen \in 0..DStreamInSize /\ inPos \in 0..inLen /\ istart \in 0..inLen
  /\ outLen \in 0..DStreamOutSize
  /\ zds \in Zds /\ DOMAIN outBuff = 1..zds.outBuffSize
  /\ decoded \in Nat /\ delivered \in Nat
  /\ bytesLeft \in 0..ArchiveSize(archive) /\ hashed = ArchiveSize(archive) - bytesLeft

\* unzstd_read between its buffers: it asks for more only when it has handed out all.
ReaderInv ==
  /\ ourPos \in 0..outLen
  /\ want \in Counts \cup {0} /\ got \in 0..want
  /\ pc \in {"copy", "refill", "decode"} => got < want
  /\ pc \in {"refill", "eof", "ioerror"} => ourPos = outLen
  /\ pc = "eof" => inPos = inLen /\ bytesLeft = 0
  /\ pc = "decode" => call \in {"loop", "result"} /\ ourPos = 0
  /\ pc = "fatal" => call = "error"
  /\ pc \notin {"decode", "fatal"} => call = "out"

WholeHeader(f) == IF f.kind = "skippable" THEN SkipHeaderSize ELSE HeaderSize(f)

\* What the decoder expects in the middle of a frame, and at its end.
InFrame(z) ==
  LET f == Frame(z) IN
  \/ z.stage = "frameHeader" /\ z.expected = 0
  \/ z.stage = "skipFrame" /\ f.kind = "skippable" /\ z.expected = f.skip
  \/ /\ f.kind = "zstd"
     /\ \/ z.stage = "blockHeader" /\ z.block < Len(f.blocks) /\ z.expected = BlockHeaderSize
        \/ /\ z.stage = "block" /\ z.block \in 1..Len(f.blocks)
           /\ z.expected \in 1..f.blocks[z.block].csize
           /\ f.blocks[z.block].type # "raw" => z.expected = f.blocks[z.block].csize
        \/ /\ z.stage = "checksum" /\ f.checksum /\ z.block = Len(f.blocks)
           /\ z.expected = ChecksumSize

\* The decoder between frames, in a header, and in a frame.
StageInv(z) ==
  /\ z.frame \in 0..Len(archive)
  /\ z.outStart <= z.outEnd /\ z.outEnd <= z.outBuffSize
  /\ z.streamStage # "flush" => z.outStart = z.outEnd
  /\ z.streamStage = "init" =>
       z.expected = 0 /\ (IF z.frame = 0 THEN ~z.hostageByte ELSE InFrame(z))
  /\ z.streamStage = "loadHeader" =>
       z.frame > 0 /\ z.outEnd = 0 /\ ~z.hostageByte /\ z.lhSize <= WholeHeader(Frame(z))
                   /\ z.block = 0 /\ z.expected = 0
  /\ z.streamStage \in {"read", "load", "flush"} => z.frame > 0 /\ InFrame(z)
  /\ z.streamStage = "load" =>
       z.inPos < z.expected /\ (z.stage # "skipFrame" => z.inPos <= z.inBuffSize)
  /\ z.streamStage # "load" => z.inPos = 0
  /\ z.hostageByte => z.expected = 0

Pending(z) == z.outStart # z.outEnd

\* What a call of the decoder finds, and what it may leave.
CallInv ==
  /\ call = "out" /\ zds.streamStage = "loadHeader" => zds.lhSize < WholeHeader(Frame(zds))
  /\ call = "out" /\ zds.expected = 0 /\ Pending(zds) => zds.hostageByte
  /\ call \in {"loop", "result"} /\ zds.expected = 0 /\ Pending(zds) => zds.hostageByte \/ inPos > 0
  /\ call = "loop" /\ zds.streamStage = "init" => inPos < inLen
  /\ call = "result" => zds.expected > 0 \/ Pending(zds) \/ zds.streamStage = "init"

\* The plain text of the frames before a frame, and of the blocks up to a block.
Plains(k) == SumOf([i \in 1..k |-> PlainSize(archive[i])])
BlockPlains(f, k) == SumOf([i \in 1..k |-> f.blocks[i].size])

\* How much plain text the decoder has made of a frame.
PlainInside(z) ==
  LET f == Frame(z) IN
  IF z.streamStage = "loadHeader" THEN 0
  ELSE IF z.expected = 0 THEN PlainSize(f)
  ELSE IF z.stage = "skipFrame" THEN 0
  ELSE BlockPlains(f, z.block)
         - (IF z.stage # "block" THEN 0
            ELSE IF f.blocks[z.block].type = "raw" THEN z.expected ELSE f.blocks[z.block].size)

\* A byte that was taken and is kept back from the caller.
KeptBack ==
  IF zds.hostageByte /\ (zds.streamStage # "init" \/ call = "result") THEN 1 ELSE 0

Produced(z) == IF z.frame = 0 THEN 0 ELSE Plains(z.frame - 1) + PlainInside(z)

\* All that was read and decoded is accounted for.
Counted ==
  call # "error" =>
    hashed = Consumed(zds) + (inLen - inPos) - KeptBack /\ decoded = Produced(zds)

ReadInv ==
  Typed /\ ReaderInv /\ StageInv(zds) /\ CallInv /\ Counted /\ NoByteLost /\ FlushesInOrder

-----------------------------------------------------------------------------
(* Sums                                                                    *)

\* A set of naturals that has 0 and the successor of each of its members has them all.
LEMMA NatSetInduction ==
  ASSUME NEW S, 0 \in S, \A n \in S \cap Nat : n + 1 \in S
  PROVE  Nat \subseteq S
<1> DEFINE R == OpToRel(<, Nat)
           T == Nat \ S
<1>1. SUFFICES ASSUME T # {} PROVE FALSE
  OBVIOUS
<1>2. IsWellFoundedOn(R, Nat)
  BY NatLessThanWellFounded
<1>3. T \subseteq Nat
  OBVIOUS
<1>4. PICK x \in T : \A y \in T : ~ (<<y, x>> \in R)
  <2> HIDE DEF R, T
  <2> QED BY <1>1, <1>2, <1>3, WFMin
<1>5. x \in Nat /\ x # 0 /\ x - 1 \in Nat /\ x - 1 < x
  OBVIOUS
<1>6. <<x - 1, x>> \in R
  BY <1>5 DEF OpToRel
<1>7. x - 1 \in S
  BY <1>4, <1>5, <1>6
<1>8. (x - 1) + 1 = x
  BY <1>5
<1> QED
  BY <1>5, <1>7, <1>8

\* The sums of the openings of a sequence follow each other.
LEMMA SumRuns ==
  ASSUME NEW n \in Nat, NEW g \in [1..n -> Nat]
  PROVE  \E x : /\ x[0] = 0
                /\ \A k \in 1..n : x[k] = x[k - 1] + g[k]
                /\ SumOf(g) = x[n]
<1> DEFINE IsRun(h, m) == h = [k \in 0..m |-> IF k = 0 THEN 0 ELSE h[k - 1] + g[k]]
           S == {m \in Nat : \E h : IsRun(h, m)}
<1>1. 0 \in S
  <2> DEFINE h == [k \in 0..0 |-> 0]
  <2>1. IsRun(h, 0)
    OBVIOUS
  <2> QED BY <2>1
<1>2. ASSUME NEW m \in S \cap Nat PROVE m + 1 \in S
  <2>1. PICK h : IsRun(h, m)
    OBVIOUS
  <2> HIDE DEF S
  <2> DEFINE t == h[m] + g[m + 1]
             f == [k \in 0..(m + 1) |-> IF k <= m THEN h[k] ELSE t]
  <2>2. \A k \in 0..(m + 1) : f[k] = IF k = 0 THEN 0 ELSE f[k - 1] + g[k]
    <3>1. ASSUME NEW k \in 0..m PROVE h[k] = IF k = 0 THEN 0 ELSE h[k - 1] + g[k]
      BY <2>1, <3>1
    <3> HIDE DEF IsRun
    <3>2. ASSUME NEW k \in 0..m PROVE f[k] = h[k] /\ (k # 0 => f[k - 1] = h[k - 1])
      BY <3>2
    <3>3. f[m + 1] = t /\ f[m] = h[m]
      OBVIOUS
    <3>4. m + 1 # 0 /\ (m + 1) - 1 = m
      OBVIOUS
    <3> HIDE DEF f
    <3>5. ASSUME NEW k \in 0..(m + 1)
          PROVE  f[k] = IF k = 0 THEN 0 ELSE f[k - 1] + g[k]
      <4>1. CASE k \in 0..m
        BY <4>1, <3>1, <3>2
      <4>2. CASE k = m + 1
        BY <4>2, <3>3, <3>4
      <4> QED BY <4>1, <4>2
    <3> QED BY <3>5
  <2>3. f = [k \in 0..(m + 1) |-> IF k = 0 THEN 0 ELSE f[k - 1] + g[k]]
    <3>1. f = [k \in 0..(m + 1) |-> f[k]]
      OBVIOUS
    <3> HIDE DEF f
    <3> QED BY <2>2, <3>1
  <2>4. \E h2 : IsRun(h2, m + 1)
    <3> HIDE DEF f
    <3> QED BY <2>3
  <2> HIDE DEF IsRun
  <2> QED BY <2>4 DEF S
<1>3. n \in S
  <2> HIDE DEF S
  <2> QED BY <1>1, <1>2, NatSetInduction
<1> DEFINE x == CHOOSE h : IsRun(h, n)
<1>4. IsRun(x, n)
  BY <1>3
<1>5. Len(g) = n
  OBVIOUS
<1>6. SumOf(g) = x[n]
  BY <1>5 DEF SumOf
<1>7. \A k \in 0..n : x[k] = IF k = 0 THEN 0 ELSE x[k - 1] + g[k]
  <2> HIDE DEF x
  <2> QED BY <1>4
<1> HIDE DEF x
<1>8. x[0] = 0 /\ \A k \in 1..n : x[k] = x[k - 1] + g[k]
  BY <1>7
<1> QED
  BY <1>6, <1>8

Opening(g, k) == [i \in 1..k |-> g[i]]

LEMMA SumOpenings ==
  ASSUME NEW n \in Nat, NEW g \in [1..n -> Nat]
  PROVE  /\ SumOf(Opening(g, 0)) = 0
         /\ \A k \in 0..n : SumOf(Opening(g, k)) \in Nat
         /\ \A k \in 1..n : SumOf(Opening(g, k)) = SumOf(Opening(g, k - 1)) + g[k]
         /\ \A i \in 0..n : \A k \in 0..n :
              i <= k => SumOf(Opening(g, i)) <= SumOf(Opening(g, k))
         /\ SumOf(Opening(g, n)) = SumOf(g)
<1>1. PICK x : /\ x[0] = 0 /\ \A k \in 1..n : x[k] = x[k - 1] + g[k]
               /\ SumOf(g) = x[n]
  BY SumRuns
<1>2. ASSUME NEW k \in 0..n PROVE SumOf(Opening(g, k)) = x[k]
  <2>1. Opening(g, k) \in [1..k -> Nat] /\ \A i \in 1..k : Opening(g, k)[i] = g[i]
    BY DEF Opening
  <2>2. PICK y : /\ y[0] = 0 /\ \A i \in 1..k : y[i] = y[i - 1] + Opening(g, k)[i]
                 /\ SumOf(Opening(g, k)) = y[k]
    <3> DEFINE o == Opening(g, k)
    <3>1. k \in Nat /\ o \in [1..k -> Nat]
      BY <2>1
    <3> HIDE DEF o
    <3>2. \E y : /\ y[0] = 0 /\ \A i \in 1..k : y[i] = y[i - 1] + o[i]
                 /\ SumOf(o) = y[k]
      BY <3>1, SumRuns
    <3> QED BY <3>2 DEF o
  <2> DEFINE S == {j \in Nat : j <= k => y[j] = x[j]}
  <2>3. 0 \in S
    BY <1>1, <2>2
  <2>4. ASSUME NEW j \in S \cap Nat PROVE j + 1 \in S
    <3>1. SUFFICES ASSUME j + 1 <= k PROVE y[j + 1] = x[j + 1]
      OBVIOUS
    <3>2. y[j] = x[j]
      BY <3>1
    <3>3. j + 1 \in 1..k /\ j + 1 \in 1..n /\ (j + 1) - 1 = j
      BY <3>1
    <3>4. y[j + 1] = y[j] + g[j + 1] /\ x[j + 1] = x[j] + g[j + 1]
      <4>1. y[j + 1] = y[(j + 1) - 1] + Opening(g, k)[j + 1]
        BY <2>2, <3>3
      <4>2. x[j + 1] = x[(j + 1) - 1] + g[j + 1]
        BY <1>1, <3>3
      <4>3. Opening(g, k)[j + 1] = g[j + 1]
        BY <2>1, <3>3
      <4> QED BY <3>3, <4>1, <4>2, <4>3
    <3> QED BY <3>2, <3>4
  <2>5. k \in S
    <3> HIDE DEF S
    <3> QED BY <2>3, <2>4, NatSetInduction
  <2> QED BY <2>2, <2>5
<1>3. \A k \in 0..n : x[k] \in Nat
  <2> DEFINE S == {j \in Nat : j <= n => x[j] \in Nat}
  <2>1. 0 \in S
    BY <1>1
  <2>2. ASSUME NEW j \in S \cap Nat PROVE j + 1 \in S
    <3>1. SUFFICES ASSUME j + 1 <= n PROVE x[j + 1] \in Nat
      OBVIOUS
    <3>2. j + 1 \in 1..n /\ (j + 1) - 1 = j
      BY <3>1
    <3>3. x[j + 1] = x[(j + 1) - 1] + g[j + 1]
      BY <1>1, <3>2
    <3>4. x[j] \in Nat /\ g[j + 1] \in Nat
      BY <3>1, <3>2
    <3> QED BY <3>2, <3>3, <3>4
  <2>3. Nat \subseteq S
    <3> HIDE DEF S
    <3> QED BY <2>1, <2>2, NatSetInduction
  <2> QED BY <2>3
<1>4. \A k \in 1..n : x[k] = x[k - 1] + g[k] /\ g[k] \in Nat /\ k - 1 \in 0..n /\ k \in 0..n
  BY <1>1
<1>5. ASSUME NEW i \in 0..n PROVE \A k \in 0..n : i <= k => x[i] <= x[k]
  <2> DEFINE S == {j \in Nat : j <= n /\ i <= j => x[i] <= x[j]}
  <2>1. 0 \in S
    BY <1>3
  <2>2. ASSUME NEW j \in S \cap Nat PROVE j + 1 \in S
    <3>1. SUFFICES ASSUME j + 1 <= n, i <= j + 1 PROVE x[i] <= x[j + 1]
      OBVIOUS
    <3>2. j + 1 \in 1..n /\ (j + 1) - 1 = j /\ j \in 0..n /\ j + 1 \in 0..n
      BY <3>1
    <3>3. x[j + 1] = x[j] + g[j + 1] /\ g[j + 1] \in Nat
      <4>1. x[j + 1] = x[(j + 1) - 1] + g[j + 1] /\ g[j + 1] \in Nat
        BY <1>4, <3>2
      <4> QED BY <3>2, <4>1
    <3>4. x[i] \in Nat /\ x[j] \in Nat /\ x[j + 1] \in Nat
      BY <1>3, <3>2
    <3>5. i = j + 1 \/ (j <= n /\ i <= j)
      BY <3>1
    <3>6. CASE i = j + 1
      BY <3>4, <3>6
    <3>7. CASE j <= n /\ i <= j
      <4>1. x[i] <= x[j]
        BY <3>7
      <4> QED BY <3>3, <3>4, <4>1
    <3> QED BY <3>5, <3>6, <3>7
  <2>3. Nat \subseteq S
    <3> HIDE DEF S
    <3> QED BY <2>1, <2>2, NatSetInduction
  <2> QED BY <2>3
<1>6. 0 \in 0..n /\ n \in 0..n
  OBVIOUS
<1> QED
  BY <1>1, <1>2, <1>3, <1>4, <1>5, <1>6

-----------------------------------------------------------------------------
(* Frames                                                                  *)

LEMMA HeaderSizes ==
  ASSUME NEW f \in ZstdFrames
  PROVE  HeaderSize(f) \in Nat /\ HeaderSize(f) > PrefixSize /\ WholeHeader(f) = HeaderSize(f)
<1>1. f.kind = "zstd" /\ f.single \in BOOLEAN /\ f.fcsId \in 0..3
  BY DEF ZstdFrames
<1>2. FcsFieldSize[f.fcsId + 1] \in {0, 2, 4, 8} /\ (f.fcsId = 0 <=> FcsFieldSize[f.fcsId + 1] = 0)
  <2>1. f.fcsId = 0 \/ f.fcsId = 1 \/ f.fcsId = 2 \/ f.fcsId = 3
    BY <1>1
  <2> QED BY <2>1 DEF FcsFieldSize
<1>3. HeaderSize(f) = PrefixSize + (IF f.single THEN 0 ELSE 1) + FcsFieldSize[f.fcsId + 1]
                        + (IF f.single /\ f.fcsId = 0 THEN 1 ELSE 0)
  BY DEF HeaderSize
<1>4. HeaderSize(f) \in Nat /\ HeaderSize(f) > PrefixSize
  <2> DEFINE fcs == FcsFieldSize[f.fcsId + 1]
  <2>1. fcs \in {0, 2, 4, 8} /\ (f.fcsId = 0 <=> fcs = 0)
    BY <1>2
  <2>2. HeaderSize(f) = 5 + (IF f.single THEN 0 ELSE 1) + fcs + (IF f.single /\ f.fcsId = 0 THEN 1 ELSE 0)
    BY <1>3 DEF PrefixSize
  <2> HIDE DEF fcs
  <2>3. CASE f.single
    BY <2>1, <2>2, <2>3 DEF PrefixSize
  <2>4. CASE ~ f.single
    BY <2>1, <2>2, <2>4 DEF PrefixSize
  <2> QED BY <2>3, <2>4
<1> QED
  BY <1>1, <1>4 DEF WholeHeader

\* The sizes of the blocks of a frame, one after the other.
LEMMA BlockSums ==
  ASSUME NEW f \in ZstdFrames
  PROVE  LET n == Len(f.blocks) IN
         /\ n \in Nat \ {0} /\ \A k \in 1..n : f.blocks[k] \in Block
         /\ BlockSizes(f, 0) = 0 /\ BlockPlains(f, 0) = 0
         /\ \A k \in 0..n : BlockSizes(f, k) \in Nat /\ BlockPlains(f, k) \in Nat
         /\ \A k \in 1..n :
              /\ BlockSizes(f, k) = BlockSizes(f, k - 1) + (BlockHeaderSize + f.blocks[k].csize)
              /\ BlockPlains(f, k) = BlockPlains(f, k - 1) + f.blocks[k].size
         /\ \A k \in 0..n : BlockSizes(f, k) <= BlockSizes(f, n)
         /\ FrameSize(f) = HeaderSize(f) + BlockSizes(f, n) + (IF f.checksum THEN ChecksumSize ELSE 0)
         /\ PlainSize(f) = BlockPlains(f, n)
<1> DEFINE n == Len(f.blocks)
           g == [k \in 1..n |-> BlockHeaderSize + f.blocks[k].csize]
           h == [k \in 1..n |-> f.blocks[k].size]
<1>1. f.blocks \in Seq(Block) /\ f.blocks # <<>> /\ f.kind = "zstd"
  BY DEF ZstdFrames
<1>2. n \in Nat \ {0} /\ DOMAIN f.blocks = 1..n /\ \A k \in 1..n : f.blocks[k] \in Block
  BY <1>1
<1> HIDE DEF n
<1>3. g \in [1..n -> Nat] /\ h \in [1..n -> Nat]
  BY <1>2 DEF Block, BlockHeaderSize
<1>4. ASSUME NEW k \in 0..n
      PROVE  BlockSizes(f, k) = SumOf(Opening(g, k)) /\ BlockPlains(f, k) = SumOf(Opening(h, k))
  <2>1. \A i \in 1..k : i \in 1..n
    BY <1>2
  <2>2. [i \in 1..k |-> BlockHeaderSize + f.blocks[i].csize] = Opening(g, k)
    BY <2>1 DEF Opening
  <2>3. [i \in 1..k |-> f.blocks[i].size] = Opening(h, k)
    BY <2>1 DEF Opening
  <2> QED BY <2>2, <2>3 DEF BlockSizes, BlockPlains
<1>5. /\ \A k \in 1..n : g[k] = BlockHeaderSize + f.blocks[k].csize /\ h[k] = f.blocks[k].size
      /\ [i \in DOMAIN f.blocks |-> BlockHeaderSize + f.blocks[i].csize] = g
      /\ [i \in DOMAIN f.blocks |-> f.blocks[i].size] = h
  BY <1>2
<1> HIDE DEF g, h
<1>6. /\ SumOf(Opening(g, 0)) = 0
      /\ \A k \in 0..n : SumOf(Opening(g, k)) \in Nat
      /\ \A k \in 1..n : SumOf(Opening(g, k)) = SumOf(Opening(g, k - 1)) + g[k]
      /\ \A i \in 0..n : \A k \in 0..n : i <= k => SumOf(Opening(g, i)) <= SumOf(Opening(g, k))
      /\ SumOf(Opening(g, n)) = SumOf(g)
  BY <1>2, <1>3, SumOpenings
<1>7. /\ SumOf(Opening(h, 0)) = 0
      /\ \A k \in 0..n : SumOf(Opening(h, k)) \in Nat
      /\ \A k \in 1..n : SumOf(Opening(h, k)) = SumOf(Opening(h, k - 1)) + h[k]
      /\ SumOf(Opening(h, n)) = SumOf(h)
  BY <1>2, <1>3, SumOpenings
<1>8. 0 \in 0..n /\ n \in 0..n /\ (\A k \in 1..n : k \in 0..n /\ k - 1 \in 0..n) /\ (\A k \in 0..n : k <= n)
  BY <1>2
<1>9. FrameSize(f) = HeaderSize(f) + SumOf(g) + (IF f.checksum THEN ChecksumSize ELSE 0)
      /\ PlainSize(f) = SumOf(h)
  BY <1>1, <1>5 DEF FrameSize, PlainSize
<1>10. /\ BlockSizes(f, 0) = 0 /\ BlockPlains(f, 0) = 0
       /\ \A k \in 0..n : BlockSizes(f, k) \in Nat /\ BlockPlains(f, k) \in Nat
  BY <1>4, <1>6, <1>7, <1>8
<1>11. ASSUME NEW k \in 1..n
       PROVE  /\ BlockSizes(f, k) = BlockSizes(f, k - 1) + (BlockHeaderSize + f.blocks[k].csize)
              /\ BlockPlains(f, k) = BlockPlains(f, k - 1) + f.blocks[k].size
  BY <1>4, <1>5, <1>6, <1>7, <1>8
<1>12. \A k \in 0..n : BlockSizes(f, k) <= BlockSizes(f, n)
  BY <1>4, <1>6, <1>8
<1>13. FrameSize(f) = HeaderSize(f) + BlockSizes(f, n) + (IF f.checksum THEN ChecksumSize ELSE 0)
       /\ PlainSize(f) = BlockPlains(f, n)
  BY <1>4, <1>6, <1>7, <1>8, <1>9
<1> QED
  BY <1>2, <1>10, <1>11, <1>12, <1>13 DEF n

Frames == ZstdFrames \cup SkippableFrames

LEMMA FrameKinds ==
  ASSUME NEW f \in Frames
  PROVE  \/ f \in ZstdFrames /\ f.kind = "zstd"
         \/ f \in SkippableFrames /\ f.kind = "skippable" /\ f.skip \in Nat
<1>1. CASE f \in ZstdFrames
  BY <1>1 DEF ZstdFrames
<1>2. CASE f \in SkippableFrames
  BY <1>2 DEF SkippableFrames
<1> QED
  BY <1>1, <1>2 DEF Frames

LEMMA FrameSizeType ==
  ASSUME NEW f \in Frames
  PROVE  /\ FrameSize(f) \in Nat /\ PlainSize(f) \in Nat
         /\ WholeHeader(f) \in Nat /\ PrefixSize <= WholeHeader(f) /\ WholeHeader(f) <= FrameSize(f)
<1>1. CASE f.kind = "skippable"
  <2>1. f.skip \in Nat
    BY <1>1, FrameKinds
  <2>2. FrameSize(f) = 8 + f.skip /\ PlainSize(f) = 0 /\ WholeHeader(f) = 8
    BY <1>1 DEF FrameSize, PlainSize, WholeHeader, SkipHeaderSize
  <2> QED BY <2>1, <2>2 DEF PrefixSize
<1>2. CASE f \in ZstdFrames
  <2> DEFINE n == Len(f.blocks)
             sum == BlockSizes(f, n)
             more == IF f.checksum THEN ChecksumSize ELSE 0
             head == HeaderSize(f)
  <2>1. n \in Nat /\ sum \in Nat /\ FrameSize(f) = head + sum + more /\ PlainSize(f) \in Nat
    <3>1. n \in Nat /\ n \in 0..n
      <4>1. n \in Nat
        BY <1>2, BlockSums
      <4> HIDE DEF n
      <4> QED BY <4>1
    <3> QED BY <1>2, <3>1, BlockSums
  <2>2. head \in Nat /\ head > PrefixSize /\ WholeHeader(f) = head
    BY <1>2, HeaderSizes
  <2>3. more \in Nat
    BY DEF ChecksumSize
  <2> HIDE DEF head, sum, more
  <2> QED BY <2>1, <2>2, <2>3 DEF PrefixSize
<1> QED
  BY <1>1, <1>2, FrameKinds

\* The sizes of the frames of the archive, one after the other.
LEMMA FrameSums ==
  ASSUME archive \in Archives
  PROVE  LET n == Len(archive) IN
         /\ n \in Nat /\ \A k \in 1..n : archive[k] \in Frames
         /\ Sizes(0) = 0 /\ Plains(0) = 0
         /\ \A k \in 0..n : Sizes(k) \in Nat /\ Plains(k) \in Nat
         /\ \A k \in 1..n : /\ Sizes(k) = Sizes(k - 1) + FrameSize(archive[k])
                            /\ Plains(k) = Plains(k - 1) + PlainSize(archive[k])
         /\ \A k \in 0..n : Sizes(k) <= Sizes(n)
         /\ ArchiveSize(archive) = Sizes(n) /\ ArchivePlain(archive) = Plains(n)
<1> DEFINE n == Len(archive)
           g == [k \in 1..n |-> FrameSize(archive[k])]
           h == [k \in 1..n |-> PlainSize(archive[k])]
<1>1. archive \in Seq(Frames)
  BY ZstdAssumption DEF Frames
<1>2. n \in Nat /\ DOMAIN archive = 1..n /\ \A k \in 1..n : archive[k] \in Frames
  BY <1>1
<1> HIDE DEF n
<1>3. g \in [1..n -> Nat] /\ h \in [1..n -> Nat]
  BY <1>2, FrameSizeType
<1>4. ASSUME NEW k \in 0..n
      PROVE  Sizes(k) = SumOf(Opening(g, k)) /\ Plains(k) = SumOf(Opening(h, k))
  <2>1. \A i \in 1..k : i \in 1..n
    BY <1>2
  <2>2. [i \in 1..k |-> FrameSize(archive[i])] = Opening(g, k)
    BY <2>1 DEF Opening
  <2>3. [i \in 1..k |-> PlainSize(archive[i])] = Opening(h, k)
    BY <2>1 DEF Opening
  <2> QED BY <2>2, <2>3 DEF Sizes, Plains
<1>5. /\ \A k \in 1..n : g[k] = FrameSize(archive[k]) /\ h[k] = PlainSize(archive[k])
      /\ [i \in DOMAIN archive |-> FrameSize(archive[i])] = g
      /\ [i \in DOMAIN archive |-> PlainSize(archive[i])] = h
  BY <1>2
<1> HIDE DEF g, h
<1>6. /\ SumOf(Opening(g, 0)) = 0
      /\ \A k \in 0..n : SumOf(Opening(g, k)) \in Nat
      /\ \A k \in 1..n : SumOf(Opening(g, k)) = SumOf(Opening(g, k - 1)) + g[k]
      /\ \A i \in 0..n : \A k \in 0..n : i <= k => SumOf(Opening(g, i)) <= SumOf(Opening(g, k))
      /\ SumOf(Opening(g, n)) = SumOf(g)
  BY <1>2, <1>3, SumOpenings
<1>7. /\ SumOf(Opening(h, 0)) = 0
      /\ \A k \in 0..n : SumOf(Opening(h, k)) \in Nat
      /\ \A k \in 1..n : SumOf(Opening(h, k)) = SumOf(Opening(h, k - 1)) + h[k]
      /\ SumOf(Opening(h, n)) = SumOf(h)
  BY <1>2, <1>3, SumOpenings
<1>8. 0 \in 0..n /\ n \in 0..n /\ (\A k \in 1..n : k \in 0..n /\ k - 1 \in 0..n) /\ (\A k \in 0..n : k <= n)
  BY <1>2
<1>9. ArchiveSize(archive) = SumOf(g) /\ ArchivePlain(archive) = SumOf(h)
  BY <1>5 DEF ArchiveSize, ArchivePlain
<1>10. /\ Sizes(0) = 0 /\ Plains(0) = 0
       /\ \A k \in 0..n : Sizes(k) \in Nat /\ Plains(k) \in Nat
  BY <1>4, <1>6, <1>7, <1>8
<1>11. \A k \in 1..n : /\ Sizes(k) = Sizes(k - 1) + FrameSize(archive[k])
                       /\ Plains(k) = Plains(k - 1) + PlainSize(archive[k])
  BY <1>4, <1>5, <1>6, <1>7, <1>8
<1>12. /\ \A k \in 0..n : Sizes(k) <= Sizes(n)
       /\ ArchiveSize(archive) = Sizes(n) /\ ArchivePlain(archive) = Plains(n)
  BY <1>4, <1>6, <1>7, <1>8, <1>9
<1> QED
  BY <1>2, <1>10, <1>11, <1>12 DEF n

-----------------------------------------------------------------------------
(* The decoder in a frame                                                  *)

LEMMA FrameIs ==
  ASSUME archive \in Archives, NEW z, z.frame \in Nat, StageInv(z), z.frame > 0
  PROVE  /\ Frame(z) \in Frames /\ Frame(z) = archive[z.frame] /\ z.frame \in 1..Len(archive)
         /\ z.frame - 1 \in 0..Len(archive) /\ z.frame \in 0..Len(archive)
<1>1. Len(archive) \in Nat /\ \A k \in 1..Len(archive) : archive[k] \in Frames
  BY FrameSums
<1>2. z.frame \in 0..Len(archive)
  BY DEF StageInv
<1> DEFINE n == Len(archive)
           k == z.frame
<1>3. k \in 1..n /\ k - 1 \in 0..n /\ k \in 0..n
  <2> HIDE DEF n, k
  <2>1. n \in Nat /\ k \in 0..n /\ k > 0
    BY <1>1, <1>2 DEF n, k
  <2> QED BY <2>1
<1> QED
  BY <1>1, <1>3 DEF Frame

\* How far the decoder is in a frame: somewhere between its first byte and its last.
LEMMA InsideType ==
  ASSUME archive \in Archives, NEW z \in Zds, StageInv(z), z.frame > 0
  PROVE  /\ Inside(z) \in Nat /\ PlainInside(z) \in Int
         /\ Inside(z) + z.inPos <= FrameSize(Frame(z))
         /\ z.expected > 0 => Inside(z) + z.inPos < FrameSize(Frame(z))
<1> DEFINE f == Frame(z)
           n == Len(f.blocks)
<1>1. z.frame \in Nat /\ z.expected \in Nat /\ z.inPos \in Nat /\ z.lhSize \in Nat /\ z.block \in Nat
      /\ z.streamStage \in {"init", "loadHeader", "read", "load", "flush"}
  BY DEF Zds
<1>2. f \in Frames
  BY <1>1, FrameIs
<1>3. /\ FrameSize(f) \in Nat /\ PlainSize(f) \in Nat /\ WholeHeader(f) \in Nat
      /\ WholeHeader(f) <= FrameSize(f)
  BY <1>2, FrameSizeType
<1>4. z.streamStage # "load" => z.inPos = 0
  BY DEF StageInv
<1>5. z.streamStage = "load" => z.inPos < z.expected
  BY DEF StageInv
<1>6. CASE z.streamStage = "loadHeader"
  <2>1. Inside(z) = z.lhSize /\ PlainInside(z) = 0
    BY <1>6 DEF Inside, PlainInside
  <2>2. z.lhSize <= WholeHeader(f) /\ z.inPos = 0 /\ z.expected = 0
    BY <1>6 DEF StageInv
  <2> HIDE DEF f
  <2> QED BY <1>1, <1>3, <2>1, <2>2 DEF f
<1>7. CASE z.streamStage # "loadHeader" /\ z.expected = 0
  <2>1. Inside(z) = FrameSize(f) /\ PlainInside(z) = PlainSize(f)
    BY <1>7 DEF Inside, PlainInside
  <2>2. z.inPos = 0
    BY <1>1, <1>4, <1>5, <1>7
  <2> HIDE DEF f
  <2> QED BY <1>1, <1>3, <1>7, <2>1, <2>2 DEF f
<1>8. CASE z.streamStage # "loadHeader" /\ z.expected > 0
  <2>1. InFrame(z)
    BY <1>1, <1>8 DEF StageInv
  <2>2. z.inPos < z.expected
    BY <1>1, <1>4, <1>5, <1>8
  <2>3. CASE z.stage = "skipFrame" /\ f.kind = "skippable" /\ z.expected = f.skip
    <3>1. Inside(z) = 8 /\ PlainInside(z) = 0 /\ FrameSize(f) = 8 + f.skip
      BY <1>8, <2>3 DEF Inside, PlainInside, FrameSize, SkipHeaderSize
    <3> HIDE DEF f
    <3> QED BY <1>1, <2>2, <2>3, <3>1 DEF f
  <2>4. CASE f.kind = "zstd"
    <3>1. f \in ZstdFrames
      BY <1>2, <2>4, FrameKinds DEF SkippableFrames
    <3> DEFINE head == HeaderSize(f)
               k == z.block
               sum == BlockSizes(f, k)
               all == BlockSizes(f, n)
               more == IF f.checksum THEN ChecksumSize ELSE 0
    <3>2. head \in Nat
      BY <3>1, HeaderSizes
    <3>3. n \in Nat /\ FrameSize(f) = head + all + more /\ more \in Nat /\ (f.checksum => more = 4)
      BY <3>1, BlockSums DEF ChecksumSize
    <3>4. ASSUME NEW j \in 0..n
          PROVE  BlockSizes(f, j) \in Nat /\ BlockPlains(f, j) \in Nat /\ BlockSizes(f, j) <= all
      BY <3>1, <3>4, BlockSums
    <3>5. ASSUME NEW j \in 1..n
          PROVE  /\ BlockSizes(f, j) = BlockSizes(f, j - 1) + (3 + f.blocks[j].csize)
                 /\ f.blocks[j].csize \in Nat /\ f.blocks[j].size \in Nat /\ j - 1 \in 0..n /\ j \in 0..n
      <4>1. /\ BlockSizes(f, j) = BlockSizes(f, j - 1) + (BlockHeaderSize + f.blocks[j].csize)
            /\ f.blocks[j] \in Block
        BY <3>1, <3>5, BlockSums
      <4>2. j - 1 \in 0..n /\ j \in 0..n
        <5> HIDE DEF n
        <5> QED BY <3>3, <3>5
      <4> QED BY <4>1, <4>2 DEF Block, BlockHeaderSize
    <3>6. CASE z.stage = "blockHeader" /\ k < n /\ z.expected = BlockHeaderSize
      <4>1. Inside(z) = head + sum - 0 /\ PlainInside(z) = BlockPlains(f, k) - 0
        BY <1>8, <3>6 DEF Inside, PlainInside, BlockHeaderSize
      <4>2. k \in 0..n /\ k + 1 \in 1..n /\ (k + 1) - 1 = k /\ k + 1 \in 0..n
        <5> HIDE DEF n, k
        <5>1. k \in Nat
          BY <1>1 DEF k
        <5> QED BY <3>3, <3>6, <5>1
      <4> DEFINE next == BlockSizes(f, k + 1)
                 c == f.blocks[k + 1].csize
      <4>3. /\ sum \in Nat /\ BlockPlains(f, k) \in Nat /\ next <= all /\ all \in Nat /\ next \in Nat
            /\ next = sum + (3 + c) /\ c \in Nat
        <5>1. n \in 0..n
          <6> HIDE DEF n
          <6> QED BY <3>3
        <5>2. sum \in Nat /\ BlockPlains(f, k) \in Nat /\ all \in Nat
          BY <3>4, <4>2, <5>1
        <5>3. next <= all /\ next \in Nat
          BY <3>4, <4>2
        <5>4. next = BlockSizes(f, (k + 1) - 1) + (3 + c) /\ c \in Nat
          BY <3>5, <4>2
        <5> QED BY <4>2, <5>2, <5>3, <5>4
      <4>4. z.inPos < 3
        BY <2>2, <3>6 DEF BlockHeaderSize
      <4> HIDE DEF head, sum, all, more, next, c, f, k
      <4> QED BY <1>1, <3>2, <3>3, <4>1, <4>3, <4>4 DEF f, k
    <3>7. CASE /\ z.stage = "block" /\ k \in 1..n
               /\ z.expected \in 1..f.blocks[k].csize
      <4> DEFINE plain == BlockPlains(f, k)
                 c == f.blocks[k].csize
                 before == BlockSizes(f, k - 1)
                 rest == IF f.blocks[k].type = "raw" THEN z.expected ELSE f.blocks[k].size
      <4>1. Inside(z) = head + sum - z.expected /\ PlainInside(z) = plain - rest
        BY <1>8, <3>7 DEF Inside, PlainInside
      <4>2. /\ sum \in Nat /\ plain \in Nat /\ sum <= all /\ all \in Nat /\ before \in Nat
            /\ sum = before + (3 + c) /\ c \in Nat /\ rest \in Nat
        <5>1. n \in 0..n
          <6> HIDE DEF n
          <6> QED BY <3>3
        <5>2. sum = before + (3 + c) /\ c \in Nat /\ f.blocks[k].size \in Nat /\ k - 1 \in 0..n /\ k \in 0..n
          BY <3>5, <3>7
        <5>3. sum \in Nat /\ plain \in Nat /\ sum <= all /\ all \in Nat
          BY <3>4, <5>1, <5>2
        <5>4. before \in Nat
          BY <3>4, <5>2
        <5> QED BY <1>1, <5>2, <5>3, <5>4
      <4>3. z.expected \in 1..c /\ z.inPos < z.expected
        BY <2>2, <3>7
      <4> DEFINE e == z.expected
                 ip == z.inPos
                 fs == FrameSize(f)
      <4>4. e \in 1..c /\ ip \in Nat /\ ip < e /\ fs = head + all + more /\ more \in Nat
        BY <1>1, <3>3, <4>3
      <4>5. Inside(z) = head + sum - e
        BY <4>1
      <4> HIDE DEF head, sum, all, more, plain, c, before, rest, e, ip, fs
      <4>6. Inside(z) \in Nat /\ Inside(z) + ip < fs /\ Inside(z) + ip <= fs /\ plain - rest \in Int
        BY <3>2, <4>2, <4>4, <4>5
      <4> QED BY <4>1, <4>2, <4>4, <4>6 DEF e, ip, fs
    <3>8. CASE z.stage = "checksum" /\ f.checksum /\ k = n /\ z.expected = ChecksumSize
      <4>1. Inside(z) = head + sum - 0 /\ PlainInside(z) = BlockPlains(f, k) - 0
        BY <1>8, <3>8 DEF Inside, PlainInside, ChecksumSize
      <4>2. n \in 0..n
        <5> HIDE DEF n
        <5> QED BY <3>3
      <4>3. sum = all /\ sum \in Nat /\ BlockPlains(f, k) \in Nat
        BY <3>4, <3>8, <4>2
      <4>4. z.inPos < 4 /\ more = 4
        BY <2>2, <3>3, <3>8 DEF ChecksumSize
      <4> HIDE DEF head, sum, all, more, f, k, n
      <4> QED BY <1>1, <3>2, <3>3, <3>8, <4>1, <4>3, <4>4 DEF f, k
    <3>9. z.stage # "frameHeader"
      BY <1>8, <2>1 DEF InFrame
    <3> QED BY <1>8, <2>1, <2>4, <3>6, <3>7, <3>8, <3>9 DEF InFrame
  <2> QED BY <1>8, <2>1, <2>3, <2>4 DEF InFrame
<1> QED
  BY <1>1, <1>6, <1>7, <1>8

\* What a unit of a frame leaves alone.
SameRest(y, z) ==
  /\ y.frame = z.frame /\ y.streamStage = z.streamStage /\ y.lhSize = z.lhSize
  /\ y.inPos = z.inPos /\ y.outStart = z.outStart /\ y.outEnd = z.outEnd
  /\ y.hostageByte = z.hostageByte
  /\ y.inBuffSize = z.inBuffSize /\ y.outBuffSize = z.outBuffSize

Stages == {"frameHeader", "blockHeader", "block", "checksum", "skipFrame"}
Set(z, x, s) == [z EXCEPT !.expected = x, !.stage = s]

LEMMA SetStage ==
  ASSUME NEW z \in Zds, NEW x \in Nat, NEW s \in Stages
  PROVE  LET e == Set(z, x, s) IN
         e \in Zds /\ SameRest(e, z) /\ e.expected = x /\ e.stage = s /\ e.block = z.block
<1>1. Set(z, x, s) \in Zds
  BY DEF Set, Zds, Stages
<1>2. SameRest(Set(z, x, s), z)
  BY DEF Set, Zds, SameRest
<1>3. LET e == Set(z, x, s) IN e.expected = x /\ e.stage = s /\ e.block = z.block
  BY DEF Set, Zds
<1> QED
  BY <1>1, <1>2, <1>3

LEMMA ContinuityRest ==
  ASSUME NEW z \in Zds, NEW dst \in Int, NEW y, y = CheckContinuity(z, dst)
  PROVE  /\ y \in Zds /\ SameRest(y, z) /\ y.stage = z.stage /\ y.block = z.block
         /\ y.expected = z.expected
<1>1. CASE y = z
  BY <1>1 DEF SameRest
<1>2. CASE y = [z EXCEPT !.dictEnd = z.previousDstEnd,
                         !.virtualStart = dst - (z.previousDstEnd - z.prefixStart),
                         !.prefixStart = dst, !.previousDstEnd = dst]
  <2> DEFINE end == z.previousDstEnd
             virtual == dst - (z.previousDstEnd - z.prefixStart)
  <2>1. end \in Int /\ virtual \in Int
    BY DEF Zds
  <2>2. y \in Zds
    <3> HIDE DEF end, virtual
    <3>1. y = [z EXCEPT !.dictEnd = end, !.virtualStart = virtual, !.prefixStart = dst,
                        !.previousDstEnd = dst]
      BY <1>2 DEF end, virtual
    <3> QED BY <2>1, <3>1 DEF Zds
  <2>3. SameRest(y, z)
    BY <1>2 DEF Zds, SameRest
  <2>4. y.stage = z.stage /\ y.block = z.block /\ y.expected = z.expected
    BY <1>2 DEF Zds
  <2> QED BY <2>2, <2>3, <2>4
<1> QED
  BY <1>1, <1>2 DEF CheckContinuity

\* After a block, or the header of an empty one, comes another header or the end.
LEMMA NextUnit ==
  ASSUME NEW z \in Zds, Frame(z) \in ZstdFrames, z.streamStage # "loadHeader",
         z.block \in 1..Len(Frame(z).blocks),
         NEW e, e = IF LastBlock(z) THEN EndOfBlocks(z) ELSE ToBlockHeader(z)
  PROVE  /\ e \in Zds /\ SameRest(e, z) /\ InFrame(e)
         /\ Inside(e) = HeaderSize(Frame(z)) + BlockSizes(Frame(z), z.block)
         /\ PlainInside(e) = BlockPlains(Frame(z), z.block)
<1> DEFINE f == Frame(z)
           n == Len(f.blocks)
           k == z.block
           head == HeaderSize(f)
           sum == BlockSizes(f, k)
           plain == BlockPlains(f, k)
<1>1. f.kind = "zstd" /\ head \in Nat /\ f \in ZstdFrames
  BY HeaderSizes DEF ZstdFrames
<1>2. n \in Nat /\ k \in 0..n /\ k \in 1..n
  <2>1. n \in Nat
    BY <1>1, BlockSums
  <2>2. k \in 1..n
    OBVIOUS
  <2> HIDE DEF n, k
  <2> QED BY <2>1, <2>2
<1>3. sum \in Nat /\ plain \in Nat
  BY <1>1, <1>2, BlockSums
<1>4. /\ FrameSize(f) = head + BlockSizes(f, n) + (IF f.checksum THEN ChecksumSize ELSE 0)
      /\ PlainSize(f) = BlockPlains(f, n)
  BY <1>1, BlockSums
<1>5. CASE k # n
  <2>1. e = [z EXCEPT !.expected = 3, !.stage = "blockHeader"]
    BY <1>5 DEF LastBlock, ToBlockHeader, BlockHeaderSize
  <2>2. /\ e \in Zds /\ SameRest(e, z) /\ e.expected = 3 /\ e.stage = "blockHeader"
        /\ e.block = k /\ e.streamStage # "loadHeader"
    <3>1. 3 \in Nat /\ "blockHeader" \in Stages
      BY DEF Stages
    <3>2. e = Set(z, 3, "blockHeader")
      BY <2>1 DEF Set
    <3> HIDE DEF f, n, k, head, sum, plain
    <3>3. e \in Zds /\ SameRest(e, z) /\ e.expected = 3 /\ e.stage = "blockHeader" /\ e.block = z.block
      BY <3>1, <3>2, SetStage
    <3> QED BY <3>3 DEF SameRest, k
  <2>3. Frame(e) = f
    BY <2>2 DEF Frame, SameRest
  <2>4. k < n
    <3> HIDE DEF n, k
    <3> QED BY <1>2, <1>5
  <2>5. InFrame(e)
    BY <1>1, <2>2, <2>3, <2>4 DEF InFrame, BlockHeaderSize
  <2>6. Inside(e) = head + sum - 0 /\ PlainInside(e) = plain - 0
    <3> HIDE DEF f
    <3> QED BY <2>2, <2>3 DEF Inside, PlainInside
  <2> HIDE DEF head, sum, plain
  <2>7. Inside(e) = head + sum /\ PlainInside(e) = plain
    BY <1>1, <1>3, <2>6
  <2> QED BY <2>2, <2>5, <2>7 DEF head, sum, plain
<1>6. CASE k = n /\ f.checksum
  <2>1. e = [z EXCEPT !.expected = 4, !.stage = "checksum"]
    BY <1>6 DEF LastBlock, EndOfBlocks, ChecksumSize
  <2>2. /\ e \in Zds /\ SameRest(e, z) /\ e.expected = 4 /\ e.stage = "checksum"
        /\ e.block = k /\ e.streamStage # "loadHeader"
    <3>1. 4 \in Nat /\ "checksum" \in Stages
      BY DEF Stages
    <3>2. e = Set(z, 4, "checksum")
      BY <2>1 DEF Set
    <3> HIDE DEF f, n, k, head, sum, plain
    <3>3. e \in Zds /\ SameRest(e, z) /\ e.expected = 4 /\ e.stage = "checksum" /\ e.block = z.block
      BY <3>1, <3>2, SetStage
    <3> QED BY <3>3 DEF SameRest, k
  <2>3. Frame(e) = f
    BY <2>2 DEF Frame, SameRest
  <2>5. InFrame(e)
    BY <1>1, <1>6, <2>2, <2>3 DEF InFrame, ChecksumSize
  <2>6. Inside(e) = head + sum - 0 /\ PlainInside(e) = plain - 0
    <3> HIDE DEF f
    <3> QED BY <2>2, <2>3 DEF Inside, PlainInside
  <2> HIDE DEF head, sum, plain
  <2>7. Inside(e) = head + sum /\ PlainInside(e) = plain
    BY <1>1, <1>3, <2>6
  <2> QED BY <2>2, <2>5, <2>7 DEF head, sum, plain
<1>7. CASE k = n /\ ~ f.checksum
  <2>1. e = [z EXCEPT !.expected = 0, !.stage = "frameHeader"]
    BY <1>7 DEF LastBlock, EndOfBlocks
  <2>2. /\ e \in Zds /\ SameRest(e, z) /\ e.expected = 0 /\ e.stage = "frameHeader"
        /\ e.streamStage # "loadHeader"
    <3>1. 0 \in Nat /\ "frameHeader" \in Stages
      BY DEF Stages
    <3>2. e = Set(z, 0, "frameHeader")
      BY <2>1 DEF Set
    <3> HIDE DEF f, n, k, head, sum, plain
    <3>3. e \in Zds /\ SameRest(e, z) /\ e.expected = 0 /\ e.stage = "frameHeader" /\ e.block = z.block
      BY <3>1, <3>2, SetStage
    <3> QED BY <3>3 DEF SameRest, k
  <2>3. Frame(e) = f
    BY <2>2 DEF Frame, SameRest
  <2>4. InFrame(e)
    BY <2>2 DEF InFrame
  <2>5. Inside(e) = FrameSize(f) /\ PlainInside(e) = PlainSize(f)
    <3> HIDE DEF f
    <3> QED BY <2>2, <2>3 DEF Inside, PlainInside
  <2>6. FrameSize(f) = head + sum + 0 /\ PlainSize(f) = plain
    BY <1>4, <1>7
  <2> HIDE DEF head, sum, plain
  <2>7. Inside(e) = head + sum /\ PlainInside(e) = plain
    BY <1>1, <1>3, <2>5, <2>6
  <2> QED BY <2>2, <2>4, <2>7 DEF head, sum, plain
<1> QED
  BY <1>5, <1>6, <1>7

\* A unit of n bytes was decoded.
UnitDone(z, n, r) ==
  /\ r.z \in Zds /\ SameRest(r.z, z) /\ InFrame(r.z) /\ r.size \in Nat
  /\ Inside(r.z) = Inside(z) + n /\ PlainInside(r.z) = PlainInside(z) + r.size

\* A raw block is its content, and an empty block has none.
Sound(f) ==
  \A k \in 1..Len(f.blocks) : LET b == f.blocks[k] IN
    /\ b.type = "raw" => b.csize = b.size
    /\ b.csize = 0 => b.size = 0

LEMMA ArchiveSound ==
  ASSUME archive \in Archives, NEW i \in 1..Len(archive), archive[i] \in ZstdFrames
  PROVE  Sound(archive[i])
<1>1. archive \in Seq(Frames)
  BY ZstdAssumption DEF Frames
<1>2. i \in DOMAIN archive /\ archive[i].kind = "zstd" /\ archive[i].blocks \in Seq(Block)
  BY <1>1 DEF ZstdFrames
<1>3. DOMAIN archive[i].blocks = 1..Len(archive[i].blocks)
  BY <1>2
<1> QED
  BY <1>2, <1>3, ZstdAssumption DEF Sound

LEMMA BlockFacts ==
  ASSUME NEW f \in ZstdFrames, Sound(f), NEW k \in 1..Len(f.blocks)
  PROVE  /\ f.blocks[k].csize \in Nat /\ f.blocks[k].size \in Nat
         /\ f.blocks[k].type = "raw" => f.blocks[k].csize = f.blocks[k].size
         /\ f.blocks[k].csize = 0 => f.blocks[k].size = 0
         /\ k \in 0..Len(f.blocks) /\ k - 1 \in 0..Len(f.blocks)
         /\ BlockSizes(f, k) \in Nat /\ BlockPlains(f, k) \in Nat /\ BlockSizes(f, k - 1) \in Nat
         /\ BlockPlains(f, k - 1) \in Nat
         /\ BlockSizes(f, k) = BlockSizes(f, k - 1) + (3 + f.blocks[k].csize)
         /\ BlockPlains(f, k) = BlockPlains(f, k - 1) + f.blocks[k].size
<1> DEFINE n == Len(f.blocks)
<1>2. n \in Nat /\ f.blocks[k] \in Block
  BY BlockSums
<1>3. k \in 1..n /\ k \in 0..n /\ k - 1 \in 0..n
  <2>1. k \in 1..n
    OBVIOUS
  <2>2. n \in Nat
    BY <1>2
  <2> HIDE DEF n
  <2> QED BY <2>1, <2>2
<1>4. /\ f.blocks[k].type = "raw" => f.blocks[k].csize = f.blocks[k].size
      /\ f.blocks[k].csize = 0 => f.blocks[k].size = 0
  BY DEF Sound
<1>5. /\ BlockSizes(f, k) \in Nat /\ BlockPlains(f, k) \in Nat /\ BlockSizes(f, k - 1) \in Nat
      /\ BlockPlains(f, k - 1) \in Nat
      /\ BlockSizes(f, k) = BlockSizes(f, k - 1) + (3 + f.blocks[k].csize)
      /\ BlockPlains(f, k) = BlockPlains(f, k - 1) + f.blocks[k].size
  BY <1>3, BlockSums DEF BlockHeaderSize
<1> QED
  BY <1>2, <1>3, <1>4, <1>5 DEF Block

NextBlock(z) == [z EXCEPT !.block = @ + 1]

LEMMA NextBlockRest ==
  ASSUME NEW z \in Zds
  PROVE  LET y == NextBlock(z) IN
         /\ y \in Zds /\ SameRest(y, z) /\ y.block = z.block + 1
         /\ y.stage = z.stage /\ y.expected = z.expected
<1>1. NextBlock(z) \in Zds
  BY DEF NextBlock, Zds
<1>2. SameRest(NextBlock(z), z)
  BY DEF NextBlock, Zds, SameRest
<1>3. LET y == NextBlock(z) IN
      y.block = z.block + 1 /\ y.stage = z.stage /\ y.expected = z.expected
  BY DEF NextBlock, Zds
<1> QED
  BY <1>1, <1>2, <1>3

LEMMA BlockHeaderDone ==
  ASSUME NEW z \in Zds, Frame(z) \in ZstdFrames, Sound(Frame(z)), z.streamStage # "loadHeader", z.stage = "blockHeader",
         z.block < Len(Frame(z).blocks), z.expected = 3,
         NEW r, r = DecodeBlockHeader(z), ~ r.fails
  PROVE  UnitDone(z, 3, r) /\ r.size = 0
<1> DEFINE f == Frame(z)
           y == NextBlock(z)
           k == z.block + 1
           b == f.blocks[k]
           head == HeaderSize(f)
           sum == BlockSizes(f, z.block)
           plain == BlockPlains(f, z.block)
<1>1. f.kind = "zstd" /\ head \in Nat /\ f \in ZstdFrames /\ Sound(f)
  BY HeaderSizes DEF ZstdFrames
<1>2. /\ y \in Zds /\ SameRest(y, z) /\ y.block = k /\ Frame(y) = f
      /\ y.streamStage # "loadHeader"
  BY NextBlockRest DEF SameRest, Frame
<1>3. k \in 1..Len(f.blocks) /\ k - 1 = z.block
  <2> DEFINE n == Len(f.blocks)
  <2>1. n \in Nat /\ z.block \in Nat /\ z.block < n
    BY <1>1, BlockSums DEF Zds
  <2> HIDE DEF n
  <2> QED BY <2>1
<1>4. /\ b.csize \in Nat /\ b.size \in Nat
      /\ b.type = "raw" => b.csize = b.size
      /\ b.csize = 0 => b.size = 0
      /\ BlockSizes(f, k) = sum + (3 + b.csize) /\ BlockPlains(f, k) = plain + b.size
      /\ sum \in Nat /\ BlockPlains(f, k) \in Nat
  <2> HIDE DEF f, k
  <2> QED BY <1>1, <1>3, BlockFacts
<1>5. plain \in Nat
  <2> HIDE DEF f, k
  <2> QED BY <1>1, <1>3, BlockFacts
<1>6. Inside(z) = head + sum - 0 /\ PlainInside(z) = plain - 0
  <2> HIDE DEF f
  <2> QED BY DEF Inside, PlainInside, f
<1>7. r = IF b.type = "reserved" \/ b.csize > MaxBlock(f) THEN Fails(y)
          ELSE IF b.csize > 0 THEN Done(Set(y, b.csize, "block"))
          ELSE IF LastBlock(y) THEN Done(EndOfBlocks(y))
          ELSE Done(ToBlockHeader(y))
  <2>1. r = IF \/ Frame(y).blocks[y.block].type = "reserved"
               \/ Frame(y).blocks[y.block].csize > MaxBlock(Frame(y)) THEN Fails(y)
          ELSE IF Frame(y).blocks[y.block].csize > 0
            THEN Done(Set(y, Frame(y).blocks[y.block].csize, "block"))
          ELSE IF LastBlock(y) THEN Done(EndOfBlocks(y))
          ELSE Done(ToBlockHeader(y))
    BY DEF DecodeBlockHeader, NextBlock, Set
  <2> HIDE DEF y, f, k
  <2> QED BY <1>2, <2>1
<1>8. CASE b.csize > 0
  <2> DEFINE e == Set(y, b.csize, "block")
  <2>1. r.z = e /\ r.size = 0
    BY <1>7, <1>8 DEF Done, Fails
  <2>2. /\ e \in Zds /\ SameRest(e, y) /\ e.expected = b.csize /\ e.stage = "block"
        /\ e.block = k
    <3>1. "block" \in Stages
      BY DEF Stages
    <3>2. y \in Zds /\ y.block = k /\ b.csize \in Nat
      BY <1>2, <1>4
    <3> HIDE DEF y, f, k, b
    <3> QED BY <3>1, <3>2, SetStage
  <2>3. SameRest(e, z) /\ Frame(e) = f /\ e.streamStage # "loadHeader"
    BY <1>2, <2>2 DEF SameRest, Frame
  <2>4. InFrame(e)
    <3>1. b.csize \in 1..b.csize
      <4> HIDE DEF b
      <4> QED BY <1>4, <1>8
    <3> HIDE DEF e, f, k
    <3> QED BY <1>1, <1>3, <2>2, <2>3, <3>1 DEF InFrame
  <2>5. Inside(e) = head + BlockSizes(f, k) - b.csize
    <3> HIDE DEF e, f, k
    <3> QED BY <1>4, <1>8, <2>2, <2>3 DEF Inside
  <2>6. PlainInside(e) = BlockPlains(f, k) - (IF b.type = "raw" THEN b.csize ELSE b.size)
    <3> HIDE DEF e, f, k
    <3> QED BY <1>4, <1>8, <2>2, <2>3 DEF PlainInside
  <2>7. Inside(e) = Inside(z) + 3 /\ PlainInside(e) = PlainInside(z) + 0
    <3> DEFINE s == BlockSizes(f, k)
               p == BlockPlains(f, k)
               c == b.csize
               size == b.size
               rest == IF b.type = "raw" THEN b.csize ELSE b.size
    <3>1. /\ head \in Nat /\ sum \in Nat /\ plain \in Nat /\ c \in Nat /\ size \in Nat
          /\ s = sum + (3 + c) /\ p = plain + size /\ rest = size
          /\ Inside(e) = head + s - c /\ PlainInside(e) = p - rest
          /\ Inside(z) = head + sum - 0 /\ PlainInside(z) = plain - 0
      BY <1>1, <1>4, <1>5, <1>6, <2>5, <2>6
    <3> HIDE DEF e, f, k, b, head, sum, plain, s, p, c, size, rest
    <3> QED BY <3>1
  <2> HIDE DEF e
  <2> QED BY <2>1, <2>2, <2>3, <2>4, <2>7 DEF UnitDone
<1>9. CASE b.csize = 0
  <2> DEFINE e == IF LastBlock(y) THEN EndOfBlocks(y) ELSE ToBlockHeader(y)
  <2>1. r.z = e /\ r.size = 0
    BY <1>7, <1>9 DEF Done, Fails
  <2>2. /\ e \in Zds /\ SameRest(e, y) /\ InFrame(e)
        /\ Inside(e) = head + BlockSizes(f, k) /\ PlainInside(e) = BlockPlains(f, k)
    <3> HIDE DEF y, f, k
    <3> QED BY <1>1, <1>2, <1>3, NextUnit
  <2>3. SameRest(e, z)
    BY <1>2, <2>2 DEF SameRest
  <2>4. Inside(e) = Inside(z) + 3 /\ PlainInside(e) = PlainInside(z) + 0
    <3> DEFINE s == BlockSizes(f, k)
               p == BlockPlains(f, k)
    <3>1. /\ head \in Nat /\ sum \in Nat /\ plain \in Nat
          /\ s = sum + (3 + 0) /\ p = plain + 0
          /\ Inside(e) = head + s /\ PlainInside(e) = p
          /\ Inside(z) = head + sum - 0 /\ PlainInside(z) = plain - 0
      BY <1>1, <1>4, <1>5, <1>6, <1>9, <2>2
    <3> HIDE DEF e, f, k, b, head, sum, plain, s, p
    <3> QED BY <3>1
  <2> HIDE DEF e
  <2> QED BY <2>1, <2>2, <2>3, <2>4 DEF UnitDone
<1> QED
  BY <1>4, <1>8, <1>9

BlockTaken(z, left, size, end) ==
  [z EXCEPT !.expected = left, !.decodedSize = @ + size, !.previousDstEnd = end]

AreSizes(left, size, end) == left \in Nat /\ size \in Nat /\ end \in Int

LEMMA BlockTakenRest ==
  ASSUME NEW z \in Zds, NEW left, NEW size, NEW end, AreSizes(left, size, end)
  PROVE  LET y == BlockTaken(z, left, size, end) IN
         /\ y \in Zds /\ SameRest(y, z) /\ y.expected = left
         /\ y.block = z.block /\ y.stage = z.stage
<1>0. left \in Nat /\ size \in Nat /\ end \in Int
  BY DEF AreSizes
<1>1. BlockTaken(z, left, size, end) \in Zds
  <2> DEFINE all == z.decodedSize + size
  <2>1. all \in Nat
    BY <1>0 DEF Zds
  <2>2. BlockTaken(z, left, size, end)
          = [z EXCEPT !.expected = left, !.decodedSize = all, !.previousDstEnd = end]
    BY DEF BlockTaken
  <2> HIDE DEF all
  <2> QED BY <1>0, <2>1, <2>2 DEF Zds
<1>2. SameRest(BlockTaken(z, left, size, end), z)
  BY DEF BlockTaken, Zds, SameRest
<1>3. LET y == BlockTaken(z, left, size, end) IN
      y.expected = left /\ y.block = z.block /\ y.stage = z.stage
  BY DEF BlockTaken, Zds
<1> QED
  BY <1>1, <1>2, <1>3

\* The decoder has n bytes of a block.
InBlock(z, n) ==
  LET f == Frame(z)
      b == f.blocks[z.block]
  IN /\ f \in ZstdFrames /\ Sound(f)
     /\ z.streamStage # "loadHeader" /\ z.stage = "block" /\ z.block \in 1..Len(f.blocks)
     /\ z.expected \in 1..b.csize /\ (b.type # "raw" => z.expected = b.csize)
     /\ n \in 1..z.expected /\ (n = z.expected \/ b.type = "raw")

LEMMA BlockDone ==
  ASSUME NEW z \in Zds, NEW n, InBlock(z, n), NEW dst \in Int, NEW capacity \in Nat,
         NEW r, r = DecompressBlock(z, n, dst, capacity), ~ r.fails
  PROVE  UnitDone(z, n, r) /\ r.size <= capacity
<1> DEFINE f == Frame(z)
           k == z.block
           b == f.blocks[k]
           c == b.csize
           raw == b.type = "raw"
           e == z.expected
           head == HeaderSize(f)
           sum == BlockSizes(f, k)
           plain == BlockPlains(f, k)
           size == IF raw THEN n ELSE b.size
           left == IF raw THEN e - n ELSE 0
           y == BlockTaken(z, left, size, dst + size)
           next == IF left > 0 THEN y
                   ELSE IF LastBlock(z) THEN EndOfBlocks(y) ELSE ToBlockHeader(y)
<1>1. f.kind = "zstd" /\ head \in Nat /\ f \in ZstdFrames /\ Sound(f) /\ k \in 1..Len(f.blocks)
  <2>1. f \in ZstdFrames /\ Sound(f) /\ k \in 1..Len(f.blocks)
    BY DEF InBlock
  <2> HIDE DEF f
  <2> QED BY <2>1, HeaderSizes DEF ZstdFrames
<1>2. /\ c \in Nat /\ b.size \in Nat /\ (raw => c = b.size) /\ sum \in Nat /\ plain \in Nat
      /\ plain - b.size \in Nat
  <2>1. /\ c \in Nat /\ b.size \in Nat /\ (raw => c = b.size) /\ sum \in Nat /\ plain \in Nat
        /\ BlockPlains(f, k - 1) \in Nat /\ plain = BlockPlains(f, k - 1) + b.size
    <3> HIDE DEF f, k
    <3> QED BY <1>1, BlockFacts
  <2> DEFINE before == BlockPlains(f, k - 1)
             s == b.size
  <2>2. plain \in Nat /\ before \in Nat /\ s \in Nat /\ plain = before + s
    BY <2>1
  <2>3. plain - s \in Nat
    <3> HIDE DEF plain, before, s
    <3> QED BY <2>2
  <2> QED BY <2>1, <2>3
<1>3. /\ e \in 1..c /\ (~ raw => e = c) /\ n \in 1..e /\ (n = e \/ raw)
      /\ z.stage = "block" /\ z.streamStage # "loadHeader"
  BY DEF InBlock
<1>4. /\ size \in Nat /\ left \in Nat /\ dst + size \in Int /\ left <= e
      /\ (left > 0 => raw) /\ n \in Nat /\ e \in Nat
  <2> HIDE DEF f, k, b, c, raw, e
  <2> QED BY <1>2, <1>3 DEF c
<1>5. /\ y \in Zds /\ SameRest(y, z) /\ y.expected = left /\ y.block = k /\ y.stage = "block"
      /\ Frame(y) = f /\ y.streamStage # "loadHeader"
  <2>1. /\ y \in Zds /\ SameRest(y, z) /\ y.expected = left /\ y.block = k /\ y.stage = z.stage
    <3> DEFINE end == dst + size
    <3>1. AreSizes(left, size, end)
      BY <1>4 DEF AreSizes
    <3>2. y = BlockTaken(z, left, size, end)
      OBVIOUS
    <3> HIDE DEF left, size, f, end, y, k
    <3>3. /\ y \in Zds /\ SameRest(y, z) /\ y.expected = left
          /\ y.block = z.block /\ y.stage = z.stage
      BY <3>1, <3>2, BlockTakenRest
    <3> QED BY <3>3 DEF k
  <2> HIDE DEF y
  <2> QED BY <1>3, <2>1 DEF SameRest, Frame
<1>6. r.z = next /\ r.size = size /\ size <= capacity
  <2>1. \E bad \in BOOLEAN : r = IF size > capacity \/ bad THEN Fails(z)
                                 ELSE [z |-> next, size |-> size, fails |-> FALSE]
    <3> DEFINE bad == \/ size > MaxBlock(f)
                      \/ b.type = "compressed" /\ n \notin CBlockSizes
                      \/ /\ left = 0 /\ LastBlock(z) /\ f.fcs # Unknown
                         /\ y.decodedSize # f.fcs
    <3>1. r = IF size > capacity \/ bad THEN Fails(z)
              ELSE [z |-> next, size |-> size, fails |-> FALSE]
      BY DEF DecompressBlock, BlockTaken
    <3>2. bad \in BOOLEAN
      OBVIOUS
    <3> HIDE DEF bad, next, size
    <3> QED BY <3>1, <3>2
  <2> HIDE DEF size, next
  <2>2. ~ (size > capacity) /\ r.z = next /\ r.size = size
    BY <2>1 DEF Fails
  <2> QED BY <1>4, <2>2
<1>7. Inside(z) = head + sum - e /\ PlainInside(z) = plain - (IF raw THEN e ELSE b.size)
  <2>1. e # 0
    <3> HIDE DEF e, c
    <3> QED BY <1>3
  <2>2. z.expected # 0 /\ z.stage = "block" /\ z.streamStage # "loadHeader"
    BY <1>3, <2>1
  <2> HIDE DEF f
  <2> QED BY <2>2 DEF Inside, PlainInside, f
<1>8. CASE left > 0
  <2>1. next = y /\ raw /\ size = n /\ left = e - n
    BY <1>4, <1>8
  <2>2. left \in 1..c
    <3> HIDE DEF left, e, c, size, raw
    <3> QED BY <1>2, <1>3, <1>4, <1>8
  <2>3. InFrame(y)
    <3> HIDE DEF f, k, y, left
    <3> QED BY <1>1, <1>5, <2>1, <2>2 DEF InFrame
  <2>4. Inside(y) = head + sum - left /\ PlainInside(y) = plain - left
    <3>1. left # 0
      <4> HIDE DEF left
      <4> QED BY <1>4, <1>8
    <3> HIDE DEF f, k, y, left
    <3> QED BY <1>5, <2>1, <3>1 DEF Inside, PlainInside
  <2>5. Inside(y) = Inside(z) + n /\ PlainInside(y) = PlainInside(z) + size
    <3>1. PlainInside(z) = plain - e
      BY <1>7, <2>1
    <3> HIDE DEF f, k, b, c, raw, e, head, sum, plain, size, left, y, next
    <3> QED BY <1>1, <1>2, <1>4, <1>7, <2>1, <2>4, <3>1
  <2> HIDE DEF next, y, size
  <2> QED BY <1>4, <1>5, <1>6, <2>1, <2>3, <2>5 DEF UnitDone
<1>9. CASE left = 0
  <2>1. next = IF LastBlock(y) THEN EndOfBlocks(y) ELSE ToBlockHeader(y)
    <3>1. LastBlock(y) <=> LastBlock(z)
      <4> HIDE DEF y
      <4> QED BY <1>5 DEF LastBlock
    <3>2. ~ (left > 0)
      <4> HIDE DEF left
      <4> QED BY <1>9
    <3> HIDE DEF y, left
    <3> QED BY <3>1, <3>2
  <2>2. /\ next \in Zds /\ SameRest(next, y) /\ InFrame(next)
        /\ Inside(next) = head + sum /\ PlainInside(next) = plain
    <3> HIDE DEF y, f, k, next
    <3> QED BY <1>1, <1>5, <2>1, NextUnit
  <2>3. SameRest(next, z)
    <3> HIDE DEF y, next
    <3> QED BY <1>5, <2>2 DEF SameRest
  <2>4. n = e /\ size = (IF raw THEN e ELSE b.size)
    <3> HIDE DEF e, b, c, raw
    <3> QED BY <1>3, <1>4, <1>9
  <2>5. Inside(next) = Inside(z) + n /\ PlainInside(next) = PlainInside(z) + size
    <3> HIDE DEF f, k, b, c, e, head, sum, plain, left, y, next, size
    <3>1. Inside(z) = head + sum - e /\ PlainInside(z) = plain - size
      BY <1>7, <2>4
    <3> HIDE DEF raw
    <3> QED BY <1>1, <1>2, <1>4, <2>2, <2>4, <3>1
  <2> HIDE DEF next, y, size
  <2> QED BY <1>4, <1>5, <1>6, <2>2, <2>3, <2>5 DEF UnitDone
<1>10. left > 0 \/ left = 0
  <2> HIDE DEF left
  <2> QED BY <1>4
<1> QED
  BY <1>6, <1>8, <1>9, <1>10

LEMMA FrameEndDone ==
  ASSUME NEW z \in Zds, Frame(z) \in Frames, z.streamStage # "loadHeader", z.expected > 0,
         InFrame(z), z.stage \in {"checksum", "skipFrame"},
         NEW r, r = Done(EndOfFrame(z))
  PROVE  UnitDone(z, z.expected, r) /\ r.size = 0
<1> DEFINE f == Frame(z)
           e == Set(z, 0, "frameHeader")
<1>1. r.z = e /\ r.size = 0
  BY DEF Done, EndOfFrame, Set
<1>2. e \in Zds /\ SameRest(e, z) /\ e.expected = 0 /\ e.stage = "frameHeader"
  <2>1. 0 \in Nat /\ "frameHeader" \in Stages
    BY DEF Stages
  <2>2. e = Set(z, 0, "frameHeader")
    OBVIOUS
  <2> HIDE DEF e
  <2> QED BY <2>1, <2>2, SetStage
<1>3. Frame(e) = f /\ e.streamStage # "loadHeader"
  <2> HIDE DEF e
  <2> QED BY <1>2 DEF SameRest, Frame
<1>4. Inside(e) = FrameSize(f) /\ PlainInside(e) = PlainSize(f)
  <2> HIDE DEF e, f
  <2> QED BY <1>2, <1>3 DEF Inside, PlainInside
<1>5. FrameSize(f) = Inside(z) + z.expected /\ PlainSize(f) = PlainInside(z)
  <2>1. CASE z.stage = "skipFrame"
    <3>1. f.kind = "skippable" /\ z.expected = f.skip
      BY <2>1 DEF InFrame
    <3>2. FrameSize(f) = 8 + f.skip /\ PlainSize(f) = 0
      <4> HIDE DEF f
      <4> QED BY <3>1 DEF FrameSize, PlainSize, SkipHeaderSize
    <3>3. Inside(z) = 8 /\ PlainInside(z) = 0
      BY <2>1 DEF Inside, PlainInside, SkipHeaderSize
    <3> HIDE DEF f
    <3> QED BY <3>1, <3>2, <3>3
  <2>2. CASE z.stage = "checksum"
    <3>1. f.kind = "zstd" /\ f.checksum /\ z.block = Len(f.blocks) /\ z.expected = 4
      BY <2>2 DEF InFrame, ChecksumSize
    <3>2. f \in ZstdFrames
      <4>1. f \in Frames
        OBVIOUS
      <4> HIDE DEF f
      <4> QED BY <3>1, <4>1, FrameKinds DEF SkippableFrames
    <3> DEFINE head == HeaderSize(f)
               sum == BlockSizes(f, z.block)
               plain == BlockPlains(f, z.block)
    <3>3. head \in Nat /\ FrameSize(f) = head + sum + 4 /\ PlainSize(f) = plain
      <4> HIDE DEF f
      <4> QED BY <3>1, <3>2, HeaderSizes, BlockSums DEF ChecksumSize
    <3>4. sum \in Nat /\ plain \in Nat
      <4> DEFINE n == Len(f.blocks)
      <4>1. n \in Nat
        <5> HIDE DEF f
        <5> QED BY <3>2, BlockSums
      <4>2. n \in 0..n
        <5> HIDE DEF n
        <5> QED BY <4>1
      <4> HIDE DEF f
      <4> QED BY <3>1, <3>2, <4>2, BlockSums
    <3>5. Inside(z) = head + sum - 0 /\ PlainInside(z) = plain - 0
      <4> HIDE DEF f
      <4> QED BY <2>2 DEF Inside, PlainInside, f
    <3> HIDE DEF f, head, sum, plain
    <3> QED BY <3>1, <3>3, <3>4, <3>5
  <2> QED BY <2>1, <2>2
<1>6. InFrame(e)
  <2> HIDE DEF e
  <2> QED BY <1>2 DEF InFrame
<1>7. PlainInside(z) \in Int
  <2>1. PlainSize(f) \in Nat
    BY FrameSizeType
  <2> QED BY <1>5, <2>1
<1> HIDE DEF e
<1>8. Inside(e) = Inside(z) + z.expected /\ PlainInside(e) = PlainInside(z) + 0
  BY <1>4, <1>5, <1>7
<1> QED
  BY <1>1, <1>2, <1>6, <1>8 DEF UnitDone

\* What the decoder takes for the next unit.
Takes(z, n) ==
  /\ archive \in Archives /\ z \in Zds /\ StageInv(z)
  /\ z.streamStage \in {"read", "load"} /\ z.expected > 0
  /\ n \in 1..z.expected
  /\ n # z.expected => z.stage = "block" /\ Frame(z).blocks[z.block].type = "raw"

LEMMA ContinueDone ==
  ASSUME NEW z, NEW n, Takes(z, n), NEW dst \in Int, NEW capacity \in Nat,
         NEW r, r = Continue(z, n, dst, capacity), ~ r.fails
  PROVE  UnitDone(z, n, r) /\ r.size <= capacity /\ (z.stage # "block" => r.size = 0)
<1> DEFINE y == IF capacity > 0 THEN CheckContinuity(z, dst) ELSE z
           f == Frame(z)
<1>1. /\ z \in Zds /\ z.frame \in Nat /\ z.frame > 0 /\ z.streamStage # "loadHeader"
      /\ InFrame(z) /\ z.expected > 0 /\ z.expected \in Nat
  BY DEF Takes, StageInv, Zds
<1>2. f \in Frames /\ f = archive[z.frame] /\ z.frame \in 1..Len(archive)
  BY <1>1, FrameIs DEF Takes
<1>3. f \in ZstdFrames => Sound(f)
  BY <1>2, ArchiveSound DEF Takes
<1>4. f.kind = "zstd" => f \in ZstdFrames
  BY <1>2, FrameKinds DEF SkippableFrames
<1>5. /\ y \in Zds /\ SameRest(y, z) /\ y.stage = z.stage /\ y.block = z.block
      /\ y.expected = z.expected
  <2>1. CASE y = z
    BY <1>1, <2>1 DEF SameRest
  <2>2. CASE y = CheckContinuity(z, dst)
    <3> HIDE DEF y
    <3> QED BY <1>1, <2>2, ContinuityRest
  <2> QED BY <2>1, <2>2
<1>6. r = CASE z.stage = "blockHeader" -> DecodeBlockHeader(y)
            [] z.stage = "block" -> DecompressBlock(y, n, dst, capacity)
            [] z.stage = "checksum" -> IF Frame(y).honest THEN Done(EndOfFrame(y)) ELSE Fails(y)
            [] z.stage = "skipFrame" -> Done(EndOfFrame(y))
  BY DEF Continue
<1> HIDE DEF y, f
<1>7. Frame(y) = f /\ Inside(y) = Inside(z) /\ PlainInside(y) = PlainInside(z)
      /\ y.streamStage # "loadHeader" /\ (InFrame(y) <=> InFrame(z)) /\ Frame(z) = f
  <2>1. Frame(y) = f /\ Frame(z) = f
    BY <1>5 DEF f, Frame, SameRest
  <2> QED BY <1>1, <1>5, <2>1 DEF Inside, PlainInside, SameRest, InFrame
<1>8. ASSUME UnitDone(y, n, r)
      PROVE  UnitDone(z, n, r)
  BY <1>5, <1>7, <1>8 DEF UnitDone, SameRest
<1>9. n \in 1..z.expected /\ (n # z.expected => z.stage = "block" /\ f.blocks[z.block].type = "raw")
  BY <1>7 DEF Takes
<1>10. CASE z.stage = "blockHeader"
  <2>1. f.kind = "zstd" /\ z.block < Len(f.blocks) /\ z.expected = 3
    BY <1>1, <1>7, <1>10 DEF InFrame, BlockHeaderSize
  <2>2. r = DecodeBlockHeader(y) /\ n = 3
    BY <1>6, <1>9, <1>10, <2>1
  <2>3. UnitDone(y, 3, r) /\ r.size = 0
    BY <1>3, <1>4, <1>5, <1>7, <1>10, <2>1, <2>2, BlockHeaderDone
  <2> QED BY <1>8, <1>10, <2>2, <2>3
<1>11. CASE z.stage = "block"
  <2>1. /\ f.kind = "zstd" /\ z.block \in 1..Len(f.blocks)
        /\ z.expected \in 1..f.blocks[z.block].csize
        /\ f.blocks[z.block].type # "raw" => z.expected = f.blocks[z.block].csize
    BY <1>1, <1>7, <1>11 DEF InFrame
  <2>2. InBlock(y, n)
    BY <1>3, <1>4, <1>5, <1>7, <1>9, <1>11, <2>1 DEF InBlock
  <2>3. r = DecompressBlock(y, n, dst, capacity)
    BY <1>6, <1>11
  <2>4. UnitDone(y, n, r) /\ r.size <= capacity
    BY <1>5, <2>2, <2>3, BlockDone
  <2> QED BY <1>8, <1>11, <2>4
<1>12. CASE z.stage \in {"checksum", "skipFrame"}
  <2>1. r = Done(EndOfFrame(y))
    <3>1. r = Done(EndOfFrame(y)) \/ r = Fails(y)
      BY <1>6, <1>12
    <3> QED BY <3>1 DEF Fails
  <2>2. n = y.expected
    BY <1>5, <1>9, <1>12
  <2>3. UnitDone(y, n, r) /\ r.size = 0
    BY <1>1, <1>2, <1>5, <1>7, <1>12, <2>1, <2>2, FrameEndDone
  <2> QED BY <1>8, <1>12, <2>3
<1>13. z.stage \in {"blockHeader", "block", "checksum", "skipFrame"}
  BY <1>1 DEF InFrame
<1> QED
  BY <1>10, <1>11, <1>12, <1>13

-----------------------------------------------------------------------------
(* The steps of the decoder                                                *)

LEMMA SameArchive ==
  ASSUME archive' = archive
  PROVE  /\ StageInv(zds)' <=> StageInv(zds')
         /\ Frame(zds)' = Frame(zds') /\ Consumed(zds)' = Consumed(zds')
         /\ Produced(zds)' = Produced(zds')
<1>1. Frame(zds)' = Frame(zds')
  BY DEF Frame
<1>2. InFrame(zds)' <=> InFrame(zds')
  BY <1>1 DEF InFrame
<1>3. StageInv(zds)' <=> StageInv(zds')
  BY <1>1, <1>2 DEF StageInv
<1>4. \A k : Sizes(k)' = Sizes(k) /\ Plains(k)' = Plains(k)
  BY DEF Sizes, Plains
<1>5. Inside(zds)' = Inside(zds') /\ PlainInside(zds)' = PlainInside(zds')
  BY <1>1 DEF Inside, PlainInside
<1> QED
  BY <1>1, <1>3, <1>4, <1>5 DEF Consumed, Produced

LEMMA Within ==
  ASSUME archive \in Archives, NEW z \in Zds, StageInv(z), z.frame > 0,
         NEW y \in Zds, y.frame = z.frame, Inside(y) \in Int, PlainInside(y) \in Int
  PROVE  /\ Consumed(y) - Consumed(z) = (Inside(y) + y.inPos) - (Inside(z) + z.inPos)
         /\ Produced(y) - Produced(z) = PlainInside(y) - PlainInside(z)
         /\ Consumed(z) \in Nat /\ Consumed(y) \in Int /\ Produced(z) \in Int /\ Produced(y) \in Int
<1>1. z.frame - 1 \in 0..Len(archive) /\ z.frame # 0 /\ z.inPos \in Nat /\ y.inPos \in Nat
  <2>1. z.frame \in Nat /\ z.inPos \in Nat /\ y.inPos \in Nat
    BY DEF Zds
  <2>2. z.frame - 1 \in 0..Len(archive)
    BY <2>1, FrameIs
  <2> QED BY <2>1, <2>2
<1>2. Sizes(z.frame - 1) \in Nat /\ Plains(z.frame - 1) \in Nat
  BY <1>1, FrameSums
<1>3. Inside(z) \in Nat /\ PlainInside(z) \in Int
  BY InsideType
<1> DEFINE before == Sizes(z.frame - 1)
           plain == Plains(z.frame - 1)
<1>4. /\ Consumed(z) = before + Inside(z) + z.inPos /\ Consumed(y) = before + Inside(y) + y.inPos
      /\ Produced(z) = plain + PlainInside(z) /\ Produced(y) = plain + PlainInside(y)
  BY <1>1 DEF Consumed, Produced
<1> DEFINE iz == Inside(z)
           iy == Inside(y)
           pz == PlainInside(z)
           py == PlainInside(y)
           nz == z.inPos
           ny == y.inPos
<1>5. /\ before \in Nat /\ plain \in Nat /\ iz \in Nat /\ iy \in Int /\ pz \in Int /\ py \in Int
      /\ nz \in Nat /\ ny \in Nat
  BY <1>1, <1>2, <1>3
<1> HIDE DEF before, plain, iz, iy, pz, py, nz, ny
<1>6. /\ (before + iy + ny) - (before + iz + nz) = (iy + ny) - (iz + nz)
      /\ (plain + py) - (plain + pz) = py - pz
      /\ before + iz + nz \in Nat /\ before + iy + ny \in Int
      /\ plain + pz \in Int /\ plain + py \in Int
  BY <1>5
<1> QED
  BY <1>4, <1>6 DEF iz, iy, pz, py, nz, ny

\* The archive up to the end of a frame.
LEMMA AtFrameEnd ==
  ASSUME archive \in Archives, NEW z \in Zds, StageInv(z), z.streamStage = "init"
  PROVE  /\ Consumed(z) = Sizes(z.frame) /\ Produced(z) = Plains(z.frame)
         /\ z.frame \in 0..Len(archive) /\ Sizes(z.frame) \in Nat /\ Plains(z.frame) \in Nat
<1>1. z.frame \in 0..Len(archive) /\ z.expected = 0 /\ z.inPos = 0 /\ z.frame \in Nat
  BY DEF StageInv, Zds
<1>2. Sizes(z.frame) \in Nat /\ Plains(z.frame) \in Nat
  BY <1>1, FrameSums
<1>3. CASE z.frame = 0
  <2>1. Consumed(z) = 0 /\ Produced(z) = 0
    BY <1>3 DEF Consumed, Produced
  <2>2. Sizes(0) = 0 /\ Plains(0) = 0
    BY FrameSums
  <2> QED BY <1>1, <1>2, <1>3, <2>1, <2>2
<1>4. CASE z.frame > 0
  <2> DEFINE k == z.frame
             f == Frame(z)
             before == Sizes(k - 1)
             plain == Plains(k - 1)
  <2>1. f = archive[k] /\ k \in 1..Len(archive) /\ k - 1 \in 0..Len(archive) /\ k # 0 /\ f \in Frames
    BY <1>1, <1>4, FrameIs
  <2>2. Inside(z) = FrameSize(f) /\ PlainInside(z) = PlainSize(f)
    BY <1>1 DEF Inside, PlainInside
  <2>3. Consumed(z) = before + FrameSize(f) + 0 /\ Produced(z) = plain + PlainSize(f)
    BY <1>1, <2>1, <2>2 DEF Consumed, Produced
  <2>4. /\ Sizes(k) = before + FrameSize(archive[k]) /\ Plains(k) = plain + PlainSize(archive[k])
        /\ before \in Nat
    <3> HIDE DEF k
    <3> QED BY <2>1, FrameSums
  <2>5. FrameSize(f) \in Nat
    <3> HIDE DEF f
    <3> QED BY <2>1, FrameSizeType
  <2> HIDE DEF f, before, plain, k
  <2>6. Consumed(z) = Sizes(k) /\ Produced(z) = Plains(k)
    BY <2>1, <2>3, <2>4, <2>5
  <2> QED BY <1>1, <1>2, <2>6 DEF k
<1> QED
  BY <1>1, <1>3, <1>4

\* What a step of the decoder keeps.
StepOk ==
  /\ call' \in {"out", "loop", "result", "error"}
  /\ inPos' \in 0..inLen /\ outLen' \in 0..DStreamOutSize
  /\ zds' \in Zds /\ DOMAIN outBuff' = 1..zds'.outBuffSize
  /\ decoded' \in Nat
  /\ StageInv(zds')
  /\ CallInv'
  /\ call' # "error" =>
       /\ Consumed(zds') - inPos' - KeptBack' = Consumed(zds) - inPos - KeptBack
       /\ Produced(zds') - decoded' = Produced(zds) - decoded
  /\ decoded' - outLen' - (zds'.outEnd - zds'.outStart)
       = decoded - outLen - (zds.outEnd - zds.outStart)
  /\ FlushesInOrder'

\* The decoder may be called.
Ready ==
  /\ archive \in Archives /\ inLen \in Nat /\ inPos \in 0..inLen /\ istart \in 0..inLen
  /\ outLen \in 0..DStreamOutSize /\ DStreamOutSize \in Nat /\ decoded \in Nat
  /\ zds \in Zds /\ DOMAIN outBuff = 1..zds.outBuffSize
  /\ StageInv(zds) /\ CallInv /\ FlushesInOrder
  /\ Consumed(zds) + (inLen - inPos) - KeptBack <= ArchiveSize(archive)
  /\ call \in {"loop", "result"}

LEMMA ErrorStep ==
  ASSUME Ready, archive' = archive, inLen' = inLen,
         inPos' \in 0..inLen, outLen' = outLen, outBuff' = outBuff, decoded' = decoded,
         zds' = zds, call' = "error"
  PROVE  StepOk
<1>1. inPos' \in 0..inLen /\ outLen' \in 0..DStreamOutSize /\ decoded' \in Nat
  BY DEF Ready
<1>2. zds' \in Zds /\ DOMAIN outBuff' = 1..zds'.outBuffSize /\ StageInv(zds')
  BY DEF Ready
<1>3. CallInv'
  BY DEF CallInv
<1>4. FlushesInOrder'
  BY DEF Ready, FlushesInOrder
<1> QED
  BY <1>1, <1>2, <1>3, <1>4 DEF StepOk

LEMMA StartFrameStep ==
  ASSUME Ready, StartFrame
  PROVE  StepOk
<1> DEFINE y == zds'
           k == zds.frame
<1>1. /\ archive' = archive /\ inLen' = inLen /\ inPos' = inPos /\ outLen' = outLen
      /\ outBuff' = outBuff /\ decoded' = decoded /\ call' = call /\ call = "loop"
      /\ zds.streamStage = "init" /\ zds \in Zds /\ archive \in Archives
  BY DEF StartFrame, Looping, Ready
<1>2. y = [zds EXCEPT !.streamStage = "loadHeader", !.frame = @ + 1, !.block = 0,
                      !.lhSize = 0, !.inPos = 0, !.outStart = 0, !.outEnd = 0,
                      !.hostageByte = FALSE]
  BY DEF StartFrame
<1>3. /\ y \in Zds
      /\ y.streamStage = "loadHeader" /\ y.frame = k + 1 /\ y.block = 0 /\ y.lhSize = 0
      /\ y.inPos = 0 /\ y.outStart = 0 /\ y.outEnd = 0 /\ y.hostageByte = FALSE
      /\ y.expected = zds.expected /\ y.outBuffSize = zds.outBuffSize
  <2>1. k + 1 \in Nat /\ 0 \in Nat
    BY <1>1 DEF Zds
  <2> QED BY <1>1, <1>2, <2>1 DEF Zds
<1>4. zds.expected = 0 /\ zds.outStart = zds.outEnd /\ zds.outBuffSize \in Nat /\ zds.outEnd \in Nat
      /\ k \in Nat
  BY <1>1 DEF Ready, StageInv, Zds
<1>5. /\ Consumed(zds) = Sizes(k) /\ Produced(zds) = Plains(k) /\ k \in 0..Len(archive)
      /\ Sizes(k) \in Nat /\ Plains(k) \in Nat
  BY <1>1, AtFrameEnd DEF Ready
<1>6. KeptBack = 0 /\ KeptBack' = 0
  BY <1>1, <1>3 DEF KeptBack
<1>7. Len(archive) \in Nat /\ ArchiveSize(archive) = Sizes(Len(archive))
  BY <1>1, FrameSums
<1>8. k # Len(archive)
  <2>1. SUFFICES ASSUME k = Len(archive) PROVE FALSE
    OBVIOUS
  <2>2. Sizes(k) + (inLen - inPos) - 0 <= Sizes(k)
    BY <1>5, <1>6, <1>7, <2>1 DEF Ready
  <2>3. inPos < inLen /\ inLen \in Nat /\ inPos \in Nat
    BY <1>1 DEF Ready, CallInv
  <2> QED BY <1>5, <2>2, <2>3
<1>9. k + 1 \in 1..Len(archive) /\ k + 1 \in 0..Len(archive) /\ k + 1 > 0 /\ (k + 1) - 1 = k
  <2> DEFINE n == Len(archive)
  <2> HIDE DEF n, k
  <2>1. n \in Nat /\ k \in 0..n /\ k # n
    BY <1>5, <1>7, <1>8 DEF n
  <2> QED BY <2>1 DEF n
<1>10. Consumed(y) = Sizes(k) /\ Produced(y) = Plains(k)
  <2>1. Inside(y) = 0 /\ PlainInside(y) = 0
    BY <1>3 DEF Inside, PlainInside
  <2>2. Consumed(y) = Sizes(k) + 0 + 0 /\ Produced(y) = Plains(k) + 0
    BY <1>3, <1>9, <2>1 DEF Consumed, Produced
  <2> QED BY <1>5, <2>2
<1>11. StageInv(y)
  <2>1. WholeHeader(Frame(y)) \in Nat
    <3>1. Frame(y) \in Frames
      BY <1>1, <1>3, <1>9, FrameSums DEF Frame
    <3> QED BY <3>1, FrameSizeType
  <2>2. y.lhSize <= WholeHeader(Frame(y))
    BY <1>3, <2>1
  <2> QED BY <1>3, <1>4, <1>9, <2>2 DEF StageInv
<1>12. CallInv'
  BY <1>1, <1>3 DEF CallInv, Pending
<1>13. FlushesInOrder'
  BY <1>3 DEF FlushesInOrder
<1>14. /\ inPos' \in 0..inLen /\ outLen' \in 0..DStreamOutSize
       /\ DOMAIN outBuff' = 1..y.outBuffSize /\ decoded' \in Nat
       /\ call' \in {"out", "loop", "result", "error"}
  BY <1>1, <1>3 DEF Ready
<1>15. /\ Consumed(y) - inPos' - KeptBack' = Consumed(zds) - inPos - KeptBack
       /\ Produced(y) - decoded' = Produced(zds) - decoded
       /\ decoded' - outLen' - (y.outEnd - y.outStart)
            = decoded - outLen - (zds.outEnd - zds.outStart)
  <2>1. y.outEnd - y.outStart = zds.outEnd - zds.outStart
    BY <1>3, <1>4
  <2> QED BY <1>1, <1>5, <1>6, <1>10, <2>1
<1> QED
  BY <1>3, <1>11, <1>12, <1>13, <1>14, <1>15 DEF StepOk

\* A header that is being loaded.
LEMMA InHeader ==
  ASSUME Ready, zds.streamStage = "loadHeader"
  PROVE  LET f == Frame(zds)
             whole == WholeHeader(f) IN
         /\ archive \in Archives /\ zds \in Zds /\ StageInv(zds) /\ zds.frame > 0
         /\ f \in Frames
         /\ zds.lhSize \in 0..whole /\ whole \in Nat /\ PrefixSize <= whole
         /\ zds.inPos = 0 /\ zds.outStart = 0 /\ zds.outEnd = 0 /\ ~ zds.hostageByte
         /\ zds.block = 0 /\ zds.expected = 0
         /\ Inside(zds) = zds.lhSize /\ PlainInside(zds) = 0
         /\ KeptBack = 0
<1>1. /\ archive \in Archives /\ zds \in Zds /\ StageInv(zds)
      /\ zds.frame \in Nat /\ zds.lhSize \in Nat /\ zds.outStart \in Nat
  BY DEF Ready, Zds
<1>2. /\ zds.frame > 0 /\ zds.outEnd = 0 /\ zds.outStart <= zds.outEnd /\ ~ zds.hostageByte
      /\ zds.lhSize <= WholeHeader(Frame(zds)) /\ zds.block = 0 /\ zds.expected = 0
      /\ zds.inPos = 0
  BY <1>1 DEF StageInv
<1>3. Frame(zds) \in Frames
  BY <1>1, <1>2, FrameIs
<1>4. WholeHeader(Frame(zds)) \in Nat /\ PrefixSize <= WholeHeader(Frame(zds))
  BY <1>3, FrameSizeType
<1>5. zds.lhSize \in 0..WholeHeader(Frame(zds))
  BY <1>1, <1>2, <1>4
<1>6. Inside(zds) = zds.lhSize /\ PlainInside(zds) = 0 /\ KeptBack = 0
  BY <1>2 DEF Inside, PlainInside, KeptBack
<1>7. zds.outStart = 0
  BY <1>1, <1>2
<1> QED
  BY <1>1, <1>2, <1>3, <1>4, <1>5, <1>6, <1>7

\* The decoder is given what is left of a header, and no more.
LEMMA HeaderWanted ==
  ASSUME NEW f \in Frames, NEW have \in 0..WholeHeader(f)
  PROVE  /\ HeaderWants(f, have) \in 0..WholeHeader(f)
         /\ HeaderWants(f, have) > 0 => have < HeaderWants(f, have)
         /\ HeaderWants(f, have) = 0 => have = WholeHeader(f)
<1> DEFINE whole == WholeHeader(f)
<1>1. whole \in Nat /\ 5 <= whole
  BY FrameSizeType DEF PrefixSize
<1>2. HeaderWants(f, have) = IF have < 5 THEN 5 ELSE IF have < whole THEN whole ELSE 0
  BY DEF HeaderWants, WholeHeader, PrefixSize
<1>3. have \in 0..whole
  OBVIOUS
<1> HIDE DEF whole
<1>4. /\ HeaderWants(f, have) \in 0..whole
      /\ HeaderWants(f, have) > 0 => have < HeaderWants(f, have)
      /\ HeaderWants(f, have) = 0 => have = whole
  BY <1>1, <1>2, <1>3
<1> QED
  BY <1>4 DEF whole

LEMMA LoadHeaderStep ==
  ASSUME Ready, LoadHeader
  PROVE  StepOk
<1> DEFINE y == zds'
           f == Frame(zds)
           whole == WholeHeader(f)
           have == zds.lhSize
           wants == HeaderWants(f, have)
           room == inLen - inPos
           n == Smaller(wants - have, room)
<1>1. /\ archive' = archive /\ inLen' = inLen /\ outLen' = outLen
      /\ outBuff' = outBuff /\ decoded' = decoded /\ call = "loop"
      /\ zds.streamStage = "loadHeader" /\ zds \in Zds /\ archive \in Archives
  BY DEF LoadHeader, LoadingHeader, Looping, Ready
<1>2. /\ wants > 0 /\ y = [zds EXCEPT !.lhSize = @ + n] /\ inPos' = inPos + n
      /\ call' = IF have + n < wants THEN "out" ELSE "loop"
  BY DEF LoadHeader, Available
<1>3. /\ StageInv(zds) /\ zds.frame > 0 /\ f \in Frames /\ have \in 0..whole /\ whole \in Nat
      /\ zds.inPos = 0 /\ zds.outStart = 0 /\ zds.outEnd = 0 /\ ~ zds.hostageByte
      /\ zds.block = 0 /\ zds.expected = 0
      /\ Inside(zds) = have /\ PlainInside(zds) = 0 /\ KeptBack = 0
  BY <1>1, InHeader
<1>4. wants \in 0..whole /\ have < wants
  <2> HIDE DEF f, have
  <2> QED BY <1>2, <1>3, HeaderWanted
<1>5. room \in Nat /\ inPos \in Nat /\ inLen \in Nat
  BY DEF Ready
<1>6. n \in Nat /\ n <= room /\ have + n <= wants /\ have + n \in Nat /\ have \in Nat
  <2> HIDE DEF f, have, wants, room, whole
  <2> QED BY <1>3, <1>4, <1>5 DEF Smaller
<1>7. /\ y \in Zds
      /\ y.lhSize = have + n /\ y.streamStage = "loadHeader" /\ y.frame = zds.frame
      /\ y.inPos = 0 /\ y.outStart = 0 /\ y.outEnd = 0 /\ y.hostageByte = zds.hostageByte
      /\ y.block = 0 /\ y.expected = 0 /\ y.outBuffSize = zds.outBuffSize
  <2> DEFINE sum == have + n
  <2>1. sum \in Nat /\ y = [zds EXCEPT !.lhSize = sum]
    BY <1>2, <1>6
  <2> HIDE DEF sum, n, have, y, f, wants, room, whole
  <2>2. y \in Zds
    BY <1>1, <2>1 DEF Zds
  <2>3. /\ y.lhSize = sum /\ y.streamStage = "loadHeader" /\ y.frame = zds.frame
        /\ y.inPos = 0 /\ y.outStart = 0 /\ y.outEnd = 0 /\ y.hostageByte = zds.hostageByte
        /\ y.block = 0 /\ y.expected = 0 /\ y.outBuffSize = zds.outBuffSize
    BY <1>1, <1>3, <2>1 DEF Zds
  <2> QED BY <2>2, <2>3 DEF sum
<1>8. Frame(y) = f
  BY <1>7 DEF Frame
<1>9. have + n <= whole
  <2> HIDE DEF f, have, wants, room, whole, n
  <2> QED BY <1>3, <1>4, <1>6
<1>10. StageInv(y)
  <2>1. zds.frame \in 0..Len(archive) /\ zds.outBuffSize \in Nat
    BY <1>3, <1>1 DEF StageInv, Zds
  <2>2. y.lhSize <= WholeHeader(Frame(y))
    BY <1>7, <1>8, <1>9
  <2>3. /\ y.streamStage = "loadHeader" /\ y.outStart <= y.outEnd /\ y.outEnd <= y.outBuffSize
        /\ y.outStart = y.outEnd /\ y.frame \in 0..Len(archive) /\ y.frame > 0
        /\ y.outEnd = 0 /\ ~ y.hostageByte /\ y.block = 0 /\ y.expected = 0 /\ y.inPos = 0
    BY <1>3, <1>7, <2>1
  <2> HIDE DEF y
  <2> QED BY <2>2, <2>3 DEF StageInv
<1>11. CallInv'
  <2>1. call' \in {"out", "loop"}
    BY <1>2
  <2>2. call' = "out" => have + n < whole
    <3>1. call' = "out" => have + n < wants
      BY <1>2
    <3> HIDE DEF f, have, wants, room, whole, n
    <3> QED BY <1>3, <1>4, <1>6, <3>1
  <2>3. call' = "out" => zds'.lhSize < WholeHeader(Frame(zds)')
    <3>1. Frame(zds)' = f
      BY <1>1, <1>8, SameArchive
    <3> QED BY <1>7, <2>2, <3>1
  <2>4. WholeHeader(Frame(zds))' = WholeHeader(Frame(zds)')
    BY DEF WholeHeader, HeaderSize, FcsFieldSize
  <2> QED BY <1>7, <2>1, <2>3, <2>4 DEF CallInv, Pending
<1>12. Inside(y) = have + n /\ PlainInside(y) = 0
  <2> HIDE DEF y
  <2> QED BY <1>7 DEF Inside, PlainInside
<1>13. /\ Consumed(y) - Consumed(zds) = ((have + n) + 0) - (have + 0)
       /\ Produced(y) - Produced(zds) = 0 - 0
       /\ Consumed(zds) \in Nat /\ Consumed(y) \in Int /\ Produced(zds) \in Int /\ Produced(y) \in Int
  <2>1. /\ Inside(y) \in Int /\ PlainInside(y) \in Int /\ Inside(zds) = have /\ zds.inPos = 0
        /\ y.inPos = 0 /\ PlainInside(zds) = 0 /\ y.frame = zds.frame
    BY <1>3, <1>6, <1>7, <1>12
  <2> HIDE DEF y, have, n
  <2>2. /\ Consumed(y) - Consumed(zds) = (Inside(y) + y.inPos) - (Inside(zds) + zds.inPos)
        /\ Produced(y) - Produced(zds) = PlainInside(y) - PlainInside(zds)
        /\ Consumed(zds) \in Nat /\ Consumed(y) \in Int /\ Produced(zds) \in Int /\ Produced(y) \in Int
    BY <1>1, <1>3, <1>7, <2>1, Within
  <2> QED BY <1>12, <2>1, <2>2
<1>14. KeptBack' = 0
  BY <1>3, <1>7 DEF KeptBack
<1>15. FlushesInOrder'
  BY <1>7 DEF FlushesInOrder
<1>16. /\ inPos' \in 0..inLen /\ outLen' \in 0..DStreamOutSize
       /\ DOMAIN outBuff' = 1..y.outBuffSize /\ decoded' \in Nat
       /\ call' \in {"out", "loop", "result", "error"}
  <2>1. inPos' \in 0..inLen
    <3> HIDE DEF n
    <3> QED BY <1>2, <1>5, <1>6
  <2> QED BY <1>1, <1>2, <1>7, <2>1 DEF Ready
<1>17. Consumed(y) - inPos' - KeptBack' = Consumed(zds) - inPos - KeptBack
  <2> DEFINE cy == Consumed(y)
             cz == Consumed(zds)
  <2>1. /\ inPos' = inPos + n /\ cy \in Int /\ cz \in Nat /\ KeptBack = 0 /\ KeptBack' = 0
        /\ cy - cz = ((have + n) + 0) - (have + 0)
    BY <1>2, <1>3, <1>13, <1>14
  <2> HIDE DEF n, have, cy, cz
  <2>2. cy - inPos' - KeptBack' = cz - inPos - KeptBack
    BY <1>5, <1>6, <2>1
  <2> QED BY <2>2 DEF cy, cz
<1>18. /\ Produced(y) - decoded' = Produced(zds) - decoded
       /\ decoded' - outLen' - (y.outEnd - y.outStart)
            = decoded - outLen - (zds.outEnd - zds.outStart)
  <2>1. Produced(y) = Produced(zds)
    <3> DEFINE py == Produced(y)
               pz == Produced(zds)
    <3>1. py - pz = 0 - 0 /\ py \in Int /\ pz \in Int
      BY <1>13
    <3> HIDE DEF py, pz
    <3>2. py = pz
      BY <3>1
    <3> QED BY <3>2 DEF py, pz
  <2> QED BY <1>1, <1>3, <1>7, <2>1
<1> QED
  BY <1>7, <1>10, <1>11, <1>15, <1>16, <1>17, <1>18 DEF StepOk

\* A step inside a frame counts right when what it takes of the frame is what it takes
\* from the input, and what it makes of it is what it decodes.
Moved ==
  /\ archive \in Archives /\ zds \in Zds /\ StageInv(zds) /\ zds.frame > 0
  /\ zds' \in Zds /\ zds'.frame = zds.frame
  /\ Inside(zds') \in Int /\ PlainInside(zds') \in Int
  /\ inPos \in Int /\ inPos' \in Int /\ decoded \in Int /\ decoded' \in Int
  /\ KeptBack' \in Int /\ KeptBack \in Int
  /\ (Inside(zds') + zds'.inPos) - (Inside(zds) + zds.inPos)
       = (inPos' + KeptBack') - (inPos + KeptBack)
  /\ PlainInside(zds') - PlainInside(zds) = decoded' - decoded

LEMMA CountedStep ==
  ASSUME Moved
  PROVE  /\ Consumed(zds') - inPos' - KeptBack' = Consumed(zds) - inPos - KeptBack
         /\ Produced(zds') - decoded' = Produced(zds) - decoded
<1> DEFINE cy == Consumed(zds')
           cz == Consumed(zds)
           py == Produced(zds')
           pz == Produced(zds)
           k == KeptBack
           m == KeptBack'
           i == inPos
           j == inPos'
           d == decoded
           e == decoded'
<1>1. /\ cy - cz = (Inside(zds') + zds'.inPos) - (Inside(zds) + zds.inPos)
      /\ py - pz = PlainInside(zds') - PlainInside(zds)
      /\ cz \in Nat /\ cy \in Int /\ pz \in Int /\ py \in Int
  BY Within DEF Moved
<1>2. /\ cy - cz = (j + m) - (i + k) /\ py - pz = e - d
      /\ cz \in Int /\ cy \in Int /\ pz \in Int /\ py \in Int
      /\ i \in Int /\ j \in Int /\ k \in Int /\ m \in Int /\ d \in Int /\ e \in Int
  BY <1>1 DEF Moved
<1> HIDE DEF cy, cz, py, pz, k, m, i, j, d, e
<1>3. cy - j - m = cz - i - k /\ py - e = pz - d
  BY <1>2
<1> QED
  BY <1>3 DEF cy, cz, py, pz, k, m, i, j, d, e

LEMMA HeaderFailsStep ==
  ASSUME Ready, HeaderFails
  PROVE  StepOk
BY ErrorStep DEF HeaderFails, LoadingHeader, Looping, Ready

LEMMA SinglePassStep ==
  ASSUME Ready, SinglePass
  PROVE  StepOk
<1> DEFINE y == zds'
           f == Frame(zds)
           have == zds.lhSize
           size == FrameSize(f)
           plain == PlainSize(f)
<1>1. /\ archive' = archive /\ inLen' = inLen /\ istart' = istart
      /\ outBuff' = outBuff /\ call = "loop"
      /\ zds.streamStage = "loadHeader" /\ zds \in Zds /\ archive \in Archives
  BY DEF SinglePass, HeaderLoaded, LoadingHeader, Looping, Ready
<1>2. CASE ~ SinglePassSucceeds
  <2>1. call' = "error" /\ inPos' = inPos /\ outLen' = outLen /\ decoded' = decoded /\ zds' = zds
    BY <1>2 DEF SinglePass
  <2>2. inPos' \in 0..inLen
    BY <2>1 DEF Ready
  <2> QED BY <1>1, <2>1, <2>2, ErrorStep
<1>3. CASE SinglePassSucceeds
  <2>1. /\ inPos' = istart + size /\ outLen' = outLen + plain /\ decoded' = decoded + plain
        /\ y = [zds EXCEPT !.expected = 0, !.stage = "frameHeader", !.streamStage = "init"]
        /\ call' = "result"
    BY <1>3 DEF SinglePass
  <2>2. /\ DStreamOutSize - outLen >= plain /\ istart + have = inPos /\ inLen - istart >= size
    BY <1>3 DEF SinglePass, SinglePassPossible, SinglePassSucceeds, Room
  <2>3. /\ StageInv(zds) /\ zds.frame > 0 /\ f \in Frames /\ have \in Nat
        /\ zds.inPos = 0 /\ zds.outStart = 0 /\ zds.outEnd = 0 /\ ~ zds.hostageByte
        /\ Inside(zds) = have /\ PlainInside(zds) = 0 /\ KeptBack = 0
    <3>1. have \in Nat
      BY <1>1 DEF Zds
    <3> QED BY <1>1, <3>1, InHeader
  <2>4. size \in Nat /\ plain \in Nat
    <3> HIDE DEF f
    <3> QED BY <2>3, FrameSizeType
  <2>5. /\ y \in Zds
        /\ y.expected = 0 /\ y.stage = "frameHeader" /\ y.streamStage = "init"
        /\ y.frame = zds.frame /\ y.inPos = 0 /\ y.outStart = 0 /\ y.outEnd = 0
        /\ y.hostageByte = zds.hostageByte /\ y.outBuffSize = zds.outBuffSize
    <3> HIDE DEF y, f, have, size, plain
    <3>1. y \in Zds
      BY <1>1, <2>1 DEF Zds
    <3>2. /\ y.expected = 0 /\ y.stage = "frameHeader" /\ y.streamStage = "init"
          /\ y.frame = zds.frame /\ y.inPos = 0 /\ y.outStart = 0 /\ y.outEnd = 0
          /\ y.hostageByte = zds.hostageByte /\ y.outBuffSize = zds.outBuffSize
      BY <1>1, <2>1, <2>3 DEF Zds
    <3> QED BY <3>1, <3>2
  <2>6. Frame(y) = f /\ InFrame(y)
    BY <2>5 DEF Frame, InFrame
  <2>7. StageInv(y)
    <3>1. zds.frame \in 0..Len(archive) /\ zds.outBuffSize \in Nat /\ zds.frame # 0
      BY <1>1, <2>3 DEF StageInv, Zds
    <3>2. /\ y.streamStage = "init" /\ y.outStart <= y.outEnd /\ y.outEnd <= y.outBuffSize
          /\ y.outStart = y.outEnd /\ y.frame \in 0..Len(archive) /\ y.frame # 0
          /\ ~ y.hostageByte /\ y.expected = 0 /\ y.inPos = 0
      BY <2>3, <2>5, <3>1
    <3> HIDE DEF y
    <3> QED BY <2>6, <3>2 DEF StageInv
  <2>8. Inside(y) = size /\ PlainInside(y) = plain
    <3> HIDE DEF y, f
    <3> QED BY <2>5, <2>6 DEF Inside, PlainInside
  <2>9. KeptBack' = 0
    BY <2>3, <2>5 DEF KeptBack
  <2>10. CallInv'
    BY <2>1, <2>5 DEF CallInv, Pending
  <2>11. FlushesInOrder'
    BY <2>5 DEF FlushesInOrder
  <2>12. /\ inPos \in Nat /\ inLen \in Nat /\ istart \in Nat /\ decoded \in Nat
         /\ outLen \in Nat /\ DStreamOutSize \in Nat
    BY DEF Ready
  <2>13. inPos' \in 0..inLen /\ outLen' \in 0..DStreamOutSize /\ decoded' \in Nat
    <3> HIDE DEF size, plain, have
    <3> QED BY <2>1, <2>2, <2>3, <2>4, <2>12
  <2>14. Moved
    <3>1. /\ inPos' - inPos = (size + 0) - (have + 0) /\ decoded' - decoded = plain - 0
          /\ inPos' \in Int /\ decoded' \in Int
      <4> HIDE DEF size, plain, have
      <4> QED BY <2>1, <2>2, <2>3, <2>4, <2>12
    <3>2. (inPos' + KeptBack') - (inPos + KeptBack) = inPos' - inPos
      BY <2>3, <2>9, <2>12, <3>1
    <3>3. /\ (Inside(y) + y.inPos) - (Inside(zds) + zds.inPos) = (size + 0) - (have + 0)
          /\ PlainInside(y) - PlainInside(zds) = plain - 0
      BY <2>3, <2>5, <2>8
    <3>4. /\ (Inside(y) + y.inPos) - (Inside(zds) + zds.inPos)
               = (inPos' + KeptBack') - (inPos + KeptBack)
          /\ PlainInside(y) - PlainInside(zds) = decoded' - decoded
      BY <3>1, <3>2, <3>3
    <3>5. Inside(y) \in Int /\ PlainInside(y) \in Int
      <4> HIDE DEF y, size, plain
      <4> QED BY <2>4, <2>8
    <3>6. inPos \in Int /\ decoded \in Int /\ KeptBack \in Int /\ KeptBack' \in Int
      BY <2>3, <2>9, <2>12
    <3> QED BY <1>1, <2>3, <2>5, <3>1, <3>4, <3>5, <3>6 DEF Moved
  <2>15. decoded' - outLen' - (y.outEnd - y.outStart)
           = decoded - outLen - (zds.outEnd - zds.outStart)
    <3>1. y.outEnd = 0 /\ y.outStart = 0 /\ zds.outEnd = 0 /\ zds.outStart = 0
      BY <2>3, <2>5
    <3> HIDE DEF plain, y
    <3> QED BY <2>1, <2>4, <2>12, <3>1
  <2>16. DOMAIN outBuff' = 1..y.outBuffSize
    BY <1>1, <2>5 DEF Ready
  <2> QED
    BY <2>1, <2>5, <2>7, <2>10, <2>11, <2>13, <2>14, <2>15, <2>16, CountedStep DEF StepOk
<1> QED
  BY <1>2, <1>3

LEMMA Sized ==
  ASSUME NEW window \in Nat, NEW fcs \in Nat \cup {Unknown}
  PROVE  DecodingBufferSize(window, fcs) \in Nat
<1> DEFINE least == Smaller(window, BlockSizeMax)
           over == 2 * OverLength
           needed == window + least + over
<1>1. BlockSizeMax \in Nat /\ OverLength \in Nat
  BY ZstdAssumption
<1>2. least \in Nat /\ over \in Nat
  BY <1>1 DEF Smaller
<1>3. needed \in Nat
  <2> HIDE DEF least, over
  <2> QED BY <1>2
<1>4. DecodingBufferSize(window, fcs) = IF fcs = Unknown THEN needed ELSE Smaller(fcs, needed)
  BY DEF DecodingBufferSize
<1> HIDE DEF needed
<1>5. CASE fcs = Unknown
  BY <1>3, <1>4, <1>5
<1>6. CASE fcs # Unknown
  <2>1. fcs \in Nat
    BY <1>6
  <2>2. Smaller(fcs, needed) \in Nat
    BY <1>3, <2>1 DEF Smaller
  <2> QED BY <1>4, <1>6, <2>2
<1> QED
  BY <1>5, <1>6

Begun(z, stage, expected, window, oversized, inSize, outSize) ==
  [DecompressBegin(z) EXCEPT
     !.streamStage = "read", !.stage = stage, !.expected = expected,
     !.window = window, !.oversized = oversized, !.inBuffSize = inSize, !.outBuffSize = outSize]

AreBegun(stage, expected, window, oversized, inSize, outSize) ==
  /\ stage \in Stages /\ expected \in Nat /\ window \in Nat
  /\ oversized \in Nat /\ inSize \in Nat /\ outSize \in Nat

LEMMA BegunRest ==
  ASSUME NEW z \in Zds,
         NEW stage, NEW expected, NEW window, NEW oversized, NEW inSize, NEW outSize,
         AreBegun(stage, expected, window, oversized, inSize, outSize),
         NEW y, y = Begun(z, stage, expected, window, oversized, inSize, outSize)
  PROVE  /\ y \in Zds
         /\ y.streamStage = "read" /\ y.stage = stage /\ y.expected = expected
         /\ y.frame = z.frame /\ y.block = z.block /\ y.inPos = z.inPos
         /\ y.outStart = z.outStart /\ y.outEnd = z.outEnd
         /\ y.hostageByte = z.hostageByte /\ y.outBuffSize = outSize
<1> DEFINE b == DecompressBegin(z)
<1>1. b \in Zds
  <2> DEFINE null == 0
             c == [z EXCEPT !.expected = 5, !.stage = "frameHeader", !.decodedSize = 0]
             d == [c EXCEPT !.previousDstEnd = null, !.prefixStart = null,
                            !.virtualStart = null, !.dictEnd = null]
  <2>1. c \in Zds
    BY DEF Zds
  <2>2. d \in Zds
    <3>1. null \in Int
      OBVIOUS
    <3> HIDE DEF c, null
    <3> QED BY <2>1, <3>1 DEF Zds
  <2>3. d = b
    BY DEF DecompressBegin, PrefixSize
  <2> QED BY <2>2, <2>3
<1>2. /\ b.frame = z.frame /\ b.block = z.block /\ b.inPos = z.inPos
      /\ b.outStart = z.outStart /\ b.outEnd = z.outEnd /\ b.hostageByte = z.hostageByte
  BY DEF DecompressBegin, Zds
<1>3. y = [b EXCEPT
             !.streamStage = "read", !.stage = stage, !.expected = expected,
             !.window = window, !.oversized = oversized, !.inBuffSize = inSize,
             !.outBuffSize = outSize]
  BY DEF Begun
<1> HIDE DEF b
<1>0. /\ stage \in Stages /\ expected \in Nat /\ window \in Nat
      /\ oversized \in Nat /\ inSize \in Nat /\ outSize \in Nat
  BY DEF AreBegun
<1>4. y \in Zds
  <2> DEFINE c == [b EXCEPT !.streamStage = "read", !.stage = stage, !.expected = expected]
             d == [c EXCEPT !.window = window, !.oversized = oversized,
                            !.inBuffSize = inSize, !.outBuffSize = outSize]
  <2>1. c \in Zds
    BY <1>0, <1>1 DEF Zds, Stages
  <2>2. d \in Zds
    <3> HIDE DEF c
    <3> QED BY <1>0, <2>1 DEF Zds
  <2>3. d = y
    BY <1>3
  <2> QED BY <2>2, <2>3
<1>5. /\ y.streamStage = "read" /\ y.stage = stage /\ y.expected = expected
      /\ y.outBuffSize = outSize
  BY <1>1, <1>3 DEF Zds
<1>6. /\ y.frame = b.frame /\ y.block = b.block /\ y.inPos = b.inPos
      /\ y.outStart = b.outStart /\ y.outEnd = b.outEnd /\ y.hostageByte = b.hostageByte
  BY <1>1, <1>3 DEF Zds
<1> QED
  BY <1>2, <1>4, <1>5, <1>6

LEMMA ConsumeHeaderStep ==
  ASSUME Ready, ConsumeHeader
  PROVE  StepOk
<1> DEFINE y == zds'
           f == Frame(zds)
           skips == f.kind = "skippable"
           have == zds.lhSize
           window == Larger(IF skips THEN 0 ELSE f.window, MinWindow)
           needIn == Larger(IF skips THEN 0 ELSE MaxBlock(f), ChecksumSize)
           needOut == IF skips
                        THEN DecodingBufferSize(window, f.skip)
                        ELSE DecodingBufferSize(window, f.fcs)
           oversized == OversizedDuration(zds, needIn, needOut)
           resize == \/ zds.inBuffSize < needIn \/ zds.outBuffSize < needOut
                     \/ oversized >= MaxOversized
           stage == IF skips THEN "skipFrame" ELSE "blockHeader"
           expected == IF skips THEN f.skip ELSE BlockHeaderSize
           inSize == IF resize THEN needIn ELSE zds.inBuffSize
           outSize == IF resize THEN needOut ELSE zds.outBuffSize
<1>1. /\ archive' = archive /\ inLen' = inLen /\ inPos' = inPos /\ outLen' = outLen
      /\ decoded' = decoded /\ call = "loop" /\ call' = call
      /\ zds.streamStage = "loadHeader" /\ zds \in Zds /\ archive \in Archives
      /\ HeaderWants(f, have) = 0
  BY DEF ConsumeHeader, HeaderLoaded, LoadingHeader, Looping, Ready
<1>2. y = Begun(zds, stage, expected, window, oversized, inSize, outSize)
  <2>1. y = [DecompressBegin(zds) EXCEPT
               !.streamStage = "read", !.stage = stage, !.expected = expected,
               !.window = window, !.oversized = oversized,
               !.inBuffSize = IF resize THEN needIn ELSE @,
               !.outBuffSize = IF resize THEN needOut ELSE @]
    BY DEF ConsumeHeader
  <2>2. DecompressBegin(zds).inBuffSize = zds.inBuffSize
        /\ DecompressBegin(zds).outBuffSize = zds.outBuffSize
    BY <1>1 DEF DecompressBegin, Zds
  <2> HIDE DEF stage, expected, window, oversized, resize, needIn, needOut, y
  <2> QED BY <2>1, <2>2 DEF Begun
<1>3. outBuff' = IF resize THEN [a \in 1..needOut |-> 0] ELSE outBuff
  BY DEF ConsumeHeader
<1>4. /\ StageInv(zds) /\ zds.frame > 0 /\ f \in Frames /\ have \in 0..WholeHeader(f)
      /\ zds.inPos = 0 /\ zds.outStart = 0 /\ zds.outEnd = 0 /\ ~ zds.hostageByte
      /\ zds.block = 0 /\ zds.expected = 0
      /\ Inside(zds) = have /\ PlainInside(zds) = 0 /\ KeptBack = 0
  BY <1>1, InHeader
<1>5. have = WholeHeader(f)
  <2> HIDE DEF f, have
  <2> QED BY <1>1, <1>4, HeaderWanted
<1>6. \/ skips /\ f.skip \in Nat
      \/ ~ skips /\ f \in ZstdFrames /\ f.kind = "zstd"
  <2> HIDE DEF f
  <2> QED BY <1>4, FrameKinds DEF f
<1>7. ~ skips => f.window \in Nat /\ f.fcs \in Nat \cup {Unknown}
  <2> HIDE DEF f
  <2> QED BY <1>6 DEF ZstdFrames
<1>8. window \in Nat /\ needIn \in Nat
  <2>1. BlockSizeMax \in Nat /\ MinWindow \in Nat
    BY ZstdAssumption
  <2>2. (IF skips THEN 0 ELSE f.window) \in Nat
    BY <1>7
  <2>3. (IF skips THEN 0 ELSE MaxBlock(f)) \in Nat
    BY <1>7, <2>1 DEF MaxBlock, Smaller
  <2> QED BY <2>1, <2>2, <2>3 DEF Larger, ChecksumSize
<1>9. needOut \in Nat
  <2> HIDE DEF f, window
  <2> QED BY <1>6, <1>7, <1>8, Sized
<1>10. oversized \in Nat
  <2> HIDE DEF needIn, needOut
  <2> QED BY <1>1 DEF OversizedDuration, Zds
<1>11. inSize \in Nat /\ outSize \in Nat
  <2> HIDE DEF needIn, needOut, resize
  <2> QED BY <1>1, <1>8, <1>9 DEF Zds
<1>12. stage \in Stages /\ expected \in Nat
  BY <1>6 DEF Stages, BlockHeaderSize
<1>13. /\ y \in Zds
       /\ y.streamStage = "read" /\ y.stage = stage /\ y.expected = expected
       /\ y.frame = zds.frame /\ y.block = 0 /\ y.inPos = 0
       /\ y.outStart = 0 /\ y.outEnd = 0
       /\ y.hostageByte = zds.hostageByte /\ y.outBuffSize = outSize
  <2> HIDE DEF y, stage, expected, window, oversized, inSize, outSize
  <2>1. /\ y \in Zds
        /\ y.streamStage = "read" /\ y.stage = stage /\ y.expected = expected
        /\ y.frame = zds.frame /\ y.block = zds.block /\ y.inPos = zds.inPos
        /\ y.outStart = zds.outStart /\ y.outEnd = zds.outEnd
        /\ y.hostageByte = zds.hostageByte /\ y.outBuffSize = outSize
    <3>1. AreBegun(stage, expected, window, oversized, inSize, outSize)
      BY <1>8, <1>10, <1>11, <1>12 DEF AreBegun
    <3> QED BY <1>1, <1>2, <3>1, BegunRest
  <2> QED BY <1>4, <2>1
<1> HIDE DEF window, oversized, inSize, outSize, needIn, y
<1>14. Frame(y) = f
  BY <1>13 DEF Frame
<1>15. InFrame(y) /\ Inside(y) = have /\ PlainInside(y) = 0
  <2>1. CASE skips
    <3>1. f.skip \in Nat /\ y.stage = "skipFrame" /\ y.expected = f.skip /\ f.kind = "skippable"
      BY <1>6, <1>13, <2>1
    <3>2. have = 8 /\ FrameSize(f) = 8 + f.skip /\ PlainSize(f) = 0
      <4> HIDE DEF f, have
      <4> QED BY <1>5, <3>1 DEF WholeHeader, FrameSize, PlainSize, SkipHeaderSize
    <3>3. Inside(y) = (IF f.skip = 0 THEN 8 + f.skip ELSE 8) /\ PlainInside(y) = 0
      <4> HIDE DEF f, have
      <4> QED BY <1>13, <1>14, <3>1, <3>2 DEF Inside, PlainInside, SkipHeaderSize
    <3> HIDE DEF f, have
    <3> QED BY <1>14, <3>1, <3>2, <3>3 DEF InFrame
  <2>2. CASE ~ skips
    <3>1. f \in ZstdFrames /\ y.stage = "blockHeader" /\ y.expected = 3 /\ f.kind = "zstd"
      BY <1>6, <1>13, <2>2 DEF BlockHeaderSize
    <3> DEFINE head == HeaderSize(f)
    <3>2. have = head /\ head \in Nat
      <4> HIDE DEF f, have
      <4> QED BY <1>5, <3>1, HeaderSizes
    <3>3. BlockSizes(f, 0) = 0 /\ BlockPlains(f, 0) = 0 /\ Len(f.blocks) \in Nat \ {0}
      <4> HIDE DEF f
      <4> QED BY <3>1, BlockSums
    <3>4. Inside(y) = head + BlockSizes(f, 0) - 0 /\ PlainInside(y) = BlockPlains(f, 0) - 0
      <4> HIDE DEF f, have
      <4> QED BY <1>13, <1>14, <3>1 DEF Inside, PlainInside
    <3>5. Inside(y) = have /\ PlainInside(y) = 0
      <4> HIDE DEF head, have, f
      <4> QED BY <3>2, <3>3, <3>4
    <3>6. 0 < Len(f.blocks)
      <4> HIDE DEF f
      <4> QED BY <3>3
    <3> HIDE DEF f, have
    <3> QED BY <1>13, <1>14, <3>1, <3>5, <3>6 DEF InFrame, BlockHeaderSize
  <2> QED BY <2>1, <2>2
<1>16. DOMAIN outBuff' = 1..y.outBuffSize
  <2>1. DOMAIN outBuff = 1..zds.outBuffSize
    BY DEF Ready
  <2> HIDE DEF resize, needOut
  <2> QED BY <1>3, <1>13, <2>1 DEF outSize
<1>17. StageInv(y)
  <2>1. zds.frame \in 0..Len(archive)
    BY <1>4 DEF StageInv
  <2>2. 0 <= y.outBuffSize
    <3>1. y.outBuffSize \in Nat
      BY <1>11, <1>13
    <3> QED BY <3>1
  <2>3. /\ y.streamStage = "read" /\ y.outStart = y.outEnd /\ y.outStart <= y.outEnd
        /\ y.outEnd <= y.outBuffSize
        /\ y.frame \in 0..Len(archive) /\ y.frame > 0 /\ ~ y.hostageByte /\ y.inPos = 0
    BY <1>4, <1>13, <2>1, <2>2
  <2> QED BY <1>15, <2>3 DEF StageInv
<1>18. zds'.streamStage = "read" /\ zds'.outStart = zds'.outEnd /\ ~ zds'.hostageByte
  BY <1>4, <1>13 DEF y
<1>19. CallInv' /\ KeptBack' = 0 /\ FlushesInOrder'
  BY <1>1, <1>18 DEF CallInv, Pending, KeptBack, FlushesInOrder
<1>20. inPos \in Nat /\ decoded \in Nat /\ have \in Nat
  <2>1. have \in Nat
    BY <1>1 DEF Zds
  <2> QED BY <2>1 DEF Ready
<1>21. Moved
  <2>1. /\ (Inside(y) + y.inPos) - (Inside(zds) + zds.inPos)
             = (inPos' + KeptBack') - (inPos + KeptBack)
        /\ PlainInside(y) - PlainInside(zds) = decoded' - decoded
        /\ Inside(y) \in Int /\ PlainInside(y) \in Int
    <3> HIDE DEF have
    <3> QED BY <1>1, <1>4, <1>13, <1>15, <1>19, <1>20
  <2>2. inPos \in Int /\ inPos' \in Int /\ decoded \in Int /\ decoded' \in Int
        /\ KeptBack \in Int /\ KeptBack' \in Int
    BY <1>1, <1>4, <1>19, <1>20
  <2> QED BY <1>1, <1>4, <1>13, <2>1, <2>2 DEF Moved, y
<1>22. /\ decoded' - outLen' - (y.outEnd - y.outStart)
            = decoded - outLen - (zds.outEnd - zds.outStart)
       /\ inPos' \in 0..inLen /\ outLen' \in 0..DStreamOutSize /\ decoded' \in Nat
       /\ call' \in {"out", "loop", "result", "error"}
  BY <1>1, <1>4, <1>13 DEF Ready
<1> QED
  BY <1>13, <1>16, <1>17, <1>19, <1>21, <1>22, CountedStep DEF StepOk, y

\* The decoder in the same place of a frame.
SamePlace(y, z) ==
  /\ y.frame = z.frame /\ y.stage = z.stage /\ y.block = z.block /\ y.expected = z.expected
  /\ y.hostageByte = z.hostageByte /\ y.outBuffSize = z.outBuffSize
  /\ y.inBuffSize = z.inBuffSize

LEMMA PlaceDecides ==
  ASSUME NEW z, NEW y, SamePlace(y, z),
         z.streamStage # "loadHeader", y.streamStage # "loadHeader"
  PROVE  /\ Inside(y) = Inside(z) /\ PlainInside(y) = PlainInside(z)
         /\ Frame(y) = Frame(z) /\ (InFrame(y) <=> InFrame(z))
<1>1. Frame(y) = Frame(z)
  BY DEF Frame, SamePlace
<1> QED
  BY <1>1 DEF Inside, PlainInside, InFrame, SamePlace

\* The decoder in a frame.
LEMMA InTheFrame ==
  ASSUME Ready, zds.streamStage \in {"read", "load", "flush"}
  PROVE  /\ archive \in Archives /\ zds \in Zds /\ StageInv(zds) /\ zds.frame > 0
         /\ InFrame(zds) /\ Frame(zds) \in Frames
         /\ Inside(zds) \in Nat /\ PlainInside(zds) \in Int
         /\ zds.frame \in 0..Len(archive) /\ zds.outEnd <= zds.outBuffSize
         /\ zds.outStart <= zds.outEnd /\ zds.outStart \in Nat /\ zds.outEnd \in Nat
         /\ zds.outBuffSize \in Nat /\ zds.inBuffSize \in Nat /\ zds.inPos \in Nat
         /\ zds.expected \in Nat /\ zds.stage \in Stages /\ zds.hostageByte \in BOOLEAN
         /\ inPos \in Nat /\ inLen \in Nat /\ inPos <= inLen /\ decoded \in Nat /\ outLen \in Nat
         /\ DStreamOutSize \in Nat /\ outLen <= DStreamOutSize
         /\ KeptBack = IF zds.hostageByte THEN 1 ELSE 0
         /\ zds.hostageByte => zds.expected = 0
<1>1. archive \in Archives /\ zds \in Zds /\ StageInv(zds) /\ zds.frame \in Nat
  BY DEF Ready, Zds
<1>2. /\ zds.frame > 0 /\ InFrame(zds) /\ zds.frame \in 0..Len(archive)
      /\ zds.outEnd <= zds.outBuffSize /\ zds.outStart <= zds.outEnd
      /\ zds.hostageByte => zds.expected = 0
  BY <1>1 DEF StageInv
<1>3. Frame(zds) \in Frames
  BY <1>1, <1>2, FrameIs
<1>4. Inside(zds) \in Nat /\ PlainInside(zds) \in Int
  BY <1>1, <1>2, InsideType
<1>5. /\ zds.outStart \in Nat /\ zds.outEnd \in Nat /\ zds.outBuffSize \in Nat
      /\ zds.inBuffSize \in Nat /\ zds.inPos \in Nat
      /\ zds.expected \in Nat /\ zds.stage \in Stages /\ zds.hostageByte \in BOOLEAN
  BY <1>1 DEF Zds, Stages
<1>6. /\ inPos \in Nat /\ inLen \in Nat /\ inPos <= inLen /\ decoded \in Nat /\ outLen \in Nat
      /\ DStreamOutSize \in Nat /\ outLen <= DStreamOutSize
  BY DEF Ready
<1>7. KeptBack = IF zds.hostageByte THEN 1 ELSE 0
  BY DEF KeptBack
<1> QED
  BY <1>1, <1>2, <1>3, <1>4, <1>5, <1>6, <1>7

\* A step that stays in its place of a frame, and takes or makes nothing.
LEMMA StayingStep ==
  ASSUME Ready, zds.streamStage \in {"read", "load", "flush"},
         zds' \in Zds, SamePlace(zds', zds), zds'.streamStage # "loadHeader",
         zds'.inPos \in Nat, inPos' \in Nat, decoded' = decoded,
         inPos' - inPos = zds'.inPos - zds.inPos, KeptBack' = KeptBack
  PROVE  Moved
<1>1. /\ archive \in Archives /\ zds \in Zds /\ StageInv(zds) /\ zds.frame > 0
      /\ Inside(zds) \in Nat /\ PlainInside(zds) \in Int /\ zds.inPos \in Nat
      /\ inPos \in Nat /\ decoded \in Nat /\ KeptBack \in {0, 1}
  BY InTheFrame
<1>2. Inside(zds') = Inside(zds) /\ PlainInside(zds') = PlainInside(zds) /\ zds'.frame = zds.frame
  BY PlaceDecides DEF SamePlace
<1> DEFINE i == Inside(zds)
           p == PlainInside(zds)
           a == zds.inPos
           b == zds'.inPos
           k == KeptBack
           n == inPos
           m == inPos'
           d == decoded
<1>3. /\ i \in Nat /\ p \in Int /\ a \in Nat /\ b \in Nat /\ k \in {0, 1}
      /\ m - n = b - a /\ m \in Nat /\ n \in Nat /\ d \in Nat
  BY <1>1
<1>4. (i + b) - (i + a) = (m + k) - (n + k) /\ p - p = d - d
  <2> HIDE DEF i, p, a, b, k, m, n, d
  <2>1. k \in Int
    BY <1>3
  <2> QED BY <1>3, <2>1
<1>5. /\ (Inside(zds') + zds'.inPos) - (Inside(zds) + zds.inPos)
           = (inPos' + KeptBack') - (inPos + KeptBack)
      /\ PlainInside(zds') - PlainInside(zds) = decoded' - decoded
  BY <1>2, <1>4
<1>6. /\ Inside(zds') \in Int /\ PlainInside(zds') \in Int
      /\ inPos \in Int /\ inPos' \in Int /\ decoded \in Int /\ decoded' \in Int
      /\ KeptBack' \in Int /\ KeptBack \in Int
  BY <1>1, <1>2
<1> QED
  BY <1>1, <1>2, <1>5, <1>6 DEF Moved

LEMMA ReadEndStep ==
  ASSUME Ready, ReadEnd
  PROVE  StepOk
<1> DEFINE y == zds'
<1>1. /\ archive' = archive /\ inLen' = inLen /\ inPos' = inPos /\ outLen' = outLen
      /\ outBuff' = outBuff /\ decoded' = decoded /\ call' = "result" /\ call = "loop"
      /\ zds.streamStage = "read" /\ zds.expected = 0
      /\ y = [zds EXCEPT !.streamStage = "init"] /\ zds \in Zds
  BY DEF ReadEnd, Looping, Ready
<1>2. /\ zds.frame > 0 /\ StageInv(zds) /\ InFrame(zds) /\ zds.frame \in 0..Len(archive)
      /\ zds.outEnd <= zds.outBuffSize /\ zds.outStart <= zds.outEnd
      /\ inPos \in Nat /\ decoded \in Nat /\ zds.inPos \in Nat
      /\ KeptBack = IF zds.hostageByte THEN 1 ELSE 0
  BY <1>1, InTheFrame
<1>3. zds.outStart = zds.outEnd /\ zds.inPos = 0
  BY <1>1, <1>2 DEF StageInv
<1>4. /\ y \in Zds /\ SamePlace(y, zds) /\ y.streamStage = "init" /\ y.inPos = zds.inPos
      /\ y.outStart = zds.outStart /\ y.outEnd = zds.outEnd
  <2>1. y \in Zds
    BY <1>1 DEF Zds
  <2>2. SamePlace(y, zds)
    BY <1>1 DEF Zds, SamePlace
  <2>3. y.streamStage = "init" /\ y.inPos = zds.inPos /\ y.outStart = zds.outStart
        /\ y.outEnd = zds.outEnd
    BY <1>1 DEF Zds
  <2> QED BY <2>1, <2>2, <2>3
<1> HIDE DEF y
<1>5. InFrame(y)
  BY <1>1, <1>2, <1>4, PlaceDecides
<1>6. StageInv(y)
  <2>1. /\ y.frame \in 0..Len(archive) /\ y.outEnd <= y.outBuffSize /\ y.outStart = y.outEnd
        /\ y.outStart <= y.outEnd /\ y.inPos = 0 /\ y.frame > 0 /\ y.expected = 0
        /\ y.streamStage = "init"
    BY <1>1, <1>2, <1>3, <1>4 DEF SamePlace
  <2>2. y.frame # 0
    BY <1>2, <1>4 DEF SamePlace
  <2> QED BY <1>5, <2>1, <2>2 DEF StageInv
<1>7. KeptBack' = KeptBack
  BY <1>1, <1>2, <1>4 DEF KeptBack, SamePlace, y
<1>8. CallInv' /\ FlushesInOrder'
  <2>1. zds'.streamStage = "init" /\ zds'.outStart = zds'.outEnd
    BY <1>3, <1>4 DEF y
  <2> QED BY <1>1, <2>1 DEF CallInv, Pending, FlushesInOrder
<1>9. Moved
  <2>1. inPos' - inPos = zds'.inPos - zds.inPos /\ zds'.inPos \in Nat
    BY <1>1, <1>2, <1>3, <1>4 DEF y
  <2> QED BY <1>1, <1>2, <1>4, <1>7, <2>1, StayingStep DEF y
<1>10. /\ inPos' \in 0..inLen /\ outLen' \in 0..DStreamOutSize
       /\ DOMAIN outBuff' = 1..y.outBuffSize /\ decoded' \in Nat
       /\ call' \in {"out", "loop", "result", "error"}
  BY <1>1, <1>4 DEF Ready, SamePlace
<1>11. decoded' - outLen' - (y.outEnd - y.outStart)
         = decoded - outLen - (zds.outEnd - zds.outStart)
  BY <1>1, <1>4
<1> QED
  BY <1>4, <1>6, <1>8, <1>9, <1>10, <1>11, CountedStep DEF StepOk, y

\* The decoder stays in its place: what is left to show is where its buffers stand.
LEMMA StayingOk ==
  ASSUME Ready, zds.streamStage \in {"read", "load", "flush"},
         archive' = archive, inLen' = inLen, outBuff' = outBuff, decoded' = decoded,
         zds' \in Zds, SamePlace(zds', zds), zds'.streamStage \in {"read", "load", "flush"},
         zds'.outStart <= zds'.outEnd, zds'.outEnd <= zds'.outBuffSize,
         zds'.streamStage # "flush" => zds'.outStart = zds'.outEnd,
         zds'.streamStage = "load" =>
           zds'.inPos < zds'.expected /\ (zds'.stage # "skipFrame" => zds'.inPos <= zds'.inBuffSize),
         zds'.streamStage # "load" => zds'.inPos = 0,
         inPos' \in 0..inLen, outLen' \in 0..DStreamOutSize,
         inPos' - inPos = zds'.inPos - zds.inPos,
         (zds'.outEnd - zds'.outStart) + outLen' = (zds.outEnd - zds.outStart) + outLen,
         call' \in {"loop", "result"},
         call' = "result" => zds'.expected > 0 \/ Pending(zds'),
         zds'.expected = 0 /\ Pending(zds') => zds'.hostageByte \/ inPos' > 0,
         FlushesInOrder'
  PROVE  StepOk
<1>1. /\ archive \in Archives /\ zds.frame > 0 /\ InFrame(zds) /\ zds.frame \in 0..Len(archive)
      /\ zds.hostageByte => zds.expected = 0
      /\ decoded \in Nat /\ outLen \in Nat /\ DStreamOutSize \in Nat /\ inLen \in Nat
      /\ KeptBack = IF zds.hostageByte THEN 1 ELSE 0
      /\ zds.outStart \in Nat /\ zds.outEnd \in Nat
  BY InTheFrame
<1>2. InFrame(zds')
  BY <1>1, PlaceDecides
<1>3. KeptBack' = KeptBack
  BY <1>1 DEF KeptBack, SamePlace
<1>4. StageInv(zds')
  <2>1. zds'.frame > 0 /\ zds'.frame \in 0..Len(archive)
        /\ (zds'.hostageByte => zds'.expected = 0)
    BY <1>1 DEF SamePlace
  <2> QED BY <1>2, <2>1 DEF StageInv
<1>5. CallInv'
  BY DEF CallInv, Pending
<1>6. zds'.inPos \in Nat /\ zds'.outStart \in Nat /\ zds'.outEnd \in Nat
  BY DEF Zds
<1>7. inPos' \in Nat /\ outLen' \in Nat
  BY <1>1
<1>8. Moved
  BY <1>3, <1>6, <1>7, StayingStep
<1>9. decoded' - outLen' - (zds'.outEnd - zds'.outStart)
        = decoded - outLen - (zds.outEnd - zds.outStart)
  <2> DEFINE a == zds'.outEnd
             b == zds'.outStart
             c == zds.outEnd
             d == zds.outStart
             o == outLen
             q == outLen'
             e == decoded
  <2>1. /\ a \in Nat /\ b \in Nat /\ c \in Nat /\ d \in Nat /\ o \in Nat /\ q \in Nat /\ e \in Nat
        /\ (a - b) + q = (c - d) + o
    BY <1>1, <1>6, <1>7
  <2> HIDE DEF a, b, c, d, o, q, e
  <2>2. e - q - (a - b) = e - o - (c - d)
    BY <2>1
  <2> QED BY <2>2 DEF a, b, c, d, o, q, e
<1>10. DOMAIN outBuff' = 1..zds'.outBuffSize /\ decoded' \in Nat
  BY <1>1 DEF Ready, SamePlace
<1> QED
  BY <1>4, <1>5, <1>8, <1>9, <1>10, CountedStep DEF StepOk

LEMMA ReadShortStep ==
  ASSUME Ready, ReadShort
  PROVE  StepOk
<1> DEFINE y == zds'
<1>1. /\ archive' = archive /\ inLen' = inLen /\ inPos' = inPos /\ outLen' = outLen
      /\ outBuff' = outBuff /\ decoded' = decoded /\ call = "loop"
      /\ zds.streamStage = "read" /\ zds.expected > 0 /\ zds \in Zds
      /\ \/ call' = "result" /\ y = zds
         \/ call' = call /\ y = [zds EXCEPT !.streamStage = "load"]
  BY DEF ReadShort, Looping, Ready
<1>2. /\ StageInv(zds) /\ zds.outEnd <= zds.outBuffSize /\ zds.outStart <= zds.outEnd
      /\ zds.inBuffSize \in Nat /\ zds.expected \in Nat
      /\ inPos \in 0..inLen /\ outLen \in 0..DStreamOutSize /\ inPos \in Nat
  BY <1>1, InTheFrame DEF Ready
<1>3. zds.outStart = zds.outEnd /\ zds.inPos = 0
  BY <1>1, <1>2 DEF StageInv
<1>4. /\ y \in Zds /\ SamePlace(y, zds) /\ y.streamStage \in {"read", "load"}
      /\ y.inPos = 0 /\ y.outStart = zds.outStart /\ y.outEnd = zds.outEnd
  <2>1. CASE y = zds
    BY <1>1, <1>3, <2>1 DEF SamePlace
  <2>2. CASE y = [zds EXCEPT !.streamStage = "load"]
    <3>1. y \in Zds
      BY <1>1, <2>2 DEF Zds
    <3>2. SamePlace(y, zds)
      BY <1>1, <2>2 DEF Zds, SamePlace
    <3>3. y.streamStage = "load" /\ y.inPos = 0 /\ y.outStart = zds.outStart
          /\ y.outEnd = zds.outEnd
      BY <1>1, <1>3, <2>2 DEF Zds
    <3> QED BY <3>1, <3>2, <3>3
  <2> QED BY <1>1, <2>1, <2>2
<1>5. FlushesInOrder'
  BY <1>4 DEF FlushesInOrder
<1>6. /\ y.outStart <= y.outEnd /\ y.outEnd <= y.outBuffSize /\ y.outStart = y.outEnd
      /\ y.inPos < y.expected /\ y.inPos <= y.inBuffSize /\ y.expected > 0
      /\ ~ Pending(y)
  BY <1>1, <1>2, <1>3, <1>4 DEF SamePlace, Pending
<1>7. /\ inPos' - inPos = y.inPos - zds.inPos
      /\ (y.outEnd - y.outStart) + outLen' = (zds.outEnd - zds.outStart) + outLen
      /\ inPos' \in 0..inLen /\ outLen' \in 0..DStreamOutSize
      /\ call' \in {"loop", "result"}
  BY <1>1, <1>2, <1>3, <1>4
<1>8. y.expected # 0
  BY <1>6
<1> HIDE DEF y
<1> QED
  BY <1>1, <1>4, <1>5, <1>6, <1>7, <1>8, StayingOk DEF y

LEMMA FlushStep ==
  ASSUME Ready, Flush
  PROVE  StepOk
<1> DEFINE y == zds'
           toFlush == zds.outEnd - zds.outStart
           room == DStreamOutSize - outLen
           n == Smaller(toFlush, room)
           start == zds.outStart + n
<1>1. /\ archive' = archive /\ inLen' = inLen /\ inPos' = inPos
      /\ outBuff' = outBuff /\ decoded' = decoded /\ call = "loop"
      /\ zds.streamStage = "flush" /\ zds \in Zds
      /\ outLen' = outLen + n
      /\ call' = IF n < toFlush THEN "result" ELSE "loop"
  BY DEF Flush, Looping, Ready, Room
<1>2. y = IF n < toFlush THEN [zds EXCEPT !.outStart = start]
          ELSE IF Restarts(zds, start)
            THEN [zds EXCEPT !.streamStage = "read", !.outStart = 0, !.outEnd = 0]
            ELSE [zds EXCEPT !.streamStage = "read", !.outStart = start]
  BY DEF Flush, Room
<1>3. /\ StageInv(zds) /\ zds.outEnd <= zds.outBuffSize /\ zds.outStart <= zds.outEnd
      /\ zds.outStart \in Nat /\ zds.outEnd \in Nat /\ zds.outBuffSize \in Nat
      /\ inPos \in Nat /\ inPos \in 0..inLen
      /\ outLen \in Nat /\ DStreamOutSize \in Nat /\ outLen <= DStreamOutSize
  BY <1>1, InTheFrame DEF Ready
<1>4. zds.inPos = 0
  BY <1>1, <1>3 DEF StageInv
<1>5. /\ toFlush \in Nat /\ room \in Nat /\ n \in Nat /\ n <= toFlush /\ n <= room
      /\ start \in Nat /\ start <= zds.outEnd /\ zds.outStart <= start
      /\ zds.outEnd - start = toFlush - n /\ (n = toFlush => start = zds.outEnd)
      /\ (n < toFlush => start # zds.outEnd)
  <2> DEFINE a == zds.outStart
             b == zds.outEnd
  <2>1. a \in Nat /\ b \in Nat /\ a <= b /\ room \in Nat
    BY <1>3
  <2> HIDE DEF a, b, room
  <2>2. n = Smaller(b - a, room) /\ start = a + n /\ toFlush = b - a
    BY DEF a, b
  <2> HIDE DEF n, start, toFlush
  <2>3. /\ toFlush \in Nat /\ room \in Nat /\ n \in Nat /\ n <= toFlush /\ n <= room
    BY <2>1, <2>2 DEF Smaller
  <2>4. /\ start \in Nat /\ start <= b /\ a <= start
        /\ b - start = toFlush - n /\ (n = toFlush => start = b)
        /\ (n < toFlush => start # b)
    BY <2>1, <2>2, <2>3
  <2> QED BY <2>3, <2>4 DEF a, b
<1>6. outLen' \in 0..DStreamOutSize
  <2>1. room = DStreamOutSize - outLen
    OBVIOUS
  <2> HIDE DEF n, room
  <2> QED BY <1>1, <1>3, <1>5, <2>1
<1>7. inPos' - inPos = 0 - zds.inPos
  BY <1>1, <1>3, <1>4
<1> HIDE DEF toFlush, room, n, start
<1>8. CASE n < toFlush
  <2>1. y = [zds EXCEPT !.outStart = start]
    BY <1>2, <1>8
  <2>2. y \in Zds /\ SamePlace(y, zds)
    <3>1. y \in Zds
      BY <1>1, <1>5, <2>1 DEF Zds
    <3>2. SamePlace(y, zds)
      BY <1>1, <2>1 DEF Zds, SamePlace
    <3> QED BY <3>1, <3>2
  <2>3. y.streamStage = "flush" /\ y.inPos = 0 /\ y.outStart = start /\ y.outEnd = zds.outEnd
    BY <1>1, <1>4, <2>1 DEF Zds
  <2> HIDE DEF y
  <2>4. call' = "result" /\ Pending(y)
    BY <1>1, <1>5, <1>8, <2>3 DEF Pending
  <2>5. y.expected = 0 => y.hostageByte \/ inPos' > 0
    <3>1. Pending(zds)
      <4>1. zds.outStart # zds.outEnd
        <5> DEFINE a == zds.outStart
                   b == zds.outEnd
        <5>1. a \in Nat /\ b \in Nat /\ toFlush = b - a /\ n \in Nat /\ n < toFlush
          BY <1>3, <1>5, <1>8 DEF toFlush
        <5>2. a # b
          <6> HIDE DEF a, b
          <6> QED BY <5>1
        <5> QED BY <5>2
      <4> QED BY <4>1 DEF Pending
    <3> QED BY <1>1, <2>2, <3>1 DEF Ready, CallInv, SamePlace
  <2>6. FlushesInOrder'
    <3>1. \A a \in (zds.outStart + 1)..zds.outEnd : outBuff[a] = decoded - zds.outEnd + a
      BY <1>1 DEF Ready, FlushesInOrder
    <3>2. ASSUME NEW a \in (start + 1)..zds.outEnd PROVE a \in (zds.outStart + 1)..zds.outEnd
      <4> DEFINE s == zds.outStart
                 e == zds.outEnd
      <4>1. s \in Nat /\ e \in Nat /\ start \in Nat /\ s <= start /\ a \in (start + 1)..e
        BY <1>3, <1>5
      <4>2. a \in (s + 1)..e
        <5> HIDE DEF s, e
        <5> QED BY <4>1
      <4> QED BY <4>2
    <3>3. ASSUME NEW a \in (zds'.outStart + 1)..zds'.outEnd
          PROVE  outBuff'[a] = decoded' - zds'.outEnd + a
      <4>1. zds'.outStart = start /\ zds'.outEnd = zds.outEnd
        BY <2>3 DEF y
      <4> QED BY <1>1, <3>1, <3>2, <4>1
    <3> QED BY <3>3 DEF FlushesInOrder
  <2>7. (y.outEnd - y.outStart) + outLen' = (zds.outEnd - zds.outStart) + outLen
    <3>1. y.outEnd - y.outStart = toFlush - n /\ zds.outEnd - zds.outStart = toFlush
      BY <1>5, <2>3 DEF toFlush
    <3> QED BY <1>1, <1>3, <1>5, <3>1
  <2>8. /\ y.outStart <= y.outEnd /\ y.outEnd <= y.outBuffSize
    BY <1>3, <1>5, <2>2, <2>3 DEF SamePlace
  <2>9. inPos' - inPos = y.inPos - zds.inPos /\ inPos' \in 0..inLen
    BY <1>1, <1>3, <1>7, <2>3
  <2> QED
    BY <1>1, <1>6, <2>2, <2>3, <2>4, <2>5, <2>6, <2>7, <2>8, <2>9, StayingOk DEF y
<1>9. CASE n = toFlush
  <2>1. \/ y = [zds EXCEPT !.streamStage = "read", !.outStart = 0, !.outEnd = 0]
        \/ y = [zds EXCEPT !.streamStage = "read", !.outStart = start]
    BY <1>2, <1>5, <1>9
  <2>2. y \in Zds /\ SamePlace(y, zds)
    <3>1. y \in Zds
      <4> DEFINE null == 0
      <4>1. null \in Nat
        OBVIOUS
      <4> HIDE DEF null
      <4>2. CASE y = [zds EXCEPT !.streamStage = "read", !.outStart = null, !.outEnd = null]
        BY <1>1, <4>1, <4>2 DEF Zds
      <4>3. CASE y = [zds EXCEPT !.streamStage = "read", !.outStart = start]
        BY <1>1, <1>5, <4>3 DEF Zds
      <4> QED BY <2>1, <4>2, <4>3 DEF null
    <3>2. SamePlace(y, zds)
      BY <1>1, <2>1 DEF Zds, SamePlace
    <3> QED BY <3>1, <3>2
  <2>3. /\ y.streamStage = "read" /\ y.inPos = 0
        /\ \/ y.outStart = 0 /\ y.outEnd = 0
           \/ y.outStart = start /\ y.outEnd = zds.outEnd
    BY <1>1, <1>4, <2>1 DEF Zds
  <2> HIDE DEF y
  <2>4. y.outStart = y.outEnd /\ y.outStart <= y.outEnd /\ y.outEnd <= y.outBuffSize
        /\ y.outEnd - y.outStart = 0
    <3>1. start = zds.outEnd
      BY <1>5, <1>9
    <3>2. y.outBuffSize = zds.outBuffSize
      BY <2>2 DEF SamePlace
    <3> QED BY <1>3, <2>3, <3>1, <3>2
  <2>5. call' = "loop" /\ ~ Pending(y)
    BY <1>1, <1>5, <1>9, <2>4 DEF Pending
  <2>6. FlushesInOrder'
    BY <2>3 DEF FlushesInOrder, y
  <2>7. (y.outEnd - y.outStart) + outLen' = (zds.outEnd - zds.outStart) + outLen
    <3>1. zds.outEnd - zds.outStart = n
      BY <1>9 DEF toFlush
    <3> QED BY <1>1, <1>3, <1>5, <2>4, <3>1
  <2>8. inPos' - inPos = y.inPos - zds.inPos /\ inPos' \in 0..inLen
    BY <1>1, <1>3, <1>7, <2>3
  <2> QED
    BY <1>1, <1>6, <2>2, <2>3, <2>4, <2>5, <2>6, <2>7, <2>8, StayingOk DEF y
<1> QED
  BY <1>5, <1>8, <1>9

\* The end of a call changes only these fields.
Ended(z, stalls, hostage, stage) ==
  [z EXCEPT !.stalls = stalls, !.hostageByte = hostage, !.streamStage = stage]

AreEnded(stalls, hostage, stage) ==
  /\ stalls \in Nat /\ hostage \in BOOLEAN
  /\ stage \in {"init", "loadHeader", "read", "load", "flush"}

LEMMA EndedRest ==
  ASSUME NEW z \in Zds, NEW stalls, NEW hostage, NEW stage, AreEnded(stalls, hostage, stage),
         NEW y, y = Ended(z, stalls, hostage, stage)
  PROVE  /\ y \in Zds /\ y.hostageByte = hostage /\ y.streamStage = stage
         /\ y.frame = z.frame /\ y.stage = z.stage /\ y.block = z.block
         /\ y.expected = z.expected /\ y.inPos = z.inPos /\ y.inBuffSize = z.inBuffSize
         /\ y.outStart = z.outStart /\ y.outEnd = z.outEnd /\ y.outBuffSize = z.outBuffSize
<1>1. y \in Zds
  BY DEF AreEnded, Ended, Zds
<1>2. y.hostageByte = hostage /\ y.streamStage = stage
  BY DEF Ended, Zds
<1>3. /\ y.frame = z.frame /\ y.stage = z.stage /\ y.block = z.block
      /\ y.expected = z.expected /\ y.inPos = z.inPos /\ y.inBuffSize = z.inBuffSize
      /\ y.outStart = z.outStart /\ y.outEnd = z.outEnd /\ y.outBuffSize = z.outBuffSize
  BY DEF Ended, Zds
<1> QED
  BY <1>1, <1>2, <1>3

\* How the end of a call moves the byte that is kept back.
EndedHow(z, hostage, stage) ==
  \/ /\ hostage = z.hostageByte /\ stage = z.streamStage
     /\ z.expected > 0 /\ inPos' = inPos
  \/ /\ z.expected = 0 /\ ~ Pending(z) /\ hostage = z.hostageByte
     /\ IF z.hostageByte /\ inPos >= inLen
          THEN stage = "read" /\ inPos' = inPos
          ELSE stage = z.streamStage /\ inPos' = IF z.hostageByte THEN inPos + 1 ELSE inPos
  \/ /\ z.expected = 0 /\ Pending(z) /\ hostage = TRUE /\ stage = z.streamStage
     /\ inPos' = IF z.hostageByte THEN inPos ELSE inPos - 1

LEMMA ResultCases ==
  ASSUME Result, zds \in Zds, call' # "error"
  PROVE  \E stalls \in Nat, hostage \in BOOLEAN,
            stage \in {"init", "loadHeader", "read", "load", "flush"} :
           zds' = Ended(zds, stalls, hostage, stage) /\ EndedHow(zds, hostage, stage)
<1> DEFINE stalls == IF inPos = istart /\ outLen = 0 THEN zds.stalls + 1 ELSE 0
           z == [zds EXCEPT !.stalls = stalls]
           s == zds.streamStage
           h == zds.hostageByte
<1>1. stalls \in Nat /\ h \in BOOLEAN /\ s \in {"init", "loadHeader", "read", "load", "flush"}
      /\ zds.expected \in Nat
  BY DEF Zds
<1>2. IF zds.expected > 0 THEN zds' = z /\ UNCHANGED inPos
      ELSE IF zds.outEnd = zds.outStart THEN ReleaseHostage(z) ELSE TakeHostage(z)
  BY DEF Result
<1> HIDE DEF stalls
<1>3. /\ z = Ended(zds, stalls, h, s) /\ z.hostageByte = h
      /\ [z EXCEPT !.streamStage = "read"] = Ended(zds, stalls, h, "read")
      /\ [z EXCEPT !.hostageByte = TRUE] = Ended(zds, stalls, TRUE, s)
  BY DEF Ended, Zds
<1> HIDE DEF z, h, s
<1>4. h = zds.hostageByte /\ s = zds.streamStage
  BY DEF h, s
<1>5. CASE zds.expected > 0
  <2>1. zds' = Ended(zds, stalls, h, s) /\ inPos' = inPos
    BY <1>2, <1>3, <1>5
  <2>2. EndedHow(zds, h, s)
    BY <1>4, <1>5, <2>1 DEF EndedHow
  <2> QED BY <1>1, <2>1, <2>2
<1>6. CASE zds.expected = 0 /\ zds.outEnd = zds.outStart
  <2>0. ~ Pending(zds) /\ ~ (zds.expected > 0)
    BY <1>1, <1>6 DEF Pending
  <2>1. CASE h /\ inPos >= inLen
    <3>1. zds' = Ended(zds, stalls, h, "read") /\ inPos' = inPos
      BY <1>2, <1>3, <1>6, <2>0, <2>1 DEF ReleaseHostage
    <3>2. EndedHow(zds, h, "read")
      BY <1>4, <1>6, <2>0, <2>1, <3>1 DEF EndedHow
    <3> QED BY <1>1, <3>1, <3>2
  <2>2. CASE ~ (h /\ inPos >= inLen)
    <3>1. zds' = Ended(zds, stalls, h, s) /\ inPos' = IF h THEN inPos + 1 ELSE inPos
      BY <1>2, <1>3, <1>6, <2>0, <2>2 DEF ReleaseHostage
    <3>2. EndedHow(zds, h, s)
      BY <1>4, <1>6, <2>0, <2>2, <3>1 DEF EndedHow
    <3> QED BY <1>1, <3>1, <3>2
  <2> QED BY <2>1, <2>2
<1>7. CASE zds.expected = 0 /\ zds.outEnd # zds.outStart
  <2>0. Pending(zds) /\ ~ (zds.expected > 0)
    BY <1>1, <1>7 DEF Pending
  <2>1. zds' = Ended(zds, stalls, TRUE, s) /\ inPos' = IF h THEN inPos ELSE inPos - 1
    BY <1>2, <1>3, <1>7, <2>0 DEF TakeHostage
  <2>2. EndedHow(zds, TRUE, s)
    BY <1>4, <1>7, <2>0, <2>1 DEF EndedHow
  <2> QED BY <1>1, <2>1, <2>2
<1> QED
  BY <1>1, <1>5, <1>6, <1>7

LEMMA ResultStep ==
  ASSUME Ready, Result
  PROVE  StepOk
<1> DEFINE y == zds'
<1>1. /\ archive' = archive /\ inLen' = inLen /\ outLen' = outLen
      /\ outBuff' = outBuff /\ decoded' = decoded /\ call = "result" /\ zds \in Zds
      /\ archive \in Archives /\ StageInv(zds) /\ inPos \in 0..inLen /\ inLen \in Nat
      /\ inPos \in Nat /\ decoded \in Nat /\ outLen \in 0..DStreamOutSize
      /\ DOMAIN outBuff = 1..zds.outBuffSize
  BY DEF Result, Ready
<1>2. CASE call' = "error"
  <2>1. inPos' = inPos /\ zds' = zds
    BY <1>2 DEF Result
  <2> QED BY <1>1, <1>2, <2>1, ErrorStep
<1>3. CASE call' # "error"
  <2>1. call' = "out"
    BY <1>3 DEF Result
  <2>2. PICK stalls \in Nat, hostage \in BOOLEAN,
             stage \in {"init", "loadHeader", "read", "load", "flush"} :
          y = Ended(zds, stalls, hostage, stage) /\ EndedHow(zds, hostage, stage)
    BY <1>1, <1>3, ResultCases
  <2>3. /\ y \in Zds /\ y.hostageByte = hostage /\ y.streamStage = stage
        /\ y.frame = zds.frame /\ y.stage = zds.stage /\ y.block = zds.block
        /\ y.expected = zds.expected /\ y.inPos = zds.inPos /\ y.inBuffSize = zds.inBuffSize
        /\ y.outStart = zds.outStart /\ y.outEnd = zds.outEnd /\ y.outBuffSize = zds.outBuffSize
    <3> HIDE DEF y
    <3>1. AreEnded(stalls, hostage, stage)
      BY DEF AreEnded
    <3> QED BY <1>1, <2>2, <3>1, EndedRest
  <2>4. /\ zds.expected > 0 \/ Pending(zds) \/ zds.streamStage = "init"
        /\ zds.expected = 0 /\ Pending(zds) => zds.hostageByte \/ inPos > 0
    BY <1>1 DEF Ready, CallInv
  <2>5. /\ zds.frame \in 0..Len(archive) /\ zds.frame \in Nat
        /\ zds.outStart <= zds.outEnd /\ zds.outEnd <= zds.outBuffSize
        /\ zds.outStart \in Nat /\ zds.outEnd \in Nat /\ zds.expected \in Nat
        /\ zds.inPos \in Nat
        /\ zds.streamStage \in {"init", "loadHeader", "read", "load", "flush"}
    BY <1>1 DEF StageInv, Zds
  <2>6. zds.streamStage # "loadHeader"
    <3>1. SUFFICES ASSUME zds.streamStage = "loadHeader" PROVE FALSE
      OBVIOUS
    <3>2. zds.expected = 0 /\ zds.outEnd = 0
      BY <1>1, <3>1 DEF StageInv
    <3>3. zds.outStart = zds.outEnd
      BY <1>1, <3>1 DEF StageInv
    <3> QED BY <2>4, <3>1, <3>2, <3>3 DEF Pending
  <2>7. Pending(zds) => zds.streamStage = "flush"
    BY <1>1 DEF StageInv, Pending
  <2>8. /\ zds.streamStage = "init" =>
             zds.expected = 0 /\ (IF zds.frame = 0 THEN ~ zds.hostageByte ELSE InFrame(zds))
        /\ zds.streamStage \in {"read", "load", "flush"} => zds.frame > 0 /\ InFrame(zds)
        /\ zds.streamStage # "flush" => ~ Pending(zds)
        /\ zds.streamStage # "load" => zds.inPos = 0
        /\ zds.streamStage = "load" => zds.inPos < zds.expected
    BY <1>1 DEF StageInv, Pending
  <2> HIDE DEF y
  <2>9. \/ stage = zds.streamStage
        \/ /\ stage = "read" /\ zds.hostageByte /\ zds.expected = 0 /\ ~ Pending(zds)
           /\ zds.streamStage = "init"
    BY <2>2, <2>4 DEF EndedHow
  <2>10. hostage => zds.expected = 0
    <3>1. zds.hostageByte => zds.expected = 0
      BY <1>1 DEF StageInv
    <3> QED BY <2>2, <3>1 DEF EndedHow
  <2>11. zds.frame = 0 => zds.streamStage = "init" /\ stage = "init" /\ ~ hostage
    <3>1. zds.frame = 0 => zds.streamStage = "init" /\ ~ zds.hostageByte
      BY <2>5, <2>6, <2>8
    <3> QED BY <2>2, <2>7, <2>9, <3>1 DEF EndedHow
  <2>12. zds.frame > 0 => InFrame(zds)
    BY <2>5, <2>6, <2>8
  <2>13. stage # "loadHeader"
    BY <2>6, <2>9
  <2>14. /\ Inside(y) = Inside(zds) /\ PlainInside(y) = PlainInside(zds)
         /\ (InFrame(y) <=> InFrame(zds)) /\ Frame(y) = Frame(zds)
    <3>1. Frame(y) = Frame(zds)
      BY <2>3 DEF Frame
    <3> QED BY <2>3, <2>6, <2>13, <3>1 DEF Inside, PlainInside, InFrame
  <2>15. StageInv(y)
    <3>1. y.streamStage = "init" =>
            y.expected = 0 /\ (IF y.frame = 0 THEN ~ y.hostageByte ELSE InFrame(y))
      BY <2>3, <2>5, <2>8, <2>9, <2>11, <2>14
    <3>2. y.streamStage \in {"read", "load", "flush"} => y.frame > 0 /\ InFrame(y)
      BY <2>3, <2>5, <2>8, <2>9, <2>11, <2>12, <2>14
    <3>3. y.streamStage # "flush" => y.outStart = y.outEnd
      BY <2>3, <2>8, <2>9 DEF Pending
    <3>4. /\ y.streamStage = "load" =>
               y.inPos < y.expected /\ (y.stage # "skipFrame" => y.inPos <= y.inBuffSize)
          /\ y.streamStage # "load" => y.inPos = 0
      BY <1>1, <2>3, <2>9 DEF StageInv
    <3>5. y.frame \in 0..Len(archive) /\ y.outStart <= y.outEnd /\ y.outEnd <= y.outBuffSize
          /\ (y.hostageByte => y.expected = 0) /\ y.streamStage # "loadHeader"
      BY <2>3, <2>5, <2>10, <2>13
    <3> QED BY <3>1, <3>2, <3>3, <3>4, <3>5 DEF StageInv
  <2>16. CallInv'
    <3>1. zds'.expected = 0 /\ Pending(zds') => zds'.hostageByte
      BY <2>2, <2>3, <2>5 DEF EndedHow, Pending, y
    <3>2. zds'.streamStage # "loadHeader"
      BY <2>3, <2>13 DEF y
    <3> QED BY <2>1, <3>1, <3>2 DEF CallInv, Pending
  <2>17. FlushesInOrder'
    <3>1. zds'.streamStage = "flush" => zds.streamStage = "flush"
      BY <2>3, <2>9 DEF y
    <3>2. zds'.outStart = zds.outStart /\ zds'.outEnd = zds.outEnd
      BY <2>3 DEF y
    <3> QED BY <1>1, <3>1, <3>2 DEF Ready, FlushesInOrder
  <2>18. KeptBack = IF zds.hostageByte THEN 1 ELSE 0
    BY <1>1 DEF KeptBack
  <2>19. KeptBack' = IF hostage /\ stage # "init" THEN 1 ELSE 0
    BY <2>1, <2>3 DEF KeptBack, y
  <2>20. inPos' \in 0..inLen /\ inPos' + KeptBack' = inPos + KeptBack
    <3>1. /\ zds.hostageByte \in BOOLEAN
          /\ zds.expected = 0 /\ ~ Pending(zds) => zds.streamStage = "init"
      <4>1. zds.expected = 0 /\ ~ Pending(zds) => zds.streamStage = "init"
        BY <2>4
      <4> QED BY <1>1, <4>1 DEF Zds
    <3>2. CASE hostage = zds.hostageByte /\ stage = zds.streamStage
               /\ zds.expected > 0 /\ inPos' = inPos
      <4>1. ~ hostage
        BY <2>10, <3>2
      <4> QED BY <1>1, <2>18, <2>19, <3>2, <4>1
    <3>3. CASE /\ zds.expected = 0 /\ ~ Pending(zds) /\ hostage = zds.hostageByte
               /\ zds.hostageByte /\ inPos >= inLen /\ stage = "read" /\ inPos' = inPos
      BY <1>1, <2>18, <2>19, <3>3
    <3>4. CASE /\ zds.expected = 0 /\ ~ Pending(zds) /\ hostage = zds.hostageByte
               /\ ~ (zds.hostageByte /\ inPos >= inLen)
               /\ stage = zds.streamStage
               /\ inPos' = IF zds.hostageByte THEN inPos + 1 ELSE inPos
      <4>1. stage = "init"
        BY <3>1, <3>4
      <4>2. KeptBack' = 0
        BY <2>19, <4>1
      <4>3. CASE zds.hostageByte
        BY <1>1, <2>18, <3>4, <4>2, <4>3
      <4>4. CASE ~ zds.hostageByte
        BY <1>1, <2>18, <3>4, <4>2, <4>4
      <4> QED BY <3>1, <4>3, <4>4
    <3>5. CASE /\ zds.expected = 0 /\ Pending(zds) /\ hostage = TRUE /\ stage = zds.streamStage
               /\ inPos' = IF zds.hostageByte THEN inPos ELSE inPos - 1
      <4>1. KeptBack' = 1
        BY <2>7, <2>19, <3>5
      <4>2. CASE zds.hostageByte
        BY <1>1, <2>18, <3>5, <4>1, <4>2
      <4>3. CASE ~ zds.hostageByte
        <5>1. inPos > 0
          BY <2>4, <3>5, <4>3
        <5> QED BY <1>1, <2>18, <3>5, <4>1, <4>3, <5>1
      <4> QED BY <3>1, <4>2, <4>3
    <3> QED BY <2>2, <3>2, <3>3, <3>4, <3>5 DEF EndedHow
  <2>21. /\ Consumed(y) - inPos' - KeptBack' = Consumed(zds) - inPos - KeptBack
         /\ Produced(y) - decoded' = Produced(zds) - decoded
    <3>1. CASE zds.frame = 0
      <4>1. /\ Consumed(y) = 0 /\ Consumed(zds) = 0 /\ Produced(y) = 0 /\ Produced(zds) = 0
        BY <2>3, <3>1 DEF Consumed, Produced
      <4>2. inPos' \in Int /\ inPos \in Int /\ KeptBack \in Int /\ KeptBack' \in Int
        BY <1>1, <2>18, <2>19, <2>20
      <4> DEFINE i == inPos
                 j == inPos'
                 k == KeptBack
                 m == KeptBack'
      <4>3. j + m = i + k /\ i \in Int /\ j \in Int /\ k \in Int /\ m \in Int
        BY <2>20, <4>2
      <4> HIDE DEF i, j, k, m
      <4>4. 0 - j - m = 0 - i - k
        BY <4>3
      <4> QED BY <1>1, <4>1, <4>4 DEF i, j, k, m
    <3>2. CASE zds.frame > 0
      <4>1. Inside(zds) \in Nat /\ PlainInside(zds) \in Int
        BY <1>1, <3>2, InsideType
      <4>2. inPos' \in Int /\ inPos \in Int /\ KeptBack \in Int /\ KeptBack' \in Int
        BY <1>1, <2>18, <2>19, <2>20
      <4>3. (Inside(y) + y.inPos) - (Inside(zds) + zds.inPos)
              = (inPos' + KeptBack') - (inPos + KeptBack)
        <5>1. (inPos' + KeptBack') - (inPos + KeptBack) = 0
          <6> DEFINE i == inPos + KeptBack
          <6>1. i \in Int
            BY <4>2
          <6>2. inPos' + KeptBack' = i
            BY <2>20
          <6> HIDE DEF i
          <6>3. i - i = 0
            BY <6>1
          <6> QED BY <6>2, <6>3 DEF i
        <5>2. (Inside(y) + y.inPos) - (Inside(zds) + zds.inPos) = 0
          BY <2>3, <2>5, <2>14, <4>1
        <5> QED BY <5>1, <5>2
      <4>4. PlainInside(y) - PlainInside(zds) = decoded' - decoded
        BY <1>1, <2>14, <4>1
      <4>5. Moved
        BY <1>1, <2>3, <2>14, <3>2, <4>1, <4>2, <4>3, <4>4 DEF Moved, y
      <4> QED BY <4>5, CountedStep DEF y
    <3> QED BY <2>5, <3>1, <3>2
  <2>22. /\ decoded' - outLen' - (y.outEnd - y.outStart)
              = decoded - outLen - (zds.outEnd - zds.outStart)
         /\ outLen' \in 0..DStreamOutSize /\ decoded' \in Nat
         /\ DOMAIN outBuff' = 1..y.outBuffSize
    BY <1>1, <2>3
  <2> QED
    BY <2>1, <2>3, <2>15, <2>16, <2>17, <2>20, <2>21, <2>22 DEF StepOk, y
<1> QED
  BY <1>2, <1>3

\* The output buffer after a unit: its end holds what was decoded.
LEMMA WrittenIs ==
  ASSUME NEW dst \in Nat, NEW size \in Nat, NEW overruns \in BOOLEAN, NEW n \in Nat,
         DOMAIN outBuff = 1..n, 1 <= dst, (dst - 1) + size <= n, decoded \in Nat
  PROVE  /\ DOMAIN Written(dst, size, overruns) = 1..n
         /\ \A a \in dst..((dst - 1) + size) :
              Written(dst, size, overruns)[a] = decoded + 1 + (a - dst)
<1>1. DOMAIN Written(dst, size, overruns) = 1..n
  BY DEF Written
<1>2. ASSUME NEW a \in dst..((dst - 1) + size)
      PROVE  Written(dst, size, overruns)[a] = decoded + 1 + (a - dst)
  <2>1. a \in 1..n /\ a >= dst /\ a < dst + size
    BY <1>2
  <2>2. a \in DOMAIN outBuff
    BY <2>1
  <2> QED BY <2>1, <2>2 DEF Written
<1> QED
  BY <1>1, <1>2

\* What ZSTD_decompressContinueStream is given.
Fed(z, n) ==
  /\ call = "loop" /\ zds.streamStage \in {"read", "load"} /\ zds.expected > 0
  /\ z \in Zds /\ SamePlace(z, zds) /\ z.inPos = 0 /\ z.streamStage = zds.streamStage
  /\ z.outStart = zds.outStart /\ z.outEnd = zds.outEnd
  /\ n \in 1..z.expected
  /\ n # z.expected => z.stage = "block" /\ Frame(z).blocks[z.block].type = "raw"
  /\ inPos' - inPos = n - zds.inPos
  /\ inPos' \in 0..inLen /\ inPos' > 0
  /\ archive' = archive /\ inLen' = inLen /\ outLen' = outLen

LEMMA FedTakes ==
  ASSUME Ready, NEW z, NEW n, Fed(z, n)
  PROVE  Takes(z, n) /\ z.outStart = z.outEnd /\ zds.outStart = zds.outEnd
<1>1. /\ zds.frame > 0 /\ InFrame(zds) /\ StageInv(zds) /\ zds \in Zds /\ archive \in Archives
      /\ zds.frame \in 0..Len(archive)
      /\ zds.outEnd <= zds.outBuffSize /\ zds.expected \in Nat /\ ~ zds.hostageByte
  <2>1. zds.expected # 0
    BY DEF Fed
  <2> QED BY <2>1, InTheFrame DEF Fed
<1>2. zds.outStart = zds.outEnd /\ z.outStart = z.outEnd /\ z.inPos = 0
      /\ z.outEnd = zds.outEnd /\ zds.outEnd \in Nat
  BY <1>1 DEF StageInv, Fed, Zds
<1>3. InFrame(z)
  BY <1>1, PlaceDecides DEF Fed
<1>4. StageInv(z)
  <2>1. /\ z.frame \in 0..Len(archive) /\ z.frame > 0 /\ z.outStart <= z.outEnd
        /\ z.outEnd <= z.outBuffSize /\ z.outStart = z.outEnd /\ ~ z.hostageByte
        /\ z.inPos = 0 /\ z.expected > 0 /\ z.streamStage \in {"read", "load"}
    BY <1>1, <1>2 DEF Fed, SamePlace
  <2>2. z.inPos < z.expected /\ z.inPos <= z.inBuffSize
    <3>1. z.inBuffSize \in Nat
      BY DEF Fed, Zds
    <3> QED BY <2>1, <3>1
  <2> QED BY <1>3, <2>1, <2>2 DEF StageInv
<1>5. Takes(z, n)
  BY <1>1, <1>4 DEF Takes, Fed, SamePlace
<1> QED
  BY <1>2, <1>5

LEMMA ContinueStreamStep ==
  ASSUME Ready, NEW z, NEW n, Fed(z, n), ContinueStream(z, n)
  PROVE  StepOk
<1> DEFINE skips == z.stage = "skipFrame"
           dst == z.outStart + 1
           capacity == IF skips THEN 0 ELSE z.outBuffSize - z.outStart
           r == Continue(z, n, dst, capacity)
           overruns == z.stage = "block" /\ Frame(z).blocks[z.block].type = "compressed"
           y == zds'
           start == zds.outStart
<1>1. CASE r.fails
  <2>1. call' = "error" /\ zds' = zds /\ outBuff' = outBuff /\ decoded' = decoded
    BY <1>1 DEF ContinueStream
  <2> QED BY <2>1, ErrorStep DEF Fed
<1>2. CASE ~ r.fails
  <2>1. /\ y = IF r.size = 0 /\ ~ skips
                 THEN [r.z EXCEPT !.streamStage = "read"]
                 ELSE [r.z EXCEPT !.streamStage = "flush", !.outEnd = z.outStart + r.size]
        /\ outBuff' = IF z.stage = "block" THEN Written(dst, r.size, overruns) ELSE outBuff
        /\ decoded' = decoded + r.size
        /\ call' = call
    BY <1>2 DEF ContinueStream
  <2>2. /\ zds.frame > 0 /\ InFrame(zds) /\ StageInv(zds) /\ zds \in Zds /\ archive \in Archives
        /\ zds.frame \in 0..Len(archive) /\ start \in Nat
        /\ zds.outEnd <= zds.outBuffSize /\ zds.outBuffSize \in Nat /\ zds.inPos \in Nat
        /\ decoded \in Nat /\ outLen \in Nat /\ inPos \in Nat /\ inLen \in Nat
        /\ Inside(zds) \in Nat /\ PlainInside(zds) \in Int
        /\ zds.expected \in Nat /\ ~ zds.hostageByte /\ KeptBack = 0
    <3>1. zds.expected # 0
      BY DEF Fed
    <3> QED BY <3>1, InTheFrame DEF Fed
  <2>3. start = zds.outEnd /\ z.outStart = start /\ z.outEnd = start /\ z.inPos = 0
    BY <2>2 DEF StageInv, Fed
  <2>4. /\ Inside(z) = Inside(zds) /\ PlainInside(z) = PlainInside(zds)
        /\ Frame(z) = Frame(zds) /\ InFrame(z)
    BY <2>2, PlaceDecides DEF Fed
  <2>6. Takes(z, n)
    BY FedTakes
  <2>7. capacity \in Nat /\ dst \in Int /\ (~ skips => capacity = zds.outBuffSize - start)
        /\ capacity <= zds.outBuffSize - start
    <3>1. z.outBuffSize = zds.outBuffSize
      BY DEF Fed, SamePlace
    <3> QED BY <2>2, <2>3, <3>1
  <2> HIDE DEF capacity, r, y
  <2>8. UnitDone(z, n, r) /\ r.size <= capacity /\ (z.stage # "block" => r.size = 0)
    <3>1. r = Continue(z, n, dst, capacity)
      BY DEF r
    <3> HIDE DEF dst
    <3> QED BY <1>2, <2>6, <2>7, <3>1, ContinueDone
  <2> DEFINE size == r.size
             w == r.z
  <2>9. /\ w \in Zds /\ SameRest(w, z) /\ InFrame(w) /\ size \in Nat
        /\ Inside(w) = Inside(zds) + n /\ PlainInside(w) = PlainInside(zds) + size
    BY <2>4, <2>8 DEF UnitDone
  <2>10. /\ w.frame = zds.frame /\ w.inPos = 0 /\ w.outStart = start /\ w.outEnd = start
         /\ w.hostageByte = FALSE /\ w.outBuffSize = zds.outBuffSize
         /\ w.streamStage \in {"read", "load"}
    <3>1. zds.hostageByte = FALSE
      BY <2>2 DEF Zds
    <3> QED BY <2>3, <2>9, <3>1 DEF SameRest, Fed, SamePlace
  <2>11. start + size \in Nat /\ start + size <= zds.outBuffSize
    <3> DEFINE b == zds.outBuffSize
    <3>1. /\ size <= capacity /\ capacity <= b - start /\ capacity \in Nat
          /\ b \in Nat /\ start \in Nat /\ size \in Nat
      BY <2>2, <2>7, <2>8, <2>9
    <3> HIDE DEF size, b, start
    <3>2. start + size \in Nat /\ start + size <= b
      BY <3>1
    <3> QED BY <3>2 DEF b
  <2>12. /\ y \in Zds /\ SamePlace(y, w) /\ y.streamStage \in {"read", "flush"}
         /\ y.inPos = 0 /\ y.outStart = start /\ y.outEnd = start + size
         /\ y.streamStage = "read" => size = 0
    <3>1. CASE size = 0 /\ ~ skips
      <4>1. y = [w EXCEPT !.streamStage = "read"]
        BY <2>1, <3>1
      <4> HIDE DEF w
      <4>2. y \in Zds
        BY <2>9, <4>1 DEF Zds
      <4>3. SamePlace(y, w)
        BY <2>9, <4>1 DEF Zds, SamePlace
      <4>4. y.streamStage = "read" /\ y.inPos = 0 /\ y.outStart = start /\ y.outEnd = start
        BY <2>9, <2>10, <4>1 DEF Zds
      <4>5. start + size = start
        BY <2>2, <3>1
      <4> QED BY <3>1, <4>2, <4>3, <4>4, <4>5
    <3>2. CASE ~ (size = 0 /\ ~ skips)
      <4> DEFINE end == start + size
      <4>1. y = [w EXCEPT !.streamStage = "flush", !.outEnd = end]
        BY <2>1, <2>3, <3>2
      <4>0. end \in Nat
        BY <2>11
      <4> HIDE DEF w, end
      <4>2. y \in Zds
        BY <2>9, <4>0, <4>1 DEF Zds
      <4>3. SamePlace(y, w)
        BY <2>9, <4>1 DEF Zds, SamePlace
      <4>4. y.streamStage = "flush" /\ y.inPos = 0 /\ y.outStart = start /\ y.outEnd = end
        BY <2>9, <2>10, <4>1 DEF Zds
      <4> QED BY <4>2, <4>3, <4>4 DEF end
    <3> QED BY <3>1, <3>2
  <2> HIDE DEF size, w
  <2>13. /\ Inside(y) = Inside(zds) + n /\ PlainInside(y) = PlainInside(zds) + size /\ InFrame(y)
         /\ y.frame = zds.frame
    <3>1. w.streamStage # "loadHeader" /\ y.streamStage # "loadHeader"
      BY <2>10, <2>12
    <3>2. y.frame = zds.frame
      BY <2>10, <2>12 DEF SamePlace
    <3> QED BY <2>9, <2>12, <3>1, <3>2, PlaceDecides
  <2>14. StageInv(y)
    <3>1. start <= start + size /\ y.outBuffSize = zds.outBuffSize /\ (size = 0 => start = start + size)
      BY <2>2, <2>9, <2>10, <2>12 DEF SamePlace
    <3>2. /\ y.frame \in 0..Len(archive) /\ y.frame > 0 /\ ~ y.hostageByte
          /\ y.outStart <= y.outEnd /\ y.outEnd <= y.outBuffSize /\ y.inPos = 0
          /\ y.streamStage # "flush" => y.outStart = y.outEnd
      BY <2>2, <2>10, <2>11, <2>12, <2>13, <3>1 DEF SamePlace
    <3> QED BY <2>12, <2>13, <3>2 DEF StageInv
  <2>15. CallInv' /\ KeptBack' = 0
    <3>1. call' = "loop" /\ inPos' > 0
      BY <2>1 DEF Fed
    <3>2. zds'.streamStage \in {"read", "flush"} /\ ~ zds'.hostageByte
      BY <2>10, <2>12 DEF SamePlace, y
    <3> QED BY <3>1, <3>2 DEF CallInv, KeptBack
  <2>16. /\ DOMAIN outBuff' = 1..zds.outBuffSize
         /\ \A a \in (start + 1)..(start + size) : outBuff'[a] = decoded + 1 + (a - (start + 1))
    <3>0. DOMAIN outBuff = 1..zds.outBuffSize
      BY DEF Ready
    <3>1. CASE z.stage = "block"
      <4>1. outBuff' = Written(start + 1, size, overruns)
        BY <2>1, <2>3, <3>1 DEF size
      <4> DEFINE at == start + 1
                 room == zds.outBuffSize
      <4>2. /\ at \in Nat /\ 1 <= at /\ at - 1 = start /\ overruns \in BOOLEAN /\ room \in Nat
            /\ start + size <= room
        BY <2>2, <2>11
      <4> HIDE DEF at, overruns, room, start
      <4>3. /\ DOMAIN Written(at, size, overruns) = 1..room
            /\ \A a \in at..((at - 1) + size) :
                 Written(at, size, overruns)[a] = decoded + 1 + (a - at)
        <5>1. DOMAIN outBuff = 1..room /\ (at - 1) + size <= room /\ decoded \in Nat /\ size \in Nat
          BY <2>2, <2>9, <3>0, <4>2 DEF room
        <5> QED BY <4>2, <5>1, WrittenIs
      <4> QED BY <4>1, <4>2, <4>3 DEF at, room
    <3>2. CASE z.stage # "block"
      <4>1. outBuff' = outBuff /\ size = 0
        BY <2>1, <2>8, <3>2 DEF size
      <4>2. (start + 1)..(start + size) = {}
        <5> HIDE DEF start
        <5> QED BY <2>2, <4>1
      <4> QED BY <3>0, <4>1, <4>2
    <3> QED BY <3>1, <3>2
  <2>17. FlushesInOrder'
    <3>1. zds'.outStart = start /\ zds'.outEnd = start + size
      BY <2>12 DEF y
    <3>2. decoded' = decoded + size
      BY <2>1 DEF size
    <3>3. ASSUME NEW a \in (zds'.outStart + 1)..zds'.outEnd
          PROVE  outBuff'[a] = decoded' - zds'.outEnd + a
      <4>1. a \in (start + 1)..(start + size)
        BY <3>1
      <4>2. outBuff'[a] = decoded + 1 + (a - (start + 1))
        BY <2>16, <4>1
      <4>3. decoded + 1 + (a - (start + 1)) = (decoded + size) - (start + size) + a
        <5> HIDE DEF start
        <5>1. a \in Int
          BY <2>2, <2>9, <4>1
        <5> QED BY <2>2, <2>9, <5>1
      <4> QED BY <3>1, <3>2, <4>2, <4>3
    <3> QED BY <3>3 DEF FlushesInOrder
  <2>18. Moved
    <3> DEFINE i == Inside(zds)
               p == PlainInside(zds)
               k == zds.inPos
    <3>1. /\ i \in Nat /\ p \in Int /\ k \in Nat /\ n \in Nat /\ size \in Nat
          /\ inPos' - inPos = n - k /\ inPos \in Nat /\ inPos' \in Nat /\ decoded \in Nat
          /\ decoded' = decoded + size
      <4>1. n \in Nat /\ inPos' - inPos = n - k /\ inPos' \in Nat
        BY <2>2 DEF Fed
      <4> QED BY <2>1, <2>2, <2>9, <4>1 DEF size
    <3> DEFINE a == inPos
               b == inPos'
               d == decoded
    <3>0. b - a = n - k /\ a \in Nat /\ b \in Nat /\ d \in Nat
      BY <3>1
    <3> HIDE DEF i, p, k, a, b, d
    <3>4. /\ ((i + n) + 0) - (i + k) = (b + 0) - (a + 0)
          /\ (p + size) - p = (d + size) - d
          /\ i + n \in Int /\ p + size \in Int /\ d + size \in Int /\ b \in Int
          /\ a \in Int /\ d \in Int /\ 0 \in Int
      BY <3>0, <3>1
    <3>2. /\ ((i + n) + 0) - (i + k) = (inPos' + 0) - (inPos + 0)
          /\ (p + size) - p = decoded' - decoded
          /\ i + n \in Int /\ p + size \in Int /\ decoded' \in Int /\ inPos' \in Int
          /\ inPos \in Int /\ decoded \in Int /\ 0 \in Int
      BY <3>1, <3>4 DEF a, b, d
    <3>3. /\ Inside(y) = i + n /\ PlainInside(y) = p + size /\ y.inPos = 0
          /\ Inside(zds) = i /\ PlainInside(zds) = p /\ zds.inPos = k
          /\ KeptBack = 0 /\ KeptBack' = 0
      BY <2>2, <2>12, <2>13, <2>15 DEF i, p, k
    <3> QED BY <2>2, <2>12, <2>13, <3>2, <3>3 DEF Moved, y
  <2>19. decoded' - outLen' - (y.outEnd - y.outStart)
           = decoded - outLen - (zds.outEnd - zds.outStart)
    <3>1. /\ decoded' = decoded + size /\ outLen' = outLen /\ zds.outEnd = start
          /\ y.outEnd = start + size /\ y.outStart = start
      BY <2>1, <2>3, <2>12 DEF Fed, size
    <3>2. (decoded + size) - outLen - ((start + size) - start) = decoded - outLen - (start - start)
      <4> HIDE DEF start
      <4> QED BY <2>2, <2>9
    <3> QED BY <3>1, <3>2
  <2>20. /\ call' \in {"out", "loop", "result", "error"} /\ inPos' \in 0..inLen
         /\ outLen' \in 0..DStreamOutSize /\ decoded' \in Nat
         /\ DOMAIN outBuff' = 1..y.outBuffSize
    <3>1. y.outBuffSize = zds.outBuffSize
      BY <2>10, <2>12 DEF SamePlace
    <3>2. decoded' \in Nat
      BY <2>1, <2>2, <2>9 DEF size
    <3> QED BY <2>1, <2>16, <3>1, <3>2 DEF Fed, Ready
  <2> QED
    BY <2>12, <2>14, <2>15, <2>17, <2>18, <2>19, <2>20, CountedStep DEF StepOk, y
<1> QED
  BY <1>1, <1>2

LEMMA ReadDirectFed ==
  ASSUME Ready, ReadDirect
  PROVE  LET n == NextSrcSize(zds, Available) IN Fed(zds, n) /\ ContinueStream(zds, n)
<1> DEFINE room == inLen - inPos
           n == NextSrcSize(zds, room)
           e == zds.expected
<1>1. /\ archive' = archive /\ inLen' = inLen /\ outLen' = outLen /\ call = "loop"
      /\ zds.streamStage = "read" /\ e > 0 /\ room >= n /\ ContinueStream(zds, n)
      /\ inPos' = inPos + n
  BY DEF ReadDirect, Looping, Available
<1>2. /\ zds \in Zds /\ StageInv(zds) /\ e \in Nat /\ inPos \in Nat /\ inLen \in Nat
      /\ inPos <= inLen
  BY <1>1, InTheFrame
<1>3. zds.inPos = 0
  BY <1>1, <1>2 DEF StageInv
<1>4. n \in 1..e /\ (n # e => zds.stage = "block" /\ Frame(zds).blocks[zds.block].type = "raw")
  <2>1. \/ n = e
        \/ /\ zds.stage = "block" /\ Frame(zds).blocks[zds.block].type = "raw"
           /\ n = Smaller(Larger(room, 1), e)
    BY DEF NextSrcSize
  <2>2. room \in Nat
    BY <1>2
  <2> HIDE DEF n, room, e
  <2> QED BY <1>1, <1>2, <2>1, <2>2 DEF Smaller, Larger
<1>5. inPos' \in 0..inLen /\ inPos' > 0 /\ inPos' - inPos = n - zds.inPos
  <2>1. room = inLen - inPos
    OBVIOUS
  <2> HIDE DEF n, room, e
  <2> QED BY <1>1, <1>2, <1>3, <1>4, <2>1
<1>6. Fed(zds, n)
  BY <1>1, <1>2, <1>3, <1>4, <1>5 DEF Fed, SamePlace
<1> QED
  BY <1>1, <1>6 DEF Available

LEMMA ReadDirectStep ==
  ASSUME Ready, ReadDirect
  PROVE  StepOk
  BY ReadDirectFed, ContinueStreamStep

\* What is loaded completes the unit.
Completes ==
  LET toLoad == zds.expected - zds.inPos
      n == Smaller(toLoad, inLen - inPos)
  IN ~ (n < toLoad) /\ inPos' = inPos + n

LEMMA LoadFed ==
  ASSUME Ready, Load, Completes, NEW z, z = [zds EXCEPT !.inPos = 0]
  PROVE  Fed(z, zds.expected)
<1> DEFINE e == zds.expected
           at == zds.inPos
           toLoad == e - at
           room == inLen - inPos
           n == Smaller(toLoad, room)
<1>1. /\ archive' = archive /\ inLen' = inLen /\ outLen' = outLen /\ call = "loop"
      /\ zds.streamStage = "load" /\ ~ (n < toLoad) /\ inPos' = inPos + n
  BY DEF Load, Looping, Completes
<1>2. /\ zds \in Zds /\ StageInv(zds) /\ e \in Nat /\ at \in Nat
      /\ inPos \in Nat /\ inLen \in Nat /\ inPos <= inLen
  BY <1>1, InTheFrame DEF Ready
<1>3. at < e
  BY <1>1, <1>2 DEF StageInv
<1>4. n = toLoad /\ inPos' \in 0..inLen /\ inPos' > 0 /\ inPos' - inPos = e - at /\ e > 0
  <2>1. toLoad = e - at /\ room = inLen - inPos
    OBVIOUS
  <2> HIDE DEF e, at
  <2>2. toLoad \in Nat /\ toLoad > 0 /\ room \in Nat /\ e > 0
    BY <1>2, <1>3, <2>1
  <2> HIDE DEF toLoad, room
  <2>3. n \in Nat /\ n <= toLoad /\ n <= room
    BY <2>2 DEF Smaller
  <2> HIDE DEF n
  <2> QED BY <1>1, <1>2, <2>1, <2>2, <2>3
<1>5. /\ z \in Zds /\ SamePlace(z, zds) /\ z.inPos = 0 /\ z.streamStage = zds.streamStage
      /\ z.outStart = zds.outStart /\ z.outEnd = zds.outEnd /\ z.expected = e
  <2>1. z \in Zds
    BY <1>2 DEF Zds
  <2>2. SamePlace(z, zds)
    BY <1>2 DEF Zds, SamePlace
  <2>3. z.inPos = 0 /\ z.streamStage = zds.streamStage /\ z.outStart = zds.outStart
        /\ z.outEnd = zds.outEnd /\ z.expected = e
    BY <1>2 DEF Zds
  <2> QED BY <2>1, <2>2, <2>3
<1>6. e \in 1..z.expected /\ e = z.expected
  BY <1>2, <1>4, <1>5
<1> QED
  BY <1>1, <1>4, <1>5, <1>6 DEF Fed

LEMMA LoadStep ==
  ASSUME Ready, Load
  PROVE  StepOk
<1> DEFINE y == zds'
           e == zds.expected
           at == zds.inPos
           toLoad == e - at
           room == inLen - inPos
           n == Smaller(toLoad, room)
           tooMuch == zds.stage # "skipFrame" /\ toLoad > zds.inBuffSize - at
           z == [zds EXCEPT !.inPos = 0]
<1>1. /\ archive' = archive /\ inLen' = inLen /\ outLen' = outLen /\ call = "loop"
      /\ zds.streamStage = "load"
  BY DEF Load, Looping
<1>2. \/ /\ tooMuch /\ call' = "error" /\ inPos' = inPos /\ zds' = zds
         /\ outBuff' = outBuff /\ decoded' = decoded
      \/ /\ ~ tooMuch /\ inPos' = inPos + n
         /\ \/ /\ n < toLoad /\ y = [zds EXCEPT !.inPos = @ + n] /\ call' = "result"
               /\ outBuff' = outBuff /\ decoded' = decoded
            \/ ~ (n < toLoad) /\ ContinueStream(z, e)
  BY DEF Load, Available
<1>3. /\ zds \in Zds /\ StageInv(zds) /\ e \in Nat /\ at \in Nat /\ zds.inBuffSize \in Nat
      /\ inPos \in Nat /\ inLen \in Nat /\ inPos <= inLen
      /\ outLen \in 0..DStreamOutSize
      /\ zds.outStart <= zds.outEnd /\ zds.outEnd <= zds.outBuffSize
  BY <1>1, InTheFrame DEF Ready
<1>4. /\ at < e /\ (zds.stage # "skipFrame" => at <= zds.inBuffSize)
      /\ zds.outStart = zds.outEnd
  BY <1>1, <1>3 DEF StageInv
<1>5. /\ toLoad \in Nat /\ toLoad > 0 /\ room \in Nat /\ n \in Nat /\ n <= toLoad /\ n <= room
      /\ inPos + n \in 0..inLen /\ e > 0
  <2>1. toLoad = e - at /\ room = inLen - inPos
    OBVIOUS
  <2> HIDE DEF e, at
  <2>2. toLoad \in Nat /\ toLoad > 0 /\ room \in Nat /\ e > 0
    BY <1>3, <1>4, <2>1
  <2> HIDE DEF toLoad, room
  <2>3. n \in Nat /\ n <= toLoad /\ n <= room
    BY <2>2 DEF Smaller
  <2> HIDE DEF n
  <2> QED BY <1>3, <2>1, <2>2, <2>3
<1>6. CASE call' = "error" /\ inPos' = inPos /\ zds' = zds /\ outBuff' = outBuff
           /\ decoded' = decoded
  <2>1. inPos' \in 0..inLen
    BY <1>3, <1>6
  <2> QED BY <1>1, <1>6, <2>1, ErrorStep
<1>7. CASE /\ ~ tooMuch /\ inPos' = inPos + n
           /\ n < toLoad /\ y = [zds EXCEPT !.inPos = @ + n] /\ call' = "result"
           /\ outBuff' = outBuff /\ decoded' = decoded
  <2> DEFINE now == at + n
  <2>1. now \in Nat /\ now < e /\ (zds.stage # "skipFrame" => now <= zds.inBuffSize)
    <3> DEFINE b == zds.inBuffSize
    <3>1. /\ toLoad = e - at /\ now = at + n /\ n < toLoad
          /\ zds.stage # "skipFrame" => ~ (toLoad > b - at)
          /\ b \in Nat
      BY <1>3, <1>7
    <3> HIDE DEF e, at, toLoad, n, now, b
    <3>2. now \in Nat /\ now < e /\ (zds.stage # "skipFrame" => now <= b)
      BY <1>3, <1>5, <3>1
    <3> QED BY <3>2 DEF b
  <2>2. y = [zds EXCEPT !.inPos = now]
    BY <1>7
  <2> HIDE DEF now
  <2>3. y \in Zds
    BY <1>3, <2>1, <2>2 DEF Zds
  <2>4. SamePlace(y, zds)
    BY <1>3, <2>2 DEF Zds, SamePlace
  <2>5. y.inPos = now /\ y.streamStage = "load" /\ y.outStart = zds.outStart
        /\ y.outEnd = zds.outEnd
    BY <1>1, <1>3, <2>2 DEF Zds
  <2> HIDE DEF y
  <2>6. /\ y.outStart <= y.outEnd /\ y.outEnd <= y.outBuffSize /\ y.outStart = y.outEnd
        /\ ~ Pending(y) /\ y.expected > 0
        /\ y.inPos < y.expected /\ (y.stage # "skipFrame" => y.inPos <= y.inBuffSize)
    BY <1>3, <1>4, <1>5, <2>1, <2>4, <2>5 DEF SamePlace, Pending
  <2>7. inPos' - inPos = y.inPos - zds.inPos
    <3>1. inPos' = inPos + n /\ y.inPos = at + n /\ zds.inPos = at
      BY <1>7, <2>5 DEF now
    <3>2. (inPos + n) - inPos = (at + n) - at
      <4> HIDE DEF at, n
      <4> QED BY <1>3, <1>5
    <3> QED BY <3>1, <3>2
  <2>8. /\ (y.outEnd - y.outStart) + outLen' = (zds.outEnd - zds.outStart) + outLen
        /\ inPos' \in 0..inLen /\ outLen' \in 0..DStreamOutSize
    BY <1>1, <1>3, <1>5, <1>7, <2>5
  <2>9. FlushesInOrder'
    BY <2>5 DEF FlushesInOrder, y
  <2> QED
    BY <1>1, <1>7, <2>3, <2>4, <2>5, <2>6, <2>7, <2>8, <2>9, StayingOk DEF y
<1>8. CASE /\ ~ tooMuch /\ inPos' = inPos + n /\ ~ (n < toLoad) /\ ContinueStream(z, e)
  <2>4. Fed(z, e)
    <3>1. Completes
      BY <1>8 DEF Completes
    <3> QED BY <3>1, LoadFed
  <2>5. ContinueStream(z, e)
    BY <1>8
  <2> QED BY <2>4, <2>5, ContinueStreamStep
<1> QED
  BY <1>2, <1>6, <1>7, <1>8

LEMMA DecodeStep ==
  ASSUME Ready, Decode
  PROVE  StepOk /\ archive' = archive /\ inLen' = inLen /\ istart' = istart
<1>1. archive' = archive /\ inLen' = inLen /\ istart' = istart
  BY DEF Decode, StartFrame, LoadHeader, HeaderFails, SinglePass, ConsumeHeader, ReadEnd,
         ReadDirect, ReadShort, Load, Flush, Result, LoadingHeader, HeaderLoaded, Looping
<1>2. StepOk
  BY StartFrameStep, LoadHeaderStep, HeaderFailsStep, SinglePassStep, ConsumeHeaderStep,
     ReadEndStep, ReadDirectStep, ReadShortStep, LoadStep, FlushStep, ResultStep DEF Decode
<1> QED
  BY <1>1, <1>2

-----------------------------------------------------------------------------
(* The invariant                                                           *)

\* The constants of the archive and of the buffers.
LEMMA SizesAreNumbers ==
  ASSUME archive \in Archives
  PROVE  /\ ArchiveSize(archive) \in Nat /\ ArchivePlain(archive) \in Nat
         /\ DStreamInSize \in Nat /\ DStreamInSize > 0 /\ DStreamOutSize \in Nat
<1>1. ArchiveSize(archive) \in Nat /\ ArchivePlain(archive) \in Nat
  <2> DEFINE n == Len(archive)
  <2>1. n \in Nat
    BY FrameSums
  <2>2. n \in 0..n
    <3> HIDE DEF n
    <3> QED BY <2>1
  <2>3. ArchiveSize(archive) = Sizes(n) /\ ArchivePlain(archive) = Plains(n)
    BY FrameSums
  <2> QED BY <2>2, <2>3, FrameSums
<1>2. DStreamInSize \in Nat /\ DStreamInSize > 0 /\ DStreamOutSize \in Nat
  BY ZstdAssumption DEF DStreamInSize, DStreamOutSize, BlockHeaderSize
<1> QED
  BY <1>1, <1>2

\* What has been consumed and produced are numbers.
LEMMA CountsAreNumbers ==
  ASSUME archive \in Archives, NEW z \in Zds, StageInv(z)
  PROVE  Consumed(z) \in Nat /\ Produced(z) \in Int
<1>1. CASE z.frame = 0
  BY <1>1 DEF Consumed, Produced
<1>2. CASE z.frame > 0
  <2>1. Inside(z) \in Int /\ PlainInside(z) \in Int
    BY <1>2, InsideType
  <2> QED BY <1>2, <2>1, Within
<1>3. z.frame \in Nat
  BY DEF Zds
<1> QED
  BY <1>1, <1>2, <1>3

LEMMA ReadyNow ==
  ASSUME ReadInv, pc = "decode"
  PROVE  Ready
<1>1. /\ archive \in Archives /\ inLen \in Nat /\ inPos \in 0..inLen /\ istart \in 0..inLen
      /\ outLen \in 0..DStreamOutSize /\ decoded \in Nat
      /\ zds \in Zds /\ DOMAIN outBuff = 1..zds.outBuffSize
      /\ bytesLeft \in 0..ArchiveSize(archive) /\ hashed = ArchiveSize(archive) - bytesLeft
  <2>1. /\ archive \in Archives /\ inLen \in 0..DStreamInSize /\ inPos \in 0..inLen
        /\ istart \in 0..inLen
        /\ outLen \in 0..DStreamOutSize /\ decoded \in Nat
        /\ zds \in Zds /\ DOMAIN outBuff = 1..zds.outBuffSize
        /\ bytesLeft \in 0..ArchiveSize(archive) /\ hashed = ArchiveSize(archive) - bytesLeft
    BY DEF ReadInv, Typed
  <2>2. inLen \in Nat
    BY <2>1
  <2> QED BY <2>1, <2>2
<1>2. ArchiveSize(archive) \in Nat /\ DStreamOutSize \in Nat
  BY <1>1, SizesAreNumbers
<1>3. call \in {"loop", "result"}
  BY DEF ReadInv, ReaderInv
<1>4. StageInv(zds) /\ CallInv /\ FlushesInOrder
  BY DEF ReadInv
<1>5. Consumed(zds) + (inLen - inPos) - KeptBack <= ArchiveSize(archive)
  <2>1. hashed = Consumed(zds) + (inLen - inPos) - KeptBack
    BY <1>3 DEF ReadInv, Counted
  <2>2. hashed <= ArchiveSize(archive)
    <3> DEFINE all == ArchiveSize(archive)
    <3>1. all \in Nat /\ bytesLeft \in 0..all /\ hashed = all - bytesLeft
      BY <1>1, <1>2
    <3> HIDE DEF all
    <3>2. hashed <= all
      BY <3>1
    <3> QED BY <3>2 DEF all
  <2> QED BY <2>1, <2>2
<1> QED
  BY <1>1, <1>2, <1>3, <1>4, <1>5 DEF Ready

LEMMA InitInv ==
  ASSUME Init
  PROVE  ReadInv
<1>1. /\ archive \in Archives /\ call = "out" /\ inPos = 0 /\ inLen = 0 /\ outLen = 0
      /\ istart = 0 /\ zds = NoFrame /\ outBuff = <<>> /\ decoded = 0
      /\ pc = "idle" /\ bytesLeft = ArchiveSize(archive)
      /\ ourPos = 0 /\ want = 0 /\ got = 0 /\ delivered = 0 /\ hashed = 0
  BY DEF Init, DecoderInit
<1>2. ArchiveSize(archive) \in Nat /\ DStreamInSize \in Nat /\ DStreamOutSize \in Nat
  BY <1>1, SizesAreNumbers
<1>3. zds \in Zds
  BY <1>1 DEF NoFrame, Zds
<1>4. /\ zds.streamStage = "init" /\ zds.frame = 0 /\ zds.inPos = 0 /\ zds.outStart = 0
      /\ zds.outEnd = 0 /\ zds.hostageByte = FALSE /\ zds.outBuffSize = 0 /\ zds.expected = 0
  BY <1>1 DEF NoFrame
<1>5. Len(archive) \in Nat
  BY <1>1, FrameSums
<1>6. StageInv(zds)
  BY <1>4, <1>5 DEF StageInv
<1>7. Typed
  <2> DEFINE all == ArchiveSize(archive)
  <2>1. bytesLeft \in 0..all /\ hashed = all - bytesLeft
    <3>1. all \in Nat /\ bytesLeft = all /\ hashed = 0
      BY <1>1, <1>2
    <3> HIDE DEF all
    <3> QED BY <3>1
  <2>2. DOMAIN outBuff = 1..zds.outBuffSize
    BY <1>1, <1>4
  <2>3. inLen \in 0..DStreamInSize /\ inPos \in 0..inLen /\ istart \in 0..inLen
        /\ outLen \in 0..DStreamOutSize
    BY <1>1, <1>2
  <2> QED BY <1>1, <1>3, <2>1, <2>2, <2>3 DEF Typed
<1>8. ReaderInv
  BY <1>1 DEF ReaderInv
<1>9. CallInv
  BY <1>1, <1>4 DEF CallInv, Pending
<1>10. Counted
  <2>1. Consumed(zds) = 0 /\ Produced(zds) = 0 /\ KeptBack = 0
    BY <1>4 DEF Consumed, Produced, KeptBack
  <2> QED BY <1>1, <2>1 DEF Counted
<1>11. NoByteLost /\ FlushesInOrder
  BY <1>1, <1>4 DEF NoByteLost, FlushesInOrder
<1> QED
  BY <1>6, <1>7, <1>8, <1>9, <1>10, <1>11 DEF ReadInv

\* A step of the decoder: what it takes from the input it adds to what it has consumed.
LEMMA DecoderStepInv ==
  ASSUME ReadInv, DecoderStep
  PROVE  ReadInv'
<1>1. /\ pc = "decode" /\ Decode
      /\ pc' = CASE call' = "out" -> "copy" [] call' = "error" -> "fatal" [] OTHER -> "decode"
      /\ UNCHANGED <<bytesLeft, ourPos, want, got, delivered, hashed>>
  BY DEF DecoderStep, readerVars
<1>2. Ready
  BY <1>1, ReadyNow
<1>3. StepOk /\ archive' = archive /\ inLen' = inLen /\ istart' = istart
  BY <1>1, <1>2, DecodeStep
<1>4. ArchiveSize(archive)' = ArchiveSize(archive)
  BY <1>3
<1>5. Typed'
  <2>1. /\ archive \in Archives /\ inLen \in 0..DStreamInSize /\ istart \in 0..inLen
        /\ delivered \in Nat
        /\ bytesLeft \in 0..ArchiveSize(archive) /\ hashed = ArchiveSize(archive) - bytesLeft
    BY DEF ReadInv, Typed
  <2>2. /\ archive' \in Archives /\ inLen' \in 0..DStreamInSize /\ istart' \in 0..inLen'
        /\ delivered' \in Nat
        /\ bytesLeft' \in 0..ArchiveSize(archive)'
        /\ hashed' = ArchiveSize(archive)' - bytesLeft'
    BY <1>1, <1>3, <1>4, <2>1
  <2>3. pc' \in {"idle", "copy", "refill", "decode", "eof", "ioerror", "fatal"}
    BY <1>1, <1>3 DEF StepOk
  <2>4. /\ call' \in {"out", "loop", "result", "error"} /\ inPos' \in 0..inLen'
        /\ outLen' \in 0..DStreamOutSize
        /\ zds' \in Zds /\ DOMAIN outBuff' = 1..zds'.outBuffSize /\ decoded' \in Nat
    BY <1>3 DEF StepOk
  <2> QED BY <2>2, <2>3, <2>4 DEF Typed
<1>6. ourPos = 0 /\ want \in Counts \cup {0} /\ got \in 0..want /\ got < want
      /\ outLen \in Nat
  BY <1>1, <1>2 DEF ReadInv, ReaderInv, Ready
<1>7. ReaderInv'
  <2>1. ourPos' \in 0..outLen'
    BY <1>1, <1>3, <1>6 DEF StepOk
  <2>2. want' \in Counts \cup {0} /\ got' \in 0..want' /\ got' < want' /\ ourPos' = 0
    BY <1>1, <1>6
  <2>3. call' \in {"out", "loop", "result", "error"}
    BY <1>3 DEF StepOk
  <2>4. \/ pc' = "copy" /\ call' = "out"
        \/ pc' = "fatal" /\ call' = "error"
        \/ pc' = "decode" /\ call' \in {"loop", "result"}
    BY <1>1, <2>3
  <2> QED BY <2>1, <2>2, <2>4 DEF ReaderInv
<1>8. /\ StageInv(zds)' <=> StageInv(zds')
      /\ Consumed(zds)' = Consumed(zds') /\ Produced(zds)' = Produced(zds')
  BY <1>3, SameArchive
<1>9. StageInv(zds)' /\ CallInv' /\ FlushesInOrder'
  BY <1>3, <1>8 DEF StepOk
<1>10. Counted'
  <2>1. SUFFICES ASSUME call' # "error"
                 PROVE  /\ hashed' = Consumed(zds)' + (inLen' - inPos') - KeptBack'
                        /\ decoded' = Produced(zds)'
    BY DEF Counted
  <2>2. call # "error"
    BY <1>2 DEF Ready
  <2> DEFINE c == Consumed(zds)
             d == Consumed(zds')
             p == Produced(zds)
             q == Produced(zds')
             k == KeptBack
             l == KeptBack'
  <2>3. hashed = c + (inLen - inPos) - k /\ decoded = p
    BY <2>2 DEF ReadInv, Counted
  <2>4. d - inPos' - l = c - inPos - k /\ q - decoded' = p - decoded
    BY <1>3, <2>1 DEF StepOk
  <2>5. c \in Nat /\ p \in Int
    BY <1>2, CountsAreNumbers DEF Ready
  <2>6. d \in Nat /\ q \in Int
    <3>1. (archive \in Archives)' /\ (zds \in Zds)' /\ StageInv(zds)'
      BY <1>5, <1>9 DEF Typed
    <3>2. Consumed(zds)' \in Nat /\ Produced(zds)' \in Int
      <4>1. archive' \in Archives /\ zds' \in Zds /\ StageInv(zds')
        BY <3>1, <1>8
      <4>2. archive \in Archives
        BY <1>2 DEF Ready
      <4>3. Consumed(zds') \in Nat /\ Produced(zds') \in Int
        BY <1>3, <4>1, <4>2, CountsAreNumbers DEF StepOk
      <4> QED BY <1>8, <4>3
    <3> QED BY <3>2, <1>8
  <2>7. k \in {0, 1} /\ l \in {0, 1}
    BY DEF KeptBack
  <2>8. inPos \in Nat /\ inPos' \in Nat /\ inLen \in Nat /\ decoded \in Nat /\ decoded' \in Nat
    BY <1>2, <1>3 DEF Ready, StepOk
  <2>9. d = Consumed(zds)' /\ q = Produced(zds)'
    BY <1>8
  <2> DEFINE i == inPos
             i2 == inPos'
             n == inLen
             x == decoded
             x2 == decoded'
  <2> HIDE DEF c, d, p, q, k, l, i, i2, n, x, x2
  <2>10. d - i2 - l = c - i - k /\ q - x2 = p - x /\ x = p
    BY <2>3, <2>4 DEF i, i2, x, x2
  <2>11. i \in Nat /\ i2 \in Nat /\ n \in Nat /\ x \in Nat /\ x2 \in Nat
    BY <2>8 DEF i, i2, n, x, x2
  <2>12. c + (n - i) - k = d + (n - i2) - l /\ q = x2
    <3>1. k \in Int /\ l \in Int
      BY <2>7
    <3> QED BY <2>5, <2>6, <2>10, <2>11, <3>1
  <2> QED BY <1>1, <1>3, <2>3, <2>9, <2>12 DEF l, i, i2, n, x2
<1>11. NoByteLost'
  <2> DEFINE a == zds.outStart
             b == zds.outEnd
             a2 == zds'.outStart
             b2 == zds'.outEnd
  <2>1. /\ decoded' - outLen' - (b2 - a2) = decoded - outLen - (b - a)
        /\ decoded' \in Nat /\ outLen' \in Nat
    BY <1>3, SizesAreNumbers, <1>2 DEF StepOk, Ready
  <2>2. decoded = delivered + (outLen - 0) + (b - a)
    BY <1>6 DEF ReadInv, NoByteLost
  <2>3. a \in Nat /\ b \in Nat /\ a2 \in Nat /\ b2 \in Nat
    BY <1>2, <1>3 DEF Ready, StepOk, Zds
  <2>4. delivered \in Nat /\ decoded \in Nat /\ outLen \in Nat
    BY <1>6 DEF ReadInv, Typed
  <2> DEFINE x == decoded'
             o == outLen'
  <2> HIDE DEF a, b, a2, b2, x, o
  <2>5. x - o - (b2 - a2) = decoded - outLen - (b - a) /\ x \in Nat /\ o \in Nat
    BY <2>1 DEF x, o
  <2>6. x = delivered + (o - 0) + (b2 - a2)
    BY <2>2, <2>3, <2>4, <2>5
  <2> QED BY <1>1, <1>6, <2>6 DEF NoByteLost, a2, b2, x, o
<1> QED
  BY <1>5, <1>7, <1>9, <1>10, <1>11 DEF ReadInv

\* The decoder is untouched by a step of the reader.
LEMMA DecoderUntouched ==
  ASSUME ReadInv, UNCHANGED <<bytesLeft, hashed, decoderVars>>,
         pc' \in {"idle", "copy", "refill", "decode", "eof", "ioerror", "fatal"},
         delivered' \in Nat
  PROVE  Typed' /\ StageInv(zds)' /\ CallInv' /\ Counted' /\ FlushesInOrder'
<1>1. /\ bytesLeft' = bytesLeft /\ hashed' = hashed /\ archive' = archive /\ call' = call
      /\ inPos' = inPos /\ inLen' = inLen /\ outLen' = outLen /\ istart' = istart
      /\ zds' = zds /\ outBuff' = outBuff /\ decoded' = decoded
  BY DEF decoderVars
<1>2. Typed'
  BY <1>1 DEF ReadInv, Typed
<1>3. /\ StageInv(zds)' <=> StageInv(zds)
      /\ Consumed(zds)' = Consumed(zds) /\ Produced(zds)' = Produced(zds)
      /\ Frame(zds)' = Frame(zds)
  BY <1>1, SameArchive
<1>4. StageInv(zds)'
  BY <1>3 DEF ReadInv
<1>5. KeptBack' = KeptBack
  BY <1>1 DEF KeptBack
<1>6. Counted'
  BY <1>1, <1>3, <1>5 DEF ReadInv, Counted
<1>7. CallInv'
  BY <1>1, <1>3 DEF ReadInv, CallInv, Pending
<1>8. FlushesInOrder'
  BY <1>1 DEF ReadInv, FlushesInOrder
<1> QED
  BY <1>2, <1>4, <1>6, <1>7, <1>8

LEMMA CallInvStep ==
  ASSUME ReadInv, Call
  PROVE  ReadInv'
<1>1. /\ pc = "idle" /\ want' \in Counts /\ got' = 0 /\ pc' = "copy"
      /\ UNCHANGED <<bytesLeft, ourPos, delivered, hashed, decoderVars>>
  BY DEF Call
<1>2. Typed' /\ StageInv(zds)' /\ CallInv' /\ Counted' /\ FlushesInOrder'
  BY <1>1, DecoderUntouched DEF ReadInv, Typed
<1>3. ReaderInv'
  <2>1. ourPos \in 0..outLen /\ call = "out"
    BY <1>1 DEF ReadInv, ReaderInv
  <2>2. ourPos' \in 0..outLen' /\ call' = "out"
    BY <1>1, <2>1 DEF decoderVars
  <2>3. want' \in Nat /\ want' > 0
    BY <1>1, CountsAssumption
  <2>4. got' \in 0..want' /\ got' < want'
    BY <1>1, <2>3
  <2> QED BY <1>1, <2>2, <2>4 DEF ReaderInv
<1>4. NoByteLost'
  BY <1>1 DEF ReadInv, NoByteLost, decoderVars
<1> QED
  BY <1>2, <1>3, <1>4 DEF ReadInv

LEMMA CopyStep ==
  ASSUME ReadInv, Copy
  PROVE  ReadInv'
<1> DEFINE room == outLen - ourPos
           still == want - got
           n == Smaller(room, still)
<1>1. /\ pc = "copy" /\ got' = got + n /\ delivered' = delivered + n /\ ourPos' = ourPos + n
      /\ pc' = IF n > 0 /\ got' = want THEN "idle" ELSE "refill"
      /\ UNCHANGED <<bytesLeft, want, hashed, decoderVars>>
  BY DEF Copy
<1>2. /\ ourPos \in 0..outLen /\ outLen \in Nat /\ want \in Nat /\ got \in 0..want /\ got < want
      /\ want \in Counts \cup {0} /\ call = "out" /\ delivered \in Nat
  <2>1. ourPos \in 0..outLen /\ want \in Counts \cup {0} /\ got \in 0..want /\ got < want
        /\ call = "out" /\ delivered \in Nat
    BY <1>1 DEF ReadInv, ReaderInv, Typed
  <2>2. want \in Nat
    BY <2>1, CountsAssumption
  <2>3. outLen \in Nat
    BY SizesAreNumbers DEF ReadInv, Typed
  <2> QED BY <2>1, <2>2, <2>3
<1>3. /\ room \in Nat /\ still \in Nat /\ still > 0 /\ n \in Nat /\ n <= room /\ n <= still
      /\ n = room \/ n = still
  <2>1. room \in Nat /\ still \in Nat /\ still > 0
    BY <1>2
  <2> HIDE DEF room, still
  <2> QED BY <2>1 DEF Smaller
<1>4. /\ ourPos + n \in 0..outLen /\ got + n \in 0..want /\ delivered + n \in Nat
      /\ ~ (n > 0 /\ got + n = want) => ourPos + n = outLen /\ got + n < want
  <2>1. room = outLen - ourPos /\ still = want - got
    OBVIOUS
  <2> HIDE DEF room, still, n
  <2> QED BY <1>2, <1>3, <2>1
<1>5. Typed' /\ StageInv(zds)' /\ CallInv' /\ Counted' /\ FlushesInOrder'
  <2>1. pc' \in {"idle", "copy", "refill", "decode", "eof", "ioerror", "fatal"}
    BY <1>1
  <2> QED BY <1>1, <1>4, <2>1, DecoderUntouched
<1>6. ReaderInv'
  <2>1. outLen' = outLen /\ call' = "out" /\ want' = want
    BY <1>1, <1>2 DEF decoderVars
  <2>2. ourPos' \in 0..outLen' /\ want' \in Counts \cup {0} /\ got' \in 0..want'
    BY <1>1, <1>2, <1>4, <2>1
  <2>3. \/ pc' = "idle"
        \/ pc' = "refill" /\ ourPos' = outLen' /\ got' < want'
    <3> HIDE DEF n
    <3>1. CASE n > 0 /\ got + n = want
      BY <1>1, <3>1
    <3>2. CASE ~ (n > 0 /\ got + n = want)
      BY <1>1, <1>4, <2>1, <3>2
    <3> QED BY <3>1, <3>2
  <2> QED BY <2>1, <2>2, <2>3 DEF ReaderInv
<1>7. NoByteLost'
  <2> DEFINE w == zds.outEnd - zds.outStart
  <2>1. decoded = delivered + (outLen - ourPos) + w
    BY DEF ReadInv, NoByteLost
  <2>2. w \in Int
    <3>1. zds.outEnd \in Nat /\ zds.outStart \in Nat
      BY DEF ReadInv, Typed, Zds
    <3> QED BY <3>1
  <2> HIDE DEF w, n
  <2>3. decoded = (delivered + n) + (outLen - (ourPos + n)) + w
    BY <1>2, <1>3, <2>1, <2>2
  <2> QED BY <1>1, <2>3 DEF NoByteLost, decoderVars, w
<1> QED
  BY <1>5, <1>6, <1>7 DEF ReadInv

\* Reading into the input buffer and calling the decoder with an empty output buffer.
LEMMA RefillStep ==
  ASSUME ReadInv, Refill
  PROVE  ReadInv'
<1> DEFINE toRead == Smaller(DStreamInSize, bytesLeft)
           all == ArchiveSize(archive)
<1>1. /\ pc = "refill"
      /\ want' = want /\ got' = got /\ delivered' = delivered /\ archive' = archive
      /\ zds' = zds /\ outBuff' = outBuff /\ decoded' = decoded
  BY DEF Refill
<1>2. \/ /\ inPos < inLen
         /\ UNCHANGED <<bytesLeft, inPos, inLen, hashed>>
         /\ CallDecoder
      \/ /\ inPos = inLen /\ toRead = 0 /\ pc' = "eof"
         /\ UNCHANGED <<bytesLeft, inPos, inLen, hashed, outLen, ourPos, call, istart>>
      \/ /\ inPos = inLen
         /\ \E amount \in 1..toRead :
              /\ inLen' = amount /\ inPos' = 0
              /\ bytesLeft' = bytesLeft - amount
              /\ hashed' = hashed + amount
         /\ CallDecoder
      \/ /\ inPos = inLen /\ pc' = "ioerror"
         /\ UNCHANGED <<bytesLeft, inPos, inLen, hashed, outLen, ourPos, call, istart>>
  BY DEF Refill, Hashed
<1>3. /\ archive \in Archives /\ call = "out" /\ inLen \in Nat /\ inPos \in 0..inLen
      /\ inLen \in 0..DStreamInSize /\ istart \in 0..inLen
      /\ outLen \in 0..DStreamOutSize /\ outLen \in Nat /\ ourPos = outLen /\ zds \in Zds
      /\ DOMAIN outBuff = 1..zds.outBuffSize
      /\ decoded \in Nat /\ delivered \in Nat
      /\ bytesLeft \in 0..all /\ hashed = all - bytesLeft
      /\ want \in Counts \cup {0} /\ got \in 0..want /\ got < want
  <2>1. /\ archive \in Archives /\ call = "out" /\ inPos \in 0..inLen
        /\ inLen \in 0..DStreamInSize /\ istart \in 0..inLen
        /\ outLen \in 0..DStreamOutSize /\ ourPos = outLen /\ zds \in Zds
        /\ DOMAIN outBuff = 1..zds.outBuffSize
        /\ decoded \in Nat /\ delivered \in Nat
        /\ bytesLeft \in 0..all /\ hashed = all - bytesLeft
        /\ want \in Counts \cup {0} /\ got \in 0..want /\ got < want
    BY <1>1 DEF ReadInv, Typed, ReaderInv
  <2> QED BY <2>1, SizesAreNumbers
<1>4. /\ all \in Nat /\ DStreamInSize \in Nat /\ DStreamInSize > 0 /\ DStreamOutSize \in Nat
      /\ ArchiveSize(archive)' = all
  BY <1>1, <1>3, SizesAreNumbers
<1>5. /\ toRead \in Nat /\ toRead <= DStreamInSize /\ toRead <= bytesLeft
      /\ toRead = 0 => bytesLeft = 0
  <2> HIDE DEF all
  <2> QED BY <1>3, <1>4 DEF Smaller
<1>6. /\ StageInv(zds)' <=> StageInv(zds)
      /\ Consumed(zds)' = Consumed(zds) /\ Produced(zds)' = Produced(zds)
      /\ Frame(zds)' = Frame(zds)
  BY <1>1, SameArchive
<1>7. StageInv(zds)' /\ FlushesInOrder'
  BY <1>1, <1>6 DEF ReadInv, FlushesInOrder
<1>8. CASE pc' \in {"eof", "ioerror"}
  <2>1. /\ inPos = inLen /\ (pc' = "eof" => bytesLeft = 0)
        /\ UNCHANGED <<bytesLeft, inPos, inLen, hashed, outLen, ourPos, call, istart>>
    BY <1>2, <1>5, <1>8 DEF CallDecoder
  <2>2. Typed' /\ StageInv(zds)' /\ CallInv' /\ Counted' /\ FlushesInOrder'
    BY <1>1, <1>3, <1>8, <2>1, DecoderUntouched DEF decoderVars
  <2>3. ReaderInv'
    BY <1>1, <1>3, <1>8, <2>1 DEF ReadInv, ReaderInv
  <2>4. NoByteLost'
    BY <1>1, <2>1 DEF ReadInv, NoByteLost
  <2> QED BY <2>2, <2>3, <2>4 DEF ReadInv
<1>9. CASE CallDecoder
  <2>1. pc' = "decode" /\ call' = "loop" /\ outLen' = 0 /\ ourPos' = 0 /\ istart' = inPos'
    BY <1>9 DEF CallDecoder
  <2>2. \/ inPos < inLen /\ inPos' = inPos /\ inLen' = inLen /\ bytesLeft' = bytesLeft
           /\ hashed' = hashed
        \/ \E amount \in 1..toRead :
             /\ inPos = inLen /\ inLen' = amount /\ inPos' = 0
             /\ bytesLeft' = bytesLeft - amount /\ hashed' = hashed + amount
    BY <1>2, <2>1
  <2>3. /\ inLen' \in 0..DStreamInSize /\ inPos' \in 0..inLen' /\ inPos' < inLen'
        /\ bytesLeft' \in 0..all /\ hashed' = all - bytesLeft'
        /\ hashed' - (inLen' - inPos') = hashed - (inLen - inPos)
    <3> HIDE DEF toRead, all
    <3>1. CASE /\ inPos < inLen /\ inPos' = inPos /\ inLen' = inLen /\ bytesLeft' = bytesLeft
               /\ hashed' = hashed
      BY <1>3, <3>1
    <3>2. ASSUME NEW amount \in 1..toRead, inPos = inLen, inLen' = amount, inPos' = 0,
                 bytesLeft' = bytesLeft - amount, hashed' = hashed + amount
          PROVE  /\ inLen' \in 0..DStreamInSize /\ inPos' \in 0..inLen' /\ inPos' < inLen'
                 /\ bytesLeft' \in 0..all /\ hashed' = all - bytesLeft'
                 /\ hashed' - (inLen' - inPos') = hashed - (inLen - inPos)
      <4>0. amount \in Nat /\ amount <= toRead /\ 0 < amount
        BY <1>5
      <4>1. amount \in 0..DStreamInSize /\ 0 \in 0..amount /\ 0 < amount
        BY <1>4, <1>5, <4>0
      <4>2. bytesLeft - amount \in 0..all /\ hashed + amount = all - (bytesLeft - amount)
        BY <1>3, <1>4, <1>5, <4>0
      <4>3. (hashed + amount) - (amount - 0) = hashed - (inLen - inLen)
        BY <1>3, <1>4, <4>0
      <4> QED BY <3>2, <4>1, <4>2, <4>3
    <3> QED BY <2>2, <3>1, <3>2
  <2>4. Typed'
    <3>1. istart' \in 0..inLen' /\ outLen' \in 0..DStreamOutSize
      BY <1>4, <2>1, <2>3
    <3> QED BY <1>1, <1>3, <1>4, <2>1, <2>3, <3>1 DEF Typed
  <2>5. ReaderInv'
    BY <1>1, <1>3, <2>1 DEF ReaderInv
  <2>6. CallInv'
    <3>1. call = "out" /\ zds.expected = 0 /\ Pending(zds) => zds.hostageByte
      BY DEF ReadInv, CallInv
    <3>2. zds'.expected = 0 /\ Pending(zds)' => zds'.hostageByte
      BY <1>1, <1>3, <3>1 DEF Pending
    <3> QED BY <2>1, <2>3, <3>2 DEF CallInv
  <2>7. Counted'
    <3>1. KeptBack' = KeptBack
      BY <1>1, <1>3, <2>1 DEF KeptBack
    <3> DEFINE c == Consumed(zds)
               k == KeptBack
               h == hashed
               h2 == hashed'
               a == inLen - inPos
               b == inLen' - inPos'
    <3>2. h = c + a - k /\ decoded = Produced(zds)
      BY <1>3 DEF ReadInv, Counted
    <3>3. c \in Nat /\ k \in Int
      BY <1>3, CountsAreNumbers DEF ReadInv, KeptBack
    <3>4. h2 - b = h - a /\ a \in Int /\ b \in Int /\ h \in Int /\ h2 \in Int
      <4>1. /\ inLen' \in 0..DStreamInSize /\ inPos' \in 0..inLen' /\ bytesLeft' \in 0..all
            /\ hashed' = all - bytesLeft' /\ h2 - b = h - a
        BY <2>3
      <4>2. a \in Int /\ h \in Int
        <5> HIDE DEF all
        <5> QED BY <1>3, <1>4
      <4> DEFINE n == inLen'
                 i == inPos'
                 l == bytesLeft'
      <4> HIDE DEF n, i, l, all
      <4>3. n \in 0..DStreamInSize /\ i \in 0..n /\ l \in 0..all
        BY <4>1 DEF n, i, l
      <4>4. n - i \in Int /\ all - l \in Int
        BY <1>4, <4>3
      <4> QED BY <4>1, <4>2, <4>4 DEF n, i, l
    <3> HIDE DEF c, k, h, h2, a, b
    <3>5. h2 = c + b - k
      BY <3>2, <3>3, <3>4
    <3> QED BY <1>1, <1>6, <3>1, <3>2, <3>5 DEF Counted, c, k, h2, b
  <2>8. NoByteLost'
    <3> DEFINE w == zds.outEnd - zds.outStart
    <3>1. decoded = delivered + (outLen - outLen) + w
      BY <1>3 DEF ReadInv, NoByteLost
    <3>2. w \in Int
      <4>1. zds.outEnd \in Nat /\ zds.outStart \in Nat
        BY <1>3 DEF Zds
      <4> QED BY <4>1
    <3> HIDE DEF w
    <3>3. decoded = delivered + (0 - 0) + w
      BY <1>3, <3>1, <3>2
    <3> QED BY <1>1, <2>1, <3>3 DEF NoByteLost, w
  <2> QED BY <1>7, <2>4, <2>5, <2>6, <2>7, <2>8 DEF ReadInv
<1> QED
  BY <1>2, <1>8, <1>9

LEMMA StutterStep ==
  ASSUME ReadInv, UNCHANGED vars
  PROVE  ReadInv'
<1>1. UNCHANGED <<pc, bytesLeft, ourPos, want, got, delivered, hashed, decoderVars>>
  BY DEF vars, readerVars
<1>2. Typed' /\ StageInv(zds)' /\ CallInv' /\ Counted' /\ FlushesInOrder'
  <2>1. /\ pc' \in {"idle", "copy", "refill", "decode", "eof", "ioerror", "fatal"}
        /\ delivered' \in Nat
    BY <1>1 DEF ReadInv, Typed
  <2> QED BY <1>1, <2>1, DecoderUntouched
<1>3. ReaderInv'
  BY <1>1 DEF ReadInv, ReaderInv, decoderVars
<1>4. NoByteLost'
  BY <1>1 DEF ReadInv, NoByteLost, decoderVars
<1> QED
  BY <1>2, <1>3, <1>4 DEF ReadInv

\* unzstd_read and the streaming decoder always know where they are in the archive:
\* between which frames or units, with how much taken and how much handed out.
THEOREM ReadInvariant == Spec => []ReadInv
<1>1. Init => ReadInv
  BY InitInv
<1>2. ReadInv /\ [Next]_vars => ReadInv'
  BY CallInvStep, CopyStep, RefillStep, DecoderStepInv, StutterStep DEF Next
<1> QED
  BY <1>1, <1>2, PTL DEF Spec

-----------------------------------------------------------------------------
(* What follows from it                                                    *)

\* Every index stays within its buffer, and every buffer within its bounds.
THEOREM TypeCorrect == Spec => []TypeOK
<1>1. ReadInv => TypeOK
  <2> SUFFICES ASSUME ReadInv PROVE TypeOK
    OBVIOUS
  <2> DEFINE all == ArchiveSize(archive)
  <2>1. /\ archive \in Archives /\ inLen \in 0..DStreamInSize /\ inPos \in 0..inLen
        /\ outLen \in 0..DStreamOutSize /\ zds \in Zds /\ decoded \in Nat /\ delivered \in Nat
        /\ bytesLeft \in 0..all /\ hashed = all - bytesLeft /\ ourPos \in 0..outLen
    BY DEF ReadInv, Typed, ReaderInv
  <2>2. all \in Nat /\ DStreamOutSize \in Nat
    BY <2>1, SizesAreNumbers
  <2>3. hashed \in 0..all
    <3> HIDE DEF all
    <3> QED BY <2>1, <2>2
  <2>4. /\ zds.frame \in 0..Len(archive) /\ zds.outStart <= zds.outEnd
        /\ zds.outEnd <= zds.outBuffSize
        /\ zds.outStart \in Nat /\ zds.outEnd \in Nat /\ zds.outBuffSize \in Nat
        /\ zds.inPos \in Nat /\ zds.inBuffSize \in Nat
    BY <2>1 DEF ReadInv, StageInv, Zds
  <2>5. zds.stage # "skipFrame" => zds.inPos <= zds.inBuffSize
    BY <2>4 DEF ReadInv, StageInv
  <2>6. delivered \in 0..decoded
    <3> DEFINE a == zds.outStart
               b == zds.outEnd
    <3>1. decoded = delivered + (outLen - ourPos) + (b - a)
      BY DEF ReadInv, NoByteLost
    <3>2. a \in Nat /\ b \in Nat /\ a <= b
      BY <2>4
    <3>3. outLen \in Nat /\ ourPos \in 0..outLen
      BY <2>1, <2>2
    <3> HIDE DEF a, b
    <3> QED BY <2>1, <3>1, <3>2, <3>3
  <2>7. zds.outStart \in 0..zds.outEnd /\ zds.outEnd \in 0..zds.outBuffSize
    BY <2>4
  <2>8. /\ zds.streamStage \in {"init", "loadHeader", "read", "load", "flush"}
        /\ zds.stage \in {"frameHeader", "blockHeader", "block", "checksum", "skipFrame"}
    BY <2>1 DEF Zds
  <2>9. /\ pc \in {"idle", "copy", "refill", "decode", "eof", "ioerror", "fatal"}
        /\ call \in {"out", "loop", "result", "error"}
        /\ istart \in 0..inLen /\ want \in Counts \cup {0} /\ got \in 0..want
        /\ DOMAIN outBuff = 1..zds.outBuffSize
    BY DEF ReadInv, Typed, ReaderInv
  <2> QED BY <2>1, <2>3, <2>4, <2>5, <2>6, <2>7, <2>8, <2>9 DEF TypeOK
<1> QED
  BY <1>1, ReadInvariant, PTL

\* No decompressed byte is lost or handed out twice on its way from the decoder to the
\* extractor.
THEOREM NothingLost == Spec => []NoByteLost
<1>1. ReadInv => NoByteLost
  BY DEF ReadInv
<1> QED
  BY <1>1, ReadInvariant, PTL

\* The digest is that of the bytes the decoder has taken, and they follow each other.
THEOREM DigestMatches == Spec => []HashMatchesInput
<1>1. ReadInv => HashMatchesInput
  <2> SUFFICES ASSUME ReadInv, pc # "fatal"
               PROVE  /\ hashed = ArchiveSize(archive) - bytesLeft
                      /\ hashed = Taken + (inLen - inPos) - KeptBack
    BY DEF HashMatchesInput, KeptBack
  <2>1. call # "error"
    BY DEF ReadInv, ReaderInv
  <2> QED BY <2>1 DEF ReadInv, Typed, Counted, Taken
<1> QED
  BY <1>1, ReadInvariant, PTL

\* What is flushed is the plain text decoded last, in order.
THEOREM FlushesDecoded == Spec => []FlushesInOrder
<1>1. ReadInv => FlushesInOrder
  BY DEF ReadInv
<1> QED
  BY <1>1, ReadInvariant, PTL

\* An archive whose bytes are all taken is decoded to its end.
LEMMA AllTaken ==
  ASSUME archive \in Archives, NEW z \in Zds, StageInv(z), NEW kept \in {0, 1},
         ArchiveSize(archive) = Consumed(z) - kept,
         z.streamStage = "loadHeader" => z.lhSize < WholeHeader(Frame(z))
  PROVE  /\ kept = 0 /\ Produced(z) = ArchivePlain(archive)
         /\ z.expected = 0
<1> DEFINE n == Len(archive)
           k == z.frame
           all == ArchiveSize(archive)
<1>1. /\ n \in Nat /\ k \in 0..n /\ k \in Nat /\ z.expected \in Nat
  BY FrameSums DEF StageInv, Zds
<1>2. /\ all = Sizes(n) /\ ArchivePlain(archive) = Plains(n) /\ Sizes(0) = 0 /\ Plains(0) = 0
      /\ \A j \in 0..n : Sizes(j) \in Nat /\ Sizes(j) <= Sizes(n) /\ Plains(j) \in Nat
      /\ \A j \in 1..n : /\ Sizes(j) = Sizes(j - 1) + FrameSize(archive[j])
                         /\ Plains(j) = Plains(j - 1) + PlainSize(archive[j])
                         /\ archive[j] \in Frames
  BY FrameSums
<1> HIDE DEF n
<1>3. all \in Nat
  BY <1>1, <1>2
\* A frame has at least a header, so only the last one ends where the archive ends.
<1>4. ASSUME NEW j \in 0..n, Sizes(j) = Sizes(n)
      PROVE  j = n
  <2> SUFFICES ASSUME j # n PROVE FALSE
    OBVIOUS
  <2>1. j + 1 \in 1..n /\ j + 1 \in 0..n /\ (j + 1) - 1 = j
    BY <1>1
  <2>2. /\ Sizes(j + 1) = Sizes(j) + FrameSize(archive[j + 1])
        /\ archive[j + 1] \in Frames
    <3>1. /\ Sizes(j + 1) = Sizes((j + 1) - 1) + FrameSize(archive[j + 1])
          /\ archive[j + 1] \in Frames
      BY <1>2, <2>1
    <3> QED BY <2>1, <3>1
  <2> DEFINE s == FrameSize(archive[j + 1])
             h == WholeHeader(archive[j + 1])
  <2>3. s \in Nat /\ h \in Nat /\ h <= s /\ 5 <= h
    BY <2>2, FrameSizeType DEF PrefixSize
  <2>4. Sizes(j + 1) <= Sizes(n) /\ Sizes(j) \in Nat /\ Sizes(n) \in Nat
    BY <1>1, <1>2, <2>1
  <2> HIDE DEF s, h
  <2>5. Sizes(j + 1) = Sizes(j) + s
    BY <2>2 DEF s
  <2> QED BY <1>4, <2>3, <2>4, <2>5
<1>5. CASE k = 0
  <2>1. Consumed(z) = 0 /\ Produced(z) = 0
    BY <1>5 DEF Consumed, Produced
  <2>2. kept = 0 /\ all = 0
    <3> HIDE DEF all
    <3>1. all = 0 - kept
      BY <2>1 DEF all
    <3> QED BY <1>3, <3>1
  <2>3. n = 0
    BY <1>1, <1>2, <1>4, <2>2
  <2>4. z.streamStage = "init"
    BY <1>5 DEF StageInv, Zds
  <2>5. z.expected = 0
    BY <2>4 DEF StageInv
  <2> QED BY <1>2, <2>1, <2>2, <2>3, <2>5
<1>6. CASE k > 0
  <2> DEFINE f == Frame(z)
             before == Sizes(k - 1)
             inside == Inside(z)
             at == z.inPos
             size == FrameSize(f)
  <2>1. f \in Frames /\ f = archive[k] /\ k \in 1..n /\ k - 1 \in 0..n /\ k # 0
    BY <1>1, <1>6, FrameIs DEF n
  <2>2. /\ inside \in Nat /\ inside + at <= size /\ (z.expected > 0 => inside + at < size)
        /\ at \in Nat
    BY <1>6, InsideType DEF Zds
  <2>3. Consumed(z) = before + inside + at /\ Produced(z) = Plains(k - 1) + PlainInside(z)
    BY <2>1 DEF Consumed, Produced
  <2>4. Sizes(k) = before + size /\ Plains(k) = Plains(k - 1) + PlainSize(f)
    BY <1>2, <2>1
  <2>5. size \in Nat /\ before \in Nat /\ Sizes(k) \in Nat /\ Sizes(k) <= all
    BY <1>1, <1>2, <2>1, FrameSizeType
  <2>6. kept = 0 /\ inside + at = size /\ Sizes(k) = all
    <3> HIDE DEF before, inside, at, size, all, f
    <3>1. all = (before + inside + at) - kept
      BY <2>3 DEF all
    <3>2. inside + at <= size /\ at \in Nat /\ inside \in Nat
      BY <2>2
    <3> QED BY <1>3, <2>4, <2>5, <3>1, <3>2
  <2>7. z.expected = 0
    <3>1. z.expected \in Nat /\ ~ (z.expected > 0)
      <4>1. inside + at \in Nat /\ size \in Nat
        BY <2>2, <2>5
      <4> QED BY <1>1, <2>2, <2>6, <4>1
    <3> QED BY <3>1
  <2>8. z.streamStage # "loadHeader"
    <3> SUFFICES ASSUME z.streamStage = "loadHeader" PROVE FALSE
      OBVIOUS
    <3>1. inside = z.lhSize /\ at = 0 /\ z.lhSize < WholeHeader(f)
      BY DEF Inside, StageInv
    <3>2. WholeHeader(f) \in Nat /\ WholeHeader(f) <= size
      BY <2>1, FrameSizeType
    <3> DEFINE w == WholeHeader(f)
    <3> HIDE DEF inside, at, size, f, w
    <3>3. inside < w /\ w \in Nat /\ w <= size /\ inside + 0 = size
      BY <2>6, <3>1, <3>2 DEF w
    <3> QED BY <2>2, <2>5, <3>3
  <2>9. PlainInside(z) = PlainSize(f)
    BY <2>7, <2>8 DEF PlainInside
  <2>10. k = n
    BY <1>1, <1>2, <1>4, <2>6
  <2> QED BY <1>2, <2>3, <2>4, <2>6, <2>7, <2>9, <2>10
<1> QED
  BY <1>1, <1>5, <1>6

\* unzstd_read returns 0 only when the plain text of the whole archive is handed out.
THEOREM EndsAtTheEnd == Spec => []NoEarlyEnd
<1>1. ReadInv => NoEarlyEnd
  <2> SUFFICES ASSUME ReadInv, pc = "eof"
               PROVE  delivered = ArchivePlain(archive)
    BY DEF NoEarlyEnd
  <2>1. call = "out" /\ inPos = inLen /\ bytesLeft = 0 /\ ourPos = outLen
    BY DEF ReadInv, ReaderInv
  <2>2. /\ archive \in Archives /\ zds \in Zds /\ StageInv(zds) /\ CallInv
        /\ inLen \in Nat /\ outLen \in Nat /\ delivered \in Nat
        /\ hashed = ArchiveSize(archive) - bytesLeft
    BY SizesAreNumbers DEF ReadInv, Typed
  <2>3. hashed = Consumed(zds) + (inLen - inPos) - KeptBack /\ decoded = Produced(zds)
    BY <2>1 DEF ReadInv, Counted
  <2>4. KeptBack \in {0, 1}
    BY DEF KeptBack
  <2>5. ArchiveSize(archive) = Consumed(zds) - KeptBack
    <3> DEFINE c == Consumed(zds)
               k == KeptBack
               all == ArchiveSize(archive)
    <3>1. c \in Nat /\ all \in Nat
      BY <2>2, CountsAreNumbers, SizesAreNumbers
    <3>2. all - 0 = c + (inLen - inLen) - k
      BY <2>1, <2>2, <2>3
    <3> HIDE DEF c, k, all
    <3>3. k \in Int
      BY <2>4 DEF k
    <3>4. all = c - k
      BY <2>2, <3>1, <3>2, <3>3
    <3> QED BY <3>4 DEF c, k, all
  <2>6. zds.streamStage = "loadHeader" => zds.lhSize < WholeHeader(Frame(zds))
    BY <2>1, <2>2 DEF CallInv
  <2>7. KeptBack = 0 /\ Produced(zds) = ArchivePlain(archive) /\ zds.expected = 0
    <3> DEFINE k == KeptBack
    <3> HIDE DEF k
    <3>1. k \in {0, 1} /\ ArchiveSize(archive) = Consumed(zds) - k
      BY <2>4, <2>5 DEF k
    <3>2. k = 0 /\ Produced(zds) = ArchivePlain(archive) /\ zds.expected = 0
      BY <2>2, <2>6, <3>1, AllTaken
    <3> QED BY <3>2 DEF k
  \* A byte would be kept back for output that is still in the decoder.
  <2>8. zds.outStart = zds.outEnd
    <3> SUFFICES ASSUME Pending(zds) PROVE FALSE
      BY DEF Pending
    <3>1. zds.hostageByte
      BY <2>1, <2>2, <2>7 DEF CallInv
    <3>2. zds.streamStage = "flush"
      BY <2>2 DEF StageInv, Pending
    <3> QED BY <2>7, <3>1, <3>2 DEF KeptBack
  <2>9. decoded = delivered
    <3> DEFINE a == zds.outStart
    <3>1. decoded = delivered + (outLen - outLen) + (a - a)
      BY <2>1, <2>8 DEF ReadInv, NoByteLost
    <3>2. a \in Nat
      BY <2>2 DEF Zds
    <3> HIDE DEF a
    <3> QED BY <2>2, <3>1, <3>2
  <2> QED BY <2>3, <2>7, <2>9
<1> QED
  BY <1>1, ReadInvariant, PTL

=============================================================================
