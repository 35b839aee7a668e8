-------------------------- MODULE UnzstdBuffers_proofs --------------------------
(***************************************************************************)
(* Proofs about the two buffers of the decoder:                            *)
(*  - the output buffer keeps the window: whatever block comes next, each  *)
(*    byte it may copy is where the decoder looks for it;                  *)
(*  - no call of the decoder does nothing;                                 *)
(*  - the input buffer holds any unit, the output buffer the next block;   *)
(*  - so a good archive is never refused.                                  *)
(***************************************************************************)
EXTENDS UnzstdRead_proofs

-----------------------------------------------------------------------------
(* The inductive invariant: z is the decoder, b its buffer, d the plain    *)
(* bytes decoded.                                                          *)

AmongBlocks(z) ==
  z.streamStage \in {"read", "load", "flush"} /\ z.stage \in {"blockHeader", "block"}

\* The buffer has room for the window, a block, and copies that run over twice, or
\* for the whole frame.
Roomy(z) ==
  /\ z.window >= Frame(z).window
  /\ z.outBuffSize >= DecodingBufferSize(z.window, Frame(z).fcs)

\* The start of the buffer holds the last bytes of the text.
Prefix(z, b, d) == \A a \in 1..z.outEnd : b[a] = d - z.outEnd + a

\* The text before that lies below the address end, as far as neither the prefix nor
\* a copy that ran over its end has overwritten it.
Behind(z, b, d, end) ==
  /\ z.window + OverLength < end /\ end <= z.outBuffSize + 1
  /\ \A a \in Nat : a > z.outEnd + OverLength /\ a < end => b[a] = d - z.outEnd - (end - 1 - a)

\* The window is in one piece: the buffer has not been restarted in this frame.
OnePiece(z) ==
  /\ z.decodedSize = z.outEnd
  /\ z.prefixStart \in {0, 1} /\ z.virtualStart \in {0, 1}
  /\ \/ z.previousDstEnd = z.outEnd + 1
     \/ z.previousDstEnd = 0 /\ z.outEnd = 0 /\ z.prefixStart = 0

\* It is in two, and CheckContinuity has been told.
TwoPieces(z, b, d) ==
  /\ z.prefixStart = 1 /\ z.previousDstEnd = z.outEnd + 1
  /\ z.virtualStart <= 2 - z.dictEnd
  /\ Behind(z, b, d, z.dictEnd)

\* The buffer is to be restarted, and CheckContinuity has not been told.
Turned(z, b, d) ==
  /\ z.outEnd = 0 /\ z.previousDstEnd > 1 /\ z.prefixStart \in {0, 1}
  /\ Behind(z, b, d, z.previousDstEnd)

WindowOk(z, b, d) ==
  Roomy(z) /\ Prefix(z, b, d) /\ (OnePiece(z) \/ TwoPieces(z, b, d) \/ Turned(z, b, d))

WindowInv == AmongBlocks(zds) => WindowOk(zds, outBuff, decoded)

-----------------------------------------------------------------------------
(* What the invariant says of the copies                                   *)

\* The fields that the invariant is about.
SameWindow(y, z) ==
  /\ y.frame = z.frame /\ y.window = z.window /\ y.outBuffSize = z.outBuffSize
  /\ y.outEnd = z.outEnd /\ y.decodedSize = z.decodedSize
  /\ y.previousDstEnd = z.previousDstEnd /\ y.prefixStart = z.prefixStart
  /\ y.virtualStart = z.virtualStart /\ y.dictEnd = z.dictEnd

LEMMA SameWindowOk ==
  ASSUME NEW y, NEW z, NEW b, NEW d, SameWindow(y, z), WindowOk(z, b, d)
  PROVE  WindowOk(y, b, d)
<1>1. Roomy(y)
  BY DEF SameWindow, WindowOk, Roomy, Frame
<1>2. Prefix(y, b, d)
  BY DEF SameWindow, WindowOk, Prefix
<1>3. \A end : Behind(z, b, d, end) => Behind(y, b, d, end)
  BY DEF SameWindow, Behind
<1>4. OnePiece(z) => OnePiece(y)
  BY DEF SameWindow, OnePiece
<1>5. TwoPieces(z, b, d) => TwoPieces(y, b, d)
  BY <1>3 DEF SameWindow, TwoPieces
<1>6. Turned(z, b, d) => Turned(y, b, d)
  BY <1>3 DEF SameWindow, Turned
<1> QED
  BY <1>1, <1>2, <1>4, <1>5, <1>6 DEF WindowOk

LEMMA ContinuityIs ==
  ASSUME NEW z \in Zds, NEW dst \in Int, NEW y, y = CheckContinuity(z, dst)
  PROVE  /\ y.frame = z.frame /\ y.window = z.window /\ y.outBuffSize = z.outBuffSize
         /\ y.outEnd = z.outEnd /\ y.decodedSize = z.decodedSize
         /\ y.previousDstEnd = dst
         /\ z.previousDstEnd = dst => y = z
         /\ z.previousDstEnd # dst =>
              /\ y.dictEnd = z.previousDstEnd /\ y.prefixStart = dst
              /\ y.virtualStart = dst - (z.previousDstEnd - z.prefixStart)
<1> DEFINE end == z.previousDstEnd
           virtual == dst - (end - z.prefixStart)
<1>1. CASE end = dst
  <2>1. y = z
    BY <1>1 DEF CheckContinuity
  <2> QED BY <1>1, <2>1
<1>2. CASE end # dst
  <2>1. y = [z EXCEPT !.dictEnd = end, !.virtualStart = virtual, !.prefixStart = dst,
                      !.previousDstEnd = dst]
    BY <1>2 DEF CheckContinuity
  <2>2. /\ y.frame = z.frame /\ y.window = z.window /\ y.outBuffSize = z.outBuffSize
        /\ y.outEnd = z.outEnd /\ y.decodedSize = z.decodedSize
    <3> HIDE DEF end, virtual
    <3> QED BY <2>1 DEF Zds
  <2>3. /\ y.previousDstEnd = dst /\ y.dictEnd = end /\ y.prefixStart = dst
        /\ y.virtualStart = virtual
    <3> HIDE DEF end, virtual
    <3> QED BY <2>1 DEF Zds
  <2> QED BY <1>2, <2>2, <2>3
<1> QED
  BY <1>1, <1>2

\* The pieces as the decoder sees them when it has looked at its destination.
LEMMA PiecesSeen ==
  ASSUME NEW z \in Zds, NEW b, NEW d, WindowOk(z, b, d),
         NEW y, y = CheckContinuity(z, z.outEnd + 1)
  PROVE  \/ OnePiece(y) /\ y.previousDstEnd = y.outEnd + 1
         \/ TwoPieces(y, b, d)
<1> DEFINE o == z.outEnd
<1>1. o \in Nat /\ o + 1 \in Int /\ z.previousDstEnd \in Int /\ z.prefixStart \in Int
  BY DEF Zds
<1>2. /\ y.window = z.window /\ y.outBuffSize = z.outBuffSize
      /\ y.outEnd = o /\ y.decodedSize = z.decodedSize
      /\ y.previousDstEnd = o + 1
      /\ z.previousDstEnd = o + 1 => y = z
      /\ z.previousDstEnd # o + 1 =>
           /\ y.dictEnd = z.previousDstEnd /\ y.prefixStart = o + 1
           /\ y.virtualStart = (o + 1) - (z.previousDstEnd - z.prefixStart)
  <2> HIDE DEF o
  <2> QED BY <1>1, ContinuityIs DEF o
<1>3. CASE OnePiece(z)
  <2>1. CASE z.previousDstEnd = o + 1
    BY <1>2, <1>3, <2>1
  <2>2. CASE z.previousDstEnd # o + 1
    <3>1. z.previousDstEnd = 0 /\ o = 0 /\ z.prefixStart = 0 /\ z.decodedSize = o
      BY <1>3, <2>2 DEF OnePiece
    <3>2. y.prefixStart = 1 /\ y.virtualStart = 1 /\ y.decodedSize = y.outEnd
      BY <1>2, <2>2, <3>1
    <3> QED BY <1>2, <3>2 DEF OnePiece
  <2> QED BY <2>1, <2>2
<1>4. CASE TwoPieces(z, b, d)
  <2>1. y = z
    BY <1>2, <1>4 DEF TwoPieces
  <2> QED BY <1>4, <2>1
<1>5. CASE Turned(z, b, d)
  <2> DEFINE p == z.previousDstEnd
             s == z.prefixStart
  <2>1. o = 0 /\ p > 1 /\ s \in {0, 1} /\ Behind(z, b, d, p) /\ p \in Int
    BY <1>1, <1>5 DEF Turned
  <2>2. p # o + 1 /\ (o + 1) - (p - s) <= 2 - p /\ o + 1 = 1
    <3> HIDE DEF o, p, s
    <3> QED BY <2>1
  <2>3. /\ y.dictEnd = p /\ y.prefixStart = 1
        /\ y.virtualStart = (o + 1) - (p - s)
    BY <1>2, <2>2
  <2>4. Behind(y, b, d, p)
    BY <1>2, <2>1 DEF Behind
  <2> QED BY <1>2, <2>2, <2>3, <2>4 DEF TwoPieces
<1> QED
  BY <1>3, <1>4, <1>5 DEF WindowOk

\* Where the byte d before address a lies, in one piece or in two.
LEMMA SourceInOne ==
  ASSUME NEW z, NEW a \in Nat, NEW d \in Nat, d > 0, d < a, z.prefixStart \in {0, 1}
  PROVE  SourceOf(z, a, d) = a - d
<1> DEFINE p == z.prefixStart
<1>1. p \in Int /\ p <= 1 /\ SourceOf(z, a, d) = IF d <= a - p THEN a - d
                                                   ELSE z.dictEnd - (p - (a - d))
  BY DEF SourceOf
<1> HIDE DEF p
<1>2. d <= a - p
  BY <1>1
<1> QED
  BY <1>1, <1>2

LEMMA SourceInTwo ==
  ASSUME NEW z, NEW a \in Nat, NEW d \in Nat, d >= a, z.prefixStart = 1, z.dictEnd \in Int
  PROVE  SourceOf(z, a, d) = z.dictEnd - 1 + a - d
<1> DEFINE e == z.dictEnd
           s == e - (1 - (a - d))
<1>1. SourceOf(z, a, d) = IF d <= a - 1 THEN a - d ELSE s
  BY DEF SourceOf
<1>2. e \in Int
  OBVIOUS
<1> HIDE DEF e
<1>3. ~ (d <= a - 1) /\ s = e - 1 + a - d
  BY <1>2
<1> QED
  BY <1>1, <1>3 DEF e

\* The byte d before the byte k of the next block is in the window.
InWindow(k, d) ==
  /\ zds \in Zds /\ decoded \in Nat /\ DOMAIN outBuff = 1..zds.outBuffSize
  /\ zds.outStart = zds.outEnd /\ zds.outEnd <= zds.outBuffSize
  /\ Frame(zds).window \in Nat /\ WindowOk(zds, outBuff, decoded)
  /\ k \in Nat /\ d \in Nat /\ d > 0
  /\ d <= Frame(zds).window /\ d <= zds.decodedSize + k

LEMMA WindowShown ==
  ASSUME NEW k, NEW d, InWindow(k, d)
  PROVE  LET dst == zds.outStart + 1
             z == CheckContinuity(zds, dst)
             a == dst + k
             s == SourceOf(z, a, d)
         IN /\ d <= a - z.virtualStart
            /\ \/ s >= dst /\ s < a
               \/ /\ s \in DOMAIN outBuff /\ outBuff[s] = decoded + k + 1 - d
                  /\ s < dst \/ s >= a + OverLength
<1> DEFINE o == zds.outStart
           dst == o + 1
           y == CheckContinuity(zds, dst)
           room == zds.outBuffSize
           a == dst + k
           s == SourceOf(y, a, d)
<1>0. SUFFICES /\ d <= a - y.virtualStart
               /\ \/ s >= dst /\ s < a
                  \/ /\ s \in DOMAIN outBuff /\ outBuff[s] = decoded + k + 1 - d
                     /\ s < dst \/ s >= a + OverLength
  OBVIOUS
<1>1. /\ o \in Nat /\ dst \in Int /\ o = zds.outEnd /\ room \in Nat /\ o <= room
      /\ OverLength \in Nat /\ zds.window \in Nat /\ d <= zds.window
      /\ k \in Nat /\ d \in Nat /\ d > 0
  <2>1. /\ o \in Nat /\ room \in Nat /\ zds.window \in Nat
        /\ k \in Nat /\ d \in Nat /\ d > 0 /\ o = zds.outEnd /\ o <= room
    BY DEF Zds, InWindow
  <2>2. d <= zds.window
    <3> DEFINE w == Frame(zds).window
               x == zds.window
    <3>1. w \in Nat /\ d <= w /\ x >= w
      BY DEF InWindow, WindowOk, Roomy
    <3> HIDE DEF w, x
    <3>2. d <= x
      BY <2>1, <3>1 DEF x
    <3> QED BY <3>2 DEF x
  <2> QED BY <2>1, <2>2, ZstdAssumption
<1>2. /\ y.window = zds.window /\ y.outBuffSize = room /\ y.outEnd = o
      /\ y.decodedSize = zds.decodedSize /\ y \in Zds
  <2>1. y \in Zds
    <3> HIDE DEF dst
    <3> QED BY <1>1, ContinuityRest DEF InWindow
  <2> HIDE DEF dst
  <2> QED BY <1>1, <2>1, ContinuityIs DEF InWindow
<1>3. /\ \A c \in 1..o : outBuff[c] = decoded - o + c
      /\ DOMAIN outBuff = 1..room /\ decoded \in Nat
  BY <1>1 DEF InWindow, WindowOk, Prefix
<1>4. OnePiece(y) \/ TwoPieces(y, outBuff, decoded)
  <2>1. y = CheckContinuity(zds, zds.outEnd + 1)
    BY <1>1
  <2> HIDE DEF y
  <2> QED BY <2>1, PiecesSeen DEF InWindow
\* In the prefix, or in what the block has written itself.
<1>5. ASSUME d <= o + k, y.prefixStart \in {0, 1}
      PROVE  \/ s >= dst /\ s < a
             \/ s \in DOMAIN outBuff /\ outBuff[s] = decoded + k + 1 - d /\ s < dst
  <2>1. a \in Nat /\ d < a
    <3> HIDE DEF o
    <3> QED BY <1>1, <1>5
  <2>2. s = a - d
    <3> HIDE DEF y, a
    <3> QED BY <1>1, <1>5, <2>1, SourceInOne
  <2> HIDE DEF o, y, s, room
  <2>3. s \in Nat /\ s < a /\ s > 0 /\ dst \in Nat
    BY <1>1, <2>1, <2>2
  <2>4. s < dst => s \in 1..o /\ s \in 1..room
    BY <1>1, <2>3
  <2>5. decoded - o + s = decoded + k + 1 - d
    <3>1. decoded \in Nat
      BY <1>3
    <3> QED BY <1>1, <2>1, <2>2, <2>3, <3>1
  <2> QED BY <1>3, <2>3, <2>4, <2>5
<1>6. CASE OnePiece(y)
  <2>1. zds.decodedSize = o /\ y.prefixStart \in {0, 1} /\ y.virtualStart \in {0, 1}
    BY <1>2, <1>6 DEF OnePiece
  <2>2. d <= o + k
    BY <2>1 DEF InWindow
  <2> DEFINE v == y.virtualStart
  <2>3. d <= a - v
    <3>1. v = 0 \/ v = 1
      BY <2>1
    <3> HIDE DEF o, v
    <3> QED BY <1>1, <2>2, <3>1
  <2> HIDE DEF o, y, room, s
  <2> QED BY <1>5, <2>1, <2>2, <2>3
<1>7. CASE TwoPieces(y, outBuff, decoded)
  <2> DEFINE e == y.dictEnd
             v == y.virtualStart
  <2>1. /\ y.prefixStart = 1 /\ v <= 2 - e /\ e \in Int /\ v \in Int
        /\ zds.window + OverLength < e /\ e <= room + 1
        /\ \A c \in Nat : c > o + OverLength /\ c < e
              => outBuff[c] = decoded - o - (e - 1 - c)
    BY <1>2, <1>7 DEF TwoPieces, Behind, Zds
  <2>2. d <= a - v /\ d + OverLength < e
    <3> DEFINE w == zds.window
    <3>1. w \in Nat /\ d <= w /\ w + OverLength < e
      BY <1>1, <2>1
    <3> HIDE DEF e, v, o, w
    <3> QED BY <1>1, <2>1, <3>1
  <2>3. CASE d <= o + k
    <3> HIDE DEF o, y, room, s
    <3> QED BY <1>5, <2>1, <2>2, <2>3
  <2>4. CASE d > o + k
    <3>1. a \in Nat /\ d >= a
      <4> HIDE DEF o
      <4> QED BY <1>1, <2>4
    <3>2. s = e - 1 + a - d
      <4> HIDE DEF y, a
      <4> QED BY <1>1, <2>1, <3>1, SourceInTwo
    <3> HIDE DEF o, s, room, e, v
    <3>3. s \in Nat /\ s < e /\ s >= a + OverLength /\ s > o + OverLength /\ s \in 1..room
      BY <1>1, <2>1, <2>2, <3>1, <3>2
    <3>4. decoded - o - (e - 1 - s) = decoded + k + 1 - d
      <4>1. decoded \in Nat /\ e \in Int
        BY <1>3, <2>1
      <4> QED BY <1>1, <3>1, <3>2, <3>3, <4>1
    <3>5. outBuff[s] = decoded - o - (e - 1 - s)
      BY <2>1, <3>3
    <3> QED BY <1>3, <2>2, <3>3, <3>4, <3>5 DEF v
  <2>5. d <= o + k \/ d > o + k
    BY <1>1
  <2> QED BY <2>3, <2>4, <2>5
<1> QED
  BY <1>4, <1>6, <1>7

-----------------------------------------------------------------------------
(* Steps that only move                                                    *)

LEMMA WindowPrimed ==
  ASSUME archive' = archive
  PROVE  WindowInv' <=> (AmongBlocks(zds') => WindowOk(zds', outBuff', decoded'))
<1>1. \A z : archive'[z.frame] = Frame(z)
  BY DEF Frame
<1>2. Roomy(zds)' <=> Roomy(zds')
  BY <1>1 DEF Roomy, Frame
<1>3. WindowOk(zds, outBuff, decoded)' <=> WindowOk(zds', outBuff', decoded')
  BY <1>2 DEF WindowOk, Prefix, OnePiece, TwoPieces, Turned, Behind
<1> QED
  BY <1>3 DEF WindowInv, AmongBlocks

LEMMA Moves ==
  ASSUME WindowInv, archive' = archive, outBuff' = outBuff, decoded' = decoded,
         SameWindow(zds', zds), AmongBlocks(zds') => AmongBlocks(zds)
  PROVE  WindowInv'
<1>1. AmongBlocks(zds') => WindowOk(zds', outBuff', decoded')
  BY SameWindowOk DEF WindowInv
<1> QED
  BY <1>1, WindowPrimed

LEMMA Stays ==
  ASSUME WindowInv, archive' = archive, outBuff' = outBuff, decoded' = decoded, zds' = zds
  PROVE  WindowInv'
  BY Moves DEF SameWindow

LEMMA Leaves ==
  ASSUME archive' = archive, ~ AmongBlocks(zds')
  PROVE  WindowInv'
  BY WindowPrimed

LEMMA StartFrameWindow ==
  ASSUME Ready, StartFrame
  PROVE  WindowInv'
<1>1. zds \in Zds /\ archive' = archive /\ zds'.streamStage = "loadHeader"
  BY DEF Ready, StartFrame, Looping, Zds
<1> QED
  BY <1>1, Leaves DEF AmongBlocks

LEMMA LoadHeaderWindow ==
  ASSUME Ready, LoadHeader
  PROVE  WindowInv'
<1>1. zds \in Zds /\ archive' = archive /\ zds'.streamStage = "loadHeader"
  BY DEF Ready, LoadHeader, LoadingHeader, Looping, Zds
<1> QED
  BY <1>1, Leaves DEF AmongBlocks

LEMMA SinglePassWindow ==
  ASSUME Ready, SinglePass
  PROVE  WindowInv'
<1>1. zds \in Zds /\ archive' = archive /\ zds.streamStage = "loadHeader"
  BY DEF Ready, SinglePass, HeaderLoaded, LoadingHeader, Looping
<1>2. zds' = zds \/ zds'.streamStage = "init"
  BY <1>1 DEF SinglePass, Zds
<1> QED
  BY <1>1, <1>2, Leaves DEF AmongBlocks

LEMMA ReadEndWindow ==
  ASSUME Ready, ReadEnd
  PROVE  WindowInv'
<1>1. zds \in Zds /\ archive' = archive /\ zds'.streamStage = "init"
  BY DEF Ready, ReadEnd, Looping, Zds
<1> QED
  BY <1>1, Leaves DEF AmongBlocks

LEMMA ReadShortWindow ==
  ASSUME Ready, WindowInv, ReadShort
  PROVE  WindowInv'
<1>1. /\ zds \in Zds /\ archive' = archive /\ outBuff' = outBuff /\ decoded' = decoded
      /\ zds.streamStage = "read"
      /\ zds' = zds \/ zds' = [zds EXCEPT !.streamStage = "load"]
  BY DEF Ready, ReadShort, Looping
<1>2. CASE zds' = [zds EXCEPT !.streamStage = "load"]
  <2>1. SameWindow(zds', zds) /\ zds'.stage = zds.stage
    BY <1>1, <1>2 DEF SameWindow, Zds
  <2> QED BY <1>1, <2>1, Moves DEF AmongBlocks
<1> QED
  BY <1>1, <1>2, Stays

\* The stage is that of a block only while something is expected.
LEMMA ExpectsBlocks ==
  ASSUME NEW z \in Zds, StageInv(z), AmongBlocks(z)
  PROVE  z.expected > 0 /\ Frame(z).kind = "zstd" /\ z.frame > 0
<1>1. z.frame > 0 /\ InFrame(z) /\ z.stage \in {"blockHeader", "block"} /\ z.expected \in Nat
  BY DEF StageInv, AmongBlocks, Zds
<1>2. Frame(z).kind = "zstd" /\ z.expected # 0
  BY <1>1 DEF InFrame, BlockHeaderSize
<1> QED
  BY <1>1, <1>2

LEMMA ResultWindow ==
  ASSUME Ready, WindowInv, Result, StepOk
  PROVE  WindowInv'
<1>1. /\ zds \in Zds /\ archive' = archive /\ outBuff' = outBuff /\ decoded' = decoded
      /\ zds' \in Zds /\ StageInv(zds')
  BY DEF Ready, Result, StepOk
<1>2. CASE call' = "error"
  <2>1. zds' = zds
    BY <1>2 DEF Result
  <2> QED BY <1>1, <2>1, Stays
<1>3. CASE call' # "error"
  <2>1. PICK stalls \in Nat, hostage \in BOOLEAN,
             stage \in {"init", "loadHeader", "read", "load", "flush"} :
          zds' = Ended(zds, stalls, hostage, stage) /\ EndedHow(zds, hostage, stage)
    BY <1>1, <1>3, ResultCases
  <2>2. /\ SameWindow(zds', zds) /\ zds'.stage = zds.stage /\ zds'.expected = zds.expected
        /\ zds'.streamStage = stage
    BY <1>1, <2>1 DEF SameWindow, Ended, Zds
  <2>3. AmongBlocks(zds') => AmongBlocks(zds)
    <3>1. SUFFICES ASSUME AmongBlocks(zds') PROVE AmongBlocks(zds)
      OBVIOUS
    <3>2. zds.expected > 0 /\ zds.expected \in Nat
      BY <1>1, <2>2, <3>1, ExpectsBlocks DEF Zds
    <3>3. stage = zds.streamStage
      BY <2>1, <3>2 DEF EndedHow
    <3> QED BY <2>2, <3>1, <3>3 DEF AmongBlocks
  <2> QED BY <1>1, <2>2, <2>3, Moves
<1> QED
  BY <1>2, <1>3

LEMMA HeaderFailsWindow ==
  ASSUME Ready, WindowInv, HeaderFails
  PROVE  WindowInv'
BY Stays DEF HeaderFails, LoadingHeader, Looping

-----------------------------------------------------------------------------
(* The header of a frame: nothing is decoded, and the buffer has room      *)

\* Where the pieces of the window are when a frame begins: nowhere.
LEMMA BegunPieces ==
  ASSUME NEW z \in Zds,
         NEW stage, NEW expected, NEW window, NEW oversized, NEW inSize, NEW outSize,
         AreBegun(stage, expected, window, oversized, inSize, outSize),
         NEW y, y = Begun(z, stage, expected, window, oversized, inSize, outSize)
  PROVE  /\ y.window = window /\ y.decodedSize = 0
         /\ y.previousDstEnd = 0 /\ y.prefixStart = 0 /\ y.virtualStart = 0
<1> DEFINE b == DecompressBegin(z)
<1>1. b \in [DOMAIN z -> {b[n] : n \in DOMAIN z}]
      /\ DOMAIN z = {"streamStage", "stage", "frame", "block", "lhSize", "inPos", "outStart",
                     "outEnd", "hostageByte", "inBuffSize", "outBuffSize", "oversized",
                     "stalls", "expected", "window", "decodedSize",
                     "previousDstEnd", "prefixStart", "virtualStart", "dictEnd"}
  <2>1. DOMAIN b = DOMAIN z /\ b = [n \in DOMAIN b |-> b[n]]
    BY DEF DecompressBegin, Zds
  <2> HIDE DEF b
  <2> QED BY <2>1 DEF Zds
<1>2. /\ b.decodedSize = 0
      /\ b.previousDstEnd = 0 /\ b.prefixStart = 0 /\ b.virtualStart = 0
  BY DEF DecompressBegin, Zds
<1>3. y = [b EXCEPT
             !.streamStage = "read", !.stage = stage, !.expected = expected,
             !.window = window, !.oversized = oversized, !.inBuffSize = inSize,
             !.outBuffSize = outSize]
  BY DEF Begun
<1> HIDE DEF b
<1>4. /\ y.window = window /\ y.decodedSize = b.decodedSize
      /\ y.previousDstEnd = b.previousDstEnd /\ y.prefixStart = b.prefixStart
      /\ y.virtualStart = b.virtualStart
  BY <1>1, <1>3
<1> QED
  BY <1>2, <1>4

LEMMA ConsumeHeaderWindow ==
  ASSUME Ready, ConsumeHeader
  PROVE  WindowInv'
<1> DEFINE y == zds'
           f == Frame(zds)
           skips == f.kind = "skippable"
           window == Larger(IF skips THEN 0 ELSE f.window, MinWindow)
           needIn == Larger(IF skips THEN 0 ELSE MaxBlock(f), ChecksumSize)
           needOut == IF skips
                        THEN DecodingBufferSize(window, f.skip)
                        ELSE DecodingBufferSize(window, f.fcs)
           oversized == OversizedDuration(zds, needIn, needOut)
           resize == \/ zds.inBuffSize < needIn \/ zds.outBuffSize < needOut
                     \/ oversized >= MaxOversized
           stage == IF skips THEN "skipFrame" ELSE "blockHeader"
           expected == IF skips THEN f.skip ELSE BlockHeaderSize
           inSize == IF resize THEN needIn ELSE zds.inBuffSize
           outSize == IF resize THEN needOut ELSE zds.outBuffSize
<1>1. /\ archive' = archive /\ decoded' = decoded
      /\ zds.streamStage = "loadHeader" /\ zds \in Zds
  BY DEF ConsumeHeader, HeaderLoaded, LoadingHeader, Looping, Ready
<1>2. y = Begun(zds, stage, expected, window, oversized, inSize, outSize)
  <2>1. y = [DecompressBegin(zds) EXCEPT
               !.streamStage = "read", !.stage = stage, !.expected = expected,
               !.window = window, !.oversized = oversized,
               !.inBuffSize = IF resize THEN needIn ELSE @,
               !.outBuffSize = IF resize THEN needOut ELSE @]
    BY DEF ConsumeHeader
  <2>2. DecompressBegin(zds).inBuffSize = zds.inBuffSize
        /\ DecompressBegin(zds).outBuffSize = zds.outBuffSize
    BY <1>1 DEF DecompressBegin, Zds
  <2> HIDE DEF stage, expected, window, oversized, resize, needIn, needOut, y
  <2> QED BY <2>1, <2>2 DEF Begun
<1>3. f \in Frames /\ zds.outEnd = 0
  BY <1>1, InHeader
<1>4. \/ skips /\ f.skip \in Nat
      \/ ~ skips /\ f \in ZstdFrames
  <2> HIDE DEF f
  <2> QED BY <1>3, FrameKinds DEF f
<1>5. ~ skips => f.window \in Nat /\ f.fcs \in Nat \cup {Unknown}
  <2> HIDE DEF f
  <2> QED BY <1>4 DEF ZstdFrames
<1>6. window \in Nat /\ needIn \in Nat
  <2>1. BlockSizeMax \in Nat /\ MinWindow \in Nat
    BY ZstdAssumption
  <2>2. (IF skips THEN 0 ELSE f.window) \in Nat
    BY <1>5
  <2>3. (IF skips THEN 0 ELSE MaxBlock(f)) \in Nat
    BY <1>5, <2>1 DEF MaxBlock, Smaller
  <2> QED BY <2>1, <2>2, <2>3 DEF Larger, ChecksumSize
<1>7. needOut \in Nat
  <2> HIDE DEF f, window
  <2> QED BY <1>4, <1>5, <1>6, Sized
<1>8. AreBegun(stage, expected, window, oversized, inSize, outSize)
  <2>1. oversized \in Nat
    <3> HIDE DEF needIn, needOut
    <3> QED BY <1>1 DEF OversizedDuration, Zds
  <2>2. inSize \in Nat /\ outSize \in Nat
    <3> HIDE DEF needIn, needOut, resize
    <3> QED BY <1>1, <1>6, <1>7 DEF Zds
  <2>3. stage \in Stages /\ expected \in Nat
    BY <1>4 DEF Stages, BlockHeaderSize
  <2> QED BY <1>6, <2>1, <2>2, <2>3 DEF AreBegun
<1>9. CASE skips
  <2>1. y.stage = "skipFrame"
    <3>1. y.stage = stage
      <4> HIDE DEF y, stage, expected, window, oversized, inSize, outSize
      <4> QED BY <1>1, <1>2, <1>8, BegunRest
    <3> QED BY <1>9, <3>1
  <2> QED BY <1>1, <2>1, Leaves DEF AmongBlocks
<1>10. CASE ~ skips
  <2>1. /\ y.frame = zds.frame /\ y.outEnd = 0 /\ y.outBuffSize = outSize
        /\ y.window = window /\ y.decodedSize = 0
        /\ y.previousDstEnd = 0 /\ y.prefixStart = 0 /\ y.virtualStart = 0
    <3> HIDE DEF y, stage, expected, window, oversized, inSize, outSize
    <3> QED BY <1>1, <1>2, <1>3, <1>8, BegunRest, BegunPieces
  <2>2. Frame(y) = f
    BY <2>1 DEF Frame
  <2>3. Roomy(y)
    <3>1. window >= f.window
      <4> DEFINE w == f.window
      <4>1. w \in Nat /\ MinWindow \in Nat /\ window = Larger(w, MinWindow)
        BY <1>5, <1>10, ZstdAssumption
      <4> HIDE DEF w, window
      <4>2. window >= w
        BY <4>1 DEF Larger
      <4> QED BY <4>2 DEF w
    <3>2. outSize >= needOut
      <4> DEFINE s == zds.outBuffSize
                 o == outSize
      <4>1. s \in Nat
        BY <1>1 DEF Zds
      <4>2. o = needOut \/ (o = s /\ ~ (s < needOut))
        <5> HIDE DEF needOut, needIn, oversized
        <5> QED OBVIOUS
      <4> HIDE DEF s, o, needOut
      <4>3. o >= needOut
        BY <1>7, <4>1, <4>2
      <4> QED BY <4>3 DEF o
    <3>3. needOut = DecodingBufferSize(window, f.fcs)
      BY <1>10
    <3> HIDE DEF y, f, window, needOut, outSize
    <3> QED BY <2>1, <2>2, <3>1, <3>2, <3>3 DEF Roomy
  <2>4. Prefix(y, outBuff', decoded')
    <3>1. 1..0 = {}
      OBVIOUS
    <3> QED BY <2>1, <3>1 DEF Prefix
  <2>5. OnePiece(y)
    BY <2>1 DEF OnePiece
  <2> QED BY <1>1, <2>3, <2>4, <2>5, WindowPrimed DEF WindowOk
<1> QED
  BY <1>9, <1>10

-----------------------------------------------------------------------------
(* Flushing, and the restart of the buffer                                 *)

\* A frame in whose blocks the decoder is.
LEMMA BlocksFrame ==
  ASSUME Ready, AmongBlocks(zds)
  PROVE  /\ Frame(zds) \in ZstdFrames /\ Frame(zds).kind = "zstd"
         /\ Frame(zds).window \in Nat /\ Frame(zds).fcs \in Nat \cup {Unknown}
<1>1. zds \in Zds /\ StageInv(zds) /\ zds.frame > 0 /\ Frame(zds).kind = "zstd"
  BY ExpectsBlocks DEF Ready
<1>2. zds.streamStage \in {"read", "load", "flush"}
  BY DEF AmongBlocks
<1>3. Frame(zds) \in Frames
  BY <1>2, InTheFrame
<1> QED
  BY <1>1, <1>3, FrameKinds DEF ZstdFrames

\* A buffer that is too small for the frame holds, when the next block does not fit
\* any more, the window and what a copy runs over, twice.
LEMMA LeavesWindow ==
  ASSUME NEW w \in Nat, NEW window \in Nat, w <= window,
         NEW fcs \in Nat \cup {Unknown}, NEW room \in Nat, NEW end \in Nat,
         room >= DecodingBufferSize(window, fcs),
         fcs = Unknown \/ room < fcs,
         end + Smaller(w, BlockSizeMax) > room
  PROVE  window + OverLength < end + 1 /\ end > 0
<1> DEFINE part == Smaller(window, BlockSizeMax)
           needed == window + part + 2 * OverLength
           block == Smaller(w, BlockSizeMax)
<1>1. BlockSizeMax \in Nat /\ OverLength \in Nat
  BY ZstdAssumption
<1>2. part \in Nat /\ block \in Nat /\ block <= part
  BY <1>1 DEF Smaller
<1>3. needed \in Nat
  <2> HIDE DEF part
  <2> QED BY <1>1, <1>2
<1>4. room >= needed
  <2>1. room >= IF fcs = Unknown THEN needed ELSE Smaller(fcs, needed)
    BY DEF DecodingBufferSize
  <2> HIDE DEF needed
  <2>2. CASE fcs = Unknown
    BY <2>1, <2>2
  <2>3. CASE fcs # Unknown
    <3>1. fcs \in Nat /\ room < fcs /\ room >= Smaller(fcs, needed)
      BY <2>1, <2>3
    <3> QED BY <1>3, <3>1 DEF Smaller
  <2> QED BY <2>2, <2>3
<1>5. end + block > room
  OBVIOUS
<1> HIDE DEF part, block
<1> QED
  BY <1>1, <1>2, <1>4, <1>5

LEMMA TurnWindow ==
  ASSUME Ready, AmongBlocks(zds), WindowOk(zds, outBuff, decoded),
         Restarts(zds, zds.outEnd),
         NEW y, y = [zds EXCEPT !.streamStage = "read", !.outStart = 0, !.outEnd = 0]
  PROVE  WindowOk(y, outBuff, decoded)
<1> DEFINE o == zds.outEnd
           room == zds.outBuffSize
           f == Frame(zds)
           p == zds.previousDstEnd
<1>1. /\ zds \in Zds /\ f.kind = "zstd" /\ f.window \in Nat /\ f.fcs \in Nat \cup {Unknown}
      /\ o \in Nat /\ room \in Nat /\ zds.window \in Nat /\ o <= room /\ decoded \in Nat
      /\ p \in Int
  BY BlocksFrame DEF Ready, StageInv, Zds
<1>2. /\ y.frame = zds.frame /\ y.window = zds.window /\ y.outBuffSize = room
      /\ y.outEnd = 0 /\ y.decodedSize = zds.decodedSize
      /\ y.previousDstEnd = p /\ y.prefixStart = zds.prefixStart
  BY <1>1 DEF Zds
<1>3. (f.fcs = Unknown \/ room < f.fcs) /\ o + Smaller(f.window, BlockSizeMax) > room
  BY <1>1 DEF Restarts, MaxBlock
<1>4. room >= DecodingBufferSize(zds.window, f.fcs) /\ zds.window >= f.window
  BY DEF WindowOk, Roomy
<1>5. zds.window + OverLength < o + 1 /\ o > 0
  <2> DEFINE w == f.window
             x == zds.window
             c == f.fcs
  <2>1. w <= x
    <3>1. w \in Nat /\ x \in Nat /\ x >= w
      BY <1>1, <1>4
    <3> HIDE DEF w, x
    <3> QED BY <3>1
  <2> HIDE DEF w, x, c, o, room
  <2>2. x + OverLength < o + 1 /\ o > 0
    <3>1. /\ w \in Nat /\ x \in Nat /\ c \in Nat \cup {Unknown} /\ o \in Nat /\ room \in Nat
          /\ room >= DecodingBufferSize(x, c) /\ (c = Unknown \/ room < c)
          /\ o + Smaller(w, BlockSizeMax) > room
      BY <1>1, <1>3, <1>4 DEF w, x, c, room
    <3> QED BY <2>1, <3>1, LeavesWindow
  <2> QED BY <2>2 DEF x
<1>6. p = o + 1 /\ zds.prefixStart \in {0, 1}
  <2>1. o # 0
    BY <1>1, <1>5
  <2>2. ~ Turned(zds, outBuff, decoded)
    BY <2>1 DEF Turned
  <2> QED BY <2>1, <2>2 DEF WindowOk, OnePiece, TwoPieces
<1>7. Behind(y, outBuff, decoded, p)
  <2>1. y.window + OverLength < p /\ p <= y.outBuffSize + 1
    <3>1. o + 1 <= room + 1
      <4> HIDE DEF o, room
      <4> QED BY <1>1
    <3> QED BY <1>2, <1>5, <1>6, <3>1
  <2>2. ASSUME NEW a \in Nat, a > y.outEnd + OverLength, a < p
        PROVE  outBuff[a] = decoded - y.outEnd - (p - 1 - a)
    <3>1. OverLength \in Nat /\ a > 0 + OverLength /\ a < o + 1
      BY <1>2, <1>6, <2>2, ZstdAssumption
    <3>2. a \in 1..o /\ decoded - o + a = decoded - 0 - ((o + 1) - 1 - a)
      <4> HIDE DEF o
      <4> QED BY <1>1, <3>1
    <3>3. outBuff[a] = decoded - o + a
      BY <3>2 DEF WindowOk, Prefix
    <3> QED BY <1>2, <1>6, <3>2, <3>3
  <2> QED BY <2>1, <2>2 DEF Behind
<1>8. Turned(y, outBuff, decoded)
  <2>1. p > 1
    <3> HIDE DEF o, p
    <3> QED BY <1>1, <1>5, <1>6
  <2> QED BY <1>2, <1>6, <1>7, <2>1 DEF Turned
<1>9. Prefix(y, outBuff, decoded)
  <2>1. 1..0 = {}
    OBVIOUS
  <2> QED BY <1>2, <2>1 DEF Prefix
<1>10. Roomy(y)
  BY <1>2, <1>4 DEF Roomy, Frame
<1> QED
  BY <1>8, <1>9, <1>10 DEF WindowOk

LEMMA FlushWindow ==
  ASSUME Ready, WindowInv, Flush
  PROVE  WindowInv'
<1> DEFINE a == zds.outStart
           b == zds.outEnd
           toFlush == b - a
           n == Smaller(toFlush, Room)
           start == a + n
<1>1. /\ archive' = archive /\ outBuff' = outBuff /\ decoded' = decoded
      /\ zds \in Zds /\ zds.streamStage = "flush"
  BY DEF Flush, Looping, Ready
<1>2. zds' = IF n < toFlush THEN [zds EXCEPT !.outStart = start]
             ELSE IF Restarts(zds, start)
               THEN [zds EXCEPT !.streamStage = "read", !.outStart = 0, !.outEnd = 0]
               ELSE [zds EXCEPT !.streamStage = "read", !.outStart = start]
  BY DEF Flush
<1> HIDE DEF start, n, toFlush
<1>3. zds'.stage = zds.stage
  BY <1>1, <1>2 DEF Zds
<1>4. AmongBlocks(zds') => AmongBlocks(zds)
  BY <1>1, <1>3 DEF AmongBlocks
<1>5. CASE \/ zds' = [zds EXCEPT !.outStart = start]
           \/ zds' = [zds EXCEPT !.streamStage = "read", !.outStart = start]
  <2>1. SameWindow(zds', zds)
    BY <1>1, <1>5 DEF SameWindow, Zds
  <2> QED BY <1>1, <1>4, <2>1, Moves
<1>6. CASE /\ ~ (n < toFlush) /\ Restarts(zds, start)
           /\ zds' = [zds EXCEPT !.streamStage = "read", !.outStart = 0, !.outEnd = 0]
  <2>1. start = b
    <3>1. a \in Nat /\ b \in Nat /\ a <= b /\ Room \in Nat
      <4>1. outLen \in 0..DStreamOutSize /\ DStreamOutSize \in Nat
        BY DEF Ready
      <4>2. Room \in Nat
        BY <4>1 DEF Room
      <4> QED BY <1>1, <4>2, InTheFrame
    <3> HIDE DEF a, b
    <3>2. toFlush = b - a /\ n = Smaller(toFlush, Room) /\ start = a + n
      BY DEF toFlush, n, start
    <3> QED BY <1>6, <3>1, <3>2 DEF Smaller
  <2>2. SUFFICES ASSUME AmongBlocks(zds') PROVE WindowOk(zds', outBuff', decoded')
    BY <1>1, WindowPrimed
  <2>3. AmongBlocks(zds) /\ WindowOk(zds, outBuff, decoded)
    BY <1>4, <2>2 DEF WindowInv
  <2>4. WindowOk(zds', outBuff, decoded)
    BY <1>6, <2>1, <2>3, TurnWindow
  <2> QED BY <1>1, <2>4
<1> QED
  BY <1>2, <1>5, <1>6

-----------------------------------------------------------------------------
(* A block, or its header                                                  *)

\* The pieces after the decoder has looked at where it will write, if it has room.
LEMMA PiecesLooked ==
  ASSUME NEW z \in Zds, NEW b, NEW d, WindowOk(z, b, d),
         NEW capacity \in Nat, z.outBuffSize <= z.outEnd + capacity,
         NEW y, y = IF capacity > 0 THEN CheckContinuity(z, z.outEnd + 1) ELSE z
  PROVE  /\ y \in Zds /\ y.frame = z.frame /\ y.outBuffSize = z.outBuffSize
         /\ y.outEnd = z.outEnd
         /\ WindowOk(y, b, d) /\ (OnePiece(y) \/ TwoPieces(y, b, d))
<1> DEFINE dst == z.outEnd + 1
<1>1. dst \in Int /\ z.outEnd \in Nat /\ z.outBuffSize \in Nat /\ z.previousDstEnd \in Int
  BY DEF Zds
<1>2. CASE capacity > 0
  <2>1. y = CheckContinuity(z, dst)
    BY <1>2
  <2> HIDE DEF dst
  <2>2. /\ y \in Zds /\ y.frame = z.frame /\ y.window = z.window
        /\ y.outBuffSize = z.outBuffSize /\ y.outEnd = z.outEnd
    <3>1. y \in Zds
      BY <1>1, <2>1, ContinuityRest
    <3>2. /\ y.frame = z.frame /\ y.window = z.window
          /\ y.outBuffSize = z.outBuffSize /\ y.outEnd = z.outEnd
      BY <1>1, <2>1, ContinuityIs
    <3> QED BY <3>1, <3>2
  <2>3. OnePiece(y) \/ TwoPieces(y, b, d)
    BY <2>1, PiecesSeen DEF dst
  <2>4. Roomy(y) /\ Prefix(y, b, d)
    BY <2>2 DEF WindowOk, Roomy, Prefix, Frame
  <2> QED BY <2>2, <2>3, <2>4 DEF WindowOk
<1>3. CASE capacity = 0
  <2>1. y = z
    BY <1>3
  <2>2. ~ Turned(z, b, d)
    <3> DEFINE p == z.previousDstEnd
               room == z.outBuffSize
    <3>1. SUFFICES ASSUME Turned(z, b, d) PROVE FALSE
      OBVIOUS
    <3>2. p > 1 /\ p <= room + 1 /\ room <= 0 + 0
      BY <1>3, <3>1 DEF Turned, Behind
    <3>3. p \in Int /\ room \in Nat
      BY <1>1
    <3> HIDE DEF p, room
    <3> QED BY <3>2, <3>3
  <2> QED BY <2>1, <2>2 DEF WindowOk
<1> QED
  BY <1>2, <1>3

\* The decoder and its buffer when a block of a size is written behind the prefix.
Grown(v, y, size) ==
  /\ v.frame = y.frame /\ v.window = y.window /\ v.outBuffSize = y.outBuffSize
  /\ v.prefixStart = y.prefixStart /\ v.virtualStart = y.virtualStart
  /\ v.dictEnd = y.dictEnd
  /\ v.outEnd = y.outEnd + size /\ v.decodedSize = y.decodedSize + size
  /\ v.previousDstEnd = y.outEnd + 1 + size

\* What is around what is written stays.
LEMMA WrittenAround ==
  ASSUME NEW o \in Nat, NEW size \in Nat, NEW overruns \in BOOLEAN, NEW a \in DOMAIN outBuff,
         a \in Nat, a <= o \/ a > o + size + OverLength
  PROVE  Written(o + 1, size, overruns)[a] = outBuff[a]
<1>1. OverLength \in Nat
  BY ZstdAssumption
<1>2. ~ (a >= o + 1 /\ a < (o + 1) + size)
      /\ ~ (a >= (o + 1) + size /\ a < (o + 1) + size + OverLength)
  BY <1>1
<1> QED
  BY <1>2 DEF Written

LEMMA BlockWritten ==
  ASSUME NEW y \in Zds, WindowOk(y, outBuff, decoded),
         OnePiece(y) \/ TwoPieces(y, outBuff, decoded),
         DOMAIN outBuff = 1..y.outBuffSize, decoded \in Nat,
         NEW size \in Nat, y.outEnd + size <= y.outBuffSize, NEW overruns \in BOOLEAN,
         NEW v, Grown(v, y, size)
  PROVE  WindowOk(v, Written(y.outEnd + 1, size, overruns), decoded + size)
<1> DEFINE o == y.outEnd
           room == y.outBuffSize
           b == Written(o + 1, size, overruns)
           d == decoded + size
<1>1. o \in Nat /\ room \in Nat /\ o + size <= room /\ DOMAIN outBuff = 1..room
      /\ OverLength \in Nat
  BY ZstdAssumption DEF Zds
<1>2. Roomy(v)
  BY DEF Grown, WindowOk, Roomy, Frame
<1>3. ASSUME NEW a \in 1..(o + size)
      PROVE  b[a] = d - (o + size) + a
  <2>1. CASE a <= o
    <3>1. a \in 1..o /\ a \in Nat /\ a \in 1..room
      <4> HIDE DEF o, room
      <4> QED BY <1>1, <1>3, <2>1
    <3>2. b[a] = outBuff[a]
      <4>1. a \in DOMAIN outBuff /\ a \in Nat
        BY <1>1, <3>1
      <4> HIDE DEF o, room
      <4> QED BY <1>1, <2>1, <4>1, WrittenAround
    <3>3. outBuff[a] = decoded - o + a
      BY <3>1 DEF WindowOk, Prefix
    <3>4. decoded - o + a = d - (o + size) + a
      <4> HIDE DEF o
      <4> QED BY <1>1, <3>1
    <3> QED BY <3>2, <3>3, <3>4
  <2>2. CASE ~ (a <= o)
    <3> DEFINE at == o + 1
    <3>1. at \in Nat /\ 1 <= at /\ (at - 1) + size <= room /\ a \in at..((at - 1) + size)
      <4> HIDE DEF o, room
      <4> QED BY <1>1, <1>3, <2>2
    <3>2. b[a] = decoded + 1 + (a - at)
      <4>1. b = Written(at, size, overruns)
        OBVIOUS
      <4> HIDE DEF at, room, b
      <4>2. \A c \in at..((at - 1) + size) :
              Written(at, size, overruns)[c] = decoded + 1 + (c - at)
        BY <1>1, <3>1, WrittenIs
      <4> QED BY <3>1, <4>1, <4>2
    <3>3. decoded + 1 + (a - at) = d - (o + size) + a
      <4> HIDE DEF o
      <4>1. a \in Int
        BY <1>1, <1>3
      <4> QED BY <1>1, <4>1
    <3> QED BY <3>2, <3>3
  <2> QED BY <2>1, <2>2
<1>4. Prefix(v, b, d)
  <2>1. v.outEnd = o + size
    BY DEF Grown
  <2> HIDE DEF b, d, o
  <2> QED BY <1>3, <2>1 DEF Prefix
<1>5. ASSUME NEW end, end \in Int, Behind(y, outBuff, decoded, end)
      PROVE  Behind(v, b, d, end)
  <2>1. end <= room + 1
    BY <1>5 DEF Behind
  <2>2. ASSUME NEW a \in Nat, a > (o + size) + OverLength, a < end
        PROVE  b[a] = d - (o + size) - (end - 1 - a)
    <3>1. a \in 1..room /\ a > o + OverLength
      <4> HIDE DEF o, room
      <4> QED BY <1>1, <1>5, <2>1, <2>2
    <3>2. b[a] = outBuff[a]
      <4> HIDE DEF o
      <4> QED BY <1>1, <2>2, <3>1, WrittenAround
    <3>3. outBuff[a] = decoded - o - (end - 1 - a)
      BY <1>5, <2>2, <3>1 DEF Behind
    <3>4. decoded - o - (end - 1 - a) = d - (o + size) - (end - 1 - a)
      <4> HIDE DEF o
      <4> QED BY <1>1, <1>5
    <3> QED BY <3>2, <3>3, <3>4
  <2>3. v.outEnd = o + size /\ v.window = y.window /\ v.outBuffSize = room
    BY DEF Grown
  <2>4. y.window + OverLength < end
    BY <1>5 DEF Behind
  <2> HIDE DEF b, d, o, room
  <2> QED BY <2>1, <2>2, <2>3, <2>4 DEF Behind
<1>6. v.previousDstEnd = v.outEnd + 1
  <2>1. v.outEnd = o + size /\ v.previousDstEnd = o + 1 + size
    BY DEF Grown
  <2>2. o + 1 + size = (o + size) + 1
    <3> HIDE DEF o
    <3> QED BY <1>1
  <2> QED BY <2>1, <2>2
<1>7. OnePiece(y) => OnePiece(v)
  BY <1>6 DEF OnePiece, Grown
<1>8. TwoPieces(y, outBuff, decoded) => TwoPieces(v, b, d)
  <2> SUFFICES ASSUME TwoPieces(y, outBuff, decoded) PROVE TwoPieces(v, b, d)
    OBVIOUS
  <2> DEFINE e == y.dictEnd
  <2>1. e \in Int /\ Behind(y, outBuff, decoded, e)
    BY DEF TwoPieces, Zds
  <2>2. Behind(v, b, d, e)
    <3> HIDE DEF e, b, d
    <3> QED BY <1>5, <2>1
  <2>3. v.prefixStart = 1 /\ v.dictEnd = e /\ v.virtualStart = y.virtualStart
        /\ y.virtualStart <= 2 - e
    BY DEF TwoPieces, Grown
  <2> HIDE DEF b, d
  <2> QED BY <1>6, <2>2, <2>3 DEF TwoPieces
<1> QED
  BY <1>2, <1>4, <1>7, <1>8 DEF WindowOk

LEMMA SetSame ==
  ASSUME NEW z \in Zds, NEW x, NEW s
  PROVE  SameWindow(Set(z, x, s), z) /\ SameWindow(Set(NextBlock(z), x, s), z)
<1>1. SameWindow(Set(z, x, s), z)
  BY DEF Set, SameWindow, Zds
<1>2. SameWindow(Set(NextBlock(z), x, s), z)
  BY DEF Set, NextBlock, SameWindow, Zds
<1> QED
  BY <1>1, <1>2

LEMMA HeaderSame ==
  ASSUME NEW y \in Zds, NEW r, r = DecodeBlockHeader(y), ~ r.fails
  PROVE  SameWindow(r.z, y)
<1> DEFINE k == NextBlock(y)
           b == Frame(k).blocks[k.block]
<1>1. \/ r.z = Set(k, b.csize, "block")
      \/ r.z = EndOfBlocks(k) \/ r.z = ToBlockHeader(k)
  <2>1. r = IF b.type = "reserved" \/ b.csize > MaxBlock(Frame(k)) THEN Fails(k)
            ELSE IF b.csize > 0 THEN Done(Set(k, b.csize, "block"))
            ELSE IF LastBlock(k) THEN Done(EndOfBlocks(k))
            ELSE Done(ToBlockHeader(k))
    BY DEF DecodeBlockHeader, NextBlock, Set
  <2> HIDE DEF k, b
  <2> QED BY <2>1 DEF Fails, Done
<1>2. \E x, s : r.z = Set(k, x, s)
  <2>1. /\ \E x, s : EndOfBlocks(k) = Set(k, x, s)
        /\ \E x, s : ToBlockHeader(k) = Set(k, x, s)
    <3> HIDE DEF k
    <3> QED BY DEF EndOfBlocks, ToBlockHeader, Set
  <2> HIDE DEF k, b
  <2> QED BY <1>1, <2>1
<1> QED
  BY <1>2, SetSame

LEMMA BlockGrows ==
  ASSUME NEW y \in Zds, NEW n, NEW dst, NEW capacity,
         NEW r, r = DecompressBlock(y, n, dst, capacity), ~ r.fails
  PROVE  /\ r.z.frame = y.frame /\ r.z.window = y.window
         /\ r.z.outBuffSize = y.outBuffSize /\ r.z.outEnd = y.outEnd
         /\ r.z.prefixStart = y.prefixStart /\ r.z.virtualStart = y.virtualStart
         /\ r.z.dictEnd = y.dictEnd
         /\ r.z.decodedSize = y.decodedSize + r.size
         /\ r.z.previousDstEnd = dst + r.size
<1> DEFINE f == Frame(y)
           b == f.blocks[y.block]
           size == IF b.type = "raw" THEN n ELSE b.size
           left == IF b.type = "raw" THEN y.expected - n ELSE 0
           t == BlockTaken(y, left, size, dst + size)
           next == IF left > 0 THEN t
                   ELSE IF LastBlock(y) THEN EndOfBlocks(t) ELSE ToBlockHeader(t)
<1>1. r = [z |-> next, size |-> size, fails |-> FALSE]
  <2>1. \/ r = Fails(y)
        \/ r = [z |-> next, size |-> size, fails |-> FALSE]
    BY DEF DecompressBlock, BlockTaken
  <2> HIDE DEF next, size
  <2> QED BY <2>1 DEF Fails
<1>2. r.z = next /\ r.size = size
  <2> HIDE DEF next, size
  <2> QED BY <1>1
<1>3. next = t \/ \E x, s : next = Set(t, x, s)
  <2>1. /\ \E x, s : EndOfBlocks(t) = Set(t, x, s)
        /\ \E x, s : ToBlockHeader(t) = Set(t, x, s)
    <3> HIDE DEF t
    <3> QED BY DEF EndOfBlocks, ToBlockHeader, Set
  <2> HIDE DEF t, left
  <2> QED BY <2>1
<1> DEFINE end == dst + size
<1>4. t = [y EXCEPT !.expected = left, !.decodedSize = @ + size, !.previousDstEnd = end]
  BY DEF BlockTaken
<1> HIDE DEF next, size, left, t, end
<1>5. SameWindow(next, t)
  <2>1. \A x, s : SameWindow(Set(t, x, s), t)
    BY <1>4 DEF Set, SameWindow, Zds
  <2>2. SameWindow(t, t)
    BY DEF SameWindow
  <2> QED BY <1>3, <2>1, <2>2
<1>6. /\ t.frame = y.frame /\ t.window = y.window
      /\ t.outBuffSize = y.outBuffSize /\ t.outEnd = y.outEnd
      /\ t.prefixStart = y.prefixStart /\ t.virtualStart = y.virtualStart
      /\ t.dictEnd = y.dictEnd
      /\ t.decodedSize = y.decodedSize + size
      /\ t.previousDstEnd = end
  BY <1>4 DEF Zds
<1> QED
  BY <1>2, <1>5, <1>6 DEF SameWindow, end

\* The decoder when it goes on to read or to flush.
WentOn(v, w, stage, end) ==
  \/ v = [w EXCEPT !.streamStage = stage] /\ end = w.outEnd
  \/ v = [w EXCEPT !.streamStage = stage, !.outEnd = end]

LEMMA GoesOn ==
  ASSUME NEW w \in Zds, NEW stage, NEW end, NEW v, WentOn(v, w, stage, end)
  PROVE  /\ v.frame = w.frame /\ v.window = w.window /\ v.outBuffSize = w.outBuffSize
         /\ v.prefixStart = w.prefixStart /\ v.virtualStart = w.virtualStart
         /\ v.dictEnd = w.dictEnd /\ v.decodedSize = w.decodedSize
         /\ v.previousDstEnd = w.previousDstEnd /\ v.stage = w.stage
         /\ v.outEnd = end
<1>1. CASE v = [w EXCEPT !.streamStage = stage] /\ end = w.outEnd
  BY <1>1 DEF Zds
<1>2. CASE v = [w EXCEPT !.streamStage = stage, !.outEnd = end]
  BY <1>2 DEF Zds
<1> QED
  BY <1>1, <1>2 DEF WentOn

LEMMA ContinueStreamWindow ==
  ASSUME Ready, WindowInv, NEW z, NEW n, Fed(z, n), SameWindow(z, zds), ContinueStream(z, n)
  PROVE  WindowInv'
<1> DEFINE skips == z.stage = "skipFrame"
           o == z.outStart
           dst == o + 1
           capacity == IF skips THEN 0 ELSE z.outBuffSize - o
           r == Continue(z, n, dst, capacity)
           overruns == z.stage = "block" /\ Frame(z).blocks[z.block].type = "compressed"
           v == zds'
           w == r.z
           size == r.size
           y == IF capacity > 0 THEN CheckContinuity(z, dst) ELSE z
<1>0. archive' = archive
  BY DEF Fed
<1>1. CASE r.fails
  <2>1. zds' = zds /\ outBuff' = outBuff /\ decoded' = decoded
    BY <1>1 DEF ContinueStream
  <2> QED BY <1>0, <2>1, Stays
<1>2. CASE ~ r.fails
  <2>1. /\ v = IF size = 0 /\ ~ skips
                 THEN [w EXCEPT !.streamStage = "read"]
                 ELSE [w EXCEPT !.streamStage = "flush", !.outEnd = o + size]
        /\ outBuff' = IF z.stage = "block" THEN Written(dst, size, overruns) ELSE outBuff
        /\ decoded' = decoded + size
    BY <1>2 DEF ContinueStream
  <2>2. Takes(z, n) /\ z.outStart = z.outEnd
    BY FedTakes
  <2>3. /\ z \in Zds /\ StageInv(z) /\ z.outEnd <= z.outBuffSize /\ z.outEnd \in Nat
        /\ z.outBuffSize \in Nat /\ z.expected > 0 /\ InFrame(z)
        /\ z.stage = zds.stage /\ z.streamStage = zds.streamStage
    BY <2>2 DEF Takes, StageInv, Zds, Fed, SamePlace
  <2>0. o = z.outEnd /\ o \in Nat /\ dst \in Int
    BY <2>2, <2>3
  <2> DEFINE room == z.outBuffSize
  <2>4. /\ capacity \in Nat /\ room \in Nat
        /\ ~ skips => room <= o + capacity /\ o + capacity <= room
    <3>1. o \in Nat /\ room \in Nat /\ o <= room
      BY <2>0, <2>3
    <3>2. capacity = IF skips THEN 0 ELSE room - o
      OBVIOUS
    <3> HIDE DEF o, room, capacity, skips
    <3> QED BY <3>1, <3>2
  <2> HIDE DEF capacity, room
  <2>5. UnitDone(z, n, r) /\ size <= capacity /\ (z.stage # "block" => size = 0)
    <3>1. r = Continue(z, n, dst, capacity)
      OBVIOUS
    <3>2. dst \in Int /\ capacity \in Nat
      BY <2>0, <2>4
    <3> HIDE DEF r, dst
    <3> QED BY <1>2, <2>2, <3>1, <3>2, ContinueDone
  <2>6. r = CASE z.stage = "blockHeader" -> DecodeBlockHeader(y)
              [] z.stage = "block" -> DecompressBlock(y, n, dst, capacity)
              [] z.stage = "checksum" -> IF Frame(y).honest THEN Done(EndOfFrame(y)) ELSE Fails(y)
              [] z.stage = "skipFrame" -> Done(EndOfFrame(y))
    BY DEF Continue
  <2> HIDE DEF r, y
  <2>7. w \in Zds /\ size \in Nat /\ w.outEnd = o
    BY <2>2, <2>5 DEF UnitDone, SameRest
  <2>8. /\ v.frame = w.frame /\ v.window = w.window /\ v.outBuffSize = w.outBuffSize
        /\ v.prefixStart = w.prefixStart /\ v.virtualStart = w.virtualStart
        /\ v.dictEnd = w.dictEnd /\ v.decodedSize = w.decodedSize
        /\ v.previousDstEnd = w.previousDstEnd /\ v.stage = w.stage
        /\ v.outEnd = o + size
    <3> DEFINE stage == IF size = 0 /\ ~ skips THEN "read" ELSE "flush"
               end == o + size
    <3>1. size = 0 => end = o
      <4> HIDE DEF size, o
      <4> QED BY <2>0
    <3>2. WentOn(v, w, stage, end)
      <4> HIDE DEF end, v, w, o, size
      <4> QED BY <2>1, <2>7, <3>1 DEF end, WentOn
    <3> HIDE DEF end, v, w, stage
    <3>3. /\ v.frame = w.frame /\ v.window = w.window /\ v.outBuffSize = w.outBuffSize
          /\ v.prefixStart = w.prefixStart /\ v.virtualStart = w.virtualStart
          /\ v.dictEnd = w.dictEnd /\ v.decodedSize = w.decodedSize
          /\ v.previousDstEnd = w.previousDstEnd /\ v.stage = w.stage
          /\ v.outEnd = end
      BY <2>7, <3>2, GoesOn
    <3> QED BY <3>3 DEF end
  <2>9. CASE z.stage \notin {"blockHeader", "block"}
    <3>1. z.stage \in {"checksum", "skipFrame"}
      BY <2>3, <2>9 DEF InFrame
    <3>2. r = Done(EndOfFrame(y))
      <4>1. r = Done(EndOfFrame(y)) \/ r = Fails(y)
        BY <2>6, <3>1
      <4> QED BY <1>2, <4>1 DEF Fails
    <3>3. w = EndOfFrame(y)
      BY <3>2 DEF Done
    <3>4. w.stage = "frameHeader"
      <4>1. DOMAIN w = DOMAIN y
        BY <3>3 DEF EndOfFrame
      <4>2. "stage" \in DOMAIN w
        BY <2>7 DEF Zds
      <4> HIDE DEF w
      <4> QED BY <3>3, <4>1, <4>2 DEF EndOfFrame
    <3> QED BY <1>0, <2>8, <3>4, Leaves DEF AmongBlocks
  <2>10. CASE z.stage \in {"blockHeader", "block"}
    <3>1. ~ skips /\ WindowOk(z, outBuff, decoded)
      <4>1. AmongBlocks(zds)
        BY <2>3, <2>10 DEF AmongBlocks, Fed
      <4>2. WindowOk(zds, outBuff, decoded)
        BY <4>1 DEF WindowInv
      <4> QED BY <2>10, <4>2, SameWindowOk
    <3>2. /\ y \in Zds /\ y.frame = z.frame /\ y.outBuffSize = z.outBuffSize
          /\ y.outEnd = o
          /\ WindowOk(y, outBuff, decoded)
          /\ OnePiece(y) \/ TwoPieces(y, outBuff, decoded)
      <4>1. y = IF capacity > 0 THEN CheckContinuity(z, z.outEnd + 1) ELSE z
        BY <2>0 DEF y
      <4>2. z.outBuffSize <= z.outEnd + capacity /\ capacity \in Nat /\ z.outEnd = o
        BY <2>0, <2>4, <3>1 DEF room
      <4> HIDE DEF dst, o, skips
      <4>3. /\ y \in Zds /\ y.frame = z.frame /\ y.outBuffSize = z.outBuffSize
            /\ y.outEnd = z.outEnd
            /\ WindowOk(y, outBuff, decoded)
            /\ OnePiece(y) \/ TwoPieces(y, outBuff, decoded)
        BY <2>3, <3>1, <4>1, <4>2, PiecesLooked
      <4> QED BY <4>2, <4>3
    <3>3. SUFFICES WindowOk(v, outBuff', decoded')
      BY <1>0, WindowPrimed
    <3>4. CASE z.stage = "blockHeader"
      <4>1. r = DecodeBlockHeader(y)
        BY <2>6, <3>4
      <4>2. SameWindow(w, y)
        BY <1>2, <3>2, <4>1, HeaderSame
      <4>3. size = 0 /\ outBuff' = outBuff /\ decoded' = decoded
        <5>1. size = 0 /\ outBuff' = outBuff /\ decoded' = decoded + size
          BY <2>1, <2>5, <3>4
        <5>2. decoded \in Nat
          BY DEF Ready
        <5> QED BY <5>1, <5>2
      <4>4. SameWindow(v, y)
        <5>1. v.outEnd = y.outEnd
          <6>1. o + 0 = o
            BY <2>0
          <6> QED BY <2>8, <3>2, <4>3, <6>1
        <5> HIDE DEF v, w
        <5> QED BY <2>8, <4>2, <5>1 DEF SameWindow
      <4> QED BY <3>2, <4>3, <4>4, SameWindowOk
    <3>5. CASE z.stage = "block"
      <4>1. r = DecompressBlock(y, n, dst, capacity)
        BY <2>6, <3>5
      <4>2. /\ w.frame = y.frame /\ w.window = y.window
            /\ w.outBuffSize = y.outBuffSize
            /\ w.prefixStart = y.prefixStart /\ w.virtualStart = y.virtualStart
            /\ w.dictEnd = y.dictEnd
            /\ w.decodedSize = y.decodedSize + size
            /\ w.previousDstEnd = dst + size
        <5> HIDE DEF dst
        <5> QED BY <1>2, <3>2, <4>1, BlockGrows
      <4>3. Grown(v, y, size)
        <5>1. dst = y.outEnd + 1 /\ o = y.outEnd
          BY <3>2
        <5> HIDE DEF v, w, size, dst, o
        <5> QED BY <2>8, <4>2, <5>1 DEF Grown
      <4>4. /\ DOMAIN outBuff = 1..y.outBuffSize /\ decoded \in Nat
            /\ y.outEnd + size <= y.outBuffSize
        <5>1. DOMAIN outBuff = 1..zds.outBuffSize /\ zds.outBuffSize = z.outBuffSize
              /\ decoded \in Nat
          BY DEF Ready, Fed, SamePlace
        <5>2. o + size <= z.outBuffSize
          <6>1. /\ o \in Nat /\ size \in Nat /\ capacity \in Nat /\ room \in Nat
                /\ size <= capacity /\ o + capacity <= room
            BY <2>0, <2>4, <2>5, <2>7, <3>1
          <6> HIDE DEF o, size
          <6>2. o + size <= room
            BY <6>1
          <6> QED BY <6>2 DEF room
        <5> QED BY <3>2, <5>1, <5>2
      <4>5. outBuff' = Written(y.outEnd + 1, size, overruns) /\ decoded' = decoded + size
            /\ overruns \in BOOLEAN
        <5>1. dst = y.outEnd + 1
          BY <3>2
        <5> QED BY <2>1, <3>5, <5>1
      <4> HIDE DEF overruns, v, size
      <4>6. WindowOk(v, Written(y.outEnd + 1, size, overruns), decoded + size)
        <5>1. size \in Nat
          BY <2>7 DEF size
        <5> QED BY <3>2, <4>3, <4>4, <4>5, <5>1, BlockWritten
      <4> QED BY <4>5, <4>6
    <3> QED BY <2>10, <3>4, <3>5
  <2> QED BY <2>9, <2>10
<1> QED
  BY <1>1, <1>2

LEMMA ReadDirectWindow ==
  ASSUME Ready, WindowInv, ReadDirect
  PROVE  WindowInv'
<1>1. SameWindow(zds, zds)
  BY DEF SameWindow
<1> QED
  BY <1>1, ReadDirectFed, ContinueStreamWindow

LEMMA LoadWindow ==
  ASSUME Ready, WindowInv, Load
  PROVE  WindowInv'
<1> DEFINE e == zds.expected
           toLoad == e - zds.inPos
           n == Smaller(toLoad, inLen - inPos)
           z == [zds EXCEPT !.inPos = 0]
<1>1. archive' = archive /\ zds \in Zds
  BY DEF Load, Looping, Ready
<1>2. \/ zds' = zds /\ outBuff' = outBuff /\ decoded' = decoded
      \/ /\ zds' = [zds EXCEPT !.inPos = @ + n]
         /\ outBuff' = outBuff /\ decoded' = decoded
      \/ ~ (n < toLoad) /\ inPos' = inPos + n /\ ContinueStream(z, e)
  BY DEF Load, Available
<1>3. CASE zds' = zds /\ outBuff' = outBuff /\ decoded' = decoded
  BY <1>1, <1>3, Stays
<1>4. CASE /\ zds' = [zds EXCEPT !.inPos = @ + n]
           /\ outBuff' = outBuff /\ decoded' = decoded
  <2> HIDE DEF n
  <2>1. SameWindow(zds', zds)
    BY <1>1, <1>4 DEF SameWindow, Zds
  <2>2. zds'.stage = zds.stage /\ zds'.streamStage = zds.streamStage
    BY <1>1, <1>4 DEF Zds
  <2> QED BY <1>1, <1>4, <2>1, <2>2, Moves DEF AmongBlocks
<1>5. CASE ~ (n < toLoad) /\ inPos' = inPos + n /\ ContinueStream(z, e)
  <2>1. Completes
    BY <1>5 DEF Completes
  <2>2. Fed(z, e)
    BY <2>1, LoadFed
  <2>3. SameWindow(z, zds)
    BY <1>1 DEF SameWindow, Zds
  <2> HIDE DEF z, e
  <2> QED BY <1>5, <2>2, <2>3, ContinueStreamWindow
<1> QED
  BY <1>2, <1>3, <1>4, <1>5

-----------------------------------------------------------------------------
(* The invariant, and what the runs check                                  *)

LEMMA DecodeWindow ==
  ASSUME Ready, WindowInv, Decode
  PROVE  WindowInv'
<1>1. StepOk
  BY DecodeStep
<1> QED
  BY <1>1, StartFrameWindow, LoadHeaderWindow, HeaderFailsWindow, SinglePassWindow,
     ConsumeHeaderWindow, ReadEndWindow, ReadDirectWindow, ReadShortWindow, LoadWindow,
     FlushWindow, ResultWindow DEF Decode

\* Wherever the decoder is among the blocks of a frame, its buffer holds the window
\* in one piece, or in two, as CheckContinuity sees them or is about to, with room
\* between the pieces for the next block and the copies that run over its end.
THEOREM WindowInvariant == Spec => [](ReadInv /\ WindowInv)
<1>1. Init => WindowInv
  <2> SUFFICES ASSUME Init PROVE WindowInv
    OBVIOUS
  <2>1. zds.streamStage = "init"
    BY DEF Init, DecoderInit, NoFrame
  <2> QED BY <2>1 DEF WindowInv, AmongBlocks
<1>2. ReadInv /\ WindowInv /\ [Next]_vars => WindowInv'
  <2> SUFFICES ASSUME ReadInv, WindowInv, [Next]_vars PROVE WindowInv'
    OBVIOUS
  <2>1. CASE DecoderStep
    <3>1. Ready /\ Decode
      BY <2>1, ReadyNow DEF DecoderStep
    <3> QED BY <3>1, DecodeWindow
  <2>2. CASE Call \/ Copy \/ Refill \/ UNCHANGED vars
    <3>1. archive' = archive /\ outBuff' = outBuff /\ decoded' = decoded /\ zds' = zds
      BY <2>2 DEF Call, Copy, Refill, vars, decoderVars
    <3> QED BY <3>1, Stays
  <2> QED BY <2>1, <2>2 DEF Next
<1>3. Init => ReadInv
  BY InitInv
<1>4. ReadInv /\ [Next]_vars => ReadInv'
  BY CallInvStep, CopyStep, RefillStep, DecoderStepInv, StutterStep DEF Next
<1> QED
  BY <1>1, <1>2, <1>3, <1>4, PTL DEF Spec

\* Every byte that the next compressed block may copy, at each of its positions, is
\* in the buffer where ZSTD_execSequence looks for it, for windows, blocks and
\* buffers of every size.
THEOREM WindowStays == Spec => []WindowIntact
<1>1. ReadInv /\ WindowInv => WindowIntact
  <2> SUFFICES ASSUME ReadInv, WindowInv,
                      zds.streamStage \in {"read", "load"}, zds.stage = "block",
                      NEW k \in 0..(Frame(zds).blocks[zds.block].size - 1),
                      NEW d \in 1..Smaller(Frame(zds).window, zds.decodedSize + k)
               PROVE  LET dst == zds.outStart + 1
                          z == CheckContinuity(zds, dst)
                          a == dst + k
                          s == SourceOf(z, a, d)
                      IN /\ d <= a - z.virtualStart
                         /\ \/ s >= dst /\ s < a
                            \/ /\ s \in DOMAIN outBuff /\ outBuff[s] = decoded + k + 1 - d
                               /\ s < dst \/ s >= a + OverLength
    BY DEF WindowIntact
  <2>1. /\ zds \in Zds /\ decoded \in Nat /\ DOMAIN outBuff = 1..zds.outBuffSize
        /\ archive \in Archives /\ StageInv(zds)
    BY DEF ReadInv, Typed
  <2>2. zds.outStart = zds.outEnd /\ zds.outEnd <= zds.outBuffSize /\ AmongBlocks(zds)
    BY <2>1 DEF StageInv, AmongBlocks
  <2>3. Frame(zds).kind = "zstd" /\ zds.frame > 0 /\ zds.frame \in Nat
    BY <2>1, <2>2, ExpectsBlocks DEF Zds
  <2>4. Frame(zds) \in ZstdFrames /\ Frame(zds).window \in Nat
    <3>1. Frame(zds) \in Frames
      BY <2>1, <2>3, FrameIs
    <3>2. Frame(zds) \in ZstdFrames
      BY <2>3, <3>1, FrameKinds
    <3> QED BY <3>2 DEF ZstdFrames
  <2>5. Frame(zds).blocks[zds.block].size \in Nat
    <3>1. zds.block \in 1..Len(Frame(zds).blocks)
      BY <2>1, <2>2, <2>3 DEF StageInv, AmongBlocks, InFrame
    <3>2. Frame(zds).blocks[zds.block] \in Block
      BY <2>4, <3>1, BlockSums
    <3> QED BY <3>2 DEF Block
  <2>6. k \in Nat
    BY <2>5
  <2>7. d \in Nat /\ d > 0 /\ d <= Frame(zds).window /\ d <= zds.decodedSize + k
    <3> DEFINE w == Frame(zds).window
               t == zds.decodedSize + k
    <3>1. w \in Nat /\ t \in Nat /\ d \in 1..Smaller(w, t)
      <4>1. zds.decodedSize \in Nat
        BY <2>1 DEF Zds
      <4>2. t \in Nat
        BY <2>6, <4>1
      <4> QED BY <2>4, <4>2
    <3> HIDE DEF w, t
    <3>2. d \in Nat /\ d > 0 /\ d <= w /\ d <= t
      BY <3>1 DEF Smaller
    <3> QED BY <3>2 DEF w, t
  <2>8. InWindow(k, d)
    BY <2>1, <2>2, <2>4, <2>6, <2>7 DEF InWindow, WindowInv
  <2> QED BY <2>8, WindowShown
<1> QED
  BY <1>1, WindowInvariant, PTL

-----------------------------------------------------------------------------
(* Every call makes progress                                               *)

\* There is something to do: a unit to decode, output to flush, or a part of a
\* header to load.
Fresh(z) ==
  /\ z.streamStage = "read" => z.expected > 0
  /\ z.streamStage = "flush" => Pending(z)
  /\ z.streamStage = "loadHeader" => z.lhSize < WholeHeader(Frame(z))

\* A call that has done nothing yet has input and something to do with it; one that
\* is over has taken input or put out something.  A byte is kept back only when the
\* caller has it still.
ProgressInv ==
  call # "error" =>
    /\ KeptBack = 1 => inPos < inLen
    /\ call = "out" => Fresh(zds)
    /\ call \in {"loop", "result"} => istart <= inPos
    /\ call = "loop" /\ inPos = istart /\ outLen = 0 => inPos < inLen /\ Fresh(zds)
    /\ call = "result" => inPos > istart \/ outLen > 0
    /\ call = "result" /\ zds.streamStage = "flush" => Pending(zds)

\* ProgressInv of the state after a step.
Progressed ==
  call' # "error" =>
    /\ KeptBack' = 1 => inPos' < inLen
    /\ call' = "out" => Fresh(zds')
    /\ call' \in {"loop", "result"} => istart <= inPos'
    /\ call' = "loop" /\ inPos' = istart /\ outLen' = 0 => inPos' < inLen /\ Fresh(zds')
    /\ call' = "result" => inPos' > istart \/ outLen' > 0
    /\ call' = "result" /\ zds'.streamStage = "flush" => Pending(zds')

LEMMA ProgressPrimed ==
  ASSUME archive' = archive, inLen' = inLen, istart' = istart, Progressed
  PROVE  ProgressInv'
<1>1. Fresh(zds)' <=> Fresh(zds')
  BY DEF Fresh, Frame, Pending
<1>2. Pending(zds)' <=> Pending(zds')
  BY DEF Pending
<1> QED
  BY <1>1, <1>2 DEF ProgressInv, Progressed

\* The decoder in a call.
LEMMA InCall ==
  ASSUME Ready, ProgressInv
  PROVE  /\ zds \in Zds /\ StageInv(zds)
         /\ inPos \in Nat /\ inLen \in Nat /\ istart \in Nat /\ outLen \in Nat
         /\ inPos <= inLen /\ istart <= inPos
         /\ KeptBack = 1 => inPos < inLen
         /\ call = "loop" /\ inPos = istart /\ outLen = 0 => inPos < inLen /\ Fresh(zds)
         /\ call = "result" => inPos > istart \/ outLen > 0
         /\ call = "result" /\ zds.streamStage = "flush" => Pending(zds)
<1>1. /\ inLen \in Nat /\ inPos \in 0..inLen /\ istart \in 0..inLen
      /\ outLen \in 0..DStreamOutSize /\ DStreamOutSize \in Nat
      /\ zds \in Zds /\ StageInv(zds) /\ call \in {"loop", "result"}
  BY DEF Ready
<1>2. inPos \in Nat /\ istart \in Nat /\ inPos <= inLen /\ outLen \in Nat
  BY <1>1
<1> QED
  BY <1>1, <1>2 DEF ProgressInv

\* A step of the call that takes or puts out something.
LEMMA Advances ==
  ASSUME Ready, ProgressInv, inPos' \in Nat, outLen' \in Nat,
         inPos' > istart \/ (inPos' >= istart /\ outLen' > 0),
         KeptBack' = 1 => inPos' < inLen, call' \in {"loop", "result"},
         call' = "result" /\ zds'.streamStage = "flush" => Pending(zds')
  PROVE  Progressed
<1>1. istart \in Nat
  BY InCall
<1>2. istart <= inPos' /\ (inPos' # istart \/ outLen' # 0)
  BY <1>1
<1> QED
  BY <1>2 DEF Progressed

LEMMA StartFrameProgress ==
  ASSUME Ready, ProgressInv, StartFrame
  PROVE  Progressed
<1>1. /\ zds \in Zds /\ archive' = archive /\ call = "loop" /\ call' = call
      /\ inPos' = inPos /\ outLen' = outLen
      /\ zds' = [zds EXCEPT !.streamStage = "loadHeader", !.frame = @ + 1, !.block = 0,
                            !.lhSize = 0, !.inPos = 0, !.outStart = 0, !.outEnd = 0,
                            !.hostageByte = FALSE]
  BY DEF Ready, StartFrame, Looping
<1>2. zds'.streamStage = "loadHeader" /\ zds'.lhSize = 0 /\ zds'.hostageByte = FALSE
  BY <1>1 DEF Zds
<1>3. Fresh(zds')
  <2>1. zds' \in Zds /\ StageInv(zds') /\ archive \in Archives
    BY StartFrameStep DEF StepOk, Ready
  <2>2. zds'.frame > 0 /\ zds'.frame \in Nat
    BY <1>2, <2>1 DEF StageInv, Zds
  <2>3. Frame(zds') \in Frames
    BY <2>1, <2>2, FrameIs
  <2>4. WholeHeader(Frame(zds')) \in Nat /\ PrefixSize <= WholeHeader(Frame(zds'))
    BY <2>3, FrameSizeType
  <2>5. 0 < WholeHeader(Frame(zds'))
    <3> DEFINE w == WholeHeader(Frame(zds'))
    <3>1. w \in Nat /\ 5 <= w
      BY <2>4 DEF PrefixSize
    <3> HIDE DEF w
    <3>2. 0 < w
      BY <3>1
    <3> QED BY <3>2 DEF w
  <2> QED BY <1>2, <2>5 DEF Fresh
<1>4. KeptBack' = 0
  BY <1>2 DEF KeptBack
<1> QED
  BY <1>1, <1>3, <1>4, InCall DEF Progressed

\* What consuming a header writes, apart from which buffers it makes anew.
ConsumedHeader(y) ==
  LET f == Frame(zds)
      skips == f.kind = "skippable"
      needIn == Larger(IF skips THEN 0 ELSE MaxBlock(f), ChecksumSize)
  IN  \E stage, expected, window, oversized, in, out :
        /\ y = [DecompressBegin(zds) EXCEPT
                  !.streamStage = "read", !.stage = stage, !.expected = expected,
                  !.window = window, !.oversized = oversized,
                  !.inBuffSize = in, !.outBuffSize = out]
        /\ stage = IF skips THEN "skipFrame" ELSE "blockHeader"
        /\ expected = IF skips THEN f.skip ELSE BlockHeaderSize
        /\ in = needIn \/ (in = zds.inBuffSize /\ ~ (zds.inBuffSize < needIn))

LEMMA HeaderConsumed ==
  ASSUME zds \in Zds, ConsumeHeader
  PROVE  ConsumedHeader(zds')
<1> DEFINE y == zds'
           f == Frame(zds)
           skips == f.kind = "skippable"
           needIn == Larger(IF skips THEN 0 ELSE MaxBlock(f), ChecksumSize)
           window == Larger(IF skips THEN 0 ELSE f.window, MinWindow)
           needOut == IF skips
                        THEN DecodingBufferSize(window, f.skip)
                        ELSE DecodingBufferSize(window, f.fcs)
           oversized == OversizedDuration(zds, needIn, needOut)
           resize == \/ zds.inBuffSize < needIn \/ zds.outBuffSize < needOut
                     \/ oversized >= MaxOversized
           in == IF resize THEN needIn ELSE zds.inBuffSize
           out == IF resize THEN needOut ELSE zds.outBuffSize
           stage == IF skips THEN "skipFrame" ELSE "blockHeader"
           expected == IF skips THEN f.skip ELSE BlockHeaderSize
<1>1. y = [DecompressBegin(zds) EXCEPT
             !.streamStage = "read", !.stage = stage, !.expected = expected,
             !.window = window, !.oversized = oversized,
             !.inBuffSize = IF resize THEN needIn ELSE @,
             !.outBuffSize = IF resize THEN needOut ELSE @]
  BY DEF ConsumeHeader
<1>2. DecompressBegin(zds).inBuffSize = zds.inBuffSize
      /\ DecompressBegin(zds).outBuffSize = zds.outBuffSize
  BY DEF DecompressBegin, Zds
<1>3. in = needIn \/ (in = zds.inBuffSize /\ ~ (zds.inBuffSize < needIn))
  <2> HIDE DEF needIn, needOut, oversized
  <2> QED OBVIOUS
<1>4. y = [DecompressBegin(zds) EXCEPT
             !.streamStage = "read", !.stage = stage, !.expected = expected,
             !.window = window, !.oversized = oversized,
             !.inBuffSize = in, !.outBuffSize = out]
  <2> HIDE DEF stage, expected, window, oversized, resize, needIn, needOut, y
  <2> QED BY <1>1, <1>2
<1>5. \E st, ex, w, ov, ib, ob :
        /\ y = [DecompressBegin(zds) EXCEPT
                  !.streamStage = "read", !.stage = st, !.expected = ex,
                  !.window = w, !.oversized = ov,
                  !.inBuffSize = ib, !.outBuffSize = ob]
        /\ st = stage
        /\ ex = expected
        /\ ib = needIn \/ (ib = zds.inBuffSize /\ ~ (zds.inBuffSize < needIn))
  <2> HIDE DEF stage, expected, window, oversized, resize, needIn, y, in, out
  <2> QED BY <1>3, <1>4
<1> QED
  BY <1>5, Zenon DEF ConsumedHeader

LEMMA ConsumeHeaderHostage ==
  ASSUME Ready, ConsumeHeader
  PROVE  zds'.hostageByte = FALSE
<1>1. zds \in Zds /\ ~ zds.hostageByte
  BY InHeader DEF Ready, ConsumeHeader, HeaderLoaded, LoadingHeader
<1> DEFINE b == DecompressBegin(zds)
<1>2. b.hostageByte = FALSE /\ b = [n \in DOMAIN b |-> b[n]] /\ "hostageByte" \in DOMAIN b
  BY <1>1 DEF DecompressBegin, Zds
<1>3. \E stage, expected, window, oversized, in, out :
        zds' = [b EXCEPT !.streamStage = "read", !.stage = stage, !.expected = expected,
                         !.window = window, !.oversized = oversized,
                         !.inBuffSize = in, !.outBuffSize = out]
  <2>1. ConsumedHeader(zds')
    BY <1>1, HeaderConsumed
  <2> DEFINE y == zds'
             f == Frame(zds)
             skips == f.kind = "skippable"
             needIn == Larger(IF skips THEN 0 ELSE MaxBlock(f), ChecksumSize)
  <2>2. PICK stage, expected, window, oversized, in, out :
          /\ y = [DecompressBegin(zds) EXCEPT
                    !.streamStage = "read", !.stage = stage, !.expected = expected,
                    !.window = window, !.oversized = oversized,
                    !.inBuffSize = in, !.outBuffSize = out]
          /\ stage = IF skips THEN "skipFrame" ELSE "blockHeader"
          /\ expected = IF skips THEN f.skip ELSE BlockHeaderSize
          /\ in = needIn \/ (in = zds.inBuffSize /\ ~ (zds.inBuffSize < needIn))
    BY <2>1, Zenon DEF ConsumedHeader
  <2> HIDE DEF f, skips, needIn
  <2> QED BY <2>2
<1> HIDE DEF b
<1> QED
  BY <1>2, <1>3

LEMMA LoadHeaderProgress ==
  ASSUME Ready, ProgressInv, LoadHeader
  PROVE  Progressed
<1> DEFINE f == Frame(zds)
           have == zds.lhSize
           wants == HeaderWants(f, have)
           n == Smaller(wants - have, inLen - inPos)
<1>1. /\ archive' = archive /\ call = "loop" /\ zds.streamStage = "loadHeader" /\ zds \in Zds
      /\ outLen' = outLen /\ wants > 0 /\ inPos' = inPos + n
      /\ zds' = [zds EXCEPT !.lhSize = @ + n]
      /\ call' \in {"out", "loop"}
  BY DEF Ready, LoadHeader, LoadingHeader, Looping, Available
<1>2. f \in Frames /\ have \in 0..WholeHeader(f) /\ WholeHeader(f) \in Nat /\ ~ zds.hostageByte
  BY <1>1, InHeader
<1>3. wants \in 0..WholeHeader(f) /\ (wants > 0 => have < wants)
  <2> HIDE DEF f, have
  <2> QED BY <1>2, HeaderWanted DEF f, have
<1>4. inPos \in Nat /\ inLen \in Nat /\ istart \in Nat /\ outLen \in Nat /\ istart <= inPos
      /\ inPos <= inLen
  BY InCall
<1>5. wants \in Nat /\ have \in Nat /\ have < wants
  <2> DEFINE w == WholeHeader(f)
  <2>1. w \in Nat /\ wants \in 0..w /\ have \in 0..w /\ have < wants
    BY <1>1, <1>2, <1>3
  <2> HIDE DEF w, wants, have
  <2> QED BY <2>1
<1> HIDE DEF wants, have, f
<1>6. n \in Nat /\ inPos' >= istart /\ (inPos < inLen => inPos' > istart)
  BY <1>1, <1>4, <1>5 DEF Smaller
<1>7. zds'.streamStage = "loadHeader" /\ zds'.hostageByte = FALSE
  <2> HIDE DEF n
  <2> QED BY <1>1, <1>2 DEF Zds
<1>8. KeptBack' = 0
  BY <1>7 DEF KeptBack
<1>9. call' = "out" => Fresh(zds')
  <2>1. CallInv'
    BY LoadHeaderStep DEF StepOk
  <2>2. Frame(zds)' = Frame(zds')
    BY <1>1 DEF Frame
  <2>3. call' = "out" => zds'.lhSize < WholeHeader(Frame(zds'))
    BY <1>7, <2>1, <2>2 DEF CallInv
  <2> QED BY <1>7, <2>3 DEF Fresh
<1>10. ~ (inPos' = istart /\ outLen' = 0)
  <2>1. SUFFICES ASSUME inPos' = istart, outLen' = 0 PROVE FALSE
    OBVIOUS
  <2>2. inPos = istart /\ ~ (inPos < inLen)
    <3> HIDE DEF n
    <3>1. ~ (inPos' > istart)
      BY <1>4, <2>1
    <3>2. inPos + n = istart /\ istart <= inPos /\ n \in Nat
      BY <1>1, <1>4, <1>6, <2>1
    <3>3. inPos = istart
      BY <1>4, <3>2
    <3> QED BY <1>6, <3>1, <3>3
  <2> QED BY <1>1, <2>1, <2>2, InCall
<1> QED
  BY <1>1, <1>6, <1>8, <1>9, <1>10 DEF Progressed

LEMMA SinglePassProgress ==
  ASSUME Ready, ProgressInv, SinglePass
  PROVE  Progressed
<1> SUFFICES ASSUME call' # "error" PROVE Progressed
  BY DEF Progressed
<1> DEFINE f == Frame(zds)
           size == FrameSize(f)
<1>1. /\ zds.streamStage = "loadHeader" /\ zds \in Zds
      /\ inPos' = istart + size /\ outLen' = outLen + PlainSize(f) /\ call' = "result"
      /\ zds' = [zds EXCEPT !.expected = 0, !.stage = "frameHeader", !.streamStage = "init"]
  BY DEF Ready, SinglePass, HeaderLoaded, LoadingHeader, Looping
<1>2. f \in Frames /\ ~ zds.hostageByte
  BY <1>1, InHeader
<1>3. size \in Nat /\ size > 0
  <2> DEFINE w == WholeHeader(f)
  <2>1. size \in Nat /\ w \in Nat /\ PrefixSize <= w /\ w <= size
    <3> HIDE DEF f
    <3> QED BY <1>2, FrameSizeType DEF f
  <2> HIDE DEF w, size
  <2> QED BY <2>1 DEF PrefixSize
<1>4. inPos' > istart
  <2> HIDE DEF size
  <2> QED BY <1>1, <1>3, InCall
<1>5. KeptBack' = 0 /\ zds'.streamStage = "init"
  <2>1. zds'.hostageByte = FALSE /\ zds'.streamStage = "init"
    BY <1>1, <1>2 DEF Zds
  <2> QED BY <2>1 DEF KeptBack
<1>6. istart <= inPos'
  <2> HIDE DEF size
  <2> QED BY <1>1, <1>3, InCall
<1> QED
  BY <1>1, <1>4, <1>5, <1>6 DEF Progressed

LEMMA ConsumeHeaderProgress ==
  ASSUME Ready, ProgressInv, ConsumeHeader
  PROVE  Progressed
<1>1. /\ archive' = archive /\ call = "loop" /\ call' = call /\ inPos' = inPos
      /\ outLen' = outLen
      /\ zds.streamStage = "loadHeader" /\ zds \in Zds
      /\ HeaderWants(Frame(zds), zds.lhSize) = 0
  BY DEF Ready, ConsumeHeader, HeaderLoaded, LoadingHeader, Looping
<1>2. /\ Frame(zds) \in Frames /\ zds.lhSize \in 0..WholeHeader(Frame(zds))
      /\ WholeHeader(Frame(zds)) \in Nat
  BY <1>1, InHeader
<1>3. zds.lhSize = WholeHeader(Frame(zds))
  BY <1>1, <1>2, HeaderWanted
<1>4. ~ Fresh(zds)
  <2>1. ~ (zds.lhSize < WholeHeader(Frame(zds)))
    <3> DEFINE w == WholeHeader(Frame(zds))
    <3>1. w \in Nat /\ zds.lhSize = w
      BY <1>2, <1>3
    <3> HIDE DEF w
    <3>2. ~ (zds.lhSize < w)
      BY <3>1
    <3> QED BY <3>2 DEF w
  <2> QED BY <1>1, <2>1 DEF Fresh
<1>5. KeptBack' = 0
  <2>1. StageInv(zds') /\ zds' \in Zds
    BY ConsumeHeaderStep DEF StepOk
  <2>2. zds'.hostageByte = FALSE
    BY <1>1, ConsumeHeaderHostage
  <2> QED BY <2>2 DEF KeptBack
<1> QED
  BY <1>1, <1>4, <1>5, InCall DEF Progressed

LEMMA ReadEndProgress ==
  ASSUME Ready, ProgressInv, ReadEnd
  PROVE  Progressed
<1>1. /\ call = "loop" /\ call' = "result" /\ inPos' = inPos /\ outLen' = outLen
      /\ inLen' = inLen
      /\ zds.streamStage = "read" /\ zds.expected = 0 /\ zds \in Zds
      /\ zds' = [zds EXCEPT !.streamStage = "init"]
  BY DEF Ready, ReadEnd, Looping
<1>2. ~ Fresh(zds)
  BY <1>1 DEF Fresh
<1>3. zds'.streamStage = "init" /\ zds'.hostageByte = zds.hostageByte
  BY <1>1 DEF Zds
<1>4. KeptBack' = KeptBack
  BY <1>1, <1>3 DEF KeptBack
<1>5. inPos > istart \/ outLen > 0
  BY <1>1, <1>2, InCall
<1> QED
  BY <1>1, <1>3, <1>4, <1>5, InCall DEF Progressed

LEMMA ReadShortProgress ==
  ASSUME Ready, ProgressInv, ReadShort
  PROVE  Progressed
<1>1. /\ call = "loop" /\ inPos' = inPos /\ outLen' = outLen
      /\ zds.streamStage = "read" /\ zds.expected > 0 /\ zds \in Zds
      /\ \/ inLen - inPos = 0 /\ call' = "result" /\ zds' = zds
         \/ call' = call /\ zds' = [zds EXCEPT !.streamStage = "load"]
  BY DEF Ready, ReadShort, Looping, Available
<1>2. ~ zds.hostageByte
  <2>1. StageInv(zds) /\ zds.expected \in Nat
    BY InCall DEF Zds
  <2> QED BY <1>1, <2>1 DEF StageInv
<1>3. CASE inLen - inPos = 0 /\ call' = "result" /\ zds' = zds
  <2>1. KeptBack' = 0
    BY <1>2, <1>3 DEF KeptBack
  <2>2. ~ (inPos < inLen)
    BY <1>3, InCall
  <2>3. inPos > istart \/ outLen > 0
    BY <1>1, <2>2, InCall
  <2> QED BY <1>1, <1>3, <2>1, <2>3, InCall DEF Progressed
<1>4. CASE call' = call /\ zds' = [zds EXCEPT !.streamStage = "load"]
  <2>1. zds'.streamStage = "load" /\ zds'.hostageByte = FALSE
    BY <1>1, <1>2, <1>4 DEF Zds
  <2>2. KeptBack' = 0 /\ Fresh(zds')
    BY <2>1 DEF KeptBack, Fresh
  <2> QED BY <1>1, <1>4, <2>2, InCall DEF Progressed
<1> QED
  BY <1>1, <1>3, <1>4

LEMMA GoesOnRest ==
  ASSUME NEW w \in Zds, NEW stage, NEW end, NEW v, WentOn(v, w, stage, end)
  PROVE  SamePlace(v, w) /\ v.streamStage = stage
<1>1. CASE v = [w EXCEPT !.streamStage = stage] /\ end = w.outEnd
  BY <1>1 DEF SamePlace, Zds
<1>2. CASE v = [w EXCEPT !.streamStage = stage, !.outEnd = end]
  BY <1>2 DEF SamePlace, Zds
<1> QED
  BY <1>1, <1>2 DEF WentOn

\* The decoder after a unit that has made size bytes of plain text.
Continued(v, z, size) ==
  /\ v.frame = z.frame /\ v.hostageByte = z.hostageByte
  /\ v.inBuffSize = z.inBuffSize /\ v.outBuffSize = z.outBuffSize
  /\ v.outEnd = z.outEnd + size /\ PlainInside(v) = PlainInside(z) + size
  /\ v.streamStage = IF size = 0 /\ z.stage # "skipFrame" THEN "read" ELSE "flush"
  /\ IF z.stage \in {"blockHeader", "block"} THEN v.decodedSize = z.decodedSize + size
                                              ELSE v.stage = "frameHeader"

LEMMA StreamContinued ==
  ASSUME Ready, NEW z, NEW n, Fed(z, n), ContinueStream(z, n), call' # "error"
  PROVE  \E size \in Nat : Continued(zds', z, size)
<1> DEFINE skips == z.stage = "skipFrame"
           dst == z.outStart + 1
           capacity == IF skips THEN 0 ELSE z.outBuffSize - z.outStart
           r == Continue(z, n, dst, capacity)
           w == r.z
           size == r.size
           end == z.outStart + size
           v == zds'
           y == IF capacity > 0 THEN CheckContinuity(z, dst) ELSE z
           stage == IF size = 0 /\ ~ skips THEN "read" ELSE "flush"
<1>1. /\ ~ r.fails
      /\ v = IF size = 0 /\ ~ skips
               THEN [w EXCEPT !.streamStage = "read"]
               ELSE [w EXCEPT !.streamStage = "flush", !.outEnd = end]
  BY DEF ContinueStream
<1>2. Takes(z, n) /\ z.outStart = z.outEnd
  BY FedTakes
<1>3. /\ z \in Zds /\ StageInv(z) /\ z.expected > 0 /\ InFrame(z)
      /\ z.streamStage \in {"read", "load"}
  BY <1>2 DEF Takes, StageInv
<1>4. dst \in Int /\ capacity \in Nat /\ z.outEnd \in Nat
  <2> DEFINE o == z.outStart
             room == z.outBuffSize
  <2>1. o \in Nat /\ room \in Nat /\ o <= room
    BY <1>2, <1>3 DEF StageInv, Zds
  <2> HIDE DEF o, room
  <2>2. o + 1 \in Int /\ room - o \in Nat
    BY <2>1
  <2> QED BY <1>2, <2>1, <2>2 DEF o, room
<1>5. r = CASE z.stage = "blockHeader" -> DecodeBlockHeader(y)
            [] z.stage = "block" -> DecompressBlock(y, n, dst, capacity)
            [] z.stage = "checksum" -> IF Frame(y).honest THEN Done(EndOfFrame(y)) ELSE Fails(y)
            [] z.stage = "skipFrame" -> Done(EndOfFrame(y))
  BY DEF Continue
<1> HIDE DEF dst, capacity
<1>6. UnitDone(z, n, r) /\ (z.stage # "block" => size = 0)
  <2>1. r = Continue(z, n, dst, capacity)
    OBVIOUS
  <2> HIDE DEF r
  <2> QED BY <1>1, <1>2, <1>4, <2>1, ContinueDone
<1>7. y \in Zds /\ y.decodedSize = z.decodedSize
  <2>1. CheckContinuity(z, dst) \in Zds
    BY <1>3, <1>4, ContinuityRest
  <2>2. CheckContinuity(z, dst).decodedSize = z.decodedSize
    BY <1>3, <1>4, ContinuityIs
  <2> QED BY <1>3, <2>1, <2>2
<1> HIDE DEF r, y
<1>8. w \in Zds /\ size \in Nat /\ SameRest(w, z) /\ PlainInside(w) = PlainInside(z) + size
  BY <1>6 DEF UnitDone
<1>9. WentOn(v, w, stage, end)
  <2>1. size = 0 => end = w.outEnd
    <3>1. z.outEnd + 0 = z.outEnd /\ w.outEnd = z.outEnd
      BY <1>4, <1>8 DEF SameRest
    <3> QED BY <1>2, <3>1
  <2> HIDE DEF v, w, size, end
  <2> QED BY <1>1, <2>1 DEF WentOn
<1>10. /\ SamePlace(v, w) /\ v.streamStage = stage
       /\ v.decodedSize = w.decodedSize /\ v.outEnd = end
  <2> HIDE DEF v, w, stage, end
  <2>1. SamePlace(v, w) /\ v.streamStage = stage
    BY <1>8, <1>9, GoesOnRest
  <2>2. v.decodedSize = w.decodedSize /\ v.outEnd = end
    BY <1>8, <1>9, GoesOn
  <2> QED BY <2>1, <2>2
<1>11. PlainInside(v) = PlainInside(z) + size
  <2>1. w.streamStage # "loadHeader" /\ v.streamStage # "loadHeader"
    BY <1>3, <1>8, <1>10 DEF SameRest
  <2>2. PlainInside(v) = PlainInside(w)
    <3> HIDE DEF v, w
    <3> QED BY <1>10, <2>1, PlaceDecides
  <2> QED BY <1>8, <2>2
<1>12. IF z.stage \in {"blockHeader", "block"} THEN w.decodedSize = z.decodedSize + size
                                               ELSE w.stage = "frameHeader"
  <2>1. CASE z.stage = "blockHeader"
    <3>1. r = DecodeBlockHeader(y)
      BY <1>5, <2>1
    <3>2. SameWindow(w, y)
      BY <1>1, <1>7, <3>1, HeaderSame
    <3>3. z.decodedSize + 0 = z.decodedSize
      BY <1>3 DEF Zds
    <3> QED BY <1>6, <1>7, <2>1, <3>2, <3>3 DEF SameWindow
  <2>2. CASE z.stage = "block"
    <3>1. r = DecompressBlock(y, n, dst, capacity)
      BY <1>5, <2>2
    <3>2. w.decodedSize = y.decodedSize + size
      BY <1>1, <1>7, <3>1, BlockGrows
    <3> QED BY <1>7, <2>2, <3>2
  <2>3. CASE z.stage \notin {"blockHeader", "block"}
    <3>1. z.stage \in {"checksum", "skipFrame"}
      BY <1>3, <2>3 DEF InFrame
    <3>2. r = Done(EndOfFrame(y)) \/ r = Fails(y)
      BY <1>5, <3>1
    <3>3. w = EndOfFrame(y)
      BY <1>1, <3>2 DEF Done, Fails
    <3>4. w.stage = "frameHeader"
      <4> HIDE DEF w
      <4> QED BY <1>7, <3>3 DEF EndOfFrame, Zds
    <3> QED BY <2>3, <3>4
  <2> QED BY <2>1, <2>2, <2>3
<1>13. Continued(v, z, size)
  <2> HIDE DEF v, w, size
  <2> QED BY <1>2, <1>8, <1>10, <1>11, <1>12 DEF SamePlace, SameRest, Continued, size
<1> QED
  BY <1>8, <1>13

\* A frame that is not at its end keeps back no byte.
LEMMA ContinueStreamHostage ==
  ASSUME Ready, NEW z, NEW n, Fed(z, n), ContinueStream(z, n), call' # "error"
  PROVE  zds'.hostageByte = FALSE
<1>1. z \in Zds /\ StageInv(z) /\ z.expected > 0
  BY FedTakes DEF Takes
<1>2. z.hostageByte = FALSE
  BY <1>1 DEF StageInv, Zds
<1> QED
  BY <1>2, StreamContinued DEF Continued

LEMMA Beyond ==
  ASSUME NEW from \in Int, NEW to \in Int, NEW n \in Int, NEW at \in Int,
         to - from = n - at, n > at
  PROVE  to > from
OBVIOUS

\* There is more in a unit than was loaded before.
Ahead(n) == n > zds.inPos

LEMMA FedProgress ==
  ASSUME Ready, ProgressInv, NEW z, NEW n, Fed(z, n), Ahead(n), ContinueStream(z, n)
  PROVE  Progressed
<1> SUFFICES ASSUME call' # "error" PROVE Progressed
  BY DEF Progressed
<1>1. zds'.hostageByte = FALSE
  BY ContinueStreamHostage
<1>2. KeptBack' = 0
  BY <1>1 DEF KeptBack
<1>3. call' = "loop"
  BY DEF ContinueStream, Fed
<1>4. istart <= inPos' /\ inPos' # istart
  <2> DEFINE at == zds.inPos
             e == z.expected
  <2>1. /\ n \in 1..e /\ e \in Nat /\ at \in Nat /\ inPos' - inPos = n - at /\ inPos' \in 0..inLen
        /\ inLen \in Nat /\ inPos \in Nat /\ istart \in Nat /\ istart <= inPos /\ n > at
    BY InCall DEF Fed, Zds, Ahead
  <2> HIDE DEF at, e
  <2>2. n \in Int /\ inPos' \in Int /\ inPos \in Int /\ at \in Int
    BY <2>1
  <2>3. inPos' > inPos
    BY <2>1, <2>2, Beyond
  <2> QED BY <2>1, <2>2, <2>3
<1> QED
  BY <1>2, <1>3, <1>4 DEF Progressed

LEMMA ReadDirectProgress ==
  ASSUME Ready, ProgressInv, ReadDirect
  PROVE  Progressed
<1> DEFINE n == NextSrcSize(zds, Available)
<1>1. Fed(zds, n) /\ ContinueStream(zds, n)
  BY ReadDirectFed
<1>2. zds.streamStage = "read"
  BY DEF ReadDirect
<1>3. zds.inPos = 0 /\ zds.expected \in Nat
  BY <1>2, InCall DEF StageInv, Zds
<1> HIDE DEF n
<1>4. Ahead(n)
  <2>1. n \in 1..zds.expected
    BY <1>1 DEF Fed
  <2> QED BY <1>3, <2>1 DEF Ahead
<1> QED
  BY <1>1, <1>4, FedProgress

LEMMA LoadProgress ==
  ASSUME Ready, ProgressInv, Load
  PROVE  Progressed
<1> SUFFICES ASSUME call' # "error" PROVE Progressed
  BY DEF Progressed
<1> DEFINE e == zds.expected
           at == zds.inPos
           toLoad == e - at
           n == Smaller(toLoad, inLen - inPos)
           z == [zds EXCEPT !.inPos = 0]
<1>1. /\ call = "loop" /\ zds.streamStage = "load" /\ zds \in Zds /\ outLen' = outLen
      /\ inPos' = inPos + n
      /\ \/ n < toLoad /\ zds' = [zds EXCEPT !.inPos = @ + n] /\ call' = "result"
         \/ ~ (n < toLoad) /\ ContinueStream(z, e)
  BY DEF Ready, Load, Looping, Available
<1>2. /\ at \in Nat /\ e \in Nat /\ at < e /\ ~ zds.hostageByte
      /\ inPos \in Nat /\ inLen \in Nat /\ inPos <= inLen /\ istart \in Nat /\ istart <= inPos
      /\ outLen \in Nat
  <2>1. at \in Nat /\ e \in Nat /\ at < e
    BY <1>1, InCall DEF StageInv, Zds
  <2>2. zds.hostageByte => e = 0
    BY InCall DEF StageInv
  <2>3. ~ zds.hostageByte
    <3> HIDE DEF at, e
    <3> QED BY <2>1, <2>2
  <2> QED BY <2>1, <2>3, InCall
<1>3. CASE n < toLoad /\ zds' = [zds EXCEPT !.inPos = @ + n] /\ call' = "result"
  <2>1. zds'.streamStage = "load" /\ zds'.hostageByte = FALSE
    <3> HIDE DEF n
    <3> QED BY <1>1, <1>2, <1>3 DEF Zds
  <2>2. KeptBack' = 0
    BY <2>1 DEF KeptBack
  <2>3. n \in Nat /\ inPos' >= istart /\ (inPos < inLen => inPos' > istart)
    <3> HIDE DEF at, e
    <3> QED BY <1>1, <1>2 DEF Smaller
  <2>4. inPos' > istart \/ outLen > 0
    <3>1. CASE inPos = istart /\ outLen = 0
      <4>1. inPos < inLen
        BY <1>1, <3>1, InCall
      <4> QED BY <2>3, <4>1
    <3>2. CASE outLen # 0
      BY <1>2, <3>2
    <3>3. CASE inPos # istart
      <4> HIDE DEF n
      <4>1. inPos > istart
        BY <1>2, <3>3
      <4> QED BY <1>1, <1>2, <2>3, <4>1
    <3> QED BY <3>1, <3>2, <3>3
  <2> QED BY <1>1, <1>3, <2>1, <2>2, <2>3, <2>4 DEF Progressed
<1>4. CASE ~ (n < toLoad) /\ ContinueStream(z, e)
  <2>1. Completes
    BY <1>1, <1>4 DEF Completes
  <2>2. Fed(z, e)
    BY <2>1, LoadFed
  <2>3. Ahead(e)
    <3>1. e > at
      <4> HIDE DEF e, at
      <4> QED BY <1>2
    <3> QED BY <3>1 DEF Ahead
  <2> HIDE DEF z, e
  <2> QED BY <1>4, <2>2, <2>3, FedProgress
<1> QED
  BY <1>1, <1>3, <1>4

LEMMA FlushProgress ==
  ASSUME Ready, ProgressInv, Flush
  PROVE  Progressed
<1> DEFINE a == zds.outStart
           b == zds.outEnd
           toFlush == b - a
           n == Smaller(toFlush, Room)
           start == a + n
<1>1. /\ zds \in Zds /\ call = "loop" /\ zds.streamStage = "flush" /\ inPos' = inPos
      /\ inLen' = inLen /\ outLen' = outLen + n
      /\ call' = IF n < toFlush THEN "result" ELSE "loop"
      /\ zds' = IF n < toFlush THEN [zds EXCEPT !.outStart = start]
                ELSE IF Restarts(zds, start)
                  THEN [zds EXCEPT !.streamStage = "read", !.outStart = 0, !.outEnd = 0]
                  ELSE [zds EXCEPT !.streamStage = "read", !.outStart = start]
  BY DEF Ready, Flush, Looping
<1>2. /\ a \in Nat /\ b \in Nat /\ a <= b
      /\ Room = DStreamOutSize - outLen /\ Room \in Nat /\ DStreamOutSize \in Nat
      /\ DStreamOutSize > 0 /\ outLen \in Nat
  <2>1. /\ a \in Nat /\ b \in Nat /\ a <= b
    BY <1>1, InTheFrame
  <2>2. /\ DStreamOutSize \in Nat /\ DStreamOutSize > 0 /\ outLen \in 0..DStreamOutSize
    BY ZstdAssumption DEF DStreamOutSize, Ready
  <2>3. Room = DStreamOutSize - outLen /\ Room \in Nat /\ outLen \in Nat
    BY <2>2 DEF Room
  <2> QED BY <2>1, <2>2, <2>3
<1>3. n \in Nat
  <2> HIDE DEF a, b
  <2> QED BY <1>2 DEF Smaller
<1>4. /\ zds'.hostageByte = zds.hostageByte
      /\ zds'.streamStage = IF n < toFlush THEN "flush" ELSE "read"
      /\ n < toFlush => zds'.outStart = start /\ zds'.outEnd = b
  <2> HIDE DEF n, start, toFlush
  <2> QED BY <1>1 DEF Zds
<1>5. KeptBack' = 1 => inPos' < inLen
  <2>1. KeptBack' = KeptBack
    BY <1>1, <1>4 DEF KeptBack
  <2> QED BY <1>1, <2>1, InCall
<1>6. CASE n < toFlush
  <2>1. outLen' > 0
    <3> HIDE DEF a, b
    <3>1. n = Room
      BY <1>2, <1>6 DEF Smaller
    <3> HIDE DEF n
    <3> QED BY <1>1, <1>2, <3>1
  <2>2. Pending(zds')
    <3>1. start # b
      <4> HIDE DEF a, b, n
      <4> QED BY <1>2, <1>3, <1>6
    <3> HIDE DEF start
    <3> QED BY <1>4, <1>6, <3>1 DEF Pending
  <2> HIDE DEF n
  <2> QED BY <1>1, <1>4, <1>5, <1>6, <2>1, <2>2, InCall DEF Progressed
<1>7. CASE ~ (n < toFlush)
  <2>1. ~ (inPos = istart /\ outLen' = 0)
    <3>1. SUFFICES ASSUME inPos = istart, outLen' = 0 PROVE FALSE
      OBVIOUS
    <3>2. outLen = 0 /\ a = b
      <4> HIDE DEF a, b
      <4>1. outLen = 0 /\ n = 0
        <5> HIDE DEF n
        <5> QED BY <1>1, <1>2, <1>3, <3>1
      <4>2. ~ (0 < b - a)
        BY <1>7, <4>1
      <4> QED BY <1>2, <4>1, <4>2
    <3>3. Pending(zds)
      BY <1>1, <3>1, <3>2, InCall DEF Fresh
    <3> QED BY <3>2, <3>3 DEF Pending
  <2> HIDE DEF n
  <2> QED BY <1>1, <1>4, <1>5, <1>7, <2>1, InCall DEF Progressed
<1> QED
  BY <1>6, <1>7

\* The result of a call that has made progress is no error.
LEMMA NeverStalls ==
  ASSUME Ready, ProgressInv, Result
  PROVE  call' # "error"
<1>1. call = "result"
  BY DEF Result
<1>2. ~ (inPos = istart /\ outLen = 0)
  BY <1>1, InCall
<1>3. MaxStalls \in Nat /\ MaxStalls > 0
  BY ZstdAssumption
<1>4. ~ (0 >= MaxStalls)
  BY <1>3
<1> QED
  BY <1>2, <1>4 DEF Result

LEMMA ResultProgress ==
  ASSUME Ready, ProgressInv, Result
  PROVE  Progressed
<1>1. /\ zds \in Zds /\ StageInv(zds) /\ CallInv /\ call = "result"
      /\ archive' = archive /\ inLen' = inLen
      /\ zds.outStart \in Nat /\ zds.expected \in Nat
  BY DEF Ready, Result, Zds
<1>2. PICK stalls \in Nat, hostage \in BOOLEAN,
           stage \in {"init", "loadHeader", "read", "load", "flush"} :
        zds' = Ended(zds, stalls, hostage, stage) /\ EndedHow(zds, hostage, stage)
  BY <1>1, NeverStalls, ResultCases
<1>3. /\ zds'.hostageByte = hostage /\ zds'.streamStage = stage
      /\ zds'.frame = zds.frame /\ zds'.expected = zds.expected /\ zds'.lhSize = zds.lhSize
      /\ zds'.outStart = zds.outStart /\ zds'.outEnd = zds.outEnd
  BY <1>1, <1>2 DEF Ended, Zds
<1>4. call' = "out"
  BY NeverStalls DEF Result
<1>5. KeptBack' = IF hostage /\ stage # "init" THEN 1 ELSE 0
  BY <1>3, <1>4 DEF KeptBack
<1>6. KeptBack = IF zds.hostageByte THEN 1 ELSE 0
  BY <1>1 DEF KeptBack
<1>7. zds'.streamStage = "loadHeader" => zds'.lhSize < WholeHeader(Frame(zds'))
  <2>1. CallInv'
    BY ResultStep DEF StepOk
  <2>2. Frame(zds)' = Frame(zds')
    BY <1>1 DEF Frame
  <2> QED BY <1>4, <2>1, <2>2 DEF CallInv
<1>8. CASE zds.expected > 0
  <2>1. hostage = zds.hostageByte /\ stage = zds.streamStage /\ inPos' = inPos
    BY <1>1, <1>2, <1>8 DEF EndedHow
  <2>2. ~ zds.hostageByte
    BY <1>1, <1>8 DEF StageInv
  <2>3. Fresh(zds')
    BY <1>1, <1>3, <1>7, <1>8, <2>1, InCall DEF Fresh, Pending
  <2> QED BY <1>4, <1>5, <2>1, <2>2, <2>3 DEF Progressed
<1>9. CASE zds.expected = 0 /\ ~ Pending(zds)
  <2>1. zds.streamStage = "init"
    BY <1>1, <1>9 DEF CallInv
  <2>2. ~ (zds.hostageByte /\ inPos >= inLen)
    <3>1. zds.hostageByte => inPos < inLen
      BY <1>6, InCall
    <3> QED BY <3>1, InCall
  <2>3. stage = "init"
    BY <1>2, <1>9, <2>1, <2>2 DEF EndedHow
  <2> QED BY <1>3, <1>4, <1>5, <2>3 DEF Progressed, Fresh
<1>10. CASE zds.expected = 0 /\ Pending(zds)
  <2>1. zds.streamStage = "flush"
    BY <1>1, <1>10 DEF StageInv, Pending
  <2>2. stage = "flush" /\ inPos' = IF zds.hostageByte THEN inPos ELSE inPos - 1
    BY <1>2, <1>10, <2>1 DEF EndedHow
  <2>3. Fresh(zds')
    BY <1>3, <1>10, <2>2 DEF Fresh, Pending
  <2>4. inPos' < inLen
    <3>1. zds.hostageByte => inPos < inLen
      BY <1>6, InCall
    <3>2. inPos \in Nat /\ inLen \in Nat /\ inPos <= inLen
      BY InCall
    <3> QED BY <2>2, <3>1, <3>2
  <2> QED BY <1>1, <1>4, <2>3, <2>4 DEF Progressed
<1>11. zds.expected > 0 \/ zds.expected = 0
  BY <1>1
<1> QED
  BY <1>8, <1>9, <1>10, <1>11

LEMMA HeaderFailsProgress ==
  ASSUME HeaderFails
  PROVE  Progressed
BY DEF HeaderFails, Progressed

LEMMA DecodeProgress ==
  ASSUME Ready, ProgressInv, Decode
  PROVE  ProgressInv'
<1>1. archive' = archive /\ inLen' = inLen /\ istart' = istart
  BY DecodeStep
<1>2. Progressed
  BY StartFrameProgress, LoadHeaderProgress, HeaderFailsProgress, SinglePassProgress,
     ConsumeHeaderProgress, ReadEndProgress, ReadDirectProgress, ReadShortProgress,
     LoadProgress, FlushProgress, ResultProgress DEF Decode
<1> QED
  BY <1>1, <1>2, ProgressPrimed

\* unzstd_read calls the decoder with input in its buffer and room for output.
LEMMA RefillProgress ==
  ASSUME ReadInv, ProgressInv, Refill
  PROVE  ProgressInv'
<1>1. /\ pc = "refill" /\ archive' = archive /\ zds' = zds /\ call = "out"
      /\ inPos \in 0..inLen /\ inLen \in Nat
  <2>1. pc = "refill" /\ archive' = archive /\ zds' = zds
    BY DEF Refill
  <2>2. inLen \in 0..DStreamInSize /\ inPos \in 0..inLen
    BY DEF ReadInv, Typed
  <2>3. inLen \in Nat
    BY <2>2
  <2> QED BY <2>1, <2>2, <2>3 DEF ReadInv, ReaderInv
<1>2. Fresh(zds) /\ (Fresh(zds)' <=> Fresh(zds))
  BY <1>1 DEF ProgressInv, Fresh, Frame, Pending
<1>3. CASE CallDecoder /\ inPos' < inLen'
  <2>1. inPos' \in Int
    <3>1. inPos' = inPos \/ inPos' = 0
      BY DEF Refill
    <3> QED BY <1>1, <3>1
  <2> QED BY <1>2, <1>3, <2>1 DEF CallDecoder, ProgressInv
<1>4. CASE UNCHANGED <<inPos, inLen, outLen, call, istart>>
  <2>1. KeptBack' = KeptBack
    BY <1>1, <1>4 DEF KeptBack
  <2> QED BY <1>1, <1>2, <1>4, <2>1 DEF ProgressInv
<1>5. \/ CallDecoder /\ inPos' < inLen'
      \/ UNCHANGED <<inPos, inLen, outLen, call, istart>>
  <2> DEFINE toRead == Smaller(DStreamInSize, bytesLeft)
  <2>1. \/ inPos < inLen /\ UNCHANGED <<inPos, inLen>> /\ CallDecoder
        \/ UNCHANGED <<inPos, inLen, outLen, call, istart>>
        \/ \E amount \in 1..toRead : inLen' = amount /\ inPos' = 0 /\ CallDecoder
    BY DEF Refill
  <2> HIDE DEF toRead
  <2> QED BY <2>1
<1> QED
  BY <1>3, <1>4, <1>5

\* A call of the decoder that returns has taken input or put out bytes, and what it
\* leaves can be gone on with: the counter of calls that do nothing never rises, for
\* any archive, good or not.
THEOREM CallsProgress == Spec => [](ReadInv /\ ProgressInv)
<1>1. Init => ProgressInv
  <2> SUFFICES ASSUME Init PROVE ProgressInv
    OBVIOUS
  <2>1. call = "out" /\ zds.streamStage = "init" /\ ~ zds.hostageByte
    BY DEF Init, DecoderInit, NoFrame
  <2> QED BY <2>1 DEF ProgressInv, KeptBack, Fresh
<1>2. ReadInv /\ ProgressInv /\ [Next]_vars => ProgressInv'
  <2> SUFFICES ASSUME ReadInv, ProgressInv, [Next]_vars PROVE ProgressInv'
    OBVIOUS
  <2>1. CASE DecoderStep
    <3>1. Ready /\ Decode
      BY <2>1, ReadyNow DEF DecoderStep
    <3> QED BY <3>1, DecodeProgress
  <2>2. CASE Refill
    BY <2>2, RefillProgress
  <2>3. CASE Call \/ Copy \/ UNCHANGED vars
    <3>1. UNCHANGED decoderVars
      BY <2>3 DEF Call, Copy, vars
    <3> QED BY <3>1 DEF decoderVars, ProgressInv, KeptBack, Fresh, Frame, Pending
  <2> QED BY <2>1, <2>2, <2>3 DEF Next
<1>3. Init => ReadInv
  BY InitInv
<1>4. ReadInv /\ [Next]_vars => ReadInv'
  BY CallInvStep, CopyStep, RefillStep, DecoderStepInv, StutterStep DEF Next
<1> QED
  BY <1>1, <1>2, <1>3, <1>4, PTL DEF Spec

-----------------------------------------------------------------------------
(* The buffers fit                                                         *)

InBlocks(z) ==
  z.streamStage \in {"read", "load", "flush"} /\ z.stage \in {"blockHeader", "block", "checksum"}

\* The input buffer holds any unit of the frame.
LoadsWhole(z) == z.inBuffSize >= Larger(MaxBlock(Frame(z)), ChecksumSize)

\* The output buffer has room for the next block, unless it holds the whole frame.
HasRoom(z) ==
  IF Frame(z).fcs = Unknown \/ z.outBuffSize < Frame(z).fcs
    THEN z.streamStage # "flush" => z.outEnd + MaxBlock(Frame(z)) <= z.outBuffSize
    ELSE z.outEnd = z.decodedSize

Fits(z) ==
  /\ InBlocks(z) => LoadsWhole(z)
  /\ AmongBlocks(z) => z.decodedSize = PlainInside(z) /\ HasRoom(z)

FitsInv == Fits(zds)

LEMMA FitsPrimed ==
  ASSUME archive' = archive, Fits(zds')
  PROVE  FitsInv'
<1>1. Frame(zds)' = Frame(zds')
  BY DEF Frame
<1>2. PlainInside(zds)' = PlainInside(zds')
  BY <1>1 DEF PlainInside
<1> QED
  BY <1>1, <1>2 DEF FitsInv, Fits, InBlocks, AmongBlocks, LoadsWhole, HasRoom

\* The fields that decide whether the buffers fit.
SameFit(y, z) ==
  /\ y.frame = z.frame /\ y.stage = z.stage /\ y.block = z.block /\ y.expected = z.expected
  /\ y.inBuffSize = z.inBuffSize /\ y.outBuffSize = z.outBuffSize
  /\ y.outEnd = z.outEnd /\ y.decodedSize = z.decodedSize

\* y comes after z among the blocks, and flushes only if z did.
LEMMA FitsMoves ==
  ASSUME NEW z, NEW y, Fits(z), SameFit(y, z),
         y.streamStage \in {"read", "load", "flush"} /\ y.stage # "frameHeader"
           => /\ z.streamStage \in {"read", "load", "flush"}
              /\ z.streamStage = "flush" => y.streamStage = "flush"
  PROVE  Fits(y)
<1>1. Frame(y) = Frame(z)
  BY DEF SameFit, Frame
<1>2. InBlocks(y) => InBlocks(z)
  BY DEF SameFit, InBlocks
<1>3. LoadsWhole(z) => LoadsWhole(y)
  BY <1>1 DEF SameFit, LoadsWhole
<1>4. ASSUME AmongBlocks(y) PROVE y.decodedSize = PlainInside(y) /\ HasRoom(y)
  <2>1. AmongBlocks(z) /\ (z.streamStage = "flush" => y.streamStage = "flush")
    BY <1>4 DEF AmongBlocks, SameFit
  <2>2. z.decodedSize = PlainInside(z) /\ HasRoom(z)
    BY <2>1 DEF Fits
  <2>3. PlainInside(y) = PlainInside(z)
    BY <1>1, <1>4, <2>1 DEF PlainInside, AmongBlocks, SameFit
  <2>4. HasRoom(y)
    BY <1>1, <2>1, <2>2 DEF HasRoom, SameFit
  <2> QED BY <2>2, <2>3, <2>4 DEF SameFit
<1> QED
  BY <1>2, <1>3, <1>4 DEF Fits

LEMMA FitsOutside ==
  ASSUME NEW y, ~ (y.streamStage \in {"read", "load", "flush"})
  PROVE  Fits(y)
BY DEF Fits, InBlocks, AmongBlocks

\* A buffer made for the frame that does not hold it all has room for a block.
LEMMA BlockFits ==
  ASSUME NEW w \in Nat, NEW window \in Nat, w <= window,
         NEW fcs \in Nat \cup {Unknown}, NEW room \in Nat,
         room >= DecodingBufferSize(window, fcs), fcs = Unknown \/ room < fcs
  PROVE  0 + Smaller(w, BlockSizeMax) <= room
<1> DEFINE part == Smaller(window, BlockSizeMax)
           needed == window + part + 2 * OverLength
           block == Smaller(w, BlockSizeMax)
<1>1. BlockSizeMax \in Nat /\ OverLength \in Nat
  BY ZstdAssumption
<1>2. part \in Nat /\ block \in Nat /\ block <= w
  BY <1>1 DEF Smaller
<1>3. needed \in Nat
  <2> HIDE DEF part
  <2> QED BY <1>1, <1>2
<1>4. room >= needed
  <2>1. room >= IF fcs = Unknown THEN needed ELSE Smaller(fcs, needed)
    BY DEF DecodingBufferSize
  <2> HIDE DEF needed
  <2>2. CASE fcs = Unknown
    BY <2>1, <2>2
  <2>3. CASE fcs # Unknown
    <3>1. fcs \in Nat /\ room < fcs /\ room >= Smaller(fcs, needed)
      BY <2>1, <2>3
    <3> QED BY <1>3, <3>1 DEF Smaller
  <2> QED BY <2>2, <2>3
<1>5. needed >= window
  <2> HIDE DEF part
  <2> QED BY <1>1, <1>2
<1> HIDE DEF needed, block
<1>6. 0 + block <= room
  BY <1>2, <1>3, <1>4, <1>5
<1> QED
  BY <1>6 DEF block

\* A roomy buffer that is empty has room for the next block.
LEMMA EmptyHasRoom ==
  ASSUME NEW z, Roomy(z), z.outEnd = 0, z.window \in Nat, z.outBuffSize \in Nat,
         Frame(z).window \in Nat, Frame(z).fcs \in Nat \cup {Unknown},
         (Frame(z).fcs = Unknown \/ z.outBuffSize < Frame(z).fcs) \/ z.decodedSize = 0
  PROVE  HasRoom(z)
<1> DEFINE w == Frame(z).window
           x == z.window
           c == Frame(z).fcs
           room == z.outBuffSize
<1>1. /\ w \in Nat /\ x \in Nat /\ c \in Nat \cup {Unknown} /\ room \in Nat
      /\ x >= w /\ room >= DecodingBufferSize(x, c)
  BY DEF Roomy
<1> HIDE DEF w, x, c, room
<1>2. w <= x
  BY <1>1
<1>3. c = Unknown \/ room < c => 0 + Smaller(w, BlockSizeMax) <= room
  BY <1>1, <1>2, BlockFits
<1>4. c = Unknown \/ room < c => z.outEnd + MaxBlock(Frame(z)) <= room
  BY <1>3 DEF MaxBlock, w
<1> QED
  BY <1>4 DEF HasRoom, c, room

LEMMA ConsumeHeaderFits ==
  ASSUME Ready, WindowInv', ConsumeHeader
  PROVE  Fits(zds')
<1> DEFINE y == zds'
           f == Frame(zds)
           skips == f.kind = "skippable"
           needIn == Larger(IF skips THEN 0 ELSE MaxBlock(f), ChecksumSize)
<1>1. /\ archive' = archive /\ zds.streamStage = "loadHeader" /\ zds \in Zds
      /\ y \in Zds /\ StageInv(y)
  BY ConsumeHeaderStep DEF ConsumeHeader, HeaderLoaded, LoadingHeader, Looping, Ready, StepOk
<1>2. PICK stage, expected, window, oversized, in, out :
        /\ y = [DecompressBegin(zds) EXCEPT
                  !.streamStage = "read", !.stage = stage, !.expected = expected,
                  !.window = window, !.oversized = oversized,
                  !.inBuffSize = in, !.outBuffSize = out]
        /\ stage = IF skips THEN "skipFrame" ELSE "blockHeader"
        /\ expected = IF skips THEN f.skip ELSE BlockHeaderSize
        /\ in = needIn \/ (in = zds.inBuffSize /\ ~ (zds.inBuffSize < needIn))
  <2>1. ConsumedHeader(zds')
    BY <1>1, HeaderConsumed
  <2> QED BY <2>1, Zenon DEF ConsumedHeader
<1>3. /\ y.streamStage = "read" /\ y.stage = stage /\ y.expected = expected
      /\ y.inBuffSize = in /\ y.decodedSize = 0
      /\ y.frame = zds.frame /\ y.block = zds.block /\ y.outEnd = zds.outEnd
  <2> DEFINE b == DecompressBegin(zds)
  <2>1. /\ b.decodedSize = 0 /\ b.frame = zds.frame /\ b.block = zds.block
        /\ b.outEnd = zds.outEnd /\ DOMAIN b = DOMAIN zds /\ b = [n \in DOMAIN b |-> b[n]]
        /\ DOMAIN zds = {"streamStage", "stage", "frame", "block", "lhSize", "inPos", "outStart",
                     "outEnd", "hostageByte", "inBuffSize", "outBuffSize", "oversized",
                     "stalls", "expected", "window", "decodedSize",
                     "previousDstEnd", "prefixStart", "virtualStart", "dictEnd"}
    BY <1>1 DEF DecompressBegin, Zds
  <2>2. y = [b EXCEPT
               !.streamStage = "read", !.stage = stage, !.expected = expected,
               !.window = window, !.oversized = oversized,
               !.inBuffSize = in, !.outBuffSize = out]
    BY <1>2
  <2> HIDE DEF b, y
  <2> QED BY <2>1, <2>2
<1>4. /\ f \in Frames /\ zds.outEnd = 0 /\ zds.block = 0 /\ Frame(y) = f
  BY <1>1, <1>3, InHeader DEF Frame
<1>5. CASE skips
  <2>1. y.stage = "skipFrame"
    BY <1>2, <1>3, <1>5
  <2> QED BY <2>1 DEF Fits, InBlocks, AmongBlocks
<1>6. CASE ~ skips
  <2>1. f \in ZstdFrames /\ f.window \in Nat /\ f.fcs \in Nat \cup {Unknown}
    <3>1. f \in ZstdFrames
      <4> HIDE DEF f
      <4> QED BY <1>4, <1>6, FrameKinds DEF f
    <3> HIDE DEF f
    <3> QED BY <3>1 DEF ZstdFrames
  <2>2. LoadsWhole(y)
    <3> DEFINE need == Larger(MaxBlock(f), ChecksumSize)
               have == zds.inBuffSize
    <3>1. need \in Nat
      <4>1. MaxBlock(f) \in Nat
        BY <2>1, ZstdAssumption DEF MaxBlock, Smaller
      <4> QED BY <4>1 DEF Larger, ChecksumSize
    <3>2. have \in Nat /\ (in = need \/ (in = have /\ ~ (have < need)))
      BY <1>1, <1>2, <1>6 DEF Zds
    <3> HIDE DEF need, have
    <3>3. in >= need
      BY <3>1, <3>2
    <3> QED BY <1>3, <1>4, <3>3 DEF LoadsWhole, need
  <2>3. y.stage = "blockHeader" /\ y.expected = 3
    BY <1>2, <1>3, <1>6 DEF BlockHeaderSize
  <2>4. AmongBlocks(y)
    BY <1>3, <2>3 DEF AmongBlocks
  <2>5. y.decodedSize = PlainInside(y)
    <3>1. BlockPlains(f, 0) = 0
      BY <2>1, BlockSums
    <3>2. PlainInside(y) = BlockPlains(f, 0) - 0
      BY <1>3, <1>4, <2>3 DEF PlainInside
    <3> QED BY <1>3, <3>1, <3>2
  <2>6. HasRoom(y)
    <3>1. Roomy(y)
      BY <1>1, <2>4, WindowPrimed DEF WindowOk
    <3>2. y.window \in Nat /\ y.outBuffSize \in Nat
      BY <1>1 DEF Zds
    <3> HIDE DEF y, f
    <3> QED BY <1>3, <1>4, <2>1, <3>1, <3>2, EmptyHasRoom
  <2> QED BY <2>2, <2>5, <2>6 DEF Fits
<1> QED
  BY <1>5, <1>6

LEMMA ReadShortFits ==
  ASSUME Ready, FitsInv, ReadShort
  PROVE  Fits(zds')
<1>1. /\ zds \in Zds /\ zds.streamStage = "read"
      /\ zds' = zds \/ zds' = [zds EXCEPT !.streamStage = "load"]
  BY DEF Ready, ReadShort, Looping
<1>2. SameFit(zds', zds)
  BY <1>1 DEF SameFit, Zds
<1> QED
  BY <1>1, <1>2, FitsMoves DEF FitsInv

LEMMA FlushFits ==
  ASSUME Ready, WindowInv, FitsInv, Flush
  PROVE  Fits(zds')
<1> DEFINE a == zds.outStart
           b == zds.outEnd
           toFlush == b - a
           n == Smaller(toFlush, Room)
           start == a + n
           v == zds'
           f == Frame(zds)
<1>1. /\ archive' = archive /\ zds \in Zds /\ StageInv(zds) /\ zds.streamStage = "flush"
      /\ v = IF n < toFlush THEN [zds EXCEPT !.outStart = start]
             ELSE IF Restarts(zds, start)
               THEN [zds EXCEPT !.streamStage = "read", !.outStart = 0, !.outEnd = 0]
               ELSE [zds EXCEPT !.streamStage = "read", !.outStart = start]
  BY DEF Ready, Flush, Looping
<1>2. ~ (n < toFlush) => start = b
  <2>1. a \in Nat /\ b \in Nat /\ a <= b /\ Room \in Nat
    <3>1. outLen \in 0..DStreamOutSize /\ DStreamOutSize \in Nat
      BY DEF Ready
    <3>2. Room \in Nat
      BY <3>1 DEF Room
    <3> QED BY <1>1, <3>2, InTheFrame
  <2> HIDE DEF a, b
  <2>2. toFlush = b - a /\ n = Smaller(toFlush, Room) /\ start = a + n
    BY DEF toFlush, n, start
  <2> QED BY <2>1, <2>2 DEF Smaller
<1> HIDE DEF n, start, toFlush
<1>3. CASE v = [zds EXCEPT !.outStart = start]
  <2>1. SameFit(v, zds) /\ v.streamStage = zds.streamStage
    BY <1>1, <1>3 DEF SameFit, Zds
  <2> QED BY <2>1, FitsMoves DEF FitsInv
<1>4. ASSUME NEW at, NEW end, v = [zds EXCEPT !.streamStage = "read", !.outStart = at, !.outEnd = end],
             AmongBlocks(zds) => HasRoom(v)
      PROVE  Fits(v)
  <2>1. /\ v.streamStage = "read" /\ v.frame = zds.frame /\ v.stage = zds.stage
        /\ v.block = zds.block /\ v.expected = zds.expected
        /\ v.inBuffSize = zds.inBuffSize /\ v.decodedSize = zds.decodedSize
    BY <1>1, <1>4 DEF Zds
  <2>2. Frame(v) = f
    BY <2>1 DEF Frame
  <2>3. InBlocks(v) => LoadsWhole(v)
    BY <1>1, <2>1, <2>2 DEF FitsInv, Fits, InBlocks, LoadsWhole
  <2>4. AmongBlocks(v) => AmongBlocks(zds)
    BY <1>1, <2>1 DEF AmongBlocks
  <2>5. PlainInside(v) = PlainInside(zds)
    BY <1>1, <2>1, <2>2 DEF PlainInside
  <2> HIDE DEF v
  <2> QED BY <1>4, <2>1, <2>3, <2>4, <2>5 DEF FitsInv, Fits
<1>5. CASE /\ Restarts(zds, b)
           /\ v = [zds EXCEPT !.streamStage = "read", !.outStart = 0, !.outEnd = 0]
  <2>1. ASSUME AmongBlocks(zds) PROVE HasRoom(v)
    <3>1. /\ f.kind = "zstd" /\ f.window \in Nat /\ f.fcs \in Nat \cup {Unknown}
      BY <2>1, BlocksFrame
    <3>2. f.fcs = Unknown \/ zds.outBuffSize < f.fcs
      BY <1>5, <3>1 DEF Restarts
    <3>3. /\ v.frame = zds.frame /\ v.outEnd = 0 /\ v.window = zds.window
          /\ v.outBuffSize = zds.outBuffSize
          /\ zds.window \in Nat /\ zds.outBuffSize \in Nat
      BY <1>1, <1>5 DEF Zds
    <3>4. Frame(v) = f
      BY <3>3 DEF Frame
    <3>5. Roomy(v)
      BY <2>1, <3>3, <3>4 DEF WindowInv, WindowOk, Roomy
    <3> HIDE DEF v, f
    <3> QED BY <3>1, <3>2, <3>3, <3>4, <3>5, EmptyHasRoom
  <2> QED BY <1>4, <1>5, <2>1
<1>6. CASE /\ ~ Restarts(zds, b)
           /\ v = [zds EXCEPT !.streamStage = "read", !.outStart = start]
  <2>1. v = [zds EXCEPT !.streamStage = "read", !.outStart = start, !.outEnd = b]
    BY <1>1, <1>6 DEF Zds
  <2>2. ASSUME AmongBlocks(zds) PROVE HasRoom(v)
    <3>1. f.kind = "zstd" /\ f \in ZstdFrames
      BY <2>2, BlocksFrame
    <3>2. /\ v.frame = zds.frame /\ v.outEnd = b /\ v.decodedSize = zds.decodedSize
          /\ v.outBuffSize = zds.outBuffSize
      BY <1>1, <1>6 DEF Zds
    <3>3. Frame(v) = f
      BY <3>2 DEF Frame
    <3>4. HasRoom(zds)
      BY <2>2 DEF FitsInv, Fits
    <3>5. f.fcs = Unknown \/ zds.outBuffSize < f.fcs => ~ (b + MaxBlock(f) > zds.outBuffSize)
      BY <1>6, <3>1 DEF Restarts
    <3>6. b + MaxBlock(f) \in Nat /\ zds.outBuffSize \in Nat
      <4>1. MaxBlock(f) \in Nat
        BY <2>2, BlocksFrame, ZstdAssumption DEF MaxBlock, Smaller
      <4>2. b \in Nat /\ zds.outBuffSize \in Nat
        BY <1>1 DEF Zds
      <4> DEFINE m == MaxBlock(f)
      <4> HIDE DEF m, b
      <4>3. b + m \in Nat
        BY <4>1, <4>2 DEF m
      <4> QED BY <4>2, <4>3 DEF m
    <3>7. f.fcs = Unknown \/ zds.outBuffSize < f.fcs => b + MaxBlock(f) <= zds.outBuffSize
      <4> DEFINE s == b + MaxBlock(f)
                 room == zds.outBuffSize
      <4>1. s \in Nat /\ room \in Nat
        BY <3>6
      <4> HIDE DEF s, room
      <4>2. ~ (s > room) => s <= room
        BY <4>1
      <4> QED BY <3>5, <4>2 DEF s, room
    <3> HIDE DEF v
    <3> QED BY <3>2, <3>3, <3>4, <3>7 DEF HasRoom
  <2> QED BY <1>4, <2>1, <2>2
<1> QED
  BY <1>1, <1>2, <1>3, <1>5, <1>6

LEMMA ResultFits ==
  ASSUME Ready, FitsInv, ProgressInv, Result
  PROVE  Fits(zds')
<1>1. zds \in Zds /\ StageInv(zds) /\ zds' \in Zds /\ StageInv(zds')
  BY ResultStep DEF Ready, StepOk
<1>2. PICK stalls \in Nat, hostage \in BOOLEAN,
           stage \in {"init", "loadHeader", "read", "load", "flush"} :
        zds' = Ended(zds, stalls, hostage, stage) /\ EndedHow(zds, hostage, stage)
  BY <1>1, NeverStalls, ResultCases
<1>3. SameFit(zds', zds) /\ zds'.streamStage = stage /\ zds'.frame = zds.frame
  BY <1>1, <1>2 DEF SameFit, Ended, Zds
<1>4. CASE stage = zds.streamStage
  BY <1>3, <1>4, FitsMoves DEF FitsInv
<1>5. CASE stage # zds.streamStage
  <2>1. zds.expected = 0 /\ stage = "read"
    BY <1>2, <1>5 DEF EndedHow
  <2>2. zds'.expected = 0 /\ InFrame(zds')
    BY <1>1, <1>3, <2>1 DEF SameFit, StageInv
  <2>3. zds'.stage \notin {"blockHeader", "block", "checksum"}
    BY <2>2 DEF InFrame, BlockHeaderSize, ChecksumSize
  <2> QED BY <2>3 DEF Fits, InBlocks, AmongBlocks
<1> QED
  BY <1>4, <1>5

\* What ContinueStream is given, and how the buffers fit it.
FedFits(z) == z.decodedSize = zds.decodedSize

LEMMA FedStillFits ==
  ASSUME FitsInv, NEW z, NEW n, Fed(z, n), FedFits(z)
  PROVE  Fits(z)
<1>1. SameFit(z, zds) /\ z.streamStage = zds.streamStage
  BY DEF Fed, FedFits, SamePlace, SameFit
<1> QED
  BY <1>1, FitsMoves DEF FitsInv

LEMMA ContinueStreamFits ==
  ASSUME Ready, FitsInv, NEW z, NEW n, Fed(z, n), FedFits(z), ContinueStream(z, n)
  PROVE  Fits(zds')
<1> DEFINE v == zds'
<1>1. CASE call' = "error"
  <2>1. call = "loop"
    BY DEF Fed
  <2>2. zds' = zds
    BY <1>1, <2>1 DEF ContinueStream
  <2> QED BY <2>2 DEF FitsInv
<1>2. CASE call' # "error"
  <2>1. PICK size \in Nat : Continued(v, z, size)
    BY <1>2, StreamContinued
  <2>2. Fits(z) /\ z.streamStage \in {"read", "load"} /\ z.outEnd \in Nat
    BY FedStillFits DEF Fed, Zds
  <2> HIDE DEF v
  <2>3. CASE z.stage \notin {"blockHeader", "block"}
    <3>1. v.stage = "frameHeader"
      BY <2>1, <2>3 DEF Continued
    <3> QED BY <3>1 DEF Fits, InBlocks, AmongBlocks, v
  <2>4. CASE z.stage \in {"blockHeader", "block"}
    <3>1. InBlocks(z) /\ AmongBlocks(z)
      BY <2>2, <2>4 DEF InBlocks, AmongBlocks
    <3>2. LoadsWhole(z) /\ z.decodedSize = PlainInside(z) /\ HasRoom(z)
      BY <2>2, <3>1 DEF Fits
    <3>3. /\ Frame(v) = Frame(z) /\ v.inBuffSize = z.inBuffSize /\ v.outBuffSize = z.outBuffSize
          /\ v.outEnd = z.outEnd + size /\ v.decodedSize = z.decodedSize + size
          /\ PlainInside(v) = PlainInside(z) + size
          /\ v.streamStage # "flush" => size = 0
      BY <2>1, <2>4 DEF Continued, Frame
    <3>4. LoadsWhole(v)
      BY <3>2, <3>3 DEF LoadsWhole
    <3>5. HasRoom(v)
      <4>1. z.outEnd + 0 = z.outEnd
        BY <2>2
      <4>2. CASE Frame(z).fcs = Unknown \/ z.outBuffSize < Frame(z).fcs
        <5>1. z.outEnd + MaxBlock(Frame(z)) <= z.outBuffSize
          BY <2>2, <3>2, <4>2 DEF HasRoom
        <5>2. v.streamStage # "flush" => v.outEnd = z.outEnd
          BY <3>3, <4>1
        <5> QED BY <3>3, <4>2, <5>1, <5>2 DEF HasRoom
      <4>3. CASE ~ (Frame(z).fcs = Unknown \/ z.outBuffSize < Frame(z).fcs)
        <5>1. z.outEnd = z.decodedSize
          BY <3>2, <4>3 DEF HasRoom
        <5> QED BY <3>3, <4>3, <5>1 DEF HasRoom
      <4> QED BY <4>2, <4>3
    <3> QED BY <3>2, <3>3, <3>4, <3>5 DEF Fits, v
  <2> QED BY <2>3, <2>4
<1> QED
  BY <1>1, <1>2

LEMMA ReadDirectFits ==
  ASSUME Ready, FitsInv, ReadDirect
  PROVE  Fits(zds')
<1>1. FedFits(zds)
  BY DEF FedFits
<1> QED
  BY <1>1, ReadDirectFed, ContinueStreamFits

LEMMA LoadFits ==
  ASSUME Ready, FitsInv, Load
  PROVE  Fits(zds')
<1> DEFINE e == zds.expected
           toLoad == e - zds.inPos
           n == Smaller(toLoad, inLen - inPos)
           z == [zds EXCEPT !.inPos = 0]
<1>1. /\ zds \in Zds
      /\ \/ zds' = zds
         \/ zds' = [zds EXCEPT !.inPos = @ + n]
         \/ ~ (n < toLoad) /\ inPos' = inPos + n /\ ContinueStream(z, e)
  BY DEF Load, Available, Ready
<1>2. CASE zds' = zds
  BY <1>2 DEF FitsInv
<1>3. CASE zds' = [zds EXCEPT !.inPos = @ + n]
  <2> HIDE DEF n
  <2>1. SameFit(zds', zds) /\ zds'.streamStage = zds.streamStage
    BY <1>1, <1>3 DEF SameFit, Zds
  <2> QED BY <2>1, FitsMoves DEF FitsInv
<1>4. CASE ~ (n < toLoad) /\ inPos' = inPos + n /\ ContinueStream(z, e)
  <2>1. Completes
    BY <1>4 DEF Completes
  <2>2. Fed(z, e)
    BY <2>1, LoadFed
  <2>3. FedFits(z)
    BY <1>1 DEF FedFits, Zds
  <2> HIDE DEF z, e
  <2> QED BY <1>4, <2>2, <2>3, ContinueStreamFits
<1> QED
  BY <1>1, <1>2, <1>3, <1>4

LEMMA DecodeFits ==
  ASSUME Ready, WindowInv, FitsInv, ProgressInv, Decode
  PROVE  FitsInv'
<1>1. archive' = archive
  BY DecodeStep
<1>2. zds \in Zds
  BY DEF Ready
<1>3. CASE StartFrame \/ LoadHeader
  <2>1. zds'.streamStage = "loadHeader"
    BY <1>2, <1>3 DEF StartFrame, LoadHeader, LoadingHeader, Looping, Zds
  <2> QED BY <1>1, <2>1, FitsOutside, FitsPrimed
<1>4. CASE HeaderFails
  BY <1>1, <1>4, FitsPrimed DEF HeaderFails, FitsInv
<1>5. CASE SinglePass
  <2>1. zds' = zds \/ zds'.streamStage = "init"
    BY <1>2, <1>5 DEF SinglePass, Zds
  <2> QED BY <1>1, <2>1, FitsOutside, FitsPrimed DEF FitsInv
<1>6. CASE ReadEnd
  <2>1. zds'.streamStage = "init"
    BY <1>2, <1>6 DEF ReadEnd, Zds
  <2> QED BY <1>1, <2>1, FitsOutside, FitsPrimed
<1>7. CASE ConsumeHeader
  BY <1>1, <1>7, ConsumeHeaderWindow, ConsumeHeaderFits, FitsPrimed
<1>8. CASE Flush
  BY <1>1, <1>8, FlushFits, FitsPrimed
<1>9. CASE Result
  BY <1>1, <1>9, ResultFits, FitsPrimed
<1>10. CASE ReadDirect \/ ReadShort \/ Load
  BY <1>1, <1>10, ReadDirectFits, ReadShortFits, LoadFits, FitsPrimed
<1> QED
  BY <1>3, <1>4, <1>5, <1>6, <1>7, <1>8, <1>9, <1>10 DEF Decode

-----------------------------------------------------------------------------
(* A good archive is not refused                                           *)

\* The plain text of the blocks up to a block is a part of that of the frame.
LEMMA PlainsGrow ==
  ASSUME NEW f \in ZstdFrames, NEW k \in 1..Len(f.blocks)
  PROVE  BlockPlains(f, k) <= PlainSize(f)
<1> DEFINE n == Len(f.blocks)
           h == [i \in 1..n |-> f.blocks[i].size]
<1>1. /\ n \in Nat \ {0} /\ \A i \in 1..n : f.blocks[i] \in Block
      /\ PlainSize(f) = BlockPlains(f, n)
  BY BlockSums
<1>2. k \in 1..n
  OBVIOUS
<1> HIDE DEF n
<1>3. h \in [1..n -> Nat]
  BY <1>1 DEF Block
<1>4. ASSUME NEW j \in 0..n PROVE BlockPlains(f, j) = SumOf(Opening(h, j))
  <2>1. \A i \in 1..j : i \in 1..n
    BY <1>1
  <2>2. [i \in 1..j |-> f.blocks[i].size] = Opening(h, j)
    BY <2>1 DEF Opening
  <2> QED BY <2>2 DEF BlockPlains
<1> HIDE DEF h
<1>5. \A i \in 0..n : \A j \in 0..n : i <= j => SumOf(Opening(h, i)) <= SumOf(Opening(h, j))
  BY <1>1, <1>3, SumOpenings
<1>6. k \in 0..n /\ n \in 0..n /\ k <= n
  BY <1>1, <1>2
<1> QED
  BY <1>1, <1>4, <1>5, <1>6

\* What the decoder checks of a block.
LEMMA BlockAmounts ==
  ASSUME NEW z, NEW n, InBlock(z, n), FrameOk(Frame(z))
  PROVE  LET f == Frame(z)
             b == f.blocks[z.block]
             size == IF b.type = "raw" THEN n ELSE b.size
             left == IF b.type = "raw" THEN z.expected - n ELSE 0
         IN /\ size \in Nat /\ MaxBlock(f) \in Nat /\ PlainSize(f) \in Nat /\ PlainInside(z) \in Int
            /\ ~ (size > MaxBlock(f)) /\ size <= MaxBlock(f)
            /\ ~ (b.type = "compressed" /\ n \notin CBlockSizes)
            /\ PlainInside(z) + size <= PlainSize(f)
            /\ left = 0 /\ LastBlock(z) => PlainInside(z) + size = PlainSize(f)
<1> DEFINE f == Frame(z)
           k == z.block
           b == f.blocks[k]
           c == b.csize
           e == z.expected
           raw == b.type = "raw"
           size == IF raw THEN n ELSE b.size
           left == IF raw THEN e - n ELSE 0
           sum == BlockPlains(f, k)
           most == MaxBlock(f)
           all == PlainSize(f)
           p == PlainInside(z)
<1>1. /\ f \in ZstdFrames /\ Sound(f) /\ z.stage = "block" /\ z.streamStage # "loadHeader"
      /\ k \in 1..Len(f.blocks) /\ e \in 1..c /\ (~ raw => e = c)
      /\ n \in 1..e /\ (n = e \/ raw)
  BY DEF InBlock
<1>2. /\ c \in Nat /\ b.size \in Nat /\ (raw => c = b.size)
      /\ sum \in Nat /\ BlockPlains(f, k - 1) \in Nat
      /\ sum = BlockPlains(f, k - 1) + b.size
  <2> HIDE DEF f
  <2> QED BY <1>1, BlockFacts DEF f
<1>3. most \in Nat /\ all \in Nat /\ f.kind = "zstd"
  <2>1. f.kind = "zstd" /\ f.window \in Nat
    <3> HIDE DEF f
    <3> QED BY <1>1 DEF ZstdFrames
  <2>2. most \in Nat
    BY <2>1, ZstdAssumption DEF MaxBlock, Smaller
  <2>3. all \in Nat
    <3> HIDE DEF f
    <3>1. f \in Frames
      BY <1>1 DEF Frames
    <3> QED BY <3>1, FrameSizeType DEF all, f
  <2> QED BY <2>1, <2>2, <2>3
<1>4. sum <= all
  <2> HIDE DEF f
  <2> QED BY <1>1, PlainsGrow DEF f
<1>5. b.size <= most /\ c <= most /\ (b.type = "compressed" => c \in CBlockSizes)
  <2>1. k \in DOMAIN f.blocks
    <3>1. f.blocks \in Seq(Block)
      <4> HIDE DEF f
      <4> QED BY <1>1 DEF ZstdFrames
    <3> QED BY <1>1, <3>1
  <2> QED BY <1>3, <2>1 DEF FrameOk
<1>6. e # 0 /\ p = sum - (IF raw THEN e ELSE b.size)
  <2>1. e # 0
    <3> HIDE DEF e, c
    <3> QED BY <1>1, <1>2
  <2>2. p = IF z.expected = 0 THEN PlainSize(f)
            ELSE BlockPlains(f, z.block) - (IF raw THEN z.expected ELSE f.blocks[z.block].size)
    BY <1>1 DEF PlainInside
  <2> QED BY <2>1, <2>2
<1>7. LastBlock(z) => sum = all
  <2>1. all = BlockPlains(f, Len(f.blocks))
    <3> HIDE DEF f
    <3> QED BY <1>1, BlockSums DEF f, all
  <2> QED BY <2>1 DEF LastBlock
<1>8. b.type = "compressed" => ~ (n \notin CBlockSizes)
  <2>1. b.type = "compressed" => ~ raw
    OBVIOUS
  <2> HIDE DEF c, e
  <2> QED BY <1>1, <1>5, <2>1
<1> DEFINE s == b.size
<1>9. /\ size \in Nat /\ p \in Int /\ size <= most /\ ~ (size > most)
      /\ p + size <= all /\ (left = 0 => p + size = sum)
  <2>0. s \in Nat /\ s <= most /\ (raw => c = s)
    BY <1>2, <1>5
  <2>1. n \in Nat /\ e \in Nat /\ n <= e /\ e <= c
    <3> HIDE DEF c, e
    <3> QED BY <1>1, <1>2
  <2>2. CASE raw
    <3>1. size = n /\ left = e - n /\ p = sum - e /\ e <= s
      BY <1>6, <2>0, <2>1, <2>2
    <3> HIDE DEF size, left, p, sum, most, all, s, e
    <3> QED BY <1>2, <1>3, <1>4, <2>0, <2>1, <3>1
  <2>3. CASE ~ raw
    <3>1. size = s /\ p = sum - s
      BY <1>6, <2>3
    <3> HIDE DEF size, left, p, sum, most, all, s
    <3> QED BY <1>2, <1>3, <1>4, <2>0, <3>1
  <2> QED BY <2>2, <2>3
<1> QED
  BY <1>3, <1>7, <1>8, <1>9

\* A frame of a good archive is good.
LEMMA GoodFrame ==
  ASSUME Ready, ArchiveOk, zds.frame > 0
  PROVE  FrameOk(Frame(zds)) /\ Frame(zds) \in Frames
<1>1. archive \in Archives /\ zds \in Zds /\ StageInv(zds) /\ zds.frame \in Nat
  BY DEF Ready, Zds
<1>2. Frame(zds) \in Frames /\ Frame(zds) = archive[zds.frame] /\ zds.frame \in 1..Len(archive)
  BY <1>1, FrameIs
<1>3. zds.frame \in DOMAIN archive
  BY <1>1, <1>2, ZstdAssumption
<1> QED
  BY <1>2, <1>3 DEF ArchiveOk

LEMMA HeaderOk ==
  ASSUME Ready, ArchiveOk, NEW z \in Zds, FrameOk(Frame(z)), Frame(z) \in ZstdFrames,
         z.block < Len(Frame(z).blocks)
  PROVE  ~ DecodeBlockHeader(z).fails
<1> DEFINE f == Frame(z)
           k == z.block + 1
           y == NextBlock(z)
           b == Frame(y).blocks[y.block]
<1>1. y.block = k /\ Frame(y) = f
  BY NextBlockRest DEF SameRest, Frame
<1>2. f.kind = "zstd" /\ f.window \in Nat /\ f.blocks \in Seq(Block)
  <2> HIDE DEF f
  <2> QED BY DEF f, ZstdFrames
<1>3. k \in DOMAIN f.blocks
  <2> DEFINE n == Len(f.blocks)
             j == z.block
  <2>1. n \in Nat /\ DOMAIN f.blocks = 1..n
    <3> DEFINE blocks == f.blocks
    <3>1. blocks \in Seq(Block)
      BY <1>2
    <3> HIDE DEF blocks
    <3>2. Len(blocks) \in Nat /\ DOMAIN blocks = 1..Len(blocks)
      BY <3>1
    <3> QED BY <3>2 DEF blocks
  <2>2. j \in Nat
    BY DEF Zds
  <2>3. j < n
    OBVIOUS
  <2> HIDE DEF n, j
  <2>4. j + 1 \in 1..n
    BY <2>1, <2>2, <2>3
  <2> QED BY <2>1, <2>4 DEF j
<1> DEFINE g == f.blocks[k]
<1>4. g.type # "reserved" /\ g.csize <= MaxBlock(f) /\ g \in Block
  BY <1>2, <1>3 DEF FrameOk
<1>5. ~ (g.csize > MaxBlock(f))
  <2> DEFINE c == g.csize
             most == MaxBlock(f)
  <2>1. most \in Nat
    BY <1>2, ZstdAssumption DEF MaxBlock, Smaller
  <2>2. c \in Nat /\ c <= most
    BY <1>4 DEF Block
  <2> HIDE DEF c, most
  <2>3. ~ (c > most)
    BY <2>1, <2>2
  <2> QED BY <2>3 DEF c, most
<1>6. b = g
  BY <1>1
<1>7. \/ DecodeBlockHeader(z) = Done(Set(y, b.csize, "block"))
      \/ DecodeBlockHeader(z) = Done(EndOfBlocks(y))
      \/ DecodeBlockHeader(z) = Done(ToBlockHeader(y))
  <2>1. DecodeBlockHeader(z) = IF b.type = "reserved" \/ b.csize > MaxBlock(Frame(y)) THEN Fails(y)
            ELSE IF b.csize > 0 THEN Done(Set(y, b.csize, "block"))
            ELSE IF LastBlock(y) THEN Done(EndOfBlocks(y))
            ELSE Done(ToBlockHeader(y))
    BY DEF DecodeBlockHeader, NextBlock, Set
  <2>2. ~ (b.type = "reserved" \/ b.csize > MaxBlock(Frame(y)))
    BY <1>1, <1>4, <1>5, <1>6
  <2> HIDE DEF y, b
  <2> QED BY <2>1, <2>2
<1> HIDE DEF y, b
<1> QED
  BY <1>7 DEF Done

\* The room for a block at the end of what the output buffer holds.
Capacity(z) == IF z.stage = "skipFrame" THEN 0 ELSE z.outBuffSize - z.outStart

LEMMA BlockHasRoom ==
  ASSUME NEW z \in Zds, NEW n, InBlock(z, n), FrameOk(Frame(z)), Fits(z), AmongBlocks(z),
         z.streamStage # "flush", z.outStart = z.outEnd, z.outEnd <= z.outBuffSize,
         NEW size \in Nat, size <= MaxBlock(Frame(z)), MaxBlock(Frame(z)) \in Nat,
         PlainSize(Frame(z)) \in Nat, PlainInside(z) + size <= PlainSize(Frame(z))
  PROVE  ~ (size > z.outBuffSize - z.outStart)
<1> DEFINE f == Frame(z)
           room == z.outBuffSize
           o == z.outStart
           c == f.fcs
           p == PlainInside(z)
           all == PlainSize(f)
           most == MaxBlock(f)
<1>1. HasRoom(z) /\ z.decodedSize = p
  BY DEF Fits
<1>2. /\ room \in Nat /\ o \in Nat /\ z.decodedSize \in Nat /\ most \in Nat /\ all \in Nat
      /\ size <= most /\ p + size <= all
  BY DEF Zds
<1>3. f \in ZstdFrames
  BY DEF InBlock
<1>4. c \in Nat \cup {Unknown} /\ c \in {Unknown, all}
  <2>1. f.kind = "zstd" /\ f.fcs \in Nat \cup {Unknown}
    <3> HIDE DEF f
    <3> QED BY <1>3 DEF ZstdFrames
  <2> QED BY <2>1 DEF FrameOk
<1>5. CASE c = Unknown \/ room < c
  <2>1. o + most <= room
    BY <1>1, <1>5 DEF HasRoom
  <2> HIDE DEF o, room, most
  <2>2. ~ (size > room - o)
    BY <1>2, <2>1
  <2> QED BY <2>2 DEF o, room
<1>6. CASE ~ (c = Unknown \/ room < c)
  <2>1. o = p /\ c = all
    BY <1>1, <1>4, <1>6 DEF HasRoom
  <2>2. ~ (room < all) /\ o + size <= all
    BY <1>2, <1>6, <2>1
  <2> HIDE DEF o, room, all
  <2>3. ~ (size > room - o)
    BY <1>2, <2>2
  <2> QED BY <2>3 DEF o, room
<1> QED
  BY <1>5, <1>6

LEMMA BlockAccepted ==
  ASSUME NEW z \in Zds, NEW n, InBlock(z, n), FrameOk(Frame(z)), Fits(z), AmongBlocks(z),
         z.streamStage # "flush", z.outStart = z.outEnd, z.outEnd <= z.outBuffSize,
         NEW dst
  PROVE  ~ DecompressBlock(z, n, dst, z.outBuffSize - z.outStart).fails
<1> DEFINE f == Frame(z)
           b == f.blocks[z.block]
           size == IF b.type = "raw" THEN n ELSE b.size
           left == IF b.type = "raw" THEN z.expected - n ELSE 0
           capacity == z.outBuffSize - z.outStart
           t == BlockTaken(z, left, size, dst + size)
           next == IF left > 0 THEN t
                   ELSE IF LastBlock(z) THEN EndOfBlocks(t) ELSE ToBlockHeader(t)
           refused == \/ size > capacity
                      \/ size > MaxBlock(f)
                      \/ b.type = "compressed" /\ n \notin CBlockSizes
                      \/ left = 0 /\ LastBlock(z) /\ f.fcs # Unknown /\ t.decodedSize # f.fcs
<1>1. /\ size \in Nat /\ MaxBlock(f) \in Nat /\ PlainSize(f) \in Nat /\ PlainInside(z) \in Int
      /\ ~ (size > MaxBlock(f)) /\ size <= MaxBlock(f)
      /\ ~ (b.type = "compressed" /\ n \notin CBlockSizes)
      /\ PlainInside(z) + size <= PlainSize(f)
      /\ left = 0 /\ LastBlock(z) => PlainInside(z) + size = PlainSize(f)
  BY BlockAmounts
<1>2. DecompressBlock(z, n, dst, capacity)
        = IF refused THEN Fails(z) ELSE [z |-> next, size |-> size, fails |-> FALSE]
  BY DEF DecompressBlock, BlockTaken
<1>3. ~ (size > capacity)
  <2> HIDE DEF size, left
  <2> QED BY <1>1, BlockHasRoom
<1>4. left = 0 /\ LastBlock(z) /\ f.fcs # Unknown => t.decodedSize = f.fcs
  <2>1. z.decodedSize = PlainInside(z)
    BY DEF Fits
  <2>2. t.decodedSize = z.decodedSize + size
    <3> DEFINE end == dst + size
    <3>1. t = [z EXCEPT !.expected = left, !.decodedSize = @ + size, !.previousDstEnd = end]
      BY DEF BlockTaken
    <3> HIDE DEF t, left, size, end
    <3> QED BY <3>1 DEF Zds
  <2>3. f.fcs \in {Unknown, PlainSize(f)}
    <3>1. f.kind = "zstd"
      <4>1. f \in ZstdFrames
        BY DEF InBlock
      <4> HIDE DEF f
      <4> QED BY <4>1 DEF ZstdFrames
    <3> QED BY <3>1 DEF FrameOk
  <2> HIDE DEF t, left, size, f
  <2> QED BY <1>1, <2>1, <2>2, <2>3 DEF f
<1>5. ~ refused
  <2> HIDE DEF t, left, size, capacity
  <2> QED BY <1>1, <1>3, <1>4
<1> HIDE DEF refused, next, size
<1> QED
  BY <1>2, <1>5

\* No check of ZSTD_decompressContinue refuses a unit of a good frame.
LEMMA UnitAccepted ==
  ASSUME Ready, ArchiveOk, FitsInv, NEW z, NEW n, Fed(z, n), FedFits(z)
  PROVE  ~ Continue(z, n, z.outStart + 1, Capacity(z)).fails
<1> DEFINE dst == z.outStart + 1
           capacity == Capacity(z)
           r == Continue(z, n, dst, capacity)
           y == IF capacity > 0 THEN CheckContinuity(z, dst) ELSE z
           f == Frame(z)
<1>1. /\ Takes(z, n) /\ z.outStart = z.outEnd /\ Fits(z)
      /\ archive \in Archives /\ z \in Zds /\ StageInv(z)
      /\ z.streamStage \in {"read", "load"} /\ z.expected > 0
  BY FedTakes, FedStillFits DEF Takes
<1>2. /\ InFrame(z) /\ z.frame > 0 /\ z.outEnd <= z.outBuffSize /\ z.outEnd \in Nat
      /\ z.frame \in Nat /\ dst \in Int
  <2>1. InFrame(z) /\ z.frame > 0 /\ z.outEnd <= z.outBuffSize
    BY <1>1 DEF StageInv
  <2>2. z.outEnd \in Nat /\ z.frame \in Nat
    BY <1>1 DEF Zds
  <2>3. dst \in Int
    <3> DEFINE e == z.outEnd
    <3>1. e \in Nat /\ z.outStart = e
      BY <1>1, <2>2
    <3> HIDE DEF e
    <3> QED BY <3>1
  <2> QED BY <2>1, <2>2, <2>3
<1>3. f \in Frames /\ f = archive[z.frame] /\ z.frame \in 1..Len(archive)
  BY <1>1, <1>2, FrameIs
<1>4. FrameOk(f)
  <2>1. z.frame = zds.frame
    BY DEF Fed, SamePlace
  <2> QED BY <1>2, <2>1, GoodFrame DEF Frame
<1>5. /\ y \in Zds /\ SameRest(y, z) /\ y.stage = z.stage /\ y.block = z.block
      /\ y.expected = z.expected /\ y.decodedSize = z.decodedSize
  <2> DEFINE x == CheckContinuity(z, dst)
  <2> HIDE DEF dst, x
  <2>1. /\ x \in Zds /\ SameRest(x, z) /\ x.stage = z.stage /\ x.block = z.block
        /\ x.expected = z.expected
    BY <1>1, <1>2, ContinuityRest DEF x
  <2>2. x.decodedSize = z.decodedSize
    BY <1>1, <1>2, ContinuityIs DEF x
  <2>3. y = x \/ y = z
    BY DEF x
  <2>4. SameRest(z, z)
    BY DEF SameRest
  <2> QED BY <1>1, <2>1, <2>2, <2>3, <2>4
<1>6. r = CASE z.stage = "blockHeader" -> DecodeBlockHeader(y)
            [] z.stage = "block" -> DecompressBlock(y, n, dst, capacity)
            [] z.stage = "checksum" -> IF Frame(y).honest THEN Done(EndOfFrame(y)) ELSE Fails(y)
            [] z.stage = "skipFrame" -> Done(EndOfFrame(y))
  BY DEF Continue
<1>7. Frame(y) = f
  BY <1>5 DEF Frame, SameRest
<1> HIDE DEF r, y, dst, capacity
<1>8. CASE z.stage = "skipFrame"
  <2>1. r = Done(EndOfFrame(y))
    BY <1>6, <1>8
  <2> QED BY <2>1 DEF Done, r, dst, capacity
<1>9. CASE z.stage # "skipFrame"
  <2>1. f.kind = "zstd" /\ f \in ZstdFrames
    <3>1. f.kind = "zstd"
      BY <1>1, <1>2, <1>9 DEF InFrame
    <3> HIDE DEF f
    <3> QED BY <1>3, <3>1, FrameKinds
  <2>2. CASE z.stage = "checksum"
    <3>1. f.checksum
      BY <1>2, <2>2 DEF InFrame
    <3>2. f.honest
      BY <1>4, <2>1, <3>1 DEF FrameOk
    <3>3. r = Done(EndOfFrame(y))
      BY <1>6, <1>7, <2>2, <3>2
    <3> QED BY <3>3 DEF Done, r, dst, capacity
  <2>3. CASE z.stage = "blockHeader"
    <3>1. z.block < Len(f.blocks)
      BY <1>2, <2>3 DEF InFrame
    <3>2. r = DecodeBlockHeader(y)
      BY <1>6, <2>3
    <3>3. ~ DecodeBlockHeader(y).fails
      <4> HIDE DEF f
      <4>1. FrameOk(Frame(y)) /\ Frame(y) \in ZstdFrames /\ y.block < Len(Frame(y).blocks)
        BY <1>4, <1>5, <1>7, <2>1, <3>1
      <4> QED BY <1>5, <4>1, HeaderOk
    <3> QED BY <3>2, <3>3 DEF r, dst, capacity
  <2>4. CASE z.stage = "block"
    <3>1. r = DecompressBlock(y, n, dst, capacity)
      BY <1>6, <2>4
    <3>2. Sound(f)
      BY <1>1, <1>3, <2>1, ArchiveSound
    <3>3. /\ z.block \in 1..Len(f.blocks) /\ z.expected \in 1..f.blocks[z.block].csize
          /\ f.blocks[z.block].type # "raw" => z.expected = f.blocks[z.block].csize
      BY <1>2, <2>4 DEF InFrame
    <3>4. n \in 1..z.expected /\ (n = z.expected \/ f.blocks[z.block].type = "raw")
      BY <1>1 DEF Takes
    <3>5. InBlock(y, n)
      <4>1. y.streamStage # "loadHeader"
        BY <1>1, <1>5 DEF SameRest
      <4> HIDE DEF f
      <4> QED BY <1>5, <1>7, <2>1, <2>4, <3>2, <3>3, <3>4, <4>1 DEF InBlock
    <3>6. Fits(y) /\ AmongBlocks(y) /\ y.streamStage # "flush"
      <4>1. SameFit(y, z) /\ y.streamStage = z.streamStage
        BY <1>5 DEF SameRest, SameFit
      <4>2. Fits(y)
        BY <1>1, <4>1, FitsMoves
      <4> QED BY <1>1, <1>5, <2>4, <4>1, <4>2 DEF AmongBlocks
    <3>7. y.outStart = y.outEnd /\ y.outEnd <= y.outBuffSize
          /\ capacity = y.outBuffSize - y.outStart
      BY <1>1, <1>2, <1>5, <1>9 DEF SameRest, Capacity, capacity
    <3>8. ~ DecompressBlock(y, n, dst, y.outBuffSize - y.outStart).fails
      <4>1. FrameOk(Frame(y))
        BY <1>4, <1>7
      <4> QED BY <1>5, <3>5, <3>6, <3>7, <4>1, BlockAccepted
    <3> QED BY <3>1, <3>7, <3>8 DEF r, dst, capacity
  <2> QED BY <1>2, <1>9, <1>1, <2>2, <2>3, <2>4 DEF InFrame
<1> QED
  BY <1>8, <1>9

LEMMA StreamAccepted ==
  ASSUME Ready, ArchiveOk, FitsInv, NEW z, NEW n, Fed(z, n), FedFits(z), ContinueStream(z, n)
  PROVE  call' # "error"
<1>1. ~ Continue(z, n, z.outStart + 1, Capacity(z)).fails
  BY UnitAccepted
<1>2. call' = call /\ call = "loop"
  BY <1>1 DEF ContinueStream, Capacity, Fed
<1> QED
  BY <1>2

LEMMA HeaderAccepted ==
  ASSUME Ready, ArchiveOk
  PROVE  ~ HeaderFails
<1> SUFFICES ASSUME HeaderFails PROVE FALSE
  OBVIOUS
<1> DEFINE f == Frame(zds)
<1>1. zds.streamStage = "loadHeader"
  BY DEF HeaderFails, LoadingHeader
<1>2. FrameOk(f) /\ f \in Frames
  BY <1>1, InHeader, GoodFrame
<1>3. f.kind = "zstd" /\ (~ f.magic \/ f.window > MaxWindow)
  BY DEF HeaderFails, BadHeader
<1>4. f.magic /\ f.window <= MaxWindow
  BY <1>2, <1>3 DEF FrameOk
<1>5. f.window \in Nat /\ MaxWindow \in Nat
  <2>1. f \in ZstdFrames
    <3> HIDE DEF f
    <3> QED BY <1>2, <1>3, FrameKinds
  <2>2. f.window \in Nat
    <3> HIDE DEF f
    <3> QED BY <2>1 DEF ZstdFrames
  <2> QED BY <2>2, ZstdAssumption
<1> DEFINE w == f.window
<1>6. w \in Nat /\ w > MaxWindow /\ w <= MaxWindow /\ MaxWindow \in Nat
  BY <1>3, <1>4, <1>5
<1> HIDE DEF w
<1> QED
  BY <1>6

LEMMA SinglePassAccepted ==
  ASSUME Ready, ArchiveOk, SinglePass
  PROVE  call' # "error"
<1> DEFINE f == Frame(zds)
<1>1. zds.streamStage = "loadHeader" /\ f.kind = "zstd" /\ f.fcs # Unknown
  BY DEF SinglePass, HeaderLoaded, LoadingHeader, SinglePassPossible
<1>2. FrameOk(f)
  BY <1>1, InHeader, GoodFrame
<1>3. SinglePassSucceeds
  BY <1>1, <1>2 DEF FrameOk, SinglePassSucceeds
<1> QED
  BY <1>3 DEF SinglePass

\* Any unit of a good frame fits into the input buffer.
LEMMA LoadAccepted ==
  ASSUME Ready, ArchiveOk, FitsInv, Load
  PROVE  call' # "error"
<1> DEFINE e == zds.expected
           at == zds.inPos
           toLoad == e - at
           n == Smaller(toLoad, inLen - inPos)
           room == zds.inBuffSize
           tooMuch == zds.stage # "skipFrame" /\ toLoad > room - at
           z == [zds EXCEPT !.inPos = 0]
           f == Frame(zds)
<1>1. /\ zds.streamStage = "load" /\ zds \in Zds /\ StageInv(zds)
      /\ IF tooMuch THEN call' = "error"
         ELSE /\ inPos' = inPos + n
              /\ IF n < toLoad THEN call' = "result" ELSE ContinueStream(z, e)
  BY DEF Ready, Load, Looping, Available
<1>2. /\ zds.frame > 0 /\ InFrame(zds) /\ at < e /\ at \in Nat /\ e \in Nat /\ room \in Nat
  BY <1>1 DEF StageInv, Zds
<1>3. zds.stage # "skipFrame" => e <= room
  <2> SUFFICES ASSUME zds.stage # "skipFrame" PROVE e <= room
    OBVIOUS
  <2>1. FrameOk(f) /\ f \in Frames
    BY <1>2, GoodFrame
  <2>2. f.kind = "zstd" /\ zds.stage \in {"blockHeader", "block", "checksum"}
    <3>1. e # 0
      <4> HIDE DEF e, at
      <4> QED BY <1>2
    <3> QED BY <1>2, <3>1 DEF InFrame
  <2>3. f \in ZstdFrames
    <3> HIDE DEF f
    <3> QED BY <2>1, <2>2, FrameKinds
  <2> DEFINE most == MaxBlock(f)
  <2>4. most \in Nat
    <3>1. f.window \in Nat
      <4> HIDE DEF f
      <4> QED BY <2>3 DEF ZstdFrames
    <3> QED BY <3>1, ZstdAssumption DEF MaxBlock, Smaller
  <2>5. room >= Larger(most, 4)
    <3>1. InBlocks(zds)
      BY <1>1, <2>2 DEF InBlocks
    <3> QED BY <3>1 DEF FitsInv, Fits, LoadsWhole, ChecksumSize
  <2>6. e <= 4 \/ e <= most
    <3>1. CASE zds.stage \in {"blockHeader", "checksum"}
      <4>1. e = 3 \/ e = 4
        BY <1>2, <3>1 DEF InFrame, BlockHeaderSize, ChecksumSize
      <4> HIDE DEF e, most
      <4> QED BY <4>1
    <3>2. CASE zds.stage = "block"
      <4> DEFINE c == f.blocks[zds.block].csize
      <4>1. zds.block \in 1..Len(f.blocks) /\ e \in 1..c
        BY <1>2, <3>2 DEF InFrame
      <4>2. f.blocks \in Seq(Block)
        <5> HIDE DEF f
        <5> QED BY <2>3 DEF ZstdFrames
      <4>3. zds.block \in DOMAIN f.blocks
        BY <4>1, <4>2
      <4>4. c <= most /\ c \in Nat
        <5>1. c <= most
          BY <2>1, <2>2, <4>3 DEF FrameOk
        <5>2. f.blocks[zds.block] \in Block
          BY <4>2, <4>3
        <5> QED BY <5>1, <5>2 DEF Block
      <4> HIDE DEF c, most, e
      <4> QED BY <2>4, <4>1, <4>4
    <3> QED BY <2>2, <3>1, <3>2
  <2> HIDE DEF e, room, most
  <2> QED BY <1>2, <2>4, <2>5, <2>6 DEF Larger
<1>4. ~ tooMuch
  <2>1. e <= room => ~ (toLoad > room - at)
    <3> HIDE DEF e, room, at
    <3> QED BY <1>2
  <2> QED BY <1>3, <2>1
<1>5. CASE n < toLoad
  BY <1>1, <1>4, <1>5
<1>6. CASE ~ (n < toLoad)
  <2>1. inPos' = inPos + n /\ ContinueStream(z, e)
    BY <1>1, <1>4, <1>6
  <2>2. Completes
    BY <1>6, <2>1 DEF Completes
  <2>3. Fed(z, e)
    BY <2>2, LoadFed
  <2>4. FedFits(z)
    BY <1>1 DEF FedFits, Zds
  <2> HIDE DEF z, e
  <2> QED BY <2>1, <2>3, <2>4, StreamAccepted
<1> QED
  BY <1>5, <1>6

LEMMA DecodeAccepted ==
  ASSUME Ready, ArchiveOk, FitsInv, ProgressInv, Decode
  PROVE  call' # "error"
<1>1. CASE StartFrame \/ LoadHeader \/ ConsumeHeader \/ ReadEnd \/ ReadShort \/ Flush
  BY <1>1 DEF StartFrame, LoadHeader, ConsumeHeader, ReadEnd, ReadShort, Flush,
              HeaderLoaded, LoadingHeader, Looping
<1>2. CASE HeaderFails
  BY <1>2, HeaderAccepted
<1>3. CASE SinglePass
  BY <1>3, SinglePassAccepted
<1>4. CASE ReadDirect
  <2>1. FedFits(zds)
    BY DEF FedFits
  <2> QED BY <1>4, <2>1, ReadDirectFed, StreamAccepted
<1>5. CASE Load
  BY <1>5, LoadAccepted
<1>6. CASE Result
  BY <1>6, NeverStalls
<1> QED
  BY <1>1, <1>2, <1>3, <1>4, <1>5, <1>6 DEF Decode

\* Between the blocks of a frame the input buffer holds any unit, and the output
\* buffer has room for the next block or for all that is left of the frame.
THEOREM BuffersFit == Spec => [](ReadInv /\ WindowInv /\ ProgressInv /\ FitsInv)
<1>1. Init => FitsInv
  <2> SUFFICES ASSUME Init PROVE FitsInv
    OBVIOUS
  <2>1. zds.streamStage = "init"
    BY DEF Init, DecoderInit, NoFrame
  <2> QED BY <2>1, FitsOutside DEF FitsInv
<1>2. ReadInv /\ WindowInv /\ ProgressInv /\ FitsInv /\ [Next]_vars => FitsInv'
  <2> SUFFICES ASSUME ReadInv, WindowInv, ProgressInv, FitsInv, [Next]_vars PROVE FitsInv'
    OBVIOUS
  <2>1. CASE DecoderStep
    <3>1. Ready /\ Decode
      BY <2>1, ReadyNow DEF DecoderStep
    <3> QED BY <3>1, DecodeFits
  <2>2. CASE Call \/ Copy \/ Refill \/ UNCHANGED vars
    <3>1. archive' = archive /\ zds' = zds
      BY <2>2 DEF Call, Copy, Refill, vars, decoderVars
    <3> QED BY <3>1, FitsPrimed DEF FitsInv
  <2> QED BY <2>1, <2>2 DEF Next
<1> QED
  BY <1>1, <1>2, WindowInvariant, CallsProgress, PTL DEF Spec

\* Every archive whose frames are good, however its bytes fall into the input
\* buffers and whatever is asked for, is decoded: no check of unzstd_read's decoder
\* of sizes, capacities, contents or progress refuses it.
THEOREM GoodArchives == Spec => []GoodArchiveDecodes
<1> DEFINE Inv == ReadInv /\ WindowInv /\ ProgressInv /\ FitsInv
           Accepted == ArchiveOk => call # "error"
<1>1. Init => Accepted
  BY DEF Init, DecoderInit
<1>2. Inv /\ Accepted /\ [Next]_vars => Accepted'
  <2> SUFFICES ASSUME Inv, Accepted, [Next]_vars, ArchiveOk' PROVE call' # "error"
    OBVIOUS
  <2>1. CASE DecoderStep
    <3>1. Ready /\ Decode
      BY <2>1, ReadyNow DEF DecoderStep
    <3>2. archive' = archive
      BY <3>1, DecodeStep
    <3>3. ArchiveOk
      BY <3>2 DEF ArchiveOk, FrameOk
    <3> QED BY <3>1, <3>3, DecodeAccepted
  <2>2. CASE Call \/ Copy \/ UNCHANGED vars
    <3>1. UNCHANGED decoderVars
      BY <2>2 DEF Call, Copy, vars
    <3>2. archive' = archive /\ call' = call
      BY <3>1 DEF decoderVars
    <3>3. ArchiveOk
      BY <3>2 DEF ArchiveOk, FrameOk
    <3> QED BY <3>2, <3>3
  <2>3. CASE Refill
    <3>1. archive' = archive /\ (call' = call \/ call' = "loop")
      BY <2>3 DEF Refill, CallDecoder
    <3>2. ArchiveOk
      BY <3>1 DEF ArchiveOk, FrameOk
    <3> QED BY <3>1, <3>2
  <2> QED BY <2>1, <2>2, <2>3 DEF Next
<1>3. Inv /\ Accepted => GoodArchiveDecodes
  BY DEF GoodArchiveDecodes, ReadInv, ReaderInv
<1> QED
  BY <1>1, <1>2, <1>3, BuffersFit, PTL DEF Spec

=============================================================================
