----------------------------- MODULE MCUnzstdRead ------------------------------
(* Small archives for UnzstdRead. *)
EXTENDS UnzstdRead

CONSTANT MaxBlocks

Raw(n) == [type |-> "raw", csize |-> n, size |-> n]
Rle(n) == [type |-> "rle", csize |-> 1, size |-> n]
Compressed(c, n) == [type |-> "compressed", csize |-> c, size |-> n]

\* Blocks of every type, full, partly filled and empty.
Blocks == {Raw(0), Raw(3), Rle(2), Compressed(2, 3), Compressed(1, 1)}
BlockSeqs == UNION {[1..n -> Blocks] : n \in 1..MaxBlocks}

Total(blocks) == SumOf([i \in DOMAIN blocks |-> blocks[i].size])

ZstdFrame(blocks, checksum) ==
  [kind |-> "zstd", magic |-> TRUE, single |-> FALSE, fcs |-> Unknown, fcsId |-> 0,
   window |-> 4, checksum |-> checksum, honest |-> TRUE, blocks |-> blocks]
Sized(f) == [f EXCEPT !.fcs = Total(f.blocks), !.fcsId = 1]
Single(f) == [f EXCEPT !.fcs = Total(f.blocks), !.single = TRUE, !.window = Total(f.blocks)]
Skippable(n) == [kind |-> "skippable", skip |-> n]

\* Long enough for the decoder to go round its buffer of 4 + 3 + 4 bytes twice.
Long == <<Raw(3), Compressed(2, 3), Compressed(2, 3), Raw(2), Compressed(2, 3), Rle(3),
          Compressed(1, 3), Compressed(2, 2), Compressed(2, 3)>>
Short == <<Rle(2), Compressed(2, 3)>>

Good == ZstdFrame(Short, TRUE)

\* Frames the decoder must refuse.
BadFrames ==
  {[Good EXCEPT !.magic = FALSE], [Good EXCEPT !.window = MaxWindow + 1],
   [Good EXCEPT !.honest = FALSE], [Sized(Good) EXCEPT !.honest = FALSE],
   [Good EXCEPT !.fcs = 9, !.fcsId = 1], [Good EXCEPT !.fcs = 3, !.fcsId = 1],
   [Good EXCEPT !.blocks[2].type = "reserved"], [Good EXCEPT !.blocks[2].csize = 4],
   [Good EXCEPT !.blocks[2].csize = 3],
   Single([Good EXCEPT !.blocks[2] = Compressed(0, 0)])}

MCArchives ==
  LET frames == {ZstdFrame(b, c) : b \in BlockSeqs, c \in BOOLEAN}
      all == frames \cup {Sized(f) : f \in frames} \cup {Single(f) : f \in frames}
  IN {<<f>> : f \in all \cup BadFrames}
       \cup {<<[ZstdFrame(SubSeq(Long, i, Len(Long)), FALSE) EXCEPT !.window = w]>> :
               i \in {1, 2, 4}, w \in 2..6}
       \cup {<<Sized(ZstdFrame(Long, TRUE))>>}
       \cup {<<Skippable(n), Sized(Good), Skippable(0)>> : n \in {0, 7}}
       \cup {<<Good, ZstdFrame(Long, TRUE), Single(Good), Good>>}
=============================================================================
