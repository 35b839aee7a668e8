------------------------------ MODULE MCCodec ------------------------------
(***************************************************************************)
(* Instances of Codec: blocks made by MCEncoder and messages with known    *)
(* digests.                                                                *)
(***************************************************************************)
EXTENDS Codec, MCEncoder

MCLitBase == 1000000000
Guard     == 256

Data(k) == [i \in 1..k |-> (37 * i) % 251]

S(ll, of, ml) == [ll |-> ll, of |-> of, ml |-> ml]

Predefined == <<Basic(LLs), Basic(OFs), Basic(MLs)>>

\* A block of literals and sequences; say is what is written instead of seqs.
Part(lits, tables, sqs) ==
  [lit |-> lits, tables |-> tables, seqs |-> sqs, say |-> sqs, over |-> <<>>, moved |-> FALSE,
   bare |-> FALSE]

\* A bare block has tables and no sequences.
Bare(lits, tables) == [Part(lits, tables, <<>>) EXCEPT !.bare = TRUE]

Written(p) ==
  p.lit.bytes \o IF p.bare THEN NoSeqs(p.tables[1], p.tables[2], p.tables[3])
                 ELSE SeqSection(p.tables[1], p.tables[2], p.tables[3], p.say, p.over)

\* A job: its parts from address origin on, in a buffer with room for slack bytes
\* more, over what memory holds already.  A moved part starts again at address 0.
Job(word, algo, window, origin, old, parts, slack, corrupt) ==
  LET far == [i \in {origin - a : a \in DOMAIN old} |-> old[origin - i]]
      play[k \in 0..Len(parts)] ==
        IF k = 0 THEN [out |-> <<>>, rep |-> <<1, 4, 8>>]
        ELSE LET p == play[k - 1]
             IN  Played(parts[k].seqs, parts[k].lit.lits, p.out, p.rep, far)
      size(k) == Len(play[k].out) - Len(play[k - 1].out)
      dst[k \in 1..Len(parts)] ==
        IF k = 1 THEN origin ELSE IF parts[k].moved THEN 0 ELSE dst[k - 1] + size(k - 1)
      oend == Max({dst[k] + size(k) : k \in DOMAIN parts}) + slack
      low  == IF DOMAIN old = {} THEN origin ELSE Min(DOMAIN old)
      from == IF \E k \in DOMAIN parts : parts[k].moved THEN 0 ELSE origin
      new  == [a \in from..(oend + 39) |-> IF a < oend THEN 0 ELSE Guard]
  IN  [word |-> word, algo |-> algo, window |-> window, corrupt |-> corrupt,
       memory |-> old @@ new,
       win |-> [prefixStart |-> low, virtualStart |-> low, dictEnd |-> low,
                previousDstEnd |-> origin],
       want |-> play[Len(parts)].out,
       blocks |-> [k \in 1..Len(parts) |->
                     [src |-> Written(parts[k]), dst |-> dst[k], oend |-> oend]]]

Plain(word, parts, slack) == Job(word, 1, 1024, 0, <<>>, parts, slack, FALSE)

\* Matches at every short distance, near to the end of the buffer and far from it.
Overlaps ==
  {Plain(8, <<Part(RawLits(Data(23)), Predefined, <<S(20, off + 3, ml)>>)>>, slack) :
     off \in 1..9 \union {15, 16, 17}, ml \in {3, 8, 9, 17, 40}, slack \in {0, 20, 70}}

\* Literal runs around the widths of the copies.
Runs ==
  {Plain(word, <<Part(RawLits(Data(ll + 5)), Predefined, <<S(ll, ll + 3, 6), S(0, 5, 30)>>)>>, slack) :
     word \in {4, 8}, ll \in {1, 8, 15, 16, 17, 32, 33, 50}, slack \in {0, 1, 32, 64}}

\* Every way of repeating an offset twice, after some that are new.
Offsets ==
  {Plain(word, <<Part(RawLits(Data(15)), Predefined,
                      <<S(8, 10, 4), S(1, 8, 4), S(1, 7, 3), S(a, x, 3), S(b, y, 3), S(1, 1, 4)>>)>>, 40) :
     word \in {4, 8}, x \in {1, 2, 3, 9}, y \in 1..3, a \in 0..1, b \in 0..1}

\* Counts for the three codes, transmitted, kept for the next block, or one code.
OwnLL == Counted2(<<4, 8, 0, 0, 0, 0, -1, 0, 10, 8, 0, 0, 0, 0, 0, 0, 0, 0, 0, -1>>, 5)
OwnOF == Counted2(<<-1, 1, 12, 9, 5, 4>>, 5)
OwnML == Counted2(<<30, 0, 0, 0, 0, 0, 0, 0, 0, 0, 0, 0, 0, 0, 0, 0, 0, 0, 0, 20, 14>>, 6)

DefaultLL == [Basic(LLs) EXCEPT !.mode = 2, !.head = NCount(LL_defaultNorm, 6)]
DefaultOF == [Basic(OFs) EXCEPT !.mode = 2, !.head = NCount(OF_defaultNorm, 5)]
DefaultML == [Basic(MLs) EXCEPT !.mode = 2, !.head = NCount(ML_defaultNorm, 6)]

OwnSeqs == <<S(9, 6, 3), S(1, 7, 3), S(0, 2, 22), S(8, 12, 23), S(0, 3, 3), S(1, 1, 22)>>

Tables ==
  {Plain(word, <<Part(RawLits(Data(19)), <<OwnLL, OwnOF, OwnML>>, OwnSeqs),
                 Part(RawLits(Data(22)), <<Again(OwnLL), second, Again(OwnML)>>, OwnSeqs)>>, 40) :
     word \in {4, 8}, second \in {Again(OwnOF), Basic(OFs), OwnOF}}
  \union
  {Plain(word, <<Part(RawLits(Data(30)), <<DefaultLL, DefaultOF, DefaultML>>,
                      <<S(18, 15, 36), S(9, 2, 7), S(0, 20, 70)>>)>>, 40) : word \in {4, 8}}
  \union
  {Plain(word, <<Part(RawLits(Data(30)), <<OneCode(3), OneCode(2), OneCode(33)>>,
                      <<S(3, 4, 37), S(3, 6, 38), S(3, 7, 37)>>)>>, 40) : word \in {4, 8}}
  \union
  {Plain(word, <<Part(RawLits(Data(19)), Predefined, OwnSeqs),
                 Bare(RawLits(Data(5)), <<OwnLL, OwnOF, OwnML>>),
                 Part(RawLits(Data(22)), <<Again(OwnLL), Again(OwnOF), Again(OwnML)>>, OwnSeqs)>>,
         40) : word \in {4, 8}}

-----------------------------------------------------------------------------
\* Huffman codes: balanced, skewed, and as long as they may be.
Trees == {<<2, 1, 1>>, <<1, 1, 1, 1>>, <<4, 3, 2, 1, 1>>, <<0, 2, 2, 0, 2, 1, 1>>,
          <<11, 10, 9, 8, 7, 6, 5, 4, 3, 2, 1, 1>>}

\* Literals that use the codes of a tree, rare ones and frequent ones.
Symbols(weights, k, seed) ==
  LET used == SelectSeq([i \in 1..Len(weights) |-> i - 1], LAMBDA s : weights[s + 1] > 0)
  IN  [i \in 1..k |-> used[((i * i + seed) % Len(used)) + 1]] \o <<>>

Tail3 == <<S(5, 6, 4)>>

OneStream ==
  {Plain(word, <<Part(HufLits(2, 0, DirectTree(t), t, Symbols(t, k, 1)), Predefined, Tail3)>>, 40) :
     word \in {4, 8}, t \in Trees, k \in {5, 7, 24, 41}}

FourStream ==
  {Job(word, algo, 1024, 0, <<>>,
       <<Part(HufLits(2, 1, DirectTree(t), t, Symbols(t, k, 2)), Predefined, Tail3)>>, 40, FALSE) :
     word \in {4, 8}, algo \in {1, 2}, t \in Trees, k \in {13, 24, 60}}

SkewedTree == <<2, 0, 2, 0, 0, 2, 1, 1, 0, 0, 0, 0, 2, 2, 2, 2>>

\* A tree that comes compressed, and is used again by the next two blocks.
Again4X ==
  {Job(word, algo, 1024, 0, <<>>,
       <<Part(HufLits(2, 2, FseTree(SkewedTree, <<16, 6, 10>>, 5), SkewedTree,
                      Symbols(SkewedTree, 30, 0)), Predefined, Tail3),
         Part(HufLits(3, form, <<>>, SkewedTree, Symbols(SkewedTree, 29, 3)), Predefined, <<>>),
         Part(RleLits(77, 40), Predefined, <<S(9, 33, 5), S(0, 3, 5)>>)>>, slack, FALSE) :
     word \in {4, 8}, algo \in {1, 2}, form \in {0, 1, 3}, slack \in {0, 50}}

-----------------------------------------------------------------------------
\* Offsets of up to 28 bits: all that lies there is a few bytes.
FarBytes(off) == [a \in (0 - off)..(199 - off) |-> 50 + (a + off)]

FarSeqs(off) == <<S(40, off + 40 + 3, 52), S(33, 1, 4), S(2, off + 40 + 89 + 3, 50)>>

FarMatches ==
  {Job(word, 1, 2^29, 0, FarBytes(off), <<Part(RawLits(Data(80)), Predefined, FarSeqs(off))>>,
       70, FALSE) : word \in {4, 8}, off \in {2^24 + 5, 2^25 + 77, 2^28 + 12345}}

\* More than four sequences in a window of more than 2^24: decoded ahead.
ManySeqs == <<S(10, 8, 4), S(1, 1, 9), S(0, 2, 5), S(2, 12, 3), S(0, 1, 20), S(0, 9, 6), S(3, 3, 3)>>

DecodedAhead ==
  {Job(word, 1, 2^24 + window, 0, <<>>,
       <<Part(RawLits(Data(20)), Predefined, SubSeq(ManySeqs, 1, k)),
         Part(RawLits(Data(6)), Predefined, SubSeq(ManySeqs, 2, 7))>>, 40, FALSE) :
     word \in {4, 8}, window \in {0, 1}, k \in {4, 5, 7}}

\* A block at the start of the ring buffer, with matches that lie before it, at the
\* end of the buffer, or in both.
Restarted ==
  {Job(8, 1, 1024, 200, <<>>,
       <<Part(RawLits(Data(50)), Predefined, <<S(40, 20, 10)>>),
         [Part(RawLits(Data(9)), Predefined, <<S(ll, off + ll + 3, ml), S(1, 1, 5)>>)
            EXCEPT !.moved = TRUE]>>, 64, FALSE) :
     ll \in {0, 4}, off \in {1, 3, 8, 20, 40}, ml \in {3, 8, 19, 40}}

\* Direct reference to literals in the source: the sequences take 32 bytes or more.
Referenced ==
  {Plain(8, <<Part(RawLits(Data(40)), Predefined,
                   [i \in 1..k |-> S(1, IF i % 2 = 1 THEN 4 ELSE 1, 100 + i)] \o <<>>)>>, 40) :
     k \in {20, 24}}

-----------------------------------------------------------------------------
Good == Part(RawLits(Data(15)), Predefined, <<S(10, 10, 4), S(2, 8, 6)>>)

Broken ==
  { \* more bits left over than the last transitions read
    Job(word, 1, 1024, 0, <<>>, <<[Good EXCEPT !.over = Number(371, 26)]>>, 40, TRUE) :
      word \in {4, 8}}
  \union
  { \* an offset before the first byte, a run beyond the literals
    Job(8, 1, window, 0, <<>>,
        <<Part(RawLits(Data(15)), Predefined, <<>>), [Good EXCEPT !.say[2] = s]>>, slack, TRUE) :
      window \in {1024, 2^24 + 1}, s \in {S(2, 60, 6), S(9, 8, 6)}, slack \in {10, 100}}
  \union
  { \* a block larger than the room for it
    Job(word, 1, 1024, 0, <<>>, <<Good>>, 0 - short, TRUE) : word \in {4, 8}, short \in {1, 3, 5}}
  \union
  { \* a section cut off, tables of a block that never came, an incomplete tree
    Job(8, 1, 1024, 0, <<>>, <<p>>, 40, TRUE) :
      p \in {[Good EXCEPT !.lit.bytes = SubSeq(@, 1, 2)],
             [Good EXCEPT !.tables = [i \in 1..3 |-> Again(Predefined[i])]],
             [Good EXCEPT !.lit = HufLits(3, 1, <<>>, <<1, 1>>, Symbols(<<1, 1>>, 20, 0))],
             [Good EXCEPT !.lit = HufLits(2, 0, <<129, 17>>, <<1, 1, 1>>, Symbols(<<1, 1>>, 20, 0))]}}

MCJobs == Overlaps \union Runs \union Offsets \union Tables \union OneStream \union FourStream
          \union Again4X \union FarMatches \union DecodedAhead \union Restarted
          \union Referenced \union Broken

-----------------------------------------------------------------------------
(***************************************************************************)
(* Messages: the ones whose digests sha1.c quotes from the standard, one   *)
(* of two blocks cut everywhere, and the tail of one of 2^29 bytes.        *)
(***************************************************************************)
Abc == <<97, 98, 99>>

Digest(a, b, c, d, e) == <<a, b, c, d, e>>

AbcDigest == << <<169, 153, 62, 54>>, <<71, 6, 129, 106>>, <<186, 62, 37, 113>>,
                <<120, 80, 194, 108>>, <<156, 208, 216, 157>> >>

\* "abcdbcdecdefdefgefghfghighijhijkijkljklmklmnlmnomnopnopq"
Abcd == [i \in 1..56 |-> 97 + ((i - 1) \div 4) + ((i - 1) % 4)]

AbcdDigest == << <<132, 152, 62, 68>>, <<28, 59, 210, 110>>, <<186, 174, 74, 161>>,
                 <<249, 81, 41, 229>>, <<229, 70, 112, 241>> >>

None == <<Word(0, 4), Word(0, 4)>>

Sha(before, pieces, digest) == [before |-> before, pieces |-> pieces, digest |-> digest]

Cut(s, k) == <<SubSeq(s, 1, k), SubSeq(s, k + 1, Len(s))>>

Long == Data(150)

AtCarry == <<Hex(<<255, 255, 254, 0>>), Word(0, 4)>>

MCHashJobs ==
  {Sha(None, <<Abc>>, AbcDigest)}
  \union {Sha(None, Cut(Abcd, k), AbcdDigest) : k \in 0..56}
  \union {Sha(None, Cut(SubSeq(Long, 1, j), k) \o <<SubSeq(Long, j + 1, 150)>>,
              StandardDigest(None, Long)) :
            j \in {64, 100, 128}, k \in {0, 1, 50, 63, 64}}
  \union {Sha(AtCarry, Cut(SubSeq(Long, 1, j), k), StandardDigest(AtCarry, SubSeq(Long, 1, j))) :
            j \in {64, 70}, k \in {10, 60, 63}}

-----------------------------------------------------------------------------
(***************************************************************************)
(* Checksums that xxhash.c gives, from the highest byte on: of texts that  *)
(* leave nothing over, single bytes, four and eight of them, and of one    *)
(* with several stripes.  They tie the constants and rounds of Xxh64.      *)
(***************************************************************************)
Spammish == <<78, 111, 98, 111, 100, 121, 32, 105, 110, 115, 112, 101, 99, 116, 115, 32, 116,
              104, 101, 32, 115, 112, 97, 109, 109, 105, 115, 104, 32, 114, 101, 112, 101, 116,
              105, 116, 105, 111, 110>>

KnownChecksums ==
  { <<<<>>,      <<239, 70, 219, 55, 81, 216, 233, 153>>>>,
    <<<<97>>,    <<210, 78, 196, 241, 169, 140, 110, 91>>>>,
    <<Abc,       <<68, 188, 44, 245, 173, 119, 9, 153>>>>,
    <<Spammish,  <<251, 206, 168, 60, 138, 55, 139, 241>>>>,
    <<Data(150), <<225, 60, 216, 65, 208, 173, 158, 167>>>> }

ASSUME ChecksumsAreKnown ==
  \A c \in KnownChecksums : XXH64_digest(XXH64_update(XXH64_reset, c[1])) = Hex(c[2])

=============================================================================
