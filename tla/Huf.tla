-------------------------------- MODULE Huf --------------------------------
(***************************************************************************)
(* The Huffman decoder of the Zstandard library: HUF_readStats of          *)
(* common/entropy_common.c and decompress/huf_decompress.c.                *)
(*                                                                         *)
(* A tree is transmitted as the weights of its symbols, the last one       *)
(* implied; weight w stands for codes of tableLog + 1 - w bits.  Two       *)
(* decoders read the same codes: X1 looks up one symbol at a time in a     *)
(* table of 2^tableLog cells, X2 one or two at a time in a table of        *)
(* 2^HufLog cells.  Literals come in one stream or in four that are        *)
(* decoded in lock step and then finished one by one.                      *)
(***************************************************************************)
EXTENDS Fse

HUF_TABLELOG_MAX    == 12
HUF_SYMBOLVALUE_MAX == 255
HufLog              == 12

-----------------------------------------------------------------------------
(***************************************************************************)
(* HUF_readStats_body.                                                     *)
(***************************************************************************)
\* The transmitted weights: two to a byte, or compressed with FSE.
ReadWeights(src, word) ==
  LET direct == src[1] >= 128
      oSize  == src[1] - 127
      iSize  == IF direct THEN (oSize + 1) \div 2 ELSE src[1]
      nibble(n) == IF n % 2 = 1 THEN src[2 + n \div 2] \div 16
                                ELSE src[1 + n \div 2] % 16
  IN  IF Len(src) = 0 THEN Failed
      ELSE IF iSize + 1 > Len(src) THEN Failed
      ELSE IF direct THEN [ok |-> TRUE, size |-> iSize + 1,
                           out |-> [n \in 1..oSize |-> nibble(n)]]
      ELSE FseDecompress(SubSeq(src, 2, iSize + 1), word, HUF_SYMBOLVALUE_MAX, 6)
           @@ [size |-> iSize + 1]

Cells(w) == 2^w \div 2

\* The last weight completes the cells to a power of two.
ReadStats(src, word) ==
  LET \* all the weights; rest is the number of cells of the last
      stats(size, all, log, rest) ==
        LET ones == Cardinality({n \in DOMAIN all : all[n] = 1})
        IN  IF rest # 2^HighBit(rest) \/ ones < 2 \/ ones % 2 = 1
              THEN Failed
              ELSE [ok |-> TRUE, size |-> size, log |-> log,
                    weight |-> [s \in 0..(Len(all) - 1) |-> all[s + 1]]]
      completed(r, total) ==
        LET log  == HighBit(total) + 1
            rest == 2^log - total
        IN  IF \/ \E n \in DOMAIN r.out : r.out[n] >= HUF_TABLELOG_MAX
               \/ total = 0
               \/ log > HUF_TABLELOG_MAX
              THEN Failed
              ELSE stats(r.size, Append(r.out, HighBit(rest) + 1), log, rest)
      weighed(r) ==
        LET sum[n \in 0..Len(r.out)] == IF n = 0 THEN 0 ELSE sum[n - 1] + Cells(r.out[n])
        IN  IF r.ok THEN completed(r, sum[Len(r.out)]) ELSE Failed
  IN  weighed(ReadWeights(src, word))

\* The symbols that have a code, by weight and in order within a weight.
Sorted(weight, log) ==
  LET symbols == [i \in 1..Cardinality(DOMAIN weight) |-> i - 1]
      f[w \in 0..log] ==
        IF w = 0 THEN <<>> ELSE f[w - 1] \o SelectSeq(symbols, LAMBDA s : weight[s] = w)
  IN  f[log]

\* HUF_readDTableX1_wksp_bmi2: the cells of every symbol in that order.
DTableX1(stats) ==
  LET list == Sorted(stats.weight, stats.log)
      f[k \in 0..Len(list)] ==
        IF k = 0 THEN <<>>
        ELSE f[k - 1] \o [i \in 1..Cells(stats.weight[list[k]]) |->
                            [out |-> <<list[k]>>,
                             nb  |-> stats.log + 1 - stats.weight[list[k]]]]
  IN  [type |-> 1, log |-> stats.log, cells |-> f[Len(list)]]

\* HUF_readDTableX2_wksp, up to the filling of the cells: the sorted list, and
\* how many symbols and how many cells of the large table lie below a weight.
DTableX2(stats) ==
  LET list   == Sorted(stats.weight, stats.log)
      sorted == [k \in DOMAIN list |-> [sym |-> list[k], w |-> stats.weight[list[k]]]]
      count(w) == Cardinality({k \in DOMAIN list : sorted[k].w = w})
      start[w \in 1..(stats.log + 1)] ==
        IF w = 1 THEN 0 ELSE start[w - 1] + count(w - 1)
      val[w \in 1..(stats.log + 1)] ==
        IF w = 1 THEN 0 ELSE val[w - 1] + count(w - 1) * 2^(w - 1 + HufLog - stats.log - 1)
  IN  [type |-> 2, log |-> HufLog, base |-> stats.log + 1,
       sorted |-> sorted, rankStart |-> start, rankVal |-> val,
       maxW |-> sorted[Len(sorted)].w]

\* The symbol of the sorted list, from the one at rank `from` on, whose cells hold
\* cell u of a table of 2^sizeLog cells that `consumed` bits lead to.
Holder(t, from, sizeLog, consumed, u) ==
  LET length(k) == 2^(sizeLog - (t.base - t.sorted[k].w))
      first(k)  == t.rankVal[t.sorted[k].w] \div 2^consumed
                   + (k - 1 - t.rankStart[t.sorted[k].w]) * length(k)
      holder(k) == [sym |-> t.sorted[k].sym, nb |-> t.base - t.sorted[k].w, first |-> first(k)]
  IN  holder(CHOOSE k \in (from + 1)..Len(t.sorted) : u - first(k) \in 0..(length(k) - 1))

\* HUF_fillDTableX2 and HUF_fillDTableX2Level2: a cell of two symbols where the
\* bits left after the first one hold the code of a second, whatever follows.
CellX2(t, v) ==
  LET pair(one, two) == [out |-> <<one.sym, two.sym>>, nb |-> one.nb + two.nb]
      cell(one) ==
        LET left == HufLog - one.nb
            minWeight == Max({1, one.nb + t.base - HufLog})
            skipped == minWeight > 1
                       /\ v - one.first < t.rankVal[minWeight] \div 2^one.nb
        IN  IF left < t.base - t.maxW \/ skipped
              THEN [out |-> <<one.sym>>, nb |-> one.nb]
              ELSE pair(one, Holder(t, t.rankStart[minWeight], left, one.nb, v - one.first))
  IN  cell(Holder(t, 0, HufLog, 0, v))

-----------------------------------------------------------------------------
(***************************************************************************)
(* Decoding.  A state of the decoders is the streams d, the places p where *)
(* they write and the buffer they share.                                   *)
(***************************************************************************)
Cell(t, d) ==
  LET v == LookBitsFast(d, t.log) IN
  IF t.type = 1 THEN t.cells[v + 1] ELSE CellX2(t, v)

\* HUF_decodeSymbolX1 and HUF_decodeSymbolX2 on stream i: X2 always writes two bytes.
DecodeSymbol(t, s, i) ==
  LET p == s.p[i]
      wrote(c) ==
        LET second == IF Len(c.out) = 2 THEN c.out[2] ELSE 0
        IN  [d   |-> [s.d EXCEPT ![i] = SkipBits(@, c.nb)],
             p   |-> [s.p EXCEPT ![i] = @ + Len(c.out)],
             buf |-> IF t.type = 1 THEN [s.buf EXCEPT ![p] = c.out[1]]
                                   ELSE [s.buf EXCEPT ![p] = c.out[1], ![p + 1] = second]]
  IN  wrote(Cell(t, s.d[i]))

DecodeLastSymbolX2_All(t, s, i) ==
  LET wrote(c) == [d   |-> [s.d EXCEPT ![i] = SkipBits(@, c.nb)],
                   p   |-> [s.p EXCEPT ![i] = @ + 1],
                   buf |-> [s.buf EXCEPT ![s.p[i]] = c.out[1]]]
  IN  wrote(Cell(t, s.d[i]))

\* HUF_decodeLastSymbolX2: one byte, and never past the end of the stream.
DecodeLastSymbolX2(t, s, i) ==
  LET w == Width(s.d[i])
      used(c) == IF Len(c.out) = 1 THEN s.d[i].consumed + c.nb
                 ELSE IF s.d[i].consumed >= w THEN s.d[i].consumed
                 ELSE IF s.d[i].consumed + c.nb > w THEN w ELSE s.d[i].consumed + c.nb
      wrote(c) == [d   |-> [s.d EXCEPT ![i].consumed = used(c)],
                   p   |-> [s.p EXCEPT ![i] = @ + 1],
                   buf |-> [s.buf EXCEPT ![s.p[i]] = c.out[1]]]
  IN  wrote(Cell(t, s.d[i]))

\* How many symbols the register holds for sure: HUF_DECODE_SYMBOLX1_2, _1 and _0.
Burst(word) == IF word = 8 THEN 4 ELSE 2

DecodeMany(t, s, i, n) ==
  LET after[k \in 0..n] == IF k = 0 THEN s ELSE DecodeSymbol(t, after[k - 1], i) IN after[n]

\* While the stream refills the register and p is below the limit, n symbols at a time.
DecodeWhile(t, s0, i, limit, n) ==
  LET more(s) == Status(s.d[i]) = Unfinished /\ s.p[i] < limit
      refilled(s) == [s EXCEPT !.d[i] = Reload(@)]
      turn(s) == DecodeMany(t, refilled(s), i, n)
  IN  refilled(While(more, turn, s0, limit - s0.p[i]))

\* The bits that are left are in the register.
DecodeRest(t, s0, i, limit) ==
  LET more(s) == s.p[i] < limit
      turn(s) == DecodeSymbol(t, s, i)
  IN  While(more, turn, s0, limit - s0.p[i])

\* HUF_decodeStreamX1: a 32-bit register is refilled for single symbols too.
DecodeStreamX1(t, s, i, pEnd) ==
  IF s.d[i].word = 4
    THEN DecodeRest(t, DecodeWhile(t, DecodeWhile(t, s, i, pEnd - 3, Burst(4)), i, pEnd, 1), i, pEnd)
    ELSE DecodeRest(t, DecodeWhile(t, s, i, pEnd - 3, Burst(8)), i, pEnd)

DecodeLast(t, s, i, pEnd) == IF s.p[i] < pEnd THEN DecodeLastSymbolX2(t, s, i) ELSE s

\* HUF_decodeStreamX2.
DecodeStreamX2(t, s, i, pEnd) ==
  DecodeLast(t, DecodeRest(t, DecodeWhile(t,
    DecodeWhile(t, s, i, pEnd - (s.d[i].word - 1), Burst(s.d[i].word)),
    i, pEnd - 1, 1), i, pEnd - 1), i, pEnd)

DecodeStream(t, s, i, pEnd) ==
  IF t.type = 1 THEN DecodeStreamX1(t, s, i, pEnd) ELSE DecodeStreamX2(t, s, i, pEnd)

\* Every stream has been read to its end.
Decoded(s) ==
  IF \A i \in DOMAIN s.d : EndOfDStream(s.d[i]) THEN [ok |-> TRUE, buf |-> s.buf] ELSE Failed

\* HUF_decompress1X1_usingDTable_internal_body and its X2 twin.
Decompress1X(t, buf, dstSize, src, word) ==
  LET d == InitDStream(src, word)
  IN  IF ~d.ok THEN Failed
      ELSE Decoded(DecodeStream(t, [d |-> <<d>>, p |-> <<0>>, buf |-> buf], 1, dstSize))

\* One round of the main loop: the four streams take turns for every symbol.
Round(t, s, n) ==
  LET after[k \in 0..(4 * n)] ==
        IF k = 0 THEN s ELSE DecodeSymbol(t, after[k - 1], 1 + ((k - 1) % 4))
  IN  after[4 * n]

LockStep(t, s0, olimit) ==
  LET more(s) == s.open /\ s.p[4] < olimit
      next(r) == [p |-> r.p, buf |-> r.buf, d |-> [i \in 1..4 |-> ReloadedFast(r.d[i])],
                  open |-> \A i \in 1..4 : FastStatus(r.d[i]) = Unfinished]
      turn(s) == next(Round(t, s, Burst(s.d[1].word)))
  IN  While(more, turn, s0, olimit - s0.p[4])

\* The jump table of four streams: the streams, the segments of the output, and
\* whether there are four streams at all.
Segments(dstSize, src, word) ==
  LET len   == <<LE16(src, 1), LE16(src, 3), LE16(src, 5)>>
      from[i \in 1..4] == IF i = 1 THEN 7 ELSE from[i - 1] + len[i - 1]
      upto(i) == IF i = 4 THEN Len(src) ELSE from[i + 1] - 1
      size  == (dstSize + 3) \div 4
      begun(d) ==
        IF \E i \in 1..4 : ~d[i].ok THEN Failed
        ELSE [ok |-> TRUE, d |-> d, start |-> [i \in 1..4 |-> (i - 1) * size],
              end |-> [i \in 1..4 |-> IF i = 4 THEN dstSize ELSE i * size]]
  IN  IF Len(src) < 10 THEN Failed
      ELSE IF from[4] > Len(src) + 1 THEN Failed
      ELSE begun([i \in 1..4 |-> InitDStream(SubSeq(src, from[i], upto(i)), word)])

\* HUF_decompress4X1_usingDTable_internal_body and its X2 twin.
Decompress4X(t, buf, dstSize, src, word) ==
  LET olimit == dstSize - IF t.type = 1 THEN 3 ELSE word - 1
      finished(s, end) ==
        IF \E i \in 1..3 : s.p[i] > end[i] THEN Failed
        ELSE LET after[i \in 0..4] ==
                   IF i = 0 THEN s ELSE DecodeStream(t, after[i - 1], i, end[i])
             IN  Decoded(after[4])
      decoded(g) ==
        IF ~g.ok THEN Failed
        ELSE finished(LockStep(t, [d |-> g.d, p |-> g.start, buf |-> buf, open |-> TRUE], olimit), g.end)
  IN  decoded(Segments(dstSize, src, word))

=============================================================================
