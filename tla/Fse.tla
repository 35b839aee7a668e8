-------------------------------- MODULE Fse --------------------------------
(***************************************************************************)
(* Finite state entropy, the decoding side: FSE_readNCount of              *)
(* common/entropy_common.c, the tables and the byte decoder of             *)
(* common/fse_decompress.c and the state transitions of common/fse.h.      *)
(*                                                                         *)
(* A normalised count gives every symbol its share of the 2^log cells of a *)
(* table, -1 standing for a share below one cell.  A cell holds a symbol   *)
(* and the interval of states, of 2^nb members from `next` on, that the    *)
(* next nb bits choose from.                                               *)
(***************************************************************************)
EXTENDS BitStream, FiniteSets, FiniteSetsExt, SequencesExt

FSE_MIN_TABLELOG          == 5
FSE_TABLELOG_ABSOLUTE_MAX == 15
FSE_MAX_TABLELOG          == 12
FSE_MAX_SYMBOL_VALUE      == 255

\* The cells of a count: a symbol rarer than one cell still has one.
Share(count) == IF count = -1 THEN 1 ELSE count

\* A loop that can end in its middle is open until then.
Open(s)   == s.open
Closed(s) == [s EXCEPT !.open = FALSE]

TableStep(size) == size \div 2 + size \div 8 + 3

-----------------------------------------------------------------------------
(***************************************************************************)
(* FSE_readNCount_body.  `bitStream` of the code is the 32-bit word at ip  *)
(* shifted by bitCount: the window of bits that follow, zeros above it.    *)
(***************************************************************************)
Window(src, s, n) ==
  LET v[k \in 0..n] ==
        IF k = 0 THEN 0
        ELSE 2 * v[k - 1] + IF s.bitCount + n - k < 32
                              THEN Bit(src, 8 * s.ip + s.bitCount + n - k) ELSE 0
  IN  v[n]

\* The two-bit codes 11 that come next, one for three symbols of count zero.
Repeats(src, s) ==
  LET at(k)   == [s EXCEPT !.bitCount = @ + 2 * k]
      pair(k) == k < 15 /\ Window(src, at(k), 2) = 3
  IN  CHOOSE k \in 0..15 : ~ pair(k) /\ \A j \in 0..(k - 1) : pair(j)

\* Towards the next bits, never beyond the last four bytes of the header.
Advance(src, s) ==
  LET end == Len(src) IN
  IF s.ip <= end - 7 \/ s.ip + s.bitCount \div 8 <= end - 4
    THEN [s EXCEPT !.ip = @ + s.bitCount \div 8, !.bitCount = @ % 8]
    ELSE [s EXCEPT !.ip = end - 4, !.bitCount = (@ - 8 * (end - 4 - s.ip)) % 32]

\* Twelve codes at a time while there are so many, then the rest and the last code.
\* Each turn but the last few moves ip by three bytes.
SkipRepeats(src, s0) ==
  LET end     == Len(src)
      many(s) == Repeats(src, s) >= 12
      turn(s) == IF s.ip <= end - 7
                   THEN [s EXCEPT !.charnum = @ + 36, !.ip = @ + 3]
                   ELSE [s EXCEPT !.charnum = @ + 36, !.ip = end - 4,
                                  !.bitCount = (@ - 8 * (end - 7 - s.ip)) % 32]
      rest(s) == LET r == Repeats(src, s)
                     t == [s EXCEPT !.bitCount = @ + 2 * r]
                 IN  [t EXCEPT !.charnum  = @ + 3 * r + Window(src, t, 2),
                               !.bitCount = @ + 2]
  IN  rest(While(many, turn, s0, end))

\* One count: in nbBits - 1 bits when these suffice, else in nbBits.
ReadCount(src, s) ==
  LET max   == 2 * s.threshold - 1 - s.remaining
      low   == Window(src, s, s.nbBits - 1)
      high  == Window(src, s, s.nbBits)
      counted(count, bits) ==
        LET left == s.remaining - Share(count)
            down == left < s.threshold /\ left > 1
        IN  [s EXCEPT !.bitCount  = @ + bits,
                      !.norm      = (s.charnum :> count) @@ @,
                      !.charnum   = @ + 1,
                      !.previous0 = count = 0,
                      !.remaining = left,
                      !.nbBits    = IF down THEN HighBit(left) + 1 ELSE @,
                      !.threshold = IF down THEN 2^HighBit(left) ELSE @]
  IN  IF low < max THEN counted(low - 1, s.nbBits - 1)
      ELSE counted((IF high >= s.threshold THEN high - max ELSE high) - 1, s.nbBits)

\* The loop over the symbols, each turn of which gives at least one its count.
ReadCounts(src, maxSV1, s0) ==
  LET next(u) == IF u.remaining <= 1 \/ u.charnum >= maxSV1 THEN Closed(u) ELSE Advance(src, u)
      skipped(t) == IF t.charnum >= maxSV1 THEN Closed(t) ELSE next(ReadCount(src, Advance(src, t)))
      turn(s) == IF s.previous0 THEN skipped(SkipRepeats(src, s)) ELSE next(ReadCount(src, s))
  IN  While(Open, turn, s0, maxSV1)

ReadNCountLong(src, maxSV) ==
  LET log == Window(src, [ip |-> 0, bitCount |-> 0], 4) + FSE_MIN_TABLELOG
      counts(s) ==
        IF s.remaining # 1 \/ s.charnum > maxSV + 1 \/ s.bitCount > 32
          THEN Failed
          ELSE [ok   |-> TRUE,
                size |-> s.ip + (s.bitCount + 7) \div 8,
                log  |-> log,
                norm |-> [c \in 0..(s.charnum - 1) |->
                            IF c \in DOMAIN s.norm THEN s.norm[c] ELSE 0]]
  IN  IF log > FSE_TABLELOG_ABSOLUTE_MAX
        THEN Failed
        ELSE counts(ReadCounts(src, maxSV + 1,
               [ip |-> 0, bitCount |-> 4, charnum |-> 0, previous0 |-> FALSE,
                remaining |-> 2^log + 1, threshold |-> 2^log, nbBits |-> log + 1,
                norm |-> <<>>, open |-> TRUE]))

\* FSE_readNCount: a header of fewer than 8 bytes is read from a padded copy.
ReadNCount(src, maxSV) ==
  LET short  == Len(src) < 8
      padded == IF short THEN src \o [i \in 1..(8 - Len(src)) |-> 0] ELSE src
      within(r) == IF short /\ (r.ok => r.size > Len(src)) THEN Failed ELSE r
  IN  within(ReadNCountLong(padded, maxSV))

-----------------------------------------------------------------------------
(***************************************************************************)
(* FSE_buildDTable_internal.                                               *)
(***************************************************************************)
\* The symbols of positive count in order, each as often as its count says.
Occurrences(norm) ==
  LET f[s \in -1..Max(DOMAIN norm)] ==
        IF s = -1 THEN <<>> ELSE f[s - 1] \o IF norm[s] > 0 THEN [i \in 1..norm[s] |-> s] ELSE <<>>
  IN  f[Max(DOMAIN norm)]

\* The cells that the step visits, but for the low-probability area at the top.
Positions(size, high) ==
  LET all == [k \in 1..size |-> ((k - 1) * TableStep(size)) % size]
  IN  IF high = size - 1 THEN all
      ELSE SelectSeq(all, LAMBDA p : p <= high)

\* Which symbol each cell holds.
Spread(norm, size) ==
  LET low   == SelectSeq([i \in 1..Cardinality(DOMAIN norm) |-> i - 1], LAMBDA s : norm[s] = -1)
      high  == size - 1 - Len(low)
      occ   == Occurrences(norm)
      pos   == Positions(size, high)
      f[k \in 0..Len(occ)] ==
        IF k = 0 THEN [u \in 0..(size - 1) |-> IF u > high THEN low[size - u] ELSE 0]
                 ELSE [f[k - 1] EXCEPT ![pos[k]] = occ[k]]
  IN  f[Len(occ)]

\* The bits and the next states: the cells of a symbol count up from its share.
BuildDTable(norm, log) ==
  LET size == 2^log
      cell(symbol, x) == LET nb == log - HighBit(x)
                         IN  [sym |-> symbol, nb |-> nb, next |-> x * 2^nb - size]
      filled(symbol) ==
        LET nth[u \in 0..size] ==
              IF u = 0 THEN [s \in DOMAIN norm |-> Share(norm[s])]
                       ELSE [nth[u - 1] EXCEPT ![symbol[u - 1]] = @ + 1]
        IN  [u \in 0..(size - 1) |-> cell(symbol[u], nth[u][symbol[u]])]
  IN  [log   |-> log,
       fast  |-> \A s \in DOMAIN norm : norm[s] < 2^(log - 1),
       cells |-> filled(Spread(norm, size))]

-----------------------------------------------------------------------------
(***************************************************************************)
(* FSE_decompress_usingDTable_generic: two states take turns on one        *)
(* stream, four symbols to a loop while the register can be refilled, then *)
(* one at a time until the stream has been read past its end.              *)
(***************************************************************************)
InitDState(d, table) ==
  LET r == ReadBits(d, table.log) IN [val |-> r.val, d |-> Reload(r.d)]

\* FSE_GETSYMBOL of state i.
GetSymbol(table, s, i) ==
  LET cell == table.cells[s.state[i]]
      r    == IF table.fast THEN ReadBitsFast(s.d, cell.nb) ELSE ReadBits(s.d, cell.nb)
  IN  [s EXCEPT !.d = r.d, !.state[i] = cell.next + r.val, !.out = Append(@, cell.sym)]

Refilled(s) == [s EXCEPT !.d = Reload(@)]

Both(table, s) == GetSymbol(table, GetSymbol(table, s, 1), 2)

FseLoop(table, s0, maxDst) ==
  LET \* A 32-bit register does not hold four symbols of 12 bits.
      narrow == FSE_MAX_TABLELOG * 4 + 7 > Width(s0.d)
      half(h) == IF ~narrow THEN Both(table, h)
                 ELSE IF Status(h.d) # Unfinished THEN Closed(Refilled(h))
                 ELSE Both(table, Refilled(h))
      turn(s) == IF Status(s.d) # Unfinished \/ Len(s.out) >= maxDst - 3
                   THEN Closed(Refilled(s))
                   ELSE half(Both(table, Refilled(s)))
  IN  While(Open, turn, s0, maxDst)

\* i is the state whose turn it is.
FseTail(table, s0, maxDst) ==
  LET more(s) == s.open /\ Len(s.out) <= maxDst - 2
      next(t) == IF Status(t.d) = Overflow
                   THEN Closed(GetSymbol(table, t, 3 - t.i))
                   ELSE [Refilled(t) EXCEPT !.i = 3 - @]
      turn(s) == next(GetSymbol(table, s, s.i))
      ended(s) == IF s.open THEN Failed ELSE [ok |-> TRUE, out |-> s.out]
  IN  ended(While(more, turn, s0, maxDst))

FseDecompressUsingDTable(table, src, word, maxDst) ==
  LET d == InitDStream(src, word) IN
  IF ~d.ok
    THEN Failed
    ELSE LET one == InitDState(d, table)
             two == InitDState(one.d, table)
             s   == [d |-> two.d, state |-> <<one.val, two.val>>, out |-> <<>>,
                     i |-> 1, open |-> TRUE]
         IN  FseTail(table, [FseLoop(table, s, maxDst) EXCEPT !.open = TRUE], maxDst)

\* FSE_decompress_wksp_body: the counts, the table, then the symbols.
FseDecompress(src, word, maxDst, maxLog) ==
  LET decompress(n) ==
        IF n.ok => n.log > maxLog
          THEN Failed
          ELSE FseDecompressUsingDTable(BuildDTable(n.norm, n.log),
                                        SubSeq(src, n.size + 1, Len(src)), word, maxDst)
  IN  decompress(ReadNCount(src, FSE_MAX_SYMBOL_VALUE))

=============================================================================
