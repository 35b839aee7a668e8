----------------------------- MODULE MCEncoder -----------------------------
(***************************************************************************)
(* The other side of the block decoder, for the instances of MCCodec: a    *)
(* compressor that writes a block for given literals and sequences, and    *)
(* what the block stands for.  It is written from the format, with tables  *)
(* and codes of its own, so that an error of the decoder is not mirrored.  *)
(***************************************************************************)
EXTENDS SeqTables

\* Bits are listed in the order in which they are read.
Number(v, w) == [i \in 1..w |-> (v \div 2^(w - i)) % 2]

Joined(lists) ==
  LET f[k \in 0..Len(lists)] == IF k = 0 THEN <<>> ELSE f[k - 1] \o lists[k] IN f[Len(lists)]

\* Bytes from bits listed from the lowest one of the first byte.
Bytes(bits) ==
  LET at(i) == IF i <= Len(bits) THEN bits[i] ELSE 0
      byte(j) == at(8*j + 1) + 2 * at(8*j + 2) + 4 * at(8*j + 3) + 8 * at(8*j + 4)
                 + 16 * at(8*j + 5) + 32 * at(8*j + 6) + 64 * at(8*j + 7) + 128 * at(8*j + 8)
  IN  [j \in 1..((Len(bits) + 7) \div 8) |-> byte(j - 1)] \o <<>>

\* A stream to be read backwards: the last bit read comes first.
Backward(bits) == Bytes([i \in 1..Len(bits) |-> bits[Len(bits) + 1 - i]] \o <<1>>)

Forward(v, w) == [i \in 1..w |-> (v \div 2^(i - 1)) % 2]

-----------------------------------------------------------------------------
(***************************************************************************)
(* Finite state entropy.  A table maps its cells to [sym, nb, next].       *)
(***************************************************************************)
\* The cells of each symbol, placed one after the other; norm is a sequence.
RECURSIVE Place(_, _, _, _, _, _)
Place(norm, size, top, s, count, st) ==
  LET step(p) == (p + (size \div 2 + size \div 8 + 3)) % size
      after == LET c[k \in 1..size] == IF k = 1 THEN step(st.pos) ELSE step(c[k - 1])
               IN  c[CHOOSE k \in 1..size : c[k] <= top /\ \A j \in 1..(k - 1) : c[j] > top]
  IN  IF s > Len(norm) THEN st.sym
      ELSE IF count >= norm[s] THEN Place(norm, size, top, s + 1, 0, st)
      ELSE Place(norm, size, top, s, count + 1,
                 [sym |-> [st.sym EXCEPT ![st.pos] = s - 1], pos |-> after])

Log2(x) == CHOOSE b \in 0..29 : 2^b <= x /\ x < 2 * 2^b

RefTable(norm, log) ==
  LET size == 2^log
      rare == SelectSeq([s \in 1..Len(norm) |-> s], LAMBDA s : norm[s] = -1)
      start == [u \in 0..(size - 1) |->
                  IF u >= size - Len(rare) THEN rare[size - u] - 1 ELSE 0]
      sym  == Place(norm, size, size - 1 - Len(rare), 1, 0, [sym |-> start, pos |-> 0])
      share(s) == Cardinality({u \in 0..(size - 1) : sym[u] = s})
      rank(u)  == share(sym[u]) + Cardinality({v \in 0..(u - 1) : sym[v] = sym[u]})
      nb(u)    == log - Log2(rank(u))
  IN  [log |-> log,
       cell |-> [u \in 0..(size - 1) |-> [sym |-> sym[u], nb |-> nb(u),
                                          next |-> rank(u) * 2^nb(u) - size]]]

\* The states of a table that decode syms, every gap-th of one chain: the last is
\* the first cell of its symbol, each one before leads to its successor.
States(t, syms, gap) ==
  LET N == Len(syms)
      Holds(u, k) == t.cell[u].sym = syms[k]
      f[k \in 1..N] ==
        IF k + gap > N
          THEN CHOOSE u \in DOMAIN t.cell :
                 Holds(u, k) /\ \A v \in 0..(u - 1) : ~Holds(v, k)
          ELSE LET z == f[k + gap] IN
               CHOOSE u \in DOMAIN t.cell :
                 /\ Holds(u, k)
                 /\ t.cell[u].next <= z /\ z < t.cell[u].next + 2^t.cell[u].nb
  IN  [k \in 1..N |-> f[k]] \o <<>>

\* The bits that lead from one state to another.
Step(t, u, z) == Number(z - t.cell[u].next, t.cell[u].nb)

\* A normalised count, as FSE_readNCount reads it.
RECURSIVE Counts(_, _, _, _)
Counts(norm, s, remaining, threshold) ==
  LET w   == Log2(threshold) + 1
      max == 2 * threshold - 1 - remaining
      v   == norm[s] + 1
      left == remaining - IF norm[s] < 0 THEN 1 ELSE norm[s]
      code == IF v < max THEN Forward(v, w - 1)
              ELSE IF v < threshold THEN Forward(v, w) ELSE Forward(v + max, w)
      next == CHOOSE j \in (s + 1)..(Len(norm) + 1) :
                (j > Len(norm) \/ norm[j] # 0) /\ \A i \in (s + 1)..(j - 1) : norm[i] = 0
      zeros == next - s - 1
      skip == [i \in 1..(2 * (zeros \div 3)) |-> 1] \o Forward(zeros % 3, 2)
      lower == CHOOSE h \in 0..15 : 2^h <= left /\ left < 2^(h + 1)
      limit == IF left < threshold THEN 2^lower ELSE threshold
  IN  IF left = 1 THEN code
      ELSE IF norm[s] = 0 THEN code \o skip \o Counts(norm, next, left, limit)
      ELSE code \o Counts(norm, s + 1, left, limit)

NCount(norm, log) ==
  Bytes(Forward(log - FSE_MIN_TABLELOG, 4) \o Counts(norm, 1, 2^log + 1, 2^log))

-----------------------------------------------------------------------------
(***************************************************************************)
(* Huffman literals.  weights is the sequence of the weights of symbols 0, *)
(* 1, ...; the last one is not transmitted.                                *)
(***************************************************************************)
Room(w) == IF w = 0 THEN 0 ELSE 2^(w - 1)

SumOf(seq) == LET f[k \in 0..Len(seq)] == IF k = 0 THEN 0 ELSE f[k - 1] + seq[k] IN f[Len(seq)]

Code(weights, s) ==
  LET log == Log2(SumOf([i \in DOMAIN weights |-> Room(weights[i])]))
      w   == weights[s + 1]
      before(i) == weights[i] < w \/ (weights[i] = w /\ i <= s)
      first == SumOf([i \in DOMAIN weights |-> IF before(i) THEN Room(weights[i]) ELSE 0])
  IN  Number(first \div Room(w), log + 1 - w)

HufStream(weights, lits) == Backward(Joined([i \in DOMAIN lits |-> Code(weights, lits[i])]))

\* The weights two to a byte, the first one on top.
DirectTree(weights) ==
  LET k == Len(weights) - 1
      at(i) == IF i <= k THEN weights[i] ELSE 0
  IN  <<127 + k>> \o [j \in 1..((k + 1) \div 2) |-> 16 * at(2 * j - 1) + at(2 * j)]

\* The weights compressed with two states that take turns.
FseTree(weights, norm, log) ==
  LET k == Len(weights) - 1
      t == RefTable(norm, log)
      z == States(t, SubSeq(weights, 1, k), 2)
      stream == NCount(norm, log)
                \o Backward(Number(z[1], log) \o Number(z[2], log)
                            \o Joined([i \in 1..(k - 2) |-> Step(t, z[i], z[i + 2])]))
  IN  <<Len(stream)>> \o stream

FourStreams(weights, lits) ==
  LET seg == (Len(lits) + 3) \div 4
      s(i) == HufStream(weights, SubSeq(lits, (i - 1) * seg + 1,
                                        IF i = 4 THEN Len(lits) ELSE i * seg))
      size(i) == <<Len(s(i)) % 256, Len(s(i)) \div 256>>
  IN  size(1) \o size(2) \o size(3) \o s(1) \o s(2) \o s(3) \o s(4)

\* A literals section: [bytes, lits].  The sizes of type 2 and 3 come in 10, 14 or
\* 18 bits each.
RawLits(lits) ==
  [lits |-> lits,
   bytes |-> (IF Len(lits) < 32 THEN <<8 * Len(lits)>>
              ELSE <<4 + 16 * (Len(lits) % 16), Len(lits) \div 16>>) \o lits]

RleLits(b, size) ==
  [lits |-> [i \in 1..size |-> b],
   bytes |-> <<1 + 4 + 16 * (size % 16), size \div 16, b>>]

HufHeader(type, form, size, cSize) ==
  LET w == <<10, 10, 14, 18>>[form + 1]
  IN  Bytes(Forward(type + 4 * form, 4) \o Forward(size, w) \o Forward(cSize, w))

HufLits(type, form, tree, weights, lits) ==
  LET body == tree \o IF form = 0 THEN HufStream(weights, lits) ELSE FourStreams(weights, lits)
  IN  [lits |-> lits, bytes |-> HufHeader(type, form, Len(lits), Len(body)) \o body]

-----------------------------------------------------------------------------
(***************************************************************************)
(* Sequences: [ll, of, ml], where `of` is the offset plus 3, or 1, 2 or 3  *)
(* for one of the last offsets.  A table comes as [mode, head, t].         *)
(***************************************************************************)
LLs == [base |-> LL_base, bits |-> LL_bits, rows |-> LL_printed, log |-> 6]
OFs == [base |-> OF_base, bits |-> OF_bits, rows |-> OF_printed, log |-> 5]
MLs == [base |-> ML_base, bits |-> ML_bits, rows |-> ML_printed, log |-> 6]

LengthCode(k, v) == (CHOOSE c \in DOMAIN k.base :
                       k.base[c] <= v /\ (c = Len(k.base) \/ v < k.base[c + 1])) - 1

Basic(k) ==
  LET sym(row) == (CHOOSE c \in DOMAIN k.base : k.base[c] = row[4] /\ k.bits[c] = row[2]) - 1
  IN  [mode |-> 0, head |-> <<>>,
       t |-> [log |-> k.log, cell |-> [u \in 0..(2^k.log - 1) |->
                [sym |-> sym(k.rows[u + 1]), nb |-> k.rows[u + 1][3],
                 next |-> k.rows[u + 1][1]]]]]

OneCode(c) ==
  [mode |-> 1, head |-> <<c>>,
   t |-> [log |-> 0, cell |-> [u \in {0} |-> [sym |-> c, nb |-> 0, next |-> 0]]]]

Counted2(norm, log) == [mode |-> 2, head |-> NCount(norm, log), t |-> RefTable(norm, log)]

Again(table) == [table EXCEPT !.mode = 3, !.head = <<>>]

SeqBits(ll, of, ml, seqs) ==
  LET N == Len(seqs)
      lc == [k \in 1..N |-> LengthCode(LLs, seqs[k].ll)]
      oc == [k \in 1..N |-> Log2(seqs[k].of)]
      mc == [k \in 1..N |-> LengthCode(MLs, seqs[k].ml)]
      l == States(ll.t, lc, 1)
      o == States(of.t, oc, 1)
      m == States(ml.t, mc, 1)
      fields(k) == Number(seqs[k].of - 2^oc[k], oc[k])
                   \o Number(seqs[k].ml - ML_base[mc[k] + 1], ML_bits[mc[k] + 1])
                   \o Number(seqs[k].ll - LL_base[lc[k] + 1], LL_bits[lc[k] + 1])
      moves(k) == IF k = N THEN <<>>
                  ELSE Step(ll.t, l[k], l[k + 1]) \o Step(ml.t, m[k], m[k + 1])
                       \o Step(of.t, o[k], o[k + 1])
  IN  Number(l[1], ll.t.log) \o Number(o[1], of.t.log) \o Number(m[1], ml.t.log)
      \o Joined([k \in 1..N |-> fields(k) \o moves(k)])

SeqCounted(k) == IF k < 128 THEN <<k>> ELSE <<128 + k \div 256, k % 256>>

\* A sequences section, with bits of its own left over at the end.
SeqSection(ll, of, ml, seqs, over) ==
  IF seqs = <<>> THEN <<0>>
  ELSE SeqCounted(Len(seqs)) \o <<64 * ll.mode + 16 * of.mode + 4 * ml.mode>>
       \o ll.head \o of.head \o ml.head \o Backward(SeqBits(ll, of, ml, seqs) \o over)

\* No sequences, with the count in two bytes: the tables come all the same.
NoSeqs(ll, of, ml) ==
  <<128, 0, 64 * ll.mode + 16 * of.mode + 4 * ml.mode>> \o ll.head \o of.head \o ml.head

-----------------------------------------------------------------------------
(***************************************************************************)
(* What sequences stand for: the text after them, byte by byte.  far[i] is *)
(* the byte i places before the text.                                      *)
(***************************************************************************)
Last3(rep, of, ll) ==
  LET which == of + IF ll = 0 THEN 1 ELSE 0
  IN  IF of > 3 THEN <<of - 3, rep[1], rep[2]>>
      ELSE CASE which = 1 -> rep
             [] which = 2 -> <<rep[2], rep[1], rep[3]>>
             [] which = 3 -> <<rep[3], rep[1], rep[2]>>
             [] OTHER     -> <<rep[1] - 1, rep[1], rep[2]>>

Repeat(out, off, ml, far) ==
  LET at(k) == IF k > 0 THEN out[k] ELSE far[1 - k]
  IN  out \o [i \in 1..ml |-> at(Len(out) - off + 1 + ((i - 1) % off))]

Played(seqs, lits, out, rep, far) ==
  LET f[k \in 0..Len(seqs)] ==
        IF k = 0 THEN [out |-> out, rep |-> rep, lits |-> lits]
        ELSE LET p == f[k - 1]
                 s == seqs[k]
                 r == Last3(p.rep, s.of, s.ll)
             IN  [out  |-> Repeat(p.out \o SubSeq(p.lits, 1, s.ll), r[1], s.ml, far),
                  rep  |-> r,
                  lits |-> SubSeq(p.lits, s.ll + 1, Len(p.lits))]
      end == f[Len(seqs)]
  IN  [out |-> end.out \o end.lits, rep |-> end.rep]

=============================================================================
