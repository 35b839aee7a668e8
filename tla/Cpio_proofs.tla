------------------------------ MODULE Cpio_proofs ------------------------------
(***************************************************************************)
(* What the extractor makes of an archive that Bakeware.CPIO has built:    *)
(* lemmas about module Cpio, for archives of any length.                   *)
(*                                                                         *)
(* Archive and Extract are recursive functions.  The induction they need   *)
(* is carried out over a set of numbers, whose least missing member comes  *)
(* from the well-foundedness of < on Nat.                                  *)
(***************************************************************************)
EXTENDS Cpio, Integers, WellFoundedInduction, TLAPS

\* A set of naturals that has 0 and the successor of each of its members has them all.
LEMMA NatSetInduction ==
  ASSUME NEW S, 0 \in S, \A n \in S \cap Nat : n + 1 \in S
  PROVE  Nat \subseteq S
<1> DEFINE R == OpToRel(<, Nat)
           T == Nat \ S
<1>1. SUFFICES ASSUME T # {} PROVE FALSE
  OBVIOUS
<1>2. IsWellFoundedOn(R, Nat)
  BY NatLessThanWellFounded
<1>3. T \subseteq Nat
  OBVIOUS
<1>4. PICK x \in T : \A y \in T : ~ (<<y, x>> \in R)
  <2> HIDE DEF R, T
  <2> QED BY <1>1, <1>2, <1>3, WFMin
<1>5. x \in Nat /\ x # 0 /\ x - 1 \in Nat /\ x - 1 < x
  OBVIOUS
<1>6. <<x - 1, x>> \in R
  BY <1>5 DEF OpToRel
<1>7. x - 1 \in S
  BY <1>4, <1>5, <1>6
<1>8. (x - 1) + 1 = x
  BY <1>5
<1> QED
  BY <1>5, <1>7, <1>8

-----------------------------------------------------------------------------
(* Extract                                                                 *)

\* One turn of the loop of cpio_extract_all
Turn(s, x) == IF x.status = "more" THEN ExtractOne(s, x) ELSE x

\* The turns are taken one after the other.
LEMMA ExtractTurns ==
  ASSUME NEW s, Len(s) \in Nat
  PROVE  \E x : /\ x[0] = Fresh
                /\ \A n \in 0..Len(s) : x[n + 1] = Turn(s, x[n])
                /\ Extract(s) = x[Len(s) + 1]
<1> DEFINE IsRun(g, m) == g = [n \in 0..m |-> IF n = 0 THEN Fresh ELSE Turn(s, g[n - 1])]
           S == {m \in Nat : \E g : IsRun(g, m)}
<1>1. 0 \in S
  <2> DEFINE g == [n \in 0..0 |-> Fresh]
  <2>1. IsRun(g, 0)
    OBVIOUS
  <2> QED BY <2>1
<1>2. ASSUME NEW m \in S \cap Nat PROVE m + 1 \in S
  <2>1. PICK g : IsRun(g, m)
    OBVIOUS
  <2> HIDE DEF S
  <2> DEFINE t == Turn(s, g[m])
             f == [n \in 0..(m + 1) |-> IF n <= m THEN g[n] ELSE t]
  <2>2. \A n \in 0..(m + 1) : f[n] = IF n = 0 THEN Fresh ELSE Turn(s, f[n - 1])
    <3>1. ASSUME NEW n \in 0..m
          PROVE  g[n] = IF n = 0 THEN Fresh ELSE Turn(s, g[n - 1])
      BY <2>1, <3>1
    <3> HIDE DEF IsRun
    <3>2. ASSUME NEW n \in 0..m
          PROVE  f[n] = g[n] /\ (n # 0 => f[n - 1] = g[n - 1])
      BY <3>2
    <3>3. f[m + 1] = t /\ f[m] = g[m]
      OBVIOUS
    <3>4. m + 1 # 0 /\ (m + 1) - 1 = m
      OBVIOUS
    <3> HIDE DEF f
    <3>5. ASSUME NEW n \in 0..(m + 1)
          PROVE  f[n] = IF n = 0 THEN Fresh ELSE Turn(s, f[n - 1])
      <4>1. CASE n \in 0..m
        BY <4>1, <3>1, <3>2
      <4>2. CASE n = m + 1
        BY <4>2, <3>3, <3>4
      <4> QED BY <4>1, <4>2
    <3> QED BY <3>5
  <2>3. f = [n \in 0..(m + 1) |-> IF n = 0 THEN Fresh ELSE Turn(s, f[n - 1])]
    <3>1. f = [n \in 0..(m + 1) |-> f[n]]
      OBVIOUS
    <3> HIDE DEF f
    <3> QED BY <2>2, <3>1
  <2>4. \E h : IsRun(h, m + 1)
    <3> HIDE DEF f
    <3> QED BY <2>3
  <2> HIDE DEF IsRun
  <2> QED BY <2>4 DEF S
<1>3. Len(s) + 1 \in S
  <2> HIDE DEF S
  <2> QED BY <1>1, <1>2, NatSetInduction
<1> DEFINE after == CHOOSE g : IsRun(g, Len(s) + 1)
<1>4. IsRun(after, Len(s) + 1)
  BY <1>3
<1>5. Extract(s) = after[Len(s) + 1]
  BY DEF Extract, Turn
<1>6. \A n \in 0..(Len(s) + 1) :
        after[n] = IF n = 0 THEN Fresh ELSE Turn(s, after[n - 1])
  <2> HIDE DEF after
  <2> QED BY <1>4
<1> HIDE DEF after
<1>7. after[0] = Fresh
  BY <1>6
<1>8. ASSUME NEW n \in 0..Len(s) PROVE after[n + 1] = Turn(s, after[n])
  <2>1. n + 1 \in 0..(Len(s) + 1) /\ n + 1 # 0 /\ (n + 1) - 1 = n
    OBVIOUS
  <2> QED BY <1>6, <2>1
<1> QED
  BY <1>5, <1>7, <1>8
-----------------------------------------------------------------------------
(* Archive                                                                 *)

\* The entries of an archive, and its pieces, when file data is made of members of D.
EntryOf(D) == [name : Names \cup {Trailer}, mode : Modes \cup {"none"}, size : Nat, data : Seq(D)]

Headers == [k : {"header"}, mode : Modes \cup {"none"}, size : Nat, namesize : Nat]
NamePieces == [k : {"name"}, name : Names \cup {Trailer}]
PieceOf(D) == Headers \cup NamePieces \cup D

LEMMA ConcatFacts ==
  ASSUME NEW P, NEW a \in Seq(P), NEW b \in Seq(P)
  PROVE  /\ a \o b \in Seq(P) /\ Len(a) \in Nat /\ Len(b) \in Nat
         /\ Len(a \o b) = Len(a) + Len(b)
         /\ \A q \in 1..Len(a) : (a \o b)[q] = a[q]
         /\ \A q \in 1..Len(b) : (a \o b)[Len(a) + q] = b[q]
OBVIOUS

LEMMA PiecesType ==
  ASSUME NEW D, NEW e \in EntryOf(D)
  PROVE  /\ Pieces(e) \in Seq(PieceOf(D))
         /\ Len(Pieces(e)) = 2 + Len(e.data) /\ Len(e.data) \in Nat
         /\ Pieces(e)[1] \in Headers /\ Pieces(e)[1].mode = e.mode /\ Pieces(e)[1].size = e.size
         /\ Pieces(e)[2] = [k |-> "name", name |-> e.name]
         /\ \A q \in 1..Len(e.data) : Pieces(e)[2 + q] = e.data[q]
<1> DEFINE h == [k |-> "header", mode |-> e.mode, size |-> e.size,
                 namesize |-> IF e.name = Trailer THEN 1 ELSE NameSize[e.name]]
           n == [k |-> "name", name |-> e.name]
<1>1. h \in Headers /\ n \in NamePieces
  <2>1. (IF e.name = Trailer THEN 1 ELSE NameSize[e.name]) \in Nat
    BY NamesAssumption DEF EntryOf
  <2> QED BY <2>1 DEF EntryOf, Headers, NamePieces
<1>2. h.mode = e.mode /\ h.size = e.size
  OBVIOUS
<1>3. Pieces(e) = <<h, n>> \o e.data
  BY DEF Pieces
<1>4. e.data \in Seq(D)
  BY DEF EntryOf
<1>5. h \in PieceOf(D) /\ n \in PieceOf(D) /\ e.data \in Seq(PieceOf(D))
  BY <1>1, <1>4 DEF PieceOf
<1> HIDE DEF h
<1>6. <<h, n>> \o e.data \in Seq(PieceOf(D))
  BY <1>5
<1>7. /\ Len(<<h, n>> \o e.data) = 2 + Len(e.data)
      /\ (<<h, n>> \o e.data)[1] = h /\ (<<h, n>> \o e.data)[2] = n
      /\ \A q \in 1..Len(e.data) : (<<h, n>> \o e.data)[2 + q] = e.data[q]
  BY <1>4
<1> QED
  BY <1>1, <1>2, <1>3, <1>4, <1>6, <1>7

\* An archive is built entry by entry: f[i] is what it is after i entries.
Builds(f, es) ==
  /\ f[0] = <<>>
  /\ \A i \in 1..Len(es) : f[i] = f[i - 1] \o Pieces(es[i])
  /\ Archive(es) = f[Len(es)]

LEMMA ArchiveBuilds ==
  ASSUME NEW D, NEW es \in Seq(EntryOf(D))
  PROVE  \E f : Builds(f, es)
<1> DEFINE seqs == [i \in DOMAIN es |-> Pieces(es[i])]
           L == Len(es)
           IsRun(g, m) == g = [i \in 1..m |-> IF i = 1 THEN seqs[i] ELSE g[i - 1] \o seqs[i]]
           S == {m \in Nat : \E g : IsRun(g, m)}
<1>1. L \in Nat /\ DOMAIN es = 1..L /\ Len(seqs) = L
  OBVIOUS
<1>2. 0 \in S
  <2> DEFINE g == [i \in 1..0 |-> <<>>]
  <2>1. IsRun(g, 0)
    OBVIOUS
  <2> QED BY <2>1
<1>3. ASSUME NEW m \in S \cap Nat PROVE m + 1 \in S
  <2>1. PICK g : IsRun(g, m)
    OBVIOUS
  <2> HIDE DEF S, seqs, L
  <2> DEFINE t == IF m = 0 THEN seqs[1] ELSE g[m] \o seqs[m + 1]
             f == [i \in 1..(m + 1) |-> IF i <= m THEN g[i] ELSE t]
             Rec(h, i) == IF i = 1 THEN seqs[i] ELSE h[i - 1] \o seqs[i]
  <2>2. ASSUME NEW i \in 1..(m + 1) PROVE f[i] = Rec(f, i)
    <3>1. CASE i \in 1..m
      <4>1. f[i] = g[i] /\ (i # 1 => f[i - 1] = g[i - 1])
        BY <3>1
      <4>2. g[i] = Rec(g, i)
        BY <2>1, <3>1
      <4> HIDE DEF f, IsRun
      <4> QED BY <4>1, <4>2
    <3>2. CASE i = m + 1
      <4>1. f[i] = t /\ (m # 0 => f[m] = g[m]) /\ i - 1 = m /\ (i = 1 <=> m = 0)
        BY <3>2
      <4> HIDE DEF f, IsRun
      <4> QED BY <3>2, <4>1
    <3> QED BY <3>1, <3>2
  <2>3. IsRun(f, m + 1)
    <3>1. f = [i \in 1..(m + 1) |-> f[i]]
      OBVIOUS
    <3> HIDE DEF f
    <3> QED BY <2>2, <3>1
  <2>4. \E h : IsRun(h, m + 1)
    <3> HIDE DEF f, IsRun
    <3> QED BY <2>3
  <2> HIDE DEF IsRun
  <2> QED BY <2>4 DEF S
<1>4. L \in S
  <2> HIDE DEF S, L
  <2> QED BY <1>1, <1>2, <1>3, NatSetInduction
<1> DEFINE flatten == CHOOSE g : IsRun(g, L)
<1>5. IsRun(flatten, L)
  BY <1>4
<1>6. Archive(es) = IF L = 0 THEN seqs ELSE flatten[L]
  BY <1>1 DEF Archive, FlattenSeq
<1>7. \A i \in 1..L : flatten[i] = IF i = 1 THEN seqs[i] ELSE flatten[i - 1] \o seqs[i]
  <2> HIDE DEF flatten, seqs, L
  <2> QED BY <1>5
<1> HIDE DEF flatten
<1> DEFINE f == [i \in 0..L |-> IF i = 0 THEN <<>> ELSE flatten[i]]
<1>8. f[0] = <<>>
  BY <1>1
<1>9. ASSUME NEW i \in 1..L PROVE f[i] = f[i - 1] \o Pieces(es[i])
  <2>1. Pieces(es[i]) \in Seq(PieceOf(D)) /\ seqs[i] = Pieces(es[i])
    <3>1. es[i] \in EntryOf(D) /\ i \in DOMAIN es
      BY <1>1
    <3> QED BY <3>1, PiecesType
  <2>2. f[i] = flatten[i] /\ f[i - 1] = IF i = 1 THEN <<>> ELSE flatten[i - 1]
    OBVIOUS
  <2>3. <<>> \o Pieces(es[i]) = Pieces(es[i])
    BY <2>1
  <2> HIDE DEF f, seqs, L
  <2> QED BY <1>7, <2>1, <2>2, <2>3
<1>10. Archive(es) = f[L]
  <2>1. L = 0 => seqs = <<>>
    BY <1>1
  <2>2. f[L] = IF L = 0 THEN <<>> ELSE flatten[L]
    BY <1>1
  <2> HIDE DEF f, seqs, L
  <2> QED BY <1>6, <2>1, <2>2
<1> HIDE DEF f
<1> QED
  BY <1>8, <1>9, <1>10 DEF Builds

\* After i entries: a prefix of the archive, at least two pieces for each entry.
LEMMA ArchivePrefix ==
  ASSUME NEW D, NEW es \in Seq(EntryOf(D)), NEW f, Builds(f, es)
  PROVE  \A i \in 0..Len(es) :
           /\ f[i] \in Seq(PieceOf(D))
           /\ Len(f[i]) >= 2 * i
           /\ \A j \in 0..i :
                /\ Len(f[j]) \in Nat /\ Len(f[j]) <= Len(f[i])
                /\ \A q \in 1..Len(f[j]) : f[i][q] = f[j][q]
<1> DEFINE Prefix(i) == /\ f[i] \in Seq(PieceOf(D))
                        /\ Len(f[i]) >= 2 * i
                        /\ \A j \in 0..i :
                             /\ Len(f[j]) \in Nat /\ Len(f[j]) <= Len(f[i])
                             /\ \A q \in 1..Len(f[j]) : f[i][q] = f[j][q]
           S == {i \in Nat : i <= Len(es) => Prefix(i)}
<1>1. 0 \in S
  <2>1. f[0] = <<>>
    BY DEF Builds
  <2>2. Prefix(0)
    BY <2>1
  <2> QED BY <2>2
<1>2. ASSUME NEW i \in S \cap Nat PROVE i + 1 \in S
  <2>1. SUFFICES ASSUME i + 1 <= Len(es) PROVE Prefix(i + 1)
    BY DEF S
  <2> HIDE DEF S
  <2>2. Len(es) \in Nat /\ i \in Nat
    OBVIOUS
  <2>3. Prefix(i)
    BY <2>1, <2>2 DEF S
  <2>4. i + 1 \in 1..Len(es) /\ (i + 1) - 1 = i
    BY <2>1, <2>2
  <2>5. es[i + 1] \in EntryOf(D)
    BY <2>4
  <2> DEFINE p == Pieces(es[i + 1])
  <2>6. p \in Seq(PieceOf(D)) /\ Len(p) = 2 + Len(es[i + 1].data) /\ Len(es[i + 1].data) \in Nat
    BY <2>5, PiecesType
  <2>7. f[i + 1] = f[i] \o p
    BY <2>4 DEF Builds
  <2> HIDE DEF p
  <2>8. /\ f[i + 1] \in Seq(PieceOf(D)) /\ Len(f[i + 1]) = Len(f[i]) + Len(p)
        /\ \A q \in 1..Len(f[i]) : f[i + 1][q] = f[i][q]
    <3>1. f[i] \in Seq(PieceOf(D))
      BY <2>3
    <3>2. p \in Seq(PieceOf(D))
      BY <2>6
    <3> HIDE DEF Prefix
    <3> QED BY <3>1, <3>2, <2>7, ConcatFacts
  <2>9. Len(f[i]) \in Nat /\ Len(f[i]) >= 2 * i /\ Len(p) >= 2 /\ Len(p) \in Nat
    BY <2>3, <2>6
  <2>10. ASSUME NEW j \in 0..(i + 1)
         PROVE  /\ Len(f[j]) \in Nat /\ Len(f[j]) <= Len(f[i + 1])
                /\ \A q \in 1..Len(f[j]) : f[i + 1][q] = f[j][q]
    <3>1. CASE j = i + 1
      BY <3>1, <2>8, <2>9
    <3>2. CASE j \in 0..i
      <4>1. /\ Len(f[j]) \in Nat /\ Len(f[j]) <= Len(f[i])
            /\ \A q \in 1..Len(f[j]) : f[i][q] = f[j][q]
        BY <3>2, <2>3
      <4>2. Len(f[j]) <= Len(f[i + 1])
        BY <4>1, <2>8, <2>9
      <4>3. ASSUME NEW q \in 1..Len(f[j]) PROVE f[i + 1][q] = f[j][q]
        <5>1. q \in 1..Len(f[i])
          BY <4>1, <2>9
        <5> QED BY <5>1, <4>1, <2>8
      <4> QED BY <4>1, <4>2, <4>3
    <3> QED BY <3>1, <3>2, <2>2
  <2>11. Len(f[i + 1]) >= 2 * (i + 1)
    BY <2>8, <2>9, <2>2
  <2> QED
    BY <2>8, <2>10, <2>11
<1>3. Nat \subseteq S
  <2> HIDE DEF S
  <2> QED BY <1>1, <1>2, NatSetInduction
<1> QED
  BY <1>3

\* The pieces of entry e are in s from p on.
EntryAt(s, p, e, D) ==
  /\ s \in Seq(PieceOf(D)) /\ p \in Nat /\ Len(e.data) \in Nat
  /\ s[p + 1] \in Headers /\ s[p + 1] = Pieces(e)[1]
  /\ s[p + 1].mode = e.mode /\ s[p + 1].size = e.size
  /\ s[p + 2] = [k |-> "name", name |-> e.name]
  /\ \A q \in 1..Len(e.data) : s[p + 2 + q] = e.data[q]

\* The pieces of entry i stand where the entries before it end.
LEMMA EntryPieces ==
  ASSUME NEW D, NEW es \in Seq(EntryOf(D)), NEW f, Builds(f, es), NEW i \in 1..Len(es)
  PROVE  /\ EntryAt(Archive(es), Len(f[i - 1]), es[i], D)
         /\ Len(f[i]) = Len(f[i - 1]) + 2 + Len(es[i].data)
         /\ Len(f[i]) <= Len(Archive(es))
<1> DEFINE s == Archive(es)
           p == Len(f[i - 1])
           e == es[i]
           L == Len(es)
<1>1. L \in Nat /\ i \in Nat /\ i - 1 \in 0..L /\ i \in 0..L /\ L \in 0..L /\ i - 1 \in 0..i
  OBVIOUS
<1>2. s = f[L] /\ f[i] = f[i - 1] \o Pieces(e)
  BY DEF Builds
<1>3. e \in EntryOf(D)
  OBVIOUS
<1>4. /\ Pieces(e) \in Seq(PieceOf(D)) /\ Len(Pieces(e)) = 2 + Len(e.data)
      /\ Len(e.data) \in Nat
      /\ Pieces(e)[1] \in Headers /\ Pieces(e)[1].mode = e.mode /\ Pieces(e)[1].size = e.size
      /\ Pieces(e)[2] = [k |-> "name", name |-> e.name]
      /\ \A q \in 1..Len(e.data) : Pieces(e)[2 + q] = e.data[q]
  <2> HIDE DEF e
  <2> QED BY <1>3, PiecesType
<1>5. /\ f[i - 1] \in Seq(PieceOf(D)) /\ f[i] \in Seq(PieceOf(D)) /\ s \in Seq(PieceOf(D))
      /\ Len(f[i]) <= Len(s) /\ \A q \in 1..Len(f[i]) : s[q] = f[i][q]
  <2>1. \A j \in 0..L :
          /\ f[j] \in Seq(PieceOf(D))
          /\ \A m \in 0..j : Len(f[m]) <= Len(f[j]) /\ \A q \in 1..Len(f[m]) : f[j][q] = f[m][q]
    BY ArchivePrefix
  <2> HIDE DEF s, e
  <2> QED BY <1>1, <1>2, <2>1
<1> HIDE DEF s, e
<1>6. p \in Nat /\ Len(f[i]) = p + 2 + Len(e.data)
  <2>1. Pieces(e) \in Seq(PieceOf(D)) /\ f[i - 1] \in Seq(PieceOf(D))
    BY <1>4, <1>5
  <2>2. Len(f[i]) = Len(f[i - 1]) + Len(Pieces(e)) /\ Len(f[i - 1]) \in Nat
    BY <2>1, <1>2, ConcatFacts
  <2>3. Len(Pieces(e)) = 2 + Len(e.data) /\ Len(e.data) \in Nat
    BY <1>4
  <2> DEFINE g == Len(f[i])
             l == Len(e.data)
             m == Len(Pieces(e))
  <2>4. g = p + m /\ p \in Nat /\ m = 2 + l /\ l \in Nat
    BY <2>2, <2>3
  <2> HIDE DEF p, g, l, m
  <2>5. p \in Nat /\ g = p + 2 + l
    BY <2>4
  <2> QED BY <2>5 DEF g, l
<1>7. \A q \in 1..(2 + Len(e.data)) : f[i][p + q] = Pieces(e)[q]
  BY <1>2, <1>4, <1>5, <1>6, ConcatFacts
<1>8. \A q \in 1..(2 + Len(e.data)) : s[p + q] = Pieces(e)[q]
  <2> HIDE DEF p
  <2>1. SUFFICES ASSUME NEW q \in 1..(2 + Len(e.data)) PROVE s[p + q] = Pieces(e)[q]
    OBVIOUS
  <2>2. p + q \in 1..Len(f[i])
    <3> DEFINE g == Len(f[i])
               l == Len(e.data)
    <3>1. l \in Nat /\ p \in Nat /\ g = p + 2 + l /\ q \in 1..(2 + l)
      BY <1>4, <1>6, <2>1
    <3> HIDE DEF g, l
    <3>2. p + q \in 1..g
      BY <3>1
    <3> QED BY <3>2 DEF g
  <2> QED BY <1>5, <1>7, <2>2
<1>9. s[p + 1] = Pieces(e)[1] /\ s[p + 2] = Pieces(e)[2]
  <2> HIDE DEF p
  <2> DEFINE l == Len(e.data)
  <2>1. l \in Nat /\ \A q \in 1..(2 + l) : s[p + q] = Pieces(e)[q]
    BY <1>4, <1>8
  <2> HIDE DEF l
  <2>2. 1 \in 1..(2 + l) /\ 2 \in 1..(2 + l)
    BY <2>1
  <2> QED BY <2>1, <2>2
<1>10. ASSUME NEW q \in 1..Len(e.data) PROVE s[p + 2 + q] = e.data[q]
  <2> DEFINE l == Len(e.data)
  <2>1. l \in Nat /\ p \in Nat /\ q \in 1..l
    BY <1>4, <1>6, <1>10
  <2> HIDE DEF p, l
  <2>2. 2 + q \in 1..(2 + l) /\ p + (2 + q) = p + 2 + q
    BY <2>1
  <2>3. s[p + (2 + q)] = Pieces(e)[2 + q]
    BY <1>8, <2>2 DEF l
  <2> QED BY <1>4, <1>10, <2>2, <2>3
<1>11. EntryAt(s, p, e, D)
  BY <1>4, <1>5, <1>6, <1>9, <1>10 DEF EntryAt
<1> QED
  BY <1>5, <1>6, <1>11 DEF s, e

-----------------------------------------------------------------------------
(* Extracting an archive that was built                                    *)

\* Entries as append_file makes them, of paths that differ, with data of members of D.
Regular(es, D) ==
  /\ es \in Seq(EntryOf(D))
  /\ \A i \in 1..Len(es) :
       /\ es[i].name \in Names /\ es[i].mode \in Modes
       /\ es[i].mode = "dir" => es[i].data = <<>>
  /\ \A i, j \in 1..Len(es) : es[i].name = es[j].name => i = j

\* No entry is taken for the last one, as its length is 0 modulo Word, and no file
\* is so much shorter than its size that another header and name fit the gap.
Sound(es) ==
  \A i \in 1..Len(es) :
    /\ Length(Pieces(es[i])[1]) # 0
    /\ es[i].mode # "dir" => es[i].size < Len(es[i].data) + 2

IsExtraction(x) == x = [pos |-> x.pos, tree |-> x.tree, status |-> x.status]

\* The tree has exactly the files of the first n entries.
IsTree(t, es, n) ==
  /\ t = [m \in {es[i].name : i \in 1..n} |-> t[m]]
  /\ \A i \in 1..n : t[es[i].name] = [mode |-> es[i].mode, data |-> es[i].data]

\* An extraction after n entries has extracted them all, or stands where no header
\* is, and will see it, or has failed already.
OnTrack(x, f, es, n) == x.status = "more" /\ x.pos = Len(f[n]) /\ IsTree(x.tree, es, n)
Astray(x, s) ==
  /\ x.status = "more" /\ x.pos \in Nat /\ x.pos < Len(s)
  /\ s[x.pos + 1].k # "header"
Refused(x) == x.status \in {"bad", "short"}

After(x, f, s, es, n) ==
  IsExtraction(x) /\ (OnTrack(x, f, es, n) \/ Astray(x, s) \/ Refused(x))

\* Where no header is, the extraction fails.
LEMMA AstrayFails ==
  ASSUME NEW s, Len(s) \in Nat, NEW x, IsExtraction(x), Astray(x, s)
  PROVE  IsExtraction(Turn(s, x)) /\ Refused(Turn(s, x))
<1>1. Turn(s, x) = Bad(x)
  <2>1. Turn(s, x) = ExtractOne(s, x)
    BY DEF Turn, Astray
  <2>2. Len(s) - x.pos # 0
    BY DEF Astray
  <2> QED BY <2>1, <2>2 DEF ExtractOne, Astray
<1>2. Bad(x) = [pos |-> x.pos, tree |-> x.tree, status |-> "bad"]
  BY DEF Bad, IsExtraction
<1> QED
  BY <1>1, <1>2 DEF IsExtraction, Refused

LEMMA RegularEntry ==
  ASSUME NEW D, NEW es, Regular(es, D), Sound(es), NEW n \in 1..Len(es)
  PROVE  /\ es[n] \in EntryOf(D) /\ es[n].name \in Names /\ es[n].mode \in Modes
         /\ es[n].mode = "dir" => es[n].data = <<>>
         /\ Length(Pieces(es[n])[1]) # 0
         /\ es[n].mode # "dir" => es[n].size < Len(es[n].data) + 2
BY DEF Regular, Sound

\* all is the list of entries es with another one behind it.
Extends(all, es, D) ==
  /\ all \in Seq(EntryOf(D)) /\ Len(all) = Len(es) + 1
  /\ \A i \in 1..Len(es) : all[i] = es[i]

\* The turn at an entry that was built.
LEMMA EntryTurn ==
  ASSUME NEW D, \A u \in D : u.k \notin {"header", "name"},
         NEW es, Regular(es, D), Sound(es),
         NEW all, Extends(all, es, D), NEW f, Builds(f, all),
         NEW n \in 1..Len(es), NEW x, IsExtraction(x), OnTrack(x, f, es, n - 1)
  PROVE  After(Turn(Archive(all), x), f, Archive(all), es, n)
<1> DEFINE s == Archive(all)
           p == Len(f[n - 1])
           e == es[n]
           h == s[p + 1]
           y == Turn(s, x)
<1>0. SUFFICES After(y, f, s, es, n)
  OBVIOUS
<1>1. /\ es \in Seq(EntryOf(D)) /\ Len(es) \in Nat /\ n \in Nat
  BY DEF Regular
<1>2. /\ all \in Seq(EntryOf(D)) /\ Len(all) = Len(es) + 1 /\ n \in 1..Len(all)
      /\ all[n] = e /\ n + 1 \in 1..Len(all)
  BY <1>1 DEF Extends
<1>3. /\ e \in EntryOf(D) /\ e.name \in Names /\ e.mode \in Modes
      /\ e.mode = "dir" => e.data = <<>>
      /\ e.size \in Nat /\ e.data \in Seq(D) /\ Len(e.data) \in Nat
      /\ Length(Pieces(e)[1]) # 0
      /\ e.mode # "dir" => e.size < Len(e.data) + 2
  <2>1. e \in EntryOf(D)
    BY RegularEntry
  <2>2. e.name \in Names /\ e.mode \in Modes /\ (e.mode = "dir" => e.data = <<>>)
    BY RegularEntry
  <2>3. /\ Length(Pieces(e)[1]) # 0
        /\ e.mode # "dir" => e.size < Len(e.data) + 2
    BY RegularEntry
  <2> HIDE DEF e
  <2>4. e.size \in Nat /\ e.data \in Seq(D)
    BY <2>1 DEF EntryOf
  <2>5. Len(e.data) \in Nat
    BY <2>4
  <2> QED BY <2>1, <2>2, <2>3, <2>4, <2>5
<1> HIDE DEF e
<1>4. /\ s \in Seq(PieceOf(D)) /\ p \in Nat
      /\ h \in Headers /\ h = Pieces(e)[1] /\ h.mode = e.mode /\ h.size = e.size
      /\ s[p + 2] = [k |-> "name", name |-> e.name]
      /\ \A q \in 1..Len(e.data) : s[p + 2 + q] = e.data[q]
      /\ Len(f[n]) = p + 2 + Len(e.data)
      /\ Len(f[n]) <= Len(s)
  <2>1. all \in Seq(EntryOf(D)) /\ n \in 1..Len(all) /\ all[n] = e
    BY <1>2
  <2>2. EntryAt(s, p, e, D) /\ Len(f[n]) = p + 2 + Len(e.data) /\ Len(f[n]) <= Len(s)
    BY <2>1, EntryPieces
  <2> HIDE DEF s, p
  <2> QED BY <2>2 DEF EntryAt
<1>5. /\ Len(f[n]) + 2 <= Len(s)
      /\ s[Len(f[n]) + 2].k = "name"
  <2>1. (n + 1) - 1 = n
    BY <1>1
  <2>2. /\ s[Len(f[n]) + 2] = [k |-> "name", name |-> all[n + 1].name]
        /\ Len(f[n + 1]) = Len(f[n]) + 2 + Len(all[n + 1].data)
        /\ Len(f[n + 1]) <= Len(s) /\ Len(all[n + 1].data) \in Nat /\ Len(f[n]) \in Nat
    <3>1. ASSUME NEW i \in 1..Len(all)
          PROVE  /\ EntryAt(s, Len(f[i - 1]), all[i], D)
                 /\ Len(f[i]) = Len(f[i - 1]) + 2 + Len(all[i].data)
                 /\ Len(f[i]) <= Len(s)
      <4>1. all \in Seq(EntryOf(D))
        BY <1>2
      <4> QED BY <3>1, <4>1, EntryPieces
    <3>2. /\ EntryAt(s, Len(f[n]), all[n + 1], D)
          /\ Len(f[n + 1]) = Len(f[n]) + 2 + Len(all[n + 1].data)
          /\ Len(f[n + 1]) <= Len(s)
      BY <1>2, <2>1, <3>1
    <3> HIDE DEF s, p, h, y
    <3> QED BY <3>2 DEF EntryAt
  <2>3. Len(f[n]) + 2 <= Len(s)
    <3> DEFINE a == Len(f[n + 1])
               b == Len(f[n])
               c == Len(all[n + 1].data)
               l == Len(s)
    <3>1. a = b + 2 + c /\ a <= l /\ c \in Nat /\ b \in Nat
      BY <2>2
    <3>2. l \in Nat
      BY <1>4
    <3> HIDE DEF a, b, c, l
    <3>3. b + 2 <= l
      BY <3>1, <3>2
    <3> QED BY <3>3 DEF b, l
  <2>4. ([k |-> "name", name |-> all[n + 1].name]).k = "name"
    OBVIOUS
  <2>5. s[Len(f[n]) + 2].k = "name"
    <3>1. s[Len(f[n]) + 2] = [k |-> "name", name |-> all[n + 1].name]
      BY <2>2
    <3> HIDE DEF s
    <3> QED BY <3>1, <2>4
  <2> QED BY <2>3, <2>5
<1> HIDE DEF s, p, h
<1> DEFINE size == DataSize(h)
           data == SubSeq(s, p + 3, p + 2 + size)
           tree == [m \in DOMAIN x.tree \cup {e.name} |->
                      IF m = e.name THEN [mode |-> h.mode, data |-> data] ELSE x.tree[m]]
           z == [pos |-> p + 2 + size, tree |-> tree, status |-> "more"]
<1>6. size = IF e.mode = "dir" THEN 0 ELSE e.size
  BY <1>4 DEF DataSize
<1>7. \/ y = Bad(x)
      \/ y = Short(x)
      \/ Len(s) - p >= 2 + size /\ y = z
  <2>1. y = ExtractOne(s, x) /\ x.pos = p
    BY DEF Turn, OnTrack, p
  <2>2. Len(s) \in Nat /\ Len(f[n]) \in Nat /\ size \in Nat
    <3>1. Len(s) \in Nat
      BY <1>4
    <3>2. size \in Nat
      BY <1>3, <1>6
    <3>3. Len(f[n]) \in Nat
      <4> DEFINE d == Len(e.data)
      <4>1. Len(f[n]) = p + 2 + d /\ d \in Nat /\ p \in Nat
        BY <1>3, <1>4
      <4> HIDE DEF d
      <4> QED BY <4>1
    <3> QED BY <3>1, <3>2, <3>3
  <2>3. Len(s) - p # 0 /\ Len(s) - p # 1
    <3> DEFINE l == Len(s)
               m == Len(f[n])
               d == Len(e.data)
    <3>1. l \in Nat /\ d \in Nat /\ p \in Nat /\ m = p + 2 + d /\ m <= l
      BY <1>3, <1>4, <2>2
    <3> HIDE DEF l, m, d
    <3>2. l - p # 0 /\ l - p # 1
      BY <3>1
    <3> QED BY <3>2 DEF l
  <2>4. h.k = "header" /\ s[p + 2].k = "name" /\ s[p + 2].name = e.name
    BY <1>4 DEF Headers
  <2>5. e.name # Trailer
    BY <1>3, NamesAssumption
  <2>6. Length(h) # 0
    BY <1>3, <1>4
  <2>7. ExtractOne(s, x) =
          IF h.namesize > MaxName THEN Bad(x)
          ELSE IF ~ CanMake(x, e.name) THEN Bad(x)
          ELSE IF Len(s) - p < 2 + size THEN Short(x)
          ELSE z
    <3> HIDE DEF size
    <3> QED BY <2>1, <2>3, <2>4, <2>5, <2>6 DEF ExtractOne, h, size
  <2> HIDE DEF y, z, size
  <2>8. CASE Len(s) - p < 2 + size
    BY <2>1, <2>7, <2>8
  <2>9. CASE Len(s) - p >= 2 + size
    BY <2>1, <2>7, <2>9
  <2> QED BY <1>4, <2>2, <2>8, <2>9
<1> HIDE DEF y
<1>8. CASE y = Bad(x) \/ y = Short(x)
  <2>1. /\ Bad(x) = [pos |-> x.pos, tree |-> x.tree, status |-> "bad"]
        /\ Short(x) = [pos |-> x.pos, tree |-> x.tree, status |-> "short"]
    BY DEF Bad, Short, IsExtraction
  <2> QED BY <1>8, <2>1 DEF After, IsExtraction, Refused
<1>9. CASE Len(s) - p >= 2 + size /\ y = z
  <2>1. /\ IsExtraction(y) /\ y.status = "more" /\ y.pos = p + 2 + size /\ y.tree = tree
    <3> HIDE DEF size, tree
    <3> QED BY <1>9 DEF IsExtraction
  <2>2. CASE size = Len(e.data)
    <3>1. data = e.data
      <4>1. /\ data \in Seq(PieceOf(D)) /\ Len(data) = size
            /\ \A q \in 1..size : data[q] = s[p + 2 + q]
        <5> DEFINE a == p + 3
                   b == p + 2 + size
        <5>1. a \in 1..(Len(s) + 1) /\ b \in (a - 1)..Len(s) /\ size = b - a + 1
          <6> DEFINE l == Len(s)
          <6>1. l \in Nat /\ p \in Nat /\ size \in Nat /\ l - p >= 2 + size
            BY <1>3, <1>4, <1>9, <2>2
          <6> HIDE DEF l, size
          <6>2. a \in 1..(l + 1) /\ b \in (a - 1)..l /\ size = b - a + 1
            BY <6>1
          <6> QED BY <6>2 DEF l
        <5>2. \A q \in 1..size : a + q - 1 = p + 2 + q
          BY <1>4
        <5> HIDE DEF a, b, size
        <5>3. /\ SubSeq(s, a, b) \in Seq(PieceOf(D)) /\ Len(SubSeq(s, a, b)) = b - a + 1
              /\ \A q \in 1..(b - a + 1) : SubSeq(s, a, b)[q] = s[a + q - 1]
          BY <1>4, <5>1
        <5> QED BY <5>1, <5>2, <5>3 DEF a, b
      <4> HIDE DEF data, size
      <4>2. \A q \in 1..Len(e.data) : data[q] = e.data[q]
        BY <4>1, <1>4, <2>2
      <4> QED BY <4>1, <4>2, <1>3, <2>2
    <3>2. y.pos = Len(f[n])
      BY <1>4, <2>1, <2>2
    <3>3. IsTree(tree, es, n)
      <4>1. IsTree(x.tree, es, n - 1)
        BY DEF OnTrack
      <4>2. n - 1 \in Nat /\ 1..n = (1..(n - 1)) \cup {n} /\ n \notin 1..(n - 1)
        BY <1>1
      <4>3. DOMAIN x.tree = {es[i].name : i \in 1..(n - 1)}
        BY <4>1 DEF IsTree
      <4>4. \A i \in 1..(n - 1) : es[i].name # e.name
        BY <1>1, <4>2 DEF Regular, e
      <4>5. DOMAIN tree = {es[i].name : i \in 1..n}
        BY <4>2, <4>3 DEF e
      <4>6. tree[e.name] = [mode |-> e.mode, data |-> e.data]
        BY <3>1, <1>4
      <4>7. ASSUME NEW i \in 1..(n - 1)
            PROVE  tree[es[i].name] = [mode |-> es[i].mode, data |-> es[i].data]
        <5>1. es[i].name \in DOMAIN x.tree
          BY <4>3
        <5>2. tree[es[i].name] = x.tree[es[i].name]
          BY <5>1, <4>4
        <5> QED BY <4>1, <5>2 DEF IsTree
      <4>8. tree = [m \in DOMAIN tree |-> tree[m]]
        OBVIOUS
      <4> HIDE DEF tree
      <4> QED BY <4>2, <4>5, <4>6, <4>7, <4>8 DEF IsTree, e
    <3> QED BY <2>1, <3>2, <3>3 DEF After, OnTrack
  <2>3. CASE size # Len(e.data)
    <3>1. size \in Nat /\ size < Len(e.data) + 2
      BY <1>3, <1>6, <2>3
    <3> DEFINE d == Len(e.data)
               l == Len(s)
               m == Len(f[n])
    <3>2. /\ d \in Nat /\ l \in Nat /\ p \in Nat /\ m = p + 2 + d /\ m + 2 <= l
          /\ size \in Nat /\ size # d /\ size < d + 2
      <4>1. d \in Nat /\ p \in Nat /\ m = p + 2 + d
        BY <1>3, <1>4
      <4>2. l \in Nat
        BY <1>4
      <4>3. m + 2 <= l
        BY <1>5
      <4> HIDE DEF d, l, m, size
      <4> QED BY <4>1, <4>2, <4>3, <2>3, <3>1 DEF d
    <3>3. CASE size < d
      <4>1. size + 1 \in 1..d /\ p + 2 + size + 1 = p + 2 + (size + 1) /\ p + 2 + size < l
            /\ p + 2 + size \in Nat
        <5> HIDE DEF d, l, m, size
        <5> QED BY <3>2, <3>3
      <4>2. s[p + 2 + size + 1] = e.data[size + 1] /\ e.data[size + 1] \in D
        <5>1. s[p + 2 + (size + 1)] = e.data[size + 1]
          <6>1. \A q \in 1..d : s[p + 2 + q] = e.data[q]
            BY <1>4
          <6> HIDE DEF d, size
          <6> QED BY <6>1, <4>1
        <5>2. e.data[size + 1] \in D
          <6> HIDE DEF size
          <6> QED BY <1>3, <4>1
        <5> HIDE DEF size
        <5> QED BY <5>1, <5>2, <4>1
      <4> HIDE DEF size
      <4> QED BY <2>1, <4>1, <4>2 DEF After, Astray
    <3>4. CASE size = d + 1
      <4>1. p + 2 + size + 1 = m + 2 /\ p + 2 + size < l /\ p + 2 + size \in Nat
        <5> HIDE DEF d, l, m, size
        <5> QED BY <3>2, <3>4
      <4>2. s[p + 2 + size + 1].k = "name"
        BY <1>5, <4>1
      <4> HIDE DEF size
      <4> QED BY <2>1, <4>1, <4>2 DEF After, Astray
    <3> HIDE DEF d, l, m, size
    <3> QED BY <3>2, <3>3, <3>4
  <2> QED BY <2>2, <2>3
<1> QED
  BY <1>7, <1>8, <1>9

\* The turn at the trailer.
LEMMA TrailerTurn ==
  ASSUME NEW D, NEW es, Regular(es, D), NEW all, Extends(all, es, D),
         all[Len(es) + 1] = TrailerEntry, NEW f, Builds(f, all),
         NEW x, IsExtraction(x), OnTrack(x, f, es, Len(es))
  PROVE  \/ Refused(Turn(Archive(all), x))
         \/ /\ Turn(Archive(all), x).status = "done"
            /\ Turn(Archive(all), x).tree = x.tree
<1> DEFINE s == Archive(all)
           N == Len(es)
           p == Len(f[N])
           h == s[p + 1]
<1>1. /\ all \in Seq(EntryOf(D)) /\ N \in Nat /\ N + 1 \in 1..Len(all) /\ (N + 1) - 1 = N
  BY DEF Extends, Regular
<1>2. ASSUME NEW i \in 1..Len(all)
      PROVE  /\ EntryAt(s, Len(f[i - 1]), all[i], D)
             /\ Len(f[i]) = Len(f[i - 1]) + 2 + Len(all[i].data)
             /\ Len(f[i]) <= Len(s)
  BY <1>1, <1>2, EntryPieces
<1>3. /\ EntryAt(s, p, TrailerEntry, D)
      /\ Len(f[N + 1]) = p + 2 + Len(TrailerEntry.data)
      /\ Len(f[N + 1]) <= Len(s)
  <2> HIDE DEF s
  <2> QED BY <1>1, <1>2
<1>4. TrailerEntry.data = <<>> /\ TrailerEntry.name = Trailer
  BY DEF TrailerEntry, Entry
<1>5. /\ s \in Seq(PieceOf(D)) /\ p \in Nat /\ h \in Headers
      /\ s[p + 2] = [k |-> "name", name |-> Trailer]
  <2> HIDE DEF s, p
  <2> QED BY <1>3, <1>4 DEF EntryAt
<1>6. Len(s) - p # 0 /\ Len(s) - p # 1
  <2> DEFINE l == Len(s)
             m == Len(f[N + 1])
  <2>1. l \in Nat /\ p \in Nat /\ m = p + 2 + 0 /\ m <= l
    BY <1>3, <1>4, <1>5
  <2> HIDE DEF l, m, p
  <2>2. l - p # 0 /\ l - p # 1
    BY <2>1
  <2> QED BY <2>2 DEF l
<1>7. Turn(s, x) = ExtractOne(s, x) /\ x.pos = p
  BY DEF Turn, OnTrack
<1>8. h.k = "header" /\ s[p + 2].k = "name" /\ s[p + 2].name = Trailer
  BY <1>5 DEF Headers
<1> HIDE DEF s, p
<1>9. ExtractOne(s, x) = IF h.namesize > MaxName THEN Bad(x)
                         ELSE [pos |-> p + 2, tree |-> x.tree, status |-> "done"]
  BY <1>6, <1>7, <1>8 DEF ExtractOne
<1>10. Bad(x) = [pos |-> x.pos, tree |-> x.tree, status |-> "bad"]
  BY DEF Bad, IsExtraction
<1>11. Refused(Turn(s, x)) \/ (Turn(s, x).status = "done" /\ Turn(s, x).tree = x.tree)
  BY <1>7, <1>9, <1>10 DEF Refused
<1> QED
  BY <1>11 DEF s

\* An extraction that ends well has made exactly the files of the entries.
THEOREM ExtractedAreEntries ==
  ASSUME NEW D, \A u \in D : u.k \notin {"header", "name"},
         NEW es, Regular(es, D), Sound(es),
         NEW all, Extends(all, es, D), all[Len(es) + 1] = TrailerEntry,
         Extract(Archive(all)).status = "done"
  PROVE  IsTree(Extract(Archive(all)).tree, es, Len(es))
<1> DEFINE s == Archive(all)
           N == Len(es)
<1>1. all \in Seq(EntryOf(D)) /\ N \in Nat /\ Len(all) = N + 1
  BY DEF Extends, Regular
<1>2. PICK f : Builds(f, all)
  BY <1>1, ArchiveBuilds
<1>3. /\ s \in Seq(PieceOf(D)) /\ Len(s) \in Nat /\ N + 1 \in 0..Len(s)
  <2>1. s = f[N + 1] /\ N + 1 \in 0..Len(all)
    BY <1>1, <1>2 DEF Builds
  <2>2. f[N + 1] \in Seq(PieceOf(D)) /\ Len(f[N + 1]) >= 2 * (N + 1)
    BY <1>1, <1>2, <2>1, ArchivePrefix
  <2>3. Len(s) \in Nat /\ Len(s) >= 2 * (N + 1)
    BY <2>1, <2>2
  <2> HIDE DEF s, N
  <2> QED BY <1>1, <2>1, <2>2, <2>3
<1>4. PICK x : /\ x[0] = Fresh
               /\ \A n \in 0..Len(s) : x[n + 1] = Turn(s, x[n])
               /\ Extract(s) = x[Len(s) + 1]
  BY <1>3, ExtractTurns
<1> HIDE DEF s, N
<1>5. \A n \in 0..N : After(x[n], f, s, es, n)
  <2> DEFINE S == {n \in Nat : n <= N => After(x[n], f, s, es, n)}
  <2>1. 0 \in S
    <3>1. IsExtraction(Fresh) /\ Fresh.status = "more" /\ Fresh.pos = 0
          /\ Fresh.tree = [m \in {} |-> 0]
      BY DEF Fresh, IsExtraction
    <3>2. f[0] = <<>>
      BY <1>2 DEF Builds
    <3>3. IsTree(Fresh.tree, es, 0)
      <4>1. {es[i].name : i \in 1..0} = {}
        OBVIOUS
      <4> QED BY <3>1, <4>1 DEF IsTree
    <3> QED BY <1>4, <3>1, <3>2, <3>3 DEF After, OnTrack
  <2>2. ASSUME NEW n \in S \cap Nat PROVE n + 1 \in S
    <3>1. SUFFICES ASSUME n + 1 <= N PROVE After(x[n + 1], f, s, es, n + 1)
      OBVIOUS
    <3> HIDE DEF S
    <3>2. n \in 0..Len(s) /\ n + 1 \in 1..N /\ (n + 1) - 1 = n
      BY <1>1, <1>3, <3>1
    <3>3. After(x[n], f, s, es, n) /\ x[n + 1] = Turn(s, x[n])
      BY <1>1, <1>4, <3>1, <3>2 DEF S
    <3>4. CASE OnTrack(x[n], f, es, n)
      <4>1. ASSUME NEW m \in 1..N, OnTrack(x[n], f, es, m - 1)
            PROVE  After(Turn(s, x[n]), f, s, es, m)
        BY <1>2, <3>3, <4>1, EntryTurn DEF s, N, After
      <4> QED BY <3>2, <3>3, <3>4, <4>1
    <3>5. CASE Astray(x[n], s)
      BY <1>3, <3>3, <3>5, AstrayFails DEF After
    <3>6. CASE Refused(x[n])
      <4>1. Turn(s, x[n]) = x[n]
        BY <3>6 DEF Turn, Refused
      <4> QED BY <3>3, <3>6, <4>1 DEF After
    <3> QED BY <3>3, <3>4, <3>5, <3>6 DEF After
  <2>3. Nat \subseteq S
    <3> HIDE DEF S
    <3> QED BY <2>1, <2>2, NatSetInduction
  <2> QED BY <1>1, <2>3
<1> DEFINE y == x[N + 1]
<1>6. Refused(y) \/ (y.status = "done" /\ IsTree(y.tree, es, N))
  <2>1. N \in 0..N /\ N \in 0..Len(s)
    BY <1>1, <1>3
  <2>2. After(x[N], f, s, es, N) /\ y = Turn(s, x[N])
    BY <1>4, <1>5, <2>1
  <2>3. CASE OnTrack(x[N], f, es, N)
    <3>1. Refused(Turn(s, x[N]))
          \/ (Turn(s, x[N]).status = "done" /\ Turn(s, x[N]).tree = x[N].tree)
      BY <1>2, <2>2, <2>3, TrailerTurn DEF s, N, After
    <3> QED BY <2>2, <2>3, <3>1 DEF OnTrack
  <2>4. CASE Astray(x[N], s)
    BY <1>3, <2>2, <2>4, AstrayFails DEF After
  <2>5. CASE Refused(x[N])
    <3>1. Turn(s, x[N]) = x[N]
      BY <2>5 DEF Turn, Refused
    <3> QED BY <2>2, <2>5, <3>1
  <2> QED BY <2>2, <2>3, <2>4, <2>5 DEF After
<1>7. x[Len(s) + 1] = y
  <2> HIDE DEF y
  <2> DEFINE S == {n \in Nat : N + 1 + n <= Len(s) + 1 => x[N + 1 + n] = y}
  <2>1. 0 \in S
    BY <1>1 DEF y
  <2>2. ASSUME NEW n \in S \cap Nat PROVE n + 1 \in S
    <3>1. SUFFICES ASSUME N + 1 + (n + 1) <= Len(s) + 1 PROVE x[N + 1 + (n + 1)] = y
      OBVIOUS
    <3> HIDE DEF S
    <3>2. /\ N + 1 + n \in 0..Len(s) /\ N + 1 + (n + 1) = (N + 1 + n) + 1
          /\ N + 1 + n <= Len(s) + 1
      <4> DEFINE l == Len(s)
      <4>1. l \in Nat /\ N \in Nat /\ n \in Nat /\ N + 1 + (n + 1) <= l + 1
        BY <1>1, <1>3, <3>1
      <4> HIDE DEF l
      <4> QED BY <4>1 DEF l
    <3>3. x[N + 1 + n] = y
      BY <3>2 DEF S
    <3>4. Turn(s, y) = y
      BY <1>6 DEF Turn, Refused
    <3> QED BY <1>4, <3>2, <3>3, <3>4
  <2>3. Nat \subseteq S
    <3> HIDE DEF S
    <3> QED BY <2>1, <2>2, NatSetInduction
  <2>4. PICK n \in Nat : N + 1 + n = Len(s) + 1
    <3>1. Len(s) - N \in Nat /\ N + 1 + (Len(s) - N) = Len(s) + 1
      BY <1>1, <1>3
    <3> QED BY <3>1
  <2> QED BY <1>3, <2>3, <2>4
<1>8. y = Extract(s) /\ y.status = "done"
  BY <1>4, <1>7 DEF s
<1> QED
  BY <1>6, <1>8 DEF Refused, s, N

-----------------------------------------------------------------------------
(* Good archives                                                           *)

\* Entries the extractor has no reason to refuse: sizes that were not stale, names it
\* has room for, directories before what is in them.
Fits(es) ==
  \A i \in 1..Len(es) :
    /\ Length(Pieces(es[i])[1]) # 0
    /\ es[i].mode # "dir" => es[i].size = Len(es[i].data)
    /\ NameSize[es[i].name] <= MaxName
    /\ Parent[es[i].name] = Root \/ \E j \in 1..(i - 1) : es[j].name = Parent[es[i].name]

FitsEntry(e, D) ==
  /\ e \in EntryOf(D) /\ e.name \in Names
  /\ e.mode = "dir" => e.data = <<>>
  /\ e.mode # "dir" => e.size = Len(e.data)
  /\ NameSize[e.name] <= MaxName /\ Length(Pieces(e)[1]) # 0

\* The extraction goes on at piece p, not beyond the m that have come.
GoesOn(x, p, m) == IsExtraction(x) /\ x.status = "more" /\ x.pos = p /\ p <= m

\* Extraction y has taken the entry e at p that x stood at, or waits for the rest of it.
Takes(x, y, e, p, m) ==
  \/ m < p + 2 + Len(e.data) /\ y.status = "short"
  \/ GoesOn(y, p + 2 + Len(e.data), m) /\ DOMAIN y.tree = DOMAIN x.tree \cup {e.name}

Turns(s, x, l) == \A n \in 0..l : x[n + 1] = Turn(s, x[n])

\* What has come of an archive: its first m pieces.
LEMMA OpeningFacts ==
  ASSUME NEW P, NEW a \in Seq(P), NEW m \in 0..Len(a)
  PROVE  /\ SubSeq(a, 1, m) \in Seq(P) /\ Len(SubSeq(a, 1, m)) = m
         /\ \A q \in 1..m : SubSeq(a, 1, m)[q] = a[q]
OBVIOUS

LEMMA OpeningOfAll ==
  ASSUME NEW P, NEW a \in Seq(P)
  PROVE  SubSeq(a, 1, Len(a)) = a
OBVIOUS

\* The turn at an entry that fits takes it, or waits for the rest of it.
LEMMA GoodTurn ==
  ASSUME NEW D, NEW e, FitsEntry(e, D),
         NEW a, NEW p \in Nat, EntryAt(a, p, e, D), NEW m \in 0..Len(a),
         NEW x, GoesOn(x, p, m), CanMake(x, e.name)
  PROVE  Takes(x, Turn(SubSeq(a, 1, m), x), e, p, m)
<1> USE DEF FitsEntry, GoesOn
<1> DEFINE y == Turn(SubSeq(a, 1, m), x)
<1> SUFFICES \/ m < p + 2 + Len(e.data) /\ y.status = "short"
             \/ /\ p + 2 + Len(e.data) <= m
                /\ IsExtraction(y) /\ y.status = "more" /\ y.pos = p + 2 + Len(e.data)
                /\ DOMAIN y.tree = DOMAIN x.tree \cup {e.name}
  BY DEF Takes
<1> DEFINE s == SubSeq(a, 1, m)
           h == s[p + 1]
           d == Len(e.data)
           n == DataSize(h)
           data == SubSeq(s, p + 3, p + 2 + n)
           tree == [q \in DOMAIN x.tree \cup {e.name} |->
                      IF q = e.name THEN [mode |-> h.mode, data |-> data] ELSE x.tree[q]]
           z == [pos |-> p + 2 + n, tree |-> tree, status |-> "more"]
<1>1. /\ a \in Seq(PieceOf(D)) /\ d \in Nat
      /\ a[p + 1] \in Headers /\ a[p + 1] = Pieces(e)[1]
      /\ a[p + 1].mode = e.mode /\ a[p + 1].size = e.size
      /\ a[p + 2] = [k |-> "name", name |-> e.name]
  BY DEF EntryAt
<1>2. Len(s) = m /\ m \in Nat /\ \A q \in 1..m : s[q] = a[q]
  BY <1>1, OpeningFacts
<1>3. y = ExtractOne(s, x)
  BY DEF Turn
<1> HIDE DEF y
<1>4. Short(x).status = "short"
  BY DEF Short, IsExtraction
<1> HIDE DEF s
<1>5. CASE m = p
  <2>1. Len(s) - x.pos = 0 /\ m < p + 2 + d
    <3> HIDE DEF d
    <3> QED BY <1>1, <1>2, <1>5
  <2>2. y = Short(x)
    BY <1>3, <2>1 DEF ExtractOne
  <2> QED BY <1>4, <2>1, <2>2
<1>6. CASE m # p
  <2>1. p + 1 \in 1..m /\ Len(s) - x.pos # 0
    BY <1>2, <1>6
  <2>2. h = a[p + 1]
    BY <1>2, <2>1
  <2>3. h.k = "header" /\ h.namesize = NameSize[e.name]
    <3>1. Pieces(e)[1].namesize = NameSize[e.name]
      <4>1. e.data \in Seq(D)
        BY DEF EntryOf
      <4>2. Pieces(e)[1] = [k |-> "header", mode |-> e.mode, size |-> e.size,
                            namesize |-> IF e.name = Trailer THEN 1 ELSE NameSize[e.name]]
        BY <4>1 DEF Pieces
      <4>3. e.name # Trailer
        BY NamesAssumption
      <4> QED BY <4>2, <4>3
    <3>2. h.k = "header"
      BY <1>1, <2>2 DEF Headers
    <3> QED BY <1>1, <2>2, <3>1, <3>2
  <2>4. ~ (h.namesize > MaxName)
    BY <2>3, NamesAssumption
  <2>5. n = d
    <3>1. CASE e.mode = "dir"
      BY <1>1, <2>2, <3>1 DEF DataSize
    <3>2. CASE e.mode # "dir"
      BY <1>1, <2>2, <3>2 DEF DataSize
    <3> QED BY <3>1, <3>2
  <2>6. Length(h) # 0
    BY <1>1, <2>2
  <2> HIDE DEF h, d, n
  <2>7. CASE m = p + 1
    <3>1. Len(s) - x.pos = 1 /\ m < p + 2 + d
      BY <1>1, <1>2, <2>7
    <3>2. y = Short(x)
      BY <1>3, <2>1, <2>3, <2>4, <3>1 DEF ExtractOne, h
    <3> QED BY <1>4, <3>1, <3>2 DEF d
  <2>8. CASE m # p + 1
    <3>1. p + 2 \in 1..m /\ Len(s) - x.pos # 1
      BY <1>2, <1>6, <2>8
    <3>2. s[p + 2].k = "name" /\ s[p + 2].name = e.name
      BY <1>1, <1>2, <3>1
    <3>3. e.name # Trailer
      BY NamesAssumption
    <3> HIDE DEF z
    <3>4. y = IF Len(s) - p < 2 + n THEN Short(x) ELSE z
      BY <1>3, <2>1, <2>3, <2>4, <2>6, <3>1, <3>2, <3>3 DEF ExtractOne, h, n, z
    <3>5. CASE Len(s) - p < 2 + n
      <4>1. m < p + 2 + d
        BY <1>1, <1>2, <2>5, <3>5
      <4> QED BY <1>4, <3>4, <3>5, <4>1 DEF d
    <3>6. CASE ~ (Len(s) - p < 2 + n)
      <4>1. p + 2 + d <= m
        BY <1>1, <1>2, <2>5, <3>6
      <4>2. y = [pos |-> p + 2 + n, tree |-> tree, status |-> "more"]
        BY <3>4, <3>6 DEF z
      <4>3. DOMAIN tree = DOMAIN x.tree \cup {e.name}
        OBVIOUS
      <4> HIDE DEF tree
      <4>4. IsExtraction(y) /\ y.status = "more" /\ y.pos = p + 2 + d /\ y.tree = tree
        BY <2>5, <4>2 DEF IsExtraction
      <4> QED BY <4>1, <4>3, <4>4 DEF d
    <3> QED BY <3>5, <3>6
  <2> QED BY <2>7, <2>8
<1> QED
  BY <1>5, <1>6

\* The turn at the trailer ends the extraction, or waits for the rest of it.
LEMMA GoodTrailerTurn ==
  ASSUME NEW D, MaxName > 0, NEW a, NEW p \in Nat, EntryAt(a, p, TrailerEntry, D),
         NEW m \in 0..Len(a), p <= m,
         NEW x, IsExtraction(x), x.status = "more", x.pos = p,
         NEW y, y = Turn(SubSeq(a, 1, m), x)
  PROVE  \/ m < p + 2 /\ y.status = "short"
         \/ p + 2 <= m /\ y.status = "done"
<1> DEFINE s == SubSeq(a, 1, m)
           h == s[p + 1]
<1>1. /\ a \in Seq(PieceOf(D))
      /\ a[p + 1] \in Headers /\ a[p + 1] = Pieces(TrailerEntry)[1]
      /\ a[p + 2] = [k |-> "name", name |-> Trailer]
  BY DEF EntryAt, TrailerEntry, Entry
<1>2. Len(s) = m /\ m \in Nat /\ \A q \in 1..m : s[q] = a[q]
  BY <1>1, OpeningFacts
<1>3. y = ExtractOne(s, x)
  BY DEF Turn
<1>4. Short(x).status = "short"
  BY DEF Short, IsExtraction
<1> HIDE DEF s
<1>5. CASE m = p
  <2>1. Len(s) - x.pos = 0 /\ m < p + 2
    BY <1>2, <1>5
  <2>2. y = Short(x)
    BY <1>3, <2>1 DEF ExtractOne
  <2> QED BY <1>4, <2>1, <2>2
<1>6. CASE m # p
  <2>1. p + 1 \in 1..m /\ Len(s) - x.pos # 0
    BY <1>2, <1>6
  <2>2. h = a[p + 1]
    BY <1>2, <2>1
  <2>3. h.k = "header" /\ h.namesize = 1
    <3>1. Pieces(TrailerEntry)[1].namesize = 1
      BY DEF Pieces, TrailerEntry, Entry
    <3>2. h.k = "header"
      BY <1>1, <2>2 DEF Headers
    <3> QED BY <1>1, <2>2, <3>1, <3>2
  <2>4. ~ (h.namesize > MaxName)
    BY <2>3, NamesAssumption
  <2> HIDE DEF h
  <2>5. CASE m = p + 1
    <3>1. Len(s) - x.pos = 1 /\ m < p + 2
      BY <1>2, <2>5
    <3>2. y = Short(x)
      BY <1>3, <2>1, <2>3, <2>4, <3>1 DEF ExtractOne, h
    <3> QED BY <1>4, <3>1, <3>2
  <2>6. CASE m # p + 1
    <3>1. p + 2 \in 1..m /\ Len(s) - x.pos # 1 /\ p + 2 <= m
      BY <1>2, <1>6, <2>6
    <3>2. s[p + 2].k = "name" /\ s[p + 2].name = Trailer
      BY <1>1, <1>2, <3>1
    <3>3. y = [pos |-> x.pos + 2, tree |-> x.tree, status |-> "done"]
      BY <1>3, <2>1, <2>3, <2>4, <3>1, <3>2 DEF ExtractOne, h
    <3> QED BY <3>1, <3>3
  <2> QED BY <2>5, <2>6
<1> QED
  BY <1>5, <1>6

\* An extraction that has ended stays as it is in the turns that are left.
LEMMA EndedStays ==
  ASSUME NEW s, NEW l \in Nat, NEW x, Turns(s, x, l), NEW k \in 0..(l + 1),
         x[k].status # "more"
  PROVE  x[l + 1] = x[k]
<1> USE DEF Turns
<1> DEFINE S == {n \in Nat : k + n <= l + 1 => x[k + n] = x[k]}
<1>1. 0 \in S
  OBVIOUS
<1>2. ASSUME NEW n \in S \cap Nat PROVE n + 1 \in S
  <2>1. SUFFICES ASSUME k + (n + 1) <= l + 1 PROVE x[k + (n + 1)] = x[k]
    OBVIOUS
  <2>2. k + n \in 0..l /\ k + (n + 1) = (k + n) + 1 /\ k + n <= l + 1
    BY <2>1
  <2>3. x[k + n] = x[k]
    BY <2>2
  <2>4. x[k + (n + 1)] = Turn(s, x[k + n])
    BY <2>2
  <2> QED BY <2>3, <2>4 DEF Turn
<1>3. Nat \subseteq S
  <2> HIDE DEF S
  <2> QED BY <1>1, <1>2, NatSetInduction
<1>4. l + 1 - k \in Nat /\ k + (l + 1 - k) = l + 1
  OBVIOUS
<1> QED
  BY <1>3, <1>4

\* The launcher extracts a good archive to its end, and refuses no part of it that has
\* come so far: it waits for the rest.
THEOREM GoodArchivesExtract ==
  ASSUME NEW D, NEW es, Regular(es, D), Fits(es), MaxName > 0,
         NEW all, Extends(all, es, D), all[Len(es) + 1] = TrailerEntry,
         NEW m \in 0..Len(Archive(all))
  PROVE  Extract(SubSeq(Archive(all), 1, m)).status
           = IF m < Len(Archive(all)) THEN "short" ELSE "done"
<1> DEFINE a == Archive(all)
           N == Len(es)
           s == SubSeq(a, 1, m)
<1>1. es \in Seq(EntryOf(D)) /\ all \in Seq(EntryOf(D)) /\ N \in Nat /\ Len(all) = N + 1
      /\ \A i \in 1..N : all[i] = es[i]
  BY DEF Extends, Regular
<1>2. PICK f : Builds(f, all)
  BY <1>1, ArchiveBuilds
<1>3. a \in Seq(PieceOf(D)) /\ Len(a) \in Nat
  <2>1. a = f[N + 1] /\ N + 1 \in 0..Len(all)
    BY <1>1, <1>2 DEF Builds
  <2>2. f[N + 1] \in Seq(PieceOf(D))
    BY <1>1, <1>2, <2>1, ArchivePrefix
  <2> HIDE DEF a, N
  <2> QED BY <2>1, <2>2
<1>4. Len(s) = m /\ m \in Nat /\ m <= Len(a)
  <2>1. m \in 0..Len(a)
    OBVIOUS
  <2> HIDE DEF a
  <2> QED BY <1>3, <2>1, OpeningFacts
<1>5. ASSUME NEW i \in 1..(N + 1)
      PROVE  /\ EntryAt(a, Len(f[i - 1]), all[i], D)
             /\ Len(f[i]) = Len(f[i - 1]) + 2 + Len(all[i].data)
  <2>1. i \in 1..Len(all)
    BY <1>1
  <2> QED BY <1>1, <1>2, <2>1, EntryPieces
<1>6. \A i \in 0..(N + 1) : Len(f[i]) \in Nat /\ Len(f[i]) >= 2 * i
  <2>1. ASSUME NEW i \in 0..Len(all)
        PROVE  f[i] \in Seq(PieceOf(D)) /\ Len(f[i]) >= 2 * i
    BY <1>1, <1>2, ArchivePrefix
  <2> QED BY <1>1, <2>1
<1>7. a = f[N + 1]
  BY <1>1, <1>2 DEF Builds
<1>8. PICK x : /\ x[0] = Fresh
               /\ \A n \in 0..Len(s) : x[n + 1] = Turn(s, x[n])
               /\ Extract(s) = x[Len(s) + 1]
  <2> HIDE DEF s
  <2> QED BY <1>4, ExtractTurns
<1>9. /\ x[0] = Fresh /\ Extract(s) = x[m + 1]
      /\ \A n \in 0..m : x[n + 1] = Turn(s, x[n])
  BY <1>4, <1>8
<1> DEFINE Going(n) == /\ IsExtraction(x[n]) /\ x[n].status = "more"
                       /\ x[n].pos = Len(f[n]) /\ Len(f[n]) <= m
                       /\ DOMAIN x[n].tree = {es[i].name : i \in 1..n}
           Waits(n) == x[n].status = "short" /\ m < Len(f[n])
<1> HIDE DEF a, s, N
<1>10. ASSUME NEW n \in Nat, n + 1 <= N, n <= m, Going(n)
       PROVE  Going(n + 1) \/ Waits(n + 1)
  <2> DEFINE e == es[n + 1]
             p == Len(f[n])
  <2>1. n + 1 \in 1..N /\ n + 1 \in 1..(N + 1) /\ (n + 1) - 1 = n /\ n \in 0..m
        /\ 1..(n + 1) = (1..n) \cup {n + 1} /\ n \in 0..(N + 1)
    BY <1>1, <1>4, <1>10
  <2>2. /\ e \in EntryOf(D) /\ e.name \in Names
        /\ e.mode = "dir" => e.data = <<>>
    BY <2>1 DEF Regular, N
  <2>3. /\ Length(Pieces(e)[1]) # 0
        /\ e.mode # "dir" => e.size = Len(e.data)
        /\ NameSize[e.name] <= MaxName
        /\ Parent[e.name] = Root \/ \E j \in 1..n : es[j].name = Parent[e.name]
    BY <2>1 DEF Fits, N
  <2>4. EntryAt(a, p, e, D) /\ Len(f[n + 1]) = p + 2 + Len(e.data) /\ p \in Nat
    <3>1. /\ EntryAt(a, Len(f[(n + 1) - 1]), all[n + 1], D)
          /\ Len(f[n + 1]) = Len(f[(n + 1) - 1]) + 2 + Len(all[n + 1].data)
      BY <1>5, <2>1
    <3> QED BY <1>1, <1>6, <2>1, <3>1
  <2>5. CanMake(x[n], e.name)
    <3>1. CASE Parent[e.name] = Root
      BY <3>1 DEF CanMake
    <3>2. CASE \E j \in 1..n : es[j].name = Parent[e.name]
      BY <1>10, <3>2 DEF CanMake
    <3> QED BY <2>3, <3>1, <3>2
  <2>6. x[n + 1] = Turn(SubSeq(a, 1, m), x[n])
    BY <1>9, <2>1 DEF s
  <2>7. m \in 0..Len(a) /\ p <= m /\ IsExtraction(x[n]) /\ x[n].status = "more" /\ x[n].pos = p
    BY <1>3, <1>4, <1>10
  <2> HIDE DEF e, p
  <2>8. \/ m < p + 2 + Len(e.data) /\ x[n + 1].status = "short"
        \/ /\ p + 2 + Len(e.data) <= m
           /\ IsExtraction(x[n + 1]) /\ x[n + 1].status = "more"
           /\ x[n + 1].pos = p + 2 + Len(e.data)
           /\ DOMAIN x[n + 1].tree = DOMAIN x[n].tree \cup {e.name}
    <3>1. FitsEntry(e, D)
      BY <2>2, <2>3 DEF FitsEntry
    <3>2. GoesOn(x[n], p, m)
      BY <2>7 DEF GoesOn
    <3>3. Takes(x[n], Turn(SubSeq(a, 1, m), x[n]), e, p, m)
      BY <2>4, <2>5, <2>7, <3>1, <3>2, GoodTurn
    <3> QED BY <2>6, <3>3 DEF Takes, GoesOn
  <2>9. {es[i].name : i \in 1..(n + 1)} = {es[i].name : i \in 1..n} \cup {e.name}
    BY <2>1 DEF e
  <2> QED BY <1>10, <2>4, <2>8, <2>9
<1>11. \A n \in Nat : n <= N /\ n <= m + 1 => Going(n) \/ \E k \in 0..n : Waits(k)
  <2> DEFINE S == {n \in Nat : n <= N /\ n <= m + 1 => Going(n) \/ \E k \in 0..n : Waits(k)}
  <2>1. 0 \in S
    <3>1. IsExtraction(Fresh) /\ Fresh.status = "more" /\ Fresh.pos = 0 /\ DOMAIN Fresh.tree = {}
      BY DEF Fresh, IsExtraction
    <3>2. Len(f[0]) = 0
      BY <1>2 DEF Builds
    <3>3. {es[i].name : i \in 1..0} = {}
      OBVIOUS
    <3> QED BY <1>4, <1>9, <3>1, <3>2, <3>3
  <2>2. ASSUME NEW n \in S \cap Nat PROVE n + 1 \in S
    <3>1. SUFFICES ASSUME n + 1 <= N, n + 1 <= m + 1
                   PROVE  Going(n + 1) \/ \E k \in 0..(n + 1) : Waits(k)
      OBVIOUS
    <3>2. n <= N /\ n <= m + 1 /\ n <= m /\ n + 1 \in 0..(n + 1) /\ \A k \in 0..n : k \in 0..(n + 1)
      BY <1>1, <1>4, <3>1
    <3>3. Going(n) \/ \E k \in 0..n : Waits(k)
      BY <3>2
    <3> HIDE DEF S
    <3>4. CASE Going(n)
      <4>1. Going(n + 1) \/ Waits(n + 1)
        <5> HIDE DEF Going, Waits
        <5> QED BY <1>10, <3>1, <3>2, <3>4
      <4> HIDE DEF Going, Waits
      <4> QED BY <3>2, <4>1
    <3>5. CASE \E k \in 0..n : Waits(k)
      <4> HIDE DEF Going, Waits
      <4> QED BY <3>2, <3>5
    <3> QED BY <3>3, <3>4, <3>5
  <2>3. Nat \subseteq S
    <3> HIDE DEF S
    <3> QED BY <2>1, <2>2, NatSetInduction
  <2> HIDE DEF Going, Waits
  <2> QED BY <2>3
<1>12. \A i \in 0..(N + 1) : Len(f[i]) <= Len(a)
  <2>1. ASSUME NEW i \in 0..Len(all) PROVE Len(f[i]) <= Len(f[Len(all)])
    <3>1. Len(all) \in 0..Len(all) /\ i \in 0..Len(all)
      BY <1>1
    <3> QED BY <1>1, <1>2, <3>1, ArchivePrefix
  <2> QED BY <1>1, <1>7, <2>1
<1>13. CASE \E k \in 0..(m + 1) : k <= N /\ Waits(k)
  <2>1. PICK k \in 0..(m + 1) : k <= N /\ Waits(k)
    BY <1>13
  <2>2. x[m + 1] = x[k]
    <3>1. x[k].status # "more" /\ k \in 0..(m + 1)
      BY <2>1
    <3> HIDE DEF Waits, Going
    <3>2. Turns(s, x, m)
      BY <1>9 DEF Turns
    <3> QED BY <1>4, <3>1, <3>2, EndedStays
  <2>3. m < Len(a)
    <3>1. k \in 0..(N + 1)
      BY <1>1, <2>1
    <3>2. m < Len(f[k]) /\ Len(f[k]) <= Len(a) /\ Len(f[k]) \in Nat
      BY <1>6, <1>12, <2>1, <3>1
    <3> QED BY <1>3, <1>4, <3>2
  <2> QED BY <1>9, <2>1, <2>2, <2>3 DEF a, s
<1>14. CASE N <= m + 1 /\ Going(N)
  <2>1. N <= m /\ N \in 0..m /\ N + 1 \in 0..(m + 1)
    <3>1. 2 * N <= m
      <4> DEFINE q == Len(f[N])
      <4>1. q \in Nat /\ q >= 2 * N /\ q <= m
        BY <1>1, <1>6, <1>14
      <4> HIDE DEF q
      <4> QED BY <1>1, <1>4, <4>1
    <3> QED BY <1>1, <1>4, <3>1
  <2> DEFINE p == Len(f[N])
  <2>2. EntryAt(a, p, TrailerEntry, D) /\ Len(a) = p + 2 /\ p \in Nat
    <3>1. N + 1 \in 1..(N + 1) /\ (N + 1) - 1 = N /\ N \in 0..(N + 1)
      BY <1>1
    <3>2. /\ EntryAt(a, Len(f[(N + 1) - 1]), all[N + 1], D)
          /\ Len(f[N + 1]) = Len(f[(N + 1) - 1]) + 2 + Len(all[N + 1].data)
      BY <1>5, <3>1
    <3>3. all[N + 1] = TrailerEntry /\ Len(TrailerEntry.data) = 0
      BY DEF N, TrailerEntry, Entry
    <3>4. EntryAt(a, p, TrailerEntry, D)
      BY <3>1, <3>2, <3>3
    <3>5. Len(a) = p + 2 + Len(TrailerEntry.data) /\ p \in Nat
      BY <1>6, <1>7, <3>1, <3>2, <3>3
    <3> HIDE DEF p
    <3> QED BY <3>3, <3>4, <3>5
  <2>3. x[N + 1] = Turn(SubSeq(a, 1, m), x[N])
    BY <1>9, <2>1 DEF s
  <2>4. m \in 0..Len(a) /\ p <= m /\ IsExtraction(x[N]) /\ x[N].status = "more" /\ x[N].pos = p
    BY <1>3, <1>4, <1>14
  <2> HIDE DEF p, Going, Waits
  <2>5. \/ m < p + 2 /\ x[N + 1].status = "short"
        \/ p + 2 <= m /\ x[N + 1].status = "done"
    BY <2>2, <2>3, <2>4, GoodTrailerTurn
  <2>6. x[m + 1] = x[N + 1]
    <3> DEFINE k == N + 1
    <3>1. x[k].status # "more" /\ k \in 0..(m + 1)
      BY <2>1, <2>5
    <3> HIDE DEF k
    <3>2. Turns(s, x, m)
      BY <1>9 DEF Turns
    <3>3. x[m + 1] = x[k]
      BY <1>4, <3>1, <3>2, EndedStays
    <3> QED BY <3>3 DEF k
  <2>7. x[m + 1].status = IF m < Len(a) THEN "short" ELSE "done"
    BY <1>3, <1>4, <2>2, <2>5, <2>6
  <2> QED BY <1>9, <2>7 DEF a, s
<1>15. CASE m + 1 < N /\ Going(m + 1)
  <2>1. m + 1 \in 0..(N + 1)
    BY <1>1, <1>4, <1>15
  <2> DEFINE q == Len(f[m + 1])
  <2>2. q \in Nat /\ q >= 2 * (m + 1) /\ q <= m
    BY <1>6, <1>15, <2>1
  <2> HIDE DEF q
  <2> QED BY <1>4, <2>2
<1>16. \/ \E k \in 0..(m + 1) : k <= N /\ Waits(k)
       \/ N <= m + 1 /\ Going(N)
       \/ m + 1 < N /\ Going(m + 1)
  <2> HIDE DEF Going, Waits
  <2>1. CASE N <= m + 1
    <3>1. Going(N) \/ \E k \in 0..N : Waits(k)
      BY <1>1, <1>4, <1>11, <2>1
    <3>2. \A k \in 0..N : k \in 0..(m + 1) /\ k <= N
      BY <1>1, <1>4, <2>1
    <3> QED BY <2>1, <3>1, <3>2
  <2>2. CASE m + 1 < N
    <3>1. Going(m + 1) \/ \E k \in 0..(m + 1) : Waits(k)
      BY <1>1, <1>4, <1>11, <2>2
    <3>2. \A k \in 0..(m + 1) : k <= N
      BY <1>1, <1>4, <2>2
    <3> QED BY <2>2, <3>1, <3>2
  <2> QED BY <1>1, <1>4, <2>1, <2>2
<1> QED
  BY <1>13, <1>14, <1>15, <1>16
=============================================================================
