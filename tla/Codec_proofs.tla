---------------------------- MODULE Codec_proofs ----------------------------
(***************************************************************************)
(* Proofs about Codec: the checksum of a frame does not depend on how its  *)
(* text is cut into blocks, and the digest of a message is the one of the  *)
(* standard, however the message is cut into pieces.                       *)
(***************************************************************************)
EXTENDS Codec, SequenceTheorems, FiniteSetTheorems, WellFoundedInduction, TLAPS

-----------------------------------------------------------------------------
(* Induction, and parts of sequences                                       *)

\* A set that has 0 and the successors of its members has every number.
LEMMA NatSetInduction ==
  ASSUME NEW S, 0 \in S, \A i \in S \cap Nat : i + 1 \in S
  PROVE  Nat \subseteq S
<1> DEFINE R == OpToRel(<, Nat)
           T == Nat \ S
<1>1. SUFFICES ASSUME T # {} PROVE FALSE
  OBVIOUS
<1>2. IsWellFoundedOn(R, Nat)
  BY NatLessThanWellFounded
<1>3. T \subseteq Nat
  OBVIOUS
<1>4. PICK x \in T : \A y \in T : ~ (<<y, x>> \in R)
  <2> HIDE DEF R, T
  <2> QED BY <1>1, <1>2, <1>3, WFMin
<1>5. x \in Nat /\ x # 0 /\ x - 1 \in Nat /\ x - 1 < x
  OBVIOUS
<1>6. <<x - 1, x>> \in R
  BY <1>5 DEF OpToRel
<1>7. x - 1 \in S
  BY <1>4, <1>5, <1>6
<1>8. (x - 1) + 1 = x
  BY <1>5
<1> QED
  BY <1>5, <1>7, <1>8

-----------------------------------------------------------------------------
(* Parts of sequences                                                      *)

\* What SubSeq returns.
LEMMA SliceIs ==
  ASSUME NEW S, NEW s \in Seq(S), NEW a \in Nat, a > 0, NEW b \in Int, b <= Len(s)
  PROVE  /\ SubSeq(s, a, b) \in Seq(S)
         /\ Len(SubSeq(s, a, b)) = IF a <= b THEN b - a + 1 ELSE 0
         /\ \A i \in 1..(b - a + 1) : SubSeq(s, a, b)[i] = s[a + i - 1]
<1>1. \A i \in a..b : s[i] \in S
  OBVIOUS
<1> QED BY <1>1, SubSeqProperties

\* A slice of s \o t that lies in s.
LEMMA SliceLeft ==
  ASSUME NEW S, NEW s \in Seq(S), NEW t \in Seq(S),
         NEW a \in Nat, a > 0, NEW b \in Int, b <= Len(s)
  PROVE  SubSeq(s \o t, a, b) = SubSeq(s, a, b)
<1> DEFINE u == s \o t
<1>1. u \in Seq(S) /\ Len(u) = Len(s) + Len(t) /\ \A i \in 1..Len(s) : u[i] = s[i]
  OBVIOUS
<1> HIDE DEF u
<1>2. \A i \in 1..(b - a + 1) : a + i - 1 \in 1..Len(s)
  OBVIOUS
<1>3. \A i \in 1..(b - a + 1) : u[a + i - 1] = s[a + i - 1]
  BY <1>1, <1>2
<1>4. b <= Len(u)
  BY <1>1
<1> DEFINE x == SubSeq(u, a, b)
           y == SubSeq(s, a, b)
<1>5. /\ x \in Seq(S) /\ Len(x) = IF a <= b THEN b - a + 1 ELSE 0
      /\ \A i \in 1..(b - a + 1) : x[i] = u[a + i - 1]
  BY <1>1, <1>4, SliceIs
<1>6. /\ y \in Seq(S) /\ Len(y) = IF a <= b THEN b - a + 1 ELSE 0
      /\ \A i \in 1..(b - a + 1) : y[i] = s[a + i - 1]
  BY SliceIs
<1> HIDE DEF x, y
<1>7. Len(x) = Len(y)
  BY <1>5, <1>6
<1>8. ASSUME NEW i \in 1..Len(x) PROVE x[i] = y[i]
  <2>1. i \in 1..(b - a + 1)
    BY <1>5, <1>8
  <2> QED BY <1>3, <1>5, <1>6, <2>1
<1> QED BY <1>5, <1>6, <1>7, <1>8, SeqEqual DEF x, y, u

\* One that lies in t.
LEMMA SliceRight ==
  ASSUME NEW S, NEW s \in Seq(S), NEW t \in Seq(S),
         NEW a \in Nat, a > 0, NEW b \in Int, b <= Len(t), NEW c, c = Len(s) + a,
         NEW d, d = Len(s) + b
  PROVE  SubSeq(s \o t, c, d) = SubSeq(t, a, b)
<1> DEFINE u == s \o t
<1>1. /\ u \in Seq(S) /\ Len(u) = Len(s) + Len(t)
      /\ \A i \in 1..Len(t) : u[Len(s) + i] = t[i]
  OBVIOUS
<1> HIDE DEF u
<1>2. ASSUME NEW i \in 1..(d - c + 1) PROVE u[c + i - 1] = t[a + i - 1]
  <2> DEFINE j == a + i - 1
  <2>1. j \in 1..Len(t) /\ c + i - 1 = Len(s) + j
    OBVIOUS
  <2> HIDE DEF j
  <2>2. u[c + i - 1] = t[j]
    BY <1>1, <2>1
  <2> QED BY <2>2 DEF j
<1>3. c \in Nat /\ c > 0 /\ d \in Int /\ d <= Len(u) /\ d - c = b - a
  BY <1>1
<1> DEFINE x == SubSeq(u, c, d)
           y == SubSeq(t, a, b)
<1>4. /\ x \in Seq(S) /\ Len(x) = IF c <= d THEN d - c + 1 ELSE 0
      /\ \A i \in 1..(d - c + 1) : x[i] = u[c + i - 1]
  BY <1>1, <1>3, SliceIs
<1>5. /\ y \in Seq(S) /\ Len(y) = IF a <= b THEN b - a + 1 ELSE 0
      /\ \A i \in 1..(b - a + 1) : y[i] = t[a + i - 1]
  BY SliceIs
<1> HIDE DEF x, y
<1>6. Len(x) = Len(y)
  BY <1>3, <1>4, <1>5
<1>7. ASSUME NEW i \in 1..Len(x) PROVE x[i] = y[i]
  <2>1. i \in 1..(d - c + 1) /\ i \in 1..(b - a + 1)
    BY <1>3, <1>4, <1>7
  <2> QED BY <1>2, <1>4, <1>5, <2>1
<1> QED BY <1>4, <1>5, <1>6, <1>7, SeqEqual DEF x, y, u

Joins(s, t, a, b, d) == a > 0 /\ a <= Len(s) + 1 /\ b <= Len(t) /\ d = Len(s) + b

Joined(s, t, a, b, d) == SubSeq(s, a, Len(s)) \o SubSeq(t, 1, b) = SubSeq(s \o t, a, d)

\* One that begins in s and ends in t.
LEMMA SliceAcross ==
  ASSUME NEW S, NEW s \in Seq(S), NEW t \in Seq(S),
         NEW a \in Nat, NEW b \in Nat, NEW d, Joins(s, t, a, b, d)
  PROVE  Joined(s, t, a, b, d)
<1>0. a > 0 /\ a <= Len(s) + 1 /\ b <= Len(t) /\ d = Len(s) + b
  BY DEF Joins
<1> DEFINE u == s \o t
           x == SubSeq(s, a, Len(s))
           y == SubSeq(t, 1, b)
           z == SubSeq(u, a, d)
<1>1. /\ u \in Seq(S) /\ Len(u) = Len(s) + Len(t)
      /\ \A i \in 1..Len(s) : u[i] = s[i]
      /\ \A i \in 1..Len(t) : u[Len(s) + i] = t[i]
  OBVIOUS
<1> HIDE DEF u
<1>2. /\ x \in Seq(S) /\ Len(x) = Len(s) - a + 1
      /\ \A i \in 1..(Len(s) - a + 1) : x[i] = s[a + i - 1]
  BY <1>0, SliceIs
<1>3. /\ y \in Seq(S) /\ Len(y) = b
      /\ \A i \in 1..b : y[i] = t[i]
  BY <1>0, SliceIs
<1>4. /\ z \in Seq(S) /\ Len(z) = d - a + 1
      /\ \A i \in 1..(d - a + 1) : z[i] = u[a + i - 1]
  BY <1>0, <1>1, SliceIs
<1> HIDE DEF x, y, z
<1>5. /\ x \o y \in Seq(S) /\ Len(x \o y) = Len(z)
      /\ \A i \in 1..Len(x) : (x \o y)[i] = x[i]
      /\ \A i \in 1..Len(y) : (x \o y)[Len(x) + i] = y[i]
  <2>1. Len(x) + Len(y) = d - a + 1
    BY <1>0, <1>2, <1>3
  <2>2. x \o y \in Seq(S) /\ Len(x \o y) = Len(x) + Len(y)
    <3>1. x \in Seq(S) /\ y \in Seq(S)
      BY <1>2, <1>3
    <3> QED BY ONLY <3>1
  <2>3. /\ \A i \in 1..Len(x) : (x \o y)[i] = x[i]
        /\ \A i \in 1..Len(y) : (x \o y)[Len(x) + i] = y[i]
    <3>1. x \in Seq(S) /\ y \in Seq(S)
      BY <1>2, <1>3
    <3> QED BY ONLY <3>1
  <2> QED BY <1>4, <2>1, <2>2, <2>3
<1>6. ASSUME NEW i \in 1..Len(x \o y) PROVE (x \o y)[i] = z[i]
  <2>1. z[i] = u[a + i - 1]
    BY <1>4, <1>5
  <2>2. CASE i <= Len(x)
    <3>1. (x \o y)[i] = x[i] /\ x[i] = s[a + i - 1] /\ a + i - 1 \in 1..Len(s)
      BY <1>0, <1>2, <1>3, <2>2
    <3> QED BY <1>1, <2>1, <3>1
  <2>3. CASE ~ (i <= Len(x))
    <3> DEFINE j == i - Len(x)
    <3>0. Len(x \o y) = d - a + 1 /\ Len(x) = Len(s) - a + 1
      BY <1>0, <1>2, <1>4, <1>5
    <3>1. j \in 1..b /\ a + i - 1 = Len(s) + j /\ i = Len(x) + j
      BY <1>0, <2>3, <3>0
    <3>2. (x \o y)[i] = y[j]
      <4> HIDE DEF j
      <4> QED BY <1>3, <1>5, <3>1
    <3> HIDE DEF j
    <3>3. u[Len(s) + j] = t[j] /\ y[j] = t[j]
      <4>1. j \in 1..Len(t)
        BY <1>0, <3>1
      <4> QED BY <1>1, <1>3, <3>1, <4>1
    <3> QED BY <2>1, <3>1, <3>2, <3>3
  <2> QED BY <2>2, <2>3
<1>7. x \o y = z
  BY <1>4, <1>5, <1>6, SeqEqual
<1> QED BY <1>7 DEF x, y, z, u, Joined

-----------------------------------------------------------------------------
(* Stripes of XXH64                                                        *)

StripeOf(s, from, k) == SubSeq(s, from + 32 * (k - 1) + 1, from + 32 * k)

\* g has the values after each of the first m of them.
StripesRun(g, v, s, from, m) ==
  /\ g = [k \in 0..m |-> g[k]]
  /\ g[0] = v
  /\ \A k \in 0..(m - 1) : g[k + 1] = Stripe(g[k], StripeOf(s, from, k + 1))

\* So does the recursive function of the module.
LEMMA StripesRunIs ==
  ASSUME NEW v, NEW s, NEW from, NEW m \in Nat, NEW g
  PROVE  StripesRun(g, v, s, from, m)
           <=> g = [k \in 0..m |-> IF k = 0 THEN v ELSE Stripe(g[k - 1], StripeOf(s, from, k))]
<1> DEFINE f == [k \in 0..m |-> IF k = 0 THEN v ELSE Stripe(g[k - 1], StripeOf(s, from, k))]
<1>1. ASSUME g = f PROVE StripesRun(g, v, s, from, m)
  <2>1. \A k \in 0..m : g[k] = IF k = 0 THEN v ELSE Stripe(g[k - 1], StripeOf(s, from, k))
    BY <1>1
  <2>2. ASSUME NEW k \in 0..(m - 1)
        PROVE  k + 1 \in 0..m /\ k + 1 # 0 /\ (k + 1) - 1 = k
    OBVIOUS
  <2>3. ASSUME NEW k \in 0..(m - 1)
        PROVE  g[k + 1] = Stripe(g[k], StripeOf(s, from, k + 1))
    BY <2>1, <2>2
  <2>4. g = [k \in 0..m |-> g[k]]
    BY <1>1
  <2>5. g[0] = v
    BY <2>1
  <2> QED BY <2>3, <2>4, <2>5 DEF StripesRun
<1>2. ASSUME StripesRun(g, v, s, from, m) PROVE g = f
  <2>1. ASSUME NEW k \in 0..m
        PROVE  g[k] = IF k = 0 THEN v ELSE Stripe(g[k - 1], StripeOf(s, from, k))
    <3>1. CASE k = 0
      BY <1>2, <3>1 DEF StripesRun
    <3>2. CASE k # 0
      <4>1. k - 1 \in 0..(m - 1) /\ (k - 1) + 1 = k
        BY <3>2
      <4>2. g[(k - 1) + 1] = Stripe(g[k - 1], StripeOf(s, from, (k - 1) + 1))
        BY <1>2, <4>1 DEF StripesRun
      <4> QED BY <3>2, <4>1, <4>2
    <3> QED BY <3>1, <3>2
  <2>2. f = [k \in 0..m |-> g[k]]
    BY <2>1
  <2> QED BY <1>2, <2>2 DEF StripesRun
<1> QED
  BY <1>1, <1>2

\* There is a run of every length, and the shorter ones are parts of the longer.
LEMMA StripesRuns ==
  ASSUME NEW v, NEW s, NEW from
  PROVE  /\ \A m \in Nat : \E g : StripesRun(g, v, s, from, m)
         /\ \A m \in Nat : \A g, h : StripesRun(g, v, s, from, m) /\ StripesRun(h, v, s, from, m + 1)
                                   => g[m] = h[m]
<1> DEFINE S == {m \in Nat : \E g : StripesRun(g, v, s, from, m)}
<1>1. 0 \in S
  <2> DEFINE g == [k \in 0..0 |-> v]
  <2>1. g = [k \in 0..0 |-> g[k]] /\ g[0] = v
    OBVIOUS
  <2> HIDE DEF g
  <2>2. StripesRun(g, v, s, from, 0)
    BY <2>1 DEF StripesRun
  <2> QED BY <2>2
<1>2. ASSUME NEW m \in S \cap Nat PROVE m + 1 \in S
  <2>1. PICK g : StripesRun(g, v, s, from, m)
    OBVIOUS
  <2> HIDE DEF S
  <2>2. /\ g[0] = v
        /\ \A k \in 0..(m - 1) : g[k + 1] = Stripe(g[k], StripeOf(s, from, k + 1))
    BY <2>1 DEF StripesRun
  <2> DEFINE t == Stripe(g[m], StripeOf(s, from, m + 1))
             h == [k \in 0..(m + 1) |-> IF k <= m THEN g[k] ELSE t]
  <2> HIDE DEF t
  <2>3. h = [k \in 0..(m + 1) |-> h[k]] /\ h[0] = v /\ h[m] = g[m] /\ h[m + 1] = t
    BY <2>2
  <2>4. ASSUME NEW k \in 0..((m + 1) - 1)
        PROVE  h[k + 1] = Stripe(h[k], StripeOf(s, from, k + 1))
    <3>1. CASE k = m
      BY <2>3, <3>1 DEF t
    <3>2. CASE k # m
      <4>1. k \in 0..(m - 1) /\ h[k] = g[k] /\ h[k + 1] = g[k + 1]
        BY <3>2
      <4> HIDE DEF h
      <4> QED BY <2>2, <4>1
    <3> QED BY <3>1, <3>2
  <2> HIDE DEF h
  <2>5. StripesRun(h, v, s, from, m + 1)
    BY <2>3, <2>4 DEF StripesRun
  <2> QED BY <2>5 DEF S
<1>3. \A m \in Nat : \E g : StripesRun(g, v, s, from, m)
  <2> HIDE DEF S
  <2>1. Nat \subseteq S
    BY <1>1, <1>2, NatSetInduction
  <2> QED BY <2>1 DEF S
<1>4. ASSUME NEW m \in Nat, NEW g, NEW h,
             StripesRun(g, v, s, from, m), StripesRun(h, v, s, from, m + 1)
      PROVE  g[m] = h[m]
  <2>1. /\ g[0] = v /\ h[0] = v
        /\ \A k \in 0..(m - 1) : g[k + 1] = Stripe(g[k], StripeOf(s, from, k + 1))
        /\ \A k \in 0..((m + 1) - 1) : h[k + 1] = Stripe(h[k], StripeOf(s, from, k + 1))
    BY <1>4 DEF StripesRun
  <2> DEFINE T == {k \in Nat : k <= m => g[k] = h[k]}
  <2>2. 0 \in T
    BY <2>1
  <2>3. ASSUME NEW k \in T \cap Nat PROVE k + 1 \in T
    <3>1. CASE k + 1 <= m
      <4>1. k \in 0..(m - 1) /\ k \in 0..((m + 1) - 1) /\ g[k] = h[k] /\ k + 1 \in Nat
        BY <3>1
      <4>2. g[k + 1] = h[k + 1]
        BY <2>1, <4>1
      <4> QED BY <4>1, <4>2
    <3>2. CASE ~ (k + 1 <= m)
      BY <3>2
    <3> QED BY <3>1, <3>2
  <2>4. Nat \subseteq T
    <3> HIDE DEF T
    <3> QED BY <2>2, <2>3, NatSetInduction
  <2> QED BY <2>4
<1> QED
  BY <1>3, <1>4

\* The step, without arithmetic.
StripesStep(v, s, from) ==
  \A i \in Nat : \A j \in Nat :
    j = i + 1 => Stripes(v, s, from, j) = Stripe(Stripes(v, s, from, i), StripeOf(s, from, j))

\* They are taken one after the other.
LEMMA StripesSteps ==
  ASSUME NEW v, NEW s, NEW from
  PROVE  Stripes(v, s, from, 0) = v /\ StripesStep(v, s, from)
<1> DEFINE IsAfter(g, m) ==
             g = [k \in 0..m |-> IF k = 0 THEN v ELSE Stripe(g[k - 1], StripeOf(s, from, k))]
           after(m) == CHOOSE g : IsAfter(g, m)
<1>1. ASSUME NEW m \in Nat PROVE StripesRun(after(m), v, s, from, m)
  <2>1. \A g : StripesRun(g, v, s, from, m) <=> IsAfter(g, m)
    BY StripesRunIs
  <2>2. \E g : StripesRun(g, v, s, from, m)
    BY StripesRuns
  <2> HIDE DEF IsAfter
  <2>3. \E g : IsAfter(g, m)
    BY <2>1, <2>2
  <2>4. IsAfter(after(m), m)
    BY <2>3
  <2> QED BY <2>1, <2>4
<1>2. \A m : Stripes(v, s, from, m) = after(m)[m]
  BY DEF Stripes, StripeOf
<1> HIDE DEF after
<1>3. Stripes(v, s, from, 0) = v
  <2>1. after(0)[0] = v
    BY <1>1 DEF StripesRun
  <2> QED BY <1>2, <2>1
<1>4. ASSUME NEW i \in Nat, NEW j \in Nat, j = i + 1
      PROVE  Stripes(v, s, from, j) = Stripe(Stripes(v, s, from, i), StripeOf(s, from, j))
  <2>1. i \in 0..(j - 1) /\ i \in 0..((i + 1) - 1) /\ j = i + 1
    BY <1>4
  <2>2. StripesRun(after(i), v, s, from, i) /\ StripesRun(after(j), v, s, from, i + 1)
    BY <1>1, <2>1
  <2>3. after(i)[i] = after(j)[i]
    BY <2>2, StripesRuns
  <2>4. after(j)[i + 1] = Stripe(after(j)[i], StripeOf(s, from, i + 1))
    BY <2>1, <2>2 DEF StripesRun
  <2>5. after(j)[j] = Stripe(after(j)[i], StripeOf(s, from, j))
    BY <2>1, <2>4, Zenon
  <2> QED BY <1>2, <2>3, <2>5
<1> QED
  BY <1>3, <1>4 DEF StripesStep

\* Taken from another sequence with the same bytes there, they go on where they were.
LEMMA StripesOn ==
  ASSUME NEW v, NEW s, NEW r, NEW a, NEW b, NEW i \in Nat, NEW j \in Nat,
         \A k \in 1..j : StripeOf(r, b, k) = StripeOf(s, a, i + k)
  PROVE  Stripes(Stripes(v, s, a, i), r, b, j) = Stripes(v, s, a, i + j)
<1> DEFINE w == Stripes(v, s, a, i)
           T == {m \in Nat : m <= j => \A k \in Nat : k = i + m => Stripes(w, r, b, m) = Stripes(v, s, a, k)}
<1>3. Stripes(v, s, a, i) = w
  OBVIOUS
<1> HIDE DEF w
<1>1. Stripes(w, r, b, 0) = w /\ StripesStep(w, r, b)
  BY StripesSteps
<1>2. StripesStep(v, s, a)
  BY StripesSteps
<1>4. 0 \in T
  <2>1. \A k \in Nat : k = i + 0 => k = i
    OBVIOUS
  <2> QED BY <1>1, <1>3, <2>1
<1>5. ASSUME NEW m \in T \cap Nat PROVE m + 1 \in T
  <2>1. SUFFICES ASSUME NEW e \in Nat, e = m + 1, e <= j, NEW k \in Nat, k = i + e
                 PROVE  Stripes(w, r, b, e) = Stripes(v, s, a, k)
    <3>1. m + 1 \in Nat
      OBVIOUS
    <3> DEFINE P(e) == e <= j => \A k \in Nat : k = i + e => Stripes(w, r, b, e) = Stripes(v, s, a, k)
    <3>2. P(m + 1)
      BY <2>1, <3>1
    <3> QED BY <3>1, <3>2
  <2>2. PICK d \in Nat : d = i + m
    OBVIOUS
  <2>3. m <= j /\ e \in 1..j /\ k = d + 1 /\ k = i + e
    BY <2>1, <2>2
  <2>4. Stripes(w, r, b, m) = Stripes(v, s, a, d)
    BY <2>2, <2>3
  <2>5. StripeOf(r, b, e) = StripeOf(s, a, k)
    BY <2>3
  <2>6. Stripes(v, s, a, k) = Stripe(Stripes(v, s, a, d), StripeOf(s, a, k))
    BY <1>2, <2>3 DEF StripesStep
  <2>7. Stripes(w, r, b, e) = Stripe(Stripes(w, r, b, m), StripeOf(r, b, e))
    BY <1>1, <2>1 DEF StripesStep
  <2> QED BY <2>4, <2>5, <2>6, <2>7
<1>6. Nat \subseteq T
  <2> HIDE DEF T
  <2> QED BY <1>4, <1>5, NatSetInduction
<1>7. Stripes(w, r, b, j) = Stripes(v, s, a, i + j)
  BY <1>6
<1> QED BY <1>7 DEF w

\* The same, from the start.
LEMMA StripesSame ==
  ASSUME NEW v, NEW s, NEW r, NEW a, NEW b, NEW j \in Nat,
         \A k \in 1..j : StripeOf(r, b, k) = StripeOf(s, a, k)
  PROVE  Stripes(v, r, b, j) = Stripes(v, s, a, j)
<1>1. Stripes(v, s, a, 0) = v
  BY StripesSteps
<1>2. \A k \in 1..j : StripeOf(r, b, k) = StripeOf(s, a, 0 + k)
  OBVIOUS
<1>3. Stripes(Stripes(v, s, a, 0), r, b, j) = Stripes(v, s, a, 0 + j)
  BY <1>2, StripesOn
<1>4. 0 + j = j
  OBVIOUS
<1> QED BY <1>1, <1>3, <1>4

-----------------------------------------------------------------------------
(* Blocks of SHA-1                                                         *)

Block64Of(s, from, k) == SubSeq(s, from + 64 * (k - 1) + 1, from + 64 * k)

\* g has the values after each of the first m of them.
CompressedRun(g, v, s, from, m) ==
  /\ g = [k \in 0..m |-> g[k]]
  /\ g[0] = v
  /\ \A k \in 0..(m - 1) : g[k + 1] = Transform(g[k], Block64Of(s, from, k + 1))

\* So does the recursive function of the module.
LEMMA CompressedRunIs ==
  ASSUME NEW v, NEW s, NEW from, NEW m \in Nat, NEW g
  PROVE  CompressedRun(g, v, s, from, m)
           <=> g = [k \in 0..m |-> IF k = 0 THEN v ELSE Transform(g[k - 1], Block64Of(s, from, k))]
<1> DEFINE f == [k \in 0..m |-> IF k = 0 THEN v ELSE Transform(g[k - 1], Block64Of(s, from, k))]
<1>1. ASSUME g = f PROVE CompressedRun(g, v, s, from, m)
  <2>1. \A k \in 0..m : g[k] = IF k = 0 THEN v ELSE Transform(g[k - 1], Block64Of(s, from, k))
    BY <1>1
  <2>2. ASSUME NEW k \in 0..(m - 1)
        PROVE  k + 1 \in 0..m /\ k + 1 # 0 /\ (k + 1) - 1 = k
    OBVIOUS
  <2>3. ASSUME NEW k \in 0..(m - 1)
        PROVE  g[k + 1] = Transform(g[k], Block64Of(s, from, k + 1))
    BY <2>1, <2>2
  <2>4. g = [k \in 0..m |-> g[k]]
    BY <1>1
  <2>5. g[0] = v
    BY <2>1
  <2> QED BY <2>3, <2>4, <2>5 DEF CompressedRun
<1>2. ASSUME CompressedRun(g, v, s, from, m) PROVE g = f
  <2>1. ASSUME NEW k \in 0..m
        PROVE  g[k] = IF k = 0 THEN v ELSE Transform(g[k - 1], Block64Of(s, from, k))
    <3>1. CASE k = 0
      BY <1>2, <3>1 DEF CompressedRun
    <3>2. CASE k # 0
      <4>1. k - 1 \in 0..(m - 1) /\ (k - 1) + 1 = k
        BY <3>2
      <4>2. g[(k - 1) + 1] = Transform(g[k - 1], Block64Of(s, from, (k - 1) + 1))
        BY <1>2, <4>1 DEF CompressedRun
      <4> QED BY <3>2, <4>1, <4>2
    <3> QED BY <3>1, <3>2
  <2>2. f = [k \in 0..m |-> g[k]]
    BY <2>1
  <2> QED BY <1>2, <2>2 DEF CompressedRun
<1> QED
  BY <1>1, <1>2

\* There is a run of every length, and the shorter ones are parts of the longer.
LEMMA CompressedRuns ==
  ASSUME NEW v, NEW s, NEW from
  PROVE  /\ \A m \in Nat : \E g : CompressedRun(g, v, s, from, m)
         /\ \A m \in Nat : \A g, h : CompressedRun(g, v, s, from, m) /\ CompressedRun(h, v, s, from, m + 1)
                                   => g[m] = h[m]
<1> DEFINE S == {m \in Nat : \E g : CompressedRun(g, v, s, from, m)}
<1>1. 0 \in S
  <2> DEFINE g == [k \in 0..0 |-> v]
  <2>1. g = [k \in 0..0 |-> g[k]] /\ g[0] = v
    OBVIOUS
  <2> HIDE DEF g
  <2>2. CompressedRun(g, v, s, from, 0)
    BY <2>1 DEF CompressedRun
  <2> QED BY <2>2
<1>2. ASSUME NEW m \in S \cap Nat PROVE m + 1 \in S
  <2>1. PICK g : CompressedRun(g, v, s, from, m)
    OBVIOUS
  <2> HIDE DEF S
  <2>2. /\ g[0] = v
        /\ \A k \in 0..(m - 1) : g[k + 1] = Transform(g[k], Block64Of(s, from, k + 1))
    BY <2>1 DEF CompressedRun
  <2> DEFINE t == Transform(g[m], Block64Of(s, from, m + 1))
             h == [k \in 0..(m + 1) |-> IF k <= m THEN g[k] ELSE t]
  <2> HIDE DEF t
  <2>3. h = [k \in 0..(m + 1) |-> h[k]] /\ h[0] = v /\ h[m] = g[m] /\ h[m + 1] = t
    BY <2>2
  <2>4. ASSUME NEW k \in 0..((m + 1) - 1)
        PROVE  h[k + 1] = Transform(h[k], Block64Of(s, from, k + 1))
    <3>1. CASE k = m
      BY <2>3, <3>1 DEF t
    <3>2. CASE k # m
      <4>1. k \in 0..(m - 1) /\ h[k] = g[k] /\ h[k + 1] = g[k + 1]
        BY <3>2
      <4> HIDE DEF h
      <4> QED BY <2>2, <4>1
    <3> QED BY <3>1, <3>2
  <2> HIDE DEF h
  <2>5. CompressedRun(h, v, s, from, m + 1)
    BY <2>3, <2>4 DEF CompressedRun
  <2> QED BY <2>5 DEF S
<1>3. \A m \in Nat : \E g : CompressedRun(g, v, s, from, m)
  <2> HIDE DEF S
  <2>1. Nat \subseteq S
    BY <1>1, <1>2, NatSetInduction
  <2> QED BY <2>1 DEF S
<1>4. ASSUME NEW m \in Nat, NEW g, NEW h,
             CompressedRun(g, v, s, from, m), CompressedRun(h, v, s, from, m + 1)
      PROVE  g[m] = h[m]
  <2>1. /\ g[0] = v /\ h[0] = v
        /\ \A k \in 0..(m - 1) : g[k + 1] = Transform(g[k], Block64Of(s, from, k + 1))
        /\ \A k \in 0..((m + 1) - 1) : h[k + 1] = Transform(h[k], Block64Of(s, from, k + 1))
    BY <1>4 DEF CompressedRun
  <2> DEFINE T == {k \in Nat : k <= m => g[k] = h[k]}
  <2>2. 0 \in T
    BY <2>1
  <2>3. ASSUME NEW k \in T \cap Nat PROVE k + 1 \in T
    <3>1. CASE k + 1 <= m
      <4>1. k \in 0..(m - 1) /\ k \in 0..((m + 1) - 1) /\ g[k] = h[k] /\ k + 1 \in Nat
        BY <3>1
      <4>2. g[k + 1] = h[k + 1]
        BY <2>1, <4>1
      <4> QED BY <4>1, <4>2
    <3>2. CASE ~ (k + 1 <= m)
      BY <3>2
    <3> QED BY <3>1, <3>2
  <2>4. Nat \subseteq T
    <3> HIDE DEF T
    <3> QED BY <2>2, <2>3, NatSetInduction
  <2> QED BY <2>4
<1> QED
  BY <1>3, <1>4

\* The step, without arithmetic.
CompressedStep(v, s, from) ==
  \A i \in Nat : \A j \in Nat :
    j = i + 1 => Compressed(v, s, from, j) = Transform(Compressed(v, s, from, i), Block64Of(s, from, j))

\* They are taken one after the other.
LEMMA CompressedSteps ==
  ASSUME NEW v, NEW s, NEW from
  PROVE  Compressed(v, s, from, 0) = v /\ CompressedStep(v, s, from)
<1> DEFINE IsAfter(g, m) ==
             g = [k \in 0..m |-> IF k = 0 THEN v ELSE Transform(g[k - 1], Block64Of(s, from, k))]
           after(m) == CHOOSE g : IsAfter(g, m)
<1>1. ASSUME NEW m \in Nat PROVE CompressedRun(after(m), v, s, from, m)
  <2>1. \A g : CompressedRun(g, v, s, from, m) <=> IsAfter(g, m)
    BY CompressedRunIs
  <2>2. \E g : CompressedRun(g, v, s, from, m)
    BY CompressedRuns
  <2> HIDE DEF IsAfter
  <2>3. \E g : IsAfter(g, m)
    BY <2>1, <2>2
  <2>4. IsAfter(after(m), m)
    BY <2>3
  <2> QED BY <2>1, <2>4
<1>2. \A m : Compressed(v, s, from, m) = after(m)[m]
  BY DEF Compressed, Block64Of
<1> HIDE DEF after
<1>3. Compressed(v, s, from, 0) = v
  <2>1. after(0)[0] = v
    BY <1>1 DEF CompressedRun
  <2> QED BY <1>2, <2>1
<1>4. ASSUME NEW i \in Nat, NEW j \in Nat, j = i + 1
      PROVE  Compressed(v, s, from, j) = Transform(Compressed(v, s, from, i), Block64Of(s, from, j))
  <2>1. i \in 0..(j - 1) /\ i \in 0..((i + 1) - 1) /\ j = i + 1
    BY <1>4
  <2>2. CompressedRun(after(i), v, s, from, i) /\ CompressedRun(after(j), v, s, from, i + 1)
    BY <1>1, <2>1
  <2>3. after(i)[i] = after(j)[i]
    BY <2>2, CompressedRuns
  <2>4. after(j)[i + 1] = Transform(after(j)[i], Block64Of(s, from, i + 1))
    BY <2>1, <2>2 DEF CompressedRun
  <2>5. after(j)[j] = Transform(after(j)[i], Block64Of(s, from, j))
    BY <2>1, <2>4, Zenon
  <2> QED BY <1>2, <2>3, <2>5
<1> QED
  BY <1>3, <1>4 DEF CompressedStep

\* Taken from another sequence with the same bytes there, they go on where they were.
LEMMA CompressedOn ==
  ASSUME NEW v, NEW s, NEW r, NEW a, NEW b, NEW i \in Nat, NEW j \in Nat,
         \A k \in 1..j : Block64Of(r, b, k) = Block64Of(s, a, i + k)
  PROVE  Compressed(Compressed(v, s, a, i), r, b, j) = Compressed(v, s, a, i + j)
<1> DEFINE w == Compressed(v, s, a, i)
           T == {m \in Nat : m <= j => \A k \in Nat : k = i + m => Compressed(w, r, b, m) = Compressed(v, s, a, k)}
<1>3. Compressed(v, s, a, i) = w
  OBVIOUS
<1> HIDE DEF w
<1>1. Compressed(w, r, b, 0) = w /\ CompressedStep(w, r, b)
  BY CompressedSteps
<1>2. CompressedStep(v, s, a)
  BY CompressedSteps
<1>4. 0 \in T
  <2>1. \A k \in Nat : k = i + 0 => k = i
    OBVIOUS
  <2> QED BY <1>1, <1>3, <2>1
<1>5. ASSUME NEW m \in T \cap Nat PROVE m + 1 \in T
  <2>1. SUFFICES ASSUME NEW e \in Nat, e = m + 1, e <= j, NEW k \in Nat, k = i + e
                 PROVE  Compressed(w, r, b, e) = Compressed(v, s, a, k)
    <3>1. m + 1 \in Nat
      OBVIOUS
    <3> DEFINE P(e) == e <= j => \A k \in Nat : k = i + e => Compressed(w, r, b, e) = Compressed(v, s, a, k)
    <3>2. P(m + 1)
      BY <2>1, <3>1
    <3> QED BY <3>1, <3>2
  <2>2. PICK d \in Nat : d = i + m
    OBVIOUS
  <2>3. m <= j /\ e \in 1..j /\ k = d + 1 /\ k = i + e
    BY <2>1, <2>2
  <2>4. Compressed(w, r, b, m) = Compressed(v, s, a, d)
    BY <2>2, <2>3
  <2>5. Block64Of(r, b, e) = Block64Of(s, a, k)
    BY <2>3
  <2>6. Compressed(v, s, a, k) = Transform(Compressed(v, s, a, d), Block64Of(s, a, k))
    BY <1>2, <2>3 DEF CompressedStep
  <2>7. Compressed(w, r, b, e) = Transform(Compressed(w, r, b, m), Block64Of(r, b, e))
    BY <1>1, <2>1 DEF CompressedStep
  <2> QED BY <2>4, <2>5, <2>6, <2>7
<1>6. Nat \subseteq T
  <2> HIDE DEF T
  <2> QED BY <1>4, <1>5, NatSetInduction
<1>7. Compressed(w, r, b, j) = Compressed(v, s, a, i + j)
  BY <1>6
<1> QED BY <1>7 DEF w

\* The same, from the start.
LEMMA CompressedSame ==
  ASSUME NEW v, NEW s, NEW r, NEW a, NEW b, NEW j \in Nat,
         \A k \in 1..j : Block64Of(r, b, k) = Block64Of(s, a, k)
  PROVE  Compressed(v, r, b, j) = Compressed(v, s, a, j)
<1>1. Compressed(v, s, a, 0) = v
  BY CompressedSteps
<1>2. \A k \in 1..j : Block64Of(r, b, k) = Block64Of(s, a, 0 + k)
  OBVIOUS
<1>3. Compressed(Compressed(v, s, a, 0), r, b, j) = Compressed(v, s, a, 0 + j)
  BY <1>2, CompressedOn
<1>4. 0 + j = j
  OBVIOUS
<1> QED BY <1>1, <1>3, <1>4

-----------------------------------------------------------------------------
(* Two sequences with the same elements in m places                        *)

Agree(s, t, c, d, m) == \A k \in 1..m : s[c + k] = t[d + k]

\* m elements of a sequence, after the first c.
LEMMA PartIs ==
  ASSUME NEW S, NEW s \in Seq(S), NEW c \in Nat, NEW m \in Nat, c + m <= Len(s)
  PROVE  /\ SubSeq(s, c + 1, c + m) \in Seq(S)
         /\ Len(SubSeq(s, c + 1, c + m)) = m
         /\ Agree(SubSeq(s, c + 1, c + m), s, 0, c, m)
<1>1. PICK e \in Nat : e = c + 1
  OBVIOUS
<1>2. PICK f \in Nat : f = c + m
  OBVIOUS
<1> DEFINE x == SubSeq(s, c + 1, c + m)
           w == SubSeq(s, e, f)
<1>3. e > 0 /\ f <= Len(s)
  BY <1>1, <1>2
<1>4. /\ w \in Seq(S) /\ Len(w) = (IF e <= f THEN f - e + 1 ELSE 0)
      /\ \A k \in 1..(f - e + 1) : w[k] = s[e + k - 1]
  BY <1>3, SliceIs
<1>5. x = w
  BY <1>1, <1>2, Zenon
<1> HIDE DEF w, x
<1>6. f - e + 1 = m /\ (IF e <= f THEN f - e + 1 ELSE 0) = m
  BY <1>1, <1>2
<1>7. ASSUME NEW k \in 1..m PROVE w[0 + k] = s[c + k]
  <2>1. e + k - 1 = c + k /\ 0 + k = k
    BY <1>1
  <2>2. w[k] = s[e + k - 1]
    BY <1>4, <1>6
  <2> QED BY <2>1, <2>2
<1> QED BY <1>4, <1>5, <1>6, <1>7 DEF x, Agree

\* Parts that agree are equal.
LEMMA PartsEqual ==
  ASSUME NEW S, NEW s \in Seq(S), NEW t \in Seq(S),
         NEW c \in Nat, NEW d \in Nat, NEW m \in Nat, c + m <= Len(s), d + m <= Len(t),
         Agree(s, t, c, d, m)
  PROVE  SubSeq(s, c + 1, c + m) = SubSeq(t, d + 1, d + m)
<1> DEFINE x == SubSeq(s, c + 1, c + m)
           y == SubSeq(t, d + 1, d + m)
<1>1. x \in Seq(S) /\ Len(x) = m /\ Agree(x, s, 0, c, m)
  BY PartIs
<1>2. y \in Seq(S) /\ Len(y) = m /\ Agree(y, t, 0, d, m)
  BY PartIs
<1> HIDE DEF x, y
<1>3. ASSUME NEW k \in 1..m PROVE x[k] = y[k]
  <2>1. x[0 + k] = s[c + k] /\ y[0 + k] = t[d + k] /\ s[c + k] = t[d + k]
    BY <1>1, <1>2 DEF Agree
  <2>2. 0 + k = k
    OBVIOUS
  <2> QED BY <2>1, <2>2
<1>4. x = y
  BY <1>1, <1>2, <1>3, SeqEqual
<1> QED BY <1>4 DEF x, y

-----------------------------------------------------------------------------
(* XXH64 of a sequence, whatever the pieces it is taken in                 *)

\* What XXH64_update makes of a whole text: its stripes, and the bytes left over.
WholeStripes(t) == Len(t) \div 32

Absorbed(t) ==
  [v   |-> Stripes(XXH64_reset.v, t, 0, WholeStripes(t)),
   mem |-> SubSeq(t, 32 * WholeStripes(t) + 1, Len(t)),
   total_len |-> Len(t)]

\* Stripe i after the first a elements begins after the first c of s.
StripeAt(S, s, a, i, c) == s \in Seq(S) /\ c = a + 32 * (i - 1) /\ c + 32 <= Len(s)

SameStripe(s, t, c, d) == Agree(s, t, c, d, 32)

\* Equal stripes of two sequences that have a common slice.
LEMMA StripesEqual ==
  ASSUME NEW S, NEW s, NEW t,
         NEW a \in Nat, NEW b \in Nat, NEW i \in Nat, NEW j \in Nat,
         NEW c \in Nat, NEW d \in Nat, StripeAt(S, s, a, i, c), StripeAt(S, t, b, j, d),
         SameStripe(s, t, c, d)
  PROVE  StripeOf(s, a, i) = StripeOf(t, b, j)
<1>0. /\ s \in Seq(S) /\ t \in Seq(S)
      /\ c = a + 32 * (i - 1) /\ d = b + 32 * (j - 1)
      /\ c + 32 <= Len(s) /\ d + 32 <= Len(t)
  BY DEF StripeAt
<1>1. a + 32 * i = c + 32 /\ b + 32 * j = d + 32
  BY <1>0
<1>2. StripeOf(s, a, i) = SubSeq(s, c + 1, c + 32) /\ StripeOf(t, b, j) = SubSeq(t, d + 1, d + 32)
  BY <1>0, <1>1, Zenon DEF StripeOf
<1>3. SubSeq(s, c + 1, c + 32) = SubSeq(t, d + 1, d + 32)
  BY <1>0, PartsEqual DEF SameStripe
<1> QED BY <1>2, <1>3

\* Quotient of a number of bytes by the length of a stripe.
LEMMA DivideBy32 ==
  ASSUME NEW k \in Nat
  PROVE  /\ k \div 32 \in Nat
         /\ 32 * (k \div 32) <= k /\ k < 32 * (k \div 32) + 32
OBVIOUS

\* The quotient is the only number of whole stripes.
LEMMA WholeBy32 ==
  ASSUME NEW k \in Nat, NEW w \in Nat, 32 * w <= k, k < 32 * w + 32
  PROVE  k \div 32 = w
OBVIOUS

\* The numbers of a text of k bytes and a piece of m: whole stripes before it, the
\* bytes left over, and, when there are enough, the bytes of the piece that complete
\* a stripe, the stripes behind them and all of them.
Numbers(k, m, w, r, first, i, whole) ==
  /\ w = k \div 32 /\ r = k - 32 * w
  /\ first = IF r > 0 THEN 32 - r ELSE 0
  /\ i = IF r > 0 THEN w + 1 ELSE w
  /\ whole = (m - first) \div 32

\* They fit together: no byte is lost or counted twice.
LEMMA NumbersFit ==
  ASSUME NEW k \in Nat, NEW m \in Nat, NEW w, NEW r, NEW first, NEW i, NEW whole,
         Numbers(k, m, w, r, first, i, whole)
  PROVE  /\ w \in Nat /\ r \in 0..31 /\ k = 32 * w + r
         /\ r + m < 32 => (k + m) \div 32 = w
         /\ ~ (r + m < 32) =>
              /\ first \in 0..m /\ i \in Nat /\ whole \in Nat
              /\ k + first = 32 * i
              /\ first + 32 * whole <= m
              /\ (k + m) \div 32 = i + whole
<1>1. w = k \div 32 /\ r = k - 32 * w
  BY DEF Numbers
<1>2. w \in Nat /\ 32 * w <= k /\ k < 32 * w + 32
  BY <1>1, DivideBy32
<1>3. r \in 0..31 /\ k = 32 * w + r
  BY <1>1, <1>2
<1>4. r + m < 32 => (k + m) \div 32 = w
  BY <1>2, <1>3
<1>5. ASSUME ~ (r + m < 32)
      PROVE  /\ first \in 0..m /\ i \in Nat /\ whole \in Nat
             /\ k + first = 32 * i
             /\ first + 32 * whole <= m
             /\ (k + m) \div 32 = i + whole
  <2>1. first = (IF r > 0 THEN 32 - r ELSE 0) /\ i = (IF r > 0 THEN w + 1 ELSE w)
        /\ whole = (m - first) \div 32
    BY DEF Numbers
  <2>2. first \in 0..m /\ i \in Nat /\ k + first = 32 * i /\ m - first \in Nat
    BY <1>2, <1>3, <1>5, <2>1
  <2>3. whole \in Nat /\ 32 * whole <= m - first /\ m - first < 32 * whole + 32
    <3> DEFINE e == m - first
    <3>1. e \in Nat /\ whole = e \div 32
      BY <2>1, <2>2
    <3> HIDE DEF e
    <3>2. whole \in Nat /\ 32 * whole <= e /\ e < 32 * whole + 32
      BY <3>1, DivideBy32
    <3> QED BY <3>2 DEF e
  <2>4. PICK e \in Nat : e = k + m
    OBVIOUS
  <2>5. PICK f \in Nat : f = i + whole
    BY <2>2, <2>3
  <2>6. 32 * f <= e /\ e < 32 * f + 32
    BY <2>2, <2>3, <2>4, <2>5
  <2>7. e \div 32 = f
    BY <2>6, WholeBy32
  <2> QED BY <2>2, <2>3, <2>4, <2>5, <2>7
<1> QED BY <1>2, <1>3, <1>4, <1>5

\* The text so far and a piece: as if it had been the whole text at once.
LEMMA AbsorbedMore ==
  ASSUME NEW S, NEW t \in Seq(S), NEW x \in Seq(S)
  PROVE  XXH64_update(Absorbed(t), x) = Absorbed(t \o x)
<1> DEFINE u == t \o x
           k == Len(t)
           m == Len(x)
           w == k \div 32
           r == k - 32 * w
           first == IF r > 0 THEN 32 - r ELSE 0
           i == IF r > 0 THEN w + 1 ELSE w
           whole == (m - first) \div 32
           v0 == XXH64_reset.v
           v == Stripes(v0, t, 0, w)
           rest == SubSeq(t, 32 * w + 1, k)
<1>1. /\ u \in Seq(S) /\ Len(u) = k + m
      /\ \A j \in 1..k : u[j] = t[j]
      /\ \A j \in 1..m : u[k + j] = x[j]
  OBVIOUS
<1>2. Absorbed(t) = [v |-> v, mem |-> rest, total_len |-> k]
  BY DEF Absorbed, WholeStripes
<1>3. Absorbed(u) = [v |-> Stripes(v0, u, 0, (k + m) \div 32),
                     mem |-> SubSeq(u, 32 * ((k + m) \div 32) + 1, k + m),
                     total_len |-> k + m]
  BY <1>1, Zenon DEF Absorbed, WholeStripes
<1>4. Numbers(k, m, w, r, first, i, whole)
  BY DEF Numbers
<1>5. k \in Nat /\ m \in Nat
  OBVIOUS
<1> HIDE DEF u, k, m, w, r, first, i, whole, v0
<1>6. /\ w \in Nat /\ r \in 0..31 /\ k = 32 * w + r
      /\ r + m < 32 => (k + m) \div 32 = w
      /\ ~ (r + m < 32) =>
           /\ first \in 0..m /\ i \in Nat /\ whole \in Nat
           /\ k + first = 32 * i
           /\ first + 32 * whole <= m
           /\ (k + m) \div 32 = i + whole
  BY <1>4, <1>5, NumbersFit
<1>7. rest \in Seq(S) /\ Len(rest) = r
  <2>1. PICK c \in Nat : c = 32 * w
    BY <1>6
  <2>2. c + r = k /\ r \in Nat /\ c + r <= Len(t)
    BY <1>5, <1>6, <2>1 DEF k
  <2>3. SubSeq(t, c + 1, c + r) \in Seq(S) /\ Len(SubSeq(t, c + 1, c + r)) = r
    BY <2>2, PartIs
  <2> QED BY <2>1, <2>2, <2>3
<1>8. Stripes(v0, u, 0, w) = v
  <2>1. ASSUME NEW j \in 1..w PROVE StripeOf(u, 0, j) = StripeOf(t, 0, j)
    <3>1. PICK c \in Nat : c = 0 + 32 * (j - 1)
      BY <1>6
    <3>2. c + 32 <= k /\ c + 32 <= Len(u) /\ c + 32 <= Len(t) /\ j \in Nat
      BY <1>1, <1>5, <1>6, <3>1 DEF k
    <3>3. SameStripe(u, t, c, c)
      <4>1. ASSUME NEW l \in 1..32 PROVE u[c + l] = t[c + l]
        <5>1. c + l \in 1..k
          BY <1>5, <3>2
        <5> QED BY <1>1, <5>1
      <4> QED BY <4>1 DEF Agree, SameStripe
    <3>4. PICK z \in Nat : z = 0
      OBVIOUS
    <3>5. StripeAt(S, u, z, j, c) /\ StripeAt(S, t, z, j, c)
      BY <1>1, <3>1, <3>2, <3>4 DEF StripeAt
    <3>6. StripeOf(u, z, j) = StripeOf(t, z, j)
      BY <1>1, <3>2, <3>3, <3>5, StripesEqual
    <3> QED BY <3>4, <3>6
  <2>2. PICK z \in Nat : z = 0
    OBVIOUS
  <2>3. \A j \in 1..w : StripeOf(u, z, j) = StripeOf(t, z, j)
    BY <2>1, <2>2
  <2>4. w \in Nat
    BY <1>6
  <2>5. Stripes(v0, u, z, w) = Stripes(v0, t, z, w)
    BY ONLY <2>3, <2>4, StripesSame
  <2> QED BY <2>2, <2>5
<1>9. CASE r + m < 32
  <2>1. (k + m) \div 32 = w /\ Len(rest) + m < 32 /\ Len(rest) + Len(x) < 32
    BY <1>6, <1>7, <1>9 DEF m
  <2>2. XXH64_update(Absorbed(t), x) = [v |-> v, mem |-> rest \o x, total_len |-> k + m]
    <3> DEFINE state == [v |-> v, mem |-> rest, total_len |-> k]
    <3>1. XXH64_update(state, x) = [state EXCEPT !.mem = @ \o x, !.total_len = @ + m]
      BY <2>1, Zenon DEF XXH64_update, m
    <3> QED BY <1>2, <3>1
  <2>3. rest \o x = SubSeq(u, 32 * w + 1, k + m)
    <3>1. PICK a \in Nat : a = 32 * w + 1
      BY <1>6
    <3>2. PICK d \in Nat : d = k + m
      BY <1>5
    <3>3. m \in Nat /\ Joins(t, x, a, m, d)
      BY <1>5, <1>6, <3>1, <3>2 DEF k, m, Joins
    <3>4. Joined(t, x, a, m, d)
      BY <3>3, SliceAcross
    <3>5. SubSeq(x, 1, m) = x
      BY DEF m
    <3> QED BY <3>1, <3>2, <3>4, <3>5 DEF k, u, Joined
  <2> QED BY <1>3, <1>8, <2>1, <2>2, <2>3 DEF u
<1>10. CASE ~ (r + m < 32)
  <2>1. /\ first \in 0..m /\ i \in Nat /\ whole \in Nat
        /\ k + first = 32 * i
        /\ first + 32 * whole <= m
        /\ (k + m) \div 32 = i + whole
    BY <1>6, <1>10
  <2> DEFINE state == [v |-> v, mem |-> rest, total_len |-> k]
  <2>2. XXH64_update(state, x)
          = [v |-> Stripes(FirstStripe(state, x), x, first, whole),
             total_len |-> k + m,
             mem |-> SubSeq(x, first + 32 * whole + 1, m)]
    <3>1. ~ (Len(rest) + Len(x) < 32)
      BY <1>7, <1>10 DEF m
    <3>2. (IF Len(rest) > 0 THEN 32 - Len(rest) ELSE 0) = first
      BY <1>7 DEF first
    <3> QED BY <3>1, <3>2, Zenon DEF XXH64_update, m, whole
  <2>3. FirstStripe(state, x) = Stripes(v0, u, 0, i)
    <3>1. CASE r = 0
      <4>1. rest = <<>> /\ i = w
        BY <1>7, <3>1 DEF i
      <4> QED BY <1>8, <4>1 DEF FirstStripe
    <3>2. CASE r # 0
      <4>1. rest # <<>> /\ i = w + 1 /\ first = 32 - r
        <5>1. r > 0 /\ Len(rest) # 0
          BY <1>6, <1>7, <3>2
        <5>2. rest # <<>>
          <6>1. Len(<<>>) = 0
            OBVIOUS
          <6> HIDE DEF rest
          <6> QED BY <5>1, <6>1
        <5> QED BY <5>1, <5>2, Zenon DEF i, first
      <4>2. FirstStripe(state, x) = Stripe(v, rest \o SubSeq(x, 1, first))
        BY <1>7, <4>1, Zenon DEF FirstStripe
      <4>3. rest \o SubSeq(x, 1, first) = StripeOf(u, 0, i)
        <5>1. PICK a \in Nat : a = 32 * w + 1
          BY <1>6
        <5>2. PICK d \in Nat : d = k + first
          BY <1>5, <2>1
        <5>3. first \in Nat /\ Joins(t, x, a, first, d)
          BY <1>5, <1>6, <2>1, <5>1, <5>2 DEF k, m, Joins
        <5>4. Joined(t, x, a, first, d)
          BY <5>3, SliceAcross
        <5>5. a = 0 + 32 * (i - 1) + 1 /\ d = 0 + 32 * i
          BY <1>6, <2>1, <4>1, <5>1, <5>2
        <5>6. StripeOf(u, 0, i) = SubSeq(u, a, d)
          BY <5>5, Zenon DEF StripeOf
        <5>7. rest = SubSeq(t, a, Len(t))
          BY <5>1 DEF k
        <5> QED BY <5>4, <5>6, <5>7 DEF u, Joined
      <4>4. Stripes(v0, u, 0, i) = Stripe(Stripes(v0, u, 0, w), StripeOf(u, 0, i))
        <5>1. StripesStep(v0, u, 0)
          BY StripesSteps
        <5>2. w \in Nat /\ i \in Nat /\ i = w + 1
          BY <1>6, <2>1, <4>1
        <5> QED BY ONLY <5>1, <5>2 DEF StripesStep
      <4> QED BY <1>8, <4>2, <4>3, <4>4
    <3> QED BY <3>1, <3>2
  <2>4. Stripes(Stripes(v0, u, 0, i), x, first, whole) = Stripes(v0, u, 0, i + whole)
    <3>1. ASSUME NEW j \in 1..whole, NEW l \in Nat, l = i + j
          PROVE  StripeOf(x, first, j) = StripeOf(u, 0, l)
      <4>1. PICK c \in Nat : c = first + 32 * (j - 1)
        BY <2>1
      <4>2. PICK d \in Nat : d = 0 + 32 * (l - 1)
        BY <2>1, <3>1
      <4>3. /\ d = k + c /\ c + 32 <= m /\ c + 32 <= Len(x) /\ d + 32 <= Len(u)
            /\ j \in Nat /\ first \in Nat
        BY <1>1, <1>5, <2>1, <3>1, <4>1, <4>2 DEF m
      <4>4. SameStripe(x, u, c, d)
        <5>1. ASSUME NEW y \in 1..32 PROVE x[c + y] = u[d + y]
          <6>1. c + y \in 1..m /\ d + y = k + (c + y)
            BY <1>5, <4>3
          <6> QED BY <1>1, <6>1
        <5> QED BY <5>1 DEF Agree, SameStripe
      <4>5. u \in Seq(S)
        BY <1>1
      <4> QED
        <5>1. PICK z \in Nat : z = 0
          OBVIOUS
        <5>2. /\ j \in Nat /\ first \in Nat
              /\ StripeAt(S, x, first, j, c) /\ StripeAt(S, u, z, l, d)
          BY <4>1, <4>2, <4>3, <4>5, <5>1 DEF StripeAt
        <5>3. StripeOf(x, first, j) = StripeOf(u, z, l)
          BY <4>4, <4>5, <5>2, StripesEqual
        <5> QED BY <5>1, <5>3
    <3> QED
      <4>1. PICK z \in Nat : z = 0
        OBVIOUS
      <4>2. \A j \in 1..whole : StripeOf(x, first, j) = StripeOf(u, z, i + j)
        <5>1. TAKE j \in 1..whole
        <5>2. PICK l \in Nat : l = i + j
          BY <2>1
        <5> QED BY <3>1, <4>1, <5>2
      <4>3. i \in Nat /\ whole \in Nat
        BY <2>1
      <4>4. Stripes(Stripes(v0, u, z, i), x, first, whole) = Stripes(v0, u, z, i + whole)
        BY ONLY <4>2, <4>3, StripesOn
      <4> QED BY <4>1, <4>4
  <2>5. SubSeq(x, first + 32 * whole + 1, m) = SubSeq(u, 32 * ((k + m) \div 32) + 1, k + m)
    <3>1. PICK a \in Nat : a = first + 32 * whole + 1
      BY <2>1
    <3>2. PICK c \in Nat : c = 32 * ((k + m) \div 32) + 1
      BY <2>1
    <3>3. PICK d \in Nat : d = k + m
      BY <1>5
    <3>4. a > 0 /\ c = Len(t) + a /\ d = Len(t) + m /\ m \in Int /\ m <= Len(x)
      BY <1>5, <2>1, <3>1, <3>2, <3>3 DEF k, m
    <3>5. SubSeq(t \o x, c, d) = SubSeq(x, a, m)
      BY <3>4, SliceRight
    <3> QED BY <3>1, <3>2, <3>3, <3>5 DEF u
  <2> QED BY <1>2, <1>3, <2>1, <2>2, <2>3, <2>4, <2>5 DEF u
<1> QED BY <1>9, <1>10

\* No text at all is the state after XXH64_reset.
LEMMA AbsorbedNone == Absorbed(<<>>) = XXH64_reset
<1>1. Len(<<>>) = 0 /\ 0 \div 32 = 0 /\ 32 * 0 + 1 = 1
  OBVIOUS
<1>2. SubSeq(<<>>, 1, 0) = <<>>
  OBVIOUS
<1>3. WholeStripes(<<>>) = 0
  BY <1>1, Zenon DEF WholeStripes
<1> DEFINE v0 == XXH64_reset.v
<1>4. XXH64_reset = [v |-> v0, mem |-> <<>>, total_len |-> 0]
  BY DEF XXH64_reset
<1> HIDE DEF v0
<1>5. Stripes(v0, <<>>, 0, 0) = v0
  BY StripesSteps
<1>6. Absorbed(<<>>) = [v |-> v0, mem |-> <<>>, total_len |-> 0]
  BY <1>1, <1>2, <1>3, <1>5, Zenon DEF Absorbed, v0
<1> QED BY <1>4, <1>6

-----------------------------------------------------------------------------
(* ChecksumOfText                                                          *)

IsText(t) == \E S : t \in Seq(S)

\* The state of the checksum is the one of the text; a block is being decoded
\* unless everything is over.
SumInv ==
  /\ n \in Nat
  /\ phase \in {"done", "error"} \/ (job \in Jobs /\ n \in 1..Len(job.blocks))
  /\ IsText(text)
  /\ sum = Absorbed(text)

\* A text with w behind it is one, and the checksum follows.
LEMMA TextGrows ==
  ASSUME NEW t, IsText(t), NEW size \in Nat, NEW f
  PROVE  LET u == t \o [i \in 1..size |-> f[i]]
         IN  /\ IsText(u)
             /\ XXH64_update(Absorbed(t), SubSeq(u, Len(t) + 1, Len(u))) = Absorbed(u)
<1> DEFINE w == [i \in 1..size |-> f[i]]
           u == t \o w
<1>1. PICK A : t \in Seq(A)
  BY DEF IsText
<1> DEFINE B == {f[i] : i \in 1..size}
           S == A \cup B
<1>2. w \in Seq(S) /\ Len(w) = size
  <2>1. \A i \in 1..size : f[i] \in S
    OBVIOUS
  <2> HIDE DEF S
  <2> QED BY <2>1
<1>3. t \in Seq(S)
  <2>1. A \subseteq S
    OBVIOUS
  <2> HIDE DEF S
  <2> QED BY <1>1, <2>1
<1> HIDE DEF S, w
<1>4. u \in Seq(S) /\ Len(u) = Len(t) + size /\ Len(t) \in Nat
  BY <1>2, <1>3
<1>5. SubSeq(u, Len(t) + 1, Len(u)) = w
  <2>1. PICK c \in Nat : c = Len(t) + 1
    BY <1>4
  <2>2. PICK d \in Nat : d = Len(t) + size
    BY <1>4
  <2>3. SubSeq(t \o w, c, d) = SubSeq(w, 1, size)
    BY <1>2, <1>3, <2>1, <2>2, SliceRight
  <2>4. SubSeq(w, 1, size) = w
    BY <1>2
  <2> QED BY <1>4, <2>1, <2>2, <2>3, <2>4
<1>6. XXH64_update(Absorbed(t), w) = Absorbed(t \o w)
  BY <1>2, <1>3, AbsorbedMore
<1>7. IsText(u)
  BY <1>4 DEF IsText
<1> HIDE DEF u
<1>8. u = t \o [i \in 1..size |-> f[i]]
  BY DEF u, w
<1>9. XXH64_update(Absorbed(t), SubSeq(u, Len(t) + 1, Len(u))) = Absorbed(u)
  BY <1>5, <1>6 DEF u
<1> QED BY <1>7, <1>8, <1>9

\* Nothing has been produced in the beginning.
LEMMA SumInvInit == Init => SumInv
<1>1. IsText(<<>>)
  <2>1. <<>> \in Seq({})
    OBVIOUS
  <2> QED BY <2>1 DEF IsText
<1>2. ASSUME Init PROVE SumInv
  <2>1. n = 1 /\ text = <<>> /\ sum = XXH64_reset /\ (phase = "done" \/ (phase = "block" /\ job \in Jobs))
    BY <1>2 DEF Init, BlockInit
  <2>2. job \in Jobs => 1 \in 1..Len(job.blocks)
    BY JobsAssumption DEF JobsAssumption
  <2> QED BY <1>1, <2>1, <2>2, AbsorbedNone DEF SumInv
<1> QED BY <1>2

\* The steps that do not end a block.
Same == n' = n /\ job' = job /\ text' = text

\* Neither the text nor the number of the block changes within a block.
LEMMA WithinBlock ==
  ASSUME Literals \/ SeqHeaders \/ Sequence \/ Ahead \/ FinishQueue
  PROVE  Same /\ phase \notin {"done", "error"}
<1>1. CASE Literals
  BY <1>1 DEF Literals, Refuse, Same
<1>2. CASE SeqHeaders
  BY <1>2 DEF SeqHeaders, Refuse, Same
<1>3. CASE Sequence
  BY <1>3 DEF Sequence, Refuse, Same
<1>4. CASE Ahead
  BY <1>4 DEF Ahead, Refuse, Same
<1>5. CASE FinishQueue
  BY <1>5 DEF FinishQueue, Refuse, Same
<1> QED BY <1>1, <1>2, <1>3, <1>4, <1>5

\* The end of a block: it is refused, or the text grows.
LEMMA BlockEnds ==
  ASSUME SumInv, LastLiterals
  PROVE  /\ phase = "rest" /\ job' = job
         /\ \/ n' = n /\ text' = text /\ phase' = "error"
            \/ /\ n' = n + 1
               /\ phase' = IF n = Len(job.blocks) THEN "done" ELSE "block"
               /\ \E size \in Nat : \E f : text' = text \o [i \in 1..size |-> f[i]]
<1> DEFINE end == op + (lit.end - lit.ptr)
           done == CopyBytes(mem, op, lit.ptr, lit.end - lit.ptr)
           before == {a \in Block.dst..(Block.oend - 1) : a < end}
           size == Cardinality(before)
<1>1. phase = "rest" /\ job' = job
  BY DEF LastLiterals, Refuse
<1>2. size \in Nat
  <2>1. Block.dst \in Int /\ Block.oend \in Int
    BY <1>1, JobsAssumption DEF SumInv, JobsAssumption, Block
  <2> DEFINE all == Block.dst..(Block.oend - 1)
  <2>2. IsFiniteSet(all)
    BY <2>1, FS_Interval
  <2>3. before \subseteq all
    OBVIOUS
  <2> HIDE DEF all, before
  <2>4. IsFiniteSet(before)
    BY <2>2, <2>3, FS_Subset
  <2> QED BY <2>4, FS_CardinalityType
<1>3. CASE end > Block.oend
  BY <1>1, <1>3 DEF LastLiterals, Refuse
<1>4. CASE ~ (end > Block.oend)
  <2>1. /\ n' = n + 1
        /\ phase' = IF n = Len(job.blocks) THEN "done" ELSE "block"
        /\ text' = text \o [i \in 1..size |-> done[Block.dst + i - 1]]
    BY <1>4 DEF LastLiterals
  <2> HIDE DEF size, done
  <2> DEFINE f == [i \in 1..size |-> done[Block.dst + i - 1]]
  <2>2. f = [i \in 1..size |-> f[i]]
    OBVIOUS
  <2>3. text' = text \o [i \in 1..size |-> f[i]]
    <3> HIDE DEF f
    <3>1. text' = text \o f
      BY <2>1 DEF f
    <3> QED BY <2>2, <3>1
  <2> HIDE DEF f
  <2> QED BY <1>1, <1>2, <2>1, <2>3
<1> QED BY <1>3, <1>4

\* Every step keeps it: BlockStep takes exactly what the block has produced.
LEMMA SumInvNext ==
  ASSUME SumInv, [Next]_codecVars
  PROVE  SumInv'
<1>1. CASE BlockStep
  <2>1. BlockNext /\ sum' = IF n' = n THEN sum
                            ELSE XXH64_update(sum, SubSeq(text', Len(text) + 1, Len(text')))
    BY <1>1 DEF BlockStep
  <2>2. CASE LastLiterals
    <3>1. /\ phase = "rest" /\ job' = job
          /\ \/ n' = n /\ text' = text /\ phase' = "error"
             \/ /\ n' = n + 1
                /\ phase' = IF n = Len(job.blocks) THEN "done" ELSE "block"
                /\ \E size \in Nat : \E f : text' = text \o [i \in 1..size |-> f[i]]
      BY <2>2, BlockEnds
    <3>2. CASE n' = n /\ text' = text /\ phase' = "error"
      BY <2>1, <3>2 DEF SumInv
    <3>3. CASE /\ n' = n + 1
               /\ phase' = IF n = Len(job.blocks) THEN "done" ELSE "block"
               /\ \E size \in Nat : \E f : text' = text \o [i \in 1..size |-> f[i]]
      <4>0. PICK size \in Nat : \E f : text' = text \o [i \in 1..size |-> f[i]]
        BY <3>3
      <4>1. PICK f : text' = text \o [i \in 1..size |-> f[i]]
        BY <4>0
      <4>2. IsText(text) /\ sum = Absorbed(text) /\ n \in Nat
        BY DEF SumInv
      <4>3. IsText(text') /\ XXH64_update(Absorbed(text), SubSeq(text', Len(text) + 1, Len(text')))
                               = Absorbed(text')
        <5> DEFINE u == text \o [i \in 1..size |-> f[i]]
        <5>1. IsText(u) /\ XXH64_update(Absorbed(text), SubSeq(u, Len(text) + 1, Len(u))) = Absorbed(u)
          BY <4>2, TextGrows
        <5> QED BY <4>1, <5>1
      <4>4. sum' = Absorbed(text') /\ n' \in Nat
        <5>1. n' # n /\ n' \in Nat
          BY <3>3, <4>2
        <5> QED BY <2>1, <4>2, <4>3, <5>1
      <4>5. phase' \in {"done", "error"} \/ (job' \in Jobs /\ n' \in 1..Len(job'.blocks))
        <5>1. job \in Jobs /\ n \in 1..Len(job.blocks) /\ Len(job.blocks) \in Nat
          BY <3>1, JobsAssumption DEF SumInv, JobsAssumption
        <5> QED BY <3>1, <3>3, <5>1
      <4> QED BY <4>3, <4>4, <4>5 DEF SumInv
    <3> QED BY <3>1, <3>2, <3>3
  <2>3. CASE Literals \/ SeqHeaders \/ Sequence \/ Ahead \/ FinishQueue
    <3>1. Same /\ phase \notin {"done", "error"}
      BY <2>3, WithinBlock
    <3> QED BY <2>1, <3>1 DEF SumInv, Same
  <2> QED BY <2>1, <2>2, <2>3 DEF BlockNext
<1>2. CASE HashStep
  BY <1>2 DEF HashStep, blockVars, SumInv
<1>3. CASE UNCHANGED codecVars
  BY <1>3 DEF codecVars, blockVars, SumInv
<1> QED BY <1>1, <1>2, <1>3 DEF Next

\* The checksum that is compared with the one in the frame is the one of the whole
\* text, wherever ZSTD_decompressContinue cut it: XXH64_update loses and repeats
\* no byte at a border, whatever was in its buffer and however long the block is.
THEOREM ChecksumCorrect == Spec => []ChecksumOfText
<1>1. SumInv => ChecksumOfText
  <2>1. SUFFICES ASSUME SumInv PROVE sum = XXH64_update(XXH64_reset, text)
    BY DEF ChecksumOfText
  <2>2. PICK A : text \in Seq(A)
    BY <2>1 DEF SumInv, IsText
  <2>3. <<>> \in Seq(A) /\ <<>> \o text = text
    BY <2>2
  <2>4. XXH64_update(Absorbed(<<>>), text) = Absorbed(<<>> \o text)
    BY <2>2, <2>3, AbsorbedMore
  <2> QED BY <2>1, <2>3, <2>4, AbsorbedNone DEF SumInv
<1>2. Init => SumInv
  BY SumInvInit
<1>3. SumInv /\ [Next]_codecVars => SumInv'
  BY SumInvNext
<1> QED
  BY <1>1, <1>2, <1>3, PTL DEF Spec

-----------------------------------------------------------------------------
(* The arithmetic of words                                                 *)

IsWord(x, k) == x \in Seq(Byte) /\ Len(x) = k

\* Now keeps a sequence.
LEMMA NowIs ==
  ASSUME NEW S, NEW x \in Seq(S)
  PROVE  Now(x) = x
BY DEF Now

\* g has what Carried has computed after each of the first m columns.
CarryRun(g, column, m) ==
  /\ g = [k \in 0..m |-> g[k]]
  /\ g[0] = <<<<>>, 0>>
  /\ \A k \in 0..(m - 1) :
       LET t == column[k + 1] + g[k][2] IN g[k + 1] = <<Append(g[k][1], t % 256), t \div 256>>

\* There is a run of every length.
LEMMA CarryRuns ==
  ASSUME NEW column
  PROVE  \A m \in Nat : \E g : CarryRun(g, column, m)
<1> DEFINE S == {m \in Nat : \E g : CarryRun(g, column, m)}
<1>1. 0 \in S
  <2> DEFINE g == [k \in 0..0 |-> <<<<>>, 0>>]
  <2>1. g = [k \in 0..0 |-> g[k]] /\ g[0] = <<<<>>, 0>>
    OBVIOUS
  <2> HIDE DEF g
  <2>2. CarryRun(g, column, 0)
    BY <2>1 DEF CarryRun
  <2> QED BY <2>2
<1>2. ASSUME NEW m \in S \cap Nat PROVE m + 1 \in S
  <2>1. PICK g : CarryRun(g, column, m)
    OBVIOUS
  <2> HIDE DEF S
  <2> DEFINE Turn(p, k) == LET t == column[k + 1] + p[2] IN <<Append(p[1], t % 256), t \div 256>>
             z == Turn(g[m], m)
             h == [k \in 0..(m + 1) |-> IF k <= m THEN g[k] ELSE z]
  <2>2. g[0] = <<<<>>, 0>> /\ \A k \in 0..(m - 1) : g[k + 1] = Turn(g[k], k)
    BY <2>1 DEF CarryRun
  <2> HIDE DEF z, Turn
  <2>3. h = [k \in 0..(m + 1) |-> h[k]] /\ h[0] = <<<<>>, 0>> /\ h[m] = g[m] /\ h[m + 1] = z
    BY <2>2
  <2>4. ASSUME NEW k \in 0..((m + 1) - 1) PROVE h[k + 1] = Turn(h[k], k)
    <3>1. CASE k = m
      BY <2>3, <3>1 DEF z
    <3>2. CASE k # m
      <4>1. k \in 0..(m - 1) /\ h[k] = g[k] /\ h[k + 1] = g[k + 1]
        BY <3>2
      <4> HIDE DEF h
      <4> QED BY <2>2, <4>1
    <3> QED BY <3>1, <3>2
  <2> HIDE DEF h
  <2>5. CarryRun(h, column, m + 1)
    BY <2>3, <2>4 DEF CarryRun, Turn
  <2> QED BY <2>5 DEF S
<1>3. Nat \subseteq S
  <2> HIDE DEF S
  <2> QED BY <1>1, <1>2, NatSetInduction
<1> QED BY <1>3

\* Every column and the carry before it are a byte and the next carry.
CarriesOf(column, r, c) ==
  /\ IsWord(r, Len(column))
  /\ c[0] = 0
  /\ \A i \in 1..Len(column) :
       /\ c[i] \in Nat
       /\ column[i] + c[i - 1] = r[i] + 256 * c[i]

\* What Carried returns.
LEMMA CarriedIs ==
  ASSUME NEW column \in Seq(Nat)
  PROVE  \E c : CarriesOf(column, Carried(column), c)
<1> DEFINE m == Len(column)
           Is(g) == g = [i \in 0..m |->
                           IF i = 0 THEN <<<<>>, 0>>
                           ELSE LET p == g[i - 1]
                                    t == column[i] + p[2]
                                IN  <<Append(p[1], t % 256), t \div 256>>]
           f == CHOOSE g : Is(g)
<1>1. m \in Nat
  OBVIOUS
<1>2. \A g : CarryRun(g, column, m) => Is(g)
  <2>1. ASSUME NEW g, CarryRun(g, column, m) PROVE Is(g)
    <3> DEFINE at(i) == IF i = 0 THEN <<<<>>, 0>>
                        ELSE LET p == g[i - 1]
                                 t == column[i] + p[2]
                             IN  <<Append(p[1], t % 256), t \div 256>>
    <3>1. g = [k \in 0..m |-> g[k]]
      BY <2>1 DEF CarryRun
    <3>2. ASSUME NEW i \in 0..m PROVE g[i] = at(i)
      <4>1. CASE i = 0
        BY <2>1, <4>1 DEF CarryRun
      <4>2. CASE i # 0
        <5>1. i - 1 \in 0..(m - 1) /\ (i - 1) + 1 = i
          BY <1>1, <4>2
        <5>2. LET t == column[(i - 1) + 1] + g[i - 1][2]
              IN  g[(i - 1) + 1] = <<Append(g[i - 1][1], t % 256), t \div 256>>
          BY <2>1, <5>1, Zenon DEF CarryRun
        <5> QED BY <4>2, <5>1, <5>2, Zenon
      <4> QED BY <4>1, <4>2
    <3> HIDE DEF at
    <3>3. g = [i \in 0..m |-> at(i)]
      <4>1. [k \in 0..m |-> g[k]] = [i \in 0..m |-> at(i)]
        BY <3>2, Zenon
      <4> QED BY <3>1, <4>1, Zenon
    <3> QED BY <3>3, Zenon DEF at
  <2> QED BY <2>1
<1>3. \A g : Is(g) => CarryRun(g, column, m)
  <2>1. ASSUME NEW g, Is(g) PROVE CarryRun(g, column, m)
    <3>1. g = [k \in 0..m |-> g[k]]
      BY <2>1
    <3>2. g[0] = <<<<>>, 0>>
      <4>1. 0 \in 0..m
        BY <1>1
      <4> QED BY <2>1, <4>1, Zenon
    <3>3. ASSUME NEW k \in 0..(m - 1)
          PROVE  LET t == column[k + 1] + g[k][2]
                 IN  g[k + 1] = <<Append(g[k][1], t % 256), t \div 256>>
      <4>1. k + 1 \in 0..m /\ k + 1 # 0 /\ (k + 1) - 1 = k
        BY <1>1
      <4> DEFINE j == k + 1
      <4>2. LET p == g[j - 1]
                t == column[j] + p[2]
            IN  g[j] = <<Append(p[1], t % 256), t \div 256>>
        <5> HIDE DEF j
        <5> QED BY <2>1, <4>1, Zenon DEF j
      <4> QED BY <4>1, <4>2, Zenon
    <3> QED BY <3>1, <3>2, <3>3, Zenon DEF CarryRun
  <2> QED BY <2>1
<1>4. CarryRun(f, column, m)
  <2>1. \E g : Is(g)
    <3> HIDE DEF Is
    <3> QED BY <1>1, <1>2, CarryRuns
  <2>2. Is(f)
    <3> HIDE DEF Is
    <3> QED BY <2>1
  <2> HIDE DEF f, Is
  <2> QED BY <1>3, <2>2
<1>5. Carried(column) = f[m][1]
  BY DEF Carried
<1> HIDE DEF f, Is, m
<1>6. /\ f[0] = <<<<>>, 0>>
      /\ \A k \in 0..(m - 1) :
           LET t == column[k + 1] + f[k][2]
           IN  f[k + 1] = <<Append(f[k][1], t % 256), t \div 256>>
  BY <1>4 DEF CarryRun
<1>7. \A k \in 1..m : column[k] \in Nat
  BY DEF m
<1> DEFINE Good(k) == /\ f[k][1] \in Seq(Byte) /\ Len(f[k][1]) = k /\ f[k][2] \in Nat
                      /\ \A j \in 1..k : f[k][1][j] = (column[j] + f[j - 1][2]) % 256
           T == {k \in Nat : k <= m => Good(k)}
<1>8. 0 \in T
  <2>1. f[0][1] = <<>> /\ f[0][2] = 0
    BY <1>6
  <2>2. <<>> \in Seq(Byte) /\ Len(<<>>) = 0
    OBVIOUS
  <2>3. \A j \in 1..0 : f[0][1][j] = (column[j] + f[j - 1][2]) % 256
    OBVIOUS
  <2>4. f[0][1] \in Seq(Byte) /\ Len(f[0][1]) = 0 /\ f[0][2] \in Nat
    BY <2>1, <2>2
  <2>5. Good(0)
    BY <2>3, <2>4, Zenon
  <2> HIDE DEF Good
  <2> QED BY <2>5
<1>9. ASSUME NEW k \in T \cap Nat PROVE k + 1 \in T
  <2>1. SUFFICES ASSUME k + 1 <= m PROVE Good(k + 1)
    <3> HIDE DEF Good
    <3> QED OBVIOUS
  <2>2. k \in 0..(m - 1) /\ Good(k) /\ k + 1 \in 1..m
    <3> HIDE DEF Good
    <3> QED BY <1>1, <2>1
  <2> DEFINE t == column[k + 1] + f[k][2]
             a == f[k][1]
  <2>3. t \in Nat /\ t % 256 \in Byte /\ t \div 256 \in Nat
    <3>1. column[k + 1] \in Nat /\ f[k][2] \in Nat
      BY <1>7, <2>2
    <3> HIDE DEF Good, T, t
    <3>2. t \in Nat
      BY <3>1 DEF t
    <3> QED BY <3>2 DEF Byte
  <2>4. f[k + 1] = <<Append(a, t % 256), t \div 256>>
    BY <1>6, <2>2
  <2>5. /\ a \in Seq(Byte) /\ Len(a) = k
        /\ \A j \in 1..k : a[j] = (column[j] + f[j - 1][2]) % 256
    BY <2>2
  <2> HIDE DEF a, t, Good, T
  <2>6. /\ Append(a, t % 256) \in Seq(Byte) /\ Len(Append(a, t % 256)) = k + 1
        /\ \A j \in 1..k : Append(a, t % 256)[j] = a[j]
        /\ Append(a, t % 256)[k + 1] = t % 256
    BY <2>3, <2>5
  <2>7. ASSUME NEW j \in 1..(k + 1)
        PROVE  Append(a, t % 256)[j] = (column[j] + f[j - 1][2]) % 256
    <3>1. CASE j \in 1..k
      BY <2>5, <2>6, <3>1
    <3>2. CASE j = k + 1
      <4>1. j - 1 = k
        BY <3>2
      <4> QED BY <2>6, <3>2, <4>1, Zenon DEF t
    <3>3. j \in 1..k \/ j = k + 1
      BY <2>2
    <3> QED BY <3>1, <3>2, <3>3
  <2> QED BY <2>3, <2>4, <2>6, <2>7 DEF Good
<1>10. Nat \subseteq T
  <2> HIDE DEF T
  <2> QED BY <1>8, <1>9, NatSetInduction
<1>11. \A k \in 0..m : Good(k)
  BY <1>1, <1>10
<1> DEFINE c == [k \in 0..m |-> f[k][2]]
           r == f[m][1]
<1>12. r \in Seq(Byte) /\ Len(r) = m
  BY <1>1, <1>11
<1>13. c[0] = 0
  BY <1>1, <1>6
<1>14. ASSUME NEW j \in 1..m PROVE c[j] \in Nat /\ column[j] + c[j - 1] = r[j] + 256 * c[j]
  <2>1. j \in 0..m /\ j - 1 \in 0..m /\ j - 1 \in 0..(m - 1) /\ (j - 1) + 1 = j /\ m \in 0..m
    BY <1>1
  <2>2. c[j] = f[j][2] /\ c[j - 1] = f[j - 1][2]
    BY <2>1
  <2>3. f[j][2] \in Nat /\ f[j - 1][2] \in Nat /\ r[j] = (column[j] + f[j - 1][2]) % 256
    <3>1. Good(j) /\ Good(j - 1) /\ Good(m) /\ j \in 1..m
      <4> HIDE DEF Good
      <4> QED BY <1>11, <2>1
    <3> QED BY <3>1, Zenon
  <2>4. f[j][2] = (column[j] + f[j - 1][2]) \div 256
    <3> DEFINE l == j - 1
               t == column[l + 1] + f[l][2]
    <3>1. f[l + 1] = <<Append(f[l][1], t % 256), t \div 256>>
      BY <1>6, <2>1
    <3>2. f[l + 1][2] = t \div 256
      BY <3>1
    <3> QED BY <2>1, <3>2, Zenon
  <2> DEFINE t == column[j] + f[j - 1][2]
  <2>5. t \in Nat
    BY <1>7, <2>3
  <2>6. t = (t % 256) + 256 * (t \div 256)
    <3> HIDE DEF t
    <3> QED BY <2>5
  <2>7. t = r[j] + 256 * f[j][2]
    BY <2>3, <2>4, <2>6, Zenon
  <2> QED BY <2>2, <2>3, <2>7
<1> HIDE DEF c, r
<1>15. CarriesOf(column, r, c)
  BY <1>12, <1>13, <1>14 DEF CarriesOf, IsWord, m
<1> QED BY <1>5, <1>15 DEF r

\* The number a word of four or eight bytes is.
Value4(x) == x[1] + 256 * (x[2] + 256 * (x[3] + 256 * x[4]))

Two32 == 256 * (256 * (256 * 256))
Two64 == Two32 * Two32

Value8(x) == Value4(x) + Two32 * (x[5] + 256 * (x[6] + 256 * (x[7] + 256 * x[8])))

\* What a word is made of.
LEMMA WordIs ==
  ASSUME NEW x, NEW m \in Nat, IsWord(x, m)
  PROVE  x \in Seq(Byte) /\ Len(x) = m /\ \A i \in 1..m : x[i] \in Byte /\ x[i] \in Nat
<1>1. x \in Seq(Byte) /\ Len(x) = m
  BY DEF IsWord
<1>2. \A i \in 1..m : x[i] \in Byte
  BY <1>1
<1>3. \A b \in Byte : b \in Nat
  BY DEF Byte
<1> QED BY <1>1, <1>2, <1>3

\* Add drops the last carry.
LEMMA Add4 ==
  ASSUME NEW x, NEW y, IsWord(x, 4), IsWord(y, 4)
  PROVE  /\ IsWord(Add(x, y), 4)
         /\ \E k \in Nat : Value4(x) + Value4(y) = Value4(Add(x, y)) + Two32 * k
<1> DEFINE column == [i \in 1..Len(x) |-> x[i] + y[i]]
           r == Add(x, y)
<1>1. Len(x) = 4 /\ \A i \in 1..4 : x[i] \in Nat /\ y[i] \in Nat
  BY WordIs
<1>2. column \in Seq(Nat) /\ Len(column) = 4 /\ \A i \in 1..4 : column[i] = x[i] + y[i]
  BY <1>1
<1>3. r = Carried(column)
  BY DEF Add
<1> HIDE DEF column, r
<1>4. PICK c : CarriesOf(column, r, c)
  BY <1>2, <1>3, CarriedIs
<1>5. IsWord(r, 4) /\ c[0] = 0
  BY <1>2, <1>4 DEF CarriesOf
<1>6. ASSUME NEW i \in 1..4
      PROVE  c[i] \in Nat /\ x[i] + y[i] + c[i - 1] = r[i] + 256 * c[i] /\ r[i] \in Nat
  <2>1. c[i] \in Nat /\ column[i] + c[i - 1] = r[i] + 256 * c[i]
    BY <1>2, <1>4 DEF CarriesOf
  <2>2. r[i] \in Nat
    BY <1>5, WordIs
  <2> QED BY <1>2, <2>1, <2>2
<1>7. /\ x[1] + y[1] = r[1] + 256 * c[1]
      /\ x[2] + y[2] + c[1] = r[2] + 256 * c[2]
      /\ x[3] + y[3] + c[2] = r[3] + 256 * c[3]
      /\ x[4] + y[4] + c[3] = r[4] + 256 * c[4]
  BY <1>1, <1>5, <1>6
<1>8. /\ c[1] \in Nat /\ c[2] \in Nat /\ c[3] \in Nat /\ c[4] \in Nat
      /\ r[1] \in Nat /\ r[2] \in Nat /\ r[3] \in Nat /\ r[4] \in Nat
      /\ x[1] \in Nat /\ x[2] \in Nat /\ x[3] \in Nat /\ x[4] \in Nat
      /\ y[1] \in Nat /\ y[2] \in Nat /\ y[3] \in Nat /\ y[4] \in Nat
  BY <1>1, <1>6
<1>9. Value4(x) + Value4(y) = Value4(r) + Two32 * c[4]
  <2>1. PICK x1 \in Nat, x2 \in Nat, x3 \in Nat, x4 \in Nat :
           x1 = x[1] /\ x2 = x[2] /\ x3 = x[3] /\ x4 = x[4]
    BY <1>8
  <2>2. PICK y1 \in Nat, y2 \in Nat, y3 \in Nat, y4 \in Nat :
           y1 = y[1] /\ y2 = y[2] /\ y3 = y[3] /\ y4 = y[4]
    BY <1>8
  <2>3. PICK c1 \in Nat, c2 \in Nat, c3 \in Nat, c4 \in Nat :
           c1 = c[1] /\ c2 = c[2] /\ c3 = c[3] /\ c4 = c[4]
    BY <1>8
  <2>4. PICK r1 \in Nat, r2 \in Nat, r3 \in Nat, r4 \in Nat :
           r1 = r[1] /\ r2 = r[2] /\ r3 = r[3] /\ r4 = r[4]
    BY <1>8
  <2>5. /\ x1 + y1 = r1 + 256 * c1
        /\ x2 + y2 + c1 = r2 + 256 * c2
        /\ x3 + y3 + c2 = r3 + 256 * c3
        /\ x4 + y4 + c3 = r4 + 256 * c4
    BY <1>7, <2>1, <2>2, <2>3, <2>4
  <2>6. (x1 + 256 * (x2 + 256 * (x3 + 256 * (x4))))
          + (y1 + 256 * (y2 + 256 * (y3 + 256 * (y4))))
          = (r1 + 256 * (r2 + 256 * (r3 + 256 * (r4)))) + Two32 * c4
    BY <2>5, SMT DEF Two32
  <2>7. Value4(x) = x1 + 256 * (x2 + 256 * (x3 + 256 * (x4)))
    BY <2>1 DEF Value4
  <2>8. Value4(y) = y1 + 256 * (y2 + 256 * (y3 + 256 * (y4)))
    BY <2>2 DEF Value4
  <2>9. Value4(r) = r1 + 256 * (r2 + 256 * (r3 + 256 * (r4)))
    BY <2>4 DEF Value4
  <2>10. c[4] = c4
    BY <2>3
  <2> QED BY <2>6, <2>7, <2>8, <2>9, <2>10
<1> QED BY <1>5, <1>8, <1>9 DEF r

\* The same for words of eight bytes.
LEMMA Add8 ==
  ASSUME NEW x, NEW y, IsWord(x, 8), IsWord(y, 8)
  PROVE  /\ IsWord(Add(x, y), 8)
         /\ \E k \in Nat : Value8(x) + Value8(y) = Value8(Add(x, y)) + Two64 * k
<1> DEFINE column == [i \in 1..Len(x) |-> x[i] + y[i]]
           r == Add(x, y)
<1>1. Len(x) = 8 /\ \A i \in 1..8 : x[i] \in Nat /\ y[i] \in Nat
  BY WordIs
<1>2. column \in Seq(Nat) /\ Len(column) = 8 /\ \A i \in 1..8 : column[i] = x[i] + y[i]
  BY <1>1
<1>3. r = Carried(column)
  BY DEF Add
<1> HIDE DEF column, r
<1>4. PICK c : CarriesOf(column, r, c)
  BY <1>2, <1>3, CarriedIs
<1>5. IsWord(r, 8) /\ c[0] = 0
  BY <1>2, <1>4 DEF CarriesOf
<1>6. ASSUME NEW i \in 1..8
      PROVE  c[i] \in Nat /\ x[i] + y[i] + c[i - 1] = r[i] + 256 * c[i] /\ r[i] \in Nat
  <2>1. c[i] \in Nat /\ column[i] + c[i - 1] = r[i] + 256 * c[i]
    BY <1>2, <1>4 DEF CarriesOf
  <2>2. r[i] \in Nat
    BY <1>5, WordIs
  <2> QED BY <1>2, <2>1, <2>2
<1>7. /\ x[1] + y[1] = r[1] + 256 * c[1]
      /\ x[2] + y[2] + c[1] = r[2] + 256 * c[2]
      /\ x[3] + y[3] + c[2] = r[3] + 256 * c[3]
      /\ x[4] + y[4] + c[3] = r[4] + 256 * c[4]
      /\ x[5] + y[5] + c[4] = r[5] + 256 * c[5]
      /\ x[6] + y[6] + c[5] = r[6] + 256 * c[6]
      /\ x[7] + y[7] + c[6] = r[7] + 256 * c[7]
      /\ x[8] + y[8] + c[7] = r[8] + 256 * c[8]
  BY <1>1, <1>5, <1>6
<1>8. /\ c[1] \in Nat /\ c[2] \in Nat /\ c[3] \in Nat /\ c[4] \in Nat
      /\ c[5] \in Nat /\ c[6] \in Nat /\ c[7] \in Nat /\ c[8] \in Nat
      /\ r[1] \in Nat /\ r[2] \in Nat /\ r[3] \in Nat /\ r[4] \in Nat
      /\ r[5] \in Nat /\ r[6] \in Nat /\ r[7] \in Nat /\ r[8] \in Nat
      /\ x[1] \in Nat /\ x[2] \in Nat /\ x[3] \in Nat /\ x[4] \in Nat
      /\ x[5] \in Nat /\ x[6] \in Nat /\ x[7] \in Nat /\ x[8] \in Nat
      /\ y[1] \in Nat /\ y[2] \in Nat /\ y[3] \in Nat /\ y[4] \in Nat
      /\ y[5] \in Nat /\ y[6] \in Nat /\ y[7] \in Nat /\ y[8] \in Nat
  BY <1>1, <1>6
<1>9. Value8(x) + Value8(y) = Value8(r) + Two64 * c[8]
  <2>1. PICK x1 \in Nat, x2 \in Nat, x3 \in Nat, x4 \in Nat, x5 \in Nat, x6 \in Nat, x7 \in Nat, x8 \in Nat :
           /\ x1 = x[1] /\ x2 = x[2] /\ x3 = x[3] /\ x4 = x[4]
           /\ x5 = x[5] /\ x6 = x[6] /\ x7 = x[7] /\ x8 = x[8]
    BY <1>8
  <2>2. PICK y1 \in Nat, y2 \in Nat, y3 \in Nat, y4 \in Nat, y5 \in Nat, y6 \in Nat, y7 \in Nat, y8 \in Nat :
           /\ y1 = y[1] /\ y2 = y[2] /\ y3 = y[3] /\ y4 = y[4]
           /\ y5 = y[5] /\ y6 = y[6] /\ y7 = y[7] /\ y8 = y[8]
    BY <1>8
  <2>3. PICK c1 \in Nat, c2 \in Nat, c3 \in Nat, c4 \in Nat, c5 \in Nat, c6 \in Nat, c7 \in Nat, c8 \in Nat :
           /\ c1 = c[1] /\ c2 = c[2] /\ c3 = c[3] /\ c4 = c[4]
           /\ c5 = c[5] /\ c6 = c[6] /\ c7 = c[7] /\ c8 = c[8]
    BY <1>8
  <2>4. PICK r1 \in Nat, r2 \in Nat, r3 \in Nat, r4 \in Nat, r5 \in Nat, r6 \in Nat, r7 \in Nat, r8 \in Nat :
           /\ r1 = r[1] /\ r2 = r[2] /\ r3 = r[3] /\ r4 = r[4]
           /\ r5 = r[5] /\ r6 = r[6] /\ r7 = r[7] /\ r8 = r[8]
    BY <1>8
  <2>5. /\ x1 + y1 = r1 + 256 * c1
        /\ x2 + y2 + c1 = r2 + 256 * c2
        /\ x3 + y3 + c2 = r3 + 256 * c3
        /\ x4 + y4 + c3 = r4 + 256 * c4
        /\ x5 + y5 + c4 = r5 + 256 * c5
        /\ x6 + y6 + c5 = r6 + 256 * c6
        /\ x7 + y7 + c6 = r7 + 256 * c7
        /\ x8 + y8 + c7 = r8 + 256 * c8
    BY <1>7, <2>1, <2>2, <2>3, <2>4
  <2>6. PICK xl \in Nat : xl = x1 + 256 * (x2 + 256 * (x3 + 256 * (x4)))
    OBVIOUS
  <2>7. PICK xh \in Nat : xh = x5 + 256 * (x6 + 256 * (x7 + 256 * (x8)))
    OBVIOUS
  <2>8. PICK yl \in Nat : yl = y1 + 256 * (y2 + 256 * (y3 + 256 * (y4)))
    OBVIOUS
  <2>9. PICK yh \in Nat : yh = y5 + 256 * (y6 + 256 * (y7 + 256 * (y8)))
    OBVIOUS
  <2>10. PICK rl \in Nat : rl = r1 + 256 * (r2 + 256 * (r3 + 256 * (r4)))
    OBVIOUS
  <2>11. PICK rh \in Nat : rh = r5 + 256 * (r6 + 256 * (r7 + 256 * (r8)))
    OBVIOUS
  <2>12. xl + yl = rl + Two32 * c4
    BY <2>5, <2>6, <2>8, <2>10, SMT DEF Two32
  <2>13. xh + yh + c4 = rh + Two32 * c8
    BY <2>5, <2>7, <2>9, <2>11, SMT DEF Two32
  <2>14. (xl + Two32 * xh) + (yl + Two32 * yh) = (rl + Two32 * rh) + Two64 * c8
    <3>1. PICK b \in Nat : b = Two32
      BY DEF Two32
    <3>2. b * (xh + yh + c4) = b * (rh + b * c8)
      BY <2>13, <3>1
    <3>3. (xl + b * xh) + (yl + b * yh) = (rl + b * rh) + (b * b) * c8
      BY <2>12, <3>1, <3>2, SMT
    <3> QED BY <3>1, <3>3, Zenon DEF Two64
  <2>15. Value8(x) = xl + Two32 * xh
    <3>1. Value4(x) = x1 + 256 * (x2 + 256 * (x3 + 256 * (x4)))
      BY <2>1 DEF Value4
    <3>2. x[5] + 256 * (x[6] + 256 * (x[7] + 256 * x[8])) = x5 + 256 * (x6 + 256 * (x7 + 256 * (x8)))
      BY <2>1
    <3> QED BY <2>6, <2>7, <3>1, <3>2 DEF Value8
  <2>16. Value8(y) = yl + Two32 * yh
    <3>1. Value4(y) = y1 + 256 * (y2 + 256 * (y3 + 256 * (y4)))
      BY <2>2 DEF Value4
    <3>2. y[5] + 256 * (y[6] + 256 * (y[7] + 256 * y[8])) = y5 + 256 * (y6 + 256 * (y7 + 256 * (y8)))
      BY <2>2
    <3> QED BY <2>8, <2>9, <3>1, <3>2 DEF Value8
  <2>17. Value8(r) = rl + Two32 * rh
    <3>1. Value4(r) = r1 + 256 * (r2 + 256 * (r3 + 256 * (r4)))
      BY <2>4 DEF Value4
    <3>2. r[5] + 256 * (r[6] + 256 * (r[7] + 256 * r[8])) = r5 + 256 * (r6 + 256 * (r7 + 256 * (r8)))
      BY <2>4
    <3> QED BY <2>10, <2>11, <3>1, <3>2 DEF Value8
  <2>18. c[8] = c8
    BY <2>3
  <2> QED BY <2>14, <2>15, <2>16, <2>17, <2>18, Zenon
<1> QED BY <1>5, <1>8, <1>9 DEF r

\* A number and its word: what does not fit is dropped.
LEMMA Divided ==
  ASSUME NEW k \in Nat
  PROVE  k \div 256 \in Nat /\ k % 256 \in Byte /\ k = (k % 256) + 256 * (k \div 256)
BY DEF Byte

\* Word of four bytes.
LEMMA Word4 ==
  ASSUME NEW v \in Nat
  PROVE  /\ IsWord(Word(v, 4), 4)
         /\ \E k \in Nat : v = Value4(Word(v, 4)) + Two32 * k
<1> DEFINE Is(g) == g = [i \in 1..4 |-> IF i = 1 THEN v ELSE g[i - 1] \div 256]
           f == CHOOSE g : Is(g)
           h == <<v, v \div 256, (v \div 256) \div 256, ((v \div 256) \div 256) \div 256>>
           w == [i \in 1..4 |-> f[i] % 256]
<1>1. Is(h)
  <2>1. h[1] = v /\ h[2] = h[1] \div 256 /\ h[3] = h[2] \div 256 /\ h[4] = h[3] \div 256
    OBVIOUS
  <2>2. h = [i \in 1..4 |-> h[i]]
    OBVIOUS
  <2> HIDE DEF h
  <2>3. ASSUME NEW i \in 1..4 PROVE h[i] = IF i = 1 THEN v ELSE h[i - 1] \div 256
    <3>1. i = 1 \/ i = 2 \/ i = 3 \/ i = 4
      OBVIOUS
    <3> QED BY <2>1, <3>1
  <2> QED BY <2>2, <2>3
<1>2. Is(f)
  <2> HIDE DEF Is, h
  <2> QED BY <1>1
<1> HIDE DEF f
<1>3. f[1] = v /\ f[2] = f[1] \div 256 /\ f[3] = f[2] \div 256 /\ f[4] = f[3] \div 256
  BY <1>2
<1>4. f[1] \in Nat /\ f[1] % 256 \in Byte /\ f[1] = (f[1] % 256) + 256 * f[2]
  BY <1>3, Divided
<1>5. f[2] \in Nat /\ f[2] % 256 \in Byte /\ f[2] = (f[2] % 256) + 256 * f[3]
  BY <1>3, <1>4, Divided
<1>6. f[3] \in Nat /\ f[3] % 256 \in Byte /\ f[3] = (f[3] % 256) + 256 * f[4]
  BY <1>3, <1>5, Divided
<1>7. f[4] \in Nat /\ f[4] % 256 \in Byte /\ f[4] \div 256 \in Nat
      /\ f[4] = (f[4] % 256) + 256 * (f[4] \div 256)
  BY <1>3, <1>6, Divided
<1>8. w \in Seq(Byte) /\ Len(w) = 4 /\ \A i \in 1..4 : w[i] \in Nat
  <2>1. \A i \in 1..4 : f[i] % 256 \in Byte
    <3>1. \A i \in 1..4 : i = 1 \/ i = 2 \/ i = 3 \/ i = 4
      OBVIOUS
    <3> QED BY <1>4, <1>5, <1>6, <1>7, <3>1
  <2>2. \A b \in Byte : b \in Nat
    BY DEF Byte
  <2>3. w \in Seq(Byte) /\ Len(w) = 4
    BY <2>1
  <2> QED BY <2>1, <2>2, <2>3
<1>9. w[1] = f[1] % 256 /\ w[2] = f[2] % 256 /\ w[3] = f[3] % 256 /\ w[4] = f[4] % 256
  OBVIOUS
<1> HIDE DEF w
<1>10. Word(v, 4) = w
  <2>1. Word(v, 4) = Now(w)
    BY DEF Word, f, w
  <2> QED BY <1>8, <2>1, NowIs
<1>11. v = Value4(w) + Two32 * (f[4] \div 256)
  <2>1. w[1] \in Nat /\ w[2] \in Nat /\ w[3] \in Nat /\ w[4] \in Nat
    BY <1>8
  <2>2. /\ f[1] = w[1] + 256 * f[2] /\ f[2] = w[2] + 256 * f[3] /\ f[3] = w[3] + 256 * f[4]
        /\ f[4] = w[4] + 256 * (f[4] \div 256)
    BY <1>4, <1>5, <1>6, <1>7, <1>9
  <2> DEFINE e == f[4] \div 256
  <2>3. e \in Nat /\ f[1] \in Nat /\ f[2] \in Nat /\ f[3] \in Nat /\ f[4] \in Nat
    BY <1>4, <1>5, <1>6, <1>7
  <2> HIDE DEF e
  <2>4. f[4] = w[4] + 256 * e
    BY <2>2 DEF e
  <2>5. v = f[1]
    BY <1>3
  <2>6. PICK w1 \in Nat, w2 \in Nat, w3 \in Nat, w4 \in Nat :
           w1 = w[1] /\ w2 = w[2] /\ w3 = w[3] /\ w4 = w[4]
    BY <2>1
  <2>7. PICK f1 \in Nat, f2 \in Nat, f3 \in Nat, f4 \in Nat :
           f1 = f[1] /\ f2 = f[2] /\ f3 = f[3] /\ f4 = f[4]
    BY <2>3
  <2>8. f1 = w1 + 256 * f2 /\ f2 = w2 + 256 * f3 /\ f3 = w3 + 256 * f4 /\ f4 = w4 + 256 * e
    BY <2>2, <2>4, <2>6, <2>7
  <2>9. f1 = (w1 + 256 * (w2 + 256 * (w3 + 256 * (w4)))) + Two32 * e
    BY <2>3, <2>8, SMT DEF Two32
  <2>10. Value4(w) = w1 + 256 * (w2 + 256 * (w3 + 256 * (w4)))
    BY <2>6 DEF Value4
  <2>11. v = Value4(w) + Two32 * e
    BY <2>5, <2>7, <2>9, <2>10, Zenon
  <2> QED BY <2>11 DEF e
<1> QED BY <1>7, <1>8, <1>10, <1>11 DEF IsWord

\* Word of eight bytes.
LEMMA Word8 ==
  ASSUME NEW v \in Nat
  PROVE  /\ IsWord(Word(v, 8), 8)
         /\ \E k \in Nat : v = Value8(Word(v, 8)) + Two64 * k
<1> DEFINE Is(g) == g = [i \in 1..8 |-> IF i = 1 THEN v ELSE g[i - 1] \div 256]
           f == CHOOSE g : Is(g)
           h2 == v \div 256    h3 == h2 \div 256   h4 == h3 \div 256   h5 == h4 \div 256
           h6 == h5 \div 256   h7 == h6 \div 256   h8 == h7 \div 256
           h == <<v, h2, h3, h4, h5, h6, h7, h8>>
           w == [i \in 1..8 |-> f[i] % 256]
<1>1. Is(h)
  <2>1. /\ h[1] = v /\ h[2] = h[1] \div 256 /\ h[3] = h[2] \div 256 /\ h[4] = h[3] \div 256
        /\ h[5] = h[4] \div 256 /\ h[6] = h[5] \div 256
        /\ h[7] = h[6] \div 256 /\ h[8] = h[7] \div 256
    OBVIOUS
  <2>2. h = [i \in 1..8 |-> h[i]]
    <3> HIDE DEF h2, h3, h4, h5, h6, h7, h8
    <3> QED OBVIOUS
  <2> HIDE DEF h
  <2>3. ASSUME NEW i \in 1..8 PROVE h[i] = IF i = 1 THEN v ELSE h[i - 1] \div 256
    <3>1. i = 1 \/ i = 2 \/ i = 3 \/ i = 4 \/ i = 5 \/ i = 6 \/ i = 7 \/ i = 8
      OBVIOUS
    <3>2. i = 1 => h[i] = v
      BY <2>1
    <3>3. ASSUME i = 2 PROVE h[i] = h[i - 1] \div 256
      <4>1. i - 1 = 1
        BY <3>3
      <4>2. h[2] = h[1] \div 256
        BY <2>1
      <4> QED BY <3>3, <4>1, <4>2, Zenon
    <3>4. ASSUME i = 3 PROVE h[i] = h[i - 1] \div 256
      <4>1. i - 1 = 2
        BY <3>4
      <4>2. h[3] = h[2] \div 256
        BY <2>1
      <4> QED BY <3>4, <4>1, <4>2, Zenon
    <3>5. ASSUME i = 4 PROVE h[i] = h[i - 1] \div 256
      <4>1. i - 1 = 3
        BY <3>5
      <4>2. h[4] = h[3] \div 256
        BY <2>1
      <4> QED BY <3>5, <4>1, <4>2, Zenon
    <3>6. ASSUME i = 5 PROVE h[i] = h[i - 1] \div 256
      <4>1. i - 1 = 4
        BY <3>6
      <4>2. h[5] = h[4] \div 256
        BY <2>1
      <4> QED BY <3>6, <4>1, <4>2, Zenon
    <3>7. ASSUME i = 6 PROVE h[i] = h[i - 1] \div 256
      <4>1. i - 1 = 5
        BY <3>7
      <4>2. h[6] = h[5] \div 256
        BY <2>1
      <4> QED BY <3>7, <4>1, <4>2, Zenon
    <3>8. ASSUME i = 7 PROVE h[i] = h[i - 1] \div 256
      <4>1. i - 1 = 6
        BY <3>8
      <4>2. h[7] = h[6] \div 256
        BY <2>1
      <4> QED BY <3>8, <4>1, <4>2, Zenon
    <3>9. ASSUME i = 8 PROVE h[i] = h[i - 1] \div 256
      <4>1. i - 1 = 7
        BY <3>9
      <4>2. h[8] = h[7] \div 256
        BY <2>1
      <4> QED BY <3>9, <4>1, <4>2, Zenon
    <3> HIDE DEF h2, h3, h4, h5, h6, h7, h8
    <3> QED BY <3>1, <3>2, <3>3, <3>4, <3>5, <3>6, <3>7, <3>8, <3>9
  <2> QED BY <2>2, <2>3
<1>2. Is(f)
  <2> HIDE DEF Is, h
  <2> QED BY <1>1
<1> HIDE DEF f
<1>3. f = [i \in 1..8 |-> IF i = 1 THEN v ELSE f[i - 1] \div 256]
  BY <1>2
<1>4. f[1] = v /\ \A i \in 1..7 : f[i + 1] = f[i] \div 256
  <2>1. f[1] = v
    BY <1>3
  <2>2. ASSUME NEW i \in 1..7 PROVE f[i + 1] = f[i] \div 256
    <3>1. i + 1 \in 1..8 /\ i + 1 # 1 /\ (i + 1) - 1 = i
      OBVIOUS
    <3> QED BY <1>3, <3>1
  <2> QED BY <2>1, <2>2
<1> DEFINE T(i) == f[i] \in Nat
<1>5. \A i \in 1..7 : T(i) => T(i + 1)
  <2>1. ASSUME NEW i \in 1..7, T(i) PROVE f[i] \div 256 \in Nat
    BY <2>1, Divided
  <2> QED BY <1>4, <2>1
<1>6. T(1) /\ T(2) /\ T(3) /\ T(4) /\ T(5) /\ T(6) /\ T(7) /\ T(8)
  <2>1. T(1)
    BY <1>4
  <2> HIDE DEF T
  <2>2. /\ 1 \in 1..7 /\ 2 \in 1..7 /\ 3 \in 1..7 /\ 4 \in 1..7 /\ 5 \in 1..7 /\ 6 \in 1..7 /\ 7 \in 1..7
        /\ 1 + 1 = 2 /\ 2 + 1 = 3 /\ 3 + 1 = 4 /\ 4 + 1 = 5 /\ 5 + 1 = 6 /\ 6 + 1 = 7 /\ 7 + 1 = 8
    OBVIOUS
  <2> QED BY <1>5, <2>1, <2>2
<1>7. \A i \in 1..8 : f[i] \in Nat
  <2>1. \A i \in 1..8 : i = 1 \/ i = 2 \/ i = 3 \/ i = 4 \/ i = 5 \/ i = 6 \/ i = 7 \/ i = 8
    OBVIOUS
  <2> QED BY <1>6, <2>1
<1>8. /\ w \in Seq(Byte) /\ Len(w) = 8
      /\ \A i \in 1..8 : w[i] \in Nat /\ f[i] = w[i] + 256 * (f[i] \div 256)
  <2>1. \A i \in 1..8 : f[i] % 256 \in Byte /\ f[i] = (f[i] % 256) + 256 * (f[i] \div 256)
    BY <1>7, Divided
  <2>2. \A b \in Byte : b \in Nat
    BY DEF Byte
  <2>3. w \in Seq(Byte) /\ Len(w) = 8
    BY <2>1
  <2>4. \A i \in 1..8 : w[i] = f[i] % 256
    OBVIOUS
  <2> HIDE DEF w
  <2> QED BY <2>1, <2>2, <2>3, <2>4
<1> HIDE DEF w
<1>9. Word(v, 8) = w
  <2>1. Word(v, 8) = Now(w)
    BY DEF Word, f, w
  <2> QED BY <1>8, <2>1, NowIs
<1>10. \E k \in Nat : v = Value8(w) + Two64 * k
  <2>1. PICK e \in Nat : e = f[8] \div 256
    BY <1>7, Divided
  <2>2. PICK w1 \in Nat, w2 \in Nat, w3 \in Nat, w4 \in Nat, w5 \in Nat, w6 \in Nat, w7 \in Nat, w8 \in Nat :
           /\ w1 = w[1] /\ w2 = w[2] /\ w3 = w[3] /\ w4 = w[4]
           /\ w5 = w[5] /\ w6 = w[6] /\ w7 = w[7] /\ w8 = w[8]
    <3>1. /\ w[1] \in Nat /\ w[2] \in Nat /\ w[3] \in Nat /\ w[4] \in Nat
          /\ w[5] \in Nat /\ w[6] \in Nat /\ w[7] \in Nat /\ w[8] \in Nat
      BY <1>7, <1>8
    <3> QED BY <3>1
  <2>3. PICK f1 \in Nat, f2 \in Nat, f3 \in Nat, f4 \in Nat, f5 \in Nat, f6 \in Nat, f7 \in Nat, f8 \in Nat :
           /\ f1 = f[1] /\ f2 = f[2] /\ f3 = f[3] /\ f4 = f[4]
           /\ f5 = f[5] /\ f6 = f[6] /\ f7 = f[7] /\ f8 = f[8]
    <3>1. /\ f[1] \in Nat /\ f[2] \in Nat /\ f[3] \in Nat /\ f[4] \in Nat
          /\ f[5] \in Nat /\ f[6] \in Nat /\ f[7] \in Nat /\ f[8] \in Nat
      BY <1>7, <1>8
    <3> QED BY <3>1
  <2>4. /\ f1 = w1 + 256 * f2
        /\ f2 = w2 + 256 * f3
        /\ f3 = w3 + 256 * f4
        /\ f4 = w4 + 256 * f5
        /\ f5 = w5 + 256 * f6
        /\ f6 = w6 + 256 * f7
        /\ f7 = w7 + 256 * f8
        /\ f8 = w8 + 256 * e
    <3>1. ASSUME NEW i \in 1..7 PROVE f[i] = w[i] + 256 * f[i + 1]
      <4>1. i \in 1..8
        OBVIOUS
      <4>2. f[i] = w[i] + 256 * (f[i] \div 256)
        BY <1>8, <4>1
      <4>3. f[i + 1] = f[i] \div 256
        BY <1>4
      <4> QED BY <4>2, <4>3, Zenon
    <3>2. /\ f[1] = w[1] + 256 * f[2] /\ f[2] = w[2] + 256 * f[3] /\ f[3] = w[3] + 256 * f[4]
          /\ f[4] = w[4] + 256 * f[5] /\ f[5] = w[5] + 256 * f[6] /\ f[6] = w[6] + 256 * f[7]
          /\ f[7] = w[7] + 256 * f[8]
      BY <3>1
    <3>3. f[8] = w[8] + 256 * e
      BY <1>8, <2>1
    <3> QED BY <2>2, <2>3, <3>2, <3>3
  <2>5. PICK wl \in Nat : wl = w1 + 256 * (w2 + 256 * (w3 + 256 * (w4)))
    OBVIOUS
  <2>6. PICK wh \in Nat : wh = w5 + 256 * (w6 + 256 * (w7 + 256 * (w8)))
    OBVIOUS
  <2>7. f1 = wl + Two32 * f5
    BY <2>4, <2>5, SMT DEF Two32
  <2>8. f5 = wh + Two32 * e
    BY <2>4, <2>6, SMT DEF Two32
  <2>9. f1 = (wl + Two32 * wh) + Two64 * e
    <3>1. PICK b \in Nat : b = Two32
      BY DEF Two32
    <3>2. b * f5 = b * (wh + b * e)
      BY <2>8, <3>1
    <3>3. f1 = (wl + b * wh) + (b * b) * e
      BY <2>7, <3>1, <3>2, SMT
    <3> QED BY <3>1, <3>3, Zenon DEF Two64
  <2>10. Value8(w) = wl + Two32 * wh
    <3>1. Value4(w) = w1 + 256 * (w2 + 256 * (w3 + 256 * (w4)))
      BY <2>2 DEF Value4
    <3>2. w[5] + 256 * (w[6] + 256 * (w[7] + 256 * w[8])) = w5 + 256 * (w6 + 256 * (w7 + 256 * (w8)))
      BY <2>2
    <3> QED BY <2>5, <2>6, <3>1, <3>2 DEF Value8
  <2>11. v = f1
    BY <1>4, <2>3
  <2> QED BY <2>9, <2>10, <2>11
<1> QED BY <1>8, <1>9, <1>10 DEF IsWord

\* The four bytes of a word.
LEMMA Digits4 ==
  ASSUME NEW x, IsWord(x, 4)
  PROVE  x[1] \in 0..255 /\ x[2] \in 0..255 /\ x[3] \in 0..255 /\ x[4] \in 0..255
<1>1. \A i \in 1..4 : x[i] \in Byte
  BY WordIs
<1> QED BY <1>1 DEF Byte

\* Its range.
LEMMA Value4Is ==
  ASSUME NEW x, IsWord(x, 4)
  PROVE  Value4(x) \in Nat /\ Value4(x) < Two32
<1>1. PICK x1 \in 0..255, x2 \in 0..255, x3 \in 0..255, x4 \in 0..255 :
         x[1] = x1 /\ x[2] = x2 /\ x[3] = x3 /\ x[4] = x4
  BY Digits4
<1>2. Value4(x) = x1 + 256 * (x2 + 256 * (x3 + 256 * (x4)))
  BY <1>1 DEF Value4
<1> QED BY <1>2 DEF Two32

\* Words of equal value are equal.
LEMMA Unique4 ==
  ASSUME NEW x, NEW y, IsWord(x, 4), IsWord(y, 4), Value4(x) = Value4(y)
  PROVE  x = y
<1>1. PICK x1 \in 0..255, x2 \in 0..255, x3 \in 0..255, x4 \in 0..255 :
         x[1] = x1 /\ x[2] = x2 /\ x[3] = x3 /\ x[4] = x4
  BY Digits4
<1>1a. Value4(x) = x1 + 256 * (x2 + 256 * (x3 + 256 * (x4)))
  BY <1>1 DEF Value4
<1>2. PICK y1 \in 0..255, y2 \in 0..255, y3 \in 0..255, y4 \in 0..255 :
         y[1] = y1 /\ y[2] = y2 /\ y[3] = y3 /\ y[4] = y4
  BY Digits4
<1>2a. Value4(y) = y1 + 256 * (y2 + 256 * (y3 + 256 * (y4)))
  BY <1>2 DEF Value4
<1>3. x1 + 256 * (x2 + 256 * (x3 + 256 * (x4))) = y1 + 256 * (y2 + 256 * (y3 + 256 * (y4)))
  <2>1. PICK p \in Nat : p = x1 + 256 * (x2 + 256 * (x3 + 256 * (x4)))
    OBVIOUS
  <2>2. PICK q \in Nat : q = y1 + 256 * (y2 + 256 * (y3 + 256 * (y4)))
    OBVIOUS
  <2>3. Value4(x) = p /\ Value4(y) = q
    BY <1>1a, <1>2a, <2>1, <2>2
  <2>4. p = q
    BY <2>3
  <2> QED BY <2>1, <2>2, <2>4
<1>4. x1 = y1 /\ x2 = y2 /\ x3 = y3 /\ x4 = y4
  BY <1>3
<1>5. x \in Seq(Byte) /\ y \in Seq(Byte) /\ Len(x) = 4 /\ Len(y) = 4
  BY WordIs
<1>6. ASSUME NEW i \in 1..4 PROVE x[i] = y[i]
  <2>1. i = 1 \/ i = 2 \/ i = 3 \/ i = 4
    OBVIOUS
  <2> QED BY <1>1, <1>2, <1>4, <2>1
<1> QED BY <1>5, <1>6, SeqEqual

\* Less compares their values.
LEMMA Less4 ==
  ASSUME NEW x, NEW y, IsWord(x, 4), IsWord(y, 4)
  PROVE  Less(x, y) <=> Value4(x) < Value4(y)
<1>1. PICK x1 \in 0..255, x2 \in 0..255, x3 \in 0..255, x4 \in 0..255 :
         x[1] = x1 /\ x[2] = x2 /\ x[3] = x3 /\ x[4] = x4
  BY Digits4
<1>1a. Value4(x) = x1 + 256 * (x2 + 256 * (x3 + 256 * (x4)))
  BY <1>1 DEF Value4
<1>2. PICK y1 \in 0..255, y2 \in 0..255, y3 \in 0..255, y4 \in 0..255 :
         y[1] = y1 /\ y[2] = y2 /\ y[3] = y3 /\ y[4] = y4
  BY Digits4
<1>2a. Value4(y) = y1 + 256 * (y2 + 256 * (y3 + 256 * (y4)))
  BY <1>2 DEF Value4
<1>3. DOMAIN x = 1..4 /\ Len(x) = 4
  <2>1. x \in Seq(Byte) /\ Len(x) = 4
    BY WordIs
  <2> QED BY ONLY <2>1
<1> DEFINE L(i) == x[i] < y[i] /\ \A j \in (i + 1)..4 : x[j] = y[j]
<1>4. Less(x, y) <=> \E i \in 1..4 : L(i)
  BY <1>3 DEF Less
<1>5. (\E i \in 1..4 : L(i)) <=> (L(1) \/ L(2) \/ L(3) \/ L(4))
  <2> HIDE DEF L
  <2>1. \A i \in 1..4 : i = 1 \/ i = 2 \/ i = 3 \/ i = 4
    OBVIOUS
  <2>2. 1 \in 1..4 /\ 2 \in 1..4 /\ 3 \in 1..4 /\ 4 \in 1..4
    OBVIOUS
  <2> QED BY <2>1, <2>2
<1>6. /\ L(1) <=> (x1 < y1 /\ x2 = y2 /\ x3 = y3 /\ x4 = y4)
      /\ L(2) <=> (x2 < y2 /\ x3 = y3 /\ x4 = y4)
      /\ L(3) <=> (x3 < y3 /\ x4 = y4)
      /\ L(4) <=> x4 < y4
  <2>1. (1 + 1)..4 = {2, 3, 4} /\ (2 + 1)..4 = {3, 4} /\ (3 + 1)..4 = {4} /\ (4 + 1)..4 = {}
    OBVIOUS
  <2> QED BY <1>1, <1>2, <2>1
<1>7. (x1 + 256 * (x2 + 256 * (x3 + 256 * (x4))) < y1 + 256 * (y2 + 256 * (y3 + 256 * (y4))))
        <=> \/ x1 < y1 /\ x2 = y2 /\ x3 = y3 /\ x4 = y4
            \/ x2 < y2 /\ x3 = y3 /\ x4 = y4
            \/ x3 < y3 /\ x4 = y4
            \/ x4 < y4
  OBVIOUS
<1> HIDE DEF L
<1> QED BY <1>1a, <1>2a, <1>4, <1>5, <1>6, <1>7

\* Two words of four bytes, the low one first, are one of eight.
LEMMA Join44 ==
  ASSUME NEW x, NEW y, IsWord(x, 4), IsWord(y, 4)
  PROVE  IsWord(x \o y, 8) /\ Value8(x \o y) = Value4(x) + Two32 * Value4(y)
<1> DEFINE z == x \o y
<1>1. x \in Seq(Byte) /\ y \in Seq(Byte) /\ Len(x) = 4 /\ Len(y) = 4
  BY WordIs
<1>2. /\ z \in Seq(Byte) /\ Len(z) = 8
      /\ z[1] = x[1] /\ z[2] = x[2] /\ z[3] = x[3] /\ z[4] = x[4]
      /\ z[5] = y[1] /\ z[6] = y[2] /\ z[7] = y[3] /\ z[8] = y[4]
  <2>1. /\ z \in Seq(Byte) /\ Len(z) = 8
        /\ \A i \in 1..4 : z[i] = x[i]
        /\ \A i \in 1..4 : z[4 + i] = y[i]
    <3>1. /\ z \in Seq(Byte) /\ Len(z) = Len(x) + Len(y)
          /\ \A i \in 1..Len(x) : z[i] = x[i]
          /\ \A i \in 1..Len(y) : z[Len(x) + i] = y[i]
      <4>1. x \in Seq(Byte) /\ y \in Seq(Byte)
        BY <1>1
      <4> QED BY ONLY <4>1
    <3> HIDE DEF z
    <3> QED BY <1>1, <3>1
  <2>2. 4 + 1 = 5 /\ 4 + 2 = 6 /\ 4 + 3 = 7 /\ 4 + 4 = 8
    OBVIOUS
  <2>3. 1 \in 1..4 /\ 2 \in 1..4 /\ 3 \in 1..4 /\ 4 \in 1..4
    OBVIOUS
  <2> QED BY ONLY <2>1, <2>2, <2>3, Zenon
<1> HIDE DEF z
<1>3. Value4(z) = Value4(x)
  BY <1>2 DEF Value4
<1>4. Value8(z) = Value4(x) + Two32 * Value4(y)
  BY <1>2, <1>3, Zenon DEF Value8, Value4
<1> QED BY <1>2, <1>4 DEF z, IsWord

\* A multiple of m that is smaller is zero.
LEMMA Multiple ==
  ASSUME NEW m \in Nat, m > 0, NEW e \in Int, NEW a \in Int, NEW c \in Int,
         a - c = m * e, a - c < m, c - a < m
  PROVE  e = 0
<1>1. CASE e >= 1
  <2>1. m * e >= m * 1
    BY <1>1
  <2> QED BY <2>1
<1>2. CASE e <= -1
  <2>1. m * e <= m * (-1)
    BY <1>2
  <2> QED BY <2>1
<1> QED BY <1>1, <1>2

\* Words of eight bytes, equal modulo 2^64, are equal.
LEMMA Unique8 ==
  ASSUME NEW x, NEW y, NEW z, NEW t, IsWord(x, 4), IsWord(y, 4), IsWord(z, 4), IsWord(t, 4),
         NEW k \in Int, NEW l \in Int,
         Value8(x \o y) + Two64 * k = Value8(z \o t) + Two64 * l
  PROVE  x \o y = z \o t
<1>1. PICK a \in Nat : a = Value4(x) /\ a < Two32
  BY Value4Is
<1>2. PICK b \in Nat : b = Value4(y) /\ b < Two32
  BY Value4Is
<1>3. PICK c \in Nat : c = Value4(z) /\ c < Two32
  BY Value4Is
<1>4. PICK d \in Nat : d = Value4(t) /\ d < Two32
  BY Value4Is
<1>5. (a + Two32 * b) + Two64 * k = (c + Two32 * d) + Two64 * l
  <2>1. Value8(x \o y) = a + Two32 * b /\ Value8(z \o t) = c + Two32 * d
    BY <1>1, <1>2, <1>3, <1>4, Join44
  <2> QED BY <2>1
<1>6. PICK m \in Nat : m = Two32 /\ m > 0
  BY DEF Two32
<1>7. a = c /\ b = d
  <2>1. (a + m * b) + (m * m) * k = (c + m * d) + (m * m) * l
    BY <1>5, <1>6, Zenon DEF Two64
  <2>2. PICK e \in Int : e = (d - b) + m * (l - k)
    OBVIOUS
  <2>3. a - c = m * e
    BY <2>1, <2>2, SMT
  <2>4. a < m /\ b < m /\ c < m /\ d < m
    BY <1>1, <1>2, <1>3, <1>4, <1>6
  <2>5. e = 0
    <3>1. a - c < m /\ c - a < m
      BY <2>4
    <3> QED BY <2>3, <3>1, <1>6, Multiple
  <2>6. PICK f \in Int : f = k - l
    OBVIOUS
  <2>7. d - b = m * f
    BY <2>2, <2>5, <2>6, SMT
  <2>8. f = 0
    <3>1. d - b < m /\ b - d < m
      BY <2>4
    <3> QED BY <2>7, <3>1, <1>6, Multiple
  <2> QED BY <2>3, <2>5, <2>7, <2>8
<1>8. x = z /\ y = t
  BY <1>1, <1>2, <1>3, <1>4, <1>7, Unique4
<1> QED BY <1>8

-----------------------------------------------------------------------------
(* The number of bits in SHA-1's two counters                              *)

\* The two counters are a number, modulo 2^64.
HasCount(count, v) ==
  /\ IsWord(count[1], 4) /\ IsWord(count[2], 4)
  /\ \E k \in Int : v = Value8(count[1] \o count[2]) + Two64 * k

\* What was counted before is whole blocks, and so is what Index adds to it.
WholeBlocks(b) == b \in Nat /\ \E z \in Nat : b = 512 * z

\* Whether a sum is smaller than a summand is its carry.
LEMMA CarryIs ==
  ASSUME NEW x, NEW y, IsWord(x, 4), IsWord(y, 4)
  PROVE  Value4(x) + Value4(y)
           = Value4(Add(x, y)) + Two32 * (IF Less(Add(x, y), x) THEN 1 ELSE 0)
<1> DEFINE r == Add(x, y)
<1>1. IsWord(r, 4)
  BY Add4
<1>2. PICK k \in Nat : Value4(x) + Value4(y) = Value4(r) + Two32 * k
  BY Add4
<1> HIDE DEF r
<1>3. PICK a \in Nat : a = Value4(x) /\ a < Two32
  BY Value4Is
<1>4. PICK b \in Nat : b = Value4(y) /\ b < Two32
  BY Value4Is
<1>5. PICK c \in Nat : c = Value4(r) /\ c < Two32
  BY <1>1, Value4Is
<1>6. Less(r, x) <=> c < a
  BY <1>1, <1>3, <1>5, Less4
<1>7. a + b = c + Two32 * k
  BY <1>2, <1>3, <1>4, <1>5
<1>8. k = 0 \/ k = 1
  BY <1>3, <1>4, <1>5, <1>7 DEF Two32
<1>9. a + b = c + Two32 * (IF c < a THEN 1 ELSE 0)
  BY <1>3, <1>4, <1>5, <1>7, <1>8 DEF Two32
<1> QED BY <1>3, <1>4, <1>5, <1>6, <1>9 DEF r

\* Counted adds the bits of a piece, whatever its length: the low counter carries into
\* the high one.
LEMMA CountedIs ==
  ASSUME NEW count, NEW v \in Nat, HasCount(count, v), NEW len \in Nat
  PROVE  HasCount(Counted(count, len), v + 8 * len)
<1> DEFINE bits == Word(8 * len, 4)
           low == Add(count[1], bits)
           carry == IF Less(low, count[1]) THEN 1 ELSE 0
           one == Word(carry, 4)
           q == len \div 2^29
           more == Word(q, 4)
           mid == Add(count[2], one)
           high == Add(mid, more)
<1>1. Counted(count, len) = <<low, high>>
  BY DEF Counted
<1>2. IsWord(count[1], 4) /\ IsWord(count[2], 4)
  BY DEF HasCount
<1>3. 8 * len \in Nat /\ carry \in Nat /\ q \in Nat
  OBVIOUS
<1>4. PICK k1 \in Nat : 8 * len = Value4(bits) + Two32 * k1
  BY <1>3, Word4
<1>5. PICK k2 \in Nat : carry = Value4(one) + Two32 * k2
  <2> HIDE DEF carry
  <2> QED BY <1>3, Word4
<1>6. PICK k3 \in Nat : q = Value4(more) + Two32 * k3
  <2> HIDE DEF q
  <2> QED BY <1>3, Word4
<1>7. IsWord(bits, 4) /\ IsWord(one, 4) /\ IsWord(more, 4)
  <2> HIDE DEF carry, q
  <2>1. PICK e \in Nat : e = 8 * len
    OBVIOUS
  <2>2. IsWord(Word(e, 4), 4)
    BY Word4
  <2> QED BY <1>3, <2>1, <2>2, Word4
<1> HIDE DEF bits, one, more
<1>8. Value4(count[1]) + Value4(bits) = Value4(low) + Two32 * carry
  BY <1>2, <1>7, CarryIs
<1>9. IsWord(low, 4) /\ IsWord(mid, 4)
  BY <1>2, <1>7, Add4
<1>10. PICK k4 \in Nat : Value4(count[2]) + Value4(one) = Value4(mid) + Two32 * k4
  BY <1>2, <1>7, Add4
<1>11. IsWord(high, 4)
  <2> HIDE DEF mid
  <2> QED BY <1>7, <1>9, Add4
<1>12. PICK k5 \in Nat : Value4(mid) + Value4(more) = Value4(high) + Two32 * k5
  <2> HIDE DEF mid
  <2> QED BY <1>7, <1>9, Add4
<1> HIDE DEF low, high, mid, carry, q
<1>13. k1 = q
  <2>1. PICK a \in Nat : a = Value4(bits) /\ a < Two32
    BY <1>7, Value4Is
  <2>2. 8 * len = a + Two32 * k1
    BY <1>4, <2>1
  <2> QED BY <2>1, <2>2 DEF Two32, q
<1>14. PICK k \in Int : v = Value8(count[1] \o count[2]) + Two64 * k
  BY DEF HasCount
<1>15. /\ Value8(count[1] \o count[2]) = Value4(count[1]) + Two32 * Value4(count[2])
       /\ Value8(low \o high) = Value4(low) + Two32 * Value4(high)
  BY <1>2, <1>9, <1>11, Join44
<1>16. \E l \in Int : v + 8 * len = Value8(low \o high) + Two64 * l
  <2>1. PICK a \in Nat, b \in Nat, c \in Nat, d \in Nat :
           /\ a = Value4(count[1]) /\ b = Value4(count[2])
           /\ c = Value4(low) /\ d = Value4(high)
    BY <1>2, <1>9, <1>11, Value4Is
  <2>2. PICK e \in Nat, f \in Nat, g \in Nat, h \in Nat :
           /\ e = Value4(bits) /\ f = Value4(one) /\ g = Value4(more) /\ h = Value4(mid)
    BY <1>7, <1>9, Value4Is
  <2>3. PICK m \in Nat : m = Two32
    BY DEF Two32
  <2>4. /\ 8 * len = e + m * q /\ carry = f + m * k2 /\ q = g + m * k3
        /\ a + e = c + m * carry /\ b + f = h + m * k4 /\ h + g = d + m * k5
    BY <1>4, <1>5, <1>6, <1>8, <1>10, <1>12, <1>13, <2>1, <2>2, <2>3
  <2>5. v = (a + m * b) + (m * m) * k
    BY <1>14, <1>15, <2>1, <2>3, Zenon DEF Two64
  <2>6. PICK l \in Int : l = k2 + k3 + k4 + k5
    OBVIOUS
  <2>7. d = b + carry + q - m * l
    BY <1>3, <2>4, <2>6, SMT
  <2>8. v + 8 * len = (c + m * d) + (m * m) * (k + l)
    BY <1>3, <2>4, <2>5, <2>7, SMT
  <2>9. Value8(low \o high) = c + m * d /\ Two64 = m * m
    BY <1>15, <2>1, <2>3 DEF Two64
  <2> QED BY <2>6, <2>8, <2>9
<1> QED BY <1>1, <1>9, <1>11, <1>16 DEF HasCount

\* Index is how many bytes of a block wait in the buffer.
LEMMA IndexIs ==
  ASSUME NEW c, NEW b, WholeBlocks(b), NEW len \in Nat, HasCount(c.count, b + 8 * len)
  PROVE  Index(c) = len % 64
<1> DEFINE x == c.count[1]
           y == c.count[2]
<1>1. IsWord(x, 4) /\ IsWord(y, 4)
  BY DEF HasCount
<1>2. PICK k \in Int : b + 8 * len = Value8(x \o y) + Two64 * k
  BY DEF HasCount
<1>3. PICK z \in Nat : b = 512 * z
  BY DEF WholeBlocks
<1>4. Index(c) = (x[1] \div 8) + 32 * (x[2] % 2)
  BY DEF Index
<1> HIDE DEF x, y
<1>5. PICK x1 \in 0..255, x2 \in 0..255, x3 \in 0..255, x4 \in 0..255 :
         x[1] = x1 /\ x[2] = x2 /\ x[3] = x3 /\ x[4] = x4
  BY <1>1, Digits4
<1>6. Value4(x) = x1 + 256 * (x2 + 256 * (x3 + 256 * x4))
  BY <1>5 DEF Value4
<1>7. PICK d \in Nat : d = Value4(y)
  BY <1>1, Value4Is
<1>8. Value8(x \o y) = (x1 + 256 * (x2 + 256 * (x3 + 256 * x4))) + Two32 * d
  BY <1>1, <1>6, <1>7, Join44
<1>9. \E e \in Int : 8 * len = x1 + 256 * x2 + 512 * e
  <2>1. PICK p \in Nat : Two32 = 512 * p
    <3>1. Two32 = 512 * (128 * (256 * 256))
      BY DEF Two32
    <3>2. 128 * (256 * 256) \in Nat
      OBVIOUS
    <3> QED BY <3>1, <3>2
  <2>2. PICK f \in Int : f = p * d
    OBVIOUS
  <2>3. Two32 * d = 512 * f
    <3>1. (512 * p) * d = 512 * (p * d)
      OBVIOUS
    <3> QED BY <2>1, <2>2, <3>1, Zenon
  <2>4. PICK g \in Int : g = p * (Two32 * k)
    BY <2>1
  <2>5. Two64 * k = 512 * g
    <3>1. PICK m \in Nat : m = Two32
      BY <2>1
    <3>2. (m * m) * k = m * (m * k)
      OBVIOUS
    <3>3. (512 * p) * (m * k) = 512 * (p * (m * k))
      OBVIOUS
    <3>4. Two64 * k = (m * m) * k
      BY <3>1, Zenon DEF Two64
    <3>5. m = 512 * p
      BY <2>1, <3>1, Zenon
    <3>6. m * (m * k) = (512 * p) * (m * k)
      BY <3>5, Zenon
    <3>7. g = p * (m * k)
      BY <2>4, <3>1, Zenon
    <3>8. Two64 * k = (512 * p) * (m * k)
      BY <3>2, <3>4, <3>6, Zenon
    <3>9. Two64 * k = 512 * (p * (m * k))
      BY <3>3, <3>8, Zenon
    <3> QED BY <3>7, <3>9, Zenon
  <2>6. 512 * z + 8 * len = (x1 + 256 * (x2 + 256 * (x3 + 256 * x4))) + 512 * f + 512 * g
    BY <1>2, <1>3, <1>8, <2>3, <2>5
  <2>7. PICK e \in Int : e = 128 * x3 + 32768 * x4 + f + g - z
    OBVIOUS
  <2>8. 8 * len = x1 + 256 * x2 + 512 * e
    BY <2>6, <2>7, SMT
  <2> QED BY <2>8
<1>10. PICK e \in Int : 8 * len = x1 + 256 * x2 + 512 * e
  BY <1>9
<1>11. (x1 \div 8) + 32 * (x2 % 2) = len % 64
  <2>1. PICK u \in Nat : u = x1 \div 8
    OBVIOUS
  <2>2. PICK t \in Int : t = x2 \div 2
    OBVIOUS
  <2>3. x1 = 8 * u /\ u < 32
    BY <1>10, <2>1
  <2>4. PICK r \in Nat : r = x2 % 2
    OBVIOUS
  <2>5. x2 = 2 * t + r /\ r < 2
    BY <2>2, <2>4
  <2>6. len = (u + 32 * r) + 64 * (t + e)
    BY <1>10, <2>3, <2>5
  <2>7. u + 32 * r < 64
    BY <2>3, <2>5
  <2>8. len % 64 = u + 32 * r
    BY <2>6, <2>7
  <2> QED BY <2>1, <2>4, <2>8
<1> QED BY <1>4, <1>5, <1>11

-----------------------------------------------------------------------------
(* SHA-1 of a message, whatever the pieces it is taken in                  *)

\* Block i after the first a elements begins after the first c of s.
BlockAt(S, s, a, i, c) == s \in Seq(S) /\ c = a + 64 * (i - 1) /\ c + 64 <= Len(s)

SameBlock(s, t, c, d) == Agree(s, t, c, d, 64)

\* Equal blocks of two sequences that have a common slice.
LEMMA BlocksEqual ==
  ASSUME NEW S, NEW s, NEW t,
         NEW a \in Nat, NEW b \in Nat, NEW i \in Nat, NEW j \in Nat,
         NEW c \in Nat, NEW d \in Nat, BlockAt(S, s, a, i, c), BlockAt(S, t, b, j, d),
         SameBlock(s, t, c, d)
  PROVE  Block64Of(s, a, i) = Block64Of(t, b, j)
<1>0. /\ s \in Seq(S) /\ t \in Seq(S)
      /\ c = a + 64 * (i - 1) /\ d = b + 64 * (j - 1)
      /\ c + 64 <= Len(s) /\ d + 64 <= Len(t)
  BY DEF BlockAt
<1>1. a + 64 * i = c + 64 /\ b + 64 * j = d + 64
  BY <1>0
<1>2. Block64Of(s, a, i) = SubSeq(s, c + 1, c + 64) /\ Block64Of(t, b, j) = SubSeq(t, d + 1, d + 64)
  BY <1>0, <1>1, Zenon DEF Block64Of
<1>3. SubSeq(s, c + 1, c + 64) = SubSeq(t, d + 1, d + 64)
  BY <1>0, PartsEqual DEF SameBlock
<1> QED BY <1>2, <1>3

\* A buffer is a block when it agrees with it.
LEMMA BufferIsBlock ==
  ASSUME NEW S, NEW buffer \in Seq(S), Len(buffer) = 64, NEW t,
         NEW b \in Nat, NEW j \in Nat, NEW d \in Nat, BlockAt(S, t, b, j, d),
         SameBlock(buffer, t, 0, d)
  PROVE  buffer = Block64Of(t, b, j)
<1>0. t \in Seq(S) /\ d = b + 64 * (j - 1) /\ d + 64 <= Len(t)
  BY DEF BlockAt
<1>1. b + 64 * j = d + 64
  BY <1>0
<1> DEFINE y == SubSeq(t, d + 1, d + 64)
<1>2. Block64Of(t, b, j) = y
  BY <1>0, <1>1, Zenon DEF Block64Of
<1>3. y \in Seq(S) /\ Len(y) = 64 /\ Agree(y, t, 0, d, 64)
  BY <1>0, PartIs
<1> HIDE DEF y
<1>4. ASSUME NEW k \in 1..64 PROVE buffer[k] = y[k]
  <2>1. y[0 + k] = t[d + k]
    BY <1>3, Zenon DEF Agree
  <2>2. buffer[0 + k] = t[d + k]
    BY Zenon DEF Agree, SameBlock
  <2>3. 0 + k = k
    OBVIOUS
  <2> QED BY <2>1, <2>2, <2>3, Zenon
<1>5. buffer = y
  <2>1. Len(buffer) = Len(y) /\ \A k \in 1..Len(buffer) : buffer[k] = y[k]
    BY <1>3, <1>4
  <2> QED BY <1>3, <2>1, SeqEqual
<1> QED BY <1>2, <1>5

CanStore(S, buffer, j, data) ==
  buffer \in Seq(S) /\ Len(buffer) = 64 /\ j \in Nat /\ data \in Seq(S)

IsStored(S, buffer, j, data, r) ==
  /\ r \in Seq(S) /\ Len(r) = 64
  /\ \A i \in 1..64 : /\ i > j /\ i <= j + Len(data) => r[i] = data[i - j]
                      /\ ~ (i > j /\ i <= j + Len(data)) => r[i] = buffer[i]

\* What Stored returns.
LEMMA StoredIs ==
  ASSUME NEW S, NEW buffer, NEW j, NEW data, CanStore(S, buffer, j, data)
  PROVE  IsStored(S, buffer, j, data, Stored(buffer, j, data))
<1>0. buffer \in Seq(S) /\ Len(buffer) = 64 /\ j \in Nat /\ data \in Seq(S)
  BY DEF CanStore
<1> DEFINE r == [i \in 1..64 |-> IF i > j /\ i <= j + Len(data) THEN data[i - j] ELSE buffer[i]]
<1>1. ASSUME NEW i \in 1..64
      PROVE  (IF i > j /\ i <= j + Len(data) THEN data[i - j] ELSE buffer[i]) \in S
  <2>1. i > j /\ i <= j + Len(data) => i - j \in 1..Len(data)
    BY <1>0
  <2>2. \A k \in 1..Len(data) : data[k] \in S
    BY <1>0
  <2>3. buffer[i] \in S
    <3>1. i \in 1..Len(buffer)
      <4>1. Len(buffer) = 64
        BY <1>0
      <4> QED BY ONLY <4>1
    <3> QED BY <1>0, <3>1, ElementOfSeq
  <2> QED BY <2>1, <2>2, <2>3
<1>2. r \in Seq(S) /\ Len(r) = 64
  BY <1>1
<1>3. Stored(buffer, j, data) = r
  BY DEF Stored
<1>4. \A i \in 1..64 : r[i] = IF i > j /\ i <= j + Len(data) THEN data[i - j] ELSE buffer[i]
  OBVIOUS
<1> HIDE DEF r
<1> QED BY <1>2, <1>3, <1>4 DEF IsStored

\* Quotient and remainder of a number of bytes by the length of a block.
LEMMA DivideBy64 ==
  ASSUME NEW k \in Nat
  PROVE  /\ k \div 64 \in Nat /\ k % 64 \in 0..63
         /\ k = 64 * (k \div 64) + (k % 64)
OBVIOUS

\* The numbers of a message of k bytes and a piece of m.
Numbers64(k, m, w, j, first, whole) ==
  /\ w = k \div 64 /\ j = k % 64
  /\ first = 64 - j
  /\ whole = (m - first) \div 64

\* They fit together: no byte is lost or taken twice.
LEMMA Numbers64Fit ==
  ASSUME NEW k \in Nat, NEW m \in Nat, NEW w, NEW j, NEW first, NEW whole,
         Numbers64(k, m, w, j, first, whole)
  PROVE  /\ w \in Nat /\ j \in 0..63 /\ k = 64 * w + j
         /\ first \in 1..64 /\ k + first = 64 * (w + 1)
         /\ ~ (j + m > 63) => (k + m) \div 64 = w /\ (k + m) % 64 = j + m
         /\ j + m > 63 =>
              /\ first <= m /\ whole \in Nat /\ first + 64 * whole <= m
              /\ (k + m) \div 64 = (w + 1) + whole
              /\ (k + m) % 64 = m - (first + 64 * whole)
<1>1. w = k \div 64 /\ j = k % 64 /\ first = 64 - j /\ whole = (m - first) \div 64
  BY DEF Numbers64
<1>2. w \in Nat /\ j \in 0..63 /\ k = 64 * w + j
  BY <1>1, DivideBy64
<1>3. first \in 1..64 /\ k + first = 64 * (w + 1)
  BY <1>1, <1>2
<1>4. ~ (j + m > 63) => (k + m) \div 64 = w /\ (k + m) % 64 = j + m
  BY <1>2
<1>5. ASSUME j + m > 63
      PROVE  /\ first <= m /\ whole \in Nat /\ first + 64 * whole <= m
             /\ (k + m) \div 64 = (w + 1) + whole
             /\ (k + m) % 64 = m - (first + 64 * whole)
  <2>1. PICK e \in Nat : e = m - first
    BY <1>1, <1>2, <1>5
  <2>2. whole \in Nat /\ 64 * whole <= e /\ e < 64 * whole + 64
    BY <1>1, <2>1
  <2>3. PICK f \in Nat : f = (w + 1) + whole
    BY <1>2, <2>2
  <2>4. PICK r \in Int : r = m - (first + 64 * whole)
    BY <1>3, <2>2
  <2>5. PICK g \in Nat : g = k + m
    OBVIOUS
  <2>6. g = 64 * f + r /\ r \in 0..63
    BY <1>2, <1>3, <2>1, <2>2, <2>3, <2>4, <2>5
  <2>7. g \div 64 = f /\ g % 64 = r
    BY <2>6
  <2> QED BY <1>3, <2>1, <2>2, <2>3, <2>4, <2>5, <2>6, <2>7
<1> QED BY <1>2, <1>3, <1>4, <1>5

\* The context after the message t, when b bits had been counted before it.
IsHash(c, b, t) ==
  /\ c = [state |-> c.state, count |-> c.count, buffer |-> c.buffer]
  /\ t \in Seq(Byte)
  /\ c.state = Compressed(H0, t, 0, Len(t) \div 64)
  /\ HasCount(c.count, b + 8 * Len(t))
  /\ c.buffer \in Seq(Byte) /\ Len(c.buffer) = 64
  /\ Agree(c.buffer, t, 0, 64 * (Len(t) \div 64), Len(t) % 64)

\* The message so far and a piece: as if it had been the whole message at once.
LEMMA HashMore ==
  ASSUME NEW c, NEW b, NEW t, WholeBlocks(b), IsHash(c, b, t), NEW x \in Seq(Byte)
  PROVE  IsHash(SHA1Update(c, x), b, t \o x)
<1> DEFINE u == t \o x
           k == Len(t)
           m == Len(x)
           w == k \div 64
           j == k % 64
           first == 64 - j
           whole == (m - first) \div 64
           head == SubSeq(x, 1, first)
           full == Stored(c.buffer, j, head)
           count == Counted(c.count, m)
<1>1. t \in Seq(Byte) /\ c.buffer \in Seq(Byte) /\ Len(c.buffer) = 64
  BY DEF IsHash
<1>2. /\ u \in Seq(Byte) /\ Len(u) = k + m
      /\ \A i \in 1..k : u[i] = t[i]
      /\ \A i \in 1..m : u[k + i] = x[i]
  <2>1. t \in Seq(Byte) /\ x \in Seq(Byte)
    BY <1>1
  <2> QED BY ONLY <2>1
<1>3. k \in Nat /\ m \in Nat /\ Len(t) = k /\ Len(x) = m
  BY <1>1
<1>4. Numbers64(k, m, w, j, first, whole)
  BY DEF Numbers64
<1>5. c.state = Compressed(H0, t, 0, w) /\ HasCount(c.count, b + 8 * k)
  BY DEF IsHash
<1>6. Agree(c.buffer, t, 0, 64 * w, j)
  BY Zenon DEF IsHash
<1>7. Index(c) = j
  BY <1>3, <1>5, IndexIs
<1>8. HasCount(count, b + 8 * Len(u))
  <2>1. PICK v \in Nat : v = b + 8 * k
    BY <1>3 DEF WholeBlocks
  <2>2. HasCount(count, v + 8 * m)
    BY <1>3, <1>5, <2>1, CountedIs
  <2>3. v + 8 * m = b + 8 * (k + m)
    BY <1>3, <2>1 DEF WholeBlocks
  <2> QED BY <1>2, <2>2, <2>3
<1>9. SHA1Update(c, x) =
        IF j + m > 63
          THEN [state  |-> Compressed(Transform(c.state, full), x, first, whole),
                count  |-> count,
                buffer |-> Stored(full, 0, SubSeq(x, first + 64 * whole + 1, m))]
          ELSE [state |-> c.state, count |-> count, buffer |-> Stored(c.buffer, j, x)]
  BY <1>7, Zenon DEF SHA1Update
<1> HIDE DEF u, k, m, w, j, first, whole, full, count, head
<1>10. /\ w \in Nat /\ j \in 0..63 /\ k = 64 * w + j
       /\ first \in 1..64 /\ k + first = 64 * (w + 1)
       /\ ~ (j + m > 63) => (k + m) \div 64 = w /\ (k + m) % 64 = j + m
       /\ j + m > 63 =>
            /\ first <= m /\ whole \in Nat /\ first + 64 * whole <= m
            /\ (k + m) \div 64 = (w + 1) + whole
            /\ (k + m) % 64 = m - (first + 64 * whole)
  BY <1>3, <1>4, Numbers64Fit
<1>11. Compressed(H0, u, 0, w) = c.state
  <2>1. PICK z \in Nat : z = 0
    OBVIOUS
  <2>2. ASSUME NEW i \in 1..w PROVE Block64Of(u, z, i) = Block64Of(t, z, i)
    <3>1. PICK d \in Nat : d = z + 64 * (i - 1)
      BY <1>10, <2>1
    <3>2. d + 64 <= k /\ d + 64 <= Len(u) /\ d + 64 <= Len(t) /\ i \in Nat
      BY <1>2, <1>3, <1>10, <2>1, <3>1
    <3>3. SameBlock(u, t, d, d)
      <4>1. ASSUME NEW l \in 1..64 PROVE u[d + l] = t[d + l]
        <5>1. d + l \in 1..k
          BY <1>3, <3>2
        <5> QED BY <1>2, <5>1
      <4> QED BY <4>1 DEF Agree, SameBlock
    <3>4. BlockAt(Byte, u, z, i, d) /\ BlockAt(Byte, t, z, i, d)
      BY <1>1, <1>2, <3>1, <3>2 DEF BlockAt
    <3> QED BY <3>2, <3>3, <3>4, BlocksEqual
  <2>3. w \in Nat
    BY <1>10
  <2>4. Compressed(H0, u, z, w) = Compressed(H0, t, z, w)
    BY ONLY <2>2, <2>3, CompressedSame
  <2> QED BY <1>5, <2>1, <2>4
\* What is in the buffer.
<1>12. \A i \in 1..j : c.buffer[i] = u[64 * w + i]
  <2>1. ASSUME NEW i \in 1..j PROVE c.buffer[i] = u[64 * w + i]
    <3>1. c.buffer[0 + i] = t[64 * w + i]
      BY <1>6, Zenon DEF Agree
    <3>2. 0 + i = i /\ 64 * w + i \in 1..k
      BY <1>10
    <3>3. u[64 * w + i] = t[64 * w + i]
      BY <1>2, <3>2, Zenon
    <3> QED BY <3>1, <3>2, <3>3, Zenon
  <2> QED BY <2>1, Zenon
<1>13. CASE ~ (j + m > 63)
  <2> DEFINE buffer == Stored(c.buffer, j, x)
             d == [state |-> c.state, count |-> count, buffer |-> buffer]
  <2>1. SHA1Update(c, x) = d
    BY <1>9, <1>13, Zenon
  <2>2. /\ buffer \in Seq(Byte) /\ Len(buffer) = 64
        /\ \A i \in 1..64 : /\ i > j /\ i <= j + m => buffer[i] = x[i - j]
                            /\ ~ (i > j /\ i <= j + m) => buffer[i] = c.buffer[i]
    <3>1. CanStore(Byte, c.buffer, j, x)
      BY <1>1, <1>10 DEF CanStore
    <3>2. IsStored(Byte, c.buffer, j, x, buffer)
      BY <3>1, StoredIs
    <3> QED BY <1>3, <3>2, Zenon DEF IsStored
  <2> HIDE DEF buffer
  <2>3. Len(u) \div 64 = w /\ Len(u) % 64 = j + m
    BY <1>2, <1>10, <1>13
  <2>4. ASSUME NEW i \in 1..(j + m) PROVE buffer[0 + i] = u[64 * w + i]
    <3>1. 0 + i = i /\ i \in 1..64
      BY <1>3, <1>10, <1>13
    <3>2. CASE i > j
      <4>1. i <= j + m /\ i - j \in 1..m /\ k + (i - j) = 64 * w + i
        BY <1>3, <1>10, <3>2
      <4>2. buffer[i] = x[i - j]
        BY <2>2, <3>1, <3>2, <4>1
      <4>3. u[k + (i - j)] = x[i - j]
        BY <1>2, <4>1
      <4> QED BY <3>1, <4>1, <4>2, <4>3, Zenon
    <3>3. CASE ~ (i > j)
      <4>1. i \in 1..j
        BY <1>10, <3>1, <3>3
      <4>2. buffer[i] = c.buffer[i]
        BY <2>2, <3>1, <3>3
      <4>3. c.buffer[i] = u[64 * w + i]
        BY <1>12, <4>1
      <4> QED BY <3>1, <4>2, <4>3, Zenon
    <3> QED BY <3>2, <3>3
  <2>5. Agree(buffer, u, 0, 64 * (Len(u) \div 64), Len(u) % 64)
    BY <2>3, <2>4, Zenon DEF Agree
  <2>6. c.state = Compressed(H0, u, 0, Len(u) \div 64)
    BY <1>11, <2>3, Zenon
  <2>7. IsHash(d, b, u)
    <3>1. d.state = c.state /\ d.count = count /\ d.buffer = buffer
          /\ d = [state |-> d.state, count |-> d.count, buffer |-> d.buffer]
      OBVIOUS
    <3> HIDE DEF d
    <3> QED BY <1>2, <1>8, <2>2, <2>5, <2>6, <3>1, Zenon DEF IsHash
  <2> QED BY <2>1, <2>7 DEF u
<1>14. CASE j + m > 63
  <2> DEFINE rest == SubSeq(x, first + 64 * whole + 1, m)
             buffer == Stored(full, 0, rest)
             state == Compressed(Transform(c.state, full), x, first, whole)
             d == [state |-> state, count |-> count, buffer |-> buffer]
  <2>1. SHA1Update(c, x) = d
    BY <1>9, <1>14, Zenon
  <2>2. /\ first <= m /\ whole \in Nat /\ first + 64 * whole <= m
        /\ (k + m) \div 64 = (w + 1) + whole
        /\ (k + m) % 64 = m - (first + 64 * whole)
    BY <1>10, <1>14
  <2>3. head \in Seq(Byte) /\ Len(head) = first /\ \A i \in 1..first : head[i] = x[i]
    <3>1. PICK a \in Nat : a = 1
      OBVIOUS
    <3>2. a > 0 /\ first \in Int /\ first <= Len(x)
      BY <1>3, <1>10, <2>2, <3>1
    <3>3. /\ SubSeq(x, a, first) \in Seq(Byte)
          /\ Len(SubSeq(x, a, first)) = IF a <= first THEN first - a + 1 ELSE 0
          /\ \A i \in 1..(first - a + 1) : SubSeq(x, a, first)[i] = x[a + i - 1]
      BY <3>2, SliceIs
    <3>4. head = SubSeq(x, a, first)
      BY <3>1, Zenon DEF head
    <3>5. ASSUME NEW i \in 1..first PROVE head[i] = x[i]
      <4>1. i \in 1..(first - a + 1) /\ a + i - 1 = i
        BY <1>10, <3>1
      <4> QED BY <3>3, <3>4, <4>1
    <3>6. (IF a <= first THEN first - a + 1 ELSE 0) = first
      BY <1>10, <3>1
    <3> QED BY <3>3, <3>4, <3>5, <3>6, Zenon
  <2>4. /\ full \in Seq(Byte) /\ Len(full) = 64
        /\ \A i \in 1..64 : /\ i > j /\ i <= j + first => full[i] = head[i - j]
                            /\ ~ (i > j /\ i <= j + first) => full[i] = c.buffer[i]
    <3>1. CanStore(Byte, c.buffer, j, head)
      BY <1>1, <1>10, <2>3 DEF CanStore
    <3>2. IsStored(Byte, c.buffer, j, head, full)
      BY <3>1, StoredIs DEF full
    <3> QED BY <2>3, <3>2, Zenon DEF IsStored
  <2>5. ASSUME NEW i \in 1..64 PROVE full[0 + i] = u[64 * w + i]
    <3>1. 0 + i = i /\ j + first = 64
      BY <1>10
    <3>2. CASE i > j
      <4>1. i <= j + first /\ i - j \in 1..first /\ i - j \in 1..m /\ k + (i - j) = 64 * w + i
        BY <1>3, <1>10, <2>2, <3>1, <3>2
      <4>2. full[i] = head[i - j] /\ head[i - j] = x[i - j]
        BY <2>3, <2>4, <3>2, <4>1
      <4>3. u[k + (i - j)] = x[i - j]
        BY <1>2, <4>1
      <4> QED BY <3>1, <4>1, <4>2, <4>3, Zenon
    <3>3. CASE ~ (i > j)
      <4>1. i \in 1..j
        BY <1>10, <3>3
      <4>2. full[i] = c.buffer[i]
        BY <2>4, <3>3
      <4>3. c.buffer[i] = u[64 * w + i]
        BY <1>12, <4>1
      <4> QED BY <3>1, <4>2, <4>3, Zenon
    <3> QED BY <3>2, <3>3, Zenon
  <2>6. PICK v \in Nat : v = w + 1
    BY <1>10
  <2>7. PICK z \in Nat : z = 0
    OBVIOUS
  <2>8. Transform(c.state, full) = Compressed(H0, u, z, v)
    <3>1. PICK e \in Nat : e = z + 64 * (v - 1)
      BY <1>10, <2>6, <2>7
    <3>2. e = 64 * w /\ e + 64 <= Len(u)
      BY <1>2, <1>3, <1>10, <2>2, <2>6, <2>7, <3>1
    <3>3. SameBlock(full, u, 0, e)
      BY <2>5, <3>2, Zenon DEF SameBlock, Agree
    <3>4. BlockAt(Byte, u, z, v, e)
      BY <1>2, <3>1, <3>2 DEF BlockAt
    <3>5. full = Block64Of(u, z, v)
      BY <2>4, <3>3, <3>4, BufferIsBlock
    <3>6. CompressedStep(H0, u, z)
      BY CompressedSteps
    <3>7. Compressed(H0, u, z, v) = Transform(Compressed(H0, u, z, w), Block64Of(u, z, v))
      BY <1>10, <2>6, <3>6 DEF CompressedStep
    <3> QED BY <1>11, <2>7, <3>5, <3>7, Zenon
  <2>9. state = Compressed(H0, u, 0, v + whole)
    <3>1. ASSUME NEW i \in 1..whole, NEW l \in Nat, l = v + i
          PROVE  Block64Of(x, first, i) = Block64Of(u, z, l)
      <4>1. PICK e \in Nat : e = first + 64 * (i - 1)
        BY <1>10, <2>2
      <4>2. PICK f \in Nat : f = z + 64 * (l - 1)
        BY <2>6, <2>7, <3>1
      <4>3. /\ f = k + e /\ e + 64 <= m /\ e + 64 <= Len(x) /\ f + 64 <= Len(u)
            /\ i \in Nat /\ first \in Nat
        BY <1>2, <1>3, <1>10, <2>2, <2>6, <2>7, <3>1, <4>1, <4>2
      <4>4. SameBlock(x, u, e, f)
        <5>1. ASSUME NEW y \in 1..64 PROVE x[e + y] = u[f + y]
          <6>1. e + y \in 1..m /\ f + y = k + (e + y)
            BY <1>3, <4>3
          <6> QED BY <1>2, <6>1
        <5> QED BY <5>1 DEF Agree, SameBlock
      <4>5. BlockAt(Byte, x, first, i, e) /\ BlockAt(Byte, u, z, l, f)
        BY <1>2, <4>1, <4>2, <4>3 DEF BlockAt
      <4> QED BY <4>3, <4>4, <4>5, BlocksEqual
    <3>2. \A i \in 1..whole : Block64Of(x, first, i) = Block64Of(u, z, v + i)
      <4>1. TAKE i \in 1..whole
      <4>2. PICK l \in Nat : l = v + i
        BY <2>2
      <4> QED BY <3>1, <4>2
    <3>3. v \in Nat /\ whole \in Nat
      BY <2>2
    <3>4. Compressed(Compressed(H0, u, z, v), x, first, whole) = Compressed(H0, u, z, v + whole)
      BY ONLY <3>2, <3>3, CompressedOn
    <3> QED BY <2>7, <2>8, <3>4, Zenon
  <2>10. Len(u) \div 64 = v + whole /\ Len(u) % 64 = m - (first + 64 * whole)
    BY <1>2, <2>2, <2>6, Zenon
  <2>11. PICK from \in Nat : from = first + 64 * whole
    BY <1>10, <2>2
  <2>12. PICK left2 \in Nat : left2 = m - from
    BY <1>3, <2>2, <2>11
  <2>13. rest \in Seq(Byte) /\ Len(rest) = left2 /\ Agree(rest, x, 0, from, left2)
    <3>1. from + left2 = m /\ from + left2 <= Len(x)
      BY <1>3, <2>12
    <3>2. /\ SubSeq(x, from + 1, from + left2) \in Seq(Byte)
          /\ Len(SubSeq(x, from + 1, from + left2)) = left2
          /\ Agree(SubSeq(x, from + 1, from + left2), x, 0, from, left2)
      BY <3>1, PartIs
    <3>3. rest = SubSeq(x, from + 1, from + left2)
      BY <2>11, <3>1, Zenon
    <3> QED BY <3>2, <3>3, Zenon
  <2>14. left2 \in 0..63
    <3>1. left2 = (k + m) % 64
      BY <2>2, <2>11, <2>12
    <3>2. k + m \in Nat
      BY <1>3
    <3> QED BY <3>1, <3>2, DivideBy64
  <2> HIDE DEF rest, state
  <2>15. /\ buffer \in Seq(Byte) /\ Len(buffer) = 64
         /\ \A i \in 1..64 : i > 0 /\ i <= 0 + left2 => buffer[i] = rest[i - 0]
    <3>1. PICK o \in Nat : o = 0
      OBVIOUS
    <3>2. CanStore(Byte, full, o, rest)
      BY <2>4, <2>13 DEF CanStore
    <3>3. IsStored(Byte, full, o, rest, Stored(full, o, rest))
      BY <3>2, StoredIs
    <3> QED BY <2>13, <3>1, <3>3, Zenon DEF IsStored
  <2> HIDE DEF buffer
  <2>16. ASSUME NEW i \in 1..left2 PROVE buffer[0 + i] = u[64 * (v + whole) + i]
    <3>1. /\ i \in 1..64 /\ i > 0 /\ i <= 0 + left2 /\ i - 0 = i /\ 0 + i = i
          /\ from + i \in 1..m /\ k + (from + i) = 64 * (v + whole) + i
      BY <1>3, <1>10, <2>2, <2>6, <2>11, <2>12, <2>14
    <3>2. buffer[i] = rest[i - 0]
      BY <2>15, <3>1, Zenon
    <3>3. rest[0 + i] = x[from + i]
      BY <2>13, Zenon DEF Agree
    <3>4. u[k + (from + i)] = x[from + i]
      BY <1>2, <3>1, Zenon
    <3> QED BY <3>1, <3>2, <3>3, <3>4, Zenon
  <2>17. Len(u) % 64 = left2
    BY <2>10, <2>11, <2>12, Zenon
  <2>18. Agree(buffer, u, 0, 64 * (Len(u) \div 64), Len(u) % 64)
    BY <2>10, <2>16, <2>17, Zenon DEF Agree
  <2>19. state = Compressed(H0, u, 0, Len(u) \div 64)
    BY <2>9, <2>10, Zenon
  <2>20. IsHash(d, b, u)
    <3>1. d.state = state /\ d.count = count /\ d.buffer = buffer
          /\ d = [state |-> d.state, count |-> d.count, buffer |-> d.buffer]
      OBVIOUS
    <3> HIDE DEF d
    <3> QED BY <1>2, <1>8, <2>15, <2>18, <2>19, <3>1, Zenon DEF IsHash
  <2> QED BY <2>1, <2>20 DEF u
<1> QED BY <1>13, <1>14

\* The number that the counters of a message begin with.
Before(c) == Value8(c[1] \o c[2])

Begun(before) == [state |-> SHA1Init.state, count |-> before, buffer |-> SHA1Init.buffer]

\* A function on the first m numbers is a sequence.
LEMMA FunctionIsWord ==
  ASSUME NEW S, NEW m \in Nat, NEW f \in [1..m -> S]
  PROVE  f \in Seq(S) /\ Len(f) = m
OBVIOUS

\* What the counters of a message that goes on are.
LEMMA CountIs ==
  ASSUME NEW c, IsCount(c)
  PROVE  /\ IsWord(c[1], 4) /\ IsWord(c[2], 4)
         /\ c[1][1] = 0 /\ \E h \in Nat : c[1][2] = 2 * h
<1>1. c[1] \in [1..4 -> Byte] /\ c[2] \in [1..4 -> Byte] /\ c[1][1] = 0 /\ c[1][2] % 2 = 0
  BY DEF IsCount
<1>2. IsWord(c[1], 4) /\ IsWord(c[2], 4)
  <2>1. PICK x, y : x = c[1] /\ y = c[2]
    OBVIOUS
  <2>2. x \in [1..4 -> Byte] /\ y \in [1..4 -> Byte]
    BY <1>1, <2>1
  <2>3. x \in Seq(Byte) /\ Len(x) = 4 /\ y \in Seq(Byte) /\ Len(y) = 4
    BY ONLY <2>2, FunctionIsWord
  <2> QED BY <2>1, <2>3 DEF IsWord
<1>3. c[1][2] \in 0..255
  BY <1>1 DEF Byte
<1>4. PICK y \in Nat : y = c[1][2]
  BY <1>3
<1>5. y % 2 = 0
  BY <1>1, <1>4
<1>6. y \div 2 \in Nat /\ y = 2 * (y \div 2)
  BY <1>5
<1> QED BY <1>1, <1>2, <1>4, <1>6

\* They are whole blocks.
LEMMA BeforeIsWhole ==
  ASSUME NEW c, IsCount(c)
  PROVE  WholeBlocks(Before(c))
<1>1. IsWord(c[1], 4) /\ IsWord(c[2], 4) /\ c[1][1] = 0
  BY CountIs
<1>2. PICK h \in Nat : c[1][2] = 2 * h
  BY CountIs
<1>3. PICK x3 \in Nat, x4 \in Nat : x3 = c[1][3] /\ x4 = c[1][4]
  <2>1. PICK x : x = c[1]
    OBVIOUS
  <2>2. IsWord(x, 4)
    BY <1>1, <2>1
  <2>3. x[3] \in 0..255 /\ x[4] \in 0..255
    BY <2>2, Digits4
  <2>4. x[3] \in Nat /\ x[4] \in Nat
    BY <2>3
  <2> QED BY <2>1, <2>4
<1>4. PICK z \in Nat : z = Value4(c[2])
  BY <1>1, Value4Is
<1>5. Before(c) = Value4(c[1]) + Two32 * z
  BY <1>1, <1>4, Join44 DEF Before
<1>6. Value4(c[1]) = 512 * (h + 128 * (x3 + 256 * x4))
  <2>1. Value4(c[1]) = 0 + 256 * (2 * h + 256 * (x3 + 256 * x4))
    BY <1>1, <1>2, <1>3 DEF Value4
  <2> QED BY <2>1
<1>7. Two32 * z = 512 * (8388608 * z)
  BY DEF Two32
<1>8. PICK k \in Nat : k = (h + 128 * (x3 + 256 * x4)) + 8388608 * z
  OBVIOUS
<1>9. Before(c) = 512 * k
  BY <1>5, <1>6, <1>7, <1>8
<1> QED BY <1>9 DEF WholeBlocks

\* Nothing has been hashed yet.
LEMMA HashNone ==
  ASSUME NEW before, IsCount(before)
  PROVE  IsHash(Begun(before), Before(before), <<>>)
<1> DEFINE c == Begun(before)
           b == Before(before)
           t == <<>>
<1>1. c.state = H0 /\ c.count = before /\ c.buffer = [i \in 1..64 |-> 0]
      /\ c = [state |-> c.state, count |-> c.count, buffer |-> c.buffer]
  BY DEF Begun, SHA1Init
<1>2. c.buffer \in Seq(Byte) /\ Len(c.buffer) = 64
  <2>1. c.buffer \in [1..64 -> Byte]
    BY <1>1 DEF Byte
  <2>2. PICK x : x = c.buffer
    OBVIOUS
  <2>3. x \in [1..64 -> Byte]
    BY <2>1, <2>2
  <2>4. x \in Seq(Byte) /\ Len(x) = 64
    BY ONLY <2>3, FunctionIsWord
  <2> QED BY <2>2, <2>4
<1>3. PICK z \in Nat : z = 0
  OBVIOUS
<1>4. Len(t) = z /\ z \div 64 = z /\ 64 * z = z /\ z % 64 = z /\ 8 * z = z
  BY <1>3
<1>5. Compressed(H0, t, z, z) = H0
  BY <1>3, CompressedSteps
<1>6. c.state = Compressed(H0, t, 0, Len(t) \div 64)
  BY <1>1, <1>3, <1>4, <1>5
<1>7. WholeBlocks(b)
  BY BeforeIsWhole
<1>8. HasCount(c.count, b + 8 * Len(t))
  <2>1. b \in Nat
    BY <1>7 DEF WholeBlocks
  <2>2. b + 8 * Len(t) = b
    BY <1>3, <1>4, <2>1
  <2>3. HasCount(before, b)
    <3>1. IsWord(before[1], 4) /\ IsWord(before[2], 4)
      BY CountIs
    <3>2. b = Value8(before[1] \o before[2]) + Two64 * 0
      <4>1. Two64 \in Nat
        BY DEF Two64, Two32
      <4>2. b = Value8(before[1] \o before[2])
        BY DEF Before
      <4> HIDE DEF b
      <4> QED BY <2>1, <4>1, <4>2
    <3> HIDE DEF b
    <3> QED BY <3>1, <3>2 DEF HasCount
  <2> QED BY <1>1, <2>2, <2>3
<1>9. Agree(c.buffer, t, 0, 64 * (Len(t) \div 64), Len(t) % 64)
  <2>1. Len(t) % 64 = 0
    BY <1>3, <1>4
  <2> HIDE DEF c
  <2> QED BY <2>1 DEF Agree
<1>10. t \in Seq(Byte)
  OBVIOUS
<1> HIDE DEF c, b, t
<1>11. IsHash(c, b, t)
  BY <1>1, <1>2, <1>6, <1>8, <1>9, <1>10, Zenon DEF IsHash
<1> QED BY <1>11 DEF c, b, t

-----------------------------------------------------------------------------
(* The pieces of a message                                                 *)

\* f[i] is the first i pieces together.
Flattens(f, lists) ==
  /\ f[0] = <<>>
  /\ \A i \in 1..Len(lists) : f[i] = f[i - 1] \o lists[i]
  /\ FlattenSeq(lists) = f[Len(lists)]

\* FlattenSeq puts them together one after the other.
LEMMA FlattensIs ==
  ASSUME NEW T, NEW lists \in Seq(Seq(T))
  PROVE  \E f : Flattens(f, lists)
<1> DEFINE L == Len(lists)
           IsRun(g, m) == g = [i \in 1..m |-> IF i = 1 THEN lists[i] ELSE g[i - 1] \o lists[i]]
           S == {m \in Nat : \E g : IsRun(g, m)}
<1>1. L \in Nat /\ DOMAIN lists = 1..L
  OBVIOUS
<1>2. 0 \in S
  <2> DEFINE g == [i \in 1..0 |-> <<>>]
  <2>1. IsRun(g, 0)
    OBVIOUS
  <2> HIDE DEF g, IsRun
  <2> QED BY <2>1
<1>3. ASSUME NEW m \in S \cap Nat PROVE m + 1 \in S
  <2>1. PICK g : IsRun(g, m)
    OBVIOUS
  <2> DEFINE z == IF m = 0 THEN lists[1] ELSE g[m] \o lists[m + 1]
             f == [i \in 1..(m + 1) |-> IF i <= m THEN g[i] ELSE z]
             Rec(h, i) == IF i = 1 THEN lists[i] ELSE h[i - 1] \o lists[i]
  <2>2. ASSUME NEW i \in 1..(m + 1) PROVE f[i] = Rec(f, i)
    <3>1. CASE i \in 1..m
      <4>1. f[i] = g[i] /\ (i # 1 => f[i - 1] = g[i - 1])
        BY <3>1
      <4>2. g[i] = Rec(g, i)
        BY <2>1, <3>1
      <4> HIDE DEF f, IsRun
      <4> QED BY <4>1, <4>2
    <3>2. CASE i = m + 1
      <4>1. f[i] = z /\ (m # 0 => f[m] = g[m]) /\ i - 1 = m /\ (i = 1 <=> m = 0)
        BY <3>2
      <4> HIDE DEF f, IsRun
      <4> QED BY <3>2, <4>1
    <3> QED BY <3>1, <3>2
  <2>3. IsRun(f, m + 1)
    <3>1. f = [i \in 1..(m + 1) |-> f[i]]
      OBVIOUS
    <3> HIDE DEF f
    <3> QED BY <2>2, <3>1
  <2>4. \E h : IsRun(h, m + 1)
    <3> HIDE DEF f, IsRun
    <3> QED BY <2>3
  <2> HIDE DEF IsRun
  <2> QED BY <2>4 DEF S
<1>4. L \in S
  <2> HIDE DEF S, L
  <2> QED BY <1>1, <1>2, <1>3, NatSetInduction
<1> DEFINE flatten == CHOOSE g : IsRun(g, L)
<1>5. IsRun(flatten, L)
  BY <1>4
<1>6. FlattenSeq(lists) = IF L = 0 THEN lists ELSE flatten[L]
  BY <1>1 DEF FlattenSeq
<1>7. \A i \in 1..L : flatten[i] = IF i = 1 THEN lists[i] ELSE flatten[i - 1] \o lists[i]
  <2> HIDE DEF flatten, L
  <2> QED BY <1>5
<1> HIDE DEF flatten
<1> DEFINE f == [i \in 0..L |-> IF i = 0 THEN <<>> ELSE flatten[i]]
<1>8. f[0] = <<>>
  BY <1>1
<1>9. ASSUME NEW i \in 1..L PROVE f[i] = f[i - 1] \o lists[i]
  <2>1. lists[i] \in Seq(T)
    BY <1>1
  <2>2. f[i] = flatten[i] /\ f[i - 1] = IF i = 1 THEN <<>> ELSE flatten[i - 1]
    OBVIOUS
  <2>3. <<>> \o lists[i] = lists[i]
    BY <2>1
  <2> HIDE DEF f, L
  <2> QED BY <1>7, <2>2, <2>3
<1>10. FlattenSeq(lists) = f[L]
  <2>1. L = 0 => lists = <<>>
    OBVIOUS
  <2>2. f[L] = IF L = 0 THEN <<>> ELSE flatten[L]
    BY <1>1
  <2> HIDE DEF f, L
  <2> QED BY <1>6, <2>1, <2>2
<1> HIDE DEF f
<1> QED BY <1>8, <1>9, <1>10 DEF Flattens

-----------------------------------------------------------------------------
(* The padding                                                             *)

OneMore(c) == IF Index(c) = 56 THEN c ELSE SHA1Update(c, <<0>>)

\* g has the contexts after each of the first m turns.
PadRun(g, c, m) ==
  /\ g = [k \in 0..m |-> g[k]]
  /\ g[0] = c
  /\ \A k \in 0..(m - 1) : g[k + 1] = OneMore(g[k])

\* There is a run of every length.
LEMMA PadRuns ==
  ASSUME NEW c
  PROVE  \A m \in Nat : \E g : PadRun(g, c, m)
<1> DEFINE S == {m \in Nat : \E g : PadRun(g, c, m)}
<1>1. 0 \in S
  <2> DEFINE g == [k \in 0..0 |-> c]
  <2>1. g = [k \in 0..0 |-> g[k]] /\ g[0] = c
    OBVIOUS
  <2> HIDE DEF g
  <2>2. PadRun(g, c, 0)
    BY <2>1 DEF PadRun
  <2> QED BY <2>2
<1>2. ASSUME NEW m \in S \cap Nat PROVE m + 1 \in S
  <2>1. PICK g : PadRun(g, c, m)
    OBVIOUS
  <2> HIDE DEF S
  <2> DEFINE z == OneMore(g[m])
             h == [k \in 0..(m + 1) |-> IF k <= m THEN g[k] ELSE z]
  <2>2. g[0] = c /\ \A k \in 0..(m - 1) : g[k + 1] = OneMore(g[k])
    BY <2>1 DEF PadRun
  <2> HIDE DEF z
  <2>3. h = [k \in 0..(m + 1) |-> h[k]] /\ h[0] = c /\ h[m] = g[m] /\ h[m + 1] = z
    BY <2>2
  <2>4. ASSUME NEW k \in 0..((m + 1) - 1) PROVE h[k + 1] = OneMore(h[k])
    <3>1. CASE k = m
      BY <2>3, <3>1 DEF z
    <3>2. CASE k # m
      <4>1. k \in 0..(m - 1) /\ h[k] = g[k] /\ h[k + 1] = g[k + 1]
        BY <3>2
      <4> HIDE DEF h
      <4> QED BY <2>2, <4>1
    <3> QED BY <3>1, <3>2
  <2> HIDE DEF h
  <2>5. PadRun(h, c, m + 1)
    BY <2>3, <2>4 DEF PadRun
  <2> QED BY <2>5 DEF S
<1>3. Nat \subseteq S
  <2> HIDE DEF S
  <2> QED BY <1>1, <1>2, NatSetInduction
<1> QED BY <1>3

\* ZeroPadded is the end of a run of 64 turns.
LEMMA PaddedIs ==
  ASSUME NEW c
  PROVE  \E g : PadRun(g, c, 64) /\ ZeroPadded(c) = g[64]
<1> DEFINE Is(g) == g = [k \in 0..64 |->
                           IF k = 0 THEN c
                           ELSE LET p == g[k - 1] IN IF Index(p) = 56 THEN p ELSE SHA1Update(p, <<0>>)]
           at(g, k) == IF k = 0 THEN c
                       ELSE LET p == g[k - 1] IN IF Index(p) = 56 THEN p ELSE SHA1Update(p, <<0>>)
           f == CHOOSE g : Is(g)
<1>1. ASSUME NEW g, PadRun(g, c, 64) PROVE Is(g)
  <2>1. g = [k \in 0..64 |-> g[k]]
    BY <1>1 DEF PadRun
  <2>2. ASSUME NEW k \in 0..64 PROVE g[k] = at(g, k)
    <3>1. CASE k = 0
      BY <1>1, <3>1 DEF PadRun
    <3>2. CASE k # 0
      <4>1. k - 1 \in 0..(64 - 1) /\ (k - 1) + 1 = k
        BY <3>2
      <4>2. g[(k - 1) + 1] = OneMore(g[k - 1])
        BY <1>1, <4>1 DEF PadRun
      <4> QED BY <3>2, <4>1, <4>2, Zenon DEF OneMore
    <3> QED BY <3>1, <3>2
  <2> HIDE DEF at
  <2>3. g = [k \in 0..64 |-> at(g, k)]
    BY <2>1, <2>2
  <2> QED BY <2>3, Zenon DEF at
<1>2. \E g : Is(g)
  <2>1. PICK g : PadRun(g, c, 64)
    BY PadRuns
  <2> HIDE DEF Is
  <2> QED BY <1>1, <2>1
<1>3. Is(f)
  <2> HIDE DEF Is
  <2> QED BY <1>2
<1>4. ZeroPadded(c) = f[64]
  BY Zenon DEF ZeroPadded
<1> HIDE DEF f
<1>5. ASSUME NEW k \in 0..64 PROVE f[k] = at(f, k)
  <2> HIDE DEF at
  <2>1. f = [q \in 0..64 |-> at(f, q)]
    BY <1>3, Zenon DEF at
  <2> QED BY <2>1
<1>6. f = [k \in 0..64 |-> f[k]]
  BY <1>3
<1>7. f[0] = c
  BY <1>5
<1>8. ASSUME NEW k \in 0..(64 - 1) PROVE f[k + 1] = OneMore(f[k])
  <2>1. k + 1 \in 0..64 /\ k + 1 # 0 /\ (k + 1) - 1 = k
    OBVIOUS
  <2>2. f[k + 1] = at(f, k + 1)
    BY <1>5, <2>1
  <2> QED BY <2>1, <2>2, Zenon DEF OneMore
<1>9. PadRun(f, c, 64)
  <2> HIDE DEF Is, at
  <2> QED BY <1>6, <1>7, <1>8 DEF PadRun
<1> QED BY <1>4, <1>9

Zeros(z) == [i \in 1..z |-> 0]

\* One zero more.
LEMMA ZerosAre ==
  ASSUME NEW z \in Nat
  PROVE  Zeros(z) \in Seq(Byte) /\ Len(Zeros(z)) = z /\ Zeros(z + 1) = Zeros(z) \o <<0>>
BY DEF Zeros, Byte

\* How many zeros are missing, after a message of k bytes and q of them.
LEMMA ZerosMissing ==
  ASSUME NEW k \in Nat, NEW z, z = (56 - k) % 64, NEW q \in Nat
  PROVE  /\ z \in 0..63
         /\ q <= z => ((k + q) % 64 = 56 <=> q = z)
OBVIOUS
\* ZeroPadded: zeros until 56 bytes of a block are in the buffer.
LEMMA PaddedHash ==
  ASSUME NEW c, NEW b, NEW t, WholeBlocks(b), IsHash(c, b, t),
         NEW z, z = (56 - Len(t)) % 64
  PROVE  IsHash(ZeroPadded(c), b, t \o Zeros(z))
<1>1. t \in Seq(Byte) /\ Len(t) \in Nat
  BY DEF IsHash
<1>2. z \in 0..63
  <2>1. PICK k \in Nat : k = Len(t)
    BY <1>1
  <2>2. z = (56 - k) % 64
    BY <2>1
  <2> QED BY ONLY <2>2
<1>3. PICK g : PadRun(g, c, 64) /\ ZeroPadded(c) = g[64]
  BY PaddedIs
<1> DEFINE Least(k) == IF k <= z THEN k ELSE z
           S == {k \in Nat : k <= 64 => IsHash(g[k], b, t \o Zeros(Least(k)))}
<1>4. 0 \in S
  <2>1. PICK o \in Nat : o = 0
    OBVIOUS
  <2>2. Zeros(o) = <<>>
    BY <2>1 DEF Zeros
  <2>3. Least(o) = o /\ t \o <<>> = t
    BY <1>1, <1>2, <2>1
  <2>4. g[o] = c
    BY <1>3, <2>1 DEF PadRun
  <2>5. IsHash(g[o], b, t \o Zeros(Least(o)))
    BY <2>2, <2>3, <2>4
  <2>6. o \in S
    BY <2>5
  <2> QED BY <2>1, <2>6
<1>5. ASSUME NEW k \in S \cap Nat PROVE k + 1 \in S
  <2>1. SUFFICES ASSUME k + 1 <= 64 PROVE IsHash(g[k + 1], b, t \o Zeros(Least(k + 1)))
    OBVIOUS
  <2>2. k \in 0..(64 - 1) /\ k <= 64
    BY <2>1
  <2>3. PICK q \in Nat : q = Least(k)
    BY <1>2
  <2>4. q <= z /\ (q = z => Least(k + 1) = q) /\ (q # z => Least(k + 1) = q + 1)
    BY <1>2, <2>3
  <2>5. IsHash(g[k], b, t \o Zeros(q))
    BY <2>2, <2>3
  <2>6. g[k + 1] = OneMore(g[k])
    BY <1>3, <2>2 DEF PadRun
  <2> HIDE DEF S, Least
  <2>7. PICK u : u = t \o Zeros(q)
    OBVIOUS
  <2>8. u \in Seq(Byte) /\ Len(u) = Len(t) + q
    <3>1. Zeros(q) \in Seq(Byte) /\ Len(Zeros(q)) = q
      BY ZerosAre
    <3>2. PICK y \in Seq(Byte) : y = Zeros(q)
      BY <3>1
    <3>3. t \o y \in Seq(Byte) /\ Len(t \o y) = Len(t) + Len(y)
      BY <1>1
    <3> QED BY <2>7, <3>1, <3>2, <3>3
  <2>9. Index(g[k]) = (Len(t) + q) % 64
    <3>1. PICK l \in Nat : l = Len(t) + q
      BY <1>1
    <3>2. HasCount(g[k].count, b + 8 * l)
      <4>1. IsHash(g[k], b, u)
        BY <2>5, <2>7
      <4> QED BY <2>8, <3>1, <4>1 DEF IsHash
    <3>3. Index(g[k]) = l % 64
      BY <3>2, IndexIs
    <3> QED BY <3>1, <3>3
  <2>10. Index(g[k]) = 56 <=> q = z
    BY <1>1, <2>4, <2>9, ZerosMissing
  <2>11. CASE q = z
    <3>1. g[k + 1] = g[k] /\ Least(k + 1) = q
      BY <2>4, <2>6, <2>10, <2>11, Zenon DEF OneMore
    <3> QED BY <2>5, <3>1, Zenon
  <2>12. CASE q # z
    <3>1. g[k + 1] = SHA1Update(g[k], <<0>>) /\ Least(k + 1) = q + 1
      BY <2>4, <2>6, <2>10, <2>12, Zenon DEF OneMore
    <3>2. <<0>> \in Seq(Byte)
      BY DEF Byte
    <3>3. PICK x \in Seq(Byte) : x = <<0>>
      BY <3>2
    <3>4. IsHash(g[k], b, u)
      BY <2>5, <2>7
    <3>5. IsHash(SHA1Update(g[k], x), b, u \o x)
      BY <3>4, HashMore
    <3>6. u \o x = t \o Zeros(q + 1)
      <4>1. Zeros(q + 1) = Zeros(q) \o x /\ Zeros(q) \in Seq(Byte)
        BY <3>3, ZerosAre
      <4>2. PICK y \in Seq(Byte) : y = Zeros(q)
        BY <4>1
      <4>3. (t \o y) \o x = t \o (y \o x)
        BY <1>1
      <4> QED BY <2>7, <4>1, <4>2, <4>3
    <3> QED BY <3>1, <3>3, <3>5, <3>6, Zenon
  <2> QED BY <2>11, <2>12
<1>6. 64 \in S
  <2> HIDE DEF S
  <2>1. Nat \subseteq S
    BY <1>4, <1>5, NatSetInduction
  <2> QED BY <2>1
<1>7. IsHash(g[64], b, t \o Zeros(z))
  <2>1. Least(64) = z
    BY <1>2
  <2>2. IsHash(g[64], b, t \o Zeros(Least(64)))
    BY <1>6
  <2> QED BY <2>1, <2>2, Zenon
<1> QED BY <1>3, <1>7, Zenon

-----------------------------------------------------------------------------
(* The count at the end                                                    *)

\* Four bytes are a sequence.
LEMMA FourAre ==
  ASSUME NEW S, NEW a \in S, NEW b \in S, NEW c \in S, NEW d \in S
  PROVE  <<a, b, c, d>> \in Seq(S) /\ Len(<<a, b, c, d>>) = 4
OBVIOUS

\* What eight bytes, four and four, are.
LEMMA FourAndFour ==
  ASSUME NEW S, NEW p \in Seq(S), NEW q \in Seq(S), Len(p) = 4, Len(q) = 4
  PROVE  /\ p \o q \in Seq(S) /\ Len(p \o q) = 8
         /\ \A i \in 1..4 : (p \o q)[i] = p[i]
         /\ \A i \in 5..8 : (p \o q)[i] = q[i - 4]
<1>1. PICK r : r = p \o q
  OBVIOUS
<1>2. /\ r \in Seq(S) /\ Len(r) = Len(p) + Len(q)
      /\ \A i \in 1..(Len(p) + Len(q)) : r[i] = IF i <= Len(p) THEN p[i] ELSE q[i - Len(p)]
  BY <1>1, ConcatProperties
<1>3. Len(r) = 8 /\ \A i \in 1..8 : r[i] = IF i <= 4 THEN p[i] ELSE q[i - 4]
  BY <1>2
<1>4. \A i \in 1..4 : r[i] = p[i]
  BY <1>3
<1>5. \A i \in 5..8 : r[i] = q[i - 4]
  BY <1>3
<1> QED BY ONLY <1>1, <1>2, <1>3, <1>4, <1>5

\* The halves of a word of eight bytes.
LEMMA Halves ==
  ASSUME NEW y, IsWord(y, 8)
  PROVE  \E p, q : IsWord(p, 4) /\ IsWord(q, 4) /\ y = p \o q
<1> DEFINE p == <<y[1], y[2], y[3], y[4]>>
           q == <<y[5], y[6], y[7], y[8]>>
<1>1. y \in Seq(Byte) /\ Len(y) = 8
  BY DEF IsWord
<1>2. p \in Seq(Byte) /\ q \in Seq(Byte) /\ Len(p) = 4 /\ Len(q) = 4
  <2>1. /\ y[1] \in Byte /\ y[2] \in Byte /\ y[3] \in Byte /\ y[4] \in Byte
        /\ y[5] \in Byte /\ y[6] \in Byte /\ y[7] \in Byte /\ y[8] \in Byte
    <3>1. ASSUME NEW i \in 1..8 PROVE y[i] \in Byte
      <4>1. i \in 1..Len(y)
        BY <1>1
      <4> QED BY ONLY <1>1, <4>1, ElementOfSeq
    <3> QED BY <3>1
  <2> QED BY ONLY <2>1, FourAre
<1>3. IsWord(p, 4) /\ IsWord(q, 4)
  BY <1>2 DEF IsWord
<1>4. y = p \o q
  <2>1. p \o q \in Seq(Byte) /\ Len(p \o q) = 8
    BY <1>2
  <2>2. ASSUME NEW i \in 1..8 PROVE y[i] = (p \o q)[i]
    <3>1. CASE i <= 4
      <4>1. (p \o q)[i] = p[i]
        BY <1>2, <3>1
      <4>2. i = 1 \/ i = 2 \/ i = 3 \/ i = 4
        BY <3>1
      <4> QED BY <4>1, <4>2
    <3>2. CASE i > 4
      <4>1. (p \o q)[i] = q[i - 4]
        BY <1>2, <3>2
      <4>2. i = 5 \/ i = 6 \/ i = 7 \/ i = 8
        BY <3>2
      <4> QED BY <4>1, <4>2
    <3> QED BY <3>1, <3>2
  <2> HIDE DEF p, q
  <2> QED BY <1>1, <2>1, <2>2, SeqEqual
<1> QED BY <1>3, <1>4

\* The counters are the standard's count of the bits, in 64 of them.
LEMMA CountIsBits64 ==
  ASSUME NEW count, NEW before, IsCount(before), NEW t \in Seq(Byte),
         HasCount(count, Before(before) + 8 * Len(t))
  PROVE  count[1] \o count[2] = Bits64(before, t)
<1> DEFINE x == before[1] \o before[2]
           y == Word(8 * Len(t), 8)
           a == Add(x, y)
<1>1. PICK l \in Nat : l = 8 * Len(t)
  OBVIOUS
<1>2. IsWord(x, 8)
  <2>1. IsWord(before[1], 4) /\ IsWord(before[2], 4)
    BY CountIs
  <2>2. PICK p, q : p = before[1] /\ q = before[2]
    OBVIOUS
  <2>3. IsWord(p \o q, 8)
    BY <2>1, <2>2, Join44
  <2> QED BY <2>2, <2>3
<1>3. y = Word(l, 8)
  BY <1>1
<1> HIDE DEF x, y
<1>4. PICK k \in Nat : IsWord(y, 8) /\ l = Value8(y) + Two64 * k
  BY <1>3, Word8
<1>5. PICK e \in Nat : IsWord(a, 8) /\ Value8(x) + Value8(y) = Value8(a) + Two64 * e
  BY <1>2, <1>4, Add8
<1>6. PICK d \in Int : Value8(x) + l = Value8(count[1] \o count[2]) + Two64 * d
  <2>1. Before(before) = Value8(x)
    BY DEF Before, x
  <2> QED BY <1>1, <2>1 DEF HasCount
<1> HIDE DEF a
<1>7. PICK p, q : IsWord(p, 4) /\ IsWord(q, 4) /\ a = p \o q
  BY <1>5, Halves
<1>8. PICK r, s : r = count[1] /\ s = count[2] /\ IsWord(r, 4) /\ IsWord(s, 4)
  BY DEF HasCount
<1>9. Value8(r \o s) + Two64 * d = Value8(p \o q) + Two64 * (e + k)
  <2>1. PICK w \in Nat : w = Two64
    BY DEF Two64, Two32
  <2>2. PICK A \in Nat : A = Value8(p \o q)
    BY <1>7, Join44, Value4Is DEF Two32
  <2>3. PICK C \in Nat : C = Value8(r \o s)
    BY <1>8, Join44, Value4Is DEF Two32
  <2>4. PICK X \in Int, Y \in Int : X = Value8(x) /\ Y = Value8(y)
    <3>1. PICK x1, x2 : IsWord(x1, 4) /\ IsWord(x2, 4) /\ x = x1 \o x2
      BY <1>2, Halves
    <3>2. PICK y1, y2 : IsWord(y1, 4) /\ IsWord(y2, 4) /\ y = y1 \o y2
      BY <1>4, Halves
    <3>3. Value8(x1 \o x2) \in Int
      BY <3>1, Join44, Value4Is DEF Two32
    <3>4. Value8(y1 \o y2) \in Int
      BY <3>2, Join44, Value4Is DEF Two32
    <3> QED BY <3>1, <3>2, <3>3, <3>4
  <2>5. l = Y + w * k
    BY <1>4, <2>1, <2>4
  <2>6. X + Y = A + w * e
    BY <1>5, <1>7, <2>1, <2>2, <2>4
  <2>7. X + l = C + w * d
    BY <1>6, <1>8, <2>1, <2>3, <2>4
  <2>8. C + w * d = A + w * (e + k)
    BY <2>5, <2>6, <2>7
  <2> QED BY <2>1, <2>2, <2>3, <2>8
<1>10. r \o s = p \o q
  <2>1. PICK m \in Int : m = e + k
    OBVIOUS
  <2>2. Value8(r \o s) + Two64 * d = Value8(p \o q) + Two64 * m
    BY <1>9, <2>1
  <2>3. IsWord(p, 4) /\ IsWord(q, 4) /\ IsWord(r, 4) /\ IsWord(s, 4)
    BY <1>7, <1>8
  <2> QED BY ONLY <2>2, <2>3, Unique8
<1>11. a = Bits64(before, t)
  BY Zenon DEF a, x, y, Bits64
<1> QED BY <1>7, <1>8, <1>10, <1>11

HexOf(S, v, m, h) == h \in Seq(S) /\ Len(h) = m /\ \A i \in 1..m : h[i] = v[(m + 1) - i]

\* Hex turns a word around.
LEMMA HexIs ==
  ASSUME NEW S, NEW v \in Seq(S), NEW m \in Nat, Len(v) = m
  PROVE  HexOf(S, v, m, Hex(v))
<1> DEFINE h == [i \in 1..Len(v) |-> v[Len(v) + 1 - i]]
<1>1. h \in Seq(S) /\ Len(h) = m /\ \A i \in 1..m : h[i] = v[(m + 1) - i]
  OBVIOUS
<1>2. Hex(v) = Now(h)
  BY DEF Hex
<1> HIDE DEF h
<1>3. Now(h) = h
  BY <1>1, NowIs
<1> QED BY <1>1, <1>2, <1>3 DEF HexOf

\* finalcount: the high counter and then the low one, each from its highest byte.
LEMMA FinalCount ==
  ASSUME NEW x, NEW y, IsWord(x, 4), IsWord(y, 4)
  PROVE  Hex(y) \o Hex(x) = Hex(x \o y) /\ Hex(x \o y) \in Seq(Byte) /\ Len(Hex(x \o y)) = 8
<1>1. x \in Seq(Byte) /\ Len(x) = 4 /\ y \in Seq(Byte) /\ Len(y) = 4
  BY DEF IsWord
<1>2. PICK z : z = x \o y
  OBVIOUS
<1>3. /\ z \in Seq(Byte) /\ Len(z) = 8
      /\ \A i \in 1..4 : z[i] = x[i]
      /\ \A i \in 5..8 : z[i] = y[i - 4]
  BY <1>1, <1>2, FourAndFour
<1>4. HexOf(Byte, z, 8, Hex(z)) /\ HexOf(Byte, x, 4, Hex(x)) /\ HexOf(Byte, y, 4, Hex(y))
  BY <1>1, <1>3, HexIs
<1>5. PICK h, a, b : h = Hex(z) /\ a = Hex(x) /\ b = Hex(y)
  OBVIOUS
<1>6. /\ h \in Seq(Byte) /\ Len(h) = 8 /\ \A i \in 1..8 : h[i] = z[9 - i]
      /\ a \in Seq(Byte) /\ Len(a) = 4 /\ \A i \in 1..4 : a[i] = x[5 - i]
      /\ b \in Seq(Byte) /\ Len(b) = 4 /\ \A i \in 1..4 : b[i] = y[5 - i]
  BY <1>4, <1>5 DEF HexOf
<1>7. /\ b \o a \in Seq(Byte) /\ Len(b \o a) = 8
      /\ \A i \in 1..4 : (b \o a)[i] = b[i]
      /\ \A i \in 5..8 : (b \o a)[i] = a[i - 4]
  BY <1>6, FourAndFour
<1>8. ASSUME NEW i \in 1..8 PROVE (b \o a)[i] = h[i]
  <2>1. CASE i \in 1..4
    <3>1. 9 - i \in 5..8 /\ (9 - i) - 4 = 5 - i /\ i \in 1..8
      BY <2>1
    <3>2. h[i] = z[9 - i] /\ b[i] = y[5 - i]
      BY <1>6, <2>1, <3>1
    <3>3. z[9 - i] = y[5 - i]
      BY <1>3, <3>1
    <3> QED BY <1>7, <2>1, <3>2, <3>3
  <2>2. CASE i \in 5..8
    <3>1. i - 4 \in 1..4 /\ 5 - (i - 4) = 9 - i /\ 9 - i \in 1..4 /\ i \in 1..8
      BY <2>2
    <3>2. h[i] = z[9 - i] /\ a[i - 4] = x[9 - i]
      BY <1>6, <2>2, <3>1
    <3>3. z[9 - i] = x[9 - i]
      BY <1>3, <3>1
    <3> QED BY <1>7, <2>2, <3>2, <3>3
  <2>3. i \in 1..4 \/ i \in 5..8
    OBVIOUS
  <2> QED BY ONLY <2>1, <2>2, <2>3
<1>9. b \o a = h
  <2>1. PICK u : u = b \o a
    OBVIOUS
  <2> QED BY <1>6, <1>7, <1>8, <2>1, SeqEqual
<1> QED BY <1>2, <1>5, <1>6, <1>9
-----------------------------------------------------------------------------
(* The digest                                                              *)

\* What SHA1Final adds to a context is the padding of the standard.
LEMMA HashFinal ==
  ASSUME NEW before, IsCount(before), NEW c, NEW t, IsHash(c, Before(before), t)
  PROVE  SHA1Final(c) = StandardDigest(before, t)
<1>1. PICK b : b = Before(before)
  OBVIOUS
<1>2. WholeBlocks(b) /\ IsHash(c, b, t) /\ t \in Seq(Byte)
  BY <1>1, BeforeIsWhole DEF IsHash
<1>3. PICK mark \in Seq(Byte) : mark = <<128>> /\ Len(mark) = 1
  <2>1. <<128>> \in Seq(Byte) /\ Len(<<128>>) = 1
    BY DEF Byte
  <2> QED BY <2>1
<1>4. PICK c1 : c1 = SHA1Update(c, mark)
  OBVIOUS
<1>5. PICK t1 : t1 = t \o mark
  OBVIOUS
<1>6. IsHash(c1, b, t1)
  <2>1. IsHash(SHA1Update(c, mark), b, t \o mark)
    BY ONLY <1>2, HashMore
  <2> QED BY <1>4, <1>5, <2>1
<1>7. t1 \in Seq(Byte) /\ Len(t1) = Len(t) + 1 /\ Len(t) \in Nat
  BY <1>2, <1>3, <1>5
<1>8. PICK z : z = (56 - Len(t1)) % 64 /\ z = (55 - Len(t)) % 64
  BY <1>7
<1>9. PICK c2 : c2 = ZeroPadded(c1)
  OBVIOUS
<1>10. PICK t2 : t2 = t1 \o Zeros(z)
  OBVIOUS
<1>11. IsHash(c2, b, t2)
  <2>1. z = (56 - Len(t1)) % 64
    BY <1>8
  <2>2. IsHash(ZeroPadded(c1), b, t1 \o Zeros(z))
    BY ONLY <1>2, <1>6, <2>1, PaddedHash
  <2> QED BY <1>9, <1>10, <2>2
<1>12. PICK x, y : x = c.count[1] /\ y = c.count[2]
  OBVIOUS
<1>13. HasCount(c.count, b + 8 * Len(t))
  BY <1>2 DEF IsHash
<1>14. x \o y = Bits64(before, t)
  <2>1. PICK count : count = c.count
    OBVIOUS
  <2>2. HasCount(count, Before(before) + 8 * Len(t))
    BY <1>1, <1>13, <2>1
  <2>3. count[1] \o count[2] = Bits64(before, t)
    BY ONLY <1>2, <2>2, CountIsBits64, IsCount(before)
  <2> QED BY <1>12, <2>1, <2>3
<1>15. PICK last : last = Hex(c.count[2]) \o Hex(c.count[1])
  OBVIOUS
<1>16. last = Hex(Bits64(before, t)) /\ last \in Seq(Byte)
  <2>1. IsWord(x, 4) /\ IsWord(y, 4)
    BY <1>12, <1>13 DEF HasCount
  <2>2. Hex(y) \o Hex(x) = Hex(x \o y) /\ Hex(x \o y) \in Seq(Byte)
    BY <2>1, FinalCount
  <2> QED BY <1>12, <1>14, <1>15, <2>2
<1>17. PICK c3 : c3 = SHA1Update(c2, last)
  OBVIOUS
<1>18. PICK t3 : t3 = t2 \o last
  OBVIOUS
<1>19. IsHash(c3, b, t3)
  <2>1. last \in Seq(Byte)
    BY <1>16
  <2>2. IsHash(SHA1Update(c2, last), b, t2 \o last)
    BY ONLY <1>2, <1>11, <2>1, HashMore
  <2> QED BY <1>17, <1>18, <2>2
<1>20. c3.state = Compressed(H0, t3, 0, Len(t3) \div 64)
  BY <1>19 DEF IsHash
<1>21. t3 = StandardPadded(before, t)
  <2>1. Zeros(z) = [i \in 1..((55 - Len(t)) % 64) |-> 0]
    BY <1>8 DEF Zeros
  <2>2. t3 = ((t \o <<128>>) \o Zeros(z)) \o Hex(Bits64(before, t))
    BY <1>3, <1>5, <1>10, <1>16, <1>18
  <2> QED BY <2>1, <2>2, Zenon DEF StandardPadded
<1>22. SHA1Final(c) = [k \in 1..5 |-> Hex(c3.state[k])]
  <2>1. SHA1Update(ZeroPadded(SHA1Update(c, <<128>>)), Hex(c.count[2]) \o Hex(c.count[1])) = c3
    BY <1>3, <1>4, <1>9, <1>15, <1>17
  <2> QED BY <2>1, Zenon DEF SHA1Final
<1>23. StandardDigest(before, t) = [k \in 1..5 |-> Hex(c3.state[k])]
  <2>1. Compressed(H0, StandardPadded(before, t), 0, Len(StandardPadded(before, t)) \div 64) = c3.state
    BY <1>20, <1>21
  <2> QED BY <2>1, Zenon DEF StandardDigest
<1> QED BY <1>22, <1>23

\* The context is the one of the pieces hashed so far.
TaskInv ==
  \/ task = NoTask
  \/ /\ task \in HashJobs
     /\ part \in 0..Len(task.pieces)
     /\ \E f : Flattens(f, task.pieces) /\ IsHash(ctx, Before(task.before), f[part])

\* What is assumed of the messages.
LEMMA TasksAre ==
  ASSUME NEW t \in HashJobs
  PROVE  /\ IsCount(t.before)
         /\ t.pieces \in Seq(Seq(Byte))
         /\ t.digest = StandardDigest(t.before, FlattenSeq(t.pieces))
  BY HashJobsAssumption DEF HashJobsAssumption

\* Nothing has been hashed in the beginning.
LEMMA TaskInvInit == Init => TaskInv
<1>1. SUFFICES ASSUME task \in HashJobs, part = 0,
                      ctx = [state |-> SHA1Init.state, count |-> task.before, buffer |-> SHA1Init.buffer]
               PROVE  TaskInv
  BY DEF Init, TaskInv
<1>2. PICK f : Flattens(f, task.pieces)
  <2>1. task.pieces \in Seq(Seq(Byte))
    BY <1>1, TasksAre
  <2> QED BY <2>1, FlattensIs
<1>3. IsHash(ctx, Before(task.before), <<>>)
  <2>1. ctx = Begun(task.before)
    BY <1>1 DEF Begun
  <2>2. IsCount(task.before)
    BY <1>1, TasksAre
  <2> QED BY <2>1, <2>2, HashNone
<1>4. f[part] = <<>>
  BY <1>1, <1>2 DEF Flattens
<1>5. part \in 0..Len(task.pieces)
  BY <1>1, TasksAre
<1> QED BY <1>1, <1>2, <1>3, <1>4, <1>5 DEF TaskInv

\* Every step keeps it: HashStep adds the next piece.
LEMMA TaskInvNext ==
  ASSUME TaskInv, [Next]_codecVars
  PROVE  TaskInv'
<1>1. CASE BlockStep
  BY <1>1 DEF BlockStep, TaskInv
<1>2. CASE HashStep
  <2>1. task' = task /\ part' = part + 1 /\ ctx' = SHA1Update(ctx, task.pieces[part + 1])
    BY <1>2 DEF HashStep
  <2>2. CASE task = NoTask
    BY <2>1, <2>2 DEF TaskInv
  <2>3. CASE task # NoTask
    <3>1. task \in HashJobs /\ part \in 0..Len(task.pieces)
      BY <2>3 DEF TaskInv
    <3>2. PICK f : Flattens(f, task.pieces) /\ IsHash(ctx, Before(task.before), f[part])
      BY <2>3 DEF TaskInv
    <3>3. IsCount(task.before) /\ task.pieces \in Seq(Seq(Byte))
      BY <3>1, TasksAre
    <3>4. PICK i : i = part + 1
      OBVIOUS
    <3>5. i \in 1..Len(task.pieces) /\ i - 1 = part /\ i \in 0..Len(task.pieces)
      BY <1>2, <3>1, <3>3, <3>4 DEF HashStep
    <3>6. PICK x : x = task.pieces[i]
      OBVIOUS
    <3>7. x \in Seq(Byte)
      BY <3>3, <3>5, <3>6
    <3>8. f[i] = f[part] \o x
      BY <3>2, <3>5, <3>6 DEF Flattens
    <3>9. WholeBlocks(Before(task.before))
      BY <3>3, BeforeIsWhole
    <3>10. PICK c, b, t : c = ctx /\ b = Before(task.before) /\ t = f[part]
      OBVIOUS
    <3>11. IsHash(SHA1Update(c, x), b, t \o x)
      <4>1. WholeBlocks(b) /\ IsHash(c, b, t)
        BY <3>2, <3>9, <3>10
      <4> QED BY ONLY <3>7, <4>1, HashMore
    <3>12. IsHash(SHA1Update(ctx, task.pieces[part + 1]), Before(task.before), f[i])
      BY <3>4, <3>6, <3>8, <3>10, <3>11
    <3>13. IsHash(ctx', Before(task'.before), f[part'])
      BY <2>1, <3>4, <3>12
    <3>14. Flattens(f, task'.pieces) /\ part' \in 0..Len(task'.pieces) /\ task' \in HashJobs
      BY <2>1, <3>1, <3>2, <3>4, <3>5
    <3> QED BY <3>13, <3>14 DEF TaskInv
  <2> QED BY <2>2, <2>3
<1>3. CASE UNCHANGED codecVars
  BY <1>3 DEF codecVars, TaskInv
<1> QED BY <1>1, <1>2, <1>3 DEF Next

\* The digest that is compared with the one in the trailer is the one of the whole
\* message, whatever the pieces it was hashed in, their number and their lengths:
\* SHA1Update loses and repeats no byte at a border, its two counters lose no carry,
\* and SHA1Final pads as the standard has it.
THEOREM DigestCorrect == Spec => []DigestOfMessage
<1>1. Spec => []TaskInv
  BY TaskInvInit, TaskInvNext, PTL DEF Spec
<1>2. TaskInv => DigestOfMessage
  <2>1. SUFFICES ASSUME TaskInv, task # NoTask, part = Len(task.pieces)
                 PROVE  SHA1Final(ctx) = task.digest
    BY DEF DigestOfMessage
  <2>2. task \in HashJobs
    BY <2>1 DEF TaskInv
  <2>3. PICK f : Flattens(f, task.pieces) /\ IsHash(ctx, Before(task.before), f[part])
    BY <2>1 DEF TaskInv
  <2>4. f[part] = FlattenSeq(task.pieces)
    BY <2>1, <2>3 DEF Flattens
  <2>5. IsCount(task.before) /\ task.digest = StandardDigest(task.before, FlattenSeq(task.pieces))
    BY <2>2, TasksAre
  <2>6. SHA1Final(ctx) = StandardDigest(task.before, f[part])
    BY <2>3, <2>5, HashFinal
  <2> QED BY <2>4, <2>5, <2>6
<1> QED BY <1>1, <1>2, PTL

=============================================================================
