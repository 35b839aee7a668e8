----------------------------- MODULE LzCopy_proofs -----------------------------
(***************************************************************************)
(* Proofs about LzCopy: whatever the lengths, the distance and the place   *)
(* in the buffer, the fast copies of a sequence produce what a copy of one *)
(* byte after the other would, and write nowhere else than at and behind   *)
(* it in the buffer.                                                       *)
(***************************************************************************)
EXTENDS LzCopy, TLAPS

-----------------------------------------------------------------------------
(* Remainders                                                              *)

\* A remainder is the only one.
LEMMA ModIs ==
  ASSUME NEW d \in Nat, d > 0, NEW x \in Int, NEW q \in Int, NEW r \in 0..(d - 1), x = d * q + r
  PROVE  x % d = r
  OBVIOUS

\* Quotient and remainder.
LEMMA ModRange ==
  ASSUME NEW d \in Nat, d > 0, NEW x \in Int
  PROVE  /\ x % d \in 0..(d - 1) /\ x \div d \in Int
         /\ x = d * (x \div d) + (x % d)
  OBVIOUS

\* A number below the period is its own remainder.
LEMMA ModSmall ==
  ASSUME NEW d \in Nat, d > 0, NEW x \in 0..(d - 1)
  PROVE  x % d = x
  OBVIOUS

\* Going back by a period changes nothing.
LEMMA ModMinus ==
  ASSUME NEW d \in Nat, d > 0, NEW x \in Int
  PROVE  (x - d) % d = x % d
<1> DEFINE q == x \div d
           r == x % d
<1>1. r \in 0..(d - 1) /\ q \in Int /\ x = d * q + r
  BY ModRange
<1> HIDE DEF q, r
<1>2. x - d = d * (q - 1) + r /\ q - 1 \in Int /\ x - d \in Int
  BY <1>1
<1>3. (x - d) % d = r
  BY <1>1, <1>2, ModIs
<1> QED
  BY <1>3 DEF r

-----------------------------------------------------------------------------
(* Copies of single bytes                                                  *)

\* A copy changes nothing but the bytes it is to produce.
LEMMA CopyRest ==
  ASSUME NEW mem, NEW op \in Int, NEW ip \in Int, NEW n \in Int
  PROVE  /\ DOMAIN CopyBytes(mem, op, ip, n) = DOMAIN mem
         /\ \A a \in DOMAIN mem : ~ (op <= a /\ a < op + n) => CopyBytes(mem, op, ip, n)[a] = mem[a]
  BY DEF CopyBytes

\* What a byte of the copy is: at a distance, the source repeats.
LEMMA CopyFrom ==
  ASSUME NEW mem, NEW op \in Int, NEW ip \in Int, NEW n \in Int,
         NEW a \in DOMAIN mem, a \in Int, op <= a, a < op + n
  PROVE  CopyBytes(mem, op, ip, n)[a]
           = Peek(mem, IF op > ip THEN ip + ((a - op) % (op - ip)) ELSE ip + (a - op))
  BY DEF CopyBytes

\* A second copy, of k bytes, begins where the first, of n bytes, has come to or
\* before; total bytes are copied then.
GoesOn(mem, op, ip, n, op2, ip2, k, total) ==
  /\ DOMAIN mem \subseteq Int
  /\ op \in Int /\ ip \in Int /\ n \in Nat /\ op2 \in Int /\ ip2 \in Int /\ k \in Nat /\ total \in Nat
  /\ op2 - op = ip2 - ip /\ op <= op2 /\ op2 <= op + n /\ op + total = op2 + k
  /\ op .. (op + n - 1) \subseteq DOMAIN mem
  /\ op > ip \/ op + n <= ip

\* Two copies, the second of which goes on where the first is or repeats some of it,
\* are one.
LEMMA CopyTwice ==
  ASSUME NEW mem, NEW op, NEW ip, NEW n, NEW op2, NEW ip2, NEW k, NEW total,
         GoesOn(mem, op, ip, n, op2, ip2, k, total),
         NEW a \in DOMAIN mem, a < op + total
  PROVE  CopyBytes(CopyBytes(mem, op, ip, n), op2, ip2, k)[a] = CopyBytes(mem, op, ip, total)[a]
<1> DEFINE one == CopyBytes(mem, op, ip, n)
           two == CopyBytes(one, op2, ip2, k)
           all == CopyBytes(mem, op, ip, total)
           d   == op - ip
           m   == op2 - op
<1>0. /\ DOMAIN mem \subseteq Int
      /\ op \in Int /\ ip \in Int /\ n \in Nat /\ op2 \in Int /\ ip2 \in Int /\ k \in Nat /\ total \in Nat
      /\ m \in Nat /\ op2 = op + m /\ ip2 = ip + m /\ m <= n /\ total = m + k
      /\ op .. (op + n - 1) \subseteq DOMAIN mem
      /\ op > ip \/ op + n <= ip
  BY DEF GoesOn
<1> HIDE DEF m
<1>1. DOMAIN one = DOMAIN mem /\ d \in Int
  BY <1>0, CopyRest
<1> HIDE DEF one, two, all
<1> SUFFICES two[a] = all[a]
  BY DEF one, two, all
<1>2. a \in Int
  BY <1>0
<1>3. CASE a < op
  BY <1>0, <1>1, <1>2, <1>3, CopyRest DEF one, two, all
<1>4. CASE op <= a /\ a < op + m
  <2>1. two[a] = one[a]
    <3>1. ~ (op2 <= a /\ a < op2 + k)
      BY <1>0, <1>2, <1>4
    <3> QED BY <1>0, <1>1, <3>1 DEF two, CopyBytes
  <2>2. a < op + n /\ a < op + total
    BY <1>0, <1>2, <1>4
  <2>3. one[a] = all[a]
    BY <1>0, <1>1, <1>2, <1>4, <2>2, CopyFrom DEF one, all
  <2> QED BY <1>0, <2>1, <2>3
<1>5. CASE op2 <= a
  <2> DEFINE j == a - op2
  <2>1. j \in Nat /\ a - op = j + m /\ j < k
    BY <1>0, <1>2, <1>5
  <2> HIDE DEF j
  <2>2. CASE op > ip
    <3> DEFINE r == j % d
               x == ip2 + r
    <3>1. d \in Nat /\ d > 0 /\ op2 - ip2 = d
      BY <1>0, <2>2
    <3>2. r \in 0..(d - 1)
      BY <1>0, <2>1, <3>1, ModRange
    <3>3. two[a] = Peek(one, x)
      <4>1. two[a] = Peek(one, ip2 + ((a - op2) % d))
        <5>1. op2 > ip2 /\ a < op2 + k
          BY <1>0, <2>2
        <5> QED BY <1>0, <1>1, <1>2, <1>5, <3>1, <5>1, CopyFrom DEF two
      <4> QED BY <1>0, <4>1 DEF j
    <3>4. all[a] = Peek(mem, ip + ((j + m) % d))
      <4>1. all[a] = Peek(mem, ip + ((a - op) % (op - ip)))
        BY <1>0, <1>1, <1>2, <1>5, <2>2, CopyFrom DEF all
      <4> QED BY <1>0, <2>1, <4>1
    <3> HIDE DEF r, d
    <3>5. x \in Int
      BY <1>0, <3>1, <3>2
    <3>6. CASE x >= op
      <4>1. x < op + n /\ x \in DOMAIN mem
        <5>1. x < op + n
          BY <1>0, <3>1, <3>2 DEF d
        <5>2. x \in op .. (op + n - 1)
          BY <1>0, <3>5, <3>6, <5>1
        <5> QED BY <1>0, <5>1, <5>2
      <4>2. one[x] = Peek(mem, ip + ((x - op) % d))
        BY <1>0, <2>2, <3>5, <3>6, <4>1, CopyFrom DEF one, d
      <4>3. (x - op) % d = (j + m) % d
        <5>1. x - op = (r + m) - d
          BY <1>0, <3>2 DEF d
        <5>2. (x - op) % d = (r + m) % d
          <6>1. r + m \in Int
            BY <1>0, <3>2
          <6> DEFINE z == r + m
          <6>2. (z - d) % d = z % d
            <7>1. z \in Int
              BY <6>1
            <7> HIDE DEF z
            <7> QED BY <3>1, <7>1, ModMinus
          <6> QED BY <5>1, <6>2
        <5>3. (r + m) % d = (j + m) % d
          <6> DEFINE q == j \div d
                     s == (r + m) \div d
                     u == (r + m) % d
          <6>1. q \in Int /\ j = d * q + r
            BY <1>0, <2>1, <3>1, ModRange DEF r
          <6>2. s \in Int /\ u \in 0..(d - 1) /\ r + m = d * s + u
            BY <1>0, <3>1, <3>2, ModRange
          <6> HIDE DEF q, s, u
          <6>3. j + m = d * (q + s) + u /\ j + m \in Int /\ q + s \in Int
            BY <1>0, <2>1, <3>1, <3>2, <6>1, <6>2
          <6> DEFINE w == j + m
                     p == q + s
          <6>4. w = d * p + u /\ w \in Int /\ p \in Int
            BY <6>3
          <6> HIDE DEF w, p, x
          <6>5. w % d = u
            BY <3>1, <6>2, <6>4, ModIs
          <6> QED BY <6>5 DEF u, w
        <5> QED BY <1>0, <5>2, <5>3
      <4> QED BY <1>0, <1>1, <3>3, <3>4, <4>1, <4>2, <4>3 DEF Peek
    <3>7. CASE x < op
      <4>1. Peek(one, x) = Peek(mem, x)
        <5>1. x \in DOMAIN mem => one[x] = mem[x]
          BY <1>0, <3>5, <3>7, CopyRest DEF one
        <5> QED BY <1>0, <1>1, <5>1 DEF Peek
      <4>2. (j + m) % d = r + m
        <5>1. r + m \in 0..(d - 1)
          BY <1>0, <3>1, <3>2, <3>7 DEF d
        <5> DEFINE q == j \div d
        <5>2. q \in Int /\ j = d * q + r
          BY <1>0, <2>1, <3>1, ModRange DEF r
        <5> HIDE DEF q
        <5> DEFINE w == j + m
                   u == r + m
        <5>3. w = d * q + u /\ w \in Int
          BY <1>0, <2>1, <3>1, <3>2, <5>2
        <5>4. u \in 0..(d - 1)
          BY <5>1
        <5> HIDE DEF w, u, x
        <5>5. w % d = u
          BY <3>1, <5>2, <5>3, <5>4, ModIs
        <5> QED BY <5>5 DEF u, w
      <4>3. x = ip + (r + m)
        BY <1>0, <3>2
      <4> QED BY <1>0, <3>3, <3>4, <4>1, <4>2, <4>3
    <3> QED BY <1>0, <3>5, <3>6, <3>7
  <2>3. CASE op <= ip
    <3>1. two[a] = Peek(one, ip2 + j)
      <4>1. ~ (op2 > ip2) /\ a < op2 + k
        BY <1>0, <2>3
      <4> QED BY <1>0, <1>1, <1>2, <1>5, <4>1, CopyFrom DEF two, j
    <3>2. all[a] = Peek(mem, ip + (j + m))
      BY <1>0, <1>1, <1>2, <1>5, <2>1, <2>3, CopyFrom DEF all
    <3>3. ip2 + j >= op + n /\ ip2 + j = ip + (j + m)
      BY <1>0, <2>1, <2>3
    <3>4. Peek(one, ip2 + j) = Peek(mem, ip2 + j)
      <4> DEFINE y == ip2 + j
      <4>1. ~ (op <= y /\ y < op + n)
        BY <1>0, <2>1, <3>3
      <4>2. y \in DOMAIN mem => one[y] = mem[y]
        BY <1>0, <4>1, CopyRest DEF one
      <4> QED BY <1>1, <4>2 DEF Peek
    <3> QED BY <3>1, <3>2, <3>3, <3>4
  <2> QED BY <1>0, <2>2, <2>3
<1> QED
  BY <1>0, <1>2, <1>3, <1>4, <1>5

-----------------------------------------------------------------------------
(* ZSTD_overlapCopy8                                                       *)

\* How far source and destination are apart after it: a multiple of the distance.
Spread(offset) == IF offset >= 8 THEN offset ELSE <<8, 8, 9, 8, 10, 12, 14>>[offset]

\* It is far enough for copies of eight bytes.
LEMMA SpreadIs ==
  ASSUME NEW d \in Nat, d > 0
  PROVE  Spread(d) \in Nat /\ Spread(d) >= 8
<1>1. d = 1 \/ d = 2 \/ d = 3 \/ d = 4 \/ d = 5 \/ d = 6 \/ d = 7 \/ d >= 8
  OBVIOUS
<1> QED BY <1>1 DEF Spread

\* Copies of apart places are all the same.
LEMMA NoOverlap ==
  ASSUME NEW mem, DOMAIN mem \subseteq Int, NEW op \in Int, NEW ip \in Int, NEW n \in Nat,
         op - ip >= n \/ ip - op >= n
  PROVE  /\ Memcpy(mem, op, ip, n) = Memmove(mem, op, ip, n)
         /\ Memmove(mem, op, ip, n) = CopyBytes(mem, op, ip, n)
<1>1. ~ (op - ip \in (1 - n)..(n - 1) /\ op # ip)
  OBVIOUS
<1>2. \A a \in DOMAIN mem : op <= a /\ a < op + n /\ op > ip =>
        ip + ((a - op) % (op - ip)) = ip + (a - op)
  <2> SUFFICES ASSUME NEW a \in DOMAIN mem, op <= a, a < op + n, op > ip
               PROVE  (a - op) % (op - ip) = a - op
    OBVIOUS
  <2>1. a \in Int /\ op - ip \in Nat /\ op - ip > 0 /\ a - op \in 0..(op - ip - 1)
    OBVIOUS
  <2> QED BY <2>1, ModSmall
<1>3. Memmove(mem, op, ip, n) = CopyBytes(mem, op, ip, n)
  BY <1>2 DEF Memmove, CopyBytes
<1> QED
  BY <1>1, <1>3 DEF Memcpy

\* A match d bytes back, whose first eight bytes can be written; op8 and from are
\* where source and destination are behind them.
Match(mem, op, ip, d, op8, from) ==
  /\ DOMAIN mem \subseteq Int /\ op \in Int /\ ip \in Int /\ op8 \in Int /\ from \in Int
  /\ d \in Nat /\ d > 0 /\ ip = op - d /\ op8 = op + 8 /\ from = op8 - Spread(d)
  /\ op .. (op + 7) \subseteq DOMAIN mem

\* The first eight bytes are right at every distance, and the source is spread then.
LEMMA OverlapCopyIs ==
  ASSUME NEW mem, NEW op, NEW ip, NEW d, NEW op8, NEW from, Match(mem, op, ip, d, op8, from)
  PROVE  /\ OverlapCopy8(mem, op, ip, d).mem = CopyBytes(mem, op, ip, 8)
         /\ OverlapCopy8(mem, op, ip, d).op = op8
         /\ OverlapCopy8(mem, op, ip, d).ip = from
<1>0. /\ DOMAIN mem \subseteq Int /\ op \in Int /\ ip \in Int /\ op8 = op + 8 /\ from = op8 - Spread(d)
      /\ op .. (op + 7) \subseteq DOMAIN mem /\ op > ip /\ op - ip = d
  BY DEF Match
<1>1. d \in Nat /\ d > 0 /\ ip = op - d
  BY DEF Match
<1>2. CASE d >= 8
  <2>1. Memcpy(mem, op, ip, 8) = CopyBytes(mem, op, ip, 8)
    BY <1>0, <1>2, NoOverlap
  <2>2. OverlapCopy8(mem, op, ip, d) = [mem |-> Memcpy(mem, op, ip, 8), op |-> op + 8, ip |-> ip + 8]
    BY <1>0, <1>2 DEF OverlapCopy8
  <2> QED BY <1>0, <1>1, <1>2, <2>1, <2>2 DEF Spread
<1>3. CASE d < 8
  <2> DEFINE t == dec32table[d + 1]
             u == dec64table[d + 1]
             spread == ip + t
             one == CopyBytes(mem, op, ip, 4)
             two == Memcpy(one, op + 4, spread, 4)
             all == CopyBytes(mem, op, ip, 8)
  <2>1. \/ d = 1 /\ t = 1 /\ u = 8 /\ Spread(d) = 8
        \/ d = 2 /\ t = 2 /\ u = 8 /\ Spread(d) = 8
        \/ d = 3 /\ t = 1 /\ u = 7 /\ Spread(d) = 9
        \/ d = 4 /\ t = 4 /\ u = 8 /\ Spread(d) = 8
        \/ d = 5 /\ t = 4 /\ u = 9 /\ Spread(d) = 10
        \/ d = 6 /\ t = 4 /\ u = 10 /\ Spread(d) = 12
        \/ d = 7 /\ t = 4 /\ u = 11 /\ Spread(d) = 14
    <3>1. d = 1 \/ d = 2 \/ d = 3 \/ d = 4 \/ d = 5 \/ d = 6 \/ d = 7
      BY <1>0, <1>1, <1>3
    <3> QED BY <1>0, <3>1 DEF dec32table, dec64table, Spread
  <2>2. OverlapCopy8(mem, op, ip, d) = [mem |-> two, op |-> op + 8, ip |-> spread - u + 8]
    <3>1. ~ (d >= 8)
      BY <1>0, <1>1, <1>3
    <3> QED BY <1>0, <3>1 DEF OverlapCopy8
  <2>3. t \in Nat /\ u \in Nat /\ spread \in Int /\ DOMAIN one = DOMAIN mem
        /\ (op + 4) - spread >= 4 /\ op + 4 \in Int
    <3>1. DOMAIN one = DOMAIN mem
      BY <1>0, CopyRest
    <3> HIDE DEF t, u, one
    <3>2. t \in Nat /\ u \in Nat
      BY <1>0, <2>1
    <3>3. d - t >= 0
      BY <1>0, <1>1, <2>1
    <3> QED BY <1>0, <1>1, <3>1, <3>2, <3>3
  <2>4. two = Memmove(one, op + 4, spread, 4)
    <3> HIDE DEF spread, one
    <3> QED BY <1>0, <2>3, NoOverlap
  <2>5. \A a \in DOMAIN mem : two[a] = all[a]
    <3> SUFFICES ASSUME NEW a \in DOMAIN mem PROVE two[a] = all[a]
      BY <1>0
    <3>1. a \in Int
      BY <1>0
    <3> DEFINE s == spread + (a - (op + 4))
    <3>2. two[a] = IF op + 4 <= a /\ a < op + 8 THEN Peek(one, s) ELSE one[a]
      <4> HIDE DEF one, spread
      <4> QED BY <1>0, <2>3, <2>4, <3>1 DEF Memmove
    <3>3. CASE op + 4 <= a /\ a < op + 8
      <4>1. two[a] = Peek(one, s)
        BY <1>0, <3>2, <3>3
      <4>2. all[a] = Peek(mem, ip + ((a - op) % d))
        BY <1>0, <3>1, <3>3, CopyFrom
      <4>3. s \in Int /\ s < op + 4 /\ s >= ip /\ s - op \in Int
        <5> HIDE DEF t, u
        <5> QED BY <1>0, <1>1, <2>1, <3>1, <3>3
      <4>4. s >= op => s \in DOMAIN mem /\ one[s] = Peek(mem, ip + ((s - op) % d))
        <5> SUFFICES ASSUME s >= op PROVE s \in DOMAIN mem /\ one[s] = Peek(mem, ip + ((s - op) % d))
          BY <1>0
        <5> HIDE DEF s
        <5>1. s \in op .. (op + 7)
          BY <1>0, <4>3
        <5> QED BY <1>0, <4>3, <5>1, CopyFrom
      <4>5. s >= op => (s - op) % d = (a - op) % d
        <5> DEFINE j == a - op
        <5>1. j \in Int /\ 4 <= j /\ j < 8 /\ s - op = j + t - 4 - d
          BY <1>0, <1>1, <2>3, <3>1, <3>3
        <5> HIDE DEF t, u, j, s
        <5>2. (j + t - 4 - d) % d = j % d
          BY <1>0, <2>1, <5>1
        <5> QED BY <1>0, <5>1, <5>2 DEF j
      <4>6. s < op => ip + ((a - op) % d) = s
        <5> DEFINE j == a - op
        <5>1. j \in Int /\ 4 <= j /\ j < 8 /\ s = ip + (j + t - 4)
          BY <1>0, <1>1, <2>3, <3>1, <3>3
        <5> SUFFICES ASSUME s < op PROVE (j % d) = j + t - 4
          BY <1>0, <5>1
        <5>2. j + t - 4 < d
          BY <1>0, <1>1, <2>3, <5>1
        <5> HIDE DEF t, u, j, s
        <5> QED BY <1>0, <2>1, <5>1, <5>2
      <4>7. s < op => Peek(one, s) = Peek(mem, s)
        <5>1. s < op /\ s \in DOMAIN mem => one[s] = mem[s]
          BY <1>0, <4>3 DEF CopyBytes
        <5> QED BY <1>0, <2>3, <5>1 DEF Peek
      <4>8. s >= op => Peek(one, s) = one[s]
        BY <1>0, <2>3, <4>4 DEF Peek
      <4> HIDE DEF s, all, one, two
      <4> QED BY <1>0, <4>1, <4>2, <4>3, <4>4, <4>5, <4>6, <4>7, <4>8
    <3>4. CASE ~ (op + 4 <= a /\ a < op + 8)
      <4>1. two[a] = one[a]
        BY <1>0, <3>2, <3>4
      <4>2. one[a] = all[a]
        <5>1. CASE a < op \/ a >= op + 8
          BY <1>0, <3>1, <5>1, CopyRest
        <5>2. CASE op <= a /\ a < op + 4
          BY <1>0, <3>1, <5>2, CopyFrom
        <5> QED BY <1>0, <3>1, <3>4, <5>1, <5>2
      <4> QED BY <1>0, <4>1, <4>2
    <3> QED BY <1>0, <3>3, <3>4
  <2>6. two = all
    <3>1. DOMAIN two = DOMAIN mem /\ DOMAIN all = DOMAIN mem
      BY <1>0, <2>3, <2>4, CopyRest DEF Memmove
    <3>2. two = [a \in DOMAIN two |-> two[a]] /\ all = [a \in DOMAIN all |-> all[a]]
      <4> HIDE DEF one, spread
      <4> QED BY <1>0, <2>4 DEF Memmove, CopyBytes
    <3> HIDE DEF two, all
    <3> QED BY <1>0, <2>5, <3>1, <3>2
  <2>7. spread - u + 8 = op + 8 - Spread(d)
    <3> HIDE DEF t, u
    <3> QED BY <1>0, <1>1, <2>1
  <2> QED
    <3>1. op + 8 - Spread(d) = from
      <4> HIDE DEF two, all, spread, u
      <4> QED BY <1>0, <1>1, SpreadIs
    <3> HIDE DEF two, all, spread, u
    <3>2. OverlapCopy8(mem, op, ip, d) = [mem |-> all, op |-> op8, ip |-> from]
      BY <1>0, <2>2, <2>6, <2>7, <3>1
    <3> QED BY <3>2 DEF all
<1> QED
  BY <1>0, <1>1, <1>2, <1>3

\* A copy that goes on at the spread distance is the copy at the distance itself.
LEMMA SpreadCopy ==
  ASSUME NEW mem, DOMAIN mem \subseteq Int, NEW op \in Int, NEW ip \in Int, op > ip,
         op .. (op + 7) \subseteq DOMAIN mem, NEW n \in Nat
  PROVE  LET one == CopyBytes(mem, op, ip, 8)
             two == CopyBytes(one, op + 8, op + 8 - Spread(op - ip), n)
         IN  \A a \in DOMAIN mem : two[a] = CopyBytes(mem, op, ip, 8 + n)[a]
<1> DEFINE d == op - ip
           D == Spread(d)
           one == CopyBytes(mem, op, ip, 8)
           two == CopyBytes(one, op + 8, op + 8 - D, n)
           all == CopyBytes(mem, op, ip, 8 + n)
<1>1. d \in Nat /\ d > 0 /\ ip = op - d /\ DOMAIN one = DOMAIN mem
  BY CopyRest
<1> SUFFICES ASSUME NEW a \in DOMAIN mem PROVE two[a] = all[a]
  OBVIOUS
<1>2. a \in Int
  OBVIOUS
<1>3. D \in Nat /\ D >= 8 /\ op + 8 - D \in Int
  <2>2. D \in Nat /\ D >= 8
    BY <1>1, SpreadIs
  <2> HIDE DEF D
  <2> QED BY <2>2
<1>4. CASE a >= op + 8 + n
  <2>1. ~ (op + 8 <= a /\ a < (op + 8) + n) /\ ~ (op <= a /\ a < op + (8 + n))
        /\ ~ (op <= a /\ a < op + 8)
    BY <1>2, <1>4
  <2>2. two[a] = one[a]
    <3> HIDE DEF one, D
    <3> QED BY <1>1, <1>3, <2>1, CopyRest
  <2>3. one[a] = mem[a] /\ all[a] = mem[a]
    BY <2>1, CopyRest
  <2> QED BY <2>2, <2>3
<1>5. CASE d >= 8 /\ a < op + 8 + n
  <2>1. D = d /\ op + 8 - D = ip + 8
    BY <1>1, <1>5 DEF Spread
  <2> DEFINE too == CopyBytes(one, op + 8, ip + 8, n)
  <2>2. too[a] = all[a]
    <3>1. GoesOn(mem, op, ip, 8, op + 8, ip + 8, n, 8 + n)
      BY DEF GoesOn
    <3> QED BY <1>5, <3>1, CopyTwice
  <2>3. two = too
    BY <2>1
  <2> HIDE DEF two, too
  <2> QED BY <2>2, <2>3
<1>6. CASE d < 8 /\ a < op + 8
  <2>1. two[a] = one[a]
    <3>1. ~ (op + 8 <= a /\ a < (op + 8) + n)
      BY <1>2, <1>6
    <3> HIDE DEF one, D
    <3> QED BY <1>1, <1>3, <3>1, CopyRest
  <2>2. CASE a < op
    BY <1>2, <2>1, <2>2, CopyRest
  <2>3. CASE op <= a
    <3>1. one[a] = Peek(mem, ip + ((a - op) % (op - ip)))
      BY <1>2, <1>6, <2>3, CopyFrom
    <3>2. all[a] = Peek(mem, ip + ((a - op) % (op - ip)))
      <4>1. a < op + (8 + n)
        BY <1>2, <1>6
      <4> QED BY <1>2, <2>3, <4>1, CopyFrom
    <3> QED BY <2>1, <3>1, <3>2
  <2> QED BY <1>2, <2>2, <2>3
<1>7. CASE d < 8 /\ op + 8 <= a /\ a < op + 8 + n
  <2> DEFINE j == a - (op + 8)
             x == (op + 8 - D) + (j % D)
  <2>1. j \in Nat /\ a - op = j + 8
    BY <1>2, <1>7
  <2>2. two[a] = Peek(one, x)
    <3>1. op + 8 > op + 8 - D /\ (op + 8) - (op + 8 - D) = D
      BY <1>3
    <3> HIDE DEF one, D
    <3>2. two[a] = Peek(one, (op + 8 - D) + ((a - (op + 8)) % ((op + 8) - (op + 8 - D))))
      BY <1>1, <1>2, <1>3, <1>7, <3>1, CopyFrom
    <3> QED BY <3>1, <3>2
  <2>3. all[a] = Peek(mem, ip + ((j + 8) % d))
    <3>1. op <= a /\ a < op + (8 + n)
      BY <1>2, <1>7
    <3>2. all[a] = Peek(mem, ip + ((a - op) % (op - ip)))
      BY <1>2, <3>1, CopyFrom
    <3> QED BY <2>1, <3>2
  <2>4. \/ d = 1 /\ D = 8
        \/ d = 2 /\ D = 8
        \/ d = 3 /\ D = 9
        \/ d = 4 /\ D = 8
        \/ d = 5 /\ D = 10
        \/ d = 6 /\ D = 12
        \/ d = 7 /\ D = 14
    <3> HIDE DEF d
    <3>1. d = 1 \/ d = 2 \/ d = 3 \/ d = 4 \/ d = 5 \/ d = 6 \/ d = 7
      BY <1>1, <1>7
    <3> QED BY <3>1 DEF Spread
  <2> DEFINE r == j % D
  <2>5. r \in 0..(D - 1) /\ x = op + 8 - D + r /\ x \in Int
    <3> HIDE DEF D, j
    <3>1. r \in 0..(D - 1)
      BY <1>3, <2>1, ModRange
    <3>2. x = (op + 8 - D) + r
      OBVIOUS
    <3> HIDE DEF r, x
    <3> QED BY <1>3, <3>1, <3>2
  <2>6. ip <= x /\ x < op + 8
    <3> HIDE DEF D, d, r, x
    <3> QED BY <1>1, <2>4, <2>5
  <2>7. CASE x >= op
    <3>1. x \in op .. (op + 7)
      <4> HIDE DEF x
      <4> QED BY <2>5, <2>6, <2>7
    <3>2. one[x] = Peek(mem, ip + ((x - op) % (op - ip)))
      <4> HIDE DEF x
      <4> QED BY <2>5, <2>6, <2>7, <3>1, CopyFrom
    <3>3. (x - op) % d = (j + 8) % d
      <4> DEFINE y == x - op
      <4>1. y = 8 - D + (j % D)
        <5> HIDE DEF x, D, j
        <5> QED BY <2>5, <1>3
      <4> HIDE DEF y, D, d, j
      <4>2. y % d = (j + 8) % d
        BY <2>1, <2>4, <4>1
      <4> QED BY <4>2 DEF y
    <3> HIDE DEF x, two, all, one, j
    <3> QED BY <1>1, <2>2, <2>3, <3>1, <3>2, <3>3 DEF Peek
  <2>8. CASE x < op
    <3>1. Peek(one, x) = Peek(mem, x)
      <4> HIDE DEF x
      <4>1. x \in DOMAIN mem => one[x] = mem[x]
        <5>1. ~ (op <= x /\ x < op + 8)
          BY <2>5, <2>8
        <5> QED BY <5>1, CopyRest
      <4> HIDE DEF one
      <4> QED BY <1>1, <4>1 DEF Peek
    <3>2. ip + ((j + 8) % d) = x
      <4>1. x - ip = 8 - D + (j % D) + d
        <5> HIDE DEF x, D, d
        <5> QED BY <1>1, <2>5, <1>3 DEF d
      <4>2. x - ip < d /\ x - ip >= 0
        <5> HIDE DEF x
        <5> QED BY <2>5, <2>6, <2>8
      <4> DEFINE y == x - ip
      <4> HIDE DEF D, d, j, y
      <4>3. (j + 8) % d = y
        BY <2>1, <2>4, <4>1, <4>2 DEF y
      <4> HIDE DEF x
      <4> QED BY <2>5, <4>3 DEF y
    <3> HIDE DEF x, two, all, one, j
    <3> QED BY <2>2, <2>3, <3>1, <3>2
  <2> HIDE DEF x
  <2> QED BY <2>5, <2>7, <2>8
<1> HIDE DEF d
<1> QED
  BY <1>1, <1>2, <1>4, <1>5, <1>6, <1>7

-----------------------------------------------------------------------------
(* ZSTD_wildcopy                                                           *)

\* Never less than asked for, and less than WILDCOPY_OVERLENGTH more.
LEMMA WildLengthIs ==
  ASSUME NEW length \in Int, NEW step \in {8, 16}
  PROVE  /\ WildLength(length, step) \in Nat /\ WildLength(length, step) >= length
         /\ WildLength(length, step) <= (IF length < 1 THEN 1 ELSE length) + 31
<1> DEFINE n == WildLength(length, step)
           most == IF length < 1 THEN 1 ELSE length
<1> HIDE DEF n, most
<1>1. most \in Nat /\ most >= 1 /\ most >= length /\ (length >= 1 => most = length)
  BY DEF most
<1>2. CASE step = 8
  <2> DEFINE q == (most + 8 - 1) \div 8
  <2>1. n = q * 8
    BY <1>2 DEF n, most, WildLength, RoundUp
  <2>2. most + 8 - 1 = 8 * q + ((most + 8 - 1) % 8) /\ ((most + 8 - 1) % 8) \in 0..7 /\ q \in Int
    BY <1>1, ModRange
  <2> HIDE DEF q
  <2>3. n \in Nat /\ n >= length /\ n <= most + 31
    BY <1>1, <2>1, <2>2
  <2> QED BY <2>3 DEF n, most
<1>3. CASE step = 16
  <2> DEFINE q == (length - 16 + 32 - 1) \div 32
  <2>1. n = IF length <= 16 THEN 16 ELSE 16 + q * 32
    BY <1>3 DEF n, WildLength, RoundUp
  <2>2. length - 16 + 32 - 1 = 32 * q + ((length - 16 + 32 - 1) % 32)
        /\ ((length - 16 + 32 - 1) % 32) \in 0..31 /\ q \in Int
    BY ModRange
  <2> HIDE DEF q
  <2>3. n \in Nat /\ n >= length /\ n <= most + 31
    BY <1>1, <2>1, <2>2
  <2> QED BY <2>3 DEF n, most
<1> QED
  BY <1>2, <1>3

\* For the rest of a match, from eight bytes away on.
Near(mem, op, ip, length) == Wildcopy(mem, op, ip, length, TRUE)

\* It copies too much, but less than 32 bytes, and what it copies is right.
LEMMA WildNear ==
  ASSUME NEW mem, NEW op \in Int, NEW ip \in Int, op - ip >= 8, NEW length \in Int
  PROVE  \E n \in Nat :
           /\ n >= length /\ n <= (IF length < 1 THEN 1 ELSE length) + 31
           /\ Near(mem, op, ip, length) = CopyBytes(mem, op, ip, n)
<1> DEFINE step == IF op - ip < 16 THEN 8 ELSE 16
           n == WildLength(length, step)
<1>1. step \in {8, 16} /\ ~ (op - ip \in (1 - step)..(step - 1))
  OBVIOUS
<1>2. n \in Nat /\ n >= length /\ n <= (IF length < 1 THEN 1 ELSE length) + 31
  BY <1>1, WildLengthIs
<1>3. Near(mem, op, ip, length) = CopyBytes(mem, op, ip, n)
  BY <1>1 DEF Near, Wildcopy, WILDCOPY_VECLEN
<1> HIDE DEF n
<1> QED
  BY <1>2, <1>3

\* For literals, and for a match at 16 or more.
Far(mem, op, ip, length) == Wildcopy(mem, op, ip, length, FALSE)

\* It does the same.
LEMMA WildFar ==
  ASSUME NEW mem, NEW op \in Int, NEW ip \in Int, op - ip >= 16 \/ ip - op >= 16, NEW length \in Int
  PROVE  \E n \in Nat :
           /\ n >= length /\ n <= (IF length < 1 THEN 1 ELSE length) + 31
           /\ Far(mem, op, ip, length) = CopyBytes(mem, op, ip, n)
<1> DEFINE n == WildLength(length, 16)
<1>1. ~ (op - ip \in (1 - 16)..(16 - 1))
  OBVIOUS
<1>2. n \in Nat /\ n >= length /\ n <= (IF length < 1 THEN 1 ELSE length) + 31
  BY WildLengthIs
<1>3. Far(mem, op, ip, length) = CopyBytes(mem, op, ip, n)
  BY <1>1 DEF Far, Wildcopy
<1> HIDE DEF n
<1> QED
  BY <1>2, <1>3

-----------------------------------------------------------------------------
(* ZSTD_safecopy                                                           *)

\* new is mem after n bytes were copied; behind them, below limit, it may be anything.
Copied(new, mem, op, ip, n, limit) ==
  /\ DOMAIN new = DOMAIN mem
  /\ \A a \in DOMAIN mem : a < op \/ a >= limit => new[a] = mem[a]
  /\ \A a \in DOMAIN mem : op <= a /\ a < op + n => new[a] = CopyBytes(mem, op, ip, n)[a]

\* Copying too much, but below the limit.
LEMMA CopiedMore ==
  ASSUME NEW mem, DOMAIN mem \subseteq Int, NEW op \in Int, NEW ip \in Int,
         NEW n \in Nat, NEW more \in Nat, NEW limit \in Int, n <= more, op + more <= limit
  PROVE  Copied(CopyBytes(mem, op, ip, more), mem, op, ip, n, limit)
<1>1. DOMAIN CopyBytes(mem, op, ip, more) = DOMAIN mem
  BY CopyRest
<1>2. ASSUME NEW a \in DOMAIN mem, a < op \/ a >= limit
      PROVE  CopyBytes(mem, op, ip, more)[a] = mem[a]
  <2>1. ~ (op <= a /\ a < op + more)
    BY <1>2
  <2> QED BY <2>1, CopyRest
<1>3. ASSUME NEW a \in DOMAIN mem, op <= a, a < op + n
      PROVE  CopyBytes(mem, op, ip, more)[a] = CopyBytes(mem, op, ip, n)[a]
  <2>1. a \in Int /\ a < op + more
    BY <1>3
  <2> QED BY <1>3, <2>1, CopyFrom
<1> QED
  BY <1>1, <1>2, <1>3 DEF Copied

\* Two copies, the second of which goes on inside what the first has copied.
LEMMA CopiedTwice ==
  ASSUME NEW mem, NEW op, NEW ip, NEW n, NEW op2, NEW ip2, NEW k, NEW total,
         GoesOn(mem, op, ip, n, op2, ip2, k, total),
         NEW limit \in Int, op + n <= limit, op + total <= limit
  PROVE  Copied(CopyBytes(CopyBytes(mem, op, ip, n), op2, ip2, k), mem, op, ip, total, limit)
<1> DEFINE one == CopyBytes(mem, op, ip, n)
           two == CopyBytes(one, op2, ip2, k)
<1>0. /\ DOMAIN mem \subseteq Int
      /\ op \in Int /\ ip \in Int /\ n \in Nat /\ op2 \in Int /\ ip2 \in Int /\ k \in Nat /\ total \in Nat
      /\ op <= op2 /\ op + total = op2 + k
  BY DEF GoesOn
<1>1. DOMAIN one = DOMAIN mem
  BY <1>0, CopyRest
<1>2. DOMAIN two = DOMAIN mem
  <2> HIDE DEF one
  <2> QED BY <1>0, <1>1, CopyRest
<1>3. ASSUME NEW a \in DOMAIN mem, a < op \/ a >= limit PROVE two[a] = mem[a]
  <2>1. ~ (op2 <= a /\ a < op2 + k) /\ ~ (op <= a /\ a < op + n)
    BY <1>0, <1>3
  <2>2. two[a] = one[a]
    <3> HIDE DEF one
    <3> QED BY <1>0, <1>1, <2>1, CopyRest
  <2>3. one[a] = mem[a]
    BY <1>0, <2>1, CopyRest
  <2> QED BY <2>2, <2>3
<1>4. ASSUME NEW a \in DOMAIN mem, a < op + total
      PROVE  two[a] = CopyBytes(mem, op, ip, total)[a]
  BY <1>4, CopyTwice
<1> HIDE DEF two
<1>5. Copied(two, mem, op, ip, total, limit)
  BY <1>2, <1>3, <1>4 DEF Copied
<1> QED
  BY <1>5 DEF two

\* Going on at the spread distance behind the first eight bytes.
LEMMA CopiedSpread ==
  ASSUME NEW mem, NEW op, NEW ip, NEW d, NEW op8, NEW from, Match(mem, op, ip, d, op8, from),
         NEW n \in Nat, NEW total, total = 8 + n, NEW limit \in Int, op8 <= limit, NEW new,
         Copied(new, CopyBytes(mem, op, ip, 8), op8, from, n, limit)
  PROVE  Copied(new, mem, op, ip, total, limit)
<1> DEFINE one == CopyBytes(mem, op, ip, 8)
           two == CopyBytes(one, op8, from, n)
           all == CopyBytes(mem, op, ip, total)
<1>0. /\ DOMAIN mem \subseteq Int /\ op \in Int /\ ip \in Int /\ op > ip /\ d = op - ip
      /\ op8 = op + 8 /\ from = op + 8 - Spread(op - ip) /\ op .. (op + 7) \subseteq DOMAIN mem
  <2>1. /\ DOMAIN mem \subseteq Int /\ op \in Int /\ ip \in Int /\ op8 = op + 8 /\ from = op8 - Spread(d)
        /\ op .. (op + 7) \subseteq DOMAIN mem /\ d \in Nat /\ d > 0 /\ ip = op - d
    BY DEF Match
  <2>2. d = op - ip /\ op > ip
    BY <2>1
  <2>3. Spread(d) \in Nat
    BY <2>1, SpreadIs
  <2>4. from = op + 8 - Spread(d)
    BY <2>1, <2>3
  <2>5. from = op + 8 - Spread(op - ip)
    BY <2>2, <2>4, Zenon
  <2> QED BY <2>1, <2>2, <2>5
<1>1. DOMAIN one = DOMAIN mem
  BY <1>0, CopyRest
<1>2. \A a \in DOMAIN mem : two[a] = all[a]
  BY <1>0, SpreadCopy
<1>3. /\ DOMAIN new = DOMAIN one
      /\ \A a \in DOMAIN one : a < op8 \/ a >= limit => new[a] = one[a]
      /\ \A a \in DOMAIN one : op8 <= a /\ a < op8 + n => new[a] = two[a]
  BY DEF Copied
<1> HIDE DEF two
<1>4. ASSUME NEW a \in DOMAIN mem, a < op \/ a >= limit PROVE new[a] = mem[a]
  <2>1. ~ (op <= a /\ a < op + 8)
    BY <1>0, <1>4
  <2>2. one[a] = mem[a]
    BY <1>0, <2>1, CopyRest
  <2>3. a < op8 \/ a >= limit
    BY <1>0, <1>4
  <2> HIDE DEF one
  <2> QED BY <1>0, <1>1, <1>3, <2>2, <2>3
<1>5. ASSUME NEW a \in DOMAIN mem, op <= a, a < op + total PROVE new[a] = all[a]
  <2>1. a \in Int
    BY <1>0
  <2>2. CASE a < op + 8
    <3>1. new[a] = one[a]
      <4> HIDE DEF one
      <4> QED BY <1>0, <1>1, <1>3, <2>2
    <3>2. one[a] = all[a]
      BY <1>0, <1>5, <2>1, <2>2, CopyFrom
    <3> QED BY <1>0, <3>1, <3>2
  <2>3. CASE ~ (a < op + 8)
    <3>1. op8 <= a /\ a < op8 + n
      BY <1>0, <1>5, <2>1, <2>3
    <3> HIDE DEF one, all
    <3> QED BY <1>0, <1>1, <1>2, <1>3, <3>1
  <2> QED BY <1>0, <2>2, <2>3
<1> HIDE DEF one
<1> QED
  BY <1>0, <1>1, <1>3, <1>4, <1>5 DEF Copied, all

\* The copy of ZSTD_execSequence and of ZSTD_safecopy after eight bytes of a match.
LEMMA OverlapThenWild ==
  ASSUME NEW mem, NEW op, NEW ip, NEW d, NEW op8, NEW from, Match(mem, op, ip, d, op8, from),
         NEW length \in Nat, length >= 1, NEW total, total = 8 + length,
         NEW limit \in Int, op .. (limit - 1) \subseteq DOMAIN mem, op8 + length + 31 <= limit
  PROVE  Copied(Near(CopyBytes(mem, op, ip, 8), op8, from, length), mem, op, ip, total, limit)
<1> DEFINE one == CopyBytes(mem, op, ip, 8)
<1>0. /\ DOMAIN mem \subseteq Int /\ op \in Int /\ ip \in Int /\ op8 \in Int /\ from \in Int
      /\ op8 = op + 8 /\ op8 - from >= 8
  BY SpreadIs DEF Match
<1>1. DOMAIN one = DOMAIN mem
  BY <1>0, CopyRest
<1>2. length \in Int
  OBVIOUS
<1>3. PICK n \in Nat : /\ n >= length /\ n <= (IF length < 1 THEN 1 ELSE length) + 31
                       /\ Near(one, op8, from, length) = CopyBytes(one, op8, from, n)
  <2> HIDE DEF one
  <2> QED BY <1>0, <1>1, <1>2, WildNear
<1>4. op8 + n <= limit /\ op8 <= limit
  BY <1>0, <1>3
<1>5. Copied(CopyBytes(one, op8, from, n), one, op8, from, length, limit)
  <2> HIDE DEF one
  <2> QED BY <1>0, <1>1, <1>3, <1>4, CopiedMore
<1>6. Copied(CopyBytes(one, op8, from, n), mem, op, ip, total, limit)
  BY <1>4, <1>5, CopiedSpread
<1> HIDE DEF one
<1>7. Copied(Near(one, op8, from, length), mem, op, ip, total, limit)
  BY <1>3, <1>6
<1> QED
  BY <1>7 DEF one

\* Eight bytes or less of a match, by ZSTD_overlapCopy8 alone.
LEMMA OverlapOnly ==
  ASSUME NEW mem, NEW op, NEW ip, NEW d, NEW op8, NEW from, Match(mem, op, ip, d, op8, from),
         NEW length \in Nat, length <= 8, NEW limit \in Int, op8 <= limit
  PROVE  Copied(CopyBytes(mem, op, ip, 8), mem, op, ip, length, limit)
<1>1. DOMAIN mem \subseteq Int /\ op \in Int /\ ip \in Int /\ op + 8 <= limit
  BY DEF Match
<1> QED
  BY <1>1, CopiedMore

\* A match at 16 or more, by ZSTD_wildcopy alone.
LEMMA FarMatch ==
  ASSUME NEW mem, DOMAIN mem \subseteq Int, NEW op \in Int, NEW ip \in Int,
         op - ip >= 16 \/ ip - op >= 16,
         NEW length \in Nat, NEW limit \in Int, op + length + 32 <= limit
  PROVE  Copied(Far(mem, op, ip, length), mem, op, ip, length, limit)
<1>1. PICK n \in Nat : /\ n >= length /\ n <= (IF length < 1 THEN 1 ELSE length) + 31
                       /\ Far(mem, op, ip, length) = CopyBytes(mem, op, ip, n)
  BY WildFar
<1>2. op + n <= limit
  BY <1>1
<1>3. Copied(CopyBytes(mem, op, ip, n), mem, op, ip, length, limit)
  BY <1>1, <1>2, CopiedMore
<1> QED
  BY <1>1, <1>3

\* Less of what was copied.
LEMMA CopiedLess ==
  ASSUME NEW mem, DOMAIN mem \subseteq Int, NEW op \in Int, NEW ip \in Int,
         NEW n \in Nat, NEW more \in Nat, n <= more, NEW limit \in Int, NEW new,
         Copied(new, mem, op, ip, more, limit)
  PROVE  Copied(new, mem, op, ip, n, limit)
<1>1. ASSUME NEW a \in DOMAIN mem, op <= a, a < op + n
      PROVE  new[a] = CopyBytes(mem, op, ip, n)[a]
  <2>1. a \in Int /\ a < op + more
    BY <1>1
  <2>2. new[a] = CopyBytes(mem, op, ip, more)[a]
    BY <1>1, <2>1 DEF Copied
  <2> QED BY <1>1, <2>1, <2>2, CopyFrom
<1> QED
  BY <1>1 DEF Copied

\* The literals of ZSTD_execSequence: 16 bytes, and the rest if there are more.
LEMMA LiteralsCopied ==
  ASSUME NEW mem, DOMAIN mem \subseteq Int, NEW op \in Int, NEW ip \in Int,
         NEW length \in Nat, NEW limit \in Int, op + length + 32 <= limit,
         op .. (limit - 1) \subseteq DOMAIN mem, limit <= ip,
         NEW first, first = CopyBytes(mem, op, ip, 16)
  PROVE  /\ Copied(first, mem, op, ip, IF length <= 16 THEN length ELSE 16, limit)
         /\ length > 16 => Copied(Far(first, op + 16, ip + 16, length - 16),
                                  mem, op, ip, length, limit)
<1>1. Copied(first, mem, op, ip, IF length <= 16 THEN length ELSE 16, limit)
  BY CopiedMore
<1>2. ASSUME length > 16
      PROVE  Copied(Far(first, op + 16, ip + 16, length - 16), mem, op, ip, length, limit)
  <2> DEFINE op2 == op + 16
             ip2 == ip + 16
             rest == length - 16
  <2>1. op2 \in Int /\ ip2 \in Int /\ rest \in Nat /\ rest >= 1 /\ ip2 - op2 >= 16
        /\ op2 = op + 16 /\ ip2 = ip + 16 /\ rest = length - 16
    BY <1>2
  <2> HIDE DEF op2, ip2, rest
  <2>2. PICK n \in Nat : /\ n >= rest /\ n <= (IF rest < 1 THEN 1 ELSE rest) + 31
                         /\ Far(first, op2, ip2, rest) = CopyBytes(first, op2, ip2, n)
    BY <2>1, WildFar
  <2> DEFINE total == 16 + n
  <2>3. total \in Nat /\ total >= length /\ op + total <= limit /\ op + 16 <= limit
    BY <1>2, <2>1, <2>2
  <2>4. GoesOn(mem, op, ip, 16, op2, ip2, n, total)
    BY <2>1, <2>2, <2>3 DEF GoesOn
  <2> HIDE DEF total
  <2>5. Copied(CopyBytes(CopyBytes(mem, op, ip, 16), op2, ip2, n), mem, op, ip, total, limit)
    BY <2>3, <2>4, CopiedTwice
  <2>6. Copied(CopyBytes(first, op2, ip2, n), mem, op, ip, length, limit)
    BY <2>3, <2>5, CopiedLess
  <2> QED BY <2>2, <2>6 DEF op2, ip2, rest
<1> QED
  BY <1>1, <1>2

\* The literals of ZSTD_execSequenceEnd.
LEMMA SafecopyLiterals ==
  ASSUME NEW mem, DOMAIN mem \subseteq Int, NEW op \in Int, NEW ip \in Int,
         NEW length \in Nat, NEW oend_w \in Int, op + length <= oend_w + 32,
         op .. (oend_w + 31) \subseteq DOMAIN mem, oend_w + 32 <= ip,
         NEW limit \in Int,
         limit = IF op + length <= oend_w THEN op + length + 32 ELSE oend_w + 32
  PROVE  Copied(Safecopy(mem, op, oend_w, ip, length, FALSE), mem, op, ip, length, limit)
<1> DEFINE new == Safecopy(mem, op, oend_w, ip, length, FALSE)
<1>0. new = IF length < 8 THEN CopyBytes(mem, op, ip, length)
            ELSE IF op + length <= oend_w THEN Far(mem, op, ip, length)
            ELSE IF op <= oend_w
                   THEN CopyBytes(Far(mem, op, ip, oend_w - op), oend_w, ip + (oend_w - op),
                                  (op + length) - oend_w)
            ELSE CopyBytes(mem, op, ip, (op + length) - op)
  BY Zenon DEF Safecopy, Far
<1> HIDE DEF new
<1> SUFFICES Copied(new, mem, op, ip, length, limit)
  BY DEF new
<1>1. CASE length < 8
  <2>1. new = CopyBytes(mem, op, ip, length)
    BY <1>1, <1>0
  <2>2. op + length <= limit
    OBVIOUS
  <2> QED BY <2>1, <2>2, CopiedMore
<1>2. CASE length >= 8 /\ op + length <= oend_w
  <2>1. new = Far(mem, op, ip, length)
    BY <1>2, <1>0
  <2>2. op + length + 32 <= limit /\ ip - op >= 16
    BY <1>2
  <2> QED BY <2>1, <2>2, FarMatch
<1>3. CASE length >= 8 /\ op + length > oend_w /\ op <= oend_w
  <2> DEFINE m == oend_w - op
             ip2 == ip + m
             k == (op + length) - oend_w
  <2>1. new = CopyBytes(Far(mem, op, ip, m), oend_w, ip2, k)
    BY <1>3, <1>0
  <2>2. m \in Nat /\ ip2 \in Int /\ k \in Nat /\ k <= 32 /\ op + m = oend_w /\ ip2 = ip + m
        /\ op + length = oend_w + k /\ ip - op >= 16
    BY <1>3
  <2> HIDE DEF m, ip2, k
  <2>3. PICK n \in Nat : /\ n >= m /\ n <= (IF m < 1 THEN 1 ELSE m) + 31
                         /\ Far(mem, op, ip, m) = CopyBytes(mem, op, ip, n)
    BY <2>2, WildFar
  <2>4. limit = oend_w + 32 /\ op + n <= limit /\ op + length <= limit
    BY <1>3, <2>2, <2>3
  <2>5. GoesOn(mem, op, ip, n, oend_w, ip2, k, length)
    BY <2>2, <2>3, <2>4 DEF GoesOn
  <2>6. Copied(CopyBytes(CopyBytes(mem, op, ip, n), oend_w, ip2, k), mem, op, ip, length, limit)
    BY <2>4, <2>5, CopiedTwice
  <2> QED BY <2>1, <2>3, <2>6
<1>4. CASE length >= 8 /\ op > oend_w
  <2>1. new = CopyBytes(mem, op, ip, length)
    <3>1. (op + length) - op = length
      OBVIOUS
    <3> QED BY <1>0, <1>4, <3>1
  <2>2. op + length <= limit
    BY <1>4
  <2> QED BY <2>1, <2>2, CopiedMore
<1> QED
  BY <1>1, <1>2, <1>3, <1>4

\* The match of ZSTD_execSequenceEnd, which ends in the last 32 bytes of the output.
LEMMA SafecopyMatch ==
  ASSUME NEW mem, DOMAIN mem \subseteq Int, NEW op \in Int, NEW ip \in Int, op > ip,
         NEW length \in Nat, NEW oend_w \in Int, op + length <= oend_w + 32, op + length > oend_w,
         op .. (oend_w + 31) \subseteq DOMAIN mem
  PROVE  Copied(Safecopy(mem, op, oend_w, ip, length, TRUE), mem, op, ip, length, oend_w + 32)
<1> DEFINE new == Safecopy(mem, op, oend_w, ip, length, TRUE)
           d == op - ip
           c == OverlapCopy8(mem, op, ip, d)
           one == CopyBytes(mem, op, ip, 8)
           op8 == op + 8
           from == op8 - Spread(d)
           oend == oend_w + 32
<1>0. new = IF length < 8 THEN CopyBytes(mem, op, ip, length)
            ELSE IF op + length <= oend_w THEN Near(c.mem, c.op, c.ip, length)
            ELSE IF c.op <= oend_w
                   THEN CopyBytes(Near(c.mem, c.op, c.ip, oend_w - c.op), oend_w,
                                  c.ip + (oend_w - c.op), (op + length) - oend_w)
            ELSE CopyBytes(c.mem, c.op, c.ip, (op + length) - c.op)
  BY Zenon DEF Safecopy, Near
<1>1. oend = oend_w + 32 /\ oend \in Int /\ op8 = op + 8 /\ op8 \in Int
  OBVIOUS
<1> HIDE DEF new, oend
<1> SUFFICES Copied(new, mem, op, ip, length, oend)
  BY DEF new, oend
<1>2. CASE length < 8
  <2>1. new = CopyBytes(mem, op, ip, length)
    BY <1>0, <1>2
  <2> QED BY <1>1, <2>1, CopiedMore
<1>3. CASE length >= 8
  <2>0. Spread(d) \in Nat /\ Spread(d) >= 8
    BY SpreadIs
  <2>1. Match(mem, op, ip, d, op8, from)
    BY <1>3, <2>0 DEF Match
  <2>2. c.mem = one /\ c.op = op8 /\ c.ip = from
    BY <2>1, OverlapCopyIs
  <2>4. DOMAIN one = DOMAIN mem
    BY CopyRest
  <2>5. from \in Int /\ op8 - from >= 8
    BY <2>0
  <2> DEFINE rest == length - 8
  <2>6. rest \in Nat /\ op8 + rest = op + length /\ length = 8 + rest
    BY <1>1, <1>3
  <2> HIDE DEF c, d, rest
  <2>7. new = IF op8 <= oend_w
                THEN CopyBytes(Near(one, op8, from, oend_w - op8), oend_w,
                               from + (oend_w - op8), (op + length) - oend_w)
                ELSE CopyBytes(one, op8, from, (op + length) - op8)
    <3> HIDE DEF one, from, op8
    <3>1. ~ (length < 8) /\ ~ (op + length <= oend_w)
      BY <1>3
    <3> QED BY <1>0, <2>2, <3>1
  <2> SUFFICES Copied(new, one, op8, from, rest, oend)
    <3>1. op + 8 <= oend
      BY <1>1, <1>3
    <3>2. Copied(new, mem, op, ip, length, oend)
      BY <1>1, <2>1, <2>6, <3>1, CopiedSpread
    <3> QED BY <3>2
  <2> HIDE DEF one, from, op8
  <2>8. CASE op8 <= oend_w
    <3> DEFINE m == oend_w - op8
               ip2 == from + m
               k == (op + length) - oend_w
    <3>1. new = CopyBytes(Near(one, op8, from, m), oend_w, ip2, k)
      BY <2>7, <2>8
    <3>2. m \in Nat /\ ip2 \in Int /\ k \in Nat /\ k <= 32 /\ op8 + m = oend_w /\ ip2 = from + m
          /\ op8 + rest = oend_w + k
      BY <1>1, <2>5, <2>6, <2>8
    <3> HIDE DEF m, ip2, k
    <3>3. PICK n \in Nat : /\ n >= m /\ n <= (IF m < 1 THEN 1 ELSE m) + 31
                           /\ Near(one, op8, from, m) = CopyBytes(one, op8, from, n)
      BY <1>1, <2>5, <3>2, WildNear
    <3>4. op8 + n <= oend /\ op8 + rest <= oend
      BY <1>1, <2>6, <3>2, <3>3
    <3>5. op8 .. (op8 + n - 1) \subseteq DOMAIN one
      <4>1. \A a \in op8 .. (op8 + n - 1) : a \in op .. (oend_w + 31)
        BY <1>1, <3>3, <3>4
      <4> QED BY <2>4, <4>1
    <3>6. GoesOn(one, op8, from, n, oend_w, ip2, k, rest)
      BY <1>1, <2>4, <2>5, <2>6, <3>2, <3>3, <3>5 DEF GoesOn
    <3>7. Copied(CopyBytes(CopyBytes(one, op8, from, n), oend_w, ip2, k), one, op8, from, rest, oend)
      BY <1>1, <3>4, <3>6, CopiedTwice
    <3> QED BY <3>1, <3>3, <3>7
  <2>9. CASE op8 > oend_w
    <3>1. (op + length) - op8 = rest
      BY <1>1, <2>6
    <3>2. new = CopyBytes(one, op8, from, rest)
      BY <1>1, <2>7, <2>9, <3>1
    <3>3. op8 + rest <= oend /\ DOMAIN one \subseteq Int
      BY <1>1, <2>4, <2>6
    <3> QED BY <1>1, <2>5, <2>6, <3>2, <3>3, CopiedMore
  <2> QED BY <1>1, <2>8, <2>9
<1> QED
  BY <1>2, <1>3

-----------------------------------------------------------------------------
(* ZSTD_execSequence                                                       *)

\* The two steps of a match: what lies in the older segment, and the rest.
LEMMA MatchParts ==
  ASSUME NEW w, w.prefixStart \in Int, w.dictEnd \in Int,
         NEW seq, seq.off \in Nat, seq.ml \in Nat, NEW oLitEnd \in Int
  PROVE  /\ MatchStart(w, seq, oLitEnd) \in Int
         /\ InDict(w, seq, oLitEnd) \in 0..seq.ml
         /\ InDict(w, seq, oLitEnd) = 0 => seq.ml = 0 \/ seq.off <= oLitEnd - w.prefixStart
         /\ LET there == InDict(w, seq, oLitEnd)
            IN  there < seq.ml =>
                  seq.off = (oLitEnd + there) - (IF there > 0 THEN w.prefixStart ELSE oLitEnd - seq.off)
  BY DEF MatchStart, InDict

\* What one byte after the other would give: ll literals, then a match of ml bytes,
\* of which the first come from the older segment, at start.
ByteByByte(new, mem, op, ip, ll, ml, off, start, there, oend) ==
  /\ DOMAIN new = DOMAIN mem
  /\ \A a \in DOMAIN mem : a < op \/ a >= oend => new[a] = mem[a]
  /\ \A i \in 0..(ll - 1) : new[op + i] = Peek(mem, ip + i)
  /\ \A k \in 0..(ml - 1) :
       new[op + ll + k] = IF k < there THEN Peek(mem, start + k) ELSE Peek(new, op + ll + k - off)

\* The parts of a sequence: ll literals, and a match of which there bytes come from
\* start in the older segment and left bytes from off back; the literals write
\* nothing at limit and behind it.
Parts(mem, op, ip, oend, ll, ml, off, start, there, from, oLitEnd, b, left, limit) ==
  /\ DOMAIN mem \subseteq Int /\ op \in Int /\ ip \in Int /\ oend \in Int
  /\ op .. (oend - 1) \subseteq DOMAIN mem /\ oend <= ip
  /\ ll \in Nat /\ ml \in Nat /\ off \in Nat /\ off > 0 /\ op + ll + ml <= oend
  /\ start \in Int /\ there \in 0..ml /\ from \in Int
  /\ oLitEnd \in Int /\ oLitEnd = op + ll /\ b \in Int /\ b = oLitEnd + there
  /\ left \in Nat /\ left = ml - there /\ (left > 0 => b - from = off)
  /\ limit \in Int /\ limit = IF op + ll + 32 <= oend THEN op + ll + 32 ELSE oend
  /\ there = 0 \/ start + there <= op \/ limit <= start

\* Literals, the part of the match in the dictionary and the rest of it, each copied
\* as far as its limit, are the sequence.
LEMMA Assembled ==
  ASSUME NEW mem, NEW op, NEW ip, NEW oend, NEW ll, NEW ml, NEW off, NEW start, NEW there,
         NEW from, NEW oLitEnd, NEW b, NEW left, NEW limit,
         Parts(mem, op, ip, oend, ll, ml, off, start, there, from, oLitEnd, b, left, limit),
         NEW lits, Copied(lits, mem, op, ip, ll, limit),
         NEW dict, dict = Memmove(lits, oLitEnd, start, there),
         NEW new,
         \/ left = 0 /\ new = dict
         \/ b - from = off /\ Copied(new, dict, b, from, left, oend)
  PROVE  ByteByByte(new, mem, op, ip, ll, ml, off, start, there, oend)
<1>0. /\ DOMAIN mem \subseteq Int /\ op \in Int /\ ip \in Int /\ oend \in Int
      /\ op .. (oend - 1) \subseteq DOMAIN mem /\ op <= ip
      /\ ll \in Nat /\ ml \in Nat /\ off \in Nat /\ off > 0 /\ op + ll + ml <= oend
      /\ start \in Int /\ there \in 0..ml /\ from \in Int
      /\ oLitEnd \in Int /\ oLitEnd = op + ll /\ b \in Int /\ b = oLitEnd + there
      /\ left \in Nat /\ left = ml - there /\ limit \in Int /\ limit <= oend
      /\ there = 0 \/ start + there <= op \/ limit <= start
  BY DEF Parts
<1>1. DOMAIN lits = DOMAIN mem /\ DOMAIN dict = DOMAIN mem
  BY DEF Copied, Memmove
<1>2. /\ DOMAIN new = DOMAIN mem
      /\ \A a \in DOMAIN mem : a < b \/ a >= oend => new[a] = dict[a]
  BY <1>0, <1>1 DEF Copied
<1>3. \A a \in DOMAIN mem : ~ (oLitEnd <= a /\ a < b) => dict[a] = lits[a]
  BY <1>0, <1>1 DEF Memmove
<1>4. \A a \in DOMAIN mem : a < op \/ a >= limit => lits[a] = mem[a]
  BY DEF Copied
<1>5. ASSUME NEW a \in DOMAIN mem, a < op \/ a >= oend PROVE new[a] = mem[a]
  <2>1. a < b \/ a >= oend
    BY <1>0, <1>5
  <2>2. ~ (oLitEnd <= a /\ a < b)
    BY <1>0, <1>5
  <2>3. a < op \/ a >= limit
    BY <1>0, <1>5
  <2> QED BY <1>0, <1>2, <1>3, <1>4, <2>1, <2>2, <2>3
<1>6. ASSUME NEW i \in 0..(ll - 1) PROVE new[op + i] = Peek(mem, ip + i)
  <2> DEFINE a == op + i
  <2>1. a \in Int /\ a \in op .. (oend - 1) /\ a < b /\ ~ (oLitEnd <= a /\ a < b) /\ op <= a /\ a < op + ll
        /\ a - op = i
    BY <1>0
  <2> HIDE DEF a
  <2>2. a \in DOMAIN mem
    BY <1>0, <2>1
  <2>3. new[a] = lits[a]
    BY <1>0, <1>2, <1>3, <2>1, <2>2
  <2>4. lits[a] = CopyBytes(mem, op, ip, ll)[a]
    BY <1>0, <2>1, <2>2 DEF Copied
  <2>5. CopyBytes(mem, op, ip, ll)[a] = Peek(mem, ip + (a - op))
    <3>1. ~ (op > ip)
      BY <1>0
    <3> QED BY <1>0, <2>1, <2>2, <3>1, CopyFrom
  <2> QED BY <1>0, <2>1, <2>3, <2>4, <2>5 DEF a
<1>7. ASSUME NEW k \in 0..(ml - 1), k < there PROVE new[op + ll + k] = Peek(mem, start + k)
  <2> DEFINE a == op + ll + k
             x == start + k
  <2>1. a \in Int /\ a \in op .. (oend - 1) /\ oLitEnd <= a /\ a < b /\ a - oLitEnd = k /\ x \in Int
        /\ (x < op \/ x >= limit)
    BY <1>0, <1>7
  <2>2. a \in DOMAIN mem
    BY <1>0, <2>1
  <2>3. dict[a] = Peek(lits, start + (a - oLitEnd))
    <3> HIDE DEF a, x
    <3> QED BY <1>0, <1>1, <2>1, <2>2 DEF Memmove
  <2>4. Peek(lits, x) = Peek(mem, x)
    <3> HIDE DEF x
    <3> QED BY <1>0, <1>1, <1>4, <2>1 DEF Peek
  <2>5. new[a] = dict[a]
    <3> HIDE DEF a
    <3> QED BY <1>0, <1>2, <2>1, <2>2
  <2> QED BY <1>0, <2>1, <2>3, <2>4, <2>5
<1>8. ASSUME NEW k \in 0..(ml - 1), ~ (k < there)
      PROVE  new[op + ll + k] = Peek(new, op + ll + k - off)
  <2> DEFINE a == op + ll + k
             j == a - b
             y == a - off
  <2>1. a \in Int /\ a \in op .. (oend - 1) /\ b <= a /\ a < b + left /\ j \in Nat /\ y \in Int
        /\ left > 0 /\ op <= b
    BY <1>0, <1>8
  <2>2. a \in DOMAIN mem
    BY <1>0, <2>1
  <2>3. b - from = off /\ Copied(new, dict, b, from, left, oend) /\ b > from
    BY <1>0, <2>1
  <2> HIDE DEF a
  <2>4. \A z \in DOMAIN mem : b <= z /\ z < b + left => new[z] = Peek(dict, from + ((z - b) % off))
    <3> SUFFICES ASSUME NEW z \in DOMAIN mem, b <= z, z < b + left
                 PROVE  new[z] = Peek(dict, from + ((z - b) % (b - from)))
      BY <1>0, <2>3
    <3>1. z \in Int /\ z \in DOMAIN dict
      BY <1>0, <1>1
    <3>2. new[z] = CopyBytes(dict, b, from, left)[z]
      BY <1>0, <2>3, <3>1 DEF Copied
    <3> QED BY <1>0, <2>3, <3>1, <3>2, CopyFrom
  <2>5. new[a] = Peek(dict, from + (j % off))
    BY <1>0, <2>1, <2>2, <2>4
  <2>6. CASE j < off
    <3>1. j % off = j
      <4> HIDE DEF j
      <4> QED BY <1>0, <2>1, <2>6, ModSmall
    <3>2. from + j = y /\ y < b
      BY <1>0, <2>1, <2>3, <2>6
    <3>3. Peek(new, y) = Peek(dict, y)
      <4> HIDE DEF y
      <4> QED BY <1>0, <1>1, <1>2, <3>2 DEF Peek
    <3>4. new[a] = Peek(new, y)
      BY <1>0, <2>5, <3>1, <3>2, <3>3
    <3> QED BY <1>0, <3>4 DEF a
  <2>7. CASE ~ (j < off)
    <3>1. b <= y /\ y < b + left /\ y - b = j - off /\ y \in op .. (oend - 1)
      BY <1>0, <2>1, <2>7
    <3>2. y \in DOMAIN mem
      <4> HIDE DEF y
      <4> QED BY <1>0, <3>1
    <3>3. new[y] = Peek(dict, from + ((y - b) % off))
      <4> HIDE DEF y
      <4> QED BY <1>0, <2>4, <3>1, <3>2
    <3>4. (j - off) % off = j % off
      <4> HIDE DEF j
      <4> QED BY <1>0, <2>1, ModMinus
    <3>5. new[a] = new[y]
      <4> HIDE DEF j, y
      <4> QED BY <1>0, <2>5, <3>1, <3>3, <3>4
    <3>6. Peek(new, y) = new[y]
      <4> HIDE DEF y
      <4> QED BY <1>0, <1>2, <3>2 DEF Peek
    <3> QED BY <1>0, <3>5, <3>6 DEF a
  <2> QED BY <1>0, <2>6, <2>7
<1> QED
  BY <1>0, <1>2, <1>5, <1>6, <1>7, <1>8 DEF ByteByByte

\* The match of ZSTD_execSequence, which ends 32 bytes before the end of the output.
LEMMA FastMatch ==
  ASSUME NEW mem, DOMAIN mem \subseteq Int, NEW op \in Int, NEW ip \in Int, NEW off \in Nat,
         off > 0, op - ip = off, NEW left \in Nat, NEW oend \in Int, op + left + 32 <= oend,
         op .. (oend - 1) \subseteq DOMAIN mem, NEW c, c = OverlapCopy8(mem, op, ip, off)
  PROVE  Copied(IF off >= 16 THEN Far(mem, op, ip, left)
                ELSE IF left > 8 THEN Near(c.mem, c.op, c.ip, left - 8) ELSE c.mem,
                mem, op, ip, left, oend)
<1>1. CASE off >= 16
  <2>1. Copied(Far(mem, op, ip, left), mem, op, ip, left, oend)
    BY <1>1, FarMatch
  <2> QED BY <1>1, <2>1
<1>2. CASE ~ (off >= 16)
  <2> DEFINE op8 == op + 8
             from == op8 - Spread(off)
  <2>1. Match(mem, op, ip, off, op8, from)
    BY SpreadIs DEF Match
  <2>2. c.mem = CopyBytes(mem, op, ip, 8) /\ c.op = op8 /\ c.ip = from
    BY <2>1, OverlapCopyIs
  <2>3. op8 \in Int /\ op8 = op + 8
    OBVIOUS
  <2> HIDE DEF op8, from
  <2>4. CASE left > 8
    <3> DEFINE rest == left - 8
    <3>1. rest \in Nat /\ rest >= 1 /\ left = 8 + rest /\ op8 + rest + 31 <= oend
      BY <2>3, <2>4
    <3> HIDE DEF rest
    <3>2. Copied(Near(CopyBytes(mem, op, ip, 8), op8, from, rest), mem, op, ip, left, oend)
      BY <2>1, <3>1, OverlapThenWild
    <3> QED BY <1>2, <2>2, <2>4, <3>2 DEF rest
  <2>5. CASE ~ (left > 8)
    <3>1. left <= 8 /\ op8 <= oend
      BY <2>3, <2>5
    <3>2. Copied(CopyBytes(mem, op, ip, 8), mem, op, ip, left, oend)
      BY <2>1, <3>1, OverlapOnly
    <3> QED BY <1>2, <2>2, <2>5, <3>2
  <2> QED BY <2>4, <2>5
<1> QED
  BY <1>1, <1>2

\* What ZSTD_execSequence is called with: addresses in the memory, the literals
\* behind the output buffer, and a source in the older segment that the literals
\* of the sequence do not run over with what they write too much.
Callable(mem, op, ip, oend, w, seq) ==
  /\ DOMAIN mem \subseteq Int /\ op \in Int /\ ip \in Int /\ oend \in Int
  /\ op .. (oend - 1) \subseteq DOMAIN mem /\ oend <= ip
  /\ w.prefixStart \in Int /\ w.virtualStart \in Int /\ w.dictEnd \in Int
  /\ seq.ll \in Nat /\ seq.ml \in Nat /\ seq.off \in Nat \ {0}
  /\ LET start == MatchStart(w, seq, op + seq.ll)
         there == InDict(w, seq, op + seq.ll)
     IN  \/ there = 0
         \/ start + there <= op
         \/ op + seq.ll + WILDCOPY_OVERLENGTH <= start
         \/ oend <= start

\* What the two functions leave in the memory, step by step.
FastMem(mem, op, ip, ll, off, start, there, from, oLitEnd, b, left) ==
  LET first == CopyBytes(mem, op, ip, 16)
      lits == IF ll > 16 THEN Far(first, op + 16, ip + 16, ll - 16) ELSE first
      dict == Memmove(lits, oLitEnd, start, there)
      c == OverlapCopy8(dict, b, from, off)
  IN  IF left = 0 THEN dict
      ELSE IF off >= 16 THEN Far(dict, b, from, left)
      ELSE IF left > 8 THEN Near(c.mem, c.op, c.ip, left - 8) ELSE c.mem

EndMem(mem, op, ip, oend_w, ll, start, there, from, oLitEnd, b, left) ==
  LET lits == Safecopy(mem, op, oend_w, ip, ll, FALSE)
      dict == Memmove(lits, oLitEnd, start, there)
  IN  IF left = 0 THEN dict ELSE Safecopy(dict, b, oend_w, from, left, TRUE)

\* Well before the end of the buffer, the copies may go beyond what they have to write.
LEMMA FastSequence ==
  ASSUME NEW mem, NEW op, NEW ip, NEW oend, NEW ll, NEW ml, NEW off, NEW start, NEW there,
         NEW from, NEW oLitEnd, NEW b, NEW left, NEW limit,
         Parts(mem, op, ip, oend, ll, ml, off, start, there, from, oLitEnd, b, left, limit),
         op + ll + ml + 32 <= oend
  PROVE  ByteByByte(FastMem(mem, op, ip, ll, off, start, there, from, oLitEnd, b, left),
                    mem, op, ip, ll, ml, off, start, there, oend)
<1> DEFINE first == CopyBytes(mem, op, ip, 16)
           lits == IF ll > 16 THEN Far(first, op + 16, ip + 16, ll - 16) ELSE first
           dict == Memmove(lits, oLitEnd, start, there)
           c == OverlapCopy8(dict, b, from, off)
           new == IF left = 0 THEN dict
                  ELSE IF off >= 16 THEN Far(dict, b, from, left)
                  ELSE IF left > 8 THEN Near(c.mem, c.op, c.ip, left - 8) ELSE c.mem
<1> HIDE DEF first, lits, dict, c, new
<1>0. FastMem(mem, op, ip, ll, off, start, there, from, oLitEnd, b, left) = new
  BY Zenon DEF FastMem, first, lits, dict, c, new
<1> SUFFICES ByteByByte(new, mem, op, ip, ll, ml, off, start, there, oend)
  BY <1>0
<1>1. /\ DOMAIN mem \subseteq Int /\ op \in Int /\ ip \in Int /\ oend \in Int
      /\ op .. (oend - 1) \subseteq DOMAIN mem /\ oend <= ip
      /\ ll \in Nat /\ ml \in Nat /\ off \in Nat /\ off > 0 /\ op + ll + ml <= oend
      /\ start \in Int /\ there \in 0..ml /\ from \in Int
      /\ oLitEnd \in Int /\ oLitEnd = op + ll /\ b \in Int /\ b = oLitEnd + there
      /\ left \in Nat /\ left = ml - there /\ (left > 0 => b - from = off)
      /\ limit \in Int /\ limit = op + ll + 32 /\ limit <= oend
      /\ there = 0 \/ start + there <= op \/ limit <= start
  BY DEF Parts
<1>2. Copied(lits, mem, op, ip, ll, limit)
  <2>1. op .. (limit - 1) \subseteq DOMAIN mem /\ limit <= ip /\ op + ll + 32 <= limit
    BY <1>1
  <2> DEFINE fars == Far(first, op + 16, ip + 16, ll - 16)
  <2>2. /\ Copied(first, mem, op, ip, IF ll <= 16 THEN ll ELSE 16, limit)
        /\ ll > 16 => Copied(fars, mem, op, ip, ll, limit)
    BY <1>1, <2>1, LiteralsCopied DEF first
  <2> HIDE DEF fars
  <2>3. CASE ll > 16
    BY <2>2, <2>3 DEF fars, lits
  <2>4. CASE ~ (ll > 16)
    <3>1. ll <= 16
      BY <1>1, <2>4
    <3> QED BY <2>2, <2>4, <3>1 DEF lits
  <2> QED BY <2>3, <2>4
<1>3. DOMAIN dict = DOMAIN mem
  BY <1>2 DEF Copied, Memmove, dict
<1>4. \/ left = 0 /\ new = dict
      \/ b - from = off /\ Copied(new, dict, b, from, left, oend)
  <2>1. CASE left = 0
    BY <2>1 DEF new
  <2>2. CASE left # 0
    <3>1. b - from = off /\ b + left + 32 <= oend
      BY <1>1, <2>2
    <3>2. b .. (oend - 1) \subseteq DOMAIN dict
      BY <1>1, <1>3
    <3>3. Copied(IF off >= 16 THEN Far(dict, b, from, left)
                 ELSE IF left > 8 THEN Near(c.mem, c.op, c.ip, left - 8) ELSE c.mem,
                 dict, b, from, left, oend)
      BY <1>1, <1>3, <3>1, <3>2, FastMatch DEF c
    <3> QED BY <2>2, <3>1, <3>3 DEF new
  <2> QED BY <2>1, <2>2
<1>6. dict = Memmove(lits, oLitEnd, start, there)
  BY DEF dict
<1> QED
  BY <1>2, <1>4, <1>6, Assembled

\* Near the end of the buffer they may not.
LEMMA EndSequence ==
  ASSUME NEW mem, NEW op, NEW ip, NEW oend, NEW ll, NEW ml, NEW off, NEW start, NEW there,
         NEW from, NEW oLitEnd, NEW b, NEW left, NEW limit,
         Parts(mem, op, ip, oend, ll, ml, off, start, there, from, oLitEnd, b, left, limit),
         NEW oend_w \in Int, oend_w = oend - 32, op + ll + ml > oend_w
  PROVE  ByteByByte(EndMem(mem, op, ip, oend_w, ll, start, there, from, oLitEnd, b, left),
                    mem, op, ip, ll, ml, off, start, there, oend)
<1> DEFINE lits == Safecopy(mem, op, oend_w, ip, ll, FALSE)
           dict == Memmove(lits, oLitEnd, start, there)
           near == Safecopy(dict, b, oend_w, from, left, TRUE)
           new == IF left = 0 THEN dict ELSE near
<1> HIDE DEF lits, dict, near, new
<1>0. EndMem(mem, op, ip, oend_w, ll, start, there, from, oLitEnd, b, left) = new
  BY Zenon DEF EndMem, lits, dict, near, new
<1> SUFFICES ByteByByte(new, mem, op, ip, ll, ml, off, start, there, oend)
  BY <1>0
<1>1. /\ DOMAIN mem \subseteq Int /\ op \in Int /\ ip \in Int /\ oend \in Int
      /\ op .. (oend - 1) \subseteq DOMAIN mem /\ oend <= ip
      /\ ll \in Nat /\ ml \in Nat /\ off \in Nat /\ off > 0 /\ op + ll + ml <= oend
      /\ start \in Int /\ there \in 0..ml /\ from \in Int
      /\ oLitEnd \in Int /\ oLitEnd = op + ll /\ b \in Int /\ b = oLitEnd + there
      /\ left \in Nat /\ left = ml - there /\ (left > 0 => b - from = off)
      /\ limit \in Int /\ limit = (IF op + ll + 32 <= oend THEN op + ll + 32 ELSE oend)
      /\ there = 0 \/ start + there <= op \/ limit <= start
  BY DEF Parts
<1>2. oend = oend_w + 32 /\ oend_w + 31 = oend - 1 /\ limit <= oend /\ op <= ip
      /\ limit = (IF op + ll <= oend_w THEN op + ll + 32 ELSE oend_w + 32)
  BY <1>1
<1>3. Copied(lits, mem, op, ip, ll, limit)
  <2>1. op + ll <= oend_w + 32 /\ oend_w + 32 <= ip /\ op .. (oend_w + 31) \subseteq DOMAIN mem
    BY <1>1, <1>2
  <2> QED BY <1>1, <1>2, <2>1, SafecopyLiterals DEF lits
<1>4. DOMAIN dict = DOMAIN mem
  BY <1>3 DEF Copied, Memmove, dict
<1>5. \/ left = 0 /\ new = dict
      \/ b - from = off /\ Copied(new, dict, b, from, left, oend)
  <2>1. CASE left = 0
    BY <2>1 DEF new
  <2>2. CASE left # 0
    <3>1. b - from = off /\ b > from /\ b + left <= oend_w + 32 /\ b + left > oend_w
      BY <1>1, <1>2, <2>2
    <3>2. b .. (oend_w + 31) \subseteq DOMAIN dict
      BY <1>1, <1>2, <1>4
    <3>3. Copied(near, dict, b, from, left, oend_w + 32)
      BY <1>1, <1>4, <3>1, <3>2, SafecopyMatch DEF near
    <3> QED BY <1>2, <2>2, <3>1, <3>3 DEF new
  <2> QED BY <2>1, <2>2
<1>6. dict = Memmove(lits, oLitEnd, start, there)
  BY DEF dict
<1> QED
  BY <1>3, <1>5, <1>6, Assembled

\* ZSTD_execSequence and ZSTD_execSequenceEnd execute a sequence exactly when it
\* fits: there is room for it, its literals exist, and so does its match.  The
\* output then is the one of copying byte by byte, whatever the lengths, the
\* distance, the register width and the place in the buffer, and no byte before
\* it or behind the buffer changes.
THEOREM SequenceExecuted ==
  ASSUME NEW m, {"ok", "mem", "lit", "op"} \subseteq DOMAIN m, m.ok = TRUE,
         NEW oend, NEW w, NEW seq, Callable(m.mem, m.op, m.lit, oend, w, seq),
         NEW litEnd \in Int, NEW word
  PROVE  LET r == ExecSequence(m, oend, seq, litEnd, w, word)
             oLitEnd == m.op + seq.ll
         IN  IF Fits(m, oend, seq, litEnd, w)
               THEN /\ r.ok = TRUE /\ r.op = m.op + seq.ll + seq.ml /\ r.lit = m.lit + seq.ll
                    /\ ByteByByte(r.mem, m.mem, m.op, m.lit, seq.ll, seq.ml, seq.off,
                                  MatchStart(w, seq, oLitEnd), InDict(w, seq, oLitEnd), oend)
               ELSE r = Refused(m)
<1> DEFINE r == ExecSequence(m, oend, seq, litEnd, w, word)
           mem == m.mem
           op == m.op
           ip == m.lit
           ll == seq.ll
           ml == seq.ml
           off == seq.off
           oLitEnd == op + ll
           start == MatchStart(w, seq, oLitEnd)
           there == InDict(w, seq, oLitEnd)
           from == IF there > 0 THEN w.prefixStart ELSE oLitEnd - off
           b == oLitEnd + there
           left == ml - there
           limit == IF op + ll + 32 <= oend THEN op + ll + 32 ELSE oend
           oend_w == oend - 32
           fits == Fits(m, oend, seq, litEnd, w)
           Done(new) == ByteByByte(new, mem, op, ip, ll, ml, off, start, there, oend)
<1>1. /\ DOMAIN mem \subseteq Int /\ op \in Int /\ ip \in Int /\ oend \in Int
      /\ op .. (oend - 1) \subseteq DOMAIN mem /\ oend <= ip
      /\ w.prefixStart \in Int /\ w.virtualStart \in Int /\ w.dictEnd \in Int
      /\ ll \in Nat /\ ml \in Nat /\ off \in Nat /\ off > 0
  BY DEF Callable
<1>2. /\ start \in Int /\ there \in 0..ml
      /\ there = 0 => ml = 0 \/ off <= oLitEnd - w.prefixStart
      /\ there < ml => off = b - from
  BY <1>1, MatchParts
<1>3. there = 0 \/ start + there <= op \/ op + ll + 32 <= start \/ oend <= start
  BY DEF Callable, WILDCOPY_OVERLENGTH
<1>4. /\ fits <=> /\ ll + ml <= oend - op /\ ll <= litEnd - ip /\ off <= op + ll - w.virtualStart
  BY DEF Fits
<1>5. /\ oLitEnd \in Int /\ from \in Int /\ b \in Int /\ left \in Nat /\ limit \in Int /\ oend_w \in Int
      /\ left = 0 <=> there = ml
  <2> HIDE DEF start, there
  <2> QED BY <1>1, <1>2
<1>6. fits => Parts(mem, op, ip, oend, ll, ml, off, start, there, from, oLitEnd, b, left, limit)
  <2>1. fits => op + ll + ml <= oend
    <3> HIDE DEF ll, ml, off, fits
    <3> QED BY <1>1, <1>4
  <2>2. there = 0 \/ start + there <= op \/ limit <= start
    <3> HIDE DEF start, there, ll
    <3> QED BY <1>1, <1>2, <1>3
  <2>3. left > 0 => b - from = off
    <3> HIDE DEF start, there, ll, ml, off, from, b
    <3> QED BY <1>1, <1>2
  <2> HIDE DEF start, there, ll, ml, off, fits, from
  <2> QED BY <1>1, <1>2, <1>5, <2>1, <2>2, <2>3 DEF Parts
<1> DEFINE fast == FastMem(mem, op, ip, ll, off, start, there, from, oLitEnd, b, left)
           slow == EndMem(mem, op, ip, oend_w, ll, start, there, from, oLitEnd, b, left)
           over == ip + ll > litEnd
           late == op + ll + ml > oend_w
           narrow == word = 4 /\ oend - op < ll + ml + 32
           far == off > oLitEnd - w.virtualStart
           End == ExecSequenceEnd(m, oend, seq, litEnd, w)
<1>7. fits /\ late => Done(slow)
  <2> SUFFICES ASSUME fits, late PROVE Done(slow)
    OBVIOUS
  <2>1. oend_w = oend - 32 /\ oend_w \in Int /\ op + ll + ml > oend_w
    BY <1>5
  <2> HIDE DEF fits, oLitEnd, start, there, from, b, left, limit, oend_w, ll, ml, off
  <2> QED BY <1>6, <2>1, EndSequence
<1>8. fits /\ ~late => Done(fast)
  <2> SUFFICES ASSUME fits, ~late PROVE Done(fast)
    OBVIOUS
  <2>1. op + ll + ml + 32 <= oend
    <3> HIDE DEF ll, ml
    <3> QED BY <1>1
  <2> HIDE DEF fits, oLitEnd, start, there, from, b, left, limit, oend_w, ll, ml, off
  <2> QED BY <1>6, <2>1, FastSequence
<1> USE DEF WILDCOPY_OVERLENGTH, WILDCOPY_VECLEN
<1>9. End = IF fits THEN Executed(m, slow, seq) ELSE Refused(m)
  <2>1. left = 0 <=> there = ml
    BY <1>5
  <2> QED BY <2>1, Zenon DEF ExecSequenceEnd, EndMem
<1>10. r = IF over \/ late \/ narrow THEN End
           ELSE IF far THEN Refused(m) ELSE Executed(m, fast, seq)
  BY Zenon DEF ExecSequence, FastMem, Far, Near
<1> HIDE DEF fast, slow, End
<1>11. ASSUME NEW new
       PROVE  LET x == Executed(m, new, seq)
              IN  x.ok = TRUE /\ x.op = op + ll + ml /\ x.lit = ip + ll /\ x.mem = new
  BY DEF Executed
<1>12. /\ narrow /\ fits => late
       /\ fits => ~over /\ ~far
       /\ ~fits => over \/ late \/ far
  <2> HIDE DEF ll, ml, off, fits
  <2> QED BY <1>1, <1>4
<1> HIDE DEF fits, over, late, narrow, far, r
<1> DEFINE Result(x) == x.ok = TRUE /\ x.op = op + ll + ml /\ x.lit = ip + ll /\ Done(x.mem)
<1>13. fits /\ late => Result(Executed(m, slow, seq))
  <2> HIDE DEF Done
  <2> QED BY <1>7, <1>11
<1>14. fits /\ ~late => Result(Executed(m, fast, seq))
  <2> HIDE DEF Done
  <2> QED BY <1>8, <1>11
<1>15. IF fits THEN Result(r) ELSE r = Refused(m)
  <2> HIDE DEF Result
  <2> QED BY <1>9, <1>10, <1>12, <1>13, <1>14
<1> QED
  BY <1>15 DEF fits, r

=============================================================================
