------------------------------- MODULE Words -------------------------------
(***************************************************************************)
(* Unsigned words of fixed width, as C has them: sequences of bytes, the   *)
(* lowest first.  A sum or a product keeps the width of its arguments.     *)
(***************************************************************************)
EXTENDS Integers, Sequences

\* The exclusive or of two numbers of four bits.
Xor4 == [a \in 0..15, b \in 0..15 |->
           LET bit(i) == ((a \div 2^i) + (b \div 2^i)) % 2
           IN  bit(0) + 2 * bit(1) + 4 * bit(2) + 8 * bit(3)]

XorByte(a, b) == 16 * Xor4[a \div 16, b \div 16] + Xor4[a % 16, b % 16]

\* The concatenation makes TLC compute a word once, where it is defined.
Now(word) == word \o <<>>

Xor(x, y) == Now([i \in 1..Len(x) |-> XorByte(x[i], y[i])])
And(x, y) == Now([i \in 1..Len(x) |-> (x[i] + y[i] - XorByte(x[i], y[i])) \div 2])
Or(x, y)  == Now([i \in 1..Len(x) |-> (x[i] + y[i] + XorByte(x[i], y[i])) \div 2])

\* The bytes of Sum column[i] * 256^(i-1), cut to as many as there are columns.
Carried(column) ==
  LET n == Len(column)
      f[i \in 0..n] ==
        IF i = 0 THEN <<<<>>, 0>>
        ELSE LET p == f[i - 1]
                 t == column[i] + p[2]
             IN  <<Append(p[1], t % 256), t \div 256>>
  IN  f[n][1]

Add(x, y) == Carried([i \in 1..Len(x) |-> x[i] + y[i]])

Mul(x, y) ==
  LET column(k) == LET s[i \in 0..k] == IF i = 0 THEN 0 ELSE s[i - 1] + x[i] * y[k + 1 - i]
                   IN  s[k]
  IN  Carried([k \in 1..Len(x) |-> column(k)])

Rotl(x, r) ==
  LET n == Len(x)  q == r \div 8  b == r % 8
      at(i) == x[((i - q - 1) % n) + 1]
  IN  Now([i \in 1..n |-> ((at(i) * 2^b) + (at(i - 1) \div 2^(8 - b))) % 256])

Shr(x, r) ==
  LET n == Len(x)  q == r \div 8  b == r % 8
      at(i) == IF i + q <= n THEN x[i + q] ELSE 0
  IN  Now([i \in 1..n |-> (at(i) \div 2^b) + ((at(i + 1) * 2^(8 - b)) % 256)])

\* x < y, both unsigned.
Less(x, y) ==
  \E i \in DOMAIN x : x[i] < y[i] /\ \A j \in (i + 1)..Len(x) : x[j] = y[j]

\* A number of the model as a word of n bytes.
Word(k, n) ==
  LET rest[i \in 1..n] == IF i = 1 THEN k ELSE rest[i - 1] \div 256
  IN  Now([i \in 1..n |-> rest[i] % 256])

\* A word written down from its highest byte, as the source's constants are.
Hex(bytes) == Now([i \in 1..Len(bytes) |-> bytes[Len(bytes) + 1 - i]])

=============================================================================
