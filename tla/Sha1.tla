-------------------------------- MODULE Sha1 --------------------------------
(***************************************************************************)
(* SHA-1 as src/sha1.c computes it: the compression of a block, and the    *)
(* context that gathers blocks from pieces of every length.  The launcher  *)
(* hashes the archive in the pieces it reads and file names in one piece.  *)
(***************************************************************************)
EXTENDS Words

H0 == << Hex(<<103, 69, 35, 1>>), Hex(<<239, 205, 171, 137>>), Hex(<<152, 186, 220, 254>>),
         Hex(<<16, 50, 84, 118>>), Hex(<<195, 210, 225, 240>>) >>

\* The constant of round i, from 0x5A827999 to 0xCA62C1D6.
K(i) == << Hex(<<90, 130, 121, 153>>), Hex(<<110, 217, 235, 161>>),
           Hex(<<143, 27, 188, 220>>), Hex(<<202, 98, 193, 214>>) >>[i \div 20 + 1]

\* What the macros R0 to R4 mix of w, x and y.
Mix(i, w, x, y) ==
  CASE i < 20               -> Xor(And(w, Xor(x, y)), y)
    [] i >= 40 /\ i < 60    -> Or(And(Or(w, x), y), And(w, x))
    [] OTHER                -> Xor(Xor(w, x), y)

\* blk0 and blk: the block as 16 big-endian words, each replaced as it is used.
Loaded(buffer) == [i \in 0..15 |-> Hex(SubSeq(buffer, 4 * i + 1, 4 * i + 4))]

Blk(l, i) ==
  IF i < 16 THEN l[i]
  ELSE Rotl(Xor(Xor(l[(i + 13) % 16], l[(i + 8) % 16]), Xor(l[(i + 2) % 16], l[i % 16])), 1)

\* SHA1Transform.
Transform(state, buffer) ==
  LET round[i \in 0..80] ==
        IF i = 0 THEN [v |-> state, l |-> Loaded(buffer)]
        ELSE LET r == round[i - 1]
                 b == Blk(r.l, i - 1)
                 z == Add(Add(Add(r.v[5], Mix(i - 1, r.v[2], r.v[3], r.v[4])), Add(b, K(i - 1))),
                          Rotl(r.v[1], 5))
             IN  [l |-> [r.l EXCEPT ![(i - 1) % 16] = b],
                  v |-> <<z, r.v[1], Rotl(r.v[2], 30), r.v[3], r.v[4]>>]
      last == round[80].v
  IN  [k \in 1..5 |-> Add(state[k], last[k])]

\* SHA1Init; the buffer is not cleared.
SHA1Init == [state |-> H0, count |-> <<Word(0, 4), Word(0, 4)>>,
             buffer |-> [i \in 1..64 |-> 0]]

\* count[0] % 512 in bytes: how much of the buffer is in use.
Index(ctx) == (ctx.count[1][1] \div 8) + 32 * (ctx.count[1][2] % 2)

Counted_NoCarry(count, len) ==
  <<Add(count[1], Word(8 * len, 4)), Add(count[2], Word(len \div 2^29, 4))>>

\* The number of bits, in two words.
Counted(count, len) ==
  LET low   == Add(count[1], Word(8 * len, 4))
      carry == IF Less(low, count[1]) THEN 1 ELSE 0
  IN  <<low, Add(Add(count[2], Word(carry, 4)), Word(len \div 2^29, 4))>>

\* data copied into the buffer from index j on.
Stored(buffer, j, data) ==
  [i \in 1..64 |-> IF i > j /\ i <= j + Len(data) THEN data[i - j] ELSE buffer[i]]

\* n blocks of data, from the one after its first `from` bytes on.
Compressed(state, data, from, n) ==
  LET after[k \in 0..n] ==
        IF k = 0 THEN state
        ELSE Transform(after[k - 1], SubSeq(data, from + 64 * (k - 1) + 1, from + 64 * k))
  IN  after[n]

SHA1Update(ctx, data) ==
  LET len   == Len(data)
      j     == Index(ctx)
      first == 64 - j
      full  == Stored(ctx.buffer, j, SubSeq(data, 1, first))
      whole == (len - first) \div 64
  IN  IF j + len > 63
        THEN [state  |-> Compressed(Transform(ctx.state, full), data, first, whole),
              count  |-> Counted(ctx.count, len),
              buffer |-> Stored(full, 0, SubSeq(data, first + 64 * whole + 1, len))]
        ELSE [state  |-> ctx.state,
              count  |-> Counted(ctx.count, len),
              buffer |-> Stored(ctx.buffer, j, data)]

\* SHA1Final: the end mark, zeros up to the last 8 bytes of a block, the count.
\* The zeros are hashed one by one, fewer than 64 of them.
ZeroPadded(ctx) ==
  LET after[k \in 0..64] ==
        IF k = 0 THEN ctx
        ELSE LET c == after[k - 1] IN IF Index(c) = 56 THEN c ELSE SHA1Update(c, <<0>>)
  IN  after[64]

SHA1Final(ctx) ==
  LET finalcount == Hex(ctx.count[2]) \o Hex(ctx.count[1])
      last == SHA1Update(ZeroPadded(SHA1Update(ctx, <<128>>)), finalcount)
  IN  [k \in 1..5 |-> Hex(last.state[k])]

=============================================================================
