------------------------------- MODULE Xxh64 -------------------------------
(***************************************************************************)
(* XXH64, the checksum of a Zstandard frame: common/xxhash.c, in the form  *)
(* that takes its input piece by piece, with seed zero as the decoder      *)
(* calls it.  Every block is a piece.                                      *)
(***************************************************************************)
EXTENDS Words

PRIME64_1 == Hex(<<158, 55, 121, 177, 133, 235, 202, 135>>)
PRIME64_2 == Hex(<<194, 178, 174, 61, 39, 212, 235, 79>>)
PRIME64_3 == Hex(<<22, 86, 103, 177, 158, 55, 121, 249>>)
PRIME64_4 == Hex(<<133, 235, 202, 119, 194, 178, 174, 99>>)
PRIME64_5 == Hex(<<39, 212, 235, 47, 22, 86, 103, 197>>)

Zero64   == Word(0, 8)
Minus(x) == Add(Now([i \in 1..8 |-> 255 - x[i]]), Word(1, 8))

XXH64_round(acc, input) == Mul(Rotl(Add(acc, Mul(input, PRIME64_2)), 31), PRIME64_1)

XXH64_mergeRound(acc, val) ==
  Add(Mul(Xor(acc, XXH64_round(Zero64, val)), PRIME64_1), PRIME64_4)

\* The four lanes take eight bytes each of a stripe of 32.
Stripe(v, s) == << XXH64_round(v[1], SubSeq(s, 1, 8)),   XXH64_round(v[2], SubSeq(s, 9, 16)),
                   XXH64_round(v[3], SubSeq(s, 17, 24)), XXH64_round(v[4], SubSeq(s, 25, 32)) >>

XXH64_reset ==
  [v   |-> <<Add(PRIME64_1, PRIME64_2), PRIME64_2, Zero64, Minus(PRIME64_1)>>,
   mem |-> <<>>, total_len |-> 0]

\* A buffer in use is filled from the input and consumed first.
FirstStripe_Skip(state, input) == state.v

FirstStripe(state, input) ==
  IF state.mem = <<>> THEN state.v
  ELSE Stripe(state.v, state.mem \o SubSeq(input, 1, 32 - Len(state.mem)))

\* n stripes of the input, from the one after its first `from` bytes on.
Stripes(v, input, from, n) ==
  LET after[k \in 0..n] ==
        IF k = 0 THEN v
        ELSE Stripe(after[k - 1], SubSeq(input, from + 32 * (k - 1) + 1, from + 32 * k))
  IN  after[n]

\* Then whole stripes from the input; the rest waits in the buffer.
XXH64_update(state, input) ==
  LET memsize == Len(state.mem)
      len     == Len(input)
      first   == IF memsize > 0 THEN 32 - memsize ELSE 0
      whole   == (len - first) \div 32
  IN  IF memsize + len < 32
        THEN [state EXCEPT !.mem = @ \o input, !.total_len = @ + len]
        ELSE [v |-> Stripes(FirstStripe(state, input), input, first, whole),
              total_len |-> state.total_len + len,
              mem |-> SubSeq(input, first + 32 * whole + 1, len)]

\* The bytes left over: eight at a time, then four, then one.
Leftover(h, p) ==
  LET from(n)    == SubSeq(p, Len(p) - n + 1, Len(p))
      eat(n)     == IF n >= 8 THEN 8 ELSE IF n >= 4 THEN 4 ELSE 1
      word(x)    == Now([i \in 1..8 |-> IF i <= Len(x) THEN x[i] ELSE 0])
      mixed(g, k, e) ==
        CASE e = 8 -> Add(Mul(Rotl(Xor(g, XXH64_round(Zero64, k)), 27), PRIME64_1), PRIME64_4)
          [] e = 4 -> Add(Mul(Rotl(Xor(g, Mul(k, PRIME64_1)), 23), PRIME64_2), PRIME64_3)
          [] OTHER -> Mul(Rotl(Xor(g, Mul(k, PRIME64_5)), 11), PRIME64_1)
      \* a turn takes what is at the front of the n bytes left
      after[k \in 0..Len(p)] ==
        IF k = 0 THEN [h |-> h, n |-> Len(p)]
        ELSE LET s == after[k - 1]
                 e == eat(s.n)
             IN  IF s.n = 0 THEN s
                 ELSE [h |-> mixed(s.h, word(SubSeq(from(s.n), 1, e)), e), n |-> s.n - e]
  IN  after[Len(p)].h

Avalanche(h) ==
  LET a == Mul(Xor(h, Shr(h, 33)), PRIME64_2)
      b == Mul(Xor(a, Shr(a, 29)), PRIME64_3)
  IN  Xor(b, Shr(b, 32))

XXH64_digest(state) ==
  LET v == state.v
      lanes == Add(Add(Rotl(v[1], 1), Rotl(v[2], 7)), Add(Rotl(v[3], 12), Rotl(v[4], 18)))
      merged == XXH64_mergeRound(XXH64_mergeRound(XXH64_mergeRound(XXH64_mergeRound(
                  lanes, v[1]), v[2]), v[3]), v[4])
      start == IF state.total_len >= 32 THEN merged ELSE Add(v[3], PRIME64_5)
  IN  Avalanche(Leftover(Add(start, Word(state.total_len, 8)), state.mem))

=============================================================================
