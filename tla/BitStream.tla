----------------------------- MODULE BitStream -----------------------------
(***************************************************************************)
(* The backward bit reader of the Zstandard library: common/bitstream.h.   *)
(*                                                                         *)
(* A stream is a sequence of bytes written forwards and read backwards,    *)
(* through a register (bitContainer) that holds the `word` bytes from ptr  *)
(* on: 8 of them in a 64-bit build of the launcher and 4 in a 32-bit one.  *)
(* `consumed` bits of the register have been read, from its top down, and  *)
(* BIT_reloadDStream moves the register towards the start of the stream by *)
(* the whole bytes among them.  The register is never packed into a number *)
(* here: it is the window of the stream that ptr designates, so that the   *)
(* widths are the ones of the code.  Reading more bits than the register   *)
(* holds gives what the shifts of the code give, which is meaningless.     *)
(***************************************************************************)
EXTENDS Integers, Sequences

Failed == [ok |-> FALSE]

\* A loop of the code: while more(s), s becomes turn(s).  It takes `bound` turns
\* at most, a number that the code around the loop makes sure of.  They are taken
\* sixteen to a round, which keeps TLC's recursion shallow.
While(more(_), turn(_), s, bound) ==
  LET rounds[k \in 0..((bound + 15) \div 16)] ==
        IF k = 0 THEN s
        ELSE LET p == rounds[k - 1]
                 after[j \in 0..16] ==
                   IF j = 0 THEN p
                   ELSE LET q == after[j - 1] IN IF more(q) THEN turn(q) ELSE q
             IN  IF more(p) THEN after[16] ELSE p
  IN  IF bound > 0 THEN rounds[(bound + 15) \div 16] ELSE s

\* BIT_highbit32.
HighBit(x) == CHOOSE b \in 0..30 : 2^b <= x /\ x < 2 * 2^b

LE16(src, i) == src[i] + 256 * src[i + 1]
LE24(src, i) == LE16(src, i) + 65536 * src[i + 2]

\* Bit i of the bytes of src, counted from the lowest bit of its first byte.
Bit(src, i) ==
  IF i \div 8 < Len(src) THEN (src[i \div 8 + 1] \div 2^(i % 8)) % 2 ELSE 0

\* The number in bits from..from+n-1 of src.
Bits(src, from, n) ==
  LET v[k \in 0..n] == IF k = 0 THEN 0 ELSE 2 * v[k - 1] + Bit(src, from + n - k)
  IN  v[n]

Width(d) == 8 * d.word

\* n bits of the register from bit `from` up: the bits outside it are zeros.
Field(d, from, n) ==
  LET reg(i)  == IF i \in 0..(Width(d) - 1) THEN Bit(d.src, 8 * d.ptr + i) ELSE 0
      v[k \in 0..n] == IF k = 0 THEN 0 ELSE 2 * v[k - 1] + reg(from + n - k)
  IN  v[n]

\* BIT_initDStream: the last byte holds the end mark above the last bits.
InitDStream(src, word) ==
  IF Len(src) = 0 \/ src[Len(src)] = 0
    THEN Failed
    ELSE LET short == Len(src) < word IN
         [ok       |-> TRUE,
          src      |-> src,
          word     |-> word,
          ptr      |-> IF short THEN 0 ELSE Len(src) - word,
          consumed |-> 8 - HighBit(src[Len(src)])
                       + IF short THEN 8 * (word - Len(src)) ELSE 0]

\* BIT_lookBits: the shift count is masked by the width of the register.
LookBits(d, n) == Field(d, (Width(d) - d.consumed - n) % Width(d), n)

\* BIT_lookBitsFast: a shift to the left, then one to the right.
LookBitsFast(d, n) == Field(d, Width(d) - (d.consumed % Width(d)) - n, n)

SkipBits(d, n) == [d EXCEPT !.consumed = @ + n]

\* BIT_readBits and BIT_readBitsFast: the value, and the stream after it.
ReadBits(d, n)     == [val |-> LookBits(d, n),     d |-> SkipBits(d, n)]
ReadBitsFast(d, n) == [val |-> LookBitsFast(d, n), d |-> SkipBits(d, n)]

\* BIT_DStream_status.
Unfinished  == 0
EndOfBuffer == 1
Completed   == 2
Overflow    == 3

Back(d, bytes) == [d EXCEPT !.ptr = @ - bytes, !.consumed = @ - 8 * bytes]

\* BIT_reloadDStreamFast refuses to come near the start of the stream.
FastStatus(d)   == IF d.ptr < d.word THEN Overflow ELSE Unfinished
ReloadedFast(d) == IF d.ptr < d.word THEN d ELSE Back(d, d.consumed \div 8)

\* BIT_reloadDStream: what it returns ...
Status(d) ==
  CASE d.consumed > Width(d)               -> Overflow
    [] d.consumed <= Width(d) /\ d.ptr >= d.word -> Unfinished
    [] d.consumed <= Width(d) /\ d.ptr = 0 ->
         IF d.consumed < Width(d) THEN EndOfBuffer ELSE Completed
    [] OTHER -> IF d.consumed \div 8 > d.ptr THEN EndOfBuffer ELSE Unfinished

\* ... and the register after it: it never goes before the start.
Reload(d) ==
  IF d.consumed > Width(d)
    THEN d
    ELSE Back(d, IF d.consumed \div 8 > d.ptr THEN d.ptr ELSE d.consumed \div 8)

\* BIT_endOfDStream: exactly every bit has been read.
EndOfDStream(d) == d.ptr = 0 /\ d.consumed = Width(d)

=============================================================================
