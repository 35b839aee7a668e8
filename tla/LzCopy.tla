------------------------------- MODULE LzCopy -------------------------------
(***************************************************************************)
(* The copies of the sequence decoder: ZSTD_wildcopy of                    *)
(* common/zstd_internal.h, and ZSTD_overlapCopy8, ZSTD_safecopy,           *)
(* ZSTD_execSequence and ZSTD_execSequenceEnd of                           *)
(* decompress/zstd_decompress_block.c.                                     *)
(*                                                                         *)
(* The memory is one function from addresses to bytes: the output buffer,  *)
(* guard bytes behind it, and the literals of the block from litBase on.   *)
(* The copies are fast because they copy too much, 8, 16 or 32 bytes at a  *)
(* time: what they write past the end of a match is overwritten later.     *)
(***************************************************************************)
EXTENDS Integers, Sequences

WILDCOPY_OVERLENGTH == 32
WILDCOPY_VECLEN     == 16

\* What a read outside the memory, or a memcpy of overlapping blocks, gives.
Poison == -1

Peek(mem, a) == IF a \in DOMAIN mem THEN mem[a] ELSE Poison

\* n bytes copied one after the other, upwards: a distance below n repeats.
CopyBytes(mem, op, ip, n) ==
  [a \in DOMAIN mem |->
     IF op <= a /\ a < op + n
       THEN Peek(mem, IF op > ip THEN ip + ((a - op) % (op - ip)) ELSE ip + (a - op))
       ELSE mem[a]]

\* memmove: the source is read before anything is written.
Memmove(mem, op, ip, n) ==
  [a \in DOMAIN mem |-> IF op <= a /\ a < op + n THEN Peek(mem, ip + (a - op)) ELSE mem[a]]

\* memcpy: undefined when the blocks overlap.
Memcpy(mem, op, ip, n) ==
  IF op - ip \in (1 - n)..(n - 1) /\ op # ip
    THEN [a \in DOMAIN mem |-> IF op <= a /\ a < op + n THEN Poison ELSE mem[a]]
    ELSE Memmove(mem, op, ip, n)

RoundUp(n, unit) == ((n + unit - 1) \div unit) * unit

\* ZSTD_wildcopy: blocks of 8 bytes, or one of 16 and then pairs of 16, each of
\* them a memcpy of its own.
WildLength(length, step) ==
  IF step = 8 THEN RoundUp(IF length < 1 THEN 1 ELSE length, 8)
  ELSE IF length <= 16 THEN 16 ELSE 16 + RoundUp(length - 16, 32)

Wildcopy(mem, op, ip, length, overlap) ==
  LET step == IF overlap /\ op - ip < WILDCOPY_VECLEN THEN 8 ELSE 16
      n    == WildLength(length, step)
  IN  IF op - ip \in (1 - step)..(step - 1)
        THEN Memcpy(mem, op, ip, step)
        ELSE CopyBytes(mem, op, ip, n)

dec32table == <<0, 1, 2, 1, 4, 4, 4, 4>>
dec64table == <<8, 8, 8, 7, 8, 9, 10, 11>>

OverlapCopy8_Plain(mem, op, ip, offset) ==
  [mem |-> Memcpy(mem, op, ip, 8), op |-> op + 8, ip |-> ip + 8]

\* ZSTD_overlapCopy8: eight bytes of a match at a distance of 1 or more, after
\* which source and destination are at least 8 apart.
OverlapCopy8(mem, op, ip, offset) ==
  LET spread == ip + dec32table[offset + 1]
  IN  IF offset >= 8
        THEN [mem |-> Memcpy(mem, op, ip, 8), op |-> op + 8, ip |-> ip + 8]
        ELSE [mem |-> Memcpy(CopyBytes(mem, op, ip, 4), op + 4, spread, 4),
              op  |-> op + 8,
              ip  |-> spread - dec64table[offset + 1] + 8]

Safecopy_Wild(mem0, op0, oend_w, ip0, length, overlap) ==
  IF length < 8 THEN CopyBytes(mem0, op0, ip0, length)
  ELSE LET copied(c) == Wildcopy(c.mem, c.op, c.ip, length, overlap)
       IN  copied(IF overlap THEN OverlapCopy8(mem0, op0, ip0, op0 - ip0)
                             ELSE [mem |-> mem0, op |-> op0, ip |-> ip0])

\* ZSTD_safecopy: never writes at or beyond oend_w + WILDCOPY_OVERLENGTH.
Safecopy(mem0, op0, oend_w, ip0, length, overlap) ==
  LET end == op0 + length
      copied(c) ==
        IF end <= oend_w
          THEN Wildcopy(c.mem, c.op, c.ip, length, overlap)
        ELSE IF c.op <= oend_w
          THEN CopyBytes(Wildcopy(c.mem, c.op, c.ip, oend_w - c.op, overlap),
                         oend_w, c.ip + (oend_w - c.op), end - oend_w)
          ELSE CopyBytes(c.mem, c.op, c.ip, end - c.op)
  IN  IF length < 8
        THEN CopyBytes(mem0, op0, ip0, length)
        ELSE copied(IF overlap THEN OverlapCopy8(mem0, op0, ip0, op0 - ip0)
                               ELSE [mem |-> mem0, op |-> op0, ip |-> ip0])

-----------------------------------------------------------------------------
(***************************************************************************)
(* A sequence: ll literals, then a match of ml bytes at distance off.      *)
(* m is the memory, the place of the next literal and the one of the next  *)
(* output byte; w is the window: the bytes from prefixStart on, and before *)
(* them, as seen from the code, those that end at dictEnd.                 *)
(***************************************************************************)
Refused(m) == [m EXCEPT !.ok = FALSE]

Executed(m, mem, seq) ==
  [m EXCEPT !.mem = mem, !.lit = @ + seq.ll, !.op = @ + seq.ll + seq.ml]

\* Where the match starts, and how much of it lies in the older segment.
MatchStart(w, seq, oLitEnd) ==
  IF seq.off > oLitEnd - w.prefixStart
    THEN w.dictEnd - (w.prefixStart - (oLitEnd - seq.off))
    ELSE oLitEnd - seq.off

InDict(w, seq, oLitEnd) ==
  IF seq.off > oLitEnd - w.prefixStart
    THEN LET there == w.dictEnd - MatchStart(w, seq, oLitEnd)
         IN  IF seq.ml < there THEN seq.ml ELSE there
    ELSE 0

Fits_AnyOffset(m, oend, seq, litEnd, w) ==
  /\ seq.ll + seq.ml <= oend - m.op
  /\ seq.ll <= litEnd - m.lit

\* There is room for the sequence, its literals exist, and so does its match.
Fits(m, oend, seq, litEnd, w) ==
  /\ seq.ll + seq.ml <= oend - m.op
  /\ seq.ll <= litEnd - m.lit
  /\ seq.off <= m.op + seq.ll - w.virtualStart

\* ZSTD_execSequenceEnd: near the end of the output or of the literals.
ExecSequenceEnd(m, oend, seq, litEnd, w) ==
  LET oLitEnd == m.op + seq.ll
      oend_w  == oend - WILDCOPY_OVERLENGTH
      lits    == Safecopy(m.mem, m.op, oend_w, m.lit, seq.ll, FALSE)
      match(there) ==
        LET dict == Memmove(lits, oLitEnd, MatchStart(w, seq, oLitEnd), there)
            from == IF there > 0 THEN w.prefixStart ELSE oLitEnd - seq.off
        IN  IF there = seq.ml THEN dict
            ELSE Safecopy(dict, oLitEnd + there, oend_w, from, seq.ml - there, TRUE)
  IN  IF Fits(m, oend, seq, litEnd, w)
        THEN Executed(m, match(InDict(w, seq, oLitEnd)), seq)
        ELSE Refused(m)

\* ZSTD_execSequence.
ExecSequence(m, oend, seq, litEnd, w, word) ==
  LET oLitEnd == m.op + seq.ll
      oend_w  == oend - WILDCOPY_OVERLENGTH
      lit16   == CopyBytes(m.mem, m.op, m.lit, 16)
      lits    == IF seq.ll > 16
                   THEN Wildcopy(lit16, m.op + 16, m.lit + 16, seq.ll - 16, FALSE)
                   ELSE lit16
      \* the rest of the match, which lies in the prefix
      near(mem, op, from, left) ==
        LET spread(c) == IF left > 8 THEN Wildcopy(c.mem, c.op, c.ip, left - 8, TRUE) ELSE c.mem
        IN  IF left = 0 THEN mem
            ELSE IF seq.off >= WILDCOPY_VECLEN THEN Wildcopy(mem, op, from, left, FALSE)
            ELSE spread(OverlapCopy8(mem, op, from, seq.off))
      match(there) ==
        near(Memmove(lits, oLitEnd, MatchStart(w, seq, oLitEnd), there), oLitEnd + there,
             IF there > 0 THEN w.prefixStart ELSE oLitEnd - seq.off, seq.ml - there)
  IN  IF \/ m.lit + seq.ll > litEnd
         \/ m.op + seq.ll + seq.ml > oend_w
         \/ word = 4 /\ oend - m.op < seq.ll + seq.ml + WILDCOPY_OVERLENGTH
        THEN ExecSequenceEnd(m, oend, seq, litEnd, w)
      ELSE IF seq.off > oLitEnd - w.virtualStart THEN Refused(m)
      ELSE Executed(m, match(InDict(w, seq, oLitEnd)), seq)

=============================================================================
