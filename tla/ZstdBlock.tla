----------------------------- MODULE ZstdBlock -----------------------------
(***************************************************************************)
(* The block decoder of the Zstandard library,                             *)
(* decompress/zstd_decompress_block.c: literals, sequence headers, the     *)
(* loop over the sequences in its plain form and in the one that decodes   *)
(* four sequences ahead, and what one block leaves for the next: the       *)
(* tables, the repeat offsets and the window.                              *)
(*                                                                         *)
(* A job is a frame's compressed blocks as ZSTD_decompressContinue hands   *)
(* them over, each with the place of its output, on a build of `word`      *)
(* bytes; `algo` is the table type HUF_selectDecoder picks for four fresh  *)
(* streams, which only speed depends on.  memory holds what earlier blocks *)
(* left, in a window described by win.                                     *)
(***************************************************************************)
EXTENDS Huf, SeqTables, LzCopy

CONSTANTS Jobs,     \* what can be decoded: see the fields used below
          LitBase   \* where the literals of a block lie in the memory

VARIABLES job,    \* the one being decoded
          n,      \* its current block
          phase,  \* what comes next, "done" or "error"
          mem,    \* bytes by address
          win,    \* prefixStart, virtualStart, dictEnd, previousDstEnd
          lit,    \* litPtr and its end
          ent,    \* tables and repeat offsets kept from block to block
          seqs,   \* the sequence state: bit stream, three states, offsets
          left,   \* sequences still to decode
          queue,  \* sequences decoded ahead
          op,     \* where the next byte goes
          text    \* what the blocks have produced

\* A job has blocks, and each of them a place in the buffer.
JobsAssumption ==
  \A j \in Jobs :
    /\ Len(j.blocks) \in Nat \ {0}
    /\ \A k \in 1..Len(j.blocks) : j.blocks[k].dst \in Int /\ j.blocks[k].oend \in Int

ASSUME JobsAssumption

blockVars == <<job, n, phase, mem, win, lit, ent, seqs, left, queue, op, text>>

ZSTD_BLOCKSIZE_MAX == 131072
MIN_CBLOCK_SIZE    == 3
LONGNBSEQ          == 32512
ADVANCED_SEQS      == 4
NoTable            == [log |-> -1]

set_basic == 0  set_rle == 1  set_compressed == 2  set_repeat == 3

Drop(s, k) == SubSeq(s, k + 1, Len(s))

-----------------------------------------------------------------------------
(***************************************************************************)
(* ZSTD_decodeLiteralsBlock.  The result has the bytes of the header and   *)
(* of the literals, the literals with what can be read behind them, and    *)
(* the Huffman table in use afterwards.                                    *)
(***************************************************************************)
RawSize(src) ==
  CASE (src[1] \div 4) % 4 \in {0, 2} -> [lh |-> 1, size |-> src[1] \div 8]
    [] (src[1] \div 4) % 4 = 1        -> [lh |-> 2, size |-> LE16(src, 1) \div 16]
    [] OTHER                          -> [lh |-> 3, size |-> LE24(src, 1) \div 16]

\* The literals and the bytes behind them, from 0 on; other(i) is past the end.
Padded(size, at(_), other(_)) ==
  [i \in 0..(size + WILDCOPY_OVERLENGTH - 1) |-> IF i < size THEN at(i) ELSE other(i)]

Zero(i) == 0

RawLiterals(src, huf) ==
  LET h == RawSize(src)
      byte(i) == src[h.lh + 1 + i]
  IN  IF h.lh + h.size > Len(src) THEN Failed
      ELSE [ok |-> TRUE, used |-> h.lh + h.size, size |-> h.size, huf |-> huf,
            bytes |-> IF h.lh + h.size + WILDCOPY_OVERLENGTH > Len(src)
                        THEN Padded(h.size, byte, Zero)
                        ELSE Padded(h.size, byte, byte)]

RleLiterals(src, huf) ==
  LET h == RawSize(src)
      byte(i) == src[h.lh + 1]
  IN  IF h.lh = 3 /\ Len(src) < 4 THEN Failed
      ELSE IF h.size > ZSTD_BLOCKSIZE_MAX THEN Failed
      ELSE [ok |-> TRUE, used |-> h.lh + 1, size |-> h.size, huf |-> huf,
            bytes |-> Padded(h.size, byte, byte)]

\* A fresh table: one stream is always decoded with X1.
FreshTable(body, single, algo, word) ==
  LET fresh(stats) ==
        IF stats.ok => stats.size >= Len(body)
          THEN Failed
          ELSE [ok |-> TRUE, size |-> stats.size,
                table |-> IF single \/ algo = 1 THEN DTableX1(stats) ELSE DTableX2(stats)]
  IN  fresh(ReadStats(body, word))

HufLiterals(src, huf, algo, word) ==
  LET lhl    == (src[1] \div 4) % 4
      lh     == <<3, 3, 4, 5>>[lhl + 1]
      width  == <<10, 10, 14, 18>>[lhl + 1]
      size   == Bits(src, 4, width)
      cSize  == Bits(src, 4 + width, width)
      single == lhl = 0
      body   == SubSeq(src, lh + 1, lh + cSize)
      fresh  == src[1] % 4 = set_compressed
      blank  == [i \in 0..(size + WILDCOPY_OVERLENGTH - 1) |-> 0]
      literals(r, table) ==
        LET byte(i) == r.buf[i]
        IN  IF ~r.ok THEN Failed
            ELSE [ok |-> TRUE, used |-> lh + cSize, size |-> size, huf |-> table,
                  bytes |-> Padded(size, byte, Zero)]
      decoded(t) ==
        IF ~t.ok THEN Failed
        ELSE literals(IF single
                        THEN Decompress1X(t.table, blank, size, Drop(body, t.size), word)
                        ELSE Decompress4X(t.table, blank, size, Drop(body, t.size), word),
                      t.table)
  IN  IF ~fresh /\ huf = NoTable THEN Failed
      ELSE IF Len(src) < 5 THEN Failed
      ELSE IF size > ZSTD_BLOCKSIZE_MAX THEN Failed
      ELSE IF lh + cSize > Len(src) THEN Failed
      ELSE IF fresh /\ ~single /\ size = 0 THEN Failed
      ELSE decoded(IF fresh THEN FreshTable(body, single, algo, word)
                            ELSE [ok |-> TRUE, size |-> 0, table |-> huf])

\* ZSTD_decompressBlock_internal refuses longer blocks before it looks at them, and
\* ZSTD_decodeLiteralsBlock shorter ones.
BlockSizes == MIN_CBLOCK_SIZE..(ZSTD_BLOCKSIZE_MAX - 1)

DecodeLiterals(src, huf, algo, word) ==
  IF Len(src) \notin BlockSizes THEN Failed
  ELSE CASE src[1] % 4 = set_basic -> RawLiterals(src, huf)
         [] src[1] % 4 = set_rle   -> RleLiterals(src, huf)
         [] OTHER                  -> HufLiterals(src, huf, algo, word)

-----------------------------------------------------------------------------
(***************************************************************************)
(* ZSTD_decodeSeqHeaders: how many sequences, and the tables of the three  *)
(* codes.  kind names the constants of a code.                             *)
(***************************************************************************)
Kinds ==
  [ll |-> [max |-> MaxLL,  log |-> LLFSELog,  base |-> LL_base, bits |-> LL_bits,
           default |-> LL_defaultDTable],
   of |-> [max |-> MaxOff, log |-> OffFSELog, base |-> OF_base, bits |-> OF_bits,
           default |-> OF_defaultDTable],
   ml |-> [max |-> MaxML,  log |-> MLFSELog,  base |-> ML_base, bits |-> ML_bits,
           default |-> ML_defaultDTable]]

\* ZSTD_buildSeqTable_rle: one cell, and no bits to choose it.
SeqTableRle(kind, symbol) ==
  [log |-> 0, cells |-> [u \in {0} |-> [next |-> 0, add |-> kind.bits[symbol + 1],
                                        nb |-> 0, base |-> kind.base[symbol + 1]]]]

\* ZSTD_buildFSETable.
BuildFSETable(kind, norm, log) ==
  LET cell(c) == [next |-> c.next, add |-> kind.bits[c.sym + 1],
                  nb |-> c.nb, base |-> kind.base[c.sym + 1]]
      table(t) == [log |-> log, cells |-> [u \in DOMAIN t.cells |-> cell(t.cells[u])]]
  IN  table(BuildDTable(norm, log))

\* ZSTD_buildSeqTable: kept is the table of the block before.
BuildSeqTable(kind, type, src, kept) ==
  LET counted(r) ==
        IF r.ok => r.log > kind.log THEN Failed
        ELSE [ok |-> TRUE, size |-> r.size, table |-> BuildFSETable(kind, r.norm, r.log)]
  IN
  CASE type = set_rle ->
         IF Len(src) = 0 THEN Failed
         ELSE IF src[1] > kind.max THEN Failed
         ELSE [ok |-> TRUE, size |-> 1, table |-> SeqTableRle(kind, src[1])]
    [] type = set_basic -> [ok |-> TRUE, size |-> 0, table |-> kind.default]
    [] type = set_repeat ->
         IF kept = NoTable THEN Failed ELSE [ok |-> TRUE, size |-> 0, table |-> kept]
    [] OTHER -> counted(ReadNCount(src, kind.max))

\* The tables so far, with one more of the given kind and type.
AddTable(kind, type, kept, t) ==
  LET added(r) == IF ~r.ok THEN Failed
                  ELSE [ok |-> TRUE, rest |-> Drop(t.rest, r.size),
                        tables |-> Append(t.tables, r.table)]
  IN  IF t.ok THEN added(BuildSeqTable(kind, type, t.rest, kept)) ELSE Failed

\* The number of sequences in one, two or three bytes.
SeqCount(src) ==
  IF src[1] < 128 THEN [size |-> 1, nb |-> src[1]]
  ELSE IF src[1] < 255 THEN [size |-> 2, nb |-> (src[1] - 128) * 256 + src[2]]
  ELSE [size |-> 3, nb |-> LE16(src, 2) + LONGNBSEQ]

SeqCountFits(src) ==
  /\ Len(src) > 0
  /\ src[1] >= 128 => Len(src) >= 2
  /\ src[1] = 255 => Len(src) >= 3

DecodeSeqHeaders(src, e) ==
  LET c  == SeqCount(src)
      modes == src[c.size + 1]
      kept(t) == IF e.fseEntropy THEN t ELSE NoTable
      none == [ok |-> TRUE, rest |-> Drop(src, c.size + 1), tables |-> <<>>]
      headers(t) ==
        IF ~t.ok THEN Failed
        ELSE [ok |-> TRUE, nb |-> c.nb, rest |-> t.rest,
              ent |-> [e EXCEPT !.ll = t.tables[1], !.of = t.tables[2], !.ml = t.tables[3]]]
  IN  IF ~SeqCountFits(src) THEN Failed
      ELSE IF src[1] = 0
        THEN IF Len(src) = 1 THEN [ok |-> TRUE, nb |-> 0, ent |-> e, rest |-> <<>>] ELSE Failed
      ELSE IF Len(src) <= c.size THEN Failed
      ELSE headers(AddTable(Kinds.ml, (modes \div 4) % 4, kept(e.ml),
                   AddTable(Kinds.of, (modes \div 16) % 4, kept(e.of),
                   AddTable(Kinds.ll, modes \div 64, kept(e.ll), none))))

-----------------------------------------------------------------------------
(***************************************************************************)
(* ZSTD_decodeSequence.  s has the bit stream d, the states ll, of and ml, *)
(* and the repeat offsets prev.  A 32-bit register is refilled within a    *)
(* sequence, a 64-bit one only when the fields are wide.                   *)
(***************************************************************************)
Lesser(a, b) == IF a < b THEN a ELSE b

Narrow(d) == d.word = 4

ReloadIf(c, d) == IF c THEN Reload(d) ELSE d

\* An offset too wide for a 32-bit register comes in two parts.
LongOffset(d, cell) ==
  LET room  == IF d.consumed > 32 THEN cell.add ELSE Lesser(cell.add, 32 - d.consumed)
      extra == cell.add - room
      high  == ReadBitsFast(d, room)
      r     == Reload(high.d)
      low   == ReadBitsFast(r, extra)
  IN  [val |-> high.val * 2^extra + IF extra > 0 THEN low.val ELSE 0,
       d   |-> IF extra > 0 THEN low.d ELSE r]

NewOffset(d, cell, long) ==
  IF Narrow(d) /\ long /\ cell.add >= 25
    THEN LongOffset(d, cell)
    ELSE LET r == ReadBitsFast(d, cell.add) IN [r EXCEPT !.d = ReloadIf(Narrow(d), @)]

\* One of the last three, or the last but one; it becomes the first of them.
RepeatOffset_Third(prev, which) ==
  LET off == IF which = 3 THEN prev[1] - 1 ELSE prev[which + 1]
  IN  <<IF off = 0 THEN 1 ELSE off, prev[1], prev[2]>>

RepeatOffset(prev, which) ==
  LET off == IF which = 3 THEN prev[1] - 1 ELSE prev[which + 1]
  IN  <<IF off = 0 THEN 1 ELSE off, prev[1], IF which # 1 THEN prev[2] ELSE prev[3]>>

\* The offset, or which of the last three to repeat; they are kept in order of use.
DecodeOffset(d, cell, prev, noLiterals, long) ==
  LET new   == NewOffset(d, cell, long)
      bit   == ReadBitsFast(d, 1)
      shift == IF noLiterals THEN 1 ELSE 0
  IN  IF cell.add > 1
        THEN [d |-> new.d, prev |-> <<cell.base + new.val, prev[1], prev[2]>>]
      ELSE IF cell.add = 0
        THEN [d |-> d, prev |-> IF noLiterals THEN <<prev[2], prev[1], prev[3]>> ELSE prev]
      ELSE [d |-> bit.d, prev |-> RepeatOffset(prev, cell.base + shift + bit.val)]

\* A length: its base and the bits added to it.
DecodeLength(d, cell) ==
  LET r == ReadBitsFast(d, cell.add)
  IN  IF cell.add > 0 THEN [val |-> cell.base + r.val, d |-> r.d]
                      ELSE [val |-> cell.base, d |-> d]

\* ZSTD_updateFseState.
UpdateFseState(d, cell) ==
  LET r == ReadBits(d, cell.nb) IN [val |-> cell.next + r.val, d |-> r.d]

DecodeSequence(s, e, long) ==
  LET llc == e.ll.cells[s.ll]
      ofc == e.of.cells[s.of]
      mlc == e.ml.cells[s.ml]
      wide == IF Narrow(s.d) THEN mlc.add + llc.add >= 20
                             ELSE llc.add + mlc.add + ofc.add >= 31
      states(of, ml, ll) ==
        LET ll2 == UpdateFseState(ReloadIf(Narrow(s.d), ll.d), llc)
            ml2 == UpdateFseState(ll2.d, mlc)
            of2 == UpdateFseState(ReloadIf(Narrow(s.d), ml2.d), ofc)
        IN  [seq   |-> [ll |-> ll.val, off |-> of.prev[1], ml |-> ml.val],
             state |-> [d |-> of2.d, ll |-> ll2.val, of |-> of2.val, ml |-> ml2.val,
                        prev |-> of.prev]]
      literals(of, ml) == states(of, ml, DecodeLength(ReloadIf(wide, ml.d), llc))
      match(of) == literals(of, DecodeLength(of.d, mlc))
  IN  match(DecodeOffset(s.d, ofc, s.prev, llc.base = 0, long))

\* ZSTD_initFseState, once per code.
InitStates(d, e) ==
  LET ll == InitDState(d, e.ll)
      of == InitDState(ll.d, e.of)
      ml == InitDState(of.d, e.ml)
  IN  [d |-> ml.d, ll |-> ll.val, of |-> of.val, ml |-> ml.val, prev |-> e.rep]

-----------------------------------------------------------------------------
Block    == job.blocks[n]
IsLong   == job.word = 4 /\ job.window > 2^25
Memory   == [ok |-> TRUE, mem |-> mem, lit |-> lit.ptr, op |-> op]

\* ZSTD_getLongOffsetsShare: the cells of offsets beyond 2^23, out of 256.
LongOffsetsShare(t) ==
  Cardinality({u \in DOMAIN t.cells : t.cells[u].add > 22}) * 2^(OffFSELog - t.log)

\* ZSTD_decompressBlock_internal: decode ahead where matches are far away.
UsePrefetchDecoder(nbSeq, e) ==
  /\ job.window > 2^24
  /\ nbSeq > ADVANCED_SEQS
  /\ LongOffsetsShare(e.of) >= IF job.word = 8 THEN 7 ELSE 20

\* ZSTD_checkContinuity: a block that does not follow the last one starts a prefix.
CheckContinuity(w, dst) ==
  IF dst = w.previousDstEnd THEN w
  ELSE [prefixStart |-> dst, dictEnd |-> w.previousDstEnd,
        virtualStart |-> dst - (w.previousDstEnd - w.prefixStart),
        previousDstEnd |-> dst]

Refuse == /\ phase' = "error"
          /\ UNCHANGED <<job, n, mem, win, lit, ent, seqs, left, queue, op, text>>

\* The literals of the next block.
Literals ==
  LET bytes(r) == [a \in LitBase..(LitBase + r.size + WILDCOPY_OVERLENGTH - 1) |->
                     r.bytes[a - LitBase]]
      begin(r) ==
        IF ~r.ok THEN Refuse
        ELSE /\ phase' = "headers"
             /\ win' = CheckContinuity(win, Block.dst)
             /\ op'  = Block.dst
             /\ mem' = bytes(r) @@ [a \in {x \in DOMAIN mem : x < LitBase} |-> mem[a]]
             /\ lit' = [ptr |-> LitBase, end |-> LitBase + r.size, used |-> r.used]
             /\ ent' = [ent EXCEPT !.huf = r.huf]
             /\ UNCHANGED <<job, n, seqs, left, queue, text>>
  IN  /\ phase = "block"
      /\ begin(DecodeLiterals(Block.src, ent.huf, job.algo, job.word))

\* The sequences section: tables, the decoder's variant, the first states.  A count
\* of 0 in two bytes has tables behind it, which are kept.
SeqHeaders ==
  LET begin(r, d) ==
        IF ~r.ok THEN Refuse
        ELSE IF r.nb = 0
          THEN /\ phase' = "rest"
               /\ ent' = r.ent
               /\ UNCHANGED <<job, n, mem, win, lit, seqs, left, queue, op, text>>
        ELSE IF ~d.ok THEN Refuse
        ELSE /\ ent'  = [r.ent EXCEPT !.fseEntropy = TRUE]
             /\ seqs' = InitStates(d, r.ent)
             /\ left' = r.nb
             /\ phase' = IF UsePrefetchDecoder(r.nb, r.ent) THEN "ahead" ELSE "sequences"
             /\ UNCHANGED <<job, n, mem, win, lit, queue, op, text>>
      read(r) == begin(r, InitDStream(r.rest, job.word))
  IN  /\ phase = "headers"
      /\ read(DecodeSeqHeaders(Drop(Block.src, lit.used), ent))

\* What execSequence leaves behind.
Execute(seq) == ExecSequence(Memory, Block.oend, seq, lit.end, win, job.word)

Wrote(m) == /\ mem' = m.mem
            /\ op'  = m.op
            /\ lit' = [lit EXCEPT !.ptr = m.lit]

\* One turn of the plain loop, and the check of the exact end after the last.
Sequence ==
  LET turn(s, d, m) ==
        IF ~m.ok \/ (left = 1 /\ Status(d) < Completed)
          THEN Refuse
          ELSE /\ Wrote(m)
               /\ seqs' = [s EXCEPT !.d = d]
               /\ left' = left - 1
               /\ phase' = IF left = 1 THEN "rest" ELSE "sequences"
               /\ ent' = IF left = 1 THEN [ent EXCEPT !.rep = s.prev] ELSE ent
               /\ UNCHANGED <<job, n, win, queue, text>>
      execute(r) == turn(r.state, Reload(r.state.d), Execute(r.seq))
  IN  /\ phase = "sequences"
      /\ execute(DecodeSequence(seqs, ent, IsLong))

\* Decoding ahead: the stream must not have been read past its end before it.
Ahead ==
  LET full == Len(queue) = ADVANCED_SEQS
      turn(r, m) ==
        IF full /\ ~m.ok
          THEN Refuse
          ELSE /\ IF full THEN Wrote(m) ELSE UNCHANGED <<mem, op, lit>>
               /\ queue' = Append(IF full THEN Tail(queue) ELSE queue, r.seq)
               /\ seqs' = r.state
               /\ left' = left - 1
               /\ UNCHANGED <<job, n, phase, win, ent, text>>
  IN  /\ phase = "ahead"
      /\ left > 0
      /\ IF Status(seqs.d) > Completed THEN Refuse
         ELSE turn(DecodeSequence([seqs EXCEPT !.d = Reload(@)], ent, IsLong),
                   Execute(queue[1]))

\* The sequences still in the queue; there is no check of the exact end.
FinishQueue ==
  LET last == Len(queue) = 1
      turn(m) ==
        IF ~m.ok THEN Refuse
        ELSE /\ Wrote(m)
             /\ queue' = Tail(queue)
             /\ phase' = IF last THEN "rest" ELSE "ahead"
             /\ ent' = IF last THEN [ent EXCEPT !.rep = seqs.prev] ELSE ent
             /\ UNCHANGED <<job, n, win, seqs, left, text>>
  IN  /\ phase = "ahead"
      /\ left = 0
      /\ turn(Execute(queue[1]))

\* The last literals; the block is done and the next one may come.
LastLiterals ==
  LET rest == lit.end - lit.ptr
      end  == op + rest
      done == CopyBytes(mem, op, lit.ptr, rest)
      \* how much of the buffer from the start of the block on lies before end
      size == Cardinality({a \in Block.dst..(Block.oend - 1) : a < end})
  IN  /\ phase = "rest"
      /\ IF end > Block.oend THEN Refuse
         ELSE /\ mem' = done
              /\ op' = end
              /\ lit' = [lit EXCEPT !.ptr = lit.end]
              /\ text' = text \o [i \in 1..size |-> done[Block.dst + i - 1]]
              /\ win' = [win EXCEPT !.previousDstEnd = end]
              /\ n' = n + 1
              /\ phase' = IF n = Len(job.blocks) THEN "done" ELSE "block"
              /\ UNCHANGED <<job, ent, seqs, left, queue>>

BlockInit ==
  /\ job \in Jobs
  /\ n = 1 /\ phase = "block"
  /\ mem = job.memory
  /\ win = job.win
  /\ lit = [ptr |-> LitBase, end |-> LitBase, used |-> 0]
  /\ ent = [huf |-> NoTable, ll |-> NoTable, of |-> NoTable, ml |-> NoTable,
            fseEntropy |-> FALSE, rep |-> <<1, 4, 8>>]
  /\ seqs = [ll |-> 0] /\ left = 0 /\ queue = <<>>
  /\ op = 0 /\ text = <<>>

BlockNext == Literals \/ SeqHeaders \/ Sequence \/ Ahead \/ FinishQueue \/ LastLiterals

=============================================================================
