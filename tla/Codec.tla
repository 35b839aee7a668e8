------------------------------- MODULE Codec -------------------------------
(***************************************************************************)
(* The computations that decide whether a cached application is what was   *)
(* assembled: the blocks of the archive are decoded, with XXH64 over what  *)
(* each produced, and SHA-1 runs over the bytes of the archive in the      *)
(* pieces they were read in.  A behaviour is one frame's blocks or one     *)
(* message.                                                                *)
(***************************************************************************)
EXTENDS ZstdBlock, Sha1, Xxh64

CONSTANTS HashJobs   \* messages: what was hashed before, pieces, the digest

-----------------------------------------------------------------------------
(***************************************************************************)
(* The digest of a message as the standard has it: the message is followed *)
(* by an end mark, zeros and its length in bits, in 64 of them, so that    *)
(* there are whole blocks, which are compressed one after the other.  A    *)
(* message may be the end of a longer one, of which `before` counts the    *)
(* bits that came first: whole blocks of them.                             *)
(***************************************************************************)
Bits64(before, message) == Add(before[1] \o before[2], Word(8 * Len(message), 8))

StandardPadded(before, message) ==
  message \o <<128>> \o [i \in 1..((55 - Len(message)) % 64) |-> 0] \o Hex(Bits64(before, message))

StandardDigest(before, message) ==
  LET padded == StandardPadded(before, message)
      last   == Compressed(H0, padded, 0, Len(padded) \div 64)
  IN  [k \in 1..5 |-> Hex(last[k])]

Byte == 0..255

IsCount(c) == /\ c \in [1..2 -> [1..4 -> Byte]]
              /\ c[1][1] = 0 /\ c[1][2] % 2 = 0   \* a multiple of 512

HashJobsAssumption ==
  \A t \in HashJobs :
    /\ IsCount(t.before)
    /\ t.pieces \in Seq(Seq(Byte))
    /\ t.digest = StandardDigest(t.before, FlattenSeq(t.pieces))

ASSUME HashJobsAssumption

-----------------------------------------------------------------------------

VARIABLES sum,   \* dctx->xxhState
          task,  \* the message
          ctx,   \* SHA1_CTX
          part   \* how many of its pieces have been hashed

codecVars == <<blockVars, sum, task, ctx, part>>

NoJob  == [blocks |-> <<>>]
NoTask == [pieces |-> <<>>, digest |-> <<>>]

\* ZSTD_decompressContinue updates the checksum after a block, with its output.
BlockStep ==
  /\ BlockNext
  /\ sum' = IF n' = n THEN sum ELSE XXH64_update(sum, SubSeq(text', Len(text) + 1, Len(text')))
  /\ UNCHANGED <<task, ctx, part>>

\* The next piece of the message.
HashStep ==
  /\ part < Len(task.pieces)
  /\ ctx' = SHA1Update(ctx, task.pieces[part + 1])
  /\ part' = part + 1
  /\ UNCHANGED <<blockVars, sum, task>>

Init ==
  \/ BlockInit /\ sum = XXH64_reset /\ task = NoTask /\ ctx = SHA1Init /\ part = 0
  \/ /\ task \in HashJobs
     /\ ctx = [state |-> SHA1Init.state, count |-> task.before, buffer |-> SHA1Init.buffer]
     /\ part = 0 /\ sum = XXH64_reset
     /\ job = NoJob /\ n = 1 /\ phase = "done" /\ mem = <<>> /\ win = <<>>
     /\ lit = <<>> /\ ent = <<>> /\ seqs = <<>> /\ left = 0 /\ queue = <<>>
     /\ op = 0 /\ text = <<>>

Next == BlockStep \/ HashStep

Spec == Init /\ [][Next]_codecVars

-----------------------------------------------------------------------------
(***************************************************************************)
(* Properties.  A job carries what its blocks stand for, `want`, and       *)
(* whether they are corrupt.                                               *)
(***************************************************************************)
\* Every byte of the memory is one: no copy reads outside the buffers, where there
\* is nothing but the bytes over-copied from them, and no block copy is made of
\* overlapping halves (ZSTD_wildcopy, ZSTD_overlapCopy8, ZSTD_safecopy).
TypeOK ==
  /\ phase \in {"block", "headers", "sequences", "ahead", "rest", "done", "error"}
  /\ \A a \in DOMAIN mem : mem[a] \in 0..256
  /\ left \in Nat /\ Len(queue) <= ADVANCED_SEQS
  /\ part <= Len(task.pieces)

\* What has been produced is the beginning of what the block stands for, and all of
\* it in the end, whatever decoder, register width, table and copy were used.
OutputIsReference ==
  /\ IsPrefix(text, IF job = NoJob THEN <<>> ELSE job.want)
  /\ phase = "done" /\ job # NoJob => text = job.want

\* A block that a compressor can have made is never refused: neither for its end
\* mark, nor near the ends of the buffers, nor for a register refilled too late.
GoodBlocksDecode == phase = "error" => job.corrupt

\* A block is refused when bits are left over, when it reads literals or matches
\* that do not exist, or when it is larger than the room for it.
CorruptRefused == phase = "done" /\ job # NoJob => ~job.corrupt

\* What a step may never do: change a byte produced before it or one behind the
\* buffer.  The fast copies write up to 32 bytes too many, and only ahead.
Kept == {a \in DOMAIN mem : \/ win.prefixStart <= a /\ a < op
                            \/ Block.oend <= a /\ a < LitBase}

KeptStays == phase \in {"sequences", "ahead", "rest"} => \A a \in Kept : mem'[a] = mem[a]

OutputStays == [][KeptStays]_codecVars

\* The checksum of a frame is the one of its text, however it is cut into blocks.
ChecksumOfText ==
  phase = "done" /\ job # NoJob =>
    XXH64_digest(sum) = XXH64_digest(XXH64_update(XXH64_reset, text))

\* The digest is the one of the message, however it is cut into pieces, also where
\* the count of bits passes 2^32.
DigestOfMessage ==
  task # NoTask /\ part = Len(task.pieces) => SHA1Final(ctx) = task.digest

=============================================================================
