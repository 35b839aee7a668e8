------------------------------ MODULE UnzstdRead -------------------------------
(***************************************************************************)
(* Reading a Zstandard archive through unzstd_read, and hashing it.        *)
(*                                                                         *)
(* The extractor pulls decompressed bytes; unzstd_read hands out what the  *)
(* decoder (module ZstdStream) has put into the output buffer, and when    *)
(* that is used up feeds the decoder, reading the file one input buffer at *)
(* a time.  The SHA-1 of the archive is updated with each input buffer     *)
(* that is read.                                                           *)
(***************************************************************************)
EXTENDS ZstdStream

CONSTANTS
  Counts,    \* numbers of bytes the extractor asks for
  BeyondEnd, \* bound: bytes a malformed archive makes it ask for beyond the end
  ReadMayFail

ASSUME CountsAssumption ==
  Counts \subseteq Nat \ {0} /\ BeyondEnd \in Nat /\ ReadMayFail \in BOOLEAN

VARIABLES
  pc,        \* "idle", "copy", "refill", "decode", or "eof", "ioerror" and "fatal"
  bytesLeft, \* info.bytes_left: compressed bytes not read from the file
  ourPos,    \* info.our_output_pos
  want,      \* count
  got,       \* amount_copied
  delivered, \* decompressed bytes the extractor has received
  hashed     \* compressed bytes given to SHA1Update

readerVars == <<bytesLeft, ourPos, want, got, delivered, hashed>>
vars == <<pc, readerVars, decoderVars>>

TypeOK ==
  /\ pc \in {"idle", "copy", "refill", "decode", "eof", "ioerror", "fatal"}
  /\ call \in {"out", "loop", "result", "error"}
  /\ bytesLeft \in 0..ArchiveSize(archive)
  /\ inLen \in 0..DStreamInSize /\ inPos \in 0..inLen /\ istart \in 0..inLen
  /\ outLen \in 0..DStreamOutSize /\ ourPos \in 0..outLen
  /\ want \in Counts \cup {0} /\ got \in 0..want
  /\ delivered \in 0..decoded /\ hashed \in 0..ArchiveSize(archive)
  /\ zds.streamStage \in {"init", "loadHeader", "read", "load", "flush"}
  /\ zds.stage \in {"frameHeader", "blockHeader", "block", "checksum", "skipFrame"}
  /\ zds.frame \in 0..Len(archive)
  /\ zds.outStart \in 0..zds.outEnd /\ zds.outEnd \in 0..zds.outBuffSize
  /\ zds.inPos \in Nat /\ zds.stage # "skipFrame" => zds.inPos <= zds.inBuffSize
  /\ DOMAIN outBuff = 1..zds.outBuffSize

\* unzstd_init and sha_init
Init ==
  /\ DecoderInit
  /\ pc = "idle"
  /\ bytesLeft = ArchiveSize(archive)
  /\ ourPos = 0 /\ want = 0 /\ got = 0 /\ delivered = 0 /\ hashed = 0

-----------------------------------------------------------------------------
(* unzstd_read                                                             *)

\* cpio.c asks for headers, names and at most 1024 bytes of file data; a call that
\* got less than it asked for is the last one.
Call ==
  /\ pc = "idle"
  /\ \E c \in Counts :
       /\ delivered + c <= ArchivePlain(archive) + BeyondEnd
       /\ want' = c
  /\ got' = 0
  /\ pc' = "copy"
  /\ UNCHANGED <<bytesLeft, ourPos, delivered, hashed, decoderVars>>

\* Mutant: the rest of the output buffer is forgotten once the call is served.
Copy_Drop ==
  /\ pc = "copy"
  /\ LET n == Smaller(outLen - ourPos, want - got) IN
     /\ got' = got + n
     /\ delivered' = delivered + n
     /\ ourPos' = IF got' = want THEN outLen ELSE ourPos + n
     /\ pc' = IF n > 0 /\ got' = want THEN "idle" ELSE "refill"
  /\ UNCHANGED <<bytesLeft, want, hashed, decoderVars>>

\* Hand out what has been decompressed.
Copy ==
  /\ pc = "copy"
  /\ LET n == Smaller(outLen - ourPos, want - got) IN
     /\ got' = got + n
     /\ delivered' = delivered + n
     /\ ourPos' = ourPos + n
     /\ pc' = IF n > 0 /\ got' = want THEN "idle" ELSE "refill"
  /\ UNCHANGED <<bytesLeft, want, hashed, decoderVars>>

\* Mutants: a buffer that is full to the brim is hashed but for its last byte; a
\* buffer is hashed twice.
Hashed_OffByOne(n) == hashed + (IF n = DStreamInSize THEN n - 1 ELSE n)
Hashed_Twice(n) == hashed + 2 * n

\* sha_read
Hashed(n) == hashed + n

\* The decoder is called with the output buffer emptied.
CallDecoder ==
  /\ pc' = "decode" /\ call' = "loop"
  /\ outLen' = 0 /\ ourPos' = 0 /\ istart' = inPos'

\* Read another buffer of compressed data if the last one is used up; read may
\* return less than it was asked for.  Nothing left to read ends the call with 0,
\* whatever it has copied so far.
Refill ==
  /\ pc = "refill"
  /\ LET toRead == Smaller(DStreamInSize, bytesLeft) IN
     \/ /\ inPos < inLen
        /\ UNCHANGED <<bytesLeft, inPos, inLen, hashed>>
        /\ CallDecoder
     \/ /\ inPos = inLen /\ toRead = 0
        /\ pc' = "eof"
        /\ UNCHANGED <<bytesLeft, inPos, inLen, hashed, outLen, ourPos, call, istart>>
     \/ /\ inPos = inLen
        /\ \E amount \in 1..toRead :
             /\ inLen' = amount /\ inPos' = 0
             /\ bytesLeft' = bytesLeft - amount
             /\ hashed' = Hashed(amount)
        /\ CallDecoder
     \/ /\ inPos = inLen /\ toRead > 0 /\ ReadMayFail
        /\ pc' = "ioerror"
        /\ UNCHANGED <<bytesLeft, inPos, inLen, hashed, outLen, ourPos, call, istart>>
  /\ UNCHANGED <<want, got, delivered, archive, zds, outBuff, decoded>>

\* A step of the decoder; when the call is over, its output is handed out, or its
\* error ends the launcher.
DecoderStep ==
  /\ pc = "decode"
  /\ Decode
  /\ pc' = CASE call' = "out" -> "copy" [] call' = "error" -> "fatal" [] OTHER -> "decode"
  /\ UNCHANGED readerVars

-----------------------------------------------------------------------------
Next == Call \/ Copy \/ Refill \/ DecoderStep

\* A call of unzstd_read runs to its end; the extractor need not make one.
Spec == Init /\ [][Next]_vars /\ WF_vars(Copy \/ Refill \/ DecoderStep)

Served == pc = "idle" /\ delivered = ArchivePlain(archive)

\* No decompressed byte is lost or handed out twice: what has been decoded has been
\* delivered, lies in the output buffer, or waits in the decoder, although the
\* output buffer is reset before every call of the decoder.
NoByteLost == decoded = delivered + (outLen - ourPos) + (zds.outEnd - zds.outStart)

\* The digest covers exactly the compressed bytes the decoder has taken or still
\* has in the input buffer, and the decoder takes each unit from where the one
\* before it ends: no chunk is hashed twice, skipped or fed again.
HashMatchesInput ==
  pc # "fatal" =>
    LET keptBack == IF zds.hostageByte /\ (zds.streamStage # "init" \/ call = "result")
                      THEN 1 ELSE 0
    IN /\ hashed = ArchiveSize(archive) - bytesLeft
       /\ hashed = Taken + (inLen - inPos) - keptBack

\* unzstd_read returns 0 only when all the data has been handed out: with no
\* compressed byte left to read and output still in the decoder it would make a
\* good archive look short.
NoEarlyEnd == pc = "eof" => delivered = ArchivePlain(archive)

\* A good archive is never refused, however its bytes fall into the input buffers:
\* every check of sizes, capacities and progress in the decoder allows for it.
GoodArchiveDecodes == pc = "fatal" => ~ArchiveOk

\* The digest that cache_validate compares when the extractor has got its last
\* byte is that of the whole archive ("SHA-1 of the CPIO archive", README.md:294).
WholeArchiveHashed == Served /\ ArchivePlain(archive) > 0 => hashed = ArchiveSize(archive)

\* Every call returns: the loop between the buffers and the decoder never spins.
CallReturns ==
  pc \in {"copy", "refill", "decode"} ~> pc \in {"idle", "eof", "ioerror", "fatal"}
=============================================================================
