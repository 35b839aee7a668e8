\* The block decoder of the Zstandard library with its checksum, and SHA-1.
SPECIFICATION Spec
CONSTANTS
  Jobs     <- MCJobs
  LitBase  <- MCLitBase
  HashJobs <- MCHashJobs
INVARIANT TypeOK
INVARIANT OutputIsReference
INVARIANT GoodBlocksDecode
INVARIANT CorruptRefused
INVARIANT ChecksumOfText
INVARIANT DigestOfMessage
PROPERTY OutputStays
\* A job ends.
CHECK_DEADLOCK FALSE
