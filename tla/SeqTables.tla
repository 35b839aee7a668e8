----------------------------- MODULE SeqTables -----------------------------
(***************************************************************************)
(* The constant tables of the sequence decoder: what the codes of literal  *)
(* lengths, match lengths and offsets stand for, and the decoding tables   *)
(* for the predefined distributions, as they are printed in the source.    *)
(***************************************************************************)
EXTENDS Fse

MaxLL == 35
MaxML == 52
MaxOff == 31
LLFSELog  == 9
MLFSELog  == 9
OffFSELog == 8

\* The bits that follow a code, and the value they are added to.
LL_bits == <<
  0, 0, 0, 0, 0, 0, 0, 0, 0, 0, 0, 0, 0, 0, 0, 0, 1, 1,
  1, 1, 2, 2, 3, 3, 4, 6, 7, 8, 9, 10, 11, 12, 13, 14, 15, 16 >>

LL_base == <<
  0, 1, 2, 3, 4, 5, 6, 7, 8, 9, 10, 11, 12, 13, 14, 15, 16, 18,
  20, 22, 24, 28, 32, 40, 48, 64, 128, 256, 512, 1024, 2048, 4096, 8192, 16384, 32768, 65536 >>

ML_bits == <<
  0, 0, 0, 0, 0, 0, 0, 0, 0, 0, 0, 0, 0, 0, 0, 0, 0, 0,
  0, 0, 0, 0, 0, 0, 0, 0, 0, 0, 0, 0, 0, 0, 1, 1, 1, 1,
  2, 2, 3, 3, 4, 4, 5, 7, 8, 9, 10, 11, 12, 13, 14, 15, 16 >>

ML_base == <<
  3, 4, 5, 6, 7, 8, 9, 10, 11, 12, 13, 14, 15, 16, 17, 18, 19, 20,
  21, 22, 23, 24, 25, 26, 27, 28, 29, 30, 31, 32, 33, 34, 35, 37, 39, 41,
  43, 47, 51, 59, 67, 83, 99, 131, 259, 515, 1027, 2051, 4099, 8195, 16387, 32771, 65539 >>

OF_bits == [c \in 1..(MaxOff + 1) |-> c - 1]

\* 2^code - 3 from code 2 on; the last one, for code 31, lies beyond any window.
OF_base == [c \in 1..MaxOff |-> IF c < 3 THEN c - 1 ELSE 2^(c - 1) - 3]

\* The distributions that the predefined tables are made from.
LL_defaultNorm == <<
  4, 3, 2, 2, 2, 2, 2, 2, 2, 2, 2, 2, 2, 1, 1, 1, 2, 2,
  2, 2, 2, 2, 2, 2, 2, 3, 2, 1, 1, 1, 1, 1, -1, -1, -1, -1 >>

ML_defaultNorm == <<
  1, 4, 3, 2, 2, 2, 2, 2, 2, 1, 1, 1, 1, 1, 1, 1, 1, 1,
  1, 1, 1, 1, 1, 1, 1, 1, 1, 1, 1, 1, 1, 1, 1, 1, 1, 1,
  1, 1, 1, 1, 1, 1, 1, 1, 1, 1, -1, -1, -1, -1, -1, -1, -1 >>

OF_defaultNorm == <<
  1, 1, 1, 1, 1, 1, 2, 2, 2, 1, 1, 1, 1, 1, 1, 1, 1, 1,
  1, 1, 1, 1, 1, 1, -1, -1, -1, -1, -1 >>

\* Rows <<next state, additional bits, bits, base value>>, as printed.
LL_printed == <<
  <<0,0,4,0>>, <<16,0,4,0>>, <<32,0,5,1>>, <<0,0,5,3>>, <<0,0,5,4>>, <<0,0,5,6>>,
  <<0,0,5,7>>, <<0,0,5,9>>, <<0,0,5,10>>, <<0,0,5,12>>, <<0,0,6,14>>, <<0,1,5,16>>,
  <<0,1,5,20>>, <<0,1,5,22>>, <<0,2,5,28>>, <<0,3,5,32>>, <<0,4,5,48>>, <<32,6,5,64>>,
  <<0,7,5,128>>, <<0,8,6,256>>, <<0,10,6,1024>>, <<0,12,6,4096>>, <<32,0,4,0>>, <<0,0,4,1>>,
  <<0,0,5,2>>, <<32,0,5,4>>, <<0,0,5,5>>, <<32,0,5,7>>, <<0,0,5,8>>, <<32,0,5,10>>,
  <<0,0,5,11>>, <<0,0,6,13>>, <<32,1,5,16>>, <<0,1,5,18>>, <<32,1,5,22>>, <<0,2,5,24>>,
  <<32,3,5,32>>, <<0,3,5,40>>, <<0,6,4,64>>, <<16,6,4,64>>, <<32,7,5,128>>, <<0,9,6,512>>,
  <<0,11,6,2048>>, <<48,0,4,0>>, <<16,0,4,1>>, <<32,0,5,2>>, <<32,0,5,3>>, <<32,0,5,5>>,
  <<32,0,5,6>>, <<32,0,5,8>>, <<32,0,5,9>>, <<32,0,5,11>>, <<32,0,5,12>>, <<0,0,6,15>>,
  <<32,1,5,18>>, <<32,1,5,20>>, <<32,2,5,24>>, <<32,2,5,28>>, <<32,3,5,40>>, <<32,4,5,48>>,
  <<0,16,6,65536>>, <<0,15,6,32768>>, <<0,14,6,16384>>, <<0,13,6,8192>> >>

OF_printed == <<
  <<0,0,5,0>>, <<0,6,4,61>>, <<0,9,5,509>>, <<0,15,5,32765>>, <<0,21,5,2097149>>, <<0,3,5,5>>,
  <<0,7,4,125>>, <<0,12,5,4093>>, <<0,18,5,262141>>, <<0,23,5,8388605>>, <<0,5,5,29>>, <<0,8,4,253>>,
  <<0,14,5,16381>>, <<0,20,5,1048573>>, <<0,2,5,1>>, <<16,7,4,125>>, <<0,11,5,2045>>, <<0,17,5,131069>>,
  <<0,22,5,4194301>>, <<0,4,5,13>>, <<16,8,4,253>>, <<0,13,5,8189>>, <<0,19,5,524285>>, <<0,1,5,1>>,
  <<16,6,4,61>>, <<0,10,5,1021>>, <<0,16,5,65533>>, <<0,28,5,268435453>>, <<0,27,5,134217725>>, <<0,26,5,67108861>>,
  <<0,25,5,33554429>>, <<0,24,5,16777213>> >>

ML_printed == <<
  <<0,0,6,3>>, <<0,0,4,4>>, <<32,0,5,5>>, <<0,0,5,6>>, <<0,0,5,8>>, <<0,0,5,9>>,
  <<0,0,5,11>>, <<0,0,6,13>>, <<0,0,6,16>>, <<0,0,6,19>>, <<0,0,6,22>>, <<0,0,6,25>>,
  <<0,0,6,28>>, <<0,0,6,31>>, <<0,0,6,34>>, <<0,1,6,37>>, <<0,1,6,41>>, <<0,2,6,47>>,
  <<0,3,6,59>>, <<0,4,6,83>>, <<0,7,6,131>>, <<0,9,6,515>>, <<16,0,4,4>>, <<0,0,4,5>>,
  <<32,0,5,6>>, <<0,0,5,7>>, <<32,0,5,9>>, <<0,0,5,10>>, <<0,0,6,12>>, <<0,0,6,15>>,
  <<0,0,6,18>>, <<0,0,6,21>>, <<0,0,6,24>>, <<0,0,6,27>>, <<0,0,6,30>>, <<0,0,6,33>>,
  <<0,1,6,35>>, <<0,1,6,39>>, <<0,2,6,43>>, <<0,3,6,51>>, <<0,4,6,67>>, <<0,5,6,99>>,
  <<0,8,6,259>>, <<32,0,4,4>>, <<48,0,4,4>>, <<16,0,4,5>>, <<32,0,5,7>>, <<32,0,5,8>>,
  <<32,0,5,10>>, <<32,0,5,11>>, <<0,0,6,14>>, <<0,0,6,17>>, <<0,0,6,20>>, <<0,0,6,23>>,
  <<0,0,6,26>>, <<0,0,6,29>>, <<0,0,6,32>>, <<0,16,6,65539>>, <<0,15,6,32771>>, <<0,14,6,16387>>,
  <<0,13,6,8195>>, <<0,12,6,4099>>, <<0,11,6,2051>>, <<0,10,6,1027>> >>

Printed(log, rows) ==
  [log   |-> log,
   cells |-> [u \in 0..(2^log - 1) |-> [next |-> rows[u + 1][1], add  |-> rows[u + 1][2],
                                       nb   |-> rows[u + 1][3], base |-> rows[u + 1][4]]]]

LL_defaultDTable == Printed(6, LL_printed)
OF_defaultDTable == Printed(5, OF_printed)
ML_defaultDTable == Printed(6, ML_printed)

=============================================================================
