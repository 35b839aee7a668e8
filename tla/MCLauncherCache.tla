---------------------------- MODULE MCLauncherCache ----------------------------
(* Small instances of LauncherCache for TLC. *)
EXTENDS LauncherCache, TLC

CONSTANTS p1, p2, p3, s1, s2, s3, x1, x2, n1, n2, n3, d1, d2, d3, d4, d5,
          good, copy, upgrade, altered, truncated, wrong, newer, foreign, nostart

GoodImage ==
  [magic |-> TRUE, version |-> 1, compression |-> "zstd", sha |-> s1,
   contents |-> s1, readable |-> TRUE, path |-> x1]

\* good and copy are one archive at two paths; upgrade is another archive at the
\* path of good.  The others are defective: contents that do not have the digest
\* of the trailer, a truncated archive, an unknown compression, a later trailer
\* version, no trailer, and an archive that ends before "start".
MCImage ==
  [e \in Exe |->
     CASE e = good -> GoodImage
       [] e = copy -> [GoodImage EXCEPT !.path = x2]
       [] e = upgrade -> [GoodImage EXCEPT !.sha = s2, !.contents = s2]
       [] e = altered -> [GoodImage EXCEPT !.contents = s2]
       [] e = truncated -> [GoodImage EXCEPT !.readable = FALSE]
       [] e = wrong -> [GoodImage EXCEPT !.compression = "lzma"]
       [] e = newer -> [GoodImage EXCEPT !.version = 2]
       [] e = foreign -> [GoodImage EXCEPT !.magic = FALSE]
       [] e = nostart -> [GoodImage EXCEPT !.sha = s3, !.contents = s3, !.path = x2]]

\* The archive of nostart has its first file only.
MCEntries == [s \in Sha |-> IF s = s3 THEN 1 ELSE NFiles]

\* Directories and names are told apart by nothing but who has them.
Links == Permutations(Dir) \cup Permutations(Name)
=============================================================================
