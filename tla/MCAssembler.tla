------------------------------ MODULE MCAssembler ------------------------------
(* Small releases for Assembler. *)
EXTENDS Assembler, TLC

CONSTANTS b1, b2, l1

MCNames == {"app", "bin", "bin/app", "start", ".hidden", "long"}
MCParent == [n \in MCNames |-> IF n = "bin/app" THEN "bin" ELSE Root]
MCNameSize == [n \in MCNames |-> IF n = "long" THEN MaxName + 1 ELSE 2]
MCOrder == <<"app", "bin", "bin/app", "long", "start">>
MCScripts == <<"start">>

Dir == [mode |-> "dir", data |-> <<>>]
Exec(n) == [mode |-> "exec", data |-> [i \in 1..n |-> [k |-> "data"]]]
Tree == [f \in {"bin", "bin/app", ".hidden"} |-> IF f = "bin/app" THEN Exec(1) ELSE Dir]

\* A directory with a file, and a hidden directory; a file whose entry has a length of 0
\* modulo Word, 1 + 2 + 5; one that is too large for a header; a name that is too
\* long; a file that can shrink by a header and a name before an entry of that size;
\* an archive whose length does not fit a trailer, compressed or not.
MCReleases == {Tree, [f \in {"app"} |-> Exec(5)], [f \in {"app"} |-> Exec(8)],
               [f \in {"long"} |-> Exec(1)],
               [f \in {"app", "bin"} |-> IF f = "bin" THEN Dir ELSE Exec(2)],
               [f \in {"app"} |-> Exec(7)]}

Good == [release |-> TRUE, stray |-> FALSE, level |-> 15, command |-> 5, zstd |-> TRUE]

MCOptions == {Good, [Good EXCEPT !.zstd = FALSE], [Good EXCEPT !.level = 20],
              [Good EXCEPT !.command = 13], [Good EXCEPT !.stray = TRUE],
              [Good EXCEPT !.release = FALSE]}

Bakers == Permutations(Baker)
=============================================================================
