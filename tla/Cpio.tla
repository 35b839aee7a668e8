--------------------------------- MODULE Cpio ----------------------------------
(***************************************************************************)
(* The CPIO archive of a release: what Bakeware.CPIO appends for a file,   *)
(* and what cpio.c makes of a stream of archive bytes.                     *)
(*                                                                         *)
(* A stream is a sequence of pieces: a header, a name, or one unit of file *)
(* data.  An extractor that is one piece off reads data as a header, or a  *)
(* header as data, as the program does when a size is wrong.               *)
(***************************************************************************)
EXTENDS Naturals, Sequences, SequencesExt

CONSTANTS
  Names,      \* paths of the release, relative to its directory
  Parent,     \* the directory of each path; Root at the top
  Root,
  NameSize,   \* bytes of each path with the terminator
  Word,       \* 2^32: what the 8 hexadecimal digits of a header field,
              \* a trailer field and an unsigned int wrap at
  MaxName     \* CPIO_MAX_NAME_LEN - 1

Modes == {"dir", "file", "exec"}
HeaderSize == 1
Trailer == "TRAILER!!!"

ASSUME NamesAssumption ==
  /\ Trailer \notin Names /\ Root \notin Names
  /\ Parent \in [Names -> Names \cup {Root}]
  /\ NameSize \in [Names -> Nat \ {0}]
  /\ Word \in Nat \ {0} /\ MaxName \in Nat

-----------------------------------------------------------------------------
(* Bakeware.CPIO *)

\* build_header, pad_hex: a size that needs a ninth digit raises.
HeaderFits(size) == size < Word

\* append_file: the header and the name, and then the contents.  The size is the
\* one that File.stat! gave, also for a directory, which has no contents.
Entry(name, mode, size, data) == [name |-> name, mode |-> mode, size |-> size, data |-> data]

TrailerEntry == Entry(Trailer, "none", 0, <<>>)

Pieces(e) ==
  <<[k |-> "header", mode |-> e.mode, size |-> e.size,
     namesize |-> IF e.name = Trailer THEN 1 ELSE NameSize[e.name]],
    [k |-> "name", name |-> e.name]>> \o e.data

Archive(entries) == FlattenSeq([i \in DOMAIN entries |-> Pieces(entries[i])])

-----------------------------------------------------------------------------
(* cpio.c.  The extraction of a stream is at piece pos, has made the files *)
(* and directories of tree, and is going on, done, short of pieces, or has *)
(* failed.                                                                 *)

Bad(x) == [x EXCEPT !.status = "bad"]
Short(x) == [x EXCEPT !.status = "short"]

\* The length cpio_extract_one returns: a sum of unsigned ints.
Length(h) == (HeaderSize + h.namesize + h.size) % Word

\* Mutant: the contents of a directory are skipped, as its header has a size.
DataSize_All(h) == h.size

\* extract_file reads the data of a file and none of a directory.
DataSize(h) == IF h.mode = "dir" THEN 0 ELSE h.size

\* fopen and mkdir need the directory, which an earlier entry has made.
CanMake(x, name) == Parent[name] = Root \/ Parent[name] \in DOMAIN x.tree

\* cpio_extract_one and the test of its result.  0 is "the last entry".
ExtractOne(s, x) ==
  LET left == Len(s) - x.pos
      h == s[x.pos + 1]
      name == s[x.pos + 2].name
      n == DataSize(h)
      data == SubSeq(s, x.pos + 3, x.pos + 2 + n)
      made == [f \in DOMAIN x.tree \cup {name} |->
                 IF f = name THEN [mode |-> h.mode, data |-> data] ELSE x.tree[f]]
  IN IF left = 0 THEN Short(x)
     ELSE IF h.k # "header" \/ h.namesize > MaxName THEN Bad(x)
     ELSE IF left = 1 THEN Short(x)
     ELSE IF s[x.pos + 2].k # "name" THEN Bad(x)
     ELSE IF name = Trailer THEN [pos |-> x.pos + 2, tree |-> x.tree, status |-> "done"]
     ELSE IF ~CanMake(x, name) THEN Bad(x)
     ELSE IF left < 2 + n THEN Short(x)
     ELSE [pos |-> x.pos + 2 + n, tree |-> made,
           status |-> IF Length(h) = 0 THEN "done" ELSE "more"]

Fresh == [pos |-> 0, tree |-> [f \in {} |-> 0], status |-> "more"]

\* cpio_extract_all: every entry takes at least one piece.
Extract(s) ==
  LET after[n \in 0..(Len(s) + 1)] ==
        IF n = 0 THEN Fresh
        ELSE LET x == after[n - 1] IN IF x.status = "more" THEN ExtractOne(s, x) ELSE x
  IN after[Len(s) + 1]
=============================================================================
