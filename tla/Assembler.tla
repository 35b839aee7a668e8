------------------------------- MODULE Assembler -------------------------------
(***************************************************************************)
(* Assembling a Bakeware executable, and launching the result.             *)
(*                                                                         *)
(* A baker is one run of `mix release` with the Bakeware.assemble step: it *)
(* writes the start scripts into the release, appends every file of the    *)
(* release to a CPIO archive, compresses it with the zstd program, writes  *)
(* the trailer, and lets a shell cat launcher, archive and trailer into    *)
(* the executable.  Bakers of one release share its directory and the      *)
(* executable; their temporary files have random names.  A launch reads    *)
(* the trailer of the executable and extracts the archive from it.         *)
(*                                                                         *)
(* Files are sequences of pieces (module Cpio).  The compressed archive is *)
(* a sequence of parts, useless unless all of them are there in order; a   *)
(* digest is named by the baker whose archive has it.                      *)
(***************************************************************************)
EXTENDS Cpio, Integers

CONSTANTS
  Baker, Launch,
  Order,       \* the paths as Path.wildcard sorts them
  Hidden,      \* paths that Path.wildcard passes over: they start with a dot
  Releases,    \* contents of the release directory to start from
  Scripts,     \* the scripts add_start_script and add_start_batch write, in turn
  Options,     \* the ways mix.exs and the system set up an assembly
  MaxCommand,  \* longest start command
  Chunk,       \* pieces that one read or write moves
  Faults,      \* "stop": a call fails and raises, or the baker is killed;
               \* "silent": a call fails whose result is ignored
  MaxTouches,  \* bound: changes somebody makes to the release meanwhile
  None

Max0(n) == IF n > 0 THEN n ELSE 0
Smaller(a, b) == IF a < b THEN a ELSE b

Elf == [k |-> "elf"]
Hole == [k |-> "hole"]
Script == [k |-> "script"]

\* A path of the release, with its contents in pieces.
Unit == {[k |-> "data"], Script}
File == [mode : Modes, data : Seq(Unit)]

\* A trailer: the digest is named by the baker whose archive has it.
Trailers == [k : {"trailer"}, sha1 : Baker, command : Nat, contents_length : Nat,
             contents_offset : Nat, compression : {"zstd", "none"}]

ASSUME AssemblerAssumption ==
  /\ Order \in Seq(Names) /\ Hidden \subseteq Names
  /\ \A r \in Releases : DOMAIN r \subseteq Names /\ \A n \in DOMAIN r : r[n] \in File
  /\ \A o \in Options : o.level \in Int /\ o.command \in Nat /\ o.zstd \in BOOLEAN
  /\ Scripts \in Seq(Names)
  /\ Chunk \in Nat \ {0} /\ MaxTouches \in Nat /\ MaxCommand \in Nat
  /\ Faults \subseteq {"stop", "silent"}
  /\ None \notin Trailers

\* A release has the directories its files are in, and the start scripts are at its
\* top.  Path.wildcard lists a directory before what is in it, and nothing that is in a
\* hidden one.  The name of the trailer is one the extractor has room for.
ASSUME ReleaseAssumption ==
  /\ \A r \in Releases : \A n \in DOMAIN r : Parent[n] \in DOMAIN r \cup {Root}
  /\ \A n \in Range(Scripts) : Parent[n] = Root
  /\ \A i \in DOMAIN Order :
       LET dir == Parent[Order[i]] IN
       dir # Root => /\ \E j \in 1..(i - 1) : Order[j] = dir
                     /\ dir \in Hidden => Order[i] \in Hidden
  /\ Word > 1 /\ MaxName > 0

VARIABLES
  release,   \* the release directory: path -> [mode, data]
  touches,
  out,       \* the executable: [there, runnable, pieces]
  opts,      \* how mix.exs and the system set up the assemblies
  pc,        \* of each baker
  script,    \* start scripts written
  todo,      \* paths to append: the set of them
  cpio,      \* <tmp>.cpio: [there, packed, entries]
  zst,       \* <tmp>.cpio.zst is there
  trailer,   \* <tmp>.trailer
  written,   \* pieces that cat has written
  lpc,       \* of each launch: "idle", "read", "accepted" or "refused"
  seen,      \* the trailer it has read
  got,       \* the pieces it has read
  steady     \* history: the launches since whose start nobody wrote the executable

bakerVars == <<opts, pc, script, todo, cpio, zst, trailer, written>>
launchVars == <<lpc, seen, got>>
outVars == <<out, steady>>
vars == <<release, touches, outVars, bakerVars, launchVars>>

Working == {"configure", "script", "fill", "stat", "contents", "compress", "rename",
            "trailer", "cat", "write", "chmod", "cleanup"}

TypeOK ==
  /\ DOMAIN release \subseteq Names
  /\ \A n \in DOMAIN release : release[n].mode \in Modes
  /\ touches \in 0..MaxTouches
  /\ out.there \in BOOLEAN /\ out.runnable \in BOOLEAN
  /\ pc \in [Baker -> Working \cup {"done", "stopped"}]
  /\ opts \in Options
  /\ script \in [Baker -> 0..Len(Scripts)]
  /\ \A b \in Baker : /\ todo[b] \subseteq Names
                      /\ cpio[b].there \in BOOLEAN /\ cpio[b].packed \in BOOLEAN
                      /\ written[b] \in Nat
  /\ zst \in [Baker -> BOOLEAN]
  /\ trailer \in [Baker -> Trailers \cup {None}]
  /\ lpc \in [Launch -> {"idle", "read", "accepted", "refused"}]
  /\ steady \subseteq Launch

NoFile == [there |-> FALSE, packed |-> FALSE, entries |-> <<>>]

Init ==
  /\ release \in Releases /\ touches = 0
  /\ out = [there |-> FALSE, runnable |-> FALSE, pieces |-> <<>>]
  /\ pc = [b \in Baker |-> "configure"]
  /\ opts \in Options
  /\ script = [b \in Baker |-> 0]
  /\ todo = [b \in Baker |-> {}]
  /\ cpio = [b \in Baker |-> NoFile]
  /\ zst = [b \in Baker |-> FALSE]
  /\ trailer = [b \in Baker |-> None]
  /\ written = [b \in Baker |-> 0]
  /\ lpc = [l \in Launch |-> "idle"]
  /\ seen = [l \in Launch |-> None]
  /\ got = [l \in Launch |-> <<>>]
  /\ steady = {}

-----------------------------------------------------------------------------
(* A baker                                                                 *)

At(b, l) == pc[b] = l
Goto(b, l) == pc' = [pc EXCEPT ![b] = l]

Baking(b, l) == At(b, l) /\ UNCHANGED <<opts, touches, launchVars>>

\* create_paths, set_compression and set_start_command: what they refuse, they
\* raise.  assemble/2 has no release to take options from.
Accepted(o) ==
  /\ o.release /\ ~o.stray
  /\ o.level \in 1..19
  /\ o.command <= MaxCommand

Configure(b) ==
  /\ Baking(b, "configure")
  /\ Goto(b, IF Accepted(opts) THEN "script" ELSE "stopped")
  /\ UNCHANGED <<release, outVars, script, todo, cpio, zst, trailer, written>>

\* add_start_script and add_start_batch: File.write! empties the file ...
EmptyScript(b) ==
  /\ Baking(b, "script") /\ script[b] < Len(Scripts)
  /\ LET n == Scripts[script[b] + 1] IN
     release' = [m \in DOMAIN release \cup {n} |->
                   IF m = n THEN [mode |-> "file", data |-> <<>>] ELSE release[m]]
  /\ Goto(b, "fill")
  /\ UNCHANGED <<outVars, script, todo, cpio, zst, trailer, written>>

\* ... and fills it, and File.chmod! makes it executable.
FillScript(b) ==
  /\ Baking(b, "fill")
  /\ release' = [release EXCEPT ![Scripts[script[b] + 1]] = [mode |-> "exec", data |-> <<Script>>]]
  /\ script' = [script EXCEPT ![b] = @ + 1]
  /\ Goto(b, "script")
  /\ UNCHANGED <<outVars, todo, cpio, zst, trailer, written>>

\* Mutant: the release directory itself is appended.
Open_Root(b) ==
  /\ Baking(b, "script") /\ script[b] = Len(Scripts)
  /\ cpio' = [cpio EXCEPT ![b].there = TRUE]
  /\ todo' = [todo EXCEPT ![b] = {Root} \cup Range(Order)]
  /\ Goto(b, "stat")
  /\ UNCHANGED <<release, outVars, script, zst, trailer, written>>

\* CPIO.build opens the archive and lists the release.
Open(b) ==
  /\ Baking(b, "script") /\ script[b] = Len(Scripts)
  /\ cpio' = [cpio EXCEPT ![b].there = TRUE]
  /\ todo' = [todo EXCEPT ![b] = (Range(Order) \cap DOMAIN release) \ Hidden]
  /\ Goto(b, "stat")
  /\ UNCHANGED <<release, outVars, script, zst, trailer, written>>

AppendEntry(b, e) == cpio' = [cpio EXCEPT ![b].entries = @ \o <<e>>]

\* The first of a set of paths, in the order of the list.
First(n, paths) ==
  \E i \in DOMAIN Order :
    n = Order[i] /\ n \in paths /\ \A j \in 1..(i - 1) : Order[j] \notin paths

\* file_details and build_header: the header holds the size of this moment.
Stat(b) ==
  /\ Baking(b, "stat")
  /\ \E n \in todo[b] :
       /\ First(n, todo[b])
       /\ todo' = [todo EXCEPT ![b] = @ \ {n}]
       /\ LET f == release[n]
              size == IF f.mode = "dir" THEN 2 ELSE Len(f.data)
          IN IF HeaderFits(size)
               THEN AppendEntry(b, Entry(n, f.mode, size, <<>>)) /\ Goto(b, "contents")
               ELSE Goto(b, "stopped") /\ UNCHANGED cpio
  /\ UNCHANGED <<release, outVars, script, zst, trailer, written>>

\* maybe_write_file_contents: the file is read whole, as it is now.
Contents(b) ==
  /\ Baking(b, "contents")
  /\ LET last == Len(cpio[b].entries)
         e == cpio[b].entries[last]
     IN cpio' = [cpio EXCEPT ![b].entries[last].data =
                   IF e.mode = "dir" THEN <<>> ELSE release[e.name].data]
  /\ Goto(b, "stat")
  /\ UNCHANGED <<release, outVars, script, todo, zst, trailer, written>>

\* append_trailer
EndArchive(b) ==
  /\ Baking(b, "stat") /\ todo[b] = {}
  /\ AppendEntry(b, TrailerEntry)
  /\ Goto(b, "compress")
  /\ UNCHANGED <<release, outVars, script, todo, zst, trailer, written>>

\* Mutant: the plain archive is kept.
Compress_Keep(b) ==
  /\ Baking(b, "compress")
  /\ IF opts.zstd
       THEN zst' = [zst EXCEPT ![b] = TRUE] /\ Goto(b, "rename")
       ELSE Goto(b, "trailer") /\ UNCHANGED zst
  /\ UNCHANGED <<release, outVars, script, todo, cpio, trailer, written>>

\* maybe_compress: zstd --rm removes the plain archive.
Compress(b) ==
  /\ Baking(b, "compress")
  /\ IF opts.zstd
       THEN /\ cpio' = [cpio EXCEPT ![b].there = FALSE]
            /\ zst' = [zst EXCEPT ![b] = TRUE]
            /\ Goto(b, "rename")
       ELSE Goto(b, "trailer") /\ UNCHANGED <<cpio, zst>>
  /\ UNCHANGED <<release, outVars, script, todo, trailer, written>>

\* File.rename, whose result is ignored.
Rename(b) ==
  /\ Baking(b, "rename")
  /\ \/ /\ zst' = [zst EXCEPT ![b] = FALSE]
        /\ cpio' = [cpio EXCEPT ![b].there = TRUE, ![b].packed = TRUE]
     \/ "silent" \in Faults /\ UNCHANGED <<zst, cpio>>
  /\ Goto(b, "trailer")
  /\ UNCHANGED <<release, outVars, script, todo, trailer, written>>

\* What <tmp>.cpio holds.  zstd makes one part of two pieces; parts of different
\* archives do not go together.
Contained(b) ==
  LET s == Archive(cpio[b].entries)
  IN IF cpio[b].packed
       THEN [i \in 1..(Len(s) \div 2 + 1) |-> [k |-> "part", i |-> i, archive |-> b]]
       ELSE s

\* build_trailer: File.read! and File.stat! raise when there is no archive.  The
\* size and the offset keep 32 bits.
BuildTrailer(b) ==
  /\ Baking(b, "trailer")
  /\ IF cpio[b].there
       THEN /\ trailer' = [trailer EXCEPT ![b] =
                 [k |-> "trailer", sha1 |-> b, command |-> opts.command,
                  contents_length |-> Len(Contained(b)) % Word,
                  contents_offset |-> 1 % Word,
                  compression |-> IF opts.zstd THEN "zstd" ELSE "none"]]
            /\ Goto(b, "cat")
       ELSE Goto(b, "stopped") /\ UNCHANGED trailer
  /\ UNCHANGED <<release, outVars, script, todo, cpio, zst, written>>

Executable(b) == <<Elf>> \o Contained(b) \o <<trailer[b]>>

\* The shell opens the executable for cat, and empties it.
OpenOutput(b) ==
  /\ Baking(b, "cat")
  /\ \/ /\ out' = [out EXCEPT !.there = TRUE, !.pieces = <<>>] /\ steady' = {}
        /\ Goto(b, "write")
     \/ "silent" \in Faults /\ Goto(b, "chmod") /\ UNCHANGED outVars
  /\ UNCHANGED <<release, script, todo, cpio, zst, trailer, written>>

\* pieces with s over them from position p on
Overwrite(pieces, p, s) ==
  [i \in 1..(p + Len(s) + Max0(Len(pieces) - p - Len(s))) |->
     IF i > p /\ i <= p + Len(s) THEN s[i - p]
     ELSE IF i <= Len(pieces) THEN pieces[i] ELSE Hole]

\* cat writes at its own position, whatever others do to the file; when a write
\* fails the rest is not written, and nobody looks.
WriteOutput(b) ==
  /\ Baking(b, "write")
  /\ LET whole == Executable(b)
         s == SubSeq(whole, written[b] + 1, Smaller(written[b] + Chunk, Len(whole)))
     IN \/ /\ s # <<>>
           /\ out' = [out EXCEPT !.pieces = Overwrite(@, written[b], s)] /\ steady' = {}
           /\ written' = [written EXCEPT ![b] = @ + Len(s)]
           /\ UNCHANGED pc
        \/ /\ s = <<>> \/ "silent" \in Faults
           /\ Goto(b, "chmod")
           /\ UNCHANGED <<outVars, written>>
  /\ UNCHANGED <<release, script, todo, cpio, zst, trailer>>

Chmod(b) ==
  /\ Baking(b, "chmod")
  /\ IF out.there
       THEN out' = [out EXCEPT !.runnable = TRUE] /\ Goto(b, "cleanup")
       ELSE Goto(b, "stopped") /\ UNCHANGED out
  /\ UNCHANGED <<release, steady, script, todo, cpio, zst, trailer, written>>

\* cleanup_files; the report of success follows.
Cleanup(b) ==
  /\ Baking(b, "cleanup")
  /\ cpio' = [cpio EXCEPT ![b].there = FALSE]
  /\ Goto(b, "done")
  /\ UNCHANGED <<release, outVars, script, todo, zst, trailer, written>>

\* Any call with a ! may fail, and so may zstd, and the baker may be killed;
\* temporary files stay behind.
Stop(b) ==
  /\ "stop" \in Faults
  /\ pc[b] \in Working
  /\ Goto(b, "stopped")
  /\ UNCHANGED <<release, touches, outVars, opts, script, todo, cpio, zst, trailer, written, launchVars>>

\* Somebody makes a file of the release longer or shorter, or empties it.
Touch ==
  /\ touches < MaxTouches
  /\ \E n \in DOMAIN release \ Range(Scripts) :
       /\ release[n].mode # "dir"
       /\ LET old == release[n].data IN
          \E new \in {old \o <<[k |-> "data"]>>, SubSeq(old, 1, Len(old) - 1), <<>>} :
            release' = [release EXCEPT ![n].data = new]
  /\ touches' = touches + 1
  /\ UNCHANGED <<outVars, bakerVars, launchVars>>

-----------------------------------------------------------------------------
(* A launch                                                                *)

\* bw_read_trailer: the last bytes of the file at this moment.
ReadTrailer(l) ==
  /\ lpc[l] = "idle"
  /\ out.runnable /\ out.pieces # <<>> /\ out.pieces[1] = Elf
  /\ LET t == out.pieces[Len(out.pieces)] IN
     IF t.k = "trailer"
       THEN /\ seen' = [seen EXCEPT ![l] = t]
            /\ lpc' = [lpc EXCEPT ![l] = "read"]
       ELSE /\ lpc' = [lpc EXCEPT ![l] = "refused"]
            /\ UNCHANGED seen
  /\ steady' = steady \cup {l}
  /\ UNCHANGED <<release, touches, out, bakerVars, got>>

\* Decompression needs every part.
Unpack(s) ==
  IF s # <<>> /\ s[1].k = "part" /\ s = Contained(s[1].archive)
    THEN Archive(cpio[s[1].archive].entries) ELSE <<>>

Stream(l) == IF seen[l].compression = "zstd" THEN Unpack(got[l]) ELSE got[l]
Extracted(l) == Extract(Stream(l))

\* Mutant: the digest is not compared.
Verified_Never(l) == TRUE

\* The comparison of the digests in cache_validate.
Verified(l) == got[l] = Contained(seen[l].sha1)

\* What the readers take next: unzstd_read up to contents_length, sha_read what the
\* extractor asks for and whatever the length says.  A launch reads all of a
\* compressed archive, as one input buffer of the reader holds its end.
Wanted(l) ==
  LET n == Len(got[l])
      left == IF seen[l].compression = "zstd" THEN seen[l].contents_length - n ELSE 1
      start == seen[l].contents_offset + n
  IN SubSeq(out.pieces, start + 1, Smaller(start + Smaller(Chunk, left), Len(out.pieces)))

Read(l) ==
  /\ lpc[l] = "read"
  /\ Wanted(l) # <<>> /\ Extracted(l).status = "short"
  /\ got' = [got EXCEPT ![l] = @ \o Wanted(l)]
  /\ UNCHANGED <<release, touches, outVars, bakerVars, lpc, seen>>

\* cpio_extract_all ends, and cache_validate compares the digests.
Validate(l) ==
  /\ lpc[l] = "read"
  /\ Wanted(l) = <<>> \/ Extracted(l).status # "short"
  /\ lpc' = [lpc EXCEPT ![l] = IF Extracted(l).status = "done" /\ Verified(l)
                                 THEN "accepted" ELSE "refused"]
  /\ UNCHANGED <<release, touches, outVars, bakerVars, seen, got>>

-----------------------------------------------------------------------------
Bake(b) ==
  \/ Configure(b) \/ EmptyScript(b) \/ FillScript(b) \/ Open(b) \/ Stat(b) \/ Contents(b)
  \/ EndArchive(b) \/ Compress(b) \/ Rename(b) \/ BuildTrailer(b) \/ OpenOutput(b)
  \/ WriteOutput(b) \/ Chmod(b) \/ Cleanup(b) \/ Stop(b)

Next ==
  \/ \E b \in Baker : Bake(b)
  \/ \E l \in Launch : ReadTrailer(l) \/ Read(l) \/ Validate(l)
  \/ Touch

Spec == Init /\ [][Next]_vars

-----------------------------------------------------------------------------
Entries(b) == cpio[b].entries

\* The sum of the lengths of an entry that cpio_extract_one takes for "last entry".
SumWraps(b) == \E i \in DOMAIN Entries(b) :
                 LET h == Pieces(Entries(b)[i])[1]
                 IN Entries(b)[i].name # Trailer /\ Length(h) = 0

\* A file that has shrunk between stat and read by so much that the header and the
\* name of the next entry fit the gap: they are extracted as contents of the file.
Swallows(b) == \E e \in Range(Entries(b)) : e.mode # "dir" /\ e.size >= Len(e.data) + 2

\* The release a baker has archived: every path that it appended with the contents
\* it read.
Archived(b) ==
  [n \in {e.name : e \in Range(Entries(b))} \ {Trailer} |->
     LET e == CHOOSE x \in Range(Entries(b)) : x.name = n
     IN [mode |-> e.mode, data |-> e.data]]

\* A launch that accepts an archive has extracted, file by file, what one baker
\* archived: whatever bakers wrote over each other, and whenever the launch read, it
\* never starts a mixture of two assemblies or a part of one; and when the size of a
\* file was stale it refuses the archive, unless the file has swallowed the next
\* entry.  (An archive with an entry whose length is 0 modulo 2^32 is short.)
AcceptedIsOneAssembly ==
  \A l \in Launch : lpc[l] = "accepted" =>
    \E b \in Baker : /\ trailer[b] = seen[l]
                     /\ Extracted(l).tree = Archived(b) \/ SumWraps(b) \/ Swallows(b)

\* What the formats can hold: sizes that were not stale, names the extractor has
\* room for, lengths that fit 32 bits.
Representable(b) ==
  /\ \A e \in Range(Entries(b)) : /\ e.mode \in {"file", "exec"} => e.size = Len(e.data)
                                  /\ e.name # Trailer => NameSize[e.name] <= MaxName
  /\ ~SumWraps(b)
  /\ cpio[b].packed => Len(Contained(b)) < Word

\* A finished executable starts: a launch refuses nothing that a baker has written
\* whole and nobody has written to since, if the formats can represent it.
GoodExecutableStarts ==
  \A l \in Launch : lpc[l] = "refused" /\ l \in steady =>
    \A b \in Baker : trailer[b] # None /\ out.pieces = Executable(b) => ~Representable(b)

\* The trailer tells the truth about the archive that is put before it, although
\* the result of the rename between compressing and hashing is ignored.
TrailerFitsArchive ==
  \A b \in Baker : pc[b] \in {"cat", "write", "chmod"} =>
    /\ cpio[b].there
    /\ trailer[b].compression = "zstd" <=> cpio[b].packed
=============================================================================
