--------------------------- MODULE Assembler_proofs ----------------------------
(***************************************************************************)
(* Proofs about Assembler, for any number of bakers and launches, any      *)
(* release, and files and archives of any length.                          *)
(***************************************************************************)
EXTENDS Assembler, Cpio_proofs

-----------------------------------------------------------------------------
(* The inductive invariant                                                 *)

Parts == [k : {"part"}, i : Nat, archive : Baker]
PlainPieces == PieceOf(Unit) \cup Parts
AnyPiece == PlainPieces \cup {Elf, Hole} \cup Trailers

CpioFile == [there : BOOLEAN, packed : BOOLEAN, entries : Seq(EntryOf(Unit))]

Typed ==
  /\ touches \in 0..MaxTouches
  /\ DOMAIN release \subseteq Names /\ \A n \in DOMAIN release : release[n] \in File
  /\ out \in [there : BOOLEAN, runnable : BOOLEAN, pieces : Seq(AnyPiece)]
  /\ pc \in [Baker -> Working \cup {"done", "stopped"}]
  /\ opts \in Options
  /\ script \in [Baker -> 0..Len(Scripts)]
  /\ \A b \in Baker : pc[b] = "fill" => script[b] < Len(Scripts)
  /\ todo \in [Baker -> SUBSET Names]
  /\ \A b \in Baker : todo[b] \subseteq DOMAIN release
  /\ cpio \in [Baker -> CpioFile]
  /\ zst \in [Baker -> BOOLEAN]
  /\ trailer \in [Baker -> Trailers \cup {None}]
  /\ written \in [Baker -> Nat]
  /\ lpc \in [Launch -> {"idle", "read", "accepted", "refused"}]
  /\ seen \in [Launch -> Trailers \cup {None}]
  /\ got \in [Launch -> Seq(AnyPiece)]
  /\ steady \subseteq Launch

\* The header of a file has been appended, and its contents have not.
Pending(b) ==
  pc[b] = "contents" =>
    LET last == Len(Entries(b)) IN
    /\ last > 0
    /\ Entries(b)[last].name \in DOMAIN release
    /\ Entries(b)[last].data = <<>>

\* The paths archived so far, each once and none of them still to be archived.
Growing(b) ==
  /\ pc[b] \in {"configure", "script", "fill"} => Entries(b) = <<>>
  /\ pc[b] \in {"stat", "contents"} =>
       /\ Regular(Entries(b), Unit)
       /\ \A i \in 1..Len(Entries(b)) : Entries(b)[i].name \notin todo[b]

\* A whole archive: an entry for every path, and the trailer.
Whole(all) ==
  \E es : /\ Regular(es, Unit) /\ Extends(all, es, Unit)
          /\ all[Len(es) + 1] = TrailerEntry

\* From compressing on the archive stays as it is.
Finished(b) ==
  /\ \/ pc[b] \in {"compress", "rename", "trailer", "cat", "write", "chmod", "cleanup", "done"}
     \/ trailer[b] # None
     => Whole(Entries(b))
  /\ pc[b] \in {"configure", "script", "fill", "stat", "contents", "compress", "rename"}
       => ~ cpio[b].packed
  /\ pc[b] = "rename" => opts.zstd /\ ~ cpio[b].there
  /\ pc[b] = "trailer" /\ cpio[b].there => (opts.zstd <=> cpio[b].packed)

\* A trailer names the baker whose archive it describes, and is not written again.
Described(b) ==
  /\ trailer[b] # None =>
       /\ pc[b] \in {"cat", "write", "chmod", "cleanup", "done", "stopped"}
       /\ trailer[b].sha1 = b
       /\ trailer[b].compression = "zstd" <=> cpio[b].packed
  /\ pc[b] \in {"cat", "write", "chmod"} => trailer[b] # None /\ cpio[b].there

BakerInv == \A b \in Baker : Pending(b) /\ Growing(b) /\ Finished(b) /\ Described(b)

\* A trailer that somebody can read is that of a baker.
Written(t) == \E b \in Baker : trailer[b] = t /\ t # None
OutInv == \A i \in 1..Len(out.pieces) : out.pieces[i].k = "trailer" => Written(out.pieces[i])

\* A launch has read the whole archive of the baker whose trailer it read, and that
\* archive can be extracted to its end.
Took(l, b) ==
  /\ trailer[b] = seen[l] /\ trailer[b] # None
  /\ got[l] = Contained(b)
  /\ Extract(Archive(Entries(b))).status = "done"

LaunchInv ==
  \A l \in Launch :
    /\ lpc[l] \in {"read", "accepted"} => Written(seen[l])
    /\ lpc[l] = "accepted" => \E b \in Baker : Took(l, b)

AssemblerInv == Typed /\ BakerInv /\ OutInv /\ LaunchInv

-----------------------------------------------------------------------------
(* Operators                                                               *)

LEMMA UnitIsData == \A u \in Unit : u.k \notin {"header", "name", "trailer"}
BY DEF Unit, Script

LEMMA ArchiveType ==
  ASSUME NEW es \in Seq(EntryOf(Unit))
  PROVE  Archive(es) \in Seq(PieceOf(Unit))
<1>1. PICK f : Builds(f, es)
  BY ArchiveBuilds
<1>2. Archive(es) = f[Len(es)] /\ Len(es) \in 0..Len(es)
  BY <1>1 DEF Builds
<1> QED
  BY <1>1, <1>2, ArchivePrefix

LEMMA PlainIsNoTrailer == \A p \in PlainPieces \cup {Elf, Hole} : p.k # "trailer"
<1>1. \A p \in Headers \cup NamePieces \cup Parts : p.k # "trailer"
  BY DEF Headers, NamePieces, Parts
<1>2. Elf.k # "trailer" /\ Hole.k # "trailer"
  BY DEF Elf, Hole
<1> QED
  BY <1>1, <1>2, UnitIsData DEF PlainPieces, PieceOf

\* What <tmp>.cpio holds is pieces of an archive or parts of a compressed one.
LEMMA ContainedType ==
  ASSUME Typed, NEW b \in Baker
  PROVE  Contained(b) \in Seq(PlainPieces)
<1> DEFINE s == Archive(Entries(b))
           n == Len(s) \div 2 + 1
           parts == [i \in 1..n |-> [k |-> "part", i |-> i, archive |-> b]]
<1>1. cpio[b].entries \in Seq(EntryOf(Unit))
  BY DEF Typed, CpioFile
<1>2. s \in Seq(PieceOf(Unit))
  BY <1>1, ArchiveType DEF Entries
<1>3. Len(s) \div 2 \in Nat
  BY <1>2
<1>4. parts \in Seq(Parts)
  <2> HIDE DEF s
  <2>1. n \in Nat
    BY <1>3
  <2> HIDE DEF n
  <2>2. \A i \in 1..n : [k |-> "part", i |-> i, archive |-> b] \in Parts
    BY <2>1 DEF Parts
  <2> QED BY <2>1, <2>2
<1>5. s \in Seq(PlainPieces) /\ parts \in Seq(PlainPieces)
  BY <1>2, <1>4 DEF PlainPieces
<1>6. Contained(b) = IF cpio[b].packed THEN parts ELSE s
  BY DEF Contained, Entries
<1> QED
  BY <1>5, <1>6

LEMMA ExecutableType ==
  ASSUME Typed, NEW b \in Baker
  PROVE  /\ <<Elf>> \o Contained(b) \in Seq(PlainPieces \cup {Elf, Hole})
         /\ trailer[b] # None => Executable(b) \in Seq(AnyPiece)
<1>1. Contained(b) \in Seq(PlainPieces \cup {Elf, Hole})
  BY ContainedType
<1>2. <<Elf>> \in Seq(PlainPieces \cup {Elf, Hole})
  OBVIOUS
<1>3. <<Elf>> \o Contained(b) \in Seq(PlainPieces \cup {Elf, Hole})
  BY <1>1, <1>2, ConcatFacts
<1>4. ASSUME trailer[b] # None PROVE Executable(b) \in Seq(AnyPiece)
  <2>1. <<trailer[b]>> \in Seq(AnyPiece)
    BY <1>4 DEF Typed, AnyPiece
  <2>2. <<Elf>> \o Contained(b) \in Seq(AnyPiece)
    BY <1>3 DEF AnyPiece
  <2> QED BY <2>1, <2>2, ConcatFacts DEF Executable
<1> QED
  BY <1>3, <1>4

\* Whatever is written over a file, its pieces are old ones, new ones or holes.
LEMMA OverwriteType ==
  ASSUME NEW S, NEW pieces \in Seq(S), NEW s \in Seq(S), NEW p \in Nat, Hole \in S
  PROVE  /\ Overwrite(pieces, p, s) \in Seq(S)
         /\ \A i \in 1..Len(Overwrite(pieces, p, s)) :
              \/ Overwrite(pieces, p, s)[i] = Hole
              \/ \E j \in 1..Len(s) : Overwrite(pieces, p, s)[i] = s[j]
              \/ \E j \in 1..Len(pieces) : Overwrite(pieces, p, s)[i] = pieces[j]
<1> DEFINE n == p + Len(s) + Max0(Len(pieces) - p - Len(s))
           At0(i) == IF i > p /\ i <= p + Len(s) THEN s[i - p]
                     ELSE IF i <= Len(pieces) THEN pieces[i] ELSE Hole
           w == [i \in 1..n |-> At0(i)]
<1>1. n \in Nat
  <2>1. Len(pieces) \in Nat /\ Len(s) \in Nat
    OBVIOUS
  <2>2. \A a, c \in Nat : Max0(a - p - c) \in Nat
    BY DEF Max0
  <2>3. Max0(Len(pieces) - p - Len(s)) \in Nat
    BY <2>1, <2>2
  <2> QED BY <2>1, <2>3
<1>2. ASSUME NEW i \in 1..n
      PROVE  \/ At0(i) = Hole
             \/ \E j \in 1..Len(s) : At0(i) = s[j]
             \/ \E j \in 1..Len(pieces) : At0(i) = pieces[j]
  <2>1. CASE i > p /\ i <= p + Len(s)
    <3>1. i - p \in 1..Len(s)
      BY <1>1, <2>1
    <3> QED BY <2>1, <3>1
  <2>2. CASE ~ (i > p /\ i <= p + Len(s)) /\ i <= Len(pieces)
    <3>1. i \in 1..Len(pieces)
      BY <1>1, <2>2
    <3> QED BY <2>2, <3>1
  <2>3. CASE ~ (i > p /\ i <= p + Len(s)) /\ ~ (i <= Len(pieces))
    BY <2>3
  <2> QED BY <2>1, <2>2, <2>3
<1>3. ASSUME NEW i \in 1..n PROVE At0(i) \in S
  <2> HIDE DEF At0, n
  <2> QED BY <1>2, <1>3
<1>4. w \in Seq(S) /\ Len(w) = n /\ \A i \in 1..n : w[i] = At0(i)
  <2> HIDE DEF At0, n
  <2> QED BY <1>1, <1>3
<1>5. Overwrite(pieces, p, s) = w
  BY DEF Overwrite
<1> HIDE DEF w, At0, n
<1> QED
  BY <1>2, <1>4, <1>5

-----------------------------------------------------------------------------
(* Types                                                                   *)

LEMMA InitTyped == Init => Typed
<1> SUFFICES ASSUME Init PROVE Typed
  OBVIOUS
<1>1. release \in Releases /\ opts \in Options /\ touches = 0
  BY DEF Init
<1>2. touches \in 0..MaxTouches /\ Len(Scripts) \in Nat
  BY <1>1, AssemblerAssumption
<1>3. DOMAIN release \subseteq Names /\ \A n \in DOMAIN release : release[n] \in File
  BY <1>1, AssemblerAssumption
<1>4. NoFile \in CpioFile
  BY DEF NoFile, CpioFile
<1> QED
  BY <1>1, <1>2, <1>3, <1>4 DEF Init, Typed, Working

\* The steps of a baker that change no file.
LEMMA ControlTyped ==
  ASSUME Typed, NEW b \in Baker, Configure(b) \/ Stop(b)
  PROVE  Typed'
BY DEF Typed, Configure, Stop, Baking, At, Goto, launchVars, outVars, Working

LEMMA ScriptTyped ==
  ASSUME Typed, NEW b \in Baker, EmptyScript(b) \/ FillScript(b)
  PROVE  Typed'
<1>1. /\ script[b] \in 0..Len(Scripts) /\ script[b] < Len(Scripts) /\ Len(Scripts) \in Nat
      /\ script[b] + 1 \in 1..Len(Scripts)
  BY AssemblerAssumption DEF Typed, EmptyScript, FillScript, Baking, At
<1> DEFINE n == Scripts[script[b] + 1]
<1>2. n \in Names
  BY <1>1, AssemblerAssumption
<1>3. [mode |-> "file", data |-> <<>>] \in File /\ [mode |-> "exec", data |-> <<Script>>] \in File
  <2>1. <<Script>> \in Seq(Unit) /\ <<>> \in Seq(Unit)
    BY DEF Unit
  <2> QED BY <2>1 DEF File, Modes
<1>4. /\ DOMAIN release \subseteq DOMAIN release' /\ DOMAIN release' \subseteq Names
      /\ \A m \in DOMAIN release' : release'[m] \in File
  <2>1. CASE EmptyScript(b)
    <3>1. release' = [m \in DOMAIN release \cup {n} |->
                        IF m = n THEN [mode |-> "file", data |-> <<>>] ELSE release[m]]
      BY <2>1 DEF EmptyScript
    <3> HIDE DEF n
    <3> QED BY <1>2, <1>3, <3>1 DEF Typed
  <2>2. CASE FillScript(b)
    <3>1. release' = [release EXCEPT ![n] = [mode |-> "exec", data |-> <<Script>>]]
      BY <2>2 DEF FillScript
    <3> HIDE DEF n
    <3> QED BY <1>2, <1>3, <3>1 DEF Typed
  <2> QED BY <2>1, <2>2
<1>5. /\ pc' \in [Baker -> Working \cup {"done", "stopped"}]
      /\ script' \in [Baker -> 0..Len(Scripts)]
      /\ \A c \in Baker : pc'[c] = "fill" => script'[c] < Len(Scripts)
  <2>1. CASE EmptyScript(b)
    BY <1>1, <2>1 DEF Typed, EmptyScript, Baking, At, Goto, Working
  <2>2. CASE FillScript(b)
    BY <1>1, <2>2 DEF Typed, FillScript, Baking, At, Goto, Working
  <2> QED BY <2>1, <2>2
<1>6. UNCHANGED <<touches, out, opts, todo, cpio, zst, trailer, written, lpc, seen, got, steady>>
  BY DEF EmptyScript, FillScript, Baking, launchVars, outVars
<1>7. \A c \in Baker : todo'[c] \subseteq DOMAIN release'
  BY <1>4, <1>6 DEF Typed
<1> QED
  BY <1>4, <1>5, <1>6, <1>7 DEF Typed

File3(t, p, es) == [there |-> t, packed |-> p, entries |-> es]

LEMMA File3Updates ==
  \A t, p, es, new :
    /\ [File3(t, p, es) EXCEPT !.there = new] = File3(new, p, es)
    /\ [File3(t, p, es) EXCEPT !.packed = new] = File3(t, new, es)
    /\ [File3(t, p, es) EXCEPT !.entries = new] = File3(t, p, new)
BY DEF File3

\* What the assignments to the archive of b make of its record.
LEMMA CpioUpdates ==
  ASSUME Typed, NEW b \in Baker
  PROVE  /\ cpio[b] = File3(cpio[b].there, cpio[b].packed, Entries(b))
         /\ cpio[b].there \in BOOLEAN /\ cpio[b].packed \in BOOLEAN
         /\ Entries(b) \in Seq(EntryOf(Unit))
         /\ \A t : [cpio EXCEPT ![b].there = t]
                  = [cpio EXCEPT ![b] = File3(t, cpio[b].packed, Entries(b))]
         /\ [cpio EXCEPT ![b].there = TRUE, ![b].packed = TRUE]
              = [cpio EXCEPT ![b] = File3(TRUE, TRUE, Entries(b))]
         /\ \A es : [cpio EXCEPT ![b].entries = es]
                   = [cpio EXCEPT ![b] = File3(cpio[b].there, cpio[b].packed, es)]
<1>1. cpio[b] \in CpioFile /\ cpio \in [Baker -> CpioFile]
  BY DEF Typed
<1>2. cpio[b] = File3(cpio[b].there, cpio[b].packed, cpio[b].entries)
  BY <1>1 DEF CpioFile, File3
<1>3. /\ cpio[b].there \in BOOLEAN /\ cpio[b].packed \in BOOLEAN
      /\ cpio[b].entries \in Seq(EntryOf(Unit))
  BY <1>1 DEF CpioFile
<1>4. /\ \A t : [cpio[b] EXCEPT !.there = t] = File3(t, cpio[b].packed, cpio[b].entries)
      /\ \A es : [cpio[b] EXCEPT !.entries = es] = File3(cpio[b].there, cpio[b].packed, es)
      /\ \A t, p : [[cpio[b] EXCEPT !.there = t] EXCEPT !.packed = p]
                    = File3(t, p, cpio[b].entries)
  <2> DEFINE r == cpio[b]
             t0 == cpio[b].there
             p0 == cpio[b].packed
             e0 == cpio[b].entries
  <2>1. r = File3(t0, p0, e0)
    BY <1>2
  <2> HIDE DEF r, t0, p0, e0
  <2>2. \A t : [r EXCEPT !.there = t] = File3(t, p0, e0)
    BY <2>1, File3Updates
  <2>3. \A es : [r EXCEPT !.entries = es] = File3(t0, p0, es)
    BY <2>1, File3Updates
  <2>4. ASSUME NEW t, NEW p
        PROVE  [[r EXCEPT !.there = t] EXCEPT !.packed = p] = File3(t, p, e0)
    <3>1. [r EXCEPT !.there = t] = File3(t, p0, e0)
      BY <2>2
    <3>2. [File3(t, p0, e0) EXCEPT !.packed = p] = File3(t, p, e0)
      BY DEF File3
    <3> QED BY <3>1, <3>2
  <2> QED BY <2>2, <2>3, <2>4 DEF r, t0, p0, e0
<1>5. \A t : [cpio EXCEPT ![b].there = t]
            = [cpio EXCEPT ![b] = File3(t, cpio[b].packed, cpio[b].entries)]
  BY <1>1, <1>4
<1>6. \A es : [cpio EXCEPT ![b].entries = es]
             = [cpio EXCEPT ![b] = File3(cpio[b].there, cpio[b].packed, es)]
  BY <1>1, <1>4
<1>7. [cpio EXCEPT ![b].there = TRUE, ![b].packed = TRUE]
        = [cpio EXCEPT ![b] = File3(TRUE, TRUE, cpio[b].entries)]
  BY <1>1, <1>4
<1> QED
  BY <1>2, <1>3, <1>5, <1>6, <1>7 DEF Entries

LEMMA File3Type ==
  \A t, p \in BOOLEAN : \A es \in Seq(EntryOf(Unit)) :
    /\ File3(t, p, es) \in CpioFile
    /\ File3(t, p, es).there = t /\ File3(t, p, es).packed = p /\ File3(t, p, es).entries = es
BY DEF File3, CpioFile

\* The steps of a baker that change its temporary files.
LEMMA TmpTyped ==
  ASSUME Typed, NEW b \in Baker, Open(b) \/ Compress(b) \/ Rename(b) \/ Cleanup(b)
  PROVE  Typed'
<1>1. PICK t \in BOOLEAN, p \in BOOLEAN : cpio' = [cpio EXCEPT ![b] = File3(t, p, Entries(b))]
  <2>1. \/ cpio' = cpio
        \/ \E t \in BOOLEAN : cpio' = [cpio EXCEPT ![b].there = t]
        \/ cpio' = [cpio EXCEPT ![b].there = TRUE, ![b].packed = TRUE]
    BY DEF Open, Compress, Rename, Cleanup
  <2>2. CASE cpio' = cpio
    <3>1. cpio = [cpio EXCEPT ![b] = cpio[b]]
      BY DEF Typed
    <3>2. cpio[b] = File3(cpio[b].there, cpio[b].packed, Entries(b))
          /\ cpio[b].there \in BOOLEAN /\ cpio[b].packed \in BOOLEAN
      BY CpioUpdates
    <3> QED BY <2>2, <3>1, <3>2
  <2>3. CASE \E t \in BOOLEAN : cpio' = [cpio EXCEPT ![b].there = t]
    <3>1. PICK t \in BOOLEAN : cpio' = [cpio EXCEPT ![b].there = t]
      BY <2>3
    <3>2. cpio' = [cpio EXCEPT ![b] = File3(t, cpio[b].packed, Entries(b))]
      BY <3>1, CpioUpdates
    <3> QED BY <3>2, CpioUpdates
  <2>4. CASE cpio' = [cpio EXCEPT ![b].there = TRUE, ![b].packed = TRUE]
    BY <2>4, CpioUpdates
  <2> QED BY <2>1, <2>2, <2>3, <2>4
<1>3. cpio' \in [Baker -> CpioFile]
  <2>1. File3(t, p, Entries(b)) \in CpioFile
    BY CpioUpdates, File3Type
  <2> QED BY <1>1, <2>1 DEF Typed
<1>4. /\ pc' \in [Baker -> Working \cup {"done", "stopped"}] /\ zst' \in [Baker -> BOOLEAN]
      /\ \A c \in Baker : pc'[c] = "fill" => pc[c] = "fill"
  BY DEF Typed, Open, Compress, Rename, Cleanup, Baking, At, Goto, Working
<1>5. todo' \in [Baker -> SUBSET Names] /\ \A c \in Baker : todo'[c] \subseteq DOMAIN release
  <2>1. (Range(Order) \cap DOMAIN release) \ Hidden \subseteq DOMAIN release
    OBVIOUS
  <2>2. \/ todo' = todo
        \/ todo' = [todo EXCEPT ![b] = (Range(Order) \cap DOMAIN release) \ Hidden]
    BY DEF Open, Compress, Rename, Cleanup
  <2> DEFINE new == (Range(Order) \cap DOMAIN release) \ Hidden
  <2>3. new \subseteq Names
    BY <2>1 DEF Typed
  <2>4. \/ todo' = todo
        \/ todo' = [todo EXCEPT ![b] = new]
    BY <2>2
  <2>5. new \subseteq DOMAIN release
    BY <2>1
  <2> HIDE DEF new
  <2> QED BY <2>3, <2>4, <2>5 DEF Typed
<1>6. UNCHANGED <<release, touches, out, opts, script, trailer, written, lpc, seen, got, steady>>
  BY DEF Open, Compress, Rename, Cleanup, Baking, launchVars, outVars
<1> QED
  BY <1>3, <1>4, <1>5, <1>6 DEF Typed

\* Appending an entry to the archive of b
LEMMA AppendType ==
  ASSUME Typed, NEW b \in Baker, NEW e \in EntryOf(Unit), AppendEntry(b, e)
  PROVE  /\ cpio' \in [Baker -> CpioFile]
         /\ cpio' = [cpio EXCEPT ![b] = File3(cpio[b].there, cpio[b].packed,
                                             Append(Entries(b), e))]
<1>1. Append(Entries(b), e) = Entries(b) \o <<e>> /\ Append(Entries(b), e) \in Seq(EntryOf(Unit))
  <2>1. Entries(b) \in Seq(EntryOf(Unit))
    BY CpioUpdates
  <2> QED BY <2>1
<1>2. cpio' = [cpio EXCEPT ![b].entries = Append(Entries(b), e)]
  BY <1>1 DEF AppendEntry, Entries
<1>3. cpio' = [cpio EXCEPT ![b] = File3(cpio[b].there, cpio[b].packed, Append(Entries(b), e))]
  BY <1>2, CpioUpdates
<1>4. File3(cpio[b].there, cpio[b].packed, Append(Entries(b), e)) \in CpioFile
  BY <1>1, CpioUpdates, File3Type
<1> QED
  BY <1>3, <1>4 DEF Typed

LEMMA HeadersAreEntries ==
  /\ TrailerEntry \in EntryOf(Unit)
  /\ \A n \in Names : \A f \in File : \A size \in Nat :
       Entry(n, f.mode, size, <<>>) \in EntryOf(Unit)
BY DEF TrailerEntry, Entry, EntryOf, File

LEMMA StatTyped ==
  ASSUME Typed, NEW b \in Baker, Stat(b)
  PROVE  Typed'
<1>1. PICK n \in todo[b] :
        /\ First(n, todo[b])
        /\ todo' = [todo EXCEPT ![b] = @ \ {n}]
        /\ LET f == release[n]
               size == IF f.mode = "dir" THEN 2 ELSE Len(f.data)
           IN IF HeaderFits(size)
                THEN AppendEntry(b, Entry(n, f.mode, size, <<>>)) /\ Goto(b, "contents")
                ELSE Goto(b, "stopped") /\ UNCHANGED cpio
  BY DEF Stat
<1> DEFINE f == release[n]
           size == IF f.mode = "dir" THEN 2 ELSE Len(f.data)
<1>2. n \in DOMAIN release /\ n \in Names /\ f \in File
  BY DEF Typed
<1>3. size \in Nat
  <2>1. f.data \in Seq(Unit)
    BY <1>2 DEF File
  <2> QED BY <2>1
<1>4. Entry(n, f.mode, size, <<>>) \in EntryOf(Unit)
  BY <1>2, <1>3, HeadersAreEntries
<1>5. cpio' \in [Baker -> CpioFile]
  <2> HIDE DEF f, size
  <2> QED BY <1>1, <1>4, AppendType DEF Typed, f, size
<1>6. /\ pc' \in [Baker -> Working \cup {"done", "stopped"}]
      /\ \A c \in Baker : pc'[c] = "fill" => pc[c] = "fill"
  BY <1>1 DEF Typed, Goto, Working
<1>7. todo' \in [Baker -> SUBSET Names] /\ \A c \in Baker : todo'[c] \subseteq todo[c]
  BY <1>1 DEF Typed
<1>8. UNCHANGED <<release, touches, out, opts, script, zst, trailer, written, lpc, seen, got, steady>>
  BY DEF Stat, Baking, launchVars, outVars
<1> QED
  BY <1>5, <1>6, <1>7, <1>8 DEF Typed

LEMMA EndTyped ==
  ASSUME Typed, NEW b \in Baker, EndArchive(b)
  PROVE  Typed'
<1>1. cpio' \in [Baker -> CpioFile]
  BY HeadersAreEntries, AppendType DEF EndArchive
<1>2. /\ pc' \in [Baker -> Working \cup {"done", "stopped"}]
      /\ \A c \in Baker : pc'[c] = "fill" => pc[c] = "fill"
  BY DEF Typed, EndArchive, Goto, Working
<1>3. UNCHANGED <<release, touches, out, opts, script, todo, zst, trailer, written,
                  lpc, seen, got, steady>>
  BY DEF EndArchive, Baking, launchVars, outVars
<1> QED
  BY <1>1, <1>2, <1>3 DEF Typed

\* The contents of the file whose header is the last entry go into that entry.
LEMMA ContentsStep ==
  ASSUME Typed, NEW b \in Baker, Pending(b), Contents(b)
  PROVE  \E d \in Seq(Unit) :
           LET last == Len(Entries(b))
               new == [Entries(b) EXCEPT ![last] = [@ EXCEPT !.data = d]]
           IN /\ Entries(b)[last].mode = "dir" => d = <<>>
              /\ last > 0 /\ new \in Seq(EntryOf(Unit))
              /\ cpio' = [cpio EXCEPT ![b] = File3(cpio[b].there, cpio[b].packed, new)]
<1> DEFINE es == Entries(b)
           last == Len(es)
           e == es[last]
           d == IF e.mode = "dir" THEN <<>> ELSE release[e.name].data
           new == [es EXCEPT ![last] = [@ EXCEPT !.data = d]]
<1>1. last > 0 /\ e.name \in DOMAIN release
  BY DEF Pending, Contents, Baking, At
<1>2. es \in Seq(EntryOf(Unit)) /\ last \in Nat /\ last \in 1..Len(es) /\ e \in EntryOf(Unit)
  <2>1. es \in Seq(EntryOf(Unit))
    BY CpioUpdates
  <2> HIDE DEF es
  <2> QED BY <1>1, <2>1
<1>3. d \in Seq(Unit)
  <2>1. release[e.name] \in File
    BY <1>1 DEF Typed
  <2> QED BY <2>1 DEF File
<1> HIDE DEF d
<1>4. [e EXCEPT !.data = d] \in EntryOf(Unit)
  <2> HIDE DEF e
  <2> QED BY <1>2, <1>3 DEF EntryOf
<1>5. new \in Seq(EntryOf(Unit))
  <2> HIDE DEF es
  <2> QED BY <1>2, <1>4
<1>6. cpio' = [cpio EXCEPT ![b].entries[last].data = d]
  BY DEF Contents, Entries, d
<1>7. [cpio EXCEPT ![b].entries[last].data = d] = [cpio EXCEPT ![b].entries = new]
  BY DEF Entries
<1> HIDE DEF new
<1>8. cpio' = [cpio EXCEPT ![b] = File3(cpio[b].there, cpio[b].packed, new)]
  BY <1>6, <1>7, CpioUpdates
<1> QED
  BY <1>1, <1>3, <1>5, <1>8 DEF d, new

LEMMA ContentsTyped ==
  ASSUME Typed, NEW b \in Baker, Pending(b), Contents(b)
  PROVE  Typed'
<1>1. cpio' \in [Baker -> CpioFile]
  <2>1. PICK new \in Seq(EntryOf(Unit)) :
          cpio' = [cpio EXCEPT ![b] = File3(cpio[b].there, cpio[b].packed, new)]
    BY ContentsStep
  <2>2. File3(cpio[b].there, cpio[b].packed, new) \in CpioFile
    BY CpioUpdates, File3Type
  <2> QED BY <2>1, <2>2 DEF Typed
<1>2. /\ pc' \in [Baker -> Working \cup {"done", "stopped"}]
      /\ \A c \in Baker : pc'[c] = "fill" => pc[c] = "fill"
  BY DEF Typed, Contents, Goto, Working
<1>3. UNCHANGED <<release, touches, out, opts, script, todo, zst, trailer, written,
                  lpc, seen, got, steady>>
  BY DEF Contents, Baking, launchVars, outVars
<1> QED
  BY <1>1, <1>2, <1>3 DEF Typed

\* The trailer that build_trailer returns
LEMMA TrailerStep ==
  ASSUME Typed, NEW b \in Baker, BuildTrailer(b), cpio[b].there
  PROVE  \E t \in Trailers :
           /\ trailer' = [trailer EXCEPT ![b] = t] /\ pc' = [pc EXCEPT ![b] = "cat"]
           /\ t.sha1 = b
           /\ t.compression = "zstd" <=> opts.zstd
<1> DEFINE t == [k |-> "trailer", sha1 |-> b, command |-> opts.command,
                 contents_length |-> Len(Contained(b)) % Word,
                 contents_offset |-> 1 % Word,
                 compression |-> IF opts.zstd THEN "zstd" ELSE "none"]
<1>1. opts.command \in Nat
  BY AssemblerAssumption DEF Typed
<1>2. Len(Contained(b)) % Word \in Nat /\ 1 % Word \in Nat
  <2>1. Contained(b) \in Seq(PlainPieces)
    BY ContainedType
  <2>2. Len(Contained(b)) \in Nat
    BY <2>1
  <2> QED BY <2>2, NamesAssumption
<1>3. t \in Trailers
  BY <1>1, <1>2 DEF Trailers
<1>4. trailer' = [trailer EXCEPT ![b] = t] /\ pc' = [pc EXCEPT ![b] = "cat"]
  BY DEF BuildTrailer, Goto
<1>5. t.sha1 = b /\ (t.compression = "zstd" <=> opts.zstd)
  OBVIOUS
<1> HIDE DEF t
<1> QED
  BY <1>3, <1>4, <1>5

LEMMA TrailerTyped ==
  ASSUME Typed, NEW b \in Baker, BuildTrailer(b)
  PROVE  Typed'
<1>1. /\ trailer' \in [Baker -> Trailers \cup {None}]
      /\ pc' \in [Baker -> Working \cup {"done", "stopped"}]
      /\ \A c \in Baker : pc'[c] = "fill" => pc[c] = "fill"
  <2>1. CASE cpio[b].there
    <3>1. PICK t \in Trailers :
            trailer' = [trailer EXCEPT ![b] = t] /\ pc' = [pc EXCEPT ![b] = "cat"]
      BY <2>1, TrailerStep
    <3> QED BY <3>1 DEF Typed, Working
  <2>2. CASE ~ cpio[b].there
    BY <2>2 DEF Typed, BuildTrailer, Goto, Working
  <2> QED BY <2>1, <2>2
<1>2. UNCHANGED <<release, touches, out, opts, script, todo, cpio, zst, written,
                  lpc, seen, got, steady>>
  BY DEF BuildTrailer, Baking, launchVars, outVars
<1> QED
  BY <1>1, <1>2 DEF Typed

LEMMA SubSeqFacts ==
  ASSUME NEW S, NEW s \in Seq(S), NEW m \in Nat \ {0}, NEW n \in Int, n <= Len(s)
  PROVE  /\ SubSeq(s, m, n) \in Seq(S)
         /\ \A i \in 1..Len(SubSeq(s, m, n)) :
              \E j \in 1..Len(s) : SubSeq(s, m, n)[i] = s[j]
<1>1. CASE n < m
  <2>1. SubSeq(s, m, n) = <<>>
    BY <1>1
  <2> QED BY <2>1
<1>2. CASE n >= m
  <2>1. /\ SubSeq(s, m, n) \in Seq(S) /\ Len(SubSeq(s, m, n)) = n - m + 1
        /\ \A i \in 1..(n - m + 1) : SubSeq(s, m, n)[i] = s[m + i - 1]
    BY <1>2
  <2>2. \A i \in 1..(n - m + 1) : m + i - 1 \in 1..Len(s)
    BY <1>2
  <2> QED BY <2>1, <2>2
<1> QED
  BY <1>1, <1>2

\* What a step of cat puts into the executable
LEMMA WriteStep ==
  ASSUME Typed, OutInv, NEW b \in Baker, Described(b), WriteOutput(b)
  PROVE  /\ out' \in [there : BOOLEAN, runnable : BOOLEAN, pieces : Seq(AnyPiece)]
         /\ written' \in [Baker -> Nat]
         /\ \A i \in 1..Len(out'.pieces) :
              out'.pieces[i].k = "trailer" => Written(out'.pieces[i])
<1> DEFINE whole == Executable(b)
           s == SubSeq(whole, written[b] + 1, Smaller(written[b] + Chunk, Len(whole)))
           new == Overwrite(out.pieces, written[b], s)
<1>1. trailer[b] # None
  BY DEF Described, WriteOutput, Baking, At
<1>2. whole \in Seq(AnyPiece)
  BY <1>1, ExecutableType
<1>3. \A i \in 1..Len(whole) : whole[i].k = "trailer" => whole[i] = trailer[b]
  <2> DEFINE front == <<Elf>> \o Contained(b)
  <2>1. front \in Seq(PlainPieces \cup {Elf, Hole})
    BY ExecutableType
  <2>2. whole = front \o <<trailer[b]>>
    BY DEF Executable
  <2> HIDE DEF front, whole
  <2>3. /\ Len(whole) = Len(front) + 1 /\ Len(front) \in Nat
        /\ whole[Len(front) + 1] = trailer[b]
        /\ \A i \in 1..Len(front) : whole[i] = front[i]
    BY <2>1, <2>2
  <2>4. \A i \in 1..Len(front) : front[i].k # "trailer"
    BY <2>1, PlainIsNoTrailer
  <2> QED BY <2>3, <2>4
<1>4. /\ s \in Seq(AnyPiece)
      /\ \A i \in 1..Len(s) : \E j \in 1..Len(whole) : s[i] = whole[j]
  <2> DEFINE m == written[b] + 1
             n == Smaller(written[b] + Chunk, Len(whole))
  <2>1. m \in Nat \ {0} /\ n \in Int /\ n <= Len(whole)
    <3>1. Len(whole) \in Nat
      <4> HIDE DEF whole
      <4> QED BY <1>2
    <3>2. written[b] \in Nat /\ Chunk \in Nat
      BY AssemblerAssumption DEF Typed
    <3> HIDE DEF whole
    <3> QED BY <3>1, <3>2 DEF Smaller
  <2> HIDE DEF m, n, whole
  <2>2. /\ SubSeq(whole, m, n) \in Seq(AnyPiece)
        /\ \A i \in 1..Len(SubSeq(whole, m, n)) :
             \E j \in 1..Len(whole) : SubSeq(whole, m, n)[i] = whole[j]
    BY <1>2, <2>1, SubSeqFacts
  <2> QED BY <2>2 DEF m, n
<1> HIDE DEF whole
<1>5. \A i \in 1..Len(s) : s[i].k = "trailer" => s[i] = trailer[b]
  <2> HIDE DEF s
  <2> QED BY <1>3, <1>4
<1>6. Len(s) \in Nat /\ out.pieces \in Seq(AnyPiece) /\ written[b] \in Nat /\ Hole \in AnyPiece
  <2> HIDE DEF s
  <2> QED BY <1>4 DEF Typed, AnyPiece
<1>7. \/ /\ out' = [out EXCEPT !.pieces = new]
         /\ written' = [written EXCEPT ![b] = @ + Len(s)]
      \/ UNCHANGED <<out, written>>
  BY DEF WriteOutput, whole, outVars
<1> HIDE DEF s
<1>8. /\ new \in Seq(AnyPiece)
      /\ \A i \in 1..Len(new) :
           \/ new[i] = Hole
           \/ \E j \in 1..Len(s) : new[i] = s[j]
           \/ \E j \in 1..Len(out.pieces) : new[i] = out.pieces[j]
  <2> DEFINE ps == out.pieces
             p == written[b]
  <2>1. s \in Seq(AnyPiece) /\ ps \in Seq(AnyPiece) /\ p \in Nat /\ Hole \in AnyPiece
    BY <1>4, <1>6
  <2> HIDE DEF ps, p
  <2> DEFINE w == Overwrite(ps, p, s)
  <2>2. /\ w \in Seq(AnyPiece)
        /\ \A i \in 1..Len(w) :
             \/ w[i] = Hole
             \/ \E j \in 1..Len(s) : w[i] = s[j]
             \/ \E j \in 1..Len(ps) : w[i] = ps[j]
    BY <2>1, OverwriteType
  <2> QED BY <2>2 DEF ps, p
<1>9. ASSUME NEW i \in 1..Len(new), new[i].k = "trailer" PROVE Written(new[i])
  <2> HIDE DEF new
  <2>1. Hole.k # "trailer"
    BY PlainIsNoTrailer
  <2>2. CASE \E j \in 1..Len(s) : new[i] = s[j]
    BY <1>1, <1>5, <1>9, <2>2 DEF Written
  <2>3. CASE \E j \in 1..Len(out.pieces) : new[i] = out.pieces[j]
    BY <1>9, <2>3 DEF OutInv
  <2> QED BY <1>8, <1>9, <2>1, <2>2, <2>3
<1> HIDE DEF new
<1>10. CASE out' = [out EXCEPT !.pieces = new] /\ written' = [written EXCEPT ![b] = @ + Len(s)]
  <2>1. out'.pieces = new /\ out' \in [there : BOOLEAN, runnable : BOOLEAN, pieces : Seq(AnyPiece)]
    BY <1>8, <1>10 DEF Typed
  <2>2. written' \in [Baker -> Nat]
    BY <1>6, <1>10 DEF Typed
  <2> QED BY <1>9, <2>1, <2>2
<1>11. CASE UNCHANGED <<out, written>>
  BY <1>11 DEF Typed, OutInv
<1> QED
  BY <1>7, <1>10, <1>11

LEMMA OutputTyped ==
  ASSUME Typed, OutInv, NEW b \in Baker, Described(b),
         OpenOutput(b) \/ WriteOutput(b) \/ Chmod(b)
  PROVE  /\ Typed'
         /\ \A i \in 1..Len(out'.pieces) :
              out'.pieces[i].k = "trailer" => Written(out'.pieces[i])
<1>1. /\ out' \in [there : BOOLEAN, runnable : BOOLEAN, pieces : Seq(AnyPiece)]
      /\ written' \in [Baker -> Nat]
      /\ \A i \in 1..Len(out'.pieces) :
           out'.pieces[i].k = "trailer" => Written(out'.pieces[i])
  <2>1. CASE OpenOutput(b)
    <3>1. out' = [out EXCEPT !.there = TRUE, !.pieces = <<>>] \/ out' = out
      BY <2>1 DEF OpenOutput, outVars
    <3>2. out' \in [there : BOOLEAN, runnable : BOOLEAN, pieces : Seq(AnyPiece)]
          /\ (out'.pieces = <<>> \/ out' = out)
      <4>1. CASE out' = [out EXCEPT !.there = TRUE, !.pieces = <<>>]
        <5> DEFINE none == <<>>
        <5>1. none \in Seq(AnyPiece)
          OBVIOUS
        <5>2. out' = [out EXCEPT !.there = TRUE, !.pieces = none]
          BY <4>1
        <5> HIDE DEF none
        <5>3. out'.pieces = none /\ out' \in [there : BOOLEAN, runnable : BOOLEAN, pieces : Seq(AnyPiece)]
          BY <5>1, <5>2 DEF Typed
        <5> QED BY <5>3 DEF none
      <4>2. CASE out' = out
        BY <4>2 DEF Typed
      <4> QED BY <3>1, <4>1, <4>2
    <3>3. UNCHANGED written
      BY <2>1 DEF OpenOutput
    <3> QED BY <3>2, <3>3 DEF Typed, OutInv
  <2>2. CASE WriteOutput(b)
    BY <2>2, WriteStep
  <2>3. CASE Chmod(b)
    <3> DEFINE ps == out.pieces
    <3>1. out'.pieces = ps /\ UNCHANGED written
          /\ out' \in [there : BOOLEAN, runnable : BOOLEAN, pieces : Seq(AnyPiece)]
      BY <2>3 DEF Chmod, Typed
    <3>2. out'.pieces = out.pieces
      BY <3>1
    <3> QED BY <3>1, <3>2 DEF Typed, OutInv
  <2> QED BY <2>1, <2>2, <2>3
<1>2. /\ pc' \in [Baker -> Working \cup {"done", "stopped"}]
      /\ \A c \in Baker : pc'[c] = "fill" => pc[c] = "fill"
  BY DEF Typed, OpenOutput, WriteOutput, Chmod, Goto, Working
<1>3. UNCHANGED <<release, touches, opts, script, todo, cpio, zst, trailer, lpc, seen, got>>
      /\ steady' \subseteq Launch
  BY DEF Typed, OpenOutput, WriteOutput, Chmod, Baking, launchVars, outVars
<1> QED
  BY <1>1, <1>2, <1>3 DEF Typed

LEMMA TouchTyped ==
  ASSUME Typed, Touch
  PROVE  Typed' /\ DOMAIN release' = DOMAIN release
<1>1. PICK n \in DOMAIN release \ Range(Scripts) :
        LET old == release[n].data IN
        \E new \in {old \o <<[k |-> "data"]>>, SubSeq(old, 1, Len(old) - 1), <<>>} :
          release' = [release EXCEPT ![n].data = new]
  BY DEF Touch
<1>9. PICK new \in {release[n].data \o <<[k |-> "data"]>>,
                    SubSeq(release[n].data, 1, Len(release[n].data) - 1), <<>>} :
        release' = [release EXCEPT ![n].data = new]
  BY <1>1
<1>2. release[n] \in File /\ release[n].data \in Seq(Unit) /\ n \in Names
  BY DEF Typed, File
<1>3. new \in Seq(Unit)
  <2> DEFINE old == release[n].data
  <2>1. old \in Seq(Unit) /\ Len(old) \in Nat
    BY <1>2
  <2>2. new \in {old \o <<[k |-> "data"]>>, SubSeq(old, 1, Len(old) - 1), <<>>}
    BY <1>9
  <2> HIDE DEF old
  <2>3. <<[k |-> "data"]>> \in Seq(Unit)
    BY DEF Unit
  <2>4. old \o <<[k |-> "data"]>> \in Seq(Unit)
    BY <2>1, <2>3, ConcatFacts
  <2>5. SubSeq(old, 1, Len(old) - 1) \in Seq(Unit)
    <3>1. Len(old) - 1 \in Int /\ Len(old) - 1 <= Len(old) /\ 1 \in Nat \ {0}
      BY <2>1
    <3> QED BY <2>1, <3>1, SubSeqFacts
  <2> DEFINE longer == old \o <<[k |-> "data"]>>
             shorter == SubSeq(old, 1, Len(old) - 1)
             none == <<>>
  <2>6. none \in Seq(Unit)
    OBVIOUS
  <2>7. new = longer \/ new = shorter \/ new = none
    BY <2>2
  <2>8. longer \in Seq(Unit) /\ shorter \in Seq(Unit)
    BY <2>4, <2>5
  <2> HIDE DEF longer, shorter, none
  <2> QED BY <2>6, <2>7, <2>8
<1>4. [release[n] EXCEPT !.data = new] \in File
  BY <1>2, <1>3 DEF File
<1>5. release' = [release EXCEPT ![n] = [release[n] EXCEPT !.data = new]]
  BY <1>9
<1>6. DOMAIN release' = DOMAIN release /\ \A m \in DOMAIN release' : release'[m] \in File
  BY <1>4, <1>5 DEF Typed
<1>7. touches' \in 0..MaxTouches
  BY AssemblerAssumption DEF Typed, Touch
<1>8. UNCHANGED <<out, opts, pc, script, todo, cpio, zst, trailer, written,
                  lpc, seen, got, steady>>
  BY DEF Touch, bakerVars, launchVars, outVars
<1> QED
  BY <1>6, <1>7, <1>8 DEF Typed

-----------------------------------------------------------------------------
(* A launch                                                                *)

LEMMA ReadTrailerStep ==
  ASSUME Typed, OutInv, NEW l \in Launch, ReadTrailer(l)
  PROVE  /\ Typed'
         /\ \A m \in Launch : \/ lpc'[m] = lpc[m] /\ seen'[m] = seen[m]
                              \/ lpc'[m] = "refused"
                              \/ lpc'[m] = "read" /\ Written(seen'[m])
<1> DEFINE t == out.pieces[Len(out.pieces)]
<1>1. out.pieces \in Seq(AnyPiece) /\ out.pieces # <<>>
  BY DEF Typed, ReadTrailer
<1>2. Len(out.pieces) \in 1..Len(out.pieces) /\ t \in AnyPiece
  <2> DEFINE ps == out.pieces
  <2>1. ps \in Seq(AnyPiece) /\ ps # <<>>
    BY <1>1
  <2> HIDE DEF ps
  <2>2. Len(ps) \in 1..Len(ps)
    BY <2>1
  <2>3. ps[Len(ps)] \in AnyPiece
    BY <2>1, <2>2
  <2> QED BY <2>2, <2>3 DEF ps
<1>3. t.k = "trailer" => t \in Trailers /\ Written(t)
  BY <1>2, PlainIsNoTrailer DEF AnyPiece, OutInv
<1>4. \/ /\ t.k = "trailer"
         /\ seen' = [seen EXCEPT ![l] = t] /\ lpc' = [lpc EXCEPT ![l] = "read"]
      \/ lpc' = [lpc EXCEPT ![l] = "refused"] /\ seen' = seen
  BY DEF ReadTrailer
<1>5. steady' \subseteq Launch
  BY DEF ReadTrailer, Typed
<1>6. UNCHANGED <<release, touches, out, opts, pc, script, todo, cpio, zst, trailer, written, got>>
  BY DEF ReadTrailer, bakerVars
<1> HIDE DEF t
<1>7. /\ lpc' \in [Launch -> {"idle", "read", "accepted", "refused"}]
      /\ seen' \in [Launch -> Trailers \cup {None}]
      /\ \A m \in Launch : \/ lpc'[m] = lpc[m] /\ seen'[m] = seen[m]
                           \/ lpc'[m] = "refused"
                           \/ lpc'[m] = "read" /\ Written(seen'[m])
  <2>1. CASE lpc' = [lpc EXCEPT ![l] = "refused"] /\ seen' = seen
    BY <2>1 DEF Typed
  <2>2. CASE /\ t.k = "trailer"
             /\ seen' = [seen EXCEPT ![l] = t] /\ lpc' = [lpc EXCEPT ![l] = "read"]
    <3>1. /\ lpc' \in [Launch -> {"idle", "read", "accepted", "refused"}]
          /\ seen' \in [Launch -> Trailers \cup {None}]
          /\ lpc'[l] = "read" /\ seen'[l] = t
          /\ \A m \in Launch \ {l} : lpc'[m] = lpc[m] /\ seen'[m] = seen[m]
      BY <1>3, <2>2 DEF Typed
    <3> QED BY <1>3, <2>2, <3>1
  <2> QED BY <1>4, <2>1, <2>2
<1> QED
  BY <1>5, <1>6, <1>7 DEF Typed

LEMMA ReadTyped ==
  ASSUME Typed, LaunchInv, NEW l \in Launch, Read(l)
  PROVE  Typed'
<1>1. seen[l] \in Trailers
  <2>1. Written(seen[l])
    BY DEF LaunchInv, Read
  <2>2. seen[l] # None
    BY <2>1 DEF Written
  <2> QED BY <2>2 DEF Typed
<1> DEFINE left == IF seen[l].compression = "zstd" THEN seen[l].contents_length - Len(got[l]) ELSE 1
           start == seen[l].contents_offset + Len(got[l])
           m == start + 1
           n == Smaller(start + Smaller(Chunk, left), Len(out.pieces))
<1>2. got[l] \in Seq(AnyPiece) /\ out.pieces \in Seq(AnyPiece)
  BY DEF Typed
<1>3. Len(got[l]) \in Nat /\ Len(out.pieces) \in Nat
  BY <1>2
<1>4. seen[l].contents_offset \in Nat /\ seen[l].contents_length \in Nat
  BY <1>1 DEF Trailers
<1>5. left \in Int /\ start \in Nat
  BY <1>3, <1>4
<1>6. m \in Nat \ {0} /\ n \in Int /\ n <= Len(out.pieces)
  <2> HIDE DEF left, start
  <2> QED BY <1>3, <1>5, AssemblerAssumption DEF Smaller
<1>7. Wanted(l) = SubSeq(out.pieces, m, n)
  BY DEF Wanted
<1> HIDE DEF m, n, left, start
<1>8. Wanted(l) \in Seq(AnyPiece)
  <2> DEFINE ps == out.pieces
  <2>1. ps \in Seq(AnyPiece) /\ n <= Len(ps)
    BY <1>2, <1>6
  <2>2. Wanted(l) = SubSeq(ps, m, n)
    BY <1>7
  <2> HIDE DEF ps
  <2>3. SubSeq(ps, m, n) \in Seq(AnyPiece)
    BY <1>6, <2>1, SubSeqFacts
  <2> QED BY <2>2, <2>3
<1>9. got[l] \o Wanted(l) \in Seq(AnyPiece)
  BY <1>2, <1>8, ConcatFacts
<1>10. got' = [got EXCEPT ![l] = got[l] \o Wanted(l)]
  BY DEF Read
<1>11. UNCHANGED <<release, touches, out, opts, pc, script, todo, cpio, zst, trailer, written,
                   lpc, seen, steady>>
  BY DEF Read, bakerVars, outVars
<1> QED
  BY <1>9, <1>10, <1>11 DEF Typed

-----------------------------------------------------------------------------
(* Bakers                                                                  *)

BakerOk(b) == Pending(b) /\ Growing(b) /\ Finished(b) /\ Described(b)

\* Once a baker has its trailer it keeps it, and the archive that it describes.
Frozen(b) ==
  trailer[b] # None =>
    /\ trailer'[b] = trailer[b]
    /\ Entries(b)' = Entries(b) /\ cpio'[b].packed = cpio[b].packed

LEMMA CpioBecomes ==
  ASSUME Typed, NEW b \in Baker, NEW t \in BOOLEAN, NEW p \in BOOLEAN,
         NEW es \in Seq(EntryOf(Unit)), cpio' = [cpio EXCEPT ![b] = File3(t, p, es)]
  PROVE  /\ cpio'[b].there = t /\ cpio'[b].packed = p /\ Entries(b)' = es
         /\ \A c \in Baker \ {b} : cpio'[c] = cpio[c]
<1> DEFINE f == File3(t, p, es)
<1>1. f.there = t /\ f.packed = p /\ f.entries = es
  BY File3Type
<1> HIDE DEF f
<1>2. cpio'[b] = f /\ \A c \in Baker \ {b} : cpio'[c] = cpio[c]
  BY DEF Typed, f
<1> QED
  BY <1>1, <1>2 DEF Entries

\* A step of a baker leaves the others their temporary files and their place.
LEMMA BakeOthers ==
  ASSUME Typed, NEW b \in Baker, BakerOk(b), Bake(b), NEW c \in Baker \ {b}
  PROVE  pc'[c] = pc[c] /\ todo'[c] = todo[c] /\ cpio'[c] = cpio[c] /\ trailer'[c] = trailer[c]
<1>1. pc'[c] = pc[c]
  <2>1. \/ pc' = pc
        \/ \E m \in Working \cup {"done", "stopped"} : pc' = [pc EXCEPT ![b] = m]
    BY DEF Bake, Configure, EmptyScript, FillScript, Open, Stat, Contents, EndArchive, Compress,
           Rename, BuildTrailer, OpenOutput, WriteOutput, Chmod, Cleanup, Stop, Goto, Working
  <2> QED BY <2>1 DEF Typed
<1>2. todo'[c] = todo[c]
  <2>1. \/ todo' = todo
        \/ \E m : todo' = [todo EXCEPT ![b] = m]
    BY DEF Bake, Configure, EmptyScript, FillScript, Open, Stat, Contents, EndArchive, Compress,
           Rename, BuildTrailer, OpenOutput, WriteOutput, Chmod, Cleanup, Stop
  <2> QED BY <2>1 DEF Typed
<1>3. trailer'[c] = trailer[c]
  <2>1. \/ trailer' = trailer
        \/ \E m : trailer' = [trailer EXCEPT ![b] = m]
    BY DEF Bake, Configure, EmptyScript, FillScript, Open, Stat, Contents, EndArchive, Compress,
           Rename, BuildTrailer, OpenOutput, WriteOutput, Chmod, Cleanup, Stop
  <2> QED BY <2>1 DEF Typed
<1>4. cpio'[c] = cpio[c]
  <2>1. \/ cpio' = cpio
        \/ \E t : cpio' = [cpio EXCEPT ![b].there = t]
        \/ cpio' = [cpio EXCEPT ![b].there = TRUE, ![b].packed = TRUE]
        \/ \E es : cpio' = [cpio EXCEPT ![b].entries = es]
        \/ Contents(b)
    BY DEF Bake, Configure, EmptyScript, FillScript, Open, Stat, EndArchive, Compress,
           Rename, BuildTrailer, OpenOutput, WriteOutput, Chmod, Cleanup, Stop, AppendEntry
  <2>2. CASE Contents(b)
    <3>1. \E f : cpio' = [cpio EXCEPT ![b] = f]
      BY <2>2, ContentsStep DEF BakerOk
    <3> QED BY <3>1 DEF Typed
  <2> QED BY <2>1, <2>2 DEF Typed
<1> QED
  BY <1>1, <1>2, <1>3, <1>4

\* Neither do the steps that shape the release take a path away from it.
LEMMA BakeRelease ==
  ASSUME Typed, NEW b \in Baker, Bake(b)
  PROVE  DOMAIN release \subseteq DOMAIN release' /\ opts' = opts
<1>1. opts' = opts
  BY DEF Bake, Configure, EmptyScript, FillScript, Open, Stat, Contents, EndArchive, Compress,
         Rename, BuildTrailer, OpenOutput, WriteOutput, Chmod, Cleanup, Stop, Baking
<1>2. \/ release' = release
      \/ EmptyScript(b)
      \/ \E n, f : release' = [release EXCEPT ![n] = f]
  BY DEF Bake, Configure, FillScript, Open, Stat, Contents, EndArchive, Compress,
         Rename, BuildTrailer, OpenOutput, WriteOutput, Chmod, Cleanup, Stop
<1>3. CASE EmptyScript(b)
  <2> DEFINE n == Scripts[script[b] + 1]
  <2>1. release' = [m \in DOMAIN release \cup {n} |->
                      IF m = n THEN [mode |-> "file", data |-> <<>>] ELSE release[m]]
    BY <1>3 DEF EmptyScript
  <2> HIDE DEF n
  <2> QED BY <1>1, <2>1
<1> QED
  BY <1>1, <1>2, <1>3

\* Nothing that another baker does, and nothing done to the contents of the release,
\* disturbs what is known of a baker.
LEMMA OkStays ==
  ASSUME NEW c \in Baker, BakerOk(c),
         pc'[c] = pc[c], todo'[c] = todo[c], cpio'[c] = cpio[c], trailer'[c] = trailer[c],
         opts' = opts, DOMAIN release \subseteq DOMAIN release'
  PROVE  BakerOk(c)' /\ Frozen(c)
<1>1. Entries(c)' = Entries(c) /\ cpio'[c].packed = cpio[c].packed
      /\ cpio'[c].there = cpio[c].there
  BY DEF Entries
<1>2. Pending(c)' /\ Growing(c)'
  BY <1>1 DEF BakerOk, Pending, Growing
<1>3. Finished(c)' /\ Described(c)'
  BY <1>1 DEF BakerOk, Finished, Described
<1> QED
  BY <1>1, <1>2, <1>3 DEF BakerOk, Frozen

\* The steps of a baker that leave its archive as it is.
LEMMA PlainOk ==
  ASSUME Typed, NEW b \in Baker, BakerOk(b),
         \/ Configure(b) \/ EmptyScript(b) \/ FillScript(b) \/ Stop(b)
         \/ OpenOutput(b) \/ WriteOutput(b) \/ Chmod(b)
  PROVE  BakerOk(b)' /\ Frozen(b)
<1>1. UNCHANGED <<opts, todo, cpio, trailer>> /\ Entries(b)' = Entries(b)
  BY DEF Configure, EmptyScript, FillScript, Stop, OpenOutput, WriteOutput, Chmod, Baking, Entries
<1>2. \/ pc[b] \in {"configure", "script", "fill"} /\ pc'[b] \in {"script", "fill", "stopped"}
      \/ pc'[b] = "stopped"
      \/ pc[b] = "cat" /\ pc'[b] \in {"write", "chmod"}
      \/ pc[b] = "write" /\ pc'[b] \in {"write", "chmod"}
      \/ pc[b] = "chmod" /\ pc'[b] = "cleanup"
  BY DEF Typed, Configure, EmptyScript, FillScript, Stop, OpenOutput, WriteOutput, Chmod,
         Baking, At, Goto
<1>3. Pending(b)' /\ Growing(b)'
  BY <1>1, <1>2 DEF BakerOk, Pending, Growing
<1>4. Finished(b)' /\ Described(b)'
  BY <1>1, <1>2 DEF BakerOk, Finished, Described
<1> QED
  BY <1>1, <1>3, <1>4 DEF BakerOk, Frozen

LEMMA OpenOk ==
  ASSUME Typed, NEW b \in Baker, BakerOk(b), Open(b)
  PROVE  BakerOk(b)' /\ Frozen(b)
<1>1. cpio' = [cpio EXCEPT ![b] = File3(TRUE, cpio[b].packed, Entries(b))]
  BY CpioUpdates DEF Open
<1>2. Entries(b)' = Entries(b) /\ cpio'[b].packed = cpio[b].packed
  BY <1>1, CpioUpdates, CpioBecomes
<1>3. pc[b] = "script" /\ pc'[b] = "stat" /\ UNCHANGED <<trailer, opts>>
  BY DEF Typed, Open, Baking, At, Goto
<1>4. Entries(b)' = <<>>
  BY <1>2, <1>3 DEF BakerOk, Growing
<1>5. Regular(<<>>, Unit)
  BY DEF Regular
<1>6. Pending(b)' /\ Growing(b)'
  BY <1>3, <1>4, <1>5 DEF Pending, Growing
<1>7. Finished(b)' /\ Described(b)'
  BY <1>2, <1>3 DEF BakerOk, Finished, Described
<1> QED
  BY <1>2, <1>3, <1>6, <1>7 DEF BakerOk, Frozen

LEMMA CompressOk ==
  ASSUME Typed, NEW b \in Baker, BakerOk(b), Compress(b) \/ Rename(b) \/ Cleanup(b)
  PROVE  BakerOk(b)' /\ Frozen(b)
<1>1. UNCHANGED <<trailer, opts, todo>>
  BY DEF Compress, Rename, Cleanup, Baking
<1>2. CASE Compress(b) /\ opts.zstd
  <2>1. cpio' = [cpio EXCEPT ![b] = File3(FALSE, cpio[b].packed, Entries(b))]
    BY <1>2, CpioUpdates DEF Compress
  <2>2. Entries(b)' = Entries(b) /\ cpio'[b].packed = cpio[b].packed /\ cpio'[b].there = FALSE
    BY <2>1, CpioUpdates, CpioBecomes
  <2>3. pc[b] = "compress" /\ pc'[b] = "rename"
    BY <1>2 DEF Typed, Compress, Baking, At, Goto
  <2> QED BY <1>1, <1>2, <2>2, <2>3 DEF BakerOk, Frozen, Pending, Growing, Finished, Described
<1>3. CASE Compress(b) /\ ~ opts.zstd
  <2>1. pc[b] = "compress" /\ pc'[b] = "trailer" /\ cpio' = cpio
    BY <1>3 DEF Typed, Compress, Baking, At, Goto
  <2>2. Entries(b)' = Entries(b)
    BY <2>1 DEF Entries
  <2> QED BY <1>1, <1>3, <2>1, <2>2 DEF BakerOk, Frozen, Pending, Growing, Finished, Described
<1>4. CASE Rename(b)
  <2>1. pc[b] = "rename" /\ pc'[b] = "trailer"
    BY <1>4 DEF Typed, Rename, Baking, At, Goto
  <2>2. \/ cpio' = [cpio EXCEPT ![b].there = TRUE, ![b].packed = TRUE]
        \/ cpio' = cpio
    BY <1>4 DEF Rename
  <2>3. CASE cpio' = [cpio EXCEPT ![b].there = TRUE, ![b].packed = TRUE]
    <3>1. cpio' = [cpio EXCEPT ![b] = File3(TRUE, TRUE, Entries(b))]
      BY <2>3, CpioUpdates
    <3>2. Entries(b)' = Entries(b) /\ cpio'[b].packed = TRUE /\ cpio'[b].there = TRUE
      BY <3>1, CpioUpdates, CpioBecomes
    <3> QED BY <1>1, <2>1, <3>2 DEF BakerOk, Frozen, Pending, Growing, Finished, Described
  <2>4. CASE cpio' = cpio
    <3>1. Entries(b)' = Entries(b)
      BY <2>4 DEF Entries
    <3> QED BY <1>1, <2>1, <2>4, <3>1 DEF BakerOk, Frozen, Pending, Growing, Finished, Described
  <2> QED BY <2>2, <2>3, <2>4
<1>5. CASE Cleanup(b)
  <2>1. cpio' = [cpio EXCEPT ![b] = File3(FALSE, cpio[b].packed, Entries(b))]
    BY <1>5, CpioUpdates DEF Cleanup
  <2>2. Entries(b)' = Entries(b) /\ cpio'[b].packed = cpio[b].packed
    BY <2>1, CpioUpdates, CpioBecomes
  <2>3. pc[b] = "cleanup" /\ pc'[b] = "done"
    BY <1>5 DEF Typed, Cleanup, Baking, At, Goto
  <2> QED BY <1>1, <2>2, <2>3 DEF BakerOk, Frozen, Pending, Growing, Finished, Described
<1> QED
  BY <1>2, <1>3, <1>4, <1>5

LEMMA BuildTrailerOk ==
  ASSUME Typed, NEW b \in Baker, BakerOk(b), BuildTrailer(b)
  PROVE  BakerOk(b)' /\ Frozen(b)
<1>1. pc[b] = "trailer" /\ UNCHANGED <<opts, cpio, todo>> /\ Entries(b)' = Entries(b)
  BY DEF BuildTrailer, Baking, At, Entries
<1>2. trailer[b] = None /\ Whole(Entries(b))
  BY <1>1 DEF BakerOk, Described, Finished
<1>3. CASE cpio[b].there
  <2>1. PICK t \in Trailers :
          /\ trailer' = [trailer EXCEPT ![b] = t] /\ pc' = [pc EXCEPT ![b] = "cat"]
          /\ t.sha1 = b
          /\ t.compression = "zstd" <=> opts.zstd
    BY <1>3, TrailerStep
  <2>2. trailer'[b] = t /\ pc'[b] = "cat"
    BY <2>1 DEF Typed
  <2>3. t.compression = "zstd" <=> cpio[b].packed
    BY <1>1, <1>3, <2>1 DEF BakerOk, Finished
  <2>4. t # None
    BY AssemblerAssumption
  <2>5. Pending(b)' /\ Growing(b)' /\ Finished(b)'
    BY <1>1, <1>2, <2>2 DEF Pending, Growing, Finished
  <2>6. Described(b)'
    BY <1>1, <1>3, <2>1, <2>2, <2>3, <2>4 DEF Described
  <2> QED BY <1>2, <2>5, <2>6 DEF BakerOk, Frozen
<1>4. CASE ~ cpio[b].there
  <2>1. pc'[b] = "stopped" /\ trailer' = trailer
    BY <1>4 DEF Typed, BuildTrailer, Goto
  <2> QED BY <1>1, <1>2, <2>1 DEF BakerOk, Frozen, Pending, Growing, Finished, Described
<1> QED
  BY <1>3, <1>4

LEMMA AppendRegular ==
  ASSUME NEW es, Regular(es, Unit), NEW e \in EntryOf(Unit),
         e.name \in Names, e.mode \in Modes, e.data = <<>>,
         \A i \in 1..Len(es) : es[i].name # e.name
  PROVE  Regular(Append(es, e), Unit)
<1> DEFINE all == Append(es, e)
           N == Len(es)
<1>1. es \in Seq(EntryOf(Unit)) /\ N \in Nat
  BY DEF Regular
<1>2. /\ all \in Seq(EntryOf(Unit)) /\ Len(all) = N + 1 /\ all[N + 1] = e
      /\ \A i \in 1..N : all[i] = es[i]
  BY <1>1
<1>3. ASSUME NEW i \in 1..(N + 1)
      PROVE  /\ all[i].name \in Names /\ all[i].mode \in Modes
             /\ all[i].mode = "dir" => all[i].data = <<>>
  <2> HIDE DEF all
  <2>1. CASE i = N + 1
    BY <1>2, <2>1
  <2>2. CASE i # N + 1
    <3>1. i \in 1..N
      <4> HIDE DEF N
      <4> QED BY <1>1, <2>2
    <3> QED BY <1>2, <3>1 DEF Regular
  <2> QED BY <2>1, <2>2
<1>4. ASSUME NEW i \in 1..(N + 1), NEW j \in 1..(N + 1), all[i].name = all[j].name
      PROVE  i = j
  <2> HIDE DEF all
  <2>1. (i \in 1..N \/ i = N + 1) /\ (j \in 1..N \/ j = N + 1)
    <3> HIDE DEF N
    <3> QED BY <1>1
  <2>2. CASE i \in 1..N /\ j \in 1..N
    BY <1>2, <1>4, <2>2 DEF Regular
  <2>3. CASE i \in 1..N /\ j = N + 1
    BY <1>2, <1>4, <2>3
  <2>4. CASE i = N + 1 /\ j \in 1..N
    BY <1>2, <1>4, <2>4
  <2> QED BY <2>1, <2>2, <2>3, <2>4
<1> HIDE DEF all, N
<1> QED
  BY <1>2, <1>3, <1>4 DEF Regular, all, N

LEMMA StatOk ==
  ASSUME Typed, NEW b \in Baker, BakerOk(b), Stat(b)
  PROVE  BakerOk(b)' /\ Frozen(b)
<1>1. pc[b] = "stat" /\ UNCHANGED <<opts, trailer, release>>
  BY DEF Stat, Baking, At
<1>2. trailer[b] = None /\ Regular(Entries(b), Unit) /\ ~ cpio[b].packed
  BY <1>1 DEF BakerOk, Described, Growing, Finished
<1>3. PICK n \in todo[b] :
        /\ First(n, todo[b])
        /\ todo' = [todo EXCEPT ![b] = @ \ {n}]
        /\ LET f == release[n]
               size == IF f.mode = "dir" THEN 2 ELSE Len(f.data)
           IN IF HeaderFits(size)
                THEN AppendEntry(b, Entry(n, f.mode, size, <<>>)) /\ Goto(b, "contents")
                ELSE Goto(b, "stopped") /\ UNCHANGED cpio
  BY DEF Stat
<1> DEFINE f == release[n]
           size == IF f.mode = "dir" THEN 2 ELSE Len(f.data)
           e == Entry(n, f.mode, size, <<>>)
           es == Entries(b)
<1>4. n \in DOMAIN release /\ n \in Names /\ f \in File
  BY DEF Typed
<1>5. e \in EntryOf(Unit)
  <2>1. f.data \in Seq(Unit)
    BY <1>4 DEF File
  <2>2. size \in Nat
    BY <2>1
  <2> HIDE DEF size, f
  <2> QED BY <1>4, <2>2, HeadersAreEntries
<1>6. e.name = n /\ e.mode \in Modes /\ e.data = <<>>
  BY <1>4 DEF Entry, File
<1>7. todo'[b] = todo[b] \ {n}
  BY <1>3 DEF Typed
<1>8. CASE pc'[b] = "stopped" /\ cpio' = cpio
  <2>1. Entries(b)' = Entries(b)
    BY <1>8 DEF Entries
  <2> QED BY <1>1, <1>2, <1>8, <2>1 DEF BakerOk, Frozen, Pending, Growing, Finished, Described
<1>9. CASE AppendEntry(b, e) /\ pc'[b] = "contents"
  <2> HIDE DEF e
  <2>1. cpio' = [cpio EXCEPT ![b] = File3(cpio[b].there, cpio[b].packed, Append(es, e))]
    BY <1>5, <1>9, AppendType
  <2>2. Append(es, e) \in Seq(EntryOf(Unit)) /\ es \in Seq(EntryOf(Unit))
    BY <1>2, <1>5 DEF Regular
  <2>3. Entries(b)' = Append(es, e) /\ cpio'[b].packed = cpio[b].packed
    BY <2>1, <2>2, CpioUpdates, CpioBecomes
  <2>4. \A i \in 1..Len(es) : es[i].name \notin todo[b]
    BY <1>1 DEF BakerOk, Growing
  <2>5. Regular(Append(es, e), Unit)
    <3>1. \A i \in 1..Len(es) : es[i].name # e.name
      BY <1>6, <2>4
    <3> HIDE DEF es
    <3> QED BY <1>2, <1>4, <1>5, <1>6, <3>1, AppendRegular DEF es
  <2>6. \A i \in 1..Len(Append(es, e)) : Append(es, e)[i].name \notin todo'[b]
    <3> DEFINE all == Append(es, e)
               N == Len(es)
    <3>1. /\ N \in Nat /\ Len(all) = N + 1 /\ all[N + 1] = e
          /\ \A i \in 1..N : all[i] = es[i]
      BY <2>2
    <3> HIDE DEF all
    <3>2. ASSUME NEW i \in 1..(N + 1) PROVE all[i].name \notin todo'[b]
      <4>1. i \in 1..N \/ i = N + 1
        <5> HIDE DEF N
        <5> QED BY <3>1
      <4> QED BY <1>6, <1>7, <2>4, <3>1, <4>1
    <3> QED BY <3>1, <3>2 DEF all
  <2>7. LET last == Len(Append(es, e)) IN
        last > 0 /\ Append(es, e)[last].name \in DOMAIN release
        /\ Append(es, e)[last].data = <<>>
    <3>1. /\ Len(es) \in Nat /\ Len(Append(es, e)) = Len(es) + 1
          /\ Append(es, e)[Len(es) + 1] = e
      BY <2>2
    <3> QED BY <1>4, <1>6, <3>1
  <2>8. Pending(b)'
    BY <1>1, <2>3, <2>7 DEF Pending
  <2>9. Growing(b)'
    BY <1>9, <2>3, <2>5, <2>6 DEF Growing
  <2>10. Finished(b)' /\ Described(b)'
    BY <1>1, <1>2, <1>9, <2>3 DEF Finished, Described
  <2> QED BY <1>2, <2>8, <2>9, <2>10 DEF BakerOk, Frozen
<1>10. \/ pc'[b] = "stopped" /\ cpio' = cpio
       \/ AppendEntry(b, e) /\ pc'[b] = "contents"
  BY <1>3 DEF Typed, Goto
<1> QED
  BY <1>8, <1>9, <1>10

LEMMA ContentsOk ==
  ASSUME Typed, NEW b \in Baker, BakerOk(b), Contents(b)
  PROVE  BakerOk(b)' /\ Frozen(b)
<1> DEFINE es == Entries(b)
           last == Len(es)
<1>1. pc[b] = "contents" /\ pc'[b] = "stat" /\ UNCHANGED <<opts, trailer, release, todo>>
  BY DEF Typed, Contents, Baking, At, Goto
<1>2. /\ trailer[b] = None /\ Regular(es, Unit) /\ ~ cpio[b].packed
      /\ \A i \in 1..last : es[i].name \notin todo[b]
  BY <1>1 DEF BakerOk, Described, Growing, Finished
<1>3. PICK d \in Seq(Unit) :
        LET new == [es EXCEPT ![last] = [@ EXCEPT !.data = d]]
        IN /\ es[last].mode = "dir" => d = <<>>
           /\ last > 0 /\ new \in Seq(EntryOf(Unit))
           /\ cpio' = [cpio EXCEPT ![b] = File3(cpio[b].there, cpio[b].packed, new)]
  BY ContentsStep DEF BakerOk
<1> DEFINE new == [es EXCEPT ![last] = [@ EXCEPT !.data = d]]
<1>4. es \in Seq(EntryOf(Unit)) /\ last \in 1..last /\ DOMAIN es = 1..last /\ last \in Nat
  <2>1. es \in Seq(EntryOf(Unit)) /\ last > 0
    BY <1>2, <1>3 DEF Regular
  <2> HIDE DEF es
  <2> QED BY <2>1
<1>5. /\ Len(new) = last
      /\ \A i \in 1..last : /\ new[i].name = es[i].name /\ new[i].mode = es[i].mode
                            /\ new[i].data = IF i = last THEN d ELSE es[i].data
  <2>1. es[last] \in EntryOf(Unit)
    BY <1>4
  <2>2. [es[last] EXCEPT !.data = d].name = es[last].name
        /\ [es[last] EXCEPT !.data = d].mode = es[last].mode
        /\ [es[last] EXCEPT !.data = d].data = d
    BY <2>1 DEF EntryOf
  <2>3. Len(new) = last
    <3> HIDE DEF es
    <3> QED BY <1>3, <1>4
  <2>4. new[last] = [es[last] EXCEPT !.data = d] /\ \A i \in 1..last \ {last} : new[i] = es[i]
    BY <1>4
  <2> HIDE DEF new
  <2> QED BY <2>2, <2>3, <2>4
<1>6. Entries(b)' = new /\ cpio'[b].packed = cpio[b].packed
  BY <1>3, CpioUpdates, CpioBecomes
<1>7. Regular(new, Unit)
  <2>1. \A i \in 1..last : /\ es[i].name \in Names /\ es[i].mode \in Modes
                           /\ es[i].mode = "dir" => es[i].data = <<>>
    BY <1>2 DEF Regular
  <2>2. \A i, j \in 1..last : es[i].name = es[j].name => i = j
    BY <1>2 DEF Regular
  <2>3. new \in Seq(EntryOf(Unit)) /\ (es[last].mode = "dir" => d = <<>>)
    BY <1>3
  <2> HIDE DEF new, es
  <2> QED BY <1>5, <2>1, <2>2, <2>3 DEF Regular
<1> HIDE DEF new
<1>8. Growing(b)'
  BY <1>1, <1>2, <1>5, <1>6, <1>7 DEF Growing
<1>9. Pending(b)' /\ Finished(b)' /\ Described(b)'
  BY <1>1, <1>2, <1>6 DEF Pending, Finished, Described
<1> QED
  BY <1>2, <1>8, <1>9 DEF BakerOk, Frozen

LEMMA EndOk ==
  ASSUME Typed, NEW b \in Baker, BakerOk(b), EndArchive(b)
  PROVE  BakerOk(b)' /\ Frozen(b)
<1> DEFINE es == Entries(b)
           all == Append(es, TrailerEntry)
<1>1. pc[b] = "stat" /\ pc'[b] = "compress" /\ UNCHANGED <<opts, trailer, release, todo>>
  BY DEF Typed, EndArchive, Baking, At, Goto
<1>2. trailer[b] = None /\ Regular(es, Unit) /\ ~ cpio[b].packed
  BY <1>1 DEF BakerOk, Described, Growing, Finished
<1>3. es \in Seq(EntryOf(Unit)) /\ TrailerEntry \in EntryOf(Unit)
  BY <1>2, HeadersAreEntries DEF Regular
<1>4. cpio' = [cpio EXCEPT ![b] = File3(cpio[b].there, cpio[b].packed, all)]
  BY <1>3, AppendType DEF EndArchive
<1>5. /\ all \in Seq(EntryOf(Unit)) /\ Len(all) = Len(es) + 1
      /\ all[Len(es) + 1] = TrailerEntry
      /\ \A i \in 1..Len(es) : all[i] = es[i]
  <2> HIDE DEF es
  <2> QED BY <1>3
<1>6. Entries(b)' = all /\ cpio'[b].packed = cpio[b].packed
  BY <1>4, <1>5, CpioUpdates, CpioBecomes
<1> HIDE DEF all, es
<1>7. Whole(all)
  BY <1>2, <1>5 DEF Whole, Extends
<1>8. Pending(b)' /\ Growing(b)' /\ Finished(b)' /\ Described(b)'
  BY <1>1, <1>2, <1>6, <1>7 DEF Pending, Growing, Finished, Described
<1> QED
  BY <1>2, <1>8 DEF BakerOk, Frozen

-----------------------------------------------------------------------------
(* Steps                                                                   *)

\* A launch that has verified what it read has the archive of the baker whose trailer
\* it read, decompressed if that is compressed.
LEMMA StreamIsArchive ==
  ASSUME Typed, BakerInv, NEW l \in Launch, NEW b \in Baker,
         trailer[b] = seen[l], trailer[b] # None, got[l] = Contained(b)
  PROVE  Stream(l) = Archive(Entries(b))
<1>1. trailer[b].compression = "zstd" <=> cpio[b].packed
  BY DEF BakerInv, Described
<1> DEFINE s == Archive(Entries(b))
           n == Len(s) \div 2 + 1
           parts == [i \in 1..n |-> [k |-> "part", i |-> i, archive |-> b]]
<1>2. Contained(b) = IF cpio[b].packed THEN parts ELSE s
  BY DEF Contained, Entries
<1>3. CASE cpio[b].packed
  <2>1. n \in Nat /\ n > 0
    <3>1. Entries(b) \in Seq(EntryOf(Unit))
      BY CpioUpdates
    <3>2. s \in Seq(PieceOf(Unit))
      BY <3>1, ArchiveType
    <3>3. Len(s) \in Nat
      BY <3>2
    <3> HIDE DEF s
    <3> QED BY <3>3
  <2> HIDE DEF n
  <2>2. parts[1] = [k |-> "part", i |-> 1, archive |-> b] /\ parts # <<>>
    <3>1. 1 \in 1..n
      BY <2>1
    <3>2. parts[1] = [k |-> "part", i |-> 1, archive |-> b] /\ DOMAIN parts = 1..n
      BY <3>1
    <3> QED BY <3>1, <3>2
  <2> HIDE DEF parts
  <2>3. got[l] = parts /\ parts = Contained(b)
    BY <1>2, <1>3
  <2>5. parts[1].k = "part" /\ parts[1].archive = b
    BY <2>2
  <2>4. Unpack(got[l]) = Archive(cpio[b].entries)
    BY <2>2, <2>3, <2>5 DEF Unpack
  <2> QED BY <1>1, <1>3, <2>4 DEF Stream, Entries
<1>4. CASE ~ cpio[b].packed
  BY <1>1, <1>2, <1>4 DEF Stream
<1> QED
  BY <1>3, <1>4

\* What is known of launches stays true while they stand still.
LEMMA LaunchStays ==
  ASSUME LaunchInv, \A b \in Baker : Frozen(b), UNCHANGED <<lpc, seen, got>>
  PROVE  LaunchInv'
<1>1. ASSUME NEW l \in Launch, lpc'[l] \in {"read", "accepted"}
      PROVE  Written(seen[l])'
  <2>1. PICK b \in Baker : trailer[b] = seen[l] /\ seen[l] # None
    BY <1>1 DEF LaunchInv, Written
  <2>2. trailer'[b] = trailer[b]
    BY <2>1 DEF Frozen
  <2> QED BY <2>1, <2>2 DEF Written
<1>2. ASSUME NEW l \in Launch, lpc'[l] = "accepted"
      PROVE  \E b \in Baker : Took(l, b)'
  <2>1. PICK b \in Baker : Took(l, b)
    BY <1>2 DEF LaunchInv
  <2>2. /\ trailer'[b] = trailer[b]
        /\ cpio'[b].entries = cpio[b].entries /\ cpio'[b].packed = cpio[b].packed
    BY <2>1 DEF Took, Frozen, Entries
  <2>3. Contained(b)' = Contained(b)
    BY <2>2 DEF Contained
  <2>4. Entries(b)' = Entries(b)
    BY <2>2 DEF Entries
  <2> QED BY <2>1, <2>2, <2>3, <2>4 DEF Took
<1> QED
  BY <1>1, <1>2 DEF LaunchInv

\* So does what is known of the trailers in the executable.
LEMMA WrittenStays ==
  ASSUME \A b \in Baker : Frozen(b), NEW t, Written(t)
  PROVE  Written(t)'
BY DEF Written, Frozen

LEMMA BakeTyped ==
  ASSUME AssemblerInv, NEW b \in Baker, Bake(b)
  PROVE  /\ Typed'
         /\ \A i \in 1..Len(out'.pieces) :
              out'.pieces[i].k = "trailer" => Written(out'.pieces[i])
         /\ UNCHANGED <<lpc, seen, got>>
<1> USE DEF AssemblerInv
<1>1. BakerOk(b)
  BY DEF BakerInv, BakerOk
<1>2. CASE OpenOutput(b) \/ WriteOutput(b) \/ Chmod(b)
  <2>1. UNCHANGED <<lpc, seen, got>>
    BY <1>2 DEF OpenOutput, WriteOutput, Chmod, Baking, launchVars, outVars
  <2> QED BY <1>1, <1>2, <2>1, OutputTyped DEF BakerOk
<1>3. CASE ~ (OpenOutput(b) \/ WriteOutput(b) \/ Chmod(b))
  <2>1. out' = out /\ UNCHANGED <<lpc, seen, got>>
    BY <1>3 DEF Bake, Configure, EmptyScript, FillScript, Open, Stat, Contents, EndArchive,
                Compress, Rename, BuildTrailer, Cleanup, Stop, Baking, launchVars, outVars
  <2>2. Typed'
    BY <1>1, <1>3, ControlTyped, ScriptTyped, TmpTyped, StatTyped, ContentsTyped, EndTyped,
       TrailerTyped DEF Bake, BakerOk
  <2> QED BY <2>1, <2>2 DEF OutInv
<1> QED
  BY <1>2, <1>3

LEMMA BakeStep ==
  ASSUME AssemblerInv, NEW b \in Baker, Bake(b)
  PROVE  AssemblerInv'
<1>1. Typed /\ BakerOk(b) /\ \A c \in Baker : BakerOk(c)
  BY DEF AssemblerInv, BakerInv, BakerOk
<1>2. BakerOk(b)' /\ Frozen(b)
  BY <1>1, PlainOk, OpenOk, CompressOk, BuildTrailerOk, StatOk, ContentsOk, EndOk DEF Bake
<1>3. ASSUME NEW c \in Baker \ {b} PROVE BakerOk(c)' /\ Frozen(c)
  BY <1>1, BakeOthers, BakeRelease, OkStays
<1>4. \A c \in Baker : BakerOk(c)' /\ Frozen(c)
  BY <1>2, <1>3
<1>5. BakerInv'
  BY <1>4 DEF BakerInv, BakerOk
<1>6. Typed' /\ UNCHANGED <<lpc, seen, got>>
  BY BakeTyped
<1>7. OutInv'
  <2>1. \A i \in 1..Len(out'.pieces) :
          out'.pieces[i].k = "trailer" => Written(out'.pieces[i])
    BY BakeTyped
  <2>2. ASSUME NEW i \in 1..Len(out'.pieces), out'.pieces[i].k = "trailer"
        PROVE  \E c \in Baker : trailer'[c] = out'.pieces[i] /\ out'.pieces[i] # None
    <3>1. PICK c \in Baker : trailer[c] = out'.pieces[i] /\ out'.pieces[i] # None
      BY <2>1, <2>2 DEF Written
    <3>2. trailer'[c] = trailer[c]
      BY <1>4, <3>1 DEF Frozen
    <3> QED BY <3>1, <3>2
  <2> QED BY <2>2 DEF OutInv, Written
<1>8. LaunchInv'
  BY <1>4, <1>6, LaunchStays DEF AssemblerInv
<1> QED
  BY <1>5, <1>6, <1>7, <1>8 DEF AssemblerInv

LEMMA TouchStep ==
  ASSUME AssemblerInv, Touch
  PROVE  AssemblerInv'
<1>1. UNCHANGED <<opts, pc, todo, cpio, trailer, out, lpc, seen, got>>
  BY DEF Touch, bakerVars, launchVars, outVars
<1>2. Typed' /\ DOMAIN release' = DOMAIN release
  BY TouchTyped DEF AssemblerInv
<1>3. \A c \in Baker : BakerOk(c)
  BY DEF AssemblerInv, BakerInv, BakerOk
<1>4. ASSUME NEW c \in Baker PROVE BakerOk(c)' /\ Frozen(c)
  BY <1>1, <1>2, <1>3, OkStays
<1>5. BakerInv'
  BY <1>4 DEF BakerInv, BakerOk
<1>6. OutInv'
  BY <1>1 DEF AssemblerInv, OutInv, Written
<1>7. LaunchInv'
  BY <1>1, <1>4, LaunchStays DEF AssemblerInv
<1> QED
  BY <1>2, <1>5, <1>6, <1>7 DEF AssemblerInv

\* A launch disturbs no baker and no file.
LEMMA LaunchAlone ==
  ASSUME AssemblerInv, UNCHANGED <<release, out, bakerVars>>
  PROVE  /\ BakerInv' /\ OutInv'
         /\ \A c \in Baker : Frozen(c) /\ Contained(c)' = Contained(c) /\ Entries(c)' = Entries(c)
<1>1. UNCHANGED <<release, opts, pc, todo, cpio, trailer, out>>
  BY DEF bakerVars
<1>2. \A c \in Baker : BakerOk(c)
  BY DEF AssemblerInv, BakerInv, BakerOk
<1>3. ASSUME NEW c \in Baker PROVE BakerOk(c)' /\ Frozen(c)
  BY <1>1, <1>2, OkStays
<1>4. BakerInv'
  BY <1>3 DEF BakerInv, BakerOk
<1>5. OutInv'
  BY <1>1 DEF AssemblerInv, OutInv, Written
<1>6. ASSUME NEW c \in Baker PROVE Contained(c)' = Contained(c) /\ Entries(c)' = Entries(c)
  BY <1>1 DEF Contained, Entries
<1> QED
  BY <1>3, <1>4, <1>5, <1>6

LEMMA ReadTrailerKeeps ==
  ASSUME AssemblerInv, NEW l \in Launch, ReadTrailer(l)
  PROVE  AssemblerInv'
<1>1. UNCHANGED <<release, out, bakerVars, got>>
  BY DEF ReadTrailer
<1>2. /\ BakerInv' /\ OutInv'
      /\ \A c \in Baker : Frozen(c) /\ Contained(c)' = Contained(c) /\ Entries(c)' = Entries(c)
  BY <1>1, LaunchAlone
<1>3. /\ Typed'
      /\ \A m \in Launch : \/ lpc'[m] = lpc[m] /\ seen'[m] = seen[m]
                           \/ lpc'[m] = "refused"
                           \/ lpc'[m] = "read" /\ Written(seen'[m])
  BY ReadTrailerStep DEF AssemblerInv
<1>4. trailer' = trailer
  BY <1>1 DEF bakerVars
<1>5. ASSUME NEW m \in Launch, lpc'[m] \in {"read", "accepted"} PROVE Written(seen[m])'
  <2>1. Written(seen'[m])
    BY <1>3, <1>5 DEF AssemblerInv, LaunchInv
  <2> QED BY <1>4, <2>1 DEF Written
<1>6. ASSUME NEW m \in Launch, lpc'[m] = "accepted" PROVE \E b \in Baker : Took(m, b)'
  <2>1. lpc[m] = "accepted" /\ seen'[m] = seen[m]
    BY <1>3, <1>6
  <2>2. PICK b \in Baker : Took(m, b)
    BY <2>1 DEF AssemblerInv, LaunchInv
  <2>3. Contained(b)' = Contained(b) /\ Entries(b)' = Entries(b) /\ got' = got
    BY <1>1, <1>2
  <2> QED BY <1>4, <2>1, <2>2, <2>3 DEF Took
<1>7. LaunchInv'
  BY <1>5, <1>6 DEF LaunchInv
<1> QED
  BY <1>2, <1>3, <1>7 DEF AssemblerInv

LEMMA ReadKeeps ==
  ASSUME AssemblerInv, NEW l \in Launch, Read(l)
  PROVE  AssemblerInv'
<1>1. UNCHANGED <<release, out, bakerVars, lpc, seen>> /\ lpc[l] = "read"
  BY DEF Read, outVars
<1>2. /\ BakerInv' /\ OutInv'
      /\ \A c \in Baker : Frozen(c) /\ Contained(c)' = Contained(c) /\ Entries(c)' = Entries(c)
  BY <1>1, LaunchAlone
<1>3. Typed'
  BY ReadTyped DEF AssemblerInv
<1>4. trailer' = trailer
  BY <1>1 DEF bakerVars
<1>5. ASSUME NEW m \in Launch, lpc'[m] \in {"read", "accepted"} PROVE Written(seen[m])'
  BY <1>1, <1>4, <1>5 DEF AssemblerInv, LaunchInv, Written
<1>6. ASSUME NEW m \in Launch, lpc'[m] = "accepted" PROVE \E b \in Baker : Took(m, b)'
  <2>1. lpc[m] = "accepted" /\ m # l
    BY <1>1, <1>6
  <2>2. PICK b \in Baker : Took(m, b)
    BY <2>1 DEF AssemblerInv, LaunchInv
  <2>3. Contained(b)' = Contained(b) /\ Entries(b)' = Entries(b)
    BY <1>2
  <2>4. got'[m] = got[m]
    <3>1. got' = [got EXCEPT ![l] = got[l] \o Wanted(l)]
      BY DEF Read
    <3> QED BY <2>1, <3>1 DEF AssemblerInv, Typed
  <2> QED BY <1>1, <1>4, <2>2, <2>3, <2>4 DEF Took
<1>7. LaunchInv'
  BY <1>5, <1>6 DEF LaunchInv
<1> QED
  BY <1>2, <1>3, <1>7 DEF AssemblerInv

LEMMA ValidateKeeps ==
  ASSUME AssemblerInv, NEW l \in Launch, Validate(l)
  PROVE  AssemblerInv'
<1>1. UNCHANGED <<release, touches, out, bakerVars, seen, got, steady>> /\ lpc[l] = "read"
  BY DEF Validate, outVars
<1>2. /\ BakerInv' /\ OutInv'
      /\ \A c \in Baker : Frozen(c) /\ Contained(c)' = Contained(c) /\ Entries(c)' = Entries(c)
  BY <1>1, LaunchAlone
<1>3. \/ /\ lpc' = [lpc EXCEPT ![l] = "accepted"]
         /\ Extracted(l).status = "done" /\ Verified(l)
      \/ lpc' = [lpc EXCEPT ![l] = "refused"]
  BY DEF Validate
<1>4. trailer' = trailer
  BY <1>1 DEF bakerVars
<1>5. Typed'
  BY <1>1, <1>3 DEF AssemblerInv, Typed, bakerVars
<1>6. ASSUME NEW m \in Launch, lpc'[m] \in {"read", "accepted"} PROVE Written(seen[m])'
  <2>1. lpc[m] \in {"read", "accepted"}
    BY <1>1, <1>3, <1>6 DEF AssemblerInv, Typed
  <2> QED BY <1>1, <1>4, <2>1 DEF AssemblerInv, LaunchInv, Written
<1>7. ASSUME NEW m \in Launch, lpc'[m] = "accepted" PROVE \E b \in Baker : Took(m, b)
  <2>1. CASE lpc[m] = "accepted"
    BY <2>1 DEF AssemblerInv, LaunchInv
  <2>2. CASE lpc[m] # "accepted"
    <3>1. m = l /\ Extracted(l).status = "done" /\ Verified(l)
      BY <1>3, <1>7, <2>2 DEF AssemblerInv, Typed
    <3>2. PICK b \in Baker : trailer[b] = seen[l] /\ seen[l] # None
      BY <1>1 DEF AssemblerInv, LaunchInv, Written
    <3>3. seen[l].sha1 = b
      BY <3>2 DEF AssemblerInv, BakerInv, Described
    <3>4. got[l] = Contained(b)
      BY <3>1, <3>3 DEF Verified
    <3>5. Stream(l) = Archive(Entries(b))
      BY <3>2, <3>4, StreamIsArchive DEF AssemblerInv
    <3> QED BY <3>1, <3>2, <3>4, <3>5 DEF Took, Extracted
  <2> QED BY <2>1, <2>2
<1>8. ASSUME NEW m \in Launch, NEW b \in Baker, Took(m, b) PROVE Took(m, b)'
  <2>1. Contained(b)' = Contained(b) /\ Entries(b)' = Entries(b)
    BY <1>2
  <2> QED BY <1>1, <1>4, <1>8, <2>1 DEF Took
<1>9. LaunchInv'
  BY <1>6, <1>7, <1>8 DEF LaunchInv
<1> QED
  BY <1>2, <1>5, <1>9 DEF AssemblerInv

LEMMA AssemblerInvInit == Init => AssemblerInv
<1> SUFFICES ASSUME Init PROVE AssemblerInv
  OBVIOUS
<1>1. Typed
  BY InitTyped
<1>2. BakerInv
  BY DEF Init, BakerInv, Pending, Growing, Finished, Described, NoFile, Entries
<1>3. OutInv /\ LaunchInv
  BY DEF Init, OutInv, LaunchInv
<1> QED
  BY <1>1, <1>2, <1>3 DEF AssemblerInv

LEMMA AssemblerInvStep == AssemblerInv /\ [Next]_vars => AssemblerInv'
<1> SUFFICES ASSUME AssemblerInv, [Next]_vars PROVE AssemblerInv'
  OBVIOUS
<1>1. ASSUME NEW b \in Baker, Bake(b) PROVE AssemblerInv'
  BY <1>1, BakeStep
<1>2. ASSUME NEW l \in Launch, ReadTrailer(l) \/ Read(l) \/ Validate(l) PROVE AssemblerInv'
  BY <1>2, ReadTrailerKeeps, ReadKeeps, ValidateKeeps
<1>3. CASE Touch
  BY <1>3, TouchStep
<1>4. CASE UNCHANGED vars
  <2>1. UNCHANGED <<release, touches, out, opts, pc, script, todo, cpio, zst, trailer, written,
                    lpc, seen, got, steady, bakerVars>>
    BY <1>4 DEF vars, bakerVars, launchVars, outVars
  <2>2. /\ BakerInv' /\ OutInv' /\ \A c \in Baker : Frozen(c)
    BY <2>1, LaunchAlone
  <2>3. Typed'
    BY <2>1 DEF AssemblerInv, Typed
  <2>4. LaunchInv'
    BY <2>1, <2>2, LaunchStays DEF AssemblerInv
  <2> QED BY <2>2, <2>3, <2>4 DEF AssemblerInv
<1> QED
  BY <1>1, <1>2, <1>3, <1>4 DEF Next

-----------------------------------------------------------------------------
(* Theorems                                                                *)

\* Every state the assemblies and launches reach satisfies the invariant.
THEOREM AssemblerInvariant == Spec => []AssemblerInv
<1>1. Init => AssemblerInv
  BY AssemblerInvInit
<1>2. AssemblerInv /\ [Next]_vars => AssemblerInv'
  BY AssemblerInvStep
<1> QED
  BY <1>1, <1>2, PTL DEF Spec

LEMMA AssemblerInvTypes == AssemblerInv => TypeOK
BY DEF AssemblerInv, Typed, TypeOK, File, CpioFile

\* Bakers and launches keep their variables in their types (TypeOK): no baker counts
\* scripts that are not there, or lists a path that is none of the release.
THEOREM AssemblerTypeCorrect == Spec => []TypeOK
BY AssemblerInvariant, AssemblerInvTypes, PTL

LEMMA TrailerFitsStep == AssemblerInv => TrailerFitsArchive
BY DEF AssemblerInv, BakerInv, Described, TrailerFitsArchive

\* When cat puts a trailer behind an archive, the archive is there and compressed just
\* if the trailer says so, although maybe_compress ignores the result of File.rename:
\* build_trailer stops the baker when there is no archive to hash.
THEOREM TrailerTellsTheTruth == Spec => []TrailerFitsArchive
BY AssemblerInvariant, TrailerFitsStep, PTL

\* Files of an extraction that went on to its end are those a baker has archived.
LEMMA TreeIsArchived ==
  ASSUME NEW b \in Baker, Whole(Entries(b)), ~ SumWraps(b), ~ Swallows(b),
         Extract(Archive(Entries(b))).status = "done"
  PROVE  Extract(Archive(Entries(b))).tree = Archived(b)
<1> DEFINE all == Entries(b)
           t == Extract(Archive(all)).tree
<1>1. PICK es : /\ Regular(es, Unit) /\ Extends(all, es, Unit)
                /\ all[Len(es) + 1] = TrailerEntry
  BY DEF Whole
<1> DEFINE N == Len(es)
<1>2. /\ N \in Nat /\ Len(all) = N + 1 /\ DOMAIN all = 1..(N + 1)
      /\ \A i \in 1..N : all[i] = es[i]
      /\ \A i \in 1..(N + 1) : i \in 1..N \/ i = N + 1
      /\ \A i \in 1..N : i \in 1..(N + 1)
  <2>1. es \in Seq(EntryOf(Unit)) /\ all \in Seq(EntryOf(Unit)) /\ Len(all) = N + 1
        /\ \A i \in 1..N : all[i] = es[i]
    BY <1>1 DEF Regular, Extends
  <2>2. N \in Nat /\ DOMAIN all = 1..(N + 1)
    <3> HIDE DEF all
    <3> QED BY <2>1
  <2> HIDE DEF N
  <2> QED BY <2>1, <2>2
<1>3. \A i \in 1..N : es[i].name \in Names /\ es[i].name # Trailer
  BY <1>1, NamesAssumption DEF Regular
<1>4. Sound(es)
  <2>1. ASSUME NEW i \in 1..N PROVE Length(Pieces(es[i])[1]) # 0
    <3>1. i \in DOMAIN Entries(b) /\ Entries(b)[i] = es[i]
      BY <1>2
    <3> QED BY <1>3, <3>1 DEF SumWraps
  <2>2. ASSUME NEW i \in 1..N, es[i].mode # "dir" PROVE es[i].size < Len(es[i].data) + 2
    <3>1. es[i] \in Range(Entries(b))
      <4>1. i \in DOMAIN Entries(b) /\ Entries(b)[i] = es[i]
        BY <1>2
      <4> QED BY <4>1 DEF Range
    <3>2. ~ (es[i].size >= Len(es[i].data) + 2)
      BY <2>2, <3>1 DEF Swallows
    <3>3. es[i].size \in Nat /\ Len(es[i].data) \in Nat
      <4>1. es[i] \in EntryOf(Unit)
        BY <1>1 DEF Regular
      <4>2. es[i].size \in Nat /\ es[i].data \in Seq(Unit)
        BY <4>1 DEF EntryOf
      <4> QED BY <4>2
    <3> QED BY <3>2, <3>3
  <2> QED BY <2>1, <2>2 DEF Sound
<1>5. IsTree(t, es, N)
  BY <1>1, <1>4, UnitIsData, ExtractedAreEntries
<1>6. {e.name : e \in Range(all)} \ {Trailer} = {es[i].name : i \in 1..N}
  <2> HIDE DEF all, N
  <2>1. Range(all) = {all[i] : i \in 1..(N + 1)}
    BY <1>2 DEF Range
  <2>2. all[N + 1].name = Trailer
    BY <1>1 DEF TrailerEntry, Entry, N
  <2>3. \A i \in 1..N : all[i].name = es[i].name /\ all[i].name # Trailer
    BY <1>2, <1>3
  <2>4. ASSUME NEW m \in {e.name : e \in Range(all)} \ {Trailer}
        PROVE  m \in {es[i].name : i \in 1..N}
    <3>1. PICK i \in 1..(N + 1) : m = all[i].name
      BY <2>1
    <3>2. i # N + 1
      BY <2>2, <3>1
    <3>3. i \in 1..N
      BY <1>2, <3>2
    <3> QED BY <2>3, <3>1, <3>3
  <2>5. ASSUME NEW i \in 1..N PROVE es[i].name \in {e.name : e \in Range(all)} \ {Trailer}
    <3>1. all[i] \in Range(all)
      BY <1>2, <2>1
    <3> QED BY <2>3, <3>1
  <2> QED BY <2>4, <2>5
<1>7. ASSUME NEW i \in 1..N
      PROVE  (CHOOSE x \in Range(all) : x.name = es[i].name) = es[i]
  <2> HIDE DEF all, N
  <2>1. es[i] \in Range(all)
    BY <1>2 DEF Range
  <2>2. ASSUME NEW x \in Range(all), x.name = es[i].name PROVE x = es[i]
    <3>1. PICK j \in 1..(N + 1) : x = all[j]
      BY <1>2 DEF Range
    <3>2. j # N + 1
      BY <1>1, <1>3, <2>2, <3>1 DEF TrailerEntry, Entry, N
    <3>3. j \in 1..N /\ x = es[j]
      BY <1>2, <3>1, <3>2
    <3>4. j = i
      BY <1>1, <2>2, <3>3 DEF Regular, N
    <3> QED BY <3>3, <3>4
  <2> QED BY <2>1, <2>2
<1>8. Archived(b) = [n \in {es[i].name : i \in 1..N} |->
                       LET e == CHOOSE x \in Range(all) : x.name = n
                       IN [mode |-> e.mode, data |-> e.data]]
  BY <1>6 DEF Archived
<1>9. \A i \in 1..N : Archived(b)[es[i].name] = [mode |-> es[i].mode, data |-> es[i].data]
  <2> HIDE DEF all, N
  <2> QED BY <1>7, <1>8
<1> DEFINE names == {es[i].name : i \in 1..N}
           a == Archived(b)
<1>10. a = [m \in names |-> a[m]] /\ t = [m \in names |-> t[m]]
  <2>1. a = [m \in names |-> a[m]]
    <3> DEFINE g(n) == LET e == CHOOSE x \in Range(all) : x.name = n
                       IN [mode |-> e.mode, data |-> e.data]
    <3>1. a = [n \in names |-> g(n)]
      BY <1>8
    <3> HIDE DEF g, names, a
    <3> QED BY <3>1
  <2>2. t = [m \in names |-> t[m]]
    BY <1>5 DEF IsTree
  <2> QED BY <2>1, <2>2
<1>11. \A m \in names : a[m] = t[m]
  <2>1. \A i \in 1..N : t[es[i].name] = [mode |-> es[i].mode, data |-> es[i].data]
    BY <1>5 DEF IsTree
  <2> HIDE DEF a, t, N
  <2> QED BY <1>9, <2>1 DEF a
<1> HIDE DEF names, a, t
<1>12. a = t
  BY <1>10, <1>11
<1> QED
  BY <1>12 DEF a, t

LEMMA AcceptedStep == AssemblerInv => AcceptedIsOneAssembly
<1> SUFFICES ASSUME AssemblerInv, NEW l \in Launch, lpc[l] = "accepted"
             PROVE  \E b \in Baker :
                      /\ trailer[b] = seen[l]
                      /\ Extracted(l).tree = Archived(b) \/ SumWraps(b) \/ Swallows(b)
  BY DEF AcceptedIsOneAssembly
<1>1. PICK b \in Baker : Took(l, b)
  BY DEF AssemblerInv, LaunchInv
<1>2. Stream(l) = Archive(Entries(b))
  BY <1>1, StreamIsArchive DEF AssemblerInv, Took
<1>3. Whole(Entries(b))
  BY <1>1 DEF AssemblerInv, BakerInv, Finished, Took
<1>4. ASSUME ~ SumWraps(b), ~ Swallows(b) PROVE Extracted(l).tree = Archived(b)
  BY <1>1, <1>2, <1>3, <1>4, TreeIsArchived DEF Took, Extracted
<1> QED
  BY <1>1, <1>4 DEF Took

\* What a launch accepts is what one baker archived (AcceptedIsOneAssembly), however
\* many bakers cat over each other's executable, whoever changes the release in
\* between, whatever calls fail, and wherever in this the launch reads trailer and
\* archive: a mixture of two assemblies, a part of one, or an archive with a stale size
\* is refused by the digest or by the extractor.
THEOREM LaunchesOneAssembly == Spec => []AcceptedIsOneAssembly
BY AssemblerInvariant, AcceptedStep, PTL

-----------------------------------------------------------------------------
(***************************************************************************)
(* That a finished executable starts: a launch refuses nothing that one    *)
(* baker has written whole, if the formats can represent it.               *)
(***************************************************************************)

-----------------------------------------------------------------------------
(* The inductive invariant, on top of AssemblerInv                         *)

\* Every path of the release has its directory there.
ReleaseClosed == \A n \in DOMAIN release : Parent[n] \in DOMAIN release \cup {Root}

\* The directory of a path that is listed is listed, or archived already.
Listed(b) ==
  pc[b] \in {"stat", "contents"} =>
    \A n \in todo[b] :
      \/ Parent[n] = Root \/ Parent[n] \in todo[b]
      \/ \E j \in 1..Len(Entries(b)) : Entries(b)[j].name = Parent[n]

\* Directories stand in an archive before what is in them.
MadeFirst(es) ==
  \A i \in 1..Len(es) :
    es[i].name # Trailer =>
      Parent[es[i].name] = Root \/ \E j \in 1..(i - 1) : es[j].name = Parent[es[i].name]

\* A trailer measures the archive, in 32 bits.
Measured(b) ==
  trailer[b] # None =>
    /\ trailer[b].contents_length = Len(Contained(b)) % Word
    /\ trailer[b].contents_offset = 1 % Word

OrderInv ==
  ReleaseClosed /\ \A b \in Baker : Listed(b) /\ MadeFirst(Entries(b)) /\ Measured(b)

\* The executable is that of b, as b has assembled it.
Good(b) == trailer[b] # None /\ out.pieces = Executable(b) /\ Representable(b)

\* A launch has read the trailer of b, and its archive up to some piece.
Reading(l, b) ==
  /\ seen[l] = trailer[b]
  /\ Len(got[l]) \in 0..Len(Contained(b))
  /\ got[l] = SubSeq(Contained(b), 1, Len(got[l]))

ReadInv ==
  \A l \in Launch :
    /\ lpc[l] = "idle" => got[l] = <<>>
    /\ l \in steady => \A b \in Baker : Good(b) => /\ lpc[l] # "refused"
                                                   /\ lpc[l] = "read" => Reading(l, b)

-----------------------------------------------------------------------------
(* Releases and archives in order                                          *)

LEMMA NewTrailer ==
  ASSUME [Next]_vars
  PROVE  \/ trailer' = trailer
         \/ cpio' = cpio /\ UNCHANGED <<out, steady>>
BY DEF Next, Bake, Configure, EmptyScript, FillScript, Open, Stat, Contents, EndArchive, Compress,
       Rename, BuildTrailer, OpenOutput, WriteOutput, Chmod, Cleanup, Stop, Touch,
       ReadTrailer, Read, Validate, vars, bakerVars, outVars

LEMMA FrozenStep ==
  ASSUME AssemblerInv, [Next]_vars, NEW b \in Baker
  PROVE  Frozen(b)
<1>1. Typed /\ \A c \in Baker : BakerOk(c)
  BY DEF AssemblerInv, BakerInv, BakerOk
<1>2. ASSUME NEW c \in Baker, Bake(c) PROVE Frozen(b)
  <2>1. CASE b = c
    BY <1>1, <1>2, <2>1, PlainOk, OpenOk, CompressOk, BuildTrailerOk, StatOk, ContentsOk, EndOk
    DEF Bake
  <2>2. CASE b # c
    <3>1. b \in Baker \ {c}
      BY <2>2
    <3>2. /\ pc'[b] = pc[b] /\ todo'[b] = todo[b] /\ cpio'[b] = cpio[b] /\ trailer'[b] = trailer[b]
      BY <1>1, <1>2, <3>1, BakeOthers
    <3> QED BY <3>2 DEF Frozen, Entries
  <2> QED BY <2>1, <2>2
<1>3. CASE UNCHANGED <<cpio, trailer>>
  BY <1>3 DEF Frozen, Entries
<1>4. ASSUME ~ \E c \in Baker : Bake(c) PROVE UNCHANGED <<cpio, trailer>>
  BY <1>4 DEF Next, Touch, ReadTrailer, Read, Validate, vars, bakerVars
<1> QED
  BY <1>2, <1>3, <1>4

\* The paths of a release are joined by nothing but start scripts.
LEMMA ReleaseStep ==
  ASSUME Typed, ReleaseClosed, [Next]_vars
  PROVE  ReleaseClosed'
<1>1. \/ release' = release
      \/ \E b \in Baker : EmptyScript(b)
      \/ \E n, f : release' = [release EXCEPT ![n] = f]
      \/ Touch
  BY DEF Next, Bake, Configure, FillScript, Open, Stat, Contents, EndArchive, Compress,
         Rename, BuildTrailer, OpenOutput, WriteOutput, Chmod, Cleanup, Stop,
         ReadTrailer, Read, Validate, vars
<1>2. CASE \E b \in Baker : EmptyScript(b)
  <2>1. PICK b \in Baker : EmptyScript(b)
    BY <1>2
  <2> DEFINE n == Scripts[script[b] + 1]
  <2>2. Parent[n] = Root
    <3>1. /\ script[b] \in 0..Len(Scripts) /\ script[b] < Len(Scripts) /\ Len(Scripts) \in Nat
          /\ script[b] + 1 \in 1..Len(Scripts)
      BY <2>1, AssemblerAssumption DEF Typed, EmptyScript, Baking, At
    <3>2. n \in Range(Scripts)
      BY <3>1, AssemblerAssumption DEF Range
    <3> QED BY <3>2, ReleaseAssumption
  <2>3. release' = [m \in DOMAIN release \cup {n} |->
                      IF m = n THEN [mode |-> "file", data |-> <<>>] ELSE release[m]]
    BY <2>1 DEF EmptyScript
  <2> HIDE DEF n
  <2> QED BY <2>2, <2>3 DEF ReleaseClosed
<1>3. CASE Touch
  <2>1. DOMAIN release' = DOMAIN release
    BY <1>3, TouchTyped
  <2> QED BY <2>1 DEF ReleaseClosed
<1> QED
  BY <1>1, <1>2, <1>3 DEF ReleaseClosed

\* Path.wildcard lists what is not hidden, and so the directories too.
LEMMA OpenListed ==
  ASSUME ReleaseClosed, NEW n \in (Range(Order) \cap DOMAIN release) \ Hidden, Parent[n] # Root
  PROVE  Parent[n] \in (Range(Order) \cap DOMAIN release) \ Hidden
<1>1. PICK i \in DOMAIN Order : n = Order[i]
  BY DEF Range
<1>2. (\E j \in 1..(i - 1) : Order[j] = Parent[n]) /\ Parent[n] \notin Hidden
  BY <1>1, ReleaseAssumption
<1>3. Parent[n] \in Range(Order)
  <2>1. PICK j \in 1..(i - 1) : Order[j] = Parent[n]
    BY <1>2
  <2>2. j \in DOMAIN Order
    <3>1. DOMAIN Order = 1..Len(Order) /\ Len(Order) \in Nat
      BY AssemblerAssumption
    <3> QED BY <3>1
  <2> QED BY <2>1, <2>2 DEF Range
<1> QED
  BY <1>2, <1>3 DEF ReleaseClosed

\* What file_details and build_header append
LEMMA StatStep ==
  ASSUME Typed, NEW b \in Baker, BakerOk(b), Stat(b)
  PROVE  \E n \in todo[b] :
           /\ First(n, todo[b]) /\ todo'[b] = todo[b] \ {n}
           /\ \/ pc'[b] = "stopped" /\ Entries(b)' = Entries(b)
              \/ \E e \in EntryOf(Unit) : e.name = n /\ Entries(b)' = Append(Entries(b), e)
<1>1. PICK n \in todo[b] :
        /\ First(n, todo[b])
        /\ todo' = [todo EXCEPT ![b] = @ \ {n}]
        /\ LET f == release[n]
               size == IF f.mode = "dir" THEN 2 ELSE Len(f.data)
           IN IF HeaderFits(size)
                THEN AppendEntry(b, Entry(n, f.mode, size, <<>>)) /\ Goto(b, "contents")
                ELSE Goto(b, "stopped") /\ UNCHANGED cpio
  BY DEF Stat
<1> DEFINE f == release[n]
           size == IF f.mode = "dir" THEN 2 ELSE Len(f.data)
           e == Entry(n, f.mode, size, <<>>)
<1>2. f \in File /\ n \in Names
  BY DEF Typed
<1>3. e \in EntryOf(Unit) /\ e.name = n
  <2>1. f.data \in Seq(Unit)
    BY <1>2 DEF File
  <2>2. size \in Nat
    BY <2>1
  <2>3. e.name = n
    BY DEF Entry
  <2> HIDE DEF size, f
  <2> QED BY <1>2, <2>2, <2>3, HeadersAreEntries
<1>4. todo'[b] = todo[b] \ {n}
  BY <1>1 DEF Typed
<1>5. CASE AppendEntry(b, e)
  <2> HIDE DEF e
  <2>1. cpio' = [cpio EXCEPT ![b] = File3(cpio[b].there, cpio[b].packed, Append(Entries(b), e))]
    BY <1>3, <1>5, AppendType
  <2>2. Append(Entries(b), e) \in Seq(EntryOf(Unit))
    <3>1. Entries(b) \in Seq(EntryOf(Unit))
      BY CpioUpdates
    <3> QED BY <1>3, <3>1
  <2>3. Entries(b)' = Append(Entries(b), e)
    BY <2>1, <2>2, CpioUpdates, CpioBecomes
  <2> QED BY <1>1, <1>3, <1>4, <2>3
<1>6. CASE pc'[b] = "stopped" /\ cpio' = cpio
  BY <1>1, <1>4, <1>6 DEF Entries
<1>7. AppendEntry(b, e) \/ (pc'[b] = "stopped" /\ cpio' = cpio)
  BY <1>1 DEF Typed, Goto
<1> QED
  BY <1>5, <1>6, <1>7

LEMMA AppendMadeFirst ==
  ASSUME NEW es \in Seq(EntryOf(Unit)), MadeFirst(es), NEW e,
         \/ e.name = Trailer \/ Parent[e.name] = Root
         \/ \E j \in 1..Len(es) : es[j].name = Parent[e.name]
  PROVE  MadeFirst(Append(es, e))
<1> DEFINE N == Len(es)
           all == Append(es, e)
<1>1. /\ N \in Nat /\ Len(all) = N + 1 /\ all[N + 1] = e /\ \A i \in 1..N : all[i] = es[i]
  OBVIOUS
<1>2. /\ (N + 1) - 1 = N /\ \A i \in 1..(N + 1) : i \in 1..N \/ i = N + 1
      /\ \A i \in 1..N : \A j \in 1..(i - 1) : j \in 1..N
  BY <1>1
<1> HIDE DEF N, all
<1>3. ASSUME NEW i \in 1..(N + 1), all[i].name # Trailer
      PROVE  Parent[all[i].name] = Root \/ \E j \in 1..(i - 1) : all[j].name = Parent[all[i].name]
  <2>1. CASE i \in 1..N
    <3>1. Parent[es[i].name] = Root \/ \E j \in 1..(i - 1) : es[j].name = Parent[es[i].name]
      BY <1>1, <1>3, <2>1 DEF MadeFirst, N
    <3> QED BY <1>1, <1>2, <2>1, <3>1
  <2>2. CASE i = N + 1
    <3>1. Parent[e.name] = Root \/ \E j \in 1..N : es[j].name = Parent[e.name]
      BY <1>1, <1>3, <2>2 DEF N
    <3> QED BY <1>1, <1>2, <2>2, <3>1
  <2> QED BY <1>2, <2>1, <2>2
<1> QED
  BY <1>1, <1>3 DEF MadeFirst, all

LEMMA AppendNames ==
  ASSUME NEW es \in Seq(EntryOf(Unit)), NEW e
  PROVE  /\ \A j \in 1..Len(es) : j \in 1..Len(Append(es, e)) /\ Append(es, e)[j] = es[j]
         /\ Len(es) + 1 \in 1..Len(Append(es, e)) /\ Append(es, e)[Len(es) + 1] = e
OBVIOUS

\* The step of the baker that lists or archives
LEMMA OrderOwn ==
  ASSUME AssemblerInv, OrderInv, NEW b \in Baker, Bake(b)
  PROVE  Listed(b)' /\ MadeFirst(Entries(b)')
<1>1. Typed /\ BakerOk(b) /\ Listed(b) /\ MadeFirst(Entries(b)) /\ ReleaseClosed
      /\ Entries(b) \in Seq(EntryOf(Unit))
  BY CpioUpdates DEF AssemblerInv, BakerInv, BakerOk, OrderInv
<1>2. CASE Configure(b) \/ EmptyScript(b) \/ FillScript(b) \/ Stop(b)
           \/ OpenOutput(b) \/ WriteOutput(b) \/ Chmod(b) \/ BuildTrailer(b)
  <2>1. pc'[b] \notin {"stat", "contents"}
    BY <1>1, <1>2 DEF Typed, Configure, EmptyScript, FillScript, Stop, OpenOutput, WriteOutput, Chmod,
                      BuildTrailer, Baking, At, Goto
  <2>2. Entries(b)' = Entries(b)
    BY <1>2 DEF Configure, EmptyScript, FillScript, Stop, OpenOutput, WriteOutput, Chmod,
                BuildTrailer, Entries
  <2> QED BY <1>1, <2>1, <2>2 DEF Listed
<1>3. CASE Open(b)
  <2>1. cpio' = [cpio EXCEPT ![b] = File3(TRUE, cpio[b].packed, Entries(b))]
    BY <1>1, <1>3, CpioUpdates DEF Open
  <2>2. Entries(b)' = Entries(b)
    BY <1>1, <2>1, CpioUpdates, CpioBecomes
  <2> DEFINE new == (Range(Order) \cap DOMAIN release) \ Hidden
  <2>3. todo'[b] = new
    BY <1>1, <1>3 DEF Typed, Open
  <2>4. \A n \in new : Parent[n] = Root \/ Parent[n] \in new
    BY <1>1, OpenListed
  <2> QED BY <1>1, <2>2, <2>3, <2>4 DEF Listed
<1>4. CASE Compress(b) \/ Rename(b) \/ Cleanup(b)
  <2>1. pc'[b] \notin {"stat", "contents"}
    BY <1>1, <1>4 DEF Typed, Compress, Rename, Cleanup, Goto
  <2>2. Entries(b)' = Entries(b)
    <3>1. \/ \E t \in BOOLEAN : cpio' = [cpio EXCEPT ![b].there = t]
          \/ cpio' = [cpio EXCEPT ![b].there = TRUE, ![b].packed = TRUE]
          \/ cpio' = cpio
      BY <1>4 DEF Compress, Rename, Cleanup
    <3>2. CASE \E t \in BOOLEAN : cpio' = [cpio EXCEPT ![b].there = t]
      <4>1. PICK t \in BOOLEAN : cpio' = [cpio EXCEPT ![b].there = t]
        BY <3>2
      <4>2. cpio' = [cpio EXCEPT ![b] = File3(t, cpio[b].packed, Entries(b))]
        BY <1>1, <4>1, CpioUpdates
      <4> QED BY <1>1, <4>2, CpioUpdates, CpioBecomes
    <3>3. CASE cpio' = [cpio EXCEPT ![b].there = TRUE, ![b].packed = TRUE]
      <4>1. cpio' = [cpio EXCEPT ![b] = File3(TRUE, TRUE, Entries(b))]
        BY <1>1, <3>3, CpioUpdates
      <4> QED BY <1>1, <4>1, CpioUpdates, CpioBecomes
    <3>4. CASE cpio' = cpio
      BY <3>4 DEF Entries
    <3> QED BY <3>1, <3>2, <3>3, <3>4
  <2> QED BY <1>1, <2>1, <2>2 DEF Listed
<1>5. CASE Stat(b)
  <2>1. PICK n \in todo[b] :
          /\ First(n, todo[b]) /\ todo'[b] = todo[b] \ {n}
          /\ \/ pc'[b] = "stopped" /\ Entries(b)' = Entries(b)
             \/ \E e \in EntryOf(Unit) : e.name = n /\ Entries(b)' = Append(Entries(b), e)
    BY <1>1, <1>5, StatStep
  <2>2. pc[b] = "stat"
    BY <1>5 DEF Stat, Baking, At
  <2>3. CASE pc'[b] = "stopped" /\ Entries(b)' = Entries(b)
    BY <1>1, <2>3 DEF Listed
  <2>4. CASE \E e \in EntryOf(Unit) : e.name = n /\ Entries(b)' = Append(Entries(b), e)
    <3>1. PICK e \in EntryOf(Unit) : e.name = n /\ Entries(b)' = Append(Entries(b), e)
      BY <2>4
    <3>2. \A m \in todo[b] : \/ Parent[m] = Root \/ Parent[m] \in todo[b]
                             \/ \E j \in 1..Len(Entries(b)) : Entries(b)[j].name = Parent[m]
      BY <1>1, <2>2 DEF Listed
    <3>3. Parent[n] = Root \/ Parent[n] \notin todo[b]
      <4>1. PICK i \in DOMAIN Order :
              n = Order[i] /\ \A j \in 1..(i - 1) : Order[j] \notin todo[b]
        BY <2>1 DEF First
      <4>2. Parent[n] # Root => \E j \in 1..(i - 1) : Order[j] = Parent[n]
        BY <4>1, ReleaseAssumption
      <4> QED BY <4>1, <4>2
    <3>4. Parent[e.name] = Root \/ \E j \in 1..Len(Entries(b)) : Entries(b)[j].name = Parent[e.name]
      BY <2>1, <3>1, <3>2, <3>3
    <3>5. MadeFirst(Append(Entries(b), e))
      BY <1>1, <3>4, AppendMadeFirst
    <3>6. ASSUME NEW m \in todo'[b]
          PROVE  \/ Parent[m] = Root \/ Parent[m] \in todo'[b]
                 \/ \E j \in 1..Len(Entries(b)') : Entries(b)'[j].name = Parent[m]
      <4> DEFINE es == Entries(b)
                 all == Append(es, e)
      <4>1. /\ \A j \in 1..Len(es) : j \in 1..Len(all) /\ all[j] = es[j]
            /\ Len(es) + 1 \in 1..Len(all) /\ all[Len(es) + 1] = e
        <5>1. es \in Seq(EntryOf(Unit))
          BY <1>1
        <5> HIDE DEF es
        <5> QED BY <5>1, AppendNames
      <4>2. \/ Parent[m] = Root \/ Parent[m] \in todo[b]
            \/ \E j \in 1..Len(es) : es[j].name = Parent[m]
        BY <2>1, <3>2, <3>6
      <4> HIDE DEF es, all
      <4>3. \/ Parent[m] = Root \/ Parent[m] \in todo'[b]
            \/ \E j \in 1..Len(all) : all[j].name = Parent[m]
        BY <2>1, <3>1, <4>1, <4>2
      <4> QED BY <3>1, <4>3 DEF es, all
    <3> QED BY <3>1, <3>5, <3>6 DEF Listed
  <2> QED BY <2>1, <2>3, <2>4
<1>6. CASE Contents(b)
  <2> DEFINE es == Entries(b)
             last == Len(es)
  <2>1. pc[b] = "contents" /\ todo' = todo
    BY <1>6 DEF Contents, Baking, At
  <2>2. PICK d \in Seq(Unit) :
          LET new == [es EXCEPT ![last] = [@ EXCEPT !.data = d]]
          IN /\ last > 0 /\ new \in Seq(EntryOf(Unit))
             /\ cpio' = [cpio EXCEPT ![b] = File3(cpio[b].there, cpio[b].packed, new)]
    BY <1>1, <1>6, ContentsStep DEF BakerOk
  <2> DEFINE new == [es EXCEPT ![last] = [@ EXCEPT !.data = d]]
  <2>3. Entries(b)' = new
    BY <1>1, <2>2, CpioUpdates, CpioBecomes
  <2>4. Len(new) = last /\ \A i \in 1..last : new[i].name = es[i].name
    <3>1. es \in Seq(EntryOf(Unit)) /\ last > 0
      BY <1>1, <2>2
    <3> HIDE DEF es
    <3>2. last \in 1..last /\ Len(new) = last /\ es[last] \in EntryOf(Unit)
      BY <2>2, <3>1
    <3>3. [es[last] EXCEPT !.data = d].name = es[last].name
      BY <3>2 DEF EntryOf
    <3>4. \A i \in 1..last : new[i] = IF i = last THEN [es[last] EXCEPT !.data = d] ELSE es[i]
      BY <3>1
    <3> HIDE DEF new
    <3> QED BY <3>2, <3>3, <3>4
  <2>5. MadeFirst(es) /\ last \in Nat
    BY <1>1
  <2> HIDE DEF new, es
  <2>6. MadeFirst(new)
    <3>1. \A i \in 1..last : \A j \in 1..(i - 1) : j \in 1..last
      BY <2>5
    <3> HIDE DEF last
    <3> QED BY <2>4, <2>5, <3>1 DEF MadeFirst, last
  <2> QED BY <1>1, <2>1, <2>3, <2>4, <2>6 DEF Listed, es
<1>7. CASE EndArchive(b)
  <2> DEFINE all == Append(Entries(b), TrailerEntry)
  <2>1. pc'[b] \notin {"stat", "contents"}
    BY <1>1, <1>7 DEF Typed, EndArchive, Goto
  <2>2. cpio' = [cpio EXCEPT ![b] = File3(cpio[b].there, cpio[b].packed, all)]
    BY <1>1, <1>7, HeadersAreEntries, AppendType DEF EndArchive
  <2>3. all \in Seq(EntryOf(Unit))
    BY <1>1, HeadersAreEntries
  <2>4. Entries(b)' = all
    BY <1>1, <2>2, <2>3, CpioUpdates, CpioBecomes
  <2>5. TrailerEntry.name = Trailer
    BY DEF TrailerEntry, Entry
  <2>6. MadeFirst(all)
    BY <1>1, <2>5, AppendMadeFirst
  <2> QED BY <2>1, <2>4, <2>6 DEF Listed
<1> QED
  BY <1>2, <1>3, <1>4, <1>5, <1>6, <1>7 DEF Bake

LEMMA MeasuredStep ==
  ASSUME AssemblerInv, OrderInv, [Next]_vars, NEW b \in Baker
  PROVE  Measured(b)'
<1>1. CASE trailer[b] # None
  <2>1. /\ trailer'[b] = trailer[b]
        /\ cpio'[b].entries = cpio[b].entries /\ cpio'[b].packed = cpio[b].packed
    BY <1>1, FrozenStep DEF Frozen, Entries
  <2>2. Contained(b)' = Contained(b)
    BY <2>1 DEF Contained
  <2> QED BY <1>1, <2>1, <2>2 DEF OrderInv, Measured
<1>2. CASE trailer[b] = None
  <2>1. CASE trailer' = trailer
    BY <1>2, <2>1 DEF Measured
  <2>2. ASSUME NEW c \in Baker, BuildTrailer(c), trailer' # trailer PROVE Measured(b)'
    <3> DEFINE t == [k |-> "trailer", sha1 |-> c, command |-> opts.command,
                     contents_length |-> Len(Contained(c)) % Word,
                     contents_offset |-> 1 % Word,
                     compression |-> IF opts.zstd THEN "zstd" ELSE "none"]
    <3>1. trailer' = [trailer EXCEPT ![c] = t] /\ cpio' = cpio
      BY <2>2 DEF BuildTrailer
    <3>2. t.contents_length = Len(Contained(c)) % Word /\ t.contents_offset = 1 % Word
      OBVIOUS
    <3>3. Contained(b)' = Contained(b)
      BY <3>1 DEF Contained
    <3> HIDE DEF t
    <3>4. CASE b = c
      <4>1. trailer'[b] = t
        BY <3>1, <3>4 DEF AssemblerInv, Typed
      <4> QED BY <3>2, <3>3, <3>4, <4>1 DEF Measured
    <3>5. CASE b # c
      <4>1. trailer'[b] = trailer[b]
        BY <3>1, <3>5 DEF AssemblerInv, Typed
      <4> QED BY <1>2, <4>1 DEF Measured
    <3> QED BY <3>4, <3>5
  <2>3. trailer' = trailer \/ \E c \in Baker : BuildTrailer(c)
    BY DEF Next, Bake, Configure, EmptyScript, FillScript, Open, Stat, Contents, EndArchive, Compress,
           Rename, OpenOutput, WriteOutput, Chmod, Cleanup, Stop, Touch,
           ReadTrailer, Read, Validate, vars, bakerVars
  <2> QED BY <2>1, <2>2, <2>3
<1> QED
  BY <1>1, <1>2

LEMMA OrderStep == AssemblerInv /\ OrderInv /\ [Next]_vars => OrderInv'
<1> SUFFICES ASSUME AssemblerInv, OrderInv, [Next]_vars PROVE OrderInv'
  OBVIOUS
<1>1. ReleaseClosed'
  BY ReleaseStep DEF AssemblerInv, OrderInv
<1>2. ASSUME NEW b \in Baker PROVE Listed(b)' /\ MadeFirst(Entries(b)')
  <2>1. CASE Bake(b)
    BY <2>1, OrderOwn
  <2>2. ASSUME NEW c \in Baker \ {b}, Bake(c) PROVE Listed(b)' /\ MadeFirst(Entries(b)')
    <3>1. Typed /\ BakerOk(c) /\ b \in Baker \ {c}
      BY <2>2 DEF AssemblerInv, BakerInv, BakerOk
    <3>2. pc'[b] = pc[b] /\ todo'[b] = todo[b] /\ cpio'[b] = cpio[b]
      BY <2>2, <3>1, BakeOthers
    <3>3. Entries(b)' = Entries(b)
      BY <3>2 DEF Entries
    <3> QED BY <3>2, <3>3 DEF OrderInv, Listed
  <2>3. CASE UNCHANGED <<pc, todo, cpio>>
    <3>1. Entries(b)' = Entries(b)
      BY <2>3 DEF Entries
    <3> QED BY <2>3, <3>1 DEF OrderInv, Listed
  <2>4. UNCHANGED <<pc, todo, cpio>> \/ \E c \in Baker : Bake(c)
    BY DEF Next, Touch, ReadTrailer, Read, Validate, vars, bakerVars
  <2> QED BY <2>1, <2>2, <2>3, <2>4
<1>3. \A b \in Baker : MadeFirst(Entries(b))'
  BY <1>2 DEF MadeFirst
<1>4. \A b \in Baker : Measured(b)'
  BY MeasuredStep
<1> QED
  BY <1>1, <1>2, <1>3, <1>4 DEF OrderInv

-----------------------------------------------------------------------------
(* A good executable                                                       *)

LEMMA SandwichFacts ==
  ASSUME NEW S, NEW c \in Seq(S), NEW x, NEW t
  PROVE  LET w == <<x>> \o c \o <<t>> IN
         /\ Len(c) \in Nat /\ Len(w) = Len(c) + 2 /\ w # <<>>
         /\ w[1] = x /\ w[Len(c) + 2] = t
         /\ \A i \in 1..Len(c) : w[i + 1] = c[i]
<1> DEFINE U == S \cup {x, t}
           v == <<x>> \o c
           w == v \o <<t>>
<1>1. /\ v \in Seq(U) /\ Len(c) \in Nat /\ Len(v) = Len(c) + 1 /\ v[1] = x
      /\ \A i \in 1..Len(c) : v[1 + i] = c[i]
  <2>1. c \in Seq(U) /\ <<x>> \in Seq(U) /\ Len(<<x>>) = 1 /\ <<x>>[1] = x
    OBVIOUS
  <2> HIDE DEF U
  <2>2. /\ v \in Seq(U) /\ Len(c) \in Nat /\ Len(v) = Len(<<x>>) + Len(c)
        /\ \A q \in 1..Len(<<x>>) : v[q] = <<x>>[q]
        /\ \A i \in 1..Len(c) : v[Len(<<x>>) + i] = c[i]
    BY <2>1, ConcatFacts
  <2> HIDE DEF v
  <2>3. 1 \in 1..Len(<<x>>)
    BY <2>1
  <2>4. v[1] = x
    BY <2>1, <2>2, <2>3
  <2> QED BY <2>1, <2>2, <2>4
<1>2. /\ w \in Seq(U) /\ Len(w) = Len(v) + 1 /\ w[Len(v) + 1] = t
      /\ \A q \in 1..Len(v) : w[q] = v[q]
  <2>1. t \in U
    OBVIOUS
  <2> HIDE DEF U, v
  <2> QED BY <1>1, <2>1
<1> HIDE DEF U, v
<1>3. /\ Len(w) = Len(c) + 2 /\ w[Len(c) + 2] = t
      /\ 1 \in 1..Len(v) /\ \A i \in 1..Len(c) : i + 1 \in 1..Len(v) /\ i + 1 = 1 + i
  <2> HIDE DEF w
  <2> DEFINE n == Len(c)
             k == Len(v)
             z == Len(w)
  <2>1. n \in Nat /\ k = n + 1 /\ z = k + 1 /\ w[k + 1] = t
    BY <1>1, <1>2
  <2> HIDE DEF n, k, z
  <2>2. /\ z = n + 2 /\ w[n + 2] = t /\ 1 \in 1..k
        /\ \A i \in 1..n : i + 1 \in 1..k /\ i + 1 = 1 + i
    <3>1. k + 1 = n + 2
      BY <2>1
    <3> QED BY <2>1, <3>1
  <2> QED BY <2>2 DEF n, k, z
<1>4. w # <<>>
  <2> HIDE DEF w
  <2> QED BY <1>1, <1>2, <1>3
<1>5. w[1] = x /\ \A i \in 1..Len(c) : w[i + 1] = c[i]
  <2> HIDE DEF w
  <2> QED BY <1>1, <1>2, <1>3
<1>6. <<x>> \o c \o <<t>> = w
  BY DEF v
<1> HIDE DEF w
<1> QED
  BY <1>1, <1>3, <1>4, <1>5, <1>6

LEMMA ExecutableFacts ==
  ASSUME Typed, NEW b \in Baker
  PROVE  /\ Contained(b) \in Seq(PlainPieces)
         /\ Len(Contained(b)) \in Nat /\ Len(Executable(b)) = Len(Contained(b)) + 2
         /\ Executable(b) # <<>> /\ Executable(b)[1] = Elf
         /\ Executable(b)[Len(Contained(b)) + 2] = trailer[b]
         /\ \A i \in 1..Len(Contained(b)) : Executable(b)[i + 1] = Contained(b)[i]
<1> DEFINE c == Contained(b)
           t == trailer[b]
<1>1. c \in Seq(PlainPieces)
  BY ContainedType
<1>2. Executable(b) = <<Elf>> \o c \o <<t>>
  BY DEF Executable
<1> HIDE DEF c, t
<1>3. /\ Len(c) \in Nat /\ Len(Executable(b)) = Len(c) + 2
      /\ Executable(b) # <<>> /\ Executable(b)[1] = Elf
      /\ Executable(b)[Len(c) + 2] = t
      /\ \A i \in 1..Len(c) : Executable(b)[i + 1] = c[i]
  BY <1>1, <1>2, SandwichFacts
<1> QED
  BY <1>1, <1>3 DEF c, t

\* An executable that is good after a step, and that the step has not written, was good
\* before it.
LEMMA GoodWas ==
  ASSUME AssemblerInv, AssemblerInv', [Next]_vars, out'.pieces = out.pieces,
         NEW b \in Baker, Good(b)'
  PROVE  /\ Good(b) /\ trailer'[b] = trailer[b] /\ Contained(b)' = Contained(b)
<1>1. trailer'[b] # None /\ out'.pieces = Executable(b)' /\ Representable(b)'
  BY DEF Good
<1>2. trailer[b] # None
  <2>1. SUFFICES ASSUME trailer[b] = None PROVE FALSE
    OBVIOUS
  <2>2. cpio' = cpio
    <3>1. trailer' # trailer
      BY <1>1, <2>1
    <3> QED BY <3>1, NewTrailer
  <2>3. Contained(b)' = Contained(b)
    BY <2>2 DEF Contained
  <2> DEFINE c == Contained(b)
             t == trailer'[b]
             w == out.pieces
  <2>4. w = <<Elf>> \o c \o <<t>>
    BY <1>1, <2>3 DEF Executable
  <2>5. c \in Seq(PlainPieces)
    BY ContainedType DEF AssemblerInv
  <2> HIDE DEF c, t, w
  <2>6. Len(c) \in Nat /\ Len(w) = Len(c) + 2 /\ w[Len(c) + 2] = t
    BY <2>4, <2>5, SandwichFacts
  <2>7. Len(w) \in 1..Len(w) /\ w[Len(w)] = t
    <3> DEFINE n == Len(c)
               k == Len(w)
    <3>1. n \in Nat /\ k = n + 2 /\ w[n + 2] = t
      BY <2>6
    <3> HIDE DEF n, k
    <3>2. k \in 1..k /\ w[k] = t
      BY <3>1
    <3> QED BY <3>2 DEF k
  <2>8. t.k = "trailer" /\ t # None /\ t.sha1 = b
    <3>1. t \in Trailers
      BY <1>1 DEF t, AssemblerInv, Typed
    <3>2. t.sha1 = b
      BY <1>1 DEF t, AssemblerInv, BakerInv, Described
    <3> QED BY <1>1, <3>1, <3>2 DEF Trailers, t
  <2>9. PICK d \in Baker : trailer[d] = t
    BY <2>7, <2>8 DEF AssemblerInv, OutInv, Written, w
  <2>10. d = b
    BY <2>8, <2>9 DEF AssemblerInv, BakerInv, Described
  <2> QED BY <2>1, <2>8, <2>9, <2>10
<1>3. /\ trailer'[b] = trailer[b] /\ Entries(b)' = Entries(b) /\ cpio'[b].packed = cpio[b].packed
  BY <1>2, FrozenStep DEF Frozen
<1>4. Contained(b)' = Contained(b)
  BY <1>3 DEF Contained, Entries
<1>5. Executable(b)' = Executable(b)
  BY <1>3, <1>4 DEF Executable
<1>6. Representable(b)
  <2>1. SumWraps(b)' = SumWraps(b)
    BY <1>3 DEF SumWraps
  <2> QED BY <1>1, <1>3, <1>4, <2>1 DEF Representable
<1> QED
  BY <1>1, <1>2, <1>3, <1>4, <1>5, <1>6 DEF Good

\* The archive in a good executable is one that the extractor has no reason to refuse.
LEMMA GoodFits ==
  ASSUME AssemblerInv, OrderInv, NEW b \in Baker, trailer[b] # None, Representable(b)
  PROVE  \E es : /\ Regular(es, Unit) /\ Fits(es) /\ Extends(Entries(b), es, Unit)
                 /\ Entries(b)[Len(es) + 1] = TrailerEntry
<1> DEFINE all == Entries(b)
<1>1. Whole(all) /\ MadeFirst(all)
  BY DEF AssemblerInv, BakerInv, Finished, OrderInv
<1>2. PICK es : /\ Regular(es, Unit) /\ Extends(all, es, Unit)
                /\ all[Len(es) + 1] = TrailerEntry
  BY <1>1 DEF Whole
<1> DEFINE N == Len(es)
<1>3. /\ N \in Nat /\ Len(all) = N + 1 /\ DOMAIN all = 1..(N + 1)
      /\ \A i \in 1..N : all[i] = es[i]
      /\ \A i \in 1..N : i \in 1..(N + 1) /\ \A j \in 1..(i - 1) : j \in 1..N
  <2>1. es \in Seq(EntryOf(Unit)) /\ all \in Seq(EntryOf(Unit)) /\ Len(all) = N + 1
        /\ \A i \in 1..N : all[i] = es[i]
    BY <1>2 DEF Regular, Extends
  <2>2. N \in Nat /\ DOMAIN all = 1..(N + 1)
    <3> HIDE DEF all
    <3> QED BY <2>1
  <2> HIDE DEF N
  <2> QED BY <2>1, <2>2
<1>4. ASSUME NEW i \in 1..N
      PROVE  /\ Length(Pieces(es[i])[1]) # 0
             /\ es[i].mode # "dir" => es[i].size = Len(es[i].data)
             /\ NameSize[es[i].name] <= MaxName
             /\ Parent[es[i].name] = Root \/ \E j \in 1..(i - 1) : es[j].name = Parent[es[i].name]
  <2>1. es[i].name \in Names /\ es[i].mode \in Modes /\ es[i].name # Trailer
    BY <1>2, NamesAssumption DEF Regular
  <2>2. i \in DOMAIN Entries(b) /\ Entries(b)[i] = es[i] /\ i \in 1..Len(all) /\ all[i] = es[i]
    BY <1>3
  <2>3. es[i] \in Range(Entries(b))
    BY <2>2 DEF Range
  <2>4. Length(Pieces(es[i])[1]) # 0
    BY <2>1, <2>2 DEF Representable, SumWraps
  <2>5. /\ es[i].mode # "dir" => es[i].size = Len(es[i].data)
        /\ NameSize[es[i].name] <= MaxName
    BY <2>1, <2>3 DEF Representable, Modes
  <2>6. Parent[es[i].name] = Root \/ \E j \in 1..(i - 1) : es[j].name = Parent[es[i].name]
    <3>1. Parent[all[i].name] = Root \/ \E j \in 1..(i - 1) : all[j].name = Parent[all[i].name]
      BY <1>1, <2>1, <2>2 DEF MadeFirst
    <3> HIDE DEF all, N
    <3> QED BY <1>3, <2>2, <3>1
  <2> QED BY <2>4, <2>5, <2>6
<1>5. Fits(es)
  BY <1>4 DEF Fits
<1> QED
  BY <1>2, <1>5

-----------------------------------------------------------------------------
(* A launch of a good executable                                           *)

\* The extraction waits until a launch has read the whole archive, and is done then.
LEMMA GoodExtracts ==
  ASSUME AssemblerInv, OrderInv, NEW b \in Baker, Good(b), NEW l \in Launch, Reading(l, b)
  PROVE  Extracted(l).status
           = IF Len(got[l]) < Len(Contained(b)) THEN "short" ELSE "done"
<1> DEFINE a == Archive(Entries(b))
           c == Contained(b)
           m == Len(got[l])
<1>1. trailer[b] # None /\ Representable(b)
  BY DEF Good
<1>2. PICK es : /\ Regular(es, Unit) /\ Fits(es) /\ Extends(Entries(b), es, Unit)
                /\ Entries(b)[Len(es) + 1] = TrailerEntry
  BY <1>1, GoodFits
<1>3. ASSUME NEW k \in 0..Len(a)
      PROVE  Extract(SubSeq(a, 1, k)).status = IF k < Len(a) THEN "short" ELSE "done"
  BY <1>2, ReleaseAssumption, GoodArchivesExtract
<1>4. /\ a \in Seq(PieceOf(Unit)) /\ Len(a) \in Nat /\ c \in Seq(PlainPieces) /\ Len(c) \in Nat
  <2>1. Entries(b) \in Seq(EntryOf(Unit))
    BY CpioUpdates DEF AssemblerInv
  <2>2. a \in Seq(PieceOf(Unit))
    BY <2>1, ArchiveType
  <2>3. c \in Seq(PlainPieces)
    BY ContainedType DEF AssemblerInv
  <2> HIDE DEF a, c
  <2> QED BY <2>2, <2>3
<1>5. seen[l] = trailer[b] /\ m \in 0..Len(c) /\ got[l] = SubSeq(c, 1, m)
  BY DEF Reading
<1>6. /\ trailer[b].compression = "zstd" <=> cpio[b].packed
  BY <1>1 DEF AssemblerInv, BakerInv, Described
<1>7. SubSeq(a, 1, Len(a)) = a /\ SubSeq(c, 1, Len(c)) = c
  <2> HIDE DEF a, c
  <2> QED BY <1>4, OpeningOfAll
<1>8. CASE m = Len(c)
  <2>1. Stream(l) = a
    <3>1. got[l] = c
      <4> HIDE DEF c, m
      <4> QED BY <1>5, <1>7, <1>8
    <3> QED BY <1>1, <1>5, <3>1, StreamIsArchive DEF AssemblerInv
  <2>2. Len(a) \in 0..Len(a) /\ ~ (Len(a) < Len(a)) /\ ~ (m < Len(c))
    <3> HIDE DEF a, c, m
    <3> QED BY <1>4, <1>8
  <2>3. Extract(a).status = "done"
    <3> HIDE DEF a
    <3> QED BY <1>3, <1>7, <2>2
  <2> QED BY <2>1, <2>2, <2>3 DEF Extracted
<1>9. CASE m # Len(c) /\ ~ cpio[b].packed
  <2>1. c = a
    BY <1>9 DEF Contained, Entries
  <2>2. Stream(l) = SubSeq(a, 1, m)
    BY <1>5, <1>6, <1>9, <2>1 DEF Stream
  <2>3. m < Len(c) /\ m \in 0..Len(a) /\ m < Len(a)
    <3> HIDE DEF a, c, m
    <3> QED BY <1>4, <1>5, <1>9, <2>1
  <2>4. Extract(SubSeq(a, 1, m)).status = "short"
    <3> HIDE DEF a, c, m
    <3> QED BY <1>3, <2>3
  <2> QED BY <2>2, <2>3, <2>4 DEF Extracted
<1>10. CASE m # Len(c) /\ cpio[b].packed
  <2>1. m < Len(c)
    <3> HIDE DEF c, m
    <3> QED BY <1>4, <1>5, <1>10
  <2>2. Unpack(got[l]) = <<>>
    <3>1. SUFFICES ASSUME got[l] # <<>>, got[l][1].k = "part" PROVE got[l] # Contained(got[l][1].archive)
      BY DEF Unpack
    <3>2. m \in Nat /\ Len(SubSeq(c, 1, m)) = m /\ \A q \in 1..m : SubSeq(c, 1, m)[q] = c[q]
      <4> HIDE DEF c, m
      <4> QED BY <1>4, <1>5, OpeningFacts
    <3>3. 1 \in 1..m /\ 1 \in 1..Len(c)
      <4>1. m # 0
        <5>1. SUFFICES ASSUME m = 0 PROVE FALSE
          OBVIOUS
        <5>2. SubSeq(c, 1, 0) = <<>>
          <6> HIDE DEF c
          <6> QED BY <1>4
        <5> QED BY <1>5, <3>1, <5>1, <5>2
      <4> HIDE DEF c, m
      <4> QED BY <1>4, <2>1, <3>2, <4>1
    <3>4. got[l][1] = c[1]
      <4> HIDE DEF c, m
      <4> QED BY <1>5, <3>2, <3>3
    <3>5. c[1].archive = b
      <4> DEFINE n == Len(a) \div 2 + 1
                 parts == [i \in 1..n |-> [k |-> "part", i |-> i, archive |-> b]]
      <4>1. c = parts
        BY <1>10 DEF Contained, Entries
      <4>2. n \in Nat /\ Len(parts) = n
        <5>1. n \in Nat
          <6> HIDE DEF a
          <6> QED BY <1>4
        <5> HIDE DEF n
        <5> QED BY <5>1
      <4>3. 1 \in 1..n
        <5> HIDE DEF n, parts, c
        <5> QED BY <3>3, <4>1, <4>2
      <4>4. parts[1].archive = b
        <5> HIDE DEF n
        <5> QED BY <4>3
      <4> HIDE DEF parts, c
      <4> QED BY <4>1, <4>4
    <3>6. got[l] # c
      <4> HIDE DEF c
      <4> QED BY <1>4, <2>1
    <3> QED BY <3>4, <3>5, <3>6
  <2>3. Stream(l) = <<>>
    BY <1>5, <1>6, <1>10, <2>2 DEF Stream
  <2>4. SubSeq(a, 1, 0) = <<>> /\ 0 \in 0..Len(a)
    <3> HIDE DEF a
    <3> QED BY <1>4
  <2>5. 0 < Len(a)
    <3>1. SUFFICES ASSUME Len(a) = 0 PROVE FALSE
      <4> HIDE DEF a
      <4> QED BY <1>4
    <3>2. PICK f : Builds(f, Entries(b))
      BY <1>2, ArchiveBuilds DEF Extends
    <3> DEFINE all == Entries(b)
               N == Len(all)
    <3>3. all \in Seq(EntryOf(Unit)) /\ N = Len(es) + 1 /\ Len(es) \in Nat /\ N \in 0..N
      <4>1. es \in Seq(EntryOf(Unit))
        BY <1>2 DEF Regular
      <4>2. all \in Seq(EntryOf(Unit)) /\ N = Len(es) + 1
        BY <1>2 DEF Extends
      <4> HIDE DEF N
      <4> QED BY <4>1, <4>2
    <3>4. Len(f[N]) >= 2 * N /\ a = f[N]
      <4>1. a = f[N]
        BY <3>2 DEF Builds
      <4>2. ASSUME NEW i \in 0..N PROVE Len(f[i]) >= 2 * i
        BY <3>2, <3>3, <4>2, ArchivePrefix
      <4> QED BY <3>3, <4>1, <4>2
    <3> HIDE DEF a, N
    <3> QED BY <3>1, <3>3, <3>4
  <2>6. Extract(<<>>).status = "short"
    <3> HIDE DEF a
    <3> QED BY <1>3, <2>4, <2>5
  <2> QED BY <2>1, <2>3, <2>6 DEF Extracted
<1> QED
  BY <1>8, <1>9, <1>10

LEMMA SmallRemainder == \A q, w \in Nat : q < w => q % w = q
OBVIOUS

\* The next pieces of a good executable continue the archive.
LEMMA GoodWanted ==
  ASSUME AssemblerInv, OrderInv, NEW b \in Baker, Good(b), NEW l \in Launch, Reading(l, b),
         Len(got[l]) < Len(Contained(b))
  PROVE  /\ Wanted(l) # <<>>
         /\ Len(got[l] \o Wanted(l)) \in 0..Len(Contained(b))
         /\ got[l] \o Wanted(l) = SubSeq(Contained(b), 1, Len(got[l] \o Wanted(l)))
<1> DEFINE c == Contained(b)
           w == out.pieces
           n == Len(got[l])
           L == Len(c)
           left == IF seen[l].compression = "zstd" THEN seen[l].contents_length - n ELSE 1
           start == seen[l].contents_offset + n
           end == Smaller(start + Smaller(Chunk, left), Len(w))
<1>1. Wanted(l) = SubSeq(w, start + 1, end)
  BY DEF Wanted
<1>2. /\ c \in Seq(PlainPieces) /\ L \in Nat /\ Len(w) = L + 2
      /\ \A i \in 1..L : w[i + 1] = c[i]
  BY ExecutableFacts DEF AssemblerInv, Good
<1>3. w \in Seq(AnyPiece)
  BY DEF AssemblerInv, Typed
<1>4. trailer[b] # None /\ Representable(b) /\ seen[l] = trailer[b]
  BY DEF Good, Reading
<1>5. /\ seen[l].contents_length = L % Word /\ seen[l].contents_offset = 1 % Word
      /\ trailer[b].compression = "zstd" <=> cpio[b].packed
  BY <1>4 DEF OrderInv, Measured, AssemblerInv, BakerInv, Described
<1>6. seen[l].contents_offset = 1
  BY <1>5, ReleaseAssumption, NamesAssumption
<1>7. n \in 0..L /\ n < L /\ got[l] = SubSeq(c, 1, n)
  BY DEF Reading
<1>8. left \in Nat /\ left > 0 /\ n + left <= L
  <2>1. CASE seen[l].compression = "zstd"
    <3>1. cpio[b].packed
      BY <1>4, <1>5, <2>1
    <3>2. L < Word
      BY <1>4, <3>1 DEF Representable
    <3>3. L % Word = L
      <4> HIDE DEF L, c
      <4> QED BY <1>2, <3>2, NamesAssumption, SmallRemainder
    <3>4. left = L - n
      BY <1>5, <2>1, <3>3
    <3> HIDE DEF left, n, L
    <3> QED BY <1>2, <1>7, <3>4
  <2>2. CASE seen[l].compression # "zstd"
    <3>1. left = 1
      BY <2>2
    <3> HIDE DEF left, n, L
    <3> QED BY <1>2, <1>7, <3>1
  <2> QED BY <2>1, <2>2
<1> DEFINE step == Smaller(Chunk, left)
<1>9. step \in Nat /\ step > 0 /\ n + step <= L
  <2> HIDE DEF left, n, L
  <2> QED BY <1>2, <1>7, <1>8, AssemblerAssumption DEF Smaller
<1>10. start = n + 1 /\ end = n + 1 + step
  <2>1. start = 1 + n
    BY <1>6
  <2> HIDE DEF start, step
  <2>2. end = Smaller(start + step, L + 2)
    BY <1>2 DEF step
  <2> HIDE DEF n, L, end
  <2> QED BY <1>2, <1>7, <1>9, <2>1, <2>2 DEF Smaller
<1> HIDE DEF start, end, left, step, L, w, c, n
<1> DEFINE z == SubSeq(w, n + 2, n + 1 + step)
<1>11. Wanted(l) = z
  <2>1. (n + 1) + 1 = n + 2
    BY <1>7
  <2> QED BY <1>1, <1>10, <2>1
<1>12. /\ z \in Seq(AnyPiece) /\ Len(z) = step
       /\ \A q \in 1..step : z[q] = c[n + q]
  <2> DEFINE i == n + 2
             j == n + 1 + step
  <2>1. i \in 1..(Len(w) + 1) /\ j \in (i - 1)..Len(w) /\ step = j - i + 1
    BY <1>2, <1>7, <1>9
  <2>2. \A q \in 1..step : i + q - 1 = (n + q) + 1 /\ n + q \in 1..L
    BY <1>2, <1>7, <1>9
  <2> HIDE DEF i, j
  <2>3. /\ SubSeq(w, i, j) \in Seq(AnyPiece) /\ Len(SubSeq(w, i, j)) = j - i + 1
        /\ \A q \in 1..(j - i + 1) : SubSeq(w, i, j)[q] = w[i + q - 1]
    BY <1>3, <2>1
  <2>4. \A q \in 1..step : w[i + q - 1] = c[n + q]
    BY <1>2, <2>2 DEF L
  <2> QED BY <2>1, <2>3, <2>4 DEF i, j
<1>13. /\ got[l] \in Seq(AnyPiece) /\ Len(got[l]) = n
       /\ \A q \in 1..n : got[l][q] = c[q]
  <2>1. got[l] \in Seq(AnyPiece)
    BY DEF AssemblerInv, Typed
  <2>2. /\ Len(SubSeq(c, 1, n)) = n /\ \A q \in 1..n : SubSeq(c, 1, n)[q] = c[q]
    BY <1>2, <1>7, OpeningFacts DEF L
  <2> QED BY <1>7, <2>1, <2>2
<1> DEFINE g == got[l]
           k == n + step
<1> HIDE DEF z, g
<1>14. /\ g \o z \in Seq(AnyPiece) /\ Len(g \o z) = k
       /\ \A q \in 1..k : (g \o z)[q] = c[q]
  <2>1. g \in Seq(AnyPiece) /\ Len(g) = n /\ \A q \in 1..n : g[q] = c[q]
    BY <1>13 DEF g
  <2>2. /\ g \o z \in Seq(AnyPiece) /\ Len(g \o z) = n + step
        /\ \A q \in 1..n : (g \o z)[q] = g[q]
        /\ \A q \in 1..step : (g \o z)[n + q] = z[q]
    <3>1. /\ g \o z \in Seq(AnyPiece) /\ Len(g \o z) = Len(g) + Len(z)
          /\ \A q \in 1..Len(g) : (g \o z)[q] = g[q]
          /\ \A q \in 1..Len(z) : (g \o z)[Len(g) + q] = z[q]
      <4>1. g \in Seq(AnyPiece) /\ z \in Seq(AnyPiece)
        BY <1>12, <2>1
      <4> QED BY <4>1, ConcatFacts
    <3> QED BY <1>12, <2>1, <3>1
  <2>3. ASSUME NEW q \in 1..k PROVE (g \o z)[q] = c[q]
    <3>1. CASE q <= n
      <4>1. q \in 1..n
        BY <1>7, <3>1
      <4> QED BY <2>1, <2>2, <4>1
    <3>2. CASE q > n
      <4>1. q - n \in 1..step /\ n + (q - n) = q
        BY <1>7, <1>9, <3>2
      <4> QED BY <1>12, <2>2, <4>1
    <3>3. q <= n \/ q > n
      <4>1. n \in Nat /\ k \in Nat
        BY <1>2, <1>7, <1>9
      <4> HIDE DEF k
      <4> QED BY <4>1
    <3> QED BY <3>1, <3>2, <3>3
  <2> QED BY <2>2, <2>3
<1>15. k \in 0..L /\ k \in 0..Len(c) /\ k \in Nat
  BY <1>2, <1>7, <1>9 DEF L
<1> HIDE DEF k
<1>16. g \o z = SubSeq(c, 1, k)
  <2>1. /\ SubSeq(c, 1, k) \in Seq(PlainPieces) /\ Len(SubSeq(c, 1, k)) = k
        /\ \A q \in 1..k : SubSeq(c, 1, k)[q] = c[q]
    BY <1>2, <1>15, OpeningFacts
  <2> DEFINE u == SubSeq(c, 1, k)
             v == g \o z
  <2>2. /\ u \in Seq(PlainPieces) /\ Len(u) = k /\ v \in Seq(AnyPiece) /\ Len(v) = k
        /\ \A q \in 1..k : u[q] = v[q]
    BY <1>14, <2>1
  <2> HIDE DEF u, v
  <2>3. u = v
    <3>1. u = [q \in 1..k |-> u[q]] /\ v = [q \in 1..k |-> v[q]]
      BY <2>2
    <3> QED BY <2>2, <3>1
  <2> QED BY <2>3 DEF u, v
<1>17. z # <<>>
  BY <1>9, <1>12
<1> QED
  BY <1>11, <1>14, <1>15, <1>16, <1>17 DEF g, L, c

-----------------------------------------------------------------------------
(* Reading stays on a good executable                                      *)

\* What ReadInv says of one launch.
ReadOk(l) ==
  /\ lpc[l] = "idle" => got[l] = <<>>
  /\ l \in steady => \A b \in Baker : Good(b) => /\ lpc[l] # "refused"
                                                 /\ lpc[l] = "read" => Reading(l, b)

\* A launch that stands still while nobody writes the executable.
LEMMA ReadStays ==
  ASSUME AssemblerInv, AssemblerInv', [Next]_vars, NEW l \in Launch, ReadOk(l),
         lpc'[l] = lpc[l], seen'[l] = seen[l], got'[l] = got[l],
         l \in steady' => l \in steady /\ out'.pieces = out.pieces
  PROVE  ReadOk(l)'
<1>1. lpc'[l] = "idle" => got'[l] = <<>>
  BY DEF ReadOk
<1>2. ASSUME l \in steady', NEW b \in Baker, Good(b)'
      PROVE  lpc'[l] # "refused" /\ (lpc'[l] = "read" => Reading(l, b)')
  <2>1. Good(b) /\ trailer'[b] = trailer[b] /\ Contained(b)' = Contained(b)
    BY <1>2, GoodWas
  <2>2. lpc[l] # "refused" /\ (lpc[l] = "read" => Reading(l, b))
    BY <1>2, <2>1 DEF ReadOk
  <2>3. Reading(l, b) => Reading(l, b)'
    BY <2>1 DEF Reading
  <2> QED BY <2>2, <2>3
<1> QED
  BY <1>1, <1>2 DEF ReadOk

\* No baker writes without ending the steadiness of every launch.
LEMMA BakeReads ==
  ASSUME AssemblerInv, AssemblerInv', ReadInv, NEW c \in Baker, Bake(c)
  PROVE  ReadInv'
<1>1. [Next]_vars
  BY DEF Next
<1>2. UNCHANGED launchVars
  BY DEF Bake, Configure, EmptyScript, FillScript, Open, Stat, Contents, EndArchive, Compress,
         Rename, BuildTrailer, OpenOutput, WriteOutput, Chmod, Cleanup, Stop, Baking
<1>3. \/ steady' = {}
      \/ steady' = steady /\ out'.pieces = out.pieces
  <2>1. CASE Chmod(c)
    <3>1. out \in [there : BOOLEAN, runnable : BOOLEAN, pieces : Seq(AnyPiece)]
      BY DEF AssemblerInv, Typed
    <3> QED BY <2>1, <3>1 DEF Chmod
  <2>2. CASE ~ Chmod(c)
    BY <2>2 DEF Bake, Configure, EmptyScript, FillScript, Open, Stat, Contents, EndArchive,
                Compress, Rename, BuildTrailer, OpenOutput, WriteOutput, Cleanup, Stop, outVars
  <2> QED BY <2>1, <2>2
<1>4. ASSUME NEW l \in Launch PROVE ReadOk(l)'
  <2>1. /\ lpc'[l] = lpc[l] /\ seen'[l] = seen[l] /\ got'[l] = got[l]
        /\ l \in steady' => l \in steady /\ out'.pieces = out.pieces
    BY <1>2, <1>3 DEF launchVars
  <2>2. ReadOk(l)
    BY DEF ReadInv, ReadOk
  <2> QED BY <1>1, <2>1, <2>2, ReadStays
<1> QED
  BY <1>4 DEF ReadInv, ReadOk

\* Neither the release nor a launch of somebody else matters.
LEMMA OthersRead ==
  ASSUME AssemblerInv, AssemblerInv', ReadInv, [Next]_vars, UNCHANGED out,
         NEW l \in Launch, lpc'[l] = lpc[l], seen'[l] = seen[l], got'[l] = got[l],
         l \in steady' => l \in steady
  PROVE  ReadOk(l)'
<1>1. ReadOk(l)
  BY DEF ReadInv, ReadOk
<1> QED
  BY <1>1, ReadStays

\* The last piece of a good executable is the trailer.
LEMMA ReadTrailerReads ==
  ASSUME AssemblerInv, AssemblerInv', ReadInv, NEW l \in Launch, ReadTrailer(l)
  PROVE  ReadInv'
<1>1. [Next]_vars
  BY DEF Next
<1>2. lpc \in [Launch -> {"idle", "read", "accepted", "refused"}] /\ seen \in [Launch -> Trailers \cup {None}]
  BY DEF AssemblerInv, Typed
<1>3. UNCHANGED <<release, touches, out, bakerVars, got>> /\ steady' = steady \cup {l}
  BY DEF ReadTrailer
<1>4. ASSUME NEW m \in Launch, m # l PROVE ReadOk(m)'
  <2>1. lpc'[m] = lpc[m] /\ seen'[m] = seen[m]
    BY <1>2, <1>4 DEF ReadTrailer
  <2>2. UNCHANGED out /\ got'[m] = got[m] /\ (m \in steady' => m \in steady)
    BY <1>3, <1>4
  <2> QED BY <1>1, <2>1, <2>2, OthersRead
<1>5. ReadOk(l)'
  <2>1. lpc'[l] # "idle"
    BY <1>2 DEF ReadTrailer
  <2>2. ASSUME NEW b \in Baker, Good(b)'
        PROVE  lpc'[l] = "read" /\ Reading(l, b)'
    <3>1. Good(b) /\ trailer'[b] = trailer[b] /\ Contained(b)' = Contained(b)
      BY <1>1, <1>3, <2>2, GoodWas
    <3> DEFINE c == Contained(b)
               w == out.pieces
    <3>2. /\ c \in Seq(PlainPieces) /\ Len(c) \in Nat /\ Len(w) = Len(c) + 2
          /\ w[Len(c) + 2] = trailer[b]
      BY <3>1, ExecutableFacts DEF AssemblerInv, Good
    <3>3. w[Len(w)] = trailer[b]
      BY <3>2
    <3>4. trailer[b] \in Trailers
      BY <3>1 DEF Good, AssemblerInv, Typed
    <3>5. trailer[b].k = "trailer"
      BY <3>4 DEF Trailers
    <3>6. lpc'[l] = "read" /\ seen'[l] = trailer[b]
      BY <1>2, <3>3, <3>5 DEF ReadTrailer
    <3>7. got'[l] = <<>>
      <4>1. lpc[l] = "idle" => got[l] = <<>>
        BY DEF ReadInv
      <4> QED BY <1>3, <4>1 DEF ReadTrailer
    <3>8. /\ Len(got'[l]) \in 0..Len(c)
          /\ got'[l] = SubSeq(c, 1, Len(got'[l]))
      <4> HIDE DEF c, w
      <4>1. Len(got'[l]) = 0
        BY <3>7
      <4>2. SubSeq(c, 1, 0) = <<>>
        BY <3>2
      <4> QED BY <3>2, <3>7, <4>1, <4>2
    <3> QED BY <3>1, <3>6, <3>8 DEF Reading
  <2> QED BY <2>1, <2>2 DEF ReadOk
<1> QED
  BY <1>4, <1>5 DEF ReadInv, ReadOk

\* A read takes the next pieces of the archive.
LEMMA ReadReads ==
  ASSUME AssemblerInv, AssemblerInv', OrderInv, ReadInv, NEW l \in Launch, Read(l)
  PROVE  ReadInv'
<1>1. [Next]_vars
  BY DEF Next
<1>2. /\ UNCHANGED <<out, steady, lpc, seen>> /\ lpc[l] = "read"
      /\ got' = [got EXCEPT ![l] = @ \o Wanted(l)] /\ Extracted(l).status = "short"
  BY DEF Read, outVars
<1>3. got \in [Launch -> Seq(AnyPiece)]
  BY DEF AssemblerInv, Typed
<1>4. ASSUME NEW m \in Launch, m # l PROVE ReadOk(m)'
  <2>1. /\ lpc'[m] = lpc[m] /\ seen'[m] = seen[m] /\ got'[m] = got[m] /\ UNCHANGED out
        /\ m \in steady' => m \in steady
    BY <1>2, <1>3, <1>4
  <2> QED BY <1>1, <2>1, OthersRead
<1>5. ReadOk(l)'
  <2>1. lpc'[l] = "read"
    BY <1>2
  <2>2. ASSUME l \in steady', NEW b \in Baker, Good(b)'
        PROVE  Reading(l, b)'
    <3>1. Good(b) /\ trailer'[b] = trailer[b] /\ Contained(b)' = Contained(b)
      BY <1>1, <1>2, <2>2, GoodWas
    <3>2. Reading(l, b)
      BY <1>2, <2>2, <3>1 DEF ReadInv
    <3>3. Len(got[l]) < Len(Contained(b))
      <4>1. Extracted(l).status = IF Len(got[l]) < Len(Contained(b)) THEN "short" ELSE "done"
        BY <3>1, <3>2, GoodExtracts
      <4> QED BY <1>2, <4>1
    <3>4. /\ Len(got[l] \o Wanted(l)) \in 0..Len(Contained(b))
          /\ got[l] \o Wanted(l) = SubSeq(Contained(b), 1, Len(got[l] \o Wanted(l)))
      BY <3>1, <3>2, <3>3, GoodWanted
    <3>5. got'[l] = got[l] \o Wanted(l) /\ seen'[l] = trailer'[b]
      BY <1>2, <1>3, <3>1, <3>2 DEF Reading
    <3> QED BY <3>1, <3>4, <3>5 DEF Reading
  <2> QED BY <2>1, <2>2 DEF ReadOk
<1> QED
  BY <1>4, <1>5 DEF ReadInv, ReadOk

\* A launch that ends has the whole archive, and the digest is that of the trailer.
LEMMA ValidateReads ==
  ASSUME AssemblerInv, AssemblerInv', OrderInv, ReadInv, NEW l \in Launch, Validate(l)
  PROVE  ReadInv'
<1>1. [Next]_vars
  BY DEF Next
<1>2. /\ UNCHANGED <<out, steady, seen, got>> /\ lpc[l] = "read"
      /\ Wanted(l) = <<>> \/ Extracted(l).status # "short"
      /\ lpc' = [lpc EXCEPT ![l] = IF Extracted(l).status = "done" /\ Verified(l)
                                     THEN "accepted" ELSE "refused"]
  BY DEF Validate, outVars
<1>3. lpc \in [Launch -> {"idle", "read", "accepted", "refused"}]
  BY DEF AssemblerInv, Typed
<1>4. ASSUME NEW m \in Launch, m # l PROVE ReadOk(m)'
  <2>1. /\ lpc'[m] = lpc[m] /\ seen'[m] = seen[m] /\ got'[m] = got[m] /\ UNCHANGED out
        /\ m \in steady' => m \in steady
    BY <1>2, <1>3, <1>4
  <2> QED BY <1>1, <2>1, OthersRead
<1>5. ReadOk(l)'
  <2>1. lpc'[l] \in {"accepted", "refused"}
    BY <1>2, <1>3
  <2>2. ASSUME l \in steady', NEW b \in Baker, Good(b)'
        PROVE  lpc'[l] = "accepted"
    <3>1. Good(b)
      BY <1>1, <1>2, <2>2, GoodWas
    <3>2. Reading(l, b)
      BY <1>2, <2>2, <3>1 DEF ReadInv
    <3>3. Extracted(l).status = IF Len(got[l]) < Len(Contained(b)) THEN "short" ELSE "done"
      BY <3>1, <3>2, GoodExtracts
    <3>4. ~ (Len(got[l]) < Len(Contained(b)))
      <4>1. SUFFICES ASSUME Len(got[l]) < Len(Contained(b)) PROVE FALSE
        OBVIOUS
      <4>2. Wanted(l) # <<>>
        BY <3>1, <3>2, <4>1, GoodWanted
      <4> QED BY <1>2, <3>3, <4>1, <4>2
    <3>5. Verified(l)
      <4> DEFINE c == Contained(b)
                 n == Len(got[l])
      <4>1. c \in Seq(PlainPieces) /\ Len(c) \in Nat
        BY ExecutableFacts DEF AssemblerInv
      <4>2. n = Len(c)
        <5>1. n \in 0..Len(c) /\ ~ (n < Len(c))
          BY <3>2, <3>4 DEF Reading
        <5> HIDE DEF c, n
        <5> QED BY <4>1, <5>1
      <4>3. got[l] = SubSeq(c, 1, n)
        BY <3>2 DEF Reading
      <4>4. got[l] = c
        <5> HIDE DEF c, n
        <5> QED BY <4>1, <4>2, <4>3, OpeningOfAll
      <4>5. seen[l].sha1 = b
        BY <3>1, <3>2 DEF Good, Reading, AssemblerInv, BakerInv, Described
      <4> QED BY <4>4, <4>5 DEF Verified
    <3> QED BY <1>2, <1>3, <3>3, <3>4, <3>5
  <2> QED BY <2>1, <2>2 DEF ReadOk
<1> QED
  BY <1>4, <1>5 DEF ReadInv, ReadOk

-----------------------------------------------------------------------------
(* The invariant                                                           *)

StartInv == AssemblerInv /\ OrderInv /\ ReadInv

LEMMA StartInvInit == Init => StartInv
<1> SUFFICES ASSUME Init PROVE StartInv
  OBVIOUS
<1>1. AssemblerInv
  BY AssemblerInvInit
<1>2. ReleaseClosed
  BY ReleaseAssumption DEF Init, ReleaseClosed
<1>3. ASSUME NEW b \in Baker PROVE Listed(b) /\ MadeFirst(Entries(b)) /\ Measured(b)
  <2>1. pc[b] = "configure" /\ trailer[b] = None /\ Entries(b) = <<>>
    BY DEF Init, Entries, NoFile
  <2>2. Listed(b) /\ Measured(b)
    BY <2>1 DEF Listed, Measured
  <2>3. MadeFirst(Entries(b))
    BY <2>1 DEF MadeFirst
  <2> QED BY <2>2, <2>3
<1>4. ReadInv
  BY DEF Init, ReadInv
<1> QED
  BY <1>1, <1>2, <1>3, <1>4 DEF StartInv, OrderInv

LEMMA StartInvStep == StartInv /\ [Next]_vars => StartInv'
<1> SUFFICES ASSUME StartInv, [Next]_vars PROVE StartInv'
  OBVIOUS
<1>1. AssemblerInv /\ OrderInv /\ ReadInv
  BY DEF StartInv
<1>2. AssemblerInv' /\ OrderInv'
  BY <1>1, AssemblerInvStep, OrderStep
<1>3. CASE \E b \in Baker : Bake(b)
  BY <1>1, <1>2, <1>3, BakeReads DEF StartInv
<1>4. CASE \E l \in Launch : ReadTrailer(l)
  BY <1>1, <1>2, <1>4, ReadTrailerReads DEF StartInv
<1>5. CASE \E l \in Launch : Read(l)
  BY <1>1, <1>2, <1>5, ReadReads DEF StartInv
<1>6. CASE \E l \in Launch : Validate(l)
  BY <1>1, <1>2, <1>6, ValidateReads DEF StartInv
<1>7. CASE Touch \/ UNCHANGED vars
  <2>1. UNCHANGED <<out, steady, lpc, seen, got>>
    BY <1>7 DEF Touch, vars, outVars, launchVars
  <2>2. ASSUME NEW l \in Launch PROVE ReadOk(l)'
    <3>1. /\ lpc'[l] = lpc[l] /\ seen'[l] = seen[l] /\ got'[l] = got[l] /\ UNCHANGED out
          /\ l \in steady' => l \in steady
      BY <2>1
    <3> QED BY <1>1, <1>2, <3>1, OthersRead
  <2> QED BY <1>2, <2>2 DEF StartInv, ReadInv, ReadOk
<1> QED
  BY <1>3, <1>4, <1>5, <1>6, <1>7 DEF Next

LEMMA StartsStep == StartInv => GoodExecutableStarts
<1> SUFFICES ASSUME StartInv, NEW l \in Launch, lpc[l] = "refused", l \in steady,
                    NEW b \in Baker, trailer[b] # None, out.pieces = Executable(b),
                    Representable(b)
             PROVE  FALSE
  BY DEF GoodExecutableStarts
<1>1. Good(b)
  BY DEF Good
<1> QED
  BY <1>1 DEF StartInv, ReadInv

\* An executable that one baker has written whole starts: as long as nobody writes to
\* it again no launch of it is refused, however many bakers and launches there are and
\* whoever changes the release meanwhile, if the formats can represent the archive.
THEOREM FinishedExecutableStarts == Spec => []GoodExecutableStarts
<1>1. Spec => []StartInv
  BY StartInvInit, StartInvStep, PTL DEF Spec
<1> QED
  BY <1>1, StartsStep, PTL
=============================================================================
