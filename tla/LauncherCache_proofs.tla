------------------------- MODULE LauncherCache_proofs --------------------------
(***************************************************************************)
(* Proofs about LauncherCache for every number of launchers, executables,  *)
(* archives and names.                                                     *)
(*                                                                         *)
(* What holds whatever goes wrong, launchers that draw the same temporary  *)
(* name and share a directory included, comes first.  The rest assumes     *)
(* that no name is drawn twice at a time (NoCollisions); crashes and       *)
(* failing calls are still allowed; only that a published entry is         *)
(* complete needs that no call whose result is ignored fails               *)
(* (NoLostCalls).                                                          *)
(***************************************************************************)
EXTENDS LauncherCache, TLAPS, FiniteSetTheorems

NoCollisions == "collision" \notin Faults

NoLostCalls == "lost" \notin Faults

BeforeExtraction == {"trailer", "probe", "mkdirs", "mktemp", "mktmp"}
Filling == {"open", "write", "chmod", "verify", "rename"}

-----------------------------------------------------------------------------
(* What holds whatever goes wrong: what a launcher has in hand has its type,  *)
(* and directories are linked at one place only.                             *)

Hand(p) ==
  /\ pc[p] \in Active \cup {"running"} => exe[p] \in Exe
  /\ pc[p] \in {"mktmp"} \cup Extracting => tmpName[p] \in Name
  /\ pc[p] \in {"write", "chmod"} => pos[p] \in File

LinkedOnce ==
  /\ \A m, n \in Name : tmpDir[m] # None /\ tmpDir[m] = tmpDir[n] => m = n
  /\ \A s, t \in Sha : appDir[s] # None /\ appDir[s] = appDir[t] => s = t
  /\ \A n \in Name, s \in Sha : tmpDir[n] # None => tmpDir[n] # appDir[s]

Base ==
  /\ TypeOK
  /\ \A p \in Proc : Hand(p)
  /\ LinkedOnce

-----------------------------------------------------------------------------
(* The inductive invariant where names do not collide: what each launcher    *)
(* knows of its own directory, and what is published.                        *)

\* A launcher's program counter agrees with what it has in hand.
Holding(p) ==
  /\ pc[p] \in Active \cup {"running"} => exe[p] \in Exe
  /\ pc[p] \in BeforeExtraction => pos[p] = 1
  /\ pc[p] \in {"mktmp"} \cup Extracting => tmpName[p] \in Name
  /\ pc[p] = "mktmp" => tmpDir[tmpName[p]] = None
  /\ pc[p] \in Extracting => tmpDir[tmpName[p]] \in Dir
  /\ fd[p] = IF pc[p] = "write" THEN tmpDir[tmpName[p]] ELSE None

\* How far the extraction has come.
Position(p) ==
  LET last == Entries[Trailer(p).contents] IN
  /\ pc[p] \in {"write", "chmod"} => pos[p] <= last
  /\ pc[p] = "open" => pos[p] <= last + 1
  /\ pc[p] \in {"verify", "rename"} => pos[p] = last + 1
  /\ pc[p] = "rename" => Trailer(p).contents = Trailer(p).sha

\* The files before the current entry are there, those after it are absent; with
\* no lost call the files that are there are also complete.
Filled(p) ==
  pc[p] \in Filling =>
    LET d == tmpDir[tmpName[p]]
        c == Trailer(p).contents
    IN \A f \in File :
         /\ f < pos[p] => content[d][f] # Absent
         /\ f > pos[p] => content[d][f] = Absent
         /\ f = pos[p] => (content[d][f] # Absent <=> pc[p] \in {"write", "chmod"})
         /\ f = pos[p] /\ pc[p] = "write" => content[d][f] = Short
         /\ NoLostCalls =>
              /\ f < pos[p] => content[d][f] = c /\ f \in runnable[d]
              /\ f = pos[p] /\ pc[p] = "chmod" => content[d][f] = c

Local(p) == Holding(p) /\ Position(p) /\ Filled(p)

\* The files of a published entry are those of its archive, whatever they hold.
PublishedFiles ==
  \A s \in Sha : appDir[s] # None =>
    \A f \in File : content[appDir[s]][f] # Absent <=> f <= Entries[s]

Published == PublishedFiles /\ (NoLostCalls => PublishedComplete)

\* Launchers in hand of a temporary name have different ones.
NamesApart ==
  \A p, q \in Proc :
    p # q /\ pc[p] \in {"mktmp"} \cup Extracting /\ pc[q] \in {"mktmp"} \cup Extracting
      => tmpName[p] # tmpName[q]

IInv ==
  /\ TypeOK
  /\ \A p \in Proc : Local(p)
  /\ NamesApart
  /\ LinkedOnce
  /\ Published

-----------------------------------------------------------------------------
(* Type correctness                                                        *)

LEMMA ConstantFacts ==
  /\ Image \in [Exe -> ImageType]
  /\ NFiles \in Nat /\ StartFile \in File /\ Entries \in [Sha -> File]
  /\ MaxLaunches \in Nat
  /\ None \notin Dir /\ None \notin Exe /\ None \notin Name
  /\ Absent \notin Sha /\ Short \notin Sha /\ Absent # Short
BY ImageAssumption, EntriesAssumption, FaultsAssumption,
   NoneAssumption DEF Absent, Short

\* The trailer of a launcher that runs an executable.
LEMMA TrailerFacts ==
  ASSUME NEW p \in Proc, exe[p] \in Exe
  PROVE  /\ Trailer(p) \in ImageType
         /\ Trailer(p).sha \in Sha /\ Trailer(p).contents \in Sha
         /\ Trailer(p).path \in Path
         /\ Entries[Trailer(p).contents] \in 1..NFiles
         /\ Entries[Trailer(p).sha] \in 1..NFiles
BY ConstantFacts DEF Trailer, ImageType, File

LEMMA InitType == Init => TypeOK
BY ConstantFacts DEF Init, TypeOK, Active, Extracting, Ended, File

LEMMA StepType ==
  ASSUME TypeOK, NEW p \in Proc, NEW l \in Active \cup {"running"}, Step(p, l)
  PROVE  TypeOK'
BY DEF TypeOK, Step, Goto, fsVars

LEMMA QuitType ==
  ASSUME TypeOK, NEW p \in Proc, NEW l \in Ended, Quit(p, l),
         pc[p] \in Extracting => exe[p] \in Exe /\ tmpName[p] \in Name
  PROVE  TypeOK'
BY DEF TypeOK, Quit, Goto, fsVars

\* A launcher in hand of a temporary name.
LEMMA NameFacts ==
  ASSUME TypeOK, NEW p \in Proc, Holding(p), pc[p] \in {"mktmp"} \cup Extracting
  PROVE  /\ exe[p] \in Exe
         /\ tmpName[p] \in Name
         /\ pc[p] \in Extracting => tmpDir[tmpName[p]] \in Dir
BY ConstantFacts DEF Holding, Active

LEMMA ProceedType ==
  ASSUME TypeOK, NEW p \in Proc, Hand(p), Proceed(p)
  PROVE  TypeOK'
<1> DEFINE n == tmpName[p]
           d == tmpDir[tmpName[p]]
<1>a. pc[p] \in Active => exe[p] \in Exe
  BY DEF Hand
<1>b. pc[p] \in {"mktmp"} \cup Extracting => exe[p] \in Exe /\ n \in Name
  BY DEF Hand, Active
<1>q. ASSUME NEW l \in Ended, Quit(p, l) PROVE TypeOK'
  BY <1>q, <1>b, QuitType
<1>s. ASSUME NEW l \in Active \cup {"running"}, Step(p, l) PROVE TypeOK'
  BY <1>s, StepType
<1>1. CASE ReadTrailer(p)
  <2>1. Quit(p, "failed") \/ Quit(p, "done") \/ Step(p, "probe")
    BY <1>1 DEF ReadTrailer
  <2>2. QED
    BY <2>1, <1>q, <1>s DEF Ended, Active
<1>2. CASE Probe(p)
  BY <1>2, <1>s DEF Probe, Active
<1>3. CASE MkCacheDirs(p)
  BY <1>3 DEF MkCacheDirs, TypeOK, Goto, Active
<1>4. CASE Mktemp(p)
  <2>1. CASE Quit(p, "failed")
    BY <2>1, <1>q DEF Ended
  <2>2. CASE ~Quit(p, "failed")
    <3>1. PICK m \in FreeNames : tmpName' = [tmpName EXCEPT ![p] = m]
      BY <1>4, <2>2 DEF Mktemp
    <3>2. m \in Name
      BY DEF FreeNames
    <3>3. QED
      BY <1>4, <2>2, <3>1, <3>2 DEF Mktemp, TypeOK, Goto, Active, fsVars
  <2>3. QED
    BY <2>1, <2>2
<1>5. CASE MkTmpDir(p)
  <2>1. CASE Quit(p, "failed")
    BY <2>1, <1>q DEF Ended
  <2>2. CASE ~Quit(p, "failed")
    <3>1. /\ At(p, "mktmp") /\ BeginExtraction(p) /\ UNCHANGED appDir
          /\ tmpDir' \in [Name -> Dir \cup {None}]
      BY <1>5, <2>2 DEF MkTmpDir, LinkTmpDir, TypeOK, FreshDirs
    <3>2. QED
      BY <3>1, <1>b DEF BeginExtraction, TypeOK, Goto, At, Active, Extracting, Ended
  <2>3. QED
    BY <2>1, <2>2
<1>6. CASE OpenFile(p)
  <2>1. CASE Quit(p, "failed")
    BY <2>1, <1>q DEF Ended
  <2>2. CASE ~Quit(p, "failed")
    <3>1. d \in Dir
      BY <1>6, <2>2, <1>b DEF OpenFile, TypeOK, At, Extracting
    <3>2. content' \in [Dir -> [File -> Sha \cup {Absent, Short}]]
      <4>1. content' = [content EXCEPT ![d][pos[p]] = Short]
        BY <1>6, <2>2 DEF OpenFile
      <4>2. QED
        BY <4>1 DEF TypeOK
    <3>3. QED
      BY <1>6, <2>2, <3>1, <3>2 DEF OpenFile, TypeOK, Goto, Active, Extracting
  <2>3. QED
    BY <2>1, <2>2
<1>7. CASE WriteFile(p)
  <2>1. CASE Quit(p, "failed")
    BY <2>1, <1>q DEF Ended
  <2>2. CASE ~Quit(p, "failed")
    <3>1. Trailer(p).contents \in Sha
      BY <1>7, <1>a, TrailerFacts DEF WriteFile, At, Active, Extracting
    <3>2. content' \in [Dir -> [File -> Sha \cup {Absent, Short}]]
      <4>1. CASE content' = content
        BY <4>1 DEF TypeOK
      <4>2. CASE \E c \in {Trailer(p).contents, Short} :
                   content' = [content EXCEPT ![fd[p]][pos[p]] = c]
        <5>1. PICK c \in {Trailer(p).contents, Short} :
                content' = [content EXCEPT ![fd[p]][pos[p]] = c]
          BY <4>2
        <5>2. c \in Sha \cup {Absent, Short}
          BY <3>1
        <5>3. QED
          BY <5>1, <5>2 DEF TypeOK
      <4>3. QED
        BY <1>7, <2>2, <4>1, <4>2 DEF WriteFile
    <3>3. QED
      BY <1>7, <2>2, <3>2 DEF WriteFile, TypeOK, Goto, Active, Extracting
  <2>3. QED
    BY <2>1, <2>2
<1>8. CASE ChmodFile(p)
  <2>1. pos[p] \in File
    BY <1>8 DEF ChmodFile, At, Hand
  <2>2. runnable' \in [Dir -> SUBSET File]
    BY <1>8, <2>1 DEF ChmodFile, TypeOK
  <2>3. pos' \in [Proc -> 1..(NFiles + 1)]
    BY <1>8, <2>1, ConstantFacts DEF ChmodFile, TypeOK, File
  <2>4. QED
    BY <1>8, <2>2, <2>3 DEF ChmodFile, TypeOK, Goto, Active, Extracting
<1>9. CASE EndOfArchive(p)
  BY <1>9, <1>q, <1>s DEF EndOfArchive, Ended, Active, Extracting
<1>10. CASE Verify(p)
  BY <1>10, <1>q, <1>s DEF Verify, Ended, Active, Extracting
<1>11. CASE Rename(p)
  <2>1. CASE Step(p, "cleanup")
    BY <2>1, <1>s DEF Active, Extracting
  <2>2. CASE ~Step(p, "cleanup")
    BY <1>11, <2>2, <1>b DEF Rename, LoseRace, CanRename, TypeOK, Goto, At, Active, Extracting
  <2>3. QED
    BY <2>1, <2>2
<1>12. CASE RmFile(p)
  <2>1. PICK f \in File :
          /\ content' = [content EXCEPT ![d][f] = Absent]
          /\ runnable' = [runnable EXCEPT ![d] = @ \ {f}]
          /\ fd' = [q \in Proc |-> IF fd[q] = d /\ pos[q] = f THEN None ELSE fd[q]]
    BY <1>12 DEF RmFile
  <2>2. content' \in [Dir -> [File -> Sha \cup {Absent, Short}]]
    BY <2>1 DEF TypeOK
  <2>3. runnable' \in [Dir -> SUBSET File]
    BY <2>1 DEF TypeOK
  <2>4. fd' \in [Proc -> Dir \cup {None}]
    BY <2>1 DEF TypeOK
  <2>5. QED
    BY <1>12, <2>2, <2>3, <2>4 DEF RmFile, TypeOK
<1>13. CASE RmDir(p)
  BY <1>13 DEF RmDir, TypeOK, Goto, Active
<1>14. CASE RmGiveUp(p)
  BY <1>14, <1>b DEF RmGiveUp, TypeOK, Goto, At, Active, Extracting, fsVars
<1>15. CASE Recheck(p)
  BY <1>15, <1>q, <1>s DEF Recheck, Ended, Active
<1>16. CASE AddIndex(p)
  BY <1>16, <1>a, TrailerFacts DEF AddIndex, TypeOK, Goto, At, Active
<1>17. CASE Exec(p)
  BY <1>17, <1>q, <1>s DEF Exec, Ended, Active
<1>18. QED
  BY <1>1, <1>2, <1>3, <1>4, <1>5, <1>6, <1>7, <1>8, <1>9, <1>10, <1>11, <1>12,
     <1>13, <1>14, <1>15, <1>16, <1>17 DEF Proceed

LEMMA NextType == ASSUME Base, Next PROVE TypeOK'
<1> PICK p \in Proc : Launch(p) \/ Proceed(p) \/ AppExit(p) \/ Crash(p)
  BY DEF Next
<1>0. TypeOK /\ Hand(p)
  BY DEF Base
<1>1. CASE Launch(p)
  BY <1>0, <1>1, ConstantFacts DEF Launch, TypeOK, Goto, Active, fsVars
<1>2. CASE Proceed(p)
  BY <1>0, <1>2, ProceedType
<1>3. CASE AppExit(p)
  BY <1>0, <1>3, QuitType DEF AppExit, At, Ended, Extracting
<1>4. CASE Crash(p)
  BY <1>0, <1>4, QuitType DEF Crash, Ended, Hand, Active
<1>5. QED
  BY <1>1, <1>2, <1>3, <1>4

-----------------------------------------------------------------------------
(* What holds whatever goes wrong                                          *)

LEMMA InitBase == Init => Base
<1> SUFFICES ASSUME Init PROVE Base
  OBVIOUS
<1>1. TypeOK
  BY InitType
<1>2. (\A p \in Proc : Hand(p)) /\ LinkedOnce
  BY DEF Init, Hand, LinkedOnce, Active, Extracting
<1>3. QED
  BY <1>1, <1>2 DEF Base

\* A step of one launcher leaves the others where they are.
LEMMA OthersStay ==
  ASSUME TypeOK, NEW p \in Proc, Launch(p) \/ Proceed(p) \/ AppExit(p) \/ Crash(p),
         NEW q \in Proc, q # p
  PROVE  pc'[q] = pc[q] /\ exe'[q] = exe[q] /\ tmpName'[q] = tmpName[q] /\ pos'[q] = pos[q]
BY DEF TypeOK, Proceed, Launch, ReadTrailer, Probe,
   MkCacheDirs, Mktemp, MkTmpDir, BeginExtraction, OpenFile, WriteFile,
   ChmodFile, EndOfArchive, Verify, Rename, LoseRace, RmFile, RmDir, RmGiveUp,
   Recheck, AddIndex, Exec, AppExit, Crash, Quit, Step, Goto

\* A launcher keeps what it has in hand, or has just come by it.
LEMMA HandStep ==
  ASSUME Base, NEW p \in Proc, Launch(p) \/ Proceed(p) \/ AppExit(p) \/ Crash(p)
  PROVE  Hand(p)'
<1>0. TypeOK /\ Hand(p)
  BY DEF Base
<1>q. ASSUME NEW l \in Ended, Quit(p, l) PROVE Hand(p)'
  BY <1>0, <1>q DEF TypeOK, Quit, Goto, Hand, Ended, Active, Extracting
<1>s. ASSUME NEW l \in Active \cup {"running"}, Step(p, l), pc[p] \in Active,
             l \notin {"mktmp", "write", "chmod"},
             l \in Extracting => pc[p] \in Extracting
      PROVE  Hand(p)'
  BY <1>0, <1>s DEF TypeOK, Step, Goto, Hand, Active, Extracting
<1>1. CASE Launch(p)
  BY <1>0, <1>1 DEF Launch, TypeOK, Goto, Hand, Extracting
<1>2. CASE ReadTrailer(p)
  <2>1. pc[p] = "trailer" /\ (Quit(p, "failed") \/ Quit(p, "done") \/ Step(p, "probe"))
    BY <1>2 DEF ReadTrailer, At
  <2>2. CASE Step(p, "probe")
    BY <2>1, <2>2, <1>s DEF Active, Extracting
  <2>3. QED
    BY <2>1, <2>2, <1>q DEF Ended
<1>3. CASE Probe(p)
  <2>1. pc[p] = "probe" /\ (Step(p, "ready") \/ Step(p, "mkdirs"))
    BY <1>3 DEF Probe, At
  <2>2. QED
    BY <2>1, <1>s DEF Active, Extracting
<1>4. CASE MkCacheDirs(p)
  BY <1>0, <1>4 DEF MkCacheDirs, At, TypeOK, Goto, Hand, Active, Extracting
<1>5. CASE Mktemp(p)
  <2>1. CASE Quit(p, "failed")
    BY <2>1, <1>q DEF Ended
  <2>2. CASE ~Quit(p, "failed")
    <3>1. PICK n \in FreeNames : tmpName' = [tmpName EXCEPT ![p] = n]
      BY <1>5, <2>2 DEF Mktemp
    <3>2. n \in Name
      BY DEF FreeNames
    <3>3. QED
      BY <1>0, <1>5, <2>2, <3>1, <3>2 DEF Mktemp, At, TypeOK, Goto, Hand, Active
  <2>3. QED
    BY <2>1, <2>2
<1>6. CASE MkTmpDir(p)
  <2>1. CASE Quit(p, "failed")
    BY <2>1, <1>q DEF Ended
  <2>2. CASE ~Quit(p, "failed")
    <3>1. pc[p] = "mktmp" /\ BeginExtraction(p)
      BY <1>6, <2>2 DEF MkTmpDir, At
    <3>2. QED
      BY <1>0, <3>1 DEF BeginExtraction, TypeOK, Goto, Hand, Active, Extracting
  <2>3. QED
    BY <2>1, <2>2
<1>7. CASE OpenFile(p)
  <2>1. CASE Quit(p, "failed")
    BY <2>1, <1>q DEF Ended
  <2>2. CASE ~Quit(p, "failed")
    <3>1. pc[p] = "open" /\ pos[p] <= Entries[Trailer(p).contents] /\ exe[p] \in Exe
      BY <1>0, <1>7 DEF OpenFile, At, MoreEntries, Hand, Active, Extracting
    <3>2. Entries[Trailer(p).contents] \in 1..NFiles
      BY <3>1, TrailerFacts
    <3>3. pos[p] \in File
      BY <1>0, <3>1, <3>2, ConstantFacts DEF TypeOK, File
    <3>4. QED
      BY <1>0, <1>7, <2>2, <3>1, <3>3 DEF OpenFile, TypeOK, Goto, Hand, Active, Extracting
  <2>3. QED
    BY <2>1, <2>2
<1>8. CASE WriteFile(p)
  <2>1. CASE Quit(p, "failed")
    BY <2>1, <1>q DEF Ended
  <2>2. CASE ~Quit(p, "failed")
    BY <1>0, <1>8, <2>2 DEF WriteFile, At, TypeOK, Goto, Hand, Active, Extracting
  <2>3. QED
    BY <2>1, <2>2
<1>9. CASE ChmodFile(p)
  BY <1>0, <1>9 DEF ChmodFile, At, TypeOK, Goto, Hand, Active, Extracting
<1>10. CASE EndOfArchive(p)
  <2>1. pc[p] = "open" /\ (Quit(p, "failed") \/ Step(p, "verify"))
    BY <1>10 DEF EndOfArchive, At
  <2>2. CASE Step(p, "verify")
    BY <2>1, <2>2, <1>s DEF Active, Extracting
  <2>3. QED
    BY <2>1, <2>2, <1>q DEF Ended
<1>11. CASE Verify(p)
  <2>1. pc[p] = "verify" /\ (Quit(p, "failed") \/ Step(p, "rename"))
    BY <1>11 DEF Verify, At
  <2>2. CASE Step(p, "rename")
    BY <2>1, <2>2, <1>s DEF Active, Extracting
  <2>3. QED
    BY <2>1, <2>2, <1>q DEF Ended
<1>12. CASE Rename(p)
  <2>1. pc[p] = "rename"
    BY <1>12 DEF Rename, At
  <2>2. CASE Step(p, "cleanup")
    BY <2>1, <2>2, <1>s DEF Active, Extracting
  <2>3. CASE ~Step(p, "cleanup")
    BY <1>0, <1>12, <2>1, <2>3 DEF Rename, LoseRace, TypeOK, Goto, Hand, Active, Extracting
  <2>4. QED
    BY <2>2, <2>3
<1>13. CASE RmFile(p)
  BY <1>0, <1>13 DEF RmFile, Hand
<1>14. CASE RmDir(p) \/ RmGiveUp(p) \/ AddIndex(p)
  BY <1>0, <1>14 DEF RmDir, RmGiveUp, AddIndex, At, TypeOK, Goto, Hand, Active, Extracting
<1>15. CASE Recheck(p)
  <2>1. pc[p] = "recheck" /\ (Quit(p, "failed") \/ Step(p, "index"))
    BY <1>15 DEF Recheck, At
  <2>2. CASE Step(p, "index")
    BY <2>1, <2>2, <1>s DEF Active, Extracting
  <2>3. QED
    BY <2>1, <2>2, <1>q DEF Ended
<1>16. CASE Exec(p)
  <2>1. pc[p] = "ready" /\ (Quit(p, "failed") \/ Quit(p, "done") \/ Step(p, "running"))
    BY <1>16 DEF Exec, At
  <2>2. CASE Step(p, "running")
    BY <2>1, <2>2, <1>s DEF Active, Extracting
  <2>3. QED
    BY <2>1, <2>2, <1>q DEF Ended
<1>17. CASE AppExit(p) \/ Crash(p)
  BY <1>17, <1>q DEF AppExit, Crash, Ended
<1>18. QED
  BY <1>1, <1>2, <1>3, <1>4, <1>5, <1>6, <1>7, <1>8, <1>9, <1>10, <1>11, <1>12,
     <1>13, <1>14, <1>15, <1>16, <1>17 DEF Proceed

\* Three steps link or unlink a directory.
LEMMA LinkStep ==
  ASSUME Base, NEW p \in Proc, Launch(p) \/ Proceed(p) \/ AppExit(p) \/ Crash(p)
  PROVE  \/ UNCHANGED <<tmpDir, appDir>>
         \/ /\ pc[p] = "mktmp" /\ UNCHANGED appDir
            /\ \E d \in FreshDirs : tmpDir' = [tmpDir EXCEPT ![tmpName[p]] = d]
         \/ /\ pc[p] = "rename" /\ CanRename(p) /\ UNCHANGED content
            /\ appDir' = [appDir EXCEPT ![Trailer(p).sha] = tmpDir[tmpName[p]]]
            /\ tmpDir' = [tmpDir EXCEPT ![tmpName[p]] = None]
         \/ /\ pc[p] = "cleanup" /\ UNCHANGED appDir
            /\ tmpDir' = [tmpDir EXCEPT ![tmpName[p]] = None]
BY DEF Proceed, Launch, ReadTrailer, Probe, MkCacheDirs, Mktemp, MkTmpDir, LinkTmpDir,
   OpenFile, WriteFile, ChmodFile, EndOfArchive, Verify, Rename, LoseRace, RmFile, RmDir,
   RmGiveUp, Recheck, AddIndex, Exec, AppExit, Crash, Quit, Step, At, fsVars

LEMMA LinkedOnceStep ==
  ASSUME Base, NEW p \in Proc, Launch(p) \/ Proceed(p) \/ AppExit(p) \/ Crash(p)
  PROVE  LinkedOnce'
<1>0. TypeOK /\ Hand(p) /\ LinkedOnce
  BY DEF Base
<1>1. CASE UNCHANGED <<tmpDir, appDir>>
  BY <1>0, <1>1 DEF LinkedOnce
<1>2. CASE /\ pc[p] = "mktmp" /\ UNCHANGED appDir
           /\ \E d \in FreshDirs : tmpDir' = [tmpDir EXCEPT ![tmpName[p]] = d]
  <2>1. PICK d \in FreshDirs : tmpDir' = [tmpDir EXCEPT ![tmpName[p]] = d]
    BY <1>2
  <2>2. (\A n \in Name : tmpDir[n] # d) /\ (\A s \in Sha : appDir[s] # d)
    BY DEF FreshDirs
  <2>3. QED
    BY <1>0, <1>2, <2>1, <2>2 DEF LinkedOnce, TypeOK
<1>3. CASE /\ pc[p] = "rename" /\ CanRename(p)
           /\ appDir' = [appDir EXCEPT ![Trailer(p).sha] = tmpDir[tmpName[p]]]
           /\ tmpDir' = [tmpDir EXCEPT ![tmpName[p]] = None]
  <2>1. tmpName[p] \in Name /\ Trailer(p).sha \in Sha /\ tmpDir[tmpName[p]] # None
    BY <1>0, <1>3, TrailerFacts DEF Hand, Active, Extracting, CanRename
  <2>2. QED
    BY <1>0, <1>3, <2>1 DEF LinkedOnce, TypeOK
<1>4. CASE pc[p] = "cleanup" /\ UNCHANGED appDir /\ tmpDir' = [tmpDir EXCEPT ![tmpName[p]] = None]
  BY <1>0, <1>4 DEF LinkedOnce, TypeOK
<1>5. QED
  BY <1>1, <1>2, <1>3, <1>4, LinkStep

LEMMA NextBase ==
  ASSUME Base, [Next]_vars PROVE Base'
<1>1. CASE Next
  <2>1. TypeOK'
    BY <1>1, NextType
  <2>2. PICK p \in Proc : Launch(p) \/ Proceed(p) \/ AppExit(p) \/ Crash(p)
    BY <1>1 DEF Next
  <2>3. ASSUME NEW q \in Proc PROVE Hand(q)'
    <3>1. CASE q = p
      BY <2>2, <3>1, HandStep
    <3>2. CASE q # p
      BY <2>2, <3>2, OthersStay DEF Base, Hand
    <3>3. QED
      BY <3>1, <3>2
  <2>4. LinkedOnce'
    BY <2>2, LinkedOnceStep
  <2>5. QED
    BY <2>1, <2>3, <2>4 DEF Base
<1>2. CASE UNCHANGED vars
  BY <1>2 DEF vars, procVars, fsVars, Base, TypeOK, Hand, LinkedOnce
<1>3. QED
  BY <1>1, <1>2

LEMMA SpecBase == Spec => []Base
<1>1. QED
  BY InitBase, NextBase, PTL DEF Spec

\* Every variable keeps its type.
THEOREM TypeCorrect == Spec => []TypeOK
<1>1. Base => TypeOK
  BY DEF Base
<1>2. QED
  BY <1>1, SpecBase, PTL

\* One step takes no file from a published entry that has any.
LEMMA KeepStep ==
  ASSUME Base, Next, NEW s \in Sha, appDir[s] # None, ~EmptyDir(appDir[s])
  PROVE  /\ appDir'[s] = appDir[s]
         /\ \A f \in File : content[appDir[s]][f] # Absent =>
                               content'[appDir[s]][f] # Absent
<1>0. TypeOK /\ LinkedOnce /\ appDir[s] \in Dir
  BY DEF Base, TypeOK
<1>1. PICK p \in Proc : Launch(p) \/ Proceed(p) \/ AppExit(p) \/ Crash(p)
  BY DEF Next
<1>2. Hand(p)
  BY DEF Base
<1>3. appDir'[s] = appDir[s]
  <2>1. CASE UNCHANGED appDir
    BY <2>1
  <2>2. CASE /\ CanRename(p)
             /\ appDir' = [appDir EXCEPT ![Trailer(p).sha] = tmpDir[tmpName[p]]]
    <3>1. Trailer(p).sha # s
      BY <2>2 DEF CanRename
    <3>2. QED
      BY <1>0, <2>2, <3>1 DEF TypeOK
  <2>3. QED
    BY <1>1, <2>1, <2>2, LinkStep
<1>4. ASSUME NEW f \in File, content[appDir[s]][f] # Absent
      PROVE  content'[appDir[s]][f] # Absent
  <2>1. CASE UNCHANGED content
    BY <1>4, <2>1
  <2>2. CASE OpenFile(p) /\ ~UNCHANGED content
    <3>1. content' = [content EXCEPT ![tmpDir[tmpName[p]]][pos[p]] = Short]
      BY <2>2 DEF OpenFile, Quit, fsVars
    <3>2. QED
      BY <1>0, <1>4, <3>1, ConstantFacts DEF TypeOK
  <2>3. CASE WriteFile(p) /\ ~UNCHANGED content
    <3>1. PICK c \in {Trailer(p).contents, Short} :
            content' = [content EXCEPT ![fd[p]][pos[p]] = c]
      BY <2>3 DEF WriteFile, Quit, fsVars
    <3>2. Trailer(p).contents \in Sha
      BY <1>2, <2>3, TrailerFacts DEF WriteFile, At, Hand, Active, Extracting
    <3>3. c # Absent
      BY <3>1, <3>2, ConstantFacts
    <3>4. QED
      BY <1>0, <1>4, <3>1, <3>3 DEF TypeOK
  <2>4. CASE RmFile(p)
    <3>1. PICK g \in File : content' = [content EXCEPT ![tmpDir[tmpName[p]]][g] = Absent]
      BY <2>4 DEF RmFile
    <3>2. tmpDir[tmpName[p]] # appDir[s]
      BY <1>0, <1>2, <2>4 DEF RmFile, At, Hand, Extracting, LinkedOnce
    <3>3. QED
      BY <1>0, <1>4, <3>1, <3>2 DEF TypeOK
  <2>5. UNCHANGED content \/ OpenFile(p) \/ WriteFile(p) \/ RmFile(p)
    BY <1>1 DEF Proceed, Launch, ReadTrailer, Probe, MkCacheDirs, Mktemp, MkTmpDir,
       BeginExtraction, ChmodFile, EndOfArchive, Verify, Rename, LoseRace, RmDir,
       RmGiveUp, Recheck, AddIndex, Exec, AppExit, Crash, Quit, Step, fsVars
  <2>6. QED
    BY <2>1, <2>2, <2>3, <2>4, <2>5
<1>5. QED
  BY <1>3, <1>4

\* Whatever goes wrong, launchers sharing a temporary directory included, no
\* file of a published entry is taken away.
THEOREM PublishedIsKept == Spec => PublishedStays
<1> DEFINE Keeps == \A s \in Sha : appDir[s] # None /\ ~EmptyDir(appDir[s]) =>
                      /\ appDir'[s] = appDir[s]
                      /\ \A f \in File : content[appDir[s]][f] # Absent =>
                                            content'[appDir[s]][f] # Absent
<1>1. Base /\ [Next]_vars => [Keeps]_vars
  BY KeepStep
<1> HIDE DEF Keeps
<1>2. Spec => [][Keeps]_vars
  BY <1>1, SpecBase, PTL DEF Spec
<1>3. QED
  BY <1>2 DEF PublishedStays, Keeps

\* A start script that is there stays.
LEMMA StartStep ==
  ASSUME Base, Next, NEW s \in Sha, StartPresent(s) PROVE StartPresent(s)'
<1>1. appDir[s] # None /\ ~EmptyDir(appDir[s])
  BY ConstantFacts DEF StartPresent, EmptyDir
<1>2. QED
  BY <1>1, KeepStep, ConstantFacts DEF StartPresent

\* What a launcher saw when it decided to go on is there when it execs, and
\* while the application runs.
THEOREM StartIsThere == Spec => []StartStays
<1>1. Init => StartStays
  BY DEF Init, StartStays
<1>2. Base /\ StartStays /\ [Next]_vars => StartStays'
  <2> SUFFICES ASSUME Base, StartStays, [Next]_vars PROVE StartStays'
    OBVIOUS
  <2>1. CASE UNCHANGED vars
    BY <2>1 DEF vars, procVars, fsVars, StartStays, StartPresent, Trailer
  <2>2. CASE Next
    <3>1. ASSUME NEW q \in Proc, pc'[q] \in {"index", "ready", "running"}
          PROVE  /\ exe'[q] = exe[q] /\ exe[q] \in Exe
                 /\ StartPresent(Trailer(q).sha)
      <4>0. TypeOK /\ (pc[q] \in Active \cup {"running"} => exe[q] \in Exe)
        BY DEF Base, Hand
      <4>1. PICK p \in Proc : Launch(p) \/ Proceed(p) \/ AppExit(p) \/ Crash(p)
        BY <2>2 DEF Next
      <4>2. CASE pc'[q] = pc[q] /\ exe'[q] = exe[q]
        BY <3>1, <4>0, <4>2 DEF StartStays, Active
      <4>3. CASE pc'[q] # pc[q] \/ exe'[q] # exe[q]
        <5>1. p = q
          BY <4>0, <4>1, <4>3 DEF TypeOK, Proceed, Launch, ReadTrailer, Probe,
             MkCacheDirs, Mktemp, MkTmpDir, BeginExtraction, OpenFile, WriteFile,
             ChmodFile, EndOfArchive, Verify, Rename, LoseRace, RmFile, RmDir, RmGiveUp,
             Recheck, AddIndex, Exec, AppExit, Crash, Quit, Step, Goto
        <5>2. \/ pc[q] = "probe" /\ Probe(q)
              \/ pc[q] = "recheck" /\ Recheck(q)
              \/ pc[q] = "index" /\ AddIndex(q)
              \/ pc[q] = "ready" /\ Exec(q)
          <6>1. CASE \/ Launch(q) \/ ReadTrailer(q) \/ MkCacheDirs(q) \/ Mktemp(q)
                     \/ MkTmpDir(q) \/ AppExit(q) \/ Crash(q)
            BY <3>1, <4>0, <6>1 DEF TypeOK, Launch, ReadTrailer, MkCacheDirs, Mktemp,
               MkTmpDir, BeginExtraction, AppExit, Crash, Quit, Step, Goto
          <6>2. CASE \/ OpenFile(q) \/ WriteFile(q) \/ ChmodFile(q) \/ EndOfArchive(q)
                     \/ Verify(q) \/ Rename(q) \/ RmDir(q) \/ RmGiveUp(q)
            BY <3>1, <4>0, <4>3, <6>2 DEF TypeOK, OpenFile, WriteFile, ChmodFile,
               EndOfArchive, Verify, Rename, LoseRace, RmDir, RmGiveUp, Quit, Step, Goto
          <6>3. CASE RmFile(q)
            BY <4>3, <5>1, <6>3 DEF RmFile
          <6>4. CASE Probe(q) \/ Recheck(q) \/ AddIndex(q) \/ Exec(q)
            <7>1. /\ Probe(q) => pc[q] = "probe"
                  /\ Recheck(q) => pc[q] = "recheck"
                  /\ AddIndex(q) => pc[q] = "index"
                  /\ Exec(q) => pc[q] = "ready"
              BY DEF Probe, Recheck, AddIndex, Exec, At
            <7>2. QED
              BY <6>4, <7>1
          <6>5. QED
            BY <4>1, <5>1, <6>1, <6>2, <6>3, <6>4 DEF Proceed
        <5>3. exe'[q] = exe[q]
          BY <5>2 DEF Probe, Recheck, AddIndex, Exec, Quit, Step
        <5>4. StartPresent(Trailer(q).sha)
          BY <3>1, <4>0, <5>2 DEF Probe, Recheck, StartStays, Step, Quit, Goto, TypeOK
        <5>5. QED
          BY <4>0, <5>2, <5>3, <5>4 DEF Active
      <4>4. QED
        BY <4>2, <4>3
    <3>2. ASSUME NEW q \in Proc, pc'[q] \in {"index", "ready", "running"}
          PROVE  StartPresent(Trailer(q).sha)'
      <4>1. exe'[q] = exe[q] /\ exe[q] \in Exe /\ StartPresent(Trailer(q).sha)
        BY <3>1, <3>2
      <4>2. Trailer(q)' = Trailer(q) /\ Trailer(q).sha \in Sha
        BY <4>1, TrailerFacts DEF Trailer
      <4>3. QED
        BY <2>2, <4>1, <4>2, StartStep DEF StartPresent
    <3>3. QED
      BY <3>2 DEF StartStays
  <2>3. QED
    BY <2>1, <2>2
<1>3. QED
  BY <1>1, <1>2, SpecBase, PTL DEF Spec

-----------------------------------------------------------------------------
(* The index                                                               *)

\* A path goes into the index when its launcher has seen the start script.
LEMMA IndexStep ==
  ASSUME Base, Next, NEW x \in index', x \notin index
  PROVE  \E p \in Proc : pc[p] = "index" /\ exe[p] \in Exe /\ x = Trailer(p).path
<1>1. PICK p \in Proc : Launch(p) \/ Proceed(p) \/ AppExit(p) \/ Crash(p)
  BY DEF Next
<1>2. CASE AddIndex(p)
  BY <1>2 DEF AddIndex, At, Base, Hand, Active
<1>3. CASE ~AddIndex(p)
  <2>1. index' = index
    BY <1>1, <1>3 DEF Proceed, Launch, ReadTrailer, Probe, MkCacheDirs, Mktemp,
       MkTmpDir, BeginExtraction, OpenFile, WriteFile, ChmodFile, EndOfArchive, Verify,
       Rename, LoseRace, RmFile, RmDir, RmGiveUp, Recheck, Exec, AppExit, Crash, Quit,
       Step, fsVars
  <2>2. QED
    BY <2>1
<1>4. QED
  BY <1>2, <1>3

\* An indexed path leads to an entry that is there: it was when the path was
\* written down, and entries stay.
THEOREM IndexDoesNotDangle == Spec => []IndexOnlyPublished
<1>1. Init => IndexOnlyPublished
  BY DEF Init, IndexOnlyPublished
<1>2. Base /\ StartStays /\ IndexOnlyPublished /\ [Next]_vars => IndexOnlyPublished'
  <2> SUFFICES ASSUME Base, StartStays, IndexOnlyPublished, [Next]_vars
               PROVE  IndexOnlyPublished'
    OBVIOUS
  <2>1. CASE UNCHANGED vars
    BY <2>1 DEF vars, fsVars, IndexOnlyPublished, StartPresent
  <2>2. CASE Next
    <3>1. ASSUME NEW s \in Sha, StartPresent(s) PROVE StartPresent(s)'
      BY <2>2, <3>1, StartStep
    <3>2. ASSUME NEW x \in index'
          PROVE  \E e \in Exe : Image[e].path = x /\ StartPresent(Image[e].sha)
      <4>1. CASE x \in index
        BY <4>1 DEF IndexOnlyPublished
      <4>2. CASE x \notin index
        <5>1. PICK p \in Proc : pc[p] = "index" /\ exe[p] \in Exe /\ x = Trailer(p).path
          BY <2>2, <4>2, IndexStep
        <5>2. StartPresent(Trailer(p).sha)
          BY <5>1 DEF StartStays
        <5>3. QED
          BY <5>1, <5>2 DEF Trailer
      <4>3. QED
        BY <4>1, <4>2
    <3>3. ASSUME NEW e \in Exe PROVE Image[e].sha \in Sha
      BY ConstantFacts DEF ImageType
    <3>4. QED
      BY <3>1, <3>2, <3>3 DEF IndexOnlyPublished
  <2>3. QED
    BY <2>1, <2>2
<1>3. QED
  BY <1>1, <1>2, SpecBase, StartIsThere, PTL DEF Spec

-----------------------------------------------------------------------------
(* What a step of one launcher leaves alone                                *)

Untouched(q) ==
  /\ pc'[q] = pc[q] /\ exe'[q] = exe[q] /\ tmpName'[q] = tmpName[q]
  /\ pos'[q] = pos[q] /\ fd'[q] = fd[q]

\* A launcher that does not move and whose directory does not change keeps its
\* part of the invariant.
LEMMA Frame ==
  ASSUME NEW q \in Proc, Local(q), Untouched(q),
         pc[q] \in {"mktmp"} \cup Extracting => tmpDir'[tmpName[q]] = tmpDir[tmpName[q]],
         pc[q] \in Filling =>
           /\ content'[tmpDir[tmpName[q]]] = content[tmpDir[tmpName[q]]]
           /\ runnable'[tmpDir[tmpName[q]]] = runnable[tmpDir[tmpName[q]]]
  PROVE  Local(q)'
<1>1. Holding(q)'
  BY DEF Local, Untouched, Holding, Extracting
<1>2. Position(q)'
  BY DEF Local, Untouched, Position, Trailer
<1>3. Filled(q)'
  BY DEF Local, Untouched, Filled, Trailer, Filling, Extracting
<1>4. QED
  BY <1>1, <1>2, <1>3 DEF Local

\* Launchers in hand of a temporary name have different ones, and different
\* directories once they have made them.
LEMMA Apart ==
  ASSUME IInv, NEW p \in Proc, NEW q \in Proc, p # q,
         pc[p] \in {"mktmp"} \cup Extracting, pc[q] \in {"mktmp"} \cup Extracting
  PROVE  /\ tmpName[p] # tmpName[q]
         /\ pc[p] \in Extracting /\ pc[q] \in Extracting =>
              tmpDir[tmpName[p]] # tmpDir[tmpName[q]]
<1>1. TypeOK /\ Holding(p) /\ Holding(q) /\ NamesApart /\ LinkedOnce
  BY DEF IInv, Local
<1>2. /\ tmpName[p] \in Name /\ tmpName[q] \in Name
      /\ pc[p] \in Extracting => tmpDir[tmpName[p]] \in Dir
  BY <1>1, NameFacts
<1>3. tmpName[p] # tmpName[q]
  BY <1>1 DEF NamesApart
<1>4. QED
  BY <1>1, <1>2, <1>3, ConstantFacts DEF LinkedOnce

\* The directories and files are as before: only the launcher's own part counts.
LEMMA SameFiles ==
  ASSUME IInv, NEW p \in Proc, TypeOK', NamesApart', Local(p)',
         \A q \in Proc : q # p => Untouched(q),
         UNCHANGED <<tmpDir, appDir, content, runnable>>
  PROVE  IInv'
<1>1. \A q \in Proc : Local(q)'
  BY Frame DEF IInv
<1>2. LinkedOnce'
  BY DEF IInv, LinkedOnce
<1>3. Published'
  BY DEF IInv, Published, PublishedFiles,
     PublishedComplete, Complete
<1>4. QED
  BY <1>1, <1>2, <1>3 DEF IInv

\* Only files of the launcher's own directory change.
LEMMA OwnFiles ==
  ASSUME IInv, NEW p \in Proc, TypeOK', NamesApart', Local(p)',
         \A q \in Proc : q # p => Untouched(q),
         pc[p] \in Extracting,
         UNCHANGED <<tmpDir, appDir>>,
         \A d \in Dir : d # tmpDir[tmpName[p]] =>
           content'[d] = content[d] /\ runnable'[d] = runnable[d]
  PROVE  IInv'
<1>0. TypeOK /\ LinkedOnce /\ Published /\ \A q \in Proc : Local(q)
  BY DEF IInv
<1>1. ASSUME NEW q \in Proc, q # p PROVE Local(q)'
  <2>1. pc[q] \in Extracting => /\ tmpDir[tmpName[q]] \in Dir
                                /\ tmpDir[tmpName[q]] # tmpDir[tmpName[p]]
    BY <1>0, <1>1, Apart DEF Local, Holding
  <2>2. QED
    BY <1>0, <1>1, <2>1, Frame DEF Filling, Extracting
<1>2. LinkedOnce'
  BY <1>0 DEF LinkedOnce
<1>3. Published'
  <2>1. tmpName[p] \in Name /\ tmpDir[tmpName[p]] \in Dir
    BY <1>0, NameFacts DEF Local
  <2>2. ASSUME NEW s \in Sha, appDir[s] # None
        PROVE  /\ content'[appDir[s]] = content[appDir[s]]
               /\ runnable'[appDir[s]] = runnable[appDir[s]]
    BY <1>0, <2>1, <2>2, ConstantFacts DEF LinkedOnce, TypeOK
  <2>3. QED
    BY <1>0, <2>2 DEF Published, PublishedFiles,
     PublishedComplete, Complete
<1>4. QED
  BY <1>1, <1>2, <1>3 DEF IInv

\* The invariant holds what needs no assumption about names.
LEMMA IInvBase == IInv => Base
<1> SUFFICES ASSUME IInv, NEW p \in Proc PROVE Hand(p)
  BY DEF IInv, Base
<1>1. TypeOK /\ Holding(p) /\ Position(p)
  BY DEF IInv, Local
<1>2. ASSUME pc[p] \in {"write", "chmod"} PROVE pos[p] \in File
  <2>1. Entries[Trailer(p).contents] \in 1..NFiles
    BY <1>1, <1>2, TrailerFacts DEF Holding, Active, Extracting
  <2>2. QED
    BY <1>1, <1>2, <2>1, ConstantFacts DEF Position, TypeOK, File
<1>3. QED
  BY <1>1, <1>2 DEF Hand, Holding

-----------------------------------------------------------------------------
(* The invariant is inductive                                              *)

LEMMA InitIInv == Init => IInv
<1> SUFFICES ASSUME Init PROVE IInv
  OBVIOUS
<1>1. TypeOK
  BY InitType
<1>2. \A p \in Proc : Local(p)
  BY DEF Init, Local, Holding, Position, Filled, Active, Extracting, Filling,
         BeforeExtraction
<1>3. NamesApart /\ LinkedOnce /\ Published
  BY DEF Init, NamesApart, Extracting, LinkedOnce, Published, PublishedFiles, PublishedComplete
<1>4. QED
  BY <1>1, <1>2, <1>3 DEF IInv

\* Ending a process keeps the invariant, wherever it was.
LEMMA QuitIInv ==
  ASSUME IInv, NEW p \in Proc, NEW l \in Ended, Quit(p, l), TypeOK', NamesApart'
  PROVE  IInv'
<1>1. /\ \A q \in Proc : q # p => Untouched(q)
      /\ UNCHANGED <<tmpDir, appDir, content, runnable>>
  BY DEF IInv, TypeOK, Quit, Goto, Untouched, fsVars
<1>2. Local(p)'
  BY DEF IInv, TypeOK, Quit, Goto, Local, Holding, Position, Filled, Active,
         Extracting, Filling, BeforeExtraction, Ended
<1>3. QED
  BY <1>1, <1>2, SameFiles

\* A step that only moves the control point keeps the invariant when the new
\* point asks for nothing that the old one did not provide.
LEMMA StepIInv ==
  ASSUME IInv, NEW p \in Proc, NEW l \in Active \cup {"running"}, Step(p, l), TypeOK', NamesApart',
         pc[p] \in Active, pc[p] # "write",
         l \in BeforeExtraction => pc[p] \in BeforeExtraction,
         l \notin {"mktmp", "open", "write", "chmod"},
         l \in Extracting => pc[p] \in Extracting,
         l \in {"verify", "rename"} =>
           /\ pc[p] \in {"open", "verify"}
           /\ pos[p] = Entries[Trailer(p).contents] + 1,
         l = "rename" => Trailer(p).contents = Trailer(p).sha
  PROVE  IInv'
<1>1. /\ \A q \in Proc : q # p => Untouched(q)
      /\ UNCHANGED <<tmpDir, appDir, content, runnable>>
  BY DEF IInv, TypeOK, Step, Goto, Untouched, fsVars
<1>2. /\ pc'[p] = l /\ exe'[p] = exe[p] /\ pos'[p] = pos[p] /\ fd'[p] = fd[p]
      /\ tmpName'[p] = tmpName[p] /\ Trailer(p)' = Trailer(p)
  BY DEF IInv, TypeOK, Step, Goto, Trailer
<1>3. Local(p)
  BY DEF IInv
<1>4. Holding(p)'
  BY <1>1, <1>2, <1>3 DEF Local, Holding, Active, Extracting
<1>5. Position(p)'
  BY <1>2 DEF Position
<1>6. Filled(p)'
  BY <1>1, <1>2, <1>3 DEF Local, Filled, Filling, Active, Extracting
<1>7. QED
  BY <1>1, <1>4, <1>5, <1>6, SameFiles DEF Local

LEMMA LaunchIInv ==
  ASSUME IInv, NEW p \in Proc, Launch(p), TypeOK', NamesApart' PROVE IInv'
<1>1. /\ \A q \in Proc : q # p => Untouched(q)
      /\ UNCHANGED <<tmpDir, appDir, content, runnable>>
  BY DEF IInv, TypeOK, Launch, Goto, Untouched, fsVars
<1>2. /\ pc'[p] = "trailer" /\ exe'[p] \in Exe /\ pos'[p] = 1 /\ fd'[p] = fd[p]
  BY DEF IInv, TypeOK, Launch, Goto
<1>3. fd[p] = None
  BY DEF IInv, Local, Holding, Launch, Ended
<1>4. Local(p)'
  BY <1>2, <1>3 DEF Local, Holding, Position, Filled, Extracting, Filling
<1>5. QED
  BY <1>1, <1>4, SameFiles

LEMMA MkCacheDirsIInv ==
  ASSUME IInv, NEW p \in Proc, MkCacheDirs(p), TypeOK', NamesApart' PROVE IInv'
<1>1. /\ \A q \in Proc : q # p => Untouched(q)
      /\ UNCHANGED <<tmpDir, appDir, content, runnable>>
  BY DEF IInv, TypeOK, MkCacheDirs, Goto, Untouched
<1>2. /\ pc[p] = "mkdirs" /\ pc'[p] = "mktemp" /\ exe'[p] = exe[p]
      /\ pos'[p] = pos[p] /\ fd'[p] = fd[p]
  BY DEF IInv, TypeOK, MkCacheDirs, Goto, At
<1>3. Local(p)'
  BY <1>2 DEF IInv, Local, Holding, Position, Filled, Active, Extracting, Filling,
              BeforeExtraction
<1>4. QED
  BY <1>1, <1>3, SameFiles

LEMMA MktempIInv ==
  ASSUME IInv, NEW p \in Proc, Mktemp(p), TypeOK', NamesApart' PROVE IInv'
<1>1. CASE Quit(p, "failed")
  BY <1>1, QuitIInv DEF Ended
<1>2. CASE ~Quit(p, "failed")
  <2>1. PICK n \in FreeNames : tmpName' = [tmpName EXCEPT ![p] = n]
    BY <1>2 DEF Mktemp
  <2>2. /\ \A q \in Proc : q # p => Untouched(q)
        /\ UNCHANGED <<tmpDir, appDir, content, runnable>>
    BY <1>2, <2>1 DEF IInv, TypeOK, Mktemp, Goto, Untouched, fsVars
  <2>3. /\ pc[p] = "mktemp" /\ pc'[p] = "mktmp" /\ exe'[p] = exe[p]
        /\ pos'[p] = pos[p] /\ fd'[p] = fd[p] /\ tmpName'[p] = n
    BY <1>2, <2>1 DEF IInv, TypeOK, Mktemp, Goto, At
  <2>4. n \in Name /\ tmpDir[n] = None
    BY <2>1 DEF FreeNames
  <2>5. Local(p)
    BY DEF IInv
  <2>6. Local(p)'
    BY <2>2, <2>3, <2>4, <2>5 DEF Local, Holding, Position, Filled, Active,
       Extracting, Filling, BeforeExtraction
  <2>7. QED
    BY <2>2, <2>6, SameFiles
<1>3. QED
  BY <1>1, <1>2

LEMMA MkTmpDirIInv ==
  ASSUME IInv, NEW p \in Proc, MkTmpDir(p), TypeOK', NamesApart' PROVE IInv'
<1> DEFINE n == tmpName[p]
<1>0. /\ TypeOK /\ LinkedOnce /\ Published /\ \A q \in Proc : Local(q)
      /\ pc[p] = "mktmp" /\ n \in Name /\ tmpDir[n] = None
      /\ exe[p] \in Exe /\ pos[p] = 1 /\ fd[p] = None
  <2>1. TypeOK /\ LinkedOnce /\ Published /\ \A q \in Proc : Local(q)
    BY DEF IInv
  <2>2. pc[p] = "mktmp"
    BY DEF MkTmpDir, At
  <2>3. Holding(p)
    BY <2>1 DEF Local
  <2>4. QED
    BY <2>1, <2>2, <2>3, NameFacts DEF Holding, BeforeExtraction
<1>1. CASE Quit(p, "failed")
  BY <1>1, QuitIInv DEF Ended
<1>2. CASE ~Quit(p, "failed")
  <2>1. PICK d \in FreshDirs : tmpDir' = [tmpDir EXCEPT ![n] = d]
    BY <1>0, <1>2 DEF MkTmpDir, LinkTmpDir
  <2>2. /\ d \in Dir /\ d # None
        /\ \A m \in Name : tmpDir[m] # d
        /\ \A s \in Sha : appDir[s] # d
        /\ \A f \in File : content[d][f] = Absent
    BY ConstantFacts DEF FreshDirs, EmptyDir
  <2>3. BeginExtraction(p) /\ UNCHANGED appDir
    BY <1>0, <1>2 DEF MkTmpDir, LinkTmpDir
  <2>4. /\ UNCHANGED <<appDir, content, runnable>>
        /\ exe'[p] = exe[p] /\ pos'[p] = pos[p] /\ fd'[p] = fd[p]
        /\ tmpName'[p] = n /\ Trailer(p)' = Trailer(p)
        /\ pc'[p] \in {"open", "failed"}
        /\ \A q \in Proc : q # p => Untouched(q)
    BY <1>0, <2>3 DEF BeginExtraction, TypeOK, Goto, Untouched, Trailer
  <2>5. tmpDir'[n] = d /\ \A m \in Name : m # n => tmpDir'[m] = tmpDir[m]
    BY <1>0, <2>1 DEF TypeOK
  <2>6. ASSUME NEW q \in Proc, q # p PROVE Local(q)'
    <3>1. pc[q] \in {"mktmp"} \cup Extracting => tmpName[q] \in Name /\ tmpName[q] # n
      BY <1>0, <2>6, Apart, NameFacts DEF Local
    <3>2. QED
      BY <1>0, <2>4, <2>5, <2>6, <3>1, Frame DEF Filling, Extracting
  <2>7. Local(p)'
    <3>1. Entries[Trailer(p).contents] \in 1..NFiles
      BY <1>0, TrailerFacts
    <3>2. Holding(p)'
      BY <1>0, <2>2, <2>4, <2>5 DEF Local, Holding, Active, Extracting, BeforeExtraction
    <3>3. Position(p)'
      BY <1>0, <2>4, <3>1, ConstantFacts DEF Position
    <3>4. Filled(p)'
      BY <1>0, <2>2, <2>4, <2>5 DEF Filled, Filling, File
    <3>5. QED
      BY <3>2, <3>3, <3>4 DEF Local
  <2>8. LinkedOnce'
    BY <1>0, <2>2, <2>4, <2>5 DEF LinkedOnce
  <2>9. Published'
    BY <1>0, <2>4 DEF Published, PublishedFiles,
     PublishedComplete, Complete
  <2>10. QED
    BY <2>6, <2>7, <2>8, <2>9 DEF IInv
<1>3. QED
  BY <1>1, <1>2

\* A launcher that is extracting: its directory and its archive.
LEMMA ExtractingFacts ==
  ASSUME IInv, NEW p \in Proc, pc[p] \in Extracting
  PROVE  /\ TypeOK /\ Local(p) /\ exe[p] \in Exe
         /\ tmpName[p] \in Name /\ tmpDir[tmpName[p]] \in Dir
         /\ tmpDir[tmpName[p]] # None
         /\ Entries[Trailer(p).contents] \in 1..NFiles
         /\ Trailer(p).contents \in Sha /\ Trailer(p).sha \in Sha
         /\ pos[p] \in Nat
BY NameFacts, TrailerFacts, ConstantFacts DEF IInv, Local, TypeOK

LEMMA OpenFileIInv ==
  ASSUME IInv, NEW p \in Proc, OpenFile(p), TypeOK', NamesApart' PROVE IInv'
<1> DEFINE d == tmpDir[tmpName[p]]
<1>1. CASE Quit(p, "failed")
  BY <1>1, QuitIInv DEF Ended
<1>2. CASE ~Quit(p, "failed")
  <2>0. pc[p] = "open" /\ pc[p] \in Extracting
    BY DEF OpenFile, At, Extracting
  <2>1. TypeOK /\ Local(p) /\ exe[p] \in Exe /\ d \in Dir
    BY <2>0, ExtractingFacts
  <2>2. /\ content' = [content EXCEPT ![d][pos[p]] = Short]
        /\ fd' = [fd EXCEPT ![p] = d]
        /\ pos[p] <= Entries[Trailer(p).contents]
    BY <1>2 DEF OpenFile, MoreEntries
  <2>3. /\ UNCHANGED <<tmpDir, appDir, runnable>>
        /\ pc'[p] = "write" /\ exe'[p] = exe[p] /\ pos'[p] = pos[p] /\ fd'[p] = d
        /\ tmpName'[p] = tmpName[p] /\ Trailer(p)' = Trailer(p)
        /\ \A q \in Proc : q # p => Untouched(q)
    BY <1>2, <2>1, <2>2 DEF OpenFile, TypeOK, Goto, Untouched, Trailer
  <2>4. /\ \A f \in File : f # pos[p] => content'[d][f] = content[d][f]
        /\ \A e \in Dir : e # d => content'[e] = content[e]
    BY <2>1, <2>2 DEF TypeOK
  <2>5. Holding(p)' /\ Position(p)'
    BY <2>0, <2>1, <2>2, <2>3 DEF Local, Holding, Position, Active, Extracting, BeforeExtraction
  <2>6. Filled(p)'
    <3>1. ASSUME NEW f \in File
          PROVE  /\ f < pos[p] => content'[d][f] # Absent
                 /\ f > pos[p] => content'[d][f] = Absent
                 /\ f = pos[p] => content'[d][f] # Absent /\ content'[d][f] = Short
                 /\ NoLostCalls /\ f < pos[p] =>
                      content'[d][f] = Trailer(p).contents /\ f \in runnable[d]
      <4>1. pos[p] \in Nat /\ f \in Nat
        BY <2>0, ExtractingFacts DEF File
      <4>2. /\ f < pos[p] => content[d][f] # Absent
            /\ f > pos[p] => content[d][f] = Absent
            /\ NoLostCalls /\ f < pos[p] =>
                 content[d][f] = Trailer(p).contents /\ f \in runnable[d]
        BY <2>0, <2>1 DEF Local, Filled, Filling
      <4>3. f = pos[p] => content'[d][f] = Short
        BY <2>1, <2>2 DEF TypeOK
      <4>4. QED
        BY <4>1, <4>2, <4>3, <2>4, ConstantFacts
    <3>2. QED
      BY <2>3, <3>1 DEF Filled
  <2>7. QED
    BY <2>0, <2>3, <2>4, <2>5, <2>6, OwnFiles DEF Local
<1>3. QED
  BY <1>1, <1>2

LEMMA WriteFileIInv ==
  ASSUME IInv, NEW p \in Proc, WriteFile(p), TypeOK', NamesApart'
  PROVE  IInv'
<1> DEFINE d == tmpDir[tmpName[p]]
<1>1. CASE Quit(p, "failed")
  BY <1>1, QuitIInv DEF Ended
<1>2. CASE ~Quit(p, "failed")
  <2>0. pc[p] = "write" /\ pc[p] \in Extracting
    BY DEF WriteFile, At, Extracting
  <2>1. TypeOK /\ Local(p) /\ exe[p] \in Exe /\ d \in Dir /\ d # None
    BY <2>0, ExtractingFacts
  <2>2. fd[p] = d /\ pos[p] <= Entries[Trailer(p).contents]
    BY <2>0, <2>1 DEF Local, Holding, Position
  <2>s. SoleWriter(p)
    <3>1. content[d][pos[p]] = Short
      <4>1. pos[p] \in File
        BY <2>0, IInvBase DEF Base, Hand
      <4>2. QED
        BY <2>0, <2>1, <4>1 DEF Local, Filled, Filling
    <3>2. ASSUME NEW q \in Proc \ {p} PROVE fd[q] # d
      <4>1. Local(q)
        BY DEF IInv
      <4>2. CASE pc[q] = "write"
        BY <2>0, <4>1, <4>2, Apart DEF Local, Holding, Extracting
      <4>3. CASE pc[q] # "write"
        BY <2>1, <4>1, <4>3 DEF Local, Holding
      <4>4. QED
        BY <4>2, <4>3
    <3>3. QED
      BY <2>2, <3>1, <3>2 DEF SoleWriter
  <2>3. \/ content' = [content EXCEPT ![d][pos[p]] = Trailer(p).contents]
        \/ content' = content /\ ~NoLostCalls
    BY <1>2, <2>1, <2>2, <2>s DEF WriteFile, LostCall, NoLostCalls
  <2>4. /\ UNCHANGED <<tmpDir, appDir, runnable>>
        /\ pc'[p] = "chmod" /\ exe'[p] = exe[p] /\ pos'[p] = pos[p] /\ fd'[p] = None
        /\ tmpName'[p] = tmpName[p] /\ Trailer(p)' = Trailer(p)
        /\ \A q \in Proc : q # p => Untouched(q)
    BY <1>2, <2>1 DEF WriteFile, TypeOK, Goto, Untouched, Trailer
  <2>5. /\ \A f \in File : \/ content'[d][f] = content[d][f] /\ (f = pos[p] => ~NoLostCalls)
                           \/ content'[d][f] = Trailer(p).contents /\ f = pos[p]
        /\ \A e \in Dir : e # d => content'[e] = content[e]
    BY <2>1, <2>3 DEF TypeOK
  <2>6. Holding(p)' /\ Position(p)'
    BY <2>0, <2>1, <2>2, <2>4 DEF Local, Holding, Position, Active, Extracting, BeforeExtraction
  <2>7. Filled(p)'
    <3>1. Trailer(p).contents # Absent /\ pos[p] \in Nat
      BY <2>0, ExtractingFacts, ConstantFacts
    <3>2. ASSUME NEW f \in File
          PROVE  /\ f < pos[p] => content'[d][f] # Absent
                 /\ f > pos[p] => content'[d][f] = Absent
                 /\ f = pos[p] => content'[d][f] # Absent
                 /\ NoLostCalls =>
                      /\ f < pos[p] => content'[d][f] = Trailer(p).contents /\ f \in runnable[d]
                      /\ f = pos[p] => content'[d][f] = Trailer(p).contents
      <4>1. /\ f < pos[p] => content[d][f] # Absent
            /\ f > pos[p] => content[d][f] = Absent
            /\ f = pos[p] => content[d][f] # Absent
            /\ NoLostCalls /\ f < pos[p] =>
                 content[d][f] = Trailer(p).contents /\ f \in runnable[d]
        BY <2>0, <2>1 DEF Local, Filled, Filling
      <4>2. f \in Nat
        BY DEF File
      <4>3. QED
        BY <2>5, <3>1, <4>1, <4>2
    <3>3. QED
      BY <2>4, <3>2 DEF Filled
  <2>8. QED
    BY <2>0, <2>4, <2>5, <2>6, <2>7, OwnFiles DEF Local
<1>3. QED
  BY <1>1, <1>2

LEMMA ChmodFileIInv ==
  ASSUME IInv, NEW p \in Proc, ChmodFile(p), TypeOK', NamesApart'
  PROVE  IInv'
<1> DEFINE d == tmpDir[tmpName[p]]
           c == Trailer(p).contents
<1>0. pc[p] = "chmod" /\ pc[p] \in Extracting
  BY DEF ChmodFile, At, Extracting
<1>1. /\ TypeOK /\ Local(p) /\ exe[p] \in Exe /\ d \in Dir /\ d # None
      /\ Entries[c] \in 1..NFiles /\ c \in Sha /\ pos[p] \in Nat
  BY <1>0, ExtractingFacts
<1>2. pos[p] \in File /\ pos[p] <= Entries[c]
  BY <1>0, <1>1, ConstantFacts DEF Local, Position, TypeOK, File
<1>3. content[d][pos[p]] # Absent /\ (NoLostCalls => content[d][pos[p]] = c)
  BY <1>0, <1>1, <1>2 DEF Local, Filled, Filling
<1>4. \/ runnable' = [runnable EXCEPT ![d] = @ \cup {pos[p]}]
      \/ runnable' = runnable /\ ~NoLostCalls
  BY <1>1, <1>3, ConstantFacts DEF ChmodFile, LostCall, NoLostCalls
<1>5. /\ UNCHANGED <<tmpDir, appDir, content>>
      /\ pc'[p] = "open" /\ exe'[p] = exe[p] /\ pos'[p] = pos[p] + 1 /\ fd'[p] = fd[p]
      /\ tmpName'[p] = tmpName[p] /\ Trailer(p)' = Trailer(p)
      /\ \A q \in Proc : q # p => Untouched(q)
  BY <1>1 DEF ChmodFile, TypeOK, Goto, Untouched, Trailer
<1>6. /\ NoLostCalls => runnable'[d] = runnable[d] \cup {pos[p]}
      /\ \A e \in Dir : e # d => runnable'[e] = runnable[e]
  BY <1>1, <1>4 DEF TypeOK
<1>7. Holding(p)' /\ Position(p)'
  <2>1. Position(p)'
    BY <1>1, <1>2, <1>5, ConstantFacts DEF Position
  <2>2. Holding(p)'
    BY <1>0, <1>1, <1>5 DEF Local, Holding, Active, Extracting, BeforeExtraction
  <2>3. QED
    BY <2>1, <2>2
<1>8. Filled(p)'
  <2>1. ASSUME NEW f \in File
        PROVE  /\ f < pos[p] + 1 => content[d][f] # Absent
               /\ f >= pos[p] + 1 => content[d][f] = Absent
               /\ NoLostCalls /\ f < pos[p] + 1 => content[d][f] = c /\ f \in runnable'[d]
    <3>1. /\ f < pos[p] => content[d][f] # Absent
          /\ f > pos[p] => content[d][f] = Absent
          /\ NoLostCalls /\ f < pos[p] => content[d][f] = c /\ f \in runnable[d]
      BY <1>0, <1>1 DEF Local, Filled, Filling
    <3>2. f \in Nat
      BY DEF File
    <3>3. QED
      BY <1>1, <1>3, <1>6, <3>1, <3>2
  <2>2. QED
    BY <1>1, <1>5, <2>1 DEF Filled, File
<1>9. QED
  BY <1>0, <1>5, <1>6, <1>7, <1>8, OwnFiles DEF Local

\* A published directory has its files, so it is not empty, and nothing can be
\* renamed over it.
LEMMA PublishedNotEmpty ==
  ASSUME IInv, NEW s \in Sha, appDir[s] # None
  PROVE  ~EmptyDir(appDir[s])
<1>1. 1 \in File /\ 1 <= Entries[s]
  BY ConstantFacts DEF File
<1>2. content[appDir[s]][1] # Absent
  BY <1>1 DEF IInv, Published, PublishedFiles
<1>3. QED
  BY <1>1, <1>2 DEF EmptyDir

LEMMA RenameIInv ==
  ASSUME IInv, NEW p \in Proc, Rename(p), TypeOK', NamesApart' PROVE IInv'
<1> DEFINE n == tmpName[p]
           d == tmpDir[tmpName[p]]
           s == Trailer(p).sha
<1>0. pc[p] = "rename" /\ pc[p] \in Extracting
  BY DEF Rename, At, Extracting
<1>1. /\ TypeOK /\ Local(p) /\ exe[p] \in Exe /\ n \in Name /\ d \in Dir /\ d # None
      /\ s \in Sha /\ pos[p] \in Nat /\ Entries[Trailer(p).contents] \in 1..NFiles
  BY <1>0, ExtractingFacts
<1>2. /\ Trailer(p).contents = s
      /\ pos[p] = Entries[s] + 1
  BY <1>0, <1>1 DEF Local, Position
<1>3. CASE Step(p, "cleanup")
  BY <1>0, <1>3, StepIInv DEF Active, Extracting, BeforeExtraction
<1>4. CASE ~Step(p, "cleanup")
  <2>1. /\ appDir[s] = None
        /\ appDir' = [appDir EXCEPT ![s] = d]
        /\ tmpDir' = [tmpDir EXCEPT ![n] = None]
    BY <1>1, <1>4, PublishedNotEmpty DEF Rename, CanRename, LoseRace
  <2>2. /\ UNCHANGED <<content, runnable>>
        /\ pc'[p] = "recheck" /\ exe'[p] = exe[p] /\ pos'[p] = pos[p] /\ fd'[p] = fd[p]
        /\ \A q \in Proc : q # p => Untouched(q)
    BY <1>1, <1>4 DEF Rename, LoseRace, TypeOK, Goto, Untouched
  <2>3. /\ appDir'[s] = d /\ \A t \in Sha : t # s => appDir'[t] = appDir[t]
        /\ tmpDir'[n] = None /\ \A m \in Name : m # n => tmpDir'[m] = tmpDir[m]
    BY <1>1, <2>1 DEF TypeOK
  <2>4. ASSUME NEW q \in Proc, q # p PROVE Local(q)'
    <3>1. /\ Local(q)
          /\ pc[q] \in {"mktmp"} \cup Extracting => tmpName[q] \in Name /\ tmpName[q] # n
      BY <1>0, <1>1, <2>4, Apart, NameFacts DEF IInv, Local
    <3>2. QED
      BY <2>2, <2>3, <2>4, <3>1, Frame
  <2>5. Local(p)'
    BY <1>0, <1>1, <2>2 DEF Local, Holding, Position, Filled, Active, Extracting,
                            Filling, BeforeExtraction
  <2>6. LinkedOnce'
    BY <1>1, <2>1, <2>3 DEF IInv, LinkedOnce
  <2>7. /\ \A f \in File : content[d][f] # Absent <=> f <= Entries[s]
        /\ NoLostCalls => Complete(d, s)
    <3>1. ASSUME NEW f \in File
          PROVE  /\ content[d][f] # Absent <=> f <= Entries[s]
                 /\ NoLostCalls /\ f <= Entries[s] => content[d][f] = s /\ f \in runnable[d]
      <4>1. /\ f < pos[p] => content[d][f] # Absent
            /\ f > pos[p] => content[d][f] = Absent
            /\ f = pos[p] => content[d][f] = Absent
            /\ NoLostCalls /\ f < pos[p] => content[d][f] = s /\ f \in runnable[d]
        BY <1>0, <1>1, <1>2 DEF Local, Filled, Filling
      <4>2. f \in Nat /\ Entries[s] \in Nat
        BY <1>1, <1>2 DEF File
      <4>3. QED
        BY <1>2, <4>1, <4>2
    <3>2. QED
      BY <3>1 DEF Complete
  <2>8. Published'
    BY <2>2, <2>3, <2>7 DEF IInv, Published, PublishedFiles,
     PublishedComplete, Complete
  <2>9. QED
    BY <2>4, <2>5, <2>6, <2>8 DEF IInv
<1>5. QED
  BY <1>3, <1>4

LEMMA RmFileIInv ==
  ASSUME IInv, NEW p \in Proc, RmFile(p), TypeOK', NamesApart' PROVE IInv'
<1> DEFINE d == tmpDir[tmpName[p]]
<1>0. pc[p] = "cleanup" /\ pc[p] \in Extracting
  BY DEF RmFile, At, Extracting
<1>1. TypeOK /\ Local(p) /\ tmpName[p] \in Name /\ d \in Dir /\ d # None
  BY <1>0, ExtractingFacts
<1>2. PICK f \in File :
        /\ content' = [content EXCEPT ![d][f] = Absent]
        /\ runnable' = [runnable EXCEPT ![d] = @ \ {f}]
        /\ fd' = [q \in Proc |-> IF fd[q] = d /\ pos[q] = f THEN None ELSE fd[q]]
  BY DEF RmFile
<1>3. ASSUME NEW q \in Proc PROVE fd[q] # d
  <2>1. CASE q = p
    BY <1>0, <1>1, <2>1 DEF Local, Holding
  <2>2. CASE q # p /\ pc[q] = "write"
    BY <1>0, <2>2, Apart DEF IInv, Local, Holding, Extracting
  <2>3. CASE q # p /\ pc[q] # "write"
    BY <1>1, <2>3 DEF IInv, Local, Holding
  <2>4. QED
    BY <2>1, <2>2, <2>3
<1>4. fd' = fd
  BY <1>1, <1>2, <1>3 DEF TypeOK
<1>5. /\ UNCHANGED <<pc, exe, tmpName, pos, fd, tmpDir, appDir>>
      /\ \A q \in Proc : Untouched(q)
  BY <1>4 DEF RmFile, Untouched
<1>6. \A e \in Dir : e # d => content'[e] = content[e] /\ runnable'[e] = runnable[e]
  BY <1>1, <1>2 DEF TypeOK
<1>7. Local(p)'
  BY <1>0, <1>1, <1>5 DEF Local, Holding, Position, Filled, Filling, Trailer, BeforeExtraction
<1>8. QED
  BY <1>0, <1>5, <1>6, <1>7, OwnFiles

LEMMA RmDirIInv ==
  ASSUME IInv, NEW p \in Proc, RmDir(p), TypeOK', NamesApart' PROVE IInv'
<1> DEFINE n == tmpName[p]
<1>0. pc[p] = "cleanup" /\ pc[p] \in Extracting
  BY DEF RmDir, At, Extracting
<1>1. TypeOK /\ Local(p) /\ n \in Name /\ tmpDir[n] # None
  BY <1>0, ExtractingFacts
<1>2. /\ UNCHANGED <<appDir, content, runnable>>
      /\ pc'[p] = "recheck" /\ exe'[p] = exe[p] /\ pos'[p] = pos[p] /\ fd'[p] = fd[p]
      /\ \A q \in Proc : q # p => Untouched(q)
      /\ tmpDir'[n] = None /\ \A m \in Name : m # n => tmpDir'[m] = tmpDir[m]
  BY <1>1 DEF RmDir, TypeOK, Goto, Untouched
<1>3. ASSUME NEW q \in Proc, q # p PROVE Local(q)'
  <2>1. /\ Local(q)
        /\ pc[q] \in {"mktmp"} \cup Extracting => tmpName[q] \in Name /\ tmpName[q] # n
    BY <1>0, <1>1, <1>3, Apart, NameFacts DEF IInv, Local
  <2>2. QED
    BY <1>2, <1>3, <2>1, Frame
<1>4. Local(p)'
  BY <1>0, <1>1, <1>2 DEF Local, Holding, Position, Filled, Active, Extracting,
                          Filling, BeforeExtraction
<1>5. LinkedOnce' /\ Published'
  <2>1. LinkedOnce'
    BY <1>1, <1>2 DEF IInv, LinkedOnce
  <2>2. Published'
    BY <1>2 DEF IInv, Published, PublishedFiles,
     PublishedComplete, Complete
  <2>3. QED
    BY <2>1, <2>2
<1>6. QED
  BY <1>3, <1>4, <1>5 DEF IInv

\* A loser that cannot remove its directory leaves it.
LEMMA RmGiveUpIInv ==
  ASSUME IInv, NEW p \in Proc, RmGiveUp(p), TypeOK', NamesApart' PROVE IInv'
<1>1. /\ \A q \in Proc : q # p => Untouched(q)
      /\ UNCHANGED <<tmpDir, appDir, content, runnable>>
      /\ pc[p] = "cleanup" /\ pc'[p] = "recheck" /\ exe'[p] = exe[p] /\ fd'[p] = fd[p]
  BY DEF IInv, TypeOK, RmGiveUp, Goto, At, Untouched, fsVars
<1>2. Local(p)'
  BY <1>1 DEF IInv, Local, Holding, Position, Filled, Active, Extracting, Filling,
              BeforeExtraction
<1>3. QED
  BY <1>1, <1>2, SameFiles

LEMMA AddIndexIInv ==
  ASSUME IInv, NEW p \in Proc, AddIndex(p), TypeOK', NamesApart' PROVE IInv'
<1>1. /\ \A q \in Proc : q # p => Untouched(q)
      /\ UNCHANGED <<tmpDir, appDir, content, runnable>>
      /\ pc[p] = "index" /\ pc'[p] = "ready" /\ exe'[p] = exe[p] /\ fd'[p] = fd[p]
  BY DEF IInv, TypeOK, AddIndex, Goto, At, Untouched
<1>2. Local(p)'
  BY <1>1 DEF IInv, Local, Holding, Position, Filled, Active, Extracting, Filling,
              BeforeExtraction
<1>3. QED
  BY <1>1, <1>2, SameFiles

\* The steps that end the process or only move its control point.
LEMMA ControlIInv ==
  ASSUME IInv, NEW p \in Proc, TypeOK', NamesApart',
         \/ ReadTrailer(p) \/ Probe(p) \/ EndOfArchive(p) \/ Verify(p)
         \/ Recheck(p) \/ Exec(p) \/ AppExit(p) \/ Crash(p)
  PROVE  IInv'
<1>q. ASSUME NEW l \in Ended, Quit(p, l) PROVE IInv'
  BY <1>q, QuitIInv
<1>1. CASE ReadTrailer(p)
  <2>1. pc[p] = "trailer" /\ (Quit(p, "failed") \/ Quit(p, "done") \/ Step(p, "probe"))
    BY <1>1 DEF ReadTrailer, At
  <2>2. CASE Step(p, "probe")
    BY <2>1, <2>2, StepIInv DEF Active, Extracting, BeforeExtraction
  <2>3. QED
    BY <2>1, <2>2, <1>q DEF Ended
<1>2. CASE Probe(p)
  <2>1. pc[p] = "probe" /\ (Step(p, "ready") \/ Step(p, "mkdirs"))
    BY <1>2 DEF Probe, At
  <2>2. QED
    BY <2>1, StepIInv DEF Active, Extracting, BeforeExtraction
<1>3. CASE EndOfArchive(p)
  <2>1. pc[p] = "open" /\ pc[p] \in Extracting
    BY <1>3 DEF EndOfArchive, At, Extracting
  <2>2. pos[p] = Entries[Trailer(p).contents] + 1
    BY <1>3, <2>1, ExtractingFacts DEF EndOfArchive, MoreEntries, Local, Position
  <2>3. Quit(p, "failed") \/ Step(p, "verify")
    BY <1>3 DEF EndOfArchive
  <2>4. CASE Step(p, "verify")
    BY <2>1, <2>2, <2>4, StepIInv DEF Active, Extracting, BeforeExtraction
  <2>5. QED
    BY <2>3, <2>4, <1>q DEF Ended
<1>4. CASE Verify(p)
  <2>1. pc[p] = "verify" /\ pc[p] \in Extracting
    BY <1>4 DEF Verify, At, Extracting
  <2>2. pos[p] = Entries[Trailer(p).contents] + 1
    BY <2>1, ExtractingFacts DEF Local, Position
  <2>3. \/ Quit(p, "failed")
        \/ Trailer(p).contents = Trailer(p).sha /\ Step(p, "rename")
    BY <1>4 DEF Verify
  <2>4. CASE Trailer(p).contents = Trailer(p).sha /\ Step(p, "rename")
    BY <2>1, <2>2, <2>4, StepIInv DEF Active, Extracting, BeforeExtraction
  <2>5. QED
    BY <2>3, <2>4, <1>q DEF Ended
<1>5. CASE Recheck(p)
  <2>1. pc[p] = "recheck" /\ (Quit(p, "failed") \/ Step(p, "index"))
    BY <1>5 DEF Recheck, At
  <2>2. CASE Step(p, "index")
    BY <2>1, <2>2, StepIInv DEF Active, Extracting, BeforeExtraction
  <2>3. QED
    BY <2>1, <2>2, <1>q DEF Ended
<1>6. CASE Exec(p)
  <2>1. pc[p] = "ready" /\ (Quit(p, "failed") \/ Quit(p, "done") \/ Step(p, "running"))
    BY <1>6 DEF Exec, At
  <2>2. CASE Step(p, "running")
    BY <2>1, <2>2, StepIInv DEF Active, Extracting, BeforeExtraction
  <2>3. QED
    BY <2>1, <2>2, <1>q DEF Ended
<1>7. CASE AppExit(p) \/ Crash(p)
  BY <1>7, <1>q DEF AppExit, Crash, Ended
<1>8. QED
  BY <1>1, <1>2, <1>3, <1>4, <1>5, <1>6, <1>7

\* mktemp passes over the directories of launchers that extract, and without
\* collisions over the names of those about to make theirs.
LEMMA NextApart ==
  ASSUME NoCollisions, IInv, Next PROVE NamesApart'
<1>0. TypeOK /\ NamesApart /\ \A q \in Proc : Local(q)
  BY DEF IInv
<1>1. PICK p \in Proc : Launch(p) \/ Proceed(p) \/ AppExit(p) \/ Crash(p)
  BY DEF Next
<1> DEFINE Has(q) == pc[q] \in {"mktmp"} \cup Extracting
<1>2. ASSUME NEW q \in Proc, q # p PROVE tmpName'[q] = tmpName[q] /\ (Has(q)' <=> Has(q))
  BY <1>0, <1>1, <1>2, OthersStay
<1>3. CASE \E n \in FreeNames \ DrawnNames : tmpName' = [tmpName EXCEPT ![p] = n]
  <2>1. PICK n \in FreeNames \ DrawnNames : tmpName' = [tmpName EXCEPT ![p] = n]
    BY <1>3
  <2>2. ASSUME NEW q \in Proc, q # p, Has(q) PROVE tmpName[q] # n
    <3>1. Local(q)
      BY <1>0
    <3>2. CASE pc[q] = "mktmp"
      BY <2>1, <3>2 DEF DrawnNames
    <3>3. CASE pc[q] \in Extracting
      BY <2>1, <3>1, <3>3, ConstantFacts DEF Local, Holding, FreeNames
    <3>4. QED
      BY <2>2, <3>2, <3>3
  <2>3. tmpName'[p] = n
    BY <1>0, <2>1 DEF TypeOK
  <2>4. QED
    BY <1>0, <1>2, <2>2, <2>3 DEF NamesApart
<1>4. CASE ~Has(p)' \/ (Has(p) /\ tmpName'[p] = tmpName[p])
  BY <1>0, <1>2, <1>4 DEF NamesApart
<1>5. CASE Mktemp(p)
  <2>1. CASE Quit(p, "failed")
    BY <1>0, <1>4, <2>1 DEF TypeOK, Quit, Goto, Extracting
  <2>2. CASE ~Quit(p, "failed")
    BY <1>3, <1>5, <2>2 DEF Mktemp, Collision, NoCollisions
  <2>3. QED
    BY <2>1, <2>2
<1>6. CASE ~Mktemp(p)
  <2>1. ~Has(p)' \/ (Has(p) /\ tmpName'[p] = tmpName[p])
    BY <1>0, <1>1, <1>6 DEF TypeOK, Proceed, Launch, ReadTrailer, Probe,
       MkCacheDirs, MkTmpDir, BeginExtraction, OpenFile, WriteFile,
       ChmodFile, EndOfArchive, Verify, Rename, LoseRace, RmFile, RmDir, RmGiveUp,
       Recheck, AddIndex, Exec, AppExit, Crash, Quit, Step, Goto, At, Extracting, Ended
  <2>2. QED
    BY <1>4, <2>1
<1>7. QED
  BY <1>5, <1>6

LEMMA NextIInv ==
  ASSUME NoCollisions, IInv, [Next]_vars PROVE IInv'
<1>1. CASE Next
  <2>1. TypeOK' /\ NamesApart'
    <3>1. TypeOK'
      BY <1>1, IInvBase, NextType
    <3>2. NamesApart'
      BY <1>1, NextApart
    <3>3. QED
      BY <3>1, <3>2
  <2>2. PICK p \in Proc : Launch(p) \/ Proceed(p) \/ AppExit(p) \/ Crash(p)
    BY <1>1 DEF Next
  <2>3. QED
    BY <2>1, <2>2, LaunchIInv, MkCacheDirsIInv, MktempIInv, MkTmpDirIInv,
       OpenFileIInv, WriteFileIInv, ChmodFileIInv, RenameIInv, RmFileIInv,
       RmDirIInv, RmGiveUpIInv, AddIndexIInv, ControlIInv DEF Proceed
<1>2. CASE UNCHANGED vars
  BY <1>2 DEF vars, procVars, fsVars, IInv, NamesApart, TypeOK, Local, Holding, Position,
     Filled, Trailer, LinkedOnce, Published, PublishedFiles,
     PublishedComplete, Complete
<1>3. QED
  BY <1>1, <1>2

-----------------------------------------------------------------------------
(* The results                                                             *)

LEMMA SpecIInv ==
  ASSUME NoCollisions PROVE Spec => []IInv
<1>1. Init => IInv
  BY InitIInv
<1>2. IInv /\ [Next]_vars => IInv'
  BY NextIInv
<1>3. QED
  BY <1>1, <1>2, PTL DEF Spec

\* At every moment, in every interleaving of any number of launchers, with
\* crashes and failing calls, what is linked at <sha1> is the whole verified
\* archive; only a lost write or chmod can spoil it (run lost_write), or two
\* launchers that draw the same temporary name (as in run name_collision).
THEOREM PublishedIsComplete ==
  ASSUME NoCollisions, NoLostCalls PROVE Spec => []PublishedComplete
<1>1. IInv => PublishedComplete
  BY DEF IInv, Published
<1>2. QED
  BY <1>1, SpecIInv, PTL

\* One step leaves a published entry as it is.
LEMMA EntryStep ==
  ASSUME IInv, Next, NEW s \in Sha, appDir[s] # None
  PROVE  /\ appDir'[s] = appDir[s]
         /\ content'[appDir[s]] = content[appDir[s]]
         /\ runnable'[appDir[s]] = runnable[appDir[s]]
<1>0. TypeOK /\ LinkedOnce /\ appDir[s] \in Dir
  BY DEF IInv, TypeOK
<1>1. PICK p \in Proc : Launch(p) \/ Proceed(p) \/ AppExit(p) \/ Crash(p)
  BY DEF Next
<1>2. CASE UNCHANGED <<appDir, content, runnable>>
  BY <1>2
<1>3. ASSUME pc[p] \in Extracting PROVE tmpDir[tmpName[p]] # appDir[s]
  BY <1>0, <1>3, ExtractingFacts DEF LinkedOnce
<1>4. CASE OpenFile(p)
  BY <1>0, <1>3, <1>4 DEF OpenFile, At, Extracting, TypeOK, Quit, fsVars
<1>5. CASE WriteFile(p)
  <2>1. pc[p] = "write" /\ fd[p] = tmpDir[tmpName[p]] /\ fd[p] # appDir[s]
    BY <1>3, <1>5 DEF WriteFile, At, IInv, Local, Holding, Extracting
  <2>2. QED
    BY <1>0, <1>5, <2>1 DEF WriteFile, TypeOK, Quit, fsVars
<1>6. CASE ChmodFile(p)
  BY <1>0, <1>3, <1>6 DEF ChmodFile, At, Extracting, TypeOK
<1>7. CASE RmFile(p)
  BY <1>0, <1>3, <1>7 DEF RmFile, At, Extracting, TypeOK
<1>8. CASE Rename(p)
  <2>1. UNCHANGED <<content, runnable>>
    BY <1>8 DEF Rename, CanRename, LoseRace, Step, fsVars
  <2>2. CASE UNCHANGED appDir
    BY <2>1, <2>2
  <2>3. CASE appDir' # appDir
    <3>1. pc[p] \in Extracting /\ Trailer(p).sha \in Sha
      BY <1>8, ExtractingFacts DEF Rename, At, Extracting
    <3>2. /\ appDir' = [appDir EXCEPT ![Trailer(p).sha] = tmpDir[tmpName[p]]]
          /\ appDir[Trailer(p).sha] # None => EmptyDir(appDir[Trailer(p).sha])
      BY <1>8, <2>3 DEF Rename, CanRename, LoseRace, Step, fsVars
    <3>3. Trailer(p).sha # s
      BY <3>1, <3>2, PublishedNotEmpty
    <3>4. QED
      BY <1>0, <2>1, <3>2, <3>3 DEF TypeOK
  <2>4. QED
    BY <2>2, <2>3
<1>9. CASE \/ Launch(p) \/ ReadTrailer(p) \/ Probe(p) \/ MkCacheDirs(p) \/ Mktemp(p)
           \/ MkTmpDir(p) \/ EndOfArchive(p) \/ Verify(p) \/ RmDir(p) \/ RmGiveUp(p)
           \/ Recheck(p) \/ AddIndex(p) \/ Exec(p) \/ AppExit(p) \/ Crash(p)
  <2>1. UNCHANGED <<appDir, content, runnable>>
    BY <1>9 DEF Launch, ReadTrailer, Probe, MkCacheDirs, Mktemp, MkTmpDir,
       LinkTmpDir, BeginExtraction, EndOfArchive, Verify, RmDir, RmGiveUp, Recheck, AddIndex,
       Exec, AppExit, Crash, Quit, Step, fsVars
  <2>2. QED
    BY <1>2, <2>1
<1>10. QED
  BY <1>1, <1>4, <1>5, <1>6, <1>7, <1>8, <1>9 DEF Proceed

\* Once published, an entry keeps its directory and all its files for ever, if no
\* two launchers draw the same temporary name.
THEOREM EntriesNeverChange ==
  ASSUME NoCollisions PROVE Spec => EntryNeverChanges
<1> DEFINE Same == \A s \in Sha : appDir[s] # None =>
                     /\ appDir'[s] = appDir[s]
                     /\ content'[appDir[s]] = content[appDir[s]]
                     /\ runnable'[appDir[s]] = runnable[appDir[s]]
<1>1. IInv /\ [Next]_vars => [Same]_vars
  BY EntryStep
<1> HIDE DEF Same
<1>2. Spec => [][Same]_vars
  BY <1>1, SpecIInv, PTL DEF Spec
<1>3. QED
  BY <1>2 DEF EntryNeverChanges, Same

-----------------------------------------------------------------------------
(***************************************************************************)
(* What comes of a launch, proved from the inductive invariant: what is    *)
(* left under .tmp, that no healthy launch fails, and that the file system *)
(* implements the abstract cache.                                          *)
(***************************************************************************)

-----------------------------------------------------------------------------
(* What is left under .tmp                                                 *)

\* The launch leaves its temporary directory behind; where nothing crashes and
\* no call fails, because its archive is defective.
Leaves(p) ==
  /\ leftBy' = [leftBy EXCEPT ![tmpName[p]] = exe[p]]
  /\ exe[p] \in Exe
  /\ Faults = {} => ~Healthy(exe[p])

\* Without faults only a defective archive ends a launch that is extracting.
LEMMA ExtractionEnds ==
  ASSUME IInv, NEW p \in Proc, pc[p] \in Extracting, NEW l \in Ended, Quit(p, l),
         OpenFile(p) \/ WriteFile(p) \/ EndOfArchive(p) \/ Verify(p) \/ Crash(p)
  PROVE  Leaves(p)
<1>1. exe[p] \in Exe /\ tmpDir[tmpName[p]] # None
  BY ExtractingFacts
<1>2. pc'[p] \in Ended
  BY DEF IInv, TypeOK, Quit, Goto
<1>3. ASSUME Faults = {} PROVE ~Healthy(exe[p])
  <2>1. ~IoFault /\ "crash" \notin Faults
    BY <1>3 DEF IoFault
  <2>2. CASE OpenFile(p) \/ WriteFile(p) \/ EndOfArchive(p)
    <3>1. ReadFails(p)
      BY <1>1, <1>2, <2>2 DEF IInv, TypeOK, OpenFile, WriteFile, EndOfArchive, Step, Goto, Ended
    <3>2. QED
      BY <2>1, <3>1 DEF ReadFails, Healthy, Trailer
  <2>3. CASE Verify(p)
    BY <1>2, <2>3 DEF IInv, TypeOK, Verify, Step, Goto, Ended, Healthy, Trailer
  <2>4. CASE Crash(p)
    BY <2>1, <2>4 DEF Crash
  <2>5. QED
    BY <2>2, <2>3, <2>4
<1>4. QED
  BY <1>1, <1>3 DEF Leaves, Quit

\* One step, seen from .tmp: whoever moves changes at most the directory of its
\* own name, and either still works in it or leaves it.
LEMMA TmpStep ==
  ASSUME IInv, NEW p \in Proc, Launch(p) \/ Proceed(p) \/ AppExit(p) \/ Crash(p)
  PROVE  /\ \A q \in Proc : q # p => pc'[q] = pc[q] /\ tmpName'[q] = tmpName[q]
         /\ \A n \in Name : n # tmpName[p] => tmpDir'[n] = tmpDir[n]
         /\ leftBy' = leftBy \/ Leaves(p)
         /\ \/ UNCHANGED tmpDir /\ pc[p] \notin Extracting
            \/ tmpDir'[tmpName[p]] = None
            \/ pc'[p] \in Extracting /\ tmpName'[p] = tmpName[p]
            \/ Leaves(p)
<1>0. TypeOK /\ Local(p)
  BY DEF IInv
<1>q. ASSUME NEW l \in Ended, Quit(p, l), pc[p] \notin Extracting
      PROVE  /\ \A q \in Proc : q # p => pc'[q] = pc[q] /\ tmpName'[q] = tmpName[q]
             /\ UNCHANGED <<tmpDir, leftBy>>
  BY <1>0, <1>q DEF TypeOK, Quit, Goto, fsVars
<1>x. ASSUME NEW l \in Ended, Quit(p, l), Leaves(p)
      PROVE  /\ \A q \in Proc : q # p => pc'[q] = pc[q] /\ tmpName'[q] = tmpName[q]
             /\ UNCHANGED tmpDir
  BY <1>0, <1>x DEF TypeOK, Quit, Goto, fsVars
<1>s. ASSUME NEW l \in Active \cup {"running"}, Step(p, l)
      PROVE  /\ \A q \in Proc : q # p => pc'[q] = pc[q] /\ tmpName'[q] = tmpName[q]
             /\ UNCHANGED <<tmpDir, leftBy>> /\ pc'[p] = l /\ tmpName'[p] = tmpName[p]
  BY <1>0, <1>s DEF TypeOK, Step, Goto, fsVars
<1>1. CASE Launch(p)
  BY <1>0, <1>1 DEF Launch, TypeOK, Goto, fsVars, Ended, Extracting
<1>2. CASE ReadTrailer(p) \/ Probe(p) \/ Recheck(p) \/ Exec(p) \/ AppExit(p)
  <2>1. pc[p] \notin Extracting
    BY <1>2 DEF ReadTrailer, Probe, Recheck, Exec, AppExit, At, Extracting
  <2>2. \/ \E l \in Ended : Quit(p, l)
        \/ \E l \in Active \cup {"running"} : Step(p, l)
    BY <1>2 DEF ReadTrailer, Probe, Recheck, Exec, AppExit, Ended, Active
  <2>3. QED
    BY <2>1, <2>2, <1>q, <1>s
<1>3. CASE MkCacheDirs(p) \/ AddIndex(p)
  BY <1>0, <1>3 DEF MkCacheDirs, AddIndex, At, TypeOK, Goto, Extracting
<1>4. CASE Mktemp(p)
  <2>1. pc[p] \notin Extracting
    BY <1>4 DEF Mktemp, At, Extracting
  <2>2. CASE Quit(p, "failed")
    BY <2>1, <2>2, <1>q DEF Ended
  <2>3. CASE ~Quit(p, "failed")
    <3>1. PICK n \in FreeNames : tmpName' = [tmpName EXCEPT ![p] = n]
      BY <1>4, <2>3 DEF Mktemp
    <3>2. QED
      BY <1>0, <1>4, <2>1, <2>3, <3>1 DEF Mktemp, TypeOK, Goto, fsVars
  <2>4. QED
    BY <2>2, <2>3
<1>5. CASE MkTmpDir(p)
  <2>1. pc[p] = "mktmp" /\ pc[p] \notin Extracting
    BY <1>5 DEF MkTmpDir, At, Extracting
  <2>2. CASE Quit(p, "failed")
    BY <2>1, <2>2, <1>q DEF Ended
  <2>3. CASE ~Quit(p, "failed")
    <3>1. BeginExtraction(p) /\ \A n \in Name : n # tmpName[p] => tmpDir'[n] = tmpDir[n]
      BY <1>0, <1>5, <2>3 DEF MkTmpDir, LinkTmpDir, TypeOK
    <3>2. \A q \in Proc : q # p => pc'[q] = pc[q] /\ tmpName'[q] = tmpName[q]
      BY <1>0, <3>1 DEF BeginExtraction, TypeOK, Goto
    <3>3. CASE Trailer(p).compression \in Compressions
      BY <1>0, <3>1, <3>2, <3>3 DEF BeginExtraction, TypeOK, Goto, Extracting
    <3>4. CASE Trailer(p).compression \notin Compressions
      <4>1. exe[p] \in Exe
        BY <1>0, <2>1 DEF Local, Holding, Active
      <4>2. Leaves(p)
        BY <3>1, <3>4, <4>1 DEF BeginExtraction, Leaves, Healthy, Trailer
      <4>3. QED
        BY <3>1, <3>2, <4>2
    <3>5. QED
      BY <3>3, <3>4
  <2>4. QED
    BY <2>2, <2>3
<1>6. CASE OpenFile(p) \/ WriteFile(p) \/ EndOfArchive(p) \/ Verify(p)
  <2>1. pc[p] \in Extracting
    BY <1>6 DEF OpenFile, WriteFile, EndOfArchive, Verify, At, Extracting
  <2>2. CASE Quit(p, "failed")
    <3>1. Leaves(p)
      BY <1>6, <2>1, <2>2, ExtractionEnds DEF Ended
    <3>2. QED
      BY <2>2, <3>1, <1>x DEF Ended
  <2>3. CASE ~Quit(p, "failed")
    BY <1>0, <1>6, <2>3 DEF OpenFile, WriteFile, EndOfArchive, Verify, TypeOK, Step, Goto,
                            fsVars, Extracting
  <2>4. QED
    BY <2>2, <2>3
<1>7. CASE ChmodFile(p) \/ RmFile(p)
  BY <1>0, <1>7 DEF ChmodFile, RmFile, At, TypeOK, Goto, Extracting
<1>8. CASE Rename(p) \/ RmDir(p)
  <2>1. pc[p] \in Extracting
    BY <1>8 DEF Rename, RmDir, At, Extracting
  <2>2. tmpName[p] \in Name
    BY <2>1, ExtractingFacts
  <2>3. CASE Step(p, "cleanup")
    BY <2>3, <1>s DEF Active, Extracting
  <2>4. CASE ~Step(p, "cleanup")
    BY <1>0, <1>8, <2>2, <2>4 DEF Rename, LoseRace, RmDir, TypeOK, Goto
  <2>5. QED
    BY <2>3, <2>4
<1>9. CASE RmGiveUp(p)
  <2>1. pc[p] \in Extracting
    BY <1>9 DEF RmGiveUp, At, Extracting
  <2>2. exe[p] \in Exe /\ tmpDir[tmpName[p]] # None
    BY <2>1, ExtractingFacts
  <2>3. Leaves(p)
    BY <1>9, <2>2 DEF RmGiveUp, LostCall, Leaves
  <2>4. QED
    BY <1>0, <1>9, <2>3 DEF RmGiveUp, TypeOK, Goto, fsVars
<1>10. CASE Crash(p)
  <2>1. Quit(p, "crashed")
    BY <1>10 DEF Crash
  <2>2. CASE pc[p] \in Extracting
    BY <1>10, <2>1, <2>2, <1>x, ExtractionEnds DEF Ended
  <2>3. CASE pc[p] \notin Extracting
    BY <2>1, <2>3, <1>q DEF Ended
  <2>4. QED
    BY <2>2, <2>3
<1>11. QED
  BY <1>1, <1>2, <1>3, <1>4, <1>5, <1>6, <1>7, <1>8, <1>9, <1>10 DEF Proceed

\* Every directory under .tmp has its launcher, or the launch that left it; with
\* no crash and no failing call that launch had a defective archive.  It takes
\* launchers that do not draw the same name.
THEOREM LeftoversAccounted ==
  ASSUME NoCollisions PROVE Spec => []TmpAccounted
<1>1. Init => TmpAccounted
  BY DEF Init, TmpAccounted
<1>2. IInv /\ TmpAccounted /\ [Next]_vars => TmpAccounted'
  <2> SUFFICES ASSUME IInv, TmpAccounted, [Next]_vars PROVE TmpAccounted'
    OBVIOUS
  <2>1. CASE UNCHANGED vars
    BY <2>1 DEF vars, procVars, fsVars, TmpAccounted
  <2>2. CASE Next
    <3>0. leftBy \in [Name -> Exe \cup {None}]
      BY DEF IInv, TypeOK
    <3>1. PICK p \in Proc : Launch(p) \/ Proceed(p) \/ AppExit(p) \/ Crash(p)
      BY <2>2 DEF Next
    <3>2. /\ \A q \in Proc : q # p => pc'[q] = pc[q] /\ tmpName'[q] = tmpName[q]
          /\ \A n \in Name : n # tmpName[p] => tmpDir'[n] = tmpDir[n]
          /\ leftBy' = leftBy \/ Leaves(p)
          /\ \/ UNCHANGED tmpDir /\ pc[p] \notin Extracting
             \/ tmpDir'[tmpName[p]] = None
             \/ pc'[p] \in Extracting /\ tmpName'[p] = tmpName[p]
             \/ Leaves(p)
      BY <3>1, TmpStep
    <3>3. ASSUME NEW n \in Name, tmpDir'[n] # None
          PROVE  \/ \E q \in Proc : pc'[q] \in Extracting /\ tmpName'[q] = n
                 \/ leftBy'[n] # None /\ (Faults = {} => ~Healthy(leftBy'[n]))
      <4>1. ASSUME Leaves(p), n = tmpName[p]
            PROVE  leftBy'[n] # None /\ (Faults = {} => ~Healthy(leftBy'[n]))
        BY <3>0, <4>1, ConstantFacts DEF Leaves
      <4>2. CASE n # tmpName[p] \/ (UNCHANGED tmpDir /\ pc[p] \notin Extracting)
        <5>1. tmpDir[n] # None
          BY <3>2, <3>3, <4>2
        <5>2. CASE \E q \in Proc : pc[q] \in Extracting /\ tmpName[q] = n
          BY <3>2, <4>2, <5>2
        <5>3. CASE leftBy[n] # None /\ (Faults = {} => ~Healthy(leftBy[n]))
          BY <3>0, <3>2, <4>1, <5>3 DEF Leaves
        <5>4. QED
          BY <5>1, <5>2, <5>3 DEF TmpAccounted
      <4>3. QED
        BY <3>2, <3>3, <4>1, <4>2
    <3>4. QED
      BY <3>3 DEF TmpAccounted, Healthy
  <2>3. QED
    BY <2>1, <2>2
<1>3. QED
  BY <1>1, <1>2, SpecIInv, PTL DEF Spec

-----------------------------------------------------------------------------
(* No healthy launch fails                                                 *)

NoIoFaults == "io" \notin Faults

\* mktemp never runs out: there are more names than a file system has directories.
NamesSuffice ==
  /\ IsFiniteSet(Name) /\ IsFiniteSet(Dir)
  /\ Cardinality(Dir) < Cardinality(Name)

\* Names that are taken lead to different directories.
LEMMA NameLeft ==
  ASSUME NamesSuffice, TypeOK, LinkedOnce PROVE FreeNames # {}
<1> SUFFICES ASSUME FreeNames = {} PROVE FALSE
  OBVIOUS
<1>1. \A n \in Name : tmpDir[n] # None
  BY DEF FreeNames
<1>2. tmpDir \in [Name -> Dir]
  BY <1>1 DEF TypeOK
<1>3. \E m, n \in Name : m # n /\ tmpDir[m] = tmpDir[n]
  BY <1>2, FS_PigeonHole DEF NamesSuffice
<1>4. QED
  BY <1>1, <1>3 DEF LinkedOnce

\* What a launch finds when it gets there: the directory for its temporary
\* directory, and the entry that it published or that beat it.
Ground(p) ==
  /\ pc[p] \in {"mktemp", "mktmp"} => ".tmp" \in made
  /\ pc[p] \in {"cleanup", "recheck"} => appDir[Trailer(p).sha] # None

Outcome == \A p \in Proc : Ground(p)

\* The cache's own directories stay, and so do its entries.
LEMMA GroundStep ==
  ASSUME NoLostCalls, NoIoFaults, ParentExists, IInv, NEW p \in Proc,
         Launch(p) \/ Proceed(p) \/ AppExit(p) \/ Crash(p),
         NEW q \in Proc, Ground(q)
  PROVE  Ground(q)'
<1>0. TypeOK /\ Local(p) /\ Local(q) /\ ~IoFault /\ ~LostCall
  BY DEF IInv, NoIoFaults, NoLostCalls, IoFault, LostCall
<1>1. made \subseteq made'
  BY DEF Proceed, Launch, ReadTrailer, Probe, MkCacheDirs, Mktemp,
     MkTmpDir, BeginExtraction, OpenFile, WriteFile, ChmodFile, EndOfArchive, Verify,
     Rename, LoseRace, RmFile, RmDir, RmGiveUp, Recheck, AddIndex, Exec, AppExit, Crash,
     Quit, Step, fsVars
<1>2. ASSUME NEW s \in Sha, appDir[s] # None PROVE appDir'[s] # None
  BY <1>2, EntryStep DEF Next
<1>3. CASE q # p
  <2>1. pc'[q] = pc[q] /\ exe'[q] = exe[q]
    BY <1>0, <1>3 DEF TypeOK, Proceed, Launch, ReadTrailer, Probe,
       MkCacheDirs, Mktemp, MkTmpDir, BeginExtraction, OpenFile, WriteFile,
       ChmodFile, EndOfArchive, Verify, Rename, LoseRace, RmFile, RmDir, RmGiveUp,
       Recheck, AddIndex, Exec, AppExit, Crash, Quit, Step, Goto
  <2>2. pc[q] \in {"cleanup", "recheck"} => Trailer(q).sha \in Sha
    BY <1>0, TrailerFacts DEF Local, Holding, Active, Extracting
  <2>3. Trailer(q)' = Trailer(q)
    BY <2>1 DEF Trailer
  <2>4. QED
    BY <1>1, <1>2, <2>1, <2>2, <2>3 DEF Ground
<1>4. CASE q = p /\ MkCacheDirs(p)
  <2>1. {"base", ".tmp", ".index"} \subseteq made'
    BY <1>0, <1>4 DEF MkCacheDirs
  <2>2. pc'[q] = "mktemp"
    BY <1>0, <1>4 DEF MkCacheDirs, TypeOK, Goto
  <2>3. QED
    BY <2>1, <2>2 DEF Ground
<1>5. CASE q = p /\ Rename(p)
  <2>1. /\ pc[p] = "rename" /\ pc[p] \in Extracting
        /\ exe'[p] = exe[p] /\ Trailer(p)' = Trailer(p)
    BY <1>5 DEF Rename, LoseRace, Step, At, Extracting, Trailer
  <2>2. /\ Trailer(p).sha \in Sha /\ tmpDir[tmpName[p]] # None
    BY <2>1, ExtractingFacts
  <2>3. CASE CanRename(p) /\ appDir' = [appDir EXCEPT ![Trailer(p).sha] = tmpDir[tmpName[p]]]
             /\ Goto(p, "recheck")
    BY <1>0, <1>5, <2>1, <2>2, <2>3 DEF Ground, TypeOK, Goto
  <2>4. CASE ~CanRename(p) /\ Step(p, "cleanup")
    <3>1. appDir[Trailer(p).sha] # None
      BY <2>2, <2>4 DEF CanRename
    <3>2. QED
      BY <1>0, <1>5, <2>1, <2>4, <3>1 DEF Ground, TypeOK, Step, Goto, fsVars
  <2>5. QED
    BY <1>0, <1>5, <2>3, <2>4 DEF Rename, LoseRace
<1>6. CASE q = p /\ ~MkCacheDirs(p) /\ ~Rename(p)
  <2>1. /\ pc'[p] = "mktmp" => pc[p] \in {"mktemp", "mktmp"}
        /\ pc'[p] # "mktemp"
        /\ pc'[p] \in {"cleanup", "recheck"} =>
             pc[p] \in {"cleanup", "recheck"} /\ exe'[p] = exe[p]
    BY <1>0, <1>6 DEF TypeOK, Proceed, Launch, ReadTrailer, Probe,
       Mktemp, MkTmpDir, BeginExtraction, OpenFile, WriteFile,
       ChmodFile, EndOfArchive, Verify, RmFile, RmDir, RmGiveUp,
       Recheck, AddIndex, Exec, AppExit, Crash, Quit, Step, Goto, At, Extracting, Ended
  <2>2. pc[p] \in {"cleanup", "recheck"} => Trailer(p).sha \in Sha
    BY <1>0, TrailerFacts DEF Local, Holding, Active, Extracting
  <2>3. exe'[p] = exe[p] => Trailer(p)' = Trailer(p)
    BY DEF Trailer
  <2>4. QED
    BY <1>1, <1>2, <1>6, <2>1, <2>2, <2>3 DEF Ground
<1>7. QED
  BY <1>3, <1>4, <1>5, <1>6

\* With ground under its feet, and its budget of names kept, a launch fails for a
\* defect of its own archive only.
LEMMA FailureStep ==
  ASSUME NoLostCalls, NoIoFaults, NamesSuffice, IInv, StartStays, NEW p \in Proc,
         Launch(p) \/ Proceed(p) \/ AppExit(p) \/ Crash(p),
         Ground(p), pc'[p] = "failed"
  PROVE  ~Healthy(exe'[p])
<1>0. TypeOK /\ Local(p) /\ ~IoFault
  BY DEF IInv, NoIoFaults, IoFault
<1>1. pc[p] \in Active \/ AppExit(p) \/ Launch(p)
  BY DEF Proceed, ReadTrailer, Probe, MkCacheDirs, Mktemp, MkTmpDir, OpenFile, WriteFile,
     ChmodFile, EndOfArchive, Verify, Rename, RmFile, RmDir, RmGiveUp, Recheck, AddIndex,
     Exec, Crash, At, Active, Extracting
<1>2. /\ pc[p] \in Active /\ Proceed(p) /\ exe' = exe
      /\ exe[p] \in Exe /\ Trailer(p) \in ImageType /\ Trailer(p).sha \in Sha
  <2>1. ~AppExit(p) /\ ~Launch(p) /\ ~Crash(p)
    BY <1>0 DEF TypeOK, AppExit, Launch, Crash, Quit, Goto
  <2>2. pc[p] \in Active /\ Proceed(p)
    BY <1>1, <2>1
  <2>3. exe' = exe
    BY <2>2 DEF Proceed, ReadTrailer, Probe, MkCacheDirs, Mktemp, MkTmpDir, BeginExtraction,
       OpenFile, WriteFile, ChmodFile, EndOfArchive, Verify, Rename, LoseRace, RmFile, RmDir,
       RmGiveUp, Recheck, AddIndex, Exec, Quit, Step
  <2>4. QED
    BY <1>0, <2>2, <2>3, TrailerFacts DEF Local, Holding
<1> SUFFICES ASSUME Healthy(exe[p]) PROVE FALSE
  BY <1>2
<1>3. /\ Trailer(p).magic /\ Trailer(p).version = 1 /\ Trailer(p).compression \in Compressions
      /\ Trailer(p).readable /\ Trailer(p).contents = Trailer(p).sha
      /\ StartFile <= Entries[Trailer(p).sha]
  BY DEF Healthy, Trailer
<1>4. CASE ReadTrailer(p)
  BY <1>0, <1>3, <1>4 DEF ReadTrailer, Quit, Step, Goto, TypeOK
<1>5. CASE Mktemp(p)
  <2>1. FreeNames = {}
    BY <1>0, <1>5 DEF Mktemp, Goto, TypeOK
  <2>2. QED
    BY <2>1, NameLeft DEF IInv
<1>6. CASE MkTmpDir(p)
  BY <1>0, <1>3, <1>6 DEF MkTmpDir, BeginExtraction, Quit, Goto, TypeOK, At, Ground
<1>7. CASE OpenFile(p) \/ WriteFile(p) \/ EndOfArchive(p)
  <2>1. pc[p] \in Extracting
    BY <1>7 DEF OpenFile, WriteFile, EndOfArchive, At, Extracting
  <2>2. tmpDir[tmpName[p]] # None
    BY <2>1, ExtractingFacts
  <2>3. ReadFails(p)
    BY <1>0, <1>7, <2>2 DEF OpenFile, WriteFile, EndOfArchive, Quit, Step, Goto, TypeOK
  <2>4. QED
    BY <1>0, <1>3, <2>3 DEF ReadFails
<1>8. CASE Verify(p)
  BY <1>0, <1>3, <1>8 DEF Verify, Quit, Step, Goto, TypeOK
<1>9. CASE Recheck(p)
  <2>1. pc[p] = "recheck" /\ ~StartPresent(Trailer(p).sha)
    BY <1>0, <1>9 DEF Recheck, Quit, Step, Goto, TypeOK, At
  <2>2. appDir[Trailer(p).sha] # None
    BY <2>1 DEF Ground
  <2>3. content[appDir[Trailer(p).sha]][StartFile] # Absent
    BY <1>2, <1>3, <2>2, ConstantFacts DEF IInv, Published, PublishedFiles
  <2>4. QED
    BY <2>1, <2>2, <2>3 DEF StartPresent
<1>10. CASE Exec(p)
  <2>1. /\ pc[p] = "ready"
        /\ \/ ~StartPresent(Trailer(p).sha)
           \/ StartFile \notin runnable[appDir[Trailer(p).sha]]
    BY <1>0, <1>10 DEF Exec, Quit, Step, Goto, TypeOK, At
  <2>2. StartPresent(Trailer(p).sha)
    BY <2>1 DEF StartStays
  <2>3. Complete(appDir[Trailer(p).sha], Trailer(p).sha)
    BY <1>2, <2>2 DEF StartPresent, IInv, Published, PublishedComplete
  <2>4. StartFile \in runnable[appDir[Trailer(p).sha]]
    BY <1>3, <2>3, ConstantFacts DEF Complete
  <2>5. QED
    BY <2>1, <2>2, <2>4
<1>11. CASE \/ Probe(p) \/ MkCacheDirs(p) \/ ChmodFile(p) \/ Rename(p) \/ RmFile(p)
            \/ RmDir(p) \/ RmGiveUp(p) \/ AddIndex(p)
  BY <1>0, <1>2, <1>11 DEF Probe, MkCacheDirs, ChmodFile, Rename, LoseRace, RmFile, RmDir,
     RmGiveUp, AddIndex, Step, Goto, TypeOK, Active, Extracting
<1>12. QED
  BY <1>2, <1>4, <1>5, <1>6, <1>7, <1>8, <1>9, <1>10, <1>11 DEF Proceed

\* As long as the calls that are made do not fail and mktemp has a name to give
\* that nobody else draws, a launch of a healthy executable does not fail, however
\* many launchers race and wherever others are killed.
THEOREM HealthyNeverFails ==
  ASSUME NoCollisions, NamesSuffice, ParentExists, NoIoFaults, NoLostCalls
  PROVE  Spec => []HealthyLaunchNeverFails
<1>1. Init => Outcome /\ HealthyLaunchNeverFails
  <2> SUFFICES ASSUME Init, NEW p \in Proc
               PROVE  Ground(p) /\ pc[p] # "failed"
    BY DEF Outcome, HealthyLaunchNeverFails
  <2>1. QED
    BY DEF Init, Ground
<1>2. IInv /\ IInv' /\ StartStays /\ Outcome /\ HealthyLaunchNeverFails /\ [Next]_vars
        => Outcome' /\ HealthyLaunchNeverFails'
  <2> SUFFICES ASSUME IInv, IInv', StartStays, Outcome, HealthyLaunchNeverFails, [Next]_vars
               PROVE  Outcome' /\ HealthyLaunchNeverFails'
    OBVIOUS
  <2>1. CASE UNCHANGED vars
    BY <2>1 DEF vars, procVars, fsVars, Outcome, Ground, Trailer,
                HealthyLaunchNeverFails, Healthy
  <2>2. CASE Next
    <3>0. TypeOK /\ TypeOK'
      BY DEF IInv
    <3>1. PICK p \in Proc : Launch(p) \/ Proceed(p) \/ AppExit(p) \/ Crash(p)
      BY <2>2 DEF Next
    <3>2. Outcome'
      BY <3>0, <3>1, GroundStep DEF Outcome
    <3>3. ASSUME NEW q \in Proc, pc'[q] = "failed" PROVE ~Healthy(exe'[q])
      <4>1. CASE q = p
        BY <3>1, <3>3, <4>1, FailureStep DEF Outcome
      <4>2. CASE q # p
        <5>1. pc'[q] = pc[q] /\ exe'[q] = exe[q]
          BY <3>0, <3>1, <4>2 DEF TypeOK, Proceed, Launch, ReadTrailer, Probe,
             MkCacheDirs, Mktemp, MkTmpDir, BeginExtraction, OpenFile, WriteFile,
             ChmodFile, EndOfArchive, Verify, Rename, LoseRace, RmFile, RmDir, RmGiveUp,
             Recheck, AddIndex, Exec, AppExit, Crash, Quit, Step, Goto
        <5>2. QED
          BY <3>3, <5>1 DEF HealthyLaunchNeverFails
      <4>3. QED
        BY <4>1, <4>2
    <3>4. QED
      BY <3>2, <3>3 DEF HealthyLaunchNeverFails, Healthy
  <2>3. QED
    BY <2>1, <2>2
<1>3. QED
  BY <1>1, <1>2, SpecIInv, StartIsThere, PTL DEF Spec

-----------------------------------------------------------------------------
(* The abstract cache                                                      *)

\* The three variables of AppCache, as the refinement mapping gives them.
Entry == [s \in Sha |-> IF appDir[s] = None THEN "absent"
                        ELSE IF Complete(appDir[s], s) THEN "complete"
                        ELSE "partial"]
Phase == [p \in Proc |-> IF pc[p] \in Active THEN "starting"
                         ELSE IF pc[p] = "running" THEN "started" ELSE "out"]
Wants == [p \in Proc |-> IF pc[p] \in Active \cup {"running"}
                           THEN Trailer(p).sha ELSE None]

\* No entry is partial, so linking a directory is all that an entry shows.
LinkedEntry == [s \in Sha |-> IF appDir[s] = None THEN "absent" ELSE "complete"]

LEMMA EntryIsLinked ==
  ASSUME NoLostCalls, IInv PROVE Entry = LinkedEntry
BY DEF IInv, Published, PublishedComplete, Entry, LinkedEntry

\* What a step shows of the launcher that makes it.
LEMMA ShownStep ==
  ASSUME IInv, NEW p \in Proc, Launch(p) \/ Proceed(p) \/ AppExit(p) \/ Crash(p)
  PROVE  \/ /\ pc[p] \notin Active \cup {"running"} /\ pc'[p] \in Active
            /\ exe'[p] \in Exe /\ UNCHANGED appDir
         \/ /\ pc[p] \in Active \cup {"running"} /\ pc'[p] \notin Active \cup {"running"}
            /\ UNCHANGED appDir
         \/ /\ pc[p] = "ready" /\ pc'[p] = "running" /\ StartPresent(Trailer(p).sha)
            /\ exe'[p] = exe[p] /\ UNCHANGED appDir
         \/ /\ pc[p] = "rename" /\ pc'[p] \in Active /\ exe'[p] = exe[p]
            /\ appDir[Trailer(p).sha] = None /\ Trailer(p).sha \in Sha
            /\ appDir' = [appDir EXCEPT ![Trailer(p).sha] = tmpDir[tmpName[p]]]
            /\ tmpDir[tmpName[p]] # None
         \/ /\ pc[p] \in Active /\ pc'[p] \in Active /\ exe'[p] = exe[p]
            /\ UNCHANGED appDir
<1>0. TypeOK /\ Local(p)
  BY DEF IInv
<1>1. CASE Launch(p)
  BY <1>0, <1>1 DEF Launch, TypeOK, Goto, fsVars, Active, Extracting, Ended
<1>2. CASE AppExit(p) \/ Crash(p)
  BY <1>0, <1>2 DEF AppExit, Crash, At, Quit, TypeOK, Goto, fsVars, Active, Extracting
<1>3. CASE Rename(p)
  <2>1. pc[p] = "rename" /\ pc[p] \in Extracting /\ pc[p] \in Active
    BY <1>3 DEF Rename, At, Extracting, Active
  <2>2. Trailer(p).sha \in Sha /\ tmpDir[tmpName[p]] # None
    BY <2>1, ExtractingFacts
  <2>3. CASE Step(p, "cleanup")
    BY <1>0, <2>1, <2>3 DEF Step, TypeOK, Goto, fsVars, Active, Extracting
  <2>4. CASE ~Step(p, "cleanup")
    <3>1. /\ CanRename(p) /\ exe' = exe
          /\ appDir' = [appDir EXCEPT ![Trailer(p).sha] = tmpDir[tmpName[p]]]
          /\ pc'[p] = "recheck"
      BY <1>0, <1>3, <2>4 DEF Rename, LoseRace, TypeOK, Goto
    <3>2. appDir[Trailer(p).sha] = None
      BY <2>2, <3>1, PublishedNotEmpty DEF CanRename
    <3>3. QED
      BY <2>1, <2>2, <3>1, <3>2 DEF Active, Extracting
  <2>5. QED
    BY <2>3, <2>4
<1>4. CASE Exec(p)
  BY <1>0, <1>4 DEF Exec, At, Quit, Step, TypeOK, Goto, fsVars, Active, Extracting
<1>5. CASE ReadTrailer(p) \/ Probe(p) \/ Mktemp(p) \/ Recheck(p) \/ Verify(p) \/ EndOfArchive(p)
  BY <1>0, <1>5 DEF ReadTrailer, Probe, Mktemp, Recheck, Verify, EndOfArchive, At, Quit, Step,
                    TypeOK, Goto, fsVars, Active, Extracting
<1>6. CASE MkTmpDir(p)
  BY <1>0, <1>6 DEF MkTmpDir, LinkTmpDir, BeginExtraction, At, Quit, TypeOK, Goto, fsVars,
                    Active, Extracting
<1>7. CASE OpenFile(p) \/ WriteFile(p)
  BY <1>0, <1>7 DEF OpenFile, WriteFile, At, Quit, TypeOK, Goto, fsVars, Active, Extracting
<1>8. CASE MkCacheDirs(p) \/ ChmodFile(p) \/ RmFile(p) \/ RmDir(p) \/ RmGiveUp(p) \/ AddIndex(p)
  BY <1>0, <1>8 DEF MkCacheDirs, ChmodFile, RmFile, RmDir, RmGiveUp, AddIndex, At,
                    TypeOK, Goto, fsVars, Active, Extracting
<1>9. QED
  BY <1>1, <1>2, <1>3, <1>4, <1>5, <1>6, <1>7, <1>8 DEF Proceed

\* Every step of the launchers is a step of the abstract cache or shows nothing.
LEMMA CacheStep ==
  ASSUME NoLostCalls, IInv, IInv', Next PROVE [Cache!Next]_(Cache!vars)
<1>1. PICK p \in Proc : Launch(p) \/ Proceed(p) \/ AppExit(p) \/ Crash(p)
  BY DEF Next
<1>2. TypeOK /\ TypeOK' /\ Local(p)
  BY DEF IInv
<1>3. Entry = LinkedEntry /\ Entry' = LinkedEntry'
  <2>1. Entry = LinkedEntry
    BY EntryIsLinked
  <2>2. Entry' = LinkedEntry'
    BY DEF IInv, Published, PublishedComplete, Entry, LinkedEntry
  <2>3. QED
    BY <2>1, <2>2
<1>4. UNCHANGED appDir => Entry' = Entry
  BY <1>3 DEF LinkedEntry
<1>5. ASSUME NEW q \in Proc, q # p
      PROVE  pc'[q] = pc[q] /\ exe'[q] = exe[q] /\ Trailer(q)' = Trailer(q)
  BY <1>1, <1>2, <1>5, OthersStay DEF Trailer
<1>6. exe'[p] = exe[p] => Trailer(p)' = Trailer(p)
  BY DEF Trailer
<1>7. Active \cap {"running"} = {}
  BY DEF Active, Extracting
<1>8. CASE /\ pc[p] \notin Active \cup {"running"} /\ pc'[p] \in Active
           /\ exe'[p] \in Exe /\ UNCHANGED appDir
  <2>1. Phase[p] = "out" /\ Phase' = [Phase EXCEPT ![p] = "starting"]
    BY <1>5, <1>8 DEF Phase
  <2>2. PICK s \in Sha : s = Trailer(p).sha'
    BY <1>8, ConstantFacts DEF Trailer, ImageType
  <2>3. Wants' = [Wants EXCEPT ![p] = s]
    BY <1>5, <1>8, <2>2 DEF Wants
  <2>4. Cache!Begin(p, s)
    BY <1>4, <1>8, <2>1, <2>3 DEF Cache!Begin, Entry, Phase, Wants
  <2>5. QED
    BY <2>4 DEF Cache!Next
<1>9. CASE /\ pc[p] \in Active \cup {"running"} /\ pc'[p] \notin Active \cup {"running"}
           /\ UNCHANGED appDir
  <2>1. Phase[p] \in {"starting", "started"} /\ Phase' = [Phase EXCEPT ![p] = "out"]
    BY <1>5, <1>9 DEF Phase
  <2>2. Wants' = [Wants EXCEPT ![p] = None]
    BY <1>5, <1>9 DEF Wants
  <2>3. Cache!End(p)
    BY <1>4, <1>9, <2>1, <2>2 DEF Cache!End, Entry, Phase, Wants
  <2>4. QED
    BY <2>3 DEF Cache!Next
<1>10. CASE /\ pc[p] = "ready" /\ pc'[p] = "running" /\ StartPresent(Trailer(p).sha)
            /\ exe'[p] = exe[p] /\ UNCHANGED appDir
  <2>0. pc[p] \in Active /\ Trailer(p).sha \in Sha
    BY <1>2, <1>10, TrailerFacts DEF Local, Holding, Active
  <2>1. Phase[p] = "starting" /\ Phase' = [Phase EXCEPT ![p] = "started"]
    BY <1>5, <1>7, <1>10, <2>0 DEF Phase
  <2>2. Wants' = Wants /\ Wants[p] = Trailer(p).sha
    BY <1>5, <1>6, <1>10, <2>0 DEF Wants
  <2>3. Entry[Wants[p]] = "complete"
    BY <1>3, <1>10, <2>0, <2>2 DEF LinkedEntry, StartPresent
  <2>4. Cache!Start(p)
    BY <1>4, <1>10, <2>1, <2>2, <2>3 DEF Cache!Start, Entry, Phase, Wants
  <2>5. QED
    BY <2>4 DEF Cache!Next
<1>11. CASE /\ pc[p] = "rename" /\ pc'[p] \in Active /\ exe'[p] = exe[p]
            /\ appDir[Trailer(p).sha] = None /\ Trailer(p).sha \in Sha
            /\ appDir' = [appDir EXCEPT ![Trailer(p).sha] = tmpDir[tmpName[p]]]
            /\ tmpDir[tmpName[p]] # None
  <2>0. pc[p] \in Active
    BY <1>11 DEF Active, Extracting
  <2>1. Phase[p] = "starting" /\ Phase' = Phase
    BY <1>5, <1>11, <2>0 DEF Phase
  <2>2. Wants' = Wants /\ Wants[p] = Trailer(p).sha
    BY <1>5, <1>6, <1>11, <2>0 DEF Wants
  <2>3. Entry[Wants[p]] = "absent"
    BY <1>3, <1>11, <2>2 DEF LinkedEntry
  <2>4. Entry' = [Entry EXCEPT ![Wants[p]] = "complete"]
    BY <1>2, <1>3, <1>11, <2>2 DEF LinkedEntry, TypeOK
  <2>5. Cache!Install(p)
    BY <2>1, <2>2, <2>3, <2>4 DEF Cache!Install, Entry, Phase, Wants
  <2>6. QED
    BY <2>5 DEF Cache!Next
<1>12. CASE /\ pc[p] \in Active /\ pc'[p] \in Active /\ exe'[p] = exe[p]
            /\ UNCHANGED appDir
  <2>1. Phase' = Phase
    BY <1>5, <1>12 DEF Phase
  <2>2. Wants' = Wants
    BY <1>5, <1>6, <1>12 DEF Wants
  <2>3. QED
    BY <1>4, <1>12, <2>1, <2>2 DEF Cache!vars, Entry, Phase, Wants
<1>13. QED
  BY <1>1, <1>8, <1>9, <1>10, <1>11, <1>12, ShownStep

\* The launchers over the file system implement the abstract cache, as far as
\* safety goes, when no write is lost and no two of them draw the same name.
THEOREM ImplementsAppCache ==
  ASSUME NoCollisions, NoLostCalls PROVE Spec => RefinesAppCacheSteps
<1>1. Init => Cache!Init
  BY DEF Init, Cache!Init, Active, Extracting
<1>2. IInv /\ IInv' /\ [Next]_vars => [Cache!Next]_(Cache!vars)
  <2> SUFFICES ASSUME IInv, IInv', [Next]_vars PROVE [Cache!Next]_(Cache!vars)
    OBVIOUS
  <2>1. CASE Next
    BY <2>1, CacheStep
  <2>2. CASE UNCHANGED vars
    BY <2>2 DEF vars, procVars, fsVars, Cache!vars, Trailer, Complete
  <2>3. QED
    BY <2>1, <2>2
<1>3. QED
  BY <1>1, <1>2, SpecIInv, PTL DEF Spec, RefinesAppCacheSteps, Cache!Safety
=============================================================================
