----------------------------- MODULE LauncherCache -----------------------------
(***************************************************************************)
(* Bakeware launchers sharing one cache directory.                         *)
(*                                                                         *)
(* Every start of a Bakeware executable is a process (a launcher) that     *)
(* reads the trailer of its own file, looks for <cache>/<sha1>/start and,  *)
(* when it is missing, extracts the archive into <cache>/.tmp/XXXXXX,      *)
(* checks the SHA-1 and renames the directory to <cache>/<sha1>.  Nothing  *)
(* but the file system coordinates the launchers: no lock, no daemon.      *)
(*                                                                         *)
(* Directories are inodes (Dir) linked from .tmp/<name> or from <sha1>, so *)
(* that a rename, an open file and a path lookup see what they see in the  *)
(* program.  A file holds the digest of the contents it was written from,  *)
(* Short while it is being written (or when a write was lost), or Absent.  *)
(***************************************************************************)
EXTENDS Naturals

CONSTANTS
  Proc,          \* launcher processes
  Exe,           \* Bakeware executables (files a user may start)
  Sha,           \* SHA-1 digests; a digest names one contents
  Path,          \* absolute paths of executables
  Image,         \* what each executable holds, a function from Exe
  Entries,       \* number of files in the contents with a given digest
  NFiles,        \* largest number of files in an archive
  StartFile,     \* the file called "start"
  Name,          \* names mktemp can make out of XXXXXX
  Dir,           \* directory inodes
  ParentExists,  \* the directory that holds the cache directory exists
  Faults,        \* what may go wrong: "crash", the launcher is killed;
                 \* "io", a call whose result is checked fails;
                 \* "lost", a call whose result is ignored fails;
                 \* "collision", mktemp gives a launcher a name that another
                 \* one has been given and has not made its directory for
  MaxLaunches,   \* bound: launches per process
  None

File == 1..NFiles
Absent == "absent"
Short == "short"
Compressions == {"none", "zstd"}

ImageType ==
  [magic : BOOLEAN, version : Nat, compression : STRING, sha : Sha,
   contents : Sha,      \* digest of the bytes the archive really holds
   readable : BOOLEAN,  \* FALSE: truncated or malformed somewhere
   path : Path]

ASSUME ImageAssumption == Image \in [Exe -> ImageType]
ASSUME EntriesAssumption ==
  /\ NFiles \in Nat
  /\ Entries \in [Sha -> File]
  /\ StartFile \in File
ASSUME FaultsAssumption ==
  /\ Faults \subseteq {"crash", "io", "lost", "collision"}
  /\ ParentExists \in BOOLEAN
  /\ MaxLaunches \in Nat
ASSUME NoneAssumption ==
  /\ None \notin Dir \cup Exe \cup Name
  /\ Absent \notin Sha /\ Short \notin Sha

VARIABLES
  pc,        \* where each launcher is
  exe,       \* the executable it runs
  mode,      \* "run", "install" (--bw-install) or "info" (--bw-info)
  tmpName,   \* the name mktemp gave it
  pos,       \* the archive entry it extracts next
  fd,        \* directory of the file it has open; None once that is unlinked
  launches,  \* launches so far
  made,      \* which of the cache's own directories exist
  tmpDir,    \* .tmp/<name>
  appDir,    \* <sha1>
  content,   \* content of every file of every directory
  runnable,  \* files whose archive mode has been applied
  index,     \* paths recorded under .index
  leftBy     \* history: the executable whose launch abandoned .tmp/<name>

procVars == <<pc, exe, mode, tmpName, pos, fd, launches>>
fsVars == <<made, tmpDir, appDir, content, runnable, index>>
vars == <<procVars, fsVars, leftBy>>

Ended == {"done", "failed", "crashed"}
Extracting == {"open", "write", "chmod", "verify", "rename", "cleanup"}
Active == {"trailer", "probe", "mkdirs", "mktemp", "mktmp"} \cup Extracting
            \cup {"recheck", "index", "ready"}

TypeOK ==
  /\ pc \in [Proc -> {"idle", "running"} \cup Active \cup Ended]
  /\ exe \in [Proc -> Exe \cup {None}]
  /\ mode \in [Proc -> {"run", "install", "info"}]
  /\ tmpName \in [Proc -> Name \cup {None}]
  /\ pos \in [Proc -> 1..(NFiles + 1)]
  /\ fd \in [Proc -> Dir \cup {None}]
  /\ launches \in [Proc -> 0..MaxLaunches]
  /\ made \subseteq {"base", ".tmp", ".index"}
  /\ tmpDir \in [Name -> Dir \cup {None}]
  /\ appDir \in [Sha -> Dir \cup {None}]
  /\ content \in [Dir -> [File -> Sha \cup {Absent, Short}]]
  /\ runnable \in [Dir -> SUBSET File]
  /\ index \subseteq Path
  /\ leftBy \in [Name -> Exe \cup {None}]

-----------------------------------------------------------------------------
(* What a launcher sees of its own file and of the file system.            *)

Trailer(p) == Image[exe[p]]
EmptyDir(d) == \A f \in File : content[d][f] = Absent
StartPresent(s) == appDir[s] # None /\ content[appDir[s]][StartFile] # Absent

\* The names mktemp may return: all launchers draw from one set, and mktemp
\* passes over what exists.
FreeNames == {n \in Name : tmpDir[n] = None}

\* Names that were returned to a launcher whose mkdir is still to come.
DrawnNames == {tmpName[q] : q \in {r \in Proc : pc[r] = "mktmp"}}

\* Inodes that no path and no open file refers to.
FreshDirs == {d \in Dir : /\ \A n \in Name : tmpDir[n] # d
                          /\ \A s \in Sha : appDir[s] # d
                          /\ \A p \in Proc : fd[p] # d
                          /\ EmptyDir(d)}

IoFault == "io" \in Faults
LostCall == "lost" \in Faults
Collision == "collision" \in Faults

\* A launcher that may fail to read its archive at this point.
ReadFails(p) == ~Trailer(p).readable \/ IoFault

At(p, l) == pc[p] = l
Goto(p, l) == pc' = [pc EXCEPT ![p] = l]

\* The process ends; a temporary directory it was filling stays behind.
Quit(p, outcome) ==
  /\ Goto(p, outcome)
  /\ fd' = [fd EXCEPT ![p] = None]
  /\ leftBy' = IF pc[p] \in Extracting
                 THEN [leftBy EXCEPT ![tmpName[p]] = exe[p]]
                 ELSE leftBy
  /\ UNCHANGED <<exe, mode, tmpName, pos, launches, fsVars>>

\* Only the control point moves.
Step(p, l) == Goto(p, l) /\ UNCHANGED <<exe, mode, tmpName, pos, fd, launches, fsVars, leftBy>>

-----------------------------------------------------------------------------
(* main: arguments, trailer                                                *)

Launch(p) ==
  /\ pc[p] \in {"idle"} \cup Ended
  /\ launches[p] < MaxLaunches
  /\ \E e \in Exe, m \in {"run", "install", "info"} :
       /\ exe' = [exe EXCEPT ![p] = e]
       /\ mode' = [mode EXCEPT ![p] = m]
  /\ Goto(p, "trailer")
  /\ launches' = [launches EXCEPT ![p] = @ + 1]
  /\ tmpName' = [tmpName EXCEPT ![p] = None]
  /\ pos' = [pos EXCEPT ![p] = 1]
  /\ UNCHANGED <<fd, fsVars, leftBy>>

ReadTrailer(p) ==
  /\ At(p, "trailer")
  /\ \/ (~Trailer(p).magic \/ IoFault) /\ Quit(p, "failed")
     \/ Trailer(p).magic /\ mode[p] = "info" /\ Quit(p, "done")
     \/ Trailer(p).magic /\ mode[p] # "info" /\ Trailer(p).version # 1
          /\ Quit(p, "failed")
     \/ Trailer(p).magic /\ mode[p] # "info" /\ Trailer(p).version = 1
          /\ Step(p, "probe")

-----------------------------------------------------------------------------
(* cache_validate up to the extraction                                     *)

Probe(p) ==
  /\ At(p, "probe")
  /\ \/ StartPresent(Trailer(p).sha) /\ Step(p, "ready")
     \/ (~StartPresent(Trailer(p).sha) \/ IoFault) /\ Step(p, "mkdirs")

\* Mutant: the index entry is made together with the directories.
MkCacheDirs_Index(p) ==
  /\ At(p, "mkdirs")
  /\ made' = {"base", ".tmp", ".index"}
  /\ index' = index \cup {Trailer(p).path}
  /\ Goto(p, "mktemp")
  /\ UNCHANGED <<exe, mode, tmpName, pos, fd, launches, tmpDir, appDir, content,
                 runnable, leftBy>>

\* The three mkdirs, whose results are ignored.
MkCacheDirs(p) ==
  /\ At(p, "mkdirs")
  /\ \E S \in SUBSET {"base", ".tmp", ".index"} :
       /\ LostCall \/ S = {"base", ".tmp", ".index"}
       /\ made' = IF (ParentExists /\ "base" \in S) \/ "base" \in made
                    THEN made \cup S ELSE made
  /\ Goto(p, "mktemp")
  /\ UNCHANGED <<exe, mode, tmpName, pos, fd, launches, tmpDir, appDir, content,
                 runnable, index, leftBy>>

\* mktemp returns a name that nothing has at this moment, and creates nothing.
\* Until mkdir follows, chance alone keeps another launcher from getting the
\* same name: that it does get it is the fault "collision".
Mktemp(p) ==
  /\ At(p, "mktemp")
  /\ \/ /\ FreeNames = {}
        /\ Quit(p, "failed")
     \/ /\ \E n \in FreeNames :
             /\ n \in DrawnNames => Collision
             /\ tmpName' = [tmpName EXCEPT ![p] = n]
        /\ Goto(p, "mktmp")
        /\ UNCHANGED <<exe, mode, pos, fd, launches, fsVars, leftBy>>

\* Mutant: the archive is extracted where it will be used.
LinkTmpDir_InPlace(p, d) ==
  /\ tmpDir' = [tmpDir EXCEPT ![tmpName[p]] = d]
  /\ appDir' = IF appDir[Trailer(p).sha] = None
                 THEN [appDir EXCEPT ![Trailer(p).sha] = d] ELSE appDir

LinkTmpDir(p, d) ==
  /\ tmpDir' = [tmpDir EXCEPT ![tmpName[p]] = d]
  /\ UNCHANGED appDir

\* Once the directory is there: seek to the contents and choose a reader.  An
\* unknown compression type ends the launch and leaves the directory.
BeginExtraction(p) ==
  /\ \/ Trailer(p).compression \in Compressions /\ Goto(p, "open") /\ UNCHANGED leftBy
     \/ /\ Trailer(p).compression \notin Compressions
        /\ Goto(p, "failed")
        /\ leftBy' = [leftBy EXCEPT ![tmpName[p]] = exe[p]]
  /\ UNCHANGED <<exe, mode, tmpName, pos, fd, launches, made, content, runnable,
                 index>>

MkTmpDir(p) ==
  /\ At(p, "mktmp")
  /\ \/ (".tmp" \notin made \/ IoFault) /\ Quit(p, "failed")
     \/ /\ ".tmp" \in made
        /\ tmpDir[tmpName[p]] = None
        /\ \E d \in FreshDirs : LinkTmpDir(p, d)
        /\ BeginExtraction(p)
     \/ /\ tmpDir[tmpName[p]] # None           \* EEXIST is accepted
        /\ UNCHANGED <<tmpDir, appDir>>
        /\ BeginExtraction(p)

-----------------------------------------------------------------------------
(* cpio_extract_all, one archive entry at a time                           *)

\* Mutant: the extraction stops one entry early.
MoreEntries_Early(p) == pos[p] < Entries[Trailer(p).contents]

MoreEntries(p) == pos[p] <= Entries[Trailer(p).contents]

\* Header and name of the next entry, then fopen(..., "wb").
OpenFile(p) ==
  /\ At(p, "open") /\ MoreEntries(p)
  /\ \/ (ReadFails(p) \/ tmpDir[tmpName[p]] = None) /\ Quit(p, "failed")
     \/ LET d == tmpDir[tmpName[p]] IN
        /\ d # None
        /\ content' = [content EXCEPT ![d][pos[p]] = Short]
        /\ fd' = [fd EXCEPT ![p] = d]
        /\ Goto(p, "write")
        /\ UNCHANGED <<exe, mode, tmpName, pos, launches, made, tmpDir, appDir,
                       runnable, index, leftBy>>

\* Nobody else has the file open, nor has finished it since p opened it.
SoleWriter(p) ==
  /\ content[fd[p]][pos[p]] = Short
  /\ \A q \in Proc \ {p} : fd[q] = fd[p] => pos[q] # pos[p]

\* The read/fwrite loop and fclose.  The results of fwrite and fclose are not
\* looked at: on a full disk the data is lost and the extraction goes on.  What
\* the file holds between two turns of the loop is Short, and so may be what two
\* launchers with the same file open leave, each writing at its own offset.
WriteFile(p) ==
  /\ At(p, "write")
  /\ \/ ReadFails(p) /\ Quit(p, "failed")
     \/ /\ \/ /\ fd[p] # None
              /\ \E c \in {Trailer(p).contents, Short} :
                   /\ c = Short => ~SoleWriter(p)
                   /\ content' = [content EXCEPT ![fd[p]][pos[p]] = c]
           \/ /\ fd[p] = None \/ LostCall
              /\ UNCHANGED content
        /\ fd' = [fd EXCEPT ![p] = None]
        /\ Goto(p, "chmod")
        /\ UNCHANGED <<exe, mode, tmpName, pos, launches, made, tmpDir, appDir,
                       runnable, index, leftBy>>

\* chmod by path, its result ignored; on to the next entry.
ChmodFile(p) ==
  /\ At(p, "chmod")
  /\ LET d == tmpDir[tmpName[p]]
         possible == d # None /\ content[d][pos[p]] # Absent
     IN \/ possible /\ runnable' = [runnable EXCEPT ![d] = @ \cup {pos[p]}]
        \/ (~possible \/ LostCall) /\ UNCHANGED runnable
  /\ pos' = [pos EXCEPT ![p] = @ + 1]
  /\ Goto(p, "open")
  /\ UNCHANGED <<exe, mode, tmpName, fd, launches, made, tmpDir, appDir, content,
                 index, leftBy>>

\* The "TRAILER!!!" entry ends the extraction.
EndOfArchive(p) ==
  /\ At(p, "open") /\ ~MoreEntries(p)
  /\ \/ ReadFails(p) /\ Quit(p, "failed")
     \/ Trailer(p).readable /\ Step(p, "verify")

-----------------------------------------------------------------------------
(* cache_validate after the extraction                                     *)

\* Mutant: the digest is not compared.
Verify_None(p) == At(p, "verify") /\ Step(p, "rename")

Verify(p) ==
  /\ At(p, "verify")
  /\ \/ Trailer(p).contents = Trailer(p).sha /\ Step(p, "rename")
     \/ Trailer(p).contents # Trailer(p).sha /\ Quit(p, "failed")

\* rename(2) replaces an empty directory and refuses one with files in it.
CanRename(p) ==
  LET target == appDir[Trailer(p).sha] IN
  tmpDir[tmpName[p]] # None /\ (target # None => EmptyDir(target))

\* "Someone else beat us to extracting it."  Mutants: that is an error; the
\* temporary directory is forgotten; the rename is tried again; the other
\* launcher's entry is removed to make room.
LoseRace_Fatal(p) == Quit(p, "failed")
LoseRace_Forget(p) == Step(p, "recheck")
LoseRace_Retry(p) == Step(p, "rename")
LoseRace_Evict(p) ==
  /\ appDir' = [appDir EXCEPT ![Trailer(p).sha] = None]
  /\ UNCHANGED <<procVars, made, tmpDir, content, runnable, index, leftBy>>

LoseRace(p) == Step(p, "cleanup")

Rename(p) ==
  /\ At(p, "rename")
  /\ \/ /\ CanRename(p)
        /\ appDir' = [appDir EXCEPT ![Trailer(p).sha] = tmpDir[tmpName[p]]]
        /\ tmpDir' = [tmpDir EXCEPT ![tmpName[p]] = None]
        /\ Goto(p, "recheck")
        /\ UNCHANGED <<exe, mode, tmpName, pos, fd, launches, made, content,
                       runnable, index, leftBy>>
     \/ (~CanRename(p) \/ IoFault) /\ LoseRace(p)

\* rm_fr: files in directory order, then the directory.  An error stops the
\* walk, and its result is ignored.
RmFile(p) ==
  /\ At(p, "cleanup")
  /\ LET d == tmpDir[tmpName[p]] IN
     /\ d # None
     /\ \E f \in File :
          /\ content[d][f] # Absent
          /\ content' = [content EXCEPT ![d][f] = Absent]
          /\ runnable' = [runnable EXCEPT ![d] = @ \ {f}]
          /\ fd' = [q \in Proc |-> IF fd[q] = d /\ pos[q] = f THEN None ELSE fd[q]]
  /\ UNCHANGED <<pc, exe, mode, tmpName, pos, launches, made, tmpDir, appDir,
                 index, leftBy>>

\* Mutant: the walk visits files only.
RmDir_Keep(p) ==
  /\ At(p, "cleanup")
  /\ tmpDir[tmpName[p]] # None /\ EmptyDir(tmpDir[tmpName[p]])
  /\ Step(p, "recheck")

RmDir(p) ==
  /\ At(p, "cleanup")
  /\ tmpDir[tmpName[p]] # None /\ EmptyDir(tmpDir[tmpName[p]])
  /\ tmpDir' = [tmpDir EXCEPT ![tmpName[p]] = None]
  /\ Goto(p, "recheck")
  /\ UNCHANGED <<exe, mode, tmpName, pos, fd, launches, made, appDir, content,
                 runnable, index, leftBy>>

RmGiveUp(p) ==
  /\ At(p, "cleanup")
  /\ tmpDir[tmpName[p]] = None \/ LostCall
  /\ Goto(p, "recheck")
  /\ leftBy' = IF tmpDir[tmpName[p]] = None THEN leftBy
                 ELSE [leftBy EXCEPT ![tmpName[p]] = exe[p]]
  /\ UNCHANGED <<exe, mode, tmpName, pos, fd, launches, fsVars>>

\* Mutant: the start script is not looked for again.
Recheck_None(p) == At(p, "recheck") /\ Step(p, "index")

Recheck(p) ==
  /\ At(p, "recheck")
  /\ \/ StartPresent(Trailer(p).sha) /\ Step(p, "index")
     \/ (~StartPresent(Trailer(p).sha) \/ IoFault) /\ Quit(p, "failed")

\* Mutant: the index holds digests.
AddIndex_Sha(p) ==
  /\ At(p, "index")
  /\ index' = index \cup {Trailer(p).sha}
  /\ Goto(p, "ready")
  /\ UNCHANGED <<exe, mode, tmpName, pos, fd, launches, made, tmpDir, appDir,
                 content, runnable, leftBy>>

\* index_add_entry: silent when the file cannot be made.
AddIndex(p) ==
  /\ At(p, "index")
  /\ \/ /\ ".index" \in made
        /\ index' = index \cup {Trailer(p).path}
     \/ /\ ".index" \notin made \/ LostCall
        /\ UNCHANGED index
  /\ Goto(p, "ready")
  /\ UNCHANGED <<exe, mode, tmpName, pos, fd, launches, made, tmpDir, appDir,
                 content, runnable, leftBy>>

\* The end of main: --bw-install stops here, otherwise execl of <sha1>/start.
Exec(p) ==
  /\ At(p, "ready")
  /\ LET s == Trailer(p).sha
         possible == StartPresent(s) /\ StartFile \in runnable[appDir[s]]
     IN \/ mode[p] = "install" /\ Quit(p, "done")
        \/ mode[p] = "run" /\ possible /\ Step(p, "running")
        \/ mode[p] = "run" /\ (~possible \/ IoFault) /\ Quit(p, "failed")

-----------------------------------------------------------------------------
AppExit(p) == At(p, "running") /\ Quit(p, "done")

\* The launcher is killed, or the machine stops, between any two steps.
Crash(p) == "crash" \in Faults /\ pc[p] \in Active /\ Quit(p, "crashed")

Init ==
  /\ pc = [p \in Proc |-> "idle"]
  /\ exe = [p \in Proc |-> None]
  /\ mode = [p \in Proc |-> "run"]
  /\ tmpName = [p \in Proc |-> None]
  /\ pos = [p \in Proc |-> 1]
  /\ fd = [p \in Proc |-> None]
  /\ launches = [p \in Proc |-> 0]
  /\ made = {}
  /\ tmpDir = [n \in Name |-> None]
  /\ appDir = [s \in Sha |-> None]
  /\ content = [d \in Dir |-> [f \in File |-> Absent]]
  /\ runnable = [d \in Dir |-> {}]
  /\ index = {}
  /\ leftBy = [n \in Name |-> None]

\* What the launcher's own code does next.
Proceed(p) ==
  \/ ReadTrailer(p) \/ Probe(p) \/ MkCacheDirs(p) \/ Mktemp(p) \/ MkTmpDir(p)
  \/ OpenFile(p) \/ WriteFile(p) \/ ChmodFile(p) \/ EndOfArchive(p)
  \/ Verify(p) \/ Rename(p) \/ RmFile(p) \/ RmDir(p) \/ RmGiveUp(p)
  \/ Recheck(p) \/ AddIndex(p) \/ Exec(p)

Next == \E p \in Proc : Launch(p) \/ Proceed(p) \/ AppExit(p) \/ Crash(p)

Spec == Init /\ [][Next]_vars

\* The operating system schedules every launcher.  No one has to start one, an
\* application may run for ever, and a crash need not come.
Fairness == \A p \in Proc : WF_vars(Proceed(p))
FairSpec == Spec /\ Fairness

-----------------------------------------------------------------------------
(* Correctness                                                             *)

Complete(d, s) ==
  \A f \in File : IF f <= Entries[s]
                   THEN content[d][f] = s /\ f \in runnable[d]
                   ELSE content[d][f] = Absent

Healthy(e) ==
  /\ Image[e].magic /\ Image[e].version = 1
  /\ Image[e].compression \in Compressions /\ Image[e].readable
  /\ Image[e].contents = Image[e].sha
  /\ StartFile <= Entries[Image[e].sha]

\* Whatever is linked at <sha1> is the whole verified archive, every file
\* written and its mode applied, at every moment: "if the cache directory
\* exists for the app, THEN the cache is valid" (cache.c:45).  cache_validate
\* trusts it after looking at one file only.
PublishedComplete ==
  \A s \in Sha : appDir[s] # None => Complete(appDir[s], s)

\* Every directory under .tmp is being used by a launcher, or was left by a
\* launch that ended; and where nothing crashes and no call fails, only a
\* defective archive leaves one ("Check that no temporary files were left
\* behind", test/bakeware_test.exs:70).
TmpAccounted ==
  \A n \in Name : tmpDir[n] # None =>
    \/ \E p \in Proc : pc[p] \in Extracting /\ tmpName[p] = n
    \/ leftBy[n] # None /\ (Faults = {} => ~Healthy(leftBy[n]))

\* A launcher that has seen its start script, by the first look, by its own
\* rename or by losing to another launcher's, can rely on it until it execs and
\* while the application runs, though nothing locks the entry.
StartStays ==
  \A p \in Proc : pc[p] \in {"index", "ready", "running"} =>
    StartPresent(Trailer(p).sha)

\* A path in the index leads to a published entry of an executable that was
\* at that path.
IndexOnlyPublished ==
  \A x \in index : \E e \in Exe : Image[e].path = x /\ StartPresent(Image[e].sha)

\* Without I/O faults a launch of a healthy executable does not fail, however
\* the launchers step on each other ("Everything should run ok, but internally,
\* the extractors will step on each other and resolve the situation",
\* test/bakeware_test.exs:116).
HealthyLaunchNeverFails ==
  \A p \in Proc : pc[p] = "failed" => ~Healthy(exe[p])

\* A published entry keeps its directory and every file in it from then on: no
\* later launch, crash or loser's cleanup rewrites or removes it.
EntryNeverChanges ==
  [][\A s \in Sha : appDir[s] # None =>
       /\ appDir'[s] = appDir[s]
       /\ content'[appDir[s]] = content[appDir[s]]
       /\ runnable'[appDir[s]] = runnable[appDir[s]]]_vars

\* An entry that has files keeps its directory and every one of them, whatever
\* else goes wrong: even when two launchers share a temporary directory, neither
\* one's cleanup nor its rename takes anything from what the other has published.
\* (What the files hold may then still change, as the other may be writing one.)
PublishedStays ==
  [][\A s \in Sha : appDir[s] # None /\ ~EmptyDir(appDir[s]) =>
       /\ appDir'[s] = appDir[s]
       /\ \A f \in File : content[appDir[s]][f] # Absent =>
                             content'[appDir[s]][f] # Absent]_vars

\* Every launch comes to an end or to a running application: no launcher waits
\* for another, and the loser's cleanup terminates.
LaunchEnds ==
  \A p \in Proc : pc[p] \in Active ~> pc[p] \in Ended \cup {"running"}

\* Unless it is killed, the launcher of a healthy executable gets the application
\* running (or installed), whatever other launchers do or leave undone.
HealthyStarts ==
  \A p \in Proc : pc[p] = "trailer" /\ Healthy(exe[p]) /\ mode[p] # "info"
                    ~> pc[p] \in {IF mode[p] = "run" THEN "running" ELSE "done",
                                  "crashed"}

-----------------------------------------------------------------------------
(* The abstract cache (AppCache).  An entry that is linked but not complete   *)
(* maps to "partial", which AppCache never has.                              *)

Cache == INSTANCE AppCache WITH
  entry <- [s \in Sha |-> IF appDir[s] = None THEN "absent"
                          ELSE IF Complete(appDir[s], s) THEN "complete"
                          ELSE "partial"],
  phase <- [p \in Proc |-> IF pc[p] \in Active THEN "starting"
                           ELSE IF pc[p] = "running" THEN "started" ELSE "out"],
  wants <- [p \in Proc |-> IF pc[p] \in Active \cup {"running"}
                             THEN Trailer(p).sha ELSE None]

\* The launchers over the file system implement the abstract cache: every step
\* is a step of AppCache or none that shows there.
RefinesAppCacheSteps == Cache!Safety

\* And they do what AppCache says must happen.
RefinesAppCache == Cache!Spec
=============================================================================
