----------------------------- MODULE LauncherArgs ------------------------------
(***************************************************************************)
(* Command-line arguments on their way to the application.                 *)
(*                                                                         *)
(* The launcher looks for one of its own options, blanks what it has       *)
(* processed, and hands the rest to the application through BAKEWARE_ARGn  *)
(* and BAKEWARE_ARGC, where Bakeware.Script picks it up, and the path of   *)
(* the executable through BAKEWARE_EXECUTABLE.  The environment also names *)
(* the cache.  It is inherited: an application may start another Bakeware  *)
(* executable, whose launcher finds the variables of the first.            *)
(***************************************************************************)
EXTENDS Naturals, Sequences, FiniteSets

CONSTANTS
  Words,           \* ordinary arguments
  Executables,     \* paths of Bakeware executables
  Caches,          \* directories that BAKEWARE_CACHE may name (shorter than 256 bytes)
  Home,            \* $HOME, or Unset
  MaxArgs,         \* bound: arguments of one launch
  MaxDepth,        \* bound: launches inside launches
  TrailerCommand,  \* the start command of the trailer
  Unset            \* a variable that is not in the environment

Options == {"--bw-gc", "--bw-install", "--bw-system-install", "--bw-info", "--bw-command"}
Special == Options \cup {"--"}
Empty == ""
Token == Words \cup Special \cup {Empty}

\* strncpy to bw.start_command, which holds twelve characters (Words are shorter)
Cut(w) == IF w = "--bw-system-install" THEN "--bw-system-" ELSE w

ASSUME ArgsAssumption ==
  /\ MaxArgs \in Nat /\ MaxDepth \in Nat
  /\ Words \cap (Special \cup {Empty}) = {}
  /\ Unset \notin Token \cup Nat \cup Executables \cup Caches

VARIABLES
  pc,       \* "user", "parse", "setenv", "app", "ended", "failed" or "crashed"
  depth,    \* launches so far
  exe,      \* the executable that was started
  given,    \* the arguments as the user gave them
  argv,     \* the launcher's copy, processed ones blanked
  i,        \* loop index
  option,   \* the option found, or "none"
  command,  \* bw.start_command
  cacheDir, \* bw.cache_dir_base
  n,        \* arg_index
  env       \* BAKEWARE_ARGC, BAKEWARE_ARGn, BAKEWARE_EXECUTABLE and BAKEWARE_CACHE

vars == <<pc, depth, exe, given, argv, i, option, command, cacheDir, n, env>>

ArgLists == UNION {[1..k -> Token] : k \in 0..MaxArgs}

\* A directory below one that the environment names.
Directory == [below : Caches \cup {Home, Unset}, name : {"", ".cache/bakeware"}]

Environment ==
  [argc : 0..MaxArgs \cup {Unset}, arg : [1..MaxArgs -> Token \cup {Unset}],
   executable : Executables \cup {Unset}, cache : Caches \cup {Unset}]

TypeOK ==
  /\ pc \in {"user", "parse", "setenv", "app", "ended", "failed", "crashed"}
  /\ depth \in 0..MaxDepth /\ exe \in Executables \cup {Unset}
  /\ given \in ArgLists /\ argv \in ArgLists
  /\ i \in 1..(MaxArgs + 1)
  /\ option \in Special \cup {"none"}
  /\ command \in {Cut(w) : w \in Token}
  /\ cacheDir \in Directory
  /\ n \in 0..MaxArgs
  /\ env \in Environment

Init ==
  /\ pc = "user" /\ depth = 0 /\ exe = Unset
  /\ given = <<>> /\ argv = <<>> /\ i = 1 /\ option = "none" /\ command = Empty /\ n = 0
  /\ cacheDir = [below |-> Unset, name |-> ""]
  /\ \E c \in Caches \cup {Unset} :
       env = [argc |-> Unset, arg |-> [k \in 1..MaxArgs |-> Unset],
              executable |-> Unset, cache |-> c]

\* A user, or the application of an earlier launch, starts the executable.
Start ==
  /\ pc \in {"user", "app"} /\ depth < MaxDepth
  /\ exe' \in Executables
  /\ given' \in ArgLists
  /\ argv' = given'
  /\ pc' = "parse" /\ depth' = depth + 1
  /\ i' = 1 /\ option' = "none" /\ command' = Empty /\ n' = 0
  /\ cacheDir' = [below |-> Unset, name |-> ""]
  /\ UNCHANGED env

\* Mutant: the loop goes on after an option.
ParseArg_GoOn ==
  /\ pc = "parse" /\ i <= Len(argv)
  /\ argv[i] # "--bw-command"
  /\ IF argv[i] \in Special
       THEN argv' = [argv EXCEPT ![i] = Empty] /\ option' = argv[i]
       ELSE UNCHANGED <<argv, option>>
  /\ i' = i + 1
  /\ UNCHANGED <<pc, depth, exe, given, command, cacheDir, n, env>>

\* One turn of process_arguments' loop: the first of the launcher's own options
\* ends it, as "--" does.  --bw-command as the last argument makes it copy from
\* argv[argc], a null pointer.
ParseArg ==
  /\ pc = "parse" /\ i <= Len(argv)
  /\ \/ /\ argv[i] \notin Special
        /\ i' = i + 1
        /\ UNCHANGED <<pc, argv, option, command>>
     \/ /\ argv[i] \in Special \ {"--bw-command"}
        /\ option' = argv[i]
        /\ argv' = [argv EXCEPT ![i] = Empty]
        /\ i' = Len(argv) + 1
        /\ UNCHANGED <<pc, command>>
     \/ /\ argv[i] = "--bw-command" /\ i < Len(argv)
        /\ option' = argv[i]
        /\ command' = Cut(argv[i + 1])
        /\ argv' = [argv EXCEPT ![i] = Empty, ![i + 1] = Empty]
        /\ i' = Len(argv) + 1
        /\ UNCHANGED pc
     \/ /\ argv[i] = "--bw-command" /\ i = Len(argv)
        /\ pc' = "crashed"
        /\ UNCHANGED <<argv, i, option, command>>
  /\ UNCHANGED <<depth, exe, given, cacheDir, n, env>>

\* bw_cache_directory
CacheDirectory ==
  IF env.cache # Unset THEN [below |-> env.cache, name |-> ""]
                       ELSE [below |-> Home, name |-> ".cache/bakeware"]

\* bw_set_environment, for a variable without an index and for BAKEWARE_ARG<index>
SetVariable(key, value) == env' = [env EXCEPT ![key] = value]
SetIndexed(index, value) == env' = [env EXCEPT !.arg[index] = value]

\* Mutant: a path that is in the environment is kept.
FindExecutable_Kept == IF env.executable = Unset THEN exe ELSE env.executable

\* bw_find_executable_path, where it succeeds: /proc/self/exe
FindExecutable == exe

\* The rest of init_bk, and main up to the application (the cache itself is another
\* module), which gets to know the executable first.
Proceed ==
  /\ pc = "parse" /\ i > Len(argv)
  /\ \/ pc' = "failed" /\ UNCHANGED <<i, cacheDir, env>>    \* no path
     \/ /\ cacheDir' = CacheDirectory
        /\ i' = 1
        /\ \/ option \in {"--bw-info", "--bw-install"} /\ pc' = "ended" /\ UNCHANGED env
           \/ /\ option \notin {"--bw-info", "--bw-install"} /\ pc' = "setenv"
              /\ SetVariable("executable", FindExecutable)
  /\ UNCHANGED <<depth, exe, given, argv, option, command, n>>

\* update_environment's loop
SetArg ==
  /\ pc = "setenv" /\ i <= Len(argv)
  /\ i' = i + 1
  /\ \/ argv[i] = Empty /\ UNCHANGED <<n, env>>
     \/ argv[i] # Empty /\ n' = n + 1 /\ SetIndexed(n', argv[i])
  /\ UNCHANGED <<pc, depth, exe, given, argv, option, command, cacheDir>>

\* Mutants: BAKEWARE_ARGC counts the program too, as argc does; without arguments
\* it is not set.
SetArgc_Program ==
  /\ pc = "setenv" /\ i > Len(argv)
  /\ SetVariable("argc", n + 1)
  /\ pc' = "app"
  /\ UNCHANGED <<depth, exe, given, argv, i, option, command, cacheDir, n>>

SetArgc_Some ==
  /\ pc = "setenv" /\ i > Len(argv)
  /\ env' = IF n = 0 THEN env ELSE [env EXCEPT !.argc = n]
  /\ pc' = "app"
  /\ UNCHANGED <<depth, exe, given, argv, i, option, command, cacheDir, n>>

\* The number of arguments, then execl.
SetArgc ==
  /\ pc = "setenv" /\ i > Len(argv)
  /\ SetVariable("argc", n)
  /\ pc' = "app"
  /\ UNCHANGED <<depth, exe, given, argv, i, option, command, cacheDir, n>>

Next == Start \/ ParseArg \/ Proceed \/ SetArg \/ SetArgc

Spec == Init /\ [][Next]_vars

-----------------------------------------------------------------------------
\* Bakeware.Script.get_argc! and get_args: what main/1 receives.
ScriptArgs == IF env.argc \in {0, Unset} THEN <<>> ELSE [k \in 1..env.argc |-> env.arg[k]]

StartCommand == IF command = Empty THEN TrailerCommand ELSE command

\* The first of the launcher's own arguments.
FirstSpecial(args) == {k \in 1..Len(args) : /\ args[k] \in Special
                                            /\ \A j \in 1..(k - 1) : args[j] \notin Special}

\* The places of a command line but for the option that was processed and its operand.
Unprocessed(args) ==
  {k \in 1..Len(args) :
     /\ k \notin FirstSpecial(args)
     /\ ~(k - 1 \in FirstSpecial(args) /\ args[k - 1] = "--bw-command")}

\* Of these, what the launcher passes on: to update_environment an argument that the
\* user gave as "" looks like one that was processed.
Kept(args) == {k \in Unprocessed(args) : args[k] # Empty}

\* seen is what args has at these places, in order.
Are(seen, args, places) ==
  /\ Len(seen) = Cardinality(places)
  /\ \A k \in places : seen[Cardinality({j \in places : j <= k})] = args[k]

\* The application receives the path of its own launch and the arguments of its own
\* launch that are not empty, in order and without the processed option, whatever an
\* enclosing launch left in the environment.  The user's empty arguments are lost:
\* see ArgumentsPassThrough.
ScriptSeesOwnArgs ==
  pc = "app" => Are(ScriptArgs, given, Kept(given)) /\ env.executable = exe

\* "In general, command-line arguments passed to Bakeware applications are passed
\* through to Elixir" (README.md:251): each that the launcher does not process, as
\* "the nth command-line argument" (README.md:269).
ArgumentsPassThrough ==
  pc = "app" => Are(ScriptArgs, given, Unprocessed(given))

\* What the launcher does is decided by its first own argument, and a start
\* command given on the command line goes before the trailer's.  Only if the first
\* is --bw-command and the last argument is there no operand to copy, and the
\* launcher crashes: anywhere else --bw-command does no harm.
FirstOptionDecides ==
  pc \in {"app", "ended", "crashed"} =>
    /\ pc = "ended" <=> \E k \in FirstSpecial(given) : given[k] \in {"--bw-info", "--bw-install"}
    /\ pc = "crashed" <=> \E k \in FirstSpecial(given) : given[k] = "--bw-command" /\ k = Len(given)
    /\ \A k \in FirstSpecial(given) :
         given[k] = "--bw-command" /\ k < Len(given) =>
           given[k + 1] = Empty \/ StartCommand = Cut(given[k + 1])
=============================================================================
