-------------------------- MODULE LauncherArgs_proofs ---------------------------
(***************************************************************************)
(* Proofs about LauncherArgs for command lines of any length, any          *)
(* arguments and launches nested to any depth.                             *)
(***************************************************************************)
EXTENDS LauncherArgs, FiniteSetTheorems, SequenceTheorems, TLAPS

-----------------------------------------------------------------------------
(* The inductive invariant                                                 *)

\* What the loop of process_arguments has looked at holds no option of the
\* launcher, and nothing is blanked yet.
Looking ==
  /\ option = "none" /\ command = Empty /\ argv = given
  /\ \A j \in 1..Len(given) : j < i => given[j] \notin Special

\* The option at k, the first, has been processed.
ProcessedAt(k) ==
  /\ k \in FirstSpecial(given) /\ option = given[k]
  /\ \/ /\ given[k] # "--bw-command" /\ command = Empty
        /\ argv = [given EXCEPT ![k] = Empty]
     \/ /\ given[k] = "--bw-command" /\ k < Len(given)
        /\ command = Cut(given[k + 1])
        /\ argv = [given EXCEPT ![k] = Empty, ![k + 1] = Empty]

Processed ==
  \/ option = "none" /\ command = Empty /\ argv = given /\ FirstSpecial(given) = {}
  \/ \E k \in 1..Len(given) : ProcessedAt(k)

\* The place of argument k of the command line among those passed on.
Rank(k) == Cardinality({j \in Kept(given) : j <= k})

\* The arguments before place m are in the environment.
Exported(m) ==
  /\ n = Cardinality({j \in Kept(given) : j < m})
  /\ \A k \in Kept(given) : k < m => env.arg[Rank(k)] = given[k]
  /\ env.executable = exe

ArgsInv ==
  /\ TypeOK
  /\ i <= Len(given) + 1
  /\ pc = "crashed" => i \in FirstSpecial(given) /\ given[i] = "--bw-command" /\ i = Len(given)
  /\ pc = "parse" => n = 0 /\ (Looking \/ (i = Len(given) + 1 /\ Processed))
  /\ pc \in {"setenv", "app", "ended"} =>
       Processed /\ (pc = "ended" <=> option \in {"--bw-info", "--bw-install"})
  /\ pc = "setenv" => Exported(i)
  /\ pc = "app" => Exported(Len(given) + 1) /\ env.argc = n

-----------------------------------------------------------------------------
(* Command lines                                                           *)

LEMMA ArgListFacts ==
  ASSUME NEW a \in ArgLists
  PROVE  /\ Len(a) \in Nat /\ Len(a) <= MaxArgs
         /\ a \in [1..Len(a) -> Token]
         /\ MaxArgs \in Nat
<1>1. PICK k \in 0..MaxArgs : a \in [1..k -> Token]
  BY DEF ArgLists
<1>2. k \in Nat /\ MaxArgs \in Nat /\ k <= MaxArgs
  BY <1>1, ArgsAssumption
<1>3. a \in Seq(Token) /\ Len(a) = k
  BY <1>1, <1>2
<1>4. QED
  BY <1>1, <1>2, <1>3

LEMMA ArgListIntro ==
  ASSUME NEW k \in 0..MaxArgs, NEW a \in [1..k -> Token]
  PROVE  a \in ArgLists
BY DEF ArgLists

\* Blanking an argument leaves a command line of the same length.
LEMMA BlankedFacts ==
  ASSUME NEW a \in ArgLists, NEW k \in 1..Len(a)
  PROVE  /\ [a EXCEPT ![k] = Empty] \in ArgLists
         /\ Len([a EXCEPT ![k] = Empty]) = Len(a)
<1>1. /\ Len(a) \in 0..MaxArgs /\ a \in [1..Len(a) -> Token]
  BY ArgListFacts
<1>2. [a EXCEPT ![k] = Empty] \in [1..Len(a) -> Token]
  BY <1>1 DEF Token
<1>3. [a EXCEPT ![k] = Empty] \in ArgLists
  BY <1>1, <1>2, ArgListIntro
<1>4. [a EXCEPT ![k] = Empty] \in [1..Len([a EXCEPT ![k] = Empty]) -> Token]
      /\ Len([a EXCEPT ![k] = Empty]) \in Nat
  BY <1>3, ArgListFacts
<1>5. DOMAIN [a EXCEPT ![k] = Empty] = 1..Len(a)
      /\ DOMAIN [a EXCEPT ![k] = Empty] = 1..Len([a EXCEPT ![k] = Empty])
  BY <1>2, <1>4
<1>6. QED
  BY <1>1, <1>3, <1>4, <1>5

\* Only one of the launcher's own arguments is the first.
LEMMA FirstIsOne ==
  ASSUME NEW a \in ArgLists, NEW j \in FirstSpecial(a), NEW k \in FirstSpecial(a)
  PROVE  j = k
<1>1. /\ j \in 1..Len(a) /\ k \in 1..Len(a) /\ Len(a) \in Nat
      /\ a[j] \in Special /\ a[k] \in Special
      /\ \A m \in 1..(j - 1) : a[m] \notin Special
      /\ \A m \in 1..(k - 1) : a[m] \notin Special
  BY ArgListFacts DEF FirstSpecial
<1>2. ~(j < k) /\ ~(k < j)
  BY <1>1
<1>3. QED
  BY <1>1, <1>2

\* What is not blank after the parsing is what is kept, in its old place.
LEMMA KeptIsLeft ==
  ASSUME TypeOK, Processed, NEW j \in 1..Len(given)
  PROVE  /\ argv[j] # Empty <=> j \in Kept(given)
         /\ j \in Kept(given) => argv[j] = given[j]
<1>0. given \in ArgLists /\ Len(given) \in Nat /\ given \in [1..Len(given) -> Token]
  BY ArgListFacts DEF TypeOK
<1>1. CASE argv = given /\ FirstSpecial(given) = {}
  BY <1>1 DEF Kept, Unprocessed
<1>2. ASSUME NEW k \in 1..Len(given), ProcessedAt(k)
      PROVE  /\ argv[j] # Empty <=> j \in Kept(given)
             /\ j \in Kept(given) => argv[j] = given[j]
  <2>1. \A m \in FirstSpecial(given) : m = k
    BY <1>0, <1>2, FirstIsOne DEF ProcessedAt
  <2>2. k \in FirstSpecial(given)
    BY <1>2 DEF ProcessedAt
  <2>3. CASE given[k] # "--bw-command"
    <3>1. argv = [given EXCEPT ![k] = Empty]
      BY <1>2, <2>3 DEF ProcessedAt
    <3>2. argv[j] = IF j = k THEN Empty ELSE given[j]
      BY <1>0, <3>1
    <3>3. j \in Kept(given) <=> given[j] # Empty /\ j # k
      BY <2>1, <2>2, <2>3 DEF Kept, Unprocessed
    <3>4. QED
      BY <3>2, <3>3
  <2>4. CASE given[k] = "--bw-command"
    <3>1. argv = [given EXCEPT ![k] = Empty, ![k + 1] = Empty] /\ k < Len(given)
      BY <1>2, <2>4 DEF ProcessedAt
    <3>2. argv[j] = IF j = k \/ j = k + 1 THEN Empty ELSE given[j]
      BY <1>0, <3>1
    <3>3. j \in Kept(given) <=> given[j] # Empty /\ j # k /\ j - 1 # k
      BY <2>1, <2>2, <2>4 DEF Kept, Unprocessed
    <3>4. QED
      BY <1>0, <3>2, <3>3
  <2>5. QED
    BY <2>3, <2>4
<1>3. QED
  BY <1>1, <1>2 DEF Processed

\* Counting what is kept: the next argument comes after all before it.
LEMMA KeptCount ==
  ASSUME given \in ArgLists, NEW m \in Nat
  PROVE  /\ IsFiniteSet(Kept(given))
         /\ IsFiniteSet({j \in Kept(given) : j < m})
         /\ Cardinality({j \in Kept(given) : j < m}) \in Nat
         /\ Cardinality({j \in Kept(given) : j < m}) <= Len(given)
         /\ m > 0 => Cardinality({j \in Kept(given) : j < m}) <= m - 1
         /\ \A k \in Kept(given) : k < m =>
              /\ Rank(k) \in Nat /\ Rank(k) >= 1
              /\ Rank(k) <= Cardinality({j \in Kept(given) : j < m})
<1>0. Len(given) \in Nat /\ Kept(given) \subseteq 1..Len(given)
  BY ArgListFacts DEF Kept, Unprocessed
<1>1. /\ IsFiniteSet(1..Len(given)) /\ Cardinality(1..Len(given)) = Len(given)
  <2>1. \A k \in Nat : IsFiniteSet(1..k) /\ Cardinality(1..k) = k
    BY FS_Interval
  <2>2. QED
    BY <1>0, <2>1
<1>2. IsFiniteSet(Kept(given))
  BY <1>0, <1>1, FS_Subset
<1>3. /\ IsFiniteSet({j \in Kept(given) : j < m})
      /\ Cardinality({j \in Kept(given) : j < m}) \in Nat
  BY <1>2, FS_Subset, FS_CardinalityType
<1>4. Cardinality({j \in Kept(given) : j < m}) <= Len(given)
  <2>1. {j \in Kept(given) : j < m} \in SUBSET (1..Len(given))
    BY <1>0
  <2>2. QED
    BY <1>1, <2>1, FS_Subset
<1>5. ASSUME m > 0 PROVE Cardinality({j \in Kept(given) : j < m}) <= m - 1
  <2>1. /\ IsFiniteSet(1..(m - 1)) /\ Cardinality(1..(m - 1)) = m - 1
    BY <1>5, FS_Interval
  <2>2. {j \in Kept(given) : j < m} \in SUBSET (1..(m - 1))
    BY <1>0, <1>5
  <2>3. QED
    BY <2>1, <2>2, FS_Subset
<1>6. ASSUME NEW k \in Kept(given), k < m
      PROVE  /\ Rank(k) \in Nat /\ Rank(k) >= 1
             /\ Rank(k) <= Cardinality({j \in Kept(given) : j < m})
  <2>1. {j \in Kept(given) : j <= k} \in SUBSET {j \in Kept(given) : j < m}
    BY <1>0, <1>6
  <2>2. IsFiniteSet({j \in Kept(given) : j <= k}) /\ Rank(k) \in Nat
        /\ Rank(k) <= Cardinality({j \in Kept(given) : j < m})
    BY <1>3, <2>1, FS_Subset, FS_CardinalityType DEF Rank
  <2>3. k \in {j \in Kept(given) : j <= k}
    BY <1>0
  <2>4. Rank(k) # 0
    BY <2>2, <2>3, FS_EmptySet DEF Rank
  <2>5. QED
    BY <2>2, <2>4
<1>7. QED
  BY <1>2, <1>3, <1>4, <1>5, <1>6

LEMMA KeptNext ==
  ASSUME given \in ArgLists, NEW m \in Nat
  PROVE  Cardinality({j \in Kept(given) : j < m + 1}) =
           Cardinality({j \in Kept(given) : j < m}) + (IF m \in Kept(given) THEN 1 ELSE 0)
<1>0. Len(given) \in Nat /\ Kept(given) \subseteq 1..Len(given)
  BY ArgListFacts DEF Kept, Unprocessed
<1>1. IsFiniteSet({j \in Kept(given) : j < m})
  BY KeptCount
<1>2. CASE m \in Kept(given)
  <2>1. {j \in Kept(given) : j < m + 1} = {j \in Kept(given) : j < m} \cup {m}
    BY <1>0, <1>2
  <2>2. m \notin {j \in Kept(given) : j < m}
    OBVIOUS
  <2>3. QED
    BY <1>1, <1>2, <2>1, <2>2, FS_AddElement
<1>3. CASE m \notin Kept(given)
  <2>1. {j \in Kept(given) : j < m + 1} = {j \in Kept(given) : j < m}
    BY <1>0, <1>3
  <2>2. Cardinality({j \in Kept(given) : j < m}) \in Nat
    BY KeptCount
  <2>3. QED
    BY <1>3, <2>1, <2>2
<1>4. QED
  BY <1>2, <1>3

-----------------------------------------------------------------------------
(* The invariant is inductive                                              *)

LEMMA ProcessedLen ==
  ASSUME TypeOK, Processed PROVE Len(argv) = Len(given)
<1>1. CASE argv = given
  BY <1>1
<1>2. ASSUME NEW k \in 1..Len(given), ProcessedAt(k) PROVE Len(argv) = Len(given)
  <2>1. given \in ArgLists /\ Len(given) \in Nat
    BY ArgListFacts DEF TypeOK
  <2>2. /\ [given EXCEPT ![k] = Empty] \in ArgLists
        /\ Len([given EXCEPT ![k] = Empty]) = Len(given)
    BY <2>1, BlankedFacts
  <2>3. CASE given[k] # "--bw-command"
    BY <1>2, <2>2, <2>3 DEF ProcessedAt
  <2>4. CASE given[k] = "--bw-command"
    <3>1. argv = [given EXCEPT ![k] = Empty, ![k + 1] = Empty] /\ k + 1 \in 1..Len(given)
      BY <1>2, <2>1, <2>4 DEF ProcessedAt
    <3>2. QED
      BY <2>2, <3>1, BlankedFacts
  <2>5. QED
    BY <2>3, <2>4
<1>3. QED
  BY <1>1, <1>2 DEF Processed

LEMMA InitArgs == Init => ArgsInv
<1> SUFFICES ASSUME Init PROVE ArgsInv
  OBVIOUS
<1>1. MaxArgs \in Nat /\ MaxDepth \in Nat
  BY ArgsAssumption
<1>2. <<>> \in ArgLists /\ Len(<<>>) = 0
  <2>1. <<>> \in [1..0 -> Token] /\ 0 \in 0..MaxArgs
    BY <1>1
  <2>2. <<>> \in ArgLists
    BY <2>1, ArgListIntro
  <2>3. QED
    BY <2>2, EmptySeq
<1>3. Empty \in Token /\ Cut(Empty) = Empty
  BY DEF Token, Cut, Empty
<1>4. TypeOK
  <2>1. command \in {Cut(w) : w \in Token}
    BY <1>3 DEF Init
  <2>2. cacheDir \in Directory
    BY DEF Init, Directory
  <2>3. env \in Environment
    <3>1. PICK c \in Caches \cup {Unset} :
            env = [argc |-> Unset, arg |-> [k \in 1..MaxArgs |-> Unset],
                   executable |-> Unset, cache |-> c]
      BY DEF Init
    <3>2. QED
      BY <3>1 DEF Environment
  <2>4. given \in ArgLists /\ argv \in ArgLists
    BY <1>2 DEF Init
  <2>5. /\ pc = "user" /\ depth = 0 /\ exe = Unset /\ i = 1 /\ option = "none" /\ n = 0
    BY DEF Init
  <2>6. QED
    BY <1>1, <2>1, <2>2, <2>3, <2>4, <2>5 DEF TypeOK
<1>5. Len(given) = 0 /\ i = 1 /\ pc = "user"
  BY <1>2 DEF Init
<1>6. QED
  BY <1>4, <1>5 DEF ArgsInv

LEMMA StartArgs == ASSUME ArgsInv, Start PROVE ArgsInv'
<1>1. given' \in ArgLists /\ argv' = given' /\ i' = 1 /\ option' = "none"
      /\ command' = Empty /\ n' = 0 /\ pc' = "parse"
  BY DEF Start
<1>2. Len(given') \in Nat /\ MaxArgs \in Nat /\ MaxDepth \in Nat
  BY <1>1, ArgListFacts, ArgsAssumption
<1>3. Empty \in Token /\ Cut(Empty) = Empty
  BY DEF Token, Cut, Empty
<1>4. TypeOK'
  <2>1. command' \in {Cut(w) : w \in Token}
    BY <1>1, <1>3
  <2>2. cacheDir' \in Directory /\ env' \in Environment
    BY DEF Start, Directory, ArgsInv, TypeOK
  <2>3. depth' \in 0..MaxDepth /\ exe' \in Executables
    <3>1. depth \in 0..MaxDepth /\ depth < MaxDepth /\ depth' = depth + 1 /\ exe' \in Executables
      BY DEF Start, ArgsInv, TypeOK
    <3>2. QED
      BY <1>2, <3>1
  <2>4. QED
    BY <1>1, <1>2, <2>1, <2>2, <2>3 DEF TypeOK
<1>5. Looking'
  BY <1>1, <1>2 DEF Looking
<1>6. QED
  BY <1>1, <1>2, <1>4, <1>5 DEF ArgsInv

LEMMA ParseStep == ASSUME ArgsInv, ParseArg PROVE ArgsInv'
<1>0. /\ TypeOK /\ pc = "parse" /\ n = 0 /\ i \in Nat /\ i >= 1
      /\ given \in ArgLists /\ given \in [1..Len(given) -> Token]
      /\ Len(given) \in Nat /\ Len(given) <= MaxArgs /\ MaxArgs \in Nat
  <2>1. TypeOK /\ pc = "parse" /\ n = 0
    BY DEF ArgsInv, ParseArg
  <2>2. given \in ArgLists /\ i \in Nat /\ i >= 1
    BY <2>1, ArgsAssumption DEF TypeOK
  <2>3. QED
    BY <2>1, <2>2, ArgListFacts
<1>1. Looking /\ i <= Len(given)
  <2>1. CASE Looking
    BY <2>1 DEF ParseArg, Looking
  <2>2. CASE i = Len(given) + 1 /\ Processed
    BY <1>0, <2>2, ProcessedLen DEF ParseArg
  <2>3. QED
    BY <1>0, <2>1, <2>2 DEF ArgsInv
<1>2. /\ option = "none" /\ command = Empty /\ argv = given
      /\ \A j \in 1..(i - 1) : given[j] \notin Special
      /\ UNCHANGED <<depth, exe, given, cacheDir, n, env>>
  <2>1. UNCHANGED <<depth, exe, given, cacheDir, n, env>>
    BY DEF ParseArg
  <2>2. \A j \in 1..(i - 1) : j \in 1..Len(given) /\ j < i
    BY <1>0, <1>1
  <2>3. QED
    BY <1>1, <2>1, <2>2 DEF Looking
<1>3. i \in 1..Len(given) /\ given[i] \in Token
  BY <1>0, <1>1
<1>4. CASE argv[i] \notin Special
  <2>1. i' = i + 1 /\ UNCHANGED <<pc, argv, option, command>>
    BY <1>4 DEF ParseArg, Special, Options
  <2>2. TypeOK'
    BY <1>0, <1>1, <1>2, <2>1 DEF TypeOK
  <2>3. Looking'
    BY <1>0, <1>2, <1>4, <2>1 DEF Looking
  <2>4. QED
    BY <1>0, <1>1, <1>2, <2>1, <2>2, <2>3 DEF ArgsInv
<1>5. CASE argv[i] \in Special \ {"--bw-command"}
  <2>1. /\ option' = given[i] /\ argv' = [given EXCEPT ![i] = Empty]
        /\ i' = Len(given) + 1 /\ UNCHANGED <<pc, command>>
    BY <1>2, <1>5 DEF ParseArg
  <2>2. i \in FirstSpecial(given)
    BY <1>2, <1>3, <1>5 DEF FirstSpecial
  <2>3. PICK k \in 1..Len(given) : k = i
    BY <1>3
  <2>4. Processed'
    <3>1. ProcessedAt(k)'
      BY <1>2, <1>5, <2>1, <2>2, <2>3 DEF ProcessedAt, FirstSpecial
    <3>2. QED
      BY <1>2, <3>1 DEF Processed
  <2>5. TypeOK'
    <3>1. argv' \in ArgLists
      BY <1>0, <1>3, <2>1, BlankedFacts
    <3>2. QED
      BY <1>0, <1>2, <1>5, <2>1, <3>1 DEF TypeOK
  <2>6. QED
    BY <1>0, <1>2, <2>1, <2>4, <2>5 DEF ArgsInv
<1>6. CASE argv[i] = "--bw-command" /\ i < Len(argv)
  <2>1. /\ option' = given[i] /\ argv' = [given EXCEPT ![i] = Empty, ![i + 1] = Empty]
        /\ command' = Cut(given[i + 1]) /\ i' = Len(given) + 1 /\ UNCHANGED pc
    BY <1>2, <1>6 DEF ParseArg, Special, Options
  <2>2. i \in FirstSpecial(given) /\ given[i] = "--bw-command" /\ i < Len(given)
    BY <1>2, <1>3, <1>6 DEF FirstSpecial, Special, Options
  <2>3. PICK k \in 1..Len(given) : k = i
    BY <1>3
  <2>4. Processed'
    <3>1. ProcessedAt(k)'
      BY <1>2, <2>1, <2>2, <2>3 DEF ProcessedAt, FirstSpecial
    <3>2. QED
      BY <1>2, <3>1 DEF Processed
  <2>5. TypeOK'
    <3>1. i + 1 \in 1..Len(given) /\ given[i + 1] \in Token
      BY <1>0, <1>3, <2>2
    <3>2. argv' \in ArgLists
      BY <1>0, <1>3, <2>1, <3>1, BlankedFacts
    <3>3. command' \in {Cut(w) : w \in Token}
      BY <2>1, <3>1
    <3>4. option' \in Special
      BY <2>1, <2>2 DEF Special, Options
    <3>5. QED
      BY <1>0, <1>2, <2>1, <3>2, <3>3, <3>4 DEF TypeOK
  <2>6. QED
    BY <1>0, <1>2, <2>1, <2>4, <2>5 DEF ArgsInv
<1>7. CASE argv[i] = "--bw-command" /\ i = Len(argv)
  <2>1. pc' = "crashed" /\ UNCHANGED <<argv, i, option, command>>
    BY <1>7 DEF ParseArg, Special, Options
  <2>2. TypeOK'
    BY <1>0, <1>2, <2>1 DEF TypeOK
  <2>3. (i \in FirstSpecial(given) /\ given[i] = "--bw-command" /\ i = Len(given))'
    BY <1>0, <1>2, <1>3, <1>7, <2>1 DEF FirstSpecial, Special, Options
  <2>4. QED
    BY <1>0, <1>1, <1>2, <2>1, <2>2, <2>3 DEF ArgsInv
<1>8. QED
  BY <1>4, <1>5, <1>6, <1>7 DEF ParseArg

LEMMA ProceedArgs == ASSUME ArgsInv, Proceed PROVE ArgsInv'
<1>0. /\ TypeOK /\ pc = "parse" /\ n = 0 /\ i > Len(argv)
      /\ given \in ArgLists /\ Len(given) \in Nat /\ MaxArgs \in Nat
      /\ UNCHANGED <<depth, exe, given, argv, option, command, n>>
  <2>1. TypeOK /\ pc = "parse" /\ n = 0 /\ i > Len(argv)
    BY DEF ArgsInv, Proceed
  <2>2. given \in ArgLists /\ UNCHANGED <<depth, exe, given, argv, option, command, n>>
    BY <2>1 DEF TypeOK, Proceed
  <2>3. QED
    BY <2>1, <2>2, ArgListFacts
<1>1. Processed
  <2>1. CASE Looking
    <3>1. i \in Nat /\ i > Len(given)
      BY <1>0, <2>1 DEF Looking, TypeOK
    <3>2. FirstSpecial(given) = {}
      BY <1>0, <2>1, <3>1 DEF Looking, FirstSpecial
    <3>3. QED
      BY <2>1, <3>2 DEF Looking, Processed
  <2>2. QED
    BY <1>0, <2>1 DEF ArgsInv
<1>2. Processed'
  BY <1>0, <1>1 DEF Processed, ProcessedAt, FirstSpecial
<1>3. CASE pc' = "failed"
  <2>1. UNCHANGED <<i, cacheDir, env>>
    BY <1>3 DEF Proceed
  <2>2. TypeOK'
    BY <1>0, <1>3, <2>1 DEF TypeOK
  <2>3. QED
    BY <1>0, <1>3, <2>1, <2>2 DEF ArgsInv
<1>4. CASE pc' # "failed"
  <2>1. /\ cacheDir' = CacheDirectory /\ i' = 1
        /\ \/ option \in {"--bw-info", "--bw-install"} /\ pc' = "ended" /\ env' = env
           \/ /\ option \notin {"--bw-info", "--bw-install"} /\ pc' = "setenv"
              /\ env' = [env EXCEPT !["executable"] = exe]
    BY <1>4 DEF Proceed, SetVariable, FindExecutable
  <2>2. CacheDirectory \in Directory
    BY <1>0 DEF CacheDirectory, Directory, TypeOK, Environment
  <2>3. env' \in Environment /\ (pc' = "setenv" => env'.executable = exe)
    BY <1>0, <2>1 DEF TypeOK, Environment
  <2>4. TypeOK'
    BY <1>0, <2>1, <2>2, <2>3 DEF TypeOK
  <2>5. pc' = "setenv" => Exported(1)'
    <3>1. {j \in Kept(given) : j < 1} = {}
      BY DEF Kept, Unprocessed
    <3>2. Kept(given)' = Kept(given)
      BY <1>0
    <3>3. QED
      BY <1>0, <2>3, <3>1, <3>2, FS_EmptySet DEF Exported
  <2>6. QED
    BY <1>0, <1>2, <2>1, <2>4, <2>5 DEF ArgsInv
<1>5. QED
  BY <1>3, <1>4

LEMMA SetArgStep == ASSUME ArgsInv, SetArg PROVE ArgsInv'
<1>0. /\ TypeOK /\ pc = "setenv" /\ Processed /\ Exported(i)
      /\ option \notin {"--bw-info", "--bw-install"}
      /\ given \in ArgLists /\ Len(given) \in Nat /\ Len(given) <= MaxArgs /\ MaxArgs \in Nat
      /\ UNCHANGED <<pc, depth, exe, given, argv, option, command, cacheDir>>
      /\ i' = i + 1
  <2>1. /\ TypeOK /\ pc = "setenv" /\ Processed /\ Exported(i)
        /\ option \notin {"--bw-info", "--bw-install"}
    BY DEF ArgsInv, SetArg
  <2>2. given \in ArgLists /\ i' = i + 1
        /\ UNCHANGED <<pc, depth, exe, given, argv, option, command, cacheDir>>
    BY <2>1 DEF TypeOK, SetArg
  <2>3. QED
    BY <2>1, <2>2, ArgListFacts
<1>1. i \in 1..Len(given) /\ i \in Nat
  BY <1>0, ProcessedLen DEF TypeOK, SetArg
<1>2. /\ argv[i] # Empty <=> i \in Kept(given)
      /\ i \in Kept(given) => argv[i] = given[i]
  BY <1>0, <1>1, KeptIsLeft
<1>3. Processed' /\ Kept(given)' = Kept(given) /\ \A k : Rank(k)' = Rank(k)
  BY <1>0 DEF Processed, ProcessedAt, FirstSpecial, Kept, Unprocessed, Rank
<1>4. /\ n = Cardinality({j \in Kept(given) : j < i}) /\ n \in Nat /\ n <= i - 1
      /\ \A k \in Kept(given) : k < i => /\ env.arg[Rank(k)] = given[k]
                                        /\ Rank(k) \in Nat /\ Rank(k) >= 1 /\ Rank(k) <= n
      /\ env.executable = exe
  <2>1. /\ n = Cardinality({j \in Kept(given) : j < i})
        /\ \A k \in Kept(given) : k < i => env.arg[Rank(k)] = given[k]
        /\ env.executable = exe
    BY <1>0 DEF Exported
  <2>2. /\ Cardinality({j \in Kept(given) : j < i}) \in Nat
        /\ Cardinality({j \in Kept(given) : j < i}) <= i - 1
        /\ \A k \in Kept(given) : k < i =>
             /\ Rank(k) \in Nat /\ Rank(k) >= 1
             /\ Rank(k) <= Cardinality({j \in Kept(given) : j < i})
    <3>1. i \in Nat /\ i > 0 /\ given \in ArgLists
      BY <1>0, <1>1
    <3>2. QED
      BY <3>1, KeptCount
  <2>3. QED
    BY <2>1, <2>2
<1>5. Kept(given) \subseteq Nat
  BY DEF Kept, Unprocessed
<1>6. CASE argv[i] = Empty
  <2>1. UNCHANGED <<n, env>>
    BY <1>6 DEF SetArg
  <2>2. Cardinality({j \in Kept(given) : j < i + 1}) = n
    BY <1>0, <1>1, <1>2, <1>4, <1>6, KeptNext
  <2>3. \A k \in Kept(given) : k < i + 1 => k < i
    BY <1>1, <1>2, <1>5, <1>6
  <2>4. Exported(i)'
    BY <1>0, <1>3, <1>4, <2>1, <2>2, <2>3 DEF Exported
  <2>5. TypeOK'
    BY <1>0, <1>1, <2>1 DEF TypeOK
  <2>6. QED
    BY <1>0, <1>1, <1>3, <2>4, <2>5 DEF ArgsInv
<1>7. CASE argv[i] # Empty
  <2>1. n' = n + 1 /\ env' = [env EXCEPT !.arg[n + 1] = argv[i]]
    BY <1>7 DEF SetArg, SetIndexed
  <2>2. Cardinality({j \in Kept(given) : j < i + 1}) = n + 1 /\ argv[i] = given[i]
    BY <1>0, <1>1, <1>2, <1>4, <1>7, KeptNext
  <2>3. Rank(i) = n + 1
    <3>1. {j \in Kept(given) : j <= i} = {j \in Kept(given) : j < i + 1}
      BY <1>1, <1>5
    <3>2. QED
      BY <2>2, <3>1 DEF Rank
  <2>4. n + 1 \in 1..MaxArgs /\ argv[i] \in Token
    <3>1. n + 1 \in 1..MaxArgs
      BY <1>0, <1>1, <1>4
    <3>2. given[i] \in Token
      BY <1>0, <1>1, ArgListFacts
    <3>3. QED
      BY <2>2, <3>1, <3>2
  <2>5. /\ env'.executable = exe /\ env' \in Environment
        /\ \A k \in 1..MaxArgs : env'.arg[k] = IF k = n + 1 THEN argv[i] ELSE env.arg[k]
    BY <1>0, <1>4, <2>1, <2>4 DEF TypeOK, Environment
  <2>6. ASSUME NEW k \in Kept(given), k < i + 1 PROVE env'.arg[Rank(k)] = given[k]
    <3>1. CASE k = i
      BY <2>2, <2>3, <2>4, <2>5, <3>1
    <3>2. CASE k < i
      <4>1. /\ env.arg[Rank(k)] = given[k]
            /\ Rank(k) \in Nat /\ Rank(k) >= 1 /\ Rank(k) <= n
        BY <1>4, <3>2
      <4>2. Rank(k) \in 1..MaxArgs /\ Rank(k) # n + 1
        BY <1>0, <1>4, <2>4, <4>1
      <4>3. QED
        BY <2>5, <4>1, <4>2
    <3>3. QED
      BY <1>1, <1>5, <2>6, <3>1, <3>2
  <2>7. Exported(i)'
    BY <1>0, <1>3, <2>1, <2>2, <2>5, <2>6 DEF Exported
  <2>8. TypeOK'
    BY <1>0, <1>1, <2>1, <2>4, <2>5 DEF TypeOK
  <2>9. QED
    BY <1>0, <1>1, <1>3, <2>7, <2>8 DEF ArgsInv
<1>8. QED
  BY <1>6, <1>7

LEMMA SetArgcStep == ASSUME ArgsInv, SetArgc PROVE ArgsInv'
<1>0. /\ TypeOK /\ pc = "setenv" /\ Processed /\ Exported(i) /\ i <= Len(given) + 1
      /\ option \notin {"--bw-info", "--bw-install"} /\ i > Len(argv)
      /\ given \in ArgLists /\ Len(given) \in Nat
      /\ UNCHANGED <<depth, exe, given, argv, i, option, command, cacheDir, n>>
      /\ pc' = "app" /\ env' = [env EXCEPT !["argc"] = n]
  <2>1. /\ TypeOK /\ pc = "setenv" /\ Processed /\ Exported(i) /\ i <= Len(given) + 1
        /\ option \notin {"--bw-info", "--bw-install"}
    BY DEF ArgsInv, SetArgc
  <2>2. QED
    BY <2>1, ArgListFacts DEF TypeOK, SetArgc, SetVariable
<1>1. i = Len(given) + 1
  BY <1>0, ProcessedLen DEF TypeOK
<1>2. env' \in Environment /\ env'.argc = n /\ env'.arg = env.arg
      /\ env'.executable = env.executable
  BY <1>0 DEF TypeOK, Environment
<1>3. TypeOK'
  BY <1>0, <1>2 DEF TypeOK
<1>4. Processed' /\ Exported(Len(given) + 1)'
  <2>1. Processed'
    BY <1>0 DEF Processed, ProcessedAt, FirstSpecial
  <2>2. Exported(Len(given) + 1)
    BY <1>0, <1>1
  <2>3. Exported(Len(given) + 1)'
    <3>1. /\ n' = n /\ given' = given /\ exe' = exe /\ Kept(given)' = Kept(given)
          /\ \A k : Rank(k)' = Rank(k)
      BY <1>0 DEF Kept, Unprocessed, Rank, FirstSpecial
    <3>2. QED
      BY <1>2, <2>2, <3>1 DEF Exported
  <2>4. QED
    BY <2>1, <2>3
<1>5. QED
  BY <1>0, <1>2, <1>3, <1>4 DEF ArgsInv

LEMMA ArgsInvariant == Spec => []ArgsInv
<1>1. ArgsInv /\ [Next]_vars => ArgsInv'
  <2> SUFFICES ASSUME ArgsInv, [Next]_vars PROVE ArgsInv'
    OBVIOUS
  <2>1. CASE UNCHANGED vars
    <3>1. /\ TypeOK' /\ (Looking' <=> Looking) /\ (Processed' <=> Processed)
          /\ pc' = pc /\ i' = i /\ option' = option /\ given' = given /\ n' = n /\ env' = env
      BY <2>1 DEF vars, ArgsInv, TypeOK, Looking, Processed, ProcessedAt, FirstSpecial
    <3>2. Kept(given)' = Kept(given) /\ exe' = exe /\ \A k : Rank(k)' = Rank(k)
      BY <2>1 DEF vars, Kept, Unprocessed, Rank, FirstSpecial
    <3>3. \A m : Exported(m)' <=> Exported(m)
      BY <3>1, <3>2 DEF Exported
    <3>4. QED
      BY <3>1, <3>3 DEF ArgsInv
  <2>2. QED
    BY <2>1, StartArgs, ParseStep, ProceedArgs, SetArgStep, SetArgcStep DEF Next
<1>2. QED
  BY <1>1, InitArgs, PTL DEF Spec

-----------------------------------------------------------------------------
(* The results                                                             *)

\* Every variable keeps its type: the index of a variable stays within the
\* arguments there are.
THEOREM ArgsTypeCorrect == Spec => []TypeOK
<1>1. ArgsInv => TypeOK
  BY DEF ArgsInv
<1>2. QED
  BY <1>1, ArgsInvariant, PTL

\* The application receives its own executable's path and the arguments of its own
\* launch that are not empty, all but the option that was processed, in order and
\* without gaps.
THEOREM ScriptArgsAreOwn == Spec => []ScriptSeesOwnArgs
<1>1. ArgsInv => ScriptSeesOwnArgs
  <2> SUFFICES ASSUME ArgsInv, pc = "app"
               PROVE  Are(ScriptArgs, given, Kept(given)) /\ env.executable = exe
    BY DEF ScriptSeesOwnArgs
  <2>1. /\ TypeOK /\ Exported(Len(given) + 1) /\ env.argc = n
        /\ given \in ArgLists /\ Len(given) \in Nat
    BY ArgListFacts DEF ArgsInv, TypeOK
  <2>2. Kept(given) \subseteq 1..Len(given)
    BY DEF Kept, Unprocessed
  <2>3. {j \in Kept(given) : j < Len(given) + 1} = Kept(given)
    BY <2>1, <2>2
  <2>4. n = Cardinality(Kept(given)) /\ n \in Nat
    <3>1. n = Cardinality({j \in Kept(given) : j < Len(given) + 1}) /\ n \in Nat
      BY <2>1, ArgListFacts DEF Exported, TypeOK
    <3>2. QED
      BY <2>3, <3>1
  <2>5. ASSUME NEW k \in Kept(given)
        PROVE  Rank(k) \in 1..n /\ env.arg[Rank(k)] = given[k]
    <3>1. k < Len(given) + 1 /\ Len(given) + 1 \in Nat
      BY <2>1, <2>2
    <3>2. QED
      <4>1. env.arg[Rank(k)] = given[k]
        BY <2>1, <3>1 DEF Exported
      <4>2. /\ Rank(k) \in Nat /\ Rank(k) >= 1
            /\ Rank(k) <= Cardinality({j \in Kept(given) : j < Len(given) + 1})
        BY <2>1, <3>1, KeptCount
      <4>3. Rank(k) <= n
        BY <2>3, <2>4, <4>2
      <4>4. QED
        BY <2>4, <4>1, <4>2, <4>3
  <2>6. CASE n = 0
    <3>1. Kept(given) = {}
      BY <2>5, <2>6
    <3>2. ScriptArgs = <<>> /\ Cardinality(Kept(given)) = Len(<<>>)
      BY <2>1, <2>4, <2>6 DEF ScriptArgs
    <3>3. QED
      BY <2>1, <3>1, <3>2 DEF Are, Exported
  <2>7. CASE n # 0
    <3>1. ScriptArgs = [k \in 1..n |-> env.arg[k]]
      BY <2>1, <2>4, <2>7, ArgsAssumption DEF ScriptArgs
    <3>2. Len(ScriptArgs) = n
      BY <2>4, <3>1
    <3>3. QED
      BY <2>1, <2>4, <2>5, <3>1, <3>2 DEF Are, Rank, Exported
  <2>8. QED
    BY <2>6, <2>7
<1>2. QED
  BY <1>1, ArgsInvariant, PTL

\* The launcher's first own argument decides, and a start command of the command
\* line goes before the trailer's; the launcher crashes only for want of one.
THEOREM FirstOptionIsDecisive == Spec => []FirstOptionDecides
<1>1. ArgsInv => FirstOptionDecides
  <2> SUFFICES ASSUME ArgsInv, pc \in {"app", "ended", "crashed"}
               PROVE  /\ pc = "ended" <=> \E k \in FirstSpecial(given) :
                                            given[k] \in {"--bw-info", "--bw-install"}
                      /\ pc = "crashed" <=> \E k \in FirstSpecial(given) :
                                              given[k] = "--bw-command" /\ k = Len(given)
                      /\ \A k \in FirstSpecial(given) :
                           given[k] = "--bw-command" /\ k < Len(given)
                             => given[k + 1] = Empty \/ StartCommand = Cut(given[k + 1])
    BY DEF FirstOptionDecides
  <2>1. /\ given \in ArgLists /\ Len(given) \in Nat
        /\ \A j, k \in FirstSpecial(given) : j = k
    BY FirstIsOne, ArgListFacts DEF ArgsInv, TypeOK
  <2>2. CASE pc = "crashed"
    <3>1. i \in FirstSpecial(given) /\ given[i] = "--bw-command" /\ i = Len(given)
      BY <2>2 DEF ArgsInv
    <3>2. \A k \in FirstSpecial(given) : k = i
      BY <2>1, <3>1
    <3>3. QED
      BY <2>1, <2>2, <3>1, <3>2
  <2>3. CASE pc \in {"app", "ended"}
    <3>1. Processed /\ (pc = "ended" <=> option \in {"--bw-info", "--bw-install"})
      BY <2>3 DEF ArgsInv
    <3>2. CASE option = "none" /\ FirstSpecial(given) = {}
      BY <2>3, <3>1, <3>2
    <3>3. ASSUME NEW k \in 1..Len(given), ProcessedAt(k)
          PROVE  /\ k \in FirstSpecial(given) /\ \A m \in FirstSpecial(given) : m = k
                 /\ option = given[k]
                 /\ given[k] = "--bw-command" => k < Len(given)
                 /\ given[k] = "--bw-command" =>
                      given[k + 1] = Empty \/ StartCommand = Cut(given[k + 1])
      <4>1. /\ k \in FirstSpecial(given) /\ \A m \in FirstSpecial(given) : m = k
            /\ option = given[k]
        BY <2>1, <3>3 DEF ProcessedAt
      <4>2. ASSUME given[k] = "--bw-command", given[k + 1] # Empty
            PROVE  StartCommand = Cut(given[k + 1])
        <5>1. command = Cut(given[k + 1])
          BY <3>3, <4>2 DEF ProcessedAt
        <5>2. Cut(given[k + 1]) # Empty
          BY <4>2 DEF Cut, Empty
        <5>3. QED
          BY <5>1, <5>2 DEF StartCommand
      <4>3. given[k] = "--bw-command" => k < Len(given)
        BY <3>3 DEF ProcessedAt
      <4>4. QED
        BY <4>1, <4>2, <4>3
    <3>4. ASSUME NEW k \in 1..Len(given), ProcessedAt(k)
          PROVE  /\ pc = "ended" <=> \E m \in FirstSpecial(given) :
                                       given[m] \in {"--bw-info", "--bw-install"}
                 /\ \A m \in FirstSpecial(given) :
                      /\ ~(given[m] = "--bw-command" /\ m = Len(given))
                      /\ given[m] = "--bw-command" /\ m < Len(given)
                           => given[m + 1] = Empty \/ StartCommand = Cut(given[m + 1])
      BY <2>1, <3>1, <3>3, <3>4
    <3>5. QED
      BY <2>3, <3>1, <3>2, <3>4 DEF Processed
  <2>4. QED
    BY <2>2, <2>3
<1>2. QED
  BY <1>1, ArgsInvariant, PTL
=============================================================================
