-------------------------------- MODULE AppCache --------------------------------
(***************************************************************************)
(* What the cache promises its launchers, without files: the entry of an   *)
(* application is absent or complete, it appears whole in one step while   *)
(* somebody is starting the application, it never goes away, and an        *)
(* application runs only from a complete entry.                            *)
(***************************************************************************)
CONSTANTS Proc, Sha, None

VARIABLES
  entry,   \* "absent" or "complete", for each application
  phase,   \* "out", "starting" or "started", for each launcher
  wants    \* the application a launcher is starting or running

vars == <<entry, phase, wants>>

TypeOK ==
  /\ entry \in [Sha -> {"absent", "complete"}]
  /\ phase \in [Proc -> {"out", "starting", "started"}]
  /\ wants \in [Proc -> Sha \cup {None}]

Init ==
  /\ entry = [s \in Sha |-> "absent"]
  /\ phase = [p \in Proc |-> "out"]
  /\ wants = [p \in Proc |-> None]

Begin(p, s) ==
  /\ phase[p] = "out"
  /\ phase' = [phase EXCEPT ![p] = "starting"]
  /\ wants' = [wants EXCEPT ![p] = s]
  /\ UNCHANGED entry

\* Only who starts an application installs it, and only once.
Install(p) ==
  /\ phase[p] = "starting"
  /\ entry[wants[p]] = "absent"
  /\ entry' = [entry EXCEPT ![wants[p]] = "complete"]
  /\ UNCHANGED <<phase, wants>>

Start(p) ==
  /\ phase[p] = "starting"
  /\ entry[wants[p]] = "complete"
  /\ phase' = [phase EXCEPT ![p] = "started"]
  /\ UNCHANGED <<entry, wants>>

\* The launch fails, is refused, was only an installation, or the application
\* exits.
End(p) ==
  /\ phase[p] \in {"starting", "started"}
  /\ phase' = [phase EXCEPT ![p] = "out"]
  /\ wants' = [wants EXCEPT ![p] = None]
  /\ UNCHANGED entry

Next == \E p \in Proc : \/ \E s \in Sha : Begin(p, s)
                        \/ Install(p) \/ Start(p) \/ End(p)

\* A launch does not hang: it ends, or the application starts.
Fairness == \A p \in Proc : WF_vars(phase[p] = "starting" /\ (Start(p) \/ End(p)))

Safety == Init /\ [][Next]_vars
Spec == Safety /\ Fairness
=============================================================================
