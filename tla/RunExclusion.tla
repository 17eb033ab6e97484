---------------------------- MODULE RunExclusion ----------------------------
(***************************************************************************)
(* What the run slot promises, without locks, files, scans or retries.     *)
(*                                                                         *)
(* A run is one `pycastle run` process.  Runs of one project never         *)
(* overlap.  A lock-respecting run first gets the turn, which one run has  *)
(* at a time, and starts only when every run that was active at the moment *)
(* it got the turn has ended; a queue-jumping run needs no turn.           *)
(***************************************************************************)
CONSTANTS Runs,       \* run processes
          Projects,   \* projects on the host
          ProjectOf,  \* the project of each run
          Jumpers,    \* the runs started with --ignore-global-lock
          NoRun       \* not a run

VARIABLES turn,    \* the lock-respecting run whose turn it is, or NoRun
          owed,    \* owed[r]: the runs that were active when r got the turn
          active   \* the runs that are executing their pipeline

vars == <<turn, owed, active>>

SameProject(r, s) == ProjectOf[r] = ProjectOf[s]

Init == turn = NoRun /\ owed = [r \in Runs |-> {}] /\ active = {}

GetTurn(r) ==
  /\ r \notin Jumpers /\ turn = NoRun
  /\ turn' = r
  /\ owed' = [owed EXCEPT ![r] = active]
  /\ UNCHANGED active

Start(r) ==
  /\ \A s \in active : ~SameProject(r, s)
  /\ r \notin Jumpers => turn = r /\ owed[r] \cap active = {}
  /\ active' = active \cup {r}
  /\ UNCHANGED <<turn, owed>>

End(r) ==
  /\ r \in active
  /\ active' = active \ {r}
  /\ UNCHANGED <<turn, owed>>

GiveUpTurn(r) ==
  /\ turn = r /\ r \notin active
  /\ turn' = NoRun
  /\ UNCHANGED <<owed, active>>

\* A process that dies ends its run and gives up its turn in one step.
Die(r) ==
  /\ active' = active \ {r}
  /\ turn' = IF turn = r THEN NoRun ELSE turn
  /\ UNCHANGED owed

Next == \E r \in Runs : GetTurn(r) \/ Start(r) \/ End(r) \/ GiveUpTurn(r) \/ Die(r)

Spec == Init /\ [][Next]_vars
=============================================================================
