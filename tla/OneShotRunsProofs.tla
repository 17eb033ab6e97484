-------------------------- MODULE OneShotRunsProofs --------------------------
(* Proofs about OneShotRuns, for any services, chain, checks and bounds.     *)
EXTENDS OneShotRuns, TLAPS

LEMMA ChainFacts == 1 \in DOMAIN Chain /\ \A i \in DOMAIN Chain : Chain[i] \in Services
  BY ChainAssumption

\* The candidate that Choose takes has no mark.
LEMMA ChosenUnmarked ==
  ASSUME Choose
  PROVE  node' \in DOMAIN Chain /\ Chain[node'] \notin marked
  BY DEF Choose, Available

LEMMA InitInv == Init => Inv
<1> SUFFICES ASSUME Init PROVE Inv
  OBVIOUS
<1>1. TypeOK
  <2>1. retries \in 0..TimeoutRetries /\ elapses \in 0..MaxElapses
    BY RetriesAssumption DEF Init
  <2> QED BY <2>1, ChainFacts DEF Init, TypeOK
<1> QED
  BY <1>1 DEF Init, Inv, LeavesNothing, VerdictOfAllChecks, SessionFits, RotationFits,
              VerdictIsLast, CutFits

LEMMA TypeStep == TypeOK /\ SessionFits /\ [Next]_vars => TypeOK'
<1> SUFFICES ASSUME TypeOK, SessionFits, [Next]_vars PROVE TypeOK'
  OBVIOUS
<1> USE RetriesAssumption, ChainFacts DEF TypeOK, engine, checks, Goto, Leave,
        Own, Forget, Unchecked, Service, Attempting
<1>1. CASE Begin
  BY <1>1 DEF Begin, SessionFits
<1>2. CASE BeginChecks
  BY <1>2 DEF BeginChecks, SessionFits
<1>3. CASE NothingLeft
  BY <1>3 DEF NothingLeft
<1>4. CASE Choose
  <2>1. /\ pc' = "open" /\ retries' = TimeoutRetries /\ Forget /\ ~held
        /\ UNCHANGED <<marked, refused, failed, ran, running, cut, elapses, kind>>
    BY <1>4 DEF Choose, SessionFits
  <2>2. node' \in DOMAIN Chain
    BY <1>4, ChosenUnmarked
  <2>3. retries' \in 0..TimeoutRetries
    BY <2>1, RetriesAssumption
  <2>4. marked' \subseteq Services /\ refused' \subseteq Services /\ elapses' \in 0..MaxElapses
        /\ failed' \subseteq ran' /\ ran' \subseteq Checks /\ running' \subseteq Checks
    BY <2>1
  <2> QED BY <2>1, <2>2, <2>3, <2>4
<1>5. CASE Open
  BY <1>5 DEF Open
<1>6. CASE OpenFails
  BY <1>6 DEF OpenFails
<1>7. CASE Enter
  BY <1>7 DEF Enter
<1>8. CASE Started
  BY <1>8 DEF Started, SessionFits
<1>9. CASE StartFails
  BY <1>9 DEF StartFails, SessionFits
<1>10. CASE SetUp
  BY <1>10 DEF SetUp
<1>11. CASE SetupFails
  BY <1>11 DEF SetupFails
<1>12. CASE ContainerDies
  <2>1. /\ marked' = marked /\ refused' = refused /\ node' = node /\ kind' = kind
        /\ retries' = retries /\ elapses' = elapses
        /\ failed' = failed /\ ran' = ran /\ running' = running /\ cut' = cut
    BY <1>12 DEF ContainerDies
  <2>2. /\ pc' = pc /\ session' = session /\ held' = held /\ thread' = thread
        /\ overlay' = overlay /\ stray' = FALSE /\ container' = "dead"
    BY <1>12 DEF ContainerDies
  <2>3. /\ marked' \subseteq Services /\ refused' \subseteq Services
        /\ node' \in DOMAIN Chain /\ retries' \in 0..TimeoutRetries
        /\ kind' \in {"one_shot", "checks"} /\ elapses' \in 0..MaxElapses
    BY <2>1
  <2>4. /\ failed' \subseteq ran' /\ ran' \subseteq Checks /\ running' \subseteq Checks
        /\ cut' \in {"none", "last", "early"}
    BY <2>1
  <2>5. /\ pc' \in {"idle", "choose", "open", "enter", "starting", "setup", "ready",
                    "attempt", "checks", "close", "exiting", "exited"}
        /\ pc' \in {"setup", "ready", "attempt", "checks"} => held' /\ session' = "docker"
        /\ session' \in {"none", "docker", "unavailable"} /\ held' \in BOOLEAN
        /\ thread' \in {"none", "docker", "unavailable"}
        /\ overlay' \in BOOLEAN
    BY <2>2
  <2> QED BY <2>2, <2>3, <2>4, <2>5
<1>13. CASE Close
  BY <1>13 DEF Close
<1>14. CASE CloseFails
  BY <1>14 DEF CloseFails
<1>15. CASE Call
  BY <1>15 DEF Call
<1>16. CASE Completed
  BY <1>16 DEF Completed
<1>17. CASE Fails
  BY <1>17 DEF Fails
<1>18. CASE Limited
  BY <1>18 DEF Limited
<1>19. CASE LimitedStale
  BY <1>19 DEF LimitedStale
<1>20. CASE TimedOut
  BY <1>20 DEF TimedOut
<1>21. CASE \E c \in Checks : CheckBegins(c)
  BY <1>21 DEF CheckBegins
<1>22. CASE CheckPasses \/ CheckFails \/ CheckCut
  BY <1>22 DEF CheckPasses, CheckFails, CheckCut, CheckDone
<1>23. CASE CheckRaises
  BY <1>23 DEF CheckRaises
<1>24. CASE Verdict
  BY <1>24 DEF Verdict
<1>25. CASE Interrupt
  BY <1>25 DEF Interrupt
<1>26. CASE Exit
  BY <1>26 DEF Exit
<1>27. CASE Killed
  BY <1>27 DEF Killed, SessionFits
<1>28. CASE Restart
  BY <1>28 DEF Restart
<1>29. CASE \E s \in Services : Elapses(s)
  BY <1>29 DEF Elapses
<1>30. CASE \E s \in Services : OthersMark(s)
  BY <1>30 DEF OthersMark
<1>31. CASE UNCHANGED vars
  BY <1>31 DEF vars
<1> QED
  BY <1>1, <1>2, <1>3, <1>4, <1>5, <1>6, <1>7, <1>8, <1>9, <1>10, <1>11,
     <1>12, <1>13, <1>14, <1>15, <1>16, <1>17, <1>18, <1>19, <1>20, <1>21,
     <1>22, <1>23, <1>24, <1>25, <1>26, <1>27, <1>28, <1>29, <1>30, <1>31 DEF Next

-----------------------------------------------------------------------------
(* The session: the block that closes it covers every way out. *)

LEMMA SessionStep == TypeOK /\ SessionFits /\ [Next]_vars => SessionFits'
<1> SUFFICES ASSUME TypeOK, SessionFits, [Next]_vars PROVE SessionFits'
  OBVIOUS
<1> USE DEF TypeOK, SessionFits, engine, checks, Goto, Leave, Own, Forget,
        Unchecked, Attempting
<1>1. CASE Begin
  BY <1>1 DEF Begin
<1>2. CASE BeginChecks
  BY <1>2 DEF BeginChecks
<1>3. CASE NothingLeft
  BY <1>3 DEF NothingLeft
<1>4. CASE Choose
  BY <1>4 DEF Choose
<1>5. CASE Open
  BY <1>5 DEF Open
<1>6. CASE OpenFails
  BY <1>6 DEF OpenFails
<1>7. CASE Enter
  BY <1>7 DEF Enter
<1>8. CASE Started
  BY <1>8 DEF Started
<1>9. CASE StartFails
  BY <1>9 DEF StartFails
<1>10. CASE SetUp
  BY <1>10 DEF SetUp
<1>11. CASE SetupFails
  BY <1>11 DEF SetupFails
<1>12. CASE ContainerDies
  BY <1>12 DEF ContainerDies
<1>13. CASE Close
  BY <1>13 DEF Close
<1>14. CASE CloseFails
  BY <1>14 DEF CloseFails
<1>15. CASE Call
  BY <1>15 DEF Call
<1>16. CASE Completed
  BY <1>16 DEF Completed
<1>17. CASE Fails
  BY <1>17 DEF Fails
<1>18. CASE Limited
  BY <1>18 DEF Limited
<1>19. CASE LimitedStale
  BY <1>19 DEF LimitedStale
<1>20. CASE TimedOut
  BY <1>20 DEF TimedOut
<1>21. CASE \E c \in Checks : CheckBegins(c)
  BY <1>21 DEF CheckBegins
<1>22. CASE CheckPasses \/ CheckFails \/ CheckCut
  BY <1>22 DEF CheckPasses, CheckFails, CheckCut, CheckDone
<1>23. CASE CheckRaises
  BY <1>23 DEF CheckRaises
<1>24. CASE Verdict
  BY <1>24 DEF Verdict
<1>25. CASE Interrupt
  BY <1>25 DEF Interrupt
<1>26. CASE Exit
  BY <1>26 DEF Exit
<1>27. CASE Killed
  BY <1>27 DEF Killed
<1>28. CASE Restart
  BY <1>28 DEF Restart
<1>29. CASE \E s \in Services : Elapses(s)
  BY <1>29 DEF Elapses
<1>30. CASE \E s \in Services : OthersMark(s)
  BY <1>30 DEF OthersMark
<1>31. CASE UNCHANGED vars
  BY <1>31 DEF vars
<1> QED
  BY <1>1, <1>2, <1>3, <1>4, <1>5, <1>6, <1>7, <1>8, <1>9, <1>10, <1>11,
     <1>12, <1>13, <1>14, <1>15, <1>16, <1>17, <1>18, <1>19, <1>20, <1>21,
     <1>22, <1>23, <1>24, <1>25, <1>26, <1>27, <1>28, <1>29, <1>30, <1>31 DEF Next

\* Between runs and rounds no session is open, so none holds a container.
LEMMA ClosedLeavesNothing == TypeOK /\ SessionFits => LeavesNothing
  BY DEF TypeOK, SessionFits, LeavesNothing

-----------------------------------------------------------------------------
(* The rotation: what limited it is marked, and Choose skips what is marked. *)

LEMMA RotationStep == TypeOK /\ RotationFits /\ [Next]_vars => RotationFits'
<1> SUFFICES ASSUME TypeOK, RotationFits, [Next]_vars PROVE RotationFits'
  OBVIOUS
<1> USE DEF TypeOK, RotationFits, engine, checks, Goto, Leave, Own, Forget,
        Unchecked, Service, Attempting
<1>1. CASE Begin
  BY <1>1 DEF Begin
<1>2. CASE BeginChecks
  BY <1>2 DEF BeginChecks
<1>3. CASE NothingLeft
  BY <1>3 DEF NothingLeft
<1>4. CASE Choose
  BY <1>4, ChosenUnmarked DEF Choose
<1>5. CASE Open
  BY <1>5 DEF Open
<1>6. CASE OpenFails
  BY <1>6 DEF OpenFails
<1>7. CASE Enter
  BY <1>7 DEF Enter
<1>8. CASE Started
  BY <1>8 DEF Started
<1>9. CASE StartFails
  BY <1>9 DEF StartFails
<1>10. CASE SetUp
  BY <1>10 DEF SetUp
<1>11. CASE SetupFails
  BY <1>11 DEF SetupFails
<1>12. CASE ContainerDies
  BY <1>12 DEF ContainerDies
<1>13. CASE Close
  BY <1>13 DEF Close
<1>14. CASE CloseFails
  BY <1>14 DEF CloseFails
<1>15. CASE Call
  BY <1>15 DEF Call
<1>16. CASE Completed
  BY <1>16 DEF Completed
<1>17. CASE Fails
  BY <1>17 DEF Fails
<1>18. CASE Limited
  BY <1>18 DEF Limited
<1>19. CASE LimitedStale
  BY <1>19 DEF LimitedStale
<1>20. CASE TimedOut
  BY <1>20 DEF TimedOut
<1>21. CASE \E c \in Checks : CheckBegins(c)
  BY <1>21 DEF CheckBegins
<1>22. CASE CheckPasses \/ CheckFails \/ CheckCut
  BY <1>22 DEF CheckPasses, CheckFails, CheckCut, CheckDone
<1>23. CASE CheckRaises
  BY <1>23 DEF CheckRaises
<1>24. CASE Verdict
  BY <1>24 DEF Verdict
<1>25. CASE Interrupt
  BY <1>25 DEF Interrupt
<1>26. CASE Exit
  BY <1>26 DEF Exit
<1>27. CASE Killed
  BY <1>27 DEF Killed
<1>28. CASE Restart
  BY <1>28 DEF Restart
<1>29. CASE \E s \in Services : Elapses(s)
  BY <1>29 DEF Elapses
<1>30. CASE \E s \in Services : OthersMark(s)
  BY <1>30 DEF OthersMark
<1>31. CASE UNCHANGED vars
  BY <1>31 DEF vars
<1> QED
  BY <1>1, <1>2, <1>3, <1>4, <1>5, <1>6, <1>7, <1>8, <1>9, <1>10, <1>11,
     <1>12, <1>13, <1>14, <1>15, <1>16, <1>17, <1>18, <1>19, <1>20, <1>21,
     <1>22, <1>23, <1>24, <1>25, <1>26, <1>27, <1>28, <1>29, <1>30, <1>31 DEF Next

-----------------------------------------------------------------------------
(* The verdict: it is given when all checks are done, and none is done after. *)

VerdictFits == VerdictOfAllChecks /\ VerdictIsLast /\ CutFits

LEMMA VerdictStep == TypeOK /\ SessionFits /\ VerdictFits /\ [Next]_vars => VerdictFits'
<1> SUFFICES ASSUME TypeOK, SessionFits, VerdictFits, [Next]_vars PROVE VerdictFits'
  OBVIOUS
<1> USE DEF TypeOK, VerdictFits, VerdictOfAllChecks, VerdictIsLast, CutFits, engine,
        checks, Goto, Leave, Own, Forget, Unchecked, Attempting
<1>1. CASE Begin
  BY <1>1 DEF Begin
<1>2. CASE BeginChecks
  BY <1>2 DEF BeginChecks
<1>3. CASE NothingLeft
  BY <1>3 DEF NothingLeft
<1>4. CASE Choose
  BY <1>4 DEF Choose
<1>5. CASE Open
  BY <1>5 DEF Open
<1>6. CASE OpenFails
  BY <1>6 DEF OpenFails
<1>7. CASE Enter
  BY <1>7 DEF Enter
<1>8. CASE Started
  BY <1>8 DEF Started, SessionFits
<1>9. CASE StartFails
  BY <1>9 DEF StartFails, SessionFits
<1>10. CASE SetUp
  BY <1>10 DEF SetUp, SessionFits
<1>11. CASE SetupFails
  BY <1>11 DEF SetupFails
<1>12. CASE ContainerDies
  BY <1>12 DEF ContainerDies
<1>13. CASE Close
  BY <1>13 DEF Close
<1>14. CASE CloseFails
  BY <1>14 DEF CloseFails
<1>15. CASE Call
  BY <1>15 DEF Call
<1>16. CASE Completed
  BY <1>16 DEF Completed
<1>17. CASE Fails
  BY <1>17 DEF Fails
<1>18. CASE Limited
  BY <1>18 DEF Limited
<1>19. CASE LimitedStale
  BY <1>19 DEF LimitedStale
<1>20. CASE TimedOut
  BY <1>20 DEF TimedOut
<1>21. CASE \E c \in Checks : CheckBegins(c)
  BY <1>21 DEF CheckBegins
<1>22. CASE CheckPasses \/ CheckFails \/ CheckCut
  <2>1. /\ pc = "checks" /\ pc' = "checks" /\ ending' = ending /\ container' = container
        /\ running # {} /\ running' = {} /\ cut = "none" /\ kind = "checks" /\ kind' = kind
    BY <1>22 DEF CheckPasses, CheckFails, CheckCut, CheckDone
  <2>2. CASE cut' = "none"
    BY <2>1, <2>2
  <2>3. CASE CheckCut
    <3>1. /\ container = "dead" /\ failed' = failed \cup running
          /\ cut' = "early" => ran' # Checks
      BY <2>3 DEF CheckCut
    <3>2. failed' # {}
      BY <2>1, <3>1
    <3> QED BY <2>1, <3>1, <3>2
  <2> QED BY <1>22, <2>1, <2>2, <2>3 DEF CheckPasses, CheckFails
<1>23. CASE CheckRaises
  BY <1>23 DEF CheckRaises
<1>24. CASE Verdict
  BY <1>24 DEF Verdict
<1>25. CASE Interrupt
  BY <1>25 DEF Interrupt
<1>26. CASE Exit
  BY <1>26 DEF Exit
<1>27. CASE Killed
  BY <1>27 DEF Killed
<1>28. CASE Restart
  BY <1>28 DEF Restart
<1>29. CASE \E s \in Services : Elapses(s)
  BY <1>29 DEF Elapses
<1>30. CASE \E s \in Services : OthersMark(s)
  BY <1>30 DEF OthersMark
<1>31. CASE UNCHANGED vars
  BY <1>31 DEF vars
<1> QED
  BY <1>1, <1>2, <1>3, <1>4, <1>5, <1>6, <1>7, <1>8, <1>9, <1>10, <1>11,
     <1>12, <1>13, <1>14, <1>15, <1>16, <1>17, <1>18, <1>19, <1>20, <1>21,
     <1>22, <1>23, <1>24, <1>25, <1>26, <1>27, <1>28, <1>29, <1>30, <1>31 DEF Next

-----------------------------------------------------------------------------
(* Theorems. *)

\* Whichever way a run ends, its container is gone unless the engine refused, the
\* process was killed or Ctrl-C came while the container was started, and a verdict
\* is on all checks: with the session each place of AgentRunner's runs has open.
THEOREM Invariance == Spec => []Inv
<1>1. Inv /\ [Next]_vars => Inv'
  <2> SUFFICES ASSUME Inv, [Next]_vars PROVE Inv'
    OBVIOUS
  <2>1. TypeOK' /\ SessionFits'
    BY TypeStep, SessionStep DEF Inv
  <2>2. LeavesNothing'
    BY <2>1, ClosedLeavesNothing, PTL
  <2>3. VerdictOfAllChecks' /\ VerdictIsLast' /\ CutFits'
    BY VerdictStep DEF Inv, VerdictFits
  <2>4. RotationFits'
    BY RotationStep DEF Inv
  <2> QED BY <2>1, <2>2, <2>3, <2>4 DEF Inv
<1> QED BY InitInv, <1>1, PTL DEF Spec

\* run_one_shot never calls a service again whose limit, met in this rotation, is
\* not over: the attempt left its mark, and the candidate is chosen by the marks.
THEOREM NoRepeatedCall == Spec => []NoWastedCall
<1>1. Inv => NoWastedCall
  BY DEF Inv, RotationFits, NoWastedCall
<1> QED BY Invariance, <1>1, PTL

\* No container runs, and no process in one, between the runs, between the rounds
\* of a rotation and after the process, unless there is an excuse.
THEOREM NothingIsLeft == Spec => []LeavesNothing
<1>1. Inv => LeavesNothing
  BY DEF Inv
<1> QED BY Invariance, <1>1, PTL
=============================================================================
