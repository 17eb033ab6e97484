----------------------------- MODULE RunProofs ------------------------------
(***************************************************************************)
(* Proofs about one run of the program: who holds a project's slot         *)
(* (RunSlot), and how the run comes to its exit code (RunLoop).  For every *)
(* set of runs and projects, and every configuration.                      *)
(***************************************************************************)
EXTENDS RunSlot, RunLoop, TLAPS

-----------------------------------------------------------------------------
(* RunSlot. *)

LEMMA InitIInv == Init => IInv
  BY RunsAssumption, WindowAssumption
     DEF Init, IInv, TypeOK, Labels, Outcomes, HoldsToken, HoldsMarker,
         JumpersSkipQueue, TriesLeft, ProbesOthers, ScanCovers, Others

LEMMA TypeStep == TypeOK /\ TriesLeft /\ [Next]_vars => TypeOK'
<1> SUFFICES ASSUME TypeOK, TriesLeft, [Next]_vars PROVE TypeOK'
  OBVIOUS
<1> USE RunsAssumption, WindowAssumption DEF TypeOK, Labels, Outcomes, Goto, Exit
<1>1. ASSUME NEW r \in Runs, Begin(r) PROVE TypeOK'
  BY <1>1 DEF Begin, locals, tries
<1>2. ASSUME NEW r \in Runs, Expire(r) PROVE TypeOK'
  BY <1>2 DEF Expire, locals, tries
<1>3. ASSUME NEW r \in Runs, TakeToken(r) PROVE TypeOK'
  BY <1>3 DEF TakeToken, locals, tries, Active
<1>4. ASSUME NEW r \in Runs, MissToken(r) PROVE TypeOK'
  BY <1>4 DEF MissToken, locals, tries
<1>5. ASSUME NEW r \in Runs, QueueSleep(r) PROVE TypeOK'
  BY <1>5 DEF QueueSleep, locals, tries
<1>6. ASSUME NEW r \in Runs, QueueTimeout(r) PROVE TypeOK'
  BY <1>6 DEF QueueTimeout, locals, tries
<1>7. ASSUME NEW r \in Runs, WriteRecord(r) PROVE TypeOK'
  BY <1>7 DEF WriteRecord, Others, tries
<1>8. ASSUME NEW r \in Runs, ProbeFree(r) PROVE TypeOK'
  BY <1>8 DEF ProbeFree, tries
<1>9. ASSUME NEW r \in Runs, ProbeDrop(r) PROVE TypeOK'
  BY <1>9 DEF ProbeDrop, locals, tries
<1>10. ASSUME NEW r \in Runs, ProbeLocked(r) PROVE TypeOK'
  BY <1>10 DEF ProbeLocked, tries
<1>11. ASSUME NEW r \in Runs, ScanClear(r) PROVE TypeOK'
  BY <1>11 DEF ScanClear, locals, tries
<1>12. ASSUME NEW r \in Runs, ScanAgain(r) PROVE TypeOK'
  BY <1>12 DEF ScanAgain, Others, tries
<1>13. ASSUME NEW r \in Runs, ScanTimeout(r) PROVE TypeOK'
  BY <1>13 DEF ScanTimeout, locals, tries
<1>14. ASSUME NEW r \in Runs, TakeMarker(r) PROVE TypeOK'
  BY <1>14 DEF TakeMarker, locals, tries
<1>15. ASSUME NEW r \in Runs, LoseToRun(r) PROVE TypeOK'
  <2>1. lostToRun[r] + 1 \in 0..MarkerTries
    BY <1>15 DEF LoseToRun, TriesLeft
  <2>2. pc' \in [Runs -> Labels] /\ outcome' \in [Runs -> Outcomes]
    BY <1>15 DEF LoseToRun, AfterLostTry
  <2> QED BY <1>15, <2>1, <2>2 DEF LoseToRun, locals
<1>16. ASSUME NEW r \in Runs, LoseToProbe(r) PROVE TypeOK'
  <2>1. lostToProbe[r] + 1 \in 0..SpoiledTries
    BY <1>16 DEF LoseToProbe
  <2>2. pc' \in [Runs -> Labels] /\ outcome' \in [Runs -> Outcomes]
    BY <1>16 DEF LoseToProbe, AfterLostTry
  <2> QED BY <1>16, <2>1, <2>2 DEF LoseToProbe, locals
<1>17. ASSUME NEW r \in Runs, ReleaseMarker(r) PROVE TypeOK'
  BY <1>17 DEF ReleaseMarker, locals, tries
<1>18. ASSUME NEW r \in Runs, RemoveRecord(r) PROVE TypeOK'
  BY <1>18 DEF RemoveRecord, locals, tries
<1>19. ASSUME NEW r \in Runs, CloseToken(r) PROVE TypeOK'
  BY <1>19 DEF CloseToken, locals, tries
<1>20. ASSUME NEW r \in Runs, Crash(r) PROVE TypeOK'
  BY <1>20 DEF Crash, locals, tries
<1>21. CASE UNCHANGED vars
  BY <1>21 DEF vars, locals, tries
<1> QED
  BY <1>1, <1>2, <1>3, <1>4, <1>5, <1>6, <1>7, <1>8, <1>9, <1>10, <1>11, <1>12,
     <1>13, <1>14, <1>15, <1>16, <1>17, <1>18, <1>19, <1>20, <1>21 DEF Next, Own
-----------------------------------------------------------------------------
LEMMA NextIInv == IInv /\ [Next]_vars => IInv'
<1> SUFFICES ASSUME IInv, [Next]_vars PROVE IInv'
  OBVIOUS
<1>0. TypeOK /\ TypeOK'
  BY TypeStep DEF IInv
<1> DEFINE Rest == HoldsToken /\ HoldsMarker /\ JumpersSkipQueue
                     /\ TriesLeft /\ ProbesOthers /\ ScanCovers
<1>i. Rest
  BY DEF IInv
<1> SUFFICES Rest'
  BY <1>0 DEF IInv
<1> USE RunsAssumption, WindowAssumption
    DEF Goto, Exit, HoldsToken, HoldsMarker, JumpersSkipQueue, TriesLeft,
        ProbesOthers, ScanCovers, ScanMisses, Others, locals, tries
<1>1. ASSUME NEW r \in Runs, Begin(r) PROVE Rest'
  BY <1>0, <1>i, <1>1 DEF TypeOK, Labels, Begin
<1>2. ASSUME NEW r \in Runs, Expire(r) PROVE Rest'
  BY <1>0, <1>i, <1>2 DEF TypeOK, Labels, Expire
<1>3. ASSUME NEW r \in Runs, TakeToken(r) PROVE Rest'
  BY <1>0, <1>i, <1>3 DEF TypeOK, Labels, TakeToken, Active
<1>4. ASSUME NEW r \in Runs, MissToken(r) PROVE Rest'
  BY <1>0, <1>i, <1>4 DEF TypeOK, Labels, MissToken
<1>5. ASSUME NEW r \in Runs, QueueSleep(r) PROVE Rest'
  BY <1>0, <1>i, <1>5 DEF TypeOK, Labels, QueueSleep
<1>6. ASSUME NEW r \in Runs, QueueTimeout(r) PROVE Rest'
  BY <1>0, <1>i, <1>6 DEF TypeOK, Labels, QueueTimeout
<1>7. ASSUME NEW r \in Runs, WriteRecord(r) PROVE Rest'
  BY <1>0, <1>i, <1>7 DEF TypeOK, Labels, WriteRecord
<1>8. ASSUME NEW r \in Runs, ProbeFree(r) PROVE Rest'
  BY <1>0, <1>i, <1>8 DEF TypeOK, Labels, ProbeFree
<1>9. ASSUME NEW r \in Runs, ProbeDrop(r) PROVE Rest'
  BY <1>0, <1>i, <1>9 DEF TypeOK, Labels, ProbeDrop
<1>10. ASSUME NEW r \in Runs, ProbeLocked(r) PROVE Rest'
  BY <1>0, <1>i, <1>10 DEF TypeOK, Labels, ProbeLocked
<1>11. ASSUME NEW r \in Runs, ScanClear(r) PROVE Rest'
  BY <1>0, <1>i, <1>11 DEF TypeOK, Labels, ScanClear
<1>12. ASSUME NEW r \in Runs, ScanAgain(r) PROVE Rest'
  BY <1>0, <1>i, <1>12 DEF TypeOK, Labels, ScanAgain
<1>13. ASSUME NEW r \in Runs, ScanTimeout(r) PROVE Rest'
  BY <1>0, <1>i, <1>13 DEF TypeOK, Labels, ScanTimeout
<1>14. ASSUME NEW r \in Runs, TakeMarker(r) PROVE Rest'
  BY <1>0, <1>i, <1>14 DEF TypeOK, Labels, TakeMarker
<1>15. ASSUME NEW r \in Runs, LoseToRun(r) PROVE Rest'
  <2>1. CASE lostToRun[r] + 1 + lostToProbe[r] < MarkerTries
    BY <1>0, <1>i, <1>15, <2>1 DEF TypeOK, Labels, LoseToRun, AfterLostTry
  <2>2. CASE ~(lostToRun[r] + 1 + lostToProbe[r] < MarkerTries)
    <3>1. CASE r \in Jumpers
      BY <1>0, <1>i, <1>15, <2>2, <3>1 DEF TypeOK, Labels, LoseToRun, AfterLostTry
    <3>2. CASE r \notin Jumpers
      BY <1>0, <1>i, <1>15, <2>2, <3>2 DEF TypeOK, Labels, LoseToRun, AfterLostTry
    <3> QED BY <3>1, <3>2
  <2> QED BY <2>1, <2>2
<1>16. ASSUME NEW r \in Runs, LoseToProbe(r) PROVE Rest'
  BY <1>0, <1>i, <1>16 DEF TypeOK, Labels, LoseToProbe, AfterLostTry
<1>17. ASSUME NEW r \in Runs, ReleaseMarker(r) PROVE Rest'
  BY <1>0, <1>i, <1>17 DEF TypeOK, Labels, ReleaseMarker
<1>18. ASSUME NEW r \in Runs, RemoveRecord(r) PROVE Rest'
  BY <1>0, <1>i, <1>18 DEF TypeOK, Labels, RemoveRecord
<1>19. ASSUME NEW r \in Runs, CloseToken(r) PROVE Rest'
  BY <1>0, <1>i, <1>19 DEF TypeOK, Labels, CloseToken
<1>20. ASSUME NEW r \in Runs, Crash(r) PROVE Rest'
  BY <1>0, <1>i, <1>20 DEF TypeOK, Labels, Crash
<1>21. CASE UNCHANGED vars
  BY <1>i, <1>21 DEF vars
<1> QED
  BY <1>1, <1>2, <1>3, <1>4, <1>5, <1>6, <1>7, <1>8, <1>9, <1>10, <1>11, <1>12,
     <1>13, <1>14, <1>15, <1>16, <1>17, <1>18, <1>19, <1>20, <1>21 DEF Next, Own
-----------------------------------------------------------------------------
\* The locks, program counters and scans of run_slot() always fit together.
THEOREM Invariance == Spec => []IInv
<1>1. Init => IInv
  BY InitIInv
<1>2. IInv /\ [Next]_vars => IInv'
  BY NextIInv
<1> QED BY <1>1, <1>2, PTL DEF Spec

\* Every variable of the run slot keeps its type.
THEOREM TypeCorrect == Spec => []TypeOK
<1>1. IInv => TypeOK
  BY DEF IInv
<1> QED BY <1>1, Invariance, PTL

LEMMA ExclusionFromInvariant == IInv => OneRunPerProject
  BY DEF IInv, HoldsMarker, OneRunPerProject, Active

\* Two active runs of one project would both hold its one marker.
THEOREM ProjectExclusion == Spec => []OneRunPerProject
  BY ExclusionFromInvariant, Invariance, PTL

LEMMA QueueFromInvariant == IInv => RespectsTheQueue
<1> SUFFICES ASSUME IInv, NEW r \in Active, NEW s \in Active, r \notin Jumpers, r # s
             PROVE  s \in Jumpers \ owed[r]
  BY DEF RespectsTheQueue
<1>1. r \in Runs /\ s \in Runs /\ pc[r] = "active" /\ pc[s] = "active"
  BY DEF Active
<1>2. s \in Jumpers
  BY <1>1 DEF IInv, HoldsToken
<1>3. s \notin owed[r]
  BY <1>1, ExclusionFromInvariant DEF IInv, ScanCovers, OneRunPerProject
<1> QED BY <1>2, <1>3

\* A lock-respecting run shares its time neither with another one, which would
\* hold the same token, nor with a run its scans had to wait for.
THEOREM QueueExclusion == Spec => []RespectsTheQueue
  BY QueueFromInvariant, Invariance, PTL

-----------------------------------------------------------------------------
LEMMA RecordStep ==
  IInv /\ RecordNamesHolder /\ [Next]_vars => RecordNamesHolder'
<1> SUFFICES ASSUME IInv, RecordNamesHolder, [Next]_vars PROVE RecordNamesHolder'
  OBVIOUS
<1>0. TypeOK /\ HoldsToken /\ JumpersSkipQueue
  BY DEF IInv
<1> USE RunsAssumption, <1>0
    DEF RecordNamesHolder, TypeOK, HoldsToken, JumpersSkipQueue, Goto, Exit
<1>1. ASSUME NEW r \in Runs, Begin(r) PROVE RecordNamesHolder'
  BY <1>1 DEF Begin
<1>2. ASSUME NEW r \in Runs, TakeToken(r) \/ MissToken(r) \/ QueueSleep(r) \/ QueueTimeout(r) PROVE RecordNamesHolder'
  BY <1>2 DEF TakeToken, MissToken, QueueSleep, QueueTimeout
<1>3. ASSUME NEW r \in Runs, WriteRecord(r) PROVE RecordNamesHolder'
  BY <1>3 DEF WriteRecord
<1>4. ASSUME NEW r \in Runs, ProbeFree(r) \/ ProbeDrop(r) \/ ProbeLocked(r) PROVE RecordNamesHolder'
  BY <1>4 DEF ProbeFree, ProbeDrop, ProbeLocked
<1>5. ASSUME NEW r \in Runs, ScanClear(r) \/ ScanAgain(r) \/ ScanTimeout(r) PROVE RecordNamesHolder'
  BY <1>5 DEF ScanClear, ScanAgain, ScanTimeout
<1>6. ASSUME NEW r \in Runs, TakeMarker(r) PROVE RecordNamesHolder'
  BY <1>6 DEF TakeMarker
<1>7. ASSUME NEW r \in Runs, LoseToRun(r) PROVE RecordNamesHolder'
  BY <1>7 DEF LoseToRun, AfterLostTry
<1>8. ASSUME NEW r \in Runs, LoseToProbe(r) PROVE RecordNamesHolder'
  BY <1>8 DEF LoseToProbe, AfterLostTry
<1>9. ASSUME NEW r \in Runs, ReleaseMarker(r) PROVE RecordNamesHolder'
  BY <1>9 DEF ReleaseMarker
<1>10. ASSUME NEW r \in Runs, RemoveRecord(r) PROVE RecordNamesHolder'
  BY <1>10 DEF RemoveRecord
<1>11. ASSUME NEW r \in Runs, CloseToken(r) PROVE RecordNamesHolder'
  BY <1>11 DEF CloseToken
<1>12. ASSUME NEW r \in Runs, Crash(r) PROVE RecordNamesHolder'
  BY <1>12 DEF Crash
<1>13. ASSUME NEW r \in Runs, Expire(r) PROVE RecordNamesHolder'
  BY <1>13 DEF Expire
<1>14. CASE UNCHANGED vars
  BY <1>14 DEF vars
<1> QED
  BY <1>1, <1>2, <1>3, <1>4, <1>5, <1>6, <1>7, <1>8, <1>9, <1>10, <1>11, <1>12,
     <1>13, <1>14 DEF Next, Own

\* A waiting run that reads the record learns who holds the token now: a live
\* run it names holds the token, and the holder is named while it has a slot.
THEOREM RecordIsTrue == Spec => []RecordNamesHolder
<1>1. Init => RecordNamesHolder
  BY DEF Init, RecordNamesHolder
<1>2. IInv /\ RecordNamesHolder /\ [Next]_vars => RecordNamesHolder'
  BY RecordStep
<1> QED BY <1>1, <1>2, Invariance, PTL DEF Spec

-----------------------------------------------------------------------------
LEMMA AbortStep ==
  IInv /\ AbortsOnlyOnOverlap /\ [Next]_vars => AbortsOnlyOnOverlap'
<1> SUFFICES ASSUME IInv, AbortsOnlyOnOverlap, [Next]_vars PROVE AbortsOnlyOnOverlap'
  OBVIOUS
<1>0. TypeOK
  BY DEF IInv
<1> USE WindowAssumption, <1>0 DEF AbortsOnlyOnOverlap, TypeOK, Goto, Exit, tries
<1>1. ASSUME NEW r \in Runs, LoseToRun(r) PROVE AbortsOnlyOnOverlap'
  BY <1>1 DEF LoseToRun, AfterLostTry
<1>2. ASSUME NEW r \in Runs, LoseToProbe(r) PROVE AbortsOnlyOnOverlap'
  \* The probes alone cannot use up the window.
  <2>1. lostToProbe[r] + 1 < MarkerTries \/ lostToProbe[r] + 1 <= SpoiledTries
    BY <1>2 DEF LoseToProbe
  <2>2. lostToRun[r] + lostToProbe[r] + 1 >= MarkerTries => lostToRun[r] > 0
    BY <2>1
  <2> QED BY <1>2, <2>2 DEF LoseToProbe, AfterLostTry
<1>3. ASSUME NEW r \in Runs, QueueTimeout(r) \/ ScanTimeout(r) \/ ReleaseMarker(r) \/ Crash(r)
      PROVE AbortsOnlyOnOverlap'
  BY <1>3 DEF QueueTimeout, ScanTimeout, ReleaseMarker, Crash
<1>4. ASSUME NEW r \in Runs, Own(r) PROVE AbortsOnlyOnOverlap'
  BY <1>1, <1>2, <1>3, <1>4
     DEF Own, TakeToken, MissToken, QueueSleep, WriteRecord, ProbeFree, ProbeDrop,
         ProbeLocked, ScanClear, ScanAgain, TakeMarker, RemoveRecord, CloseToken
<1>5. ASSUME NEW r \in Runs, Begin(r) \/ Expire(r) PROVE AbortsOnlyOnOverlap'
  BY <1>5 DEF Begin, Expire
<1>6. CASE UNCHANGED vars
  BY <1>6 DEF vars
<1> QED BY <1>3, <1>4, <1>5, <1>6 DEF Next

\* A run that reports its project as already running met a run of it: the
\* retry window is longer than what the probes of a scan can spoil.
THEOREM AbortIsDeserved == Spec => []AbortsOnlyOnOverlap
<1>1. Init => AbortsOnlyOnOverlap
  BY DEF Init, AbortsOnlyOnOverlap
<1>2. IInv /\ AbortsOnlyOnOverlap /\ [Next]_vars => AbortsOnlyOnOverlap'
  BY AbortStep
<1> QED BY <1>1, <1>2, Invariance, PTL DEF Spec

\* A queued run holds no lock, and a run after its own marker no other marker.
THEOREM NoHoldAndWait == Spec => []WaitsHoldNothing
<1>1. IInv => WaitsHoldNothing
  BY RunsAssumption DEF IInv, HoldsToken, HoldsMarker, WaitsHoldNothing
<1> QED BY <1>1, Invariance, PTL

-----------------------------------------------------------------------------
LEMMA StepImplements == IInv /\ [Next]_vars => [Exclusion!Next]_(Exclusion!vars)
<1> SUFFICES ASSUME IInv, [Next]_vars PROVE [Exclusion!Next]_(Exclusion!vars)
  OBVIOUS
<1>0. TypeOK /\ HoldsToken /\ HoldsMarker /\ ScanCovers
  BY DEF IInv
<1> USE RunsAssumption, <1>0
    DEF TypeOK, Goto, Exit, Active, Exclusion!vars
<1>1. ASSUME NEW r \in Runs, TakeToken(r) PROVE Exclusion!GetTurn(r)
  <2>1. Active' = Active
    BY <1>1 DEF TakeToken
  <2>2. r \notin Jumpers
    BY <1>1 DEF TakeToken, IInv, JumpersSkipQueue
  <2> QED BY <1>1, <2>1, <2>2 DEF TakeToken, Exclusion!GetTurn
<1>2. ASSUME NEW r \in Runs, TakeMarker(r) PROVE Exclusion!Start(r)
  <2>1. \A s \in Active : ProjectOf[s] # ProjectOf[r]
    BY <1>2 DEF TakeMarker, HoldsMarker
  <2>2. r \notin Jumpers => token = r /\ owed[r] \cap Active = {}
    BY <1>2, <2>1 DEF TakeMarker, HoldsToken, ScanCovers
  <2>3. Active' = Active \cup {r}
    BY <1>2 DEF TakeMarker
  <2> QED BY <1>2, <2>1, <2>2, <2>3 DEF TakeMarker, Exclusion!Start, Exclusion!SameProject
<1>3. ASSUME NEW r \in Runs, ReleaseMarker(r) PROVE Exclusion!End(r)
  BY <1>3 DEF ReleaseMarker, Exclusion!End
<1>4. ASSUME NEW r \in Runs, CloseToken(r) PROVE Exclusion!GiveUpTurn(r)
  BY <1>4 DEF CloseToken, HoldsToken, Exclusion!GiveUpTurn
<1>5. ASSUME NEW r \in Runs, Crash(r) PROVE Exclusion!Die(r)
  BY <1>5 DEF Crash, Exclusion!Die
<1>6. ASSUME NEW r \in Runs, LoseToRun(r) \/ LoseToProbe(r) PROVE UNCHANGED Exclusion!vars
  BY <1>6 DEF LoseToRun, LoseToProbe, AfterLostTry
<1>7. ASSUME NEW r \in Runs, Begin(r) \/ Expire(r) PROVE UNCHANGED Exclusion!vars
  BY <1>7 DEF Begin, Expire
<1>8. ASSUME NEW r \in Runs,
             MissToken(r) \/ QueueSleep(r) \/ QueueTimeout(r) \/ WriteRecord(r) \/ RemoveRecord(r)
      PROVE UNCHANGED Exclusion!vars
  BY <1>8 DEF MissToken, QueueSleep, QueueTimeout, WriteRecord, RemoveRecord
<1>9. ASSUME NEW r \in Runs,
             ProbeFree(r) \/ ProbeDrop(r) \/ ProbeLocked(r)
               \/ ScanClear(r) \/ ScanAgain(r) \/ ScanTimeout(r)
      PROVE UNCHANGED Exclusion!vars
  BY <1>9 DEF ProbeFree, ProbeDrop, ProbeLocked, ScanClear, ScanAgain, ScanTimeout
<1>10. CASE UNCHANGED vars
  BY <1>10 DEF vars
<1> QED
  BY <1>1, <1>2, <1>3, <1>4, <1>5, <1>6, <1>7, <1>8, <1>9, <1>10
     DEF Next, Own, Exclusion!Next

\* The locks, probes and retries implement the exclusion the slot promises.
THEOREM Refinement == Spec => Implements
<1>1. Init => Exclusion!Init
  BY DEF Init, Exclusion!Init, Active
<1>2. IInv /\ [Next]_vars => [Exclusion!Next]_(Exclusion!vars)
  BY StepImplements
<1> QED BY <1>1, <1>2, Invariance, PTL DEF Spec, Implements, Exclusion!Spec

-----------------------------------------------------------------------------
(* RunLoop. *)

(* Titles and reports. *)

\* What follows the prefix of a title.
LEMMA TitleType ==
  \A f \in Home \cup Upstream : \A d \in Details(f) : <<f, d>> \in Titles
  BY DEF Titles

\* A plain prefix is followed by nothing.
LEMMA PlainTitle ==
  \A f \in (Home \cup Upstream) \ {"git", "close"} : <<f, "-">> \in Titles
  BY TitleType DEF Details, Home, Upstream

LEMMA NoJobType == NoJob \in Jobs
  BY PlainTitle DEF NoJob, Jobs, Upstream

LEMMA NoCheckType ==
  /\ NoCheck \in Hosts
  /\ [NoCheck EXCEPT !.todo = Checks] \in Hosts
  BY DEF NoCheck, Hosts

LEMMA SameReportType == \A t \in Titles : SameReport(t) \subseteq Titles
  BY DEF SameReport

\* Filing begins at a step of the filing, with a report that was not looked for.
LEMMA FileType ==
  ASSUME NEW f \in Home, NEW d \in Details(f),
         NEW then \in {"exit", "limit", "work", "close"}, File(f, d, then)
  PROVE  /\ job' \in Jobs /\ job'.then = then
         /\ at' \in {"lookup", "search"}
  BY TitleType DEF File, GoTo, Jobs

LEMMA AutoFileType ==
  ASSUME NEW f \in Upstream,
         NEW then \in {"exit", "limit", "work", "close"}, AutoFile(f, then)
  PROVE  /\ job' \in Jobs /\ job'.then = then
         /\ at' = "gate_file"
  BY PlainTitle DEF AutoFile, GoTo, Jobs, Upstream

\* What a search missed is open, and of the kind of the report.
LEMMA OpenAlikeType == job \in Jobs => OpenAlike \subseteq Titles
  BY SameReportType DEF OpenAlike, Jobs

LEMMA GoOnType ==
  ASSUME LoopTypeOK,
         GoOnWithout(OpenAlike) \/ GoOnWithout(OpenAlike \ listed)
  PROVE  /\ job' \in Jobs /\ job'.title = job.title /\ job'.then = job.then
         /\ at' = "create" /\ UNCHANGED <<world, run>>
<1>1. job \in Jobs /\ OpenAlike \subseteq Titles /\ OpenAlike \ listed \subseteq Titles
  BY OpenAlikeType DEF LoopTypeOK
<1> QED
  BY <1>1 DEF GoOnWithout, GoTo, Jobs

\* After it the run goes on where the report came from.
LEMMA ResumeType ==
  ASSUME LoopTypeOK, Resume(TRUE) \/ Resume(FALSE)
  PROVE  /\ job' \in Jobs
         /\ at' \in {"failing", "work", "limit"}
         /\ at' = "failing" <=> job.then = "exit"
         /\ closeFailed' \in BOOLEAN
         /\ UNCHANGED <<host, cfg, listed, branch, held, worktree>>
         /\ UNCHANGED <<iteration, left, filedRaw, failed, exit, starts>>
<1>1. job.then \in {"exit", "limit", "work", "close"} /\ closeFailed \in BOOLEAN
  BY DEF LoopTypeOK, Jobs
<1>2. CASE Resume(TRUE)
  BY <1>1, <1>2, NoJobType DEF Resume, GoTo
<1>3. CASE Resume(FALSE)
  BY <1>1, <1>3, NoJobType DEF Resume, GoTo
<1> QED
  BY <1>2, <1>3

-----------------------------------------------------------------------------
LEMMA LoopTypeInit == LoopInit => LoopTypeOK
<1> SUFFICES ASSUME LoopInit PROVE LoopTypeOK
  OBVIOUS
<1>1. /\ cfg \in Configs /\ posted \in [Titles -> Nat] /\ listed \subseteq Titles
      /\ host \in Hosts /\ job \in Jobs
  BY NoJobType, NoCheckType DEF LoopInit
<1>2. branch \in [here : Tips, origin : Tips, fetched : Tips]
  BY DEF LoopInit, Tips
<1>3. at \in LoopSteps
  BY DEF LoopInit, LoopSteps
<1>4. iteration \in 0..MaxIterations /\ starts \in 0..MaxStarts
  BY BoundsAssumption DEF LoopInit
<1> QED
  BY <1>1, <1>2, <1>3, <1>4 DEF LoopInit, LoopTypeOK

\* A host check leaves its worktree, its files, or nothing.
LEMMA LeaveWithType ==
  ASSUME LoopTypeOK, NEW code \in {0, 1}, NEW now \in {"none", "rubble", "kept"},
         LeaveWith(code, now)
  PROVE  /\ LoopTypeOK'
         /\ at' = "off" /\ exit' = code /\ host'.sandbox = now
         /\ host'.todo = host.todo /\ host'.failing = host.failing /\ host'.told = host.told
         /\ UNCHANGED <<posted, failed, job>>
<1>1. host' = [host EXCEPT !.sandbox = now] /\ host \in Hosts
  BY DEF LeaveWith, Sandbox, LoopTypeOK
<1>2. host' \in Hosts
  BY <1>1 DEF Hosts
<1>3. at' \in LoopSteps
  BY DEF LeaveWith, GoTo, LoopSteps
<1> QED
  BY <1>1, <1>2, <1>3 DEF LeaveWith, Sandbox, GoTo, LoopTypeOK, Hosts

LEMMA LeaveType ==
  ASSUME LoopTypeOK, NEW code \in {0, 1}, Leave(code)
  PROVE  /\ LoopTypeOK'
         /\ at' = "off" /\ exit' \in {code, 1}
         /\ exit' = 0 => host'.sandbox \in {"none", "rubble"}
         /\ host'.todo = host.todo /\ host'.failing = host.failing /\ host'.told = host.told
         /\ UNCHANGED <<posted, failed, job>>
  BY LeaveWithType DEF Leave

LEMMA NewProcessType ==
  ASSUME LoopTypeOK, NewProcess, at' \in LoopSteps, host' \in Hosts PROVE LoopTypeOK'
<1>1. iteration' \in 0..MaxIterations /\ starts' \in 0..MaxStarts
  BY BoundsAssumption DEF NewProcess, LoopTypeOK
<1> QED
  BY <1>1 DEF NewProcess, LoopTypeOK

LEMMA LoopTypeStep == LoopTypeOK /\ [LoopNext]_loopVars => LoopTypeOK'
<1> SUFFICES ASSUME LoopTypeOK, [LoopNext]_loopVars PROVE LoopTypeOK'
  OBVIOUS
<1> USE DEF LoopTypeOK, world, run, LoopSteps, RunSteps, Filing, CheckSteps
<1>1. ASSUME Start PROVE LoopTypeOK'
  BY <1>1, NewProcessType, NoCheckType DEF Start, GoTo
<1>2. ASSUME StartCheck PROVE LoopTypeOK'
  BY <1>2, NewProcessType, NoCheckType DEF StartCheck, GoTo
<1>3. ASSUME Validated PROVE LoopTypeOK'
  BY <1>3 DEF Validated, GoTo, Stay
<1>4. ASSUME Refused PROVE LoopTypeOK'
  BY <1>4 DEF Refused, End, GoTo
<1>5. ASSUME BuildImage PROVE LoopTypeOK'
  BY <1>5 DEF BuildImage, GoTo, Stay, End
<1>6. ASSUME Identify PROVE LoopTypeOK'
  BY <1>6 DEF Identify, GoTo, Stay, End
<1>7. ASSUME Authenticate PROVE LoopTypeOK'
  BY <1>7, AutoFileType DEF Authenticate, GoTo, Stay, End, ReportCrash, Upstream
<1>8. ASSUME CollectFacts PROVE LoopTypeOK'
  BY <1>8 DEF CollectFacts, GoTo, Stay, End
<1>9. ASSUME FetchOrigin PROVE LoopTypeOK'
  BY <1>9, AutoFileType DEF FetchOrigin, GoTo, ReportCrash, Upstream, Tips
<1>10. ASSUME Seed PROVE LoopTypeOK'
  BY <1>10, AutoFileType DEF Seed, GoTo, ReportCrash, Upstream, Tips
<1>11. ASSUME PushUpstream PROVE LoopTypeOK'
  <2>1. CASE ReportCrash
    BY <2>1, AutoFileType DEF ReportCrash, Upstream
  <2>2. ASSUME ~ReportCrash PROVE LoopTypeOK'
    <3>1. branch' = [branch EXCEPT !.origin = "seed", !.fetched = "seed"]
      BY <1>11, <2>2 DEF PushUpstream
    <3>2. branch' \in [here : Tips, origin : Tips, fetched : Tips]
      BY <3>1 DEF Tips
    <3> QED
      BY <1>11, <2>2, <3>2 DEF PushUpstream, GoTo
  <2> QED
    BY <2>1, <2>2
<1>12. ASSUME WaitForRelease PROVE LoopTypeOK'
  BY <1>12 DEF WaitForRelease, GoTo, Stay
<1>13. ASSUME BeginIteration PROVE LoopTypeOK'
  <2>1. iteration' \in 0..MaxIterations
    BY <1>13, BoundsAssumption DEF BeginIteration
  <2>2. left' \subseteq Issues \cup {"drafts"}
    BY <1>13 DEF BeginIteration
  <2> QED
    BY <1>13, <2>1, <2>2 DEF BeginIteration, GoTo
<1>14. ASSUME AllIterationsDone PROVE LoopTypeOK'
  BY <1>14 DEF AllIterationsDone, End, GoTo
<1>15. ASSUME Continue PROVE LoopTypeOK'
  BY <1>15 DEF Continue, GoTo, Stay
<1>16. ASSUME Interrupt PROVE LoopTypeOK'
  BY <1>16 DEF Interrupt, GoTo, Stay
<1>17. ASSUME NothingLeft PROVE LoopTypeOK'
  BY <1>17 DEF NothingLeft, End, GoTo
<1>18. ASSUME BreakAfterCloseFailure PROVE LoopTypeOK'
  BY <1>18 DEF BreakAfterCloseFailure, End, GoTo
<1>19. ASSUME NeedsHuman PROVE LoopTypeOK'
  BY <1>19 DEF NeedsHuman, GoTo, Fail
<1>20. ASSUME RepositoryFails PROVE LoopTypeOK'
  <2>1. CASE AutoFile("crash", "exit")
    <3>1. job' \in Jobs /\ at' \in LoopSteps
      BY <2>1, AutoFileType DEF Upstream
    <3> QED
      BY <1>20, <3>1, ZenonT(60) DEF RepositoryFails, Fail
  <2>2. ASSUME ~AutoFile("crash", "exit") PROVE LoopTypeOK'
    BY <1>20, <2>2, ZenonT(60) DEF RepositoryFails, GoTo, Fail
  <2> QED
    BY <2>1, <2>2
<1>21. ASSUME LimitKnown PROVE LoopTypeOK'
  BY <1>21 DEF LimitKnown, GoTo, Stay
<1>22. ASSUME SetupFails PROVE LoopTypeOK'
  BY <1>22, AutoFileType DEF SetupFails, Fail, Upstream
<1>23. ASSUME HardError PROVE LoopTypeOK'
  BY <1>23, AutoFileType DEF HardError, Fail, Upstream
<1>24. ASSUME CredentialFails PROVE LoopTypeOK'
  BY <1>24, FileType DEF CredentialFails, Fail, Home, Details
<1>25. ASSUME AgentFails PROVE LoopTypeOK'
  BY <1>25 DEF AgentFails, GoTo, Fail
<1>26. ASSUME ExitFailure PROVE LoopTypeOK'
  BY <1>26 DEF ExitFailure, End, GoTo
<1>27. ASSUME RouteLimit PROVE LoopTypeOK'
  BY <1>27 DEF RouteLimit, GoTo, Stay, End
<1>28. ASSUME WakeUp PROVE LoopTypeOK'
  BY <1>28 DEF WakeUp, GoTo, Stay
<1>29. ASSUME DraftsUnrepairable PROVE LoopTypeOK'
  BY <1>29, FileType DEF DraftsUnrepairable, Home, Details
<1>30. ASSUME NEW i \in Issues, CloseFails(i) PROVE LoopTypeOK'
  BY <1>30, FileType DEF CloseFails, Home, Details
<1>31. ASSUME NEW m \in RawMessages, LimitUnparsed(m) PROVE LoopTypeOK'
  BY <1>31, AutoFileType DEF LimitUnparsed, Upstream
<1>32. ASSUME NEW op \in Details("git"), RemoteFails(op) PROVE LoopTypeOK'
  BY <1>32, FileType DEF RemoteFails, Fail, Home, Details
<1>33. ASSUME Diagnosed PROVE LoopTypeOK'
  BY <1>33, PlainTitle DEF Diagnosed, GoTo, Home
<1>34. ASSUME ReporterCrashes PROVE LoopTypeOK'
  BY <1>34 DEF ReporterCrashes, GoTo, Stay
<1>35. ASSUME ReporterCredential PROVE LoopTypeOK'
  <2>1. CASE ReportCrash
    BY <2>1, AutoFileType DEF ReportCrash, Upstream
  <2>2. ASSUME ~ReportCrash PROVE LoopTypeOK'
    <3>1. File("credential", "-", "exit") /\ UNCHANGED <<world, run>>
      BY <1>35, <2>2 DEF ReporterCredential
    <3> QED
      BY <3>1, FileType DEF Home, Details
  <2> QED
    BY <2>1, <2>2
<1>36. ASSUME ReporterEscapes PROVE LoopTypeOK'
  BY <1>36, AutoFileType DEF ReporterEscapes, ReportCrash, Upstream
<1>37. ASSUME GateShut PROVE LoopTypeOK'
  BY <1>37, ResumeType DEF GateShut, Jobs
<1>38. ASSUME GateOpen PROVE LoopTypeOK'
  BY <1>38 DEF GateOpen, GoTo, Stay
<1>39. ASSUME LookUp PROVE LoopTypeOK'
  <2>1. CASE Reuse
    BY <2>1, ResumeType DEF Reuse
  <2>2. CASE ~Reuse
    BY <1>39, <2>2, ZenonT(60) DEF LookUp, GoTo, Stay
  <2> QED
    BY <2>1, <2>2
<1>40. ASSUME LookUpFails PROVE LoopTypeOK'
  <2>1. CASE ReportCrash
    BY <2>1, AutoFileType DEF ReportCrash, Upstream
  <2>2. CASE ~ReportCrash
    <3>1. at' \in {"search", "failing"} /\ job' \in {job, NoJob} /\ UNCHANGED <<world, run>>
      BY <1>40, <2>2 DEF LookUpFails, GoTo, Stay
    <3> QED
      BY <3>1, NoJobType
  <2> QED
    BY <2>1, <2>2
<1>41. ASSUME Search PROVE LoopTypeOK'
  <2>1. CASE Reuse
    BY <2>1, ResumeType DEF Reuse
  <2>2. CASE ~Reuse
    BY <1>41, <2>2, GoOnType DEF Search
  <2> QED
    BY <2>1, <2>2
<1>42. ASSUME SearchFails PROVE LoopTypeOK'
  BY <1>42, GoOnType DEF SearchFails
<1>43. ASSUME Create PROVE LoopTypeOK'
  BY <1>43, ResumeType DEF Create, Jobs
<1>44. ASSUME CreateFails PROVE LoopTypeOK'
  BY <1>44, ResumeType DEF CreateFails,
         Jobs
<1>45. ASSUME Refresh PROVE LoopTypeOK'
  BY <1>45 DEF Refresh, GoTo, Stay, End
<1>46. ASSUME CleanTree PROVE LoopTypeOK'
  BY <1>46 DEF CleanTree, GoTo, Stay, End
<1>47. ASSUME OpenSandbox PROVE LoopTypeOK'
  BY <1>47 DEF OpenSandbox, GoTo, Sandbox, End, Hosts
<1>48. ASSUME CheckBreaks PROVE LoopTypeOK'
  <2>1. CASE LeaveWith(1, "kept")
    BY <2>1, LeaveWithType
  <2>2. ASSUME NEW now \in {"none", "rubble"},
               Sandbox(now), AutoFile("crash", "exit"), UNCHANGED run
        PROVE  LoopTypeOK'
    BY <2>2, AutoFileType DEF Sandbox, Upstream, Hosts
  <2> QED
    BY <1>48, <2>1, <2>2 DEF CheckBreaks
<1>49. ASSUME AllChecked PROVE LoopTypeOK'
  <2>1. CASE Leave(0)
    BY <2>1, LeaveType
  <2>2. CASE ~Leave(0)
    <3>1. at' = "tell" /\ UNCHANGED <<world, run, job>>
      BY <1>49, <2>2 DEF AllChecked, GoTo, Stay
    <3> QED
      BY <3>1
  <2> QED
    BY <2>1, <2>2
<1>50. ASSUME NoTeller PROVE LoopTypeOK'
  BY <1>50, LeaveType DEF NoTeller
<1>51. ASSUME TellerFails PROVE LoopTypeOK'
  BY <1>51, LeaveType DEF TellerFails
<1>52. ASSUME AllTold PROVE LoopTypeOK'
  BY <1>52, LeaveType DEF AllTold
<1>53. ASSUME NEW c \in Checks, NEW ok \in BOOLEAN, RunCheck(c, ok) PROVE LoopTypeOK'
  <2>1. host' \in Hosts
    <3>1. /\ host.todo \ {c} \in SUBSET Checks /\ host.failing \in SUBSET Checks
          /\ host.failing \cup {c} \in SUBSET Checks
      BY DEF Hosts
    <3>2. CASE ok
      BY <1>53, <3>1, <3>2 DEF RunCheck, Hosts
    <3>3. CASE ~ok
      BY <1>53, <3>1, <3>3 DEF RunCheck, Hosts
    <3> QED
      BY <3>2, <3>3
  <2> QED
    BY <1>53, <2>1 DEF RunCheck
<1>54. ASSUME NEW c \in Checks, TellOf(c) PROVE LoopTypeOK'
  BY <1>54 DEF TellOf, Hosts
<1>55. ASSUME NEW c \in Checks, TellsBadly(c) PROVE LoopTypeOK'
  <2>1. host.told \cup {c} \in SUBSET Checks
    BY DEF Hosts
  <2>2. host' \in Hosts
    <3>1. PICK now \in {"none", "rubble", "kept"} :
            host' = [host EXCEPT !.told = @ \cup {c}, !.sandbox = now]
      BY <1>55 DEF TellsBadly
    <3> QED
      BY <2>1, <3>1 DEF Hosts
  <2> QED
    BY <1>55, <2>2 DEF TellsBadly, GoTo
<1>56. ASSUME Killed PROVE LoopTypeOK'
  BY <1>56, NoJobType DEF Killed, Upstream
<1>57. ASSUME CheckOut PROVE LoopTypeOK'
  BY <1>57 DEF CheckOut
<1>58. ASSUME Release PROVE LoopTypeOK'
  <2> HIDE DEF LoopSteps
  <2> QED
    BY <1>58 DEF Release
<1>59. ASSUME RemoveWorktree PROVE LoopTypeOK'
  BY <1>59 DEF RemoveWorktree
<1>60. ASSUME OtherPushes PROVE LoopTypeOK'
  BY <1>60 DEF OtherPushes, Tips
<1>61. ASSUME NEW t \in Titles, Triage(t) PROVE LoopTypeOK'
  BY <1>61 DEF Triage
<1>63. ASSUME NEW t \in Titles, Indexed(t) PROVE LoopTypeOK'
  BY <1>63 DEF Indexed
<1>62. CASE UNCHANGED loopVars
  BY <1>62 DEF loopVars
<1> QED
  BY <1>1, <1>2, <1>3, <1>4, <1>5, <1>6, <1>7, <1>8, <1>9, <1>10, <1>11, <1>12,
     <1>13, <1>14, <1>15, <1>16, <1>17, <1>18, <1>19, <1>20, <1>21, <1>22,
     <1>23, <1>24, <1>25, <1>26, <1>27, <1>28, <1>29, <1>30, <1>31, <1>32,
     <1>33, <1>34, <1>35, <1>36, <1>37, <1>38, <1>39, <1>40, <1>41, <1>42,
     <1>43, <1>44, <1>45, <1>46, <1>47, <1>48, <1>49, <1>50, <1>51, <1>52,
     <1>53, <1>54, <1>55, <1>56, <1>57, <1>58, <1>59, <1>60, <1>61, <1>62,
     <1>63
     DEF LoopNext, Step, StartUp, Iterate, Report, HostCheck, Environment

-----------------------------------------------------------------------------
LEMMA InitLoopInv == LoopInit => LoopInv
<1> SUFFICES ASSUME LoopInit PROVE LoopInv
  OBVIOUS
<1>1. LoopTypeOK
  BY LoopTypeInit
<1>2. ChecksAreTold /\ SearchedFirst /\ FailureLeadsOut /\ ChecksStayApart
  BY DEF LoopInit, NoCheck, ChecksAreTold, SearchedFirst, FailureLeadsOut,
         ChecksStayApart, RunSteps, Filing
<1> QED
  BY <1>1, <1>2 DEF LoopInv

LEMMA LoopInvStep == LoopInv /\ [LoopNext]_loopVars => LoopInv'
<1> DEFINE Rest == ChecksAreTold /\ SearchedFirst /\ FailureLeadsOut /\ ChecksStayApart
<1> SUFFICES ASSUME LoopTypeOK, Rest, LoopTypeOK', [LoopNext]_loopVars PROVE Rest'
  BY LoopTypeStep DEF LoopInv
<1> USE DEF ChecksAreTold, SearchedFirst, FailureLeadsOut, ChecksStayApart, RunSteps,
            Filing, world, run
<1>1. ASSUME Start PROVE Rest'
  BY <1>1 DEF Start, NewProcess, GoTo, NoCheck
<1>2. ASSUME StartCheck PROVE Rest'
  BY <1>2 DEF StartCheck, NewProcess, GoTo, NoCheck
<1>3. ASSUME Validated PROVE Rest'
  BY <1>3 DEF Validated, GoTo, Stay
<1>4. ASSUME Refused PROVE Rest'
  BY <1>4 DEF Refused, End, GoTo
<1>5. ASSUME BuildImage PROVE Rest'
  BY <1>5 DEF BuildImage, GoTo, Stay, End
<1>6. ASSUME Identify PROVE Rest'
  BY <1>6 DEF Identify, GoTo, Stay, End
<1>7. ASSUME Authenticate PROVE Rest'
  BY <1>7, AutoFileType DEF Authenticate, GoTo, Stay, End, ReportCrash, Upstream
<1>8. ASSUME CollectFacts PROVE Rest'
  BY <1>8 DEF CollectFacts, GoTo, Stay, End
<1>9. ASSUME FetchOrigin PROVE Rest'
  BY <1>9, AutoFileType DEF FetchOrigin, GoTo, ReportCrash, Upstream
<1>10. ASSUME Seed PROVE Rest'
  BY <1>10, AutoFileType DEF Seed, GoTo, ReportCrash, Upstream
<1>11. ASSUME PushUpstream PROVE Rest'
  BY <1>11, AutoFileType DEF PushUpstream, GoTo, ReportCrash, Upstream
<1>12. ASSUME WaitForRelease PROVE Rest'
  BY <1>12 DEF WaitForRelease, GoTo, Stay
<1>13. ASSUME BeginIteration PROVE Rest'
  BY <1>13 DEF BeginIteration, GoTo
<1>14. ASSUME AllIterationsDone PROVE Rest'
  BY <1>14 DEF AllIterationsDone, End, GoTo, NoCheck
<1>15. ASSUME Continue PROVE Rest'
  BY <1>15 DEF Continue, GoTo, Stay
<1>16. ASSUME Interrupt PROVE Rest'
  BY <1>16 DEF Interrupt, GoTo, Stay
<1>17. ASSUME NothingLeft PROVE Rest'
  BY <1>17 DEF NothingLeft, End, GoTo, NoCheck
<1>18. ASSUME BreakAfterCloseFailure PROVE Rest'
  BY <1>18 DEF BreakAfterCloseFailure, End, GoTo, NoCheck
<1>19. ASSUME NeedsHuman PROVE Rest'
  BY <1>19 DEF NeedsHuman, GoTo, Fail
<1>20. ASSUME RepositoryFails PROVE Rest'
  BY <1>20, AutoFileType DEF RepositoryFails, GoTo, Fail, Upstream
<1>21. ASSUME LimitKnown PROVE Rest'
  BY <1>21 DEF LimitKnown, GoTo, Stay
<1>22. ASSUME SetupFails PROVE Rest'
  BY <1>22, AutoFileType DEF SetupFails, Fail, Upstream
<1>23. ASSUME HardError PROVE Rest'
  BY <1>23, AutoFileType DEF HardError, Fail, Upstream
<1>24. ASSUME CredentialFails PROVE Rest'
  BY <1>24, FileType DEF CredentialFails, Fail, Home, Details
<1>25. ASSUME AgentFails PROVE Rest'
  BY <1>25 DEF AgentFails, GoTo, Fail
<1>26. ASSUME ExitFailure PROVE Rest'
  BY <1>26 DEF ExitFailure, End, GoTo
<1>27. ASSUME RouteLimit PROVE Rest'
  BY <1>27 DEF RouteLimit, GoTo, Stay, End, NoCheck
<1>28. ASSUME WakeUp PROVE Rest'
  BY <1>28 DEF WakeUp, GoTo, Stay
<1>29. ASSUME DraftsUnrepairable PROVE Rest'
  BY <1>29, FileType DEF DraftsUnrepairable, Home, Details
<1>30. ASSUME NEW i \in Issues, CloseFails(i) PROVE Rest'
  BY <1>30, FileType DEF CloseFails, Home, Details
<1>31. ASSUME NEW m \in RawMessages, LimitUnparsed(m) PROVE Rest'
  BY <1>31, AutoFileType DEF LimitUnparsed, Upstream
<1>32. ASSUME NEW op \in Details("git"), RemoteFails(op) PROVE Rest'
  BY <1>32, FileType DEF RemoteFails, Fail, Home, Details
<1>33. ASSUME Diagnosed PROVE Rest'
  BY <1>33 DEF Diagnosed, GoTo, Home
<1>34. ASSUME ReporterCrashes PROVE Rest'
  BY <1>34 DEF ReporterCrashes, GoTo, Stay
<1>35. ASSUME ReporterCredential PROVE Rest'
  BY <1>35, FileType, AutoFileType DEF ReporterCredential, ReportCrash, Upstream,
         Home, Details
<1>36. ASSUME ReporterEscapes PROVE Rest'
  BY <1>36, AutoFileType DEF ReporterEscapes, ReportCrash, Upstream
<1>37. ASSUME GateShut PROVE Rest'
  BY <1>37, ResumeType DEF GateShut
<1>38. ASSUME GateOpen PROVE Rest'
  BY <1>38 DEF GateOpen, GoTo, Stay
<1>39. ASSUME LookUp PROVE Rest'
  <2>1. CASE Reuse
    BY <1>39, <2>1, ResumeType DEF LookUp, Reuse
  <2>2. CASE ~Reuse
    <3>1. at' = "search" /\ UNCHANGED <<world, run, job>> /\ at = "lookup"
      BY <1>39, <2>2 DEF LookUp, GoTo, Stay
    <3> QED
      BY <3>1
  <2> QED
    BY <2>1, <2>2
<1>40. ASSUME LookUpFails PROVE Rest'
  <2>1. CASE ReportCrash
    BY <1>40, <2>1, AutoFileType DEF LookUpFails, ReportCrash, Upstream
  <2>2. CASE ~ReportCrash
    <3>1. /\ at = "lookup" /\ UNCHANGED <<world, run>>
          /\ (at' = "search" /\ job' = job) \/ at' = "failing"
      BY <1>40, <2>2 DEF LookUpFails, GoTo, Stay
    <3> QED
      BY <3>1
  <2> QED
    BY <2>1, <2>2
<1>41. ASSUME Search PROVE Rest'
  <2>1. CASE Reuse
    BY <1>41, <2>1, ResumeType DEF Search, Reuse
  <2>2. CASE ~Reuse
    <3>1. ~Found /\ GoOnWithout(OpenAlike \ listed) /\ at = "search"
      BY <1>41, <2>2 DEF Search
    <3>2. OpenAlike \subseteq OpenAlike \ listed
      BY <3>1 DEF Found, OpenAlike
    <3>3. SearchedFirst'
      BY <3>1, <3>2, GoOnType DEF GoOnWithout, OpenAlike, LoopTypeOK, Jobs
    <3> QED
      BY <3>1, <3>3, GoOnType
  <2> QED
    BY <2>1, <2>2
<1>42. ASSUME SearchFails PROVE Rest'
  <2>1. SearchedFirst'
    BY <1>42, GoOnType DEF SearchFails, GoOnWithout, OpenAlike, LoopTypeOK, Jobs
  <2> QED
    BY <1>42, <2>1, GoOnType DEF SearchFails
<1>43. ASSUME Create PROVE Rest'
  BY <1>43, ResumeType DEF Create
<1>44. ASSUME CreateFails PROVE Rest'
  BY <1>44, ResumeType DEF CreateFails
<1>45. ASSUME Refresh PROVE Rest'
  BY <1>45 DEF Refresh, GoTo, Stay, End
<1>46. ASSUME CleanTree PROVE Rest'
  BY <1>46 DEF CleanTree, GoTo, Stay, End
<1>47. ASSUME OpenSandbox PROVE Rest'
  BY <1>47 DEF OpenSandbox, GoTo, Sandbox, End
<1>48. ASSUME CheckBreaks PROVE Rest'
  <2>1. CASE LeaveWith(1, "kept")
    BY <1>48, <2>1, LeaveWithType DEF CheckBreaks
  <2>2. ASSUME NEW now \in {"none", "rubble"},
               Sandbox(now), AutoFile("crash", "exit"), UNCHANGED run
        PROVE  Rest'
    BY <1>48, <2>2, AutoFileType DEF CheckBreaks, Sandbox, Upstream
  <2> QED
    BY <1>48, <2>1, <2>2 DEF CheckBreaks
<1>49. ASSUME AllChecked PROVE Rest'
  <2>1. CASE host.failing = {}
    BY <1>49, <2>1, LeaveType DEF AllChecked
  <2>2. CASE host.failing # {}
    BY <1>49, <2>2 DEF AllChecked, GoTo, Stay
  <2> QED
    BY <2>1, <2>2
<1>50. ASSUME NoTeller PROVE Rest'
  BY <1>50, LeaveType DEF NoTeller
<1>51. ASSUME TellerFails PROVE Rest'
  BY <1>51, LeaveType DEF TellerFails
<1>52. ASSUME AllTold PROVE Rest'
  BY <1>52, LeaveType DEF AllTold
<1>53. ASSUME NEW c \in Checks, NEW ok \in BOOLEAN, RunCheck(c, ok) PROVE Rest'
  BY <1>53 DEF RunCheck
<1>54. ASSUME NEW c \in Checks, TellOf(c) PROVE Rest'
  BY <1>54 DEF TellOf
<1>55. ASSUME NEW c \in Checks, TellsBadly(c) PROVE Rest'
  BY <1>55 DEF TellsBadly, GoTo
<1>56. ASSUME Killed PROVE Rest'
  BY <1>56 DEF Killed, NoJob, Upstream
<1>57. ASSUME CheckOut PROVE Rest'
  BY <1>57 DEF CheckOut
<1>58. ASSUME Release PROVE Rest'
  BY <1>58 DEF Release, OpenAlike
<1>59. ASSUME RemoveWorktree PROVE Rest'
  BY <1>59 DEF RemoveWorktree
<1>60. ASSUME OtherPushes PROVE Rest'
  BY <1>60 DEF OtherPushes
<1>61. ASSUME NEW t \in Titles, Triage(t) PROVE Rest'
  <2>1. SearchedFirst'
    <3>1. OpenAlike' \subseteq OpenAlike
      BY <1>61, SameReportType DEF Triage, OpenAlike, LoopTypeOK, Jobs
    <3> QED
      BY <1>61, <3>1 DEF Triage
  <2> QED
    BY <1>61, <2>1 DEF Triage
<1>63. ASSUME NEW t \in Titles, Indexed(t) PROVE Rest'
  BY <1>63 DEF Indexed, OpenAlike
<1>62. CASE UNCHANGED loopVars
  BY <1>62 DEF loopVars, OpenAlike
<1> HIDE DEF Rest
<1> QED
  BY <1>1, <1>2, <1>3, <1>4, <1>5, <1>6, <1>7, <1>8, <1>9, <1>10, <1>11, <1>12,
     <1>13, <1>14, <1>15, <1>16, <1>17, <1>18, <1>19, <1>20, <1>21, <1>22,
     <1>23, <1>24, <1>25, <1>26, <1>27, <1>28, <1>29, <1>30, <1>31, <1>32,
     <1>33, <1>34, <1>35, <1>36, <1>37, <1>38, <1>39, <1>40, <1>41, <1>42,
     <1>43, <1>44, <1>45, <1>46, <1>47, <1>48, <1>49, <1>50, <1>51, <1>52,
     <1>53, <1>54, <1>55, <1>56, <1>57, <1>58, <1>59, <1>60, <1>61, <1>62,
     <1>63
     DEF LoopNext, Step, StartUp, Iterate, Report, HostCheck, Environment

-----------------------------------------------------------------------------
(* What the steps do to the trackers, and after a failure. *)

LEMMA OnlyTheseFile ==
  LoopNext => \/ UNCHANGED posted \/ Create \/ CreateFails \/ Diagnosed
              \/ \E t \in Titles : Triage(t)
<1> USE DEF world, run, GoTo, Stay, End, ReportCrash, Fail, Sandbox, Leave, LeaveWith, Reuse,
            GoOnWithout
<1>1. Start \/ StartCheck => UNCHANGED posted
  BY DEF Start, StartCheck, NewProcess
<1>2. StartUp => UNCHANGED posted
  BY DEF StartUp, Validated, Refused, BuildImage, Identify, Authenticate,
         CollectFacts,
         FetchOrigin, Seed, PushUpstream, WaitForRelease
<1>3. Iterate => UNCHANGED posted
  BY DEF Iterate, BeginIteration, AllIterationsDone, Continue, Interrupt,
         NothingLeft,
         BreakAfterCloseFailure, NeedsHuman, RepositoryFails, LimitKnown, SetupFails,
         HardError, CredentialFails, AgentFails, ExitFailure, RouteLimit, WakeUp,
         DraftsUnrepairable, CloseFails, LimitUnparsed, RemoteFails
<1>4. Report => UNCHANGED posted \/ Create \/ CreateFails \/ Diagnosed
  BY DEF Report, ReporterCrashes, ReporterCredential, ReporterEscapes,
         GateShut, GateOpen, LookUp, LookUpFails, Search, SearchFails
<1>5. HostCheck => UNCHANGED posted
  BY DEF HostCheck, Refresh, CleanTree, OpenSandbox, CheckBreaks, AllChecked,
         NoTeller,
         TellerFails, AllTold, RunCheck, TellOf, TellsBadly
<1>6. Environment => UNCHANGED posted \/ \E t \in Titles : Triage(t)
  BY DEF Environment, Killed, CheckOut, Release, RemoveWorktree, OtherPushes, Indexed
<1> QED
  BY <1>1, <1>2, <1>3, <1>4, <1>5, <1>6 DEF LoopNext, Step

LEMMA FailureStep ==
  ASSUME LoopTypeOK, FailureLeadsOut, failed, LoopNext
  PROVE  /\ iteration' \in {iteration, 0}
         /\ iteration' # iteration => at = "off"
         /\ (at # "off" /\ at' = "off") => exit' # 0
<1> USE DEF FailureLeadsOut, Filing, world, run, GoTo, Stay, End, ReportCrash, Fail,
            Sandbox, Leave, LeaveWith, Reuse, GoOnWithout, File, AutoFile
<1>1. CASE Start \/ StartCheck
  BY <1>1 DEF Start, StartCheck, NewProcess
<1>2. CASE StartUp
  BY <1>2 DEF StartUp, Validated, Refused, BuildImage, Identify, Authenticate,
         CollectFacts,
         FetchOrigin, Seed, PushUpstream, WaitForRelease
<1>3. CASE Iterate
  <2>1. at \notin {"top", "work", "limit", "asleep"}
    OBVIOUS
  <2>2. ExitFailure
    BY <1>3, <2>1 DEF Iterate, BeginIteration, AllIterationsDone, Continue,
           Interrupt,
           NothingLeft, BreakAfterCloseFailure, NeedsHuman, RepositoryFails, LimitKnown,
           SetupFails, HardError, CredentialFails, AgentFails, RouteLimit, WakeUp,
           DraftsUnrepairable, CloseFails, LimitUnparsed, RemoteFails
  <2> QED
    BY <2>2 DEF ExitFailure
<1>4. CASE Report
  BY <1>4 DEF Report, Resume, Diagnosed, Create, CreateFails,
         ReporterCrashes, ReporterCredential, ReporterEscapes,
         GateShut, GateOpen, LookUp, LookUpFails, Search, SearchFails
<1>5. CASE HostCheck
  BY <1>5 DEF HostCheck, Refresh, CleanTree, OpenSandbox, CheckBreaks,
         AllChecked, NoTeller,
         TellerFails, AllTold, RunCheck, TellOf, TellsBadly
<1>6. CASE Environment
  <2>1. CASE Killed
    BY <2>1 DEF Killed
  <2>2. CASE CheckOut \/ Release \/ RemoveWorktree \/ OtherPushes
    BY <2>2 DEF CheckOut, Release, RemoveWorktree, OtherPushes
  <2>3. CASE \E t \in Titles : Triage(t) \/ Indexed(t)
    BY <2>3 DEF Triage, Indexed
  <2> QED
    BY <1>6, <2>1, <2>2, <2>3 DEF Environment
<1> QED
  BY <1>1, <1>2, <1>3, <1>4, <1>5, <1>6 DEF LoopNext, Step

-----------------------------------------------------------------------------
(* Theorems. *)

\* What the run checks of the reports, the failures and the host checks, and
\* what it rests on, holds of every project.
THEOREM LoopInvHolds == LoopSpec => []LoopInv
  BY InitLoopInv, LoopInvStep, PTL DEF LoopSpec

\* A host check that ends well has told of every command that failed.
THEOREM FailedChecksAreTold == LoopSpec => []ChecksAreTold
  BY LoopInvHolds, PTL DEF LoopInv

\* However runs follow each other, get lost answers and are killed: a report is
\* opened next to open ones of its kind only when its search could not show them.
THEOREM OneReport == LoopSpec => OneReportPerFamily
<1>1. LoopInv /\ [LoopNext]_loopVars =>
        [\A t \in Titles :
           t[1] # "diagnosis" /\ posted'[t] > posted[t]
           => \A u \in SameReport(t) : posted[u] > 0 => u \in job.unseen]_loopVars
  <2> SUFFICES ASSUME LoopTypeOK, SearchedFirst, LoopNext, NEW t \in Titles,
                      t[1] # "diagnosis", posted'[t] > posted[t]
               PROVE  \A u \in SameReport(t) : posted[u] > 0 => u \in job.unseen
    BY DEF LoopInv
  <2>1. CASE Create \/ CreateFails
    <3>1. at = "create" /\ posted' \in {posted, [posted EXCEPT ![job.title] = @ + 1]}
      BY <2>1 DEF Create, CreateFails
    <3>2. t = job.title
      BY <3>1 DEF LoopTypeOK
    <3> QED
      BY <3>1, <3>2 DEF SearchedFirst, OpenAlike
  <2>2. CASE Diagnosed
    BY <2>2 DEF Diagnosed, LoopTypeOK
  <2>3. CASE \E u \in Titles : Triage(u)
    BY <2>3 DEF Triage, LoopTypeOK
  <2>4. CASE UNCHANGED posted
    BY <2>4 DEF LoopTypeOK
  <2> QED
    BY <2>1, <2>2, <2>3, <2>4, OnlyTheseFile
<1> QED
  BY <1>1, LoopInvHolds, PTL DEF LoopSpec, OneReportPerFamily

\* A failure ends the run with another code than that of a success, whatever
\* becomes of its report.
THEOREM FailuresAreFinal == LoopSpec => FailureIsFinal
<1>1. LoopInv /\ [LoopNext]_loopVars =>
        [failed => /\ iteration' \in {iteration, 0}
                   /\ iteration' # iteration => at = "off"
                   /\ (at # "off" /\ at' = "off") => exit' # 0]_loopVars
  <2>1. LoopInv /\ failed /\ LoopNext =>
          /\ iteration' \in {iteration, 0}
          /\ iteration' # iteration => at = "off"
          /\ (at # "off" /\ at' = "off") => exit' # 0
    BY FailureStep DEF LoopInv
  <2> QED
    BY <2>1 DEF loopVars
<1> QED
  BY <1>1, LoopInvHolds, PTL DEF LoopSpec, FailureIsFinal
=============================================================================
