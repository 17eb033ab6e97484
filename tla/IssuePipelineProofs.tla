------------------------- MODULE IssuePipelineProofs ------------------------
(* Proofs about IssuePipeline, for every set of issues, work and parallelism. *)
EXTENDS IssuePipeline, TLAPS

-----------------------------------------------------------------------------
(* Types. *)

LEMMA InitInv == Init => Inv
<1> SUFFICES ASSUME Init PROVE Inv
  OBVIOUS
<1>1. TypeOK
  BY DEF Init, TypeOK, NoSession, Roles, SessionStates, Phases, Steps, Failures
<1> QED
  BY <1>1 DEF Init, Inv, ClosedIsMerged, Merged, MergeFindsBranches, MergedWasReviewed,
     WorktreesFit, StepsFit, MergeFits, InWorktree, Done, HadReview, Completed, NoSession,
     Roles

\* What a removal leaves of the sessions.
LEMMA RemnantFacts ==
  ASSUME TypeOK, NEW i \in Issues
  PROVE  /\ NoSession \in Leftovers(i) /\ Leftovers(i) \subseteq Remnants(i)
         /\ Remnants(i) \subseteq [Roles -> SessionStates]
         /\ \A s \in Remnants(i) : s[Reviewer] = "done" => Done(i)
         /\ session[i] = NoSession => Remnants(i) = {NoSession}
<1> USE DEF TypeOK
<1>1. NoSession \in [Roles -> SessionStates] /\ \A r \in Roles : NoSession[r] = "none"
  BY DEF NoSession, SessionStates
<1>2. NoSession \in Remnants(i) /\ NoSession \in Leftovers(i)
  BY <1>1 DEF Remnants, Leftovers
<1>3. ASSUME session[i] = NoSession, NEW s \in Remnants(i) PROVE s = NoSession
  <2>1. \A r \in Roles : s[r] = "none"
    BY <1>1, <1>3 DEF Remnants
  <2> QED BY <1>1, <2>1 DEF Remnants
<1>4. \A s \in Remnants(i) : s[Reviewer] = "done" => Done(i)
  BY DEF Remnants, Done, Roles
<1>5. Leftovers(i) \subseteq Remnants(i) /\ Remnants(i) \subseteq [Roles -> SessionStates]
  BY DEF Remnants, Leftovers
<1>6. session[i] = NoSession => Remnants(i) = {NoSession}
  BY <1>2, <1>3
<1> QED BY <1>2, <1>4, <1>5, <1>6

\* What a removal does to an issue's worktree: it goes, and what may be left of
\* its sessions does not matter, or git gave up half-way.
Goes(i) ==
  /\ worktree' = Set(worktree, i, FALSE)
  /\ dirty' = Set(dirty, i, {}) /\ torn' = torn \ {i}
StaysInPart(i) ==
  /\ worktree' = worktree
  /\ \E d \in {{}, dirty[i]} :
       /\ dirty' = Set(dirty, i, d)
       /\ d # {} /\ session'[i] = NoSession => i \in torn'
  /\ torn' \in {torn, torn \cup {i}}
LosesSessions(i) ==
  /\ session' \in [Issues -> [Roles -> SessionStates]]
  /\ \A j \in Issues \ {i} : session'[j] = session[j]
  /\ Done(i)' => Done(i)
  /\ session[i] = NoSession => session' = session

LEMMA SessionsLost ==
  ASSUME TypeOK, NEW i \in Issues, NEW s \in Remnants(i), session' = Set(session, i, s)
  PROVE  LosesSessions(i) /\ session'[i] = s
<1>1. session'[i] = s /\ session' \in [Issues -> [Roles -> SessionStates]]
  BY RemnantFacts DEF TypeOK, Set
<1>2. \A j \in Issues \ {i} : session'[j] = session[j]
  BY DEF TypeOK, Set
<1>3. Done(i)' => Done(i)
  BY <1>1, RemnantFacts DEF Done
<1>4. session[i] = NoSession => session' = session
  BY RemnantFacts DEF TypeOK, Set
<1> QED BY <1>1, <1>2, <1>3, <1>4 DEF LosesSessions

LEMMA UnregisterFacts ==
  ASSUME TypeOK, NEW i \in Issues, Unregister(i)
  PROVE  Goes(i) /\ LosesSessions(i)
<1>1. PICK s \in Remnants(i) : session' = Set(session, i, s)
  BY RemnantFacts DEF Unregister
<1> QED BY <1>1, SessionsLost DEF Unregister, Goes

LEMMA HalfRemoveFacts ==
  ASSUME TypeOK, NEW i \in Issues, HalfRemove(i)
  PROVE  StaysInPart(i) /\ LosesSessions(i)
<1>1. PICK s \in Remnants(i), d \in {{}, dirty[i]} :
        /\ session' = Set(session, i, s) /\ dirty' = Set(dirty, i, d)
        /\ torn' = IF d # {} /\ s = NoSession THEN torn \cup {i} ELSE torn
  BY Zenon DEF HalfRemove
<1>2. LosesSessions(i) /\ session'[i] = s
  BY <1>1, SessionsLost
<1>3. worktree' = worktree
  BY DEF HalfRemove
<1>4. torn' \in {torn, torn \cup {i}} /\ (d # {} /\ s = NoSession => i \in torn')
  BY <1>1
<1> QED BY <1>1, <1>2, <1>3, <1>4, Zenon DEF StaysInPart

LEMMA RemovalTypes ==
  ASSUME TypeOK, NEW i \in Issues, Goes(i) \/ StaysInPart(i)
  PROVE  /\ worktree' \in [Issues -> BOOLEAN] /\ dirty' \in [Issues -> SUBSET Work]
         /\ torn' \subseteq Issues
         /\ \A j \in Issues : dirty'[j] \subseteq dirty[j]
         /\ \A j \in Issues \ {i} : dirty'[j] = dirty[j] /\ worktree'[j] = worktree[j]
<1>1. CASE Goes(i)
  BY <1>1 DEF TypeOK, Goes, Set
<1>2. CASE StaysInPart(i)
  <2>1. PICK d \in {{}, dirty[i]} : dirty' = Set(dirty, i, d)
    BY <1>2 DEF StaysInPart
  <2>2. worktree' = worktree /\ torn' \in {torn, torn \cup {i}}
    BY <1>2 DEF StaysInPart
  <2> QED BY <2>1, <2>2 DEF TypeOK, Set
<1> QED BY <1>1, <1>2

\* The ways a worktree is left: it stays, or it goes, with its branch or not.
ExitStays == UNCHANGED <<worktree, dirty, session, branch, commits, torn>>
ExitRemoves(i) ==
  /\ session[i] = NoSession /\ session' = session
  /\ Goes(i) \/ StaysInPart(i)
ExitDrops(i) ==
  /\ ExitRemoves(i) /\ Goes(i) /\ Merged(i)
  /\ branch' = Set(branch, i, FALSE) /\ commits' = Set(commits, i, {})
ExitKeepsBranch(i) ==
  /\ ExitRemoves(i)
  /\ branch' \in {branch, Set(branch, i, TRUE)} /\ commits' = commits

LEMMA ExitCases ==
  ASSUME TypeOK, NEW i \in Issues, ExitWorktree(i)
  PROVE  ExitStays \/ ExitDrops(i) \/ ExitKeepsBranch(i)
<1>1. CASE KeepWorktree(i)
  BY <1>1 DEF KeepWorktree, ExitStays, disk, tree, refs
<1>2. ASSUME Removable(i), Unregister(i) \/ HalfRemove(i) PROVE ExitRemoves(i)
  <2>1. session[i] = NoSession
    BY <1>2 DEF Removable
  <2>2. LosesSessions(i) /\ (Goes(i) \/ StaysInPart(i))
    BY <1>2, UnregisterFacts, HalfRemoveFacts
  <2> QED BY <2>1, <2>2 DEF ExitRemoves, LosesSessions
<1>3. CASE LeaveNothing(i)
  <2>1. Removable(i) /\ Unregister(i)
    BY <1>3 DEF LeaveNothing
  <2>2. ExitRemoves(i) /\ Goes(i)
    BY <1>2, <2>1, UnregisterFacts
  <2>3. CASE Merged(i)
    <3>1. (~Merged(i)) = FALSE
      BY <2>3, Zenon
    <3> QED BY <1>3, <2>2, <2>3, <3>1, Zenon DEF LeaveNothing, ExitDrops
  <2>4. CASE ~Merged(i)
    <3>1. (~Merged(i)) = TRUE
      BY <2>4, Zenon
    <3>2. branch' = Set(branch, i, TRUE) /\ commits' = commits
      BY <1>3, <2>4, <3>1, Zenon DEF LeaveNothing
    <3> QED BY <2>2, <3>2, Zenon DEF ExitKeepsBranch
  <2> QED BY <2>3, <2>4
<1>4. CASE LeaveFails(i)
  <2>1. ExitRemoves(i) /\ branch' = branch /\ commits' = commits
    BY <1>2, <1>4 DEF LeaveFails
  <2> QED BY <2>1 DEF ExitKeepsBranch
<1> QED BY <1>1, <1>3, <1>4 DEF ExitWorktree

LEMMA ExitGoesOn ==
  ASSUME NEW i \in Issues, ExitWorktree(i)
  PROVE  /\ pc[i] = "exit"
         /\ UNCHANGED <<main, closed, staged, phase, batch, todo, unref, landed, conflicts,
                        reviewed>>
         /\ \/ NextStep(i)
            \/ Goto(i, "out") /\ role' = role /\ ending' = Set(ending, i, "error")
  BY DEF ExitWorktree, KeepWorktree, LeaveNothing, LeaveFails, merging

\* What a run leaves when it dies, or ends: the disk.
LEMMA IdleType ==
  ASSUME TypeOK, Forget, staged' \subseteq Issues, torn' \subseteq Issues
  PROVE  TypeOK'
  BY DEF Forget, TypeOK, tree, Phases, Steps, Roles, Failures

\* The coordinator's steps that end the iteration.
Ends == Crash \/ AbortIteration \/ ClassifyFails \/ RecoverFails \/ ToIdle

LEMMA EndsForget ==
  ASSUME TypeOK, Ends
  PROVE  Forget /\ staged' \subseteq Issues /\ torn' \subseteq Issues
<1>1. CASE ToIdle \/ AbortIteration \/ ClassifyFails
  BY <1>1 DEF TypeOK, ToIdle, AbortIteration, ClassifyFails
<1>2. CASE Crash
  BY <1>2 DEF TypeOK, Crash, Orphaned
<1>3. CASE RecoverFails
  <2>1. PICK i \in conflicts : staged' \in {staged, staged \cup {i}}
    BY <1>3 DEF RecoverFails
  <2>2. i \in Issues
    BY <2>1 DEF TypeOK
  <2> QED BY <1>3, <2>1, <2>2 DEF TypeOK, RecoverFails
<1> QED BY <1>1, <1>2, <1>3 DEF Ends

LEMMA TypeStep == TypeOK /\ MergeFits /\ [Next]_vars => TypeOK'
<1> SUFFICES ASSUME TypeOK, MergeFits, [Next]_vars PROVE TypeOK'
  OBVIOUS
<1> USE DEF TypeOK, Set, Goto, Steps, Phases, SessionStates, disk, tree, refs, iteration,
            merging, history
<1>1. ASSUME NEW i \in Issues, PlanIssue(i) PROVE TypeOK'
  BY <1>1 DEF PlanIssue, Roles, Failures
<1>2. ASSUME NEW i \in Issues, OpenWorktree(i) PROVE TypeOK'
  <2>1. session' \in [Issues -> [Roles -> SessionStates]]
    BY <1>2 DEF OpenWorktree, NoSession
  <2> QED BY <1>2, <2>1 DEF OpenWorktree
<1>3. ASSUME NEW i \in Issues, OpenFails(i) PROVE TypeOK'
  <2>1. session' \in [Issues -> [Roles -> SessionStates]]
    BY <1>3, RemnantFacts DEF OpenFails
  <2> QED BY <1>3, <2>1 DEF OpenFails, Failures
<1>4. ASSUME NEW i \in Issues, StartAgent(i) PROVE TypeOK'
  <2>1. session' \in [Issues -> [Roles -> SessionStates]]
    BY <1>4 DEF StartAgent
  <2> QED BY <1>4, <2>1 DEF StartAgent
<1>5. ASSUME NEW i \in Issues, RefuseAgent(i) PROVE TypeOK'
  BY <1>5 DEF RefuseAgent, Failures
<1>6. ASSUME NEW i \in Issues, AgentWrites(i) PROVE TypeOK'
  BY <1>6 DEF AgentWrites
<1>7. ASSUME NEW i \in Issues, AgentContinues(i) \/ WipeSession(i) \/ RemakeSession(i)
      PROVE  TypeOK'
  <2>1. \E t \in SessionStates : session' = [session EXCEPT ![i][role[i]] = t]
    BY <1>7 DEF AgentContinues, WipeSession, RemakeSession
  <2>2. session' \in [Issues -> [Roles -> SessionStates]]
    BY <2>1
  <2> QED BY <1>7, <2>2 DEF AgentContinues, WipeSession, RemakeSession
<1>8. ASSUME NEW i \in Issues, AgentSucceeds(i) PROVE TypeOK'
  BY <1>8 DEF AgentSucceeds
<1>9. ASSUME NEW i \in Issues, AgentFails(i) PROVE TypeOK'
  BY <1>9 DEF AgentFails, Failures
<1>10. ASSUME NEW i \in Issues, CommitWork(i) PROVE TypeOK'
  BY <1>10 DEF CommitWork
<1>11. ASSUME NEW i \in Issues, CommitFails(i) PROVE TypeOK'
  BY <1>11 DEF CommitFails, Failures
<1>12. ASSUME NEW i \in Issues, ClearSession(i) PROVE TypeOK'
  BY <1>12 DEF ClearSession
<1>13. ASSUME NEW i \in Issues, SignalDone(i) PROVE TypeOK'
  BY <1>13 DEF SignalDone
<1>14. ASSUME NEW i \in Issues, ExitWorktree(i) PROVE TypeOK'
  <2>0. /\ NextStep(i) \/ (Goto(i, "out") /\ role' = role /\ ending' = Set(ending, i, "error"))
        /\ UNCHANGED <<main, closed, staged, phase, batch, todo, unref, landed, conflicts,
                       reviewed>>
    BY <1>14, ExitGoesOn
  <2>1. /\ role' \in [Issues -> Roles] /\ pc' \in [Issues -> Steps]
        /\ ending' \in [Issues -> {"none", "completed"} \cup Failures]
    BY <2>0 DEF NextStep, Roles, Failures
  <2>2. /\ worktree' \in [Issues -> BOOLEAN] /\ dirty' \in [Issues -> SUBSET Work]
        /\ torn' \subseteq Issues /\ session' \in [Issues -> [Roles -> SessionStates]]
    <3>1. CASE ExitStays
      BY <3>1 DEF ExitStays
    <3>2. CASE ExitRemoves(i)
      BY <3>2, RemovalTypes DEF ExitRemoves
    <3> QED BY <1>14, <3>1, <3>2, ExitCases DEF ExitDrops, ExitKeepsBranch
  <2>3. branch' \in [Issues -> BOOLEAN] /\ commits' \in [Issues -> SUBSET Work]
    <3>1. CASE ExitStays
      BY <3>1 DEF ExitStays
    <3>2. CASE ExitDrops(i)
      BY <3>2 DEF ExitDrops
    <3>3. CASE ExitKeepsBranch(i)
      BY <3>3 DEF ExitKeepsBranch
    <3> QED BY <1>14, <3>1, <3>2, <3>3, ExitCases
  <2> QED BY <2>0, <2>1, <2>2, <2>3
<1>15. ASSUME NEW i \in Issues, MergeClean(i) \/ MergeConflicts(i) \/ CloseIssue(i)
       PROVE  TypeOK'
  BY <1>15 DEF MergeClean, MergeConflicts, CloseIssue
<1>16. ASSUME NEW i \in Issues, RemoveWorktree(i) \/ RemoveTimesOut(i) \/ PruneOrphans(i)
       PROVE  TypeOK'
  <2>1. CASE PruneOrphans(i)
    <3>1. session' \in [Issues -> [Roles -> SessionStates]]
      BY <2>1, RemnantFacts DEF PruneOrphans
    <3> QED BY <2>1, <3>1 DEF PruneOrphans
  <2>2. CASE RemoveWorktree(i) \/ RemoveTimesOut(i)
    <3>1. /\ worktree' \in [Issues -> BOOLEAN] /\ dirty' \in [Issues -> SUBSET Work]
          /\ torn' \subseteq Issues /\ session' \in [Issues -> [Roles -> SessionStates]]
      <4>1. CASE UNCHANGED <<tree, torn>>
        BY <4>1
      <4>2. CASE Unregister(i)
        BY <4>2, UnregisterFacts, RemovalTypes DEF LosesSessions
      <4>3. CASE HalfRemove(i)
        BY <4>3, HalfRemoveFacts, RemovalTypes DEF LosesSessions
      <4> QED BY <2>2, <4>1, <4>2, <4>3 DEF RemoveWorktree, RemoveTimesOut
    <3>2. /\ todo' \subseteq todo /\ unref' \subseteq unref \cup {i} /\ i \in todo
          /\ UNCHANGED <<refs, phase, batch, pc, role, ending, landed, conflicts, reviewed>>
      BY <2>2 DEF RemoveWorktree, RemoveTimesOut, TearsDown
    <3> QED BY <3>1, <3>2
  <2> QED BY <1>16, <2>1, <2>2
<1>17. ASSUME NEW i \in Issues, DeleteBranch(i) PROVE TypeOK'
  <2>1. /\ branch' \in [Issues -> BOOLEAN] /\ commits' \in [Issues -> SUBSET Work]
        /\ unref' \subseteq unref
    BY <1>17 DEF DeleteBranch
  <2> QED BY <1>17, <2>1 DEF DeleteBranch
<1>18. ASSUME NEW i \in Issues, Recover(i) PROVE TypeOK'
  BY <1>18 DEF Recover, StaysStaged
<1>19. CASE Ends
  BY <1>19, EndsForget, IdleType
<1>20. CASE GoOn
  BY <1>20 DEF GoOn
<1>21. CASE NothingClean \/ TeardownOver \/ ConflictClosed
  BY <1>19, <1>20, <1>21 DEF NothingClean, TeardownOver, ConflictClosed, NextConflict, Ends
<1>22. CASE BeginIteration
  <2>1. batch' \subseteq Issues
    BY <1>22 DEF BeginIteration, Batches, InFlight
  <2>2. pc' \in [Issues -> Steps] /\ {todo, unref, landed, conflicts} \subseteq SUBSET batch'
    BY <1>22 DEF BeginIteration, MergeFits
  <2> QED BY <1>22, <2>1, <2>2 DEF BeginIteration
<1>23. CASE BeginMerge
  BY <1>23 DEF BeginMerge, Completed, Roles, Failures
<1>24. CASE Advance
  BY <1>24 DEF Advance, StaysStaged
<1>25. CASE ClosingOver \/ ConflictTornDown
  BY <1>25 DEF ClosingOver, ConflictTornDown
<1>26. CASE UNCHANGED vars
  BY <1>26 DEF vars
<1> QED
  BY <1>1, <1>2, <1>3, <1>4, <1>5, <1>6, <1>7, <1>8, <1>9, <1>10, <1>11, <1>12, <1>13,
     <1>14, <1>15, <1>16, <1>17, <1>18, <1>19, <1>21, <1>22, <1>23, <1>24, <1>25, <1>26
     DEF Next, Coordinate, Implement, Merge, Ends

-----------------------------------------------------------------------------
(* The disk. *)

LEMMA SessionFacts ==
  /\ NoSession \in [Roles -> {"none"}]
  /\ \A s : (\E r \in Roles : s[r] # "none") => s # NoSession
  BY DEF NoSession

\* Every step of the merge phase finds all issues out of run_issue.
LEMMA AllOut ==
  ASSUME TypeOK, StepsFit, phase # "implement" \/ ImplementOver
  PROVE  \A i \in Issues : pc[i] = "out"
  BY DEF TypeOK, StepsFit, ImplementOver

LEMMA WorktreesStep == Inv /\ [Next]_vars => WorktreesFit'
<1> SUFFICES ASSUME Inv, [Next]_vars PROVE WorktreesFit'
  OBVIOUS
<1>0. TypeOK /\ WorktreesFit /\ StepsFit /\ MergeFits
  BY DEF Inv
<1> USE <1>0 DEF TypeOK, WorktreesFit, InWorktree, Rubble, Done, Merged, Set, Goto, disk, tree,
                 refs, iteration, merging, history
<1>1. ASSUME NEW i \in Issues, PlanIssue(i) PROVE WorktreesFit'
  BY <1>1 DEF PlanIssue
<1>2. ASSUME NEW i \in Issues, OpenWorktree(i) PROVE WorktreesFit'
  <2>1. \A j \in Issues \ {i} : session'[j] = session[j]
    BY <1>2 DEF OpenWorktree
  <2>2. worktree[i] => session' = session
    BY <1>2 DEF OpenWorktree
  <2> QED BY <1>2, <2>1, <2>2 DEF OpenWorktree
<1>3. ASSUME NEW i \in Issues, OpenFails(i) PROVE WorktreesFit'
  <2>1. CASE worktree[i]
    BY <1>3, <2>1 DEF OpenFails
  <2>2. CASE ~worktree[i]
    <3>1. LosesSessions(i)
      BY <1>3, <2>2, RemnantFacts, SessionsLost DEF OpenFails, LosesSessions
    <3>2. /\ UNCHANGED <<worktree, branch, dirty, commits, main, torn>>
          /\ pc' = Set(pc, i, "out") /\ dirty[i] = {}
      BY <1>3, <2>2 DEF OpenFails
    <3> QED BY <2>2, <3>1, <3>2 DEF LosesSessions
  <2> QED BY <2>1, <2>2
<1>4. ASSUME NEW i \in Issues, i \in InWorktree, NEW s \in {"started", "resumable", "done"},
             session' = [session EXCEPT ![i][role[i]] = s], torn' \in {torn, torn \ {i}},
             UNCHANGED <<worktree, branch, dirty, commits, main>>,
             pc' = pc \/ \E l \in Steps : Goto(i, l)
      PROVE  WorktreesFit'
  <2>1. session'[i] # NoSession /\ \A j \in Issues \ {i} : session'[j] = session[j]
    BY <1>4, SessionFacts
  <2>2. worktree[i]
    BY <1>4
  <2> QED BY <1>4, <2>1, <2>2
<1>5. ASSUME NEW i \in Issues, StartAgent(i) PROVE WorktreesFit'
  <2>1. CASE session[i][role[i]] = "none"
    BY <1>4, <1>5, <2>1 DEF StartAgent, Steps
  <2>2. CASE session[i][role[i]] # "none"
    <3>1. session' = session /\ session[i] # NoSession
      BY <1>5, <2>2, SessionFacts DEF StartAgent
    <3> QED BY <1>5, <3>1 DEF StartAgent
  <2> QED BY <2>1, <2>2
<1>6. ASSUME NEW i \in Issues, AgentWrites(i) PROVE WorktreesFit'
  BY <1>6 DEF AgentWrites
<1>7. ASSUME NEW i \in Issues,
             \/ AgentContinues(i) \/ AgentSucceeds(i) \/ ClearSession(i) \/ SignalDone(i)
             \/ RemakeSession(i)
      PROVE  WorktreesFit'
  <2>1. i \in InWorktree /\ UNCHANGED <<worktree, branch, dirty, commits, main, torn>>
    BY <1>7 DEF AgentContinues, AgentSucceeds, ClearSession, SignalDone, RemakeSession
  <2>2. \E s \in {"started", "resumable", "done"} :
          session' = [session EXCEPT ![i][role[i]] = s]
    BY <1>7 DEF AgentContinues, AgentSucceeds, ClearSession, SignalDone, RemakeSession
  <2>3. pc' = pc \/ \E l \in Steps : Goto(i, l)
    BY <1>7 DEF AgentContinues, AgentSucceeds, ClearSession, SignalDone, RemakeSession, Steps
  <2> QED BY <1>4, <2>1, <2>2, <2>3
<1>8. ASSUME NEW i \in Issues, WipeSession(i) PROVE WorktreesFit'
  <2>1. /\ \A j \in Issues \ {i} : session'[j] = session[j]
        /\ pc[i] = "agent" /\ worktree[i]
    BY <1>8 DEF WipeSession
  <2> QED BY <1>8, <2>1 DEF WipeSession
<1>9. ASSUME NEW i \in Issues, RefuseAgent(i) \/ CommitFails(i) PROVE WorktreesFit'
  BY <1>9 DEF RefuseAgent, CommitFails
<1>10. ASSUME NEW i \in Issues, AgentFails(i) PROVE WorktreesFit'
  <2>1. /\ UNCHANGED <<worktree, branch, dirty, session, commits, main>>
        /\ pc' = Set(pc, i, "exit") /\ pc[i] = "agent" /\ torn \subseteq torn'
        /\ dirty[i] # {} /\ session[i] = NoSession => i \in torn'
    BY <1>10 DEF AgentFails, Orphaned
  <2> QED BY <2>1
<1>11. ASSUME NEW i \in Issues, CommitWork(i) PROVE WorktreesFit'
  BY <1>11 DEF CommitWork
<1>12. ASSUME NEW i \in Issues, ExitWorktree(i) PROVE WorktreesFit'
  <2>1. /\ pc[i] = "exit" /\ main' = main /\ \E l \in {"wait", "out"} : Goto(i, l)
    BY <1>12, ExitGoesOn DEF NextStep
  <2>2. CASE ExitStays
    BY <2>1, <2>2 DEF ExitStays
  <2>3. CASE ExitDrops(i)
    BY <2>1, <2>3 DEF ExitDrops, ExitRemoves, Goes
  <2>4. CASE ExitKeepsBranch(i) /\ Goes(i)
    <3>1. session[i][Reviewer] = "none"
      BY <2>4 DEF ExitKeepsBranch, ExitRemoves, NoSession, Roles
    <3> QED BY <2>1, <2>4, <3>1 DEF ExitKeepsBranch, ExitRemoves, Goes
  <2>5. CASE ExitKeepsBranch(i) /\ StaysInPart(i)
    BY <2>1, <2>5 DEF ExitKeepsBranch, ExitRemoves, StaysInPart
  <2> QED BY <1>12, <2>2, <2>3, <2>4, <2>5, ExitCases DEF ExitKeepsBranch, ExitRemoves
<1>13. ASSUME NEW i \in Issues, RemoveWorktree(i) \/ RemoveTimesOut(i) PROVE WorktreesFit'
  <2>1. Merged(i) /\ UNCHANGED <<refs, pc>> /\ \A j \in Issues : pc[j] = "out"
    BY <1>13, AllOut DEF RemoveWorktree, RemoveTimesOut, TearsDown
  <2>2. CASE UNCHANGED <<tree, torn>>
    BY <2>1, <2>2
  <2>3. CASE Unregister(i)
    <3>1. Goes(i) /\ LosesSessions(i)
      BY <2>3, UnregisterFacts
    <3> QED BY <2>1, <3>1 DEF Goes, LosesSessions
  <2>4. CASE HalfRemove(i) /\ worktree[i]
    <3>1. StaysInPart(i) /\ LosesSessions(i)
      BY <2>4, HalfRemoveFacts
    <3> QED BY <2>1, <2>4, <3>1 DEF StaysInPart, LosesSessions
  <2> QED BY <1>13, <2>2, <2>3, <2>4 DEF RemoveWorktree, RemoveTimesOut
<1>14. ASSUME NEW i \in Issues, PruneOrphans(i) PROVE WorktreesFit'
  <2>1. LosesSessions(i)
    BY <1>14, RemnantFacts, SessionsLost DEF PruneOrphans
  <2> QED BY <1>14, <2>1 DEF PruneOrphans, LosesSessions
<1>15. ASSUME NEW i \in Issues, DeleteBranch(i) PROVE WorktreesFit'
  <2>1. ~worktree[i] /\ UNCHANGED <<tree, main, pc, torn>>
    BY <1>15 DEF DeleteBranch, MergeFits
  <2>2. /\ \A j \in Issues \ {i} : branch'[j] = branch[j] /\ commits'[j] = commits[j]
        /\ commits'[i] \subseteq commits[i]
    BY <1>15 DEF DeleteBranch
  <2> QED BY <2>1, <2>2
<1>16. CASE UNCHANGED <<tree, branch, commits, torn, pc>>
            /\ \A i \in Issues : main[i] \subseteq main'[i]
  <2>1. \A i \in Issues : commits[i] \subseteq main[i] => commits'[i] \subseteq main'[i]
    BY <1>16
  <2> QED BY <1>16, <2>1
<1>17. CASE BeginIteration
  <2>1. /\ UNCHANGED <<tree, branch, commits, main, torn>>
        /\ \A i \in Issues : pc[i] = "out" /\ pc'[i] \in {"plan", "out"}
    BY <1>17, AllOut DEF BeginIteration
  <2> QED BY <2>1
<1>18. ASSUME UNCHANGED <<tree, branch, commits, main>>, torn \subseteq torn',
              pc' = [i \in Issues |-> "out"],
              \A i \in Issues : pc[i] = "agent" => i \in torn' \/ i \notin Orphaned
       PROVE  WorktreesFit'
  BY <1>18 DEF Orphaned
<1>19. CASE Crash
  BY <1>18, <1>19 DEF Crash, Forget
<1>20. CASE ToIdle /\ (phase # "implement" \/ ImplementOver)
  BY <1>18, <1>20, AllOut DEF ToIdle, Forget
<1>21. CASE RecoverFails
  BY <1>18, <1>21, AllOut DEF RecoverFails, Forget
<1>22. CASE Advance \/ \E i \in Issues : Recover(i)
  BY <1>16, <1>22 DEF Advance, Recover
<1>23. CASE GoOn \/ BeginMerge \/ ClosingOver \/ ConflictTornDown \/ UNCHANGED vars
  BY <1>16, <1>23 DEF GoOn, BeginMerge, ClosingOver, ConflictTornDown, vars
<1>24. ASSUME NEW i \in Issues, MergeClean(i) \/ MergeConflicts(i) \/ CloseIssue(i)
       PROVE  WorktreesFit'
  BY <1>16, <1>24 DEF MergeClean, MergeConflicts, CloseIssue
<1>25. CASE Coordinate
  BY <1>20, <1>21, <1>22, <1>23, <1>25 DEF Coordinate, AbortIteration, ClassifyFails,
     NothingClean, TeardownOver, ConflictClosed, NextConflict
<1>26. ASSUME NEW i \in Issues, Implement(i) \/ Merge(i) PROVE WorktreesFit'
  BY <1>1, <1>2, <1>3, <1>5, <1>7, <1>9, <1>10, <1>11, <1>12, <1>13, <1>15, <1>22, <1>24,
     <1>26 DEF Implement, Merge
<1> QED
  BY <1>6, <1>7, <1>8, <1>14, <1>17, <1>19, <1>23, <1>25, <1>26 DEF Next

-----------------------------------------------------------------------------
(* The steps of an issue. *)

LEMMA StepsStep == Inv /\ [Next]_vars => StepsFit'
<1> SUFFICES ASSUME Inv, [Next]_vars PROVE StepsFit'
  OBVIOUS
<1>0. TypeOK /\ WorktreesFit /\ StepsFit /\ MergeFits /\ TypeOK'
  BY TypeStep DEF Inv
<1> USE <1>0 DEF TypeOK, StepsFit, InWorktree, Set, Goto, disk, iteration, merging, Done,
                 HadReview, Completed, Roles, Implementer, Reviewer, tree, refs, history
<1>1. ASSUME NEW i \in Issues, PlanIssue(i) PROVE StepsFit'
  BY <1>1 DEF PlanIssue, Skips
<1>2. ASSUME NEW i \in Issues, OpenWorktree(i) PROVE StepsFit'
  <2>1. /\ \A j \in Issues \ {i} : session'[j] = session[j]
        /\ ~Done(i) /\ ~Done(i)'
    BY <1>2 DEF OpenWorktree, NoSession
  <2> QED BY <1>2, <2>1 DEF OpenWorktree
<1>3. ASSUME NEW i \in Issues, OpenFails(i) PROVE StepsFit'
  <2>1. LosesSessions(i)
    <3>1. session[i] \in Remnants(i)
      BY DEF Remnants
    <3> QED BY <1>3, <3>1, RemnantFacts, SessionsLost DEF OpenFails
  <2> QED BY <1>3, <2>1 DEF OpenFails, LosesSessions, Failures
<1>4. ASSUME NEW i \in Issues, StartAgent(i) PROVE StepsFit'
  BY <1>4 DEF StartAgent
<1>5. ASSUME NEW i \in Issues, RefuseAgent(i) PROVE StepsFit'
  BY <1>5 DEF RefuseAgent
<1>6. ASSUME NEW i \in Issues, AgentWrites(i) PROVE StepsFit'
  BY <1>6 DEF AgentWrites
<1>7. ASSUME NEW i \in Issues, AgentContinues(i) \/ WipeSession(i) \/ RemakeSession(i)
      PROVE  StepsFit'
  <2>1. /\ pc[i] = "agent" /\ ~Done(i)
        /\ UNCHANGED <<worktree, dirty, refs, iteration, history>>
    BY <1>7 DEF AgentContinues, WipeSession, RemakeSession
  <2>2. \E t \in {"none", "started", "resumable"} : session' = [session EXCEPT ![i][role[i]] = t]
    BY <1>7 DEF AgentContinues, WipeSession, RemakeSession
  <2>3. ~Done(i)' /\ \A j \in Issues \ {i} : session'[j] = session[j]
    BY <2>1, <2>2
  <2> QED BY <2>1, <2>3
<1>8. ASSUME NEW i \in Issues, AgentSucceeds(i) PROVE StepsFit'
  <2>1. CASE role[i] = Reviewer
    BY <1>8, <2>1 DEF AgentSucceeds
  <2>2. CASE role[i] = Implementer
    BY <1>8, <2>2 DEF AgentSucceeds
  <2> QED BY <2>1, <2>2
<1>9. ASSUME NEW i \in Issues, AgentFails(i) PROVE StepsFit'
  BY <1>9 DEF AgentFails, Failures
<1>10. ASSUME NEW i \in Issues, CommitWork(i) PROVE StepsFit'
  BY <1>10 DEF CommitWork
<1>11. ASSUME NEW i \in Issues, CommitFails(i) PROVE StepsFit'
  BY <1>11 DEF CommitFails
<1>12. ASSUME NEW i \in Issues, ClearSession(i) PROVE StepsFit'
  BY <1>12 DEF ClearSession
<1>13. ASSUME NEW i \in Issues, SignalDone(i) PROVE StepsFit'
  BY <1>13 DEF SignalDone
<1>14. ASSUME NEW i \in Issues, ExitWorktree(i) PROVE StepsFit'
  <2>1. /\ UNCHANGED <<closed, phase, batch, reviewed>> /\ pc[i] = "exit"
        /\ NextStep(i) \/ (Goto(i, "out") /\ role' = role /\ ending' = Set(ending, i, "error"))
    BY <1>14, ExitGoesOn
  <2>2. /\ \A j \in Issues : commits'[j] \subseteq commits[j] /\ dirty'[j] \subseteq dirty[j]
        /\ session' = session
    <3>1. CASE ExitStays
      BY <3>1 DEF ExitStays
    <3>2. CASE ExitDrops(i)
      BY <3>2, RemovalTypes DEF ExitDrops, ExitRemoves
    <3>3. CASE ExitKeepsBranch(i)
      BY <3>3, RemovalTypes DEF ExitKeepsBranch, ExitRemoves
    <3> QED BY <1>14, <3>1, <3>2, <3>3, ExitCases
  <2>3. CASE NextStep(i)
    BY <2>1, <2>2, <2>3 DEF NextStep
  <2>4. CASE Goto(i, "out") /\ role' = role /\ ending' = Set(ending, i, "error")
    BY <2>1, <2>2, <2>4
  <2> QED BY <2>1, <2>3, <2>4
<1>15. ASSUME NEW i \in Issues, MergeClean(i) \/ MergeConflicts(i)
       PROVE  StepsFit'
  BY <1>15 DEF MergeClean, MergeConflicts
<1>16. ASSUME NEW i \in Issues, CloseIssue(i) PROVE StepsFit'
  BY <1>16 DEF CloseIssue
<1>17. ASSUME NEW i \in Issues, RemoveWorktree(i) \/ RemoveTimesOut(i) \/ PruneOrphans(i)
       PROVE  StepsFit'
  <2>1. /\ phase # "implement" /\ UNCHANGED <<phase, refs, pc, role, ending, batch, reviewed>>
        /\ \A j \in Issues : pc[j] = "out"
    BY <1>17, AllOut DEF RemoveWorktree, RemoveTimesOut, TearsDown, PruneOrphans
  <2>2. /\ \A j \in Issues : Done(j)' => Done(j)
        /\ \A j \in Issues : dirty'[j] \subseteq dirty[j]
    <3>1. CASE UNCHANGED <<tree, torn>>
      BY <3>1
    <3>0. LosesSessions(i) => \A j \in Issues : Done(j)' => Done(j)
      BY DEF LosesSessions
    <3>2. CASE Unregister(i)
      BY <3>0, <3>2, UnregisterFacts, RemovalTypes
    <3>3. CASE HalfRemove(i)
      BY <3>0, <3>3, HalfRemoveFacts, RemovalTypes
    <3>4. CASE PruneOrphans(i)
      BY <3>0, <3>4, RemnantFacts, SessionsLost DEF PruneOrphans
    <3> QED BY <1>17, <3>1, <3>2, <3>3, <3>4 DEF RemoveWorktree, RemoveTimesOut
  <2> QED BY <2>1, <2>2
<1>18. ASSUME NEW i \in Issues, DeleteBranch(i) PROVE StepsFit'
  <2>1. \A j \in Issues : commits'[j] \subseteq commits[j]
    BY <1>18 DEF DeleteBranch
  <2>2. phase # "implement"
    BY <1>18 DEF DeleteBranch, MergeFits
  <2> QED BY <1>18, <2>1, <2>2 DEF DeleteBranch
<1>19. ASSUME NEW i \in Issues, Recover(i) PROVE StepsFit'
  BY <1>19 DEF Recover
<1>20. CASE Ends
  BY <1>20, EndsForget DEF Forget
<1>21. CASE BeginIteration
  BY <1>21 DEF BeginIteration, Batches, InFlight
<1>22. CASE BeginMerge
  BY <1>22 DEF BeginMerge, ImplementOver
<1>23. CASE Advance
  BY <1>23 DEF Advance
<1>24. CASE UNCHANGED <<disk, batch, pc, role, ending, reviewed>>
             /\ phase # "implement" /\ phase' # "implement"
  BY <1>24
<1>25. CASE UNCHANGED vars
  BY <1>25 DEF vars
<1>26. CASE GoOn /\ phase # "implement"
  BY <1>24, <1>26 DEF GoOn
<1>27. ASSUME Coordinate PROVE StepsFit'
  <2>1. \/ Ends \/ (GoOn /\ phase # "implement") \/ BeginMerge \/ Advance
        \/ ClosingOver \/ ConflictTornDown
    BY <1>27 DEF Coordinate, NothingClean, TeardownOver, ConflictClosed, NextConflict, Ends
  <2>2. CASE ClosingOver \/ ConflictTornDown
    BY <1>24, <2>2 DEF ClosingOver, ConflictTornDown
  <2> QED BY <1>20, <1>22, <1>23, <1>26, <2>1, <2>2
<1>28. ASSUME NEW i \in Issues, Implement(i) \/ Merge(i) PROVE StepsFit'
  BY <1>1, <1>2, <1>3, <1>4, <1>5, <1>8, <1>9, <1>10, <1>11, <1>12, <1>13,
     <1>14, <1>15, <1>16, <1>17, <1>18, <1>19, <1>28 DEF Implement, Merge
<1> QED
  BY <1>6, <1>7, <1>17, <1>20, <1>21, <1>25, <1>27, <1>28 DEF Next, Ends

-----------------------------------------------------------------------------
(* The merge phase. *)

\* Outside of ToIdle, what the merge phase has in hand.
LEMMA MergeStep == Inv /\ [Next]_vars => MergeFits'
<1> SUFFICES ASSUME Inv, [Next]_vars PROVE MergeFits'
  OBVIOUS
<1>0. TypeOK /\ WorktreesFit /\ StepsFit /\ MergeFits
  BY DEF Inv
<1> USE <1>0 DEF TypeOK, MergeFits, Set, Goto, disk, tree, refs, iteration, merging, history,
                 Done, Merged
<1>1. ASSUME NEW i \in Issues,
             \/ PlanIssue(i) \/ OpenWorktree(i) \/ OpenFails(i) \/ StartAgent(i)
             \/ RefuseAgent(i) \/ AgentSucceeds(i) \/ AgentFails(i) \/ CommitWork(i)
             \/ CommitFails(i) \/ ClearSession(i) \/ SignalDone(i) \/ ExitWorktree(i)
             \/ AgentWrites(i) \/ AgentContinues(i) \/ WipeSession(i) \/ RemakeSession(i)
             \/ PruneOrphans(i)
      PROVE  MergeFits'
  <2>1. phase \in {"idle", "implement"} /\ UNCHANGED <<phase, merging>>
    BY <1>1 DEF ExitWorktree, WipeSession, RemakeSession, PruneOrphans, StepsFit, PlanIssue, OpenWorktree, OpenFails, StartAgent, RefuseAgent,
       AgentSucceeds, AgentFails, CommitWork, CommitFails, ClearSession, SignalDone,
       AgentWrites, AgentContinues
  <2> QED BY <2>1
<1>2. ASSUME NEW i \in Issues, MergeClean(i) PROVE MergeFits'
  BY <1>2 DEF MergeClean
<1>3. ASSUME NEW i \in Issues, MergeConflicts(i) PROVE MergeFits'
  <2>1. worktree[i]
    BY <1>3, SessionFacts DEF MergeConflicts, WorktreesFit, Rubble, Roles
  <2> QED BY <1>3, <2>1 DEF MergeConflicts
<1>4. ASSUME NEW i \in Issues, CloseIssue(i) PROVE MergeFits'
  BY <1>4 DEF CloseIssue
<1>5. ASSUME NEW i \in Issues, RemoveWorktree(i) \/ RemoveTimesOut(i) PROVE MergeFits'
  <2>1. /\ phase \in {"teardown", "teardown_conflict"} /\ i \in todo /\ todo' = todo \ {i}
        /\ UNCHANGED <<refs, phase, landed, conflicts>>
        /\ unref' = unref \/ (unref' = unref \cup {i} /\ RemoveWorktree(i))
    BY <1>5 DEF RemoveWorktree, RemoveTimesOut, TearsDown
  <2>2. /\ \A j \in Issues \ {i} : session'[j] = session[j] /\ worktree'[j] = worktree[j]
        /\ worktree'[i] => worktree[i]
        /\ RemoveWorktree(i) => ~worktree'[i]
    <3>1. CASE UNCHANGED <<tree, torn>> /\ ~worktree[i]
      BY <3>1
    <3>2. CASE Unregister(i)
      BY <3>2, UnregisterFacts DEF Goes, LosesSessions
    <3>3. CASE HalfRemove(i) /\ ~RemoveWorktree(i)
      BY <3>3, HalfRemoveFacts DEF StaysInPart, LosesSessions
    <3> QED BY <1>5, <3>1, <3>2, <3>3 DEF RemoveWorktree, RemoveTimesOut
  <2>3. i \in landed /\ i \notin conflicts /\ i \notin todo'
    BY <2>1
  <2> QED BY <2>1, <2>2, <2>3
<1>6. ASSUME NEW i \in Issues, DeleteBranch(i) PROVE MergeFits'
  <2>1. \A j \in Issues : commits'[j] \subseteq commits[j]
    BY <1>6 DEF DeleteBranch
  <2>2. unref' \subseteq unref
    BY <1>6 DEF DeleteBranch
  <2>3. phase \in {"close", "teardown", "recover", "teardown_conflict", "close_conflict"}
    BY <1>6 DEF DeleteBranch, Phases
  <2> QED BY <1>6, <2>1, <2>2, <2>3 DEF DeleteBranch
<1>7. ASSUME NEW i \in Issues, Recover(i) PROVE MergeFits'
  <2>1. /\ \A j \in conflicts : session'[j] = session[j]
        /\ commits'[i] \subseteq main'[i] /\ todo' = {i} /\ landed' = {i}
        /\ conflicts' = conflicts \ {i} /\ unref' = unref /\ worktree' = worktree
        /\ phase' = "teardown_conflict" /\ Done(i) /\ unref \subseteq landed
    BY <1>7 DEF Recover
  <2>2. unref = {}
    BY <1>7 DEF Recover
  <2>3. todo' \cup unref' \subseteq landed' /\ landed' \cap conflicts' = {}
    BY <2>1, <2>2
  <2>4. \A j \in landed' : commits'[j] \subseteq main'[j] /\ session'[j][Reviewer] = "done"
    BY <1>7, <2>1 DEF Recover
  <2>5. \A j \in conflicts' : session'[j][Reviewer] = "done" /\ worktree'[j]
    BY <2>1
  <2> QED BY <2>1, <2>2, <2>3, <2>4, <2>5
<1>8. CASE Ends
  <2>1. phase' = "idle" /\ todo' = {} /\ unref' = {} /\ landed' = {} /\ conflicts' = {}
    BY <1>8, EndsForget DEF Forget
  <2> QED BY <2>1
<1>9. CASE BeginIteration
  BY <1>9 DEF BeginIteration
<1>10. CASE BeginMerge
  <2>1. /\ phase' = "classify" /\ todo' = Completed /\ session' = session
        /\ UNCHANGED <<unref, landed, conflicts>>
    BY <1>10 DEF BeginMerge
  <2>2. unref = {} /\ landed = {} /\ conflicts = {}
    BY <1>10 DEF BeginMerge, ImplementOver
  <2>3. \A i \in Completed : i \in Issues /\ Done(i)
    BY <1>10 DEF BeginMerge, ImplementOver, StepsFit, Completed
  <2> QED BY <2>1, <2>2, <2>3
<1>11. CASE Advance
  <2>1. \A j \in landed : commits[j] \subseteq main'[j]
    BY <1>11 DEF Advance
  <2> QED BY <1>11, <2>1 DEF Advance
<1>12. CASE ClosingOver
  BY <1>12 DEF ClosingOver
<1>13. CASE ConflictTornDown
  BY <1>13 DEF ConflictTornDown
<1>14. CASE NothingClean \/ TeardownOver \/ ConflictClosed
  <2>1. NextConflict /\ todo = {} /\ unref = {}
    BY <1>14 DEF NothingClean, TeardownOver, ConflictClosed
  <2>2. CASE GoOn
    BY <2>1, <2>2 DEF GoOn
  <2> QED BY <1>8, <2>1, <2>2 DEF NextConflict, Ends
<1>16. CASE UNCHANGED vars
  BY <1>16 DEF vars
<1>17. CASE Coordinate
  BY <1>8, <1>10, <1>11, <1>12, <1>13, <1>14, <1>17 DEF Coordinate, Ends
<1>18. ASSUME NEW i \in Issues, Implement(i) \/ Merge(i) PROVE MergeFits'
  BY <1>1, <1>2, <1>3, <1>4, <1>5, <1>6, <1>7, <1>18 DEF Implement, Merge
<1> QED
  BY <1>1, <1>8, <1>9, <1>16, <1>17, <1>18 DEF Next, Ends

-----------------------------------------------------------------------------
(* Branches, the operating branch and the closed issues. *)

\* What a step can do to them: nothing but make branches, commit, drop a branch
\* that is merged, land reviewed branches, or close a merged issue.
KeepsAll     == /\ UNCHANGED <<commits, main, closed>>
                /\ \A i \in Issues : branch[i] => branch'[i]
CommitsTo(i) == /\ i \notin closed /\ branch[i]
                /\ commits' = Set(commits, i, commits[i] \cup dirty[i])
                /\ UNCHANGED <<branch, main, closed>>
DropsBranch(i) == /\ Merged(i)
                  /\ branch' = Set(branch, i, FALSE) /\ commits' = Set(commits, i, {})
                  /\ UNCHANGED <<main, closed>>
LandsAll(S)  == /\ \A i \in S : Done(i)
                /\ main' = [i \in Issues |-> IF i \in S THEN main[i] \cup commits[i]
                                                      ELSE main[i]]
                /\ UNCHANGED <<branch, commits, closed>>
Closes(i)    == /\ Merged(i) /\ closed' = closed \cup {i}
                /\ UNCHANGED <<branch, commits, main>>
DiskEffect   == \/ KeepsAll
                \/ \E S \in SUBSET Issues : LandsAll(S)
                \/ \E i \in Issues : CommitsTo(i) \/ DropsBranch(i) \/ Closes(i)

LEMMA DiskSteps == Inv /\ [Next]_vars => DiskEffect
<1> SUFFICES ASSUME Inv, [Next]_vars PROVE DiskEffect
  OBVIOUS
<1>0. TypeOK /\ WorktreesFit /\ StepsFit /\ MergeFits
  BY DEF Inv
<1> USE <1>0 DEF TypeOK, Set, disk, tree, refs, iteration, merging, history
<1>1. CASE UNCHANGED <<branch, commits, main, closed>>
  BY <1>1 DEF KeepsAll, DiskEffect
<1>2. ASSUME NEW i \in Issues, OpenWorktree(i) PROVE DiskEffect
  BY <1>2 DEF OpenWorktree, KeepsAll, DiskEffect
<1>3. ASSUME NEW i \in Issues, CommitWork(i) PROVE DiskEffect
  <2>1. i \notin closed /\ branch[i]
    BY <1>3 DEF CommitWork, StepsFit, WorktreesFit, InWorktree
  <2>2. CommitsTo(i)
    BY <1>3, <2>1 DEF CommitWork, CommitsTo
  <2> QED BY <2>2 DEF DiskEffect
<1>4. ASSUME NEW i \in Issues, ExitWorktree(i) PROVE DiskEffect
  <2>0. UNCHANGED <<main, closed>>
    BY <1>4, ExitGoesOn
  <2>1. CASE ExitStays
    BY <1>1, <2>0, <2>1 DEF ExitStays
  <2>2. CASE ExitDrops(i)
    <3>1. DropsBranch(i)
      BY <2>0, <2>2 DEF ExitDrops, DropsBranch
    <3> QED BY <3>1 DEF DiskEffect
  <2>3. CASE ExitKeepsBranch(i)
    BY <2>0, <2>3 DEF ExitKeepsBranch, KeepsAll, DiskEffect
  <2> QED BY <1>4, <2>1, <2>2, <2>3, ExitCases
<1>5. ASSUME NEW i \in Issues, CloseIssue(i) PROVE DiskEffect
  <2>1. Merged(i)
    BY <1>5 DEF CloseIssue, MergeFits
  <2>2. closed' = closed \/ Closes(i)
    BY <1>5, <2>1 DEF CloseIssue, Closes
  <2>3. CASE closed' = closed
    BY <1>1, <1>5, <2>3 DEF CloseIssue
  <2> QED BY <2>2, <2>3 DEF DiskEffect
<1>6. ASSUME NEW i \in Issues, DeleteBranch(i) PROVE DiskEffect
  <2>1. Merged(i) /\ UNCHANGED <<main, closed>>
    BY <1>6 DEF DeleteBranch, MergeFits
  <2>2. UNCHANGED <<branch, commits>> \/ DropsBranch(i)
    BY <1>6, <2>1 DEF DeleteBranch, DropsBranch
  <2> QED BY <1>1, <2>1, <2>2 DEF DiskEffect
<1>7. CASE Advance
  <2>1. landed \in SUBSET Issues /\ \A i \in landed : Done(i)
    BY <1>7 DEF Advance, MergeFits
  <2>2. LandsAll(landed)
    BY <1>7, <2>1 DEF Advance, LandsAll
  <2> QED BY <2>1, <2>2 DEF DiskEffect
<1>8. ASSUME NEW i \in Issues, Recover(i) PROVE DiskEffect
  <2>1. Done(i)
    BY <1>8 DEF Recover, MergeFits
  <2>2. LandsAll({i})
    BY <1>8, <2>1 DEF Recover, LandsAll
  <2> QED BY <2>2 DEF DiskEffect
<1>9. ASSUME NEW i \in Issues,
             \/ PlanIssue(i) \/ OpenFails(i) \/ StartAgent(i) \/ RefuseAgent(i)
             \/ AgentSucceeds(i) \/ AgentFails(i) \/ CommitFails(i) \/ ClearSession(i)
             \/ SignalDone(i) \/ AgentWrites(i) \/ AgentContinues(i)
             \/ WipeSession(i) \/ RemakeSession(i) \/ PruneOrphans(i)
             \/ MergeClean(i) \/ MergeConflicts(i) \/ RemoveWorktree(i) \/ RemoveTimesOut(i)
      PROVE  UNCHANGED <<branch, commits, main, closed>>
  BY <1>9 DEF PlanIssue, OpenFails, StartAgent, RefuseAgent, AgentSucceeds, AgentFails,
     CommitFails, ClearSession, SignalDone, AgentWrites, AgentContinues, WipeSession,
     RemakeSession, PruneOrphans, MergeClean, MergeConflicts, RemoveWorktree, RemoveTimesOut
<1>10. CASE Ends
  BY <1>1, <1>10, EndsForget DEF Forget
<1>11. CASE BeginIteration \/ UNCHANGED vars \/ (Coordinate /\ ~Advance)
  BY <1>1, <1>10, <1>11 DEF BeginIteration, vars, Coordinate, Ends, BeginMerge,
     NothingClean, NextConflict, GoOn, ClosingOver, TeardownOver, ConflictTornDown,
     ConflictClosed
<1> QED
  BY <1>1, <1>2, <1>3, <1>4, <1>5, <1>6, <1>7, <1>8, <1>9, <1>10, <1>11
     DEF Next, Implement, Merge, Ends

LEMMA ClosedStep == Inv /\ [Next]_vars => ClosedIsMerged'
<1> SUFFICES ASSUME Inv, [Next]_vars PROVE ClosedIsMerged'
  OBVIOUS
<1>0. TypeOK /\ ClosedIsMerged /\ DiskEffect
  BY DiskSteps DEF Inv
<1> USE <1>0 DEF TypeOK, Set, Merged, ClosedIsMerged
<1>1. CASE KeepsAll
  BY <1>1 DEF KeepsAll
<1>2. ASSUME NEW S \in SUBSET Issues, LandsAll(S) PROVE ClosedIsMerged'
  BY <1>2 DEF LandsAll
<1>3. ASSUME NEW i \in Issues, CommitsTo(i) PROVE ClosedIsMerged'
  BY <1>3 DEF CommitsTo
<1>4. ASSUME NEW i \in Issues, DropsBranch(i) PROVE ClosedIsMerged'
  BY <1>4 DEF DropsBranch
<1>5. ASSUME NEW i \in Issues, Closes(i) PROVE ClosedIsMerged'
  BY <1>5 DEF Closes
<1> QED BY <1>1, <1>2, <1>3, <1>4, <1>5 DEF DiskEffect

\* What a reviewer had before it is never forgotten.
LEMMA ReviewsGrow == TypeOK /\ [Next]_vars => \A i \in Issues : reviewed[i] \subseteq reviewed'[i]
<1> SUFFICES ASSUME TypeOK, [Next]_vars PROVE \A i \in Issues : reviewed[i] \subseteq reviewed'[i]
  OBVIOUS
<1>1. ASSUME NEW i \in Issues, AgentSucceeds(i)
      PROVE  \A j \in Issues : reviewed[j] \subseteq reviewed'[j]
  BY <1>1 DEF AgentSucceeds, TypeOK, Set
<1>2. CASE UNCHANGED reviewed
  BY <1>2
<1>3. ASSUME NEW i \in Issues, (Implement(i) /\ ~AgentSucceeds(i) /\ ~ExitWorktree(i))
      PROVE  UNCHANGED reviewed
  BY <1>3 DEF Implement, PlanIssue, OpenWorktree, OpenFails, StartAgent, RefuseAgent,
     AgentFails, CommitWork, CommitFails, ClearSession, SignalDone, history
<1>4. ASSUME NEW i \in Issues,
             \/ ExitWorktree(i) \/ Merge(i) \/ AgentWrites(i) \/ AgentContinues(i)
             \/ WipeSession(i) \/ RemakeSession(i) \/ PruneOrphans(i)
      PROVE  UNCHANGED reviewed
  BY <1>4 DEF ExitWorktree, Merge, AgentWrites, AgentContinues, WipeSession, RemakeSession,
     PruneOrphans, MergeClean, MergeConflicts, CloseIssue, RemoveWorktree, RemoveTimesOut,
     DeleteBranch, Recover, history
<1>5. CASE Ends
  BY <1>5, EndsForget DEF Forget
<1>6. CASE BeginIteration \/ Coordinate \/ UNCHANGED vars
  BY <1>2, <1>5, <1>6 DEF BeginIteration, Coordinate, Ends, BeginMerge, Advance,
     NothingClean, NextConflict, GoOn, ClosingOver, TeardownOver, ConflictTornDown,
     ConflictClosed, vars, history
<1> QED BY <1>1, <1>2, <1>3, <1>4, <1>5, <1>6 DEF Next, Ends

LEMMA ReviewedStep == Inv /\ [Next]_vars => MergedWasReviewed'
<1> SUFFICES ASSUME Inv, [Next]_vars, NEW i \in Issues PROVE main'[i] \subseteq reviewed'[i]
  BY DEF MergedWasReviewed
<1>0. /\ TypeOK /\ StepsFit /\ main[i] \subseteq reviewed[i]
      /\ reviewed[i] \subseteq reviewed'[i] /\ DiskEffect
  BY DiskSteps, ReviewsGrow DEF Inv, MergedWasReviewed
<1>1. CASE UNCHANGED main
  BY <1>0, <1>1
<1>2. ASSUME NEW S \in SUBSET Issues, LandsAll(S) PROVE main'[i] \subseteq reviewed'[i]
  <2>1. i \in S => commits[i] \subseteq reviewed[i]
    BY <1>0, <1>2 DEF LandsAll, StepsFit, HadReview
  <2> QED BY <1>0, <1>2, <2>1 DEF LandsAll, TypeOK
<1> QED
  BY <1>0, <1>1, <1>2 DEF DiskEffect, KeepsAll, CommitsTo, DropsBranch, Closes

\* An issue whose review is done has its worktree and branch, or what is left of
\* a worktree whose branch was merged.
LEMMA DoneHasBranch ==
  WorktreesFit => \A i \in Issues : Done(i) => \/ worktree[i] /\ branch[i]
                                               \/ i \in Rubble /\ Merged(i)
  BY SessionFacts DEF WorktreesFit, Done, Roles, Rubble

LEMMA BranchesFound == TypeOK /\ WorktreesFit /\ MergeFits => MergeFindsBranches
<1> SUFFICES ASSUME TypeOK, WorktreesFit, MergeFits PROVE MergeFindsBranches
  OBVIOUS
<1>1. phase = "recover" => todo = {}
  BY DEF MergeFits
<1>2. \A i \in conflicts : i \in Issues /\ worktree[i]
  BY DEF MergeFits, TypeOK
<1>3. \A i \in conflicts : branch[i] /\ worktree[i]
  BY <1>2 DEF WorktreesFit
<1>4. phase \in {"classify", "recover"} => \A i \in todo : i \in Issues /\ Done(i)
  BY <1>1 DEF MergeFits, TypeOK
<1> QED BY <1>3, <1>4, DoneHasBranch DEF MergeFindsBranches

-----------------------------------------------------------------------------
(* The theorems. *)

LEMMA NextInv == Inv /\ [Next]_vars => Inv'
<1> SUFFICES ASSUME Inv, [Next]_vars PROVE Inv'
  OBVIOUS
<1>1. TypeOK' /\ MergeFits'
  BY TypeStep, MergeStep DEF Inv
<1>2. WorktreesFit' /\ StepsFit'
  BY WorktreesStep, StepsStep
<1>3. MergeFindsBranches'
  BY <1>1, <1>2, BranchesFound, PTL
<1> QED BY <1>1, <1>2, <1>3, ClosedStep, ReviewedStep DEF Inv

\* The disk, the batch and GitHub fit together through every failure and crash.
THEOREM Invariance == Spec => []Inv
  BY InitInv, NextInv, PTL DEF Spec

\* README.md: "issues are only closed after code is confirmed on the main
\* branch".
THEOREM ClosedAreMerged == Spec => []ClosedIsMerged
<1>1. Inv => ClosedIsMerged
  BY DEF Inv
<1> QED BY <1>1, Invariance, PTL

\* A merge finds the branches and the worktrees of what it takes up, except where
\* the remains of a merged issue that could not be closed still call it done.
THEOREM BranchesAreThere == Spec => []MergeFindsBranches
<1>1. Inv => MergeFindsBranches
  BY DEF Inv
<1> QED BY <1>1, Invariance, PTL

\* Nothing on the operating branch has escaped a review.
THEOREM NothingUnreviewed == Spec => []MergedWasReviewed
<1>1. Inv => MergedWasReviewed
  BY DEF Inv
<1> QED BY <1>1, Invariance, PTL

\* One step keeps uncommitted work, commits it, or drops it after the merge or
\* when it has lost its session.
LEMMA WorkStep ==
  ASSUME Inv, [Next]_vars, NEW i \in Issues
  PROVE  \/ dirty[i] \subseteq dirty'[i] \cup commits'[i]
         \/ Done(i) /\ Merged(i)
         \/ i \in torn
<1>0. TypeOK /\ WorktreesFit /\ MergeFits
  BY DEF Inv
<1> USE <1>0 DEF TypeOK, Set
<1> DEFINE Kept == \/ dirty[i] \subseteq dirty'[i] \cup commits'[i]
                   \/ Done(i) /\ Merged(i)
                   \/ i \in torn
<1>1. CASE dirty' = dirty
  BY <1>1
<1>2. ASSUME NEW j \in Issues, AgentWrites(j) PROVE Kept
  BY <1>2 DEF AgentWrites
<1>3. ASSUME NEW j \in Issues, CommitWork(j) PROVE Kept
  BY <1>3 DEF CommitWork
<1>4. ASSUME NEW j \in Issues, ExitWorktree(j) PROVE Kept
  <2>1. pc[j] = "exit"
    BY <1>4, ExitGoesOn
  <2>2. session[j] = NoSession => dirty[j] = {} \/ j \in torn
    BY <2>1 DEF WorktreesFit
  <2>3. ExitRemoves(j) => session[j] = NoSession /\ \A k \in Issues \ {j} : dirty'[k] = dirty[k]
    BY DEF ExitRemoves, Goes, StaysInPart
  <2>4. CASE ExitRemoves(j)
    BY <2>2, <2>3, <2>4
  <2> QED BY <1>1, <1>4, <2>4, ExitCases DEF ExitStays, ExitDrops, ExitKeepsBranch
<1>5. ASSUME NEW j \in Issues, RemoveWorktree(j) \/ RemoveTimesOut(j) PROVE Kept
  <2>1. Done(j) /\ Merged(j)
    BY <1>5 DEF RemoveWorktree, RemoveTimesOut, TearsDown, MergeFits
  <2>2. \A k \in Issues \ {j} : dirty'[k] = dirty[k]
    BY <1>5, UnregisterFacts, HalfRemoveFacts DEF RemoveWorktree, RemoveTimesOut, Goes,
       StaysInPart, tree
  <2> QED BY <2>1, <2>2
<1>6. ASSUME NEW j \in Issues, Implement(j) /\ ~CommitWork(j) /\ ~ExitWorktree(j)
      PROVE  dirty' = dirty
  BY <1>6 DEF Implement, PlanIssue, OpenWorktree, OpenFails, StartAgent, RefuseAgent,
     AgentSucceeds, AgentFails, CommitFails, ClearSession, SignalDone, disk, tree
<1>7. ASSUME NEW j \in Issues,
             \/ Merge(j) /\ ~RemoveWorktree(j) /\ ~RemoveTimesOut(j)
             \/ AgentContinues(j) \/ WipeSession(j) \/ RemakeSession(j) \/ PruneOrphans(j)
      PROVE  dirty' = dirty
  BY <1>7 DEF Merge, AgentContinues, WipeSession, RemakeSession, PruneOrphans, MergeClean,
     MergeConflicts, CloseIssue, DeleteBranch, Recover, disk, tree
<1>8. CASE Ends
  BY <1>1, <1>8, EndsForget DEF Forget, tree
<1>9. CASE BeginIteration \/ Coordinate \/ UNCHANGED vars
  BY <1>1, <1>8, <1>9 DEF BeginIteration, Coordinate, Ends, BeginMerge, Advance,
     NothingClean, NextConflict, GoOn, ClosingOver, TeardownOver, ConflictTornDown,
     ConflictClosed, vars, disk, tree
<1> QED BY <1>1, <1>2, <1>3, <1>4, <1>5, <1>6, <1>7, <1>8, <1>9 DEF Next, Ends

\* No exit, teardown or crash loses work that is neither committed nor merged
\* and still has its session.
THEOREM WorkIsKept == Spec => UncommittedSurvives
<1>1. Inv /\ [Next]_vars =>
        [\A i \in Issues :
           \/ dirty[i] \subseteq dirty'[i] \cup commits'[i]
           \/ session[i][Reviewer] = "done" /\ Merged(i)
           \/ i \in torn]_vars
  BY WorkStep DEF Done
<1> QED BY <1>1, Invariance, PTL DEF Spec, UncommittedSurvives

-----------------------------------------------------------------------------
(* The pipeline implements IssueDelivery. *)

LEMMA StepImplements == Inv /\ [Next]_vars => [Delivery!Next]_(Delivery!vars)
<1> SUFFICES ASSUME Inv, [Next]_vars PROVE [Delivery!Next]_(Delivery!vars)
  OBVIOUS
<1>0. TypeOK /\ DiskEffect
  BY DiskSteps DEF Inv
<1> USE <1>0 DEF TypeOK, Set, Merged, Delivery!vars
<1>1. CASE KeepsAll
  BY <1>1 DEF KeepsAll
<1>2. ASSUME NEW S \in SUBSET Issues, LandsAll(S) PROVE Delivery!Land(S)
  BY <1>2 DEF LandsAll, Delivery!Land
<1>3. ASSUME NEW i \in Issues, CommitsTo(i) PROVE Delivery!Commit(i, dirty[i])
  BY <1>3 DEF CommitsTo, Delivery!Commit
<1>4. ASSUME NEW i \in Issues, DropsBranch(i) PROVE Delivery!Drop(i)
  BY <1>4 DEF DropsBranch, Delivery!Drop
<1>5. ASSUME NEW i \in Issues, Closes(i) PROVE Delivery!Close(i)
  BY <1>5 DEF Closes, Delivery!Close
<1>6. \A i \in Issues : dirty[i] \in SUBSET Work
  OBVIOUS
<1> QED
  BY <1>1, <1>2, <1>3, <1>4, <1>5, <1>6 DEF DiskEffect, Delivery!Next

\* Worktrees, sessions, agents and teardowns deliver issues as IssueDelivery
\* promises.
THEOREM Refinement == Spec => Implements
<1>1. Init => Delivery!Init
  BY DEF Init, Delivery!Init
<1>2. Inv /\ [Next]_vars => [Delivery!Next]_(Delivery!vars)
  BY StepImplements
<1> QED BY <1>1, <1>2, Invariance, PTL DEF Spec, Implements, Delivery!Spec
=============================================================================
