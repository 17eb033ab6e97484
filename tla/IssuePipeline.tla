---------------------------- MODULE IssuePipeline ---------------------------
(***************************************************************************)
(* The way of an issue from open to closed: the implement phase            *)
(* (iteration/implement.py, implement_issue_plan.py) with its durable      *)
(* worktrees (infrastructure/worktree.py), role sessions (session/role.py) *)
(* and host commits, and the merge phase (iteration/merge.py,              *)
(* _merge_conflict_recovery.py, _merged_branch_teardown.py).               *)
(*                                                                         *)
(* What is on disk or at GitHub survives a crash; the iteration's own      *)
(* state does not.  Work is what agents change in a worktree, in units.    *)
(* Planning is a choice of open issues that respects the in-flight rule;   *)
(* the result of an agent, of git and of GitHub is a choice among those    *)
(* the code tells apart.                                                   *)
(***************************************************************************)
EXTENDS Naturals, FiniteSets

CONSTANTS Issues,       \* the issues of the project
          Work,         \* the units of work agents do on one issue
          Unchanged,    \* the issues agents find nothing to change for
          Unserved,     \* the issues whose agents are always refused
          MaxParallel,  \* cfg.max_parallel
          Faults        \* what may happen: "crash": the process dies; "remove":
                        \* files of a worktree cannot be removed, or not in time;
                        \* "wipe": a role begins anew with an empty session

ASSUME PipelineAssumption ==
  MaxParallel \in Nat \ {0} /\ IsFiniteSet(Issues) /\ Faults \subseteq {"crash", "remove", "wipe"}

Implementer == "implementer"
Reviewer    == "reviewer"
Roles       == {Implementer, Reviewer}

VARIABLES
  \* On disk and at GitHub.
  worktree,  \* worktree[i]: issue i's durable worktree is registered
  branch,    \* branch[i]: issue i's branch exists
  commits,   \* commits[i]: the work committed on it
  dirty,     \* dirty[i]: the uncommitted work in the worktree
  session,   \* session[i][role]: what is in the role's session directory, which
             \* may be left where a worktree was removed
  main,      \* main[i]: the work of issue i on the operating branch
  closed,    \* the closed issues
  staged,    \* the issues whose merge sandbox has a merge that is not committed
  \* Of the running iteration.
  phase,     \* what the iteration is doing
  batch,     \* the issues it implements
  pc,        \* where run_issue is for each issue of the batch
  role,      \* the role whose step it is at
  ending,    \* how the step, and at last run_issue, ended
  todo,      \* the issues the present merge step has still to handle
  unref,     \* those whose worktree is gone and whose branch is next
  landed,    \* the issues the present advance put on the operating branch
  conflicts, \* the issues whose merge conflicted and is still pending
  \* History, not in the code.
  reviewed,  \* reviewed[i]: the work a successful reviewer had before it
  torn       \* the issues whose uncommitted work has lost its role session

tree      == <<worktree, dirty, session>>
refs      == <<branch, commits, main, closed, staged>>
disk      == <<tree, refs>>
merging   == <<todo, unref, landed, conflicts>>
iteration == <<phase, batch, pc, role, ending, merging>>
history   == <<reviewed, torn>>
vars      == <<disk, iteration, history>>

\* The ways a role step fails.  A usage limit, a transient provider error or a
\* credential failure ("limit") and a failed agent or missing model ("failed")
\* end the iteration before the merge; any other exception ("error") is
\* reported and forgotten.  managed_worktree preserves the worktree on all of
\* them but the first.
Failures == {"limit", "failed", "error"}

Set(f, i, v)  == [f EXCEPT ![i] = v]
Goto(i, l)    == pc' = Set(pc, i, l)
Merged(i)     == commits[i] \subseteq main[i]
\* Mutant: an issue keeps its worktree slot from one role to the next.
SlotKeptBetweenRoles ==
  {i \in Issues : \/ pc[i] \in {"open", "agent", "commit", "clear", "signal", "exit"}
                  \/ pc[i] = "wait" /\ session[i][Implementer] = "done"}

InWorktree    == {i \in Issues : pc[i] \in {"open", "agent", "commit", "clear", "signal", "exit"}}
Agents        == {i \in Issues : pc[i] = "agent"}

Completed     == {i \in batch : ending[i] = "completed"}
SessionStates == {"none", "started", "resumable", "done"}
NoSession     == [r \in Roles |-> "none"]

Init ==
  /\ worktree = [i \in Issues |-> FALSE]
  /\ branch = [i \in Issues |-> FALSE]
  /\ commits = [i \in Issues |-> {}]
  /\ dirty = [i \in Issues |-> {}]
  /\ session = [i \in Issues |-> NoSession]
  /\ main = [i \in Issues |-> {}]
  /\ closed = {}
  /\ phase = "idle" /\ batch = {}
  /\ pc = [i \in Issues |-> "out"]
  /\ role = [i \in Issues |-> Implementer]
  /\ ending = [i \in Issues |-> "none"]
  /\ todo = {} /\ unref = {} /\ landed = {} /\ conflicts = {}
  /\ reviewed = [i \in Issues |-> {}]
  /\ staged = {} /\ torn = {}

\* The iteration is over, or its process died: only the disk is left.
Forget ==
  /\ phase' = "idle" /\ batch' = {}
  /\ pc' = [i \in Issues |-> "out"]
  /\ role' = [i \in Issues |-> Implementer]
  /\ ending' = [i \in Issues |-> "none"]
  /\ todo' = {} /\ unref' = {} /\ landed' = {} /\ conflicts' = {}
  /\ UNCHANGED <<tree, branch, commits, main, closed, reviewed>>

ToIdle == Forget /\ UNCHANGED <<staged, torn>>

\* Uncommitted work beside which there is no session.
Orphaned == {i \in Issues : dirty[i] # {} /\ session[i] = NoSession}

\* The process may die between the two halves of start_fresh.
Crash ==
  /\ "crash" \in Faults /\ phase # "idle"
  /\ Forget
  /\ torn' = torn \cup Orphaned /\ UNCHANGED staged

-----------------------------------------------------------------------------
(* git worktree remove --force, and what the service does when it fails. *)

\* What may be left of role sessions when their files are removed in part.
Remnants(i) ==
  {s \in [Roles -> SessionStates] :
     \A r \in Roles : s[r] = session[i][r] \/ (session[i][r] # "none" /\ s[r] \in {"none", "started"})}

\* Beside no worktree only a sentinel or a continuation is ever read again.
Leftovers(i) == {s \in Remnants(i) : \A r \in Roles : s[r] # "started"}

\* The issues with such files where their worktree was.
Rubble == {i \in Issues : ~worktree[i] /\ session[i] # NoSession}

\* git forgets the worktree.  If it could not delete all files, remove_worktree
\* tries once more and goes on, whatever is left.
Unregister(i) ==
  /\ worktree' = Set(worktree, i, FALSE)
  /\ dirty' = Set(dirty, i, {}) /\ torn' = torn \ {i}
  /\ \E s \in IF "remove" \in Faults THEN Leftovers(i) ELSE {NoSession} :
       session' = Set(session, i, s)

\* git is killed at its timeout: the worktree is registered still, and part of
\* its files are gone.
HalfRemove(i) ==
  /\ "remove" \in Faults
  /\ \E s \in Remnants(i), d \in {{}, dirty[i]} :
       /\ session' = Set(session, i, s) /\ dirty' = Set(dirty, i, d)
       /\ torn' = IF d # {} /\ s = NoSession THEN torn \cup {i} ELSE torn
  /\ UNCHANGED worktree

\* A new run begins by removing the directories that are no worktrees, as far
\* as it can.
PruneOrphans(i) ==
  /\ phase = "idle" /\ i \in Rubble
  /\ \E s \in Leftovers(i) : session' = Set(session, i, s)
  /\ UNCHANGED <<worktree, dirty, refs, iteration, history>>

-----------------------------------------------------------------------------
(* The implement phase. *)

\* In flight: a resumable session, or commits the operating branch lacks.
InFlight ==
  {i \in Issues \ closed :
     (\E r \in Roles : session[i][r] = "resumable") \/ (branch[i] /\ ~Merged(i))}

\* In-flight issues come before every other one.
Batches == IF InFlight # {} THEN {InFlight} ELSE (SUBSET (Issues \ closed)) \ {{}}

BeginIteration ==
  /\ phase = "idle"
  /\ \E B \in Batches :
       /\ batch' = B
       /\ pc' = [i \in Issues |-> IF i \in B THEN "plan" ELSE "out"]
  /\ phase' = "implement"
  /\ UNCHANGED <<disk, role, ending, merging, history>>

\* A step that is not needed any more; a done review goes for both.
Skips(i, r) == session[i][Reviewer] = "done" \/ session[i][r] = "done"

\* Mutant: an issue is complete as soon as its implementer is done.
PlanWithoutReview(i) ==
  /\ pc[i] = "plan"
  /\ IF session[i][Implementer] = "done"
     THEN Goto(i, "out") /\ ending' = Set(ending, i, "completed")
     ELSE Goto(i, "wait") /\ UNCHANGED ending
  /\ UNCHANGED <<disk, role, phase, batch, merging, history>>

\* The stages already done are read from the worktree once, at the start.
PlanIssue(i) ==
  /\ pc[i] = "plan"
  /\ IF Skips(i, Reviewer)
     THEN /\ Goto(i, "out")
          /\ ending' = Set(ending, i, "completed")
          /\ UNCHANGED role
     ELSE /\ Goto(i, "wait")
          /\ role' = Set(role, i, IF Skips(i, Implementer) THEN Reviewer ELSE Implementer)
          /\ UNCHANGED ending
  /\ UNCHANGED <<disk, phase, batch, merging, history>>

\* Mutant: the branch is made anew from the operating branch.
OpenRecreatesBranch(i) ==
  /\ pc[i] = "wait" /\ Cardinality(InWorktree) < MaxParallel + 1
  /\ Goto(i, "open")
  /\ worktree' = Set(worktree, i, TRUE)
  /\ branch' = Set(branch, i, TRUE)
  /\ commits' = Set(commits, i, {})
  /\ session' = IF i \in Rubble THEN Set(session, i, NoSession) ELSE session
  /\ UNCHANGED <<dirty, main, closed, staged, phase, batch, role, ending, merging, history>>

\* The worktree semaphore is taken and the worktree found or created, which
\* clears away what a removed one left.
OpenWorktree(i) ==
  /\ pc[i] = "wait" /\ Cardinality(InWorktree) < MaxParallel + 1
  /\ Goto(i, "open")
  /\ worktree' = Set(worktree, i, TRUE)
  /\ branch' = Set(branch, i, TRUE)
  /\ session' = IF i \in Rubble THEN Set(session, i, NoSession) ELSE session
  /\ UNCHANGED <<commits, dirty, main, closed, staged, phase, batch, role, ending,
                 merging, history>>

\* git fails, or the files that are in the way cannot all be removed.
OpenFails(i) ==
  /\ pc[i] = "wait" /\ Cardinality(InWorktree) < MaxParallel + 1
  /\ Goto(i, "out")
  /\ ending' = Set(ending, i, "error")
  /\ \E s \in IF i \in Rubble THEN Leftovers(i) ELSE {session[i]} :
       session' = Set(session, i, s)
  /\ UNCHANGED <<worktree, dirty, refs, phase, batch, role, merging, history>>

\* The agent semaphore is taken; the session directory exists from now on.
StartAgent(i) ==
  /\ pc[i] = "open" /\ Cardinality(Agents) < MaxParallel /\ i \notin Unserved
  /\ Goto(i, "agent")
  /\ session' = [session EXCEPT ![i][role[i]] = IF @ = "none" THEN "started" ELSE @]
  /\ torn' = torn \ {i}
  /\ UNCHANGED <<worktree, dirty, refs, phase, batch, role, ending, merging,
                 reviewed>>

\* No account is available, or the set-up fails: the step ends before there is
\* a session.
RefuseAgent(i) ==
  /\ pc[i] = "open" /\ Cardinality(Agents) < MaxParallel
  /\ Goto(i, "exit")
  /\ \E e \in {"limit", "error"} : ending' = Set(ending, i, e)
  /\ UNCHANGED <<disk, phase, batch, role, merging, history>>

\* start_fresh has removed the session directory and not made the new one yet.
Wiped(i) == session[i][role[i]] = "none"

AgentWrites(i) ==
  /\ pc[i] = "agent" /\ ~Wiped(i) /\ i \notin Unchanged
  /\ \E w \in Work \ (dirty[i] \cup commits[i]) : dirty' = Set(dirty, i, dirty[i] \cup {w})
  /\ UNCHANGED <<worktree, session, refs, iteration, history>>

\* The attempts of the agent write a continuation; the first half of the
\* completion signal wipes it.
AgentContinues(i) ==
  /\ pc[i] = "agent" /\ ~Wiped(i)
  /\ \E s \in {"started", "resumable"} :
       session' = [session EXCEPT ![i][role[i]] = s]
  /\ UNCHANGED <<worktree, dirty, refs, iteration, history>>

\* A continuation that cannot be used is wiped: start_fresh removes the
\* directory and makes a new one.
WipeSession(i) ==
  /\ "wipe" \in Faults
  /\ pc[i] = "agent" /\ ~Wiped(i)
  /\ session' = [session EXCEPT ![i][role[i]] = "none"]
  /\ UNCHANGED <<worktree, dirty, refs, iteration, history>>

RemakeSession(i) ==
  /\ pc[i] = "agent" /\ Wiped(i)
  /\ session' = [session EXCEPT ![i][role[i]] = "started"]
  /\ UNCHANGED <<worktree, dirty, refs, iteration, history>>

\* The runner signals completion before it returns the result to the host.
AgentSucceeds(i) ==
  /\ pc[i] = "agent" /\ ~Wiped(i)
  /\ Goto(i, "commit")
  /\ session' = [session EXCEPT ![i][role[i]] = "done"]
  /\ reviewed' = IF role[i] = Reviewer
                 THEN Set(reviewed, i, reviewed[i] \cup commits[i] \cup dirty[i])
                 ELSE reviewed
  /\ UNCHANGED <<worktree, dirty, refs, phase, batch, role, ending, merging, torn>>

\* An error may also come out of start_fresh.
AgentFails(i) ==
  /\ pc[i] = "agent"
  /\ Goto(i, "exit")
  /\ \E e \in IF Wiped(i) THEN {"error"} ELSE Failures : ending' = Set(ending, i, e)
  /\ torn' = IF i \in Orphaned THEN torn \cup {i} ELSE torn
  /\ UNCHANGED <<disk, phase, batch, role, merging, reviewed>>

\* git add -A and git commit: everything in the worktree, whoever left it.
CommitWork(i) ==
  /\ pc[i] = "commit"
  /\ Goto(i, "clear")
  /\ commits' = Set(commits, i, commits[i] \cup dirty[i])
  /\ dirty' = Set(dirty, i, {})
  /\ UNCHANGED <<worktree, session, branch, main, closed, staged, phase, batch,
                 role, ending, merging, history>>

CommitFails(i) ==
  /\ pc[i] = "commit"
  /\ Goto(i, "exit")
  /\ ending' = Set(ending, i, "error")
  /\ UNCHANGED <<disk, phase, batch, role, merging, history>>

\* The second signal: the session directory is emptied and written again.
ClearSession(i) ==
  /\ pc[i] = "clear"
  /\ Goto(i, "signal")
  /\ session' = [session EXCEPT ![i][role[i]] = "started"]
  /\ UNCHANGED <<worktree, dirty, refs, phase, batch, role, ending, merging,
                 history>>

SignalDone(i) ==
  /\ pc[i] = "signal"
  /\ Goto(i, "exit")
  /\ session' = [session EXCEPT ![i][role[i]] = "done"]
  /\ ending' = Set(ending, i, "completed")
  /\ UNCHANGED <<worktree, dirty, refs, phase, batch, role, merging, history>>

\* An untracked file does not make a worktree dirty.
LooksClean(i) == IF dirty[i] = {} THEN {TRUE} ELSE BOOLEAN

\* Mutant: a clean worktree is removed although it has role sessions.
ExitIgnoresSessions(i) ==
  /\ pc[i] = "exit" /\ ending[i] = "limit" /\ Goto(i, "out")
  /\ \E clean \in LooksClean(i) :
       /\ worktree' = Set(worktree, i, ~clean)
       /\ dirty' = Set(dirty, i, IF clean THEN {} ELSE dirty[i])
  /\ UNCHANGED <<session, refs, phase, batch, role, ending, merging, history>>

\* The reviewer follows an implementer that completed; anything else ends the
\* work on the issue.
NextStep(i) ==
  IF ending[i] = "completed" /\ role[i] = Implementer
  THEN /\ Goto(i, "wait")
       /\ role' = Set(role, i, Reviewer)
       /\ ending' = Set(ending, i, "none")
  ELSE Goto(i, "out") /\ UNCHANGED <<role, ending>>

\* The worktree context is left: a worktree that looks clean and in which
\* nothing happened goes, with its branch when that carries nothing of its own.
Removable(i) ==
  /\ ending[i] \in {"limit", "completed"} /\ session[i] = NoSession
  /\ TRUE \in LooksClean(i)

KeepWorktree(i) ==
  /\ ~Removable(i) \/ FALSE \in LooksClean(i)
  /\ NextStep(i)
  /\ UNCHANGED <<disk, torn>>

LeaveNothing(i) ==
  /\ Removable(i)
  /\ Unregister(i)
  /\ branch' = Set(branch, i, ~Merged(i))
  /\ commits' = IF Merged(i) THEN Set(commits, i, {}) ELSE commits
  /\ NextStep(i)

\* The error of a removal, or of a deletion, takes the place of the ending.
LeaveFails(i) ==
  /\ Removable(i)
  /\ HalfRemove(i) \/ Unregister(i)
  /\ UNCHANGED <<branch, commits, role>>
  /\ Goto(i, "out") /\ ending' = Set(ending, i, "error")

ExitWorktree(i) ==
  /\ pc[i] = "exit"
  /\ KeepWorktree(i) \/ LeaveNothing(i) \/ LeaveFails(i)
  /\ UNCHANGED <<main, closed, staged, phase, batch, merging, reviewed>>

\* gather() returns when every run_issue has; a fatal error or a usage limit
\* ends the iteration, completed issues or not.
ImplementOver == phase = "implement" /\ \A i \in batch : pc[i] = "out"
Stopped == \E i \in batch : ending[i] \in {"limit", "failed"}

AbortIteration == ImplementOver /\ (Stopped \/ Completed = {}) /\ ToIdle

\* Mutant: an issue whose branch has nothing new is not merged, nor closed.
MergeOnlyNewWork ==
  /\ ImplementOver /\ ~Stopped /\ Completed # {}
  /\ phase' = "classify" /\ todo' = {i \in Completed : ~Merged(i)}
  /\ role' = [i \in Issues |-> Implementer]
  /\ ending' = [i \in Issues |-> "none"]
  /\ UNCHANGED <<disk, batch, pc, unref, landed, conflicts, history>>

BeginMerge ==
  /\ ImplementOver /\ ~Stopped /\ Completed # {}
  /\ phase' = "classify" /\ todo' = Completed
  /\ role' = [i \in Issues |-> Implementer]
  /\ ending' = [i \in Issues |-> "none"]
  /\ UNCHANGED <<disk, batch, pc, unref, landed, conflicts, history>>

-----------------------------------------------------------------------------
(* The merge phase. *)

\* One try_merge into the batch sandbox; a branch with nothing new is clean.  A
\* branch that is not there raises (ClassifyFails).
MergeClean(i) ==
  /\ phase = "classify" /\ i \in todo /\ branch[i]
  /\ todo' = todo \ {i} /\ landed' = landed \cup {i}
  /\ UNCHANGED <<disk, phase, batch, pc, role, ending, unref, conflicts, history>>

MergeConflicts(i) ==
  /\ phase = "classify" /\ i \in todo /\ branch[i] /\ ~Merged(i)
  /\ todo' = todo \ {i} /\ conflicts' = conflicts \cup {i}
  /\ UNCHANGED <<disk, phase, batch, pc, role, ending, unref, landed, history>>

\* The next step after the clean issues, or after one conflict, are handled:
\* another conflict, or the end; the merge-time preflight may block the rest.
GoOn ==
  /\ conflicts # {}
  /\ phase' = "recover" /\ landed' = {}
  /\ UNCHANGED <<disk, batch, pc, role, ending, todo, unref, conflicts, history>>

NextConflict == ToIdle \/ GoOn

\* A sandbox is built anew when the operating branch has moved.
StaysStaged == IF main' = main THEN staged ELSE {}

\* The operating branch is advanced to the sandbox in one ref update.
Advance ==
  /\ phase = "classify" /\ todo = {} /\ landed # {}
  /\ main' = [i \in Issues |-> IF i \in landed THEN main[i] \cup commits[i] ELSE main[i]]
  /\ staged' = StaysStaged
  /\ phase' = "close" /\ todo' = landed
  /\ UNCHANGED <<tree, branch, commits, closed, batch, pc, role, ending, unref, landed,
                 conflicts, history>>

\* A merge that neither succeeds nor can be aborted, or the advance, raises.
ClassifyFails == phase = "classify" /\ ToIdle

NothingClean == phase = "classify" /\ todo = {} /\ landed = {} /\ NextConflict

\* Closing may fail at GitHub; the merge goes on all the same.
CloseIssue(i) ==
  /\ phase \in {"close", "close_conflict"} /\ i \in todo
  /\ todo' = todo \ {i}
  /\ closed' \in {closed, closed \cup {i}}
  /\ UNCHANGED <<tree, branch, commits, main, staged, phase, batch, pc, role, ending,
                 unref, landed, conflicts, history>>

ClosingOver ==
  /\ phase = "close" /\ todo = {}
  /\ phase' = "teardown" /\ todo' = landed
  /\ UNCHANGED <<disk, batch, pc, role, ending, unref, landed, conflicts, history>>

\* teardown_merged_branch: the branch is on the operating branch, so its
\* worktree is removed by force, with the sessions and whatever is in it.  Files
\* at the path of a worktree that is not registered are let be.
TearsDown(i) == phase \in {"teardown", "teardown_conflict"} /\ i \in todo /\ Merged(i)

RemoveWorktree(i) ==
  /\ TearsDown(i)
  /\ todo' = todo \ {i} /\ unref' = unref \cup {i}
  /\ IF worktree[i] THEN Unregister(i) ELSE UNCHANGED <<tree, torn>>
  /\ UNCHANGED <<refs, phase, batch, pc, role, ending, landed, conflicts, reviewed>>

\* Mutant: the branch is deleted even where it is checked out.
DeleteCheckedOut(i) ==
  /\ TearsDown(i) /\ worktree[i]
  /\ todo' = todo \ {i}
  /\ HalfRemove(i)
  /\ branch' = Set(branch, i, FALSE) /\ commits' = Set(commits, i, {})
  /\ UNCHANGED <<main, closed, staged, phase, batch, pc, role, ending, unref, landed,
                 conflicts, reviewed>>

\* A timeout is only a warning; git then refuses to delete the branch, which is
\* still checked out.
RemoveTimesOut(i) ==
  /\ TearsDown(i) /\ worktree[i]
  /\ todo' = todo \ {i}
  /\ HalfRemove(i)
  /\ UNCHANGED <<refs, phase, batch, pc, role, ending, unref, landed, conflicts, reviewed>>

DeleteBranch(i) ==
  /\ i \in unref
  /\ unref' = unref \ {i}
  /\ \/ branch' = Set(branch, i, FALSE) /\ commits' = Set(commits, i, {})
     \/ UNCHANGED <<branch, commits>>
  /\ UNCHANGED <<tree, main, closed, staged, phase, batch, pc, role, ending, todo, landed,
                 conflicts, history>>

TeardownOver == phase = "teardown" /\ todo = {} /\ unref = {} /\ NextConflict

\* The merge agent resolves one conflict: the branch is verified to be in the
\* result before and after the operating branch is advanced to it.
Recover(i) ==
  /\ phase = "recover" /\ i \in conflicts \ staged
  /\ main' = Set(main, i, main[i] \cup commits[i])
  /\ staged' = StaysStaged
  /\ phase' = "teardown_conflict"
  /\ todo' = {i} /\ landed' = {i} /\ conflicts' = conflicts \ {i}
  /\ UNCHANGED <<tree, branch, commits, closed, batch, pc, role, ending, unref, history>>

\* Any failure leaves this conflict and the later ones for a later iteration.  A
\* merge that was staged and not committed makes every later entry fail.
RecoverFails ==
  /\ phase = "recover"
  /\ Forget
  /\ \E i \in conflicts : staged' \in {staged, staged \cup {i}}
  /\ UNCHANGED torn

\* A recovered issue is closed only after its branch is torn down.
ConflictTornDown ==
  /\ phase = "teardown_conflict" /\ todo = {} /\ unref = {}
  /\ phase' = "close_conflict" /\ todo' = landed
  /\ UNCHANGED <<disk, batch, pc, role, ending, unref, landed, conflicts, history>>

ConflictClosed == phase = "close_conflict" /\ todo = {} /\ NextConflict

-----------------------------------------------------------------------------
Implement(i) ==
  \/ PlanIssue(i) \/ OpenWorktree(i) \/ OpenFails(i) \/ StartAgent(i) \/ RefuseAgent(i)
  \/ AgentSucceeds(i) \/ AgentFails(i) \/ CommitWork(i) \/ CommitFails(i)
  \/ ClearSession(i) \/ SignalDone(i) \/ ExitWorktree(i)

Merge(i) ==
  \/ MergeClean(i) \/ MergeConflicts(i) \/ CloseIssue(i)
  \/ RemoveWorktree(i) \/ RemoveTimesOut(i) \/ DeleteBranch(i) \/ Recover(i)

Coordinate ==
  \/ AbortIteration \/ BeginMerge \/ Advance \/ ClassifyFails \/ NothingClean
  \/ ClosingOver \/ TeardownOver \/ RecoverFails \/ ConflictTornDown \/ ConflictClosed

Next ==
  \/ BeginIteration \/ Crash \/ Coordinate
  \/ \E i \in Issues :
       \/ Implement(i) \/ Merge(i) \/ PruneOrphans(i)
       \/ AgentWrites(i) \/ AgentContinues(i) \/ WipeSession(i) \/ RemakeSession(i)

Spec == Init /\ [][Next]_vars

\* An iteration under way goes on: agents end (they have timeouts), and git
\* and GitHub answer.
FairSpec ==
  /\ Spec
  /\ WF_vars(Coordinate)
  /\ \A i \in Issues : WF_vars(Implement(i)) /\ WF_vars(Merge(i))

\* Whoever asks often enough is served: pycastle is run again after every
\* crash and abort, and an agent (of a merge, too), git, a preflight or GitHub
\* that may fail each time does not fail every time.  A branch may conflict
\* whenever it is merged.
Served(i) ==
  /\ SF_vars(PlanIssue(i)) /\ SF_vars(OpenWorktree(i)) /\ SF_vars(StartAgent(i))
  /\ SF_vars(AgentSucceeds(i)) /\ SF_vars(CommitWork(i)) /\ SF_vars(SignalDone(i))
  /\ SF_vars(MergeClean(i) \/ MergeConflicts(i)) /\ SF_vars(Recover(i))
  /\ SF_vars(CloseIssue(i) /\ i \in closed')

RetrySpec ==
  /\ FairSpec
  /\ WF_vars(BeginIteration) /\ SF_vars(BeginMerge) /\ SF_vars(Advance)
  /\ SF_vars(Coordinate /\ GoOn)
  /\ \A i \in Issues : Served(i)

-----------------------------------------------------------------------------
Steps  == {"out", "plan", "wait", "open", "agent", "commit", "clear", "signal", "exit"}
Phases == {"idle", "implement", "classify", "close", "teardown", "recover",
           "teardown_conflict", "close_conflict"}

\* Every variable has its type.
TypeOK ==
  /\ worktree \in [Issues -> BOOLEAN] /\ branch \in [Issues -> BOOLEAN]
  /\ {commits, dirty, main, reviewed} \subseteq [Issues -> SUBSET Work]
  /\ session \in [Issues -> [Roles -> SessionStates]]
  /\ {closed, staged, torn} \subseteq SUBSET Issues
  /\ phase \in Phases /\ batch \subseteq Issues
  /\ pc \in [Issues -> Steps] /\ role \in [Issues -> Roles]
  /\ ending \in [Issues -> {"none", "completed"} \cup Failures]
  /\ {todo, unref, landed, conflicts} \subseteq SUBSET batch

\* README.md: "issues are only closed after code is confirmed on the main
\* branch".  Whatever is committed on a closed issue's branch is there, and no
\* later iteration commits to it; the branch exists as long as it has commits.
ClosedIsMerged ==
  /\ \A i \in closed : Merged(i)
  /\ \A i \in Issues : commits[i] # {} => branch[i]

\* What a merge takes up is still there, whatever teardown was aborted or
\* failed half-way: try_merge asks for a deleted branch only where files that
\* could not be removed still say that an issue is done that was merged before
\* and could not be closed.  What conflicts is there.
MergeFindsBranches ==
  phase \in {"classify", "recover"} =>
    /\ \A i \in todo : (branch[i] /\ worktree[i]) \/ (i \in Rubble /\ Merged(i))
    /\ \A i \in conflicts : branch[i] /\ worktree[i]

\* No work reaches the operating branch that no reviewer had before it,
\* however often the roles were interrupted and skipped.
MergedWasReviewed == \A i \in Issues : main[i] \subseteq reviewed[i]

\* The review of the issue is done, and stays so until its worktree goes.
Done(i) == session[i][Reviewer] = "done"
HadReview(i) == commits[i] \cup dirty[i] \subseteq reviewed[i]

\* A worktree has its branch, sessions have their worktree or what is left of
\* it, and uncommitted work has the session of the role that left it, except
\* where start_fresh or a removal of merged work was cut short.  What is left
\* calls an issue done only if that is merged.
WorktreesFit ==
  \A i \in Issues :
    /\ worktree[i] => branch[i]
    /\ dirty[i] # {} =>
         worktree[i] /\ (session[i] # NoSession \/ pc[i] = "agent" \/ i \in torn)
    /\ i \in InWorktree => worktree[i]
    /\ i \in Rubble /\ Done(i) => Merged(i)

\* Where run_issue is fits the sessions and what a reviewer has seen: work is
\* only done before the review is, and completed issues are reviewed.
StepsFit ==
  \A i \in Issues :
    /\ pc[i] # "out" => phase = "implement" /\ i \in batch \ closed
    /\ Done(i) => HadReview(i)
    /\ pc[i] \in {"commit", "clear", "signal"} /\ role[i] = Reviewer => HadReview(i)
    /\ pc[i] \in {"wait", "open", "agent"} \/ (i \in InWorktree /\ role[i] = Implementer)
         => ~Done(i)
    /\ pc[i] \in {"commit", "clear", "signal"} => session[i][role[i]] # "none"
    /\ pc[i] = "exit" /\ ending[i] = "completed" => session[i][role[i]] = "done"
    /\ phase = "implement" /\ pc[i] = "out" /\ i \in Completed => Done(i)

\* What the merge phase has taken up, landed and put off: reviewed until it is
\* torn down, and on the operating branch before that.
MergeFits ==
  /\ phase \in {"idle", "implement"} => {todo, unref, landed, conflicts} = {{}}
  /\ phase = "classify" =>
       /\ \A i \in todo \cup landed : Done(i)
       /\ todo \cap (landed \cup conflicts) = {}
  /\ phase \in {"close", "teardown", "recover", "teardown_conflict", "close_conflict"} =>
       todo \cup unref \subseteq landed /\ \A i \in landed : Merged(i)
  /\ unref # {} => phase \in {"teardown", "teardown_conflict"}
  /\ phase = "recover" => landed = {}
  /\ phase = "close" => \A i \in landed : Done(i)
  /\ phase \in {"teardown", "teardown_conflict"} => \A i \in todo : Done(i)
  /\ landed \cap conflicts = {} /\ \A i \in conflicts : Done(i) /\ worktree[i]
  /\ \A i \in unref : ~worktree[i]

\* In every state of implementing, merging and tearing down the disk, the
\* batch and GitHub fit together: what is closed is merged, and what a merge
\* takes up is there.  It is inductive.
Inv ==
  /\ TypeOK /\ ClosedIsMerged /\ MergeFindsBranches /\ MergedWasReviewed
  /\ WorktreesFit /\ StepsFit /\ MergeFits

\* Uncommitted work is dropped only when the issue's review is done and its
\* commits are on the operating branch; else a worktree goes away clean.  The
\* exception is work beside which a crash or an error inside of start_fresh, or
\* a removal that timed out, has left no session.
UncommittedSurvives ==
  [][\A i \in Issues :
       \/ dirty[i] \subseteq dirty'[i] \cup commits'[i]
       \/ session[i][Reviewer] = "done" /\ Merged(i)
       \/ i \in torn]_vars

\* Of two issues that wait for each other's semaphores neither waits for
\* ever: every iteration ends, with its agents, merges and teardowns.
IterationEnds == (phase # "idle") ~> (phase = "idle")

\* What a later iteration cannot get past: a sandbox with a staged merge, and
\* the remains of a merged issue without its branch that call it done.
Stuck == staged # {} \/ \E i \in Rubble : Done(i) /\ ~branch[i]

\* Every issue is closed at last: no crash, no conflict, and no failed commit,
\* recovery, close or teardown but those two leaves it where the next iterations
\* cannot pick it up.
IssuesClose == \A i \in Issues : <>(i \in closed \/ Stuck)

-----------------------------------------------------------------------------
\* The pipeline implements IssueDelivery, its disk as the abstract state.
Delivery == INSTANCE IssueDelivery WITH branch <- commits

\* Every step of the phases is a step, or a stutter, of IssueDelivery.
Implements == Delivery!Spec
=============================================================================
