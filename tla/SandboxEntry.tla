----------------------------- MODULE SandboxEntry -----------------------------
(***************************************************************************)
(* The sandbox worktrees of the roles that work beside the issue branches  *)
(* (iteration/sandbox_role_session.py, infrastructure/worktree.py): how an *)
(* entry decides between the worktree and the conversation an earlier one  *)
(* left and a new worktree, and what leaving keeps.  A merger's sandbox    *)
(* holds the merge of one conflicting branch besides                       *)
(* (iteration/_merge_conflict_recovery.py), a resolver's the divergence of *)
(* the operating branch, a reader's nothing the host uses.                 *)
(*                                                                         *)
(* A commit of the operating branch is a number, and so is the fingerprint *)
(* of a role's inputs, which change with it.  The checkout gate and what   *)
(* follows a merge are in RemoteSync and IssuePipeline.                    *)
(***************************************************************************)
EXTENDS Naturals

CONSTANTS Mergers,       \* the conflicts, each with its merger and sandbox
          Readers,       \* the roles with a reusable sandbox
          NoFingerprint, \* not a fingerprint
          MaxMoves,      \* bound: others move the operating branch only below it
          MaxFaults      \* bound: crashes, and git commands that fail an entry

ASSUME RolesAssumption == Mergers \cap Readers = {}
ASSUME BoundsAssumption == MaxMoves \in Nat /\ MaxFaults \in Nat
ASSUME NoneAssumption == NoFingerprint \notin Nat

Roles == Mergers \cup Readers
Shas  == Nat

VARIABLES
  head,      \* the tip of the operating branch
  solved,    \* the conflicts that are on it
  place,     \* the sandbox directory: "none", "tree" (a registered worktree
             \* on its branch) or "leftover" (neither)
  branch,    \* the sandbox's branch exists
  base,      \* the commit of the operating branch that branch was made from
  own,       \* it has commits of its own
  content,   \* "clean", "edited", "unmerged" (a merge is under way) or
             \* "staged" (its resolution is in the index)
  session,   \* the role's session directory
  born,      \* the inputs the conversation of that session was begun with
  kept,      \* the sandboxes with a .preserved-failure marker
  stuck,     \* those that an entry found as they were since it could not remove
             \* them
  at,        \* the step the entry under way is at
  role,      \* whose entry that is
  want,      \* the fingerprint it was asked with
  mode,      \* the conversation is "new", or goes on: "resumed"
  ending,    \* how the block inside the sandbox ended
  faults

trees       == <<place, branch, base, own, content>>
sandboxes   == <<trees, session, kept, stuck>>
entry       == <<at, role, want, mode, ending>>
sandboxVars == <<head, solved, sandboxes, born, entry, faults>>

Absent == [dir |-> FALSE, stamp |-> NoFingerprint, cont |-> FALSE]
Set(f, r, v) == [f EXCEPT ![r] = v]

SandboxInit ==
  /\ head = 0 /\ solved = {}
  /\ place = [r \in Roles |-> "none"] /\ branch = [r \in Roles |-> FALSE]
  /\ base = [r \in Roles |-> 0] /\ own = [r \in Roles |-> FALSE]
  /\ content = [r \in Roles |-> "clean"]
  /\ session = [r \in Roles |-> Absent] /\ born = [r \in Roles |-> NoFingerprint]
  /\ kept = {} /\ stuck = {}
  /\ at = "idle" /\ role \in Roles /\ want = NoFingerprint
  /\ mode = "none" /\ ending = "none" /\ faults = 0

Idle ==
  /\ at' = "idle" /\ want' = NoFingerprint /\ mode' = "none" /\ ending' = "none"
  /\ UNCHANGED role

Goto(l) == at' = l /\ UNCHANGED <<role, want, mode, ending>>

\* The block raises or returns; the worktree context is left next.
Leave(e) == at' = "exit" /\ ending' = e /\ UNCHANGED <<role, want, mode>>

-----------------------------------------------------------------------------
(* Entering. *)

\* The phase reads the tip of the operating branch and makes the fingerprint.
BeginEntry(r) ==
  /\ at = "idle" /\ r \notin solved
  /\ at' = "gate" /\ role' = r /\ want' = head /\ UNCHANGED <<mode, ending>>
  /\ UNCHANGED <<head, solved, sandboxes, born, faults>>

Discarded(r) == session' = Set(session, r, Absent)

\* Mutant: an absent stamp counts as a fitting one.
GateTrustsUnstamped ==
  /\ at = "gate"
  /\ IF session[role].stamp \notin {want, NoFingerprint}
     THEN Discarded(role) ELSE UNCHANGED session
  /\ Goto("enter")
  /\ UNCHANGED <<head, solved, trees, born, kept, stuck, faults>>

\* prepare_fingerprint_gate
Gate ==
  /\ at = "gate"
  /\ IF session[role].stamp # want THEN Discarded(role) ELSE UNCHANGED session
  /\ Goto("enter")
  /\ UNCHANGED <<head, solved, trees, born, kept, stuck, faults>>

\* rmtree is cut short: any of the files are left.
Torn(s) ==
  {[dir |-> TRUE, stamp |-> stamp, cont |-> cont] :
     stamp \in {s.stamp, NoFingerprint}, cont \in {s.cont, FALSE}}

GateCutShort ==
  /\ at = "gate" /\ session[role].dir /\ session[role].stamp # want
  /\ faults < MaxFaults /\ faults' = faults + 1
  /\ \E s \in Torn(session[role]) : session' = Set(session, role, s)
  /\ Idle
  /\ UNCHANGED <<head, solved, trees, born, kept, stuck>>

\* is_worktree_reusable: the branch is checked out and the role has a session.
Reusable(r) == place[r] = "tree" /\ session[r].dir

\* A merger's sandbox is rebuilt unless its conversation goes on.
Rebuilds(r) == r \in Mergers /\ ~session[r].cont

Reuse ==
  /\ at = "enter" /\ Reusable(role) /\ ~Rebuilds(role)
  /\ Goto("stamp")
  /\ UNCHANGED <<head, solved, sandboxes, born, faults>>

\* An entry that has n commands fail gives the sandbox up, besides one more where
\* it is reusable: is_worktree_reusable takes an error of git for "no".
GivesUp(n) ==
  /\ at = "enter" /\ Goto("create")
  /\ faults' = faults + n + (IF Rebuilds(role) \/ ~Reusable(role) THEN 0 ELSE 1)
  /\ faults' <= MaxFaults

\* _cleanup_stale_named_worktree: every failure is suppressed.
CleanUp ==
  /\ GivesUp(0)
  /\ place' = Set(place, role, "none") /\ content' = Set(content, role, "clean")
  /\ Discarded(role) /\ kept' = kept \ {role}
  /\ branch' = Set(branch, role, FALSE) /\ own' = Set(own, role, FALSE)
  /\ UNCHANGED <<head, solved, base, born, stuck>>

\* The worktree is unregistered but its files cannot all be removed; or the
\* branch cannot be deleted.
CleanUpFails ==
  /\ place[role] # "none" /\ GivesUp(1)
  /\ content' = Set(content, role, "clean")
  /\ \/ /\ place' = Set(place, role, "leftover") /\ UNCHANGED <<session, kept>>
        /\ branch' = Set(branch, role, FALSE) /\ own' = Set(own, role, FALSE)
     \/ /\ place' = Set(place, role, "none") /\ Discarded(role) /\ kept' = kept \ {role}
        /\ UNCHANGED <<branch, own>>
  /\ UNCHANGED <<head, solved, base, born, stuck>>

\* remove_worktree raises, a timeout say: the tree stays registered, with all its
\* files or some, and git deletes no branch that is checked out.
CleanUpRaises ==
  /\ place[role] = "tree" /\ GivesUp(1)
  /\ stuck' = stuck \cup {role}
  /\ \/ UNCHANGED <<content, session>>
     \/ /\ content' = IF content[role] = "clean" THEN Set(content, role, "edited") ELSE content
        /\ \E s \in {Absent} \cup (IF session[role].dir THEN Torn(session[role]) ELSE {}) :
             session' = Set(session, role, s)
  /\ UNCHANGED <<head, solved, place, branch, base, own, born, kept>>

\* _create_worktree removes what is left, and resets a branch that was left,
\* too, unless that has commits of its own.
Create ==
  /\ at = "create" /\ place[role] # "tree"
  /\ place' = Set(place, role, "tree") /\ branch' = Set(branch, role, TRUE)
  /\ base' = IF branch[role] /\ own[role] THEN base ELSE Set(base, role, want)
  /\ Discarded(role) /\ kept' = kept \ {role} /\ stuck' = stuck \ {role}
  /\ Goto("stamp")
  /\ UNCHANGED <<head, solved, own, content, born, faults>>

\* It takes a registered worktree as it is, if that has the project's files.
CreateFindsTree ==
  /\ at = "create" /\ place[role] = "tree" /\ Goto("stamp")
  /\ UNCHANGED <<head, solved, sandboxes, born, faults>>

\* git cannot create it, or what is left stays; it is created, but a branch that
\* was left not reset; a registered worktree has lost its files and goes, too.
CreateFails ==
  /\ at = "create" /\ Idle
  /\ \/ UNCHANGED <<trees, session, kept>>
     \/ /\ place[role] # "tree" /\ branch[role] /\ place' = Set(place, role, "tree")
        /\ Discarded(role) /\ kept' = kept \ {role} /\ UNCHANGED <<branch, base, own, content>>
     \/ /\ place[role] = "tree" /\ place' = Set(place, role, "none")
        /\ content' = Set(content, role, "clean") /\ Discarded(role)
        /\ kept' = kept \ {role} /\ UNCHANGED <<branch, base, own>>
  /\ UNCHANGED <<head, solved, stuck, born, faults>>

\* write_fingerprint; the mount guard passes every sandbox path.
Stamp ==
  /\ at = "stamp"
  /\ session' = Set(session, role, [session[role] EXCEPT !.dir = TRUE, !.stamp = want])
  /\ Goto(IF role \in Mergers THEN "merge" ELSE "agent")
  /\ UNCHANGED <<head, solved, trees, born, kept, stuck, faults>>

-----------------------------------------------------------------------------
(* Inside. *)

\* Mutant: a branch that is merged already is taken for a failed merge.
StartMergeRefusesMerged ==
  /\ at = "merge"
  /\ IF content[role] = "clean" /\ ~own[role]
     THEN content' = Set(content, role, "unmerged") /\ Goto("agent")
     ELSE UNCHANGED content /\ IF content[role] = "unmerged" THEN Goto("agent") ELSE Leave("failed")
  /\ UNCHANGED <<head, solved, place, branch, base, own, session, born, kept, stuck, faults>>

\* start_merge: a merge is begun, or goes on where git says "conflict"; one
\* whose conflicts are all staged is refused without that word, and so may be one
\* that would overwrite changes.
StartMerge ==
  /\ at = "merge"
  /\ \/ /\ content[role] \in {"clean", "edited"} /\ ~own[role]
        /\ content' = Set(content, role, "unmerged") /\ Goto("agent") /\ UNCHANGED own
     \/ /\ content[role] = "clean" \/ (own[role] /\ content[role] = "edited")
        /\ own' = Set(own, role, TRUE) /\ Goto("advance") /\ UNCHANGED content
     \/ content[role] = "unmerged" /\ Goto("agent") /\ UNCHANGED <<own, content>>
     \/ /\ content[role] = "staged" \/ (content[role] = "edited" /\ ~own[role])
        /\ Leave("failed") /\ UNCHANGED <<own, content>>
  /\ UNCHANGED <<head, solved, place, branch, base, session, born, kept, stuck, faults>>

\* The attempt loop begins a conversation or goes on with the last one.
StartAgent ==
  /\ at = "agent"
  /\ at' = "work" /\ mode' = IF session[role].cont THEN "resumed" ELSE "new"
  /\ born' = IF session[role].cont THEN born ELSE Set(born, role, want)
  /\ UNCHANGED <<role, want, ending, head, solved, sandboxes, faults>>

\* The agent changes files, stages a resolution or commits it.
AgentWrites ==
  /\ at = "work"
  /\ \/ /\ content[role] = "clean" /\ content' = Set(content, role, "edited")
        /\ UNCHANGED own
     \/ content[role] = "unmerged" /\ content' = Set(content, role, "staged") /\ UNCHANGED own
     \/ content[role] = "staged" /\ content' = Set(content, role, "clean")
        /\ own' = Set(own, role, TRUE)
  /\ UNCHANGED <<head, solved, place, branch, base, session, born, kept, stuck, entry, faults>>

\* The service no longer knows the conversation: the session is emptied, with
\* its fingerprint, and another one begun.
Expires ==
  /\ at = "work" /\ mode = "resumed"
  /\ session' = Set(session, role, [Absent EXCEPT !.dir = TRUE])
  /\ mode' = "new" /\ born' = Set(born, role, want)
  /\ UNCHANGED <<head, solved, trees, kept, stuck, at, role, want, ending, faults>>

\* A usage limit, or an error that passes, after the continuation was written
\* or before there was one.
Interrupted ==
  /\ at = "work" /\ Leave("limit")
  /\ \E cont \in {TRUE, session[role].cont} :
       session' = Set(session, role, [session[role] EXCEPT !.cont = cont])
  /\ UNCHANGED <<head, solved, trees, born, kept, stuck, faults>>

AgentFails ==
  /\ at = "work" /\ Leave("failed")
  /\ \E cont \in {TRUE, session[role].cont} :
       session' = Set(session, role, [session[role] EXCEPT !.cont = cont])
  /\ UNCHANGED <<head, solved, trees, born, kept, stuck, faults>>

\* The session's files go, the fingerprint with them; its directory, with _done,
\* stays.
RoleCompletes ==
  /\ at = "work"
  /\ session' = Set(session, role, [Absent EXCEPT !.dir = TRUE])
  /\ IF role \in Mergers THEN Goto("commit") ELSE Leave("completed")
  /\ UNCHANGED <<head, solved, trees, born, kept, stuck, faults>>

\* git commit; a resolution that equals the operating branch is not committed,
\* and the check that the branch was merged then fails.
CommitMerge ==
  /\ at = "commit"
  /\ \/ own' = Set(own, role, TRUE) /\ content' = Set(content, role, "clean")
        /\ Goto("advance")
     \/ ~own[role] /\ Leave("failed") /\ content' = Set(content, role, "staged")
        /\ UNCHANGED own
  /\ UNCHANGED <<head, solved, place, branch, base, session, born, kept, stuck, faults>>

\* advance_branch_ref is a fast-forward or nothing; the session goes after it.
Advance ==
  /\ at = "advance" /\ base[role] = head
  /\ head' = head + 1 /\ solved' = solved \cup {role} /\ Discarded(role)
  /\ Leave("completed")
  /\ UNCHANGED <<trees, born, kept, stuck, faults>>

AdvanceFails ==
  /\ at = "advance" /\ base[role] # head /\ Leave("failed")
  /\ UNCHANGED <<head, solved, sandboxes, born, faults>>

-----------------------------------------------------------------------------
(* Leaving, and what happens besides. *)
Dirty(r) == content[r] # "clean"

Marked == IF ending = "failed" THEN kept \cup {role} ELSE kept

\* Mutant: what a limit interrupted is torn down.
ExitDropsInterrupted ==
  /\ at = "exit" /\ ending = "limit" /\ Idle
  /\ place' = Set(place, role, "none") /\ content' = Set(content, role, "clean")
  /\ branch' = Set(branch, role, FALSE) /\ own' = Set(own, role, FALSE)
  /\ Discarded(role) /\ UNCHANGED <<head, solved, base, born, kept, stuck, faults>>

\* _teardown_worktree_branch: a worktree with a failure, a change or a session
\* stays; any other goes, and its branch with it.
Stays == ending = "failed" \/ Dirty(role) \/ session[role].dir

Exit ==
  /\ at = "exit" /\ Idle
  /\ kept' = Marked
  /\ IF Stays
     THEN UNCHANGED trees
     ELSE /\ place' = Set(place, role, "none") /\ branch' = Set(branch, role, FALSE)
          /\ own' = Set(own, role, FALSE) /\ UNCHANGED <<base, content>>
  /\ UNCHANGED <<head, solved, session, born, stuck, faults>>

\* Its files, or its branch, cannot be removed.
ExitFails ==
  /\ at = "exit" /\ ~Stays /\ Idle
  /\ faults < MaxFaults /\ faults' = faults + 1
  /\ \/ /\ place' = Set(place, role, "leftover") /\ branch' = Set(branch, role, FALSE)
        /\ own' = Set(own, role, FALSE)
     \/ place' = Set(place, role, "none") /\ UNCHANGED <<branch, own>>
  /\ UNCHANGED <<head, solved, base, content, session, born, kept, stuck>>

Moves ==
  /\ head < MaxMoves /\ head' = head + 1
  /\ UNCHANGED <<solved, sandboxes, born, entry, faults>>

EntryCrashes ==
  /\ at # "idle" /\ faults < MaxFaults /\ faults' = faults + 1 /\ Idle
  /\ UNCHANGED <<head, solved, sandboxes, born>>

\* prune_orphan_worktrees, when a run starts.
Prune(r) ==
  /\ at = "idle" /\ place[r] = "leftover" /\ r \notin kept
  /\ place' = Set(place, r, "none") /\ session' = Set(session, r, Absent)
  /\ UNCHANGED <<head, solved, branch, base, own, content, born, kept, stuck, entry, faults>>

-----------------------------------------------------------------------------
Step ==
  \/ Gate \/ GateCutShort \/ Reuse \/ CleanUp \/ CleanUpFails \/ CleanUpRaises
  \/ Create \/ CreateFindsTree \/ CreateFails \/ Stamp \/ StartMerge \/ StartAgent
  \/ AgentWrites \/ Expires \/ Interrupted \/ AgentFails \/ RoleCompletes
  \/ CommitMerge \/ Advance \/ AdvanceFails \/ Exit \/ ExitFails

SandboxNext == Step \/ Moves \/ EntryCrashes \/ \E r \in Roles : BeginEntry(r) \/ Prune(r)

SandboxSpec == SandboxInit /\ [][SandboxNext]_sandboxVars

\* An entry goes on; a conflict is taken up again, and what may fail does not
\* fail every time.
Served(m) ==
  /\ SF_sandboxVars(BeginEntry(m)) /\ SF_sandboxVars(Create /\ role = m)
  /\ SF_sandboxVars(RoleCompletes /\ role = m)
  /\ SF_sandboxVars(CommitMerge /\ role = m /\ at' = "advance")

SandboxFairSpec == SandboxSpec /\ WF_sandboxVars(Step) /\ \A m \in Mergers : Served(m)

-----------------------------------------------------------------------------
Stamps == Shas \cup {NoFingerprint}
Sessions == [dir : BOOLEAN, stamp : Stamps, cont : BOOLEAN]
SandboxSteps == {"idle", "gate", "enter", "create", "stamp", "merge", "agent", "work",
                 "commit", "advance", "exit"}

\* Every variable has its type.
SandboxTypeOK ==
  /\ head \in Shas /\ solved \subseteq Mergers
  /\ place \in [Roles -> {"none", "tree", "leftover"}]
  /\ branch \in [Roles -> BOOLEAN] /\ own \in [Roles -> BOOLEAN]
  /\ base \in [Roles -> Shas]
  /\ content \in [Roles -> {"clean", "edited", "unmerged", "staged"}]
  /\ session \in [Roles -> Sessions]
  /\ born \in [Roles -> Stamps] /\ kept \subseteq Roles /\ stuck \subseteq Roles
  /\ at \in SandboxSteps /\ role \in Roles /\ want \in Stamps
  /\ mode \in {"none", "new", "resumed"}
  /\ ending \in {"none", "limit", "failed", "completed"} /\ faults \in 0..MaxFaults

\* No agent begins its work on the code of an earlier day, whatever an earlier
\* entry, cut short anywhere, left of the sandbox: the tree was made from the
\* commit of its fingerprint, unless its branch has commits of its own and
\* could not be deleted, or the removal of the tree raised, which is suppressed
\* and leaves a worktree that _create_worktree takes as it is.
FreshBase ==
  at = "work" /\ mode = "new" => base[role] = want \/ own[role] \/ role \in stuck

\* A conversation goes on only for the inputs it was begun with, whatever was
\* lost of the session or moved since.
ResumesFit == at = "work" /\ mode = "resumed" => born[role] = want

\* A conversation that can be gone on with, for the inputs of now.
Live(r) ==
  place[r] = "tree" /\ session[r].cont /\ session[r].stamp = head /\ born[r] = head

\* A step in which git fails an entry of the role, or that follows such a step.
GitFailed(r) ==
  role = r /\ \/ at = "enter" /\ faults' > faults
              \/ at = "create" /\ r \in stuck

\* What a limit, a crash or a failure interrupts can be gone on with as long as
\* its inputs hold: nobody but its own run gives a stamped conversation up, except
\* for an entry of its role that cannot ask git for the branch of the worktree.
LiveConversationsStay ==
  [][\A r \in Roles :
       Live(r) =>
         \/ session'[r].cont /\ place'[r] = "tree"
         \/ r \in solved' \/ (at = "work" /\ role = r) \/ GitFailed(r)]_sandboxVars

\* A tree that could not be removed has the resolution on an older commit, and a
\* conversation that goes on with it: no advance accepts that commit.
Lags(m) == m \in stuck /\ own[m] /\ session[m].cont /\ base[m] # head

\* Every conflict is recovered at last, however often its sandbox was left half
\* made, stale or unremovable; except for one that holds a staged resolution,
\* which is refused at every entry, and one that lags until the branch moves.
ConflictsEnd ==
  \A m \in Mergers : <>[](m \in solved \/ content[m] = "staged" \/ Lags(m))

\* A worktree that has a stamped session is on the commit of that stamp, and so
\* is the one of an entry, unless its branch or itself could not be removed.
OnItsCommit ==
  /\ \A r \in Roles : Reusable(r) /\ session[r].stamp # NoFingerprint
                        => base[r] = session[r].stamp \/ own[r] \/ r \in stuck
  /\ at \in {"stamp", "merge", "agent", "work", "commit", "advance"}
       => base[role] = want \/ own[role] \/ role \in stuck

\* A conversation that can be gone on with has the inputs of its stamp.
ConversationsWhole ==
  \A r \in Roles :
    session[r].cont =>
      /\ session[r].dir
      /\ session[r].stamp # NoFingerprint => born[r] = session[r].stamp

\* Stamps are of commits that were, and of none after the entry began.
StampsArePast ==
  /\ \A r \in Roles : session[r].stamp # NoFingerprint => session[r].stamp <= head
  /\ at # "idle" => /\ want \in Nat /\ want <= head
                    /\ session[role].stamp # NoFingerprint => session[role].stamp <= want

\* What an entry has found out of the session at each of its steps.
EntryKnows ==
  /\ at = "enter"  => session[role] = Absent \/ session[role].stamp = want
  /\ at = "create" /\ place[role] = "tree" => role \in stuck
  /\ at \in {"create", "stamp"} => session[role].stamp \in {want, NoFingerprint}
  /\ at \in {"create", "stamp"} /\ session[role].cont => born[role] = want
  /\ at \in {"stamp", "merge", "agent", "work"} => place[role] = "tree"
  /\ at \in {"merge", "agent"} => session[role].dir /\ session[role].stamp = want
  /\ at \in {"merge", "commit", "advance"} => role \in Mergers
  /\ at = "work" => /\ session[role].dir /\ session[role].stamp \in {want, NoFingerprint}
                    /\ born[role] = want

\* However the sandboxes and sessions were left: an agent begins on the code of
\* its fingerprint, and a conversation that is resumed was begun on it; and what
\* that rests on.
SandboxInv ==
  /\ SandboxTypeOK /\ FreshBase /\ ResumesFit
  /\ OnItsCommit /\ ConversationsWhole /\ StampsArePast /\ EntryKnows
=============================================================================
