----------------------------- MODULE RemoteSync -----------------------------
(***************************************************************************)
(* The operating branch between this clone and origin: its refresh and the *)
(* preflight verdict for its tip (iteration/preflight.py), the ref updates *)
(* of the merge phase behind the checkout gate (iteration/merge.py), and   *)
(* the push with its recovery (services/git_service.py).  Others push to   *)
(* origin and the operator uses the clone meanwhile; remote operations     *)
(* fail, and the process may die.                                          *)
(*                                                                         *)
(* A ref is the set of commits it reaches, so that "is an ancestor of" is  *)
(* \subseteq; commits are numbered as they are made, and the newest commit *)
(* of a ref is its tip.  origin = {} before the branch was ever pushed.    *)
(***************************************************************************)
EXTENDS Naturals, FiniteSets

CONSTANTS MaxAttempts,     \* _REMOTE_RETRY_PROFILE.max_attempts
          MaxCommits,      \* bound: an iteration is begun, and others commit,
                           \* only while fewer commits were made
          MaxGrabs,        \* bound: times the operator takes the branch
          MaxConflicts     \* bound: issues of a batch that conflict

ASSUME AttemptsAssumption == MaxAttempts \in Nat \ {0}
ASSUME BoundsAssumption ==
  MaxCommits \in Nat /\ MaxGrabs \in Nat /\ MaxConflicts \in Nat

VARIABLES
  origin,    \* the branch at the remote
  local,     \* refs/heads/<branch>
  tracking,  \* refs/remotes/origin/<branch>
  made,      \* commits made so far
  breaks,    \* those whose tree fails the checks
  place,     \* where the branch is checked out: "none", "root" or "elsewhere"
  grabs,
  pc,        \* the step the program is at
  asker,     \* for whom the branch is refreshed: "plan", "merge" or "push"
  attempt,   \* of the push
  tries,     \* of the fetch or pull under way
  sandbox,   \* the branch of the sandbox worktree
  kept,      \* the sandbox of the divergence resolver that is on disk: where it
             \* was made, and its branch
  verdict,   \* PreflightCache._verdict
  given,     \* what get_safe_sha last returned
  clean,     \* the batch has issues that merge
  left,      \* how many of its issues are left that conflict
  closed,    \* the commits of the issues closed
  filed,     \* the tips preflight issues exist for, of this process
  twice,     \* those with more issues than one
  lost,      \* those whose report ended without an answer after the issue was there
  had,       \* what origin had when the refresh was asked for, as far as the
             \* refresh answers for it
  result     \* how the last iteration ended

refs    == <<origin, local, tracking>>
world   == <<made, breaks, place, grabs>>
process == <<verdict, filed, twice, lost>>
batch   == <<clean, left, closed>>
vars == <<refs, world, kept, pc, asker, attempt, tries, sandbox, process, given,
          batch, had, result>>

NoVerdict == [sha |-> {}, kind |-> "none"]
NoSandbox == [base |-> {}, tip |-> {}]
Tip(ref) == CHOOSE c \in ref : \A d \in ref : d <= c
Passes(ref) == Tip(ref) \notin breaks

Init ==
  /\ origin \in {{}, {0}} /\ local = {0} /\ tracking = origin
  /\ made = 0 /\ breaks \in SUBSET {0} /\ place = "none" /\ grabs = 0
  /\ pc = "idle" /\ asker = "plan" /\ attempt = 0 /\ tries = 0
  /\ sandbox = {} /\ kept = NoSandbox
  /\ verdict = NoVerdict /\ given = NoVerdict
  /\ filed = {} /\ twice = {} /\ lost = {}
  /\ clean = FALSE /\ left = 0 /\ closed = {} /\ had = {} /\ result = "none"

\* The iteration is over; the cache survives it unless the process ends, too.
Fatal == {"hitl", "operator", "error", "crashed"}
Leave(r) ==
  /\ pc' = "idle" /\ result' = r
  /\ asker' = "plan" /\ attempt' = 0 /\ tries' = 0 /\ sandbox' = {}
  /\ given' = NoVerdict /\ clean' = FALSE /\ left' = 0 /\ had' = {}
End(r) ==
  /\ Leave(r)
  /\ IF r \in Fatal \/ given.kind = "hitl"
     THEN verdict' = NoVerdict /\ filed' = {} /\ twice' = {} /\ lost' = {}
     ELSE UNCHANGED process

\* merge_phase returns.  Where an issue for an agent blocked the recovery of
\* conflicts, that issue is implemented and merged first.
Finish(r) ==
  IF left > 0 /\ given.kind = "afk"
  THEN /\ pc' = "work" /\ asker' = "plan" /\ attempt' = 0 /\ tries' = 0 /\ sandbox' = {}
       /\ clean' = FALSE /\ left' = 0
       /\ UNCHANGED <<process, given, had, result>>
  ELSE End(r)

\* A commit is made, on a tree that passes the checks or fails them.
Commit ==
  /\ made' = made + 1
  /\ breaks' \in {breaks, breaks \cup {made + 1}}

Goto(l) == pc' = l

\* No worktree has the branch checked out.
Released == place = "none"

-----------------------------------------------------------------------------
\* get_safe_sha is called, by the planning phase or, for conflicts, by the
\* merge phase, and waits at the checkout gate.
Start ==
  /\ pc = "idle" /\ made < MaxCommits
  /\ Goto("gate") /\ had' = origin /\ result' = "none"
  /\ UNCHANGED <<refs, world, kept, asker, attempt, tries, sandbox, process,
                 given, batch>>

\* _wait_for_operating_branch_release returns; so it does for the refresh that
\* found the branch checked out.
Gate ==
  /\ pc \in {"gate", "wait"} /\ Released
  /\ Goto("fetch") /\ tries' = 1
  /\ UNCHANGED <<refs, world, kept, asker, attempt, sandbox, process, given,
                 batch, had, result>>

\* pull_with_resolution returns: to get_safe_sha, or to the push.
Refreshed ==
  /\ Goto(IF asker = "push" THEN "push" ELSE "sha")
  /\ attempt' = IF asker = "push" THEN attempt + 1 ELSE attempt
  /\ tries' = 0
  /\ UNCHANGED <<asker, process, given, batch, had, result>>

\* refresh_operating_branch: the forced fetch.  A branch that is not at origin
\* yet has nothing to be refreshed from.
Fetch ==
  /\ pc = "fetch"
  /\ \/ /\ origin # {}
        /\ tracking' = origin /\ Goto("relate")
        /\ UNCHANGED <<asker, attempt, tries, process, given, batch, had, result>>
     \/ /\ origin = {} /\ Refreshed /\ UNCHANGED tracking
  /\ UNCHANGED <<origin, local, world, kept, sandbox>>

Diverged == ~(tracking \subseteq local) /\ ~(local \subseteq tracking)

\* Nothing compares what a sandbox merged with what origin has now: a refresh that
\* is content with an old one answers only for what is in there.
Answered(ref) == IF asker = "push" THEN had ELSE had \cap ref

\* classify_ref_relation, and for a diverged branch reusable_sandbox_entry.  A
\* sandbox is made where the branch is now; one of an earlier entry is as good if
\* the branch is still where it was made, whatever came to origin since: its agent
\* goes on, and may have merged already what origin had then.
Relate ==
  /\ pc = "relate"
  /\ \/ tracking \subseteq local /\ Refreshed /\ UNCHANGED <<sandbox, kept>>
     \/ /\ local \subseteq tracking /\ ~(tracking \subseteq local) /\ Goto("forward")
        /\ UNCHANGED <<asker, attempt, tries, sandbox, kept, process, given, batch,
                       had, result>>
     \/ /\ Diverged /\ Goto("resolve")
        /\ sandbox' = local /\ kept' = [base |-> local, tip |-> local]
        /\ UNCHANGED <<asker, attempt, tries, process, given, batch, had, result>>
     \/ /\ Diverged /\ kept.base = local /\ kept.tip # local
        /\ sandbox' = kept.tip
        /\ \/ Goto("resolve") /\ UNCHANGED had
           \/ Goto("resolved") /\ had' = Answered(kept.tip)
        /\ UNCHANGED <<kept, asker, attempt, tries, process, given, batch, result>>
  /\ UNCHANGED <<refs, world>>

\* advance_branch_ref(branch, source): git updates the ref only forward, and
\* not while the branch is checked out.
CanAdvance(source) == Released /\ local \subseteq source

FastForward ==
  /\ pc = "forward"
  /\ \/ /\ CanAdvance(tracking)
        /\ local' = tracking /\ Refreshed
        /\ UNCHANGED sandbox
     \/ /\ ~Released /\ Goto("wait") /\ UNCHANGED local
        /\ UNCHANGED <<asker, attempt, tries, sandbox, process, given, batch, had, result>>
     \/ /\ Released /\ ~(local \subseteq tracking)
        /\ End("error") /\ UNCHANGED <<local, closed>>
  /\ UNCHANGED <<origin, tracking, world, kept>>

\* The divergence resolver merges origin's commits in its sandbox.
Resolve ==
  /\ pc = "resolve" /\ Commit
  /\ sandbox' = sandbox \cup tracking \cup {made + 1}
  /\ kept' = [kept EXCEPT !.tip = sandbox']
  /\ Goto("resolved")
  /\ UNCHANGED <<refs, place, grabs, asker, attempt, tries, process, given,
                 batch, had, result>>

\* _advance_branch_ref_through_gate; the operator may have moved the branch
\* while the agent was at work.  The session is discarded when it is done.
AdvanceResolved ==
  /\ pc = "resolved"
  /\ \/ /\ CanAdvance(sandbox)
        /\ local' = sandbox /\ Refreshed /\ sandbox' = {} /\ kept' = NoSandbox
     \/ /\ Released /\ ~(local \subseteq sandbox)
        /\ End("error") /\ UNCHANGED <<local, closed, kept>>
  /\ UNCHANGED <<origin, tracking, world>>

-----------------------------------------------------------------------------
\* What merged is pushed, if auto_push is set.
AutoPush ==
  \/ Goto("push") /\ attempt' = 1
  \/ Goto("settled") /\ UNCHANGED attempt

\* What the caller of get_safe_sha does with the verdict.  Planning goes on
\* with the issue filed if it is one for an agent; at merge time the conflicts
\* stay pending, and what merged may be pushed.
Give(v) ==
  /\ given' = v
  /\ IF asker = "plan"
     THEN /\ Goto(IF v.kind = "hitl" THEN "refused" ELSE "work")
          /\ UNCHANGED attempt
     ELSE IF v.kind = "ready" THEN Goto("recover") /\ UNCHANGED attempt
     ELSE IF clean THEN AutoPush
     ELSE Goto("settled") /\ UNCHANGED attempt
  /\ UNCHANGED <<refs, world, kept, asker, tries, batch, had, result>>

\* Mutant: any verdict will do.
ReadShaUncompared ==
  /\ pc = "sha"
  /\ IF verdict # NoVerdict THEN Give(verdict) /\ UNCHANGED <<sandbox, process>>
     ELSE /\ sandbox' = local /\ Goto("checks")
          /\ UNCHANGED <<refs, world, kept, asker, attempt, tries, process, given,
                         batch, had, result>>

\* The verdict for the tip is known, or the checks run in a worktree at it.
ReadSha ==
  /\ pc = "sha"
  /\ IF verdict.sha = local THEN Give(verdict) /\ UNCHANGED <<sandbox, process>>
     ELSE /\ sandbox' = local /\ Goto("checks")
          /\ UNCHANGED <<refs, world, kept, asker, attempt, tries, process, given,
                         batch, had, result>>

\* run_preflight.  The verdict that all is well is stored at once.
RunChecks ==
  /\ pc = "checks"
  /\ \/ /\ Passes(sandbox)
        /\ Give([sha |-> sandbox, kind |-> "ready"])
        /\ verdict' = [sha |-> sandbox, kind |-> "ready"]
        /\ sandbox' = {} /\ UNCHANGED <<filed, twice, lost>>
     \/ /\ ~Passes(sandbox) /\ Goto("report")
        /\ UNCHANGED <<refs, world, kept, asker, attempt, tries, sandbox, process,
                       given, batch, had, result>>

\* An agent files the issue that reports the failure.
FileIssue ==
  /\ filed' = filed \cup {sandbox}
  /\ twice' = twice \cup ({sandbox} \cap filed)

\* It answers with the number, and whether a human or an agent is to look at the
\* issue: the verdict is stored.
Report ==
  /\ pc = "report" /\ FileIssue /\ UNCHANGED lost
  /\ \E kind \in {"hitl", "afk"} :
       /\ Give([sha |-> sandbox, kind |-> kind])
       /\ verdict' = [sha |-> sandbox, kind |-> kind]
  /\ sandbox' = {}

\* A limit, a timeout or a transient error ends it before it answers, with the
\* issue filed or not; the process goes on without a verdict.
ReportFails ==
  /\ pc = "report"
  /\ \/ End("unreported")
     \/ /\ FileIssue /\ lost' = lost \cup {sandbox} /\ UNCHANGED verdict
        /\ Leave("unreported")
  /\ UNCHANGED <<refs, world, kept, closed>>

Refuse ==
  /\ pc = "refused" /\ End("hitl")
  /\ UNCHANGED <<refs, world, kept, closed>>

\* Issues are implemented, or a usage limit or errors leave nothing to merge.
Work ==
  /\ pc = "work"
  /\ \/ /\ Goto("merge")
        /\ UNCHANGED <<asker, attempt, tries, sandbox, process, given, batch, had, result>>
     \/ End("unmerged") /\ UNCHANGED closed
  /\ UNCHANGED <<refs, world, kept>>

-----------------------------------------------------------------------------
\* Some issues of a batch merge cleanly, others conflict with the branch or
\* with each other.  The one issue a failing commit was reported in starts from
\* that commit: it conflicts only with what came after.
Batches ==
  {b \in [clean : BOOLEAN, left : 0..MaxConflicts] :
     /\ b.clean \/ b.left > 0
     /\ given.kind = "afk" => /\ b.left = IF b.clean THEN 0 ELSE 1
                              /\ b.left = 1 => local # given.sha}

\* merge_phase waits at the gate and merges what it can in a sandbox at the
\* tip; without a clean issue the sandbox is dropped.
Merge ==
  /\ pc = "merge" /\ Released
  /\ \E b \in Batches :
       /\ clean' = b.clean /\ left' = b.left
       /\ IF b.clean
          THEN Commit /\ sandbox' = local \cup {made + 1} /\ Goto("merged")
          ELSE Goto("conflicts") /\ UNCHANGED <<made, breaks, sandbox>>
  /\ UNCHANGED <<refs, place, grabs, kept, asker, attempt, tries, process, given,
                 closed, had, result>>

\* Mutant: the ref is set, not fast-forwarded.
AdvanceMergedByForce ==
  /\ pc = "merged" /\ Released
  /\ local' = sandbox /\ closed' = closed \cup {Tip(sandbox)}
  /\ sandbox' = {} /\ Goto("conflicts")
  /\ UNCHANGED <<asker, attempt, tries, process, given, clean, left, had, result>>
  /\ UNCHANGED <<origin, tracking, world, kept>>

\* The clean issues reach the branch, through the gate, and are closed.
AdvanceMerged ==
  /\ pc = "merged"
  /\ \/ /\ CanAdvance(sandbox)
        /\ local' = sandbox /\ closed' = closed \cup {Tip(sandbox)}
        /\ sandbox' = {} /\ Goto("conflicts")
        /\ UNCHANGED <<asker, attempt, tries, process, given, clean, left, had, result>>
     \/ /\ Released /\ ~(local \subseteq sandbox)
        /\ End("error") /\ UNCHANGED <<local, closed>>
  /\ UNCHANGED <<origin, tracking, world, kept>>

\* With conflicts the branch is checked once more; else it is pushed.
Conflicts ==
  /\ pc = "conflicts"
  /\ IF left > 0
     THEN Goto("gate") /\ asker' = "merge" /\ had' = origin /\ UNCHANGED attempt
     ELSE AutoPush /\ UNCHANGED <<asker, had>>
  /\ UNCHANGED <<refs, world, kept, tries, sandbox, process, given, batch, result>>

\* _recover_active_conflict: an agent resolves a conflict at the present tip.
Recover ==
  /\ pc = "recover"
  /\ \/ Commit /\ sandbox' = local \cup {made + 1} /\ Goto("recovered")
     \/ Goto("settled") /\ UNCHANGED <<made, breaks, sandbox>>
  /\ UNCHANGED <<refs, place, grabs, kept, asker, attempt, tries, process, given,
                 batch, had, result>>

\* The issue is closed, and the next one is taken up; without an error the push
\* comes last.
AdvanceRecovered ==
  /\ pc = "recovered"
  /\ \/ /\ CanAdvance(sandbox)
        /\ local' = sandbox /\ closed' = closed \cup {Tip(sandbox)} /\ left' = left - 1
        /\ IF left > 1 THEN Goto("recover") /\ UNCHANGED attempt ELSE AutoPush
     \/ /\ Released /\ ~(local \subseteq sandbox)
        /\ Goto("settled") /\ UNCHANGED <<local, closed, left, attempt>>
  /\ sandbox' = {}
  /\ UNCHANGED <<origin, tracking, world, kept, asker, tries, process, given,
                 clean, had, result>>

\* A pending conflict, or the setting, keeps what merged from being pushed.
Settle ==
  /\ pc = "settled" /\ Finish("unpushed")
  /\ UNCHANGED <<refs, world, kept, closed>>

-----------------------------------------------------------------------------
Rejected == ~(origin \subseteq local)

\* git push origin <branch>.
Push ==
  /\ pc = "push" /\ ~Rejected
  /\ origin' = local /\ tracking' = local
  /\ Finish("pushed")
  /\ UNCHANGED <<local, world, kept, closed>>

\* Mutant: the loop runs out without an error.
PushRejectedQuietly ==
  /\ pc = "push" /\ Rejected
  /\ IF attempt = MaxAttempts
     THEN Finish("pushed") /\ UNCHANGED closed
     ELSE /\ Goto("pull") /\ tries' = 1
          /\ UNCHANGED <<asker, attempt, sandbox, process, given, batch, had, result>>
  /\ UNCHANGED <<refs, world, kept>>

\* The branch at origin has moved on: the repo root is pulled, and the push
\* tried again, except after the last attempt.
PushRejected ==
  /\ pc = "push" /\ Rejected
  /\ IF attempt = MaxAttempts
     THEN End("error") /\ UNCHANGED closed
     ELSE /\ Goto("pull") /\ tries' = 1
          /\ UNCHANGED <<asker, attempt, sandbox, process, given, batch, had, result>>
  /\ UNCHANGED <<refs, world, kept>>

\* A transient failure, before the commits arrive or after, is retried.
PushFails ==
  /\ pc = "push"
  /\ origin' \in {origin} \cup (IF Rejected THEN {} ELSE {local})
  /\ IF attempt = MaxAttempts THEN End("operator") /\ UNCHANGED closed
     ELSE /\ attempt' = attempt + 1
          /\ UNCHANGED <<pc, asker, tries, sandbox, process, given, batch, had, result>>
  /\ UNCHANGED <<local, tracking, world, kept>>

\* Mutant: a recovery is not counted as an attempt.
PushAgainUncounted ==
  /\ Goto("push") /\ tries' = 0
  /\ UNCHANGED <<asker, attempt, sandbox, process, given, batch, had, result>>

PushAgain ==
  /\ Goto("push") /\ attempt' = attempt + 1 /\ tries' = 0
  /\ UNCHANGED <<asker, sandbox, process, given, batch, had, result>>

\* resolver() is pull_with_resolution.
CallResolver ==
  /\ Goto("fetch") /\ asker' = "push" /\ tries' = 1
  /\ UNCHANGED <<local, made, breaks, attempt, sandbox, process, given, batch, had,
                 result>>

\* pull_with_merge_fallback with the branch checked out in the repo root.
PullBranch ==
  /\ pc = "pull" /\ place = "root"
  /\ tracking' = origin
  /\ \/ /\ local \subseteq origin
        /\ local' = origin /\ PushAgain
        /\ UNCHANGED <<made, breaks>>
     \/ /\ ~(local \subseteq origin)
        /\ Commit /\ local' = local \cup origin \cup {made + 1}
        /\ PushAgain
     \/ ~(local \subseteq origin) /\ CallResolver
  /\ UNCHANGED <<origin, place, grabs, kept>>

\* The same with the operator's own branch checked out there: it is up to date
\* or pulled, or has diverged from its upstream and origin's commits of the
\* operating branch are merged into it, or a conflict calls the resolver.  None
\* of that is part of the state.
PullOther ==
  /\ pc = "pull" /\ place # "root"
  /\ tracking' = origin
  /\ \/ PushAgain /\ UNCHANGED <<local, made, breaks>>
     \/ CallResolver
  /\ UNCHANGED <<origin, place, grabs, kept>>

\* _run_or_raise_with_retry: a fetch or pull that fails is tried again, and
\* given up as the operator's to look at after the last attempt.
RemoteFails ==
  /\ pc \in {"fetch", "pull"}
  /\ IF tries = MaxAttempts THEN End("operator") /\ UNCHANGED closed
     ELSE /\ tries' = tries + 1
          /\ UNCHANGED <<pc, asker, attempt, sandbox, process, given, batch, had, result>>
  /\ UNCHANGED <<refs, world, kept>>

\* A timeout, a setup error, an agent or resolver that fails.
Fails ==
  /\ pc \in {"fetch", "resolve", "resolved", "checks", "report", "work", "recover", "push", "pull"}
  /\ End("error")
  /\ UNCHANGED <<refs, world, kept, closed>>

Crash ==
  /\ pc # "idle" /\ End("crashed")
  /\ UNCHANGED <<refs, world, kept, closed>>

-----------------------------------------------------------------------------
program == <<tracking, kept, pc, asker, attempt, tries, sandbox, process, given,
             batch, had, result>>

OthersPush ==
  /\ origin # {} /\ made < MaxCommits /\ Commit
  /\ origin' = origin \cup {made + 1}
  /\ UNCHANGED <<local, place, grabs, program>>

\* The operator checks the branch out, in the repo root or another worktree,
\* commits to it, and lets it go again.
Grab ==
  /\ place = "none" /\ grabs < MaxGrabs
  /\ place' \in {"root", "elsewhere"} /\ grabs' = grabs + 1
  /\ UNCHANGED <<origin, local, made, breaks, program>>

OperatorCommits ==
  /\ place # "none" /\ made < MaxCommits /\ Commit
  /\ local' = local \cup {made + 1}
  /\ UNCHANGED <<origin, place, grabs, program>>

Release ==
  /\ place # "none" /\ place' = "none"
  /\ UNCHANGED <<origin, local, made, breaks, grabs, program>>

-----------------------------------------------------------------------------
Step ==
  \/ Gate \/ Fetch \/ Relate \/ FastForward \/ Resolve \/ AdvanceResolved
  \/ ReadSha \/ RunChecks \/ Report \/ ReportFails \/ Refuse \/ Work
  \/ Merge \/ AdvanceMerged \/ Conflicts \/ Recover \/ AdvanceRecovered \/ Settle
  \/ Push \/ PushRejected \/ PushFails \/ PullBranch \/ PullOther \/ RemoteFails \/ Fails

Environment == OthersPush \/ Grab \/ OperatorCommits \/ Release

Next == Start \/ Step \/ Crash \/ Environment

Spec == Init /\ [][Next]_vars

\* The program goes on, and the operator does not keep the branch for ever.
FairSpec == Spec /\ WF_vars(Step) /\ WF_vars(Release)

-----------------------------------------------------------------------------
Refs == SUBSET (0..made)
Verdicts == [sha : Refs, kind : {"none", "ready", "hitl", "afk"}]
Steps == {"idle", "gate", "wait", "fetch", "relate", "forward", "resolve", "resolved",
          "sha", "checks", "report", "refused", "work", "merge", "merged", "conflicts", "recover",
          "recovered", "settled", "push", "pull"}
Results == {"none", "pushed", "unpushed", "unmerged", "unreported"} \cup Fatal

\* Every variable has its type; the attempts at the remote are bounded.
TypeOK ==
  /\ origin \in Refs /\ local \in Refs \ {{}} /\ tracking \in Refs /\ sandbox \in Refs
  /\ made \in Nat /\ breaks \in Refs
  /\ place \in {"none", "root", "elsewhere"} /\ grabs \in 0..MaxGrabs
  /\ pc \in Steps /\ asker \in {"plan", "merge", "push"}
  /\ attempt \in 0..MaxAttempts /\ tries \in 0..MaxAttempts
  /\ verdict \in Verdicts /\ given \in Verdicts
  /\ filed \subseteq Refs /\ twice \subseteq Refs /\ lost \subseteq Refs
  /\ kept \in [base : Refs, tip : Refs]
  /\ clean \in BOOLEAN /\ left \in 0..MaxConflicts
  /\ closed \in Refs /\ had \in Refs /\ result \in Results

\* Issues are worked on from a commit of the branch that has everything origin
\* had when planning asked for it, and whose checks say what the verdict says:
\* also where the operator commits, others push, or the verdict was cached.  The
\* exception is Answered: a divergence resolver that an earlier entry left with
\* its merge done may end without a look at what came to origin since; then the
\* commit has what that merge had, and the rest is missing.
VerdictFits ==
  pc = "work" =>
    /\ had \subseteq given.sha /\ given.sha \subseteq local
    /\ Passes(given.sha) <=> given.kind = "ready"

\* A process files one preflight issue for a failing commit, however often it
\* asks: one slot is enough of a cache since the branch never goes back.  Only
\* where a report was cut short after its issue was there is the commit reported
\* again.
OneIssuePerCommit == twice \subseteq lost

\* Where the push came through, origin has the commits of all issues closed.
ClosedGoesOut == result = "pushed" => closed \subseteq origin

\* No step, whoever takes it in between, makes the branch lose a commit, at
\* origin or here.
NothingLost == [][origin \subseteq origin' /\ local \subseteq local']_refs

\* An iteration comes to its end: it does not wait for the branch, repair a
\* rejected push, or implement one preflight issue after another for ever.
IterationEnds == pc # "idle" ~> pc = "idle"

\* A known verdict is about a commit the branch has, and says what its checks say.
Known(v) ==
  /\ v.sha # {} /\ v.sha \subseteq local
  /\ v.kind # "none" /\ (Passes(v.sha) <=> v.kind = "ready")

Refreshing == {"wait", "fetch", "relate", "forward", "resolve", "resolved"}
Asking == Refreshing \cup {"gate", "sha", "checks", "report"}

\* While the push is being mended an attempt is left, a planning or merge phase
\* that asks is not the push, what is recovered is a conflict, and an iteration
\* under way has no result.
AskersFit ==
  /\ pc = "idle" => asker = "plan"
  /\ asker = "push" => pc \notin {"gate", "sha", "checks", "report"}
  /\ pc = "pull" \/ (asker = "push" /\ pc \in Refreshing) => attempt < MaxAttempts
  /\ pc \in {"recover", "recovered"} \/ (asker = "merge" /\ pc \in Asking) => left > 0
  /\ pc # "idle" => result = "none"

\* The one slot of the cache has the newest commit that was checked: those that
\* issues were filed and answered for are no newer, and what is being checked is.
CacheFits ==
  /\ verdict # NoVerdict => Known(verdict)
  /\ \A sha \in filed \ lost : sha \subseteq verdict.sha
  /\ pc \in {"checks", "report"} =>
                      /\ verdict.sha \subseteq sandbox /\ verdict.sha # sandbox
                      /\ sandbox # {} /\ sandbox \subseteq local
  /\ pc = "report" => ~Passes(sandbox)

\* What origin had when get_safe_sha was called is in what the refresh works
\* with, and at last in the commit of the verdict given.
HadFits ==
  /\ tracking \subseteq origin
  /\ given # NoVerdict => Known(given)
  /\ asker # "push" =>
       /\ pc \in {"gate", "wait", "fetch"} => had \subseteq origin
       /\ pc \in {"relate", "forward", "resolve"} => had \subseteq tracking
       /\ pc \in {"resolved", "checks", "report"} => had \subseteq sandbox
       /\ pc = "sha" => had \subseteq local
  /\ asker = "push" \/ pc \notin Refreshing \cup {"idle", "gate", "sha", "checks", "report"} =>
       given # NoVerdict /\ had \subseteq given.sha

\* What was merged for closed issues is on the branch.
ClosedFits ==
  /\ closed \subseteq local
  /\ pc \in {"merged", "recovered"} => sandbox # {}

\* Through fetches, checks, merges, pushes and crashes: a failing commit has one
\* preflight issue, a push that came through took along the commits of every
\* closed issue, and the verdicts fit the branch.  It is inductive.
Inv ==
  /\ TypeOK /\ OneIssuePerCommit /\ ClosedGoesOut
  /\ AskersFit /\ CacheFits /\ HadFits /\ ClosedFits
=============================================================================
