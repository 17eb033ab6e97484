# A TLA+ project for pycastle

pycastle runs coding agents on the GitHub issues of a repository: it picks
issues, gives each one a git worktree and an implementer and a reviewer agent
in containers, merges the branches into the operating branch and closes the
issues, iteration after iteration. This directory models the parts of it whose
correctness depends on interleavings, crashes, retries and limits. TLC checks
the models on small instances and TLAPS proves theorems about them for every
value of the constants. `PROJECT.json` maps each definition to the lines it
models; source paths below are relative to `src/src/pycastle`.

## 1. Inventory

| part | its state | its operations | hard behaviour | what makes it correct |
|---|---|---|---|---|
| run slot (`run_lock.py`) | host-wide token lock, one marker lock per project, holder record file | `run_slot()`: queue, scan, take marker, release | several processes, probes that take a lock to look at it, crashes | one run per project; the queue is respected; every wait ends |
| iteration (`iteration/_run.py`, `implement.py`, `merge.py`) | worktrees, branches, operating branch, issue states; in memory the batch and its semaphores | plan, implement, review, commit, merge, close, tear down | issues run concurrently, every step can fail or be the last before a crash, and the disk is all the next iteration knows | closed issues are merged; work is reviewed, never lost; iterations end; issues get closed |
| issue execution plan (`iteration/implement_issue_plan.py`) | none, reads the disk | choose the role to resume at | the disk may hold the middle of anything | no finished stage is repeated, none is skipped |
| worktrees (`infrastructure/worktree.py`) | `git worktree` directories and branches | create, reuse, remove when clean | decides what to delete after a failure | nothing uncommitted is lost |
| role sessions (`session/role.py`) | `_continuation`, `_done`, transcripts per role | write continuation, start fresh, signal completion | not atomic, read after crashes | a mark says what happened |
| attempt loop (`agents/attempt_loop.py`) | attempt number, timeout budget, continuation | run, resume, reprompt, restart fresh | three budgets interact; the stored session may be another service's | each failure has the answer documented for it |
| accounts (`services/credential_pool.py`, `_pool_availability.py`, `service_registry.py`) | exhaustion time and restricted models of each account, the current token of a service | pick, mark, next wake | concurrent agents share a service object | the account that hit a limit is the one that rests |
| usage limits (`iteration/usage_limit_decision.py`, `stage_priority_chain.py`, `iteration/orchestrator.py`) | iteration counter | continue, sleep, or stop after a limit | decisions from errors that may be stale | sleep only when it helps, stop when nothing is left |
| planning (`iteration/planning.py`, `planning_issue_intake.py`, `issue_readiness.py`) | labels and bodies at GitHub; in memory the listing of a pass | in-flight first, else sort by readiness, classify slices, set markers, ask the planner | the listing is old when it is acted upon; any call may be the last | markers come to agree with the issues; what is started is what GitHub shows |
| push and refresh (`_git_remote_retry.py`, `_operating_branch_refresh.py`, `iteration/_utils.py`, `services/git_service.py`) | remote, tracking and local refs, retry counters | fetch, fast-forward, resolve, advance, push, recover | other clones push, the operator takes and moves the branch | no commit is lost; iterations end |
| preflight (`iteration/preflight.py`, `_host_check.py`) | verdict cached by commit | run checks, file an issue | the branch moves between looking and using | a verdict is one of all checks, for the commit in use |
| closing (`services/github_service.py`, `iteration/merge.py`) | recently closed issues, attempted parents, one thread per issue | close, climb to the parent, list | threads race on one parent, lists lag, writes are done without an answer | parents after children, and not forgotten |
| sandboxes (`iteration/sandbox_role_session.py`, `_merge_conflict_recovery.py`, `infrastructure/worktree.py`) | sandbox directory, branch, fingerprint, session | enter, reuse, rebuild, leave | an entry is cut short anywhere, its inputs move | no new work on an old base, no session on new inputs |
| improve cycle (`iteration/improve*.py`) | sessions per candidate, drafts, filing records; issues at GitHub | scan, draft, file, label, wind down | interrupted anywhere, over iterations and runs | sets are whole, tickets have their parent, each set is its candidate's |
| one-shot and preflight containers (`runtime.py`, `agents/runner.py`, `infrastructure/docker_session.py`, `container_runner.py`) | the container, its overlay, the node of the chain | start, attempt, rotate, check, close | Ctrl-C in a thread, engine failures, timeouts | nothing is left behind, no call is wasted |
| outer loop (`main.py`, `run_startup_preparation.py`, `iteration/orchestrator.py`, `outcome_routing.py`, the reports) | iteration counter, interruption flags, reports on two trackers | start up, iterate, route an outcome, report, exit | reports fail too, and are filed by several runs | one report per failure; a failure stays one; runs end |
| prompts, output parsing, configuration, display, logs, init | files and text | formatting, I/O | little | not modelled, see section 16 |

The parts interact through the disk (worktrees, sessions, branches), through
GitHub, and in one process through `asyncio` tasks: `implement_phase` gathers
one task per issue, and these share two semaphores, the agent services and
their account pools. Between processes there are only the locks of the run
slot, which is why it comes first.

## 2. Plan

| module | composed with | state |
|---|---|---|
| `RunExclusion`, `RunSlot`, `RunLoop`, `RunProofs` | `RunSlot` implements `RunExclusion` | checked and proved |
| `IssueDelivery`, `IssuePipeline`, `IssuePipelineProofs` | `IssuePipeline` implements `IssueDelivery` | checked and proved |
| `AttemptLoop`, `SandboxEntry`, `ConversationProofs` | | checked and proved |
| `IssueClosing`, `PlanningIntake`, `IssueProofs` | | checked and proved |
| `AccountPool`, `RemoteSync`, `ImproveCycle`, `OneShotRuns`, each with its `...Proofs` | | checked and proved |

A module is about one piece of state that survives steps of others, and what a
neighbour does to that state is a step of the environment: `RunLoop` has an
iteration as a choice of how it ends, `IssuePipeline` has the push as nothing,
`RemoteSync` has the batch as a commit, and so on. Where two modules share a
step, its outcomes in the abstract one are those of the detailed one.

Every module has its parameters as CONSTANTS with named assumptions, one action
per operation, invariants in named parts, and no RECURSIVE operator. What is
inductive in a module is a part of its `Inv`, so that its run checks what the
proof needs (`ImproveCycle` has `ReadySetsAreWhole` in it, too). Components about one
subject (the run of a project, the conversation of a role, the issues at GitHub)
share a proof module, which extends both. A name of the second that would be one
of the first as well carries the component's: `LoopNext`, `SandboxInv`, `IntakeSpec`.

Nothing of the plan is left. Section 15 says what is checked and cannot be
proved here, section 16 what is not modelled.

## 3. The run slot

`RunExclusion` says what the slot promises: a run is idle, then active or not;
two runs of one project, or two that respect the queue, are not active
together, except that a jumper may start beside anyone of another project.
`RunSlot` is the code: `pc[r]` is the place of run `r` in `run_slot()`, `token`
and `marker` are the flocks, `record` the holder record. An `flock` call, a
file write or a release is a step. A scan probes the markers in any order,
and a probe that finds a marker free really holds it until `ProbeDrop`. Time is
abstracted: `Expire` may happen at any moment of a wait, and the retry window
of `_lock_marker` is `MarkerTries` tries of which probes spoil at most
`SpoiledTries`, fewer (`WindowAssumption`; 500 ms against a probe of
microseconds about once a second). `owed` is a history variable: the runs
that were active when the run took its token.

`slot_runs` has a queued run in each of two projects and a jumper in one and checks the
inductive invariant `IInv` (types, exclusion, respect of the queue, the record,
no hold-and-wait), that aborts are deserved (`AbortsOnlyOnOverlap`), the
refinement of `RunExclusion` (`Implements`) and that every wait ends (`WaitingEnds`).

A jumper of another project is the least with which a scan is not atomic; two
queued runs contend for the token, a queued run and a jumper for a marker while
the scan of the other project probes it; three tries of which two are spoiled make
a window of more than one retry. All but `WaitingEnds` is proved for any number of
runs and projects. Fairness: each run's own steps
(`WF Own`) and the clock (`WF Expire`), nothing for `ReleaseMarker`: a pipeline
may run for ever, and `WaitingEnds` holds behind one. A run stops at `over`, so
deadlock is not checked; `WaitingEnds` says that none stops earlier. Of the record of a crashed run the model says only that it names no
live run; nothing requires it to go away, since the code leaves it to the next
run with the token.

One disagreement with the documentation has no run here: ADR 0053 (line 51)
says that a second run of a project aborts at once, but if it respects the
queue it first waits for the token that the first one holds, up to six hours
(`run_lock.py:235`), and looks at its own marker only then.

## 4. The iteration

`IssueDelivery` is the promise: work is committed to an issue's branch,
branches are merged into the operating branch, merged branches may be dropped,
merged issues closed. `IssuePipeline` is the code. The disk survives a crash:
`worktree`, `branch`, `commits`, `dirty` (uncommitted work), `session` per role
(`none`, `started`, `resumable`, `done`), `main` (the operating branch) and
`closed`. An iteration has a `phase`, a `batch`, a step `pc` and a `role` per
issue, and the sets `todo`, `unref`, `landed` and `conflicts` of the merge
phase. `Crash` loses the second group and keeps the first. `reviewed` is a
history variable.

`PlanIssue` is `plan_issue_execution`; `OpenWorktree` to `ExitWorktree` is
`_execute_role_step` with its worktree context, first with the implementer and
then with the reviewer; `BeginMerge` to `ConflictClosed` is `merge_phase`.
Only `MaxParallel` agents run, and one worktree more is open. The agent is
an environment: it writes work, may leave a continuation, and succeeds or
fails. An untracked file counts as dirty work that `is_working_tree_clean` does
not see. Work is a set of units of which it matters only where each is; a worktree
whose removal was cut short keeps them all or none.

What git may answer to a removal makes a difference. A timeout is a warning, the
worktree stays and its branch cannot be deleted (`RemoveTimesOut`). A nonzero exit
is answered with `rmtree(ignore_errors)` (`git_service.py:722`), which raises nothing: git
has forgotten the worktree, files may be left, and the branch goes all the same. `Rubble`
are the issues with such leftovers, session files among them. `start_fresh` removes the role directory
and creates it anew in two steps (`session/role.py:117`); `torn` is a history variable
with the issues for which a crash came between the two. `staged` are the conflicts whose
sandbox was left with a resolution that was not committed, which makes every later entry raise
until the operating branch moves.

| run | instance | shows |
|---|---|---|
| `pipeline_batch` | 3 issues (one with work, one without, one for which no account is found), 1 agent slot, 2 worktree slots, crashes | `Implements`; every iteration ends |
| `pipeline_retry` | 1 issue, 2 units of work, crashes, removals that fail or time out, wiped sessions | closed issues are merged and a merge finds its branches (`Inv`), uncommitted work survives, merged work was reviewed; the issue is closed at last or is stuck |

There is no bound on iterations or crashes: the state space is finite without.
Three issues are the least of which one finds the worktree semaphore taken, and a slot that
is not given back stops the batch. Two units are the least with which a
branch can hold reviewed and unreviewed work. `Faults` selects the faults of an
instance: several issues are checked with crashes only, removals that fail with one issue
only, so the invariant of several issues, two conflicts in one batch and a removal that fails
beside another issue are covered by the theorems (section 15), which leave `Faults`, `Unchanged` and `Unserved` open, and
`IterationEnds` is checked without failing removals. No symmetry is used, because each run
checks liveness too.

`FairSpec` assumes that agents end (each has an idle timeout) and git and GitHub
answer: weak fairness of the steps of an iteration, none of `Crash` or of what an
agent writes. `RetrySpec` adds that pycastle is run again and that what may fail
(an account, a commit, a request, a conflict's recovery) does not fail every time: strong fairness of
the successes. A merge is a function of its branches: a conflicting branch is assumed neither to
merge cleanly nor to conflict, only to be tried again and again, and the recovery to succeed at
some time. Two states are left out, which the code does not get out of by itself (`Stuck`): a staged sandbox,
and session files that say "done" beside a branch that is gone (section 14). When all
issues are closed nothing is left to do, so deadlock is not checked.

`UncommittedSurvives` exempts the issues of `torn`, and no others. `MergeFindsBranches`
exempts leftover session files of an issue that is merged and torn down.

The tokens with which implementers could be cancelled are never cancelled
by the program, so that outcome is not an action.

## 5. The attempt loop

`AttemptLoop` is one role in one worktree over any number of agent runs, each
for a service of the fallback chain, until one completes.

| Model | Code |
|---|---|
| `cont`, `expired` | `_continuation` and whether its service can still resume it |
| `states`, `seeds`, `done` | the files below the role session: per service, `codex/auth.json`, `_done` |
| `kind`, `prompt`, `retries`, `attempt` | the loop variables of `run_attempt_loop` |
| `how`, `talks` | the request `_run_runtime_once` makes, and whose conversation it names |
| `Request`, `Begin` | `AgentRunner._run` up to the loop, with the seeding of credentials |
| `TakeOver`, `StartSession`, `Stale` | ownership check, `_run_runtime_once`, `ContinuationUnrecoverableError` |
| `WipeContinuation`, `WipeState`, `Recovered`, `Finished` | `start_fresh`, `_recover_stale_continuation`, `clear_provider_state_and_signal_completion`, file by file |
| `Completes`, `Garbles`, `TimesOut`, `Stops`, `Fails` | the outcomes; `Outcome` is `write_continuation`, which precedes them |
| `Crash`, `Expire` | environment |

A prompt is only what it presumes: `role` opens the task, `resume` and
`reprompt` need a conversation. The removal of a directory is one file or
service at a time, so that a crash can strike inside.

`attempt_runs` has three services, one seeded, one silent, and one timeout retry.
It checks `IInv` (types, prompts that fit their session, completion that is
final and what these rest on), that interrupted runs resume, that a recovery
keeps what is of use, and that a continuation that cannot be resumed goes.

Three services are the three there are. One retry is the default of the
configuration and lets every branch happen in three attempts. The type of an
outcome lets a continuation be missing (`attempt_loop.py:142`) and the code does
not say when; `Silent` is the set of services that do so, and
`PromptFitsSession` and `InterruptedResumes` speak of the others. Three
disagreements with the documentation have no run here: after an outcome without
a continuation a reprompt opens a new session with nothing but its own text
(against ADR 0039, line 40); a recovery in the third attempt ends in a
`RuntimeError` and not in a new session (against ADR 0044, line 30); and a
recovery removes the credentials seeded for the same run
(`attempt_loop.py:239`, against `docs/usage.md:111`). Fairness: the role is run again after
whatever ended a run (weak), and a run that gets to the start of its loop, to a
session, to a service that does not know the conversation, or to the removal of
the continuation again and again takes that step (strong), because crashes do
not strike each time at the same place.

## 6. The account pool

`AccountPool` is the state of all pools over the iterations of one stage.

| Model | Code |
|---|---|
| `until`, `restricted` | `exhausted_until` and `restricted_models` of `_CredentialSlot` |
| `current` | `_current_token` of `PoolAvailabilityHelper` |
| `auth`, `account` | what `provider_auth()` and `build_env()` picked for an agent |
| `StartIteration`, `Resolved` | `_resolve_iter_cfg`, `ServiceRegistry.resolve` |
| `Pass`, `Refuse`, `Authorise`, `BuildEnv` | the guard and the two picks of `AgentRunner._run`; no await between them (`Free`), but the clock runs |
| `Limit`, `Retire`, `Reject` | `_handle_provider_account_exhaustion`, `mark_model_restricted` |
| `Limits`, `First`, `ResetTime` | `_build_implement_result`: the first error decides |
| `Continue`, `SleepForAccount`, `SleepForError`, `Stop` | `usage_limit_decision.py`, both decisions |

`Inline` services (codex) have one account and ignore `mark_permanently_exhausted`.

`pool_chain` has two agents, two accounts with two models and a fallback
service, and any model may be refused. It checks that a stop is final
(`StopIsFinal`, with the types in `Inv`), that after the guard a pick cannot fail
(`GuardSuffices`), and that where nothing was refused a sleep ends with a
candidate (`SleepWakes`).

Three disagreements beside those of section 14: the two picks of one attempt differ when
an account of higher priority wakes between them (against the same-slot
invariant of `CONTEXT.md:503`; `GuardSuffices` shows that the first account is
still good then); the early guard asks for no model, so that a sibling starts
with one that was just refused (against ADR 0055, line 10); and a mark that has
elapsed is taken for a wake time, so that a chain whose woken account then
refuses its model sleeps until a moment in the past, and again after every
iteration (`credential_pool.py:72`). `SleepWakes` leaves the last case out.

Two agents and two accounts let one agent's mark meet another's pick; time up
to 2 lets a mark elapse between any two steps. At
`MaxTime` the clock stops, so a run may stop there, and deadlock is not checked.

## 7. The operating branch and origin

`RemoteSync` is the operating branch as a ref here, at origin and as last
fetched, over iterations of which each is a refresh, a preflight, a batch, a
merge and a push. A ref is the set of commits it reaches; `made` numbers them.

| Model | Code |
|---|---|
| `Gate`, `Released`, `Release` | `_wait_for_operating_branch_release`, and the operator who has the branch checked out |
| `Fetch`, `Relate`, `FastForward`, `Resolve`, `Answered`, `AdvanceResolved` | `_operating_branch_refresh.py` and the divergence resolver |
| `ReadSha`, `RunChecks`, `FileIssue`, `Report`, `ReportFails`, `Refuse` | `PreflightCache` and `get_safe_sha`: the checks, the agent that files an issue for a failing tip, and the verdict stored after it |
| `Work`, `Merge`, `AdvanceMerged`, `Conflicts`, `Recover`, `AdvanceRecovered`, `AutoPush`, `Settle` | the batch, `merge_phase` and the recovery of its conflicts one after the other, as far as the branch goes, with `auto_push` or without |
| `Push`, `PushRejected`, `PushFails`, `PushAgain`, `PullBranch`, `PullOther` | `push` with its retries and the recovery of a rejected one |
| `RemoteFails`, `Fails`, `Crash`, `OthersPush`, `Grab`, `OperatorCommits` | failures and the environment |

An issue filed and the verdict of its filing are two steps. A limit, a timeout
or an error of the agent in between leaves the issue and no verdict
(`ReportFails`; `lost` are those commits), after which a process that goes on files
another (`twice`). The sandbox of the divergence resolver survives an interruption
(`kept`), and is resumed for the same local commit: what comes of it has what origin
had when the resolver merged, which may be an older origin than now (`Answered`).

`remote_refs` checks that a verdict is for the commit worked from and has what origin had when the
sandbox behind it was merged (`VerdictFits`), that a failing commit has one issue unless a report of it was
cut short, and a push takes along the
commits of the closed issues (`Inv`), that neither origin nor the local branch
ever loses a commit (`NothingLost`), and that iterations end. Two attempts let
a push fail and be tried again; two commits let an iteration and another clone
diverge; two conflicts let one be recovered after the other; one grab strikes at any step. An iteration is begun and others commit
only below `MaxCommits`, so the system may stop: no deadlock check. Fairness:
the program goes on and the operator gives the branch back; others push as they like.
That checks end is an assumption: they are run without a timeout (section 12).

## 8. Closing issues

`IssueClosing` is a batch of threads, one per merged issue
(`asyncio.to_thread` in `iteration/merge.py`), over one `GithubService`.
`thread[t]` has the step of a thread and the path it has climbed; `closed` is the
truth at GitHub and `lagging` what its lists still show as open; `recent` and
`attempted` are the two memories of the service. `Patch`, `Note`, `GetParent`,
`ListSubs`, `Claim` and `Unmarked` are `close_issue_with_parents`, call by call;
`Fault`, `Retry` and `GiveUp` its requests, of which a PATCH may have been done;
`ListReady` and `ListAll` the lists of the next iteration, which forget what
GitHub no longer shows; `Reopen` is a person. A close that failed ends the run once it is
reported, and if the report cannot be filed, the run goes on (`SomeFailed`).

`closing_batches` has four issues, two at the leaves and two levels of parents,
with a leaf and a parent below the same grandparent: the least where a cascade
goes on and meets another thread. It checks that parents are closed after their
children however stale the lists are, those aside that are labelled for agents
and so may be closed as work of their own (`ParentsLast`), that no two threads
close one parent, marks outlive a batch only on closed parents and what was just
closed is not offered again (`Inv`), and that without a failure or a reopening a
parent whose children are closed gets closed (`CascadeCompletes`). Two faults, so that
a retry can fail as well, and one reopening may come at any step. Fairness: every thread runs, the run goes
on, the lists catch up. When all is closed nothing is left, so no deadlock check.

## 9. Sandboxes

`SandboxEntry` is the entry to and exit from a reusable sandbox: the gate that
compares the fingerprint (`Gate`), the worktree reused or rebuilt (`Reuse`,
`CleanUp`, `Create`), the fingerprint written (`Stamp`), the merge of the branch
in conflict (`StartMerge`), the agent (`StartAgent` to `RoleCompletes`), the merger's
commit and advance, and what `Exit` keeps. `head` moves under it, an entry is cut
short at any step, removals fail half-way and are suppressed as in the code.
`stuck` are the roles whose worktree could not be removed and is still registered, so that
`_create_worktree` returns it as it is (`CreateFindsTree`): its conversation, if it has one, is
begun on an older commit. A git error at the entry makes `is_worktree_reusable` false, and
the sandbox is rebuilt though it could be resumed (`GitFailed`).

`sandbox_runs` has a merger and a reader (a role whose sandbox nobody merges), one
move of the branch and two faults, which is enough for a leftover of a leftover.
It checks that an agent begins on the commit of its fingerprint (`FreshBase`, but for `stuck`) and a
conversation goes on only for the inputs it began with (`ResumesFit`), both in
`SandboxInv` with what they rest on, that
nobody else gives a conversation up (`LiveConversationsStay`, but where git fails), and that conflicts
are recovered (`ConflictsEnd`, but for a staged sandbox and one that `Lags`, section 14). Fairness: an entry goes on; a conflict is taken up
again, and creating, completing and committing succeed at times. Nothing else is
assumed of what fails. Deadlock is checked.

## 10. Planning

`PlanningIntake` is one pass of `planning_phase` over the issues: `List`, in-flight
ones `Resolved`, `Gate`, `Classify` and `Apply` (the slice classifier and its
verdicts), `Sync` one label call at a time, `AskPlanner` or `NoPlanner`, `Plan`,
and the work as `StartWork` to `Deliver`. `listed` is what the pass works from,
`issues` what GitHub shows by then. A body is short, long, or long only with its
"Blocked by" line, which is what makes `meets_floor` depend on the state of others. A preflight issue that an agent can
do is implemented and merged in place of the pass (`_run.py:140`), in one step of `GateBlocks`.

`intake_passes` has two issues, the second possibly blocked by the first, two
slice modes, every initial set of labels and bodies, one edit and one stop (a
failure, a limit or a kill). It checks that an issue is started that GitHub shows
as startable (`StartsWhatIsShown`, in `IntakeInv`), that markers settle
(`MarkersSettle`) and a lone ready issue gets done (`LoneIssueDone`), both as
`IntakeProgresses`. Fairness: the program goes on and is run again. Deadlock is
checked here: the program always has a next step.

## 11. The improve cycle

`ImproveCycle` is improve from the gate in `_run.py` to the filed issue. `disk` is
the session of the improve sandbox (scan, candidates, cursor, drafts with their
authors, filing records), `issues` what it filed, `run` what the orchestrator
carries over iterations, `work` the locals. Filing goes call by call:
`CreateSpec`, `RecordSpec`, `CreateTicket`, `WireTicket`, `Label`, `RecordLabels`,
each of which may fail or be the last before a kill. Planning is one step that
closes startable issues and moves the branch, upon which `WindDown` files what
was begun and drops the rest.

An agent saves its drafts one by one while it works (`AgentWrites`), whatever then
becomes of it, and all candidates of a scan write into the same directory. The
wind-down reads that directory for every candidate that is not finished, so that a
set may be finished from what another candidate wrote: `world.foreign` is a
history variable with those sets.

The run `improve_cycle` has one scan of two candidates, two tickets each, a cap of
one set or none, two iterations, two runs, one stop (a limit, a timeout or a blocked
preflight) and one fault. It checks
the inductive invariant (`Inv`), whole sets (`ReadySetsAreWhole`), no ticket left
behind (`NoOrphans`), and that a phase ends (`PhaseEnds`).

A ticket that can be picked up is wired and waits for all its draft says, and has
its whole set beside it unless the set is one of `foreign` (`ReadySetsAreWhole`);
without faults no ticket is left without its label (`NoOrphans`); drafts are filed
under the candidate that wrote them, tickets of neighbouring candidates are not startable
side by side (`NextCandidateWaits`), and an interrupted cycle is not planned over
(`Inv`). `NextCandidateWaits` is about neighbours only, since with three candidates the claim
for any two does not hold (section 14).

Two candidates let drafts be mistaken for each other's, and two tickets make a set
that can be in halves. A cap of one is met between the candidates, and without a
cap both are filed, in one iteration or over two. A second run takes up what the first
left. The stop and the fault come at any two steps, in either order. Sets enter
`foreign` only with two stops, a limit and a base that moves after it, so on this
instance `ReadySetsAreWhole` holds of all sets; the theorem (section 15) covers any number
of stops, with the exception. Fairness: a run that is on goes on, no agent works for
ever. The runs are bounded, so no deadlock check.

## 12. Containers: one-shot runs and checks

`OneShotRuns` is the life of a container under `run_one_shot` (whose one caller is
the slice classifier) and under `run_preflight`: `Choose` and `NothingLeft` are
the choice in the chain, `Open` to `SetUp` the building of overlay and container,
`Call` to `TimedOut` the attempts with their retries, `CheckBegins`, `CheckPasses`, `CheckFails`,
`CheckCut`, `CheckRaises` and `Verdict` the checks, `Close` and `CloseFails` the tear-down.
`thread` is the session that the executor thread is starting, if any; `Interrupt`
does not reach that thread. A check is begun and ends; if its container dies in between, its
exec returns 137, which counts as a failed check (`CheckCut`), and the next one
raises. `refused`, `excuse` and `cut` are history variables.

`oneshot_runs` has a chain that names one service twice, two checks, one retry and
two marks that elapse. It checks that whichever way a run ends nothing of it is
left and a verdict is one of all checks, of which only the last may have been cut short, and then it is
red (`Inv`), that a limited service is not
called again before its time (`NoWastedCall`), and that runs end. `LeavesNothing`
leaves out an engine that refuses, a kill, and Ctrl-C while the thread starts the
container (see section 14). Fairness: Docker and providers answer at last, with
an error or a timeout. For agents the code sees to that by their idle timeout; checks and set-up
commands it runs without one (`container_runner.py:338`, `docker_session.py:175`), so that they end
is an assumption. Deadlock is checked.

## 13. The outer loop

`RunLoop` is a run from the command line to its exit code: start-up up to the
wait for the operating branch, the loop over iterations with every outcome and
its directive, the agent that reports a failure, and the filing of reports on
the project's tracker or upstream. `at` is the step, `posted` counts the open reports of a title,
`job` is the report being filed: gate, lookup, search with its retries, creation,
of which the answer may be lost. A search asks an index: `listed` are the titles it shows, which a report
enters some time after it was opened (`Indexed`), and it takes a 422 for "none found". It may also show
an issue of other words (`Reuse`). `job.unseen` are the open reports that a search did not
show. `pycastle check` is here too, `StartCheck` to
`AllTold`. The environment kills the run, triages reports, pushes the working branch from
another clone, checks branches out and removes worktrees.

`run_to_exit` has two runs in sequence, each of two iterations, five
configurations (`SomeConfigs`: a good chain, one whose first choice is away with
nothing filed or diagnosed by itself and no working branch, one all away, one
with an invalid entry, one mismatched), two issues, of which both may fail to be closed, one unparsed limit message,
two host checks, three attempts of a request and at most two reports open. It checks that a
report of a kind is filed once while one is open, unless the search failed, was refused as
unprocessable or did not show it yet (`OneReportPerFamily`), that a failure stays one whatever becomes of its
report (`FailureIsFinal`), that a check that exits with 0 has told of every failure and given its worktree back to git
(`ChecksAreTold`, in `LoopInv`; files may be left), and that runs end. Two iterations let one leave
something to the next, two runs let one report meet another's; of titles of one
kind a failed fetch and a failed push are the two. Fairness:
the program's steps and the operator's `Release`. Others check branches out and push
only at the steps at which the process looks, since no other can tell the difference. After the last run nothing is
left to do, so no deadlock check.

## 14. Disagreements

Where the code does something else than its documents say, the models follow the
code, and the properties say what holds of it. Each of these was met while
modelling; the second path is the text that says otherwise.

Sessions and accounts:

- `agents/attempt_loop.py:101` takes a session for the running service's own unless exactly one service has files there, but `agents/runner.py:486` seeds `auth.json` for codex first, so that codex may be told to resume a conversation of claude (`CONTEXT.md:410`, ADR 0017, ADR 0044).
- `attempt_loop.py:100` stops after three tries: with `timeout_retries` of 3 the third timeout ends with a `RuntimeError` (`CONTEXT.md:338`).
- `_recover_stale_continuation` (`attempt_loop.py:239`) removes the fingerprint of a sandbox session with the rest (`CONTEXT.md:406`).
- `attempt_loop.py:176` marks completion before the host commits, so that after a failed commit the stage is skipped and the issue may be closed with uncommitted work (`README.md:33`). `UncommittedSurvives` says how far it survives.
- `start_fresh` (`session/role.py:117`) removes the role directory and then creates it. Killed in between, it leaves a worktree with untracked work and no session, which a later role that cannot be started takes for clean and removes by force (`CONTEXT.md:425`). `UncommittedSurvives` leaves out these issues (`torn`), `WorktreesFit` too.
- `credential_pool.py:58` overwrites a retirement by a later usage limit (ADR 0037), `_pool_availability.py:42` marks the current account and not the agent's (ADR 0045), and a refusal by the guard at `runner.py:457` hides a retirement, after which the run sleeps (ADR 0037).

Branch, planning and closing:

- The recovery of a rejected push (`git_service.py:677`) pulls in the repository's root, into whatever is checked out there (`CONTEXT.md:184`, ADR 0060).
- `git_service.py:307`: a sandbox with a staged, uncommitted merge makes `try_merge` raise at every entry, and the conflict stays until the branch moves (ADR 0050); `ConflictsEnd` and `IssuesClose` leave it out.
- A nonzero `git worktree remove` is answered with `rmtree(ignore_errors)` (`git_service.py:722`), after which the branch is deleted (`_merged_branch_teardown.py:55`). Are session files left that say "done", and could the issue not be closed, then every later plan finds the issue complete and its merge a branch that is not there, which ends the merges of the whole batch (`CONTEXT.md:142` has such issues brought to an end). `MergeFindsBranches` and `IssuesClose` leave them out.
- The removal of a sandbox to be rebuilt is suppressed where it raises (`worktree.py:406`), and the registered worktree is then used as it is (`worktree.py:347`): the conversation begins on a base older than its fingerprint (`CONTEXT.md:325`: the gate "forces the rebuild"). If a merger resolves its conflict there and is interrupted, each advance is refused until the branch moves (`Lags`). `FreshBase` and `ConflictsEnd` leave them out.
- `is_worktree_reusable` takes a failing git call for "not reusable" (`worktree.py:370`), upon which a sandbox that could be resumed is rebuilt (`CONTEXT.md:406`). `LiveConversationsStay` leaves that out.
- An agent files the preflight issue before the verdict is stored (`preflight.py:281`). A limit, timeout or error after the filing leaves no verdict while the process goes on (`_run.py:285`), and the same commit is reported again (`CONTEXT.md:136`). `OneIssuePerCommit` leaves those commits out (`lost`).
- The result of a resumed divergence resolver is not compared with origin (`preflight.py:142`), and its fingerprint has only the local commit (`preflight.py:63`): if origin moved meanwhile, the branch that is checked and worked on lacks what origin has (`CONTEXT.md:135`). `VerdictFits` speaks of what the sandbox was merged with.
- `planning_issue_intake.py:48` starts an issue the planner names even if its blockers are open (ADR 0059, `CONTEXT.md:160`), and labels are synchronised from a listing that may be old (ADR 0056, `CONTEXT.md:87`).
- An issue in flight whose slice labels were changed to none or two ends every run with a `RuntimeError` (`implement.py:362`; `CONTEXT.md:83`).
- An issue in flight whose agent always fails keeps new issues from being planned for ever (`planning.py:231`). `MarkersSettle` leaves work in flight out.
- The list of the issues for agents forgets every recently closed issue that it does not show (`github_service.py:407`), a parent without that label among them, so that the list of all labels read next shows it as open while it lags (ADR 0009, `CONTEXT.md:162`). ADR 0009 also calls the cascade single-threaded; it runs in threads.
- A failed close whose report cannot be filed, or which a usage limit follows, is dropped (`merge.py:178`; ADR 0043).

Improve:

- The wind-down files every unfinished candidate from the one directory of drafts (`improve_candidate_lifecycle.py:168`). If a GitHub call fails after the first ticket of a set, the drafts go (`:148`); if the next candidate has saved a specification when a limit comes and the base moves, the half set is "filed" from that, so that nothing of what it lacks is created, and its tickets are labelled (`CONTEXT.md:473`, ADR 0058, line 17). `ReadySetsAreWhole` holds of every other set (those not in `foreign`).
- A candidate is blocked by the specification of the one just before it and by nothing else (`improve_role_session_store.py:179`): where the second of three is abandoned, tickets of the third are startable beside those of the first (ADR 0058, line 56; `CONTEXT.md:475`). `NextCandidateWaits` says what holds: neighbours wait for each other.
- The cursor moves on before a candidate's drafts are filed (`improve.py:636`), and a kill during the filing leaves half a set without labels (`CONTEXT.md:471`), which `NoOrphans` excludes. Tickets of the next candidate wait for the specification of that half set.
- The count against the cap is lost when a limit comes after a filing (`_run.py:161`; `CONTEXT.md:448`).
- A ticket that is blocked by a later one of its set ends in a `KeyError` while its body is written.

Containers, reports and start-up:

- Ctrl-C while the executor's thread starts a container leaves it running; one created and never started is not removed (`docker_session.py:102`; `CONTEXT.md:306`).
- A container that dies in the last check of a preflight makes that check fail, with an issue about it, instead of an error of the engine (`docker_session.py:186`, `container_runner.py:339`; `CONTEXT.md:257` routes "ordinary command failures" there).
- A report is doubled where the index of GitHub does not show the first one yet, or answers 422, which is taken for "none found" (`github_service.py:519`; ADR 0021, line 15: the deduplication by search "survives restarts", and ADR 0043, line 9). `OneReportPerFamily` leaves out reports the search did not show.
- The rotation of a one-shot run has no bound of its own: with resets already past it calls again and again (`runtime.py:306`).
- Failures of the start-up fetch or push, and of authentication, go to the upstream tracker (`CONTEXT.md:283`, `CONTEXT.md:388`).
- Some errors of the reporting agent escape `failure_report_dispatch.py:137` (`CONTEXT.md:393`, ADR 0023), and the fallback for a worktree that is missing is not reached (`CONTEXT.md:395`, ADR 0032).
- A usage-limit message is remembered as reported before its report is filed, so that a failed filing is not tried again.
- A run that ends after a failed close exits with 0.
- A second run of a project may wait behind the first instead of aborting (section 3), and the items at the ends of sections 5 and 6.

## 15. Proofs

A proof module extends its components and proves, for every value of the
constants that the named assumptions allow, an inductive invariant of each and what
follows from it. The runs check the same invariants (`Inv` and its namesakes), so that a
part that is not inductive or not true shows up in TLC first. What is only a
consequence (`OneRunPerProject`, `PromptFitsSession`, ...) is stated by a theorem alone.
A proof has a lemma per action, or per conjunct with a step per action, and
the temporal theorems combine them.

| module | component | assumptions | theorems |
|---|---|---|---|
| `RunProofs` | `RunSlot` | `RunsAssumption`, `WindowAssumption` | `Invariance`, types, exclusion of projects and of the queue, the record, deserved aborts, no hold-and-wait, `Refinement` of `RunExclusion` |
| | `RunLoop` | `BoundsAssumption` | `LoopInvHolds`, `ChecksAreTold`, `OneReportPerFamily`, `FailureIsFinal` |
| `IssuePipelineProofs` | `IssuePipeline` | `PipelineAssumption`: finitely many issues | `Invariance`, closed issues are merged, merges find branches, merged work was reviewed, `UncommittedSurvives`, `Refinement` of `IssueDelivery` |
| `ConversationProofs` | `AttemptLoop` | `ServicesAssumption`, `RetriesAssumption` | `Invariance`, types, prompts, completion, `InterruptedResumes`, `LiveConversationsKept` |
| | `SandboxEntry` | `BoundsAssumption`, `NoneAssumption` | `SandboxInvHolds`, `FreshBase`, `ResumesFit`, `LiveConversationsStay` |
| `RemoteSyncProofs` | `RemoteSync` | `AttemptsAssumption`, `BoundsAssumption` | `Invariance`, `VerdictFits`, one issue per commit, closed goes out, `NothingLost` |
| `IssueProofs` | `IssueClosing` | `ParentAssumption`, `LabeledAssumption`, `TriesAssumption`, `BoundsAssumption` | `Invariance`, `ParentsLast`, `OneCloser` with `MarksMeanClosed`, `NotOfferedAgain` |
| | `PlanningIntake` | `ModesAssumption`, `EditsAssumption` | `IntakeInvHolds`, `StartsWhatIsShown` |
| `AccountPoolProofs` | `AccountPool` | `SizesAssumption`, `ChainAssumption` | `Invariance`, `GuardSuffices`, `StopIsFinal`, `SleepWakes` |
| `OneShotRunsProofs` | `OneShotRuns` | `ChainAssumption`, `RetriesAssumption` | `Invariance`, `NoWastedCall`, `LeavesNothing` |
| `ImproveCycleProofs` | `ImproveCycle` | `SizesAssumption` | `Invariance`, `ReadySetsAreWhole`, `NoOrphans` |

The assumptions give constants their types and bounds. More than that say only
`WindowAssumption` (section 3), `PipelineAssumption` (finitely many issues), the chains (not
empty; services share no account, and an inline one has one) and `ModesAssumption` (a slice
label is no marker label; `label_catalog.py` gives each its own).

What has to be added to each property to make it inductive:

- **Run slot.** None of the properties is inductive by itself. `IInv` adds who holds
  which lock at which `pc` (a queued run none, a run from `record` to `closing` the token,
  an active run its marker, a probing run exactly one foreign marker), that a
  jumper never has the token, that tries are counted within the window, and what
  a scan knows: every run owed is still active only if its project is still to be
  probed or was found locked. The last part carries `RespectsTheQueue` over a scan
  that is not atomic: a jumper started behind the scan's back is not owed.
- **Attempt loop.** A conversation that can be resumed has the files of its service
  (`ConversationHasState`), which is what makes the ownership check sound; a
  resumed session goes on with what is on disk (`SessionTalks`); what is being
  wiped is of no use to the requested service (`WipedIsUseless`); the marker is
  only there between runs (`DoneInv`); at the head of the loop prompt and kind fit
  and a resume finds a continuation (`AttemptFits`); a result is only there
  between runs (`ResultInv`).
- **Run loop.** `OneReportPerFamily` is about the step that creates a report, and rests on
  what the search before it found: `SearchedFirst`: at the creation every open report of the kind is one that the search did not
  show, because between the two nobody but the operator, who closes reports, changes a tracker. Only
  a creation of its own adds a report. `FailureLeadsOut`: after a failure there is nothing but its report and the exit,
  which `ReporterCrashes` and a report that cannot be filed end in as well. `ChecksStayApart`: a
  run has no host check open, so that neither its exit nor a failure's can be mistaken for
  that of a check, and telling begins after the last command.
- **Issue pipeline.** `WorktreesFit`: a worktree has its branch,
  uncommitted work a worktree and the session of the role that left it (or the issue is in `torn`), and
  leftovers that say "done" are of a merged issue. `StepsFit`: where
  `run_issue` is, against the sessions; an agent only works before the review is
  done, and from the reviewer's success on all work has been seen. `MergeFits`: what is
  in the sets of the merge phase is reviewed until it is torn down, and merged
  before. The lemma `DiskEffect` lists the four things a step can do to commits,
  branches, the operating branch and the closed issues; `ClosedIsMerged` and the
  refinement of `IssueDelivery` both follow from it. That a step implements a step
  uses the invariant: an issue is closed, and a branch dropped, only with all its
  commits merged.
- **Sandboxes.** `ConversationsWhole`: a conversation that can be gone on with has its
  directory, and if it is stamped, a worktree and the inputs of the stamp; so what the gate reads
  from the stamp is true of the conversation. `OnItsCommit` says the same of the worktree and
  the code in it, with the branch that could not be deleted and the worktree that could not be removed (`stuck`) as the exceptions. `StampsArePast`: no stamp is
  newer than the entry, so that a commit made while it runs is not taken for the one it began
  with. `EntryKnows` is what each step of an entry has established, until the agent
  works on a session of the right stamp. `LiveConversationsStay` then needs a case per
  removal: each is of a session without a conversation, of other inputs, or after git failed (`GitFailed`).
- **Remote.** `AskersFit`: what planning, merge and push ask of a refresh. `CacheFits`:
  the one slot of the cache has the newest commit that was checked, which is why
  one slot is enough for one issue per commit where reports are not cut short. `HadFits` follows what origin had
  through each step of the refresh into the verdict's commit. `ClosedFits`: what was
  merged for closed issues is on the branch. All rest on `StepGrows`: no ref
  loses a commit, which is `NothingLost`; so a verdict stays true (`KnownStays`).
- **Closing.** `ThreadsFit`: a thread starts at work of its own, climbs to parents that exist, and
  once it has listed their sub-issues these are closed or were reopened. `MarksHeld`:
  a mark is that of a parent that was closed or of one a thread is closing; with one
  thread per mark, no two close one parent. `RememberedWasClosed` and `LagRemembered`: what the
  lists still show of the closed work is remembered, or its thread is about to.
- **Planning.** `ShownOrPending` ties what a pass believes of the labels to what GitHub shows, label
  by label: they agree, or the change that will make them agree is still to be made. People's
  edits exempt an issue (`changed`) for the rest of the pass. `CandidatesOnly`: what is to be started was ready as
  the pass believes, and `SyncOnly`: label changes are left over only during the synchronisation, so that
  at the start of the work the belief is the truth. Of the labels that count,
  the verdicts of the classifier change only slice labels, and those to the one chosen
  (`WhatIsPending`); markers are other labels, which is where `ModesAssumption` is needed.
- **Accounts.** `AgentsDone`: a decision is made when no agent is left, so that no mark
  changes under it. `SleepLongEnough`: the wake time chosen is one at which an account of the chain
  is usable; that the least of the times exists is a lemma of its own (`LeastExists`).
  The guard is enough because no mark is set between the guard and the second pick, and the clock
  only frees accounts.
- **One-shot runs.** `SessionFits`: which session is held, which one a thread starts
  and which excuse there is when a container is up; `LeavesNothing` follows from it and is no
  part of the induction. `CutFits`: once a check was cut short, no other begins, and the verdict, if there
  is one, is red. `RotationFits`: what limited the rotation is marked, and the
  candidate in use is none of them. `VerdictIsLast`: a verdict is there only after the checks.
- **Improve cycle.** The invariant of `ImproveCycleProofs` leaves `NextCandidateWaits` and `PlanningWaits` out
  of the induction and has `ReadySetsAreWhole` in. `SessionFits` and `FilingFits` say how far the cursor is
  and whose drafts these are; in a phase the candidates from the cursor on have no record. `RecordsFit` reads from
  disk to GitHub (a recorded ticket is wired and a sub-issue of the recorded specification), `IssuesFit` from GitHub to
  disk (a ticket of the session's scan belongs to the recorded specification of its
  candidate, and waits for that of the candidate before). `MadeFits` is the issue that
  is created and not recorded yet. `DraftsStay` and `LabelsFit` are what makes a set
  whole: the drafts it was filed from are still there when it is finished, and a set
  whose label pass was cut short has all of them filed and gets no others, because
  the next thing to happen to its session is the wind-down or the implementation of what is ready.
  `foreign` is where the first of these fails. `ReadyInTurn` gives
  `NextCandidateWaits`: a ready ticket of the later candidate waits for the specification of the earlier one,
  which is open as long as one of its tickets is. `NothingLeftBehind` is `NoOrphans` within a phase.

Only model-checked: every liveness property (`WaitingEnds`, `IterationEnds`, `IssuesClose`, `StaleIsDropped`,
`CascadeCompletes`, `RunEnds`, `PhaseEnds`, `ConflictsEnd`, `IntakeProgresses`), because the prover has
neither `ENABLED` nor fairness. Every invariant and every action property that a run checks has its theorem.

## 16. Not modelled

Section 1 and the `components` of PROJECT.json name every part. Left out for
good: the rendering of prompts, reports and the display, the parsing of agent
output, configuration, logs, the set-up commands and HTTP, none of which keeps
state that a later step depends on; their outcomes are choices of the models.
The estimate of an unknown reset time, delays and backoffs are choices, too, or
are left out: no property is about how long something takes. Not composed: two
host checks at one time, which share a worktree, and a pool shared by several
processes, because pycastle keeps marks in memory.
