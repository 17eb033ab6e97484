------------------------------- MODULE RunLoop ------------------------------
(***************************************************************************)
(* One run of a project from the command line to its exit code: start-up   *)
(* (main.py, run_startup_preparation.py), the loop over iterations         *)
(* (iteration/orchestrator.py), the way each failure of an iteration takes *)
(* to a directive of that loop (iteration/_run.py, outcome_routing.py),    *)
(* and the reports filed on that way, on the project's own tracker or      *)
(* upstream (upstream_issue_report.py, bug_reporter.py).                   *)
(*                                                                         *)
(* Abstracted: what an iteration does is a choice of how it ends; the text *)
(* of a report is its family and the detail its title adds.  Runs of one   *)
(* project follow each other, see RunSlot.  The other command that comes   *)
(* to a verdict, pycastle check (_host_check.py), is here too; it takes no *)
(* slot, and two checks at once are left out.                              *)
(***************************************************************************)
EXTENDS Naturals, Sequences, FiniteSets, Functions

CONSTANTS Configs,        \* configurations a project may have: the priority chain
                          \* of its stages, whether failures are diagnosed, bugs
                          \* filed by itself, and a working branch is set
          MaxIterations,
          Issues,         \* issues an iteration merges
          RawMessages,    \* usage-limit messages without a reset time
          Checks,         \* host_checks
          Attempts,       \* _READ_RETRY_MAX_ATTEMPTS
          MaxStarts, MaxOpen  \* bounds: runs, and open reports in all

ASSUME BoundsAssumption ==
  /\ MaxIterations \in Nat \ {0} /\ Attempts \in Nat \ {0}
  /\ MaxStarts \in Nat /\ MaxOpen \in Nat
ASSUME ConfigsAssumption ==
  \A c \in Configs : {c.diagnosing, c.filing, c.working} \subseteq BOOLEAN

\* Title prefixes, the tracker they go to, and what follows in the title.
Home     == {"credential", "git", "close", "drafts", "diagnosis"}
Upstream == {"usage", "hard", "setup", "crash"}
Details(f) == CASE f = "git" -> {"fetch", "push"} [] f = "close" -> Issues
                [] OTHER -> {"-"}
Titles   == UNION {{f} \X Details(f) : f \in Home \cup Upstream}
\* The dedupe key of a typed report is its prefix, of any other its title.
SameReport(t) == IF t[1] \in {"git", "close", "drafts"} THEN {u \in Titles : u[1] = t[1]}
                 ELSE {t}

VARIABLES
  cfg,        \* the project's configuration
  posted,     \* open reports of each title
  listed,     \* titles the tracker's search index shows an open report of
  branch,     \* the working branch: here, on origin, and origin as last fetched
  held,       \* the operator has the operating branch checked out
  worktree,   \* the worktree of a failed agent is there
  host,       \* the last host check: its commands, those that failed, the
              \* ones an issue tells of, and its worktree
  at,         \* the step the process is at
  iteration,
  left,       \* what this iteration may still fail to close or to file
  closeFailed, \* the merge phase has filed a close failure
  filedRaw,   \* _FILED_USAGE_LIMIT_RAW_MESSAGES
  failed,     \* a failure this run must not survive
  job,        \* the report being filed, and the open ones of its kind that
              \* its search did not show
  exit,       \* exit code of the last run
  starts

world    == <<cfg, posted, listed, branch, held, worktree, host>>
run      == <<iteration, left, closeFailed, filedRaw, failed, exit, starts>>
loopVars == <<world, at, run, job>>

NoCheck == [todo |-> {}, failing |-> {}, told |-> {}, sandbox |-> "none"]
NoJob == [title |-> <<"crash", "-">>, then |-> "exit", unseen |-> {}]

LoopInit ==
  /\ cfg \in Configs /\ posted = [t \in Titles |-> 0] /\ listed = {}
  /\ branch = [here |-> "none", origin |-> "none", fetched |-> "none"]
  /\ held = FALSE /\ worktree = TRUE /\ host = NoCheck
  /\ at = "off" /\ iteration = 0 /\ left = {} /\ closeFailed = FALSE
  /\ filedRaw = {} /\ failed = FALSE /\ job = NoJob /\ exit = 0 /\ starts = 0

-----------------------------------------------------------------------------
\* GithubService._request: reads are tried again, writes only once.
Answers == {"ok", "auth", "unprocessable", "api", "transient"}
Outcome(a) ==
  LET final == {i \in 1..Attempts : a[i] # "transient"}
  IN  IF final = {} THEN "exhausted"
      ELSE a[CHOOSE i \in final : \A j \in final : i <= j]
Reads  == {Outcome(a) : a \in [1..Attempts -> Answers]}
Writes == {"auth", "api", "network"}
Errors == Reads \ {"ok"}

GoTo(l) == at' = l
Stay    == UNCHANGED <<world, run, job>>
End(code) == GoTo("off") /\ exit' = code
             /\ UNCHANGED <<world, iteration, left, closeFailed, filedRaw, failed, starts, job>>

Room == FoldFunction(+, 0, posted) < MaxOpen

\* A report on the project's tracker, and one through auto_file_issue.
File(f, d, then) == job' = [title |-> <<f, d>>, then |-> then, unseen |-> {}]
                    /\ GoTo(IF f = "credential" THEN "lookup" ELSE "search")
AutoFile(f, then) == job' = [title |-> <<f, "-">>, then |-> then, unseen |-> {}]
                     /\ GoTo("gate_file")
\* _BugReportingGroup and report_and_exit.
ReportCrash == AutoFile("crash", "exit") /\ UNCHANGED <<world, run>>
Fail  == failed' = TRUE
         /\ UNCHANGED <<world, iteration, left, closeFailed, filedRaw, exit, starts>>

-----------------------------------------------------------------------------
\* Start-up.  An entry of a chain is "ok", "away" (its service has no
\* credentials here), "invalid" (of no known service, effort or model) or
\* "mismatch" (not a model of the configured account's provider).
Invalid    == \E i \in DOMAIN cfg.chain : cfg.chain[i] = "invalid"
Mismatched == \E i \in DOMAIN cfg.chain : cfg.chain[i] = "mismatch"
Away(i)    == cfg.chain[i] = "away"
Configured == \E i \in DOMAIN cfg.chain : ~Away(i)
Prepared   == ~Invalid /\ ~Mismatched /\ Configured

NewProcess ==
  /\ at = "off" /\ starts < MaxStarts
  /\ starts' = starts + 1 /\ iteration' = 0 /\ filedRaw' = {} /\ failed' = FALSE
  /\ left' = {} /\ closeFailed' = FALSE
  /\ UNCHANGED <<cfg, posted, listed, branch, held, worktree, job, exit>>

Start == NewProcess /\ GoTo("validate") /\ host' = NoCheck

Validated == at = "validate" /\ Prepared /\ GoTo("build") /\ Stay
Refused   == at = "validate" /\ ~Prepared /\ End(1)

BuildImage == at = "build" /\ ((GoTo("identity") /\ Stay) \/ End(1))

\* Usage errors leave with code 2.
Identify == at = "identity" /\ ((GoTo("auth") /\ Stay) \/ End(2))

Authenticate ==
  /\ at = "auth"
  /\ \E o \in Reads : \/ o = "ok" /\ GoTo("facts") /\ Stay
                      \/ o \in {"auth", "exhausted"} /\ End(2)
                      \/ o \in {"api", "unprocessable"} /\ ReportCrash

\* _setup_branch; what is on origin is what was fetched last.
CollectFacts ==
  /\ at = "facts"
  /\ \/ End(2)                 \* no dev branch on origin
     \/ /\ GoTo(IF cfg.working /\ branch.here = "none" /\ branch.fetched = "none"
                THEN "fetch" ELSE "wait")
        /\ Stay

FetchOrigin ==
  /\ at = "fetch"
  /\ \/ /\ branch' = [branch EXCEPT !.fetched = branch.origin] /\ GoTo("seed")
        /\ UNCHANGED <<host, cfg, posted, listed, held, worktree, run, job>>
     \/ ReportCrash

Seed ==
  /\ at = "seed"
  /\ \/ /\ branch' = [branch EXCEPT !.here = "seed"] /\ GoTo("push")
        /\ UNCHANGED <<host, cfg, posted, listed, held, worktree, run, job>>
     \/ ReportCrash

PushUpstream ==
  /\ at = "push"
  /\ \/ /\ branch.origin = "none"
        /\ branch' = [branch EXCEPT !.origin = "seed", !.fetched = "seed"] /\ GoTo("wait")
        /\ UNCHANGED <<host, cfg, posted, listed, held, worktree, run, job>>
     \/ ReportCrash

WaitForRelease == at = "wait" /\ ~held /\ GoTo("top") /\ Stay

-----------------------------------------------------------------------------
\* The loop, and how an iteration ends.
BeginIteration ==
  /\ at = "top" /\ iteration < MaxIterations
  /\ iteration' = iteration + 1 /\ left' = Issues \cup {"drafts"} /\ closeFailed' = FALSE
  /\ GoTo("work")
  /\ UNCHANGED <<world, filedRaw, failed, exit, starts, job>>

AllIterationsDone == at = "top" /\ iteration = MaxIterations /\ End(0)

\* on_error of the merge phase: an issue cannot be closed.
CloseFails(i) ==
  /\ at = "work" /\ i \in left \cap Issues
  /\ left' = left \ {i} /\ File("close", i, "close")
  /\ UNCHANGED <<world, iteration, closeFailed, filedRaw, failed, exit, starts>>

DraftsUnrepairable ==
  /\ at = "work" /\ "drafts" \in left
  /\ left' = left \ {"drafts"} /\ File("drafts", "-", "work")
  /\ UNCHANGED <<world, iteration, closeFailed, filedRaw, failed, exit, starts>>

\* Continue, a timeout, a transient error, or a limit that an account is left for.
Continue == at = "work" /\ (GoTo("top") \/ GoTo("limit")) /\ ~closeFailed /\ Stay

\* Mutant: an iteration that only timed out is not counted.
InterruptUncounted ==
  /\ at = "work" /\ GoTo("top") /\ iteration' = iteration - 1
  /\ UNCHANGED <<world, left, closeFailed, filedRaw, failed, exit, starts, job>>

Interrupt == at = "work" /\ GoTo("top") /\ Stay

\* Done and NoCandidate.
NothingLeft == at = "work" /\ ~closeFailed /\ End(0)
BreakAfterCloseFailure == at = "work" /\ closeFailed /\ End(0)

NeedsHuman == at = "work" /\ GoTo("failing") /\ Fail /\ UNCHANGED job
RepositoryFails ==
  /\ at = "work"
  /\ \/ GoTo("failing") /\ Fail /\ UNCHANGED job      \* API error, retries used up
     \/ AutoFile("crash", "exit") /\ Fail             \* 401, or a write that got lost

\* A message is remembered before it is filed.
LimitUnparsed(m) ==
  /\ at = "work" /\ m \in RawMessages \ filedRaw
  /\ filedRaw' = filedRaw \cup {m} /\ AutoFile("usage", "limit")
  /\ UNCHANGED <<world, iteration, left, closeFailed, failed, exit, starts>>
LimitKnown == at = "work" /\ GoTo("limit") /\ Stay

RemoteFails(op) == at = "work" /\ File("git", op, "exit") /\ Fail
SetupFails      == at = "work" /\ AutoFile("setup", "exit") /\ Fail
HardError       == at = "work" /\ AutoFile("hard", "exit") /\ Fail
CredentialFails == at = "work" /\ File("credential", "-", "exit") /\ Fail

AgentFails ==
  /\ at = "work" /\ GoTo(IF cfg.diagnosing THEN "diagnose" ELSE "failing") /\ Fail
  /\ UNCHANGED job
ExitFailure == at = "failing" /\ End(1)

\* decide_usage_limit_continuation, decide_model_not_available_continuation.
RouteLimit == at = "limit" /\ ((GoTo("top") /\ Stay) \/ (GoTo("asleep") /\ Stay) \/ End(0))
WakeUp     == at = "asleep" /\ GoTo("top") /\ Stay

-----------------------------------------------------------------------------
\* The Failure-Report agent.  A missing mount passes the gate of the dispatch
\* and is refused by the agent runner.
Diagnosed ==
  /\ at = "diagnose" /\ worktree /\ Room
  /\ posted' = [posted EXCEPT ![<<"diagnosis", "-">>] = @ + 1] /\ GoTo("failing")
  /\ UNCHANGED <<host, cfg, listed, branch, held, worktree, run, job>>

\* Mutant: the run goes on when the report agent has crashed.
ReporterCrashesQuietly == at = "diagnose" /\ worktree /\ GoTo("top") /\ Stay

ReporterCrashes == at = "diagnose" /\ worktree /\ GoTo("failing") /\ Stay

\* A failure of codex is reported only when its signature is known.
Signatures == {"known", "unknown"}
Routed(service, signature) == service # "codex" \/ signature = "known"

ReporterCredential ==
  /\ at = "diagnose" /\ worktree
  /\ \E service \in {"claude", "codex"}, signature \in Signatures :
       IF Routed(service, signature)
       THEN File("credential", "-", "exit") /\ UNCHANGED <<world, run>> ELSE ReportCrash
ReporterEscapes == at = "diagnose" /\ ReportCrash
  \* its own AgentFailedError, another output than an issue, git, no mount

-----------------------------------------------------------------------------
\* Filing.  After the report: "exit", "limit", "work", or "close".
Resume(numbered) ==
  /\ job' = NoJob
  /\ IF job.then = "exit" THEN GoTo("failing") /\ UNCHANGED <<closeFailed>>
     ELSE IF job.then = "close"
     THEN GoTo("work") /\ closeFailed' = (closeFailed \/ numbered)
     ELSE GoTo(job.then) /\ UNCHANGED closeFailed
  /\ UNCHANGED <<host, cfg, listed, branch, held, worktree>>
  /\ UNCHANGED <<iteration, left, filedRaw, failed, exit, starts>>

\* Mutant: a typed report is looked for by its whole title.
FoundByTitle == job.title \in listed

\* What the search shows is the tracker's index, not the tracker.
Found == \E t \in SameReport(job.title) : t \in listed
Reuse == Resume(TRUE) /\ UNCHANGED posted

\* The open reports of its kind, and what the filing knows of them afterwards.
OpenAlike == {t \in SameReport(job.title) : posted[t] > 0}
GoOnWithout(missed) ==
  job' = [job EXCEPT !.unseen = missed] /\ GoTo("create") /\ UNCHANGED <<world, run>>

\* The prefilled link is printed instead.
GateShut == at = "gate_file" /\ ~cfg.filing /\ Resume(FALSE) /\ UNCHANGED posted
GateOpen == at = "gate_file" /\ cfg.filing /\ GoTo("search") /\ Stay

\* A credential failure is looked up once more, and with no guard.  A report
\* may be found by its words alone that is another one; a search the tracker
\* cannot process counts as one that found none.
LookUp ==
  /\ at = "lookup"
  /\ Reuse \/ (~Found /\ GoTo("search") /\ Stay)
LookUpFails ==
  /\ at = "lookup"
  /\ \E o \in Errors :
       CASE o = "auth" -> ReportCrash
         [] o = "unprocessable" -> GoTo("search") /\ Stay
         [] OTHER -> GoTo("failing") /\ job' = NoJob /\ UNCHANGED <<world, run>>

Search ==
  /\ at = "search"
  /\ Reuse \/ (~Found /\ GoOnWithout(OpenAlike \ listed))
\* Whatever the error, 422 among them, the report is taken for a new one.
SearchFails == at = "search" /\ Errors # {} /\ GoOnWithout(OpenAlike)

Create ==
  /\ at = "create" /\ Room
  /\ posted' = [posted EXCEPT ![job.title] = @ + 1] /\ Resume(TRUE)

\* An answer that was lost does not tell whether the report arrived.
CreateFails ==
  /\ at = "create"
  /\ \E o \in Writes, arrived \in BOOLEAN :
       /\ arrived => o = "network" /\ Room
       /\ posted' = IF arrived THEN [posted EXCEPT ![job.title] = @ + 1] ELSE posted
  /\ Resume(FALSE)

-----------------------------------------------------------------------------
\* pycastle check: the commands run on the host in a worktree of HEAD, and an
\* agent files an issue for each one that fails.
StartCheck == NewProcess /\ GoTo("refresh") /\ host' = [NoCheck EXCEPT !.todo = Checks]

Refresh   == at = "refresh" /\ ((GoTo("clean") /\ Stay) \/ End(1))
CleanTree == at = "clean" /\ ((GoTo("sandbox") /\ Stay) \/ End(1))

Sandbox(now) == host' = [host EXCEPT !.sandbox = now]
                /\ UNCHANGED <<cfg, posted, listed, branch, held, worktree>>
LeaveWith(code, now) ==
  /\ Sandbox(now) /\ GoTo("off") /\ exit' = code
  /\ UNCHANGED <<iteration, left, closeFailed, filedRaw, failed, starts, job>>
\* Files may stay when git will not remove the worktree, and nobody is told; a
\* removal that takes too long raises, and it stays.
Leave(code) == (\E now \in {"none", "rubble"} : LeaveWith(code, now)) \/ LeaveWith(1, "kept")

OpenSandbox ==
  /\ at = "sandbox"
  /\ \/ Sandbox("open") /\ GoTo("check") /\ UNCHANGED <<run, job>>
     \/ End(1)

RunCheck(c, ok) ==
  /\ at = "check" /\ c \in host.todo
  /\ host' = [host EXCEPT !.todo = @ \ {c}, !.failing = IF ok THEN @ ELSE @ \cup {c}]
  /\ UNCHANGED <<cfg, posted, listed, branch, held, worktree, at, run, job>>

\* Not a RuntimeError: no shell, or output that is no text.
CheckBreaks ==
  /\ at = "check" /\ host.todo # {}
  /\ \/ \E now \in {"none", "rubble"} :
          Sandbox(now) /\ AutoFile("crash", "exit") /\ UNCHANGED run
     \/ LeaveWith(1, "kept")

AllChecked ==
  /\ at = "check" /\ host.todo = {}
  /\ IF host.failing = {} THEN Leave(0) ELSE GoTo("tell") /\ Stay

TellOf(c) ==
  /\ at = "tell" /\ c \in host.failing \ host.told
  /\ host' = [host EXCEPT !.told = @ \cup {c}]
  /\ UNCHANGED <<cfg, posted, listed, branch, held, worktree, at, run, job>>

\* What the agent needs is looked up for the first issue, and kept.
Resolved == host.told # {}
NoTeller == at = "tell" /\ ~Resolved /\ Leave(1)

\* A limit, a failed setup; an agent that failed leaves its worktree.
TellerFails == at = "tell" /\ host.failing # host.told /\ Leave(1)

\* The issue is there, but lacks what an issue for an agent needs.
TellsBadly(c) ==
  /\ at = "tell" /\ c \in host.failing \ host.told
  /\ \E now \in {"none", "rubble", "kept"} :
       host' = [host EXCEPT !.told = @ \cup {c}, !.sandbox = now]
  /\ GoTo("off") /\ exit' = 1
  /\ UNCHANGED <<cfg, posted, listed, branch, held, worktree>>
  /\ UNCHANGED <<iteration, left, closeFailed, filedRaw, failed, starts, job>>

\* Mutant: the issue of one command is taken for all.
AllToldOfOne == at = "tell" /\ host.told # {} /\ Leave(0)

AllTold == at = "tell" /\ host.failing \subseteq host.told /\ Leave(0)

-----------------------------------------------------------------------------
\* The process is killed, the operator closes reports, checks branches out
\* and cleans up, and another clone pushes the working branch: taken at the
\* steps at which the process looks.
Killed == at # "off" /\ at' = "off" /\ exit' = 137 /\ job' = NoJob
          /\ UNCHANGED <<world, iteration, left, closeFailed, filedRaw, failed, starts>>
Triage(t) ==
  /\ posted[t] > 0 /\ posted' = [posted EXCEPT ![t] = 0] /\ listed' = listed \ {t}
  /\ UNCHANGED <<host, cfg, branch, held, worktree, at, run, job>>
\* The search index follows in its own time, which shows only when it is asked.
\* What it may still show of a closed report keeps another from being filed,
\* which words alike do as well (Reuse).
Indexed(t) ==
  /\ at \in {"lookup", "search"} /\ t \in OpenAlike /\ listed' = listed \cup {t}
  /\ UNCHANGED <<host, cfg, posted, branch, held, worktree, at, run, job>>
CheckOut ==
  /\ at = "facts" /\ held' = ~held
  /\ UNCHANGED <<host, cfg, posted, listed, branch, worktree, at, run, job>>
Release ==
  /\ held /\ held' = FALSE
  /\ UNCHANGED <<host, cfg, posted, listed, branch, worktree, at, run, job>>
RemoveWorktree ==
  /\ at = "diagnose" /\ worktree' = FALSE
  /\ UNCHANGED <<host, cfg, posted, listed, branch, held, at, run, job>>
OtherPushes ==
  /\ at \in {"fetch", "push"} /\ branch.origin = "none"
  /\ branch' = [branch EXCEPT !.origin = "other"]
  /\ UNCHANGED <<host, cfg, posted, listed, held, worktree, at, run, job>>

StartUp ==
  \/ Validated \/ Refused \/ BuildImage \/ Identify \/ Authenticate \/ CollectFacts
  \/ FetchOrigin \/ Seed \/ PushUpstream \/ WaitForRelease
Iterate ==
  \/ BeginIteration \/ AllIterationsDone \/ Continue \/ Interrupt \/ NothingLeft
  \/ BreakAfterCloseFailure \/ NeedsHuman \/ RepositoryFails \/ LimitKnown
  \/ SetupFails \/ HardError \/ CredentialFails \/ AgentFails \/ ExitFailure
  \/ RouteLimit \/ WakeUp \/ DraftsUnrepairable
  \/ \E i \in Issues : CloseFails(i)
  \/ \E m \in RawMessages : LimitUnparsed(m)
  \/ \E op \in Details("git") : RemoteFails(op)
Report ==
  \/ Diagnosed \/ ReporterCrashes \/ ReporterCredential \/ ReporterEscapes
  \/ GateShut \/ GateOpen \/ LookUp \/ LookUpFails \/ Search \/ SearchFails
  \/ Create \/ CreateFails
HostCheck ==
  \/ Refresh \/ CleanTree \/ OpenSandbox \/ CheckBreaks \/ AllChecked \/ NoTeller \/ TellerFails \/ AllTold
  \/ \E c \in Checks, ok \in BOOLEAN : RunCheck(c, ok)
  \/ \E c \in Checks : TellOf(c)
  \/ \E c \in Checks : TellsBadly(c)
Step == StartUp \/ Iterate \/ Report \/ HostCheck
Environment ==
  \/ Killed \/ CheckOut \/ Release \/ RemoveWorktree \/ OtherPushes
  \/ \E t \in Titles : Triage(t)
  \/ \E t \in Titles : Indexed(t)

LoopNext == Start \/ StartCheck \/ Step \/ Environment

LoopSpec == LoopInit /\ [][LoopNext]_loopVars
\* The operator lets go of the branch, and what pycastle waits for answers.
LoopFairSpec == LoopSpec /\ WF_loopVars(Step) /\ WF_loopVars(Release)

-----------------------------------------------------------------------------
\* The steps of a run, of a report, and of a check.
RunSteps   == {"validate", "build", "identity", "auth", "facts", "fetch", "seed", "push",
               "wait", "top", "work", "limit", "asleep"}
Filing     == {"gate_file", "lookup", "search", "create"}
CheckSteps == {"refresh", "clean", "sandbox", "check", "tell"}

LoopSteps  == {"off", "failing", "diagnose"} \cup Filing \cup RunSteps \cup CheckSteps
Tips  == {"none", "seed", "other"}
Hosts == [todo : SUBSET Checks, failing : SUBSET Checks, told : SUBSET Checks,
          sandbox : {"none", "rubble", "open", "kept"}]
Jobs  == [title : Titles, then : {"exit", "limit", "work", "close"}, unseen : SUBSET Titles]

\* Every variable has its type.
LoopTypeOK ==
  /\ cfg \in Configs /\ posted \in [Titles -> Nat] /\ listed \subseteq Titles
  /\ at \in LoopSteps /\ host \in Hosts /\ job \in Jobs
  /\ branch \in [here : Tips, origin : Tips, fetched : Tips]
  /\ held \in BOOLEAN /\ worktree \in BOOLEAN /\ closeFailed \in BOOLEAN /\ failed \in BOOLEAN
  /\ iteration \in 0..MaxIterations /\ left \subseteq Issues \cup {"drafts"}
  /\ filedRaw \subseteq RawMessages /\ exit \in {0, 1, 2, 137} /\ starts \in 0..MaxStarts

\* A report is opened next to open ones of its kind only when its own search
\* could not show them: it failed, was refused with 422, or the index did not
\* have them yet (github_service.py:519-530).  Close failures of different
\* issues and git failures of different operations count as one kind
\* (upstream_issue_report.py), in one run, over several, and after a creation
\* whose answer was lost.
OneReportPerFamily ==
  [][\A t \in Titles :
       t[1] # "diagnosis" /\ posted'[t] > posted[t]
       => \A u \in SameReport(t) : posted[u] > 0 => u \in job.unseen]_loopVars

\* A failure that stops a run stops it whatever happens to its report: the
\* iterations are over, and the exit code is not that of a success
\* (outcome_routing.py; failure_report_dispatch.py).
FailureIsFinal ==
  [][failed => /\ iteration' \in {iteration, 0}
               /\ iteration' # iteration => at = "off"
               /\ (at # "off" /\ at' = "off") => exit' # 0]_loopVars

\* No failed host check is lost: a check ends with code 0 only when every
\* command has run, and an issue was filed for each one that failed, whatever
\* stopped the agent for one of them (_host_check.py, host_check_run.py), and
\* git has let go of the worktree; files of it may stay (git_service.py:722-729).
ChecksAreTold ==
  at = "off" /\ exit = 0 => /\ host.todo = {} /\ host.failing \subseteq host.told
                            /\ host.sandbox \notin {"open", "kept"}

\* Every run comes to its exit code: no failure, report or limit makes an
\* iteration that is not counted (the loop of orchestrator.py run).
RunEnds == (at # "off") ~> (at = "off")

\* A report is created only after a search that showed none of its kind.
SearchedFirst == at = "create" => OpenAlike \subseteq job.unseen

\* A failure leads to its exit code, and meanwhile to nothing but its report.
FailureLeadsOut ==
  failed => at \in {"off", "failing", "diagnose"} \/ (at \in Filing /\ job.then = "exit")

\* A run has no host check, and one that tells has run every command.
ChecksStayApart ==
  /\ at \in RunSteps \/ (at \in Filing /\ job.then # "exit") => host = NoCheck
  /\ at = "tell" => host.todo = {}

\* The types of the run and of the trackers, that a host check that ends well
\* has told of everything that failed, and what that and the action properties
\* rest on.
LoopInv ==
  LoopTypeOK /\ ChecksAreTold /\ SearchedFirst /\ FailureLeadsOut /\ ChecksStayApart
=============================================================================
