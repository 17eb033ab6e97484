------------------------------ MODULE OneShotRuns ------------------------------
(***************************************************************************)
(* The container of a run and what a run outside the issue pipeline does   *)
(* with it: the one-shot runs, which rotate through the candidates of a    *)
(* stage (runtime.py; the slice classifier is their one caller), and the   *)
(* preflight checks (AgentRunner.run_preflight).  The container is the one *)
(* of infrastructure/docker_session.py, set up by container_runner.py; a   *)
(* thread of the executor starts it, and Ctrl-C does not stop the thread.  *)
(*                                                                         *)
(* Abstracted: a service is one account, marked or not; what pools make of *)
(* a mark is in AccountPool.  What a classification changes is in          *)
(* PlanningIntake, what a verdict of the checks does in RemoteSync.        *)
(***************************************************************************)
EXTENDS Naturals, Sequences

CONSTANTS Services,
          Chain,          \* the services of the stage's candidates, in order
          Checks,         \* preflight_checks
          TimeoutRetries,
          MaxElapses      \* bound: marks that elapse, limits already over

ASSUME ChainAssumption == Chain \in Seq(Services) /\ Chain # <<>>
ASSUME RetriesAssumption == TimeoutRetries \in Nat /\ MaxElapses \in Nat

VARIABLES
  marked,    \* the services whose mark has not elapsed
  pc,        \* where the run is; "idle" between runs, "exited" after the process
  kind,      \* "one_shot" or "checks"
  node,      \* the candidate called
  session,   \* "none", "docker", or "unavailable": the engine was not reached
  held,      \* the session has the container it started
  thread,    \* the session the executor's thread is starting, or "none"
  overlay,   \* the temporary gitdir file
  container, \* "none", "created" (never started), "up", or "dead"
  stray,     \* the process of a timed-out attempt may be alive in it
  retries,
  running,   \* the check that is being run, if any
  ran, failed, \* the checks that were run, and those counted as failed
  ending,    \* how the run ends
  refused,   \* ghost: services that limited this run and are still limited
  excuse,    \* ghost: why the container was not the run's to remove
  cut,       \* ghost: a check the container died in: "none", "last" or "early"
  elapses

engine == <<session, held, thread, overlay, container, stray>>
checks == <<running, ran, failed, cut>>
vars   == <<marked, pc, kind, node, engine, retries, checks, ending, refused,
            excuse, elapses>>

Init ==
  /\ marked = {} /\ refused = {} /\ elapses = 0 /\ excuse = "none"
  /\ pc = "idle" /\ kind = "one_shot" /\ node = 1
  /\ session = "none" /\ held = FALSE /\ thread = "none" /\ overlay = FALSE
  /\ container = "none" /\ stray = FALSE
  /\ retries = 0 /\ ran = {} /\ failed = {} /\ ending = "none"
  /\ running = {} /\ cut = "none"

Goto(l) == pc' = l /\ UNCHANGED <<kind, node, ending>>
Leave(e) == pc' = "close" /\ ending' = e /\ UNCHANGED <<kind, node>>
Own == <<marked, refused, elapses>>

Unchecked == ran' = {} /\ failed' = {} /\ running' = {} /\ cut' = "none"

\* What a run or round before left behind is not looked at again.
Forget ==
  /\ container' = "none" /\ stray' = FALSE /\ overlay' = FALSE /\ excuse' = "none"
  /\ UNCHANGED <<session, held, thread>>

-----------------------------------------------------------------------------
(* The rotation. *)

Begin ==
  /\ pc = "idle" /\ pc' = "choose" /\ kind' = "one_shot" /\ ending' = "none"
  /\ refused' = {} /\ Unchecked /\ Forget
  /\ UNCHANGED <<marked, node, retries, elapses>>

BeginChecks ==
  /\ pc = "idle" /\ pc' = "open" /\ kind' = "checks" /\ ending' = "none"
  /\ refused' = {} /\ Unchecked /\ Forget
  /\ UNCHANGED <<marked, node, retries, elapses>>

Available == {i \in DOMAIN Chain : Chain[i] \notin marked}
Service   == Chain[node]

\* UsageLimitError with the next wake time.
NothingLeft ==
  /\ pc = "choose" /\ Available = {}
  /\ pc' = "idle" /\ ending' = "limited"
  /\ UNCHANGED <<kind, node, engine, retries, checks, excuse, Own>>

\* Each round has its retries anew.
Choose ==
  /\ pc = "choose"
  /\ \E i \in Available : (\A j \in Available : i <= j) /\ node' = i
  /\ retries' = TimeoutRetries /\ pc' = "open" /\ Forget
  /\ UNCHANGED <<kind, ending, checks, Own>>

\* build_volume_spec writes the overlay, then the session is made.
Open ==
  /\ pc = "open" /\ Goto("enter")
  /\ session' = "docker" /\ overlay' = TRUE
  /\ UNCHANGED <<held, thread, container, stray, retries, checks, excuse, Own>>

\* The engine is out of reach: a one-shot run goes on with a session that
\* cannot start, the checks raise.  The overlay belongs to nobody.
OpenFails ==
  /\ pc = "open" /\ overlay' = TRUE /\ excuse' = "engine"
  /\ IF kind = "one_shot" THEN session' = "unavailable" /\ Goto("enter")
     ELSE session' = session /\ pc' = "idle" /\ ending' = "failed"
          /\ UNCHANGED <<kind, node>>
  /\ UNCHANGED <<held, thread, container, stray, retries, checks, Own>>

-----------------------------------------------------------------------------
(* The container. *)

\* setup() awaits __enter__ in a thread.
Enter ==
  /\ pc = "enter" /\ thread' = session /\ Goto("starting")
  /\ UNCHANGED <<session, held, overlay, container, stray, retries, checks,
                 excuse, Own>>

\* The thread is done, whoever still waits for it.
Started ==
  /\ thread = "docker" /\ thread' = "none" /\ container' = "up" /\ held' = TRUE
  /\ IF pc = "starting" THEN Goto("setup") ELSE UNCHANGED <<pc, kind, node, ending>>
  /\ UNCHANGED <<session, overlay, stray, retries, checks, excuse, Own>>

\* A container that was created and does not start is not removed.
StartFails ==
  /\ thread # "none" /\ thread' = "none"
  /\ container' \in IF thread = "docker" THEN {"none", "created"} ELSE {"none"}
  /\ IF pc = "starting" THEN Leave("failed") ELSE UNCHANGED <<pc, kind, node, ending>>
  /\ UNCHANGED <<session, held, overlay, stray, retries, checks, excuse, Own>>

\* Git identity, then the project's dependencies.
SetUp ==
  /\ pc = "setup" /\ container = "up"
  /\ Goto(IF kind = "one_shot" THEN "ready" ELSE "checks")
  /\ UNCHANGED <<engine, retries, checks, excuse, Own>>

\* Mutant: the set-up is done before the block that closes the session.
SetupFailsUnguarded ==
  /\ pc = "setup" /\ pc' = "idle" /\ ending' = "failed"
  /\ UNCHANGED <<kind, node, engine, retries, checks, excuse, Own>>

SetupFails ==
  /\ pc = "setup" /\ Leave("failed")
  /\ UNCHANGED <<engine, retries, checks, excuse, Own>>

ContainerDies ==
  /\ container = "up" /\ container' = "dead" /\ stray' = FALSE
  /\ UNCHANGED <<pc, kind, node, ending, session, held, thread, overlay, retries,
                 checks, excuse, Own>>

\* session.__exit__, whatever happened, then on to the next candidate or out.
Close ==
  /\ pc = "close" /\ session' = "none" /\ held' = FALSE
  /\ overlay' = (overlay /\ session = "unavailable")
  /\ IF held THEN container' = "none" /\ stray' = FALSE
     ELSE UNCHANGED <<container, stray>>
  /\ pc' = CASE ending = "retry" -> "choose" [] ending = "interrupted" -> "exiting"
             [] OTHER -> "idle"
  /\ UNCHANGED <<kind, node, ending, thread, retries, checks, excuse, Own>>

\* The engine refuses to stop or remove; that is suppressed.
CloseFails ==
  /\ pc = "close" /\ held /\ session' = "none" /\ held' = FALSE /\ overlay' = FALSE
  /\ excuse' = "engine"
  /\ pc' = CASE ending = "retry" -> "choose" [] ending = "interrupted" -> "exiting"
             [] OTHER -> "idle"
  /\ UNCHANGED <<kind, node, ending, thread, container, stray, retries, checks, Own>>

-----------------------------------------------------------------------------
(* The attempts of a one-shot run. *)

\* The provider is called in the container, under a new entry of the log.
Call ==
  /\ pc = "ready" /\ Goto("attempt")
  /\ UNCHANGED <<engine, retries, checks, excuse, Own>>

Attempting == pc = "attempt"

Completed ==
  /\ Attempting /\ container = "up" /\ Leave("answer")
  /\ UNCHANGED <<engine, retries, checks, excuse, Own>>

\* Transient, credential and other errors; no output; an outcome not expected.
Fails ==
  /\ Attempting /\ Leave("failed")
  /\ UNCHANGED <<engine, retries, checks, excuse, Own>>

\* Mutant: a provider that is unavailable is not marked.
LimitedUnmarked ==
  /\ Attempting /\ Leave("retry")
  /\ refused' = refused \cup {Service}
  /\ UNCHANGED <<engine, retries, checks, excuse, marked, elapses>>

\* A usage limit, or a provider that is unavailable and not for a moment.
Limited ==
  /\ Attempting /\ Leave("retry")
  /\ marked' = marked \cup {Service} /\ refused' = refused \cup {Service}
  /\ UNCHANGED <<engine, retries, checks, excuse, elapses>>

\* The reset time it names is over: the mark elapses as it is made.
LimitedStale ==
  /\ Attempting /\ elapses < MaxElapses /\ Leave("retry")
  /\ marked' = marked \ {Service} /\ elapses' = elapses + 1
  /\ UNCHANGED <<engine, retries, checks, excuse, refused>>

\* Mutant: the retries are not used up.
TimedOutAgain ==
  /\ Attempting /\ stray' = (container = "up")
  /\ Goto("ready")
  /\ UNCHANGED <<retries, session, held, thread, overlay, container, checks, excuse,
                 Own>>

\* The attempt's process in the container is not stopped.
TimedOut ==
  /\ Attempting /\ stray' = (container = "up")
  /\ IF retries = 0 THEN Leave("timeout") /\ retries' = retries
     ELSE retries' = retries - 1 /\ Goto("ready")
  /\ UNCHANGED <<session, held, thread, overlay, container, checks, excuse, Own>>

-----------------------------------------------------------------------------
(* The preflight checks. *)

CheckBegins(c) ==
  /\ pc = "checks" /\ running = {} /\ c \notin ran /\ container = "up"
  /\ running' = {c} /\ UNCHANGED <<ran, failed, cut>> /\ Goto("checks")
  /\ UNCHANGED <<engine, retries, excuse, Own>>

CheckDone ==
  /\ pc = "checks" /\ running # {}
  /\ ran' = ran \cup running /\ running' = {} /\ Goto("checks")
  /\ UNCHANGED <<engine, retries, excuse, Own>>

CheckPasses == container = "up" /\ CheckDone /\ UNCHANGED <<failed, cut>>

\* The command exits with an error.
CheckFails ==
  container = "up" /\ CheckDone /\ failed' = failed \cup running /\ UNCHANGED cut

\* It is killed with its container, and so has an exit code that is an error.
CheckCut ==
  /\ container = "dead" /\ CheckDone /\ failed' = failed \cup running
  /\ cut' = IF ran' = Checks THEN "last" ELSE "early"

\* The engine cannot run it: not a verdict.
CheckRaises ==
  /\ pc = "checks" /\ (running # {} \/ ran # Checks) /\ Leave("failed")
  /\ UNCHANGED <<engine, retries, checks, excuse, Own>>

Verdict ==
  /\ pc = "checks" /\ ran = Checks /\ running = {}
  /\ Leave(IF failed = {} THEN "green" ELSE "red")
  /\ UNCHANGED <<engine, retries, checks, excuse, Own>>

-----------------------------------------------------------------------------
(* The end of the process, and the world. *)

\* Ctrl-C cancels what the run awaits; the thread it may await goes on.
Interrupt ==
  /\ pc \in {"starting", "setup", "attempt", "checks"} /\ Leave("interrupted")
  /\ excuse' = IF pc = "starting" THEN "starting" ELSE excuse
  /\ UNCHANGED <<engine, retries, checks, Own>>

\* The interpreter joins the executor's threads.
Exit ==
  /\ pc = "exiting" /\ thread = "none" /\ Goto("exited")
  /\ UNCHANGED <<engine, retries, checks, excuse, Own>>

Killed ==
  /\ pc \notin {"idle", "exited"} /\ Goto("exited") /\ excuse' = "killed"
  /\ thread' = "none"
  /\ container' \in IF thread = "docker" THEN {"none", "up"} ELSE {container}
  /\ UNCHANGED <<session, held, overlay, stray, retries, checks, Own>>

\* The next process knows no marks, and nothing of what was left.
Restart ==
  /\ pc = "exited" /\ Goto("idle") /\ marked' = {} /\ refused' = {}
  /\ session' = "none" /\ held' = FALSE /\ overlay' = FALSE
  /\ container' = "none" /\ stray' = FALSE
  /\ UNCHANGED <<thread, retries, checks, excuse, elapses>>

Elapses(s) ==
  /\ s \in marked /\ elapses < MaxElapses
  /\ elapses' = elapses + 1 /\ marked' = marked \ {s} /\ refused' = refused \ {s}
  /\ UNCHANGED <<pc, kind, node, ending, engine, retries, checks, excuse>>

\* A run beside this one was limited.
OthersMark(s) ==
  /\ s \notin marked /\ marked' = marked \cup {s}
  /\ UNCHANGED <<pc, kind, node, ending, engine, retries, checks, excuse, refused,
                 elapses>>

Outcome == Completed \/ Fails \/ Limited \/ LimitedStale \/ TimedOut

Progress ==
  \/ NothingLeft \/ Choose \/ Open \/ OpenFails \/ Enter \/ Started \/ StartFails
  \/ SetUp \/ SetupFails \/ Close \/ CloseFails \/ Call \/ Outcome \/ Exit \/ Verdict
  \/ (\E c \in Checks : CheckBegins(c))
  \/ CheckPasses \/ CheckFails \/ CheckCut \/ CheckRaises

Next ==
  \/ Begin \/ BeginChecks \/ NothingLeft \/ Choose \/ Open \/ OpenFails
  \/ Enter \/ Started \/ StartFails \/ SetUp \/ SetupFails \/ ContainerDies
  \/ Close \/ CloseFails \/ Call \/ Completed \/ Fails \/ Limited \/ LimitedStale \/ TimedOut
  \/ \E c \in Checks : CheckBegins(c)
  \/ CheckPasses \/ CheckFails \/ CheckCut \/ CheckRaises
  \/ Verdict \/ Interrupt \/ Exit \/ Killed \/ Restart
  \/ \E s \in Services : Elapses(s)
  \/ \E s \in Services : OthersMark(s)

\* Docker and the providers answer in the end, with an error or a timeout if
\* need be, and the run goes on with what they say.  Of the commands of the set-up
\* and the checks, which are run without a timeout, it is assumed.
Spec == Init /\ [][Next]_vars /\ WF_vars(Progress)

-----------------------------------------------------------------------------
(* Properties. *)

\* Types; a session holds the container of a run under way.
TypeOK ==
  /\ marked \subseteq Services /\ refused \subseteq Services
  /\ node \in DOMAIN Chain /\ retries \in 0..TimeoutRetries
  /\ kind \in {"one_shot", "checks"}
  /\ failed \subseteq ran /\ ran \subseteq Checks /\ running \subseteq Checks
  /\ cut \in {"none", "last", "early"} /\ elapses \in 0..MaxElapses
  /\ pc \in {"idle", "choose", "open", "enter", "starting", "setup", "ready",
            "attempt", "checks", "close", "exiting", "exited"}
  /\ pc \in {"setup", "ready", "attempt", "checks"} => held /\ session = "docker"
  /\ session \in {"none", "docker", "unavailable"} /\ held \in BOOLEAN
  /\ thread \in {"none", "docker", "unavailable"}
  /\ overlay \in BOOLEAN /\ stray \in BOOLEAN
  /\ container \in {"none", "created", "up", "dead"}
  /\ held => container \in {"up", "dead"}

\* No container runs, and no process in one, once its run is over, unless the
\* engine refused, the process was killed, or Ctrl-C came while the container
\* was being started: the block in AgentRunner._run, run_preflight and
\* _execute_runtime_request that closes the session covers every way out.
LeavesNothing ==
  pc \in {"idle", "choose", "exited"} /\ excuse = "none" =>
    /\ container # "up" /\ ~stray /\ thread = "none" /\ ~overlay

\* A rotation never calls again a service that limited it, before that limit
\* is over (run_one_shot's loop relies on the mark that the attempt left).
NoWastedCall == pc = "attempt" => Service \notin refused

\* Green and red are verdicts on all of the checks: an error of the engine is
\* never taken for either, nor is the end of the container in the middle; only in
\* the last check is that end a failure like any other.
VerdictOfAllChecks ==
  ending \in {"green", "red"} =>
    /\ ran = Checks /\ (ending = "red" <=> failed # {})
    /\ cut # "early" /\ (ending = "green" => cut = "none")

\* Every run comes to an end: the timeouts are bounded by the retries and the
\* rounds by the candidates, as long as no limit is over as soon as it is met.
RunEnds == pc # "idle" ~> pc \in {"idle", "exited"}

\* The session of a run: whose thread is starting it, and what it would remove at
\* the end, unless there is an excuse.
SessionFits ==
  /\ pc \in {"idle", "choose", "open"} => session = "none"
  /\ pc \in {"idle", "choose", "open", "enter", "starting"} => ~held
  /\ pc \in {"exiting", "exited"} /\ excuse = "none" => session = "none" /\ ~held
  /\ pc = "enter" => session # "none"
  /\ thread # "none" =>
       /\ ~held
       /\ \/ pc = "starting" /\ thread = session
          \/ pc \in {"close", "exiting"} /\ excuse # "none" /\ ending = "interrupted"
  /\ excuse = "none" => /\ session # "unavailable"
                        /\ container = "up" \/ stray => held
                        /\ overlay => session = "docker"

\* What limited the rotation is marked, and the candidate chosen has not.
RotationFits ==
  /\ refused \subseteq marked
  /\ pc \in {"open", "enter", "starting", "setup", "ready", "attempt"} => Service \notin refused

\* A verdict is only there once the run is over.
VerdictIsLast ==
  ending \in {"green", "red"} => pc \in {"close", "idle", "exiting", "exited"}

\* No check begins once one was cut short, and that one counts as failed; runs of
\* checks do not rotate.
CutFits ==
  /\ kind = "checks" => ending # "retry" /\ pc \notin {"choose", "ready", "attempt"}
  /\ pc = "checks" => kind = "checks"
  /\ cut # "none" =>
       /\ kind = "checks" /\ failed # {} /\ (cut = "early" => ran # Checks)
       /\ \/ pc = "checks" /\ container = "dead" /\ running = {}
          \/ pc \in {"close", "idle", "exiting", "exited"}

\* Whichever way a run ends: nothing of it is left in the engine, and what it
\* says of the checks is a verdict on all of them.  It is inductive.
Inv ==
  /\ TypeOK /\ LeavesNothing /\ VerdictOfAllChecks
  /\ SessionFits /\ RotationFits /\ VerdictIsLast /\ CutFits
=============================================================================
