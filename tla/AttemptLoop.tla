----------------------------- MODULE AttemptLoop ----------------------------
(***************************************************************************)
(* The agent runs of one role in one worktree: AgentRunner._run up to and  *)
(* including run_attempt_loop (src/pycastle/agents), over the role's       *)
(* session directory.  Runs follow each other, each for a service of the   *)
(* stage's fallback chain, until one completes; a crash may end any.       *)
(*                                                                         *)
(* Abstracted: what a prompt says, except whether it opens the task        *)
(* ("role") or presumes a conversation ("resume", "reprompt"); what a      *)
(* service answers is a choice.  The host never cancels an agent's token.  *)
(***************************************************************************)
EXTENDS Naturals, FiniteSets

CONSTANTS Services,        \* the services the fallback chain names
          Seeded,          \* those whose credentials are seeded as a file
          NoService,       \* not a service
          Silent,          \* those whose outcomes may lack a continuation
          TimeoutRetries   \* cfg.timeout_retries

ASSUME ServicesAssumption ==
  Seeded \subseteq Services /\ Silent \subseteq Services /\ NoService \notin Services
ASSUME RetriesAssumption == TimeoutRetries \in Nat

Attempts == 3              \* range(3)

VARIABLES
  cont,      \* _continuation: the service whose conversation it continues
  expired,   \* that service can no longer resume it
  states,    \* services with files in their state directory of the session
  seeds,     \* services whose seeded credentials are in that directory
  done,      \* the _done marker
  pc,        \* where the run is; "idle" between two runs
  service,   \* request.service
  attempt,   \* 0 .. Attempts - 1
  kind,      \* current_run_kind
  prompt,    \* what current_prompt presumes
  retries,   \* retries_left
  how,       \* whether the session under way is new or resumed
  talks,     \* the service whose conversation that session goes on with
  result     \* how the last run ended

disk  == <<cont, expired, states, seeds, done>>
loop  == <<service, attempt, kind, prompt, retries>>
talk  == <<how, talks>>
vars  == <<disk, pc, loop, talk, result>>

Init ==
  /\ cont = NoService /\ expired = FALSE /\ states = {} /\ seeds = {} /\ done = FALSE
  /\ pc = "idle" /\ service = NoService /\ attempt = 0
  /\ kind = "fresh" /\ prompt = "role" /\ retries = 0
  /\ how = "none" /\ talks = NoService /\ result = "none"

\* The run is over, by returning or raising.
End(r) ==
  /\ pc' = "idle" /\ result' = r
  /\ service' = NoService /\ attempt' = 0 /\ kind' = "fresh" /\ prompt' = "role"
  /\ retries' = 0 /\ how' = "none" /\ talks' = NoService

\* `continue`: the next attempt with these, or "exhausted unexpectedly".
Again(k, p, left) ==
  IF attempt = Attempts - 1 THEN End("exhausted")
  ELSE /\ pc' = "head" /\ attempt' = attempt + 1
       /\ kind' = k /\ prompt' = p /\ retries' = left
       /\ how' = "none" /\ talks' = NoService
       /\ UNCHANGED <<service, result>>

-----------------------------------------------------------------------------
\* A run is asked for; the service's credentials are seeded where they are a
\* file and it is not there yet.
Request(s) ==
  /\ pc = "idle" /\ ~done
  /\ pc' = "setup" /\ service' = s /\ result' = "none"
  /\ seeds' = seeds \cup ({s} \cap Seeded)
  /\ states' = states \cup ({s} \cap Seeded)
  /\ UNCHANGED <<cont, expired, done, attempt, kind, prompt, retries, talk>>

\* The container is up: the kind of the first attempt is what the disk says.
Begin ==
  /\ pc = "setup"
  /\ pc' = "head"
  /\ kind' = IF cont = NoService THEN "fresh" ELSE "resume"
  /\ prompt' = IF cont = NoService THEN "role" ELSE "resume"
  /\ retries' = TimeoutRetries
  /\ UNCHANGED <<disk, service, attempt, talk, result>>

-----------------------------------------------------------------------------
\* transcript_owner_service_name: the one service with files, if it is one.
Owner == IF \E s \in Services : states = {s}
         THEN CHOOSE s \in Services : states = {s} ELSE NoService

\* Mutant: files of several services are a mismatch, too.
MismatchUnlessOwner == kind = "resume" /\ cont # NoService /\ Owner # service

Mismatch ==
  /\ kind = "resume" /\ cont # NoService
  /\ Owner # NoService /\ Owner # service

TakeOver ==
  /\ pc = "head" /\ Mismatch
  /\ pc' = "mismatch"
  /\ UNCHANGED <<disk, loop, talk, result>>

\* run_resumed_session or run_new_session; the service writes its state.
StartSession ==
  /\ \/ pc = "run"
     \/ (pc = "head" /\ ~Mismatch)
  /\ pc' = "session"
  /\ IF kind = "resume" /\ cont # NoService
     THEN how' = "resumed" /\ talks' = cont
     ELSE how' = "new" /\ talks' = service
  /\ states' = states \cup {service}
  /\ UNCHANGED <<cont, expired, seeds, done, loop, result>>

\* Mutant: the error escapes from the loop.
StaleEscapes ==
  /\ pc = "session" /\ how = "resumed"
  /\ expired \/ talks # service
  /\ End("error")
  /\ UNCHANGED disk

\* ContinuationUnrecoverableError: the service does not know the conversation,
\* or is not the one that had it.
Stale ==
  /\ pc = "session" /\ how = "resumed"
  /\ expired \/ talks # service
  /\ pc' = "stale"
  /\ UNCHANGED <<disk, loop, talk, result>>

-----------------------------------------------------------------------------
\* start_fresh and clear_provider_state_and_signal_completion remove what is in
\* the session directory, one after another.
Wiping == pc \in {"mismatch", "stale", "finish"}

WipeContinuation ==
  /\ Wiping /\ cont # NoService
  /\ cont' = NoService /\ expired' = FALSE
  /\ UNCHANGED <<states, seeds, done, pc, loop, talk, result>>

\* Mutant: the credentials go, the conversation stays resumable.
WipeStateOnly(s) ==
  /\ Wiping /\ s \in states
  /\ states' = states \ {s} /\ seeds' = seeds \ {s}
  /\ UNCHANGED <<cont, expired, done, pc, loop, talk, result>>

\* A conversation cannot be resumed without the state of its service.
WipeState(s) ==
  /\ Wiping /\ s \in states
  /\ states' = states \ {s} /\ seeds' = seeds \ {s}
  /\ expired' = (expired \/ cont = s)
  /\ UNCHANGED <<cont, done, pc, loop, talk, result>>

Wiped == Wiping /\ cont = NoService /\ states = {}

\* _recover_stale_continuation is over: this attempt goes on, after a
\* mismatch, or the next one begins.
Recovered ==
  /\ Wiped
  /\ \/ /\ pc = "mismatch" /\ pc' = "run" /\ kind' = "fresh" /\ prompt' = "role"
        /\ UNCHANGED <<service, attempt, retries, talk, result>>
     \/ pc = "stale" /\ Again("fresh", "role", retries)
  /\ UNCHANGED disk

Finished ==
  /\ pc = "finish" /\ Wiped
  /\ End("completed")
  /\ done' = TRUE
  /\ UNCHANGED <<cont, expired, states, seeds>>

-----------------------------------------------------------------------------
\* An outcome of the session; write_continuation comes before it is acted on.
Outcome ==
  /\ pc = "session" /\ ~(how = "resumed" /\ expired)
  /\ \/ cont' = talks /\ expired' = FALSE
     \/ service \in Silent /\ UNCHANGED <<cont, expired>>
  /\ UNCHANGED <<states, seeds, done>>

Completes ==
  /\ Outcome
  /\ pc' = "finish"
  /\ UNCHANGED <<loop, talk, result>>

\* Completed, but without the output the role's protocol asks for.
Garbles ==
  /\ Outcome
  /\ IF attempt = Attempts - 1 THEN End("protocol")
     ELSE Again("resume", "reprompt", retries)

TimesOut ==
  /\ Outcome
  /\ IF retries = 0 THEN End("timeout")
     ELSE Again("resume", "resume", retries - 1)

\* Mutant: a limit is raised before the continuation is written.
StopsAtOnce ==
  /\ pc = "session" /\ ~(how = "resumed" /\ expired)
  /\ \E r \in {"limit", "transient", "model"} : End(r)
  /\ UNCHANGED disk

\* A usage limit, an outage of the service, or a model it does not offer.
Stops ==
  /\ Outcome
  /\ \E r \in {"limit", "transient", "model"} : End(r)

\* The setup, or the session before it has an outcome, raises.
Fails ==
  /\ pc \in {"setup", "session"}
  /\ End("error")
  /\ UNCHANGED disk

Crash ==
  /\ pc # "idle"
  /\ End("crashed")
  /\ UNCHANGED disk

\* The service forgets the conversation, while nobody is in it.
Expire ==
  /\ cont # NoService /\ ~expired /\ pc # "session"
  /\ expired' = TRUE
  /\ UNCHANGED <<cont, states, seeds, done, pc, loop, talk, result>>

-----------------------------------------------------------------------------
Next ==
  \/ \E s \in Services : Request(s) \/ WipeState(s)
  \/ Begin \/ TakeOver \/ StartSession \/ Stale
  \/ WipeContinuation \/ Recovered \/ Finished
  \/ Completes \/ Garbles \/ TimesOut \/ Stops \/ Fails \/ Crash \/ Expire

Spec == Init /\ [][Next]_vars

\* The role is run again after whatever ended a run; a run that gets as far
\* as one of these steps again and again takes it some time.
FairSpec ==
  /\ Spec
  /\ WF_vars(\E s \in Services : Request(s))
  /\ SF_vars(Begin) /\ SF_vars(TakeOver \/ StartSession) /\ SF_vars(Stale)
  /\ SF_vars(WipeContinuation)

-----------------------------------------------------------------------------
Steps   == {"idle", "setup", "head", "mismatch", "run", "session", "stale", "finish"}
Results == {"none", "completed", "protocol", "timeout", "limit", "transient", "model",
            "error", "exhausted", "crashed"}

\* Every variable has its type.
TypeOK ==
  /\ cont \in Services \cup {NoService} /\ expired \in BOOLEAN /\ done \in BOOLEAN
  /\ states \subseteq Services /\ seeds \subseteq states
  /\ pc \in Steps /\ result \in Results
  /\ service \in Services \cup {NoService} /\ (pc # "idle" => service \in Services)
  /\ attempt \in 0..(Attempts - 1) /\ retries \in 0..TimeoutRetries
  /\ kind \in {"fresh", "resume"} /\ prompt \in {"role", "resume", "reprompt"}
  /\ how \in {"none", "new", "resumed"} /\ talks \in Services \cup {NoService}

\* A new session is opened with the role's prompt and a resumed one, which
\* knows its task, never is, through timeouts, reprompts and recoveries; for
\* services whose outcomes have continuations.
PromptFitsSession ==
  pc = "session" /\ service \notin Silent => (how = "new" <=> prompt = "role")

\* A finished role has nothing left to resume, wherever a crash struck.
DoneIsFinal == done => cont = NoService /\ states = {}

\* A session that a limit, an outage or the end of its budget interrupts leaves
\* a conversation that the next run can resume, also where it took over another
\* service's, or a forgotten one.
InterruptedResumes ==
  [][(service \notin Silent
      /\ result' \in {"limit", "transient", "model", "timeout", "protocol"} \ {result})
       => cont' # NoService /\ ~expired' /\ cont' \in states']_vars

\* Recovery never throws away a conversation that the requested service
\* could have gone on with.
LiveConversationsKept ==
  [][(pc \in {"mismatch", "stale"} /\ cont # NoService /\ cont' = NoService)
       => (expired \/ cont # service)]_vars

\* ADR 0044, against "an infinite retry loop": a continuation that can no
\* longer be resumed does not stay.
StaleIsDropped == expired ~> ~expired

\* The inductive invariant.  In every run a conversation that can be resumed
\* has the files of its service, a resumed session has the conversation on
\* disk, and what is wiped is of no use to the requested service.
ConversationHasState == cont # NoService /\ ~expired => cont \in states
SessionTalks ==
  pc = "session" => /\ talks # NoService
                    /\ how # "none"
                    /\ how = "new" => talks \in states
                    /\ how = "resumed" => talks = cont
WipedIsUseless ==
  pc \in {"mismatch", "stale"} /\ cont # NoService => expired \/ cont # service
DoneInv == done => pc = "idle" /\ cont = NoService /\ states = {}
\* Where outcomes have continuations, a resume always finds one.
AttemptFits ==
  service \notin Silent =>
    /\ pc = "head" => /\ kind = "fresh" <=> prompt = "role"
                      /\ kind = "resume" => cont # NoService
    /\ pc = "run" => kind = "fresh" /\ prompt = "role"
    /\ PromptFitsSession
ResultInv == result # "none" => pc = "idle"
IInv ==
  /\ TypeOK
  /\ ConversationHasState /\ SessionTalks /\ WipedIsUseless
  /\ DoneInv /\ AttemptFits /\ ResultInv

=============================================================================
