----------------------------- MODULE AccountPool ----------------------------
(***************************************************************************)
(* The accounts of the services and what is done when they run out: the    *)
(* pools (services/credential_pool.py, _pool_availability.py), the agents  *)
(* of an iteration that draw on them side by side (agents/runner.py), and  *)
(* the decision to go on, to sleep or to stop (usage_limit_decision.py).   *)
(*                                                                         *)
(* Abstracted: time is a counter up to MaxTime, at which a wake time, the  *)
(* reset time with its buffer, can lie; the chain holds configured         *)
(* candidates only.  From the guard of a run to its container no agent     *)
(* gives up the event loop, but time passes.                               *)
(***************************************************************************)
EXTENDS Naturals, Sequences, FiniteSets

CONSTANTS NumAgents,  \* agents of one iteration, in the order of their issues
          Services,
          Slots,      \* [Services -> the accounts of its pool, by priority]
          Inline,     \* services without a pool: one account, never retired
          Chain,      \* the stage's candidates: <<service, model>>
          Rejects,    \* models that an account may turn out not to offer
          MaxTime

Agents      == 1..NumAgents
AccountsOf(s) == {Slots[s][i] : i \in DOMAIN Slots[s]}
Accounts    == UNION {AccountsOf(s) : s \in Services}
Models      == {Chain[i][2] : i \in DOMAIN Chain}
Forever     == MaxTime + 2      \* PERMANENT_EXHAUSTION_WAKE
Unmarked    == 0                \* exhausted_until is None
Unknown     == 0                \* no reset time, no wake time

ASSUME SizesAssumption == NumAgents \in Nat /\ MaxTime \in Nat
ASSUME ChainAssumption ==
  /\ Chain \in Seq(Services \X Models) /\ Chain # <<>>
  /\ Slots \in [Services -> Seq(Accounts)]
  /\ \A s \in Services : Slots[s] # <<>> /\ (s \in Inline => Len(Slots[s]) = 1)
  /\ \A s, t \in Services : s # t => AccountsOf(s) \cap AccountsOf(t) = {}

VARIABLES
  now,
  until,       \* exhausted_until of each account
  restricted,  \* restricted_models of each account
  current,     \* _current_token of each service
  phase,       \* "plan", "running", "sleep" or "stopped"
  node,        \* the candidate the iteration's configuration names
  pc,          \* where each agent of the iteration is
  auth,        \* the account of provider_auth()
  account,     \* the account in the container's environment
  result,      \* how each agent ended
  wake         \* what the orchestrator sleeps for

pools   == <<until, restricted, current>>
agents  == <<pc, auth, account, result>>
vars    == <<now, pools, phase, node, agents, wake>>

NoAccount == "none"
NoResult  == [kind |-> "none", reset |-> Unknown, permanent |-> FALSE]
Ended(k)  == [kind |-> k, reset |-> Unknown, permanent |-> FALSE]
Limited(r, p) == [kind |-> "limit", reset |-> r, permanent |-> p]

\* Claude has no current token before its first pick, but none is read then.
Init ==
  /\ now = 0
  /\ until = [a \in Accounts |-> Unmarked] /\ restricted = [a \in Accounts |-> {}]
  /\ current = [s \in Services |-> Slots[s][1]]
  /\ phase = "plan" /\ node = 1 /\ wake = Unknown
  /\ pc = [g \in Agents |-> "done"] /\ result = [g \in Agents |-> NoResult]
  /\ auth = [g \in Agents |-> NoAccount] /\ account = [g \in Agents |-> NoAccount]

-----------------------------------------------------------------------------
\* The pool.
Usable(s)      == {i \in DOMAIN Slots[s] : until[Slots[s][i]] <= now}
HasAvailable(s) == Usable(s) # {}
HasAvailableFor(s, m) == \E i \in Usable(s) : m \notin restricted[Slots[s][i]]
Picked(s) == Slots[s][CHOOSE i \in Usable(s) : \A j \in Usable(s) : i <= j]

\* next_wake_time_for: the earliest finite mark, elapsed ones too, of all
\* services whose candidate is not available.
Available(i) == HasAvailableFor(Chain[i][1], Chain[i][2])
ChainAvailable == \E i \in DOMAIN Chain : Available(i)
Wakes ==
  (UNION {{until[a] : a \in AccountsOf(Chain[i][1])} :
            i \in {j \in DOMAIN Chain : ~Available(j)}}) \ {Unmarked, Forever}
Earliest(times) == CHOOSE t \in times : \A u \in times : t <= u

\* ServiceRegistry.resolve: the first candidate available, or else the first.
Resolved ==
  IF ChainAvailable THEN CHOOSE i \in DOMAIN Chain :
                           Available(i) /\ \A j \in 1..(i - 1) : ~Available(j)
  ELSE 1

Service == Chain[node][1]
Model   == Chain[node][2]

StartIteration ==
  /\ phase = "plan"
  /\ phase' = "running" /\ node' = Resolved
  /\ pc' = [g \in Agents |-> "waiting"] /\ result' = [g \in Agents |-> NoResult]
  /\ auth' = [g \in Agents |-> NoAccount] /\ account' = [g \in Agents |-> NoAccount]
  /\ UNCHANGED <<now, pools, wake>>

-----------------------------------------------------------------------------
\* No other agent has the event loop.
Free(g) == \A h \in Agents \ {g} : pc[h] \notin {"guarded", "authorised"}
At(g, l) == phase = "running" /\ pc[g] = l /\ Free(g)

Done(g, r) ==
  /\ pc' = [pc EXCEPT ![g] = "done"] /\ result' = [result EXCEPT ![g] = r]
  /\ UNCHANGED <<auth, account, now, current, phase, node, wake>>

\* Mutant: the guard is gone.
PassAnyway(g) ==
  /\ At(g, "waiting")
  /\ pc' = [pc EXCEPT ![g] = "guarded"]
  /\ UNCHANGED <<now, pools, phase, node, auth, account, result, wake>>

Pass(g) ==
  /\ At(g, "waiting") /\ HasAvailable(Service)
  /\ pc' = [pc EXCEPT ![g] = "guarded"]
  /\ UNCHANGED <<now, pools, phase, node, auth, account, result, wake>>

Refuse(g) ==
  /\ At(g, "waiting") /\ ~HasAvailable(Service)
  /\ Done(g, Limited(Unknown, FALSE))
  /\ UNCHANGED <<until, restricted>>

\* pick_token; it cannot fail here, see GuardSuffices.
PickToken(g) ==
  /\ HasAvailable(Service)
  /\ current' = [current EXCEPT ![Service] = Picked(Service)]
  /\ UNCHANGED <<now, until, restricted, phase, node, result, wake>>

Authorise(g) ==
  /\ At(g, "guarded") /\ PickToken(g)
  /\ auth' = [auth EXCEPT ![g] = Picked(Service)]
  /\ pc' = [pc EXCEPT ![g] = "authorised"]
  /\ UNCHANGED account

BuildEnv(g) ==
  /\ At(g, "authorised") /\ PickToken(g)
  /\ account' = [account EXCEPT ![g] = Picked(Service)]
  /\ pc' = [pc EXCEPT ![g] = "running"]
  /\ UNCHANGED auth

Succeed(g) ==
  /\ At(g, "running")
  /\ Done(g, Ended("ok"))
  /\ UNCHANGED <<until, restricted>>

\* A usage limit, or an outage of the service; its reset time may be unknown
\* and is then estimated.
Limit(g) ==
  /\ At(g, "running")
  /\ \E w \in (now + 1)..MaxTime, known \in BOOLEAN :
       /\ until' = [until EXCEPT ![current[Service]] = w]
       /\ Done(g, Limited(IF known THEN w ELSE Unknown, FALSE))
  /\ UNCHANGED restricted

Retire(g) ==
  /\ At(g, "running")
  /\ until' = IF Service \in Inline THEN until
              ELSE [until EXCEPT ![current[Service]] = Forever]
  /\ Done(g, Limited(Unknown, TRUE))
  /\ UNCHANGED restricted

Reject(g) ==
  /\ At(g, "running") /\ Model \in Rejects
  /\ restricted' = [restricted EXCEPT ![current[Service]] = @ \cup {Model}]
  /\ Done(g, Ended("model"))
  /\ UNCHANGED until

-----------------------------------------------------------------------------
\* The usage-limit errors, by the order of the issues.
Limits  == {g \in Agents : result[g].kind = "limit"}
First   == CHOOSE g \in Limits : \A h \in Limits : g <= h
Resets  == {g \in Limits : result[g].reset # Unknown}
ResetTime == IF Resets = {} THEN Unknown
             ELSE result[CHOOSE g \in Resets : \A h \in Resets : g <= h].reset
ModelNotAvailable == \E g \in Agents : result[g].kind = "model"

Over == phase = "running" /\ \A g \in Agents : pc[g] = "done"
Decided(p, w) == phase' = p /\ wake' = w /\ UNCHANGED <<now, pools, node, agents>>

Continue ==
  /\ Over /\ ((Limits # {} \/ ModelNotAvailable) => ChainAvailable)
  /\ Decided("plan", Unknown)

\* Mutant: without the buffer on the reset time.
SleepTooShort ==
  /\ Over /\ (Limits # {} \/ ModelNotAvailable) /\ ~ChainAvailable
  /\ Wakes # {}
  /\ Decided("sleep", Earliest(Wakes) - 1)

SleepForAccount ==
  /\ Over /\ (Limits # {} \/ ModelNotAvailable) /\ ~ChainAvailable
  /\ Wakes # {}
  /\ Decided("sleep", Earliest(Wakes))

\* No candidate has a wake time: the error's own, or an estimate.
SleepForError ==
  /\ Over /\ ~ChainAvailable /\ Wakes = {}
  /\ Limits # {} /\ ~ModelNotAvailable /\ ~result[First].permanent
  /\ \E w \in IF ResetTime # Unknown THEN {ResetTime} ELSE (now + 1)..(MaxTime + 1) :
       Decided("sleep", w)

\* Mutant: a permanent error stops the run while other accounts will wake.
StopAtOnce ==
  /\ Over /\ ~ChainAvailable
  /\ ModelNotAvailable \/ (Limits # {} /\ result[First].permanent)
  /\ Decided("stopped", Unknown)

Stop ==
  /\ Over /\ ~ChainAvailable /\ Wakes = {}
  /\ ModelNotAvailable \/ (Limits # {} /\ result[First].permanent)
  /\ Decided("stopped", Unknown)

WakeUp ==
  /\ phase = "sleep" /\ wake <= now
  /\ Decided("plan", Unknown)

Tick ==
  /\ now < MaxTime /\ phase # "stopped"
  /\ now' = now + 1
  /\ UNCHANGED <<pools, phase, node, agents, wake>>

-----------------------------------------------------------------------------
Next ==
  \/ StartIteration \/ Continue \/ SleepForAccount \/ SleepForError \/ Stop \/ WakeUp
  \/ Tick
  \/ \E g \in Agents : \/ Pass(g) \/ Refuse(g) \/ Authorise(g) \/ BuildEnv(g)
                       \/ Succeed(g) \/ Limit(g) \/ Retire(g) \/ Reject(g)

Spec == Init /\ [][Next]_vars

-----------------------------------------------------------------------------
Times   == 0..(MaxTime + 1)
Places  == {"waiting", "guarded", "authorised", "running", "done"}
Kinds   == {"none", "ok", "limit", "model"}
Outcomes == [kind : Kinds, reset : Times, permanent : BOOLEAN]

\* Every variable has its type.
TypeOK ==
  /\ now \in 0..MaxTime /\ wake \in Times
  /\ until \in [Accounts -> Times \cup {Forever}]
  /\ restricted \in [Accounts -> SUBSET Models]
  /\ current \in [Services -> Accounts] /\ \A s \in Services : current[s] \in AccountsOf(s)
  /\ phase \in {"plan", "running", "sleep", "stopped"} /\ node \in DOMAIN Chain
  /\ pc \in [Agents -> Places] /\ result \in [Agents -> Outcomes]
  /\ auth \in [Agents -> Accounts \cup {NoAccount}]
  /\ account \in [Agents -> Accounts \cup {NoAccount}]

\* Between the guard of a run and the second pick of its account no sibling can
\* take the last account away, so that picking never raises; and the account of
\* the first pick is still good at the second, which may find a better one.
GuardSuffices ==
  \A g \in Agents :
    /\ pc[g] \in {"guarded", "authorised"} => HasAvailable(Service)
    /\ pc[g] = "authorised" => auth[g] \in AccountsOf(Service) /\ until[auth[g]] <= now

\* ADR 0045: the run is stopped only when no account of the chain can ever be
\* used again: each is retired, or was never exhausted and lacks the model.
StopIsFinal ==
  phase = "stopped" =>
    \A i \in DOMAIN Chain : \A a \in AccountsOf(Chain[i][1]) :
      \/ until[a] = Forever
      \/ until[a] = Unmarked /\ Chain[i][2] \in restricted[a]

\* No agent of an iteration is left when the run plans, sleeps or has stopped.
AgentsDone == phase # "running" => \A g \in Agents : pc[g] = "done"

AllRetired == \A i \in DOMAIN Chain : \A a \in AccountsOf(Chain[i][1]) : until[a] = Forever
NothingRefused == \A a \in Accounts : restricted[a] = {}

\* While no account lacks a model, a sleep is as long as an account of the chain
\* needs, or there is none that will ever wake.
SleepLongEnough ==
  phase = "sleep" /\ NothingRefused =>
    AllRetired \/ \E i \in DOMAIN Chain : \E a \in AccountsOf(Chain[i][1]) : until[a] <= wake

\* Whatever the agents met and in whatever order: the marks, the picks and the
\* phase fit together, a run that was stopped had no account left to wait for
\* (decide_usage_limit), and one that sleeps will find one.  It is inductive.
Inv ==
  /\ TypeOK /\ StopIsFinal /\ GuardSuffices
  /\ AgentsDone /\ SleepLongEnough

\* ADR 0045: a chain with nothing available "should sleep and wait for that
\* candidate to wake".  A sleep ends with a candidate to run, as long as no
\* account lacks a model: then an elapsed mark is taken for a wake time.
SleepWakes ==
  [][phase = "sleep" /\ phase' = "plan" /\ NothingRefused
       => ChainAvailable \/ AllRetired]_vars

=============================================================================
