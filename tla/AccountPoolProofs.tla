--------------------------- MODULE AccountPoolProofs ------------------------
(* Proofs about AccountPool, for any services, accounts, chain and agents.   *)
EXTENDS AccountPool, WellFoundedInduction, TLAPS

-----------------------------------------------------------------------------
(* The operators of the pool. *)

\* A set of numbers that is not empty has a least one.
LEMMA LeastExists ==
  ASSUME NEW S \in SUBSET Nat, S # {}
  PROVE  \E m \in S : \A n \in S : m <= n
<1>1. PICK m \in S : \A n \in S : ~(<<n, m>> \in OpToRel(<, Nat))
  BY NatLessThanWellFounded, WFMin
<1>2. \A n \in S : ~(n < m)
  BY <1>1 DEF OpToRel
<1> QED BY <1>2

LEMMA ChainNode ==
  ASSUME NEW i \in DOMAIN Chain
  PROVE  /\ Chain[i][1] \in Services /\ Chain[i][2] \in Models
         /\ AccountsOf(Chain[i][1]) \subseteq Accounts
<1>1. Chain[i] \in Services \X Models
  BY ChainAssumption
<1> QED BY <1>1 DEF Accounts

LEMMA SlotFacts ==
  ASSUME NEW s \in Services
  PROVE  /\ DOMAIN Slots[s] \subseteq Nat /\ 1 \in DOMAIN Slots[s]
         /\ \A i \in DOMAIN Slots[s] : Slots[s][i] \in AccountsOf(s) /\ Slots[s][i] \in Accounts
<1>1. Slots[s] \in Seq(Accounts) /\ Slots[s] # << >>
  BY ChainAssumption
<1>2. DOMAIN Slots[s] \subseteq Nat /\ 1 \in DOMAIN Slots[s]
  BY <1>1
<1> QED BY <1>1, <1>2 DEF AccountsOf

LEMMA ChainFacts == DOMAIN Chain \subseteq Nat /\ 1 \in DOMAIN Chain
  BY ChainAssumption

\* What pick_token returns is an account of the pool that is not exhausted.
LEMMA PickedUsable ==
  ASSUME TypeOK, NEW s \in Services, HasAvailable(s)
  PROVE  Picked(s) \in AccountsOf(s) /\ Picked(s) \in Accounts /\ until[Picked(s)] <= now
<1>1. Usable(s) \in SUBSET Nat /\ Usable(s) # {}
  BY SlotFacts DEF HasAvailable, Usable
<1>2. \E i \in Usable(s) : \A j \in Usable(s) : i <= j
  BY <1>1, LeastExists
<1>3. PICK i \in Usable(s) : Picked(s) = Slots[s][i]
  BY <1>2 DEF Picked
<1> QED BY <1>3, SlotFacts DEF Usable

LEMMA ResolvedType == Resolved \in DOMAIN Chain
<1>1. CASE ChainAvailable
  <2> DEFINE S == {i \in DOMAIN Chain : Available(i)}
  <2>1. S \in SUBSET Nat /\ S # {}
    BY <1>1, ChainFacts DEF ChainAvailable
  <2>2. PICK m \in S : \A n \in S : m <= n
    BY <2>1, LeastExists
  <2>3. \A j \in 1..(m - 1) : ~Available(j)
    <3> SUFFICES ASSUME NEW j \in 1..(m - 1), Available(j) PROVE FALSE
      OBVIOUS
    <3>1. m \in Nat /\ m \in DOMAIN Chain
      BY <2>2, ChainFacts
    <3>2. DOMAIN Chain = 1..Len(Chain) /\ Len(Chain) \in Nat
      BY ChainAssumption
    <3>3. j \in S /\ j < m
      BY <3>1, <3>2
    <3> QED BY <2>2, <3>1, <3>3
  <2> QED BY <1>1, <2>2, <2>3 DEF Resolved
<1>2. CASE ~ChainAvailable
  BY <1>2, ChainFacts DEF Resolved
<1> QED BY <1>1, <1>2

LEMMA EarliestWake ==
  ASSUME TypeOK, Wakes # {}
  PROVE  Earliest(Wakes) \in Wakes
<1>1. \A i \in DOMAIN Chain : \A a \in AccountsOf(Chain[i][1]) : until[a] \in Nat
  BY ChainNode, SizesAssumption DEF TypeOK, Times, Forever
<1>2. Wakes \in SUBSET Nat
  <2> SUFFICES ASSUME NEW w \in Wakes PROVE w \in Nat
    OBVIOUS
  <2>1. PICK i \in DOMAIN Chain : w \in {until[a] : a \in AccountsOf(Chain[i][1])}
    BY DEF Wakes
  <2> QED BY <1>1, <2>1
<1> QED BY <1>2, LeastExists DEF Earliest

\* When nothing of the chain is available and there is no wake time, an account is
\* retired, or was never exhausted and lacks the model.
LEMMA NoWakeMeans ==
  ASSUME TypeOK, ~ChainAvailable, Wakes = {},
         NEW i \in DOMAIN Chain, NEW a \in AccountsOf(Chain[i][1])
  PROVE  \/ until[a] = Forever
         \/ until[a] = Unmarked /\ Chain[i][2] \in restricted[a]
<1>1. ~Available(i)
  BY DEF ChainAvailable
<1>2. until[a] \in {Unmarked, Forever}
  BY <1>1 DEF Wakes
<1>3. PICK k \in DOMAIN Slots[Chain[i][1]] : a = Slots[Chain[i][1]][k]
  BY DEF AccountsOf
<1>4. ASSUME until[a] = Unmarked PROVE Chain[i][2] \in restricted[a]
  <2>1. k \in Usable(Chain[i][1])
    BY <1>3, <1>4 DEF Usable, Unmarked, TypeOK
  <2> QED BY <1>1, <1>3, <2>1 DEF Available, HasAvailableFor
<1> QED BY <1>2, <1>4

-----------------------------------------------------------------------------
(* The invariant. *)

LEMMA InitInv == Init => Inv
<1> SUFFICES ASSUME Init PROVE Inv
  OBVIOUS
<1>1. TypeOK
  <2>1. \A s \in Services : Slots[s][1] \in AccountsOf(s) /\ Slots[s][1] \in Accounts
    BY SlotFacts
  <2>2. 1 \in DOMAIN Chain
    BY ChainFacts
  <2> QED BY <2>1, <2>2, SizesAssumption
        DEF Init, TypeOK, Times, Forever, Unmarked, Unknown, Places, Outcomes, Kinds, NoResult
<1> QED
  BY <1>1 DEF Init, Inv, StopIsFinal, GuardSuffices, AgentsDone, SleepLongEnough

\* A step of an agent that ends it with a result.
LEMMA DoneType ==
  ASSUME TypeOK, NEW g \in Agents, NEW r \in Outcomes, Done(g, r),
         until' \in [Accounts -> Times \cup {Forever}],
         restricted' \in [Accounts -> SUBSET Models]
  PROVE  TypeOK'
  BY DEF TypeOK, Done, Places

LEMMA ServiceFacts ==
  ASSUME TypeOK
  PROVE  Service \in Services /\ Model \in Models
  BY ChainNode DEF TypeOK, Service, Model

LEMMA OutcomeTypes ==
  /\ \A k \in Kinds : Ended(k) \in Outcomes
  /\ \A r \in Times, p \in BOOLEAN : Limited(r, p) \in Outcomes
  /\ Unknown \in Times
  BY SizesAssumption DEF Ended, Limited, Outcomes, Kinds, Times, Unknown

LEMMA TypeStep == TypeOK /\ [Next]_vars => TypeOK'
<1> SUFFICES ASSUME TypeOK, [Next]_vars PROVE TypeOK'
  OBVIOUS
<1> USE DEF pools, agents
<1>0. /\ Service \in Services /\ Model \in Models /\ current[Service] \in Accounts
      /\ now \in Nat /\ MaxTime \in Nat
  BY ServiceFacts, SizesAssumption DEF TypeOK
<1>1. CASE StartIteration
  BY <1>1, ResolvedType, SizesAssumption
     DEF StartIteration, TypeOK, Places, Outcomes, Kinds, NoResult, Times, Unknown
<1>2. CASE Continue
  BY <1>2, SizesAssumption DEF Continue, Decided, TypeOK, Times, Unknown
<1>3. CASE SleepForAccount
  <2>1. Wakes # {}
    BY <1>3 DEF SleepForAccount
  <2>2. PICK t \in Wakes : wake' = t /\ phase' = "sleep"
    BY <1>3, <2>1, EarliestWake DEF SleepForAccount, Decided
  <2>3. t \in Times
    <3>1. PICK i \in DOMAIN Chain : t \in {until[a] : a \in AccountsOf(Chain[i][1])}
      BY DEF Wakes
    <3>2. t \in Times \cup {Forever}
      BY <3>1, ChainNode DEF TypeOK
    <3> QED BY <3>2 DEF Wakes
  <2> QED BY <1>3, <2>2, <2>3 DEF SleepForAccount, Decided, TypeOK
<1>4. CASE SleepForError
  <2>1. ResetTime \in Times
    <3>1. CASE Resets = {}
      BY <3>1, OutcomeTypes DEF ResetTime
    <3>2. CASE Resets # {}
      <4>1. Resets \in SUBSET Nat /\ Resets \subseteq Agents
        BY DEF Resets, Limits, Agents
      <4>2. PICK g \in Resets : ResetTime = result[g].reset
        BY <3>2, <4>1, LeastExists DEF ResetTime
      <4> QED BY <4>1, <4>2 DEF TypeOK, Outcomes
    <3> QED BY <3>1, <3>2
  <2>2. wake' \in Times /\ phase' = "sleep"
    BY <1>0, <1>4, <2>1 DEF SleepForError, Decided, Times
  <2> QED BY <1>4, <2>2 DEF SleepForError, Decided, TypeOK
<1>5. CASE Stop
  BY <1>5, SizesAssumption DEF Stop, Decided, TypeOK, Times, Unknown
<1>6. CASE WakeUp
  BY <1>6, SizesAssumption DEF WakeUp, Decided, TypeOK, Times, Unknown
<1>7. CASE Tick
  BY <1>0, <1>7 DEF Tick, TypeOK
<1>8. ASSUME NEW g \in Agents, Pass(g) PROVE TypeOK'
  BY <1>8 DEF Pass, TypeOK, Places
<1>9. ASSUME NEW g \in Agents, Refuse(g) PROVE TypeOK'
  BY <1>9, DoneType, OutcomeTypes DEF Refuse, TypeOK
<1>10. ASSUME NEW g \in Agents, PickToken(g)
       PROVE  /\ Picked(Service) \in Accounts
              /\ current' \in [Services -> Accounts]
              /\ \A s \in Services : current'[s] \in AccountsOf(s)
  BY <1>0, <1>10, PickedUsable DEF PickToken, TypeOK
<1>11. ASSUME NEW g \in Agents, Authorise(g) PROVE TypeOK'
  BY <1>10, <1>11 DEF Authorise, PickToken, TypeOK, Places
<1>12. ASSUME NEW g \in Agents, BuildEnv(g) PROVE TypeOK'
  BY <1>10, <1>12 DEF BuildEnv, PickToken, TypeOK, Places
<1>13. ASSUME NEW g \in Agents, Succeed(g) PROVE TypeOK'
  BY <1>13, DoneType, OutcomeTypes DEF Succeed, TypeOK, Kinds
<1>14. ASSUME NEW g \in Agents, Limit(g) PROVE TypeOK'
  <2>1. PICK w \in (now + 1)..MaxTime, known \in BOOLEAN :
          /\ until' = [until EXCEPT ![current[Service]] = w]
          /\ Done(g, Limited(IF known THEN w ELSE Unknown, FALSE))
    BY <1>14 DEF Limit
  <2>2. w \in Times /\ (IF known THEN w ELSE Unknown) \in Times
    BY <1>0, OutcomeTypes DEF Times
  <2>3. Limited(IF known THEN w ELSE Unknown, FALSE) \in Outcomes
    BY <2>2, OutcomeTypes
  <2>4. /\ until' \in [Accounts -> Times \cup {Forever}]
        /\ restricted' \in [Accounts -> SUBSET Models]
    BY <1>14, <2>1, <2>2 DEF Limit, TypeOK
  <2> QED BY <2>1, <2>3, <2>4, DoneType
<1>15. ASSUME NEW g \in Agents, Retire(g) PROVE TypeOK'
  <2>1. Limited(Unknown, TRUE) \in Outcomes
    BY OutcomeTypes
  <2> QED BY <1>15, <2>1, DoneType DEF Retire, TypeOK
<1>16. ASSUME NEW g \in Agents, Reject(g) PROVE TypeOK'
  <2>1. restricted' \in [Accounts -> SUBSET Models]
    BY <1>0, <1>16 DEF Reject, TypeOK
  <2> QED BY <1>16, <2>1, DoneType, OutcomeTypes DEF Reject, TypeOK, Kinds
<1>17. CASE UNCHANGED vars
  BY <1>17 DEF vars, TypeOK
<1> QED
  BY <1>1, <1>2, <1>3, <1>4, <1>5, <1>6, <1>7, <1>8, <1>9, <1>11, <1>12, <1>13, <1>14,
     <1>15, <1>16, <1>17 DEF Next

\* The guard of an agent stays true to its second pick: the others have not got
\* the event loop, and as time passes accounts only become usable.
LEMMA GuardStep == Inv /\ [Next]_vars => (GuardSuffices /\ AgentsDone)'
<1> SUFFICES ASSUME Inv, [Next]_vars PROVE GuardSuffices' /\ AgentsDone'
  OBVIOUS
<1>0. TypeOK /\ GuardSuffices /\ AgentsDone /\ Service \in Services
  BY ServiceFacts DEF Inv
<1> USE <1>0 DEF pools, agents, GuardSuffices, AgentsDone
<1>1. ASSUME UNCHANGED <<until, node>>, now' \in Nat, now <= now'
      PROVE  HasAvailable(Service) => HasAvailable(Service)'
  <2>1. \A i \in DOMAIN Slots[Service] : until[Slots[Service][i]] \in Nat
    BY SlotFacts, SizesAssumption DEF TypeOK, Times, Forever
  <2> QED BY <1>1, <2>1, SizesAssumption
        DEF HasAvailable, Usable, Service, TypeOK
<1>2. ASSUME \A g \in Agents : pc'[g] \notin {"guarded", "authorised"},
             phase' # "running" => \A g \in Agents : pc'[g] = "done"
      PROVE  GuardSuffices' /\ AgentsDone'
  BY <1>2
<1>3. CASE StartIteration
  BY <1>2, <1>3 DEF StartIteration
<1>4. CASE UNCHANGED pc /\ (\A g \in Agents : pc[g] = "done")
  BY <1>2, <1>4
<1>5. CASE Continue \/ SleepForAccount \/ SleepForError \/ Stop
  BY <1>4, <1>5 DEF Continue, SleepForAccount, SleepForError, Stop, Decided, Over
<1>6. CASE WakeUp
  BY <1>4, <1>6 DEF WakeUp, Decided
<1>7. CASE Tick
  <2>1. now \in Nat /\ now' = now + 1
    BY <1>7, SizesAssumption DEF Tick, TypeOK
  <2>2. HasAvailable(Service) => HasAvailable(Service)'
    BY <1>1, <1>7, <2>1 DEF Tick
  <2>3. \A g \in Agents : auth[g] \in AccountsOf(Service) => until[auth[g]] \in Nat
    BY SizesAssumption DEF TypeOK, Times, Forever, Accounts
  <2> QED BY <1>7, <2>1, <2>2, <2>3 DEF Tick, Service
<1>8. ASSUME NEW g \in Agents, Pass(g) PROVE GuardSuffices' /\ AgentsDone'
  <2>1. HasAvailable(Service)' <=> HasAvailable(Service)
    BY <1>8 DEF Pass, HasAvailable, Usable, Service
  <2> QED BY <1>8, <2>1 DEF Pass, At, Service, TypeOK
<1>9. ASSUME NEW g \in Agents, Authorise(g) PROVE GuardSuffices' /\ AgentsDone'
  <2>1. HasAvailable(Service)' <=> HasAvailable(Service)
    BY <1>9 DEF Authorise, PickToken, HasAvailable, Usable, Service
  <2>2. Picked(Service) \in AccountsOf(Service) /\ until[Picked(Service)] <= now
    BY <1>9, PickedUsable DEF Authorise, PickToken
  <2>3. \A h \in Agents \ {g} : pc'[h] \notin {"guarded", "authorised"}
    BY <1>9 DEF Authorise, At, Free, TypeOK
  <2> QED BY <1>9, <2>1, <2>2, <2>3 DEF Authorise, PickToken, At, Service, TypeOK
<1>10. ASSUME NEW g \in Agents, pc[g] # "done", phase = "running", phase' = "running",
              Free(g), \E l \in {"running", "done"} : pc' = [pc EXCEPT ![g] = l]
       PROVE  GuardSuffices' /\ AgentsDone'
  BY <1>2, <1>10 DEF Free, TypeOK
<1>11. ASSUME NEW g \in Agents,
              Refuse(g) \/ BuildEnv(g) \/ Succeed(g) \/ Limit(g) \/ Retire(g) \/ Reject(g)
       PROVE  GuardSuffices' /\ AgentsDone'
  <2>1. /\ pc[g] # "done" /\ phase = "running" /\ phase' = "running" /\ Free(g)
        /\ \E l \in {"running", "done"} : pc' = [pc EXCEPT ![g] = l]
    BY <1>11 DEF Refuse, BuildEnv, PickToken, Succeed, Limit, Retire, Reject, Done, At
  <2> QED BY <1>10, <2>1
<1>12. CASE UNCHANGED vars
  <2>1. HasAvailable(Service)' <=> HasAvailable(Service)
    BY <1>12 DEF vars, HasAvailable, Usable, Service
  <2> QED BY <1>12, <2>1 DEF vars, Service
<1> QED
  BY <1>3, <1>5, <1>6, <1>7, <1>8, <1>9, <1>11, <1>12 DEF Next

LEMMA EndsStep == Inv /\ [Next]_vars => (StopIsFinal /\ SleepLongEnough)'
<1> SUFFICES ASSUME Inv, [Next]_vars PROVE StopIsFinal' /\ SleepLongEnough'
  OBVIOUS
<1>0. TypeOK /\ StopIsFinal /\ SleepLongEnough
  BY DEF Inv
<1> USE <1>0 DEF pools, agents, StopIsFinal, SleepLongEnough, AllRetired, NothingRefused
<1>1. CASE phase' \in {"plan", "running"}
  BY <1>1
<1>2. CASE UNCHANGED <<phase, until, restricted, wake>>
  BY <1>2
<1>3. CASE SleepForAccount
  <2>1. Wakes # {} /\ wake' = Earliest(Wakes) /\ phase' = "sleep" /\ until' = until
    BY <1>3 DEF SleepForAccount, Decided
  <2>2. PICK i \in DOMAIN Chain : wake' \in {until[a] : a \in AccountsOf(Chain[i][1])}
    BY <2>1, EarliestWake DEF Wakes
  <2>3. PICK a \in AccountsOf(Chain[i][1]) : wake' = until[a]
    BY <2>2
  <2>4. until[a] \in Nat
    BY ChainNode, SizesAssumption DEF TypeOK, Times, Forever
  <2> QED BY <2>1, <2>3, <2>4
<1>4. CASE SleepForError
  <2>1. ~ChainAvailable /\ Wakes = {} /\ phase' = "sleep" /\ UNCHANGED <<until, restricted>>
    BY <1>4 DEF SleepForError, Decided
  <2>2. ASSUME NothingRefused, NEW i \in DOMAIN Chain, NEW a \in AccountsOf(Chain[i][1])
        PROVE  until[a] = Forever
    BY <2>1, <2>2, NoWakeMeans, ChainNode
  <2> QED BY <2>1, <2>2
<1>5. CASE Stop
  <2>1. ~ChainAvailable /\ Wakes = {} /\ phase' = "stopped" /\ UNCHANGED <<until, restricted>>
    BY <1>5 DEF Stop, Decided
  <2> QED BY <2>1, NoWakeMeans
<1>6. ASSUME NEW g \in Agents,
             \/ Pass(g) \/ Refuse(g) \/ Authorise(g) \/ BuildEnv(g)
             \/ Succeed(g) \/ Limit(g) \/ Retire(g) \/ Reject(g)
      PROVE  phase' = "running"
  BY <1>6 DEF Pass, Refuse, Authorise, BuildEnv, PickToken, Succeed, Limit, Retire,
              Reject, Done, At
<1> QED
  BY <1>1, <1>2, <1>3, <1>4, <1>5, <1>6
     DEF Next, vars, StartIteration, Continue, WakeUp, Tick, Decided

LEMMA NextInv == Inv /\ [Next]_vars => Inv'
  BY TypeStep, GuardStep, EndsStep DEF Inv

-----------------------------------------------------------------------------
(* The theorems. *)

\* The pools, the picks, the agents and the phase of the run always fit together.
THEOREM Invariance == Spec => []Inv
  BY InitInv, NextInv, PTL DEF Spec

\* pick_token never finds its pool empty between the guard of a run and the
\* container's environment, however many agents draw on the pool.
THEOREM PicksNeverFail == Spec => []GuardSuffices
<1>1. Inv => GuardSuffices
  BY DEF Inv
<1> QED BY <1>1, Invariance, PTL

\* A run is stopped only when no account of its chain can ever be used again.
THEOREM StopsForGood == Spec => []StopIsFinal
<1>1. Inv => StopIsFinal
  BY DEF Inv
<1> QED BY <1>1, Invariance, PTL

\* A sleep ends with a candidate to run, unless an account lacks a model or all
\* are retired.
THEOREM SleepsLongEnough == Spec => SleepWakes
<1> DEFINE Wakens == phase = "sleep" /\ phase' = "plan" /\ NothingRefused
                       => ChainAvailable \/ AllRetired
<1>1. Inv /\ [Next]_vars => [Wakens]_vars
  <2> SUFFICES ASSUME Inv, Next, phase = "sleep", phase' = "plan", NothingRefused,
                      ~AllRetired
               PROVE  ChainAvailable
    OBVIOUS
  <2>1. wake <= now
    BY DEF Next, WakeUp, StartIteration, Continue, SleepForAccount, SleepForError, Stop,
           Over, Tick, Pass, Refuse, Authorise, BuildEnv, Succeed, Limit, Retire, Reject, At
  <2>2. PICK i \in DOMAIN Chain : \E a \in AccountsOf(Chain[i][1]) : until[a] <= wake
    BY DEF Inv, SleepLongEnough
  <2>3. PICK k \in DOMAIN Slots[Chain[i][1]] : until[Slots[Chain[i][1]][k]] <= wake
    BY <2>2 DEF AccountsOf
  <2>4. /\ Slots[Chain[i][1]][k] \in Accounts
        /\ until[Slots[Chain[i][1]][k]] \in Nat /\ wake \in Nat /\ now \in Nat
    BY ChainNode, SlotFacts, SizesAssumption DEF Inv, TypeOK, Times, Forever
  <2>5. k \in Usable(Chain[i][1])
    BY <2>1, <2>3, <2>4 DEF Usable
  <2> QED BY <2>4, <2>5 DEF ChainAvailable, Available, HasAvailableFor, NothingRefused
<1>2. Spec => [][Wakens]_vars
  BY <1>1, Invariance, PTL DEF Spec
<1> QED BY <1>2 DEF SleepWakes
=============================================================================
