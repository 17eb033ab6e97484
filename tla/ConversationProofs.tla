------------------------ MODULE ConversationProofs --------------------------
(***************************************************************************)
(* Proofs about the conversations of the agents: how one is tried and      *)
(* tried again (AttemptLoop), and what becomes of it and of its sandbox    *)
(* between two entries (SandboxEntry).                                     *)
(***************************************************************************)
EXTENDS AttemptLoop, SandboxEntry, TLAPS

-----------------------------------------------------------------------------
(* AttemptLoop. *)

\* The type invariant in two parts: the session directory, and the run.
DiskOK ==
  /\ cont \in Services \cup {NoService} /\ expired \in BOOLEAN /\ done \in BOOLEAN
  /\ states \subseteq Services /\ seeds \subseteq states
RunOK ==
  /\ pc \in Steps /\ result \in Results
  /\ service \in Services \cup {NoService} /\ (pc # "idle" => service \in Services)
  /\ attempt \in 0..(Attempts - 1) /\ retries \in 0..TimeoutRetries
  /\ kind \in {"fresh", "resume"} /\ prompt \in {"role", "resume", "reprompt"}
  /\ how \in {"none", "new", "resumed"} /\ talks \in Services \cup {NoService}

LEMMA TypeParts == (TypeOK <=> DiskOK /\ RunOK) /\ (TypeOK' <=> DiskOK' /\ RunOK')
  BY DEF TypeOK, DiskOK, RunOK

LEMMA EndKeeps == ASSUME NEW r \in Results, End(r) PROVE RunOK'
<1>1. attempt' \in 0..(Attempts - 1) /\ retries' \in 0..TimeoutRetries
  BY RetriesAssumption DEF End, Attempts
<1> QED BY <1>1 DEF End, RunOK, Steps

LEMMA AgainKeeps ==
  ASSUME RunOK, pc # "idle", NEW k \in {"fresh", "resume"},
         NEW p \in {"role", "resume", "reprompt"}, NEW n \in 0..TimeoutRetries,
         Again(k, p, n)
  PROVE  RunOK'
<1>1. CASE attempt = Attempts - 1
  BY <1>1, EndKeeps DEF Again, Results
<1>2. CASE attempt # Attempts - 1
  <2>1. attempt' \in 0..(Attempts - 1) /\ retries' \in 0..TimeoutRetries
    BY <1>2 DEF Again, Attempts, RunOK
  <2> QED BY <1>2, <2>1 DEF Again, RunOK, Steps
<1> QED BY <1>1, <1>2

LEMMA OutcomeKeeps == ASSUME TypeOK, Outcome PROVE DiskOK'
  BY DEF TypeOK, Outcome, DiskOK

LEMMA TypeStep == TypeOK /\ [Next]_vars => TypeOK'
<1> SUFFICES ASSUME TypeOK, [Next]_vars PROVE DiskOK' /\ RunOK'
  BY TypeParts
<1>0. DiskOK /\ RunOK
  BY TypeParts
<1> USE ServicesAssumption, RetriesAssumption DEF disk, loop, talk
<1>1. ASSUME NEW s \in Services, Request(s) PROVE DiskOK' /\ RunOK'
  BY <1>1, <1>0 DEF Request, DiskOK, RunOK, Steps, Results, Attempts
<1>2. ASSUME Begin PROVE DiskOK' /\ RunOK'
  BY <1>2, <1>0 DEF Begin, DiskOK, RunOK, Steps, Results, Attempts
<1>3. ASSUME TakeOver PROVE DiskOK' /\ RunOK'
  BY <1>3, <1>0 DEF TakeOver, DiskOK, RunOK, Steps, Results, Attempts
<1>4. ASSUME StartSession PROVE DiskOK' /\ RunOK'
  BY <1>4, <1>0 DEF StartSession, DiskOK, RunOK, Steps, Results, Attempts
<1>5. ASSUME Stale PROVE DiskOK' /\ RunOK'
  BY <1>5, <1>0 DEF Stale, DiskOK, RunOK, Steps, Results, Attempts
<1>6. ASSUME WipeContinuation PROVE DiskOK' /\ RunOK'
  BY <1>6, <1>0, ZenonT(60) DEF WipeContinuation, Wiping, DiskOK, RunOK, Steps, Results,
         Attempts
<1>7. ASSUME NEW s \in Services, WipeState(s) PROVE DiskOK' /\ RunOK'
  BY <1>7, <1>0 DEF WipeState, Wiping, DiskOK, RunOK, Steps, Results, Attempts
<1>8. ASSUME Recovered PROVE DiskOK' /\ RunOK'
  <2>1. DiskOK'
    BY <1>8, <1>0 DEF Recovered, DiskOK
  <2>2. CASE pc = "stale"
    BY <1>8, <2>1, <2>2, <1>0, AgainKeeps DEF Recovered, RunOK
  <2>3. CASE pc = "mismatch"
    BY <1>8, <2>1, <2>3, <1>0 DEF Recovered, RunOK, Steps
  <2> QED BY <1>8, <2>2, <2>3 DEF Recovered
<1>9. ASSUME Finished PROVE DiskOK' /\ RunOK'
  BY <1>9, <1>0, EndKeeps DEF Finished, DiskOK, Results
<1>10. ASSUME Completes PROVE DiskOK' /\ RunOK'
  BY <1>10, <1>0, OutcomeKeeps DEF Completes, Outcome, RunOK, Steps
<1>11. ASSUME Garbles PROVE DiskOK' /\ RunOK'
  <2>1. DiskOK'
    BY <1>11, OutcomeKeeps DEF Garbles
  <2>2. ASSUME End("protocol") PROVE RunOK'
    BY <2>2, EndKeeps DEF Results
  <2>3. ASSUME Again("resume", "reprompt", retries) PROVE RunOK'
    BY <1>11, <2>3, <1>0, AgainKeeps DEF Garbles, Outcome, RunOK
  <2> QED BY <1>11, <2>1, <2>2, <2>3 DEF Garbles
<1>12. ASSUME TimesOut PROVE DiskOK' /\ RunOK'
  <2>1. DiskOK'
    BY <1>12, OutcomeKeeps DEF TimesOut
  <2>2. CASE retries = 0
    BY <1>12, <2>1, <2>2, EndKeeps DEF TimesOut, Results
  <2>3. CASE retries # 0
    <3>1. retries - 1 \in 0..TimeoutRetries
      BY <2>3, <1>0 DEF RunOK
    <3>2. pc # "idle" /\ Again("resume", "resume", retries - 1)
      BY <1>12, <2>3 DEF TimesOut, Outcome
    <3> QED BY <3>1, <3>2, <2>1, <1>0, AgainKeeps
  <2> QED BY <2>1, <2>2, <2>3
<1>13. ASSUME Stops PROVE DiskOK' /\ RunOK'
  <2>1. DiskOK'
    BY <1>13, OutcomeKeeps DEF Stops
  <2>2. RunOK'
    BY <1>13, EndKeeps DEF Stops, Results
  <2> QED BY <2>1, <2>2
<1>14. ASSUME Fails PROVE DiskOK' /\ RunOK'
  BY <1>14, <1>0, EndKeeps DEF Fails, DiskOK, Results
<1>15. ASSUME Crash PROVE DiskOK' /\ RunOK'
  BY <1>15, <1>0, EndKeeps DEF Crash, DiskOK, Results
<1>16. ASSUME Expire PROVE DiskOK' /\ RunOK'
  BY <1>16, <1>0 DEF Expire, DiskOK, RunOK, Steps, Results, Attempts
<1>17. CASE UNCHANGED vars
  BY <1>17, <1>0 DEF vars, DiskOK, RunOK, Steps, Results, Attempts
<1> QED
  BY <1>1, <1>2, <1>3, <1>4, <1>5, <1>6, <1>7, <1>8,
     <1>9, <1>10, <1>11, <1>12, <1>13, <1>14, <1>15, <1>16, <1>17 DEF Next
-----------------------------------------------------------------------------
LEMMA InitIInv == Init => IInv
<1> SUFFICES ASSUME Init PROVE IInv
  OBVIOUS
<1>1. DiskOK
  BY DEF Init, DiskOK
<1>2. attempt \in 0..(Attempts - 1) /\ retries \in 0..TimeoutRetries
  BY RetriesAssumption DEF Init, Attempts
<1>3. RunOK
  BY <1>2 DEF Init, RunOK, Steps, Results
<1>4. TypeOK
  BY <1>1, <1>3, TypeParts
<1>5. ConversationHasState /\ SessionTalks /\ WipedIsUseless /\ DoneInv
  BY DEF Init, ConversationHasState, SessionTalks, WipedIsUseless, DoneInv
<1>6. AttemptFits /\ ResultInv
  BY DEF Init, AttemptFits, PromptFitsSession, ResultInv
<1> QED BY <1>4, <1>5, <1>6 DEF IInv

\* What is on disk, whom a session goes on with, and what is wiped.
LEMMA DiskStep == IInv /\ [Next]_vars =>
   ConversationHasState' /\ SessionTalks' /\ WipedIsUseless' /\ DoneInv'
<1> SUFFICES ASSUME IInv, [Next]_vars
             PROVE  ConversationHasState' /\ SessionTalks' /\ WipedIsUseless' /\ DoneInv'
  OBVIOUS
<1>0. TypeOK /\ ConversationHasState /\ SessionTalks /\ WipedIsUseless /\ DoneInv
  BY DEF IInv
<1> USE ServicesAssumption, <1>0 DEF disk, loop, talk, TypeOK, ConversationHasState,
        SessionTalks, WipedIsUseless, DoneInv
<1>1. ASSUME NEW s \in Services, Request(s) PROVE ConversationHasState' /\ SessionTalks' /\ WipedIsUseless' /\ DoneInv'
  BY <1>1 DEF Request
<1>2. ASSUME Begin PROVE ConversationHasState' /\ SessionTalks' /\ WipedIsUseless' /\ DoneInv'
  BY <1>2 DEF Begin
<1>3. ASSUME TakeOver PROVE ConversationHasState' /\ SessionTalks' /\ WipedIsUseless' /\ DoneInv'
  BY <1>3 DEF TakeOver, Mismatch, Owner
<1>4. ASSUME StartSession PROVE ConversationHasState' /\ SessionTalks' /\ WipedIsUseless' /\ DoneInv'
  BY <1>4 DEF StartSession
<1>5. ASSUME Stale PROVE ConversationHasState' /\ SessionTalks' /\ WipedIsUseless' /\ DoneInv'
  BY <1>5 DEF Stale
<1>6. ASSUME WipeContinuation PROVE ConversationHasState' /\ SessionTalks' /\ WipedIsUseless' /\ DoneInv'
  BY <1>6 DEF WipeContinuation, Wiping
<1>7. ASSUME NEW s \in Services, WipeState(s) PROVE ConversationHasState' /\ SessionTalks' /\ WipedIsUseless' /\ DoneInv'
  BY <1>7 DEF WipeState, Wiping
<1>8. ASSUME Recovered PROVE ConversationHasState' /\ SessionTalks' /\ WipedIsUseless' /\ DoneInv'
  BY <1>8 DEF Recovered, Wiped, Again, End
<1>9. ASSUME Finished PROVE ConversationHasState' /\ SessionTalks' /\ WipedIsUseless' /\ DoneInv'
  BY <1>9 DEF Finished, Wiped, End
<1>10. ASSUME Completes PROVE ConversationHasState' /\ SessionTalks' /\ WipedIsUseless' /\ DoneInv'
  BY <1>10 DEF Completes, Outcome
<1>11. ASSUME Garbles PROVE ConversationHasState' /\ SessionTalks' /\ WipedIsUseless' /\ DoneInv'
  BY <1>11 DEF Garbles, Outcome, Again, End
<1>12. ASSUME TimesOut PROVE ConversationHasState' /\ SessionTalks' /\ WipedIsUseless' /\ DoneInv'
  BY <1>12 DEF TimesOut, Outcome, Again, End
<1>13. ASSUME Stops PROVE ConversationHasState' /\ SessionTalks' /\ WipedIsUseless' /\ DoneInv'
  BY <1>13 DEF Stops, Outcome, End
<1>14. ASSUME Fails PROVE ConversationHasState' /\ SessionTalks' /\ WipedIsUseless' /\ DoneInv'
  BY <1>14 DEF Fails, End
<1>15. ASSUME Crash PROVE ConversationHasState' /\ SessionTalks' /\ WipedIsUseless' /\ DoneInv'
  BY <1>15 DEF Crash, End
<1>16. ASSUME Expire PROVE ConversationHasState' /\ SessionTalks' /\ WipedIsUseless' /\ DoneInv'
  BY <1>16 DEF Expire
<1>17. CASE UNCHANGED vars
  BY <1>17 DEF vars
<1> QED
  BY <1>1, <1>2, <1>3, <1>4, <1>5, <1>6, <1>7, <1>8,
     <1>9, <1>10, <1>11, <1>12, <1>13, <1>14, <1>15, <1>16, <1>17 DEF Next

\* What an attempt is started with, and what a run leaves.
LEMMA AttemptStep == IInv /\ [Next]_vars => AttemptFits' /\ ResultInv'
<1> SUFFICES ASSUME IInv, [Next]_vars PROVE AttemptFits' /\ ResultInv'
  OBVIOUS
<1>0. TypeOK /\ SessionTalks /\ AttemptFits /\ ResultInv
  BY DEF IInv
<1> USE ServicesAssumption, <1>0 DEF disk, loop, talk, TypeOK, SessionTalks, AttemptFits,
        PromptFitsSession, ResultInv
<1>1. ASSUME NEW s \in Services, Request(s) PROVE AttemptFits' /\ ResultInv'
  BY <1>1 DEF Request
<1>2. ASSUME Begin PROVE AttemptFits' /\ ResultInv'
  BY <1>2 DEF Begin
<1>3. ASSUME TakeOver PROVE AttemptFits' /\ ResultInv'
  BY <1>3 DEF TakeOver, Mismatch, Owner
<1>4. ASSUME StartSession PROVE AttemptFits' /\ ResultInv'
  BY <1>4 DEF StartSession
<1>5. ASSUME Stale PROVE AttemptFits' /\ ResultInv'
  BY <1>5 DEF Stale
<1>6. ASSUME WipeContinuation PROVE AttemptFits' /\ ResultInv'
  BY <1>6 DEF WipeContinuation, Wiping
<1>7. ASSUME NEW s \in Services, WipeState(s) PROVE AttemptFits' /\ ResultInv'
  BY <1>7 DEF WipeState, Wiping
<1>8. ASSUME Recovered PROVE AttemptFits' /\ ResultInv'
  BY <1>8 DEF Recovered, Again, End
<1>9. ASSUME Finished PROVE AttemptFits' /\ ResultInv'
  BY <1>9 DEF Finished, Wiped, End
<1>10. ASSUME Completes PROVE AttemptFits' /\ ResultInv'
  BY <1>10 DEF Completes, Outcome
<1>11. ASSUME Garbles PROVE AttemptFits' /\ ResultInv'
  BY <1>11 DEF Garbles, Outcome, Again, End
<1>12. ASSUME TimesOut PROVE AttemptFits' /\ ResultInv'
  BY <1>12 DEF TimesOut, Outcome, Again, End
<1>13. ASSUME Stops PROVE AttemptFits' /\ ResultInv'
  BY <1>13 DEF Stops, Outcome, End
<1>14. ASSUME Fails PROVE AttemptFits' /\ ResultInv'
  BY <1>14 DEF Fails, End
<1>15. ASSUME Crash PROVE AttemptFits' /\ ResultInv'
  BY <1>15 DEF Crash, End
<1>16. ASSUME Expire PROVE AttemptFits' /\ ResultInv'
  BY <1>16 DEF Expire
<1>17. CASE UNCHANGED vars
  BY <1>17 DEF vars
<1> QED
  BY <1>1, <1>2, <1>3, <1>4, <1>5, <1>6, <1>7, <1>8,
     <1>9, <1>10, <1>11, <1>12, <1>13, <1>14, <1>15, <1>16, <1>17 DEF Next
-----------------------------------------------------------------------------
LEMMA NextIInv == IInv /\ [Next]_vars => IInv'
  BY TypeStep, DiskStep, AttemptStep DEF IInv

\* The runs of a role keep the inductive invariant: types, the conversation and
\* its state, what a session goes on with, and what a recovery may remove.
THEOREM Invariance == Spec => []IInv
  BY InitIInv, NextIInv, PTL DEF Spec

\* Every variable keeps its type; in particular the budget of retries never goes
\* below zero and credentials are only where their service has a directory.
THEOREM TypeCorrect == Spec => []TypeOK
<1>1. IInv => TypeOK
  BY DEF IInv
<1> QED BY <1>1, Invariance, PTL

\* With a service whose outcomes all have a continuation, no resumed session is
\* told its task again and no new one is only told to go on, however timeouts,
\* reprompts, stale continuations, other services and crashes follow each other.
THEOREM PromptsFit == Spec => []PromptFitsSession
<1>1. IInv => PromptFitsSession
  BY DEF IInv, AttemptFits, PromptFitsSession
<1> QED BY <1>1, Invariance, PTL

\* The completion marker of a role is never beside a continuation or the files
\* of a service, wherever a crash strikes the removal of these.
THEOREM CompletionIsFinal == Spec => []DoneIsFinal
<1>1. IInv => DoneIsFinal
  BY DEF IInv, DoneInv, DoneIsFinal
<1> QED BY <1>1, Invariance, PTL

\* An outcome leaves a conversation that can be resumed: a new session's own, or
\* the one that it resumed, whose service still has its files.
LEMMA OutcomeContinues ==
  ASSUME IInv, Outcome, service \notin Silent
  PROVE  cont' # NoService /\ ~expired' /\ cont' \in states'
  BY DEF IInv, TypeOK, SessionTalks, ConversationHasState, Outcome

\* A session that a limit, an outage or its budget ended has left a conversation
\* that the next run can resume.
THEOREM InterruptionResumes == Spec => InterruptedResumes
<1> DEFINE Endings == {"limit", "transient", "model", "timeout", "protocol"}
<1>1. ASSUME IInv, Next, service \notin Silent, result' \in Endings \ {result}
      PROVE  Outcome
  BY <1>1, ServicesAssumption DEF Next, Request, Begin, TakeOver, StartSession,
         Stale,
     WipeContinuation, WipeState, Recovered, Finished, Completes, Garbles, TimesOut,
     Stops, Fails, Crash, Expire, Again, End, disk, loop, talk
<1>2. IInv /\ [Next]_vars =>
        [(service \notin Silent /\ result' \in Endings \ {result})
           => cont' # NoService /\ ~expired' /\ cont' \in states']_vars
  BY <1>1, OutcomeContinues
<1> QED BY <1>2, Invariance, PTL DEF Spec, InterruptedResumes

\* No recovery, of a mismatch or of a stale continuation, removes a conversation
\* that the requested service could have gone on with.
THEOREM RecoveryKeeps == Spec => LiveConversationsKept
<1>1. IInv /\ [Next]_vars =>
        [(pc \in {"mismatch", "stale"} /\ cont # NoService /\ cont' = NoService)
           => (expired \/ cont # service)]_vars
  BY DEF IInv, WipedIsUseless
<1> QED BY <1>1, Invariance, PTL DEF Spec, LiveConversationsKept

-----------------------------------------------------------------------------
(* SandboxEntry. *)

LEMMA AbsentType == Absent \in Sessions
  BY DEF Absent, Sessions, Stamps

LEMMA ContinuedType ==
  \A s \in Sessions : \A going \in BOOLEAN : [s EXCEPT !.cont = going] \in Sessions
  BY DEF Sessions

\* What a removal that is cut short leaves of a session's files.
LEMMA TornSession ==
  \A s \in Sessions : \A t \in Torn(s) :
    /\ t \in Sessions /\ t.dir
    /\ t.stamp \in {s.stamp, NoFingerprint} /\ (t.cont => s.cont)
<1> SUFFICES ASSUME NEW s \in Sessions, NEW t \in Torn(s)
             PROVE  /\ t \in Sessions /\ t.dir
                    /\ t.stamp \in {s.stamp, NoFingerprint} /\ (t.cont => s.cont)
  OBVIOUS
<1>1. PICK stamp \in {s.stamp, NoFingerprint}, going \in {s.cont, FALSE} :
        t = [dir |-> TRUE, stamp |-> stamp, cont |-> going]
  BY DEF Torn
<1>2. stamp \in Stamps /\ going \in BOOLEAN /\ (going => s.cont)
  BY DEF Sessions, Stamps
<1> QED
  BY <1>1, <1>2 DEF Sessions

LEMMA SandboxTypeInit == SandboxInit => SandboxTypeOK
  BY BoundsAssumption, AbsentType
     DEF SandboxInit, SandboxTypeOK, SandboxSteps, Stamps, Shas

LEMMA SandboxTypeStep ==
  SandboxTypeOK /\ StampsArePast /\ EntryKnows /\ [SandboxNext]_sandboxVars
    => SandboxTypeOK'
<1> SUFFICES ASSUME SandboxTypeOK, StampsArePast, EntryKnows,
                    [SandboxNext]_sandboxVars
             PROVE  SandboxTypeOK'
  OBVIOUS
<1> USE BoundsAssumption, AbsentType
    DEF SandboxTypeOK, SandboxSteps, Set, entry, trees, sandboxes, Stamps, Shas
<1>1. ASSUME Gate PROVE SandboxTypeOK'
  BY <1>1 DEF Gate, Discarded, Goto
<1>2. ASSUME GateCutShort PROVE SandboxTypeOK'
  <2>1. session' \in [Roles -> Sessions]
    <3>1. PICK t \in Torn(session[role]) : session' = [session EXCEPT ![role] = t]
      BY <1>2 DEF GateCutShort
    <3> QED
      BY <3>1, TornSession
  <2>2. faults' \in 0..MaxFaults
    BY <1>2 DEF GateCutShort
  <2> QED
    BY <1>2, <2>1, <2>2 DEF GateCutShort, Idle
<1>3. ASSUME Reuse PROVE SandboxTypeOK'
  BY <1>3 DEF Reuse, Goto
<1>4. ASSUME CleanUp PROVE SandboxTypeOK'
  BY <1>4 DEF CleanUp, GivesUp, Discarded, Goto
<1>5. ASSUME CleanUpFails PROVE SandboxTypeOK'
  <2>1. faults' \in 0..MaxFaults /\ at' \in SandboxSteps
    BY <1>5 DEF CleanUpFails, GivesUp, Goto
  <2>2. /\ place' \in [Roles -> {"none", "tree", "leftover"}] /\ kept' \subseteq Roles
        /\ branch' \in [Roles -> BOOLEAN] /\ own' \in [Roles -> BOOLEAN]
    BY <1>5 DEF CleanUpFails
  <2>3. session' \in [Roles -> Sessions]
    BY <1>5 DEF CleanUpFails, Discarded
  <2> QED
    BY <1>5, <2>1, <2>2, <2>3 DEF CleanUpFails, GivesUp, Goto
<1>25. ASSUME CleanUpRaises PROVE SandboxTypeOK'
  <2>1. faults' \in 0..MaxFaults /\ at' \in SandboxSteps
    BY <1>25 DEF CleanUpRaises, GivesUp, Goto
  <2>2. content' \in [Roles -> {"clean", "edited", "unmerged", "staged"}]
    BY <1>25 DEF CleanUpRaises
  <2>3. session' \in [Roles -> Sessions]
    <3>1. CASE UNCHANGED session
      BY <3>1
    <3>2. CASE session' = [session EXCEPT ![role] = Absent]
      BY <3>2
    <3>3. ASSUME NEW t \in Torn(session[role]), session' = [session EXCEPT ![role] = t]
          PROVE  session' \in [Roles -> Sessions]
      BY <3>3, TornSession
    <3> QED
      BY <1>25, <3>1, <3>2, <3>3 DEF CleanUpRaises
  <2> QED
    BY <1>25, <2>1, <2>2, <2>3 DEF CleanUpRaises, GivesUp, Goto
<1>26. ASSUME CreateFindsTree PROVE SandboxTypeOK'
  BY <1>26 DEF CreateFindsTree, Goto
<1>27. ASSUME ExitFails PROVE SandboxTypeOK'
  <2>1. faults' \in 0..MaxFaults
    BY <1>27 DEF ExitFails
  <2> QED
    BY <1>27, <2>1 DEF ExitFails, Idle
<1>6. ASSUME Create PROVE SandboxTypeOK'
  <2>1. base' \in [Roles -> Shas]
    BY <1>6 DEF Create, StampsArePast
  <2> QED
    BY <1>6, <2>1 DEF Create, Discarded, Goto
<1>7. ASSUME CreateFails PROVE SandboxTypeOK'
  BY <1>7 DEF CreateFails, Discarded, Idle
<1>8. ASSUME Stamp PROVE SandboxTypeOK'
  <2>1. session' \in [Roles -> Sessions]
    BY <1>8 DEF Stamp, Sessions
  <2> QED
    BY <1>8, <2>1 DEF Stamp, Goto
<1>9. ASSUME StartMerge PROVE SandboxTypeOK'
  BY <1>9 DEF StartMerge, Goto, Leave
<1>10. ASSUME StartAgent PROVE SandboxTypeOK'
  BY <1>10 DEF StartAgent
<1>11. ASSUME AgentWrites PROVE SandboxTypeOK'
  BY <1>11 DEF AgentWrites
<1>12. ASSUME Expires PROVE SandboxTypeOK'
  <2>1. session' \in [Roles -> Sessions]
    BY <1>12 DEF Expires, Sessions, Absent
  <2> QED
    BY <1>12, <2>1 DEF Expires
<1>13. ASSUME Interrupted PROVE SandboxTypeOK'
  <2>1. session' \in [Roles -> Sessions]
    <3>1. \E going \in BOOLEAN :
            session' = [session EXCEPT ![role] = [session[role] EXCEPT !.cont = going]]
      <4>1. session[role].cont \in BOOLEAN
        BY DEF Sessions
      <4> QED
        BY <1>13, <4>1 DEF Interrupted
    <3> QED
      BY <3>1, ContinuedType
  <2> QED
    BY <1>13, <2>1 DEF Interrupted, Leave
<1>14. ASSUME AgentFails PROVE SandboxTypeOK'
  <2>1. session' \in [Roles -> Sessions]
    <3>1. \E going \in BOOLEAN :
            session' = [session EXCEPT ![role] = [session[role] EXCEPT !.cont = going]]
      <4>1. session[role].cont \in BOOLEAN
        BY DEF Sessions
      <4> QED
        BY <1>14, <4>1 DEF AgentFails
    <3> QED
      BY <3>1, ContinuedType
  <2> QED
    BY <1>14, <2>1 DEF AgentFails, Leave
<1>15. ASSUME RoleCompletes PROVE SandboxTypeOK'
  <2>1. session' \in [Roles -> Sessions]
    BY <1>15 DEF RoleCompletes, Sessions, Absent
  <2> QED
    BY <1>15, <2>1 DEF RoleCompletes, Goto, Leave
<1>16. ASSUME CommitMerge PROVE SandboxTypeOK'
  BY <1>16 DEF CommitMerge, Goto, Leave
<1>17. ASSUME Advance PROVE SandboxTypeOK'
  <2>1. head' \in Nat /\ solved' \subseteq Mergers
    BY <1>17 DEF Advance, EntryKnows
  <2> QED
    BY <1>17, <2>1 DEF Advance, Discarded, Leave
<1>18. ASSUME AdvanceFails PROVE SandboxTypeOK'
  BY <1>18 DEF AdvanceFails, Leave
<1>19. ASSUME Exit PROVE SandboxTypeOK'
  BY <1>19 DEF Exit, Idle, Marked
<1>20. ASSUME Moves PROVE SandboxTypeOK'
  BY <1>20 DEF Moves
<1>21. ASSUME EntryCrashes PROVE SandboxTypeOK'
  BY <1>21 DEF EntryCrashes, Idle
<1>22. ASSUME NEW r \in Roles, BeginEntry(r) PROVE SandboxTypeOK'
  BY <1>22 DEF BeginEntry
<1>23. ASSUME NEW r \in Roles, Prune(r) PROVE SandboxTypeOK'
  BY <1>23 DEF Prune
<1>24. CASE UNCHANGED sandboxVars
  BY <1>24 DEF sandboxVars
<1> QED
  BY <1>1, <1>2, <1>3, <1>4, <1>5, <1>6, <1>7, <1>8, <1>9, <1>10, <1>11, <1>12,
     <1>13, <1>14, <1>15, <1>16, <1>17, <1>18, <1>19, <1>20, <1>21, <1>22,
     <1>23, <1>24, <1>25, <1>26, <1>27 DEF SandboxNext, Step

-----------------------------------------------------------------------------
\* An agent works only where the entry brought the worktree and the session.
LEMMA PartsSuffice ==
  /\ OnItsCommit /\ EntryKnows => FreshBase /\ ResumesFit
  /\ OnItsCommit' /\ EntryKnows' => FreshBase' /\ ResumesFit'
  BY DEF OnItsCommit, EntryKnows, FreshBase, ResumesFit

LEMMA InitSandboxInv == SandboxInit => SandboxInv
<1> SUFFICES ASSUME SandboxInit PROVE SandboxInv
  OBVIOUS
<1>1. OnItsCommit /\ ConversationsWhole /\ StampsArePast /\ EntryKnows
  BY DEF SandboxInit, OnItsCommit, ConversationsWhole, StampsArePast, EntryKnows,
         Reusable, Absent
<1> QED
  BY <1>1, SandboxTypeInit, PartsSuffice DEF SandboxInv

-----------------------------------------------------------------------------
LEMMA SandboxInvStep == SandboxInv /\ [SandboxNext]_sandboxVars => SandboxInv'
<1> DEFINE Rest == OnItsCommit /\ ConversationsWhole /\ StampsArePast /\ EntryKnows
<1> SUFFICES ASSUME SandboxTypeOK, SandboxTypeOK', Rest, [SandboxNext]_sandboxVars
             PROVE  Rest'
  BY SandboxTypeStep, PartsSuffice DEF SandboxInv
<1> USE NoneAssumption
    DEF SandboxTypeOK, Set, entry, trees, sandboxes, Stamps, Shas, Sessions, Reusable
<1>1. ASSUME Gate PROVE Rest'
  <2>1. OnItsCommit'
    BY <1>1 DEF Gate, Discarded, Goto, Absent, OnItsCommit
  <2>2. ConversationsWhole'
    BY <1>1 DEF Gate, Discarded, Goto, Absent, ConversationsWhole
  <2>3. StampsArePast'
    BY <1>1 DEF Gate, Discarded, Goto, Absent, StampsArePast
  <2>4. EntryKnows'
    BY <1>1 DEF Gate, Discarded, Goto, Absent, EntryKnows
  <2> QED
    BY <2>1, <2>2, <2>3, <2>4
<1>2. ASSUME GateCutShort PROVE Rest'
  <2>0. PICK t \in Torn(session[role]) : session' = [session EXCEPT ![role] = t]
    BY <1>2 DEF GateCutShort
  <2>00. t \in Sessions /\ t.stamp \in {session[role].stamp, NoFingerprint}
    BY TornSession
  <2>1. OnItsCommit'
    BY <1>2, <2>0, <2>00 DEF GateCutShort, Idle, OnItsCommit
  <2>2. ConversationsWhole'
    <3>1. UNCHANGED born
      BY <1>2 DEF GateCutShort
    <3>2. /\ session'[role].dir /\ session'[role].stamp \in {session[role].stamp, NoFingerprint}
          /\ session'[role].cont => session[role].cont
          /\ \A r \in Roles \ {role} : session'[r] = session[r]
      BY <2>0, TornSession
    <3>3. ASSUME NEW r \in Roles, session'[r].cont
          PROVE  /\ session'[r].dir
                 /\ session'[r].stamp # NoFingerprint =>
                      born'[r] = session'[r].stamp
      <4>1. ConversationsWhole
        OBVIOUS
      <4>2. CASE r = role
        BY <3>1, <3>2, <3>3, <4>1, <4>2 DEF ConversationsWhole
      <4>3. CASE r # role
        BY <3>1, <3>2, <3>3, <4>1, <4>3 DEF ConversationsWhole
      <4> QED BY <4>2, <4>3
    <3> QED
      BY <3>3 DEF ConversationsWhole
  <2>3. StampsArePast'
    BY <1>2, <2>0, <2>00 DEF GateCutShort, Idle, StampsArePast
  <2>4. EntryKnows'
    BY <1>2 DEF GateCutShort, Idle, EntryKnows
  <2> QED
    BY <2>1, <2>2, <2>3, <2>4
<1>3. ASSUME Reuse PROVE Rest'
  <2>1. OnItsCommit'
    <3>1. at = "enter" /\ session[role].dir /\ session[role].stamp = want
      BY <1>3 DEF Reuse, EntryKnows, Absent
    <3> QED
      BY <1>3, <3>1 DEF Reuse, Goto, OnItsCommit, StampsArePast
  <2>2. ConversationsWhole'
    BY <1>3 DEF Reuse, Goto, Rebuilds, ConversationsWhole
  <2>3. StampsArePast'
    BY <1>3 DEF Reuse, Goto, Rebuilds, StampsArePast
  <2>4. EntryKnows'
    BY <1>3 DEF Reuse, Goto, Absent, EntryKnows, ConversationsWhole, StampsArePast
  <2> QED
    BY <2>1, <2>2, <2>3, <2>4
<1>4. ASSUME CleanUp PROVE Rest'
  <2>1. OnItsCommit'
    BY <1>4 DEF CleanUp, GivesUp, Discarded, Goto, Absent, OnItsCommit
  <2>2. ConversationsWhole'
    BY <1>4 DEF CleanUp, GivesUp, Discarded, Goto, Absent, ConversationsWhole
  <2>3. StampsArePast'
    BY <1>4 DEF CleanUp, GivesUp, Discarded, Goto, Absent, StampsArePast
  <2>4. EntryKnows'
    BY <1>4 DEF CleanUp, GivesUp, Discarded, Goto, Absent, EntryKnows
  <2> QED
    BY <2>1, <2>2, <2>3, <2>4
<1>5. ASSUME CleanUpFails PROVE Rest'
  <2>1. OnItsCommit'
    BY <1>5 DEF CleanUpFails, GivesUp, Discarded, Goto, Absent, OnItsCommit
  <2>2. ConversationsWhole'
    BY <1>5 DEF CleanUpFails, GivesUp, Discarded, Goto, Absent, ConversationsWhole
  <2>3. StampsArePast'
    BY <1>5 DEF CleanUpFails, GivesUp, Discarded, Goto, Absent, StampsArePast
  <2>4. EntryKnows'
    <3>1. /\ session'[role] \in {session[role], Absent} /\ place'[role] # "tree"
          /\ at = "enter" /\ at' = "create" /\ UNCHANGED <<role, want, born>>
      BY <1>5 DEF CleanUpFails, GivesUp, Discarded, Goto
    <3>2. session[role] = Absent \/ session[role].stamp = want
      BY <3>1 DEF EntryKnows
    <3> QED
      BY <3>1, <3>2 DEF Absent, EntryKnows, ConversationsWhole, StampsArePast
  <2> QED
    BY <2>1, <2>2, <2>3, <2>4
<1>25. ASSUME CleanUpRaises PROVE Rest'
  <2>1. /\ at = "enter" /\ at' = "create" /\ place[role] = "tree"
        /\ UNCHANGED <<role, want, head, place, base, own, born>>
        /\ stuck' = stuck \cup {role}
    BY <1>25 DEF CleanUpRaises, GivesUp, Goto
  <2>2. /\ session'[role] = Absent
           \/ /\ session'[role].stamp \in {session[role].stamp, NoFingerprint}
              /\ session'[role].cont => session[role].cont
              /\ session[role].dir => session'[role].dir
              /\ session'[role].dir => session[role].dir
        /\ \A r \in Roles \ {role} : session'[r] = session[r]
    <3>1. CASE UNCHANGED session
      BY <3>1
    <3>2. CASE session' = [session EXCEPT ![role] = Absent]
      BY <3>2
    <3>3. ASSUME session[role].dir, NEW t \in Torn(session[role]),
                 session' = [session EXCEPT ![role] = t]
          PROVE  /\ session'[role].dir /\ session'[role].stamp \in {session[role].stamp, NoFingerprint}
                 /\ session'[role].cont => session[role].cont
                 /\ \A r \in Roles \ {role} : session'[r] = session[r]
      BY <3>3, TornSession
    <3> QED
      BY <1>25, <3>1, <3>2, <3>3 DEF CleanUpRaises
  <2>3. session[role] = Absent \/ session[role].stamp = want
    BY <2>1 DEF EntryKnows
  <2>4. OnItsCommit'
    BY <2>1, <2>2 DEF Absent, OnItsCommit
  <2>5. ConversationsWhole'
    BY <2>1, <2>2 DEF Absent, ConversationsWhole
  <2>6. StampsArePast'
    BY <2>1, <2>2 DEF Absent, StampsArePast
  <2>7. EntryKnows'
    BY <2>1, <2>2, <2>3 DEF Absent, EntryKnows, ConversationsWhole, StampsArePast
  <2> QED
    BY <2>4, <2>5, <2>6, <2>7
<1>26. ASSUME CreateFindsTree PROVE Rest'
  <2>1. OnItsCommit'
    BY <1>26 DEF CreateFindsTree, Goto, OnItsCommit, EntryKnows
  <2>2. ConversationsWhole'
    BY <1>26 DEF CreateFindsTree, Goto, ConversationsWhole
  <2>3. StampsArePast'
    BY <1>26 DEF CreateFindsTree, Goto, StampsArePast
  <2>4. EntryKnows'
    BY <1>26 DEF CreateFindsTree, Goto, EntryKnows
  <2> QED
    BY <2>1, <2>2, <2>3, <2>4
<1>27. ASSUME ExitFails PROVE Rest'
  <2>1. OnItsCommit'
    BY <1>27 DEF ExitFails, Idle, OnItsCommit
  <2>2. ConversationsWhole'
    BY <1>27 DEF ExitFails, Idle, ConversationsWhole
  <2>3. StampsArePast'
    BY <1>27 DEF ExitFails, Idle, StampsArePast
  <2>4. EntryKnows'
    BY <1>27 DEF ExitFails, Idle, EntryKnows
  <2> QED
    BY <2>1, <2>2, <2>3, <2>4
<1>6. ASSUME Create PROVE Rest'
  <2>1. OnItsCommit'
    BY <1>6 DEF Create, Discarded, Goto, Absent, OnItsCommit
  <2>2. ConversationsWhole'
    BY <1>6 DEF Create, Discarded, Goto, Absent, ConversationsWhole
  <2>3. StampsArePast'
    BY <1>6 DEF Create, Discarded, Goto, Absent, StampsArePast
  <2>4. EntryKnows'
    BY <1>6 DEF Create, Discarded, Goto, Absent, EntryKnows
  <2> QED
    BY <2>1, <2>2, <2>3, <2>4
<1>7. ASSUME CreateFails PROVE Rest'
  <2>1. OnItsCommit'
    BY <1>7 DEF CreateFails, Discarded, Idle, Absent, OnItsCommit
  <2>2. ConversationsWhole'
    BY <1>7 DEF CreateFails, Discarded, Idle, Absent, ConversationsWhole
  <2>3. StampsArePast'
    BY <1>7 DEF CreateFails, Discarded, Idle, Absent, StampsArePast
  <2>4. EntryKnows'
    BY <1>7 DEF CreateFails, Discarded, Idle, Absent, EntryKnows
  <2> QED
    BY <2>1, <2>2, <2>3, <2>4
<1>8. ASSUME Stamp PROVE Rest'
  <2>1. OnItsCommit'
    BY <1>8 DEF Stamp, Goto, OnItsCommit
  <2>2. ConversationsWhole'
    BY <1>8 DEF Stamp, Goto, ConversationsWhole, EntryKnows, StampsArePast
  <2>3. StampsArePast'
    BY <1>8 DEF Stamp, Goto, StampsArePast
  <2>4. EntryKnows'
    BY <1>8 DEF Stamp, Goto, EntryKnows
  <2> QED
    BY <2>1, <2>2, <2>3, <2>4
<1>9. ASSUME StartMerge PROVE Rest'
  <2>1. OnItsCommit'
    BY <1>9 DEF StartMerge, Goto, Leave, OnItsCommit
  <2>2. ConversationsWhole'
    BY <1>9 DEF StartMerge, Goto, Leave, ConversationsWhole
  <2>3. StampsArePast'
    BY <1>9 DEF StartMerge, Goto, Leave, StampsArePast
  <2>4. EntryKnows'
    BY <1>9 DEF StartMerge, Goto, Leave, EntryKnows
  <2> QED
    BY <2>1, <2>2, <2>3, <2>4
<1>10. ASSUME StartAgent PROVE Rest'
  <2>1. OnItsCommit'
    BY <1>10 DEF StartAgent, OnItsCommit
  <2>2. ConversationsWhole'
    BY <1>10 DEF StartAgent, ConversationsWhole
  <2>3. StampsArePast'
    BY <1>10 DEF StartAgent, StampsArePast
  <2>4. EntryKnows'
    BY <1>10 DEF StartAgent, EntryKnows, ConversationsWhole, StampsArePast
  <2> QED
    BY <2>1, <2>2, <2>3, <2>4
<1>11. ASSUME AgentWrites PROVE Rest'
  <2>1. OnItsCommit'
    BY <1>11 DEF AgentWrites, OnItsCommit
  <2>2. ConversationsWhole'
    BY <1>11 DEF AgentWrites, ConversationsWhole
  <2>3. StampsArePast'
    BY <1>11 DEF AgentWrites, StampsArePast
  <2>4. EntryKnows'
    BY <1>11 DEF AgentWrites, EntryKnows
  <2> QED
    BY <2>1, <2>2, <2>3, <2>4
<1>12. ASSUME Expires PROVE Rest'
  <2>1. OnItsCommit'
    BY <1>12 DEF Expires, Absent, OnItsCommit
  <2>2. ConversationsWhole'
    BY <1>12 DEF Expires, Absent, ConversationsWhole
  <2>3. StampsArePast'
    BY <1>12 DEF Expires, Absent, StampsArePast
  <2>4. EntryKnows'
    BY <1>12 DEF Expires, Absent, EntryKnows
  <2> QED
    BY <2>1, <2>2, <2>3, <2>4
<1>13. ASSUME Interrupted PROVE Rest'
  <2>1. OnItsCommit'
    BY <1>13 DEF Interrupted, Leave, OnItsCommit
  <2>2. ConversationsWhole'
    <3>1. PICK going \in {TRUE, session[role].cont} :
            session' = [session EXCEPT ![role] = [session[role] EXCEPT !.cont = going]]
      BY <1>13 DEF Interrupted
    <3>2. UNCHANGED <<place, born>> /\ at = "work"
      BY <1>13 DEF Interrupted
    <3> QED
      BY <3>1, <3>2 DEF ConversationsWhole, EntryKnows
  <2>3. StampsArePast'
    BY <1>13 DEF Interrupted, Leave, StampsArePast
  <2>4. EntryKnows'
    BY <1>13 DEF Interrupted, Leave, EntryKnows
  <2> QED
    BY <2>1, <2>2, <2>3, <2>4
<1>14. ASSUME AgentFails PROVE Rest'
  <2>1. OnItsCommit'
    BY <1>14 DEF AgentFails, Leave, OnItsCommit
  <2>2. ConversationsWhole'
    <3>1. PICK going \in {TRUE, session[role].cont} :
            session' = [session EXCEPT ![role] = [session[role] EXCEPT !.cont = going]]
      BY <1>14 DEF AgentFails
    <3>2. UNCHANGED <<place, born>> /\ at = "work"
      BY <1>14 DEF AgentFails
    <3> QED
      BY <3>1, <3>2 DEF ConversationsWhole, EntryKnows
  <2>3. StampsArePast'
    BY <1>14 DEF AgentFails, Leave, StampsArePast
  <2>4. EntryKnows'
    BY <1>14 DEF AgentFails, Leave, EntryKnows
  <2> QED
    BY <2>1, <2>2, <2>3, <2>4
<1>15. ASSUME RoleCompletes PROVE Rest'
  <2>1. OnItsCommit'
    BY <1>15 DEF RoleCompletes, Goto, Leave, Absent, OnItsCommit
  <2>2. ConversationsWhole'
    BY <1>15 DEF RoleCompletes, Goto, Leave, Absent, ConversationsWhole
  <2>3. StampsArePast'
    BY <1>15 DEF RoleCompletes, Goto, Leave, Absent, StampsArePast
  <2>4. EntryKnows'
    BY <1>15 DEF RoleCompletes, Goto, Leave, Absent, EntryKnows
  <2> QED
    BY <2>1, <2>2, <2>3, <2>4
<1>16. ASSUME CommitMerge PROVE Rest'
  <2>1. OnItsCommit'
    BY <1>16 DEF CommitMerge, Goto, Leave, OnItsCommit
  <2>2. ConversationsWhole'
    BY <1>16 DEF CommitMerge, Goto, Leave, ConversationsWhole
  <2>3. StampsArePast'
    BY <1>16 DEF CommitMerge, Goto, Leave, StampsArePast
  <2>4. EntryKnows'
    BY <1>16 DEF CommitMerge, Goto, Leave, EntryKnows
  <2> QED
    BY <2>1, <2>2, <2>3, <2>4
<1>17. ASSUME Advance PROVE Rest'
  <2>1. OnItsCommit'
    BY <1>17 DEF Advance, Discarded, Leave, Absent, OnItsCommit
  <2>2. ConversationsWhole'
    BY <1>17 DEF Advance, Discarded, Leave, Absent, ConversationsWhole
  <2>3. StampsArePast'
    BY <1>17 DEF Advance, Discarded, Leave, Absent, StampsArePast
  <2>4. EntryKnows'
    BY <1>17 DEF Advance, Discarded, Leave, Absent, EntryKnows
  <2> QED
    BY <2>1, <2>2, <2>3, <2>4
<1>18. ASSUME AdvanceFails PROVE Rest'
  <2>1. OnItsCommit'
    BY <1>18 DEF AdvanceFails, Leave, OnItsCommit
  <2>2. ConversationsWhole'
    BY <1>18 DEF AdvanceFails, Leave, ConversationsWhole
  <2>3. StampsArePast'
    BY <1>18 DEF AdvanceFails, Leave, StampsArePast
  <2>4. EntryKnows'
    BY <1>18 DEF AdvanceFails, Leave, EntryKnows
  <2> QED
    BY <2>1, <2>2, <2>3, <2>4
<1>19. ASSUME Exit PROVE Rest'
  <2>1. OnItsCommit'
    BY <1>19 DEF Exit, Idle, Marked, Stays, OnItsCommit
  <2>2. ConversationsWhole'
    BY <1>19 DEF Exit, Idle, Marked, Stays, ConversationsWhole
  <2>3. StampsArePast'
    BY <1>19 DEF Exit, Idle, Marked, Stays, StampsArePast
  <2>4. EntryKnows'
    BY <1>19 DEF Exit, Idle, Marked, Stays, EntryKnows
  <2> QED
    BY <2>1, <2>2, <2>3, <2>4
<1>20. ASSUME Moves PROVE Rest'
  <2>1. OnItsCommit'
    BY <1>20 DEF Moves, OnItsCommit
  <2>2. ConversationsWhole'
    BY <1>20 DEF Moves, ConversationsWhole
  <2>3. StampsArePast'
    BY <1>20 DEF Moves, StampsArePast
  <2>4. EntryKnows'
    BY <1>20 DEF Moves, EntryKnows
  <2> QED
    BY <2>1, <2>2, <2>3, <2>4
<1>21. ASSUME EntryCrashes PROVE Rest'
  <2>1. OnItsCommit'
    BY <1>21 DEF EntryCrashes, Idle, OnItsCommit
  <2>2. ConversationsWhole'
    BY <1>21 DEF EntryCrashes, Idle, ConversationsWhole
  <2>3. StampsArePast'
    BY <1>21 DEF EntryCrashes, Idle, StampsArePast
  <2>4. EntryKnows'
    BY <1>21 DEF EntryCrashes, Idle, EntryKnows
  <2> QED
    BY <2>1, <2>2, <2>3, <2>4
<1>22. ASSUME NEW r \in Roles, BeginEntry(r) PROVE Rest'
  <2>1. OnItsCommit'
    BY <1>22 DEF BeginEntry, OnItsCommit
  <2>2. ConversationsWhole'
    BY <1>22 DEF BeginEntry, ConversationsWhole
  <2>3. StampsArePast'
    BY <1>22 DEF BeginEntry, StampsArePast
  <2>4. EntryKnows'
    BY <1>22 DEF BeginEntry, EntryKnows
  <2> QED
    BY <2>1, <2>2, <2>3, <2>4
<1>23. ASSUME NEW r \in Roles, Prune(r) PROVE Rest'
  <2>1. OnItsCommit'
    BY <1>23 DEF Prune, Absent, OnItsCommit
  <2>2. ConversationsWhole'
    BY <1>23 DEF Prune, Absent, ConversationsWhole
  <2>3. StampsArePast'
    BY <1>23 DEF Prune, Absent, StampsArePast
  <2>4. EntryKnows'
    BY <1>23 DEF Prune, Absent, EntryKnows
  <2> QED
    BY <2>1, <2>2, <2>3, <2>4
<1>24. CASE UNCHANGED sandboxVars
  BY <1>24 DEF sandboxVars, OnItsCommit, ConversationsWhole, StampsArePast,
         EntryKnows
<1> HIDE DEF Rest
<1> QED
  BY <1>1, <1>2, <1>3, <1>4, <1>5, <1>6, <1>7, <1>8, <1>9, <1>10, <1>11, <1>12,
     <1>13, <1>14, <1>15, <1>16, <1>17, <1>18, <1>19, <1>20, <1>21, <1>22,
     <1>23, <1>24, <1>25, <1>26, <1>27
     DEF SandboxNext, Step

-----------------------------------------------------------------------------
(* Theorems. *)

\* Whatever was left of the sandboxes and sessions: an agent begins on the code
\* of its fingerprint, and goes on only with a conversation begun on it.
THEOREM SandboxInvHolds == SandboxSpec => []SandboxInv
  BY InitSandboxInv, SandboxInvStep, PTL DEF SandboxSpec

\* No agent begins its work on the code of an earlier day, but where the branch
\* of the sandbox or the sandbox itself could not be removed.
THEOREM BasesAreFresh == SandboxSpec => []FreshBase
  BY SandboxInvHolds, PTL DEF SandboxInv

\* No conversation goes on for other inputs than those it was begun with.
THEOREM ResumedFits == SandboxSpec => []ResumesFit
  BY SandboxInvHolds, PTL DEF SandboxInv

LEMMA ConversationStep ==
  ASSUME SandboxInv, SandboxNext, NEW r \in Roles, Live(r)
  PROVE  \/ session'[r].cont /\ place'[r] = "tree"
         \/ r \in solved' \/ (at = "work" /\ role = r) \/ GitFailed(r)
<1> DEFINE Goes == session'[r].cont /\ place'[r] = "tree"
<1> USE NoneAssumption
    DEF Set, entry, trees, sandboxes, Shas, Stamps, Sessions, SandboxTypeOK, Live
<1>0. SandboxTypeOK /\ ConversationsWhole /\ StampsArePast /\ EntryKnows
  BY DEF SandboxInv
<1>1. place[r] = "tree" /\ session[r].dir
  BY <1>0 DEF ConversationsWhole
<1>2. at # "idle" /\ role = r => session[r].stamp = want
  BY <1>0 DEF StampsArePast
<1>3. Reusable(r) /\ ~Rebuilds(r)
  BY <1>1 DEF Reusable, Rebuilds
<1>4. CASE Gate
  BY <1>0, <1>2, <1>4 DEF Gate, Discarded
<1>5. CASE GateCutShort
  BY <1>0, <1>2, <1>5 DEF GateCutShort
<1>6. CASE Reuse
  BY <1>0, <1>6 DEF Reuse
<1>7. ASSUME CleanUp \/ CleanUpFails \/ CleanUpRaises PROVE Goes \/ GitFailed(r)
  <2>1. CASE role = r
    <3>1. at = "enter" /\ faults' > faults
      BY <1>0, <1>3, <1>7, <2>1 DEF CleanUp, CleanUpFails, CleanUpRaises, GivesUp
    <3> QED
      BY <2>1, <3>1 DEF GitFailed
  <2>2. CASE role # r
    BY <1>0, <1>7, <2>2 DEF CleanUp, CleanUpFails, CleanUpRaises, Discarded
  <2> QED
    BY <2>1, <2>2
<1>8. ASSUME Create \/ CreateFindsTree \/ CreateFails PROVE Goes \/ GitFailed(r)
  <2>1. CASE role = r
    <3>1. at = "create"
      BY <1>8 DEF Create, CreateFindsTree, CreateFails
    <3>2. r \in stuck
      BY <1>0, <1>1, <2>1, <3>1 DEF EntryKnows
    <3> QED
      BY <2>1, <3>1, <3>2 DEF GitFailed
  <2>2. CASE role # r
    BY <1>0, <1>8, <2>2 DEF Create, CreateFindsTree, CreateFails, Discarded
  <2> QED
    BY <2>1, <2>2
<1>9. CASE Stamp
  BY <1>0, <1>9 DEF Stamp
<1>10. CASE StartMerge \/ StartAgent \/ AgentWrites \/ CommitMerge \/ AdvanceFails
  BY <1>0, <1>10 DEF StartMerge, StartAgent, AgentWrites, CommitMerge, AdvanceFails
<1>11. CASE Exit \/ ExitFails
  BY <1>0, <1>1, <1>11 DEF Exit, ExitFails, Stays
<1>12. CASE Expires \/ RoleCompletes
  BY <1>0, <1>12 DEF Expires, RoleCompletes
<1>13. CASE Interrupted \/ AgentFails
  BY <1>0, <1>13 DEF Interrupted, AgentFails
<1>14. CASE Advance
  BY <1>0, <1>14 DEF Advance, Discarded
<1>15. CASE Moves \/ EntryCrashes
  BY <1>15 DEF Moves, EntryCrashes
<1>16. ASSUME NEW q \in Roles, BeginEntry(q) \/ Prune(q) PROVE Goes
  BY <1>0, <1>1, <1>16 DEF BeginEntry, Prune
<1> QED
  BY <1>4, <1>5, <1>6, <1>7, <1>8, <1>9, <1>10, <1>11, <1>12, <1>13, <1>14, <1>15, <1>16
     DEF SandboxNext, Step

\* Nobody but the run of the conversation itself, its conflict's end, or an entry
\* of its role in which git fails, gives up a conversation that is stamped with
\* the inputs of now.
THEOREM LiveConversationsLast == SandboxSpec => LiveConversationsStay
<1>1. SandboxInv /\ [SandboxNext]_sandboxVars =>
        [\A r \in Roles :
           Live(r) =>
             \/ session'[r].cont /\ place'[r] = "tree"
             \/ r \in solved' \/ (at = "work" /\ role = r) \/ GitFailed(r)]_sandboxVars
  BY ConversationStep
<1> QED
  BY <1>1, SandboxInvHolds, PTL DEF SandboxSpec, LiveConversationsStay
=============================================================================
