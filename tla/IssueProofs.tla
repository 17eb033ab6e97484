---------------------------- MODULE IssueProofs -----------------------------
(***************************************************************************)
(* Proofs about the issues at GitHub: which ones a pass starts             *)
(* (PlanningIntake), and which ones are closed (IssueClosing).             *)
(***************************************************************************)
EXTENDS IssueClosing, PlanningIntake, TLAPS

-----------------------------------------------------------------------------
(* IssueClosing. *)

(* How a step changes its thread. *)

LEMMA TargetType ==
  ASSUME TypeOK, NEW t \in Issues, thread[t].step # "none"
  PROVE  /\ Target(t) \in Issues /\ Len(thread[t].path) \in Nat \ {0}
         /\ thread[t].path \in Seq(Issues)
  BY DEF TypeOK, Thread, Target

LEMMA GoFacts ==
  ASSUME TypeOK, NEW t \in Issues, NEW step \in Steps, Go(t, step),
         thread[t].step # "none"
  PROVE  /\ thread' \in [Issues -> Thread]
         /\ thread'[t].step = step /\ thread'[t].path = thread[t].path
         /\ \A u \in Issues : thread'[u].path = thread[u].path
         /\ \A u \in Issues \ {t} : thread'[u] = thread[u]
<1>0. thread[t] = [step |-> thread[t].step, path |-> thread[t].path, tries |-> thread[t].tries]
  BY DEF TypeOK, Thread
<1>1. thread'[t] = [step |-> step, path |-> thread[t].path, tries |-> 0]
  BY <1>0 DEF Go, TypeOK, Thread
<1>2. thread'[t] \in Thread /\ thread'[t].step = step /\ thread'[t].path = thread[t].path
  BY <1>1, TriesAssumption DEF TypeOK, Thread
<1>3. \A u \in Issues \ {t} : thread'[u] = thread[u]
  BY DEF Go, TypeOK
<1>4. thread' \in [Issues -> Thread]
  BY <1>2, <1>3 DEF Go, TypeOK
<1> QED BY <1>2, <1>3, <1>4

LEMMA ClimbFacts ==
  ASSUME TypeOK, NEW t \in Issues, NEW p \in Issues, Climb(t, p),
         thread[t].step # "none"
  PROVE  /\ thread' \in [Issues -> Thread]
         /\ thread'[t].step = "patch" /\ thread'[t].path # << >>
         /\ Len(thread'[t].path) > 1 /\ Target(t)' = p
         /\ \A u \in Issues \ {t} : thread'[u] = thread[u]
<1>1. thread[t].path \in Seq(Issues) /\ Len(thread[t].path) \in Nat \ {0}
  BY TargetType
<1>2. thread'[t] = [step |-> "patch", path |-> Append(thread[t].path, p), tries |-> 0]
  BY DEF Climb, TypeOK
<1>3. thread'[t] \in Thread
  BY <1>1, <1>2, TriesAssumption DEF Thread, Steps
<1>4. \A u \in Issues \ {t} : thread'[u] = thread[u]
  BY DEF Climb, TypeOK
<1>5. thread' \in [Issues -> Thread]
  BY <1>3, <1>4 DEF Climb, TypeOK
<1> QED BY <1>1, <1>2, <1>4, <1>5 DEF Target

LEMMA RetryFacts ==
  ASSUME TypeOK, NEW t \in Issues, Retry(t)
  PROVE  /\ thread' \in [Issues -> Thread]
         /\ \A u \in Issues : thread'[u].path = thread[u].path /\ thread'[u].step = thread[u].step
<1>1. thread'[t] = [step |-> thread[t].step, path |-> thread[t].path,
                    tries |-> thread[t].tries + 1]
  BY DEF Retry, TypeOK, Thread
<1>2. /\ thread'[t] \in Thread /\ thread'[t].step = thread[t].step
      /\ thread'[t].path = thread[t].path
  BY <1>1, TriesAssumption DEF TypeOK, Thread, Retry
<1>3. \A u \in Issues \ {t} : thread'[u] = thread[u]
  BY DEF Retry, TypeOK
<1>4. thread' \in [Issues -> Thread]
  BY <1>2, <1>3 DEF Retry, TypeOK
<1> QED BY <1>2, <1>3, <1>4

LEMMA FaultFacts ==
  ASSUME TypeOK, NEW t \in Issues, Fault(t)
  PROVE  /\ pc = "closing" /\ thread[t].step \in {"patch", "parent", "subs"}
         /\ closed \subseteq closed' /\ closed' \subseteq Issues
         /\ lagging' \subseteq closed' /\ faults' \in 0 .. MaxFaults /\ faults' > 0
         /\ UNCHANGED closed \/ (thread[t].step = "patch" /\ closed' = closed \cup {Target(t)})
<1>1. pc = "closing" /\ thread[t].step \in {"patch", "parent", "subs"}
  BY DEF Fault, At
<1>2. Target(t) \in Issues
  BY <1>1, TargetType
<1>3. faults' \in 0 .. MaxFaults /\ faults' > 0
  BY BoundsAssumption DEF Fault, TypeOK
<1>4. CASE At(t, "patch") /\ Closes(Target(t))
  BY <1>1, <1>2, <1>3, <1>4 DEF At, Closes, TypeOK
<1>5. CASE UNCHANGED <<closed, lagging>>
  BY <1>1, <1>3, <1>5 DEF TypeOK
<1> QED BY <1>4, <1>5 DEF Fault

-----------------------------------------------------------------------------
(* Types. *)

LEMMA InitInv == Init => Inv
<1> SUFFICES ASSUME Init PROVE Inv
  OBVIOUS
<1>1. TypeOK
  BY LabeledAssumption, TriesAssumption, BoundsAssumption
     DEF Init, TypeOK, Thread, Steps, NoThread
<1> QED
  BY <1>1 DEF Init, Inv, ParentsLast, OneCloser, MarksMeanClosed, NotOfferedAgain,
              ThreadsFit, MarksHeld, RememberedWasClosed, LagRemembered, NoThread,
              ClosesParent, Undisturbed

LEMMA TypeStep == TypeOK /\ ThreadsFit /\ [Next]_vars => TypeOK'
<1> SUFFICES ASSUME TypeOK, ThreadsFit, [Next]_vars PROVE TypeOK'
  OBVIOUS
<1> USE DEF service, lists
<1>1. ASSUME NEW t \in Issues, Patch(t) PROVE TypeOK'
  <2>1. Go(t, "note") /\ "note" \in Steps /\ thread[t].step # "none"
    BY <1>1 DEF Patch, At, Steps
  <2>2. Target(t) \in Issues
    BY <2>1, TargetType
  <2> QED BY <1>1, <2>1, <2>2, GoFacts DEF Patch, Closes, TypeOK
<1>2. ASSUME NEW t \in Issues, Note(t) PROVE TypeOK'
  <2>1. Go(t, "parent") /\ "parent" \in Steps /\ thread[t].step # "none"
    BY <1>2 DEF Note, At, Steps
  <2>2. Target(t) \in Issues
    BY <2>1, TargetType
  <2> QED BY <1>2, <2>1, <2>2, GoFacts DEF Note, TypeOK
<1>3. ASSUME NEW t \in Issues, GetParent(t) PROVE TypeOK'
  <2>1. PICK step \in Steps : Go(t, step)
    BY <1>3 DEF GetParent, Steps
  <2>2. thread[t].step # "none"
    BY <1>3 DEF GetParent, At
  <2> QED BY <1>3, <2>1, <2>2, GoFacts DEF GetParent, TypeOK
<1>4. ASSUME NEW t \in Issues, ListSubs(t) PROVE TypeOK'
  <2>1. PICK step \in Steps : Go(t, step)
    BY <1>4 DEF ListSubs, Steps
  <2>2. thread[t].step # "none"
    BY <1>4 DEF ListSubs, At
  <2> QED BY <1>4, <2>1, <2>2, GoFacts DEF ListSubs, TypeOK
<1>5. ASSUME NEW t \in Issues, Claim(t) PROVE TypeOK'
  <2> DEFINE p == Parent[Target(t)]
  <2>1. thread[t].step = "claim" /\ p \in Issues
    BY <1>5 DEF Claim, At, ThreadsFit
  <2>2. CASE p \in attempted
    <3>1. Go(t, "done") /\ "done" \in Steps
      BY <1>5, <2>2 DEF Claim, Steps
    <3> QED BY <1>5, <2>1, <2>2, <3>1, GoFacts DEF Claim, TypeOK
  <2>3. CASE p \notin attempted
    <3>1. Climb(t, p) /\ attempted' = attempted \cup {p}
      BY <1>5, <2>3 DEF Claim
    <3> HIDE DEF p
    <3>2. /\ thread' \in [Issues -> Thread] /\ thread'[t].path # << >>
          /\ \A u \in Issues \ {t} : thread'[u] = thread[u]
      BY <2>1, <3>1, ClimbFacts
    <3> QED BY <1>5, <2>1, <3>1, <3>2 DEF Claim, TypeOK
  <2> QED BY <2>2, <2>3
<1>6. ASSUME NEW t \in Issues, Retry(t) PROVE TypeOK'
  BY <1>6, RetryFacts, FaultFacts DEF Retry, TypeOK
<1>7. ASSUME NEW t \in Issues, GiveUp(t) PROVE TypeOK'
  <2>1. PICK step \in Steps : Go(t, step)
    BY <1>7 DEF GiveUp, Steps
  <2>2. Fault(t)
    BY <1>7 DEF GiveUp
  <2>3. /\ thread' \in [Issues -> Thread]
        /\ \A u \in Issues : thread'[u].step # "none" => thread'[u].path # << >>
    BY <2>1, <2>2, GoFacts, FaultFacts DEF TypeOK
  <2>4. attempted' \subseteq Issues
    BY <1>7 DEF GiveUp, Unmarked, TypeOK
  <2> QED BY <1>7, <2>2, <2>3, <2>4, FaultFacts DEF GiveUp, TypeOK
<1>8. CASE StartClosing
  <2>1. PICK batch \in (SUBSET ready) \ {{}} :
          thread' = [i \in Issues |->
                       IF i \in batch THEN [step |-> "patch", path |-> <<i>>, tries |-> 0]
                       ELSE NoThread]
    BY <1>8 DEF StartClosing
  <2>2. \A i \in Issues : thread'[i] \in Thread /\
                         (thread'[i].step # "none" => thread'[i].path # << >>)
    <3> SUFFICES ASSUME NEW i \in Issues
                 PROVE  thread'[i] \in Thread /\
                        (thread'[i].step # "none" => thread'[i].path # << >>)
      OBVIOUS
    <3>1. CASE i \in batch
      BY <2>1, <3>1, TriesAssumption DEF Thread, Steps
    <3>2. CASE i \notin batch
      BY <2>1, <3>2, TriesAssumption DEF NoThread, Thread, Steps
    <3> QED BY <3>1, <3>2
  <2>3. thread' \in [Issues -> Thread]
    BY <2>1, <2>2
  <2> QED BY <1>8, <2>2, <2>3 DEF StartClosing, TypeOK
<1>9. ASSUME thread' = [i \in Issues |-> NoThread]
      PROVE  /\ thread' \in [Issues -> Thread]
             /\ \A t \in Issues : thread'[t].step # "none" => thread'[t].path # << >>
  BY <1>9, TriesAssumption DEF NoThread, Thread, Steps
<1>10. CASE AllClosed
  BY <1>9, <1>10 DEF AllClosed, TypeOK
<1>11. CASE SomeFailed
  BY <1>9, <1>11 DEF SomeFailed, TypeOK
<1>12. CASE ListReady
  BY <1>12, LabeledAssumption DEF ListReady, Remembered, Listed, TypeOK
<1>13. CASE ListAll
  BY <1>13 DEF ListAll, Remembered, Listed, TypeOK
<1>14. CASE CatchUp
  BY <1>14 DEF CatchUp, TypeOK
<1>15. CASE Reopen
  BY <1>15 DEF Reopen, TypeOK
<1>16. CASE UNCHANGED vars
  BY <1>16 DEF vars, TypeOK
<1> QED
  BY <1>1, <1>2, <1>3, <1>4, <1>5, <1>6, <1>7, <1>8, <1>10, <1>11, <1>12, <1>13,
     <1>14, <1>15, <1>16 DEF Next

-----------------------------------------------------------------------------
(* What the steps preserve. *)

\* What was closed once stays closed, or people reopened it.
LEMMA ClosedStays ==
  ASSUME TypeOK, [Next]_vars
  PROVE  closed \cup reopened \subseteq closed' \cup reopened'
<1> USE DEF service, lists
<1>1. ASSUME NEW t \in Issues, Retry(t) \/ GiveUp(t)
      PROVE  closed \subseteq closed' /\ reopened \subseteq reopened'
  BY <1>1, FaultFacts DEF Retry, GiveUp
<1>2. CASE Reopen
  BY <1>2 DEF Reopen
<1> QED
  BY <1>1, <1>2 DEF Next, vars, Patch, Note, GetParent, ListSubs, Claim, Closes,
     StartClosing, AllClosed, SomeFailed, ListReady, ListAll, CatchUp

LEMMA ThreadsStep == Inv /\ [Next]_vars => ThreadsFit'
<1> SUFFICES ASSUME Inv, [Next]_vars PROVE ThreadsFit'
  OBVIOUS
<1>0. TypeOK /\ ThreadsFit /\ RememberedWasClosed
  BY DEF Inv
<1>i. closed \cup reopened \subseteq closed' \cup reopened'
  BY <1>0, ClosedStays
<1> USE <1>0, <1>i DEF service, lists, ThreadsFit, Target, Climbed, ClosesParent, At
<1>1. ASSUME NEW t \in Issues, Patch(t) PROVE ThreadsFit'
  <2>1. Go(t, "note") /\ "note" \in Steps
    BY <1>1 DEF Patch, Steps
  <2> QED BY <1>1, <2>1, GoFacts DEF Patch, Closes
<1>2. ASSUME NEW t \in Issues, Note(t) PROVE ThreadsFit'
  <2>1. Go(t, "parent") /\ "parent" \in Steps
    BY <1>2 DEF Note, Steps
  <2> QED BY <1>2, <2>1, GoFacts DEF Note
<1>3. ASSUME NEW t \in Issues, GetParent(t) PROVE ThreadsFit'
  <2>1. Target(t) \in Issues
    BY <1>3, TargetType DEF GetParent
  <2>2. CASE Parent[Target(t)] = NoParent
    <3>1. Go(t, "done") /\ "done" \in Steps
      BY <1>3, <2>2 DEF GetParent, Steps
    <3> QED BY <1>3, <3>1, GoFacts DEF GetParent
  <2>3. CASE Parent[Target(t)] # NoParent
    <3>1. Go(t, "subs") /\ "subs" \in Steps
      BY <1>3, <2>3 DEF GetParent, Steps
    <3>2. Parent[Target(t)] \in Issues
      BY <2>1, <2>3, ParentAssumption
    <3> QED BY <1>3, <3>1, <3>2, GoFacts DEF GetParent
  <2> QED BY <2>2, <2>3
<1>4. ASSUME NEW t \in Issues, ListSubs(t) PROVE ThreadsFit'
  <2>1. CASE OpenSubIssues(Parent[Target(t)]) = {}
    <3>1. Go(t, "claim") /\ "claim" \in Steps
      BY <1>4, <2>1 DEF ListSubs, Steps
    <3>2. Children(Parent[Target(t)]) \subseteq closed \cup reopened
      BY <2>1 DEF OpenSubIssues, Listed, RememberedWasClosed
    <3> QED BY <1>4, <3>1, <3>2, GoFacts DEF ListSubs
  <2>2. CASE OpenSubIssues(Parent[Target(t)]) # {}
    <3>1. Go(t, "done") /\ "done" \in Steps
      BY <1>4, <2>2 DEF ListSubs, Steps
    <3> QED BY <1>4, <3>1, GoFacts DEF ListSubs
  <2> QED BY <2>1, <2>2
<1>5. ASSUME NEW t \in Issues, Claim(t) PROVE ThreadsFit'
  <2> DEFINE p == Parent[Target(t)]
  <2>1. p \in Issues /\ Children(p) \subseteq closed \cup reopened
    BY <1>5 DEF Claim
  <2>2. CASE p \in attempted
    <3>1. Go(t, "done") /\ "done" \in Steps
      BY <1>5, <2>2 DEF Claim, Steps
    <3> QED BY <1>5, <2>2, <3>1, GoFacts DEF Claim
  <2>3. CASE p \notin attempted
    <3>1. Climb(t, p) /\ attempted' = attempted \cup {p}
      BY <1>5, <2>3 DEF Claim
    <3>2. pc = "closing" /\ UNCHANGED <<pc, closed, reopened, faults>>
      BY <1>5 DEF Claim
    <3>3. thread[t].step # "none"
      BY <1>5 DEF Claim
    <3> HIDE DEF p
    <3> QED BY <2>1, <3>1, <3>2, <3>3, ClimbFacts
  <2> QED BY <2>2, <2>3
<1>6. ASSUME NEW t \in Issues, Retry(t) PROVE ThreadsFit'
  BY <1>6, RetryFacts, FaultFacts DEF Retry
<1>7. ASSUME NEW t \in Issues, GiveUp(t) PROVE ThreadsFit'
  <2>1. PICK step \in {"done", "failed"} : Go(t, step)
    BY <1>7 DEF GiveUp
  <2>2. Fault(t) /\ step \in Steps
    BY <1>7 DEF GiveUp, Steps
  <2>3. \A u \in Issues \ {t} : ClosesParent(u) => Target(u) \in attempted'
    BY <1>7 DEF GiveUp, Unmarked, Inv, OneCloser
  <2> QED BY <1>7, <2>1, <2>2, <2>3, GoFacts, FaultFacts DEF GiveUp
<1>8. CASE StartClosing
  BY <1>8 DEF StartClosing, NoThread, TypeOK
<1>9. CASE AllClosed \/ SomeFailed
  BY <1>9 DEF AllClosed, SomeFailed, NoThread
<1>10. CASE ListReady \/ ListAll \/ CatchUp \/ Reopen
  BY <1>10 DEF ListReady, ListAll, CatchUp, Reopen, NoThread
<1>11. CASE UNCHANGED vars
  BY <1>11 DEF vars
<1> QED
  BY <1>1, <1>2, <1>3, <1>4, <1>5, <1>6, <1>7, <1>8, <1>9, <1>10, <1>11 DEF Next

LEMMA ParentsLastStep == Inv /\ [Next]_vars => ParentsLast'
<1> SUFFICES ASSUME Inv, [Next]_vars PROVE ParentsLast'
  OBVIOUS
<1>0. TypeOK /\ ThreadsFit /\ ParentsLast
  BY DEF Inv
<1>1. closed \cup reopened \subseteq closed' \cup reopened'
  BY <1>0, ClosedStays
<1>2. ASSUME NEW t \in Issues, thread[t].step = "patch", closed' = closed \cup {Target(t)}
      PROVE  ParentsLast'
  <2>1. Target(t) \in Labeled \/ Children(Target(t)) \subseteq closed \cup reopened
    BY <1>0, <1>2 DEF ThreadsFit, ClosesParent
  <2> QED BY <1>0, <1>1, <1>2, <2>1 DEF ParentsLast, Children
<1>3. CASE closed' \subseteq closed
  BY <1>0, <1>1, <1>3 DEF ParentsLast, Children
<1>4. ASSUME NEW t \in Issues, Retry(t) \/ GiveUp(t) PROVE ParentsLast'
  BY <1>0, <1>2, <1>3, <1>4, FaultFacts DEF Retry, GiveUp
<1>5. ASSUME NEW t \in Issues, Patch(t) PROVE ParentsLast'
  BY <1>2, <1>5 DEF Patch, At, Closes
<1> QED
  BY <1>3, <1>4, <1>5 DEF Next, vars, Note, GetParent, ListSubs, Claim,
         StartClosing,
     AllClosed, SomeFailed, ListReady, ListAll, CatchUp, Reopen

\* Of the parents being closed, a step adds at most the one it has just marked.
LEMMA OneCloserStep == Inv /\ [Next]_vars => OneCloser'
<1> SUFFICES ASSUME Inv, [Next]_vars PROVE OneCloser'
  OBVIOUS
<1>0. TypeOK /\ ThreadsFit /\ OneCloser
  BY DEF Inv
<1> USE <1>0 DEF service, lists
<1>1. ASSUME \A u \in Issues : ClosesParent(u)' => ClosesParent(u) /\ Target(u)' = Target(u)
      PROVE  OneCloser'
  BY <1>1 DEF OneCloser
<1>2. ASSUME NEW t \in Issues, NEW step \in Steps \ {"patch"}, Go(t, step),
             thread[t].step # "none"
      PROVE  OneCloser'
  <2>1. \A u \in Issues : ClosesParent(u)' => ClosesParent(u) /\ Target(u)' = Target(u)
    BY <1>2, GoFacts DEF ClosesParent, Climbed, Target
  <2> QED BY <1>1, <2>1
<1>3. ASSUME NEW t \in Issues, Patch(t) \/ Note(t) \/ GetParent(t) \/ ListSubs(t) \/ GiveUp(t)
      PROVE  OneCloser'
  <2>1. PICK step \in Steps \ {"patch"} : Go(t, step)
    BY <1>3 DEF Patch, Note, GetParent, ListSubs, GiveUp, Steps
  <2>2. thread[t].step # "none"
    BY <1>3, FaultFacts DEF Patch, Note, GetParent, ListSubs, GiveUp, At
  <2> QED BY <1>2, <2>1, <2>2
<1>4. ASSUME NEW t \in Issues, Claim(t) PROVE OneCloser'
  <2> DEFINE p == Parent[Target(t)]
  <2>1. p \in Issues /\ thread[t].step # "none"
    BY <1>4 DEF Claim, At, ThreadsFit
  <2>2. CASE p \in attempted
    <3>1. Go(t, "done") /\ "done" \in Steps \ {"patch"}
      BY <1>4, <2>2 DEF Claim, Steps
    <3> QED BY <1>2, <2>1, <3>1
  <2>3. CASE p \notin attempted
    <3>1. Climb(t, p)
      BY <1>4, <2>3 DEF Claim
    <3> HIDE DEF p
    <3>2. \A u \in Issues \ {t} : ClosesParent(u) => Target(u) # p
      BY <2>3 DEF ThreadsFit
    <3>3. Target(t)' = p /\ \A u \in Issues \ {t} : thread'[u] = thread[u]
      BY <2>1, <3>1, ClimbFacts
    <3>4. \A u \in Issues \ {t} : /\ ClosesParent(u)' <=> ClosesParent(u)
                                 /\ Target(u)' = Target(u)
      BY <3>3 DEF ClosesParent, Climbed, Target
    <3> QED BY <3>2, <3>3, <3>4 DEF OneCloser
  <2> QED BY <2>2, <2>3
<1>5. ASSUME NEW t \in Issues, Retry(t) PROVE OneCloser'
  <2>1. \A u \in Issues : ClosesParent(u)' => ClosesParent(u) /\ Target(u)' = Target(u)
    BY <1>5, RetryFacts DEF ClosesParent, Climbed, Target
  <2> QED BY <1>1, <2>1
<1>6. CASE StartClosing
  <2>1. \A u \in Issues : ~ClosesParent(u)'
    BY <1>6 DEF StartClosing, ClosesParent, Climbed, NoThread
  <2> QED BY <1>1, <2>1
<1>7. CASE AllClosed \/ SomeFailed
  <2>1. \A u \in Issues : ~ClosesParent(u)'
    BY <1>7 DEF AllClosed, SomeFailed, ClosesParent, NoThread
  <2> QED BY <1>1, <2>1
<1>8. CASE UNCHANGED thread
  BY <1>1, <1>8 DEF ClosesParent, Climbed, Target
<1> QED
  BY <1>3, <1>4, <1>5, <1>6, <1>7, <1>8
     DEF Next, vars, ListReady, ListAll, CatchUp, Reopen

LEMMA MarksStep == Inv /\ [Next]_vars => (MarksHeld /\ MarksMeanClosed)'
<1> SUFFICES ASSUME Inv, [Next]_vars PROVE MarksHeld' /\ MarksMeanClosed'
  OBVIOUS
<1>0. TypeOK /\ ThreadsFit /\ MarksHeld /\ MarksMeanClosed /\ ThreadsFit'
  BY ThreadsStep DEF Inv
<1>1. closed \cup reopened \subseteq closed' \cup reopened'
  BY <1>0, ClosedStays
<1>2. MarksHeld'
  <2> USE <1>0, <1>1 DEF service, lists
  <2> DEFINE Gone(p) == p \in closed' \cup reopened'
             Held(p) == \E t \in Issues : ClosesParent(t)' /\ Target(t)' = p
  <2> SUFFICES ASSUME NEW p \in attempted' PROVE Gone(p) \/ Held(p)
    BY DEF MarksHeld
  <2>1. ASSUME NEW t \in Issues, Patch(t) PROVE Gone(p) \/ Held(p)
    <3>1. Go(t, "note") /\ "note" \in Steps /\ thread[t].step # "none"
      BY <2>1 DEF Patch, At, Steps
    <3> QED BY <2>1, <3>1, GoFacts DEF MarksHeld, Patch, Closes, ClosesParent, Climbed, Target
  <2>2. ASSUME NEW t \in Issues, Note(t) \/ GetParent(t) \/ ListSubs(t)
        PROVE  Gone(p) \/ Held(p)
    <3>1. PICK step \in Steps : Go(t, step)
      BY <2>2 DEF Note, GetParent, ListSubs, Steps
    <3>2. ~ClosesParent(t) /\ thread[t].step # "none" /\ attempted' = attempted
      BY <2>2 DEF Note, GetParent, ListSubs, At, ClosesParent
    <3> QED BY <3>1, <3>2, GoFacts DEF MarksHeld, ClosesParent, Climbed, Target
  <2>3. ASSUME NEW t \in Issues, Claim(t) PROVE Gone(p) \/ Held(p)
    <3> DEFINE q == Parent[Target(t)]
    <3>1. /\ q \in Issues /\ thread[t].step # "none" /\ ~ClosesParent(t)
      BY <2>3 DEF Claim, At, ThreadsFit, ClosesParent
    <3>2. CASE q \in attempted
      <4>1. Go(t, "done") /\ "done" \in Steps /\ attempted' = attempted
        BY <2>3, <3>2 DEF Claim, Steps
      <4> QED BY <3>1, <4>1, GoFacts DEF MarksHeld, ClosesParent, Climbed, Target
    <3>3. CASE q \notin attempted
      <4>1. Climb(t, q) /\ attempted' = attempted \cup {q}
        BY <2>3, <3>3 DEF Claim
      <4> HIDE DEF q
      <4>2. /\ ClosesParent(t)' /\ Target(t)' = q
            /\ \A u \in Issues \ {t} : thread'[u] = thread[u]
        BY <3>1, <4>1, ClimbFacts DEF ClosesParent, Climbed
      <4> QED BY <3>1, <4>1, <4>2 DEF MarksHeld, ClosesParent, Climbed, Target
    <3> QED BY <3>2, <3>3
  <2>4. ASSUME NEW t \in Issues, Retry(t) PROVE Gone(p) \/ Held(p)
    BY <2>4, RetryFacts DEF MarksHeld, Retry, ClosesParent, Climbed, Target
  <2>5. ASSUME NEW t \in Issues, GiveUp(t) PROVE Gone(p) \/ Held(p)
    <3>1. PICK step \in Steps : Go(t, step)
      BY <2>5 DEF GiveUp, Steps
    <3>2. thread[t].step # "none" /\ attempted' = Unmarked(t)
      BY <2>5, FaultFacts DEF GiveUp
    <3>3. \A u \in Issues \ {t} : /\ ClosesParent(u) => ClosesParent(u)'
                                 /\ Target(u)' = Target(u)
      BY <3>1, <3>2, GoFacts DEF ClosesParent, Climbed, Target
    <3> QED BY <3>2, <3>3 DEF MarksHeld, Unmarked
  <2>6. CASE StartClosing \/ AllClosed \/ SomeFailed
    <3>1. attempted' \subseteq closed \cup reopened
      <4>1. CASE StartClosing
        BY <4>1 DEF StartClosing, MarksMeanClosed
      <4>2. CASE AllClosed
        BY <4>2 DEF AllClosed, Over, MarksHeld, ClosesParent
      <4>3. CASE SomeFailed
        BY <4>3 DEF SomeFailed, Over, MarksHeld, ClosesParent, service
      <4> QED BY <2>6, <4>1, <4>2, <4>3
    <3> QED BY <3>1
  <2>7. CASE UNCHANGED <<thread, attempted>>
    BY <2>7 DEF MarksHeld, ClosesParent, Climbed, Target
  <2> QED
    BY <2>1, <2>2, <2>3, <2>4, <2>5, <2>6, <2>7
       DEF Next, vars, ListReady, ListAll, CatchUp, Reopen
<1>3. MarksMeanClosed'
  BY <1>0, <1>2 DEF MarksHeld, MarksMeanClosed, ThreadsFit, ClosesParent, NoThread
<1> QED BY <1>2, <1>3

LEMMA RememberedStep == Inv /\ [Next]_vars => RememberedWasClosed'
<1> SUFFICES ASSUME Inv, [Next]_vars PROVE RememberedWasClosed'
  OBVIOUS
<1>0. TypeOK /\ ThreadsFit /\ RememberedWasClosed
  BY DEF Inv
<1>1. closed \cup reopened \subseteq closed' \cup reopened'
  BY <1>0, ClosedStays
<1>2. ASSUME NEW t \in Issues, Note(t) PROVE recent' \subseteq closed \cup reopened
  BY <1>0, <1>2 DEF Note, At, ThreadsFit, RememberedWasClosed
<1>3. CASE recent' \subseteq recent
  BY <1>0, <1>1, <1>3 DEF RememberedWasClosed
<1> QED
  BY <1>1, <1>2, <1>3
     DEF RememberedWasClosed, Next, vars, service, Patch, GetParent, ListSubs, Claim,
         Retry, GiveUp, StartClosing, AllClosed, SomeFailed, ListReady, Remembered,
         ListAll, CatchUp, Reopen

\* What was closed before the lists were read is not in the list of ready issues;
\* a call that fails, or a person who reopens an issue, disturbs.
LEMMA LagStep == Inv /\ [Next]_vars => (LagRemembered /\ NotOfferedAgain)'
<1> SUFFICES ASSUME Inv, [Next]_vars PROVE LagRemembered' /\ NotOfferedAgain'
  OBVIOUS
<1>0. TypeOK /\ ThreadsFit /\ LagRemembered /\ NotOfferedAgain
  BY DEF Inv
<1> USE <1>0 DEF service, lists, LagRemembered, NotOfferedAgain, Undisturbed
<1>1. ASSUME NEW t \in Issues, Retry(t) \/ GiveUp(t)
      PROVE  LagRemembered' /\ NotOfferedAgain'
  BY <1>1, FaultFacts DEF Retry, GiveUp
<1>2. ASSUME NEW t \in Issues, Patch(t) PROVE LagRemembered' /\ NotOfferedAgain'
  <2>1. Go(t, "note") /\ "note" \in Steps /\ thread[t].step = "patch" /\ pc' = "closing"
    BY <1>2 DEF Patch, At, Steps
  <2> QED BY <1>2, <2>1, GoFacts DEF Patch, Closes, Target
<1>3. ASSUME NEW t \in Issues, Note(t) PROVE LagRemembered' /\ NotOfferedAgain'
  <2>1. Go(t, "parent") /\ "parent" \in Steps /\ thread[t].step # "none" /\ pc' = "closing"
    BY <1>3 DEF Note, At, Steps
  <2> QED BY <1>3, <2>1, GoFacts DEF Note, Target
<1>4. ASSUME NEW t \in Issues, NEW step \in Steps, Go(t, step), thread[t].step # "none",
             thread[t].step # "note", pc' = "closing",
             UNCHANGED <<lagging, recent, faults, reopened>>
      PROVE  LagRemembered' /\ NotOfferedAgain'
  BY <1>4, GoFacts DEF Target
<1>5. ASSUME NEW t \in Issues, GetParent(t) \/ ListSubs(t)
      PROVE  LagRemembered' /\ NotOfferedAgain'
  <2>1. PICK step \in Steps : Go(t, step)
    BY <1>5 DEF GetParent, ListSubs, Steps
  <2> QED BY <1>4, <1>5, <2>1 DEF GetParent, ListSubs, At
<1>6. ASSUME NEW t \in Issues, Claim(t) PROVE LagRemembered' /\ NotOfferedAgain'
  <2> DEFINE p == Parent[Target(t)]
  <2>1. p \in Issues /\ thread[t].step = "claim" /\ pc' = "closing"
    BY <1>6 DEF Claim, At, ThreadsFit
  <2>2. CASE Go(t, "done")
    BY <1>4, <1>6, <2>1, <2>2 DEF Claim, Steps
  <2>3. CASE Climb(t, p)
    <3> HIDE DEF p
    <3>1. \A u \in Issues : thread[u].step = "note" =>
            thread'[u].step = "note" /\ Target(u)' = Target(u)
      BY <2>1, <2>3, ClimbFacts DEF Target
    <3> QED BY <1>6, <2>1, <3>1 DEF Claim
  <2> QED BY <1>6, <2>2, <2>3 DEF Claim
<1>7. CASE StartClosing
  BY <1>7 DEF StartClosing
<1>8. CASE AllClosed
  BY <1>8 DEF AllClosed, Over
<1>9. CASE SomeFailed
  BY <1>9 DEF SomeFailed, ThreadsFit
<1>10. CASE ListReady
  <2>1. \A u \in Issues : thread[u].step # "note"
    BY <1>10 DEF ListReady, ThreadsFit, NoThread
  <2> QED BY <1>10, <2>1 DEF ListReady, Remembered, Listed, TypeOK
<1>11. CASE ListAll
  <2>1. \A u \in Issues : thread[u].step # "note"
    BY <1>11 DEF ListAll, ThreadsFit, NoThread
  <2> QED BY <1>11, <2>1, LabeledAssumption DEF ListAll, Remembered, Listed, TypeOK
<1>12. CASE CatchUp
  BY <1>12 DEF CatchUp, Target
<1>13. CASE Reopen
  BY <1>13 DEF Reopen
<1>14. CASE UNCHANGED vars
  BY <1>14 DEF vars, Target
<1> QED
  BY <1>1, <1>2, <1>3, <1>5, <1>6, <1>7, <1>8, <1>9, <1>10, <1>11, <1>12, <1>13,
     <1>14
     DEF Next

-----------------------------------------------------------------------------
(* The theorems. *)

LEMMA NextInv == Inv /\ [Next]_vars => Inv'
  BY TypeStep, ThreadsStep, ParentsLastStep, OneCloserStep, MarksStep,
     RememberedStep,
     LagStep DEF Inv

\* The threads of a batch, the marks and the lists always fit together, whatever
\* calls fail, however the lists lag and whoever reopens issues.
THEOREM Invariance == Spec => []Inv
  BY InitInv, NextInv, PTL DEF Spec

\* A parent that is no work of its own is closed after all its sub-issues.
THEOREM ParentsAreLast == Spec => []ParentsLast
<1>1. Inv => ParentsLast
  BY DEF Inv
<1> QED BY <1>1, Invariance, PTL

\* No two threads close one parent at a time, and when a batch is over only
\* parents that were closed are barred from being closed again.
THEOREM CascadeIsOnce == Spec => [](OneCloser /\ MarksMeanClosed)
<1>1. Inv => OneCloser /\ MarksMeanClosed
  BY DEF Inv
<1> QED BY <1>1, Invariance, PTL

\* As long as nothing fails and nobody interferes, what the process closed is not
\* offered to it as work again, however long the lists lag.
THEOREM ClosedIsNotOffered == Spec => []NotOfferedAgain
<1>1. Inv => NotOfferedAgain
  BY DEF Inv
<1> QED BY <1>1, Invariance, PTL

-----------------------------------------------------------------------------
(* PlanningIntake. *)

LEMMA EmptyDomain == DOMAIN << >> = {} /\ << >> \in [{} -> Listings]
                     /\ << >> \in [{} -> Modes \cup {"uncertain"}]
  OBVIOUS

LEMMA PreparedType ==
  ASSUME IntakeTypeOK, NEW open \in SUBSET Numbers
  PROVE  /\ DOMAIN Prepared(open) = open
         /\ Prepared(open) \in [open -> Listings]
         /\ \A i \in open : Prepared(open)[i].labels = issues[i].labels
<1>1. \A i \in open : MeetsFloor(i, open) \in BOOLEAN
  BY DEF MeetsFloor, LineStays
<1>2. \A i \in open : issues[i].labels \in SUBSET Labels
  BY DEF IntakeTypeOK, GithubIssues
<1> QED
  BY <1>1, <1>2 DEF Prepared, Listings

\* The changes of the markers are of no label that decides how to work.
LEMMA MarksType ==
  ASSUME NEW s, DOMAIN s \subseteq Numbers
  PROVE  /\ Marks(s) \subseteq Changes
         /\ \A c \in Marks(s) : c.issue \in DOMAIN s /\ c.label \in {Info, Slice}
<1>1. ASSUME NEW stage \in {1, 3}, NEW label \in {Info, Slice}, NEW marked,
             NEW c \in Mark(s, stage, label, marked)
      PROVE  c \in Changes /\ c.issue \in DOMAIN s /\ c.label = label
  BY <1>1 DEF Mark, Change, Changes, Labels
<1> QED
  BY <1>1 DEF Marks

\* A choice of a slice label leaves it alone of them, and says so to GitHub.
LEMMA VerdictsType ==
  ASSUME NEW s, s \in [DOMAIN s -> Listings], DOMAIN s \subseteq Numbers,
         NEW v, v \in [DOMAIN v -> Modes \cup {"uncertain"}], DOMAIN v \subseteq DOMAIN s
  PROVE  /\ Verdicts(s, v) \subseteq Changes
         /\ \A c \in Verdicts(s, v) : c.issue \in DOMAIN s
<1>1. \A i \in Concrete(v) : i \in DOMAIN s /\ v[i] \in Modes
  BY DEF Concrete
<1>2. ASSUME NEW i \in Concrete(v), NEW c \in Chosen(s, v, i)
      PROVE  c \in Changes /\ c.issue \in DOMAIN s
  BY <1>1, <1>2 DEF Chosen, Change, Changes, Labels, SliceLabels
<1>3. \A i \in Uncertain(v) : Change(6, i, Slice, "add") \in Changes
                              /\ Change(6, i, Slice, "add").issue \in DOMAIN s
  BY DEF Uncertain, Change, Changes, Labels
<1>4. ASSUME NEW c \in Verdicts(s, v) PROVE c \in Changes /\ c.issue \in DOMAIN s
  <2>1. CASE c \in Marks(s)
    BY <2>1, MarksType
  <2>2. CASE \E i \in Concrete(v) : c \in Chosen(s, v, i)
    BY <1>2, <2>2
  <2>3. CASE \E i \in Uncertain(v) : c = Change(6, i, Slice, "add")
    BY <1>3, <2>3
  <2> QED
    <3>1. \/ c \in Marks(s) \/ c \in UNION {Chosen(s, v, i) : i \in Concrete(v)}
          \/ c \in {Change(6, i, Slice, "add") : i \in Uncertain(v)}
      BY <1>4 DEF Verdicts
    <3> QED
      BY <2>1, <2>2, <2>3, <3>1
<1> QED
  BY <1>4

LEMMA RelabeledType ==
  ASSUME NEW s, s \in [DOMAIN s -> Listings], NEW v
  PROVE  /\ DOMAIN Relabeled(s, v) = DOMAIN s
         /\ Relabeled(s, v) \in [DOMAIN s -> Listings]
         /\ \A i \in DOMAIN s :
              Relabeled(s, v)[i].labels = IF i \in Concrete(v)
                                          THEN (s[i].labels \ Modes) \cup {v[i]}
                                          ELSE s[i].labels
<1>1. \A i \in Concrete(v) : v[i] \in Modes
  BY DEF Concrete
<1>2. ASSUME NEW i \in DOMAIN s, i \in Concrete(v)
      PROVE  /\ Relabel(s[i], v[i]) \in Listings
             /\ Relabel(s[i], v[i]).labels = (s[i].labels \ Modes) \cup {v[i]}
  <2>1. (s[i].labels \ Modes) \cup {v[i]} \in SUBSET Labels
    BY <1>1, <1>2 DEF Listings, Labels
  <2> QED
    BY <2>1 DEF Relabel, Listings
<1> QED
  BY <1>2 DEF Relabeled

-----------------------------------------------------------------------------
LEMMA IntakeTypeInit == IntakeInit => IntakeTypeOK
<1> SUFFICES ASSUME IntakeInit PROVE IntakeTypeOK
  OBVIOUS
<1>1. blockers \in [Numbers -> SUBSET Numbers] /\ issues \in [Numbers -> GithubIssues]
  BY DEF IntakeInit, GithubIssues, Labels
<1>2. DOMAIN listed = {} /\ DOMAIN verdicts = {}
  BY EmptyDomain DEF IntakeInit
<1>3. /\ listed \in [DOMAIN listed -> Listings]
      /\ verdicts \in [DOMAIN verdicts -> Modes \cup {"uncertain"}]
  BY EmptyDomain DEF IntakeInit
<1>4. edits \in 0 .. MaxEdits /\ stops \in 0 .. MaxStops
  BY EditsAssumption DEF IntakeInit
<1> QED
  BY <1>1, <1>2, <1>3, <1>4 DEF IntakeInit, IntakeTypeOK

\* A pass that is left leaves nothing behind.
LEMMA LeaveType ==
  ASSUME NEW next, Leave(next)
  PROVE  /\ DOMAIN listed' = {} /\ DOMAIN verdicts' = {}
         /\ listed' \in [DOMAIN listed' -> Listings]
         /\ verdicts' \in [DOMAIN verdicts' -> Modes \cup {"uncertain"}]
         /\ todo' = {} /\ started' = {} /\ resumed' = FALSE /\ changed' = {}
         /\ at' = next
  BY EmptyDomain DEF Leave

LEMMA CutShortType ==
  ASSUME IntakeTypeOK, NEW next, CutShort(next)
  PROVE  /\ DOMAIN listed' = {} /\ DOMAIN verdicts' = {}
         /\ listed' \in [DOMAIN listed' -> Listings]
         /\ verdicts' \in [DOMAIN verdicts' -> Modes \cup {"uncertain"}]
         /\ todo' = {} /\ started' = {} /\ resumed' = FALSE /\ changed' = {}
         /\ at' = next /\ stops' \in 0 .. MaxStops
<1>1. Leave(next) /\ stops' = stops + 1 /\ stops < MaxStops
  BY DEF CutShort
<1>2. stops' \in 0 .. MaxStops
  BY <1>1, EditsAssumption DEF IntakeTypeOK
<1> QED
  BY <1>1, <1>2, LeaveType

\* An issue whose labels or body change is still an issue.
LEMMA RelabelIssue ==
  ASSUME issues \in [Numbers -> GithubIssues], NEW i \in Numbers, NEW labels \in SUBSET Labels
  PROVE  [issues EXCEPT ![i].labels = labels] \in [Numbers -> GithubIssues]
  BY DEF GithubIssues

LEMMA IntakeTypeStep ==
  IntakeTypeOK /\ SyncOnly /\ [IntakeNext]_intakeVars => IntakeTypeOK'
<1> SUFFICES ASSUME IntakeTypeOK, SyncOnly, [IntakeNext]_intakeVars PROVE IntakeTypeOK'
  OBVIOUS
<1> USE EditsAssumption DEF IntakeTypeOK, pass
<1>1. ASSUME Begin PROVE IntakeTypeOK'
  BY <1>1 DEF Begin
<1>2. ASSUME List PROVE IntakeTypeOK'
  <2>1. OpenIssues \in SUBSET Numbers
    BY DEF OpenIssues
  <2>2. DOMAIN listed' = OpenIssues /\ listed' \in [OpenIssues -> Listings]
    BY <1>2, <2>1, PreparedType DEF List
  <2>3. DOMAIN verdicts = {} /\ todo = {}
    BY <1>2, EmptyDomain DEF List, SyncOnly
  <2> QED
    BY <1>2, <2>1, <2>2, <2>3 DEF List
<1>3. ASSUME NothingOpen PROVE IntakeTypeOK'
  BY <1>3, LeaveType DEF NothingOpen
<1>4. ASSUME Gate PROVE IntakeTypeOK'
  BY <1>4, MarksType DEF Gate
<1>5. ASSUME GateBlocks PROVE IntakeTypeOK'
  <2>1. PICK next \in {"idle", "off"} : CutShort(next)
    BY <1>5 DEF GateBlocks
  <2> QED
    BY <1>5, <2>1, CutShortType DEF GateBlocks
<1>6. ASSUME Classify PROVE IntakeTypeOK'
  <2>1. PICK i \in Unclassified(listed) \ DOMAIN verdicts, answer \in Modes \cup {"other"} :
          verdicts' = [j \in DOMAIN verdicts \cup {i} |->
                        IF j = i THEN Verdict(answer) ELSE verdicts[j]]
    BY <1>6 DEF Classify
  <2>2. Verdict(answer) \in Modes \cup {"uncertain"} /\ i \in DOMAIN listed
    BY DEF Verdict, Unclassified, MalformedSlices
  <2>3. /\ verdicts' \in [DOMAIN verdicts' -> Modes \cup {"uncertain"}]
        /\ DOMAIN verdicts' \subseteq DOMAIN listed
    BY <2>1, <2>2
  <2> QED
    BY <1>6, <2>3 DEF Classify
<1>7. ASSUME AgentStops PROVE IntakeTypeOK'
  <2>1. PICK next \in {"idle", "off"} : CutShort(next)
    BY <1>7 DEF AgentStops
  <2> QED
    BY <1>7, <2>1, CutShortType DEF AgentStops
<1>8. ASSUME Apply PROVE IntakeTypeOK'
  BY <1>8, VerdictsType, RelabeledType DEF Apply
<1>9. ASSUME Sync PROVE IntakeTypeOK'
  <2>1. PICK c \in todo :
          /\ issues' = [issues EXCEPT ![c.issue].labels =
                          IF c.intent = "add" THEN @ \cup {c.label} ELSE @ \ {c.label}]
          /\ todo' = todo \ {c}
    BY <1>9 DEF Sync
  <2>2. c.issue \in Numbers /\ c.label \in Labels
    BY DEF Changes
  <2>3. issues[c.issue].labels \in SUBSET Labels
    BY <2>2 DEF GithubIssues
  <2>4. issues' \in [Numbers -> GithubIssues]
    <3> DEFINE labels == IF c.intent = "add" THEN issues[c.issue].labels \cup {c.label}
                         ELSE issues[c.issue].labels \ {c.label}
    <3>1. labels \in SUBSET Labels
      BY <2>2, <2>3
    <3>2. issues' = [issues EXCEPT ![c.issue].labels = labels]
      BY <2>1
    <3> QED
      BY <2>2, <3>1, <3>2, RelabelIssue
  <2> QED
    BY <1>9, <2>1, <2>4 DEF Sync
<1>10. ASSUME NoPlanner PROVE IntakeTypeOK'
  <2>1. Startable(listed) \cap Candidates(listed) \subseteq DOMAIN listed
    BY DEF Candidates
  <2> QED
    BY <1>10, <2>1, LeaveType DEF NoPlanner, Resolve, Planned
<1>11. ASSUME AskPlanner PROVE IntakeTypeOK'
  BY <1>11 DEF AskPlanner
<1>12. ASSUME Plan PROVE IntakeTypeOK'
  BY <1>12, LeaveType DEF Plan, Resolve, Planned
<1>13. ASSUME StartWork PROVE IntakeTypeOK'
  BY <1>13 DEF StartWork
<1>14. ASSUME StartFails PROVE IntakeTypeOK'
  BY <1>14, LeaveType DEF StartFails
<1>15. ASSUME Deliver PROVE IntakeTypeOK'
  <2>1. PICK i \in started : /\ issues' = [issues EXCEPT ![i].open = FALSE]
                             /\ inFlight' = inFlight \ {i} /\ started' = started \ {i}
    BY <1>15 DEF Deliver
  <2>2. issues' \in [Numbers -> GithubIssues]
    BY <2>1 DEF GithubIssues
  <2> QED
    BY <1>15, <2>1, <2>2 DEF Deliver
<1>16. ASSUME FailIssue PROVE IntakeTypeOK'
  BY <1>16 DEF FailIssue
<1>17. ASSUME Continue PROVE IntakeTypeOK'
  BY <1>17, LeaveType DEF Continue
<1>18. ASSUME Kill PROVE IntakeTypeOK'
  <2>1. CutShort("off")
    BY <1>18 DEF Kill
  <2> QED
    BY <1>18, <2>1, CutShortType DEF Kill
<1>19. ASSUME Edit PROVE IntakeTypeOK'
  <2>1. edits' \in 0 .. MaxEdits
    BY <1>19 DEF Edit
  <2>2. PICK i \in Numbers :
          /\ changed' = changed \cup {i}
          /\ \/ \E l \in Modes \cup {Hitl} :
                  issues' = [issues EXCEPT ![i].labels = SymDiff(@, {l})]
             \/ \E b \in Bodies : issues' = [issues EXCEPT ![i].body = b]
    BY <1>19 DEF Edit
  <2>3. ASSUME NEW l \in Modes \cup {Hitl}
        PROVE  [issues EXCEPT ![i].labels = SymDiff(@, {l})] \in [Numbers -> GithubIssues]
    <3>1. SymDiff(issues[i].labels, {l}) \in SUBSET Labels
      BY DEF SymDiff, GithubIssues, Labels
    <3> QED
      BY <3>1, RelabelIssue
  <2>4. ASSUME NEW b \in Bodies
        PROVE  [issues EXCEPT ![i].body = b] \in [Numbers -> GithubIssues]
    BY DEF GithubIssues
  <2> QED
    <3>1. issues' \in [Numbers -> GithubIssues] /\ changed' \subseteq Numbers
      BY <2>2, <2>3, <2>4
    <3> QED
      BY <1>19, <2>1, <3>1 DEF Edit
<1>20. CASE UNCHANGED intakeVars
  BY <1>20 DEF intakeVars
<1> QED
  BY <1>1, <1>2, <1>3, <1>4, <1>5, <1>6, <1>7, <1>8, <1>9, <1>10, <1>11, <1>12,
     <1>13, <1>14, <1>15, <1>16, <1>17, <1>18, <1>19, <1>20 DEF IntakeNext

-----------------------------------------------------------------------------
(* The labels a pass goes by. *)

\* After a classification, of those labels only the ones of a choice are still
\* to be changed.
LEMMA WhatIsPending ==
  ASSUME NEW s, s \in [DOMAIN s -> Listings], DOMAIN s \subseteq Numbers,
         NEW v, NEW i, NEW l \in Modes \cup {Hitl}
  PROVE  /\ (\E c \in Verdicts(s, v) : c.issue = i /\ c.label = l /\ c.intent = "add")
              <=> i \in Concrete(v) /\ l = v[i]
         /\ (\E c \in Verdicts(s, v) : c.issue = i /\ c.label = l /\ c.intent = "remove")
              <=> i \in Concrete(v) /\ l \in SliceLabels(s[i]) \ {v[i]}
<1>1. l \notin {Info, Slice}
  BY ModesAssumption DEF Info, Slice, Hitl
<1>2. \A j : \A c \in Chosen(s, v, j) : c.issue = j
  BY DEF Chosen, Change
<1>3. \A j : Change(6, j, Slice, "add").label = Slice
  BY DEF Change
<1>4. \A c \in Marks(s) : c.label \in {Info, Slice}
  BY MarksType
<1>5. ASSUME NEW c \in Verdicts(s, v), c.label = l
      PROVE  \E j \in Concrete(v) : c \in Chosen(s, v, j)
  <2>1. \/ c \in Marks(s) \/ c \in UNION {Chosen(s, v, j) : j \in Concrete(v)}
        \/ c \in {Change(6, j, Slice, "add") : j \in Uncertain(v)}
    BY <1>5 DEF Verdicts
  <2> QED
    BY <1>1, <1>3, <1>4, <1>5, <2>1
<1>6. ASSUME NEW j \in Concrete(v), NEW c \in Chosen(s, v, j) PROVE c \in Verdicts(s, v)
  BY <1>6 DEF Verdicts
<1>7. ASSUME NEW intent
      PROVE  (\E c \in Verdicts(s, v) : c.issue = i /\ c.label = l /\ c.intent = intent) <=>
             i \in Concrete(v) /\ \E c \in Chosen(s, v, i) : c.label = l /\ c.intent = intent
  BY <1>2, <1>5, <1>6
<1>8. \A c : c \in Chosen(s, v, i) <=>
        \/ c = Change(5, i, v[i], "add")
        \/ \E m \in SliceLabels(s[i]) \ {v[i]} : c = Change(5, i, m, "remove")
  BY DEF Chosen
<1>9. \A m, kind : /\ Change(5, i, m, kind).label = m
                   /\ Change(5, i, m, kind).intent = kind
  BY DEF Change
<1>10. (\E c \in Chosen(s, v, i) : c.label = l /\ c.intent = "add") <=> l = v[i]
  BY <1>8, <1>9
<1>11. (\E c \in Chosen(s, v, i) : c.label = l /\ c.intent = "remove")
         <=> l \in SliceLabels(s[i]) \ {v[i]}
  BY <1>8, <1>9
<1> QED
  BY <1>7, <1>10, <1>11

\* A pass that started something shows what it started.
LEMMA PartsShow ==
  ASSUME IntakeTypeOK, ShownOrPending, SyncOnly, CandidatesOnly PROVE StartsWhatIsShown
<1> SUFFICES ASSUME at = "work", ~resumed, NEW i \in started \ changed
             PROVE  /\ WellFormed(issues[i]) /\ ~Exempt(issues[i])
                    /\ SliceLabels(issues[i]) = SliceLabels(listed[i])
  BY DEF StartsWhatIsShown
<1>1. i \in DOMAIN listed /\ WellFormed(listed[i]) /\ ~Exempt(listed[i])
  BY DEF CandidatesOnly, Candidates, Ready
<1>2. \A l \in Modes \cup {Hitl} : l \in issues[i].labels <=> l \in listed[i].labels
  BY <1>1 DEF ShownOrPending, SyncOnly, Pending
<1>3. SliceLabels(issues[i]) = SliceLabels(listed[i])
  BY <1>2 DEF SliceLabels
<1> QED
  BY <1>1, <1>2, <1>3 DEF WellFormed, Exempt

Parts == IntakeTypeOK /\ ShownOrPending /\ SyncOnly /\ CandidatesOnly

LEMMA InitIntakeInv == IntakeInit => Parts
<1> SUFFICES ASSUME IntakeInit PROVE Parts
  OBVIOUS
<1>1. ShownOrPending /\ SyncOnly /\ CandidatesOnly
  BY EmptyDomain DEF IntakeInit, ShownOrPending, SyncOnly, CandidatesOnly
<1> QED
  BY <1>1, IntakeTypeInit DEF Parts

LEMMA IntakeStep == Parts /\ [IntakeNext]_intakeVars => Parts'
<1> SUFFICES ASSUME Parts, [IntakeNext]_intakeVars PROVE Parts'
  OBVIOUS
<1> DEFINE Rest == ShownOrPending /\ SyncOnly /\ CandidatesOnly
<1>a. IntakeTypeOK /\ Rest /\ IntakeTypeOK'
  BY IntakeTypeStep DEF Parts
<1> USE <1>a
<1>0. ASSUME NEW next \in {"idle", "off"}, Leave(next) PROVE Rest'
  BY <1>0, EmptyDomain DEF Leave, ShownOrPending, SyncOnly, CandidatesOnly
<1>1. ASSUME Begin PROVE Rest'
  BY <1>1 DEF Begin, ShownOrPending, SyncOnly, CandidatesOnly, Pending, pass
<1>2. ASSUME List PROVE Rest'
  <2>1. OpenIssues \in SUBSET Numbers /\ todo = {}
    BY <1>2 DEF List, OpenIssues, SyncOnly
  <2>2. DOMAIN listed' = OpenIssues /\ \A i \in OpenIssues : listed'[i].labels = issues[i].labels
    BY <1>2, <2>1, PreparedType DEF List
  <2>3. at' = "gate" /\ UNCHANGED <<issues, todo>>
    BY <1>2 DEF List
  <2> QED
    BY <2>1, <2>2, <2>3 DEF ShownOrPending, SyncOnly, CandidatesOnly, Pending
<1>3. ASSUME NothingOpen PROVE Rest'
  BY <1>3, <1>0 DEF NothingOpen
<1>4. ASSUME Gate PROVE Rest'
  <2>1. todo = {} /\ UNCHANGED <<issues, listed, changed, resumed>>
    BY <1>4 DEF Gate, SyncOnly
  <2>2. \A c \in todo' : c.label \in {Info, Slice}
    BY <1>4, <2>1, MarksType DEF Gate, IntakeTypeOK
  <2>3. ShownOrPending'
    <3>1. \A i, l : ~Pending(i, l, "add") /\ ~Pending(i, l, "remove")
      BY <2>1 DEF Pending
    <3>2. \A i, intent : \A l \in Modes \cup {Hitl} : ~Pending(i, l, intent)'
      BY <2>2, ModesAssumption DEF Pending, Info, Slice, Hitl
    <3> QED
      BY <2>1, <3>1, <3>2 DEF ShownOrPending
  <2>4. SyncOnly' /\ CandidatesOnly'
    BY <1>4, <2>1 DEF Gate, SyncOnly, CandidatesOnly
  <2> QED
    BY <2>3, <2>4
<1>5. ASSUME GateBlocks PROVE Rest'
  <2>1. PICK next \in {"idle", "off"} : Leave(next)
    BY <1>5 DEF GateBlocks, CutShort
  <2> QED
    BY <2>1, <1>0
<1>6. ASSUME Classify PROVE Rest'
  BY <1>6 DEF Classify, ShownOrPending, SyncOnly, CandidatesOnly, Pending, pass
<1>7. ASSUME AgentStops PROVE Rest'
  <2>1. PICK next \in {"idle", "off"} : Leave(next)
    BY <1>7 DEF AgentStops, CutShort
  <2> QED
    BY <2>1, <1>0
<1>8. ASSUME Apply PROVE Rest'
  <2>1. SyncOnly' /\ CandidatesOnly'
    BY <1>8 DEF Apply, SyncOnly, CandidatesOnly
  <2>2. /\ todo = {} /\ UNCHANGED <<issues, changed>>
        /\ listed' = Relabeled(listed, verdicts) /\ todo' = Verdicts(listed, verdicts)
    BY <1>8 DEF Apply, SyncOnly
  <2>3. ASSUME NEW i \in DOMAIN listed, i \notin changed, NEW l \in Modes \cup {Hitl}
        PROVE  /\ Pending(i, l, "add")' => l \in listed'[i].labels
               /\ Pending(i, l, "remove")' => l \notin listed'[i].labels
               /\ ~Pending(i, l, "add")' /\ ~Pending(i, l, "remove")'
                    => (l \in issues[i].labels <=> l \in listed'[i].labels)
    <3>1. l \in issues[i].labels <=> l \in listed[i].labels
      BY <2>2, <2>3 DEF ShownOrPending, Pending
    <3>2. i \in Concrete(verdicts) => verdicts[i] \in Modes
      BY DEF Concrete
    <3>3. listed'[i].labels = IF i \in Concrete(verdicts)
                              THEN (listed[i].labels \ Modes) \cup {verdicts[i]}
                              ELSE listed[i].labels
      BY <2>2, RelabeledType, ZenonT(60) DEF IntakeTypeOK
    <3>4. /\ Pending(i, l, "add")' <=>
               i \in Concrete(verdicts) /\ l = verdicts[i]
          /\ Pending(i, l, "remove")' <=>
               /\ i \in Concrete(verdicts)
               /\ l \in SliceLabels(listed[i]) \ {verdicts[i]}
      <4>1. /\ Pending(i, l, "add")' <=>
                 \E c \in Verdicts(listed, verdicts) :
                   c.issue = i /\ c.label = l /\ c.intent = "add"
            /\ Pending(i, l, "remove")' <=>
                 \E c \in Verdicts(listed, verdicts) :
                   c.issue = i /\ c.label = l /\ c.intent = "remove"
        BY <2>2 DEF Pending
      <4>2. listed \in [DOMAIN listed -> Listings] /\ DOMAIN listed \subseteq Numbers
        BY DEF IntakeTypeOK
      <4> QED
        BY <4>1, <4>2, WhatIsPending
    <3>5. CASE i \in Concrete(verdicts)
      BY <3>1, <3>2, <3>3, <3>4, <3>5 DEF SliceLabels
    <3>6. CASE i \notin Concrete(verdicts)
      BY <3>1, <3>3, <3>4, <3>6
    <3> QED
      BY <3>5, <3>6
  <2>4. DOMAIN listed' = DOMAIN listed
    BY <2>2, RelabeledType DEF IntakeTypeOK
  <2> QED
    BY <2>1, <2>2, <2>3, <2>4 DEF ShownOrPending
<1>9. ASSUME Sync PROVE Rest'
  <2>1. SyncOnly' /\ CandidatesOnly'
    BY <1>9 DEF Sync, SyncOnly, CandidatesOnly
  <2>2. PICK c \in todo :
          /\ issues' = [issues EXCEPT ![c.issue].labels =
                          IF c.intent = "add" THEN @ \cup {c.label} ELSE @ \ {c.label}]
          /\ todo' = todo \ {c}
    BY <1>9 DEF Sync
  <2>3. UNCHANGED <<listed, changed>> /\ c.issue \in Numbers /\ c.intent \in {"add", "remove"}
    BY <1>9 DEF Sync, IntakeTypeOK, Changes
  <2>4. ASSUME NEW i \in DOMAIN listed, i \notin changed, NEW l \in Modes \cup {Hitl}
        PROVE  /\ Pending(i, l, "add")' => l \in listed[i].labels
               /\ Pending(i, l, "remove")' => l \notin listed[i].labels
               /\ ~Pending(i, l, "add")' /\ ~Pending(i, l, "remove")'
                    => (l \in issues'[i].labels <=> l \in listed[i].labels)
    <3>1. \A intent : Pending(i, l, intent)' => Pending(i, l, intent)
      BY <2>2 DEF Pending
    <3>2. i \in Numbers
      BY DEF IntakeTypeOK
    <3>3. CASE c.issue = i /\ c.label = l
      <4>1. CASE c.intent = "add"
        <5>1. l \in issues'[i].labels /\ Pending(i, l, "add")
          BY <2>2, <3>2, <3>3, <4>1 DEF Pending, IntakeTypeOK, GithubIssues
        <5> QED
          BY <2>4, <3>1, <5>1 DEF ShownOrPending
      <4>2. CASE c.intent = "remove"
        <5>1. l \notin issues'[i].labels /\ Pending(i, l, "remove")
          BY <2>2, <3>2, <3>3, <4>2 DEF Pending, IntakeTypeOK, GithubIssues
        <5> QED
          BY <2>4, <3>1, <5>1 DEF ShownOrPending
      <4> QED
        BY <2>3, <4>1, <4>2
    <3>4. CASE ~(c.issue = i /\ c.label = l)
      <4>1. l \in issues'[i].labels <=> l \in issues[i].labels
        BY <2>2, <2>3, <3>2, <3>4 DEF IntakeTypeOK, GithubIssues
      <4>2. \A intent : Pending(i, l, intent)' <=> Pending(i, l, intent)
        BY <2>2, <3>4 DEF Pending
      <4> QED
        BY <2>4, <4>1, <4>2 DEF ShownOrPending
    <3> QED
      BY <3>3, <3>4
  <2> QED
    BY <2>1, <2>3, <2>4 DEF ShownOrPending
<1>10. ASSUME NoPlanner PROVE Rest'
  <2>1. PICK kept : kept \subseteq Candidates(listed) /\ Planned(kept)
    BY <1>10 DEF NoPlanner, Resolve
  <2>2. CASE kept = {}
    BY <2>1, <2>2, <1>0 DEF Planned
  <2>3. CASE kept # {}
    BY <1>10, <2>1, <2>3 DEF NoPlanner, Planned, SyncOnly, CandidatesOnly,
           ShownOrPending, Pending
  <2> QED
    BY <2>2, <2>3
<1>11. ASSUME AskPlanner PROVE Rest'
  BY <1>11 DEF AskPlanner, ShownOrPending, SyncOnly, CandidatesOnly, Pending, pass
<1>12. ASSUME Plan PROVE Rest'
  <2>1. PICK kept : kept \subseteq Candidates(listed) /\ Planned(kept)
    BY <1>12 DEF Plan, Resolve
  <2>2. CASE kept = {}
    BY <2>1, <2>2, <1>0 DEF Planned
  <2>3. CASE kept # {}
    BY <1>12, <2>1, <2>3 DEF Plan, Planned, SyncOnly, CandidatesOnly,
           ShownOrPending, Pending
  <2> QED
    BY <2>2, <2>3
<1>13. ASSUME StartWork PROVE Rest'
  BY <1>13 DEF StartWork, ShownOrPending, SyncOnly, CandidatesOnly, Pending, pass
<1>14. ASSUME StartFails PROVE Rest'
  BY <1>14, <1>0 DEF StartFails
<1>15. ASSUME Deliver PROVE Rest'
  <2>1. PICK i \in started : /\ issues' = [issues EXCEPT ![i].open = FALSE]
                             /\ started' = started \ {i}
    BY <1>15 DEF Deliver
  <2>2. UNCHANGED <<listed, changed, todo, at, resumed>>
    BY <1>15 DEF Deliver
  <2>3. \A j \in Numbers : issues'[j].labels = issues[j].labels
    BY <2>1 DEF IntakeTypeOK, GithubIssues
  <2>4. ShownOrPending'
    BY <2>2, <2>3 DEF ShownOrPending, Pending, IntakeTypeOK
  <2> QED
    BY <2>1, <2>2, <2>4 DEF SyncOnly, CandidatesOnly
<1>16. ASSUME FailIssue PROVE Rest'
  BY <1>16 DEF FailIssue, ShownOrPending, SyncOnly, CandidatesOnly, Pending, pass
<1>17. ASSUME Continue PROVE Rest'
  BY <1>17, <1>0 DEF Continue
<1>18. ASSUME Kill PROVE Rest'
  BY <1>18, <1>0 DEF Kill, CutShort
<1>19. ASSUME Edit PROVE Rest'
  <2>1. PICK i \in Numbers :
          /\ changed' = changed \cup {i}
          /\ \/ \E l \in Modes \cup {Hitl} :
                  issues' = [issues EXCEPT ![i].labels = SymDiff(@, {l})]
             \/ \E b \in Bodies : issues' = [issues EXCEPT ![i].body = b]
    BY <1>19 DEF Edit
  <2>2. UNCHANGED <<listed, todo, at, resumed, started>>
    BY <1>19 DEF Edit, pass
  <2>3. \A j \in Numbers \ {i} : issues'[j] = issues[j]
    BY <2>1 DEF IntakeTypeOK
  <2>4. ShownOrPending'
    BY <2>1, <2>2, <2>3 DEF ShownOrPending, Pending, IntakeTypeOK
  <2> QED
    BY <2>2, <2>4 DEF SyncOnly, CandidatesOnly
<1>20. ASSUME UNCHANGED intakeVars PROVE Rest'
  <2>1. UNCHANGED <<at, listed, todo, changed, issues, started, resumed>>
    BY <1>20 DEF intakeVars, pass
  <2>2. ShownOrPending'
    BY <2>1 DEF ShownOrPending, Pending
  <2> QED
    BY <2>1, <2>2 DEF SyncOnly, CandidatesOnly
<1> HIDE DEF Rest
<1>21. Rest'
  BY <1>1, <1>2, <1>3, <1>4, <1>5, <1>6, <1>7, <1>8, <1>9, <1>10, <1>11, <1>12,
     <1>13, <1>14, <1>15, <1>16, <1>17, <1>18, <1>19, <1>20 DEF IntakeNext
<1> QED
  BY <1>21 DEF Rest, Parts

-----------------------------------------------------------------------------
(* Theorems. *)

LEMMA PartsHold == IntakeSpec => []Parts
  BY InitIntakeInv, IntakeStep, PTL DEF IntakeSpec

\* Whatever people edit and whatever cuts passes short: an issue that a pass
\* starts anew, and nobody changed, shows at GitHub what it is started as.
THEOREM StartsShown == IntakeSpec => []StartsWhatIsShown
<1>1. Parts => StartsWhatIsShown
  BY PartsShow DEF Parts
<1> QED
  BY <1>1, PartsHold, PTL

\* The whole invariant of the run.
THEOREM IntakeInvHolds == IntakeSpec => []IntakeInv
<1>1. Parts /\ StartsWhatIsShown => IntakeInv
  BY DEF Parts, IntakeInv
<1> QED
  BY <1>1, PartsHold, StartsShown, PTL
=============================================================================
