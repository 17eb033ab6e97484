-------------------------- MODULE RemoteSyncProofs ---------------------------
(* Proofs about RemoteSync, for every number of attempts, commits and grabs. *)
EXTENDS RemoteSync, WellFoundedInduction, TLAPS

-----------------------------------------------------------------------------
(* Commits and tips. *)

\* The least of a set of numbers.
LEMMA LeastExists ==
  ASSUME NEW S \in SUBSET Nat, S # {}
  PROVE  \E m \in S : \A n \in S : m <= n
<1>1. PICK m \in S : \A n \in S : ~(<<n, m>> \in OpToRel(<, Nat))
  BY NatLessThanWellFounded, WFMin
<1>2. \A n \in S : ~(n < m)
  BY <1>1 DEF OpToRel
<1> QED BY <1>2

\* A ref that is not empty has a newest commit, its tip: the least of the numbers
\* that no commit of it exceeds.
LEMMA TipIn ==
  ASSUME NEW n \in Nat, NEW ref \in SUBSET (0..n), ref # {}
  PROVE  Tip(ref) \in ref
<1> DEFINE Bounds == {b \in Nat : \A d \in ref : d <= b}
<1>1. n \in Bounds
  OBVIOUS
<1>2. PICK b \in Bounds : \A c \in Bounds : b <= c
  BY <1>1, LeastExists
<1>3. b \in ref
  <2>1. SUFFICES ASSUME b \notin ref PROVE FALSE
    OBVIOUS
  <2>2. \A d \in ref : d <= b - 1 /\ b - 1 \in Nat
    BY <2>1
  <2>3. b - 1 \in Bounds
    BY <2>2
  <2> QED BY <1>2, <2>3
<1>4. \E c \in ref : \A d \in ref : d <= c
  BY <1>3
<1> QED BY <1>4 DEF Tip

\* A step commits or not, and no ref but the sandbox and the fetched one loses
\* a commit.
Grows ==
  /\ (Commit \/ UNCHANGED <<made, breaks>>)
  /\ origin \subseteq origin' /\ local \subseteq local'

LEMMA StepGrows == TypeOK /\ [Next]_vars => Grows
<1> SUFFICES ASSUME TypeOK, [Next]_vars PROVE Grows
  OBVIOUS
<1> USE DEF Grows, TypeOK, refs, world
<1>1. CASE Start \/ Gate \/ Fetch \/ Relate
  BY <1>1 DEF Start, Gate, Fetch, Relate
<1>2. CASE FastForward \/ Resolve \/ AdvanceResolved
  BY <1>2 DEF FastForward, Resolve, AdvanceResolved, CanAdvance
<1>3. CASE ReadSha \/ RunChecks \/ Report \/ ReportFails \/ Refuse \/ Work
  BY <1>3 DEF ReadSha, RunChecks, Report, ReportFails, Give, Refuse, Work
<1>4. CASE Merge \/ AdvanceMerged \/ Conflicts \/ Recover \/ AdvanceRecovered \/ Settle
  BY <1>4 DEF Merge, AdvanceMerged, Conflicts, Recover, AdvanceRecovered, Settle, CanAdvance
<1>5. CASE Push \/ PushRejected \/ PushFails
  BY <1>5 DEF Push, PushRejected, PushFails, Rejected
<1>6. CASE PullBranch \/ PullOther \/ RemoteFails \/ Fails \/ Crash
  BY <1>6 DEF PullBranch, PullOther, CallResolver, RemoteFails, Fails, Crash
<1>7. CASE Environment
  BY <1>7 DEF Environment, OthersPush, Grab, OperatorCommits, Release
<1>8. CASE UNCHANGED vars
  BY <1>8 DEF vars
<1> QED BY <1>1, <1>2, <1>3, <1>4, <1>5, <1>6, <1>7, <1>8 DEF Next, Step

-----------------------------------------------------------------------------
(* Types. *)

LEMMA RefFacts ==
  ASSUME TypeOK, Grows
  PROVE  /\ made' \in Nat /\ Refs \subseteq Refs' /\ Verdicts \subseteq Verdicts'
         /\ {} \in Refs' /\ (\A a, b \in Refs' : a \cup b \in Refs')
         /\ NoVerdict \in Verdicts' /\ breaks' \in Refs'
         /\ Commit => {made + 1} \in Refs'
<1>1. /\ made' \in Nat /\ made <= made' /\ (Commit => made + 1 \in 0..made')
      /\ breaks' \subseteq breaks \cup (0..made')
  BY DEF TypeOK, Grows, Commit
<1>2. Refs' = SUBSET (0..made') /\ Refs = SUBSET (0..made) /\ breaks \in Refs
  BY DEF Refs, TypeOK
<1>3. Refs \subseteq Refs'
  BY <1>1, <1>2, made \in Nat DEF TypeOK
<1>4. Verdicts \subseteq Verdicts' /\ NoVerdict \in Verdicts'
  BY <1>2, <1>3 DEF Verdicts, NoVerdict
<1> QED BY <1>1, <1>2, <1>3, <1>4 DEF TypeOK

\* What End sets has its type.
LEMMA EndType ==
  ASSUME TypeOK, Grows, NEW r \in Results, End(r)
  PROVE  /\ pc' \in Steps /\ asker' \in {"plan", "merge", "push"} /\ sandbox' \in Refs'
         /\ attempt' \in 0..MaxAttempts /\ tries' \in 0..MaxAttempts
         /\ verdict' \in Verdicts' /\ given' \in Verdicts'
         /\ filed' \subseteq Refs' /\ twice' \subseteq Refs' /\ lost' \subseteq Refs'
         /\ clean' \in BOOLEAN /\ left' \in 0..MaxConflicts
         /\ had' \in Refs' /\ result' \in Results
<1>1. Refs \subseteq Refs' /\ Verdicts \subseteq Verdicts' /\ {} \in Refs' /\ NoVerdict \in Verdicts'
  BY RefFacts
<1>2. /\ verdict' \in Verdicts' /\ filed' \subseteq Refs' /\ twice' \subseteq Refs'
      /\ lost' \subseteq Refs'
  BY <1>1 DEF TypeOK, End, process
<1>3. /\ pc' = "idle" /\ result' = r /\ asker' = "plan" /\ attempt' = 0 /\ tries' = 0
      /\ sandbox' = {} /\ given' = NoVerdict /\ clean' = FALSE /\ left' = 0 /\ had' = {}
  BY DEF End, Leave
<1>4. 0 \in 0..MaxAttempts /\ 0 \in 0..MaxConflicts
  BY AttemptsAssumption, BoundsAssumption
<1> QED BY <1>1, <1>2, <1>3, <1>4 DEF Steps

LEMMA TypeStep == TypeOK /\ AskersFit /\ CacheFits /\ [Next]_vars => TypeOK'
<1> SUFFICES ASSUME TypeOK, AskersFit, CacheFits, [Next]_vars PROVE TypeOK'
  OBVIOUS
<1>0. Grows
  BY StepGrows
<1>f. /\ made' \in Nat /\ Refs \subseteq Refs' /\ Verdicts \subseteq Verdicts'
      /\ {} \in Refs' /\ (\A a, b \in Refs' : a \cup b \in Refs')
      /\ NoVerdict \in Verdicts' /\ breaks' \in Refs'
      /\ Commit => {made + 1} \in Refs'
  BY <1>0, RefFacts
<1> USE <1>0, <1>f, AttemptsAssumption, BoundsAssumption
        DEF TypeOK, refs, world, process, batch, Goto
<1>e. ASSUME NEW r \in Results, End(r), origin' \in Refs', local' \in Refs' \ {{}},
             tracking' \in Refs', closed' \in Refs', place' \in {"none", "root", "elsewhere"},
             grabs' \in 0..MaxGrabs, kept' \in [base : Refs', tip : Refs']
      PROVE  TypeOK'
  BY <1>e, EndType
<1>k. /\ kept \in [base : Refs', tip : Refs'] /\ NoSandbox \in [base : Refs', tip : Refs']
      /\ \A a, b \in Refs' : [base |-> a, tip |-> b] \in [base : Refs', tip : Refs']
  BY DEF NoSandbox
<1>1. CASE Start \/ Gate
  BY <1>1 DEF Start, Gate, Steps, Results
<1>2. CASE Fetch
  BY <1>2 DEF Fetch, Refreshed, Steps, AskersFit, Refreshing
<1>3. CASE Relate
  <2>1. CASE ~Diverged
    <3>1. /\ UNCHANGED <<refs, world, sandbox, kept, process, given, batch, had, result>>
          /\ asker' = asker /\ tries' \in {0, tries} /\ pc' \in {"push", "sha", "forward"}
          /\ attempt' = attempt \/ (asker = "push" /\ attempt' = attempt + 1)
      BY <1>3, <2>1 DEF Relate, Refreshed
    <3>2. attempt' \in 0..MaxAttempts /\ tries' \in 0..MaxAttempts /\ pc' \in Steps
      BY <1>3, <3>1 DEF Relate, AskersFit, Refreshing, Steps
    <3> QED BY <3>1, <3>2, <1>k
  <2>2. CASE Diverged
    <3>1. /\ sandbox' \in Refs' /\ kept' \in [base : Refs', tip : Refs']
          /\ had' \in Refs' /\ pc' \in Steps
      BY <1>3, <2>2, <1>k DEF Relate, Diverged, Answered, Steps, Refs
    <3>2. UNCHANGED <<refs, world, asker, attempt, tries, process, given, batch, result>>
      BY <1>3, <2>2 DEF Relate, Diverged
    <3> QED BY <3>1, <3>2
  <2> QED BY <2>1, <2>2
<1>4. CASE FastForward
  BY <1>4, <1>e, <1>k DEF FastForward, Refreshed, CanAdvance, Steps, AskersFit, Refreshing, Results, Fatal
<1>5. CASE Resolve
  <2>1. sandbox' \in Refs' /\ kept' \in [base : Refs', tip : Refs'] /\ pc' \in Steps
    BY <1>5 DEF Resolve, Steps
  <2> QED BY <1>5, <2>1 DEF Resolve
<1>6. CASE AdvanceResolved
  BY <1>6, <1>e, <1>k DEF AdvanceResolved, Refreshed, CanAdvance, Steps, AskersFit, Refreshing, Results, Fatal
<1>g. ASSUME NEW v \in Verdicts', Give(v), sandbox' \in Refs', verdict' \in Verdicts',
             filed' \subseteq Refs', twice' \subseteq Refs', lost' \subseteq Refs', made' = made
      PROVE  TypeOK'
  BY <1>g DEF Give, AutoPush, Steps
<1>7. CASE ReadSha
  <2>1. CASE verdict.sha = local
    <3>1. Give(verdict) /\ UNCHANGED <<sandbox, verdict, filed, twice, lost>>
      BY <1>7, <2>1 DEF ReadSha
    <3>2. made' = made
      BY <3>1 DEF Give
    <3> QED BY <3>1, <3>2, <1>g
  <2>2. CASE verdict.sha # local
    BY <1>7, <2>2 DEF ReadSha, Steps
  <2> QED BY <2>1, <2>2
<1>8. CASE RunChecks
  <2>1. [sha |-> sandbox, kind |-> "ready"] \in Verdicts'
    BY DEF Verdicts
  <2>2. CASE Passes(sandbox)
    BY <1>8, <1>g, <2>1, <2>2 DEF RunChecks, Give
  <2>3. CASE ~Passes(sandbox)
    BY <1>8, <2>3 DEF RunChecks, Steps
  <2> QED BY <2>2, <2>3
<1>8a. ASSUME FileIssue PROVE filed' \subseteq Refs' /\ twice' \subseteq Refs'
  BY <1>8a DEF FileIssue
<1>8b. CASE Report
  <2>1. PICK kind \in {"hitl", "afk"} :
          /\ Give([sha |-> sandbox, kind |-> kind])
          /\ verdict' = [sha |-> sandbox, kind |-> kind]
          /\ sandbox' = {} /\ lost' = lost
    BY <1>8b DEF Report
  <2>2. [sha |-> sandbox, kind |-> kind] \in Verdicts'
    BY DEF Verdicts
  <2>3. filed' \subseteq Refs' /\ twice' \subseteq Refs'
    BY <1>8a, <1>8b DEF Report
  <2> QED BY <2>1, <2>2, <2>3, <1>g DEF Give
<1>8c. CASE ReportFails
  <2>1. UNCHANGED <<refs, world, kept, closed>> /\ "unreported" \in Results
    BY <1>8c DEF ReportFails, Results
  <2>2. CASE End("unreported")
    BY <2>1, <2>2, <1>e
  <2>3. CASE FileIssue /\ lost' = lost \cup {sandbox} /\ UNCHANGED verdict /\ Leave("unreported")
    <3>1. filed' \subseteq Refs' /\ twice' \subseteq Refs' /\ lost' \subseteq Refs'
      BY <1>8a, <2>3
    <3>2. 0 \in 0..MaxConflicts /\ 0 \in 0..MaxAttempts
      OBVIOUS
    <3> QED BY <2>1, <2>3, <3>1, <3>2 DEF Leave, Steps
  <2> QED BY <1>8c, <2>2, <2>3 DEF ReportFails
<1>9. CASE Refuse \/ Work
  BY <1>9, <1>e, <1>k DEF Refuse, Work, Steps, Results, Fatal
<1>10. CASE Merge
  BY <1>10 DEF Merge, Batches, Steps
<1>11. CASE AdvanceMerged
  <2>1. CASE CanAdvance(sandbox)
    <3>1. Tip(sandbox) \in sandbox
      BY <2>1, TipIn DEF CanAdvance, Refs
    <3>2. {Tip(sandbox)} \in Refs
      BY <3>1, ZenonT(60) DEF Refs
    <3>3. closed \cup {Tip(sandbox)} \in Refs'
      BY <3>2
    <3> QED BY <1>11, <2>1, <3>3, <1>e, <1>k DEF AdvanceMerged, CanAdvance, Steps, Results, Fatal
  <2>2. CASE ~CanAdvance(sandbox)
    BY <1>11, <2>2, <1>e, <1>k DEF AdvanceMerged, Results, Fatal
  <2> QED BY <2>1, <2>2
<1>12. CASE Conflicts
  BY <1>12 DEF Conflicts, AutoPush, Steps
<1>13. CASE Recover
  BY <1>13 DEF Recover, Steps
<1>14. CASE AdvanceRecovered
  <2>1. CASE CanAdvance(sandbox)
    <3>1. Tip(sandbox) \in sandbox
      BY <2>1, TipIn DEF CanAdvance, Refs
    <3>2. {Tip(sandbox)} \in Refs
      BY <3>1, ZenonT(60) DEF Refs
    <3>3. closed \cup {Tip(sandbox)} \in Refs'
      BY <3>2
    <3>4. left' \in 0..MaxConflicts
      BY <1>14 DEF AdvanceRecovered, AskersFit
    <3> QED BY <1>14, <2>1, <3>3, <3>4 DEF AdvanceRecovered, AutoPush, CanAdvance, Steps
  <2>2. CASE ~CanAdvance(sandbox)
    BY <1>14, <2>2 DEF AdvanceRecovered, Steps
  <2> QED BY <2>1, <2>2
<1>h. ASSUME NEW r \in Results, Finish(r), origin' \in Refs', local' \in Refs' \ {{}},
             tracking' \in Refs', closed' \in Refs', place' \in {"none", "root", "elsewhere"},
             grabs' \in 0..MaxGrabs, kept' \in [base : Refs', tip : Refs']
      PROVE  TypeOK'
  <2>1. CASE End(r)
    BY <1>h, <1>e, <2>1
  <2>2. CASE ~End(r)
    <3>1. /\ pc' = "work" /\ asker' = "plan" /\ attempt' = 0 /\ tries' = 0 /\ sandbox' = {}
          /\ clean' = FALSE /\ left' = 0
          /\ UNCHANGED <<verdict, filed, twice, lost, given, had, result>>
      BY <1>h, <2>2 DEF Finish
    <3>2. 0 \in 0..MaxAttempts /\ 0 \in 0..MaxConflicts /\ "work" \in Steps
      BY DEF Steps
    <3> QED BY <1>h, <3>1, <3>2
  <2> QED BY <2>1, <2>2
<1>15. CASE Settle
  BY <1>15, <1>h, <1>k DEF Settle, Results
<1>16. CASE Push
  BY <1>16, <1>h, <1>k DEF Push, Rejected, Results
<1>17. CASE PushRejected
  BY <1>17, <1>e, <1>k DEF PushRejected, Steps, Results, Fatal
<1>18. CASE PushFails
  BY <1>18, <1>e, <1>k DEF PushFails, Results, Fatal
<1>19. CASE PullBranch
  <2>0. \/ local' = origin /\ local \subseteq origin
        \/ local' = local \cup origin \cup {made + 1} /\ Commit
        \/ local' = local
    BY <1>19 DEF PullBranch, CallResolver
  <2>7. local' # {}
    BY <2>0
  <2>8. local' \in Refs'
    <3>1. CASE local' = local \cup origin \cup {made + 1} /\ Commit
      <4>1. local \cup origin \in Refs' /\ {made + 1} \in Refs'
        BY <3>1
      <4> QED BY <3>1, <4>1
    <3> QED BY <2>0, <3>1
  <2>1. local' \in Refs' \ {{}} /\ tracking' \in Refs' /\ origin' \in Refs' /\ sandbox' \in Refs'
    BY <1>19, <2>7, <2>8 DEF PullBranch, PushAgain, CallResolver
  <2>2. PushAgain \/ CallResolver
    BY <1>19 DEF PullBranch
  <2>3. attempt + 1 \in 0..MaxAttempts
    BY <1>19 DEF PullBranch, AskersFit
  <2>4. UNCHANGED <<place, grabs, kept>>
    BY <1>19 DEF PullBranch
  <2>5. CASE PushAgain
    BY <2>1, <2>3, <2>4, <2>5 DEF PushAgain, Steps
  <2>6. CASE CallResolver
    BY <2>1, <2>4, <2>6 DEF CallResolver, Steps
  <2> QED BY <2>2, <2>5, <2>6
<1>20. CASE PullOther
  BY <1>20 DEF PullOther, PushAgain, CallResolver, Steps, AskersFit
<1>21. CASE RemoteFails
  BY <1>21, <1>e, <1>k DEF RemoteFails, Results, Fatal
<1>22. CASE Fails \/ Crash
  BY <1>22, <1>e, <1>k DEF Fails, Crash, Results, Fatal
<1>23. CASE Environment
  BY <1>23 DEF Environment, OthersPush, Grab, OperatorCommits, Release, program
<1>24. CASE UNCHANGED vars
  BY <1>24 DEF vars
<1> QED
  BY <1>1, <1>2, <1>3, <1>4, <1>5, <1>6, <1>7, <1>8, <1>8b, <1>8c, <1>9, <1>10, <1>11, <1>12,
     <1>13, <1>14, <1>15, <1>16, <1>17, <1>18, <1>19, <1>20, <1>21, <1>22, <1>23, <1>24
     DEF Next, Step

-----------------------------------------------------------------------------
(* Who asks. *)

LEMMA AskersStep == TypeOK /\ AskersFit /\ [Next]_vars => AskersFit'
<1> SUFFICES ASSUME TypeOK, AskersFit, [Next]_vars PROVE AskersFit'
  OBVIOUS
<1> USE AttemptsAssumption DEF TypeOK, AskersFit, Refreshing, Asking, batch, Goto
<1>1. CASE Start \/ Gate \/ Fetch \/ Relate
  BY <1>1 DEF Start, Gate, Fetch, Relate, Diverged, Refreshed
<1>2. CASE FastForward \/ AdvanceResolved
  BY <1>2 DEF FastForward, AdvanceResolved, Refreshed, End, Leave
<1>3. CASE Resolve \/ Merge \/ Conflicts \/ Recover
  BY <1>3 DEF Resolve, Merge, Batches, Conflicts, AutoPush, Recover
<1>4. CASE ReadSha \/ RunChecks \/ Report
  BY <1>4 DEF ReadSha, RunChecks, Report, Give, AutoPush
<1>5. CASE ReportFails \/ Refuse \/ Work \/ AdvanceMerged \/ Fails \/ Crash
  BY <1>5 DEF ReportFails, Refuse, Work, AdvanceMerged, Fails, Crash, End, Leave
<1>6. CASE AdvanceRecovered
  BY <1>6 DEF AdvanceRecovered, AutoPush
<1>7. CASE Settle \/ Push
  BY <1>7 DEF Settle, Push, Finish, End, Leave
<1>8. CASE PushRejected \/ PushFails \/ RemoteFails
  BY <1>8 DEF PushRejected, PushFails, RemoteFails, End, Leave
<1>9. CASE PullBranch \/ PullOther
  BY <1>9 DEF PullBranch, PullOther, PushAgain, CallResolver
<1>10. CASE Environment
  BY <1>10 DEF Environment, OthersPush, Grab, OperatorCommits, Release, program
<1>11. CASE UNCHANGED vars
  BY <1>11 DEF vars
<1> QED
  BY <1>1, <1>2, <1>3, <1>4, <1>5, <1>6, <1>7, <1>8, <1>9, <1>10, <1>11 DEF Next, Step

-----------------------------------------------------------------------------
(* Verdicts. *)

\* What Known says of a verdict after a step.
StaysKnown(v) ==
  /\ v.sha # {} /\ v.sha \subseteq local'
  /\ v.kind # "none" /\ (Tip(v.sha) \notin breaks' <=> v.kind = "ready")

\* New commits do not change what the checks say of an old one.
LEMMA KnownStays ==
  ASSUME TypeOK, Grows, NEW v \in Verdicts, Known(v)
  PROVE  StaysKnown(v)
<1>1. Tip(v.sha) \in v.sha /\ v.sha \subseteq 0..made /\ made \in Nat
  BY TipIn DEF Known, Verdicts, Refs, TypeOK
<1>2. Tip(v.sha) \in breaks' <=> Tip(v.sha) \in breaks
  BY <1>1 DEF Grows, Commit
<1> QED BY <1>2 DEF Known, StaysKnown, Passes, Grows

\* Both verdicts, that of the cache and the one given, stay what they were, are
\* forgotten, or are the one of the checks.
VerdictStep ==
  /\ verdict' \in {verdict, NoVerdict}
  /\ given' \in {given, NoVerdict} \/ (given' = verdict /\ verdict # NoVerdict)
  /\ \/ UNCHANGED <<filed, twice, lost, verdict>>
     \/ filed' = {} /\ twice' = {} /\ lost' = {}
     \/ FileIssue /\ lost' = lost \cup {sandbox} /\ UNCHANGED verdict
Judges == (RunChecks /\ Passes(sandbox)) \/ Report

LEMMA VerdictSteps == TypeOK /\ CacheFits /\ [Next]_vars => VerdictStep \/ Judges
<1> SUFFICES ASSUME TypeOK, CacheFits, [Next]_vars PROVE VerdictStep \/ Judges
  OBVIOUS
<1> USE DEF VerdictStep, process
<1>1. ASSUME NEW r, End(r) PROVE VerdictStep
  BY <1>1 DEF End, Leave
<1>2. CASE UNCHANGED <<verdict, filed, twice, lost, given>>
  BY <1>2
<1>3. CASE Start \/ Gate \/ Fetch \/ Relate \/ Resolve
  BY <1>2, <1>3 DEF Start, Gate, Fetch, Relate, Refreshed, Resolve
<1>4. CASE FastForward \/ AdvanceResolved
  BY <1>1, <1>2, <1>4 DEF FastForward, AdvanceResolved, Refreshed
<1>5. CASE ReadSha
  <2>1. CASE verdict.sha = local
    <3>1. verdict # NoVerdict
      BY <2>1 DEF TypeOK, NoVerdict
    <3>2. Give(verdict) /\ UNCHANGED <<verdict, filed, twice, lost>>
      BY <1>5, <2>1 DEF ReadSha
    <3> QED BY <3>1, <3>2 DEF Give
  <2>2. CASE verdict.sha # local
    BY <1>2, <1>5, <2>2 DEF ReadSha
  <2> QED BY <2>1, <2>2
<1>5a. CASE RunChecks /\ ~Passes(sandbox)
  BY <1>2, <1>5a DEF RunChecks
<1>5b. CASE ReportFails
  BY <1>1, <1>5b DEF ReportFails, Leave
<1>6. CASE Merge \/ Conflicts \/ Recover \/ AdvanceRecovered
  BY <1>2, <1>6 DEF Merge, Conflicts, Recover, AdvanceRecovered
<1>7. CASE Refuse \/ Work \/ AdvanceMerged \/ Fails \/ Crash
  BY <1>1, <1>2, <1>7 DEF Refuse, Work, AdvanceMerged, Fails, Crash
<1>8. CASE Settle \/ Push
  BY <1>1, <1>2, <1>8 DEF Settle, Push, Finish
<1>9. CASE PushRejected \/ PushFails \/ RemoteFails
  BY <1>1, <1>2, <1>9 DEF PushRejected, PushFails, RemoteFails
<1>10. CASE PullBranch \/ PullOther
  BY <1>2, <1>10 DEF PullBranch, PullOther, PushAgain, CallResolver
<1>11. CASE Environment \/ UNCHANGED vars
  BY <1>2, <1>11 DEF Environment, OthersPush, Grab, OperatorCommits, Release, program, vars
<1> QED
  BY <1>3, <1>4, <1>5, <1>5a, <1>5b, <1>6, <1>7, <1>8, <1>9, <1>10, <1>11
     DEF Next, Step, Judges

\* The verdict that the checks give.
LEMMA ChecksStep ==
  ASSUME TypeOK, CacheFits, Judges
  PROVE  /\ verdict' = given' /\ given' # NoVerdict /\ given'.sha = sandbox
         /\ StaysKnown(given') /\ UNCHANGED <<local, breaks, lost>>
         /\ UNCHANGED <<filed, twice>> \/ FileIssue
         /\ pc \in {"checks", "report"} /\ pc' \notin {"checks", "report"}
<1>1. PICK kind \in {"ready", "hitl", "afk"} :
        /\ Give([sha |-> sandbox, kind |-> kind])
        /\ verdict' = [sha |-> sandbox, kind |-> kind]
        /\ kind = "ready" <=> Passes(sandbox)
  BY DEF Judges, RunChecks, Report, CacheFits
<1>2. pc \in {"checks", "report"} /\ sandbox # {} /\ sandbox \subseteq local
  BY DEF CacheFits, Judges, RunChecks, Report
<1>3. UNCHANGED lost /\ (UNCHANGED <<filed, twice>> \/ FileIssue)
  BY DEF Judges, RunChecks, Report, process
<1>4. given' = [sha |-> sandbox, kind |-> kind] /\ UNCHANGED <<local, breaks>>
  BY <1>1 DEF Give, refs, world
<1>5. given'.sha = sandbox /\ given'.kind = kind /\ given' # NoVerdict
  BY <1>2, <1>4 DEF NoVerdict
<1>6. pc' \notin {"checks", "report"}
  BY <1>1 DEF Give, AutoPush, Goto
<1> QED BY <1>1, <1>2, <1>3, <1>4, <1>5, <1>6 DEF StaysKnown, Passes

LEMMA CacheStep == TypeOK /\ CacheFits /\ [Next]_vars => CacheFits'
<1> SUFFICES ASSUME TypeOK, CacheFits, [Next]_vars PROVE CacheFits'
  OBVIOUS
<1>0. Grows /\ (VerdictStep \/ Judges)
  BY StepGrows, VerdictSteps
<1>1. verdict' # NoVerdict => Known(verdict)'
  <2>1. CASE VerdictStep
    BY <1>0, <2>1, KnownStays DEF VerdictStep, CacheFits, TypeOK, Known, StaysKnown, Passes
  <2>2. CASE Judges
    BY <2>2, ChecksStep DEF Known, StaysKnown, Passes
  <2> QED BY <1>0, <2>1, <2>2
<1>2. \A sha \in filed' \ lost' : sha \subseteq verdict'.sha
  <2>1. CASE VerdictStep
    BY <2>1 DEF VerdictStep, CacheFits, FileIssue
  <2>2. CASE Judges
    BY <2>2, ChecksStep DEF CacheFits, FileIssue
  <2> QED BY <1>0, <2>1, <2>2
<1>3. pc' \in {"checks", "report"} =>
        /\ verdict'.sha \subseteq sandbox' /\ verdict'.sha # sandbox'
        /\ sandbox' # {} /\ sandbox' \subseteq local'
        /\ (pc' = "report" => Tip(sandbox') \in breaks')
  <2>1. CASE ReadSha
    <3>1. CASE verdict.sha = local
      BY <2>1, <3>1 DEF ReadSha, Give, AutoPush, Goto
    <3>2. CASE verdict.sha # local
      <4>1. verdict.sha \subseteq local
        BY DEF CacheFits, Known, NoVerdict
      <4>2. /\ sandbox' = local /\ UNCHANGED <<verdict, local>> /\ pc' = "checks"
        BY <2>1, <3>2 DEF ReadSha, Goto, process, refs
      <4> QED BY <3>2, <4>1, <4>2 DEF TypeOK
    <3> QED BY <3>1, <3>2
  <2>2. CASE pc' \notin {"checks", "report"}
    BY <2>2
  <2>3. CASE /\ pc \in {"checks", "report"} /\ UNCHANGED <<sandbox, verdict>>
             /\ pc' = "report" => pc = "report" \/ ~Passes(sandbox)
    <3>1. breaks \subseteq breaks'
      BY <1>0 DEF Grows, Commit
    <3> QED BY <1>0, <2>3, <3>1 DEF CacheFits, Grows, Passes
  <2>4. CASE UNCHANGED vars \/ Environment
    BY <2>3, <2>2, <2>4 DEF vars, Environment, OthersPush, Grab, OperatorCommits, Release,
       program, process
  <2>5. CASE RunChecks
    BY <2>2, <2>3, <2>5 DEF RunChecks, Give, AutoPush, Goto, process
  <2> QED
    BY <2>1, <2>2, <2>4, <2>5
       DEF Next, Step, Start, Gate, Fetch, Relate, FastForward, Resolve, AdvanceResolved,
           Refreshed, Report, ReportFails, Give, AutoPush, Refuse, Work, Merge,
           AdvanceMerged, Conflicts, Recover, AdvanceRecovered, Settle, Push, PushRejected,
           PushFails, PullBranch, PullOther, PushAgain, CallResolver, RemoteFails, Fails,
           Crash, Finish, End, Leave, Goto
<1> QED BY <1>1, <1>2, <1>3 DEF CacheFits, Passes

\* The cache keeps one failing commit from being reported twice: what is reported
\* has no issue yet, or one that nobody answered for.
LEMMA CountStep == TypeOK /\ CacheFits /\ OneIssuePerCommit /\ [Next]_vars => OneIssuePerCommit'
<1> SUFFICES ASSUME TypeOK, CacheFits, OneIssuePerCommit, [Next]_vars
             PROVE  OneIssuePerCommit'
  OBVIOUS
<1>1. CASE VerdictStep
  BY <1>1 DEF VerdictStep, FileIssue, OneIssuePerCommit
<1>2. CASE Judges
  <2>1. sandbox \in filed => sandbox \in lost
    BY <1>2 DEF CacheFits, Judges, RunChecks, Report
  <2> QED BY <1>2, <2>1, ChecksStep DEF FileIssue, OneIssuePerCommit
<1> QED BY <1>1, <1>2, VerdictSteps

-----------------------------------------------------------------------------
(* What origin had. *)

LEMMA TrackingStep == TypeOK /\ tracking \subseteq origin /\ [Next]_vars => tracking' \subseteq origin'
<1> SUFFICES ASSUME TypeOK, tracking \subseteq origin, [Next]_vars
             PROVE  tracking' \subseteq origin'
  OBVIOUS
<1>1. tracking' \in {tracking, origin} \/ tracking' = origin'
  BY DEF Next, Step, vars, refs, Start, Gate, Fetch, Relate, FastForward, Resolve,
     AdvanceResolved, ReadSha, RunChecks, Report, ReportFails, Give, Refuse, Work,
     Merge, AdvanceMerged, Conflicts, Recover, AdvanceRecovered, Settle, Push, PushRejected, PushFails,
     PullBranch, PullOther, RemoteFails, Fails, Crash, Environment, OthersPush, Grab,
     OperatorCommits, Release, program
<1> QED BY <1>1, StepGrows DEF Grows

\* In what the refresh works with there is all that origin had.
HadGoesOn ==
  asker # "push" =>
    /\ pc \in {"gate", "wait", "fetch"} => had \subseteq origin
    /\ pc \in {"relate", "forward", "resolve"} => had \subseteq tracking
    /\ pc \in {"resolved", "checks", "report"} => had \subseteq sandbox
    /\ pc = "sha" => had \subseteq local
HadGiven ==
  asker = "push" \/ pc \notin Refreshing \cup {"idle", "gate", "sha", "checks", "report"} =>
    given # NoVerdict /\ had \subseteq given.sha

LEMMA HadStep == Inv /\ [Next]_vars => HadFits'
<1> SUFFICES ASSUME Inv, [Next]_vars PROVE HadFits'
  OBVIOUS
<1>0. /\ TypeOK /\ AskersFit /\ CacheFits /\ HadGoesOn /\ HadGiven
      /\ tracking \subseteq origin /\ (given # NoVerdict => Known(given))
      /\ Grows /\ (VerdictStep \/ Judges)
  BY StepGrows, VerdictSteps DEF Inv, HadFits, HadGoesOn, HadGiven
<1>1. given' # NoVerdict => Known(given)'
  <2>1. CASE VerdictStep
    BY <1>0, <2>1, KnownStays DEF VerdictStep, CacheFits, TypeOK, Known, StaysKnown, Passes
  <2>2. CASE Judges
    BY <1>0, <2>2, ChecksStep DEF Known, StaysKnown, Passes
  <2> QED BY <1>0, <2>1, <2>2
<1>2. HadGoesOn' /\ HadGiven'
  <2> USE <1>0 DEF TypeOK, AskersFit, Refreshing, HadGoesOn, HadGiven, Grows, Goto, refs
  <2>1. ASSUME NEW r, End(r) PROVE HadGoesOn' /\ HadGiven'
    BY <2>1 DEF End, Leave
  <2>2. CASE Start \/ Gate
    BY <2>2 DEF Start, Gate
  <2>3. CASE Fetch
    BY <2>3 DEF Fetch, Refreshed
  <2>4. CASE Relate
    BY <2>4 DEF Relate, Refreshed, Diverged, Answered
  <2>5. CASE FastForward
    BY <2>1, <2>5 DEF FastForward, Refreshed, CanAdvance
  <2>6. CASE Resolve
    BY <2>6 DEF Resolve
  <2>7. CASE AdvanceResolved
    BY <2>1, <2>7 DEF AdvanceResolved, Refreshed, CanAdvance
  <2>8. CASE ReadSha
    <3>1. CASE verdict.sha = local
      <4>1. verdict # NoVerdict
        BY <3>1 DEF NoVerdict
      <4>2. /\ given' = verdict /\ had' = had /\ asker' = asker
            /\ pc' \in {"refused", "work", "recover", "push", "settled"}
        BY <2>8, <3>1 DEF ReadSha, Give, AutoPush
      <4> QED BY <2>8, <3>1, <4>1, <4>2 DEF ReadSha
    <3>2. CASE verdict.sha # local
      BY <2>8, <3>2 DEF ReadSha
    <3> QED BY <3>1, <3>2
  <2>9. CASE Judges
    <3>1. /\ had' = had /\ asker' = asker
          /\ pc' \in {"refused", "work", "recover", "push", "settled"}
      BY <2>9 DEF Judges, RunChecks, Report, Give, AutoPush
    <3>2. asker # "push" /\ had \subseteq sandbox
      BY <2>9 DEF Judges, RunChecks, Report
    <3> QED BY <3>1, <3>2, <2>9, ChecksStep
  <2>9a. CASE RunChecks /\ ~Passes(sandbox)
    BY <2>9a DEF RunChecks
  <2>9b. CASE ReportFails
    BY <2>1, <2>9b DEF ReportFails, Leave
  <2>10. CASE Refuse \/ Work \/ AdvanceMerged \/ Fails \/ Crash
    BY <2>1, <2>10 DEF Refuse, Work, AdvanceMerged, Fails, Crash
  <2>11. CASE Merge \/ Conflicts \/ Recover \/ AdvanceRecovered
    BY <2>11 DEF Merge, Conflicts, AutoPush, Recover, AdvanceRecovered
  <2>12. CASE Settle \/ Push
    BY <2>1, <2>12 DEF Settle, Push, Finish
  <2>13. CASE PushRejected \/ PushFails \/ RemoteFails
    BY <2>1, <2>13 DEF PushRejected, PushFails, RemoteFails
  <2>14. CASE PullBranch \/ PullOther
    BY <2>14 DEF PullBranch, PullOther, PushAgain, CallResolver
  <2>15. CASE Environment
    BY <2>15 DEF Environment, OthersPush, Grab, OperatorCommits, Release, program
  <2>16. CASE UNCHANGED vars
    BY <2>16 DEF vars
  <2> QED
    BY <2>2, <2>3, <2>4, <2>5, <2>6, <2>7, <2>8, <2>9, <2>9a, <2>9b, <2>10, <2>11, <2>12,
       <2>13, <2>14, <2>15, <2>16 DEF Next, Step, Judges
<1>3. tracking' \subseteq origin'
  BY <1>0, TrackingStep
<1> QED BY <1>1, <1>2, <1>3 DEF HadFits, HadGoesOn, HadGiven

-----------------------------------------------------------------------------
(* Closed issues. *)

LEMMA ClosedStep == TypeOK /\ ClosedFits /\ [Next]_vars => ClosedFits'
<1> SUFFICES ASSUME TypeOK, ClosedFits, [Next]_vars PROVE ClosedFits'
  OBVIOUS
<1>0. Grows
  BY StepGrows
<1> USE <1>0 DEF TypeOK, ClosedFits, Grows, Goto, refs, batch
<1>1. ASSUME NEW r, Leave(r), closed' = closed PROVE ClosedFits'
  BY <1>1 DEF Leave
<1>2. CASE Start \/ Gate \/ Fetch \/ Relate \/ Resolve
  BY <1>2 DEF Start, Gate, Fetch, Relate, Refreshed, Resolve
<1>3. CASE FastForward \/ AdvanceResolved
  BY <1>1, <1>3 DEF FastForward, AdvanceResolved, Refreshed, End
<1>4. CASE ReadSha \/ RunChecks \/ Report
  BY <1>4 DEF ReadSha, RunChecks, Report, Give, AutoPush
<1>4a. CASE ReportFails
  BY <1>1, <1>4a DEF ReportFails, End
<1>5. CASE Merge \/ Conflicts \/ Recover
  BY <1>5 DEF Merge, Conflicts, AutoPush, Recover
<1>6. CASE AdvanceMerged \/ AdvanceRecovered
  <2>1. CASE closed' = closed
    BY <1>1, <1>6, <2>1 DEF AdvanceMerged, AdvanceRecovered, AutoPush, End
  <2>2. CASE closed' # closed
    <3>1. /\ local' = sandbox /\ closed' = closed \cup {Tip(sandbox)} /\ sandbox # {}
          /\ pc' \notin {"merged", "recovered"}
      BY <1>6, <2>2 DEF AdvanceMerged, AdvanceRecovered, AutoPush
    <3>2. Tip(sandbox) \in sandbox
      BY <3>1, TipIn DEF Refs
    <3> QED BY <3>1, <3>2
  <2> QED BY <2>1, <2>2
<1>7. CASE Refuse \/ Work \/ Fails \/ Crash
  BY <1>1, <1>7 DEF Refuse, Work, Fails, Crash, End
<1>8. CASE Settle \/ Push
  BY <1>1, <1>8 DEF Settle, Push, Finish, End
<1>9. CASE PushRejected \/ PushFails \/ RemoteFails
  BY <1>1, <1>9 DEF PushRejected, PushFails, RemoteFails, End
<1>10. CASE PullBranch \/ PullOther
  BY <1>10 DEF PullBranch, PullOther, PushAgain, CallResolver
<1>11. CASE Environment \/ UNCHANGED vars
  BY <1>11 DEF Environment, OthersPush, Grab, OperatorCommits, Release, program, vars
<1> QED
  BY <1>2, <1>3, <1>4, <1>4a, <1>5, <1>6, <1>7, <1>8, <1>9, <1>10, <1>11 DEF Next, Step

\* A push that comes through takes along what was merged for closed issues, and
\* nothing is merged or closed between it and the next iteration.
LEMMA PushedStep ==
  TypeOK /\ AskersFit /\ ClosedFits /\ ClosedGoesOut /\ [Next]_vars => ClosedGoesOut'
<1> SUFFICES ASSUME TypeOK, AskersFit, ClosedFits, ClosedGoesOut, [Next]_vars, result' = "pushed"
             PROVE  closed' \subseteq origin'
  BY DEF ClosedGoesOut
<1>0. Grows
  BY StepGrows
<1>1. CASE Push
  BY <1>1 DEF Push, ClosedFits
<1>2. CASE result = "pushed" /\ closed' = closed
  BY <1>0, <1>2 DEF ClosedGoesOut, Grows
<1>3. CASE Environment \/ UNCHANGED vars
  BY <1>2, <1>3 DEF Environment, OthersPush, Grab, OperatorCommits, Release, program, vars,
     batch
<1>4. CASE Start
  BY <1>4 DEF Start
<1>5. CASE ((Step /\ ~Push) \/ Crash) /\ pc # "idle"
  <2>1. result = "none"
    BY <1>5 DEF AskersFit
  <2> QED
    BY <1>5, <2>1
       DEF Step, Gate, Fetch, Relate, FastForward, Resolve, AdvanceResolved, Refreshed,
           ReadSha, RunChecks, Report, ReportFails, Give, AutoPush, Refuse, Work, Merge,
           AdvanceMerged, Conflicts, Recover, AdvanceRecovered, Settle, PushRejected,
           PushFails, PullBranch, PullOther, PushAgain, CallResolver, RemoteFails, Fails,
           Crash, Finish, End, Leave
<1>6. Step \/ Crash => pc # "idle"
  BY DEF Step, Gate, Fetch, Relate, FastForward, Resolve, AdvanceResolved, ReadSha,
     RunChecks, Report, ReportFails, Refuse, Work, Merge, AdvanceMerged, Conflicts,
     Recover, AdvanceRecovered, Settle, Push, PushRejected, PushFails, PullBranch, PullOther, RemoteFails, Fails, Crash
<1> QED BY <1>1, <1>3, <1>4, <1>5, <1>6 DEF Next

-----------------------------------------------------------------------------
(* The theorems. *)

LEMMA InitInv == Init => Inv
<1> SUFFICES ASSUME Init PROVE Inv
  OBVIOUS
<1>1. TypeOK
  <2>1. /\ {} \in Refs /\ {0} \in Refs /\ SUBSET {0} \subseteq Refs
        /\ NoVerdict \in Verdicts /\ NoSandbox \in [base : Refs, tip : Refs]
    BY DEF Init, Refs, Verdicts, NoVerdict, NoSandbox
  <2>2. {origin, local, tracking, sandbox, breaks, closed, had} \subseteq Refs /\ local # {}
    BY <2>1 DEF Init
  <2>3. /\ pc \in Steps /\ result \in Results /\ asker \in {"plan", "merge", "push"}
        /\ place \in {"none", "root", "elsewhere"} /\ clean \in BOOLEAN
    BY DEF Init, Steps, Results
  <2>4. /\ made \in Nat /\ grabs \in 0..MaxGrabs /\ left \in 0..MaxConflicts
        /\ attempt \in 0..MaxAttempts /\ tries \in 0..MaxAttempts
    BY AttemptsAssumption, BoundsAssumption DEF Init
  <2>5. verdict \in Verdicts /\ given \in Verdicts /\ kept \in [base : Refs, tip : Refs]
        /\ filed \subseteq Refs /\ twice \subseteq Refs /\ lost \subseteq Refs
    BY <2>1 DEF Init
  <2> QED BY <2>2, <2>3, <2>4, <2>5 DEF TypeOK
<1>2. OneIssuePerCommit
  BY DEF Init, OneIssuePerCommit
<1> QED
  BY <1>1, <1>2
     DEF Init, Inv, ClosedGoesOut, AskersFit, CacheFits, HadFits, ClosedFits, Refreshing

LEMMA NextInv == Inv /\ [Next]_vars => Inv'
  BY TypeStep, AskersStep, CacheStep, CountStep, HadStep, ClosedStep, PushedStep DEF Inv

\* The cache, what origin had and what was closed fit the branch, whoever moves it.
THEOREM Invariance == Spec => []Inv
  BY InitInv, NextInv, PTL DEF Spec

\* Work begins at a commit of the branch that has all that origin had, with a
\* verdict that is true of it.
THEOREM VerdictsFit == Spec => []VerdictFits
<1>1. Inv => VerdictFits
  BY DEF Inv, HadFits, VerdictFits, Known, Refreshing
<1> QED BY <1>1, Invariance, PTL

\* One preflight issue for a failing commit in one process, and another only after
\* a report that ended unanswered with its issue filed.
THEOREM OneIssue == Spec => []OneIssuePerCommit
<1>1. Inv => OneIssuePerCommit
  BY DEF Inv
<1> QED BY <1>1, Invariance, PTL

\* Where the push came through, origin has what was merged for closed issues.
THEOREM ClosedIsPushed == Spec => []ClosedGoesOut
<1>1. Inv => ClosedGoesOut
  BY DEF Inv
<1> QED BY <1>1, Invariance, PTL

\* Neither origin nor the local branch ever loses a commit.
THEOREM CommitsStay == Spec => NothingLost
<1>1. TypeOK /\ [Next]_vars => [origin \subseteq origin' /\ local \subseteq local']_refs
  BY StepGrows DEF Grows
<1>2. Inv => TypeOK
  BY DEF Inv
<1> QED BY <1>1, <1>2, Invariance, PTL DEF Spec, NothingLost
=============================================================================
