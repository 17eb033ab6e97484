---------------------------- MODULE IssueClosing ----------------------------
(***************************************************************************)
(* Closing the issues of a merged batch: one thread per issue closes it    *)
(* and then walks up its parents, closing each whose sub-issues are all    *)
(* closed (services/github_service.py, iteration/merge.py).  The lists of  *)
(* GitHub lag behind, so the service remembers what it closed, forgets it  *)
(* once a list no longer shows it, and leaves it out of what it reads.     *)
(*                                                                         *)
(* Calls fail and are retried; a write may have been done when its answer  *)
(* is lost; people reopen issues.                                          *)
(***************************************************************************)
EXTENDS Naturals, Sequences, FiniteSets

CONSTANTS Issues,      \* the open issues when the run begins
          Labeled,     \* those labeled for agents
          Parent,      \* the parent of an issue, or NoParent
          NoParent,
          MaxTries,    \* _READ_RETRY_MAX_ATTEMPTS
          MaxFaults,   \* bound: calls that fail
          MaxReopens   \* bound: issues people reopen

ASSUME ParentAssumption == Parent \in [Issues -> Issues \cup {NoParent}]
ASSUME LabeledAssumption == Labeled \subseteq Issues
ASSUME TriesAssumption == MaxTries \in Nat \ {0}
ASSUME BoundsAssumption == MaxFaults \in Nat /\ MaxReopens \in Nat

VARIABLES
  closed,     \* at GitHub
  lagging,    \* closed, but the lists still show them as open
  reopened,   \* by people
  recent,     \* GithubService._recently_closed
  attempted,  \* GithubService._cascade_attempted
  thread,     \* per issue of the batch: its step, the issues under way, tries
  pc,         \* "idle", "closing", "ready" or "all": what the run does
  ready,      \* the open issues labeled for agents, as last read
  shown,      \* the open issues of every label, as last read
  faults

service == <<recent, attempted>>
lists   == <<ready, shown>>
vars == <<closed, lagging, reopened, service, thread, pc, lists, faults>>

NoThread == [step |-> "none", path |-> << >>, tries |-> 0]
Children(p) == {i \in Issues : Parent[i] = p}

\* What a list of GitHub holds, of a set of issues.
Listed(S) == {i \in S : i \notin closed \/ i \in lagging}

Init ==
  /\ closed = {} /\ lagging = {} /\ reopened = {}
  /\ recent = {} /\ attempted = {}
  /\ thread = [i \in Issues |-> NoThread]
  /\ pc = "idle" /\ ready = Labeled /\ shown = Issues /\ faults = 0

-----------------------------------------------------------------------------
(* A thread. *)

Target(t) == thread[t].path[Len(thread[t].path)]
At(t, step) == pc = "closing" /\ thread[t].step = step
Go(t, step) == thread' = [thread EXCEPT ![t].step = step, ![t].tries = 0]
Climb(t, p) ==
  thread' = [thread EXCEPT ![t] = [step |-> "patch", path |-> Append(@.path, p),
                                   tries |-> 0]]

\* PATCH: an issue that was open is closed, and the lists lag.
Closes(n) ==
  /\ closed' = closed \cup {n}
  /\ lagging' = IF n \in closed THEN lagging ELSE lagging \cup {n}

Patch(t) ==
  /\ At(t, "patch") /\ Closes(Target(t)) /\ Go(t, "note")
  /\ UNCHANGED <<reopened, service, pc, lists, faults>>

Note(t) ==
  /\ At(t, "note") /\ recent' = recent \cup {Target(t)} /\ Go(t, "parent")
  /\ UNCHANGED <<closed, lagging, reopened, attempted, pc, lists, faults>>

GetParent(t) ==
  /\ At(t, "parent")
  /\ Go(t, IF Parent[Target(t)] = NoParent THEN "done" ELSE "subs")
  /\ UNCHANGED <<closed, lagging, reopened, service, pc, lists, faults>>

\* Mutant of OpenSubIssues: what was closed a moment ago counts as open.
OpenSubIssuesAsListed(p) == Listed(Children(p))

OpenSubIssues(p) == Listed(Children(p)) \ recent

\* Mutant of ListSubs: the sub-issues are not looked at.
ListSubsUnread(t) ==
  /\ At(t, "subs") /\ Go(t, "claim")
  /\ UNCHANGED <<closed, lagging, reopened, service, pc, lists, faults>>

ListSubs(t) ==
  /\ At(t, "subs")
  /\ Go(t, IF OpenSubIssues(Parent[Target(t)]) = {} THEN "claim" ELSE "done")
  /\ UNCHANGED <<closed, lagging, reopened, service, pc, lists, faults>>

\* Under the lock: one thread closes the parent.
Claim(t) ==
  LET p == Parent[Target(t)]
  IN  /\ At(t, "claim")
      /\ IF p \in attempted THEN Go(t, "done") /\ UNCHANGED attempted
         ELSE attempted' = attempted \cup {p} /\ Climb(t, p)
      /\ UNCHANGED <<closed, lagging, reopened, recent, pc, lists, faults>>

\* A call is about to be tried again, or given up; a PATCH may have been done.
Fault(t) ==
  /\ faults < MaxFaults /\ faults' = faults + 1
  /\ \/ At(t, "patch") /\ Closes(Target(t))
     \/ \E step \in {"patch", "parent", "subs"} : At(t, step) /\ UNCHANGED <<closed, lagging>>

Retry(t) ==
  /\ thread[t].tries + 1 < MaxTries /\ Fault(t)
  /\ thread' = [thread EXCEPT ![t].tries = @ + 1]
  /\ UNCHANGED <<reopened, service, pc, lists>>

\* Mutant of Unmarked: the mark stays.
UnmarkedNever(t) == attempted

\* The thread is past the issue of the batch, at a parent.
Climbed(t) == Len(thread[t].path) > 1
ClosesParent(t) == thread[t].step = "patch" /\ Climbed(t)

\* The mark of a parent whose closing failed is taken back.
Unmarked(t) ==
  IF ClosesParent(t) THEN attempted \ {Target(t)} ELSE attempted

\* What fails above the issue of the batch is a warning; the issue is done.
GiveUp(t) ==
  /\ Fault(t)
  /\ Go(t, IF thread[t].step = "patch" /\ ~Climbed(t)
           THEN "failed" ELSE "done")
  /\ attempted' = Unmarked(t)
  /\ UNCHANGED <<reopened, recent, pc, lists>>

-----------------------------------------------------------------------------
(* The run. *)

\* A batch is merged; meanwhile the lists have caught up.
StartClosing ==
  /\ pc = "idle" /\ lagging = {}
  /\ \E batch \in (SUBSET ready) \ {{}} :
       thread' = [i \in Issues |->
                    IF i \in batch THEN [step |-> "patch", path |-> <<i>>, tries |-> 0]
                    ELSE NoThread]
  /\ pc' = "closing"
  /\ UNCHANGED <<closed, lagging, reopened, service, lists, faults>>

Over == \A t \in Issues : thread[t].step \in {"none", "done", "failed"}

AllClosed ==
  /\ pc = "closing" /\ Over /\ \A t \in Issues : thread[t].step # "failed"
  /\ pc' = "ready" /\ thread' = [i \in Issues |-> NoThread]
  /\ UNCHANGED <<closed, lagging, reopened, service, lists, faults>>

\* MergeCloseFailure ends the run, and the next one has a service of its own;
\* when no failure could be reported the run goes on as if there were none.
SomeFailed ==
  /\ pc = "closing" /\ Over /\ \E t \in Issues : thread[t].step = "failed"
  /\ pc' = "ready" /\ thread' = [i \in Issues |-> NoThread]
  /\ (recent' = {} /\ attempted' = {}) \/ UNCHANGED service
  /\ UNCHANGED <<closed, lagging, reopened, lists, faults>>

\* What the list no longer shows is forgotten.
Remembered(response) == recent \cap response
ListReady ==
  LET response == Listed(Labeled)
  IN  /\ pc = "ready" /\ pc' = "all"
      /\ recent' = Remembered(response) /\ ready' = response \ Remembered(response)
      /\ UNCHANGED <<closed, lagging, reopened, attempted, thread, shown, faults>>

ListAll ==
  LET response == Listed(Issues)
  IN  /\ pc = "all" /\ pc' = "idle"
      /\ recent' = Remembered(response) /\ shown' = response \ Remembered(response)
      /\ UNCHANGED <<closed, lagging, reopened, attempted, thread, ready, faults>>

CatchUp ==
  /\ \E i \in lagging : lagging' = lagging \ {i}
  /\ UNCHANGED <<closed, reopened, service, thread, pc, lists, faults>>

\* Bound: not while a batch is closed.
Reopen ==
  /\ pc # "closing" /\ Cardinality(reopened) < MaxReopens
  /\ \E i \in closed : /\ closed' = closed \ {i} /\ lagging' = lagging \ {i}
                       /\ reopened' = reopened \cup {i}
  /\ UNCHANGED <<service, thread, pc, lists, faults>>

Step(t) == \/ Patch(t) \/ Note(t) \/ GetParent(t) \/ ListSubs(t) \/ Claim(t)

Next ==
  \/ \E t \in Issues : Patch(t)
  \/ \E t \in Issues : Note(t)
  \/ \E t \in Issues : GetParent(t)
  \/ \E t \in Issues : ListSubs(t)
  \/ \E t \in Issues : Claim(t)
  \/ \E t \in Issues : Retry(t)
  \/ \E t \in Issues : GiveUp(t)
  \/ StartClosing \/ AllClosed \/ SomeFailed \/ ListReady \/ ListAll
  \/ CatchUp \/ Reopen

Spec == Init /\ [][Next]_vars

\* Threads run, the run goes on, and lists catch up.
FairSpec ==
  /\ Spec /\ \A t \in Issues : WF_vars(Step(t))
  /\ WF_vars(AllClosed) /\ WF_vars(SomeFailed) /\ WF_vars(ListReady)
  /\ WF_vars(ListAll) /\ WF_vars(CatchUp)

-----------------------------------------------------------------------------
(* Properties. *)

Steps == {"none", "patch", "note", "parent", "subs", "claim", "done", "failed"}
Thread == [step : Steps, path : Seq(Issues), tries : 0 .. MaxTries - 1]

\* The values the variables take.
TypeOK ==
  /\ closed \subseteq Issues /\ lagging \subseteq closed /\ reopened \subseteq Issues
  /\ recent \subseteq Issues /\ attempted \subseteq Issues
  /\ thread \in [Issues -> Thread]
  /\ \A t \in Issues : thread[t].step # "none" => thread[t].path # << >>
  /\ pc \in {"idle", "closing", "ready", "all"}
  /\ ready \subseteq Labeled /\ shown \subseteq Issues /\ faults \in 0 .. MaxFaults

\* A parent is closed after its sub-issues, however stale the lists are that the
\* threads read; one that is labeled may be closed as work of its own.
ParentsLast ==
  \A p \in closed \ Labeled : Children(p) \subseteq closed \cup reopened

\* Two threads never close the same parent at a time.
OneCloser ==
  \A t, u \in Issues : t # u /\ ClosesParent(t) /\ ClosesParent(u) => Target(t) # Target(u)

\* "A later batch must be free to retry a cascade that failed": once a batch is
\* over, only parents that were closed are left marked.
MarksMeanClosed == pc # "closing" => attempted \subseteq closed \cup reopened

\* When nothing fails and nobody interferes, closing the last sub-issue of a
\* parent leads to the parent being closed, whichever of the threads that close
\* its sub-issues at the same time sees that it was the last.
Undisturbed == faults = 0 /\ reopened = {}
CascadeCompletes ==
  \A p \in {Parent[i] : i \in Issues} \ {NoParent} :
    Undisturbed /\ Children(p) \subseteq closed ~> p \in closed \/ ~Undisturbed

\* What this process closed is not offered as work again while the list lags.
NotOfferedAgain == Undisturbed /\ pc \in {"all", "idle"} => ready \cap closed = {}

\* What the threads of a batch know, between its steps: a thread starts at
\* labeled work, climbs to parents that exist, and closes one only after their
\* sub-issues, under its mark; when a batch is over there is no thread.
ThreadsFit ==
  /\ pc # "closing" => \A t \in Issues : thread[t] = NoThread
  /\ \A t \in Issues :
       /\ thread[t].step # "none" /\ ~Climbed(t) => Target(t) \in Labeled
       /\ thread[t].step \in {"subs", "claim"} => Parent[Target(t)] \in Issues
       /\ thread[t].step = "claim" => Children(Parent[Target(t)]) \subseteq closed \cup reopened
       /\ thread[t].step = "note" => Target(t) \in closed
       /\ ClosesParent(t) => /\ Target(t) \in attempted
                             /\ Children(Target(t)) \subseteq closed \cup reopened
       /\ thread[t].step = "failed" => faults > 0

\* A mark is that of a parent that was closed or that a thread is closing.
MarksHeld ==
  \A p \in attempted :
    p \in closed \cup reopened \/ \E t \in Issues : ClosesParent(t) /\ Target(t) = p

\* The service remembers what it closed, and all of it that the lists still show
\* when a list of work is read.
RememberedWasClosed == recent \subseteq closed \cup reopened
LagRemembered ==
  Undisturbed =>
    lagging \cap Labeled
      \subseteq recent \cup {Target(t) : t \in {u \in Issues : thread[u].step = "note"}}

\* The threads of a batch, the marks they share and the lists fit together: no
\* two close one parent, a mark outlives its batch only on a closed parent, and
\* the list of ready issues has none of those just closed.  It is inductive.
Inv ==
  /\ TypeOK /\ ParentsLast /\ OneCloser /\ MarksMeanClosed /\ NotOfferedAgain
  /\ ThreadsFit /\ MarksHeld /\ RememberedWasClosed /\ LagRemembered
=============================================================================
