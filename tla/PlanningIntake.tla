--------------------------- MODULE PlanningIntake ---------------------------
(***************************************************************************)
(* What the program starts next: one iteration reads the open issues that  *)
(* are labeled for agents, resumes the ones in flight, or else sorts the   *)
(* rest by readiness, has a classifier choose missing slice labels, brings *)
(* the marker labels up to date, and asks a planner which issues to start  *)
(* (iteration/planning.py, planning_issue_intake.py, issue_readiness.py).  *)
(*                                                                         *)
(* The program works from the issues as listed.  Meanwhile people relabel  *)
(* and edit them at GitHub, agents fail, usage limits interrupt the pass,  *)
(* and the process may die between two of its calls.                       *)
(*                                                                         *)
(* Issues are their numbers; an issue is blocked by lower numbers only.    *)
(***************************************************************************)
EXTENDS Naturals, FiniteSetsExt

CONSTANTS Numbers,   \* the numbers of the issues labeled for agents
          Modes,     \* the slice-mode labels
          MaxEdits,  \* bound: changes people make to issues
          MaxStops   \* bound: failures, usage limits, blocked gates and kills

ASSUME IssuesAssumption == Numbers \subseteq Nat /\ IsFiniteSet(Numbers)
ASSUME ModesAssumption == Modes \cap {"needs-info", "needs-slice-type", "hitl"} = {}
ASSUME EditsAssumption == MaxEdits \in Nat /\ MaxStops \in Nat

VARIABLES
  blockers,  \* the issues an issue is blocked by, as edges and in its body
  issues,    \* at GitHub: open, labels, and how long the body is
  inFlight,  \* the issues with commits or a session of their own
  at,        \* the step the program is at
  listed,    \* the issues as listed: labels, long, free
  changed,   \* those people changed since
  verdicts,  \* of the slice classifier, per issue
  todo,      \* the label changes still to make
  started,   \* the issues handed to the implement phase
  resumed,   \* whether these were in flight
  edits, stops

pass == <<listed, verdicts, todo, started, resumed>>
intakeVars == <<blockers, issues, inFlight, at, pass, changed, edits, stops>>

Info  == "needs-info"
Slice == "needs-slice-type"
Hitl  == "hitl"
Labels == Modes \cup {Info, Slice, Hitl}

\* "padded": past the floor only together with its "Blocked by" line.
Bodies == {"short", "padded", "long"}

IntakeInit ==
  /\ blockers \in {b \in [Numbers -> SUBSET Numbers] :
                      \A i \in Numbers : \A j \in b[i] : j < i}
  /\ issues \in [Numbers -> [open : {TRUE}, labels : SUBSET (Modes \cup {Hitl}),
                            body : Bodies]]
  /\ \A i \in Numbers : issues[i].body = "padded" => blockers[i] # {}
  /\ inFlight = {} /\ at = "off"
  /\ listed = << >> /\ changed = {} /\ verdicts = << >> /\ todo = {}
  /\ started = {} /\ resumed = FALSE
  /\ edits = 0 /\ stops = 0

-----------------------------------------------------------------------------
(* Readiness. *)

IsOpen(i) == issues[i].open
OpenIssues == {i \in Numbers : IsOpen(i)}
SliceLabels(s) == s.labels \cap Modes
WellFormed(s) == Cardinality(SliceLabels(s)) = 1
Exempt(s) == Hitl \in s.labels

\* A line that names no issue of the listing any more is stripped.
LineStays(i, open) == blockers[i] \cap open # {}
MeetsFloor(i, open) ==
  \/ issues[i].body = "long"
  \/ issues[i].body = "padded" /\ LineStays(i, open)

Ready(s) == ~Exempt(s) /\ WellFormed(s) /\ s.long

Prepared(open) ==
  [i \in open |-> [labels |-> issues[i].labels,
                   long   |-> MeetsFloor(i, open),
                   free   |-> \A j \in blockers[i] : ~IsOpen(j)]]

MalformedSlices(s) == {i \in DOMAIN s : ~Exempt(s[i]) /\ ~WellFormed(s[i])}
MalformedBodies(s) == {i \in DOMAIN s : ~Exempt(s[i]) /\ ~s[i].long}
Candidates(s) == {i \in DOMAIN s : Ready(s[i])}
Startable(s) == {i \in Candidates(s) : s[i].free}

\* classification_work_exists: the body is long enough to judge by.
Unclassified(s) == MalformedSlices(s) \ MalformedBodies(s)

-----------------------------------------------------------------------------
(* Label changes. *)

Change(stage, i, label, intent) ==
  [stage |-> stage, issue |-> i, label |-> label, intent |-> intent]

\* Changes are made stage by stage, in the order of the issues, and of an issue
\* those that add come first.
Before(c, d) ==
  \/ c.stage < d.stage
  \/ c.stage = d.stage /\ c.issue < d.issue
  \/ c.stage = d.stage /\ c.issue = d.issue /\ c.intent = "add" /\ d.intent = "remove"

\* Mutant of Mark: a marker is never taken away.
MarkForGood(s, stage, label, marked) ==
  {Change(stage, i, label, "add") : i \in {j \in DOMAIN s \cap marked : label \notin s[j].labels}}

\* The changes of one marker rule: those that add come first.
Mark(s, stage, label, marked) ==
  LET plain == {i \in DOMAIN s : ~Exempt(s[i])}
  IN  {Change(stage, i, label, "add") :
         i \in {j \in plain \cap marked : label \notin s[j].labels}}
      \cup {Change(stage + 1, i, label, "remove") :
              i \in {j \in plain \ marked : label \in s[j].labels}}

Marks(s) == Mark(s, 1, Info, MalformedBodies(s)) \cup Mark(s, 3, Slice, MalformedSlices(s))

Concrete(v)  == {i \in DOMAIN v : v[i] \in Modes}
Uncertain(v) == DOMAIN v \ Concrete(v)

\* What a verdict makes of an issue: the label chosen is its only slice label.
Relabel(issue, mode) == [issue EXCEPT !.labels = (@ \ Modes) \cup {mode}]

\* The issues with a verdict leave the malformed ones and join the candidates.
Relabeled(s, v) ==
  [i \in DOMAIN s |-> IF i \in Concrete(v) THEN Relabel(s[i], v[i]) ELSE s[i]]

\* Mutant of Chosen: the other slice labels stay.
ChosenAdded(s, v, i) == {Change(5, i, v[i], "add")}

Chosen(s, v, i) ==
  {Change(5, i, v[i], "add")}
  \cup {Change(5, i, l, "remove") : l \in SliceLabels(s[i]) \ {v[i]}}

Verdicts(s, v) ==
  {c \in Marks(s) : ~(c.issue \in DOMAIN v /\ c.label = Slice /\ c.intent = "add")}
  \cup (UNION {Chosen(s, v, i) : i \in Concrete(v)})
  \cup {Change(6, i, Slice, "add") : i \in Uncertain(v)}

-----------------------------------------------------------------------------
(* The run. *)

Begin ==
  /\ at = "off" /\ at' = "idle"
  /\ UNCHANGED <<blockers, issues, inFlight, pass, changed, edits, stops>>

\* The pass is given up or done; nothing of it is kept.
Leave(next) ==
  /\ at' = next
  /\ listed' = << >> /\ verdicts' = << >> /\ todo' = {}
  /\ started' = {} /\ resumed' = FALSE /\ changed' = {}

\* A pass is cut short, by a bounded number of events.
CutShort(next) == stops < MaxStops /\ stops' = stops + 1 /\ Leave(next)

\* The issues in flight are picked whatever their readiness or blockers.
List ==
  /\ at = "idle" /\ OpenIssues # {}
  /\ listed' = Prepared(OpenIssues)
  /\ started' = inFlight \cap OpenIssues /\ resumed' = (started' # {})
  /\ changed' = {} /\ at' = "gate"
  /\ UNCHANGED <<blockers, issues, inFlight, verdicts, todo, edits, stops>>

NothingOpen ==
  /\ at = "idle" /\ OpenIssues = {}
  /\ Leave("off")
  /\ UNCHANGED <<blockers, issues, inFlight, edits, stops>>

\* get_safe_sha says ready.  Without classification work and with at most one
\* issue to start, neither sandbox nor planner is needed.
Gate ==
  /\ at = "gate"
  /\ IF resumed THEN at' = "start" /\ UNCHANGED todo
     ELSE IF Unclassified(listed) = {} /\ Cardinality(Startable(listed)) <= 1
     THEN at' = "sync" /\ todo' = Marks(listed)
     ELSE at' = "classify" /\ UNCHANGED todo
  /\ UNCHANGED <<blockers, issues, inFlight, listed, verdicts, started, resumed,
                 changed, edits, stops>>

\* The checks of the project fail: a preflight issue blocks the pass.  One for a
\* human ends the run.  Another, which is not among Numbers, is fetched, and
\* implemented and merged in place of the pass; then the run goes on, or what
\* fails there ends it.
GateBlocks ==
  /\ at = "gate" /\ \E next \in {"idle", "off"} : CutShort(next)
  /\ UNCHANGED <<blockers, issues, inFlight, edits>>

\* An answer that names no slice mode is as good as none.
Verdict(answer) == IF answer \in Modes THEN answer ELSE "uncertain"

Classify ==
  /\ at = "classify"
  /\ \E i \in Unclassified(listed) \ DOMAIN verdicts, answer \in Modes \cup {"other"} :
       /\ \A j \in Unclassified(listed) \ DOMAIN verdicts : i <= j
       /\ verdicts' = [j \in DOMAIN verdicts \cup {i} |->
                         IF j = i THEN Verdict(answer) ELSE verdicts[j]]
  /\ UNCHANGED <<blockers, issues, inFlight, at, listed, todo, started, resumed,
                 changed, edits, stops>>

\* A usage limit, a timeout or a fault of the agent ends the iteration; some
\* end the run.
AgentStops ==
  /\ at \in {"classify", "plan"} /\ \E next \in {"idle", "off"} : CutShort(next)
  /\ UNCHANGED <<blockers, issues, inFlight, edits>>

\* apply_slice_classifier_verdicts.
Apply ==
  /\ at = "classify" /\ Unclassified(listed) \subseteq DOMAIN verdicts
  /\ listed' = Relabeled(listed, verdicts)
  /\ todo' = Verdicts(listed, verdicts)
  /\ at' = "sync"
  /\ UNCHANGED <<blockers, issues, inFlight, verdicts, started, resumed, changed,
                 edits, stops>>

\* One call to GitHub.
Sync ==
  /\ at = "sync"
  /\ \E c \in todo :
       /\ \A d \in todo : ~Before(d, c)
       /\ issues' = [issues EXCEPT ![c.issue].labels =
                       IF c.intent = "add" THEN @ \cup {c.label} ELSE @ \ {c.label}]
       /\ todo' = todo \ {c}
  /\ UNCHANGED <<blockers, inFlight, at, listed, verdicts, started, resumed, changed,
                 edits, stops>>

\* All blocked, or a plan to implement.
Planned(kept) ==
  IF kept = {} THEN Leave("off")
  ELSE /\ started' = kept /\ at' = "start"
       /\ UNCHANGED <<listed, verdicts, todo, resumed, changed>>

\* resolve_planner_issue_intake: what is named is kept if it is a candidate.
Resolve(named) == Planned(named \cap Candidates(listed))

\* At most one issue to start: no planner is asked.
NoPlanner ==
  /\ at = "sync" /\ todo = {} /\ Cardinality(Startable(listed)) <= 1
  /\ Resolve(Startable(listed))
  /\ UNCHANGED <<blockers, issues, inFlight, edits, stops>>

AskPlanner ==
  /\ at = "sync" /\ todo = {} /\ Cardinality(Startable(listed)) > 1
  /\ at' = "plan"
  /\ UNCHANGED <<blockers, issues, inFlight, pass, changed, edits, stops>>

\* The planner sees every open issue and names the ones to start.
Plan ==
  /\ at = "plan"
  /\ \E named \in SUBSET DOMAIN listed : Resolve(named)
  /\ UNCHANGED <<blockers, issues, inFlight, edits, stops>>

-----------------------------------------------------------------------------
(* The implement phase, as far as planning can tell. *)

\* A label is all it takes here: neither the body nor the exemption counts.
HasMode(s) == WellFormed(s)

StartWork ==
  /\ at = "start" /\ \A i \in started : HasMode(listed[i])
  /\ at' = "work"
  /\ UNCHANGED <<blockers, issues, inFlight, pass, changed, edits, stops>>

\* One issue without a slice label fails the phase, and nothing handles that.
StartFails ==
  /\ at = "start" /\ \E i \in started : ~HasMode(listed[i])
  /\ Leave("off")
  /\ UNCHANGED <<blockers, issues, inFlight, edits, stops>>

\* An issue is implemented, merged and closed.
Deliver ==
  /\ at = "work"
  /\ \E i \in started :
       /\ issues' = [issues EXCEPT ![i].open = FALSE]
       /\ inFlight' = inFlight \ {i} /\ started' = started \ {i}
  /\ UNCHANGED <<blockers, at, listed, verdicts, todo, resumed, changed, edits, stops>>

\* The work on an issue is given up, with or without commits to resume from.
FailIssue ==
  /\ at = "work" /\ stops < MaxStops /\ stops' = stops + 1
  /\ \E i \in started :
       /\ started' = started \ {i}
       /\ \/ inFlight' = inFlight \cup {i}
          \/ i \notin inFlight /\ UNCHANGED inFlight
  /\ UNCHANGED <<blockers, issues, at, listed, verdicts, todo, resumed, changed, edits>>

Continue ==
  /\ at = "work" /\ started = {}
  /\ Leave("idle")
  /\ UNCHANGED <<blockers, issues, inFlight, edits, stops>>

Kill ==
  /\ at # "off" /\ CutShort("off")
  /\ UNCHANGED <<blockers, issues, inFlight, edits>>

\* Somebody changes the slice labels, the exemption or the body of an issue.
Edit ==
  /\ edits < MaxEdits /\ edits' = edits + 1
  /\ \E i \in Numbers :
       /\ IsOpen(i) /\ changed' = changed \cup {i}
       /\ \/ \E l \in Modes \cup {Hitl} :
               issues' = [issues EXCEPT ![i].labels = SymDiff(@, {l})]
          \/ \E b \in Bodies \ {issues[i].body} :
               /\ b = "padded" => blockers[i] # {}
               /\ issues' = [issues EXCEPT ![i].body = b]
  /\ UNCHANGED <<blockers, inFlight, at, pass, stops>>

Host == \/ List \/ NothingOpen \/ Gate \/ Classify \/ Apply \/ Sync \/ NoPlanner
        \/ AskPlanner \/ Plan \/ StartWork \/ StartFails \/ Deliver \/ Continue

IntakeNext ==
  \/ Begin \/ List \/ NothingOpen \/ Gate \/ GateBlocks \/ Classify
  \/ AgentStops \/ Apply \/ Sync \/ NoPlanner \/ AskPlanner \/ Plan
  \/ StartWork \/ StartFails \/ Deliver \/ FailIssue \/ Continue \/ Kill \/ Edit

IntakeSpec == IntakeInit /\ [][IntakeNext]_intakeVars

\* The program goes on with whatever it is at, and is run again when it ended.
IntakeFairSpec == IntakeSpec /\ WF_intakeVars(Host) /\ WF_intakeVars(Begin)

-----------------------------------------------------------------------------
(* Properties. *)

GithubIssues == [open : BOOLEAN, labels : SUBSET Labels, body : Bodies]
Listings     == [labels : SUBSET Labels, long : BOOLEAN, free : BOOLEAN]
Changes      == [stage : 1 .. 6, issue : Numbers, label : Labels, intent : {"add", "remove"}]

\* The values the variables take.
IntakeTypeOK ==
  /\ blockers \in [Numbers -> SUBSET Numbers] /\ issues \in [Numbers -> GithubIssues]
  /\ at \in {"off", "idle", "gate", "classify", "sync", "plan", "start", "work"}
  /\ listed \in [DOMAIN listed -> Listings] /\ DOMAIN listed \subseteq Numbers
  /\ verdicts \in [DOMAIN verdicts -> Modes \cup {"uncertain"}]
  /\ DOMAIN verdicts \subseteq DOMAIN listed
  /\ todo \subseteq Changes /\ \A c \in todo : c.issue \in DOMAIN listed
  /\ started \subseteq DOMAIN listed /\ resumed \in BOOLEAN /\ changed \subseteq Numbers
  /\ inFlight \subseteq Numbers /\ edits \in 0 .. MaxEdits /\ stops \in 0 .. MaxStops

\* An issue the program starts anew, and that nobody changed since the pass
\* began, is one that GitHub shows with exactly one slice label and no
\* exemption, whatever the classifier made of its labels on the way: what the
\* prompt is chosen by is what a person reading the issue sees.
StartsWhatIsShown ==
  at = "work" /\ ~resumed =>
    \A i \in started \ changed :
      /\ WellFormed(issues[i]) /\ ~Exempt(issues[i])
      /\ SliceLabels(issues[i]) = SliceLabels(listed[i])

\* The marker labels of the open issues say what is wrong with them.
Truthful ==
  \A i \in OpenIssues : Exempt(issues[i]) \/
    /\ Info \in issues[i].labels <=> ~MeetsFloor(i, OpenIssues)
    /\ Slice \in issues[i].labels <=> ~WellFormed(issues[i])

\* However people edit the issues and whatever interrupts the passes, the
\* markers come to agree with the issues again and again, unless work in
\* flight keeps the program from planning at all.
MarkersSettle == []<>(Truthful \/ inFlight # {})

\* An issue that is ready, and the only one open, does not stay so for ever: it
\* is implemented, or people take it back.
LoneIssueDone ==
  \A i \in Numbers :
    []<>~(/\ OpenIssues = {i} /\ issues[i].body = "long"
          /\ ~Exempt(issues[i]) /\ WellFormed(issues[i]))

Pending(i, l, intent) ==
  \E c \in todo : c.issue = i /\ c.label = l /\ c.intent = intent

\* Of the labels that decide how an issue is worked on, one that nobody changed
\* has what the pass believes, but for the changes that are still to be made.
ShownOrPending ==
  \A i \in DOMAIN listed \ changed, l \in Modes \cup {Hitl} :
    /\ Pending(i, l, "add") => l \in listed[i].labels
    /\ Pending(i, l, "remove") => l \notin listed[i].labels
    /\ ~Pending(i, l, "add") /\ ~Pending(i, l, "remove")
         => (l \in issues[i].labels <=> l \in listed[i].labels)

\* Label changes are made in one go; between passes nothing is listed.
SyncOnly ==
  /\ at # "sync" => todo = {}
  /\ at \in {"off", "idle"} => listed = << >>

\* What a pass starts anew was ready as it believes.
CandidatesOnly == at \in {"start", "work"} /\ ~resumed => started \subseteq Candidates(listed)

\* The types of what a pass holds, and that the issues it starts are those a
\* reader of GitHub would start; and what that rests on.
IntakeInv ==
  IntakeTypeOK /\ StartsWhatIsShown /\ ShownOrPending /\ SyncOnly /\ CandidatesOnly

\* Passes that are interrupted, and fail to write, get somewhere all the same:
\* the markers settle, and an issue that could be done is not passed over.
IntakeProgresses == MarkersSettle /\ LoneIssueDone
=============================================================================
