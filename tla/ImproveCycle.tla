---------------------------- MODULE ImproveCycle ----------------------------
(***************************************************************************)
(* The improve cycle inside the run loop: the gate that lets it have an    *)
(* iteration (iteration/_run.py, iteration/orchestrator.py), the phases    *)
(* over one scan's candidates and what they keep on disk (improve.py,      *)
(* improve_role_session_store.py), the two-stage filing of a candidate's   *)
(* drafts at GitHub (improve_filing.py) and the wind-down of a cycle whose *)
(* base has moved (improve_candidate_lifecycle.py).  Agents run into usage *)
(* limits and time out, GitHub calls fail, the process is killed.          *)
(*                                                                         *)
(* Planning and implementing are one step here: an issue that can be       *)
(* started is closed, and the operating branch moves on.                   *)
(***************************************************************************)
EXTENDS Naturals, Sequences, FiniteSets

CONSTANTS PerScan,         \* candidates a scan nominates at most
          Tickets,         \* tickets a draft set has at most
          Caps,            \* values of cfg.improve_max; 0 stands for None
          Corrections,     \* _MAX_CORRECTION_ATTEMPTS
          MaxIterations,   \* cfg.max_iterations
          MaxRuns,         \* bound: times the program is started
          MaxScans,        \* bound: scans that nominate something
          MaxStops,        \* bound: agents cut short, and blocked preflights
          MaxFaults        \* bound: failed GitHub calls, and kills

ASSUME SizesAssumption == PerScan \in Nat \ {0} /\ Tickets \in Nat /\ MaxIterations \in Nat

VARIABLES
  head,     \* the safe sha
  issues,   \* GitHub: what improve filed, by number
  disk,     \* the role session of the improve sandbox
  run,      \* what the orchestrator carries from iteration to iteration
  work,     \* the locals of the phase under way
  world,    \* the configuration, how often bounded things happened, and a ghost:
            \* the sets wound down with the drafts of another candidate
  pc

vars == <<head, issues, disk, run, work, world, pc>>

Cands   == 0 .. PerScan - 1
Handles == 0 .. Tickets              \* of drafts: 0 is the spec, the rest tickets
NoFile  == "no file"

\* A candidate is known by its scan and its place there.
Nobody == <<0, 0>>

NoRecord == [exists |-> FALSE, spec |-> 0, filed |-> [h \in 1 .. Tickets |-> 0],
             labelled |-> FALSE]

\* RoleSession.discard.
NoSession ==
  [fp |-> 0, scan |-> 0, listed |-> FALSE, count |-> 0, cursor |-> 0,
   inFlight |-> NoFile, rec |-> [c \in Cands |-> NoRecord],
   drafts |-> [h \in Handles |-> Nobody], \* by which candidate each was written
   valid |-> FALSE, forked |-> FALSE]

NewRun == [iteration |-> 0, dispatched |-> 0, interrupted |-> FALSE, slept |-> FALSE,
           cut |-> FALSE]

NoWork == [pending |-> FALSE, completed |-> 0, cand |-> 0, made |-> 0, attempt |-> 0,
           wind |-> FALSE, fresh |-> TRUE]

Init ==
  /\ head = 1 /\ issues = <<>> /\ disk = NoSession /\ work = NoWork /\ pc = "off"
  /\ run = NewRun
  /\ world \in [untilSleep : BOOLEAN, report : BOOLEAN, improveMax : Caps,
                runs : {0}, scans : {0}, stops : {0}, faults : {0}, foreign : {{}}]

\* The candidate a draft of this session's scan belongs to.
Author(c) == <<disk.scan, c>>
Numbers == DOMAIN issues
Open(i) == issues[i].open
ReadyIssues == {i \in Numbers : Open(i) /\ issues[i].ready}
Startable == {i \in ReadyIssues : \A b \in issues[i].deps : ~Open(b)}
Goto(l) == pc' = l

-----------------------------------------------------------------------------
\* The run ends, or an iteration does.
Off  == Goto("off") /\ work' = NoWork
Idle == Goto("idle") /\ work' = NoWork

StartRun ==
  /\ pc = "off" /\ world.runs < MaxRuns
  /\ run' = NewRun /\ world' = [world EXCEPT !.runs = @ + 1]
  /\ Goto("idle") /\ UNCHANGED <<head, issues, disk, work>>

\* _run_improve_phase: whether the gate skips the cycle.
Skips ==
  \/ world.untilSleep /\ run.slept /\ ~run.interrupted
  \/ world.improveMax # 0 /\ run.dispatched >= world.improveMax

\* Mutant: the flag is not carried into the next iteration.
IterateUncarried ==
  /\ pc = "idle"
  /\ IF run.iteration = MaxIterations
     THEN Off /\ UNCHANGED run
     ELSE /\ run' = [run EXCEPT !.iteration = @ + 1, !.interrupted = FALSE]
          /\ IF ReadyIssues # {} THEN Goto("plan") /\ UNCHANGED work
             ELSE IF Skips THEN Off
             ELSE Goto("improve") /\ work' = [work EXCEPT !.pending = ReadyIssues # {}]
  /\ UNCHANGED <<head, issues, disk, world>>

\* One iteration of the loop in run, into _run_iteration_inner: improve has it
\* if there is nothing to implement, or if its cycle was interrupted.
Iterate ==
  /\ pc = "idle"
  /\ IF run.iteration = MaxIterations
     THEN Off /\ UNCHANGED run
     ELSE /\ run' = [run EXCEPT !.iteration = @ + 1]
          /\ IF ReadyIssues # {} /\ ~run.interrupted THEN Goto("plan") /\ UNCHANGED work
             ELSE IF Skips THEN Off
             ELSE Goto("improve") /\ work' = [work EXCEPT !.pending = ReadyIssues # {}]
  /\ UNCHANGED <<head, issues, disk, world>>

\* An agent is cut short.
Stop == world.stops < MaxStops /\ world' = [world EXCEPT !.stops = @ + 1]

\* What route_outcome makes of a usage limit.
AfterLimit(r) ==
  \/ run' = [r EXCEPT !.slept = TRUE] /\ Idle
  \/ run' = r /\ (Idle \/ Off)

\* Issues that are startable are implemented: one is closed, and with the last
\* of a spec's tickets the spec; or the agents bring nothing about, or run into
\* a usage limit.  Nothing startable ends the run.
Plan ==
  /\ pc = "plan"
  /\ \/ /\ Startable = {} /\ Off /\ UNCHANGED <<head, issues, run, world>>
     \/ \E i \in Startable :
          LET p == issues[i].parent
              family == {j \in Numbers : issues[j].parent = p /\ issues[j].sub}
              closes == IF p # 0 /\ \A j \in family \ {i} : ~Open(j) THEN {i, p} ELSE {i}
          IN  /\ issues' = [n \in Numbers |->
                   [issues[n] EXCEPT !.open = @ /\ n \notin closes]]
              /\ head' = head + 1 /\ Idle /\ UNCHANGED <<run, world>>
     \/ Startable # {} /\ Idle /\ UNCHANGED <<head, issues, run, world>>
     \/ Startable # {} /\ Stop /\ AfterLimit(run) /\ UNCHANGED <<head, issues>>
  /\ UNCHANGED disk

-----------------------------------------------------------------------------
\* get_safe_sha has an issue for a person, or one for an agent, which is
\* implemented and merged: improve_phase returns it before it has done a thing.
Blocked ==
  /\ pc = "improve" /\ Stop
  /\ run' = [run EXCEPT !.interrupted = FALSE, !.cut = FALSE]
  /\ \/ Off /\ UNCHANGED head
     \/ Idle /\ head' = head + 1
  /\ UNCHANGED <<issues, disk>>

\* reconcile_and_wind_down, prepare_fingerprint_gate.
SafeSha ==
  /\ pc = "improve"
  /\ IF disk.fp # head THEN Goto("wind") ELSE Goto("enter")
  /\ UNCHANGED <<head, issues, disk, run, work, world>>

Pending(c) == c < disk.count /\ ~disk.rec[c].labelled
SomeFiled(c) == \E h \in 1 .. Tickets : disk.rec[c].filed[h] # 0

\* _wind_down_partial_candidates, for the candidate it is at: a spec without
\* tickets is closed, a set begun is finished if its drafts are still there.
WindDown ==
  /\ pc = "wind" /\ work.cand < PerScan
  /\ LET c == work.cand IN
     IF Pending(c) /\ disk.rec[c].spec # 0 /\ SomeFiled(c) /\ disk.valid
     THEN /\ Goto("file") /\ work' = [work EXCEPT !.wind = TRUE]
          /\ world' = [world EXCEPT !.foreign =
                         IF disk.drafts[0] = Author(c) THEN @ ELSE @ \cup {Author(c)}]
          /\ UNCHANGED issues
     ELSE /\ issues' = IF Pending(c) /\ disk.rec[c].spec # 0 /\ ~SomeFiled(c)
                       THEN [issues EXCEPT ![disk.rec[c].spec].open = FALSE]
                       ELSE issues
          /\ work' = [work EXCEPT !.cand = @ + 1] /\ UNCHANGED <<pc, world>>
  /\ UNCHANGED <<head, disk, run>>

WoundDown ==
  /\ pc = "wind" /\ work.cand = PerScan
  /\ disk' = [NoSession EXCEPT !.fp = head]
  /\ work' = [work EXCEPT !.cand = 0] /\ Goto("enter")
  /\ UNCHANGED <<head, issues, run, world>>

\* _next_step_from_cursor: completed candidates are passed over.
Cursor(d) ==
  IF \E c \in d.cursor .. d.count - 1 : ~d.rec[c].labelled
  THEN CHOOSE c \in d.cursor .. d.count - 1 :
         ~d.rec[c].labelled /\ \A b \in d.cursor .. c - 1 : d.rec[b].labelled
  ELSE d.count

\* ImprovePhaseDriver.start and next: which step comes next.
StepFrom(d) ==
  IF ~d.listed THEN "scan"
  ELSE IF d.count = 0 THEN IF world.report /\ d.cursor = 0 THEN "report" ELSE "over"
  ELSE IF Cursor(d) = d.count THEN "over"
  ELSE IF d.rec[Cursor(d)].exists THEN "tickets" ELSE "spec"

Marked(d) == [d EXCEPT !.inFlight = IF StepFrom(d) = "over" THEN NoFile ELSE StepFrom(d),
                       !.cursor = IF d.listed /\ d.count > 0 THEN Cursor(d) ELSE @]
Advance(d) == Goto(StepFrom(d)) /\ disk' = Marked(d)

\* improve_phase returns, and _run_iteration_inner goes on: planning follows at
\* once unless it was to wait for an interrupted cycle.
Return(completed, noCandidate) ==
  /\ disk' = NoSession
  /\ run' = [run EXCEPT !.interrupted = FALSE, !.cut = FALSE,
                        !.dispatched = @ + completed]
  /\ IF noCandidate THEN Off
     ELSE IF work.pending \/ ReadyIssues = {} THEN Idle
     ELSE Goto("plan") /\ work' = NoWork

\* resume_kind: a step that was in flight is resumed.
Resumes == disk.inFlight = StepFrom(disk)

\* driver.start; a spec step that is not resumed needs the transcript of the
\* scan, and without it the cycle starts over.
Enter ==
  /\ pc = "enter"
  /\ IF StepFrom(disk) = "spec" /\ ~Resumes /\ ~disk.forked
     THEN Return(0, FALSE)
     ELSE /\ Advance(disk) /\ UNCHANGED run
          /\ work' = [work EXCEPT !.fresh = ~Resumes]
  /\ UNCHANGED <<head, issues, world>>

-----------------------------------------------------------------------------
\* What follows in the same phase is not resumed.
Fresh == work' = [work EXCEPT !.fresh = TRUE]

\* _fork_candidate_namespaces: every candidate gets the transcript of the scan,
\* if there is one that can be resumed.
Forks(n) == IF n = 0 THEN {FALSE} ELSE BOOLEAN

\* The scan is recorded, and its session forked.
Scan ==
  /\ pc = "scan"
  /\ \E n \in 0 .. PerScan : \E forked \in Forks(n) :
       LET d == [disk EXCEPT !.listed = TRUE, !.count = n, !.cursor = 0,
                             !.inFlight = NoFile, !.forked = forked,
                             !.scan = IF n = 0 THEN @ ELSE world.scans + 1]
       IN  /\ n # 0 => world.scans < MaxScans
           /\ Advance(d)
           /\ world' = [world EXCEPT !.scans = IF n = 0 THEN @ ELSE @ + 1]
  /\ Fresh /\ UNCHANGED <<head, issues, run>>

Report ==
  /\ pc = "report"
  /\ Advance([disk EXCEPT !.cursor = 1, !.inFlight = NoFile])
  /\ Fresh /\ UNCHANGED <<head, issues, run, world>>

\* read_draft_set: a set without a spec is never valid; what else could be wrong
\* with a draft is the agent's doing.
Validity(drafts) == IF drafts[0] = Nobody THEN {FALSE} ELSE BOOLEAN
Written(hs) == [h \in Handles |-> IF h \in hs THEN Author(disk.cursor) ELSE disk.drafts[h]]

\* The agent saves a draft; whatever becomes of the agent, the file is there.
AgentWrites ==
  /\ pc \in {"spec", "tickets"}
  /\ \E h \in IF pc = "spec" THEN {0} ELSE 1 .. Tickets :
       \E valid \in Validity(Written({h})) :
         disk' = [disk EXCEPT !.drafts = Written({h}), !.valid = valid]
  /\ UNCHANGED <<head, issues, run, work, world, pc>>

\* The spec is drafted; mark_spec_completion.
DraftSpec ==
  /\ pc = "spec"
  /\ \E valid \in BOOLEAN :
       Advance([disk EXCEPT !.rec[disk.cursor].exists = TRUE, !.inFlight = NoFile,
                            !.drafts = Written({0}), !.valid = valid])
  /\ Fresh /\ UNCHANGED <<head, issues, run, world>>

\* Mutant: the cursor stays where it is until the set is filed.
DraftTicketsInPlace ==
  /\ pc = "tickets"
  /\ \E hs \in SUBSET (1 .. Tickets), valid \in Validity(disk.drafts) :
       disk' = [disk EXCEPT !.inFlight = NoFile, !.drafts = Written(hs), !.valid = valid]
  /\ work' = [work EXCEPT !.cand = disk.cursor, !.attempt = 0, !.fresh = TRUE]
  /\ Goto("resolve")
  /\ UNCHANGED <<head, issues, run, world>>

\* The tickets are drafted.  The cursor moves on before anything is filed.
DraftTickets ==
  /\ pc = "tickets"
  /\ \E hs \in SUBSET (1 .. Tickets), valid \in Validity(disk.drafts) :
       disk' = [disk EXCEPT !.inFlight = NoFile, !.cursor = @ + 1,
                           !.drafts = Written(hs), !.valid = valid]
  /\ work' = [work EXCEPT !.cand = disk.cursor, !.attempt = 0, !.fresh = TRUE]
  /\ Goto("resolve")
  /\ UNCHANGED <<head, issues, run, world>>

\* resolve_draft_set: what does not pass validation is given back to the agent.
Correct ==
  /\ pc = "resolve" /\ ~disk.valid /\ work.attempt < Corrections
  /\ disk' \in {disk, [disk EXCEPT !.valid = TRUE, !.drafts[0] = Author(work.cand)]}
  /\ work' = [work EXCEPT !.attempt = @ + 1]
  /\ UNCHANGED <<head, issues, run, world, pc>>

Resolved ==
  /\ pc = "resolve" /\ disk.valid /\ Goto("file")
  /\ UNCHANGED <<head, issues, disk, run, work, world>>

Cleared(d) == [d EXCEPT !.drafts = [h \in Handles |-> Nobody], !.valid = FALSE]

\* An unrepairable set is reported, and the next candidate has its turn.
Abandon ==
  /\ pc = "resolve" /\ ~disk.valid /\ work.attempt = Corrections
  /\ Advance(Cleared(disk))
  /\ UNCHANGED <<head, issues, run, work, world>>

-----------------------------------------------------------------------------
\* file_draft_set, for the candidate work.cand.
Rec == disk.rec[work.cand]
\* prev_filed_spec.
PrevSpec ==
  IF work.cand = 0 \/ disk.rec[work.cand - 1].spec = 0 THEN {}
  ELSE {disk.rec[work.cand - 1].spec}
Drafted == {h \in 1 .. Tickets : disk.drafts[h] # Nobody}
ToFile  == {h \in Drafted : Rec.filed[h] = 0}
NextTicket == CHOOSE h \in ToFile : \A g \in ToFile : h <= g
\* A ticket is blocked by the one before it in its set.
Blockers(h) == {Rec.filed[g] : g \in {g \in Drafted : g = h - 1}}

Create(handle, parent, needs) ==
  /\ issues' = Append(issues, [by |-> disk.drafts[handle], handle |-> handle,
                               parent |-> parent, needs |-> needs, set |-> Author(work.cand),
                               drafts |-> Drafted, sub |-> FALSE, deps |-> {},
                               ready |-> FALSE, open |-> TRUE])
  /\ work' = [work EXCEPT !.made = Len(issues) + 1]
  /\ UNCHANGED <<head, disk, run, world, pc>>

\* Stage 1: the spec, then each ticket with its edges; each is recorded when it
\* is complete.
CreateSpec ==
  pc = "file" /\ Rec.spec = 0 /\ work.made = 0 /\ Create(0, 0, {})

RecordSpec ==
  /\ pc = "file" /\ Rec.spec = 0 /\ work.made # 0
  /\ disk' = [disk EXCEPT !.rec[work.cand].spec = work.made,
                          !.rec[work.cand].exists = TRUE]
  /\ work' = [work EXCEPT !.made = 0]
  /\ UNCHANGED <<head, issues, run, world, pc>>

CreateTicket ==
  /\ pc = "file" /\ Rec.spec # 0 /\ work.made = 0 /\ ToFile # {}
  /\ Create(NextTicket, Rec.spec, Blockers(NextTicket) \cup PrevSpec)

Wired(i, edges) ==
  issues' = [issues EXCEPT ![i].sub = TRUE, ![i].deps = edges]
Recorded(h, i) ==
  disk' = [disk EXCEPT !.rec[work.cand].filed[h] = i]

WireTicket ==
  /\ pc = "file" /\ Rec.spec # 0 /\ work.made # 0
  /\ Wired(work.made, Blockers(NextTicket) \cup PrevSpec)
  /\ Recorded(NextTicket, work.made)
  /\ work' = [work EXCEPT !.made = 0]
  /\ UNCHANGED <<head, run, world, pc>>

\* Mutant: a ticket is labelled as soon as it is wired.
LabelEagerly ==
  /\ pc = "file" /\ Rec.spec # 0 /\ work.made = 0 /\ ~Rec.labelled
  /\ \E h \in 1 .. Tickets :
       /\ Rec.filed[h] # 0 /\ ~issues[Rec.filed[h]].ready
       /\ issues' = [issues EXCEPT ![Rec.filed[h]].ready = TRUE]
  /\ UNCHANGED <<head, disk, run, work, world, pc>>

\* Stage 2: the state label, ticket by ticket, once nothing is left to file.
Label ==
  /\ pc = "file" /\ Rec.spec # 0 /\ work.made = 0 /\ ToFile = {} /\ ~Rec.labelled
  /\ \E h \in 1 .. Tickets :
       /\ Rec.filed[h] # 0 /\ ~issues[Rec.filed[h]].ready
       /\ \A g \in 1 .. h - 1 : Rec.filed[g] # 0 => issues[Rec.filed[g]].ready
       /\ issues' = [issues EXCEPT ![Rec.filed[h]].ready = TRUE]
  /\ UNCHANGED <<head, disk, run, work, world, pc>>

\* Mutant: the pass is recorded before it is made.
RecordLabelsFirst ==
  /\ pc = "file" /\ Rec.spec # 0 /\ work.made = 0 /\ ToFile = {} /\ ~Rec.labelled
  /\ disk' = [disk EXCEPT !.rec[work.cand].labelled = TRUE]
  /\ UNCHANGED <<head, issues, run, work, world, pc>>

RecordLabels ==
  /\ pc = "file" /\ Rec.spec # 0 /\ work.made = 0 /\ ToFile = {} /\ ~Rec.labelled
  /\ \A h \in 1 .. Tickets : Rec.filed[h] # 0 => issues[Rec.filed[h]].ready
  /\ disk' = [disk EXCEPT !.rec[work.cand].labelled = TRUE]
  /\ UNCHANGED <<head, issues, run, work, world, pc>>

\* The set is filed: back to the wind-down, or out of file_and_decide, which
\* ends the phase where the cap is reached.
Filed ==
  /\ pc = "file" /\ Rec.labelled
  /\ IF work.wind
     THEN /\ work' = [work EXCEPT !.cand = @ + 1, !.wind = FALSE]
          /\ Goto("wind") /\ UNCHANGED disk
     ELSE /\ work' = [work EXCEPT !.completed = @ + 1]
          /\ disk' = Cleared(disk)
          /\ Goto(IF world.improveMax # 0 /\ run.dispatched + work.completed + 1 >= world.improveMax
                  THEN "over" ELSE "mid")
  /\ UNCHANGED <<head, issues, run, world>>

\* get_safe_sha between candidates: a base that moved, or one that is blocked,
\* ends the phase.
Mid ==
  /\ pc = "mid"
  /\ \/ head = disk.fp /\ Advance(disk) /\ UNCHANGED world
     \/ head # disk.fp /\ Goto("over") /\ UNCHANGED <<disk, world>>
     \/ Stop /\ Goto("over") /\ UNCHANGED disk
  /\ UNCHANGED <<head, issues, run, work>>

Over ==
  /\ pc = "over"
  /\ Return(work.completed, disk.listed /\ disk.count = 0)
  /\ UNCHANGED <<head, issues, world>>

-----------------------------------------------------------------------------
\* Others push, and the next refresh brings it in.
OthersPush ==
  /\ pc \in {"improve", "mid"} /\ Stop /\ head' = head + 1
  /\ UNCHANGED <<issues, disk, run, work, pc>>

\* Where an agent is at work; the drafts go with the exception that leaves
\* _file_improve_drafts.
AgentAtWork ==
  \/ pc \in {"improve", "scan", "report", "spec", "tickets", "mid"}
  \/ pc = "resolve" /\ ~disk.valid /\ work.attempt < Corrections
Unwound == IF pc = "resolve" \/ (pc = "file" /\ ~work.wind) THEN Cleared(disk) ELSE disk

UsageLimit ==
  /\ AgentAtWork /\ Stop
  /\ AfterLimit([run EXCEPT !.interrupted = TRUE, !.cut = TRUE])
  /\ disk' = Unwound /\ UNCHANGED <<head, issues>>

\* An agent times out, or fails in passing: the next iteration takes it up.
Timeout ==
  /\ AgentAtWork /\ Stop /\ UNCHANGED run /\ Idle
  /\ disk' = Unwound /\ UNCHANGED <<head, issues>>

Fault == world.faults < MaxFaults /\ world' = [world EXCEPT !.faults = @ + 1]

\* prepare_improve_step: the titles of recent specs are read, but not again for
\* a scan that is resumed.
ReadsGithub == pc \in {"spec", "report"} \/ (pc = "scan" /\ work.fresh)

\* A GitHub call fails, and with it the run; of the edges of a ticket some may
\* be there.
GithubFails ==
  /\ pc \in {"idle", "plan", "wind", "file"} \/ ReadsGithub
  /\ Fault /\ Off
  /\ IF pc = "file" /\ Rec.spec # 0 /\ work.made # 0
     THEN \E edges \in SUBSET (Blockers(NextTicket) \cup PrevSpec) : Wired(work.made, edges)
     ELSE UNCHANGED issues
  /\ disk' = Unwound /\ UNCHANGED <<head, run>>

Kill ==
  /\ pc # "off" /\ Fault /\ Off
  /\ UNCHANGED <<head, issues, disk, run>>

ProcessStep ==
  \/ Iterate \/ Plan \/ Blocked \/ SafeSha \/ WindDown \/ WoundDown \/ Enter
  \/ Scan \/ Report \/ DraftSpec \/ DraftTickets \/ Correct \/ Resolved \/ Abandon
  \/ CreateSpec \/ RecordSpec \/ CreateTicket \/ WireTicket \/ Label \/ RecordLabels
  \/ Filed \/ Mid \/ Over \/ UsageLimit \/ Timeout

Next == StartRun \/ ProcessStep \/ AgentWrites \/ OthersPush \/ GithubFails \/ Kill

Spec == Init /\ [][Next]_vars

\* A run that is on goes on: every agent comes back or is cut short by a limit
\* or the watchdog.
FairSpec == Spec /\ WF_vars(ProcessStep)

-----------------------------------------------------------------------------
Sets == Nat \X Nat
Record == [exists : BOOLEAN, spec : {0} \cup Numbers,
           filed : [1 .. Tickets -> {0} \cup Numbers], labelled : BOOLEAN]
Issue == [by : Sets, handle : Handles, parent : {0} \cup Numbers, needs : SUBSET Numbers,
          set : Sets, drafts : SUBSET (1 .. Tickets), sub : BOOLEAN, deps : SUBSET Numbers,
          ready : BOOLEAN, open : BOOLEAN]
PhaseSteps == {"scan", "report", "spec", "tickets"}
Session ==
  [fp : Nat, scan : Nat, listed : BOOLEAN, count : 0 .. PerScan, cursor : 0 .. PerScan,
   inFlight : PhaseSteps \cup {NoFile}, rec : [Cands -> Record],
   drafts : [Handles -> Sets], valid : BOOLEAN, forked : BOOLEAN]

Carried ==
  [iteration : 0 .. MaxIterations, dispatched : Nat, interrupted : BOOLEAN,
   slept : BOOLEAN, cut : BOOLEAN]
Locals ==
  [pending : BOOLEAN, completed : Nat, cand : 0 .. PerScan, made : {0} \cup Numbers,
   attempt : Nat, wind : BOOLEAN, fresh : BOOLEAN]
World ==
  [untilSleep : BOOLEAN, report : BOOLEAN, improveMax : Caps, runs : Nat, scans : Nat,
   stops : Nat, faults : Nat, foreign : SUBSET Sets]

\* Every variable has its type.
TypeOK ==
  /\ head \in Nat /\ issues \in Seq(Issue) /\ disk \in Session
  /\ run \in Carried /\ work \in Locals /\ world \in World
  /\ pc \in PhaseSteps \cup {"off", "idle", "plan", "improve", "wind", "enter", "resolve",
                             "file", "mid", "over"}

\* Ticket i is a sub-issue and has its edges; all its set drafted is filed so.
Connected(i) == issues[i].sub /\ issues[i].needs \subseteq issues[i].deps
Whole(i) ==
  \A h \in issues[i].drafts : \E j \in Numbers :
    issues[j].parent = issues[i].parent /\ issues[j].handle = h /\ Connected(j)

\* A ticket that carries the state label, and so can be picked up, is a
\* sub-issue of its spec and waits for everything its draft says; and it has every
\* other ticket of its set beside it, filed and wired, too, whatever GitHub call
\* failed and wherever the process was killed, unless the set was wound down with
\* the drafts of another candidate (improve_filing.py:133-211).
ReadySetsAreWhole ==
  \A i \in Numbers : issues[i].ready =>
    Connected(i) /\ (issues[i].set \notin world.foreign => Whole(i))

\* Usage limits, timeouts and a moving base never leave a ticket behind that
\* nobody will pick up: between phases every open ticket has its label, unless
\* a GitHub call failed or the process was killed (_run.py:229-246,
\* improve_candidate_lifecycle.py:144-186).
NoOrphans ==
  pc \in {"off", "idle", "plan"} /\ world.faults = 0 =>
    \A i \in Numbers : issues[i].handle # 0 /\ Open(i) => issues[i].ready

\* What is filed under a spec was drafted by the spec's candidate, though all
\* candidates write into the same directory, for as long as nothing failed or was
\* killed between filing and clearing (improve_candidate_lifecycle.py:136-141).
OwnDrafts ==
  world.faults = 0 => \A i \in Numbers : issues[i].by = issues[i].set

\* Tickets of a candidate and of the next one of its scan are never startable side
\* by side: those of the later one wait for the spec of the earlier
\* (improve_filing.py:182-189, improve_role_session_store.py:172-180).
NextCandidateWaits ==
  \A i, j \in Startable :
    ~(issues[j].set[1] = issues[i].set[1] /\ issues[j].set[2] = issues[i].set[2] + 1)

\* While a usage limit has cut a cycle short, and until improve has returned,
\* nothing is planned, though tickets of the cycle are ready (_run.py:213-239,
\* orchestrator.py:381-391).
PlanningWaits == pc = "plan" => ~run.cut

\* An improve phase comes to an end, abandoned candidates and all
\* (improve.py:759-817).
PhaseEnds == pc = "improve" ~> pc \in {"off", "idle", "plan"}

\* The session on disk: how far its cursor is, against the step under way, and
\* what of it is of the commit the branch is at.
SessionFits ==
  /\ disk.fp <= head /\ disk.scan <= world.scans
  /\ pc \in PhaseSteps \cup {"enter", "resolve"} => disk.fp = head
  /\ pc = "wind" => disk.fp # head
  /\ ~disk.listed => disk.cursor = 0 /\ disk.count = 0
  /\ disk.count # 0 => disk.cursor <= disk.count
  /\ disk.count # 0 <=> disk.scan # 0
  /\ pc = "scan" => ~disk.listed
  /\ pc = "report" => disk.count = 0 /\ disk.listed /\ disk.cursor = 0
  /\ pc \in {"spec", "tickets"} => disk.cursor < disk.count
  /\ \A c \in Cands : disk.rec[c].spec # 0 => c < disk.cursor /\ c < disk.count
  /\ disk.valid => disk.drafts[0] # Nobody

\* The candidate that is resolved or filed: its record, its spec, its drafts.
FilingFits ==
  /\ work.made # 0 => pc = "file"
  /\ work.wind => pc = "file"
  /\ pc \in {"resolve", "file"} /\ ~work.wind =>
       disk.fp = head /\ disk.cursor = work.cand + 1 /\ work.cand < disk.count
  /\ pc = "resolve" => Rec.spec = 0
  /\ pc = "file" =>
       /\ disk.valid /\ work.cand \in Cands
       /\ Rec.labelled => ToFile = {} /\ work.made = 0
       /\ IF work.wind
          THEN /\ disk.fp # head /\ Rec.spec # 0 /\ SomeFiled(work.cand)
               /\ disk.drafts[0] = Author(work.cand) \/ Author(work.cand) \in world.foreign
          ELSE /\ Rec.spec # 0 => Open(Rec.spec)
               /\ \A h \in 1 .. Tickets : Rec.filed[h] # 0 => Open(Rec.filed[h])

\* An issue that is created and not recorded yet.
MadeFits ==
  work.made # 0 =>
    LET m == issues[work.made] IN
      /\ m.set = Author(work.cand) /\ ~m.ready /\ ~m.sub /\ m.open
      /\ IF Rec.spec = 0 THEN m.handle = 0
         ELSE /\ ToFile # {} /\ m.handle = NextTicket /\ m.parent = Rec.spec
              /\ m.needs = Blockers(NextTicket) \cup PrevSpec /\ m.drafts = Drafted

\* A record says what is at GitHub.
RecordsFit ==
  \A c \in Cands :
    LET r == disk.rec[c] IN
      /\ r.labelled => r.spec # 0
      /\ r.spec # 0 =>
           /\ r.spec # work.made
           /\ issues[r.spec].handle = 0 /\ issues[r.spec].set = Author(c)
      /\ \A h \in 1 .. Tickets :
           r.filed[h] # 0 =>
             LET j == issues[r.filed[h]] IN
               /\ r.spec # 0 /\ r.filed[h] # work.made
               /\ j.parent = r.spec /\ j.handle = h /\ j.set = Author(c)
               /\ j.sub /\ j.needs \subseteq j.deps
               /\ r.labelled => j.ready
               /\ j.open => Open(r.spec)

\* As long as its drafts are those a set was filed from, all of them are there.
DraftsStay ==
  \A c \in Cands, h \in 1 .. Tickets :
    /\ disk.rec[c].filed[h] # 0
    /\ disk.drafts[0] = Author(c) \/ (pc = "file" /\ ~work.wind /\ c = work.cand)
    => issues[disk.rec[c].filed[h]].drafts \subseteq Drafted

\* A set whose label pass was cut short gets no more tickets: no agent writes
\* drafts in its session any more.
LabelsFit ==
  \A c \in Cands, h \in 1 .. Tickets :
    /\ ~disk.rec[c].labelled /\ disk.rec[c].filed[h] # 0
    /\ issues[disk.rec[c].filed[h]].ready
    => /\ \A g \in Drafted : disk.rec[c].filed[g] # 0
       /\ \/ pc = "file" /\ c = work.cand
          \/ disk.fp # head
          \/ /\ pc \in {"off", "idle", "plan"} /\ ReadyIssues # {}
             /\ pc = "idle" => ~run.interrupted

\* The issues at GitHub: specs and tickets, and whose they are.
IssuesFit ==
  \A i \in Numbers :
    LET n == issues[i] IN
      /\ n.set \in (1 .. world.scans) \X Cands
      /\ n.handle # 0 <=> n.parent # 0
      /\ n.parent # 0 => issues[n.parent].handle = 0 /\ issues[n.parent].set = n.set
      /\ n.ready => n.handle # 0
      /\ n.ready /\ n.open => Open(n.parent)
      /\ n.handle # 0 /\ ~n.open => n.ready
      /\ \A c \in Cands :
           n.set = Author(c) /\ n.handle # 0 =>
             /\ n.parent = disk.rec[c].spec
             /\ n.ready => disk.rec[c].filed[n.handle] = i
             /\ c # 0 => disk.rec[c - 1].spec \in {0} \cup n.needs

\* A ready ticket waits for the spec of every ready one of the candidate before.
ReadyInTurn ==
  \A i, j \in Numbers :
    /\ issues[i].ready /\ issues[j].ready
    /\ issues[j].set[1] = issues[i].set[1] /\ issues[j].set[2] = issues[i].set[2] + 1
    => issues[i].parent \in issues[j].needs

\* As long as nothing failed: drafts are of the candidate at work, and only the
\* set that is filed is not all labelled.
NothingLeftBehind ==
  world.faults = 0 =>
    /\ ~work.wind
    /\ \A h \in Handles : disk.drafts[h] # Nobody =>
         disk.drafts[h] = Author(IF pc \in {"resolve", "file"} THEN work.cand ELSE disk.cursor)
    /\ \A c \in Cands : disk.rec[c].spec # 0 /\ ~disk.rec[c].labelled =>
         pc = "file" /\ c = work.cand
    /\ \A i \in Numbers : issues[i].handle # 0 /\ ~issues[i].ready =>
         pc = "file" /\ (i = work.made \/ \E h \in 1 .. Tickets : Rec.filed[h] = i)

CutFits == (run.cut => run.interrupted) /\ (pc = "plan" => ~run.interrupted)

\* What a candidate leaves on disk, on GitHub and in the run fits together
\* wherever the cycle was cut: the types, each set from its own drafts, no two
\* neighbours startable side by side, and no planning in a cut cycle.  It is
\* inductive.
Inv ==
  /\ TypeOK /\ SessionFits /\ FilingFits /\ MadeFits /\ RecordsFit /\ DraftsStay
  /\ LabelsFit /\ IssuesFit /\ ReadyInTurn /\ NothingLeftBehind /\ CutFits
  /\ OwnDrafts /\ NextCandidateWaits /\ PlanningWaits
=============================================================================
