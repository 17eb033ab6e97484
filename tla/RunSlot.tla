------------------------------- MODULE RunSlot ------------------------------
(***************************************************************************)
(* The run slot of src/pycastle/run_lock.py: a host-wide token, one marker *)
(* per project and the holder record, as several `pycastle run` processes  *)
(* go through run_slot().                                                  *)
(*                                                                         *)
(* Each flock call, each file write and each release is a step of its own. *)
(* Time is abstracted to two things: a run's six-hour deadline may pass at *)
(* any moment (Expire), and the window in which _lock_marker retries is a  *)
(* number of tries of which a scan's probes can spoil at most SpoiledTries.*)
(***************************************************************************)
EXTENDS Naturals, FiniteSets

CONSTANTS Runs,         \* run processes, each goes through run_slot() once
          Projects,     \* projects on the host, each with a run marker
          ProjectOf,    \* the project of each run
          Jumpers,      \* the runs started with --ignore-global-lock
          NoRun,        \* not a run
          MarkerTries,  \* tries of _lock_marker in its retry window
          SpoiledTries  \* tries of one window a scan's probes can make fail

ASSUME RunsAssumption ==
  ProjectOf \in [Runs -> Projects] /\ Jumpers \subseteq Runs /\ NoRun \notin Runs

\* The window is 500 ms in tries 5 ms apart; a probe holds the marker for less
\* than one try, and a waiting scan probes a marker about once a second.
ASSUME WindowAssumption ==
  MarkerTries \in Nat /\ SpoiledTries \in Nat /\ SpoiledTries < MarkerTries

VARIABLES
  pc,           \* where each run is in run_slot()
  outcome,      \* how each run left run_slot()
  token,        \* the run that holds the global run lock, or NoRun
  marker,       \* the run that holds each project's marker lock, or NoRun
  record,       \* the run the holder record names, or NoRun
  toProbe,      \* toProbe[r]: projects r's current scan has still to probe
  locked,       \* locked[r]: projects r's current scan found locked
  rescan,       \* rescan[r]: r is in the scan loop, past its first scan
  expired,      \* expired[r]: r's deadline has passed
  lostToRun,    \* lostToRun[r]: marker tries of r that met a running project
  lostToProbe,  \* lostToProbe[r]: marker tries of r that met a scan's probe
  owed          \* history, not in the code: the runs active when r got the token

locals == <<toProbe, locked, rescan>>
tries  == <<lostToRun, lostToProbe>>
vars   == <<pc, outcome, token, marker, record, locals, expired, tries, owed>>

Others(r)  == Projects \ {ProjectOf[r]}
Active     == {r \in Runs : pc[r] = "active"}
Goto(r, l) == pc' = [pc EXCEPT ![r] = l]
Exit(r, o) == Goto(r, "over") /\ outcome' = [outcome EXCEPT ![r] = o]

Init ==
  /\ pc = [r \in Runs |-> "off"]
  /\ outcome = [r \in Runs |-> "none"]
  /\ token = NoRun
  /\ marker = [p \in Projects |-> NoRun]
  /\ record = NoRun
  /\ toProbe = [r \in Runs |-> {}]
  /\ locked = [r \in Runs |-> {}]
  /\ rescan = [r \in Runs |-> FALSE]
  /\ expired = [r \in Runs |-> FALSE]
  /\ lostToRun = [r \in Runs |-> 0]
  /\ lostToProbe = [r \in Runs |-> 0]
  /\ owed = [r \in Runs |-> {}]

-----------------------------------------------------------------------------
\* run_slot() is entered: a jumper goes straight to its own marker.
Begin(r) ==
  /\ pc[r] = "off"
  /\ Goto(r, IF r \in Jumpers THEN "marker" ELSE "arriving")
  /\ UNCHANGED <<outcome, token, marker, record, locals, expired, tries, owed>>

\* The six hours are over (time.monotonic() >= deadline from now on); they are
\* read in steps 1 and 2 only.
Expire(r) ==
  /\ pc[r] \in {"arriving", "queued", "asleep", "record", "scan", "probe"}
  /\ ~expired[r]
  /\ expired' = [expired EXCEPT ![r] = TRUE]
  /\ UNCHANGED <<pc, outcome, token, marker, record, locals, tries, owed>>

-----------------------------------------------------------------------------
(* Step 1: the global run lock, by try-lock and poll. *)

\* A successful try, the first one or one after a poll sleep.
TakeToken(r) ==
  /\ pc[r] \in {"arriving", "asleep"} /\ token = NoRun
  /\ token' = r
  /\ owed' = [owed EXCEPT ![r] = Active]
  /\ Goto(r, "record")
  /\ UNCHANGED <<outcome, marker, record, locals, expired, tries>>

MissToken(r) ==
  /\ pc[r] \in {"arriving", "asleep"} /\ token # NoRun
  /\ Goto(r, "queued")
  /\ UNCHANGED <<outcome, token, marker, record, locals, expired, tries, owed>>

\* The deadline is looked at before the sleep, never between it and the try.
QueueSleep(r) ==
  /\ pc[r] = "queued" /\ ~expired[r]
  /\ Goto(r, "asleep")
  /\ UNCHANGED <<outcome, token, marker, record, locals, expired, tries, owed>>

QueueTimeout(r) ==
  /\ pc[r] = "queued" /\ expired[r]
  /\ Exit(r, "timed_out")
  /\ UNCHANGED <<token, marker, record, locals, expired, tries, owed>>

\* _write_holder_record: a rename, so the record changes at once.
WriteRecord(r) ==
  /\ pc[r] = "record"
  /\ record' = r
  /\ toProbe' = [toProbe EXCEPT ![r] = Others(r)]
  /\ Goto(r, "scan")
  /\ UNCHANGED <<outcome, token, marker, locked, rescan, expired, tries, owed>>

-----------------------------------------------------------------------------
(* Step 2: wait until every other project's marker is free. *)

\* _is_exclusively_locked finds the marker free by taking it itself ...
ProbeFree(r) == \E p \in toProbe[r] :
  /\ pc[r] = "scan" /\ marker[p] = NoRun
  /\ marker' = [marker EXCEPT ![p] = r]
  /\ toProbe' = [toProbe EXCEPT ![r] = @ \ {p}]
  /\ Goto(r, "probe")
  /\ UNCHANGED <<outcome, token, record, locked, rescan, expired, tries, owed>>

\* ... and drops it right away.
ProbeDrop(r) ==
  /\ pc[r] = "probe"
  /\ marker' = [p \in Projects |-> IF marker[p] = r THEN NoRun ELSE marker[p]]
  /\ Goto(r, "scan")
  /\ UNCHANGED <<outcome, token, record, locals, expired, tries, owed>>

ProbeLocked(r) == \E p \in toProbe[r] :
  /\ pc[r] = "scan" /\ marker[p] # NoRun
  /\ toProbe' = [toProbe EXCEPT ![r] = @ \ {p}]
  /\ locked' = [locked EXCEPT ![r] = @ \cup {p}]
  /\ UNCHANGED <<pc, outcome, token, marker, record, rescan, expired, tries, owed>>

\* A scan that found no locked marker.
ScanClear(r) ==
  /\ pc[r] = "scan" /\ toProbe[r] = {} /\ locked[r] = {}
  /\ Goto(r, "marker")
  /\ UNCHANGED <<outcome, token, marker, record, locals, expired, tries, owed>>

\* Mutant: no scan looks at the deadline.
ScanForEver(r) ==
  /\ pc[r] = "scan" /\ toProbe[r] = {} /\ locked[r] # {}
  /\ toProbe' = [toProbe EXCEPT ![r] = Others(r)]
  /\ locked' = [locked EXCEPT ![r] = {}]
  /\ UNCHANGED <<pc, outcome, token, marker, record, rescan, expired, tries, owed>>

\* The first scan never looks at the deadline; the later ones do.
ScanAgain(r) ==
  /\ pc[r] = "scan" /\ toProbe[r] = {} /\ locked[r] # {}
  /\ rescan[r] => ~expired[r]
  /\ toProbe' = [toProbe EXCEPT ![r] = Others(r)]
  /\ locked' = [locked EXCEPT ![r] = {}]
  /\ rescan' = [rescan EXCEPT ![r] = TRUE]
  /\ UNCHANGED <<pc, outcome, token, marker, record, expired, tries, owed>>

\* Mutant: a run whose deadline passed goes on all the same.
ScanTimeoutProceeds(r) ==
  /\ pc[r] = "scan" /\ toProbe[r] = {} /\ locked[r] # {}
  /\ rescan[r] /\ expired[r]
  /\ Goto(r, "marker")
  /\ UNCHANGED <<outcome, token, marker, record, locals, expired, tries, owed>>

ScanTimeout(r) ==
  /\ pc[r] = "scan" /\ toProbe[r] = {} /\ locked[r] # {}
  /\ rescan[r] /\ expired[r]
  /\ Goto(r, "leaving")
  /\ outcome' = [outcome EXCEPT ![r] = "timed_out"]
  /\ UNCHANGED <<token, marker, record, locals, expired, tries, owed>>

-----------------------------------------------------------------------------
(* Step 3: the run's own marker, by _lock_marker. *)

TakeMarker(r) ==
  /\ pc[r] = "marker" /\ marker[ProjectOf[r]] = NoRun
  /\ marker' = [marker EXCEPT ![ProjectOf[r]] = r]
  /\ Goto(r, "active")
  /\ UNCHANGED <<outcome, token, record, locals, expired, tries, owed>>

\* Mutant: the first lost try aborts, without the retry window.
AbortAtOnce(r, lost) ==
  /\ Goto(r, IF r \in Jumpers THEN "over" ELSE "leaving")
  /\ outcome' = [outcome EXCEPT ![r] = "aborted"]

\* After a failed try: RunAlreadyInProgressError once the window is used up.
\* It leaves a lock-respecting run through the removal of the record.
AfterLostTry(r, lost) ==
  IF lost < MarkerTries THEN UNCHANGED <<pc, outcome>>
  ELSE /\ Goto(r, IF r \in Jumpers THEN "over" ELSE "leaving")
       /\ outcome' = [outcome EXCEPT ![r] = "aborted"]

LoseToRun(r) ==
  /\ pc[r] = "marker" /\ marker[ProjectOf[r]] \in Active
  /\ lostToRun' = [lostToRun EXCEPT ![r] = @ + 1]
  /\ AfterLostTry(r, lostToRun[r] + 1 + lostToProbe[r])
  /\ UNCHANGED <<token, marker, record, locals, expired, lostToProbe, owed>>

LoseToProbe(r) ==
  /\ pc[r] = "marker" /\ marker[ProjectOf[r]] \notin Active \cup {NoRun}
  /\ lostToProbe[r] < SpoiledTries
  /\ lostToProbe' = [lostToProbe EXCEPT ![r] = @ + 1]
  /\ AfterLostTry(r, lostToRun[r] + lostToProbe[r] + 1)
  /\ UNCHANGED <<token, marker, record, locals, expired, lostToRun, owed>>

-----------------------------------------------------------------------------
(* The pipeline ends, by returning or raising, and the slot is released. *)

ReleaseMarker(r) ==
  /\ pc[r] = "active"
  /\ marker' = [marker EXCEPT ![ProjectOf[r]] = NoRun]
  /\ Goto(r, IF r \in Jumpers THEN "over" ELSE "leaving")
  /\ outcome' = [outcome EXCEPT ![r] = "done"]
  /\ UNCHANGED <<token, record, locals, expired, tries, owed>>

RemoveRecord(r) ==
  /\ pc[r] = "leaving"
  /\ record' = NoRun
  /\ Goto(r, "closing")
  /\ UNCHANGED <<outcome, token, marker, locals, expired, tries, owed>>

\* Mutant: the handle of the token leaks.
TokenLeaks(r) ==
  /\ pc[r] = "closing"
  /\ Goto(r, "over")
  /\ UNCHANGED <<outcome, token, marker, record, locals, expired, tries, owed>>

CloseToken(r) ==
  /\ pc[r] = "closing"
  /\ token' = NoRun
  /\ Goto(r, "over")
  /\ UNCHANGED <<outcome, marker, record, locals, expired, tries, owed>>

\* The process dies: the system drops its locks, the record stays behind.
Crash(r) ==
  /\ pc[r] \notin {"off", "over"}
  /\ Exit(r, "crashed")
  /\ token' = IF token = r THEN NoRun ELSE token
  /\ marker' = [p \in Projects |-> IF marker[p] = r THEN NoRun ELSE marker[p]]
  /\ UNCHANGED <<record, locals, expired, tries, owed>>

-----------------------------------------------------------------------------
\* The steps the code takes by itself once run_slot() is entered.
Own(r) ==
  \/ TakeToken(r) \/ MissToken(r) \/ QueueSleep(r) \/ QueueTimeout(r)
  \/ WriteRecord(r)
  \/ ProbeFree(r) \/ ProbeDrop(r) \/ ProbeLocked(r)
  \/ ScanClear(r) \/ ScanAgain(r) \/ ScanTimeout(r)
  \/ TakeMarker(r) \/ LoseToRun(r) \/ LoseToProbe(r)
  \/ RemoveRecord(r) \/ CloseToken(r)

Next == \E r \in Runs : Begin(r) \/ Expire(r) \/ Own(r) \/ ReleaseMarker(r) \/ Crash(r)

Spec == Init /\ [][Next]_vars

\* Time passes, and a process that can take its next step takes it.  Nothing
\* is assumed of ReleaseMarker: a pipeline may run for ever.
FairSpec == Spec /\ \A r \in Runs : WF_vars(Own(r)) /\ WF_vars(Expire(r))

-----------------------------------------------------------------------------
Labels   == {"off", "arriving", "queued", "asleep", "record", "scan", "probe",
             "marker", "active", "leaving", "closing", "over"}
Outcomes == {"none", "done", "aborted", "timed_out", "crashed"}

\* Every variable has its type.
TypeOK ==
  /\ pc \in [Runs -> Labels]
  /\ outcome \in [Runs -> Outcomes]
  /\ token \in Runs \cup {NoRun}
  /\ marker \in [Projects -> Runs \cup {NoRun}]
  /\ record \in Runs \cup {NoRun}
  /\ toProbe \in [Runs -> SUBSET Projects]
  /\ locked \in [Runs -> SUBSET Projects]
  /\ rescan \in [Runs -> BOOLEAN]
  /\ expired \in [Runs -> BOOLEAN]
  /\ lostToRun \in [Runs -> 0..MarkerTries]
  /\ lostToProbe \in [Runs -> 0..SpoiledTries]
  /\ owed \in [Runs -> SUBSET Runs]

\* Two runs of one project are never active together, whatever their modes:
\* they would share worktrees and session state.
OneRunPerProject ==
  \A r, s \in Active : ProjectOf[r] = ProjectOf[s] => r = s

\* A lock-respecting run is active neither beside another one nor beside a
\* run that was already active when it took the token: its scans wait for
\* those, although they look at one marker after another.
RespectsTheQueue ==
  \A r, s \in Active : r \notin Jumpers /\ r # s => s \in Jumpers \ owed[r]

\* The holder record describes the present holder: it names no live run but
\* the one with the token, and it names it from the scan until the release.
RecordNamesHolder ==
  /\ record # NoRun /\ pc[record] # "over" => token = record
  /\ \A r \in Runs \ Jumpers :
       pc[r] \in {"scan", "probe", "marker", "active", "leaving"} => record = r

\* "Already in progress" is never the fault of a scan's probe: a run that
\* gives up on its marker met an active run of its project in the window.
AbortsOnlyOnOverlap ==
  \A r \in Runs : outcome[r] = "aborted" => lostToRun[r] > 0

\* Whoever waits holds nothing that another run waits for: a queued run holds
\* no lock, and a run after its marker holds at most the token.
WaitsHoldNothing ==
  \A r \in Runs :
    /\ pc[r] \in {"arriving", "queued", "asleep"} => token # r
    /\ pc[r] \in {"arriving", "queued", "asleep", "scan", "marker"}
         => \A p \in Projects : marker[p] # r

\* No run waits for ever: it gets its slot, aborts, times out or dies, even
\* if the run it waits for never ends.
WaitingEnds ==
  \A r \in Runs : (pc[r] \notin {"off", "active", "over"})
                    ~> (pc[r] \in {"active", "over"})

-----------------------------------------------------------------------------
(* The inductive invariant behind the properties above. *)

\* Who holds the token, read off the program counters.
HoldsToken ==
  \A r \in Runs : (token = r) <=>
    \/ pc[r] \in {"record", "scan", "probe", "leaving", "closing"}
    \/ pc[r] \in {"marker", "active"} /\ r \notin Jumpers

\* Who holds a marker: the active run of the project, or a probing one.
HoldsMarker ==
  /\ \A r \in Runs : pc[r] = "active" => marker[ProjectOf[r]] = r
  /\ \A p \in Projects : marker[p] # NoRun =>
       \/ pc[marker[p]] = "active" /\ ProjectOf[marker[p]] = p
       \/ pc[marker[p]] = "probe" /\ ProjectOf[marker[p]] # p

\* A jumper goes through step 3 only and owes nobody.
JumpersSkipQueue ==
  \A r \in Jumpers : pc[r] \in {"off", "marker", "active", "over"} /\ owed[r] = {}

\* A run that still tries for its marker has tries left.
TriesLeft ==
  \A r \in Runs : pc[r] \notin {"active", "leaving", "closing", "over"}
    => lostToRun[r] + lostToProbe[r] < MarkerTries

\* toProbe names other projects only.
ProbesOthers == \A r \in Runs : toProbe[r] \subseteq Others(r)

\* A run that was active when r got the token never starts again, and while it
\* is active r's scan has it ahead or has found it locked.
ScanMisses(r) == Projects \ (toProbe[r] \cup locked[r] \cup {ProjectOf[r]})
ScanCovers ==
  \A r \in Runs : \A s \in owed[r] :
    /\ pc[s] \in {"active", "leaving", "closing", "over"}
    /\ pc[s] = "active" /\ pc[r] \in {"scan", "probe"} => ProjectOf[s] \notin ScanMisses(r)
    /\ pc[s] = "active" /\ pc[r] \in {"marker", "active"} => ProjectOf[s] = ProjectOf[r]

\* Locks, program counters, tries and scans fit together.
IInv ==
  /\ TypeOK /\ HoldsToken /\ HoldsMarker /\ JumpersSkipQueue
  /\ TriesLeft /\ ProbesOthers /\ ScanCovers

-----------------------------------------------------------------------------
\* The run slot implements RunExclusion: the turn is the token.
Exclusion == INSTANCE RunExclusion WITH turn <- token, active <- Active

\* Every step of the locks and scans is a step, or a stutter, of RunExclusion.
Implements == Exclusion!Spec
=============================================================================
