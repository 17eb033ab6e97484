-------------------------- MODULE ImproveCycleProofs ------------------------
(* Proofs about ImproveCycle, for every scan, draft set, cap and bound.      *)
EXTENDS ImproveCycle, SequenceTheorems, WellFoundedInduction, TLAPS

\* What is said about GitHub and the records.
GithubFits == RecordsFit /\ IssuesFit /\ ReadyInTurn /\ OwnDrafts /\ ReadySetsAreWhole

\* The inductive part of Inv and ReadySetsAreWhole; the rest of Inv follows.
IInv ==
  /\ TypeOK /\ SessionFits /\ FilingFits /\ MadeFits /\ DraftsStay
  /\ LabelsFit /\ NothingLeftBehind /\ CutFits /\ GithubFits

USE SizesAssumption

-----------------------------------------------------------------------------
(* The issues at GitHub are numbered from 1. *)

LEMMA IssueType ==
  ASSUME TypeOK
  PROVE  /\ Len(issues) \in Nat /\ Numbers = 1 .. Len(issues)
         /\ \A i \in Numbers : issues[i] \in Issue
<1>1. issues \in Seq(Issue)
  BY DEF TypeOK
<1> QED
  BY <1>1, LenProperties, ElementOfSeq DEF Numbers

LEMMA SessionType ==
  ASSUME NEW d \in Session
  PROVE  /\ d.fp \in Nat /\ d.scan \in Nat /\ d.listed \in BOOLEAN
         /\ d.count \in 0 .. PerScan /\ d.cursor \in 0 .. PerScan
         /\ d.drafts \in [Handles -> Sets]
         /\ \A c \in Cands :
              /\ d.rec[c].spec \in {0} \cup Numbers /\ d.rec[c].labelled \in BOOLEAN
              /\ \A h \in 1 .. Tickets : d.rec[c].filed[h] \in {0} \cup Numbers
  BY DEF Session, Record

LEMMA Types ==
  ASSUME TypeOK
  PROVE  /\ head \in Nat /\ disk \in Session
         /\ disk.fp \in Nat /\ disk.scan \in Nat /\ disk.listed \in BOOLEAN
         /\ disk.count \in 0 .. PerScan /\ disk.cursor \in 0 .. PerScan
         /\ disk.drafts \in [Handles -> Sets]
         /\ \A c \in Cands :
              /\ disk.rec[c].spec \in {0} \cup Numbers /\ disk.rec[c].labelled \in BOOLEAN
              /\ \A h \in 1 .. Tickets : disk.rec[c].filed[h] \in {0} \cup Numbers
         /\ work.cand \in 0 .. PerScan /\ work.made \in {0} \cup Numbers
         /\ work.wind \in BOOLEAN /\ world.scans \in Nat /\ world.faults \in Nat
         /\ 0 \notin Numbers
<1>1. disk \in Session /\ head \in Nat
  BY DEF TypeOK
<1>2. /\ work.cand \in 0 .. PerScan /\ work.made \in {0} \cup Numbers
      /\ work.wind \in BOOLEAN /\ world.scans \in Nat /\ world.faults \in Nat
  BY DEF TypeOK, Locals, World
<1>3. 0 \notin Numbers
  BY IssueType
<1> QED BY <1>1, <1>2, <1>3, SessionType

\* A new issue gets a number that nothing refers to.
LEMMA NewNumber ==
  ASSUME TypeOK, NEW r, issues' = Append(issues, r)
  PROVE  /\ Numbers' = Numbers \cup {Len(issues) + 1} /\ Len(issues) + 1 \notin Numbers
         /\ 0 \notin Numbers' /\ Len(issues) + 1 \in Nat
         /\ issues'[Len(issues) + 1] = r
         /\ \A i \in Numbers : issues'[i] = issues[i]
         /\ r \in Issue' => issues' \in Seq(Issue')
<1>1. issues \in Seq(Issue) /\ Len(issues) \in Nat /\ Numbers = 1 .. Len(issues)
  BY IssueType DEF TypeOK
<1>2. /\ DOMAIN issues' = 1 .. Len(issues) + 1 /\ issues'[Len(issues) + 1] = r
      /\ \A i \in 1 .. Len(issues) : issues'[i] = issues[i]
  BY <1>1
<1>3. Numbers' = Numbers \cup {Len(issues) + 1}
  BY <1>1, <1>2 DEF Numbers
<1>4. ASSUME r \in Issue' PROVE issues' \in Seq(Issue')
  <2>1. Issue \subseteq Issue'
    BY <1>3 DEF Issue
  <2>2. issues \in Seq(Issue')
    BY <1>1, <2>1, SeqMonotonic
  <2> QED BY <1>4, <2>2
<1> QED BY <1>1, <1>2, <1>3, <1>4

\* An issue is changed: the numbers stay.
LEMMA SameNumbers ==
  ASSUME TypeOK, issues' = [n \in Numbers |-> issues'[n]],
         Issue' = Issue => \A n \in Numbers : issues'[n] \in Issue
  PROVE  /\ Numbers' = Numbers /\ Issue' = Issue /\ Record' = Record /\ Session' = Session
         /\ issues' \in Seq(Issue')
<1>1. issues \in Seq(Issue) /\ Len(issues) \in Nat /\ Numbers = 1 .. Len(issues)
  BY IssueType DEF TypeOK
<1>2. Numbers' = Numbers
  BY DEF Numbers
<1>3. Issue' = Issue /\ Record' = Record
  BY <1>2 DEF Issue, Record
<1>4. Session' = Session
  BY <1>3 DEF Session
<1>5. issues' \in [1 .. Len(issues) -> Issue]
  BY <1>1, <1>3
<1>6. issues' \in Seq(Issue)
  BY <1>1, <1>5, SeqDef
<1> QED BY <1>2, <1>3, <1>4, <1>6

LEMMA SameIssues ==
  ASSUME TypeOK, issues' = issues
  PROVE  /\ Numbers' = Numbers /\ Issue' = Issue /\ Session' = Session
         /\ issues' \in Seq(Issue') /\ ReadyIssues' = ReadyIssues /\ Locals' = Locals
<1>1. Numbers' = Numbers
  BY DEF Numbers
<1>2. Issue' = Issue /\ Record' = Record
  BY <1>1 DEF Issue, Record
<1>3. Session' = Session
  BY <1>2 DEF Session
<1>4. ReadyIssues' = ReadyIssues /\ Locals' = Locals
  BY <1>1 DEF ReadyIssues, Open, Locals
<1> QED BY <1>1, <1>2, <1>3, <1>4 DEF TypeOK

LEMMA NoWorkType == NoWork \in Locals /\ NoSession \in Session /\ NewRun \in Carried
<1>1. NoWork \in Locals /\ NewRun \in Carried
  BY DEF NoWork, Locals, NewRun, Carried
<1>2. NoSession \in Session
  BY DEF NoSession, NoRecord, Session, Record, Nobody, Sets, Cands, Handles
<1> QED BY <1>1, <1>2

-----------------------------------------------------------------------------
(* The drafts and the cursor. *)

\* A set of numbers that is not empty has a least one.
LEMMA LeastExists ==
  ASSUME NEW S \in SUBSET Nat, S # {}
  PROVE  \E m \in S : \A n \in S : m <= n
<1>1. PICK m \in S : \A n \in S : ~(<<n, m>> \in OpToRel(<, Nat))
  BY NatLessThanWellFounded, WFMin
<1>2. \A n \in S : ~(n < m)
  BY <1>1 DEF OpToRel
<1> QED BY <1>2

LEMMA LeastTicket ==
  ASSUME TypeOK, ToFile # {}
  PROVE  NextTicket \in ToFile /\ \A g \in ToFile : NextTicket <= g
<1>1. ToFile \subseteq Nat
  BY DEF ToFile, Drafted
<1>2. \E m \in ToFile : \A g \in ToFile : m <= g
  BY <1>1, LeastExists
<1> QED BY <1>2 DEF NextTicket

LEMMA ClearedFields ==
  ASSUME NEW d \in Session
  PROVE  /\ Cleared(d).drafts = [h \in Handles |-> Nobody] /\ Cleared(d).valid = FALSE
         /\ Cleared(d).fp = d.fp /\ Cleared(d).scan = d.scan /\ Cleared(d).rec = d.rec
         /\ Cleared(d).listed = d.listed /\ Cleared(d).count = d.count
         /\ Cleared(d).cursor = d.cursor /\ Cleared(d).inFlight = d.inFlight
         /\ Cleared(d) \in Session
  BY DEF Cleared, Session, Nobody, Sets

\* No candidate at or after the cursor is filed.
CursorFits(d) ==
  /\ d \in Session /\ (d.count # 0 => d.cursor <= d.count)
  /\ ~d.listed => d.count = 0
  /\ \A c \in Cands : d.rec[c].labelled => c < d.cursor

\* So the next step is about the candidate at the cursor, and marking it changes
\* nothing else.
LEMMA AdvanceEffect ==
  ASSUME NEW d, CursorFits(d), Advance(d), Session' = Session
  PROVE  /\ disk' \in Session /\ disk' = [d EXCEPT !.inFlight = disk'.inFlight]
         /\ pc' \in PhaseSteps \cup {"over"}
         /\ pc' = "scan" => ~d.listed
         /\ pc' = "report" => d.listed /\ d.count = 0 /\ d.cursor = 0
         /\ pc' \in {"spec", "tickets"} => d.cursor < d.count
<1>1. ASSUME d.count # 0 PROVE Cursor(d) = d.cursor
  <2>1. CASE d.cursor = d.count
    BY <1>1, <2>1 DEF Cursor, CursorFits, Session
  <2>2. CASE d.cursor < d.count
    <3>1. d.cursor \in d.cursor .. d.count - 1 /\ ~d.rec[d.cursor].labelled
      BY <1>1, <2>2 DEF CursorFits, Session, Cands
    <3>2. \A c \in d.cursor .. d.count - 1 :
            ~d.rec[c].labelled /\ (\A b \in d.cursor .. c - 1 : d.rec[b].labelled)
            => c = d.cursor
      BY <1>1, <2>2, <3>1 DEF CursorFits, Session
    <3> QED BY <3>1, <3>2 DEF Cursor, CursorFits, Session
  <2> QED BY <1>1, <2>1, <2>2 DEF CursorFits, Session
<1>2. StepFrom(d) \in PhaseSteps \cup {"over"}
  BY DEF StepFrom, PhaseSteps
<1>3. /\ StepFrom(d) = "scan" => ~d.listed
      /\ StepFrom(d) = "report" => d.listed /\ d.count = 0 /\ d.cursor = 0
      /\ StepFrom(d) \in {"spec", "tickets"} => d.cursor < d.count
  BY <1>1 DEF StepFrom, CursorFits, Session
<1>4. pc' = StepFrom(d) /\ disk' = Marked(d)
  BY DEF Advance, Goto
<1>5. \E f \in PhaseSteps \cup {NoFile} : disk' = [d EXCEPT !.inFlight = f]
  <2>1. CASE d.listed /\ d.count > 0
    <3> DEFINE f == IF StepFrom(d) = "over" THEN NoFile ELSE StepFrom(d)
    <3>1. Marked(d) = [d EXCEPT !.inFlight = f, !.cursor = Cursor(d)]
      BY <2>1, Zenon DEF Marked
    <3>2. Cursor(d) = d.cursor
      BY <1>1, <2>1 DEF CursorFits, Session
    <3>3. f \in PhaseSteps \cup {NoFile} /\ Marked(d) = [d EXCEPT !.inFlight = f]
      BY <1>2, <3>1, <3>2 DEF CursorFits, Session
    <3> QED BY <1>4, <3>3
  <2>2. CASE ~(d.listed /\ d.count > 0)
    BY <1>2, <1>4, <2>2 DEF Marked, CursorFits, Session
  <2> QED BY <2>1, <2>2
<1> QED BY <1>2, <1>3, <1>4, <1>5 DEF CursorFits, Session

-----------------------------------------------------------------------------
(* What most steps leave alone. *)

\* The records say of GitHub what they said.
SameRecords(d) ==
  /\ d.scan = disk.scan
  /\ \A c \in Cands : /\ d.rec[c].spec = disk.rec[c].spec
                      /\ d.rec[c].filed = disk.rec[c].filed
                      /\ d.rec[c].labelled = disk.rec[c].labelled

\* Nothing fails that failed before, and the ghost remembers.
WorldGoesOn ==
  /\ world'.scans = world.scans /\ world.foreign \subseteq world'.foreign
  /\ world'.faults = 0 => world.faults = 0

\* RecordsFit, one record and one ticket at a time.
TicketOf(j, spec, h, set) ==
  j.parent = spec /\ j.handle = h /\ j.set = set /\ j.sub /\ j.needs \subseteq j.deps

SpecFits(c) ==
  /\ disk.rec[c].labelled => disk.rec[c].spec # 0
  /\ disk.rec[c].spec # 0 =>
       /\ disk.rec[c].spec # work.made
       /\ issues[disk.rec[c].spec].handle = 0 /\ issues[disk.rec[c].spec].set = Author(c)

TicketFits(c, h) ==
  disk.rec[c].filed[h] # 0 =>
    /\ disk.rec[c].spec # 0 /\ disk.rec[c].filed[h] # work.made
    /\ TicketOf(issues[disk.rec[c].filed[h]], disk.rec[c].spec, h, Author(c))
    /\ disk.rec[c].labelled => issues[disk.rec[c].filed[h]].ready
    /\ issues[disk.rec[c].filed[h]].open => Open(disk.rec[c].spec)

LEMMA RecordFacts ==
  ASSUME RecordsFit, NEW c \in Cands
  PROVE  SpecFits(c) /\ \A h \in 1 .. Tickets : TicketFits(c, h)
  BY ZenonT(60) DEF RecordsFit, SpecFits, TicketFits, TicketOf

LEMMA IssueFacts ==
  ASSUME IssuesFit, NEW i \in Numbers
  PROVE  /\ issues[i].handle # 0 <=> issues[i].parent # 0
         /\ issues[i].parent # 0 => issues[issues[i].parent].set = issues[i].set
         /\ \A c \in Cands : issues[i].set = Author(c) /\ issues[i].handle # 0 =>
              /\ issues[i].parent = disk.rec[c].spec
              /\ issues[i].ready => disk.rec[c].filed[issues[i].handle] = i
  BY ZenonT(60) DEF IssuesFit

LEMMA RecordsFitNext ==
  ASSUME \A c \in Cands : SpecFits(c)' /\ \A h \in 1 .. Tickets : TicketFits(c, h)'
  PROVE  RecordsFit'
  BY ZenonT(60) DEF RecordsFit, SpecFits, TicketFits, TicketOf

\* What a record says stays true of issues that stay as they are.
LEMMA SpecStays ==
  ASSUME NEW c \in Cands, SpecFits(c), Author(c)' = Author(c),
         disk'.rec[c].spec = disk.rec[c].spec,
         disk'.rec[c].labelled => disk.rec[c].labelled \/ disk.rec[c].spec # 0,
         disk.rec[c].spec # 0 =>
           /\ disk.rec[c].spec # work'.made
           /\ issues'[disk.rec[c].spec].handle = issues[disk.rec[c].spec].handle
           /\ issues'[disk.rec[c].spec].set = issues[disk.rec[c].spec].set
  PROVE  SpecFits(c)'
  BY DEF SpecFits

LEMMA TicketStays ==
  ASSUME NEW c \in Cands, NEW h \in 1 .. Tickets, TicketFits(c, h), Author(c)' = Author(c),
         disk'.rec[c].spec = disk.rec[c].spec,
         disk'.rec[c].filed[h] = disk.rec[c].filed[h],
         disk.rec[c].filed[h] # 0 =>
           LET j == issues[disk.rec[c].filed[h]]
               m == issues'[disk.rec[c].filed[h]]
           IN  /\ disk.rec[c].filed[h] # work'.made
               /\ m.parent = j.parent /\ m.handle = j.handle /\ m.set = j.set
               /\ m.sub = j.sub /\ m.needs = j.needs /\ m.deps = j.deps
               /\ disk'.rec[c].labelled /\ (disk.rec[c].labelled => j.ready) => m.ready
               /\ m.open => j.open
               /\ m.open /\ issues[disk.rec[c].spec].open => issues'[disk.rec[c].spec].open
  PROVE  TicketFits(c, h)'
<1>1. CASE disk.rec[c].filed[h] = 0
  BY <1>1 DEF TicketFits
<1>2. CASE disk.rec[c].filed[h] # 0
  BY <1>2 DEF TicketFits, TicketOf, Open
<1> QED BY <1>1, <1>2

LEMMA FrameKeeps ==
  ASSUME IInv, issues' = issues, SameRecords(disk'), WorldGoesOn,
         work'.made \in {0, work.made}
  PROVE  GithubFits'
<1> USE DEF IInv, GithubFits, SameRecords, WorldGoesOn
<1>1. Numbers' = Numbers /\ \A i : Open(i)' = Open(i)
  BY DEF Numbers, Open
<1>2. \A c \in Cands : Author(c)' = Author(c)
  BY DEF Author
<1>3. RecordsFit'
  <2>1. ASSUME NEW c \in Cands PROVE SpecFits(c)'
    <3>1. SpecFits(c)
      BY RecordFacts
    <3>2. /\ disk'.rec[c].spec = disk.rec[c].spec
          /\ disk'.rec[c].labelled = disk.rec[c].labelled /\ Author(c)' = Author(c)
      BY <1>2
    <3> QED BY <3>1, <3>2, SpecStays DEF SpecFits
  <2>2. ASSUME NEW c \in Cands, NEW h \in 1 .. Tickets PROVE TicketFits(c, h)'
    <3>1. TicketFits(c, h)
      BY RecordFacts
    <3>2. /\ disk'.rec[c].spec = disk.rec[c].spec /\ disk'.rec[c].filed = disk.rec[c].filed
          /\ disk'.rec[c].labelled = disk.rec[c].labelled /\ Author(c)' = Author(c)
      BY <1>2
    <3>3. disk.rec[c].filed[h] # 0 => disk.rec[c].filed[h] # work'.made
      BY <3>1 DEF TicketFits
    <3> QED BY <3>1, <3>2, <3>3, TicketStays
  <2> QED BY <2>1, <2>2, RecordsFitNext
<1>4. IssuesFit'
  BY <1>1, <1>2 DEF IssuesFit, Cands
<1>5. ReadyInTurn' /\ OwnDrafts'
  BY <1>1 DEF ReadyInTurn, OwnDrafts
<1>6. ReadySetsAreWhole'
  BY <1>1 DEF ReadySetsAreWhole, Connected, Whole
<1> QED BY <1>3, <1>4, <1>5, <1>6 DEF GithubFits

\* Records that are empty, of a scan nothing was filed of yet, say nothing.
LEMMA EmptyKeeps ==
  ASSUME IInv, issues' = issues, world'.scans \in Nat, world.scans <= world'.scans,
         world.foreign \subseteq world'.foreign, world'.faults = 0 => world.faults = 0,
         disk'.scan \notin 1 .. world.scans,
         \A c \in Cands : /\ ~disk'.rec[c].labelled /\ disk'.rec[c].spec = 0
                         /\ \A h \in 1 .. Tickets : disk'.rec[c].filed[h] = 0
  PROVE  GithubFits'
<1> USE DEF IInv, GithubFits
<1>1. Numbers' = Numbers /\ \A i : Open(i)' = Open(i)
  BY DEF Numbers, Open
<1>2. RecordsFit'
  <2>1. ASSUME NEW c \in Cands PROVE SpecFits(c)' /\ \A h \in 1 .. Tickets : TicketFits(c, h)'
    BY <2>1 DEF SpecFits, TicketFits
  <2> QED BY <2>1, RecordsFitNext
<1>3. \A c \in Cands, i \in Numbers : issues[i].set # Author(c)'
  BY Types DEF Author, IssuesFit
<1>4. IssuesFit'
  <2>1. (1 .. world.scans) \X Cands \subseteq (1 .. world'.scans) \X Cands
    BY Types
  <2> QED BY <1>1, <1>3, <2>1 DEF IssuesFit, Cands
<1>5. ReadyInTurn' /\ OwnDrafts'
  BY <1>1 DEF ReadyInTurn, OwnDrafts
<1>6. ReadySetsAreWhole'
  BY <1>1 DEF ReadySetsAreWhole, Connected, Whole
<1> QED BY <1>2, <1>4, <1>5, <1>6 DEF GithubFits

\* Two neighbours are not startable side by side: the later one waits for the
\* spec of the earlier, and that is open as long as one of its tickets is.
LEMMA Derived == IInv => Inv
<1> SUFFICES ASSUME IInv PROVE NextCandidateWaits /\ PlanningWaits
  BY DEF IInv, GithubFits, Inv
<1> USE DEF IInv, GithubFits
<1>1. ASSUME NEW i \in Startable, NEW j \in Startable,
             issues[j].set[1] = issues[i].set[1] /\ issues[j].set[2] = issues[i].set[2] + 1
      PROVE  FALSE
  <2>1. /\ {i, j} \subseteq Numbers
        /\ issues[i].ready /\ issues[j].ready /\ Open(i) /\ Open(j)
        /\ \A b \in issues[j].deps : ~Open(b)
    BY DEF Startable, ReadyIssues
  <2>2. issues[i].parent \in issues[j].deps
    BY <1>1, <2>1 DEF ReadyInTurn, ReadySetsAreWhole, Connected
  <2>3. Open(issues[i].parent)
    BY <2>1 DEF IssuesFit, Open
  <2> QED BY <2>1, <2>2, <2>3
<1> QED BY <1>1 DEF NextCandidateWaits, PlanningWaits, CutFits

\* A set whose label pass was cut short belongs to a session whose commit is no
\* longer the branch's, or the next iteration has something to implement.
HalfLabelled(c) ==
  ~disk.rec[c].labelled /\ \E h \in 1 .. Tickets :
    disk.rec[c].filed[h] # 0 /\ issues[disk.rec[c].filed[h]].ready

LEMMA HalfLabelledWhere ==
  ASSUME IInv, NEW c \in Cands, HalfLabelled(c)
  PROVE  \/ pc = "file" /\ c = work.cand
         \/ disk.fp # head
         \/ /\ pc \in {"off", "idle", "plan"} /\ ReadyIssues # {}
            /\ pc = "idle" => ~run.interrupted
  BY DEF IInv, GithubFits, LabelsFit, HalfLabelled

\* Nothing is left behind but the drafts of the candidate at the cursor.
NothingLeft(d) ==
  /\ \A h \in Handles : d.drafts[h] # Nobody => d.drafts[h] = <<d.scan, d.cursor>>
  /\ \A c \in Cands : d.rec[c].spec # 0 => d.rec[c].labelled
  /\ \A i \in Numbers : issues[i].handle # 0 => issues[i].ready

\* The program leaves the phase, or is between phases, or goes from one candidate
\* to the next: it keeps what is on disk, but may remove the drafts.
Elsewhere == {"off", "idle", "plan", "improve", "wind", "enter", "mid", "over"}

LEMMA AwayWith ==
  ASSUME IInv, TypeOK', CutFits', WorldGoesOn, issues' = issues,
         disk' \in {disk, Cleared(disk)}, head <= head',
         \A c \in Cands : HalfLabelled(c) =>
           \/ disk.fp # head'
           \/ /\ pc' \in {"off", "idle", "plan"} /\ ReadyIssues # {}
              /\ pc' = "idle" => ~run'.interrupted,
         work'.made = 0, ~work'.wind, pc' \in Elsewhere,
         pc' = "wind" => disk.fp # head', pc' = "enter" => disk.fp = head',
         world'.faults = 0 => NothingLeft(disk')
  PROVE  IInv'
<1> USE DEF IInv, GithubFits, Elsewhere
<1>1. /\ SameRecords(disk') /\ disk'.fp = disk.fp /\ disk'.listed = disk.listed
      /\ disk'.count = disk.count /\ disk'.cursor = disk.cursor
      /\ \/ disk' = disk
         \/ disk'.valid = FALSE /\ disk'.drafts = [h \in Handles |-> Nobody]
  <2>1. CASE disk' = disk
    BY <2>1 DEF SameRecords
  <2>2. CASE disk' = Cleared(disk)
    BY <2>2, Types, ClearedFields DEF SameRecords
  <2> QED BY <2>1, <2>2
<1>2. GithubFits'
  BY <1>1, FrameKeeps
<1>3. SessionFits'
  <2>1. head' \in Nat
    BY DEF TypeOK
  <2> QED BY <1>1, <2>1, Types DEF SessionFits, SameRecords, WorldGoesOn, PhaseSteps
<1>4. FilingFits' /\ MadeFits'
  BY DEF FilingFits, MadeFits
<1>5. DraftsStay'
  <2>1. ASSUME NEW c \in Cands, NEW h \in 1 .. Tickets,
               disk'.rec[c].filed[h] # 0, disk'.drafts[0] = Author(c)'
        PROVE  issues[disk'.rec[c].filed[h]].drafts \subseteq Drafted'
    <3>1. disk.rec[c].filed[h] # 0 /\ disk.rec[c].spec # 0
      <4>1. disk.rec[c].filed[h] # 0
        BY <1>1, <2>1 DEF SameRecords
      <4> QED BY <4>1, RecordFacts DEF TicketFits
    <3>2. disk.scan # 0 /\ disk.scan \in Nat
      BY <3>1, Types DEF SessionFits, Cands
    <3>3. Author(c)' = Author(c) /\ Author(c) # Nobody
      BY <1>1, <3>2 DEF SameRecords, Author, Nobody
    <3>4. disk' = disk
      BY <1>1, <2>1, <3>3 DEF Handles
    <3> QED BY <2>1, <3>1, <3>3, <3>4 DEF DraftsStay, Drafted
  <2> QED BY <2>1 DEF DraftsStay
<1>6. NothingLeftBehind'
  <2>1. Numbers' = Numbers
    BY SameIssues
  <2> QED BY <2>1 DEF NothingLeftBehind, NothingLeft, Author
<1>7. LabelsFit'
  <2>1. Drafted' \subseteq Drafted
    BY <1>1 DEF Drafted, Handles
  <2>2. ASSUME NEW c \in Cands, NEW h \in 1 .. Tickets,
               ~disk'.rec[c].labelled, disk'.rec[c].filed[h] # 0,
               issues[disk'.rec[c].filed[h]].ready
        PROVE  /\ HalfLabelled(c) /\ \A g \in Drafted' : disk'.rec[c].filed[g] # 0
    <3>1. ~disk.rec[c].labelled /\ disk.rec[c].filed[h] # 0
          /\ issues[disk.rec[c].filed[h]].ready /\ disk'.rec[c].filed = disk.rec[c].filed
      BY <1>1, <2>2 DEF SameRecords
    <3> QED BY <2>1, <3>1 DEF HalfLabelled, LabelsFit
  <2>3. ReadyIssues' = ReadyIssues
    BY SameIssues
  <2> QED BY <1>1, <2>2, <2>3 DEF LabelsFit
<1> QED BY <1>2, <1>3, <1>4, <1>5, <1>6, <1>7

LEMMA Away ==
  ASSUME IInv, TypeOK', CutFits', WorldGoesOn, issues' = issues,
         disk' \in {disk, Cleared(disk)}, head <= head',
         \A c \in Cands : HalfLabelled(c) =>
           \/ disk.fp # head'
           \/ /\ pc' \in {"off", "idle", "plan"} /\ ReadyIssues # {}
              /\ pc' = "idle" => ~run'.interrupted,
         work'.made = 0, ~work'.wind, pc' \in Elsewhere,
         pc' = "wind" => disk.fp # head', pc' = "enter" => disk.fp = head',
         world'.faults = 0 => pc # "file" /\ (pc = "resolve" => disk' = Cleared(disk))
  PROVE  IInv'
<1>1. ASSUME world'.faults = 0 PROVE NothingLeft(disk')
  <2>1. world.faults = 0 /\ pc # "file"
    BY <1>1 DEF WorldGoesOn
  <2>2. /\ \A c \in Cands : disk.rec[c].spec # 0 => disk.rec[c].labelled
        /\ \A i \in Numbers : issues[i].handle # 0 => issues[i].ready
    BY <2>1 DEF IInv, NothingLeftBehind
  <2>3. CASE disk' = Cleared(disk)
    <3>1. disk'.rec = disk.rec /\ disk'.drafts = [h \in Handles |-> Nobody]
      BY <2>3, ClearedFields, Types DEF IInv
    <3> QED BY <2>2, <3>1 DEF NothingLeft
  <2>4. CASE disk' = disk /\ pc # "resolve"
    BY <2>1, <2>2, <2>4 DEF IInv, NothingLeftBehind, NothingLeft, Author
  <2> QED BY <1>1, <2>3, <2>4
<1> QED BY <1>1, AwayWith

-----------------------------------------------------------------------------
(* The run and its iterations. *)

LEMMA HalfLabelledAway ==
  ASSUME IInv, pc \in Elsewhere \ {"off", "idle", "plan"} \/ pc \in PhaseSteps \cup {"resolve"}
  PROVE  \A c \in Cands : HalfLabelled(c) => disk.fp # head
  BY HalfLabelledWhere DEF Elsewhere, PhaseSteps

LEMMA InitInv == Init => IInv
<1> SUFFICES ASSUME Init PROVE IInv
  OBVIOUS
<1> USE DEF Init
<1>1. TypeOK
  <2>1. issues \in Seq(Issue) /\ Numbers = {}
    BY DEF Numbers
  <2>2. disk \in Session
    BY DEF NoSession, Session, Record, NoRecord, Nobody, Sets, Cands, Handles
  <2> QED BY <2>1, <2>2 DEF TypeOK, NewRun, NoWork, Carried, Locals, World
<1>2. SessionFits /\ FilingFits /\ MadeFits
  BY DEF SessionFits, FilingFits, MadeFits, NoSession, NoRecord, NoWork, PhaseSteps
<1>3. DraftsStay /\ LabelsFit /\ CutFits
  BY DEF DraftsStay, LabelsFit, CutFits, NoSession, NoRecord, NewRun
<1>4. NothingLeftBehind /\ GithubFits
  BY DEF NothingLeftBehind, GithubFits, RecordsFit, IssuesFit, ReadyInTurn, OwnDrafts,
     ReadySetsAreWhole, NoSession, NoRecord, NoWork, Numbers, Handles
<1> QED BY <1>1, <1>2, <1>3, <1>4 DEF IInv

LEMMA StartRunKeeps == ASSUME IInv, StartRun PROVE IInv'
<1> USE DEF StartRun, Goto, NewRun
<1>1. TypeOK'
  <2>1. run' \in Carried /\ world' \in World
    BY SMTT(60) DEF IInv, TypeOK, Carried, World
  <2> QED BY <2>1, SameIssues DEF IInv, TypeOK
<1>2. CutFits'
  BY DEF CutFits
<1>3. WorldGoesOn
  BY DEF WorldGoesOn, IInv, TypeOK, World
<1>4. \A c \in Cands : HalfLabelled(c) => disk.fp # head \/ ReadyIssues # {}
  BY HalfLabelledWhere
<1>5. work.made = 0 /\ ~work.wind
  BY DEF IInv, FilingFits
<1>6. head <= head
  BY DEF IInv, TypeOK
<1> QED BY <1>1, <1>2, <1>3, <1>4, <1>5, <1>6, Away DEF Elsewhere

LEMMA IterateKeeps == ASSUME IInv, Iterate PROVE IInv'
<1> USE DEF Iterate, Goto
<1>1. /\ UNCHANGED <<head, issues, disk, world>> /\ pc = "idle"
      /\ pc' \in {"off", "plan", "improve"}
      /\ run'.interrupted = run.interrupted /\ run'.cut = run.cut
      /\ pc' = "plan" => ~run.interrupted
      /\ pc' = "improve" => ReadyIssues = {} \/ run.interrupted
  BY DEF IInv, TypeOK, Off, Carried
<1>2. work'.made = 0 /\ ~work'.wind
  BY DEF IInv, FilingFits, TypeOK, Off, NoWork, Locals
<1>3. TypeOK'
  <2>1. run' \in Carried
    BY DEF IInv, TypeOK, Carried
  <2>2. work' \in {work, NoWork, [work EXCEPT !.pending = ReadyIssues # {}]}
    BY DEF Off
  <2>3. work' \in Locals
    BY <2>2, NoWorkType DEF IInv, TypeOK, Locals
  <2> QED BY <1>1, <2>1, <2>3, SameIssues DEF IInv, TypeOK
<1>4. CutFits' /\ WorldGoesOn
  BY <1>1 DEF CutFits, WorldGoesOn, IInv, TypeOK
<1>5. \A c \in Cands : HalfLabelled(c) =>
        disk.fp # head \/ (pc' \in {"off", "plan"} /\ ReadyIssues # {})
  BY <1>1, HalfLabelledWhere
<1>6. head <= head'
  BY <1>1 DEF IInv, TypeOK
<1> QED BY <1>1, <1>2, <1>3, <1>4, <1>5, <1>6, Away DEF Elsewhere

LEMMA AfterLimitEffect ==
  ASSUME NEW r, AfterLimit(r), r \in Carried
  PROVE  /\ run' \in Carried /\ run'.interrupted = r.interrupted /\ run'.cut = r.cut
         /\ pc' \in {"off", "idle"} /\ work' = NoWork
  BY DEF AfterLimit, Carried, Idle, Off, Goto

\* What Away asks of a step that ends the iteration or the run.
LEMMA Ends ==
  ASSUME IInv, run' \in Carried, run'.cut => run'.interrupted, world' \in World, WorldGoesOn,
         issues' = issues, disk' \in {disk, Cleared(disk)}, head' \in Nat, head <= head',
         \A c \in Cands : HalfLabelled(c) =>
           disk.fp # head' \/ (ReadyIssues # {} /\ (pc' = "idle" => ~run'.interrupted)),
         work' = NoWork, pc' \in {"off", "idle"},
         world'.faults = 0 => pc # "file" /\ (pc = "resolve" => disk' = Cleared(disk))
  PROVE  IInv'
<1>1. disk' \in Session
  BY ClearedFields, Types DEF IInv
<1>2. TypeOK'
  <2>1. /\ Session' = Session /\ Locals' = Locals /\ issues' \in Seq(Issue')
    BY SameIssues DEF IInv
  <2>2. work' \in Locals
    BY NoWorkType
  <2> QED BY <1>1, <2>1, <2>2 DEF TypeOK
<1>3. CutFits'
  BY DEF CutFits
<1>4. work'.made = 0 /\ ~work'.wind
  BY DEF NoWork
<1> QED BY <1>2, <1>3, <1>4, Away DEF Elsewhere

LEMMA StopEffect ==
  ASSUME IInv, Stop
  PROVE  world' \in World /\ WorldGoesOn /\ world'.faults = world.faults
  BY SMTT(60) DEF IInv, TypeOK, World, Stop, WorldGoesOn

LEMMA BlockedKeeps == ASSUME IInv, Blocked PROVE IInv'
<1>1. /\ pc = "improve" /\ Stop /\ UNCHANGED <<issues, disk>> /\ work' = NoWork
      /\ pc' \in {"off", "idle"} /\ head' \in {head, head + 1}
      /\ run' = [run EXCEPT !.interrupted = FALSE, !.cut = FALSE]
  BY DEF Blocked, Off, Idle, Goto
<1>2. run' \in Carried /\ ~run'.cut
  BY <1>1 DEF IInv, TypeOK, Carried
<1>3. head \in Nat /\ disk.fp \in Nat /\ disk.fp <= head
  BY Types DEF IInv, SessionFits
<1>4. \A c \in Cands : HalfLabelled(c) => disk.fp # head'
  BY <1>1, <1>3, HalfLabelledAway DEF Elsewhere
<1>5. head <= head' /\ head' \in Nat
  BY <1>1, <1>3
<1> QED BY <1>1, <1>2, <1>4, <1>5, StopEffect, Ends

LEMMA SafeShaKeeps == ASSUME IInv, SafeSha PROVE IInv'
<1>1. /\ pc = "improve" /\ UNCHANGED <<head, issues, disk, run, work, world>>
      /\ IF disk.fp # head THEN pc' = "wind" ELSE pc' = "enter"
  BY DEF SafeSha, Goto
<1>2. TypeOK'
  BY <1>1, SameIssues DEF IInv, TypeOK
<1>3. CutFits' /\ WorldGoesOn /\ head <= head'
  BY <1>1 DEF IInv, CutFits, WorldGoesOn, TypeOK
<1>4. work'.made = 0 /\ ~work'.wind
  BY <1>1 DEF IInv, FilingFits
<1>5. \A c \in Cands : HalfLabelled(c) => disk.fp # head'
  BY <1>1, HalfLabelledAway DEF Elsewhere
<1> QED BY <1>1, <1>2, <1>3, <1>4, <1>5, Away DEF Elsewhere

LEMMA OthersPushKeeps == ASSUME IInv, OthersPush PROVE IInv'
<1>1. /\ pc \in {"improve", "mid"} /\ UNCHANGED <<issues, disk, run, work, pc>>
      /\ Stop /\ head' = head + 1
  BY DEF OthersPush
<1>2. TypeOK'
  BY <1>1, SameIssues, StopEffect DEF IInv, TypeOK
<1>3. CutFits'
  BY <1>1 DEF IInv, CutFits
<1>4. work'.made = 0 /\ ~work'.wind
  BY <1>1 DEF IInv, FilingFits
<1>5. head <= head' /\ disk.fp # head'
  BY <1>1, Types DEF IInv, SessionFits
<1> QED BY <1>1, <1>2, <1>3, <1>4, <1>5, Away, StopEffect DEF Elsewhere

LEMMA HalfLabelledAnywhere ==
  ASSUME IInv, NEW c \in Cands, HalfLabelled(c)
  PROVE  disk.fp # head \/ ReadyIssues # {}
<1> SUFFICES ASSUME pc = "file", c = work.cand, disk.fp = head PROVE ReadyIssues # {}
  BY HalfLabelledWhere
<1>1. PICK h \in 1 .. Tickets : Rec.filed[h] # 0 /\ issues[Rec.filed[h]].ready
  BY DEF HalfLabelled, Rec
<1>2. Open(Rec.filed[h])
  BY <1>1 DEF IInv, FilingFits
<1>3. Rec.filed[h] \in Numbers
  BY <1>1, Types DEF IInv, Rec
<1> QED BY <1>1, <1>2, <1>3 DEF ReadyIssues

LEMMA AtWork ==
  ASSUME IInv, AgentAtWork
  PROVE  /\ pc # "file" /\ Unwound \in {disk, Cleared(disk)}
         /\ pc = "resolve" => Unwound = Cleared(disk)
         /\ \A c \in Cands : HalfLabelled(c) => disk.fp # head
  BY HalfLabelledAway DEF AgentAtWork, Unwound, PhaseSteps, Elsewhere

LEMMA UsageLimitKeeps == ASSUME IInv, UsageLimit PROVE IInv'
<1> DEFINE r == [run EXCEPT !.interrupted = TRUE, !.cut = TRUE]
<1>1. /\ AgentAtWork /\ Stop /\ AfterLimit(r) /\ disk' = Unwound
      /\ UNCHANGED <<head, issues>>
  BY DEF UsageLimit
<1>2. r \in Carried /\ r.interrupted = TRUE
  BY DEF IInv, TypeOK, Carried
<1>3. /\ run' \in Carried /\ run'.interrupted = TRUE
      /\ pc' \in {"off", "idle"} /\ work' = NoWork
  BY <1>1, <1>2, AfterLimitEffect
<1>4. head \in Nat /\ head <= head
  BY Types DEF IInv
<1> QED BY <1>1, <1>3, <1>4, AtWork, StopEffect, Ends

LEMMA TimeoutKeeps == ASSUME IInv, Timeout PROVE IInv'
<1>1. /\ AgentAtWork /\ Stop /\ disk' = Unwound /\ UNCHANGED <<head, issues, run>>
      /\ pc' = "idle" /\ work' = NoWork
  BY DEF Timeout, Idle, Goto
<1>2. run' \in Carried /\ (run'.cut => run'.interrupted)
  BY <1>1 DEF IInv, TypeOK, CutFits
<1>3. head \in Nat /\ head <= head
  BY Types DEF IInv
<1> QED BY <1>1, <1>2, <1>3, AtWork, StopEffect, Ends

LEMMA FaultEffect ==
  ASSUME IInv, Fault
  PROVE  world' \in World /\ WorldGoesOn /\ world'.faults # 0
  BY SMTT(60) DEF IInv, TypeOK, World, Fault, WorldGoesOn

LEMMA KillKeeps == ASSUME IInv, Kill PROVE IInv'
<1>1. /\ Fault /\ UNCHANGED <<head, issues, disk, run>> /\ pc' = "off" /\ work' = NoWork
  BY DEF Kill, Off, Goto
<1>2. run' \in Carried /\ (run'.cut => run'.interrupted)
  BY <1>1 DEF IInv, TypeOK, CutFits
<1>3. head \in Nat /\ head <= head
  BY Types DEF IInv
<1> QED BY <1>1, <1>2, <1>3, HalfLabelledAnywhere, FaultEffect, Ends

\* A failed call of GitHub; what it leaves of the ticket that is filed is
\* another matter.
LEMMA GithubFailsQuietly ==
  ASSUME IInv, GithubFails, UNCHANGED issues
  PROVE  IInv'
<1>1. /\ Fault /\ UNCHANGED <<head, issues, run>> /\ disk' = Unwound
      /\ pc' = "off" /\ work' = NoWork
  BY DEF GithubFails, Off, Goto
<1>2. run' \in Carried /\ (run'.cut => run'.interrupted)
  BY <1>1 DEF IInv, TypeOK, CutFits
<1>3. head \in Nat /\ head <= head
  BY Types DEF IInv
<1>4. disk' \in {disk, Cleared(disk)}
  BY <1>1 DEF Unwound
<1> QED BY <1>1, <1>2, <1>3, <1>4, HalfLabelledAnywhere, FaultEffect, Ends

-----------------------------------------------------------------------------
(* From step to step of a phase. *)

\* What a session is like whose next step is taken.
SessionReady(d) ==
  /\ d \in Session /\ d.fp = head /\ d.scan <= world'.scans
  /\ ~d.listed => d.cursor = 0 /\ d.count = 0
  /\ d.count # 0 => d.cursor <= d.count
  /\ d.count # 0 <=> d.scan # 0
  /\ \A c \in Cands : d.rec[c].spec # 0 => c < d.cursor /\ c < d.count
  /\ \A c \in Cands : d.rec[c].labelled => d.rec[c].spec # 0
  /\ d.valid => d.drafts[0] # Nobody

\* What is left of the sets that were filed.
SetsReady(d) ==
  \A c \in Cands, h \in 1 .. Tickets : d.rec[c].filed[h] # 0 =>
    /\ d.rec[c].labelled \/ ~issues[d.rec[c].filed[h]].ready
    /\ d.drafts[0] = <<d.scan, c>> =>
         issues[d.rec[c].filed[h]].drafts \subseteq {g \in 1 .. Tickets : d.drafts[g] # Nobody}

LEMMA Onward ==
  ASSUME IInv, GithubFits', UNCHANGED <<head, issues, run>>, NEW d, Advance(d),
         SessionReady(d), SetsReady(d), world'.faults = 0 => NothingLeft(d),
         work' \in Locals, work'.made = 0, ~work'.wind, world' \in World
  PROVE  IInv'
<1>1. CursorFits(d)
  BY DEF CursorFits, SessionReady
<1>2. Session' = Session /\ Numbers' = Numbers /\ issues' \in Seq(Issue') /\ Locals' = Locals
  BY SameIssues DEF IInv
<1>3. /\ disk' \in Session /\ disk' = [d EXCEPT !.inFlight = disk'.inFlight]
      /\ pc' \in PhaseSteps \cup {"over"}
      /\ pc' = "scan" => ~d.listed
      /\ pc' = "report" => d.listed /\ d.count = 0 /\ d.cursor = 0
      /\ pc' \in {"spec", "tickets"} => d.cursor < d.count
  BY <1>1, <1>2, AdvanceEffect
<1>4. /\ disk'.fp = d.fp /\ disk'.scan = d.scan /\ disk'.listed = d.listed
      /\ disk'.count = d.count /\ disk'.cursor = d.cursor /\ disk'.rec = d.rec
      /\ disk'.drafts = d.drafts /\ disk'.valid = d.valid
  BY <1>3 DEF SessionReady, Session
<1>5. pc' \in PhaseSteps \cup {"over"} /\ pc' \notin {"file", "resolve", "plan", "enter", "wind"}
  BY <1>3 DEF PhaseSteps
<1>6. TypeOK'
  BY <1>2, <1>3 DEF IInv, TypeOK
<1>7. SessionFits'
  <2>1. head \in Nat
    BY Types DEF IInv
  <2> QED BY <1>3, <1>4, <1>5, <2>1 DEF SessionFits, SessionReady
<1>8. FilingFits' /\ MadeFits'
  BY <1>5 DEF FilingFits, MadeFits
<1>9. DraftsStay'
  <2>1. Drafted' = {g \in 1 .. Tickets : d.drafts[g] # Nobody}
    BY <1>4 DEF Drafted
  <2> QED BY <1>4, <1>5, <2>1 DEF DraftsStay, SetsReady, Author
<1>10. LabelsFit'
  BY <1>4 DEF LabelsFit, SetsReady
<1>11. NothingLeftBehind'
  BY <1>2, <1>4, <1>5 DEF NothingLeftBehind, NothingLeft, Author
<1>12. CutFits'
  BY <1>5 DEF IInv, CutFits
<1> QED BY <1>6, <1>7, <1>8, <1>9, <1>10, <1>11, <1>12 DEF IInv

\* The session as it is, where a phase is under way.
LEMMA ReadyAsIs ==
  ASSUME IInv, disk.fp = head, pc \in PhaseSteps \cup {"enter", "mid", "resolve"},
         world'.scans = world.scans
  PROVE  SessionReady(disk) /\ SetsReady(disk)
<1>1. SessionReady(disk)
  BY Types DEF IInv, SessionFits, SessionReady, GithubFits, RecordsFit
<1>2. \A c \in Cands : ~HalfLabelled(c)
  BY HalfLabelledAway DEF PhaseSteps, Elsewhere
<1>3. SetsReady(disk)
  BY <1>2 DEF IInv, SetsReady, HalfLabelled, DraftsStay, Drafted, Author
<1> QED BY <1>1, <1>3

LEMMA NothingLeftAsIs ==
  ASSUME IInv, pc \notin {"resolve", "file"}, world.faults = 0
  PROVE  NothingLeft(disk)
  BY DEF IInv, NothingLeftBehind, NothingLeft, Author

\* The phase returns: the session is discarded.
LEMMA ReturnKeeps ==
  ASSUME IInv, NEW n \in Nat, NEW noCandidate, Return(n, noCandidate), pc \in {"enter", "over"},
         UNCHANGED <<head, issues, world>>
  PROVE  IInv'
<1>1. /\ disk' = NoSession /\ pc' \in {"off", "idle", "plan"} /\ work' = NoWork
      /\ run' = [run EXCEPT !.interrupted = FALSE, !.cut = FALSE, !.dispatched = @ + n]
  BY DEF Return, Off, Idle, Goto
<1>2. run' \in Carried /\ ~run'.interrupted /\ ~run'.cut
  <2>1. run \in Carried /\ run.dispatched + n \in Nat
    BY DEF IInv, TypeOK, Carried
  <2> QED BY <1>1, <2>1 DEF Carried
<1>3. TypeOK'
  BY <1>1, <1>2, SameIssues, NoWorkType DEF IInv, TypeOK
<1>4. GithubFits'
  <2>1. disk'.rec = [c \in Cands |-> NoRecord] /\ disk'.scan = 0
    BY <1>1 DEF NoSession
  <2>2. world.scans \in Nat
    BY Types DEF IInv
  <2> QED BY <2>1, <2>2, EmptyKeeps DEF NoRecord
<1>5. SessionFits'
  <2>1. head \in Nat /\ world.scans \in Nat
    BY Types DEF IInv
  <2> QED BY <1>1, <2>1 DEF SessionFits, NoSession, NoRecord, PhaseSteps
<1>6. FilingFits' /\ MadeFits' /\ CutFits'
  BY <1>1, <1>2 DEF FilingFits, MadeFits, CutFits, NoWork
<1>7. DraftsStay' /\ LabelsFit'
  BY <1>1 DEF DraftsStay, LabelsFit, NoSession, NoRecord
<1>8. NothingLeftBehind'
  <2>1. world'.faults = 0 => NothingLeft(disk)
    BY <1>1, NothingLeftAsIs
  <2>2. Numbers' = Numbers
    BY SameIssues DEF IInv
  <2> QED BY <1>1, <2>1, <2>2 DEF NothingLeftBehind, NothingLeft, NoSession, NoRecord, NoWork
<1> QED BY <1>3, <1>4, <1>5, <1>6, <1>7, <1>8 DEF IInv

LEMMA EnterKeeps == ASSUME IInv, Enter PROVE IInv'
<1>1. CASE Return(0, FALSE) /\ pc = "enter" /\ UNCHANGED <<head, issues, world>>
  BY <1>1, ReturnKeeps
<1>2. CASE /\ Advance(disk) /\ pc = "enter" /\ UNCHANGED <<head, issues, run, world>>
           /\ work' = [work EXCEPT !.fresh = ~Resumes]
  <2>1. disk.fp = head /\ work.made = 0 /\ ~work.wind
    BY <1>2 DEF IInv, SessionFits, FilingFits
  <2>2. work' \in Locals /\ work'.made = 0 /\ ~work'.wind
    BY <1>2, <2>1 DEF IInv, TypeOK, Locals
  <2>3. world' \in World /\ WorldGoesOn
    BY <1>2 DEF WorldGoesOn, IInv, TypeOK, World
  <2>4. SameRecords(disk')
    <3>1. CursorFits(disk) /\ Session' = Session
      BY <1>2, SameIssues, Types DEF CursorFits, IInv, SessionFits, GithubFits, RecordsFit
    <3>2. disk' = [disk EXCEPT !.inFlight = disk'.inFlight]
      BY <1>2, <3>1, AdvanceEffect
    <3> QED BY <3>2, Types DEF IInv, SameRecords, Session
  <2>5. GithubFits'
    BY <1>2, <2>2, <2>3, <2>4, FrameKeeps
  <2> QED BY <1>2, <2>1, <2>2, <2>3, <2>5, Onward, ReadyAsIs, NothingLeftAsIs
<1> QED BY <1>1, <1>2, Zenon DEF Enter

LEMMA OverKeeps == ASSUME IInv, Over PROVE IInv'
<1>1. work.completed \in Nat
  BY DEF IInv, TypeOK, Locals
<1> QED BY <1>1, ReturnKeeps DEF Over

\* A step that only goes on, or changes no more than the drafts.
LEMMA OnwardSame ==
  ASSUME IInv, UNCHANGED <<head, issues, run>>, NEW d, Advance(d), SameRecords(d),
         SessionReady(d), SetsReady(d), world'.faults = 0 => NothingLeft(d),
         work' \in Locals, work'.made = 0, ~work'.wind, world' \in World, WorldGoesOn
  PROVE  IInv'
<1>1. CursorFits(d) /\ Session' = Session /\ d \in Session
  BY SameIssues DEF CursorFits, SessionReady, IInv
<1>2. disk' = [d EXCEPT !.inFlight = disk'.inFlight]
  BY <1>1, AdvanceEffect
<1>3. SameRecords(disk')
  BY <1>1, <1>2 DEF SameRecords, Session
<1> QED BY <1>3, FrameKeeps, Onward

LEMMA MidKeeps == ASSUME IInv, Mid PROVE IInv'
<1>1. /\ pc = "mid" /\ UNCHANGED <<head, issues, run, work>> /\ work.made = 0 /\ ~work.wind
      /\ work' \in Locals
  <2>1. Locals' = Locals
    BY SameIssues DEF IInv, Mid
  <2> QED BY <2>1 DEF Mid, IInv, TypeOK, FilingFits
<1>2. CASE head = disk.fp /\ Advance(disk) /\ UNCHANGED world
  <2>1. WorldGoesOn /\ world' \in World
    BY <1>2 DEF WorldGoesOn, IInv, TypeOK, World
  <2>2. SameRecords(disk) /\ world'.scans = world.scans
    BY <1>2 DEF SameRecords
  <2> QED BY <1>1, <1>2, <2>1, <2>2, OnwardSame, ReadyAsIs, NothingLeftAsIs
<1>3. CASE /\ pc' = "over" /\ UNCHANGED disk
           /\ (head # disk.fp /\ UNCHANGED world) \/ Stop
  <2>1. WorldGoesOn /\ world' \in World
    BY <1>3, StopEffect DEF WorldGoesOn, IInv, TypeOK, World
  <2>2. TypeOK' /\ CutFits' /\ head <= head'
    BY <1>1, <1>3, <2>1, SameIssues DEF IInv, TypeOK, CutFits
  <2>3. \A c \in Cands : HalfLabelled(c) => disk.fp # head'
    BY <1>1, HalfLabelledAway DEF Elsewhere
  <2> QED BY <1>1, <1>3, <2>1, <2>2, <2>3, Away DEF Elsewhere
<1> QED BY <1>1, <1>2, <1>3 DEF Mid, Goto

LEMMA AbandonKeeps == ASSUME IInv, Abandon PROVE IInv'
<1>1. /\ pc = "resolve" /\ Advance(Cleared(disk))
      /\ UNCHANGED <<head, issues, run, work, world>>
  BY DEF Abandon
<1>2. disk.fp = head /\ work.made = 0 /\ ~work.wind
  BY <1>1 DEF IInv, SessionFits, FilingFits
<1>3. work' \in Locals /\ world' \in World /\ WorldGoesOn
  BY <1>1, SameIssues DEF IInv, TypeOK, WorldGoesOn, World
<1>4. SessionReady(disk) /\ SetsReady(disk)
  BY <1>1, <1>2, ReadyAsIs
<1>5. SameRecords(Cleared(disk)) /\ SessionReady(Cleared(disk))
  BY <1>4, ClearedFields DEF SameRecords, SessionReady
<1>6. /\ Cleared(disk).drafts = [h \in Handles |-> Nobody]
      /\ Cleared(disk).rec = disk.rec /\ Cleared(disk).scan = disk.scan
  BY ClearedFields, Types DEF IInv
<1>7. 0 \in Handles
  BY DEF Handles
<1>8. SetsReady(Cleared(disk))
  <2>1. ASSUME NEW c \in Cands, disk.rec[c].spec # 0 PROVE <<disk.scan, c>> # Nobody
    BY <1>4, <2>1, Types DEF SessionReady, Nobody, IInv, Cands
  <2>2. ASSUME NEW c \in Cands, NEW h \in 1 .. Tickets, disk.rec[c].filed[h] # 0
        PROVE  disk.rec[c].spec # 0
    BY <2>2 DEF IInv, GithubFits, RecordsFit
  <2> QED BY <1>4, <1>6, <1>7, <2>1, <2>2 DEF SetsReady
<1>9. world'.faults = 0 => NothingLeft(Cleared(disk))
  <2> SUFFICES ASSUME world.faults = 0 PROVE NothingLeft(Cleared(disk))
    BY <1>1
  <2>1. \A c \in Cands : disk.rec[c].spec # 0 => disk.rec[c].labelled
    BY <1>1 DEF IInv, NothingLeftBehind
  <2>2. \A i \in Numbers : issues[i].handle # 0 => issues[i].ready
    BY <1>1 DEF IInv, NothingLeftBehind
  <2> QED BY <1>6, <2>1, <2>2 DEF NothingLeft
<1> QED BY <1>1, <1>2, <1>3, <1>5, <1>8, <1>9, OnwardSame

LEMMA ReportKeeps == ASSUME IInv, Report PROVE IInv'
<1> DEFINE d == [disk EXCEPT !.cursor = 1, !.inFlight = NoFile]
<1>1. /\ pc = "report" /\ Advance(d) /\ UNCHANGED <<head, issues, run, world>>
      /\ work' = [work EXCEPT !.fresh = TRUE]
  BY DEF Report, Fresh
<1>2. /\ disk.fp = head /\ disk.count = 0 /\ disk.cursor = 0 /\ disk.listed
      /\ disk.scan = 0
  BY <1>1 DEF IInv, SessionFits, PhaseSteps
<1>3. work' \in Locals /\ work'.made = 0 /\ ~work'.wind
  BY <1>1, SameIssues DEF IInv, TypeOK, Locals, FilingFits
<1>4. world' \in World /\ WorldGoesOn
  BY <1>1 DEF IInv, TypeOK, WorldGoesOn, World
<1>5. /\ d \in Session /\ d.rec = disk.rec /\ d.drafts = disk.drafts /\ d.scan = disk.scan
      /\ d.fp = disk.fp /\ d.listed = disk.listed /\ d.count = disk.count /\ d.cursor = 1
      /\ d.valid = disk.valid
  <2>1. 1 \in 0 .. PerScan /\ NoFile \in PhaseSteps \cup {NoFile} /\ disk \in Session
    BY Types DEF IInv
  <2> HIDE SizesAssumption
  <2> QED BY <2>1 DEF Session
<1>6. SessionReady(disk) /\ SetsReady(disk) /\ \A c \in Cands : disk.rec[c].spec = 0
  <2>1. SessionReady(disk) /\ SetsReady(disk)
    BY <1>1, <1>2, ReadyAsIs DEF PhaseSteps
  <2> QED BY <1>2, <2>1 DEF SessionReady, Cands
<1>7. SameRecords(d) /\ SessionReady(d) /\ SetsReady(d)
  BY <1>1, <1>2, <1>5, <1>6 DEF SameRecords, SessionReady, SetsReady
<1>8. world'.faults = 0 => NothingLeft(d)
  <2> SUFFICES ASSUME world.faults = 0 PROVE NothingLeft(d)
    BY <1>1
  <2>1. NothingLeft(disk)
    BY <1>1, NothingLeftAsIs
  <2> QED BY <1>2, <1>5, <2>1 DEF NothingLeft, Nobody
<1> QED BY <1>1, <1>3, <1>4, <1>7, <1>8, OnwardSame

LEMMA WrittenType ==
  ASSUME TypeOK, NEW hs
  PROVE  /\ Written(hs) \in [Handles -> Sets]
         /\ \A h \in Handles : h \notin hs => Written(hs)[h] = disk.drafts[h]
         /\ \A h \in Handles : h \in hs => Written(hs)[h] = <<disk.scan, disk.cursor>>
<1>1. <<disk.scan, disk.cursor>> \in Sets
  BY Types DEF Sets
<1> QED BY <1>1, Types DEF Written, Author

LEMMA DraftSpecKeeps == ASSUME IInv, DraftSpec PROVE IInv'
<1>1. PICK valid \in BOOLEAN :
        Advance([disk EXCEPT !.rec[disk.cursor].exists = TRUE, !.inFlight = NoFile,
                             !.drafts = Written({0}), !.valid = valid])
  BY DEF DraftSpec
<1> DEFINE rec == [disk.rec EXCEPT ![disk.cursor].exists = TRUE]
           d == [disk EXCEPT !.rec = rec, !.inFlight = NoFile, !.drafts = Written({0}),
                             !.valid = valid]
<1>2. /\ pc = "spec" /\ Advance(d) /\ UNCHANGED <<head, issues, run, world>>
      /\ work' = [work EXCEPT !.fresh = TRUE]
  BY <1>1 DEF DraftSpec, Fresh
<1>3. disk.fp = head /\ disk.cursor < disk.count
  BY <1>2 DEF IInv, SessionFits, PhaseSteps
<1>4. work' \in Locals /\ work'.made = 0 /\ ~work'.wind
  BY <1>2, SameIssues DEF IInv, TypeOK, Locals, FilingFits
<1>5. world' \in World /\ WorldGoesOn
  BY <1>2 DEF IInv, TypeOK, WorldGoesOn, World
<1>6. /\ SessionReady(disk) /\ SetsReady(disk) /\ disk.cursor \in Cands
      /\ disk.rec[disk.cursor].spec = 0
  <2>1. SessionReady(disk) /\ SetsReady(disk) /\ disk.cursor \in Cands
    BY <1>2, <1>3, ReadyAsIs, Types DEF IInv, PhaseSteps, Cands
  <2> QED BY <2>1, Types DEF IInv, SessionReady
<1>7. /\ rec \in [Cands -> Record]
      /\ \A c \in Cands : /\ rec[c].spec = disk.rec[c].spec /\ rec[c].filed = disk.rec[c].filed
                          /\ rec[c].labelled = disk.rec[c].labelled
  <2>1. disk.rec \in [Cands -> Record]
    BY Types DEF IInv, Session
  <2> QED BY <2>1 DEF Record
<1>8. /\ d \in Session /\ d.rec = rec /\ d.drafts = Written({0}) /\ d.scan = disk.scan
      /\ d.fp = disk.fp /\ d.listed = disk.listed /\ d.count = disk.count
      /\ d.cursor = disk.cursor
  <2>1. /\ disk \in Session /\ NoFile \in PhaseSteps \cup {NoFile}
        /\ Written({0}) \in [Handles -> Sets]
    BY Types, WrittenType DEF IInv
  <2> HIDE DEF rec
  <2> QED BY <1>7, <2>1 DEF Session
<1> HIDE DEF d, rec
<1>9. d.drafts[0] = <<disk.scan, disk.cursor>> /\ d.drafts[0] # Nobody
  <2>1. d.drafts[0] = <<disk.scan, disk.cursor>>
    BY <1>8, WrittenType DEF IInv, Handles
  <2> QED BY <1>3, <1>6, <2>1, Types DEF SessionReady, Nobody, IInv
<1>10. SameRecords(d) /\ SessionReady(d)
  BY <1>2, <1>6, <1>7, <1>8, <1>9 DEF SameRecords, SessionReady
<1>11. SetsReady(d)
  <2>1. ASSUME NEW c \in Cands, NEW h \in 1 .. Tickets, disk.rec[c].filed[h] # 0
        PROVE  c # disk.cursor
    BY <1>6, <2>1 DEF IInv, GithubFits, RecordsFit
  <2> QED BY <1>6, <1>7, <1>8, <1>9, <2>1 DEF SetsReady
<1>12. world'.faults = 0 => NothingLeft(d)
  <2> SUFFICES ASSUME world.faults = 0 PROVE NothingLeft(d)
    BY <1>2
  <2>1. NothingLeft(disk)
    BY <1>2, NothingLeftAsIs
  <2> QED BY <1>7, <1>8, <2>1, WrittenType DEF NothingLeft, IInv
<1> QED BY <1>2, <1>4, <1>5, <1>10, <1>11, <1>12, OnwardSame

LEMMA ScanKeeps == ASSUME IInv, Scan PROVE IInv'
<1>1. PICK n \in 0 .. PerScan, forked \in BOOLEAN :
        LET d == [disk EXCEPT !.listed = TRUE, !.count = n, !.cursor = 0,
                              !.inFlight = NoFile, !.forked = forked,
                              !.scan = IF n = 0 THEN @ ELSE world.scans + 1]
        IN  /\ Advance(d)
            /\ world' = [world EXCEPT !.scans = IF n = 0 THEN @ ELSE @ + 1]
  <2>1. \A n : Forks(n) \subseteq BOOLEAN
    BY DEF Forks
  <2> QED BY <2>1 DEF Scan
<1> DEFINE scan == IF n = 0 THEN disk.scan ELSE world.scans + 1
           d == [disk EXCEPT !.listed = TRUE, !.count = n, !.cursor = 0,
                             !.inFlight = NoFile, !.forked = forked, !.scan = scan]
<1>2. /\ pc = "scan" /\ Advance(d) /\ UNCHANGED <<head, issues, run>>
      /\ world' = [world EXCEPT !.scans = IF n = 0 THEN @ ELSE @ + 1]
      /\ work' = [work EXCEPT !.fresh = TRUE]
  BY <1>1 DEF Scan, Fresh
<1>3. /\ disk.fp = head /\ ~disk.listed /\ disk.count = 0 /\ disk.cursor = 0
      /\ disk.scan = 0
  BY <1>2 DEF IInv, SessionFits, PhaseSteps
<1>4. work' \in Locals /\ work'.made = 0 /\ ~work'.wind
  BY <1>2, SameIssues DEF IInv, TypeOK, Locals, FilingFits
<1>5. /\ world' \in World /\ world'.faults = world.faults /\ world'.foreign = world.foreign
      /\ world'.scans = IF n = 0 THEN world.scans ELSE world.scans + 1
      /\ world.scans \in Nat /\ world'.scans \in Nat
  <2>1. world \in World
    BY DEF IInv, TypeOK
  <2> QED BY <1>2, <2>1 DEF World
<1>6. /\ d \in Session /\ d.rec = disk.rec /\ d.drafts = disk.drafts /\ d.scan = scan
      /\ d.fp = disk.fp /\ d.listed = TRUE /\ d.count = n /\ d.cursor = 0
      /\ d.valid = disk.valid
  <2>1. /\ disk \in Session /\ NoFile \in PhaseSteps \cup {NoFile} /\ scan \in Nat
        /\ forked \in BOOLEAN /\ 0 \in 0 .. PerScan
    BY <1>5, Types DEF IInv
  <2> HIDE DEF scan
  <2> QED BY <2>1 DEF Session
<1> HIDE DEF d
<1>7. \A c \in Cands : /\ ~disk.rec[c].labelled /\ disk.rec[c].spec = 0
                       /\ \A h \in 1 .. Tickets : disk.rec[c].filed[h] = 0
  <2>1. \A c \in Cands : disk.rec[c].spec = 0
    BY <1>3 DEF IInv, SessionFits, Cands
  <2> QED BY <2>1 DEF IInv, GithubFits, RecordsFit
<1>8. SessionReady(d) /\ SetsReady(d)
  <2>1. disk.valid => disk.drafts[0] # Nobody
    BY DEF IInv, SessionFits
  <2> QED BY <1>3, <1>5, <1>6, <1>7, <2>1 DEF SessionReady, SetsReady
<1>9. world'.faults = 0 => NothingLeft(d)
  <2> SUFFICES ASSUME world.faults = 0 PROVE NothingLeft(d)
    BY <1>5
  <2>1. NothingLeft(disk)
    BY <1>2, NothingLeftAsIs
  <2> QED BY <1>3, <1>6, <1>7, <2>1 DEF NothingLeft, Nobody
<1>10. GithubFits'
  <2>1. disk'.rec = disk.rec /\ disk'.scan = scan
    <3>1. CursorFits(d)
      BY <1>6, <1>7, <1>8 DEF CursorFits, SessionReady
    <3>2. Session' = Session
      BY <1>2, SameIssues DEF IInv
    <3> QED BY <1>2, <1>6, <3>1, <3>2, AdvanceEffect, ZenonT(60) DEF Session
  <2> QED BY <1>2, <1>3, <1>5, <1>7, <2>1, EmptyKeeps
<1> QED BY <1>2, <1>4, <1>5, <1>8, <1>9, <1>10, Onward

-----------------------------------------------------------------------------
(* The drafts of a candidate. *)

\* A step between the spec and the filing that changes nothing but the drafts,
\* the cursor and what is in flight.
LEMMA Drafting ==
  ASSUME IInv, UNCHANGED <<head, issues, run, world>>, disk' \in Session, work' \in Locals,
         work'.made = 0, ~work'.wind,
         pc \in {"spec", "tickets", "resolve"}, pc' \in {"spec", "tickets", "resolve", "file"},
         disk'.fp = disk.fp, disk'.listed = disk.listed, disk'.count = disk.count,
         SameRecords(disk'), disk.cursor <= disk'.cursor, disk'.cursor <= disk.count,
         pc' \in {"spec", "tickets"} => disk'.cursor < disk.count,
         pc' \in {"resolve", "file"} =>
           disk'.cursor = work'.cand + 1 /\ disk.rec[work'.cand].spec = 0,
         pc' = "file" => disk'.valid,
         disk'.valid => disk'.drafts[0] # Nobody,
         SetsReady(disk'),
         world.faults = 0 => \A h \in Handles : disk'.drafts[h] # Nobody =>
           disk'.drafts[h] = <<disk.scan, IF pc' \in {"resolve", "file"} THEN work'.cand
                                          ELSE disk'.cursor>>
  PROVE  IInv'
<1>1. WorldGoesOn /\ world' \in World
  BY DEF IInv, TypeOK, World, WorldGoesOn
<1>2. GithubFits'
  BY <1>1, FrameKeeps
<1>3. TypeOK'
  BY <1>1, SameIssues DEF IInv, TypeOK, PhaseSteps
<1>4. disk.fp = head /\ disk.scan \in Nat /\ disk.cursor \in Nat /\ disk.count \in 0 .. PerScan
  BY Types DEF IInv, SessionFits, PhaseSteps
<1>5. disk'.cursor \in Nat /\ work'.cand \in Nat
  BY SessionType DEF Locals
<1>6. SessionFits'
  BY <1>4, <1>5, Types DEF IInv, SessionFits, SameRecords, PhaseSteps, Cands
<1>7. pc' \in {"resolve", "file"} =>
        /\ work'.cand \in Cands /\ disk'.rec[work'.cand].spec = 0
        /\ ~disk'.rec[work'.cand].labelled
        /\ \A h \in 1 .. Tickets : disk'.rec[work'.cand].filed[h] = 0
  <2> SUFFICES ASSUME pc' \in {"resolve", "file"}
               PROVE  /\ work'.cand \in Cands /\ disk'.rec[work'.cand].spec = 0
                      /\ ~disk'.rec[work'.cand].labelled
                      /\ \A h \in 1 .. Tickets : disk'.rec[work'.cand].filed[h] = 0
    OBVIOUS
  <2>1. work'.cand \in Cands
    BY <1>4, <1>5 DEF Cands
  <2>2. disk.rec[work'.cand].spec = 0
    BY <2>1 DEF SameRecords
  <2>3. ~disk.rec[work'.cand].labelled /\ \A h \in 1 .. Tickets : disk.rec[work'.cand].filed[h] = 0
    BY <2>1, <2>2, RecordFacts DEF IInv, GithubFits, SpecFits, TicketFits
  <2> QED BY <2>1, <2>2, <2>3 DEF SameRecords
<1>8. FilingFits' /\ MadeFits'
  BY <1>4, <1>5, <1>7 DEF FilingFits, MadeFits, Rec
<1>9. DraftsStay'
  <2>1. Drafted' = {g \in 1 .. Tickets : disk'.drafts[g] # Nobody}
    BY DEF Drafted
  <2> QED BY <1>7, <2>1 DEF DraftsStay, SetsReady, Author
<1>10. LabelsFit'
  BY DEF LabelsFit, SetsReady
<1>11. NothingLeftBehind'
  <2> SUFFICES ASSUME world.faults = 0 PROVE NothingLeftBehind'
    BY DEF NothingLeftBehind
  <2>1. pc # "file"
    OBVIOUS
  <2>2. /\ \A c \in Cands : disk'.rec[c].spec # 0 => disk'.rec[c].labelled
        /\ \A i \in Numbers' : issues'[i].handle # 0 => issues'[i].ready
    BY <2>1, SameIssues DEF IInv, NothingLeftBehind, SameRecords
  <2>3. \A h \in Handles : disk'.drafts[h] # Nobody =>
          disk'.drafts[h] = <<disk'.scan, IF pc' \in {"resolve", "file"} THEN work'.cand
                                          ELSE disk'.cursor>>
    BY DEF SameRecords
  <2> QED BY <2>2, <2>3 DEF NothingLeftBehind, Author
<1>12. CutFits'
  BY DEF IInv, CutFits
<1> QED BY <1>2, <1>3, <1>6, <1>8, <1>9, <1>10, <1>11, <1>12 DEF IInv

\* Where a candidate is at work, nothing half-labelled is left of this commit, and
\* the drafts of the candidate at the cursor belong to no set yet.
LEMMA AtCandidate ==
  ASSUME IInv, pc \in {"spec", "tickets"}
  PROVE  /\ disk.fp = head /\ disk.cursor < disk.count /\ disk.cursor \in Cands /\ disk.cursor + 1 \in 0 .. PerScan
         /\ disk.rec[disk.cursor].spec = 0 /\ disk.scan # 0
         /\ work.made = 0 /\ ~work.wind
         /\ \A c \in Cands, h \in 1 .. Tickets : disk.rec[c].filed[h] # 0 =>
              c # disk.cursor /\ (disk.rec[c].labelled \/ ~issues[disk.rec[c].filed[h]].ready)
<1>1. disk.fp = head /\ disk.cursor < disk.count
  BY DEF IInv, SessionFits, PhaseSteps
<1>2. disk.cursor \in Cands /\ disk.cursor + 1 \in 0 .. PerScan
  BY <1>1, Types DEF IInv, Cands
<1>3. disk.rec[disk.cursor].spec = 0 /\ disk.scan # 0
  BY <1>1, <1>2, Types DEF IInv, SessionFits
<1>4. \A c \in Cands : ~HalfLabelled(c)
  BY <1>1, HalfLabelledAway DEF PhaseSteps
<1>5. work.made = 0 /\ ~work.wind
  BY DEF IInv, FilingFits
<1>6. \A c \in Cands, h \in 1 .. Tickets : disk.rec[c].filed[h] # 0 => disk.rec[c].spec # 0
  BY RecordFacts DEF IInv, GithubFits, TicketFits
<1> QED BY <1>1, <1>2, <1>3, <1>4, <1>5, <1>6 DEF HalfLabelled

\* The drafts of the candidate at the cursor are added to.
LEMMA MoreDrafts ==
  ASSUME IInv, pc \in {"spec", "tickets"}, NEW hs \in SUBSET Handles,
         disk'.rec = disk.rec, disk'.scan = disk.scan, disk'.drafts = Written(hs)
  PROVE  /\ SetsReady(disk')
         /\ world.faults = 0 => \A h \in Handles : disk'.drafts[h] # Nobody =>
              disk'.drafts[h] = <<disk.scan, disk.cursor>>
<1>1. ASSUME NEW c \in Cands, NEW h \in 1 .. Tickets, disk.rec[c].filed[h] # 0,
             disk'.drafts[0] = <<disk.scan, c>>
      PROVE  issues[disk.rec[c].filed[h]].drafts
               \subseteq {g \in 1 .. Tickets : disk'.drafts[g] # Nobody}
  <2>1. disk.drafts[0] = <<disk.scan, c>>
    BY <1>1, AtCandidate, WrittenType DEF IInv, Handles
  <2>2. issues[disk.rec[c].filed[h]].drafts \subseteq Drafted
    BY <1>1, <2>1 DEF IInv, DraftsStay, Author
  <2>3. Drafted \subseteq {g \in 1 .. Tickets : disk'.drafts[g] # Nobody}
    <3>1. <<disk.scan, disk.cursor>> # Nobody
      BY AtCandidate DEF Nobody
    <3> SUFFICES ASSUME NEW g \in 1 .. Tickets, disk.drafts[g] # Nobody
                 PROVE  Written(hs)[g] # Nobody
      BY DEF Drafted
    <3>2. g \in Handles /\ TypeOK
      BY DEF Handles, IInv
    <3> QED BY <3>1, <3>2, WrittenType
  <2> QED BY <2>2, <2>3
<1>2. SetsReady(disk')
  BY <1>1, AtCandidate DEF SetsReady
<1>3. ASSUME world.faults = 0, NEW h \in Handles, disk'.drafts[h] # Nobody
      PROVE  disk'.drafts[h] = <<disk.scan, disk.cursor>>
  BY <1>3, NothingLeftAsIs, WrittenType DEF NothingLeft, IInv
<1> QED BY <1>2, <1>3

LEMMA AgentWritesKeeps == ASSUME IInv, AgentWrites PROVE IInv'
<1>1. PICK h \in Handles, valid \in BOOLEAN :
        /\ valid => Written({h})[0] # Nobody
        /\ disk' = [disk EXCEPT !.drafts = Written({h}), !.valid = valid]
  <2>1. PICK h \in Handles : \E valid \in Validity(Written({h})) :
          disk' = [disk EXCEPT !.drafts = Written({h}), !.valid = valid]
    <3>1. (IF pc = "spec" THEN {0} ELSE 1 .. Tickets) \subseteq Handles
      BY DEF Handles
    <3> QED BY <3>1, Zenon DEF AgentWrites
  <2> QED BY <2>1 DEF Validity
<1>2. pc \in {"spec", "tickets"} /\ UNCHANGED <<head, issues, run, work, world, pc>>
  BY DEF AgentWrites
<1>4. /\ disk' \in Session /\ disk'.drafts = Written({h}) /\ disk'.valid = valid
      /\ disk'.rec = disk.rec /\ disk'.scan = disk.scan /\ disk'.fp = disk.fp
      /\ disk'.listed = disk.listed /\ disk'.count = disk.count /\ disk'.cursor = disk.cursor
  <2>1. disk \in Session /\ Written({h}) \in [Handles -> Sets]
    BY Types, WrittenType DEF IInv
  <2> QED BY <1>1, <2>1 DEF Session
<1>5. SameRecords(disk')
  BY <1>4 DEF SameRecords
<1>6. work' \in Locals
  BY <1>2, SameIssues DEF IInv, TypeOK
<1>7. /\ SetsReady(disk')
      /\ world.faults = 0 => \A g \in Handles : disk'.drafts[g] # Nobody =>
           disk'.drafts[g] = <<disk.scan, disk'.cursor>>
  BY <1>2, <1>4, MoreDrafts
<1>8. disk.cursor <= disk'.cursor /\ disk'.cursor < disk.count /\ disk'.cursor <= disk.count
  BY <1>2, <1>4, AtCandidate, Types DEF IInv
<1> QED BY <1>1, <1>2, <1>4, <1>5, <1>6, <1>7, <1>8, AtCandidate, Drafting, ZenonT(60)

LEMMA DraftTicketsKeeps == ASSUME IInv, DraftTickets PROVE IInv'
<1>1. PICK hs \in SUBSET (1 .. Tickets), valid \in Validity(disk.drafts) :
        disk' = [disk EXCEPT !.inFlight = NoFile, !.cursor = @ + 1,
                             !.drafts = Written(hs), !.valid = valid]
  BY DEF DraftTickets
<1>2. /\ pc = "tickets" /\ pc' = "resolve" /\ UNCHANGED <<head, issues, run, world>>
      /\ work' = [work EXCEPT !.cand = disk.cursor, !.attempt = 0, !.fresh = TRUE]
  BY DEF DraftTickets, Goto
<1>3. /\ disk.cursor < disk.count /\ disk.cursor \in Cands /\ disk.cursor + 1 \in 0 .. PerScan
      /\ disk.rec[disk.cursor].spec = 0 /\ work.made = 0 /\ ~work.wind
  BY <1>2, AtCandidate
<1>4. /\ disk' \in Session /\ disk'.drafts = Written(hs) /\ disk'.valid = valid
      /\ disk'.rec = disk.rec /\ disk'.scan = disk.scan /\ disk'.fp = disk.fp
      /\ disk'.listed = disk.listed /\ disk'.count = disk.count
      /\ disk'.cursor = disk.cursor + 1
  <2>1. /\ disk \in Session /\ Written(hs) \in [Handles -> Sets] /\ valid \in BOOLEAN
        /\ NoFile \in PhaseSteps \cup {NoFile}
    BY Types, WrittenType DEF IInv, Validity
  <2> QED BY <1>1, <1>3, <2>1 DEF Session
<1>5. SameRecords(disk')
  BY <1>4 DEF SameRecords
<1>6. /\ work' \in Locals /\ work'.cand = disk.cursor /\ work'.made = 0 /\ ~work'.wind
  <2>1. work \in Locals /\ Locals' = Locals /\ disk.cursor \in 0 .. PerScan
    BY <1>2, SameIssues, Types DEF IInv, TypeOK
  <2> QED BY <1>2, <1>3, <2>1 DEF Locals
<1>7. /\ SetsReady(disk')
      /\ world.faults = 0 => \A g \in Handles : disk'.drafts[g] # Nobody =>
           disk'.drafts[g] = <<disk.scan, disk.cursor>>
  <2>1. hs \subseteq Handles
    BY DEF Handles
  <2> QED BY <1>2, <1>4, <2>1, MoreDrafts
<1>8. valid => disk'.drafts[0] # Nobody
  <2>1. 0 \in Handles /\ 0 \notin hs /\ TypeOK
    BY DEF Handles, IInv
  <2>2. disk'.drafts[0] = disk.drafts[0]
    BY <1>4, <2>1, WrittenType
  <2> QED BY <2>2 DEF Validity
<1>9. disk.cursor <= disk'.cursor /\ disk'.cursor <= disk.count
  BY <1>3, <1>4, Types DEF IInv
<1> QED BY <1>2, <1>3, <1>4, <1>5, <1>6, <1>7, <1>8, <1>9, Drafting

LEMMA AtResolution ==
  ASSUME IInv, pc = "resolve"
  PROVE  /\ disk.fp = head /\ disk.cursor = work.cand + 1 /\ work.cand < disk.count
         /\ work.cand \in Cands /\ Rec.spec = 0 /\ disk.scan # 0
         /\ work.made = 0 /\ ~work.wind /\ disk.cursor <= disk.count
         /\ SetsReady(disk)
         /\ \A c \in Cands, h \in 1 .. Tickets : disk.rec[c].filed[h] # 0 => c # work.cand
<1>1. /\ disk.fp = head /\ disk.cursor = work.cand + 1 /\ work.cand < disk.count
      /\ Rec.spec = 0 /\ work.made = 0 /\ ~work.wind
  BY DEF IInv, FilingFits
<1>2. work.cand \in Cands /\ disk.scan # 0 /\ disk.cursor <= disk.count
  BY <1>1, Types DEF IInv, SessionFits, Cands
<1>3. \A c \in Cands, h \in 1 .. Tickets : disk.rec[c].filed[h] # 0 => c # work.cand
  BY <1>1, <1>2 DEF IInv, GithubFits, RecordsFit, Rec
<1>4. SetsReady(disk)
  <2>1. \A c \in Cands : ~HalfLabelled(c)
    BY <1>1, HalfLabelledAway
  <2> QED BY <2>1 DEF IInv, SetsReady, HalfLabelled, DraftsStay, Drafted, Author
<1> QED BY <1>1, <1>2, <1>3, <1>4

LEMMA ResolvedKeeps == ASSUME IInv, Resolved PROVE IInv'
<1>1. /\ pc = "resolve" /\ disk.valid /\ pc' = "file"
      /\ UNCHANGED <<head, issues, disk, run, work, world>>
  BY DEF Resolved, Goto
<1>2. disk' \in Session /\ work' \in Locals /\ SameRecords(disk')
  BY <1>1, SameIssues DEF IInv, TypeOK, SameRecords
<1>3. disk.cursor <= disk.cursor /\ (disk.valid => disk.drafts[0] # Nobody)
  BY Types DEF IInv, SessionFits
<1>4. world.faults = 0 => \A h \in Handles : disk.drafts[h] # Nobody =>
        disk.drafts[h] = <<disk.scan, work.cand>>
  BY <1>1 DEF IInv, NothingLeftBehind, Author
<1> QED BY <1>1, <1>2, <1>3, <1>4, AtResolution, Drafting DEF Rec

LEMMA CorrectKeeps == ASSUME IInv, Correct PROVE IInv'
<1> DEFINE drafts == [disk.drafts EXCEPT ![0] = Author(work.cand)]
           d == [disk EXCEPT !.valid = TRUE, !.drafts = drafts]
<1>1. /\ pc = "resolve" /\ pc' = pc /\ UNCHANGED <<head, issues, run, world>>
      /\ work' = [work EXCEPT !.attempt = @ + 1] /\ disk' \in {disk, d}
  BY DEF Correct
<1>2. /\ work' \in Locals /\ work'.cand = work.cand /\ work'.made = 0 /\ ~work'.wind
  BY <1>1, SameIssues, AtResolution DEF IInv, TypeOK, Locals
<1>3. Author(work.cand) = <<disk.scan, work.cand>> /\ Author(work.cand) # Nobody
      /\ Author(work.cand) \in Sets
  BY <1>1, AtResolution, Types DEF IInv, Author, Nobody, Sets
<1>4. /\ drafts \in [Handles -> Sets] /\ drafts[0] = <<disk.scan, work.cand>>
      /\ \A h \in Handles : drafts[h] \in {disk.drafts[h], <<disk.scan, work.cand>>}
  BY <1>3, Types DEF IInv, Handles
<1>5. /\ d \in Session /\ d.drafts = drafts /\ d.rec = disk.rec /\ d.scan = disk.scan
      /\ d.fp = disk.fp /\ d.listed = disk.listed /\ d.count = disk.count
      /\ d.cursor = disk.cursor
  <2>1. disk \in Session
    BY Types DEF IInv
  <2> HIDE DEF drafts
  <2> QED BY <1>4, <2>1 DEF Session
<1>6. SetsReady(d)
  <2>1. \A c \in Cands, h \in 1 .. Tickets : disk.rec[c].filed[h] # 0 =>
          c # work.cand /\ (disk.rec[c].labelled \/ ~issues[disk.rec[c].filed[h]].ready)
    BY <1>1, AtResolution DEF SetsReady
  <2> HIDE DEF d, drafts
  <2> QED BY <1>4, <1>5, <2>1 DEF SetsReady
<1>7. world.faults = 0 => \A h \in Handles : disk.drafts[h] # Nobody =>
        disk.drafts[h] = <<disk.scan, work.cand>>
  BY <1>1 DEF IInv, NothingLeftBehind, Author
<1>8. disk.valid => disk.drafts[0] # Nobody
  BY DEF IInv, SessionFits
<1> HIDE DEF d, drafts
<1>9. /\ disk' \in Session /\ SameRecords(disk') /\ SetsReady(disk')
      /\ disk'.fp = disk.fp /\ disk'.listed = disk.listed /\ disk'.count = disk.count
      /\ disk'.cursor = disk.cursor /\ disk.cursor <= disk'.cursor
      /\ disk'.valid => disk'.drafts[0] # Nobody
      /\ \A h \in Handles : disk'.drafts[h] \in {disk.drafts[h], <<disk.scan, work.cand>>}
  <2>1. CASE disk' = d
    <3>1. d \in Session /\ Session' = Session /\ disk.cursor <= disk.cursor
      BY <1>1, <1>5, SameIssues, Types DEF IInv
    <3> QED BY <1>3, <1>4, <1>5, <1>6, <2>1, <3>1 DEF SameRecords
  <2>2. CASE disk' = disk
    <3>1. disk \in Session /\ Session' = Session /\ disk.cursor <= disk.cursor
      BY <1>1, SameIssues, Types DEF IInv
    <3> QED BY <1>1, <1>8, <2>2, <3>1, AtResolution DEF SameRecords
  <2> QED BY <1>1, <2>1, <2>2
<1>10. disk.rec[work.cand].spec = 0 /\ disk'.cursor = work'.cand + 1 /\ disk'.cursor <= disk.count
  BY <1>1, <1>2, <1>9, AtResolution DEF Rec
<1>11. world.faults = 0 => \A h \in Handles : disk'.drafts[h] # Nobody =>
         disk'.drafts[h] = <<disk.scan, work'.cand>>
  BY <1>2, <1>7, <1>9
<1> QED BY <1>1, <1>2, <1>9, <1>10, <1>11, Drafting

-----------------------------------------------------------------------------
(* Issues are closed. *)

\* Issue n, and whether it is closed now.
ClosesOnly(closes) ==
  issues' = [n \in Numbers |-> [issues[n] EXCEPT !.open = @ /\ n \notin closes]]

LEMMA OpenChanged ==
  ASSUME NEW n \in Issue, NEW b \in BOOLEAN
  PROVE  LET m == [n EXCEPT !.open = b] IN
           /\ m \in Issue /\ m.open = b /\ m.by = n.by /\ m.handle = n.handle
           /\ m.parent = n.parent /\ m.needs = n.needs /\ m.set = n.set
           /\ m.drafts = n.drafts /\ m.sub = n.sub /\ m.deps = n.deps /\ m.ready = n.ready
  BY DEF Issue

LEMMA ClosesFields ==
  ASSUME TypeOK, NEW closes, ClosesOnly(closes)
  PROVE  /\ Numbers' = Numbers /\ Issue' = Issue /\ Session' = Session /\ Locals' = Locals
         /\ issues' \in Seq(Issue')
         /\ \A n \in Numbers :
              /\ issues'[n].by = issues[n].by /\ issues'[n].handle = issues[n].handle
              /\ issues'[n].parent = issues[n].parent /\ issues'[n].needs = issues[n].needs
              /\ issues'[n].set = issues[n].set /\ issues'[n].drafts = issues[n].drafts
              /\ issues'[n].sub = issues[n].sub /\ issues'[n].deps = issues[n].deps
              /\ issues'[n].ready = issues[n].ready
              /\ issues'[n].open <=> issues[n].open /\ n \notin closes
<1>1. \A n \in Numbers : issues[n] \in Issue
  BY IssueType
<1>2. \A n \in Numbers : /\ issues'[n] = [issues[n] EXCEPT !.open = @ /\ n \notin closes]
                         /\ issues'[n] \in Issue
  <2>1. ASSUME NEW n \in Numbers
        PROVE  issues'[n] = [issues[n] EXCEPT !.open = issues[n].open /\ n \notin closes]
    BY DEF ClosesOnly
  <2>2. ASSUME NEW n \in Numbers PROVE issues'[n] \in Issue
    <3>1. (issues[n].open /\ n \notin closes) \in BOOLEAN
      OBVIOUS
    <3>2. issues[n] \in Issue
      BY <1>1
    <3> HIDE DEF Numbers
    <3> QED BY <2>1, <3>1, <3>2, OpenChanged, ZenonT(60)
  <2> QED BY <2>1, <2>2
<1>3. issues' = [n \in Numbers |-> issues'[n]]
  BY DEF ClosesOnly
<1>4. Numbers' = Numbers /\ Issue' = Issue /\ Session' = Session /\ issues' \in Seq(Issue')
  BY <1>2, <1>3, SameNumbers
<1>5. Locals' = Locals
  BY <1>4 DEF Locals
<1>6. ASSUME NEW n \in Numbers
      PROVE  /\ issues'[n].by = issues[n].by /\ issues'[n].handle = issues[n].handle
             /\ issues'[n].parent = issues[n].parent /\ issues'[n].needs = issues[n].needs
             /\ issues'[n].set = issues[n].set /\ issues'[n].drafts = issues[n].drafts
             /\ issues'[n].sub = issues[n].sub /\ issues'[n].deps = issues[n].deps
             /\ issues'[n].ready = issues[n].ready
             /\ issues'[n].open <=> issues[n].open /\ n \notin closes
  <2> DEFINE b == issues[n].open /\ n \notin closes
  <2>1. b \in BOOLEAN /\ issues[n] \in Issue
    BY <1>1
  <2>2. issues'[n] = [issues[n] EXCEPT !.open = b]
    BY <1>2
  <2>3. b <=> issues[n].open /\ n \notin closes
    OBVIOUS
  <2> HIDE DEF b
  <2>4. issues'[n].open = b
    BY <2>1, <2>2, OpenChanged
  <2> QED BY <2>1, <2>2, <2>3, <2>4, OpenChanged
<1> QED BY <1>4, <1>5, <1>6

\* No ready ticket, and none a record names, is left open without its spec.
LEMMA ClosingKeeps ==
  ASSUME IInv, NEW closes \in SUBSET Numbers, ClosesOnly(closes),
         \A i \in closes : issues[i].handle # 0 => issues[i].ready,
         \A i \in closes, j \in Numbers :
           issues[j].parent = i /\ issues'[j].open =>
             ~issues[j].ready /\ \A c \in Cands, h \in 1 .. Tickets : disk.rec[c].filed[h] # j,
         SameRecords(disk'), WorldGoesOn, work'.made \in {0, work.made}
  PROVE  GithubFits'
<1> USE DEF IInv, GithubFits, SameRecords, WorldGoesOn
<1>1. /\ Numbers' = Numbers
      /\ \A n \in Numbers :
           /\ issues'[n].by = issues[n].by /\ issues'[n].handle = issues[n].handle
           /\ issues'[n].parent = issues[n].parent /\ issues'[n].needs = issues[n].needs
           /\ issues'[n].set = issues[n].set /\ issues'[n].drafts = issues[n].drafts
           /\ issues'[n].sub = issues[n].sub /\ issues'[n].deps = issues[n].deps
           /\ issues'[n].ready = issues[n].ready
           /\ issues'[n].open <=> issues[n].open /\ n \notin closes
  BY ClosesFields
<1>2. \A c \in Cands : Author(c)' = Author(c)
  BY DEF Author
<1>3. \A n \in Numbers : issues[n].parent \in {0} \cup Numbers
  BY IssueType DEF Issue
<1>4. RecordsFit'
  <2>1. ASSUME NEW c \in Cands
        PROVE  /\ disk.rec[c].spec \in {0} \cup Numbers
               /\ \A h \in 1 .. Tickets : disk.rec[c].filed[h] \in {0} \cup Numbers
               /\ disk'.rec[c].spec = disk.rec[c].spec /\ disk'.rec[c].filed = disk.rec[c].filed
               /\ disk'.rec[c].labelled = disk.rec[c].labelled
    BY Types
  <2>2. ASSUME NEW c \in Cands PROVE SpecFits(c)'
    <3>1. SpecFits(c)
      BY RecordFacts
    <3>2. disk.rec[c].spec # 0 =>
            /\ disk.rec[c].spec # work'.made
            /\ issues'[disk.rec[c].spec].handle = issues[disk.rec[c].spec].handle
            /\ issues'[disk.rec[c].spec].set = issues[disk.rec[c].spec].set
      BY <1>1, <2>1, <3>1 DEF SpecFits
    <3> QED BY <1>2, <2>1, <3>1, <3>2, SpecStays
  <2>3. ASSUME NEW c \in Cands, NEW h \in 1 .. Tickets PROVE TicketFits(c, h)'
    <3>1. TicketFits(c, h)
      BY RecordFacts
    <3>2. SUFFICES ASSUME disk.rec[c].filed[h] # 0
                   PROVE  TicketFits(c, h)'
      BY <2>1 DEF TicketFits
    <3>3. /\ disk.rec[c].filed[h] \in Numbers /\ disk.rec[c].spec \in Numbers
          /\ disk.rec[c].filed[h] # work'.made
          /\ issues[disk.rec[c].filed[h]].parent = disk.rec[c].spec
      BY <2>1, <3>1, <3>2 DEF TicketFits, TicketOf
    <3>4. issues'[disk.rec[c].filed[h]].open => disk.rec[c].spec \notin closes
      BY <3>2, <3>3
    <3>5. LET j == issues[disk.rec[c].filed[h]]
              m == issues'[disk.rec[c].filed[h]]
          IN  /\ m.parent = j.parent /\ m.handle = j.handle /\ m.set = j.set
              /\ m.sub = j.sub /\ m.needs = j.needs /\ m.deps = j.deps /\ m.ready = j.ready
              /\ m.open => j.open
              /\ m.open /\ issues[disk.rec[c].spec].open => issues'[disk.rec[c].spec].open
      BY <1>1, <3>3, <3>4
    <3> HIDE DEF IInv, GithubFits, SameRecords, WorldGoesOn
    <3> QED BY <1>2, <2>1, <3>1, <3>3, <3>5, TicketStays
  <2> QED BY <2>2, <2>3, RecordsFitNext
<1>5. IssuesFit'
  BY <1>1, <1>2, <1>3 DEF IssuesFit, Open, Cands
<1>6. ReadyInTurn' /\ OwnDrafts'
  BY <1>1 DEF ReadyInTurn, OwnDrafts
<1>7. ReadySetsAreWhole'
  BY <1>1 DEF ReadySetsAreWhole, Connected, Whole
<1> QED BY <1>4, <1>5, <1>6, <1>7

LEMMA ClosingAway ==
  ASSUME IInv, NEW closes \in SUBSET Numbers, ClosesOnly(closes),
         \A i \in closes : issues[i].handle # 0 => issues[i].ready,
         \A i \in closes, j \in Numbers :
           issues[j].parent = i /\ issues'[j].open =>
             ~issues[j].ready /\ \A c \in Cands, h \in 1 .. Tickets : disk.rec[c].filed[h] # j,
         UNCHANGED <<disk, run, world>>, head' \in Nat, head <= head', disk.fp # head',
         pc \in {"plan", "wind"}, pc' \in {"idle", "wind"},
         work' \in Locals, work'.made = 0, ~work'.wind
  PROVE  IInv'
<1>1. /\ Numbers' = Numbers /\ Issue' = Issue /\ Session' = Session /\ Locals' = Locals
      /\ issues' \in Seq(Issue')
      /\ \A n \in Numbers :
           /\ issues'[n].handle = issues[n].handle /\ issues'[n].drafts = issues[n].drafts
           /\ issues'[n].ready = issues[n].ready
  BY ClosesFields DEF IInv
<1>2. WorldGoesOn /\ SameRecords(disk')
  BY DEF IInv, TypeOK, World, WorldGoesOn, SameRecords
<1>3. GithubFits'
  BY <1>2, ClosingKeeps
<1>4. TypeOK'
  BY <1>1 DEF IInv, TypeOK, World
<1>5. SessionFits' /\ FilingFits' /\ MadeFits' /\ CutFits'
  BY Types DEF IInv, SessionFits, FilingFits, MadeFits, CutFits, PhaseSteps
<1>6. DraftsStay'
  <2>1. Drafted' = Drafted /\ \A c : Author(c)' = Author(c)
    BY DEF Drafted, Author
  <2>2. ASSUME NEW c \in Cands, NEW h \in 1 .. Tickets, disk.rec[c].filed[h] # 0
        PROVE  issues'[disk.rec[c].filed[h]].drafts = issues[disk.rec[c].filed[h]].drafts
    BY <1>1, <2>2, Types DEF IInv
  <2> QED BY <2>1, <2>2 DEF IInv, DraftsStay
<1>7. LabelsFit'
  BY <1>1, Types, ZenonT(60) DEF IInv, LabelsFit, Drafted
<1>8. NothingLeftBehind'
  BY <1>1 DEF IInv, NothingLeftBehind, Author
<1> QED BY <1>3, <1>4, <1>5, <1>6, <1>7, <1>8 DEF IInv

LEMMA PlanKeeps == ASSUME IInv, Plan PROVE IInv'
<1>1. pc = "plan" /\ UNCHANGED disk /\ run \in Carried /\ ~run.interrupted /\ ~run.cut
  BY DEF Plan, IInv, CutFits, TypeOK
<1>2. head \in Nat /\ head <= head /\ head + 1 \in Nat /\ head <= head + 1 /\ disk.fp # head + 1
  BY Types DEF IInv, SessionFits
<1>3. CASE UNCHANGED <<head, issues, run, world>> /\ (Off \/ Idle)
  <2>1. world' \in World /\ WorldGoesOn
    BY <1>3 DEF IInv, TypeOK, WorldGoesOn, World
  <2>2. work' = NoWork /\ pc' \in {"off", "idle"}
    BY <1>3 DEF Off, Idle, Goto
  <2> QED BY <1>1, <1>2, <1>3, <2>1, <2>2, HalfLabelledAnywhere, Ends
<1>4. CASE Stop /\ AfterLimit(run) /\ UNCHANGED <<head, issues>>
  <2>1. /\ run' \in Carried /\ run'.interrupted = run.interrupted /\ run'.cut = run.cut
        /\ pc' \in {"off", "idle"} /\ work' = NoWork
    BY <1>1, <1>4, AfterLimitEffect
  <2> QED BY <1>1, <1>2, <1>4, <2>1, StopEffect, HalfLabelledAnywhere, Ends
<1>5. ASSUME NEW i \in Startable,
             LET p == issues[i].parent
                 family == {j \in Numbers : issues[j].parent = p /\ issues[j].sub}
                 closes == IF p # 0 /\ \A j \in family \ {i} : ~Open(j) THEN {i, p} ELSE {i}
             IN  issues' = [n \in Numbers |->
                   [issues[n] EXCEPT !.open = @ /\ n \notin closes]],
             head' = head + 1, Idle, UNCHANGED <<run, world>>
      PROVE  IInv'
  <2> DEFINE p == issues[i].parent
             family == {j \in Numbers : issues[j].parent = p /\ issues[j].sub}
             closes == IF p # 0 /\ \A j \in family \ {i} : ~Open(j) THEN {i, p} ELSE {i}
  <2>1. /\ i \in Numbers /\ issues[i].ready /\ issues[i].handle # 0
        /\ p \in Numbers /\ issues[p].handle = 0 /\ p # 0
    BY IssueType DEF Startable, ReadyIssues, IInv, GithubFits, IssuesFit, Issue
  <2>2. ClosesOnly(closes) /\ closes \in SUBSET Numbers
    BY <1>5, <2>1 DEF ClosesOnly
  <2>3. /\ Numbers' = Numbers
        /\ \A n \in Numbers : issues'[n].open <=> issues[n].open /\ n \notin closes
    BY <2>2, ClosesFields DEF IInv
  <2>4. ASSUME NEW c \in closes, NEW j \in Numbers, issues[j].parent = c, issues'[j].open
        PROVE  ~issues[j].sub
    <3>1. c # i
      BY <2>1, <2>4, Types DEF IInv, GithubFits, IssuesFit
    <3>2. c = p /\ \A k \in family \ {i} : ~Open(k)
      BY <3>1
    <3>3. issues[j].open /\ j # i
      BY <2>3, <2>4
    <3> QED BY <2>4, <3>2, <3>3 DEF Open
  <2>5. ASSUME NEW j \in Numbers, ~issues[j].sub
        PROVE  ~issues[j].ready /\ \A c \in Cands, h \in 1 .. Tickets : disk.rec[c].filed[h] # j
    <3>1. j # 0
      BY Types DEF IInv
    <3> QED BY <2>5, <3>1 DEF IInv, GithubFits, ReadySetsAreWhole, Connected, RecordsFit
  <2>6. \A c \in closes : issues[c].handle # 0 => issues[c].ready
    BY <2>1
  <2>7. pc' = "idle" /\ work' = NoWork /\ NoWork \in Locals /\ Locals' = Locals
    BY <1>5, <2>2, NoWorkType, ClosesFields DEF Idle, Goto, IInv
  <2>8. work' \in Locals /\ work'.made = 0 /\ ~work'.wind
    BY <2>7 DEF NoWork
  <2> HIDE DEF closes
  <2> QED BY <1>1, <1>2, <1>5, <2>2, <2>4, <2>5, <2>6, <2>7, <2>8, ClosingAway
<1> QED BY <1>3, <1>4, <1>5, Zenon DEF Plan

LEMMA WoundDownKeeps == ASSUME IInv, WoundDown PROVE IInv'
<1>1. /\ pc = "wind" /\ disk' = [NoSession EXCEPT !.fp = head] /\ pc' = "enter"
      /\ work' = [work EXCEPT !.cand = 0] /\ UNCHANGED <<head, issues, run, world>>
  BY DEF WoundDown, Goto
<1>2. head \in Nat /\ world.scans \in Nat /\ work \in Locals /\ work.made = 0 /\ ~work.wind
  BY <1>1, Types DEF IInv, TypeOK, FilingFits
<1>3. /\ disk' \in Session /\ disk'.fp = head /\ disk'.rec = [c \in Cands |-> NoRecord]
      /\ disk'.scan = 0 /\ disk'.listed = FALSE /\ disk'.count = 0 /\ disk'.cursor = 0
      /\ disk'.drafts = [h \in Handles |-> Nobody] /\ disk'.valid = FALSE
  <2>1. NoSession \in Session
    BY NoWorkType
  <2> QED BY <1>1, <1>2, <2>1 DEF NoSession, Session
<1>4. work' \in Locals /\ work'.made = 0 /\ ~work'.wind
  BY <1>1, <1>2 DEF Locals
<1>5. TypeOK'
  BY <1>1, <1>3, <1>4, SameIssues DEF IInv, TypeOK
<1>6. GithubFits'
  BY <1>1, <1>2, <1>3, EmptyKeeps DEF NoRecord
<1>7. SessionFits'
  BY <1>1, <1>2, <1>3 DEF SessionFits, PhaseSteps, NoRecord
<1>8. FilingFits' /\ MadeFits' /\ CutFits'
  BY <1>1, <1>4 DEF FilingFits, MadeFits, IInv, CutFits
<1>9. DraftsStay' /\ LabelsFit'
  BY <1>3 DEF DraftsStay, LabelsFit, NoRecord
<1>10. NothingLeftBehind'
  <2>1. Numbers' = Numbers
    BY <1>1, SameIssues DEF IInv
  <2>2. world'.faults = 0 => NothingLeft(disk)
    BY <1>1, NothingLeftAsIs
  <2> QED BY <1>1, <1>3, <1>4, <2>1, <2>2 DEF NothingLeftBehind, NothingLeft, NoRecord
<1> QED BY <1>5, <1>6, <1>7, <1>8, <1>9, <1>10 DEF IInv

\* The wind-down turns to a set that was begun.
LEMMA WindDownFiles ==
  ASSUME IInv, WindDown, pc' = "file"
  PROVE  IInv'
<1>1. /\ pc = "wind" /\ work.cand < PerScan /\ Pending(work.cand) /\ Rec.spec # 0
      /\ SomeFiled(work.cand) /\ disk.valid /\ UNCHANGED <<head, issues, disk, run>>
      /\ work' = [work EXCEPT !.wind = TRUE]
      /\ world' = [world EXCEPT !.foreign =
                     IF disk.drafts[0] = Author(work.cand) THEN @ ELSE @ \cup {Author(work.cand)}]
  BY Zenon DEF WindDown, Rec
<1>2. work.cand \in Cands /\ work.made = 0 /\ disk.fp # head /\ ~Rec.labelled
  BY <1>1, Types DEF IInv, SessionFits, FilingFits, Cands, Pending, Rec
<1>3. /\ work' \in Locals /\ work'.cand = work.cand /\ work'.made = 0 /\ work'.wind = TRUE
  BY <1>1, <1>2, SameIssues DEF IInv, TypeOK, Locals
<1>4. Author(work.cand) \in Sets
  BY <1>2, Types DEF IInv, Author, Sets, Cands
<1>5. /\ world' \in World /\ WorldGoesOn /\ world'.faults = world.faults
      /\ disk.drafts[0] = Author(work.cand) \/ Author(work.cand) \in world'.foreign
  <2>1. world.foreign \cup {Author(work.cand)} \subseteq Sets
    BY <1>4 DEF IInv, TypeOK, World
  <2> HIDE DEF Author
  <2> QED BY <1>1, <2>1 DEF IInv, TypeOK, World, WorldGoesOn
<1>6. TypeOK'
  BY <1>1, <1>3, <1>5, SameIssues DEF IInv, TypeOK
<1>7. GithubFits'
  BY <1>1, <1>2, <1>3, <1>5, FrameKeeps DEF SameRecords
<1>8. SessionFits' /\ MadeFits' /\ CutFits'
  BY <1>1, <1>3, <1>5 DEF IInv, SessionFits, MadeFits, CutFits, PhaseSteps, WorldGoesOn
<1>9. FilingFits'
  <2>1. Rec' = Rec /\ SomeFiled(work.cand)' /\ Author(work.cand)' = Author(work.cand)
    BY <1>1, <1>3 DEF Rec, SomeFiled, Author
  <2> QED BY <1>1, <1>2, <1>3, <1>5, <2>1 DEF FilingFits, Rec, SomeFiled, Author
<1>10. DraftsStay' /\ LabelsFit'
  BY <1>1, <1>2, <1>3 DEF IInv, DraftsStay, LabelsFit, Author, Drafted
<1>11. NothingLeftBehind'
  BY <1>1, <1>2, <1>5, NothingLeftAsIs DEF NothingLeftBehind, NothingLeft, Rec
<1> QED BY <1>6, <1>7, <1>8, <1>9, <1>10, <1>11 DEF IInv

LEMMA WindDownKeeps == ASSUME IInv, WindDown PROVE IInv'
<1> DEFINE spec == disk.rec[work.cand].spec
<1>1. CASE pc' = "file"
  BY <1>1, WindDownFiles
<1>2. CASE pc' # "file"
  <2>1. /\ pc = "wind" /\ pc' = "wind" /\ work.cand < PerScan
        /\ issues' = IF Pending(work.cand) /\ spec # 0 /\ ~SomeFiled(work.cand)
                     THEN [issues EXCEPT ![spec].open = FALSE] ELSE issues
        /\ work' = [work EXCEPT !.cand = @ + 1] /\ UNCHANGED <<head, disk, run, world>>
    BY <1>2 DEF WindDown, Goto
  <2>2. /\ work.cand \in Cands /\ work.cand + 1 \in 0 .. PerScan /\ disk.fp # head
        /\ work.made = 0 /\ ~work.wind /\ head \in Nat /\ head <= head
    BY <2>1, Types DEF IInv, SessionFits, FilingFits, Cands
  <2>3. /\ [work EXCEPT !.cand = @ + 1] \in Locals /\ work'.made = 0 /\ ~work'.wind
    BY <2>1, <2>2 DEF IInv, TypeOK, Locals
  <2>4. CASE issues' = issues
    <3>1. TypeOK' /\ CutFits' /\ WorldGoesOn
      BY <2>1, <2>3, <2>4, SameIssues DEF IInv, TypeOK, CutFits, WorldGoesOn, World
    <3> QED BY <2>1, <2>2, <2>3, <2>4, <3>1, Away DEF Elsewhere
  <2>5. CASE Pending(work.cand) /\ spec # 0 /\ ~SomeFiled(work.cand)
    <3>1. /\ issues' = [issues EXCEPT ![spec].open = FALSE] /\ spec \in Numbers
          /\ issues[spec].handle = 0 /\ issues[spec].set = Author(work.cand)
          /\ \A h \in 1 .. Tickets : disk.rec[work.cand].filed[h] = 0
      BY <2>1, <2>2, <2>5, Types DEF IInv, GithubFits, RecordsFit, SomeFiled
    <3>2. ClosesOnly({spec})
      <4>1. \A n \in Numbers : issues[n] \in Issue
        BY IssueType DEF IInv
      <4>2. ASSUME NEW n \in Numbers
            PROVE  issues'[n] = [issues[n] EXCEPT !.open = @ /\ n \notin {spec}]
        <5>1. CASE n = spec
          BY <3>1, <4>1, <5>1 DEF Issue, Numbers
        <5>2. CASE n # spec
          <6>1. (issues[n].open /\ n \notin {spec}) = issues[n].open
            BY <4>1, <5>2 DEF Issue
          <6>2. issues'[n] = issues[n]
            BY <3>1, <5>2 DEF Numbers
          <6> QED BY <4>1, <6>1, <6>2 DEF Issue
        <5> QED BY <5>1, <5>2
      <4> QED BY <3>1, <4>2, Zenon DEF ClosesOnly, Numbers
    <3>3. ASSUME NEW j \in Numbers, issues[j].parent = spec
          PROVE  ~issues[j].ready /\ \A c \in Cands, h \in 1 .. Tickets : disk.rec[c].filed[h] # j
      <4>1. issues[j].handle # 0 /\ issues[j].set = Author(work.cand)
        BY <2>5, <3>1, <3>3, IssueFacts DEF IInv, GithubFits
      <4>2. issues[j].handle \in 1 .. Tickets
        BY <4>1, IssueType DEF IInv, Issue, Handles
      <4>3. ~issues[j].ready
        <5>1. IssuesFit
          BY DEF IInv, GithubFits
        <5>2. issues[j].ready => disk.rec[work.cand].filed[issues[j].handle] = j
          BY <2>2, <3>3, <4>1, <5>1, IssueFacts
        <5> QED BY <2>2, <3>1, <4>2, <5>2, Types DEF IInv
      <4>4. ASSUME NEW c \in Cands, NEW h \in 1 .. Tickets, disk.rec[c].filed[h] = j
            PROVE  FALSE
        <5>1. issues[j].set = Author(c)
          BY <4>4, Types DEF IInv, GithubFits, RecordsFit
        <5>2. c = work.cand
          BY <4>1, <5>1 DEF Author
        <5> QED BY <3>1, <4>4, <5>2, Types DEF IInv
      <4> QED BY <4>3, <4>4
    <3>4. work' \in Locals
      BY <2>1, <2>3, <3>2, ClosesFields DEF IInv
    <3> QED BY <2>1, <2>2, <2>3, <3>1, <3>2, <3>3, <3>4, ClosingAway
  <2> QED BY <2>1, <2>4, <2>5
<1> QED BY <1>1, <1>2

-----------------------------------------------------------------------------
(* Filing. *)

\* What is true of the candidate that is filed.
LEMMA AtFiling ==
  ASSUME IInv, pc = "file"
  PROVE  /\ work.cand \in Cands /\ disk.scan # 0 /\ disk.scan \in 1 .. world.scans
         /\ disk.drafts[0] # Nobody /\ Author(work.cand) \in (1 .. world.scans) \X Cands
         /\ \A c \in Cands : Author(c) = Author(work.cand) => c = work.cand
         /\ ~work.wind => disk.fp = head /\ disk.cursor = work.cand + 1 /\ work.cand < disk.count
         /\ work.wind => Rec.spec # 0 /\ disk.fp # head /\ world.faults # 0
<1>1. /\ work.cand \in Cands /\ disk.valid
      /\ ~work.wind => disk.fp = head /\ disk.cursor = work.cand + 1 /\ work.cand < disk.count
      /\ work.wind => Rec.spec # 0 /\ disk.fp # head
  BY DEF IInv, FilingFits
<1>2. disk.count # 0
  BY <1>1, Types DEF IInv, SessionFits, Rec, Cands
<1>3. disk.scan # 0 /\ disk.scan \in 1 .. world.scans /\ disk.drafts[0] # Nobody
  BY <1>1, <1>2, Types DEF IInv, SessionFits
<1>4. work.wind => world.faults # 0
  BY DEF IInv, NothingLeftBehind
<1> QED BY <1>1, <1>3, <1>4 DEF Author

LEMMA FiledKeeps == ASSUME IInv, Filed PROVE IInv'
<1>1. /\ pc = "file" /\ Rec.labelled /\ UNCHANGED <<head, issues, run, world>>
  BY DEF Filed
<1>2. work.made = 0 /\ WorldGoesOn /\ head <= head
  BY <1>1, Types DEF IInv, FilingFits, TypeOK, World, WorldGoesOn
<1>3. CASE work.wind
  <2>1. /\ work' = [work EXCEPT !.cand = @ + 1, !.wind = FALSE] /\ pc' = "wind"
        /\ UNCHANGED disk
    BY <1>3 DEF Filed, Goto
  <2>2. disk.fp # head /\ world.faults # 0 /\ work.cand + 1 \in 0 .. PerScan
    BY <1>1, <1>3, AtFiling DEF Cands
  <2>3. work' \in Locals /\ work'.made = 0 /\ ~work'.wind
    BY <1>1, <1>2, <2>1, <2>2, SameIssues DEF IInv, TypeOK, Locals
  <2>4. TypeOK' /\ CutFits'
    BY <1>1, <2>1, <2>3, SameIssues DEF IInv, TypeOK, CutFits
  <2> QED BY <1>1, <1>2, <2>1, <2>2, <2>3, <2>4, Away DEF Elsewhere
<1>4. CASE ~work.wind
  <2>1. /\ work' = [work EXCEPT !.completed = @ + 1] /\ disk' = Cleared(disk)
        /\ pc' \in {"over", "mid"}
    BY <1>4 DEF Filed, Goto
  <2>2. work' \in Locals /\ work'.made = 0 /\ ~work'.wind
    BY <1>1, <1>2, <1>4, <2>1, SameIssues DEF IInv, TypeOK, Locals
  <2>3. TypeOK' /\ CutFits'
    BY <1>1, <2>1, <2>2, SameIssues, ClearedFields DEF IInv, TypeOK, CutFits
  <2>4. \A c \in Cands : ~HalfLabelled(c)
    BY <1>1, <1>4, AtFiling, HalfLabelledWhere DEF HalfLabelled, Rec
  <2>5. ASSUME world'.faults = 0 PROVE NothingLeft(disk')
    <3>1. disk'.rec = disk.rec /\ disk'.drafts = [h \in Handles |-> Nobody]
      BY <2>1, ClearedFields, Types DEF IInv
    <3>2. \A c \in Cands : disk.rec[c].spec # 0 => disk.rec[c].labelled
      BY <1>1, <2>5 DEF IInv, NothingLeftBehind, Rec
    <3>3. \A h \in 1 .. Tickets : Rec.filed[h] # 0 => issues[Rec.filed[h]].ready
      BY <1>1, AtFiling DEF IInv, GithubFits, RecordsFit, Rec
    <3>4. \A i \in Numbers : issues[i].handle # 0 => issues[i].ready
      BY <1>1, <1>2, <2>5, <3>3, Types DEF IInv, NothingLeftBehind
    <3> QED BY <3>1, <3>2, <3>4 DEF NothingLeft
  <2> QED BY <1>1, <1>2, <2>1, <2>2, <2>3, <2>4, <2>5, AwayWith DEF Elsewhere
<1> QED BY <1>3, <1>4

\* An issue is created, for the spec or the next ticket.
LEMMA Creating ==
  ASSUME IInv, pc = "file", work.made = 0,
         NEW h \in Handles, NEW parent \in {0} \cup Numbers, NEW needs \in SUBSET Numbers,
         Create(h, parent, needs), disk.drafts[h] # Nobody, parent = Rec.spec,
         IF h = 0 THEN Rec.spec = 0
         ELSE /\ Rec.spec # 0 /\ ToFile # {} /\ h = NextTicket
              /\ needs = Blockers(h) \cup PrevSpec
  PROVE  IInv'
<1> DEFINE n == Len(issues) + 1
           r == [by |-> disk.drafts[h], handle |-> h, parent |-> parent, needs |-> needs,
                 set |-> Author(work.cand), drafts |-> Drafted, sub |-> FALSE, deps |-> {},
                 ready |-> FALSE, open |-> TRUE]
<1>1. UNCHANGED <<head, disk, run, world, pc>>
  BY DEF Create
<1>2. /\ Numbers' = Numbers \cup {n} /\ n \notin Numbers /\ 0 \notin Numbers' /\ n \in Nat
      /\ issues'[n] = r /\ \A i \in Numbers : issues'[i] = issues[i]
      /\ r \in Issue' => issues' \in Seq(Issue')
  <2>1. issues' = Append(issues, r)
    BY DEF Create
  <2> QED BY <2>1, NewNumber DEF IInv
<1>3. work.cand \in Cands /\ Author(work.cand) \in (1 .. world.scans) \X Cands
  BY AtFiling
<1>4. work' \in Locals' /\ work'.made = n /\ work'.cand = work.cand /\ work'.wind = work.wind
  BY <1>2 DEF Create, IInv, TypeOK, Locals
<1>5. Rec' = Rec /\ Drafted' = Drafted /\ ToFile' = ToFile /\ NextTicket' = NextTicket
  BY <1>1, <1>4 DEF Rec, Drafted, ToFile, NextTicket
<1>6. /\ \A c : Author(c)' = Author(c)
      /\ Blockers(NextTicket)' = Blockers(NextTicket) /\ PrevSpec' = PrevSpec
  BY <1>1, <1>4, <1>5 DEF Author, Blockers, PrevSpec
<1>7. r \in Issue'
  <2>1. /\ disk.drafts[h] \in Sets /\ Drafted \in SUBSET (1 .. Tickets)
        /\ Author(work.cand) \in Sets
    BY <1>3, Types DEF IInv, Drafted, Sets, Cands
  <2>2. parent \in {0} \cup Numbers' /\ needs \in SUBSET Numbers' /\ {} \in SUBSET Numbers'
    BY <1>2
  <2> QED BY <2>1, <2>2 DEF Issue
<1>8. /\ r.by = disk.drafts[h] /\ r.handle = h /\ r.parent = parent /\ r.needs = needs
      /\ r.set = Author(work.cand) /\ r.drafts = Drafted /\ r.sub = FALSE
      /\ r.ready = FALSE /\ r.open = TRUE
  OBVIOUS
<1> HIDE DEF n, r
<1>9. \A c \in Cands :
        /\ disk.rec[c].spec \in {0} \cup Numbers
        /\ \A g \in 1 .. Tickets : disk.rec[c].filed[g] \in {0} \cup Numbers
  BY Types DEF IInv
<1>10. /\ \A i \in Numbers : Open(i)' = Open(i)
       /\ \A i \in Numbers : issues[i].parent \in {0} \cup Numbers
  BY <1>2, IssueType DEF Open, IInv, Issue
<1>11. /\ parent # 0 => issues[parent].handle = 0 /\ issues[parent].set = Author(work.cand)
       /\ h # 0 <=> parent # 0
       /\ ~Rec.labelled
  BY <1>3 DEF IInv, GithubFits, RecordsFit, FilingFits, Rec
<1>12. TypeOK'
  <2>1. Record \subseteq Record'
    BY <1>2 DEF Record
  <2>2. disk \in Session'
    BY <2>1, Types DEF IInv, Session
  <2> QED BY <1>1, <1>2, <1>4, <1>7, <2>2 DEF IInv, TypeOK
<1>13. RecordsFit'
  <2>1. RecordsFit
    BY DEF IInv, GithubFits
  <2>2. disk' = disk /\ n \notin Numbers /\ work'.made = n
    BY <1>1, <1>2, <1>4
  <2>3. \A i \in Numbers : issues'[i] = issues[i]
    BY <1>2
  <2>4. ASSUME NEW c \in Cands PROVE SpecFits(c)'
    <3>1. SpecFits(c)
      BY <2>1, RecordFacts
    <3>2. disk.rec[c].spec # 0 =>
            /\ disk.rec[c].spec # work'.made
            /\ issues'[disk.rec[c].spec] = issues[disk.rec[c].spec]
      BY <1>9, <2>2, <2>3
    <3> QED BY <1>6, <2>2, <3>1, <3>2, SpecStays
  <2>5. ASSUME NEW c \in Cands, NEW h1 \in 1 .. Tickets PROVE TicketFits(c, h1)'
    <3>1. TicketFits(c, h1)
      BY <2>1, RecordFacts
    <3>2. SUFFICES ASSUME disk.rec[c].filed[h1] # 0
                   PROVE  TicketFits(c, h1)'
      BY <2>2 DEF TicketFits
    <3>3. /\ disk.rec[c].filed[h1] \in Numbers /\ disk.rec[c].spec \in Numbers
      BY <1>9, <3>1, <3>2 DEF TicketFits
    <3>4. /\ disk.rec[c].filed[h1] # work'.made
          /\ issues'[disk.rec[c].filed[h1]] = issues[disk.rec[c].filed[h1]]
          /\ issues'[disk.rec[c].spec] = issues[disk.rec[c].spec]
      BY <2>2, <2>3, <3>3
    <3> QED BY <1>6, <2>2, <3>1, <3>4, TicketStays
  <2> QED BY <2>4, <2>5, RecordsFitNext
<1>14. IssuesFit'
  <2>1. ASSUME NEW c \in Cands, Author(c) = Author(work.cand), c # 0, h # 0
        PROVE  disk.rec[c - 1].spec \in {0} \cup needs
    BY <2>1, AtFiling DEF PrevSpec
  <2>2. \A c \in Cands : Author(c) = Author(work.cand) => c = work.cand
    BY AtFiling
  <2>3. ASSUME NEW i \in Numbers
        PROVE  LET s == issues'[i] IN
                 /\ s.set \in (1 .. world.scans) \X Cands
                 /\ s.handle # 0 <=> s.parent # 0
                 /\ s.parent # 0 => issues'[s.parent].handle = 0 /\ issues'[s.parent].set = s.set
                 /\ s.ready => s.handle # 0
                 /\ s.ready /\ s.open => issues'[s.parent].open
                 /\ s.handle # 0 /\ ~s.open => s.ready
                 /\ \A c \in Cands :
                      s.set = Author(c) /\ s.handle # 0 =>
                        /\ s.parent = disk.rec[c].spec
                        /\ s.ready => disk.rec[c].filed[s.handle] = i
                        /\ c # 0 => disk.rec[c - 1].spec \in {0} \cup s.needs
    <3>1. /\ issues'[i] = issues[i] /\ 0 \notin Numbers
          /\ issues[i].parent # 0 => issues'[issues[i].parent] = issues[issues[i].parent]
      BY <1>2, <1>10, Types DEF IInv
    <3>2. issues[i].ready => issues[i].handle # 0 /\ issues[i].parent # 0
      BY DEF IInv, GithubFits, IssuesFit
    <3> QED BY <3>1, <3>2 DEF IInv, GithubFits, IssuesFit, Open
  <2>4. LET s == issues'[n] IN
          /\ s.set \in (1 .. world.scans) \X Cands
          /\ s.handle # 0 <=> s.parent # 0
          /\ s.parent # 0 => issues'[s.parent].handle = 0 /\ issues'[s.parent].set = s.set
          /\ ~s.ready /\ s.open
          /\ \A c \in Cands :
               s.set = Author(c) /\ s.handle # 0 =>
                 /\ s.parent = disk.rec[c].spec
                 /\ c # 0 => disk.rec[c - 1].spec \in {0} \cup s.needs
    BY <1>2, <1>3, <1>8, <1>11, <2>1, <2>2 DEF Rec
  <2>5. \A i \in Numbers' : i \in Numbers \/ i = n
    BY <1>2
  <2> HIDE DEF Numbers
  <2> QED BY <1>1, <1>6, <2>3, <2>4, <2>5 DEF IssuesFit, Open, Author
<1>15. ReadyInTurn' /\ OwnDrafts'
  <2>1. world.faults = 0 => disk.drafts[h] = Author(work.cand)
    BY DEF IInv, NothingLeftBehind
  <2> QED BY <1>1, <1>2, <1>8, <2>1 DEF IInv, GithubFits, ReadyInTurn, OwnDrafts
<1>16. ReadySetsAreWhole'
  <2>1. ASSUME NEW i \in Numbers
        PROVE  /\ issues'[i] = issues[i] /\ Connected(i)' = Connected(i)
               /\ Whole(i) => Whole(i)'
    BY <1>2 DEF Connected, Whole
  <2>2. ~issues'[n].ready /\ \A i \in Numbers' : i \in Numbers \/ i = n
    BY <1>2, <1>8
  <2> QED BY <1>1, <2>1, <2>2 DEF IInv, GithubFits, ReadySetsAreWhole
<1>17. SessionFits' /\ CutFits'
  BY <1>1, <1>4 DEF IInv, SessionFits, CutFits, PhaseSteps
<1>18. FilingFits'
  BY <1>1, <1>3, <1>4, <1>5, <1>6, <1>9, <1>10, <1>11 DEF IInv, FilingFits, SomeFiled, Rec
<1>19. MadeFits'
  BY <1>1, <1>2, <1>4, <1>5, <1>6, <1>8 DEF MadeFits
<1>20. DraftsStay' /\ LabelsFit'
  BY <1>1, <1>2, <1>4, <1>5, <1>6, <1>9 DEF IInv, DraftsStay, LabelsFit
<1>21. NothingLeftBehind'
  BY <1>1, <1>2, <1>4, <1>5, <1>6 DEF IInv, NothingLeftBehind, Rec
<1> QED BY <1>12, <1>13, <1>14, <1>15, <1>16, <1>17, <1>18, <1>19, <1>20, <1>21
        DEF IInv, GithubFits

LEMMA CreateSpecKeeps == ASSUME IInv, CreateSpec PROVE IInv'
<1>1. pc = "file" /\ Rec.spec = 0 /\ work.made = 0 /\ Create(0, 0, {})
  BY DEF CreateSpec
<1>2. 0 \in Handles /\ disk.drafts[0] # Nobody
  BY <1>1, AtFiling DEF Handles
<1> QED BY <1>1, <1>2, Creating

\* What the next ticket waits for is at GitHub: its predecessor in the set is
\* filed, since tickets are filed in order.
LEMMA EdgesExist ==
  ASSUME IInv, pc = "file", ToFile # {}
  PROVE  Blockers(NextTicket) \cup PrevSpec \in SUBSET Numbers
<1>1. work.cand \in Cands
  BY AtFiling
<1>2. PrevSpec \subseteq Numbers
  BY <1>1, Types DEF IInv, PrevSpec, Cands
<1>3. ASSUME NEW g \in Drafted, g = NextTicket - 1 PROVE Rec.filed[g] \in Numbers
  <2>1. NextTicket \in 1 .. Tickets /\ \A k \in ToFile : NextTicket <= k
    BY LeastTicket DEF IInv, ToFile, Drafted
  <2>2. g \in 1 .. Tickets /\ g \notin ToFile
    BY <1>3, <2>1 DEF Drafted
  <2> QED BY <1>1, <1>3, <2>2, Types DEF IInv, ToFile, Rec
<1> QED BY <1>2, <1>3 DEF Blockers

LEMMA CreateTicketKeeps == ASSUME IInv, CreateTicket PROVE IInv'
<1>1. /\ pc = "file" /\ Rec.spec # 0 /\ work.made = 0 /\ ToFile # {}
      /\ Create(NextTicket, Rec.spec, Blockers(NextTicket) \cup PrevSpec)
  BY DEF CreateTicket
<1>2. NextTicket \in Handles /\ NextTicket # 0 /\ disk.drafts[NextTicket] # Nobody
  BY <1>1, LeastTicket DEF IInv, ToFile, Drafted, Handles
<1>3. Rec.spec \in Numbers
  BY <1>1, AtFiling, Types DEF IInv, Rec
<1> QED BY <1>1, <1>2, <1>3, EdgesExist, Creating

\* The spec is recorded; no ticket of its set is at GitHub yet, and none of the
\* next candidate's.
LEMMA RecordSpecKeeps == ASSUME IInv, RecordSpec PROVE IInv'
<1>1. /\ pc = "file" /\ Rec.spec = 0 /\ work.made # 0 /\ UNCHANGED <<head, issues, run, world, pc>>
      /\ work' = [work EXCEPT !.made = 0]
  BY DEF RecordSpec
<1>2. /\ work.cand \in Cands /\ ~work.wind /\ disk.cursor = work.cand + 1
      /\ work.cand < disk.count
      /\ \A c \in Cands : Author(c) = Author(work.cand) => c = work.cand
  BY <1>1, AtFiling
<1>3. /\ work.made \in Numbers /\ issues[work.made].set = Author(work.cand)
      /\ issues[work.made].handle = 0 /\ issues[work.made].open
  BY <1>1, Types DEF IInv, MadeFits
<1>4. /\ disk' \in Session /\ disk'.fp = disk.fp /\ disk'.scan = disk.scan
      /\ disk'.listed = disk.listed /\ disk'.count = disk.count /\ disk'.cursor = disk.cursor
      /\ disk'.drafts = disk.drafts /\ disk'.valid = disk.valid
      /\ \A c \in Cands :
           /\ disk'.rec[c].spec = IF c = work.cand THEN work.made ELSE disk.rec[c].spec
           /\ disk'.rec[c].filed = disk.rec[c].filed
           /\ disk'.rec[c].labelled = disk.rec[c].labelled
  <2>1. disk' = [disk EXCEPT !.rec[work.cand].spec = work.made, !.rec[work.cand].exists = TRUE]
    BY DEF RecordSpec
  <2> DEFINE r == [disk.rec[work.cand] EXCEPT !.spec = work.made, !.exists = TRUE]
  <2>2. disk \in Session /\ disk.rec \in [Cands -> Record]
    BY Types DEF IInv, Session
  <2>3. /\ r \in Record /\ r.spec = work.made /\ r.filed = disk.rec[work.cand].filed
        /\ r.labelled = disk.rec[work.cand].labelled
    BY <1>2, <1>3, <2>2 DEF Record
  <2>4. disk' = [disk EXCEPT !.rec = [disk.rec EXCEPT ![work.cand] = r]]
    BY <2>1, <2>2 DEF Session
  <2> HIDE DEF r
  <2> QED BY <1>2, <2>2, <2>3, <2>4 DEF Session
<1>5. work' \in Locals /\ work'.made = 0 /\ work'.cand = work.cand /\ ~work'.wind
  BY <1>1, <1>2 DEF IInv, TypeOK, Locals
<1>6. /\ Numbers' = Numbers /\ Drafted' = Drafted /\ (\A c : Author(c)' = Author(c))
      /\ \A i \in Numbers : Open(i)' = Open(i)
      /\ Rec'.spec = work.made /\ Rec'.filed = Rec.filed /\ Rec'.labelled = Rec.labelled
  BY <1>1, <1>2, <1>4, <1>5, SameIssues DEF IInv, Drafted, Author, Open, Rec
<1>7. ~Rec.labelled /\ \A h \in 1 .. Tickets : Rec.filed[h] = 0
  BY <1>1, <1>2 DEF IInv, GithubFits, RecordsFit, Rec
<1>8. ASSUME NEW i \in Numbers, NEW c \in Cands, issues[i].set = Author(c), issues[i].handle # 0
      PROVE  c # work.cand /\ c # work.cand + 1
  <2>1. disk.rec[c].spec # 0
    BY <1>8 DEF IInv, GithubFits, IssuesFit
  <2> QED BY <1>1, <1>2, <1>8, <2>1, Types DEF IInv, SessionFits, Rec, Cands
<1>9. TypeOK'
  BY <1>1, <1>4, <1>5, SameIssues DEF IInv, TypeOK
<1>10. RecordsFit'
  <2>1. RecordsFit
    BY DEF IInv, GithubFits
  <2>2. issues' = issues /\ work'.made = 0 /\ 0 \notin Numbers
    BY <1>1, <1>5, Types DEF IInv
  <2>3. ASSUME NEW c \in Cands PROVE SpecFits(c)'
    <3>1. CASE c = work.cand
      <4>1. /\ disk'.rec[c].spec = work.made /\ work.made # 0
            /\ issues[work.made].handle = 0 /\ issues[work.made].set = Author(c)
        BY <1>3, <1>4, <2>2, <3>1
      <4> QED BY <1>6, <2>2, <4>1 DEF SpecFits
    <3>2. CASE c # work.cand
      BY <1>4, <1>6, <2>1, <2>2, <3>2, RecordFacts, SpecStays
    <3> QED BY <3>1, <3>2
  <2>4. ASSUME NEW c \in Cands, NEW h \in 1 .. Tickets PROVE TicketFits(c, h)'
    <3>1. CASE c = work.cand
      BY <1>4, <1>7, <3>1 DEF Rec, TicketFits
    <3>2. CASE c # work.cand
      BY <1>4, <1>6, <2>1, <2>2, <3>2, RecordFacts, TicketStays
    <3> QED BY <3>1, <3>2
  <2> QED BY <2>3, <2>4, RecordsFitNext
<1>11. IssuesFit'
  <2>1. ASSUME NEW i \in Numbers, NEW c \in Cands,
               issues[i].set = Author(c), issues[i].handle # 0
        PROVE  /\ disk'.rec[c].spec = disk.rec[c].spec
               /\ c # 0 => disk'.rec[c - 1].spec = disk.rec[c - 1].spec
    BY <1>2, <1>4, <1>8, <2>1 DEF Cands
  <2> QED BY <1>1, <1>4, <1>6, <2>1 DEF IInv, GithubFits, IssuesFit, Open, Author
<1>12. ReadyInTurn' /\ OwnDrafts' /\ ReadySetsAreWhole'
  BY <1>1, <1>6, SMTT(60) DEF IInv, GithubFits, ReadyInTurn, OwnDrafts, ReadySetsAreWhole, Connected, Whole
<1>13. SessionFits' /\ CutFits' /\ MadeFits'
  <2>1. \A c \in Cands : disk'.rec[c].spec # 0 => c < disk'.cursor /\ c < disk'.count
    BY <1>2, <1>4, Types DEF IInv, SessionFits, Cands
  <2>2. SessionFits'
    BY <1>1, <1>4, <2>1 DEF IInv, SessionFits, PhaseSteps
  <2> QED BY <1>1, <1>5, <2>2 DEF IInv, CutFits, MadeFits
<1>14. FilingFits'
  BY <1>1, <1>2, <1>3, <1>4, <1>5, <1>6, <1>7, AtFiling DEF IInv, FilingFits, Open
<1>15. DraftsStay' /\ LabelsFit'
  <2>1. DraftsStay'
    BY <1>1, <1>4, <1>5, <1>6 DEF IInv, DraftsStay
  <2>2. LabelsFit'
    BY <1>1, <1>4, <1>5, <1>6 DEF IInv, LabelsFit
  <2> QED BY <2>1, <2>2
<1>16. NothingLeftBehind'
  BY <1>1, <1>3, <1>4, <1>5, <1>6 DEF IInv, NothingLeftBehind, Author
<1> QED BY <1>9, <1>10, <1>11, <1>12, <1>13, <1>14, <1>15, <1>16 DEF IInv, GithubFits

\* An issue gets its label, or becomes a sub-issue with edges.
LEMMA WiredIssue ==
  ASSUME NEW n \in Issue, NEW edges \in SUBSET Numbers
  PROVE  LET m == [n EXCEPT !.sub = TRUE, !.deps = edges] IN
           /\ m \in Issue /\ m.sub = TRUE /\ m.deps = edges /\ m.by = n.by
           /\ m.handle = n.handle /\ m.parent = n.parent /\ m.needs = n.needs
           /\ m.set = n.set /\ m.drafts = n.drafts /\ m.ready = n.ready /\ m.open = n.open
  BY DEF Issue

LEMMA WiredFields ==
  ASSUME TypeOK, NEW i \in Numbers, NEW edges \in SUBSET Numbers, Wired(i, edges)
  PROVE  /\ Numbers' = Numbers /\ Issue' = Issue /\ Session' = Session /\ Locals' = Locals
         /\ issues' \in Seq(Issue')
         /\ \A n \in Numbers :
              /\ issues'[n].by = issues[n].by /\ issues'[n].handle = issues[n].handle
              /\ issues'[n].parent = issues[n].parent /\ issues'[n].needs = issues[n].needs
              /\ issues'[n].set = issues[n].set /\ issues'[n].drafts = issues[n].drafts
              /\ issues'[n].ready = issues[n].ready /\ issues'[n].open = issues[n].open
              /\ n # i => issues'[n] = issues[n]
         /\ issues'[i].sub = TRUE /\ issues'[i].deps = edges
<1> DEFINE m == [issues[i] EXCEPT !.sub = TRUE, !.deps = edges]
<1>1. issues = [n \in Numbers |-> issues[n]] /\ \A n \in Numbers : issues[n] \in Issue
  BY IssueType DEF Numbers, TypeOK
<1>2. issues' = [issues EXCEPT ![i] = m]
  BY <1>1 DEF Wired
<1>3. /\ m \in Issue /\ m.sub = TRUE /\ m.deps = edges /\ m.by = issues[i].by
      /\ m.handle = issues[i].handle /\ m.parent = issues[i].parent
      /\ m.needs = issues[i].needs /\ m.set = issues[i].set /\ m.drafts = issues[i].drafts
      /\ m.ready = issues[i].ready /\ m.open = issues[i].open
  BY <1>1, WiredIssue, ZenonT(60)
<1> HIDE DEF m
<1>4. issues' = [n \in Numbers |-> IF n = i THEN m ELSE issues[n]]
  BY <1>1, <1>2 DEF Numbers
<1>5. \A n \in Numbers : issues'[n] = IF n = i THEN m ELSE issues[n]
  BY <1>4
<1>6. Numbers' = Numbers /\ Issue' = Issue /\ Session' = Session /\ issues' \in Seq(Issue')
  <2>1. issues' = [n \in Numbers |-> issues'[n]] /\ \A n \in Numbers : issues'[n] \in Issue
    BY <1>1, <1>3, <1>4, <1>5
  <2> QED BY <2>1, SameNumbers
<1>7. Locals' = Locals
  BY <1>6 DEF Locals
<1> QED BY <1>3, <1>5, <1>6, <1>7

LEMMA LabelledIssue ==
  ASSUME NEW n \in Issue
  PROVE  LET m == [n EXCEPT !.ready = TRUE] IN
           /\ m \in Issue /\ m.ready = TRUE /\ m.by = n.by /\ m.handle = n.handle
           /\ m.parent = n.parent /\ m.needs = n.needs /\ m.set = n.set
           /\ m.drafts = n.drafts /\ m.sub = n.sub /\ m.deps = n.deps /\ m.open = n.open
  BY DEF Issue

LEMMA LabelledFields ==
  ASSUME TypeOK, NEW i \in Numbers, issues' = [issues EXCEPT ![i].ready = TRUE]
  PROVE  /\ Numbers' = Numbers /\ Issue' = Issue /\ Session' = Session /\ Locals' = Locals
         /\ issues' \in Seq(Issue')
         /\ \A n \in Numbers :
              /\ issues'[n].by = issues[n].by /\ issues'[n].handle = issues[n].handle
              /\ issues'[n].parent = issues[n].parent /\ issues'[n].needs = issues[n].needs
              /\ issues'[n].set = issues[n].set /\ issues'[n].drafts = issues[n].drafts
              /\ issues'[n].sub = issues[n].sub /\ issues'[n].deps = issues[n].deps
              /\ issues'[n].open = issues[n].open
              /\ n # i => issues'[n].ready = issues[n].ready
         /\ issues'[i].ready = TRUE
<1> DEFINE m == [issues[i] EXCEPT !.ready = TRUE]
<1>1. issues = [n \in Numbers |-> issues[n]] /\ \A n \in Numbers : issues[n] \in Issue
  BY IssueType DEF Numbers, TypeOK
<1>2. issues' = [issues EXCEPT ![i] = m]
  BY <1>1
<1>3. /\ m \in Issue /\ m.ready = TRUE /\ m.by = issues[i].by
      /\ m.handle = issues[i].handle /\ m.parent = issues[i].parent
      /\ m.needs = issues[i].needs /\ m.set = issues[i].set /\ m.drafts = issues[i].drafts
      /\ m.sub = issues[i].sub /\ m.deps = issues[i].deps /\ m.open = issues[i].open
  BY <1>1, LabelledIssue
<1> HIDE DEF m
<1>4. issues' = [n \in Numbers |-> IF n = i THEN m ELSE issues[n]]
  BY <1>1, <1>2 DEF Numbers
<1>5. \A n \in Numbers : issues'[n] = IF n = i THEN m ELSE issues[n]
  BY <1>4
<1>6. Numbers' = Numbers /\ Issue' = Issue /\ Session' = Session /\ issues' \in Seq(Issue')
  <2>1. issues' = [n \in Numbers |-> issues'[n]] /\ \A n \in Numbers : issues'[n] \in Issue
    BY <1>1, <1>3, <1>4, <1>5
  <2> QED BY <2>1, SameNumbers
<1>7. Locals' = Locals
  BY <1>6 DEF Locals
<1> QED BY <1>3, <1>5, <1>6, <1>7

\* A spec with tickets to file is open: a set is closed with its last ticket, and
\* a ticket that was closed had its label.
LEMMA SpecStaysOpen ==
  ASSUME IInv, pc = "file", Rec.spec # 0, ToFile # {}
  PROVE  Open(Rec.spec) /\ ~Rec.labelled
<1>1. ~Rec.labelled
  BY DEF IInv, FilingFits
<1>2. CASE ~work.wind
  BY <1>1, <1>2 DEF IInv, FilingFits
<1>3. CASE work.wind
  <2>1. PICK h \in 1 .. Tickets : Rec.filed[h] # 0
    BY <1>3 DEF IInv, FilingFits, SomeFiled, Rec
  <2>2. work.cand \in Cands /\ Rec.filed[h] \in Numbers
    BY <2>1, AtFiling, Types DEF IInv, Rec
  <2>3. ~issues[Rec.filed[h]].ready
    BY <1>1, <2>1, <2>2 DEF IInv, LabelsFit, ToFile, Rec
  <2>4. issues[Rec.filed[h]].handle = h /\ (issues[Rec.filed[h]].open => Open(Rec.spec))
    BY <2>1, <2>2 DEF IInv, GithubFits, RecordsFit, Rec
  <2> QED BY <1>1, <2>2, <2>3, <2>4 DEF IInv, GithubFits, IssuesFit
<1> QED BY <1>2, <1>3

\* The ticket that is filed, before anything but its text is there.
LEMMA TicketMade ==
  ASSUME IInv, pc = "file", Rec.spec # 0, work.made # 0
  PROVE  /\ work.made \in Numbers /\ NextTicket \in 1 .. Tickets /\ ToFile # {}
         /\ NextTicket \in Drafted /\ Rec.filed[NextTicket] = 0
         /\ issues[work.made].set = Author(work.cand) /\ issues[work.made].handle = NextTicket
         /\ issues[work.made].parent = Rec.spec /\ issues[work.made].drafts = Drafted
         /\ issues[work.made].needs = Blockers(NextTicket) \cup PrevSpec
         /\ ~issues[work.made].ready /\ ~issues[work.made].sub /\ issues[work.made].open
         /\ \A c \in Cands : /\ disk.rec[c].spec # work.made
                             /\ \A h \in 1 .. Tickets : disk.rec[c].filed[h] # work.made
         /\ Blockers(NextTicket) \cup PrevSpec \in SUBSET Numbers
<1>1. work.made \in Numbers /\ ToFile # {}
  BY Types DEF IInv, MadeFits
<1>2. NextTicket \in ToFile
  BY <1>1, LeastTicket DEF IInv
<1>3. \A c \in Cands : /\ disk.rec[c].spec # work.made
                       /\ \A h \in 1 .. Tickets : disk.rec[c].filed[h] # work.made
  BY DEF IInv, GithubFits, RecordsFit
<1> QED BY <1>1, <1>2, <1>3, EdgesExist DEF IInv, MadeFits, ToFile, Drafted

\* Whatever becomes of its edges, no record and no other ticket speaks of it.
LEMMA WiringKeeps ==
  ASSUME IInv, pc = "file", Rec.spec # 0, work.made # 0, NEW edges \in SUBSET Numbers,
         Wired(work.made, edges), disk'.scan = disk.scan, WorldGoesOn, work'.made = 0,
         \A c \in Cands : disk'.rec[c].spec = disk.rec[c].spec,
         \A c \in Cands, h \in 1 .. Tickets :
           disk.rec[c].filed[h] # 0 => disk'.rec[c].filed[h] = disk.rec[c].filed[h]
  PROVE  IssuesFit' /\ ReadyInTurn' /\ OwnDrafts' /\ ReadySetsAreWhole'
<1>1. /\ Numbers' = Numbers
      /\ \A n \in Numbers :
           /\ issues'[n].by = issues[n].by /\ issues'[n].handle = issues[n].handle
           /\ issues'[n].parent = issues[n].parent /\ issues'[n].needs = issues[n].needs
           /\ issues'[n].set = issues[n].set /\ issues'[n].drafts = issues[n].drafts
           /\ issues'[n].ready = issues[n].ready /\ issues'[n].open = issues[n].open
           /\ n # work.made => issues'[n] = issues[n]
  BY TicketMade, WiredFields DEF IInv
<1>2. /\ ~issues[work.made].ready /\ ~issues[work.made].sub
      /\ \A c : Author(c)' = Author(c)
  BY TicketMade DEF Author
<1>3. \A n \in Numbers : /\ issues[n].parent \in {0} \cup Numbers
                         /\ issues[n].handle \in {0} \cup 1 .. Tickets
  BY IssueType DEF IInv, Issue, Handles
<1>4. IssuesFit'
  <2>1. ASSUME NEW i \in Numbers
        PROVE  /\ issues[i].set \in (1 .. world'.scans) \X Cands
               /\ issues[i].parent # 0 => issues'[issues[i].parent].handle = 0
                                         /\ issues'[issues[i].parent].set = issues[i].set
               /\ issues[i].ready /\ issues[i].open => issues'[issues[i].parent].open
    <3>1. issues[i].ready => issues[i].parent \in Numbers
      BY <1>3 DEF IInv, GithubFits, IssuesFit
    <3> QED BY <1>1, <1>3, <3>1 DEF IInv, GithubFits, IssuesFit, Open, WorldGoesOn
  <2>2. ASSUME NEW i \in Numbers, NEW c \in Cands,
               issues[i].set = Author(c), issues[i].handle # 0
        PROVE  /\ issues[i].parent = disk'.rec[c].spec
               /\ issues[i].ready => disk'.rec[c].filed[issues[i].handle] = i
               /\ c # 0 => disk'.rec[c - 1].spec \in {0} \cup issues[i].needs
    <3>1. c # 0 => disk'.rec[c - 1].spec = disk.rec[c - 1].spec
      BY DEF Cands
    <3>2. issues[i].ready => disk'.rec[c].filed[issues[i].handle] = i
      <4>1. i # 0
        BY Types DEF IInv
      <4> QED BY <1>3, <2>2, <4>1 DEF IInv, GithubFits, IssuesFit
    <3> QED BY <2>2, <3>1, <3>2 DEF IInv, GithubFits, IssuesFit
  <2>3. ASSUME NEW i \in Numbers
        PROVE  /\ issues[i].handle # 0 <=> issues[i].parent # 0
               /\ issues[i].ready => issues[i].handle # 0
               /\ issues[i].handle # 0 /\ ~issues[i].open => issues[i].ready
    BY DEF IInv, GithubFits, IssuesFit
  <2> QED BY <1>1, <1>2, <2>1, <2>2, <2>3 DEF IssuesFit, Open
<1>5. ReadyInTurn' /\ OwnDrafts'
  BY <1>1 DEF IInv, GithubFits, ReadyInTurn, OwnDrafts, WorldGoesOn
<1>6. ReadySetsAreWhole'
  <2>1. ASSUME NEW i \in Numbers, Connected(i) PROVE Connected(i)'
    BY <1>1, <1>2, <2>1 DEF Connected
  <2>2. ASSUME NEW i \in Numbers, Whole(i) PROVE Whole(i)'
    BY <1>1, <2>1, <2>2 DEF Whole
  <2> QED BY <1>1, <2>1, <2>2 DEF IInv, GithubFits, ReadySetsAreWhole, WorldGoesOn
<1> QED BY <1>4, <1>5, <1>6

LEMMA WireTicketKeeps == ASSUME IInv, WireTicket PROVE IInv'
<1> DEFINE edges == Blockers(NextTicket) \cup PrevSpec
<1>1. /\ pc = "file" /\ Rec.spec # 0 /\ work.made # 0 /\ UNCHANGED <<head, run, world, pc>>
      /\ Wired(work.made, edges) /\ work' = [work EXCEPT !.made = 0]
  BY DEF WireTicket
<1>2. /\ work.made \in Numbers /\ NextTicket \in 1 .. Tickets /\ ToFile # {}
      /\ Rec.filed[NextTicket] = 0 /\ edges \in SUBSET Numbers
      /\ issues[work.made].set = Author(work.cand) /\ issues[work.made].handle = NextTicket
      /\ issues[work.made].parent = Rec.spec /\ issues[work.made].drafts = Drafted
      /\ issues[work.made].needs = edges
      /\ ~issues[work.made].ready /\ issues[work.made].open
  BY <1>1, TicketMade
<1>3. /\ \A c \in Cands : /\ disk.rec[c].spec # work.made
                          /\ \A h \in 1 .. Tickets : disk.rec[c].filed[h] # work.made
      /\ work.cand \in Cands /\ \A c \in Cands : Author(c) = Author(work.cand) => c = work.cand
  BY <1>1, TicketMade, AtFiling
<1>4. Open(Rec.spec) /\ ~Rec.labelled
  BY <1>1, <1>2, SpecStaysOpen
<1>5. /\ disk' \in Session /\ disk'.fp = disk.fp /\ disk'.scan = disk.scan
      /\ disk'.listed = disk.listed /\ disk'.count = disk.count /\ disk'.cursor = disk.cursor
      /\ disk'.drafts = disk.drafts /\ disk'.valid = disk.valid
      /\ \A c \in Cands :
           /\ disk'.rec[c].spec = disk.rec[c].spec
           /\ disk'.rec[c].labelled = disk.rec[c].labelled
           /\ \A h \in 1 .. Tickets :
                disk'.rec[c].filed[h] = IF c = work.cand /\ h = NextTicket THEN work.made
                                        ELSE disk.rec[c].filed[h]
  <2> DEFINE f == [Rec.filed EXCEPT ![NextTicket] = work.made]
             r == [Rec EXCEPT !.filed = f]
  <2>1. disk' = [disk EXCEPT !.rec[work.cand].filed[NextTicket] = work.made]
    BY DEF WireTicket, Recorded
  <2>2. disk \in Session /\ disk.rec \in [Cands -> Record] /\ Rec \in Record
    BY <1>3, Types DEF IInv, Session, Rec
  <2>3. /\ f \in [1 .. Tickets -> {0} \cup Numbers]
        /\ \A h \in 1 .. Tickets : f[h] = IF h = NextTicket THEN work.made ELSE Rec.filed[h]
    BY <1>2, <2>2 DEF Record
  <2>4. disk' = [disk EXCEPT !.rec = [disk.rec EXCEPT ![work.cand] = r]]
    BY <2>1, <2>2 DEF Session, Record, Rec
  <2> HIDE DEF f
  <2>5. r \in Record /\ r.spec = Rec.spec /\ r.filed = f /\ r.labelled = Rec.labelled
    BY <2>2, <2>3 DEF Record
  <2> HIDE DEF r
  <2> QED BY <1>3, <2>2, <2>3, <2>4, <2>5 DEF Session, Rec
<1>6. work' \in Locals /\ work'.made = 0 /\ work'.cand = work.cand /\ work'.wind = work.wind
  BY <1>1 DEF IInv, TypeOK, Locals
<1> HIDE DEF edges
<1>7. /\ Numbers' = Numbers /\ Session' = Session /\ Locals' = Locals /\ issues' \in Seq(Issue')
      /\ \A n \in Numbers :
           /\ issues'[n].handle = issues[n].handle /\ issues'[n].set = issues[n].set
           /\ issues'[n].drafts = issues[n].drafts /\ issues'[n].ready = issues[n].ready
           /\ issues'[n].parent = issues[n].parent /\ issues'[n].needs = issues[n].needs
           /\ issues'[n].open = issues[n].open
           /\ n # work.made => issues'[n] = issues[n]
      /\ issues'[work.made].sub = TRUE /\ issues'[work.made].deps = edges
  <2>1. TypeOK /\ work.made \in Numbers /\ edges \in SUBSET Numbers /\ Wired(work.made, edges)
    BY <1>1, <1>2 DEF IInv
  <2> QED BY <2>1, WiredFields
<1>8. /\ Drafted' = Drafted /\ (\A c : Author(c)' = Author(c))
      /\ Rec'.spec = Rec.spec /\ Rec'.labelled = Rec.labelled
      /\ \A h \in 1 .. Tickets :
           Rec'.filed[h] = IF h = NextTicket THEN work.made ELSE Rec.filed[h]
  BY <1>3, <1>5, <1>6 DEF Drafted, Author, Rec
<1>9. WorldGoesOn
  BY <1>1 DEF IInv, TypeOK, World, WorldGoesOn
<1>10. IssuesFit' /\ ReadyInTurn' /\ OwnDrafts' /\ ReadySetsAreWhole'
  <2>1. \A c \in Cands, h \in 1 .. Tickets :
          disk.rec[c].filed[h] # 0 => disk'.rec[c].filed[h] = disk.rec[c].filed[h]
    BY <1>2, <1>5 DEF Rec
  <2> QED BY <1>1, <1>2, <1>5, <1>6, <1>9, <2>1, WiringKeeps
<1>11. TypeOK'
  BY <1>1, <1>5, <1>6, <1>7 DEF IInv, TypeOK
<1>12. \A c \in Cands :
         /\ disk.rec[c].spec \in {0} \cup Numbers
         /\ \A h \in 1 .. Tickets : disk.rec[c].filed[h] \in {0} \cup Numbers
  BY Types DEF IInv
<1>13. RecordsFit'
  <2>1. RecordsFit
    BY DEF IInv, GithubFits
  <2>2. \A c \in Cands : Author(c)' = Author(c)
    BY <1>8
  <2>3. \A c \in Cands : /\ disk'.rec[c].spec = disk.rec[c].spec
                         /\ disk'.rec[c].labelled = disk.rec[c].labelled
    BY <1>5
  <2>4. ASSUME NEW c \in Cands PROVE SpecFits(c)'
    <3>1. SpecFits(c)
      BY <2>1, RecordFacts
    <3>2. disk.rec[c].spec # 0 => disk.rec[c].spec \in Numbers /\ disk.rec[c].spec # work'.made
      BY <1>6, <1>12
    <3> QED BY <1>7, <2>2, <2>3, <3>1, <3>2, SpecStays
  <2>5. ASSUME NEW c \in Cands, NEW h \in 1 .. Tickets PROVE TicketFits(c, h)'
    <3>1. CASE c = work.cand /\ h = NextTicket
      <4>1. /\ disk'.rec[c].filed[h] = work.made /\ disk'.rec[c].spec = Rec.spec
            /\ ~disk'.rec[c].labelled /\ Rec.spec \in Numbers /\ issues[Rec.spec].open
        BY <1>1, <1>3, <1>4, <1>5, <1>12, <3>1 DEF Rec, Open
      <4>2. /\ issues'[Rec.spec].open /\ issues'[work.made].parent = Rec.spec
            /\ issues'[work.made].handle = h /\ issues'[work.made].set = Author(c)
            /\ issues'[work.made].needs \subseteq issues'[work.made].deps
            /\ issues'[work.made].sub
        BY <1>2, <1>7, <3>1, <4>1
      <4>3. work.made # 0 /\ work'.made = 0 /\ Rec.spec # 0
        BY <1>1, <1>6
      <4> QED BY <2>2, <4>1, <4>2, <4>3 DEF TicketFits, TicketOf, Open
    <3>2. CASE ~(c = work.cand /\ h = NextTicket)
      <4>1. TicketFits(c, h)
        BY <2>1, RecordFacts
      <4>2. disk'.rec[c].filed[h] = disk.rec[c].filed[h]
        BY <1>5, <3>2
      <4>3. SUFFICES ASSUME disk.rec[c].filed[h] # 0
                     PROVE  TicketFits(c, h)'
        BY <4>2 DEF TicketFits
      <4>4. /\ disk.rec[c].filed[h] \in Numbers /\ disk.rec[c].filed[h] # work.made
            /\ disk.rec[c].spec \in Numbers /\ work'.made = 0
        BY <1>3, <1>6, <1>12, <4>1, <4>3 DEF TicketFits
      <4>5. /\ issues'[disk.rec[c].filed[h]] = issues[disk.rec[c].filed[h]]
            /\ issues'[disk.rec[c].spec].open = issues[disk.rec[c].spec].open
        BY <1>7, <4>4
      <4> QED BY <2>2, <2>3, <4>1, <4>2, <4>3, <4>4, <4>5, TicketStays
    <3> QED BY <3>1, <3>2
  <2> QED BY <2>4, <2>5, RecordsFitNext
<1>14. SessionFits' /\ CutFits' /\ MadeFits'
  <2>1. SessionFits'
    BY <1>1, <1>5 DEF IInv, SessionFits, PhaseSteps
  <2> QED BY <1>1, <1>6, <2>1 DEF IInv, CutFits, MadeFits
<1>15. FilingFits'
  <2>1. \A h \in 1 .. Tickets : Rec.filed[h] \in {0} \cup Numbers
    BY <1>3, <1>12 DEF Rec
  <2>2. Rec.spec \in Numbers
    BY <1>1, <1>3, <1>12 DEF Rec
  <2>3. /\ issues'[Rec'.spec].open
        /\ ~work.wind => \A h \in 1 .. Tickets :
                           Rec'.filed[h] # 0 => issues'[Rec'.filed[h]].open
    <3>1. issues'[Rec'.spec].open
      BY <1>4, <1>7, <1>8, <2>2 DEF Open
    <3>2. ASSUME ~work.wind, NEW h \in 1 .. Tickets, Rec'.filed[h] # 0
          PROVE  issues'[Rec'.filed[h]].open
      <4>1. CASE h = NextTicket
        BY <1>2, <1>7, <1>8, <4>1
      <4>2. CASE h # NextTicket
        <5>1. Rec'.filed[h] = Rec.filed[h] /\ Rec.filed[h] \in Numbers
          BY <1>8, <2>1, <3>2, <4>2
        <5>2. issues[Rec.filed[h]].open
          BY <1>1, <3>2, <5>1 DEF IInv, FilingFits, Open
        <5> QED BY <1>7, <5>1, <5>2
      <4> QED BY <4>1, <4>2
    <3> QED BY <3>1, <3>2
  <2>4. work.wind => SomeFiled(work.cand)'
    BY <1>1, <1>2, <1>3, <1>5, <1>6, Types DEF IInv, SomeFiled
  <2>5. /\ disk.valid /\ (work.wind => disk.fp # head)
        /\ work.wind => disk.drafts[0] = Author(work.cand) \/ Author(work.cand) \in world.foreign
        /\ ~work.wind =>
             disk.fp = head /\ disk.cursor = work.cand + 1 /\ work.cand < disk.count
    BY <1>1 DEF IInv, FilingFits
  <2>6. Author(work.cand)' = Author(work.cand)
    BY <1>5, <1>6 DEF Author
  <2> QED BY <1>1, <1>3, <1>4, <1>5, <1>6, <1>8, <2>3, <2>4, <2>5, <2>6 DEF FilingFits, Open
<1>16. DraftsStay'
  <2>1. ASSUME NEW c \in Cands, NEW h \in 1 .. Tickets, disk'.rec[c].filed[h] # 0,
               disk.drafts[0] = Author(c) \/ (~work.wind /\ c = work.cand)
        PROVE  issues'[disk'.rec[c].filed[h]].drafts \subseteq Drafted
    <3>1. CASE c = work.cand /\ h = NextTicket
      BY <1>2, <1>5, <1>7, <3>1
    <3>2. CASE ~(c = work.cand /\ h = NextTicket)
      <4>1. disk'.rec[c].filed[h] = disk.rec[c].filed[h]
        BY <1>5, <3>2
      <4>2. disk.rec[c].filed[h] \in Numbers /\ disk.rec[c].filed[h] # work.made
        BY <1>3, <1>12, <2>1, <4>1
      <4>3. issues[disk.rec[c].filed[h]].drafts \subseteq Drafted
        BY <1>1, <2>1, <4>1, SMTT(60) DEF IInv, DraftsStay
      <4> QED BY <1>7, <4>1, <4>2, <4>3
    <3> QED BY <3>1, <3>2
  <2> QED BY <1>1, <1>5, <1>6, <1>8, <2>1 DEF DraftsStay
<1>17. LabelsFit'
  <2>1. ASSUME NEW c \in Cands, NEW h \in 1 .. Tickets, ~disk.rec[c].labelled,
               disk'.rec[c].filed[h] # 0, issues'[disk'.rec[c].filed[h]].ready
        PROVE  /\ disk.rec[c].filed[h] # 0 /\ issues[disk.rec[c].filed[h]].ready
               /\ c # work.cand
    <3>1. ~(c = work.cand /\ h = NextTicket)
      BY <1>2, <1>5, <1>7, <2>1
    <3>2. disk.rec[c].filed[h] # 0 /\ issues[disk.rec[c].filed[h]].ready
      BY <1>5, <1>7, <1>12, <2>1, <3>1
    <3> QED BY <1>2, <2>1, <3>2 DEF IInv, LabelsFit, ToFile, Rec
  <2>2. \A c \in Cands, g \in Drafted :
          c # work.cand => disk'.rec[c].filed[g] = disk.rec[c].filed[g]
    BY <1>5 DEF Drafted
  <2> QED BY <1>1, <1>5, <1>8, <2>1, <2>2 DEF IInv, LabelsFit
<1>18. NothingLeftBehind'
  <2>1. ASSUME NEW i \in Numbers,
               i = work.made \/ \E h \in 1 .. Tickets : Rec.filed[h] = i
        PROVE  \E h \in 1 .. Tickets : Rec'.filed[h] = i
    <3>1. i # 0
      BY Types DEF IInv
    <3> QED BY <1>2, <1>8, <2>1, <3>1
  <2> QED BY <1>1, <1>5, <1>6, <1>7, <1>8, <2>1 DEF IInv, NothingLeftBehind
<1> QED BY <1>10, <1>11, <1>13, <1>14, <1>15, <1>16, <1>17, <1>18 DEF IInv, GithubFits

\* The call that wires a ticket fails, and with it the run.
LEMMA WiringFails ==
  ASSUME IInv, GithubFails, pc = "file", Rec.spec # 0, work.made # 0
  PROVE  IInv'
<1>1. /\ Fault /\ UNCHANGED <<head, run>> /\ disk' = Unwound /\ pc' = "off" /\ work' = NoWork
      /\ \E edges \in SUBSET (Blockers(NextTicket) \cup PrevSpec) : Wired(work.made, edges)
  BY DEF GithubFails, Off, Goto
<1>2. PICK edges \in SUBSET Numbers : Wired(work.made, edges)
  BY <1>1, TicketMade
<1>3. /\ Numbers' = Numbers /\ Session' = Session /\ Locals' = Locals /\ issues' \in Seq(Issue')
      /\ \A n \in Numbers :
           /\ issues'[n].drafts = issues[n].drafts /\ issues'[n].ready = issues[n].ready
           /\ issues'[n].handle = issues[n].handle /\ issues'[n].set = issues[n].set
           /\ issues'[n].open = issues[n].open
           /\ n # work.made => issues'[n] = issues[n]
  <2>1. TypeOK /\ work.made \in Numbers
    BY TicketMade DEF IInv
  <2> QED BY <1>2, <2>1, WiredFields
<1>4. /\ SameRecords(disk') /\ disk'.fp = disk.fp /\ disk'.listed = disk.listed
      /\ disk'.count = disk.count /\ disk'.cursor = disk.cursor /\ disk' \in Session
      /\ \/ disk' = disk
         \/ disk'.valid = FALSE /\ disk'.drafts = [h \in Handles |-> Nobody]
  <2>1. CASE disk' = disk
    BY <2>1, Types DEF SameRecords, IInv
  <2>2. CASE disk' = Cleared(disk)
    BY <2>2, Types, ClearedFields DEF SameRecords, IInv
  <2> QED BY <1>1, <2>1, <2>2 DEF Unwound
<1>5. world' \in World /\ WorldGoesOn /\ world'.faults # 0
  BY <1>1, FaultEffect
<1>6. work'.made = 0 /\ ~work'.wind /\ work' \in Locals
  BY <1>1, NoWorkType DEF NoWork
<1>7. \A c \in Cands : Author(c)' = Author(c)
  BY <1>4 DEF Author, SameRecords
<1>8. \A c \in Cands :
        /\ disk.rec[c].spec \in {0} \cup Numbers /\ disk.rec[c].spec # work.made
        /\ \A h \in 1 .. Tickets : /\ disk.rec[c].filed[h] \in {0} \cup Numbers
                                   /\ disk.rec[c].filed[h] # work.made
  BY TicketMade, Types DEF IInv
<1>9. IssuesFit' /\ ReadyInTurn' /\ OwnDrafts' /\ ReadySetsAreWhole'
  BY <1>2, <1>4, <1>5, <1>6, WiringKeeps DEF SameRecords
<1>10. RecordsFit'
  <2>1. RecordsFit
    BY DEF IInv, GithubFits
  <2>2. ASSUME NEW c \in Cands
        PROVE  /\ disk'.rec[c].spec = disk.rec[c].spec
               /\ disk'.rec[c].filed = disk.rec[c].filed
               /\ disk'.rec[c].labelled = disk.rec[c].labelled
    BY <1>4 DEF SameRecords
  <2>3. ASSUME NEW c \in Cands
        PROVE  /\ disk.rec[c].spec # 0 =>
                    issues'[disk.rec[c].spec] = issues[disk.rec[c].spec]
               /\ \A h \in 1 .. Tickets : disk.rec[c].filed[h] # 0 =>
                    issues'[disk.rec[c].filed[h]] = issues[disk.rec[c].filed[h]]
    BY <1>3, <1>8
  <2>4. ASSUME NEW c \in Cands PROVE SpecFits(c)'
    BY <1>6, <1>7, <2>1, <2>2, <2>3, RecordFacts, SpecStays
  <2>5. ASSUME NEW c \in Cands, NEW h \in 1 .. Tickets PROVE TicketFits(c, h)'
    <3>1. TicketFits(c, h)
      BY <2>1, RecordFacts
    <3>2. disk.rec[c].filed[h] # 0 => disk.rec[c].spec # 0
      BY <3>1 DEF TicketFits
    <3> QED BY <1>6, <1>7, <2>2, <2>3, <3>1, <3>2, TicketStays
  <2> QED BY <2>4, <2>5, RecordsFitNext
<1>11. TypeOK'
  BY <1>1, <1>3, <1>4, <1>5, <1>6 DEF IInv, TypeOK
<1>12. SessionFits'
  BY <1>1, <1>4, <1>5, Types DEF IInv, SessionFits, SameRecords, WorldGoesOn, PhaseSteps
<1>13. FilingFits' /\ MadeFits' /\ CutFits' /\ NothingLeftBehind'
  BY <1>1, <1>5, <1>6 DEF IInv, FilingFits, MadeFits, CutFits, NothingLeftBehind
<1>14. Drafted' \subseteq Drafted
  BY <1>4 DEF Drafted, Handles
<1>15. DraftsStay'
  <2>1. ASSUME NEW c \in Cands, disk'.drafts[0] = Author(c)
        PROVE  disk' = disk
    <3>1. Author(c) # Nobody
      BY AtFiling DEF Author, Nobody
    <3> QED BY <1>4, <2>1, <3>1 DEF Handles
  <2>2. ASSUME NEW c \in Cands, NEW h \in 1 .. Tickets,
               disk'.rec[c].filed[h] # 0, disk'.drafts[0] = Author(c)
        PROVE  issues'[disk'.rec[c].filed[h]].drafts \subseteq Drafted'
    <3>1. disk' = disk /\ Drafted' = Drafted
      BY <2>1, <2>2 DEF Drafted
    <3>2. issues[disk.rec[c].filed[h]].drafts \subseteq Drafted
      BY <2>2, <3>1 DEF IInv, DraftsStay
    <3> QED BY <1>3, <1>8, <2>2, <3>1, <3>2
  <2> QED BY <1>1, <1>7, <2>2 DEF DraftsStay
<1>16. LabelsFit'
  <2>1. ASSUME NEW c \in Cands, NEW h \in 1 .. Tickets, ~disk'.rec[c].labelled,
               disk'.rec[c].filed[h] # 0, issues'[disk'.rec[c].filed[h]].ready
        PROVE  /\ HalfLabelled(c) /\ \A g \in Drafted' : disk'.rec[c].filed[g] # 0
    <3>1. /\ ~disk.rec[c].labelled /\ disk.rec[c].filed[h] # 0
          /\ issues[disk.rec[c].filed[h]].ready /\ disk'.rec[c].filed = disk.rec[c].filed
      BY <1>3, <1>4, <1>8, <2>1 DEF SameRecords
    <3> QED BY <1>14, <3>1 DEF HalfLabelled, IInv, LabelsFit
  <2>2. ReadyIssues' = ReadyIssues
    BY <1>3 DEF ReadyIssues, Open
  <2> QED BY <1>1, <1>4, <2>1, <2>2, HalfLabelledAnywhere DEF LabelsFit
<1> QED BY <1>9, <1>10, <1>11, <1>12, <1>13, <1>15, <1>16 DEF IInv, GithubFits

LEMMA GithubFailsKeeps == ASSUME IInv, GithubFails PROVE IInv'
<1>1. CASE pc = "file" /\ Rec.spec # 0 /\ work.made # 0
  BY <1>1, WiringFails
<1>2. CASE ~(pc = "file" /\ Rec.spec # 0 /\ work.made # 0)
  <2>1. UNCHANGED issues
    BY <1>2, Zenon DEF GithubFails
  <2> QED BY <2>1, GithubFailsQuietly
<1> QED BY <1>1, <1>2

LEMMA RecordLabelsKeeps == ASSUME IInv, RecordLabels PROVE IInv'
<1>1. /\ pc = "file" /\ Rec.spec # 0 /\ work.made = 0 /\ ToFile = {} /\ ~Rec.labelled
      /\ \A h \in 1 .. Tickets : Rec.filed[h] # 0 => issues[Rec.filed[h]].ready
      /\ UNCHANGED <<head, issues, run, work, world, pc>>
  BY DEF RecordLabels
<1>2. work.cand \in Cands
  BY <1>1, AtFiling
<1>3. /\ disk' \in Session /\ disk'.fp = disk.fp /\ disk'.scan = disk.scan
      /\ disk'.listed = disk.listed /\ disk'.count = disk.count /\ disk'.cursor = disk.cursor
      /\ disk'.drafts = disk.drafts /\ disk'.valid = disk.valid
      /\ \A c \in Cands :
           /\ disk'.rec[c].spec = disk.rec[c].spec
           /\ disk'.rec[c].filed = disk.rec[c].filed
           /\ disk'.rec[c].labelled <=> c = work.cand \/ disk.rec[c].labelled
  <2> DEFINE r == [Rec EXCEPT !.labelled = TRUE]
  <2>1. disk' = [disk EXCEPT !.rec[work.cand].labelled = TRUE]
    BY DEF RecordLabels
  <2>2. disk \in Session /\ disk.rec \in [Cands -> Record] /\ Rec \in Record
    BY <1>2, Types DEF IInv, Session, Rec
  <2>3. disk' = [disk EXCEPT !.rec = [disk.rec EXCEPT ![work.cand] = r]]
    BY <2>1, <2>2 DEF Session, Record, Rec
  <2>4. r \in Record /\ r.spec = Rec.spec /\ r.filed = Rec.filed /\ r.labelled = TRUE
    BY <2>2 DEF Record
  <2> HIDE DEF r
  <2> QED BY <1>2, <2>2, <2>3, <2>4 DEF Session, Rec
<1>4. /\ Numbers' = Numbers /\ Drafted' = Drafted /\ (\A c : Author(c)' = Author(c))
      /\ \A i \in Numbers : Open(i)' = Open(i)
      /\ Rec'.spec = Rec.spec /\ Rec'.filed = Rec.filed /\ Rec'.labelled
  BY <1>1, <1>2, <1>3, SameIssues DEF IInv, Drafted, Author, Open, Rec
<1>5. ToFile' = {}
  BY <1>1, <1>4 DEF ToFile, Drafted
<1>6. TypeOK'
  BY <1>1, <1>3, SameIssues DEF IInv, TypeOK
<1>7. RecordsFit'
  <2>1. ASSUME NEW c \in Cands
        PROVE  /\ disk'.rec[c].spec = disk.rec[c].spec
               /\ disk'.rec[c].filed = disk.rec[c].filed
               /\ disk'.rec[c].labelled => \/ disk.rec[c].labelled
                                          \/ c = work.cand
               /\ Author(c)' = Author(c)
    BY <1>3, <1>4
  <2>2. RecordsFit
    BY DEF IInv, GithubFits
  <2>3. work'.made = work.made /\ issues' = issues
    BY <1>1
  <2>4. ASSUME NEW c \in Cands PROVE SpecFits(c)'
    <3>1. SpecFits(c)
      BY <2>2, RecordFacts
    <3>2. c = work.cand => disk.rec[c].spec # 0
      BY <1>1 DEF Rec
    <3> QED BY <2>1, <2>3, <3>1, <3>2, SpecStays DEF SpecFits
  <2>5. ASSUME NEW c \in Cands, NEW h \in 1 .. Tickets PROVE TicketFits(c, h)'
    <3>1. TicketFits(c, h)
      BY <2>2, RecordFacts
    <3>2. c = work.cand /\ disk.rec[c].filed[h] # 0 => issues[disk.rec[c].filed[h]].ready
      BY <1>1 DEF Rec
    <3>3. disk.rec[c].filed[h] # 0 => disk.rec[c].filed[h] # work'.made
      BY <2>3, <3>1 DEF TicketFits
    <3> QED BY <2>1, <2>3, <3>1, <3>2, <3>3, TicketStays
  <2> QED BY <2>4, <2>5, RecordsFitNext
<1>8. IssuesFit'
  <2>1. ASSUME NEW c \in Cands, c # 0 PROVE disk'.rec[c - 1].spec = disk.rec[c - 1].spec
    <3>1. c - 1 \in Cands
      BY <2>1 DEF Cands
    <3> QED BY <1>3, <3>1
  <2>2. IssuesFit
    BY DEF IInv, GithubFits
  <2> QED BY <1>1, <1>3, <1>4, <2>1, <2>2 DEF IssuesFit, Open
<1>9. ReadyInTurn' /\ OwnDrafts' /\ ReadySetsAreWhole'
  BY <1>1, <1>4 DEF IInv, GithubFits, ReadyInTurn, OwnDrafts, ReadySetsAreWhole, Connected, Whole
<1>10. SessionFits' /\ CutFits' /\ MadeFits'
  <2>1. SessionFits'
    BY <1>1, <1>3 DEF IInv, SessionFits, PhaseSteps
  <2> QED BY <1>1, <2>1 DEF IInv, CutFits, MadeFits
<1>11. FilingFits'
  <2>1. /\ Author(work.cand)' = Author(work.cand)
        /\ SomeFiled(work.cand) => SomeFiled(work.cand)'
        /\ \A i : Open(i)' = Open(i)
    BY <1>1, <1>2, <1>3, <1>4 DEF SomeFiled, Open
  <2>2. work' = work /\ pc' = pc /\ head' = head /\ world' = world
    BY <1>1
  <2>3. FilingFits
    BY DEF IInv
  <2> QED BY <1>1, <1>3, <1>4, <1>5, <2>1, <2>2, <2>3 DEF FilingFits
<1>12. DraftsStay' /\ LabelsFit' /\ NothingLeftBehind'
  <2>1. DraftsStay'
    BY <1>1, <1>3, <1>4 DEF IInv, DraftsStay
  <2>2. LabelsFit'
    <3>1. \A c \in Cands : ~disk'.rec[c].labelled => ~disk.rec[c].labelled
      BY <1>3
    <3> QED BY <1>1, <1>3, <1>4, <3>1 DEF IInv, LabelsFit
  <2>3. NothingLeftBehind'
    <3>1. \A c \in Cands : ~disk'.rec[c].labelled => ~disk.rec[c].labelled
      BY <1>3
    <3> QED BY <1>1, <1>3, <1>4, <3>1 DEF IInv, NothingLeftBehind
  <2> QED BY <2>1, <2>2, <2>3
<1> QED BY <1>6, <1>7, <1>8, <1>9, <1>10, <1>11, <1>12 DEF IInv, GithubFits

\* A set that is labelled has nothing left to file: the first ticket that gets its
\* label has all others of its set beside it.
LEMMA LabelKeeps == ASSUME IInv, Label PROVE IInv'
<1>1. /\ pc = "file" /\ Rec.spec # 0 /\ work.made = 0 /\ ToFile = {} /\ ~Rec.labelled
      /\ UNCHANGED <<head, disk, run, work, world, pc>>
  BY DEF Label
<1>2. PICK h \in 1 .. Tickets :
        Rec.filed[h] # 0 /\ issues' = [issues EXCEPT ![Rec.filed[h]].ready = TRUE]
  BY DEF Label
<1> DEFINE i == Rec.filed[h]
<1>3. /\ work.cand \in Cands /\ i \in Numbers /\ Rec.spec \in Numbers
      /\ \A c \in Cands : Author(c) = Author(work.cand) => c = work.cand
  BY <1>1, <1>2, AtFiling, Types DEF IInv, Rec
<1>4. /\ issues[i].parent = Rec.spec /\ issues[i].handle = h
      /\ issues[i].set = Author(work.cand) /\ Connected(i)
      /\ issues[i].open => Open(Rec.spec)
  <2> HIDE DEF i
  <2>1. i = disk.rec[work.cand].filed[h] /\ i # 0
    BY <1>2 DEF i, Rec
  <2>2. RecordsFit
    BY DEF IInv, GithubFits
  <2>3. /\ issues[i].parent = Rec.spec /\ issues[i].handle = h
        /\ issues[i].set = Author(work.cand) /\ issues[i].sub
        /\ issues[i].needs \subseteq issues[i].deps /\ (issues[i].open => Open(Rec.spec))
    <3>1. TicketFits(work.cand, h)
      BY <1>2, <1>3, <2>2, RecordFacts
    <3> QED BY <2>1, <3>1 DEF TicketFits, TicketOf, Rec
  <2> QED BY <2>3 DEF Connected
<1>5. /\ Numbers' = Numbers /\ Session' = Session /\ Locals' = Locals /\ issues' \in Seq(Issue')
      /\ \A n \in Numbers :
           /\ issues'[n].by = issues[n].by /\ issues'[n].handle = issues[n].handle
           /\ issues'[n].parent = issues[n].parent /\ issues'[n].needs = issues[n].needs
           /\ issues'[n].set = issues[n].set /\ issues'[n].drafts = issues[n].drafts
           /\ issues'[n].sub = issues[n].sub /\ issues'[n].deps = issues[n].deps
           /\ issues'[n].open = issues[n].open
           /\ n # i => issues'[n].ready = issues[n].ready
      /\ issues'[i].ready = TRUE
  <2>1. TypeOK /\ issues' = [issues EXCEPT ![i].ready = TRUE]
    BY <1>2 DEF IInv
  <2> QED BY <1>3, <2>1, LabelledFields
<1> HIDE DEF i
<1>6. ASSUME NEW n \in Numbers PROVE /\ issues[n].ready => issues'[n].ready
                                     /\ issues'[n].ready => n = i \/ issues[n].ready
  BY <1>5
<1>7. /\ \A c : Author(c)' = Author(c)
      /\ Rec' = Rec /\ Drafted' = Drafted /\ ToFile' = ToFile
      /\ \A n \in Numbers : Open(n)' = Open(n)
  BY <1>1, <1>5 DEF Author, Rec, Drafted, ToFile, Open
<1>8. \A c \in Cands :
        /\ disk.rec[c].spec \in {0} \cup Numbers
        /\ \A g \in 1 .. Tickets : disk.rec[c].filed[g] \in {0} \cup Numbers
  BY Types DEF IInv
<1>9. TypeOK'
  BY <1>1, <1>5, Types DEF IInv, TypeOK
<1>10. RecordsFit'
  <2>1. RecordsFit
    BY DEF IInv, GithubFits
  <2>2. disk' = disk /\ work' = work
    BY <1>1
  <2>3. ASSUME NEW c \in Cands PROVE SpecFits(c)'
    <3>1. SpecFits(c)
      BY <2>1, RecordFacts
    <3>2. disk.rec[c].spec # 0 =>
            /\ disk.rec[c].spec # work'.made
            /\ issues'[disk.rec[c].spec].handle = issues[disk.rec[c].spec].handle
            /\ issues'[disk.rec[c].spec].set = issues[disk.rec[c].spec].set
      BY <1>5, <1>8, <2>2, <3>1 DEF SpecFits
    <3> QED BY <1>7, <2>2, <3>1, <3>2, SpecStays
  <2>4. ASSUME NEW c \in Cands, NEW g \in 1 .. Tickets PROVE TicketFits(c, g)'
    <3>1. TicketFits(c, g)
      BY <2>1, RecordFacts
    <3>2. SUFFICES ASSUME disk.rec[c].filed[g] # 0
                   PROVE  TicketFits(c, g)'
      BY <2>2 DEF TicketFits
    <3>3. /\ disk.rec[c].filed[g] \in Numbers /\ disk.rec[c].spec \in Numbers
          /\ disk.rec[c].filed[g] # work'.made
      BY <1>8, <2>2, <3>1, <3>2 DEF TicketFits
    <3>4. LET j == issues[disk.rec[c].filed[g]]
              m == issues'[disk.rec[c].filed[g]]
          IN  /\ m.parent = j.parent /\ m.handle = j.handle /\ m.set = j.set
              /\ m.sub = j.sub /\ m.needs = j.needs /\ m.deps = j.deps
              /\ j.ready => m.ready
              /\ m.open = j.open
              /\ issues'[disk.rec[c].spec].open = issues[disk.rec[c].spec].open
      BY <1>5, <1>6, <3>3
    <3> QED BY <1>7, <2>2, <3>1, <3>3, <3>4, TicketStays
  <2> QED BY <2>3, <2>4, RecordsFitNext
<1>11. \A n \in Numbers : issues[n].parent \in {0} \cup Numbers /\ issues[n].set \in Sets
  BY IssueType DEF IInv, Issue
<1>12. IssuesFit'
  <2>1. IssuesFit
    BY DEF IInv, GithubFits
  <2>2. ASSUME NEW n \in Numbers
        PROVE  /\ issues'[n].ready => issues[n].handle # 0 /\ issues[n].parent \in Numbers
               /\ issues'[n].ready /\ issues[n].open => issues[issues[n].parent].open
               /\ issues[n].handle # 0 /\ ~issues[n].open => issues'[n].ready
               /\ \A c \in Cands :
                    issues[n].set = Author(c) /\ issues'[n].ready =>
                      disk.rec[c].filed[issues[n].handle] = n
    <3>1. CASE n = i
      <4>1. i = Rec.filed[h]
        BY DEF i
      <4>2. \A c \in Cands : issues[n].set = Author(c) =>
              disk.rec[c].filed[issues[n].handle] = n
        BY <1>3, <1>4, <3>1, <4>1 DEF Rec
      <4>3. /\ issues[n].handle # 0 /\ issues[n].parent \in Numbers
            /\ issues[n].open => issues[issues[n].parent].open
        BY <1>2, <1>3, <1>4, <3>1 DEF Open
      <4> QED BY <1>5, <3>1, <4>2, <4>3
    <3>2. CASE n # i
      BY <1>5, <1>11, <2>1, <3>2 DEF IssuesFit, Open
    <3> QED BY <3>1, <3>2
  <2>3. ASSUME NEW n \in Numbers
        PROVE  /\ issues[n].set \in (1 .. world.scans) \X Cands
               /\ issues[n].handle # 0 <=> issues[n].parent # 0
               /\ issues[n].parent # 0 =>
                    /\ issues'[issues[n].parent].handle = 0
                    /\ issues'[issues[n].parent].set = issues[n].set
               /\ \A c \in Cands :
                    issues[n].set = Author(c) /\ issues[n].handle # 0 =>
                      /\ issues[n].parent = disk.rec[c].spec
                      /\ c # 0 => disk.rec[c - 1].spec \in {0} \cup issues[n].needs
    BY <1>5, <1>11, <2>1 DEF IssuesFit
  <2> QED BY <1>1, <1>5, <1>7, <2>2, <2>3 DEF IssuesFit, Open
<1>13. ReadyInTurn'
  <2>1. ASSUME NEW a \in Numbers, NEW b \in Numbers, issues'[a].ready, issues'[b].ready,
               issues[b].set[1] = issues[a].set[1], issues[b].set[2] = issues[a].set[2] + 1
        PROVE  issues[a].parent \in issues[b].needs
    <3>1. CASE issues[a].ready /\ issues[b].ready
      BY <2>1, <3>1 DEF IInv, GithubFits, ReadyInTurn
    <3>2. /\ issues[a].set \in Nat \X Cands /\ issues[b].set \in Nat \X Cands
      BY Types DEF IInv, GithubFits, IssuesFit
    <3>3. a # b
      BY <2>1, <3>2 DEF Cands
    <3>4. CASE a = i
      <4>1. issues[b].ready /\ work.cand + 1 \in Cands /\ issues[b].set = Author(work.cand + 1)
        BY <1>3, <1>4, <1>6, <2>1, <3>2, <3>3, <3>4 DEF Author, Cands
      <4>2. issues[b].handle # 0
        BY <4>1 DEF IInv, GithubFits, IssuesFit
      <4>3. ASSUME NEW c \in Cands, issues[b].set = Author(c), c # 0
            PROVE  disk.rec[c - 1].spec \in {0} \cup issues[b].needs
        BY <4>2, <4>3 DEF IInv, GithubFits, IssuesFit
      <4>4. PICK d \in Cands : d = work.cand + 1
        BY <4>1
      <4>5. d # 0 /\ d - 1 = work.cand /\ issues[b].set = Author(d)
        BY <1>3, <4>1, <4>4 DEF Cands
      <4>6. disk.rec[d - 1].spec \in {0} \cup issues[b].needs
        BY <4>3, <4>5
      <4>7. Rec.spec \in {0} \cup issues[b].needs
        BY <4>5, <4>6 DEF Rec
      <4> QED BY <1>1, <1>4, <3>4, <4>7
    <3>5. CASE b = i
      <4>1. /\ issues[a].ready /\ work.cand # 0 /\ work.cand - 1 \in Cands
            /\ issues[a].set = Author(work.cand - 1)
        BY <1>3, <1>4, <1>6, <2>1, <3>2, <3>3, <3>5 DEF Author, Cands
      <4>2. issues[a].handle # 0 /\ issues[a].parent # 0
            /\ issues[a].parent = disk.rec[work.cand - 1].spec
        BY <4>1 DEF IInv, GithubFits, IssuesFit
      <4>3. disk.rec[work.cand - 1].spec \in {0} \cup issues[i].needs
        BY <1>3, <1>4, <4>1 DEF IInv, GithubFits, IssuesFit
      <4> QED BY <3>5, <4>2, <4>3
    <3> QED BY <1>6, <2>1, <3>1, <3>4, <3>5
  <2> QED BY <1>5, <2>1 DEF ReadyInTurn
<1>14. OwnDrafts'
  BY <1>1, <1>5 DEF IInv, GithubFits, OwnDrafts
<1>15. ReadySetsAreWhole'
  <2>1. \A n \in Numbers : Connected(n)' = Connected(n)
    BY <1>5 DEF Connected
  <2>2. \A n \in Numbers : Whole(n) => Whole(n)'
    BY <1>5, <2>1 DEF Whole
  <2>3. ASSUME issues[i].set \notin world.foreign PROVE Whole(i)
    <3>1. disk.drafts[0] = Author(work.cand) \/ ~work.wind
      BY <1>1, <1>4, <2>3 DEF IInv, FilingFits
    <3>2. issues[i].drafts \subseteq Drafted
      BY <1>1, <1>2, <1>3, <3>1 DEF IInv, DraftsStay, Rec, i
    <3>3. ASSUME NEW g \in Drafted
          PROVE  \E j \in Numbers : /\ issues[j].parent = Rec.spec /\ issues[j].handle = g
                                    /\ Connected(j)
      <4>1. g \in 1 .. Tickets /\ Rec.filed[g] # 0
        BY <1>1 DEF ToFile, Drafted
      <4>2. Rec.filed[g] \in Numbers
        BY <1>3, <1>8, <4>1 DEF Rec
      <4>3. /\ issues[Rec.filed[g]].parent = Rec.spec /\ issues[Rec.filed[g]].handle = g
            /\ Connected(Rec.filed[g])
        <5>1. TicketFits(work.cand, g)
          BY <1>3, <4>1, RecordFacts DEF IInv, GithubFits
        <5> QED BY <4>1, <5>1 DEF TicketFits, TicketOf, Rec, Connected
      <4> QED BY <4>2, <4>3
    <3> QED BY <1>4, <3>2, <3>3 DEF Whole
  <2> QED BY <1>1, <1>4, <1>5, <1>6, <2>1, <2>2, <2>3 DEF IInv, GithubFits, ReadySetsAreWhole
<1>16. SessionFits' /\ CutFits' /\ MadeFits'
  BY <1>1 DEF IInv, SessionFits, CutFits, MadeFits
<1>17. FilingFits'
  <2>1. \A g \in 1 .. Tickets : Rec.filed[g] \in {0} \cup Numbers
    BY <1>3, <1>8 DEF Rec
  <2> QED BY <1>1, <1>3, <1>5, <1>7, <2>1 DEF IInv, FilingFits, Open, SomeFiled
<1>18. DraftsStay'
  BY <1>1, <1>5, <1>7, <1>8 DEF IInv, DraftsStay
<1>19. LabelsFit'
  <2>1. ASSUME NEW c \in Cands, NEW g \in 1 .. Tickets, ~disk.rec[c].labelled,
               disk.rec[c].filed[g] # 0, issues'[disk.rec[c].filed[g]].ready, c # work.cand
        PROVE  issues[disk.rec[c].filed[g]].ready
    <3>1. issues[disk.rec[c].filed[g]].set = Author(c) /\ disk.rec[c].filed[g] \in Numbers
      BY <1>8, <2>1 DEF IInv, GithubFits, RecordsFit
    <3>2. disk.rec[c].filed[g] # i
      BY <1>3, <1>4, <2>1, <3>1
    <3> QED BY <1>6, <2>1, <3>1, <3>2
  <2>2. \A g \in Drafted : disk.rec[work.cand].filed[g] # 0
    BY <1>1 DEF ToFile, Rec
  <2> QED BY <1>1, <1>7, <2>1, <2>2 DEF IInv, LabelsFit
<1>20. NothingLeftBehind'
  BY <1>1, <1>5, <1>6, <1>7 DEF IInv, NothingLeftBehind
<1> QED BY <1>9, <1>10, <1>12, <1>13, <1>14, <1>15, <1>16, <1>17, <1>18, <1>19, <1>20
        DEF IInv, GithubFits

-----------------------------------------------------------------------------
(* The theorems. *)

LEMMA Stutters == ASSUME IInv, UNCHANGED vars PROVE IInv'
<1>1. UNCHANGED <<head, issues, disk, run, work, world, pc>>
  BY DEF vars
<1>2. TypeOK'
  BY <1>1, SameIssues DEF IInv, TypeOK
<1>3. GithubFits'
  BY <1>1, FrameKeeps DEF SameRecords, WorldGoesOn, IInv, TypeOK, World
<1>4. SessionFits' /\ FilingFits' /\ MadeFits' /\ CutFits'
  <2>1. SessionFits'
    BY <1>1 DEF IInv, SessionFits
  <2>2. FilingFits'
    BY <1>1, ZenonT(60) DEF IInv, FilingFits, Rec, ToFile, Drafted, Author, Open, SomeFiled
  <2>3. MadeFits'
    <3>1. UNCHANGED <<Rec, ToFile, NextTicket, Drafted, PrevSpec, Author(work.cand)>>
      BY <1>1 DEF Rec, ToFile, NextTicket, Drafted, PrevSpec, Author
    <3>2. Blockers(NextTicket)' = Blockers(NextTicket)
      BY <1>1, <3>1 DEF Blockers, Rec
    <3> QED BY <1>1, <3>1, <3>2 DEF IInv, MadeFits
  <2>4. CutFits'
    BY <1>1, ZenonT(60) DEF IInv, CutFits, Rec, ToFile, Drafted, Author, Open, SomeFiled
  <2> QED BY <2>1, <2>2, <2>3, <2>4
<1>5. DraftsStay' /\ LabelsFit' /\ NothingLeftBehind'
  BY <1>1 DEF IInv, DraftsStay, LabelsFit, NothingLeftBehind, Drafted, Author, ReadyIssues,
     Rec, Numbers, Open
<1> QED BY <1>2, <1>3, <1>4, <1>5 DEF IInv

LEMMA NextKeeps == ASSUME IInv, Next PROVE IInv'
<1>1. CASE ProcessStep
  BY <1>1, IterateKeeps, PlanKeeps, BlockedKeeps, SafeShaKeeps, WindDownKeeps, WoundDownKeeps,
     EnterKeeps, ScanKeeps, ReportKeeps, DraftSpecKeeps, DraftTicketsKeeps, CorrectKeeps,
     ResolvedKeeps, AbandonKeeps, CreateSpecKeeps, RecordSpecKeeps, CreateTicketKeeps,
     WireTicketKeeps, LabelKeeps, RecordLabelsKeeps, FiledKeeps, MidKeeps, OverKeeps,
     UsageLimitKeeps, TimeoutKeeps DEF ProcessStep
<1>2. CASE StartRun \/ AgentWrites \/ OthersPush \/ GithubFails \/ Kill
  BY <1>2, StartRunKeeps, AgentWritesKeeps, OthersPushKeeps, GithubFailsKeeps, KillKeeps
<1> QED BY <1>1, <1>2 DEF Next

LEMMA Inductive == Spec => []IInv
<1>1. IInv /\ [Next]_vars => IInv'
  BY NextKeeps, Stutters
<1> QED BY InitInv, <1>1, PTL DEF Spec

\* What a candidate leaves on disk, at GitHub and in the run fits together wherever
\* the cycle is cut short: each set is filed from its own drafts, tickets of two
\* neighbours are never startable side by side, and nothing is planned in a cycle
\* that was cut, for every number of candidates, tickets, limits and failures
\* (iteration/improve.py, improve_filing.py, _run.py).
THEOREM Invariance == Spec => []Inv
BY Inductive, Derived, PTL

\* A ticket that can be picked up is a sub-issue and waits for what its draft says,
\* and its whole set is there, unless it was wound down with the drafts of another
\* candidate (improve_filing.py:133-211).
THEOREM SetsAreWhole == Spec => []ReadySetsAreWhole
<1>1. IInv => ReadySetsAreWhole
  BY DEF IInv, GithubFits
<1> QED BY Inductive, <1>1, PTL

\* Between phases every open ticket has its label, as long as no GitHub call failed
\* and nothing was killed (_run.py:229-246, improve_candidate_lifecycle.py:144-186).
THEOREM NoneOrphaned == Spec => []NoOrphans
<1>1. IInv => NoOrphans
  BY DEF IInv, NothingLeftBehind, NoOrphans
<1> QED BY Inductive, <1>1, PTL

=============================================================================
