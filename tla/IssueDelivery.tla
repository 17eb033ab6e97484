---------------------------- MODULE IssueDelivery ---------------------------
(***************************************************************************)
(* What the implement and merge phases promise, without worktrees, agents, *)
(* sentinels or crashes: the commits of an issue's branch reach the        *)
(* operating branch as a whole, a branch is dropped only when they are     *)
(* there, and an issue is closed only when none of them is missing.        *)
(***************************************************************************)
CONSTANTS Issues, Work

VARIABLES branch,   \* branch[i]: the work committed on issue i's branch
          main,     \* main[i]: the work of issue i on the operating branch
          closed    \* the issues that are closed

vars == <<branch, main, closed>>

Init ==
  /\ branch = [i \in Issues |-> {}]
  /\ main = [i \in Issues |-> {}]
  /\ closed = {}

Commit(i, w) ==
  /\ i \notin closed
  /\ branch' = [branch EXCEPT ![i] = @ \cup w]
  /\ UNCHANGED <<main, closed>>

Land(S) ==
  /\ main' = [i \in Issues |-> IF i \in S THEN main[i] \cup branch[i] ELSE main[i]]
  /\ UNCHANGED <<branch, closed>>

Close(i) ==
  /\ branch[i] \subseteq main[i]
  /\ closed' = closed \cup {i}
  /\ UNCHANGED <<branch, main>>

Drop(i) ==
  /\ branch[i] \subseteq main[i]
  /\ branch' = [branch EXCEPT ![i] = {}]
  /\ UNCHANGED <<main, closed>>

Next ==
  \/ \E S \in SUBSET Issues : Land(S)
  \/ \E i \in Issues : Close(i) \/ Drop(i) \/ \E w \in SUBSET Work : Commit(i, w)

Spec == Init /\ [][Next]_vars
=============================================================================
