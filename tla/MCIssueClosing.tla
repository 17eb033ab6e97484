--------------------------- MODULE MCIssueClosing ---------------------------
(* Instances of IssueClosing for TLC: 1 is the sub-issue of 5, which is with *)
(* 3 a sub-issue of 6.                                                       *)
EXTENDS IssueClosing
ParentDef == [i \in Issues |-> CASE i = 1 -> 5 [] i \in {3, 5} -> 6 [] OTHER -> 0]
=============================================================================
