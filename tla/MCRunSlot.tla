------------------------------ MODULE MCRunSlot -----------------------------
(* An instance of RunSlot for TLC: a run of one project, a run and a jumper of another. *)
EXTENDS RunSlot, TLC

CONSTANTS a1, b1, bj, A, B

HomeOf == [r \in Runs |-> IF r \in {b1, bj} THEN B ELSE A]
=============================================================================
