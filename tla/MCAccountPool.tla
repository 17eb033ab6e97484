---------------------------- MODULE MCAccountPool ---------------------------
(* Instances of AccountPool for TLC. *)
EXTENDS AccountPool
CONSTANT NumAccounts   \* of the pool of claude

Claude == SubSeq(<<"claude1", "claude2">>, 1, NumAccounts)
PoolSlots == [s \in {"claude", "codex"} |-> IF s = "claude" THEN Claude ELSE <<"codex1">>]
OnePool   == <<<<"claude", "opus">>>>
Fallback  == <<<<"claude", "opus">>, <<"claude", "sonnet">>, <<"codex", "gpt">>>>
=============================================================================
