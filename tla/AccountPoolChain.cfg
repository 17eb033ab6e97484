SPECIFICATION Spec
CONSTANTS
  NumAgents = 2
  NumAccounts = 2
  Services = {"claude", "codex"}
  Slots <- PoolSlots
  Inline = {"codex"}
  Chain <- Fallback
  Rejects = {"opus", "sonnet", "gpt"}
  MaxTime = 2
INVARIANTS Inv GuardSuffices
PROPERTIES SleepWakes
CHECK_DEADLOCK FALSE
