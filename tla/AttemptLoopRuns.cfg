SPECIFICATION FairSpec
CONSTANTS
  claude = claude
  codex = codex
  opencode = opencode
  NoService = NoService
  Services = {claude, codex, opencode}
  Seeded = {codex}
  Silent = {opencode}
  TimeoutRetries = 1
INVARIANTS IInv
PROPERTIES InterruptedResumes LiveConversationsKept StaleIsDropped
CHECK_DEADLOCK FALSE
