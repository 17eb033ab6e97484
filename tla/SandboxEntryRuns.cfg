SPECIFICATION SandboxFairSpec
CONSTANTS
  Mergers = {merger}
  Readers = {reader}
  NoFingerprint = none
  MaxMoves = 1
  MaxFaults = 2
INVARIANTS SandboxInv
PROPERTIES LiveConversationsStay ConflictsEnd
