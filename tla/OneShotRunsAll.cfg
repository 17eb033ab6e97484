SPECIFICATION Spec
CONSTANTS
  claude = claude
  codex = codex
  Services <- MCServices
  Chain <- MCChain
  Checks = {lint, tests}
  lint = lint
  tests = tests
  TimeoutRetries = 1
  MaxElapses = 2
INVARIANTS Inv NoWastedCall
PROPERTIES RunEnds
