CONSTANTS
  Invocations = {a, b}
  Runs = 2
  Builds = {1, 2}
  ModeSets = {"all", "fewer"}

SPECIFICATION RepeatSpec

INVARIANT
  SummaryCoversOneCompleteSet

CHECK_DEADLOCK FALSE
