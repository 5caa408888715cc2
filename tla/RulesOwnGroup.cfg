SPECIFICATION EvaluateSpec
CONSTANTS
  RuleKeys <- MCOwnGroup
  Starts <- MCStarts
  Calls <- MCCalls
  Elsewhere = Elsewhere
INVARIANTS
  WinsByTheRule
