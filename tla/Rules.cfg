SPECIFICATION EvaluateSpec
CONSTANTS
  RuleKeys <- MCRules
  Starts <- MCStarts
  Calls <- MCCalls
  Elsewhere = Elsewhere
INVARIANTS
  WinsByTheRule
PROPERTIES
  WinningNumberCounts
  WinStays
  LaterShapeCounts
