CONSTANTS
  s1 = s1  s2 = s2  s3 = s3  s4 = s4  w = w  l = l  a1 = a1  a2 = a2  b = b
  State <- MCState
  Action = {a1, a2, b}
  LegalActions <- MCActions
  Banned = {b}
  Outcome <- MCOutcome
  Steps <- MCSteps
  Modes = {"Exact", "Pessimal"}
  DepthCap = 3
  NodeCap = 3
SPECIFICATION FairSpec
INVARIANTS TypeOK LossConclusive PolicyWinsSurely CycleExists
PROPERTY Terminates
CHECK_DEADLOCK FALSE
