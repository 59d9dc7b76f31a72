CONSTANTS
  MaxRateLimit = 10
  MaxOther = 3
  Slack = 7
SPECIFICATION Spec
INVARIANTS
  CountsAddUp
  BudgetsIndependent
  PolicyIsOuterNet
