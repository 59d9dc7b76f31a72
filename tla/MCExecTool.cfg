SPECIFICATION Spec
CONSTANTS
  TurnOf <- MCTurnOf
  MaxRecoveries = 1
  ExecAttempts = 2
INVARIANTS FirstCallsAreKept
