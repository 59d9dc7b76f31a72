CONSTANTS
  Sandbox = {s1, s2, s3}
  NoSandbox = NoSandbox
  Responses <- MCResponses
  MaxTurns = 2
  MaxRecoveries = 1
  MaxAttempts = 3
  FinalAttempt = 3
  ProvisionAttempts = 1
  ExecAttempts = 2
  RecoverAttempts = 1
  TerminateAttempts = 2
SPECIFICATION FairSpec
INVARIANTS
  TypeOK
  RestorePointKnown
  NothingLost
  HandedSandboxesTerminated
  RowMatchesOutcome
PROPERTIES
  ReportEndsLoop
  NoFlicker
  ImplementsFileRun
  EventuallyClosed
  RowSettles
