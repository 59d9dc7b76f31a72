CONSTANTS
  MaxCauses = 3
SPECIFICATION FailureSpec
INVARIANTS
  VerdictSurvives
  GoneIsWhatWasRaised
