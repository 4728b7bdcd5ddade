SPECIFICATION FunctionsSpec
CONSTANTS
  P = 53
  MaxCents = 1500
  ToyPrecisions = {12, 13, 14, 16, 18}
  MaxLines = 2
  NoInput = NoInput
CHECK_DEADLOCK FALSE
INVARIANTS
  ClosedFormIsFloatArithmetic
  QuarterYuanExact
  SettingsAreRanked
  RejectedIsNotAnswered
  OnlyPaymentsAreTaken
