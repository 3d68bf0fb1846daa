SPECIFICATION Spec
CONSTANTS
  Forms <- MCForms
  MaxTries = 2
INVARIANTS
  SuccessIsTrue
  RefusalIsTrue
  ReasonSurvives
CHECK_DEADLOCK FALSE
