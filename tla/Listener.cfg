CONSTANTS
  MaxFailures = 2
  Script <- MCScript
  Place <- MCPlace
  Tests <- MCTests
  Steps <- MCSteps
  Found <- MCFound
SPECIFICATION Spec
INVARIANTS
  WaitIsBounded
  NothingForgotten
  StepsAndTests
