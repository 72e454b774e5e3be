SPECIFICATION Spec
CONSTANTS
  Pool <- MCPool
  StackName = "S"
  Registered <- MCRegistered
  MaxNodes = 3
  MaxLinks = 2
INVARIANTS RunsConfigured PanicsForCause
