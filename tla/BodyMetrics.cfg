SPECIFICATION Spec
CONSTANTS
  Files <- MCFiles
  MaxChain = 3
INVARIANTS
  FunctionsAreMeasuredAlone
  BlocksExplainTheFunction
