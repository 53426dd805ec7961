SPECIFICATION MCSpec
CONSTANTS
  Inputs <- MCInputs
  ThisFile = 1
  MinLines = 2
  MinSimilarityPercent = 80
  MaxLine = 4
  FunctionMetrics = {"ncss", "parameterCount"}
  FileMetrics = {"fileNcss"}
  NestedInclusive = {"ncss"}
  WarningLimits <- MCWarnings
  ErrorLimits <- MCErrors
  Infinity = Infinity
  Bases <- MCBases
  Texts <- MCTexts
  MaxLineEdits = 2
  MaxLines = 13
  ignored = ignored
  colon = colon
  Files = {ignored, colon}
  Ignored = {ignored}
  Contents = {"clean", "violating"}
  Absent = "absent"
  Violating = {"violating"}
  ErrorPrefixes <- MCPrefixes
  MaxEdits = 2
INVARIANT DetachedFunctionIsChecked
CHECK_DEADLOCK FALSE
