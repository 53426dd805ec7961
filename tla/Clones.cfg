SPECIFICATION ClonesSpec
CONSTANTS
  MinTokens = 2
  MaxWindow = 4
  MaxGapTokens = 2
  Texts <- MCTexts
  Inputs <- MCInputs
INVARIANTS
  EmitsTheRepeatedWindows
  KeptRegionsAreDisjoint NestedCopiesAreCovered NothingIsLost SelectedGroupsSurvive
  MergedGroupsAreSound SkippedPairsDoNotMerge
PROPERTY CloneSearchEnds
