SPECIFICATION NearMissSpec
CONSTANTS
  WordBits = 2
  Symbols = {1, 2}
  MaxLength = 5
  MoreSymbols = {1, 2, 3}
  MaxShorterLength = 4
  Sequences <- MCSequences
  HashBits = 8
  NgramSize = 2
  MinTokens = 4
  MinSimilarityPercent = 75
  MaxAnchorGapTokens = 1
  ContentSymbols = {1, 3, 5}
  MaxStatements = 2
  TokenKey <- Keys
  Population <- MCPopulation
  Pairs <- MCPairs
  MinCopyTokens = 2
  MaxCopies = 3
  Cases <- MCCases
INVARIANTS
  GrowthBitsCountCommonSymbols
  MarkingKeepsTheLongest
  VerdictIsSymmetric
  ChainIsLongest
  MarkedTokensBearTheMatchOut
  
  NothingListedIsLost
