SPECIFICATION WalkedSpec
CONSTANTS
  root = root
  lib = lib
  x = x
  NoNode = NoNode
  NoPath = NoPath
  Names <- MCNames
  Skipped = {}
  Dirs = {root, lib}
  Files = {x}
  Sources = {x}
  Outside = {}
  Root = root
  FileSystems <- DirectoryLinks
  MaxFaults = 0
  WalkPaths <- MCWalkPaths
  AliasRules <- MCAliasRules
INVARIANTS
  OneAliasCannotDecideAlone
CHECK_DEADLOCK FALSE
