SPECIFICATION Spec
CONSTANTS
  root = root
  lib = lib
  vendor = vendor
  pkg = pkg
  ext = ext
  x = x
  y = y
  notes = notes
  secret = secret
  NoNode = NoNode
  NoPath = NoPath
  Names <- MCNames
  Skipped = {"vendor"}
  Dirs = {root, lib, vendor, pkg, ext}
  Files = {x, y, notes, secret}
  Sources = {x, y, secret}
  Outside = {ext, secret}
  Root = root
  FileSystems <- MCFileSystems
  MaxFaults = 1
INVARIANTS
  CandidatesAreSound
  WalkIsComplete
PROPERTIES
  WalkEnds
CHECK_DEADLOCK FALSE
