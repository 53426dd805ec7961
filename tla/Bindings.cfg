SPECIFICATION BindingSpec
CONSTANTS
  Workers = {w1, w2, w3}
  Jobs = {ok, panics, dies, dies2, endless}
  Succeeding = {ok, endless}
  Panicking = {panics}
  Dying = {dies, dies2}
  Endless = {endless}
  NoWorker = NoWorker
  NoJob = NoJob
  Specifiers <- MCSpecifiers
  MaxLoads = 3
  MaxChanges = 2
  MaxCalls = 4
  MaxTraps = 2
INVARIANTS
  LockNeverPoisoned
  NoUseAfterTrap
  CallsAreIndependent
PROPERTIES
  OrdinaryJobsAreServed
  OneFreshAnswer
CHECK_DEADLOCK FALSE
