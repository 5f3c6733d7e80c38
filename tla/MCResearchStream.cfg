\* One run under fair timers; bundle is the required tool, other is not selected.
SPECIFICATION FairSpec
CONSTANTS
  None = None
  MaxRuns = 1
  Names = {bundle, other}
  Selected = {bundle}
  Required = bundle
  MaxRounds = 2
  MaxCalls = 2
  MaxUses = 2
PROPERTIES
  RunSettles
INVARIANTS
  NeverRefused
