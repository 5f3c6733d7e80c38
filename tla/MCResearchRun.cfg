\* Two runs of one tool call each; bundle is the required tool.
SPECIFICATION Spec
CONSTANTS
  None = None
  MaxRuns = 2
  Names = {bundle}
  Selected = {bundle}
  Required = bundle
  MaxRounds = 1
  MaxCalls = 1
  MaxUses = 1
INVARIANTS
  TypeOK
  CompletionEarned
  PartialKept
  OneLiveRun
PROPERTIES
  LateStaysOut
CONSTRAINT NearlyRead
