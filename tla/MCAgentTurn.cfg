\* One turn under the exact policy with a required first tool (as the mobile
\* research run asks for it), one under the default policy.
\* bundle must run first in the exact turn, compose publishes, other is not selected.
SPECIFICATION OneTurnSpec
CONSTANTS
  None = None
  Turns = {exact, open}
  Names = {bundle, compose, other}
  Selected = {bundle, compose}
  Required = bundle
  Composer = compose
  Exact = {exact}
  MaxRounds = 3
  MaxCalls = 3
  MaxUses = 4
INVARIANTS
  TypeOK
  CallsAnswered
  RequiredFirst
  OnlySelected
  BudgetHeld
PROPERTIES
  KeepsProtocol
  TurnEnds
