\* One or two rules of up to three conditions.  The decimals are binary, so that
\* the digits TLC has to keep are few.
CONSTANTS
  Base = 2
  Files <- SomeFiles
  Days = {1, 2}
  Percents = {10}
  Shares <- SomeShares
  Funds <- SomeFunds
  MaxStrategies = 3
SPECIFICATION Spec
INVARIANTS
  FormShowsRules
  RulesActOnVerdicts
PROPERTIES
  TradesKeepValue
