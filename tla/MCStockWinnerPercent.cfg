\* A rise to 150 percent and conditions that ask for 150 or 200, in whole prices,
\* as in StrategyTest.
CONSTANTS
  Base = 2
  Files <- TestFiles
  Days = {1, 2}
  Percents = {50, 100}
  Shares <- SomeShares
  Funds <- SomeFunds
  MaxStrategies = 1
SPECIFICATION Spec
INVARIANTS
  PercentIsReached
