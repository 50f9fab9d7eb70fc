SPECIFICATION Spec
CONSTANTS
  States = {1, 2, 3}
  Signals = {sig}
  Instances = {a}
  Nil = Nil
  MaxCallStack = 10
  MaxFrames = 3
INVARIANTS TypeOK RunsOnOwnStack OneContinuation NoLostWakeup CallStackMatches
