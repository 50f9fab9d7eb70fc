SPECIFICATION Spec
CONSTANTS
  States = {1, 2}
  Signals = {sig}
  Instances = {a}
  Nil = Nil
  MaxCallStack = 2
  MaxFrames = 3
INVARIANT NoUnderflow
