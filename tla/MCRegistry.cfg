SPECIFICATION Spec
CONSTANTS
  Scripts = {A, B}
  RefIds = {r1, r2, r3}
  Nil = Nil
SYMMETRY Symmetric
INVARIANTS TypeOK RegisteredIffNotAbandoned FreshDependencies DependentsRecorded NoDanglingDependency
