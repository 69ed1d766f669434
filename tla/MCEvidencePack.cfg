SPECIFICATION Spec
INVARIANTS
  CountedIsComplete
  PassedIsComplete
