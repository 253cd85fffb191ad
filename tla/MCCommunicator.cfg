CONSTANT
  Writers = {w1, w2}
SPECIFICATION CommFairSpec
INVARIANTS
  StateMatchesSides
  WritingHasAWriter
PROPERTIES
  LifecycleSpec
  CallsComplete
