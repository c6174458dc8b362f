CONSTANTS
  Faults = {}
SPECIFICATION Spec
INVARIANTS
  FreshOnboarding
