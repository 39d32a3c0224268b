CONSTANTS
  Grain = 1
  Probes <- MCProbes
SPECIFICATION Spec
INVARIANT AcceptedIsInside
