CONSTANTS
  MaxGeneration = 2
SPECIFICATION Spec
INVARIANT
  AnnulationSansErreur
