CONSTANTS
  Extraits <- MCExtraits
  RemplacementsMax = 1
  Mots <- MCMots
  Provenances = {1, 2}
  maxNodes = 3
  maxEdges = 4
  Pas = 2
  DegatsMax = 1
  BuildsMax = 2
  AvoidPaved <- MCAvoidPaved
SPECIFICATION SpecFabrique
INVARIANT
  ContratTenu
  ServiSur
  ServiEntier
  ProvenanceJuste
  CoutAdmissible
