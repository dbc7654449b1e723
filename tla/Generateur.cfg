CONSTANTS
  NumCandidates = 4
  Limite = 2
  Terrains <- TerrainsMC
  MaxResults = 2
  Seuil = 7
SPECIFICATION FairSpec
INVARIANT
  ReponseComplete
  PertesJustes
  ErreurDuContexte
  PropositionsDistinctes
PROPERTY
  Termine
