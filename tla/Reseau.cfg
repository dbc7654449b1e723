CONSTANTS
  NMax = 4
  SegmentsMax = 3
  Builders <- MCBuilders
  Placements <- MCPlacements
  Departs <- MCDeparts
  cote = 4
  maxRings = 2
  poidsLon = 2
  poidsLat = 3
SPECIFICATION FairReseau
INVARIANT GrapheFidele
INVARIANT NonPiege
INVARIANT ErreurBornee
PROPERTY Reponse
