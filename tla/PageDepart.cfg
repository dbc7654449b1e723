CONSTANTS
  ici = ici
  mer = mer
  Aucun = Aucun
  Points <- MCPoints
  Zone <- MCZone
  CENTRE_BRETAGNE = ici
  MaxPositions = 1
  MaxGeneration = 2
SPECIFICATION FairSpecPage
INVARIANT CentreSousLeReticule
INVARIANT NomTenu
PROPERTY PageArrive
INVARIANT AttenteVivante
INVARIANT ListeDuChamp
PROPERTY DernierEcrit
