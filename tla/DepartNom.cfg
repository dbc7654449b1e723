CONSTANTS
  ici = ici
  mer = mer
  Aucun = Aucun
  Points <- MCPoints
  Zone <- MCZone
  CENTRE_BRETAGNE = ici
  MaxPositions = 1
SPECIFICATION SpecDepart
PROPERTY NomDuReticule
