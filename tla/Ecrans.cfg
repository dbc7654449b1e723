CONSTANTS
  b1 = b1
  b2 = b2
  Aucun = Aucun
  Ids <- MCIds
  MaxGeneration = 2
SPECIFICATION FairEcrans
INVARIANT DernierSeulEcrit
INVARIANT RienEnVain
INVARIANT EcranDeLId
INVARIANT BoucleRetrouvee
PROPERTY AttentesBornees
