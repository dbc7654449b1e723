CONSTANTS
  NumRequetes = 2
  Demandes <- DemandesMC
  Illisible = Illisible
  Versions = {1, 2}
  Monde <- MondeMC
  MinDistance = 1
  MaxDistance = 100
  MaxResults = 10
  Ids <- IdsMC
  TTL = 1
  Grace = 2
  Lancements = 2
  WriteTimeout = 3
SPECIFICATION Spec
PROPERTY
  IdRejouable
  ReponseJuste
  AucuneCoupee
  FinApresSignal
CHECK_DEADLOCK FALSE
