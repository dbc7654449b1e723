CONSTANTS
  Nodes <- NoeudsMC
  Refs <- RefsMC
  Edges <- AretesMC
  Src <- SrcMC
  Tgt <- TgtMC
  Rev <- RevMC
  Poids = {"neutre", "route"}
  Cout <- CoutMC
  Long <- LongMC
  H <- HBon
  Consommes <- ConsommesMC
  Plafonds = {0, 2, 3}
  Facteurs = {0, 4}
  DefaultMaxNodes = 10
  CtxCheckInterval = 2
SPECIFICATION FairSpec
INVARIANT
  CheminRendu
  CertificatOptimal
  CoupeSansIssue
  CompteJuste
PROPERTY
  Termine
