CONSTANTS
  Nodes <- NoeudsMC
  Edges <- AretesMC
  Src <- SrcMC
  Tgt <- TgtMC
  Rev <- RevMC
  Long <- LongMC
  NumWaypoints = 3
  DetourLo = 128
  DetourHi = 400
  DetourInitial = 208
  MaxRadiusIterations = 5
  DistanceM = 20
  Tolerance = 10
  Bruit = 4
SPECIFICATION SpecDirection
INVARIANT
  BoucleJuste
  BissectionJuste
