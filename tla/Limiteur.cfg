CONSTANTS
  Hotes = {a, b, p}
  ProxysSurs = {p}
  Entetes <- EntetesMC
  Unite = 1
  Rafale = 2
  IdleTTL = 2
  MaxTrackedClients = 2
  Horizon = 7
  a = a
  b = b
  p = p
SPECIFICATION SpecF
INVARIANT
  TableTenue
  RetryAfterTenu
  DebitBorne
PROPERTY
  ImplementeAbstrait
