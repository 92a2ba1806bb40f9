SPECIFICATION Spec
CONSTANTS
  u1 = u1
  u2 = u2
  normal = normal
  high = high
  p0 = p0
  p1 = p1
  p2 = p2
  Io = Io
  Standby = Standby
  Normal = normal
  DefaultPar = p0
  Params <- MCDriftingParams
  Near <- MCNear
  Matching <- MCNear
  Users <- MCOneUser
  ActiveRates <- MCOneRate
  MaxCount = 2
  MaxInFlight = 1
  MaxCalls = 1
  MaxDrops = 1
SYMMETRY MCSymmetry
INVARIANTS
  TypeOK
  ConfirmedMeansReported
  ParamsAreMeasured
PROPERTY
  ImplementsRegister
