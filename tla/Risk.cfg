SPECIFICATION GatewaySpec
CONSTANTS
  RateWindowMsgs = 2
  WindowTicks = 2
  MaxQty = 2
  PxLo = 1
  PxHi = 1
  PosLimit = 3
  Prices = {1, 2}
  Quantities = {0, 1, 2, 3}
  MaxClock = 6
  MaxSent = 4
INVARIANTS
  ExposureWithinLimit
  RateRespected
  RateRefusalExact
