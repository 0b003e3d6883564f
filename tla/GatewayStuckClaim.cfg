SPECIFICATION GatewayFairSpec
CONSTANTS
  Delivery = {d1}
  StaleAfter = 30
  BaseDelay = 1
  MaxRetries = 3
  MaxFaults = 1
PROPERTIES
  ClaimEventuallyDecided
CHECK_DEADLOCK FALSE
