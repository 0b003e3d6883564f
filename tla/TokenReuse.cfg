SPECIFICATION TokenSpec
CONSTANTS
  Token = {k1, k2, k3}
  Family = {f1}
  NoFamily = NoFamily
  NoToken = NoToken
  Client = {t1, t2}
INVARIANT
  ReuseEndsFamily
CHECK_DEADLOCK FALSE
