SPECIFICATION Spec
CONSTANTS
  s1 = s1
  s2 = s2
  NoSlate = NoSlate
  u1 = u1
  u2 = u2
  Slates = {s1}
  Role <- OnePay
  Updaters = {u1}
  Coins = 1
  Indexed = TRUE
  Restored = TRUE
  Repair = FALSE
  Watch = FALSE
  ZeroConf = FALSE
  SendTtl = 0
  RecvTtl = 2
  StaleCoinbase = 50
  MaxInputs = 1
  MaxKeys = 3
  MaxTxs = 3
  MaxRestores = 2
  MaxHeight = 1
  MaxForks = 0
  MaxOutages = 0
  MaxCoinbase = 0
PROPERTIES
  ConfirmedStays
