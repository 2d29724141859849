SPECIFICATION Spec
CONSTANTS
  s1 = s1
  s2 = s2
  NoSlate = NoSlate
  u1 = u1
  u2 = u2
  Slates = {s1}
  Role <- OneSend
  Updaters = {u1}
  Coins = 1
  Indexed = FALSE
  Restored = FALSE
  Repair = TRUE
  Watch = TRUE
  ZeroConf = FALSE
  SendTtl = 1
  RecvTtl = 2
  StaleCoinbase = 50
  MaxInputs = 1
  MaxKeys = 3
  MaxTxs = 1
  MaxRestores = 2
  MaxHeight = 2
  MaxForks = 1
  MaxOutages = 0
  MaxCoinbase = 0
INVARIANTS
  ConfirmedWasMined
