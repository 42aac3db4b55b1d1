CONSTANTS
  s1 = s1
  s2 = s2
  r1 = r1
  r2 = r2
  w1 = w1
  Sig = {s1, s2}
  Req = {r1, r2}
  Ws = {w1}
  WsSig <- MCWsSig
  LastLevel = "confirmed"
  DesiredOf <- MCDesiredOf
  Check = {c1, c2}
  Timeout = 3
  PollInterval = 2
  Mixed = FALSE
  None = None
  Tx = {t1}
  Configs <- MCConfigs
  Connections = {1, 2}
  retryCount = 2
  Polls = 2
  MaxResends = 2
  MaxFailures = 2
  MaxForks = 1
SPECIFICATION MCSpec
INVARIANTS PendingRequestsAreKept VerdictsAreTheChains SuccessMeansLanded NothingLeft
PROPERTIES RequestsSettle SendSettles
CHECK_DEADLOCK FALSE
