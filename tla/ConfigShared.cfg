SPECIFICATION SharedSpec
CONSTANTS
  Nobody = Nobody
  None = None
  t1 = t1
  t2 = t2
  s1 = s1
  s2 = s2
  p1 = p1
  p2 = p2
  f1 = f1
  f2 = f2
  k1 = k1
  k2 = k2
  a1 = a1
  Tokens = {t1, t2}
  Secrets = {s1, s2}
  ProviderIds = {p1, p2}
  Forms = {f1, f2}
  ApiKeys = {a1}
  KeyIds = {k1, k2}
  LegacyKeyId = legacy
  LegacyConfig <- OldConfig
  EnvToken = t1
  Ops <- FewOps
  Writers = {w1}
  Loggers = {}
  MaxUpdates = 3
  MaxLogs = 0
  MaxCrashes = 1
PROPERTY ChangesOnlyWhatIsAsked
CHECK_DEADLOCK FALSE
