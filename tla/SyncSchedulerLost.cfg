\* Is the token of every callback used?
SPECIFICATION FairSpec
CONSTANTS
  Accounts = {kf}
  OpenKfIDs = {kf}
  Tokens = {t1}
  Workers = {w1, w2}
  SyncMayFail = FALSE
  MaxSent = 1
PROPERTIES TokenIsUsed
