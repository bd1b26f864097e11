\* Two accounts, one of them not configured, failing syncs and restarts.
SPECIFICATION FairSpec
CONSTANTS
  Accounts = {kf, other}
  OpenKfIDs = {kf}
  Tokens = {t1}
  Workers = {w1, w2}
  SyncMayFail = TRUE
  MaxSent = 2
INVARIANTS TypeOK OneSyncPerAccount
PROPERTIES CursorNeverBack FetchedInTheEnd
