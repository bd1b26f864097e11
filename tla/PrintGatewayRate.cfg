\* Two messages of one user compete for a limit of one per window, in a database
\* that works.
SPECIFICATION FairSpec
CONSTANTS
  m1 = m1
  m2 = m2
  m3 = m3
  alice = alice
  mallory = mallory
  Users = {alice, mallory}
  UserOf <- MCUserOf
  Calls = {c1, c2}
  AllowedExternalUsers = {alice}
  RateLimitCount = 1
  RateLimitWindowMS = 1
  MsgIDs = {m1, m2}
  StoreMayFail = FALSE
  MaxMillis = 2
INVARIANTS RateLimited
PROPERTIES Settles
