\* One message of a permitted and one of an unknown user, each delivered to two
\* goroutines, with store errors, lost answers and restarts.
SPECIFICATION Spec
CONSTANTS
  m1 = m1
  m2 = m2
  m3 = m3
  alice = alice
  mallory = mallory
  Users = {alice, mallory}
  UserOf <- MCUserOf
  Calls = {c1, c2}
  AllowedExternalUsers = {alice}
  RateLimitCount = 1
  RateLimitWindowMS = 1
  MsgIDs = {m1, m3}
  StoreMayFail = TRUE
  MaxMillis = 0
SYMMETRY Symmetry
INVARIANTS TypeOK AtMostOnePrint RejectedNeverPrints AcceptedWasPrinted
PROPERTIES StatusMovesForward KeepsPromise
