\* Two batches, the ticker, and one lost receipt, error or restart.
SPECIFICATION Spec
CONSTANTS
  b1 = b1
  b2 = b2
  m1 = m1
  m2 = m2
  m3 = m3
  alice = alice
  bob = bob
  Batches = {b1, b2}
  Contents <- MCShort
  Customer <- MCCustomer
  Ticker = ticker
  SendsMayFail = TRUE
  MaxFailures = 1
SYMMETRY MCSymmetry
INVARIANTS TypeOK OnePoll OneOutcome OutcomeIsTrue
