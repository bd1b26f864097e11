\* A batch of two contents, and nothing of the gateway's own fails.
SPECIFICATION FairSpec
CONSTANTS
  b1 = b1
  b2 = b2
  m1 = m1
  m2 = m2
  m3 = m3
  alice = alice
  bob = bob
  Batches = {b1}
  Contents <- MCContents
  Customer <- MCCustomer
  Ticker = ticker
  SendsMayFail = FALSE
  MaxFailures = 0
PROPERTIES AcceptedIsTracked CustomerIsTold
