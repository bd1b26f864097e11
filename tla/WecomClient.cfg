\* Two goroutines, each sending a reply to one customer, polling or downloading.
SPECIFICATION FairSpec
CONSTANTS
  r1 = r1
  alice = alice
  Goroutines = {c1, c2}
  Replies = {r1}
  CustomerOf <- MCCustomerOf
  WecomAPIMaxRetries = 2
  Interval = 1
INVARIANTS TypeOK ShownOnce SlotsApart PostSurvives
PROPERTIES CallsReturn
