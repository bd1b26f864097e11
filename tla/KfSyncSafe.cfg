\* Two customers, three messages, two failures (the clock set back is one).
SPECIFICATION Spec
CONSTANTS
  Users = {alice, bob}
  AllowedExternalUsers = {alice, bob}
  MenuLines = 1
  SendsMayFail = TRUE
  MaxLog = 3
  MaxFailures = 2
SYMMETRY Symmetry
INVARIANTS TypeOK ConfirmedWasOffered PassedOnOnce NothingSkipped
PROPERTIES DecisionStands
