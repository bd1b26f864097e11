\* Nothing fails: menus and confirmations come to their end.
SPECIFICATION FairSpec
CONSTANTS
  Users = {alice, mallory}
  AllowedExternalUsers = {alice}
  MenuLines = 1
  SendsMayFail = FALSE
  MaxLog = 3
  MaxFailures = 0
PROPERTIES ContentGetsAMenu ConfirmedIsRecorded
