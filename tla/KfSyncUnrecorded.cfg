\* Is all confirmed content recorded if one step fails?
SPECIFICATION FairSpec
CONSTANTS
  Users = {alice}
  AllowedExternalUsers = {alice}
  MenuLines = 1
  SendsMayFail = FALSE
  MaxLog = 2
  MaxFailures = 1
PROPERTIES ConfirmedIsRecorded
