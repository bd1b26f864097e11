\* Answers of CUPS, callbacks, contents, environments and records, whole and damaged.
SPECIFICATION Spec
CONSTANTS
  JobState <- MCJobState
  CorpID <- MCCorpID
  NoFields <- MCNoFields
  MaxName <- MCMaxName
  Preview <- MCPreview
  MaxFileBytes <- MCMaxFileBytes
  MaxPages <- MCMaxPages
  Limit <- MCLimit
  CwKeys <- MCCwKeys
  MaxInt = 2147483647
CHECK_DEADLOCK FALSE
INVARIANTS NeverPanics StateIsTrue GenuineIsHandled OnlyWellFormed TextIsNamed AcceptedIsWhole ConfigFits LatestShown
PROPERTIES Advances NameStands
