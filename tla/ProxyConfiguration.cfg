\* Five calls or edits in any order, on the constants of MCProxyConfiguration.
CONSTANTS
  Sites <- MCSites
  Ports = {80}
  StringKeys = {"username"}
  IntKeys = {"proxyPort"}
  Words <- MCWords
  Numbers = {1}
  Trim <- MCTrim
  Missing = Missing
  Unreadable = Unreadable
  Garbage = Garbage
  EditedFiles <- MCEditedFiles
  MaxCalls = 5
SPECIFICATION Spec
PROPERTIES
  LoadsWhatWasSaved
  ReloadDecidesTheSame
  FailedLoadOnlyAppends
  EditsAreMonotone
\* After MaxCalls the model stops.
CHECK_DEADLOCK FALSE
