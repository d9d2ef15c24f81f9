INIT Init
NEXT Next
CONSTANTS
  Parts = {"import"}
  FormDrivers = {"postgres", "mysql", "sqlite", "sqlserver", "oracle"}
  CompareDrivers = {"postgres"}
  Drivers = {"postgres", "mysql", "sqlite", "sqlserver", "oracle"}
  TableNames = {1, 2}
  ViewNames = {3, 4}
  ColumnNames = {1, 2, 3}
  Types = {1, 2}
  PartNames = {1, 2}
  Definitions <- MCDefinitions
  Seeds <- MCSeeds
  ColumnLists <- MCColumnLists
  MaxSteps = 3
  MaxForms = 1
  Keys = {1, 2, 3}
  DataColumns = {"a", "b"}
  Values = {"x", "y", "long", "round", "slash"}
  dataCompareMaxRows = 2
  Dialects = {"postgres", "mysql"}
  Copies <- MCCopies
  WrittenRows <- MCRows
  Rounded <- MCRounded
  Unescaped <- MCUnescaped
  Batches = {1, 2}
  MaxWrites = 1
  MaxClicks = 3
  MaxSegments = 3
  MaxPhrases = 7
  CodeSymbols = {"SELECT", "DELETE", ";", "nl"}
  InValues <- MCInValues
  InComments <- MCInComments
  Engines = {"postgres", "mysql", "sqlserver"}
  Contents <- MCContents
  Files <- MCFiles
  MaxChoices = 3
INVARIANT IgnoredConflictsDoNotStop
CHECK_DEADLOCK FALSE
