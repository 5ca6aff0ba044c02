SPECIFICATION Spec
CONSTANTS
  MaxTasks = 1
  MaxEdits = 1
  TagLists <- MCTagLists
  Names <- MCNames
  Upper <- MCUpper
  Filters <- MCFilters
  PageSize = 1
  MaxPages = 1
  NoRow = NoRow
  Nil = Nil
PROPERTY BulkPausePauses
