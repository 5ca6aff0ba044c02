SPECIFICATION Spec
CONSTANTS
  MaxTasks = 2
  MaxEdits = 2
  TagLists <- MCTagLists
  Names <- MCNames
  Upper <- MCUpper
  Filters <- MCFilters
  PageSize = 1
  MaxPages = 3
  NoRow = NoRow
  Nil = Nil
INVARIANTS TypeOK KeepsTheWords FoundByTag FindsOnlyCarriers TidyTagsAreListed PagesMissNothing
