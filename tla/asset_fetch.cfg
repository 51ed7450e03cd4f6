SPECIFICATION FairSpec
CONSTANTS
  Projects <- MCProjects
  NoProject = NoProject
  Names <- MCNames
  ContextName <- MCContextName
  MaxActs = 4
INVARIANTS
  RowsOfProject
  ToolShowsAssets
  SelectionKept
CHECK_DEADLOCK FALSE
