SPECIFICATION StagingSpec
CONSTANTS
  Families = {"image", "render"}
  Texts = {"Main", "Other"}
  DefaultOf <- MCDefault
  Assets = {"hero"}
  Typos = {"her"}
  NoFamily = NoFamily
  NoName = NoName
  Width = 2
  ChunkLength = 3
  MaxChunks = 5
  Blank <- MCBlank
  Docs = {1, 2}
  OldName <- MCOldName
  LoadName <- MCLoadName
  BaseOnly = {"render"}
  MaxNode = 3
  MaxActs = 4
INVARIANTS
  ReadyMatches
  ShownIsStored
PROPERTIES
  Kept
CHECK_DEADLOCK FALSE
