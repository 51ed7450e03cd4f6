SPECIFICATION SceneSpec
CONSTANTS
  Subsets <- MCSubsets
  ReprNames <- MCReprNames
  Containers <- MCContainers
  Accepts <- MCAccepts
  Orphans = {}
  NoRepre <- MCNoRepre
  FirstVersions <- MCFirstVersions
  FirstScenes <- MCFirstScenes
  MaxVersion = 2
  MaxDocs = 1
  Parent <- MCParent
  Nested = TRUE
  NoChoice = "none"
  Followed <- MCFollowed
  MaxActs = 2
INVARIANTS
  ViewShowsScene
  LatestReached
  FullChoiceResolves
CHECK_DEADLOCK FALSE
