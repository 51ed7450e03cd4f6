SPECIFICATION FairDetailsSpec
CONSTANTS
  Assets <- MCAssets
  Context <- MCContext
  NoAsset <- MCNoAsset
  SyncServer = TRUE
  MaxActs = 3
  Versions <- MCVersions
  Latest <- MCLatest
  Names <- MCNames
  Lower <- MCLower
  Loaders <- MCLoaders
  AddLoaders <- MCAddLoaders
  RemoveLoaders <- MCRemoveLoaders
  Fits <- MCFits
  Sides <- MCSides
  Progress <- MCProgress
  Published <- MCPublished
  Changing <- MCChanging
  Thumbnail <- MCThumbnail
  Pictures <- MCPictures
INVARIANTS
  RowsOfAssets
  RestShowsSelection
  DetailsFollow
  PictureMatches
  ChosenLoadsAll
PROPERTIES
  LoadingEnds
CHECK_DEADLOCK FALSE
