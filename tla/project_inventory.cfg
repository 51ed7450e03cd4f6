SPECIFICATION InventorySpec
CONSTANTS
  Users = {u1, u2}
  Names <- MCNames
  Silos = {"film", "chars"}
  Labels = {"a", "b"}
  None = None
  MaxAssets = 4
  MaxActs = 6
  FirstDatabases <- MCFirstDatabases
SYMMETRY Symmetric
INVARIANTS
  RoundTrip
  CalmNamesUnique
  SavedAll
CHECK_DEADLOCK FALSE
