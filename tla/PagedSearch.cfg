\* Three units, one edit.
CONSTANTS
  Subjects = {"catalog", "resources", "flows"}
  Listings <- MCListings
  Covers = {a, b, Nothing}
  Nothing = Nothing
  a = a
  b = b
  Limits = {1, 2, 9}
  MinItems = {0, 1, 2}
  NoSize <- MCNoSize
  Sizes <- MCSizes
  MaxEdits = 1
SPECIFICATION PagesSpec
INVARIANTS
  PagesSound
PROPERTIES
  PagesEnd
CHECK_DEADLOCK FALSE
