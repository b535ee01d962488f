SPECIFICATION PlaylistSpec
CONSTANTS
  Campaign = {c1}
  Slot = {s1}
  Creative = {v1}
  Name = {n1}
  Content = {t1}
  Caller = {k1}
  None = none
  MaxPlays = 1
  MaxEdgeRestarts = 1
INVARIANT CachedPlaylistIsServed
CHECK_DEADLOCK FALSE
