SPECIFICATION MoverFairSpec
CONSTANTS
  series = series
  film = film
  pinned = pinned
  s1 = s1
  s2 = s2
  None = None
  Unit = {series, film, pinned}
  Ssd = {s1, s2}
  Pinned = {pinned}
  Files <- MCFiles
  Played <- MCPlayed
  Added <- MCAdded
  StartUsed = 3
  Target = 1
  Fallback = 4
  IdleAge = 2
  FallbackAge = 1
  MaxMove = 3
  HddRoom = 3
  Deadline = 8
  LockWait = 1
  Slow = 2
  MaxAct = 1
  MaxFault = 1
INVARIANTS EndsInTime
PROPERTIES ReserveKept RecentStays SpaceIsMade
