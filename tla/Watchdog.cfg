SPECIFICATION WatchFairSpec
CONSTANTS
  Item = {pack}
  IdMatched = {pack}
  Event = {wrong, fixed, broken}
  Manual = {wrong}
  Broken = {broken}
  DigestMax = 1
  MaxWatchAct = 2
  MaxWatchFault = 1
INVARIANTS OnceTold ImportOnce EventsKept
PROPERTY ToldInTheEnd
