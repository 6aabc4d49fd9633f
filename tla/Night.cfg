SPECIFICATION FairSpec
CONSTANTS
  ep1 = ep1
  ep2 = ep2
  other = other
  Torrent = {ep1, other}
  Nzb = {ep2}
  Night = {ep1, ep2}
  Tv = {ep1, ep2}
  Place <- MCPlace
  Dead = {ep1}
  MaxAct = 2
  MaxFault = 1
INVARIANTS NightInv
PROPERTIES StartsAtNight TagStays HeldRuns NightComes
