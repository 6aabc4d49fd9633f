SPECIFICATION ScanFairSpec
CONSTANTS
  film = film
  upgrade = upgrade
  File = {film, upgrade}
  Infected = {film}
  Media = {film}
  MaxScanFault = 1
  MaxMoves = 2
INVARIANTS ScanInv
PROPERTIES OnlyHitsTaken InfectedLeave
