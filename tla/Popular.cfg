SPECIFICATION Spec
CONSTANTS
  ann = ann
  bob = bob
  film = film
  show = show
  t1 = t1
  t2 = t2
  timer = timer
  User = {ann, bob}
  Admin = {bob}
  Title = {film, show}
  Worker = {t1, t2}
  Refresher = timer
  Limit = 1
  Days = 2
  DailyMax = 1
  RowId = {1, 2, 3}
  MaxReq = 2
  MaxFault = 1
  None = None
INVARIANTS PopInv CapsHold OncePerUser
PROPERTIES OriginsGrow
SYMMETRY Workers
