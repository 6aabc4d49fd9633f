SPECIFICATION FairSpec
CONSTANTS
  t1 = t1
  t2 = t2
  t3 = t3
  NoTitle = NoTitle
  Never = Never
  Title = {t1, t2}
  Sidecar = {t1}
  Hour = 3
  Dedupe = 2
  PerHour = 2
  MaxRecent = 2
  MaxTime = 3
PROPERTIES NotTwice AcceptedGetsItsTurn
