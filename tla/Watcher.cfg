SPECIFICATION FairSpec
CONSTANTS
  window = window
  update = update
  translate = translate
  mover = mover
  apt = apt
  backup = backup
  anacron = anacron
  Unit = {window, update, translate}
  Window = window
  Mover = {mover}
  Apt = {apt}
  Guest = {anacron}
  Listed = {mover, anacron}
  Oneshot = {update, translate, mover}
  MaxStarts = 2
  MaxFault = 2
  Limit = 2
  MaxMishap = 1
INVARIANTS HoldStands NoOrphanHold
PROPERTIES SleepsOnlyAfterCalm HoldersStayUp SleepsWhenLeftAlone
