SPECIFICATION FairSpec
CONSTANTS
  promoter = promoter
  clamav = clamav
  Unit = {promoter}
  Scope = {clamav}
  Oneshot = {}
  After = 1
  MaxFault = 2
INVARIANTS FixInv
PROPERTIES SettingsComeBack
