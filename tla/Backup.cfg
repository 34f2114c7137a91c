SPECIFICATION FairSpec
CONSTANTS
  x1 = x1
  x2 = x2
  Transfer = {x1, x2}
  Slots = 2
  Helper = Helper
  Nobody = Nobody
INVARIANTS
  BackupInv
  RestoreIsSound
PROPERTIES
  ArchiveIsOneMoment
  BackupEventuallyDone
CHECK_DEADLOCK FALSE
