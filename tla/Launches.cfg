SPECIFICATION Spec
CONSTANTS
  r1 = r1
  r2 = r2
  r3 = r3
  NoRun = NoRun
  Run <- TwoPresses
  MaxReloads = 1
INVARIANTS
  OneGameWanted
PROPERTIES
  LiveBadgeKept
  BadgeIsCleared
  NoEngineUnwatched
CHECK_DEADLOCK FALSE
