SPECIFICATION Spec
CONSTANTS
  join = join
  again = again
  say = say
  joining = joining
  saying = saying
  NoCall = NoCall
  Call <- Callers
  CommandOf <- TheirCommands
  Depth = 1
PROPERTIES
  KeepsItsPromise
  EveryCallEnds
CHECK_DEADLOCK FALSE
