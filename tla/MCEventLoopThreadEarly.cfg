SPECIFICATION Spec
CONSTANTS
  Owner = owner
  Functors = {f1, f2}
  Channels = {c1}
  wakeupChannel = wakeupChannel
  NoFunctor = NoFunctor
  OwnerWaits = FALSE
CHECK_DEADLOCK FALSE
PROPERTIES DestructorReturns
