SPECIFICATION Spec
CONSTANTS
  Owner = owner
  Functors = {f1, f2}
  Channels = {c1}
  wakeupChannel = wakeupChannel
  NoFunctor = NoFunctor
  OwnerWaits = TRUE
CHECK_DEADLOCK FALSE
INVARIANTS TypeOK StartedLoopLives MutexOutlivesThread
PROPERTIES StartReturns DestructorReturns
