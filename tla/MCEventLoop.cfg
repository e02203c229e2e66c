SPECIFICATION Spec
CONSTANTS
  Threads = {t1, t2}
  Functors = {f1, f2, f3}
  Channels = {c1}
  wakeupChannel = wakeupChannel
  NoFunctor = NoFunctor
  QueueOutsideLoop = FALSE
  MaxDepth = 2
INVARIANTS TypeOK NoLostWakeup QuitWakesLoop
PROPERTIES ServesQueue IONotStarved QuitEndsLoop
