\* Three waiters, two of them timed.
SPECIFICATION Spec
CONSTANTS
  Threads = {t1, t2, t3}
  Timed = {t1, t2}
  InitCount = 1
  Batches = {1, 2}
  MaxReleased = 5
  MaxSpurious = 1
INVARIANTS Conservation NoLostWakeup
PROPERTIES ImplementsSemaphore
CHECK_DEADLOCK FALSE
