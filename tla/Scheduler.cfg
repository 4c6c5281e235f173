\* Two spawned tasks, one spawn() too many, and the watchdog, which may reset
\* TICKS under a sleeper.  Two sleepers are enough for swap_remove to move an
\* entry into the hole under the wake loop; the liveness properties allow no
\* more, and the theorems say what longer lists do.
CONSTANTS
  MaxTasks = 3
  SpawnRequests = 3
  MaxTicks = 4
  MaxSleep = 2
  MaxRearms = 1
SPECIFICATION FairSpec
INVARIANTS
  TypeOK
  NoLostTask
  NeverStuck
  DeadNeverRuns
  StacksOfCurrent
  NoOverdueSleeper
  QueueBounded
  BoundedBypass
PROPERTIES
  SleepReturns
  ImplementsAbstract
