SPECIFICATION HalFairSpec
CONSTANTS
  Thread = {t1, t2}
  Signal = {single, user}
INVARIANT NoLostWakeup
PROPERTY ImplementsTaskSignals
CHECK_DEADLOCK FALSE
