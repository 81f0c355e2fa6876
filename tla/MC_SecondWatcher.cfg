SPECIFICATION WatcherSpec
CONSTANTS
  Watchers = {w1, w2}
  Owners = {o1}
  NoOwner = none
  Untold = untold
  MaxSignals = 2
INVARIANT
  EveryoneIsTold
