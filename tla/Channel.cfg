SPECIFICATION ChannelSpec
CONSTANTS
  Threads = {t1, t2}
  Consumers = {c1, c2}
  Filtered = {c1}
  Wanted = {1, 3}
  MaxMessages = 3
  NoThread = NoThread
INVARIANTS
  WalkIsStable
  UsedConsumerLives
  NoGapsNoDuplicates
CHECK_DEADLOCK FALSE
