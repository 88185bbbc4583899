SPECIFICATION Spec
CONSTANTS
  Strand = strand
  Loop = loop
  Queue = queue
  Threads = {strand, loop}
  Consumers = {queue}
  Filtered = {}
  Wanted = {}
  MaxMessages = 3
  NoThread = NoThread
INVARIANTS
  NoDanglingListener
  NothingReceivedIsLost
PROPERTY LostClientIsErased
CHECK_DEADLOCK FALSE
