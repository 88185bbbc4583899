SPECIFICATION Spec
CONSTANTS
  Strand = strand
  Loop = loop
  Queue = queue
  Threads = {strand, loop}
  Consumers = {queue}
  Filtered = {}
  Wanted = {}
  MaxMessages = 3
  NoThread = NoThread
INVARIANTS ThreadSafe
CHECK_DEADLOCK FALSE
