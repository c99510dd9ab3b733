SPECIFICATION Spec
CONSTANTS
  w1 = w1
  w2 = w2
  gui = gui
  cli = cli
  feed = feed
  header = header
  Worker <- WorkerSet
  Process <- ProcessSet
  ProcessOf <- Processes
  Key <- KeySet
  FeedKey <- FeedSet
  Idle = Idle
  Raised = Raised
  Pending = Pending
  Absent = Absent
  Truncated = Truncated
  MaxVersion = 1
  MaxFiles = 3
CHECK_DEADLOCK FALSE
INVARIANTS
  ReadsAreSafe
  StaleNotServed
PROPERTY
  ImplementsContract
