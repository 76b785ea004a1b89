SPECIFICATION FairSpec
CONSTANTS
  Buckets = {1}
  Engines = {"MACRO"}
  Replies = {"full", "bare", "cut", "unfilled", "working", "refused", "lost"}
  FaultKinds = {"link", "agent", "saas", "ack", "abort"}
  MaxFaults = 2
INVARIANT BooksOnlyExecutions
INVARIANT OneExecutionPerProcess
PROPERTY KeepsContract
PROPERTY PendingReachesRegistered
PROPERTY UnsettledHasReason
