SPECIFICATION Spec
CONSTANTS
  Buckets = {1}
  Engines = {"MACRO"}
  Replies = {"full"}
  FaultKinds = {"agent"}
  MaxFaults = 1
INVARIANT ExecutedAtMostOnce
