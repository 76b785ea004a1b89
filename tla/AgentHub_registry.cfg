SPECIFICATION HubFairSpec
CONSTANTS
  Conns = {c1, c2}
  Senders = {s1, s2}
  MaxSends = 3
  NoConn = NoConn
INVARIANT NoDeadEntry
PROPERTY DeadEntryGoes
PROPERTY ReplacedEnds
