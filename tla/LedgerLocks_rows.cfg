SPECIFICATION Spec
CONSTANTS
  a = a  b = b  a1 = a1  a2 = a2  ra1 = ra1  ra2 = ra2
  s1 = s1  s2 = s2  qa = qa  oa = oa
  Untouched = Untouched
  Instances = {a, b}
  Ticks = {a1, a2}
  Reports = {ra1, ra2}
  Snapshots = {s1, s2}
  Requests = {qa}
  Orders = {oa}
  InstanceOf <- MCInstanceOf
  BarOf <- MCBarOf
  OrderOf <- MCOrderOf
  TargetOf <- MCTargetOf
  Filled = {ra1}
  WithBalance = {ra1}
INVARIANT KnownDeadlocks
PROPERTIES TakesEffectAtOnce
