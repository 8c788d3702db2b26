CONSTANTS
  t1 = t1
  r1 = r1
  r2 = r2
  w1 = w1
  w2 = w2
  n1 = n1
  n2 = n2
  NoOne = NoOne
  TxQueues = {t1}
  OnDemand = {t1}
  PeerQueues = {t1}
  RxQueues = {r1}
  RssQueues = {r2}
  Workers = {w1, w2}
  Nbls = {n1, n2}
SPECIFICATION Spec
INVARIANTS QueuesCancelledBeforeStop
SYMMETRY Symmetry
CHECK_DEADLOCK FALSE
