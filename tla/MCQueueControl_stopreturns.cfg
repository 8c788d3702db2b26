CONSTANTS
  t1 = t1
  r1 = r1
  r2 = r2
  w1 = w1
  w2 = w2
  n1 = n1
  n2 = n2
  NoOne = NoOne
  TxQueues = {t1}
  OnDemand = {t1}
  PeerQueues = {}
  RxQueues = {r1}
  RssQueues = {}
  Workers = {w1}
  Nbls = {n1}
SPECIFICATION FairSpec
PROPERTIES StopReturns
CHECK_DEADLOCK FALSE
