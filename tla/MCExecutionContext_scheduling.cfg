\* Two clients with polls of two types, traffic for one of them, two processors,
\* every value of the runtime knobs, affinity changes at any time and Destroy.
CONSTANTS
  c1 = c1
  c2 = c2
  a1 = a1
  a2 = a2
  p1 = p1
  p2 = p2
  Clients = {c1, c2}
  PollType <- TwoTypes
  Cpus = {p1, p2}
  WorkerThread = WorkerThread
  DpcKnob = {TRUE, FALSE}
  DispatchKnob = {TRUE, FALSE}
  Affinities = {a1, a2}
  MaxWork <- EarlyItems
SPECIFICATION Spec
INVARIANTS Serialized WakeUpMatchesState StoppedHasNoWork LastAffinityApplies CleanTermination NothingAfterUnregister
PROPERTIES ListsStableWhilePolling
SYMMETRY Symmetry
CONSTRAINT Bounds
