\* One client, one processor, every value of the runtime knobs, under fairness;
\* two threads of a driver that never enqueues an unfinished task.
CONSTANTS
  c1 = c1
  p1 = p1
  Clients = {c1}
  PollType <- SameType
  Cpus = {p1}
  WorkerThread = WorkerThread
  DpcKnob = {TRUE, FALSE}
  DispatchKnob = {TRUE, FALSE}
  Affinities = {}
  MaxWork <- TwoItems
  d1 = d1
  d2 = d2
  Callers = {d1, d2}
  Worker = Worker
  RequeueUnfinished = FALSE
SPECIFICATION FairBoth
INVARIANTS ReferencesMatch CompletedMeansFinished NoRunAfterDelete
PROPERTIES CallsReturn ClientsAreServed DeletionEnds
