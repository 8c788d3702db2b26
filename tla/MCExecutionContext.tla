------------------------ MODULE MCExecutionContext ------------------------
(***************************************************************************)
(* Model checking of ExecutionContext.  The definitions give the constant  *)
(* functions that a .cfg cannot write.                                     *)
(***************************************************************************)
EXTENDS ExecutionContext, FiniteSets

\* All clients have the type ExecutionContextPollTypeAdvance, as all translator
\* queues do.
SameType == [c \in Clients |-> 4000]

\* One client polls before the others, as an IHV driver's EvtPreAdvance does.
Early == CHOOSE c \in Clients : TRUE
TwoTypes == [c \in Clients |-> IF c = Early THEN 2000 ELSE 4000]

EarlyItems == [c \in Clients |-> IF c = Early THEN 2 ELSE 0]
TwoItems   == [c \in Clients |-> 2]

\* While the second client is there, the first has no traffic and nobody has set
\* an affinity; while either is so, one processor at a time runs DPCs.
OneProcessor == Cardinality({p \in Cpus : pc[p] # "idle"}) <= 1
OneClient == \A c \in Clients \ {Early} : stage[c] = "destroyed" /\ call[c] = "none"
Bounds ==
  \/ OneClient /\ (affinity.requested = Unset \/ OneProcessor)
  \/ /\ work[Early] = 0 /\ producer[Early] = "idle"
     /\ affinity.requested = Unset /\ OneProcessor

\* Processors are interchangeable, and so are the affinities to set.
Symmetry == Permutations(Cpus) \cup Permutations(Affinities)
===========================================================================
