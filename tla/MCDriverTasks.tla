--------------------------- MODULE MCDriverTasks ---------------------------
(***************************************************************************)
(* What an execution context owes to those who use it: the clients with    *)
(* poll functions, and the tasks of client drivers. A behaviour exercises  *)
(* one of the two, chosen at the start; the other stays in its initial     *)
(* state, in which nothing of it has to go on.                             *)
(***************************************************************************)
EXTENDS MCExecutionContext, NxExecutionContextTask

VARIABLE component

bothVars == <<component, vars, taskVars>>

BothInit ==
  /\ component \in {"context", "task"}
  /\ Init /\ TaskInit

BothNext ==
  \/ component = "context" /\ Next /\ UNCHANGED <<component, taskVars>>
  \/ component = "task" /\ TaskNext /\ UNCHANGED <<component, vars>>

FairBoth == BothInit /\ [][BothNext]_bothVars /\ Fairness /\ TaskFairness
=============================================================================
