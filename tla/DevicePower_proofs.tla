-------------------------- MODULE DevicePower_proofs --------------------------
(****************************************************************************)
(* Proofs about DevicePower, for any set of threads that invoke powered     *)
(* callbacks: what the state machine framework does with the tables of the  *)
(* data path machine and of the reset machine; the invariant of the data    *)
(* path machine and its callers, of the PnP thread and of the power         *)
(* callbacks; the refinement of Datapath; and, for any finite number of     *)
(* threads that ask for a reset, what the removal of the device waits for.  *)
(****************************************************************************)
EXTENDS DevicePower, SequenceTheorems, FiniteSetTheorems, TLAPS

-----------------------------------------------------------------------------
(* The framework. *)

\* A machine with nothing unhandled, and one in one state.
On(stack, op, queue) ==
  [stack |-> stack, queue |-> queue, op |-> op, unhandled |-> {}]
At(state, op, queue) == On(<<state>>, op, queue)

\* The only element of a set is the one The chooses.
LEMMA TheOnly == ASSUME NEW x PROVE The({x}) = x
  BY DEF The

\* An event that the only state on the stack has an external transition for is
\* taken by that state.
LEMMA OneTaker ==
  ASSUME NEW M, NEW state, NEW e,
         state \in DOMAIN M.external, e \in DOMAIN M.external[state]
  PROVE  Takers(M, <<state>>, e) = {1} /\ Taker(M, <<state>>, e) = {1}
<1>1. Takers(M, <<state>>, e) = {1}
  BY DEF Takers, Row
<1> QED
  BY <1>1 DEF Taker

\* The states that a machine without submachines enters.
Plain(M, state) == ~IsCall(M, state) /\ state \notin DOMAIN M.purge

\* It enters a state of its only level.
LEMMA Enters ==
  ASSUME NEW M, NEW stack, NEW queue, NEW op, NEW goal, Plain(M, goal)
  PROVE  Enter(M, On(stack, op, queue), <<>>, goal) = At(goal, OpOf(M, goal), queue)
<1> DEFINE m == On(stack, op, queue)
<1>1. Purged(M, m.queue, goal) = queue /\ m.unhandled = {}
  BY DEF Plain, Purged, On
<1>2. Append(<<>>, goal) = <<goal>>
  OBVIOUS
<1> QED
  BY <1>1, <1>2 DEF Plain, Enter, At, On

\* An event enqueued at a machine that has none.
WithQueue(m, queue) == [m EXCEPT !.queue = queue]

\* A machine with another queue.
LEMMA WithQueueOn ==
  ASSUME NEW stack, NEW op, NEW queue, NEW x
  PROVE  WithQueue(On(stack, op, queue), x) = On(stack, op, x)
  BY DEF WithQueue, On

Longer(queue, e) == Append(queue, e)

\* Enqueueing an event makes the queue longer, and nothing else.
LEMMA Enqueues ==
  ASSUME NEW stack, NEW op, NEW queue, NEW e
  PROVE  Enqueued(On(stack, op, queue), e) = On(stack, op, Longer(queue, e))
<1> DEFINE m == On(stack, op, queue)
<1>1. m.queue = queue
  BY DEF On
<1>2. Enqueued(m, e) = WithQueue(m, Longer(m.queue, e))
  BY DEF Enqueued, WithQueue, Longer
<1> QED
  BY <1>1, <1>2, WithQueueOn

\* The first event of a queue.
LEMMA EnqueuesFirst ==
  ASSUME NEW state, NEW op, NEW e
  PROVE  Enqueued(At(state, op, <<>>), e) = At(state, op, <<e>>)
<1>1. Longer(<<>>, e) = <<e>>
  BY DEF Longer
<1> QED
  BY <1>1, Enqueues DEF At

\* It takes the machine to the goal.
LEMMA LeavesTo ==
  ASSUME NEW M, NEW state, NEW op, NEW queue, NEW e,
         state \in DOMAIN M.external, e \in DOMAIN M.external[state],
         Plain(M, M.external[state][e])
  PROVE  Leave(M, At(state, op, queue), e)
           = At(M.external[state][e], OpOf(M, M.external[state][e]), queue)
<1> DEFINE m == At(state, op, queue)
           goal == M.external[state][e]
<1>1. m.stack = <<state>>
  BY DEF At, On
<1>2. SubSeq(m.stack, 1, 1 - 1) = <<>> /\ m.stack[1] = state
  BY <1>1
<1>3. LeaveFrom(M, m, e, 1) = Enter(M, m, <<>>, goal)
  <2> HIDE DEF m
  <2> QED
    BY <1>2 DEF LeaveFrom, Row
<1>4. Enter(M, m, <<>>, goal) = At(goal, OpOf(M, goal), queue)
  BY Enters DEF At
<1>5. {LeaveFrom(M, m, e, i) : i \in Taker(M, m.stack, e)} = {LeaveFrom(M, m, e, 1)}
  BY <1>1, OneTaker
<1> QED
  BY <1>3, <1>4, <1>5, TheOnly DEF Leave

\* A machine that rests takes the first event of its queue if it defers none.
LEMMA DequeuesHead ==
  ASSUME NEW M, NEW stack, NEW S, NEW queue \in Seq(S), queue # <<>>, M.deferred = <<>>
  PROVE  Dequeued(M, On(stack, NoOp, queue))
           = Handled(M, On(stack, NoOp, Tail(queue)), Head(queue))
<1> DEFINE m == On(stack, NoOp, queue)
           first == {k \in Ready(M, m) : \A j \in Ready(M, m) : k <= j}
<1>1. Without(m, 1) = On(stack, NoOp, Tail(queue))
  <2>1. SubSeq(queue, 1, 1 - 1) \o SubSeq(queue, 1 + 1, Len(queue)) = Tail(queue)
    OBVIOUS
  <2>2. Without(m, 1) = [m EXCEPT !.unhandled = {}, !.queue = Tail(queue)]
    BY <2>1 DEF Without, On
  <2> QED
    BY <2>2 DEF On
<1>2. Ready(M, m) = 1 .. Len(queue) /\ Len(queue) \in Nat /\ Len(queue) > 0
  BY DEF Ready, On, Listed
<1>3. first = {1}
  <2>1. \A n \in Nat : n > 0 => {k \in 1 .. n : \A j \in 1 .. n : k <= j} = {1}
    OBVIOUS
  <2> QED
    BY <1>2, <2>1
<1>4. m.queue[1] = Head(queue)
  BY DEF On
<1>5. {<<Without(m, k), m.queue[k]>> : k \in first} = {<<Without(m, 1), Head(queue)>>}
  BY <1>3, <1>4
<1>6. {Handled(M, taken[1], taken[2]) : taken \in {<<Without(m, 1), Head(queue)>>}}
        = {Handled(M, Without(m, 1), Head(queue))}
  OBVIOUS
<1> QED
  BY <1>1, <1>5, <1>6, TheOnly DEF Dequeued

Cleared(m) == [m EXCEPT !.unhandled = {}]

\* There is nothing to clear.
LEMMA NothingUnhandled ==
  ASSUME NEW stack, NEW op, NEW queue
  PROVE  Cleared(On(stack, op, queue)) = On(stack, op, queue)
  BY DEF Cleared, On

\* A machine that ends is as before it was initialized.
LEMMA Destroys ==
  ASSUME NEW stack, NEW op, NEW queue
  PROVE  Destroyed(On(stack, op, queue)) = On(<<>>, NoOp, <<>>)
<1>1. On(stack, op, queue).unhandled = {}
  BY DEF On
<1>2. NotInitialized = On(<<>>, NoOp, <<>>)
  BY DEF On, NotInitialized
<1>3. Destroyed(On(stack, op, queue)) = Cleared(NotInitialized)
  BY <1>1 DEF Destroyed, Cleared
<1> QED
  BY <1>2, <1>3, NothingUnhandled

\* A machine that rests takes the first event that it was sent, if its state has an external
\* transition for it.
LEMMA TakesTo ==
  ASSUME NEW M, NEW state, NEW e, NEW S, NEW queue \in Seq(S),
         queue # <<>>, Head(queue) = e,
         state \in DOMAIN M.external, e \in DOMAIN M.external[state],
         Plain(M, M.external[state][e]),
         M.internal = <<>>, M.deferred = <<>>
  PROVE  Cleared(Dequeued(M, At(state, NoOp, queue)))
           = At(M.external[state][e], OpOf(M, M.external[state][e]), Tail(queue))
<1> DEFINE m == At(state, NoOp, Tail(queue))
           goal == M.external[state][e]
<1>1. Dequeued(M, At(state, NoOp, queue)) = Handled(M, m, e)
  BY DequeuesHead DEF At
<1>2. Takers(M, <<state>>, e) = {1} /\ Taker(M, <<state>>, e) = {1} /\ m.stack = <<state>>
  BY OneTaker DEF At, On
<1>3. ~(\E i \in Taker(M, <<state>>, e) : e \in DOMAIN Row(M.internal, <<state>>[i]))
  BY DEF Row
<1>4. Handled(M, m, e) = Leave(M, m, e)
  BY <1>2, <1>3 DEF Handled
<1>5. Leave(M, m, e) = At(goal, OpOf(M, goal), Tail(queue))
  BY LeavesTo
<1> QED
  BY <1>1, <1>4, <1>5, NothingUnhandled DEF At

\* One that its state has a pop transition for, and no other, ends it.
LEMMA TakesEnd ==
  ASSUME NEW M, NEW state, NEW e,
         state \in DOMAIN M.pop, e \in DOMAIN M.pop[state], e \notin DOMAIN Row(M.external, state),
         M.internal = <<>>, M.deferred = <<>>
  PROVE  Cleared(Dequeued(M, At(state, NoOp, <<e>>))) = NotInitialized
<1> DEFINE m == At(state, NoOp, <<>>)
<1>1. Dequeued(M, At(state, NoOp, <<e>>)) = Handled(M, m, e)
  <2>1. <<e>> \in Seq({e}) /\ <<e>> # <<>> /\ Tail(<<e>>) = <<>> /\ Head(<<e>>) = e
    OBVIOUS
  <2> QED
    BY <2>1, DequeuesHead DEF At, On
<1>2. m.stack = <<state>>
  BY DEF At, On
<1>3. Takers(M, <<state>>, e) = {1}
  BY DEF Takers, Row
<1>4. Taker(M, <<state>>, e) = {1}
  BY <1>3 DEF Taker
<1>5. ~(\E i \in Taker(M, <<state>>, e) : e \in DOMAIN Row(M.internal, <<state>>[i]))
  BY DEF Row
<1>6. Handled(M, m, e) = Leave(M, m, e)
  BY <1>2, <1>3, <1>4, <1>5 DEF Handled
<1>7. SubSeq(m.stack, 1, 1 - 1) = <<>> /\ m.stack[1] = state
  BY <1>2
<1>8. LeaveFrom(M, m, e, 1) = Destroyed(m)
  <2> HIDE DEF m
  <2> QED
    BY <1>7 DEF LeaveFrom
<1>9. {LeaveFrom(M, m, e, i) : i \in Taker(M, m.stack, e)} = {Destroyed(m)}
  BY <1>2, <1>4, <1>8
<1>10. Leave(M, m, e) = Destroyed(m)
  BY <1>9, TheOnly DEF Leave
<1>11. Destroyed(m) = On(<<>>, NoOp, <<>>)
  BY Destroys DEF At
<1> QED
  BY <1>1, <1>6, <1>10, <1>11, NothingUnhandled DEF NotInitialized, On

\* An operation of a synchronous state returns.
LEMMA ReturnsTo ==
  ASSUME NEW M, NEW state, NEW op, NEW queue, NEW e,
         state \in DOMAIN M.external, e \in DOMAIN M.external[state],
         Plain(M, M.external[state][e]),
         ~IsCall(M, state), M.states[state] # "Async"
  PROVE  Returned(M, At(state, op, queue), e)
           = At(M.external[state][e], OpOf(M, M.external[state][e]), queue)
<1>1. Current(At(state, op, queue)) = state
  BY DEF Current, At, On
<1>2. Returned(M, At(state, op, queue), e) = Leave(M, At(state, op, queue), e)
  BY <1>1 DEF Returned
<1>3. Leave(M, At(state, op, queue), e)
        = At(M.external[state][e], OpOf(M, M.external[state][e]), queue)
  BY LeavesTo
<1> QED
  BY <1>2, <1>3

\* An operation of an asynchronous state leaves the machine at rest.
LEMMA ReturnsToRest ==
  ASSUME NEW M, NEW state, NEW op, NEW queue, M.states[state] = "Async", NEW e
  PROVE  Returned(M, At(state, op, queue), e) = At(state, NoOp, queue)
  BY DEF Returned, Current, At, On

-----------------------------------------------------------------------------
(* The tables of the data path machine. *)

Resting == {"Halted", "AdapterPaused", "AdapterRestarted", "DatapathPaused", "DatapathRunning"}

\* The operation of a state, and what it takes from there.
LEMMA DatapathOperations ==
  LET Op(state) == OpOf(DatapathTables, state)
  IN /\ \A state \in Resting : Op(state) = "AsyncTransitionComplete"
     /\ Op("AdapterPauseComplete") = "DatapathPauseComplete"
     /\ Op("AdapterRestartComplete") = "DatapathRestartComplete"
     /\ Op("DatapathPausedCreating") = "DatapathCreate"
     /\ Op("DatapathRestartedCreating") = "DatapathCreate"
     /\ Op("DatapathPausedDestroying") = "DatapathDestroy"
     /\ Op("DatapathRestartDestroying") = "DatapathDestroy"
     /\ Op("DatapathPausedStarting") = "DatapathStartRestartComplete"
     /\ Op("DatapathPauseStopping") = "DatapathStopPauseComplete"
     /\ Op("DatapathRestartedStarting") = "DatapathStart"
     /\ Op("DatapathRestartStopping") = "DatapathStop"
     /\ Op("Halting") = "NdisHalt"
  BY SMT
  DEF OpOf, Resting, DatapathTables, DatapathMachine!Machine,
      DatapathMachine!EntryFuncs,
       DatapathMachine!PausedEntries, DatapathMachine!RunningEntries,
          DatapathMachine!Rows

Transient == {"AdapterPauseComplete", "AdapterRestartComplete", "DatapathPausedCreating",
              "DatapathRestartedCreating", "DatapathPausedDestroying",
              "DatapathRestartDestroying", "DatapathPausedStarting", "DatapathPauseStopping",
              "DatapathRestartedStarting", "DatapathRestartStopping", "Halting"}

\* The states that complete a transition wait for events; all others go on at once.
LEMMA DatapathKinds ==
  /\ \A state \in Resting \cup Transient : Plain(DatapathTables, state)
  /\ \A state \in Resting : DatapathTables.states[state] = "Async"
  /\ \A state \in Transient : DatapathTables.states[state] = "Sync"
  /\ DatapathTables.internal = <<>> /\ DatapathTables.deferred = <<>>
<1>1. /\ DatapathTables.submachines = [NxAdapter |-> "Halted"]
      /\ DatapathTables.purge = <<>>
      /\ DatapathTables.internal = <<>> /\ DatapathTables.deferred = <<>>
  BY DEF DatapathTables, DatapathMachine!Machine, DatapathMachine!Submachines,
       DatapathMachine!PurgeEvents, DatapathMachine!InternalTransitions,
       DatapathMachine!DeferredEvents
<1>2. /\ \A state \in Resting : DatapathTables.states[state] = "Async"
      /\ \A state \in Transient : DatapathTables.states[state] = "Sync"
  BY SMT DEF Resting, Transient, DatapathTables, DatapathMachine!Machine,
       DatapathMachine!States, DatapathMachine!PausedStates,
          DatapathMachine!RunningStates,
       DatapathMachine!Rows
<1> QED
  BY <1>1, <1>2 DEF Plain, IsCall

\* The machine in state takes e, and goes to goal.
Goes(state, e, goal) ==
  /\ state \in DOMAIN DatapathTables.external
  /\ e \in DOMAIN DatapathTables.external[state]
  /\ DatapathTables.external[state][e] = goal

\* The rows of the table of external transitions.
LEMMA DatapathGoes ==
  /\ Goes("Halted", "NdisMiniportInitializeEx", "AdapterPaused")
  /\ Goes("AdapterPaused", "NdisMiniportHalt", "Halting")
  /\ Goes("AdapterPaused", "DatapathCreate", "DatapathPausedCreating")
  /\ Goes("AdapterPaused", "NdisMiniportRestart", "AdapterRestartComplete")
  /\ Goes("AdapterRestarted", "DatapathCreate", "DatapathRestartedCreating")
  /\ Goes("AdapterRestarted", "NdisMiniportPause", "AdapterPauseComplete")
  /\ Goes("DatapathPaused", "DatapathDestroy", "DatapathPausedDestroying")
  /\ Goes("DatapathPaused", "NdisMiniportRestart", "DatapathPausedStarting")
  /\ Goes("DatapathRunning", "DatapathDestroy", "DatapathRestartStopping")
  /\ Goes("DatapathRunning", "NdisMiniportPause", "DatapathPauseStopping")
  /\ Goes("AdapterPauseComplete", "SyncSuccess", "AdapterPaused")
  /\ Goes("AdapterRestartComplete", "SyncSuccess", "AdapterRestarted")
  /\ Goes("DatapathPausedCreating", "SyncSuccess", "DatapathPaused")
  /\ Goes("DatapathRestartedCreating", "SyncSuccess", "DatapathRestartedStarting")
  /\ Goes("DatapathPausedDestroying", "SyncSuccess", "AdapterPaused")
  /\ Goes("DatapathRestartDestroying", "SyncSuccess", "AdapterRestarted")
  /\ Goes("DatapathPausedStarting", "SyncSuccess", "DatapathRunning")
  /\ Goes("DatapathPauseStopping", "SyncSuccess", "DatapathPaused")
  /\ Goes("DatapathRestartedStarting", "SyncSuccess", "DatapathRunning")
  /\ Goes("DatapathRestartStopping", "SyncSuccess", "DatapathRestartDestroying")
  /\ Goes("Halting", "SyncSuccess", "Halted")
<1>1. /\ Goes("Halted", "NdisMiniportInitializeEx", "AdapterPaused")
      /\ Goes("AdapterPaused", "NdisMiniportHalt", "Halting")
      /\ Goes("AdapterPaused", "DatapathCreate", "DatapathPausedCreating")
      /\ Goes("AdapterPaused", "NdisMiniportRestart", "AdapterRestartComplete")
  BY SMT
  DEF Goes, DatapathTables, DatapathMachine!Machine,
      DatapathMachine!ExternalTransitions,
         DatapathMachine!PausedTransitions, DatapathMachine!RunningTransitions,
         DatapathMachine!Rows, DatapathMachine!Done
<1>2. /\ Goes("AdapterRestarted", "DatapathCreate", "DatapathRestartedCreating")
      /\ Goes("AdapterRestarted", "NdisMiniportPause", "AdapterPauseComplete")
      /\ Goes("DatapathPaused", "DatapathDestroy", "DatapathPausedDestroying")
      /\ Goes("DatapathPaused", "NdisMiniportRestart", "DatapathPausedStarting")
  BY SMT
  DEF Goes, DatapathTables, DatapathMachine!Machine,
      DatapathMachine!ExternalTransitions,
         DatapathMachine!PausedTransitions, DatapathMachine!RunningTransitions,
         DatapathMachine!Rows, DatapathMachine!Done
<1>3. /\ Goes("DatapathRunning", "DatapathDestroy", "DatapathRestartStopping")
      /\ Goes("DatapathRunning", "NdisMiniportPause", "DatapathPauseStopping")
      /\ Goes("AdapterPauseComplete", "SyncSuccess", "AdapterPaused")
      /\ Goes("AdapterRestartComplete", "SyncSuccess", "AdapterRestarted")
  BY SMT
  DEF Goes, DatapathTables, DatapathMachine!Machine,
      DatapathMachine!ExternalTransitions,
         DatapathMachine!PausedTransitions, DatapathMachine!RunningTransitions,
         DatapathMachine!Rows, DatapathMachine!Done
<1>4. /\ Goes("DatapathPausedCreating", "SyncSuccess", "DatapathPaused")
      /\ Goes("DatapathRestartedCreating", "SyncSuccess", "DatapathRestartedStarting")
      /\ Goes("DatapathPausedDestroying", "SyncSuccess", "AdapterPaused")
      /\ Goes("DatapathRestartDestroying", "SyncSuccess", "AdapterRestarted")
  BY SMT
  DEF Goes, DatapathTables, DatapathMachine!Machine,
      DatapathMachine!ExternalTransitions,
         DatapathMachine!PausedTransitions, DatapathMachine!RunningTransitions,
         DatapathMachine!Rows, DatapathMachine!Done
<1>5. /\ Goes("DatapathPausedStarting", "SyncSuccess", "DatapathRunning")
      /\ Goes("DatapathPauseStopping", "SyncSuccess", "DatapathPaused")
      /\ Goes("DatapathRestartedStarting", "SyncSuccess", "DatapathRunning")
      /\ Goes("DatapathRestartStopping", "SyncSuccess", "DatapathRestartDestroying")
  BY SMT
  DEF Goes, DatapathTables, DatapathMachine!Machine,
      DatapathMachine!ExternalTransitions,
         DatapathMachine!PausedTransitions, DatapathMachine!RunningTransitions,
         DatapathMachine!Rows, DatapathMachine!Done
<1>6. /\ Goes("Halting", "SyncSuccess", "Halted")
  BY SMT
  DEF Goes, DatapathTables, DatapathMachine!Machine,
      DatapathMachine!ExternalTransitions,
         DatapathMachine!PausedTransitions, DatapathMachine!RunningTransitions,
         DatapathMachine!Rows, DatapathMachine!Done
<1> QED
  BY <1>1, <1>2, <1>3, <1>4, <1>5, <1>6

-----------------------------------------------------------------------------
(* The invariant of the data path machine and of its two callers.           *)

\* The resting state that ends what the machine is doing.
GoalOf(state) ==
  CASE state \in {"Halting", "Halted"} -> "Halted"
    [] state \in {"AdapterPauseComplete", "DatapathPausedDestroying", "AdapterPaused"} ->
         "AdapterPaused"
    [] state \in {"AdapterRestartComplete", "DatapathRestartStopping",
                  "DatapathRestartDestroying", "AdapterRestarted"} -> "AdapterRestarted"
    [] state \in {"DatapathPausedCreating", "DatapathPauseStopping", "DatapathPaused"} ->
         "DatapathPaused"
    [] OTHER -> "DatapathRunning"

\* An event takes the machine from one resting state to another.
Turns(state, e, goal) ==
  \/ state = "Halted" /\ e = "NdisMiniportInitializeEx" /\ goal = "AdapterPaused"
  \/ state = "AdapterPaused" /\ e = "NdisMiniportHalt" /\ goal = "Halted"
  \/ state = "AdapterPaused" /\ e = "DatapathCreate" /\ goal = "DatapathPaused"
  \/ state = "AdapterRestarted" /\ e = "DatapathCreate" /\ goal = "DatapathRunning"
  \/ state = "DatapathPaused" /\ e = "DatapathDestroy" /\ goal = "AdapterPaused"
  \/ state = "DatapathRunning" /\ e = "DatapathDestroy" /\ goal = "AdapterRestarted"
  \/ state = "AdapterPaused" /\ e = "NdisMiniportRestart" /\ goal = "AdapterRestarted"
  \/ state = "DatapathPaused" /\ e = "NdisMiniportRestart" /\ goal = "DatapathRunning"
  \/ state = "AdapterRestarted" /\ e = "NdisMiniportPause" /\ goal = "AdapterPaused"
  \/ state = "DatapathRunning" /\ e = "NdisMiniportPause" /\ goal = "DatapathPaused"

\* At most two events wait for the machine; they lead it to a last resting state.
Leads(state, queue, final) ==
  \/ queue = <<>> /\ final = state
  \/ \E e : queue = <<e>> /\ Turns(state, e, final)
  \/ \E e, f, between :
       queue = <<e, f>> /\ Turns(state, e, between) /\ Turns(between, f, final)

\* NDIS has been told that the miniport is restarted, and knows what it has asked for.
ToldIn(state) ==
  state \in {"AdapterRestarted", "DatapathRunning", "AdapterPauseComplete",
             "DatapathPauseStopping", "DatapathRestartedCreating",
             "DatapathRestartedStarting", "DatapathRestartStopping",
             "DatapathRestartDestroying"}
MiniportIn(state, final) ==
  CASE final = "Halted" -> "halted"
    [] final \in {"AdapterRestarted", "DatapathRunning"} ->
         IF ToldIn(state) THEN "restarted" ELSE "restarting"
    [] OTHER -> IF ToldIn(state) THEN "pausing" ELSE "paused"

NoApp == [created |-> FALSE, running |-> FALSE]
PausedApp == [created |-> TRUE, running |-> FALSE]
RunningApp == [created |-> TRUE, running |-> TRUE]

\* What the app has been told when the machine has come to a state.
AppIn(state) ==
  CASE state \in {"DatapathRunning", "DatapathPauseStopping", "DatapathRestartStopping"} ->
         RunningApp
    [] state \in {"DatapathPaused", "DatapathPausedDestroying", "DatapathPausedStarting",
                  "DatapathRestartDestroying", "DatapathRestartedStarting"} -> PausedApp
    [] OTHER -> NoApp

NdisEvents == {"NdisMiniportRestart", "NdisMiniportPause"}
PnpEvents == {"NdisMiniportInitializeEx", "NdisMiniportHalt", "DatapathCreate",
              "DatapathDestroy"}
Announcing == {"AdapterPauseComplete", "AdapterRestartComplete", "DatapathPausedStarting",
               "DatapathPauseStopping"}

\* NDIS asks for one thing at a time: it waits until it is told of the last.
OneOfNdis(state, queue) ==
  /\ state \in Announcing => \A e \in NdisEvents : queue # <<e>>
  /\ \A e, f \in NdisEvents : queue # <<e, f>>

\* What the machine is doing and has to do.
Work(state, op, queue, final) ==
  /\ state \in Resting \cup Transient
  /\ op = OpOf(DatapathTables, state) \/ (state \in Resting /\ op = NoOp)
  /\ Leads(GoalOf(state), queue, final)
  /\ OneOfNdis(state, queue)

One(holds) == IF holds THEN 1 ELSE 0

\* One thread waits for each transition that is to come, is under way or has ended
\* without anybody having taken the signal.
Awaited(op, queue) ==
  Len(queue) + One(op # NoOp) + One(transitionComplete)
    <= One(waiting[Ndis] # NoOp) + One(waiting[PnpPower] # NoOp)

\* NDIS does not use a miniport that is halted or being initialized.
Alone(state, queue, final) ==
  /\ final = "Halted" => waiting[Ndis] = NoOp
  /\ waiting[PnpPower] = "NdisMiniportHalt" => final = "Halted"
  /\ waiting[PnpPower] = "NdisMiniportInitializeEx" =>
       /\ waiting[Ndis] = NoOp /\ final = "AdapterPaused"
       /\ \/ state = "Halted" /\ queue = <<"NdisMiniportInitializeEx">>
          \/ state = "AdapterPaused" /\ queue = <<>>

\* The machine, with all its events, is on its way to final.
Machine(state, op, queue, final) ==
  /\ Work(state, op, queue, final)
  /\ datapathMachine = At(state, op, queue)
  /\ miniport = MiniportIn(state, final) /\ app = AppIn(state)
  /\ Awaited(op, queue)
  /\ Alone(state, queue, final)

\* No machine, or one that is about to end.
Unborn ==
  /\ datapathMachine \in {NotInitialized, At("Halted", NoOp, <<"EvtCleanup">>)}
  /\ waiting[Ndis] = NoOp /\ waiting[PnpPower] = NoOp /\ ~transitionComplete
  /\ miniport = "halted" /\ app = NoApp

\* Who may wait for what.
WaitingType ==
  /\ waiting \in [{Ndis, PnpPower} -> NdisEvents \cup PnpEvents \cup {NoOp}]
  /\ waiting[Ndis] \in NdisEvents \cup {NoOp}
  /\ waiting[PnpPower] \in PnpEvents \cup {NoOp}
  /\ transitionComplete \in BOOLEAN

OnItsWay(final) == \E state, op, queue : Machine(state, op, queue, final)

DatapathInv(final) == WaitingType /\ (OnItsWay(final) \/ (Unborn /\ final = "Halted"))

\* The first state that an event takes the machine to.
FirstOf(state, e) ==
  CASE e = "NdisMiniportInitializeEx" -> "AdapterPaused"
    [] e = "NdisMiniportHalt" -> "Halting"
    [] e = "DatapathCreate" ->
         IF state = "AdapterPaused" THEN "DatapathPausedCreating" ELSE "DatapathRestartedCreating"
    [] e = "DatapathDestroy" ->
         IF state = "DatapathPaused" THEN "DatapathPausedDestroying" ELSE "DatapathRestartStopping"
    [] e = "NdisMiniportRestart" ->
         IF state = "AdapterPaused" THEN "AdapterRestartComplete" ELSE "DatapathPausedStarting"
    [] OTHER ->
         IF state = "AdapterRestarted" THEN "AdapterPauseComplete" ELSE "DatapathPauseStopping"

\* It is on the way to the resting state.
LEMMA Turning ==
  ASSUME NEW state, NEW e, NEW goal, Turns(state, e, goal)
  PROVE  LET first == FirstOf(state, e)
         IN  /\ Goes(state, e, first)
             /\ first \in Resting \cup Transient /\ GoalOf(first) = goal
             /\ AppIn(first) = AppIn(state) /\ (ToldIn(first) <=> ToldIn(state))
             /\ first \in Announcing <=> e \in NdisEvents
             /\ e \in NdisEvents \cup PnpEvents
             /\ state \in Resting /\ goal \in Resting /\ GoalOf(state) = state
<1>1. Goes(state, e, FirstOf(state, e))
  BY DatapathGoes DEF Turns, FirstOf
<1> QED
  BY <1>1
  DEF Turns, FirstOf, GoalOf, AppIn, ToldIn, Announcing, NdisEvents, PnpEvents, Resting, Transient

\* The machine has an operation in every state that it enters.
LEMMA EntryOperations ==
  \A state \in Resting \cup Transient : OpOf(DatapathTables, state) # NoOp
<1>1. \A state \in Resting : OpOf(DatapathTables, state) # NoOp
  BY DatapathOperations DEF NoOp
<1>2. \A state \in Transient : OpOf(DatapathTables, state) # NoOp
  BY DatapathOperations DEF NoOp, Transient
<1> QED
  BY <1>1, <1>2

\* The queues that lead somewhere.
LEMMA ShortQueue ==
  ASSUME NEW state, NEW queue, NEW final, Leads(state, queue, final)
  PROVE  /\ queue \in Seq(NdisEvents \cup PnpEvents) /\ Len(queue) \in 0 .. 2
         /\ Len(queue) = 0 => queue = <<>> /\ final = state
         /\ Len(queue) = 1 => \E e : queue = <<e>> /\ Turns(state, e, final)
         /\ final \in Resting \/ final = state
<1>1. CASE queue = <<>> /\ final = state
  <2>1. queue \in Seq(NdisEvents \cup PnpEvents) /\ Len(queue) = 0
    BY <1>1
  <2> QED
    BY <1>1, <2>1
<1>2. CASE \E e : queue = <<e>> /\ Turns(state, e, final)
  <2>1. PICK e : queue = <<e>> /\ Turns(state, e, final)
    BY <1>2
  <2>2. e \in NdisEvents \cup PnpEvents /\ final \in Resting
    BY <2>1, Turning
  <2>3. queue \in Seq(NdisEvents \cup PnpEvents) /\ Len(queue) = 1
    BY <2>1, <2>2
  <2> QED
    BY <2>1, <2>2, <2>3
<1>3. CASE \E e, f, between :
             queue = <<e, f>> /\ Turns(state, e, between) /\ Turns(between, f, final)
  <2>1. PICK e, f, between :
          queue = <<e, f>> /\ Turns(state, e, between) /\ Turns(between, f, final)
    BY <1>3
  <2>2. e \in NdisEvents \cup PnpEvents /\ f \in NdisEvents \cup PnpEvents /\ final \in Resting
    BY <2>1, Turning
  <2>3. queue \in Seq(NdisEvents \cup PnpEvents) /\ Len(queue) = 2
    BY <2>1, <2>2
  <2> QED
    BY <2>1, <2>2, <2>3
<1> QED
  BY <1>1, <1>2, <1>3 DEF Leads

\* How much can be to do, by who waits.
LEMMA WhoWaits ==
  ASSUME NEW op, NEW queue, Len(queue) \in 0 .. 2, Awaited(op, queue)
  PROVE  /\ op # NoOp => Len(queue) <= 1
         /\ waiting[Ndis] = NoOp \/ waiting[PnpPower] = NoOp =>
              /\ Len(queue) <= 1
              /\ op # NoOp => Len(queue) = 0
         /\ waiting[Ndis] = NoOp /\ waiting[PnpPower] = NoOp =>
              Len(queue) = 0 /\ op = NoOp /\ ~transitionComplete
<1>1. \A holds : One(holds) \in {0, 1} /\ (holds => One(holds) = 1) /\ (~holds => One(holds) = 0)
  BY DEF One
<1>2. PICK a, b, c, d \in {0, 1} :
        /\ Len(queue) + a + b <= c + d
        /\ op # NoOp => a = 1
        /\ transitionComplete => b = 1
        /\ waiting[Ndis] = NoOp => c = 0
        /\ waiting[PnpPower] = NoOp => d = 0
  BY <1>1, Zenon DEF Awaited
<1> QED
  BY <1>2

\* Between two things that NDIS asks for.
LEMMA NothingOfNdis ==
  ASSUME NEW state, NEW op, NEW queue, NEW final, Work(state, op, queue, final),
         Len(queue) <= 1, ToldIn(state) <=> final \in {"AdapterRestarted", "DatapathRunning"},
         ToldIn(state) \/ final # "Halted"
  PROVE  state \notin Announcing /\ \A e \in NdisEvents : queue # <<e>>
<1>1. CASE queue = <<>>
  <2>1. final = GoalOf(state)
    BY <1>1, ShortQueue DEF Work
  <2> QED
    BY <1>1, <2>1
    DEF Work, Resting, Transient, GoalOf, ToldIn, Announcing, NdisEvents
<1>2. ASSUME NEW e, queue = <<e>>, Turns(GoalOf(state), e, final)
      PROVE  state \notin Announcing /\ e \notin NdisEvents
  <2>1. state \in Announcing => e \notin NdisEvents
    BY <1>2 DEF Work, OneOfNdis
  <2>2. /\ GoalOf(state) \in {"AdapterRestarted", "DatapathRunning"} <=>
             (final \in {"AdapterRestarted", "DatapathRunning"} <=> e \notin NdisEvents)
        /\ final = "Halted" => e \notin NdisEvents
    BY <1>2 DEF Turns, NdisEvents
  <2>3. ToldIn(state) <=>
          (GoalOf(state) \in {"AdapterRestarted", "DatapathRunning"} <=> state \notin Announcing)
    BY DEF Work, Resting, Transient, GoalOf, ToldIn, Announcing
  <2> QED
    BY <2>1, <2>2, <2>3
<1>3. Len(queue) = 0 \/ Len(queue) = 1
  BY ShortQueue DEF Work
<1>4. CASE Len(queue) = 1
  <2>1. PICK e : queue = <<e>> /\ Turns(GoalOf(state), e, final)
    BY <1>4, ShortQueue DEF Work
  <2>2. state \notin Announcing /\ e \notin NdisEvents
    BY <1>2, <2>1
  <2>3. \A f : queue = <<f>> => f = e
    BY <2>1
  <2> QED
    BY <2>2, <2>3
<1> QED
  BY <1>1, <1>3, <1>4, ShortQueue DEF Work

\* What is still to come while NDIS is told.
LEMMA AfterAnnouncing ==
  ASSUME NEW state \in Announcing, NEW op, NEW queue, NEW final, Work(state, op, queue, final),
         Len(queue) <= 1, final # "Halted"
  PROVE  final \in {"AdapterRestarted", "DatapathRunning"} <=> ~ToldIn(state)
<1>1. CASE queue = <<>>
  <2>1. final = GoalOf(state)
    BY <1>1, ShortQueue DEF Work
  <2> QED
    BY <2>1 DEF GoalOf, ToldIn, Announcing
<1>2. CASE Len(queue) = 1
  <2>1. PICK e : queue = <<e>> /\ Turns(GoalOf(state), e, final)
    BY <1>2, ShortQueue DEF Work
  <2>2. e \notin NdisEvents
    BY <2>1 DEF Work, OneOfNdis
  <2> QED
    BY <2>1, <2>2 DEF Turns, NdisEvents, GoalOf, ToldIn, Announcing
<1>3. Leads(GoalOf(state), queue, final)
  BY DEF Work
<1>4. Len(queue) \in 0 .. 2 /\ (Len(queue) = 0 => queue = <<>>)
  BY <1>3, ShortQueue
<1>5. Len(queue) = 0 \/ Len(queue) = 1
  BY <1>4
<1> QED
  BY <1>1, <1>2, <1>4, <1>5

\* The machine exists.
LEMMA Born == \A state, op, queue, final : Machine(state, op, queue, final) => ~Unborn
<1> SUFFICES ASSUME NEW state, NEW op, NEW queue, NEW final,
                    Machine(state, op, queue, final), Unborn
             PROVE  FALSE
  OBVIOUS
<1>1. datapathMachine = At(state, op, queue) /\ At(state, op, queue) # NotInitialized
  BY DEF Machine, At, On, NotInitialized
<1>2. queue = <<"EvtCleanup">> /\ op = NoOp
  BY <1>1 DEF Unborn, At, On
<1>3. Leads(GoalOf(state), queue, final)
  BY DEF Machine, Work
<1>4. PICK e : queue = <<e>> /\ Turns(GoalOf(state), e, final)
  BY <1>2, <1>3, ShortQueue
<1> QED
  BY <1>2, <1>4 DEF Turns

\* The operation that runs, and the state in which it does.
LEMMA RunsIn ==
  ASSUME NEW final, DatapathInv(final), NEW op, Runs(op), op # NoOp
  PROVE  \E state \in Resting \cup Transient : \E queue :
           Machine(state, op, queue, final) /\ OpOf(DatapathTables, state) = op
<1>1. ~Unborn
  BY DEF Unborn, Runs, NotInitialized, At, On
<1>2. PICK state, o, queue : Machine(state, o, queue, final)
  BY <1>1 DEF DatapathInv, OnItsWay
<1>3. o = op
  BY <1>2 DEF Machine, Runs, At, On
<1> QED
  BY <1>2, <1>3 DEF Machine, Work

\* How little the machine has to do.
LEMMA MachineWaits ==
  ASSUME NEW state, NEW op, NEW queue, NEW final, Machine(state, op, queue, final)
  PROVE  /\ Len(queue) \in 0 .. 2
         /\ op # NoOp => Len(queue) <= 1
         /\ waiting[Ndis] = NoOp \/ waiting[PnpPower] = NoOp =>
              Len(queue) <= 1 /\ (op # NoOp => queue = <<>>)
         /\ waiting[Ndis] = NoOp /\ waiting[PnpPower] = NoOp =>
              queue = <<>> /\ op = NoOp /\ ~transitionComplete /\ state \in Resting /\ final = state
         /\ final = "Halted" /\ op # NoOp => queue = <<>> /\ GoalOf(state) = "Halted"
         /\ final \in Resting
<1>1. Leads(GoalOf(state), queue, final) /\ state \in Resting \cup Transient
  BY DEF Machine, Work
<1>2. GoalOf(state) \in Resting
  BY <1>1 DEF GoalOf, Resting
<1>3. state \in Resting => GoalOf(state) = state
  BY DEF GoalOf, Resting
<1>4. op = NoOp => state \in Resting
  BY EntryOperations DEF Machine, Work
<1>5. final = "Halted" => waiting[Ndis] = NoOp
  BY DEF Machine, Alone
<1>6. Awaited(op, queue)
  BY DEF Machine
<1>7. /\ Len(queue) \in 0 .. 2 /\ (Len(queue) = 0 => queue = <<>> /\ final = GoalOf(state))
      /\ final \in Resting
  BY <1>1, <1>2, ShortQueue
<1> QED
  BY <1>3, <1>4, <1>5, <1>6, <1>7, WhoWaits

\* NDIS has been told what the state says.
LEMMA AsNdisSees ==
  ASSUME NEW state, NEW op, NEW queue, NEW final, Machine(state, op, queue, final)
  PROVE  /\ miniport = "halted" <=> final = "Halted"
         /\ miniport \in {"restarted", "pausing"} <=> final # "Halted" /\ ToldIn(state)
         /\ op # NoOp => (miniport \in {"restarted", "pausing"} <=> ToldIn(state))
         /\ miniport = "paused" =>
              ~ToldIn(state) /\ final \in {"AdapterPaused", "DatapathPaused"}
         /\ miniport = "restarted" =>
              ToldIn(state) /\ final \in {"AdapterRestarted", "DatapathRunning"}
<1>1. miniport = MiniportIn(state, final) /\ state \in Resting \cup Transient /\ final \in Resting
  BY MachineWaits DEF Machine, Work
<1>2. GoalOf(state) = "Halted" => ~ToldIn(state)
  BY <1>1 DEF GoalOf, ToldIn, Resting, Transient
<1>3. final = "Halted" /\ op # NoOp => ~ToldIn(state)
  BY <1>2, MachineWaits
<1> QED
  BY <1>1, <1>3 DEF MiniportIn, Resting

-----------------------------------------------------------------------------
(* The operations of the machine. *)

\* An operation has run and the machine goes to the next state.
MovesTo(state, queue, final, goal) ==
  /\ goal \in Resting \cup Transient /\ GoalOf(goal) = GoalOf(state) /\ goal \notin Announcing
  /\ Goes(state, "SyncSuccess", goal)
  /\ miniport' = MiniportIn(goal, final) /\ app' = AppIn(goal)

\* So it keeps the invariant.
LEMMA MovesOn ==
  ASSUME NEW state \in Transient, NEW op, NEW queue, NEW final, Machine(state, op, queue, final),
         NEW goal, MovesTo(state, queue, final, goal),
         SyncSuccess, UNCHANGED <<transitionComplete, waiting>>
  PROVE  Machine(goal, OpOf(DatapathTables, goal), queue, final)'
<1> DEFINE new == OpOf(DatapathTables, goal)
<1>1. Plain(DatapathTables, goal) /\ Plain(DatapathTables, state)
  BY DatapathKinds DEF MovesTo
<1>2. state \notin Resting
  BY DEF Resting, Transient
<1>3. op = OpOf(DatapathTables, state) /\ op # NoOp
  BY <1>2, EntryOperations DEF Machine, Work
<1>4. Returned(DatapathTables, At(state, op, queue), "SyncSuccess") = At(goal, new, queue)
  BY <1>1, DatapathKinds, ReturnsTo DEF Goes, Plain, MovesTo
<1>5. datapathMachine' = At(goal, new, queue)
  BY <1>4 DEF Machine, SyncSuccess
<1>6. Work(goal, new, queue, final)
  BY DEF Machine, Work, OneOfNdis, MovesTo
<1>7. new # NoOp
  BY EntryOperations DEF MovesTo
<1> HIDE DEF new
<1>8. Awaited(new, queue)'
  BY <1>3, <1>7 DEF Machine, Awaited
<1>9. Alone(goal, queue, final)'
  <2>1. waiting[PnpPower] # "NdisMiniportInitializeEx"
    BY <1>2 DEF Machine, Alone, Resting
  <2> QED
    BY <2>1 DEF Machine, Alone
<1>10. Machine(goal, new, queue, final)'
  BY <1>5, <1>6, <1>8, <1>9 DEF Machine, MovesTo
<1> QED
  BY <1>10 DEF new

\* A step of the machine leaves it on its way.
LEMMA OperationInv ==
  ASSUME NEW final, DatapathInv(final), NEW op, Runs(op), op # NoOp,
         op # "AsyncTransitionComplete",
         SyncSuccess, UNCHANGED <<transitionComplete, waiting>>,
         ASSUME NEW state \in Transient, NEW queue, Machine(state, op, queue, final),
                OpOf(DatapathTables, state) = op
         PROVE  \E goal : MovesTo(state, queue, final, goal)
  PROVE  DatapathInv(final)' /\ OnItsWay(final)'
<1>1. PICK state \in Resting \cup Transient : \E queue :
           Machine(state, op, queue, final) /\ OpOf(DatapathTables, state) = op
  BY RunsIn
<1>2. PICK queue : Machine(state, op, queue, final) /\ OpOf(DatapathTables, state) = op
  BY <1>1
<1>3. state \in Transient
  BY <1>1, DatapathOperations
<1>4. PICK goal : MovesTo(state, queue, final, goal)
  BY <1>2, <1>3
<1>5. Machine(goal, OpOf(DatapathTables, goal), queue, final)'
  BY <1>2, <1>3, <1>4, MovesOn
<1>6. OnItsWay(final)'
  BY <1>5 DEF OnItsWay
<1> QED
  BY <1>6 DEF DatapathInv, WaitingType

\* The operations of the machine: each leaves NDIS and the app in what the next state says.
LEMMA DatapathCreateInv ==
  ASSUME NEW final, DatapathInv(final), DatapathCreate
  PROVE  DatapathInv(final)' /\ OnItsWay(final)'
<1>1. ASSUME NEW state \in Transient, NEW queue, Machine(state, "DatapathCreate", queue, final),
             OpOf(DatapathTables, state) = "DatapathCreate"
      PROVE  \E goal : MovesTo(state, queue, final, goal)
  <2>1. state \in {"DatapathPausedCreating", "DatapathRestartedCreating"}
    BY <1>1, DatapathOperations DEF Transient
  <2>2. app = NoApp /\ miniport = MiniportIn(state, final)
    BY <1>1, <2>1 DEF Machine, AppIn
  <2>3. app' = PausedApp
    BY <2>2, Zenon DEF DatapathCreate, NoApp, PausedApp
  <2>4. state = "DatapathPausedCreating" => MovesTo(state, queue, final, "DatapathPaused")
    BY <2>2, <2>3, DatapathGoes
    DEF DatapathCreate, MovesTo, Resting, Transient, GoalOf, Announcing, MiniportIn, ToldIn, AppIn
  <2>5. state = "DatapathRestartedCreating" =>
          MovesTo(state, queue, final, "DatapathRestartedStarting")
    BY <2>2, <2>3, DatapathGoes
    DEF DatapathCreate, MovesTo, Resting, Transient, GoalOf, Announcing, MiniportIn, ToldIn, AppIn
  <2> QED
    BY <2>1, <2>4, <2>5
<1> QED
  BY <1>1, OperationInv DEF DatapathCreate, NoOp

\* DatapathDestroy leaves no app.
LEMMA DatapathDestroyInv ==
  ASSUME NEW final, DatapathInv(final), DatapathDestroy
  PROVE  DatapathInv(final)' /\ OnItsWay(final)'
<1>1. ASSUME NEW state \in Transient, NEW queue, Machine(state, "DatapathDestroy", queue, final),
             OpOf(DatapathTables, state) = "DatapathDestroy"
      PROVE  \E goal : MovesTo(state, queue, final, goal)
  <2>1. state \in {"DatapathPausedDestroying", "DatapathRestartDestroying"}
    BY <1>1, DatapathOperations DEF Transient
  <2>2. app = PausedApp /\ miniport = MiniportIn(state, final)
    BY <1>1, <2>1 DEF Machine, AppIn
  <2>3. app' = NoApp
    BY <2>2, Zenon DEF DatapathDestroy, NoApp, PausedApp
  <2>4. state = "DatapathPausedDestroying" => MovesTo(state, queue, final, "AdapterPaused")
    BY <2>2, <2>3, DatapathGoes
    DEF DatapathDestroy, MovesTo, Resting, Transient, GoalOf, Announcing, MiniportIn, ToldIn,
        AppIn
  <2>5. state = "DatapathRestartDestroying" => MovesTo(state, queue, final, "AdapterRestarted")
    BY <2>2, <2>3, DatapathGoes
    DEF DatapathDestroy, MovesTo, Resting, Transient, GoalOf, Announcing, MiniportIn, ToldIn,
        AppIn
  <2> QED
    BY <2>1, <2>4, <2>5
<1> QED
  BY <1>1, OperationInv DEF DatapathDestroy, NoOp

\* DatapathStart, in the middle of a creation.
LEMMA DatapathStartInv ==
  ASSUME NEW final, DatapathInv(final), DatapathStart
  PROVE  DatapathInv(final)' /\ OnItsWay(final)'
<1>1. ASSUME NEW state \in Transient, NEW queue, Machine(state, "DatapathStart", queue, final),
             OpOf(DatapathTables, state) = "DatapathStart"
      PROVE  \E goal : MovesTo(state, queue, final, goal)
  <2>1. state = "DatapathRestartedStarting"
    BY <1>1, DatapathOperations DEF Transient
  <2>2. app = PausedApp /\ miniport = MiniportIn(state, final)
    BY <1>1, <2>1 DEF Machine, AppIn
  <2>3. app' = RunningApp
    BY <2>2, Zenon DEF DatapathStart, RunningApp, PausedApp
  <2>4. MovesTo(state, queue, final, "DatapathRunning")
    BY <2>1, <2>2, <2>3, DatapathGoes
    DEF DatapathStart, MovesTo, Resting, Transient, GoalOf, Announcing, MiniportIn, ToldIn, AppIn
  <2> QED
    BY <2>4
<1> QED
  BY <1>1, OperationInv DEF DatapathStart, NoOp

\* DatapathStop, before a destruction.
LEMMA DatapathStopInv ==
  ASSUME NEW final, DatapathInv(final), DatapathStop
  PROVE  DatapathInv(final)' /\ OnItsWay(final)'
<1>1. ASSUME NEW state \in Transient, NEW queue, Machine(state, "DatapathStop", queue, final),
             OpOf(DatapathTables, state) = "DatapathStop"
      PROVE  \E goal : MovesTo(state, queue, final, goal)
  <2>1. state = "DatapathRestartStopping"
    BY <1>1, DatapathOperations DEF Transient
  <2>2. app = RunningApp /\ miniport = MiniportIn(state, final)
    BY <1>1, <2>1 DEF Machine, AppIn
  <2>3. app' = PausedApp
    BY <2>2, Zenon DEF DatapathStop, RunningApp, PausedApp
  <2>4. MovesTo(state, queue, final, "DatapathRestartDestroying")
    BY <2>1, <2>2, <2>3, DatapathGoes
    DEF DatapathStop, MovesTo, Resting, Transient, GoalOf, Announcing, MiniportIn, ToldIn, AppIn
  <2> QED
    BY <2>4
<1> QED
  BY <1>1, OperationInv DEF DatapathStop, NoOp

\* While NDIS is told, what is still to come does not concern it.
LEMMA WhileAnnouncing ==
  ASSUME NEW state \in Announcing, NEW op, NEW queue, NEW final, Machine(state, op, queue, final)
  PROVE  /\ final # "Halted"
         /\ final \in {"AdapterRestarted", "DatapathRunning"} <=> ~ToldIn(state)
<1>1. Work(state, op, queue, final)
  BY DEF Machine
<1>2. state \notin Resting
  BY DEF Announcing, Resting
<1>3. op # NoOp
  BY <1>1, <1>2, EntryOperations DEF Work
<1>4. GoalOf(state) # "Halted"
  BY DEF GoalOf, Announcing
<1>5. final # "Halted" /\ Len(queue) <= 1
  BY <1>3, <1>4, MachineWaits
<1> QED
  BY <1>1, <1>5, AfterAnnouncing

\* A restart with a data path starts it.
LEMMA DatapathStartRestartCompleteInv ==
  ASSUME NEW final, DatapathInv(final), DatapathStartRestartComplete
  PROVE  DatapathInv(final)' /\ OnItsWay(final)'
<1> DEFINE op == "DatapathStartRestartComplete"
<1>1. ASSUME NEW state \in Transient, NEW queue, Machine(state, op, queue, final),
             OpOf(DatapathTables, state) = op
      PROVE  \E goal : MovesTo(state, queue, final, goal)
  <2>1. state = "DatapathPausedStarting"
    BY <1>1, DatapathOperations DEF Transient
  <2>2. app = PausedApp
    BY <1>1, <2>1 DEF Machine, AppIn
  <2>3. app' = RunningApp
    BY <2>2, Zenon DEF DatapathStartRestartComplete, RunningApp, PausedApp
  <2>4. final \in {"AdapterRestarted", "DatapathRunning"}
    BY <1>1, <2>1, WhileAnnouncing DEF Announcing, ToldIn
  <2>5. MovesTo(state, queue, final, "DatapathRunning")
    BY <2>1, <2>3, <2>4, DatapathGoes
    DEF DatapathStartRestartComplete, MovesTo, Resting, Transient, GoalOf, Announcing,
        MiniportIn, ToldIn, AppIn
  <2> QED
    BY <2>5
<1> QED
  BY <1>1, OperationInv DEF DatapathStartRestartComplete, NoOp

\* A pause with a data path stops it.
LEMMA DatapathStopPauseCompleteInv ==
  ASSUME NEW final, DatapathInv(final), DatapathStopPauseComplete
  PROVE  DatapathInv(final)' /\ OnItsWay(final)'
<1> DEFINE op == "DatapathStopPauseComplete"
<1>1. ASSUME NEW state \in Transient, NEW queue, Machine(state, op, queue, final),
             OpOf(DatapathTables, state) = op
      PROVE  \E goal : MovesTo(state, queue, final, goal)
  <2>1. state = "DatapathPauseStopping"
    BY <1>1, DatapathOperations DEF Transient
  <2>2. app = RunningApp
    BY <1>1, <2>1 DEF Machine, AppIn
  <2>3. app' = PausedApp
    BY <2>2, Zenon DEF DatapathStopPauseComplete, RunningApp, PausedApp
  <2>4. final \notin {"AdapterRestarted", "DatapathRunning", "Halted"}
    BY <1>1, <2>1, WhileAnnouncing DEF Announcing, ToldIn
  <2>5. MovesTo(state, queue, final, "DatapathPaused")
    BY <2>1, <2>3, <2>4, DatapathGoes
    DEF DatapathStopPauseComplete, MovesTo, Resting, Transient, GoalOf, Announcing,
        MiniportIn, ToldIn, AppIn
  <2> QED
    BY <2>5
<1> QED
  BY <1>1, OperationInv DEF DatapathStopPauseComplete, NoOp

\* A pause without a data path.
LEMMA DatapathPauseCompleteInv ==
  ASSUME NEW final, DatapathInv(final), DatapathPauseComplete
  PROVE  DatapathInv(final)' /\ OnItsWay(final)'
<1> DEFINE op == "DatapathPauseComplete"
<1>1. ASSUME NEW state \in Transient, NEW queue, Machine(state, op, queue, final),
             OpOf(DatapathTables, state) = op
      PROVE  \E goal : MovesTo(state, queue, final, goal)
  <2>1. state = "AdapterPauseComplete"
    BY <1>1, DatapathOperations DEF Transient
  <2>2. app = NoApp
    BY <1>1, <2>1 DEF Machine, AppIn
  <2>3. final \notin {"AdapterRestarted", "DatapathRunning", "Halted"}
    BY <1>1, <2>1, WhileAnnouncing DEF Announcing, ToldIn
  <2>4. MovesTo(state, queue, final, "AdapterPaused")
    BY <2>1, <2>2, <2>3, DatapathGoes
    DEF DatapathPauseComplete, MovesTo, Resting, Transient, GoalOf, Announcing,
        MiniportIn, ToldIn, AppIn
  <2> QED
    BY <2>4
<1> QED
  BY <1>1, OperationInv DEF DatapathPauseComplete, NoOp

\* A restart without a data path.
LEMMA DatapathRestartCompleteInv ==
  ASSUME NEW final, DatapathInv(final), DatapathRestartComplete
  PROVE  DatapathInv(final)' /\ OnItsWay(final)'
<1> DEFINE op == "DatapathRestartComplete"
<1>1. ASSUME NEW state \in Transient, NEW queue, Machine(state, op, queue, final),
             OpOf(DatapathTables, state) = op
      PROVE  \E goal : MovesTo(state, queue, final, goal)
  <2>1. state = "AdapterRestartComplete"
    BY <1>1, DatapathOperations DEF Transient
  <2>2. app = NoApp
    BY <1>1, <2>1 DEF Machine, AppIn
  <2>3. final \in {"AdapterRestarted", "DatapathRunning"}
    BY <1>1, <2>1, WhileAnnouncing DEF Announcing, ToldIn
  <2>4. MovesTo(state, queue, final, "AdapterRestarted")
    BY <2>1, <2>2, <2>3, DatapathGoes
    DEF DatapathRestartComplete, MovesTo, Resting, Transient, GoalOf, Announcing,
        MiniportIn, ToldIn, AppIn
  <2> QED
    BY <2>4
<1> QED
  BY <1>1, OperationInv DEF DatapathRestartComplete, NoOp

\* The halt.
LEMMA NdisHaltInv ==
  ASSUME NEW final, DatapathInv(final), NdisHalt
  PROVE  DatapathInv(final)' /\ OnItsWay(final)'
<1>1. ASSUME NEW state \in Transient, NEW queue, Machine(state, "NdisHalt", queue, final),
             OpOf(DatapathTables, state) = "NdisHalt"
      PROVE  \E goal : MovesTo(state, queue, final, goal)
  <2>1. state = "Halting"
    BY <1>1, DatapathOperations DEF Transient
  <2>2. app = NoApp /\ miniport = MiniportIn(state, final)
    BY <1>1, <2>1 DEF Machine, AppIn
  <2>3. MovesTo(state, queue, final, "Halted")
    BY <2>1, <2>2, DatapathGoes
    DEF NdisHalt, MovesTo, Resting, Transient, GoalOf, Announcing, MiniportIn, ToldIn, AppIn
  <2> QED
    BY <2>3
<1> QED
  BY <1>1, OperationInv DEF NdisHalt, NoOp

\* A transition ends: the machine rests and the signal is set.
LEMMA AsyncTransitionCompleteInv ==
  ASSUME NEW final, DatapathInv(final), AsyncTransitionComplete
  PROVE  DatapathInv(final)' /\ OnItsWay(final)'
<1> DEFINE op == "AsyncTransitionComplete"
<1>1. PICK state \in Resting \cup Transient : \E queue :
           Machine(state, op, queue, final) /\ OpOf(DatapathTables, state) = op
  BY RunsIn DEF AsyncTransitionComplete, NoOp
<1>2. PICK queue : Machine(state, op, queue, final) /\ OpOf(DatapathTables, state) = op
  BY <1>1
<1>3. state \in Resting
  BY <1>1, DatapathOperations DEF Transient
<1>4. Returned(DatapathTables, At(state, op, queue), NoOp) = At(state, NoOp, queue)
  BY <1>3, DatapathKinds, ReturnsToRest
<1>5. datapathMachine' = At(state, NoOp, queue)
  BY <1>2, <1>4 DEF AsyncTransitionComplete, Machine
<1>6. Work(state, NoOp, queue, final)
  BY <1>2, <1>3 DEF Machine, Work
<1>7. Awaited(NoOp, queue)'
  <2>1. Len(queue) \in 0 .. 2 /\ op # NoOp
    BY <1>2, MachineWaits DEF NoOp
  <2>2. Awaited(op, queue)
    BY <1>2 DEF Machine
  <2>3. UNCHANGED waiting /\ transitionComplete' = TRUE
    BY DEF AsyncTransitionComplete
  <2> QED
    BY <2>1, <2>2, <2>3 DEF Awaited, One
<1>8. Machine(state, NoOp, queue, final)'
  BY <1>2, <1>5, <1>6, <1>7 DEF AsyncTransitionComplete, Machine, Alone
<1>9. OnItsWay(final)'
  BY <1>8 DEF OnItsWay
<1> QED
  BY <1>9 DEF DatapathInv, WaitingType, AsyncTransitionComplete

\* The table of pop transitions has a row for the cleanup only.
LEMMA DatapathEnds ==
  LET M == DatapathTables
  IN  "Halted" \in DOMAIN M.pop /\ "EvtCleanup" \in DOMAIN M.pop["Halted"]
      /\ "EvtCleanup" \notin DOMAIN Row(M.external, "Halted")
<1>1. DatapathTables.pop = [Halted |-> [EvtCleanup |-> "EvtCleanup"]]
  BY DEF DatapathTables, DatapathMachine!Machine, DatapathMachine!PopTransitions
<1>2. DatapathTables.external["Halted"] = [NdisMiniportInitializeEx |-> "AdapterPaused"]
  BY SMT DEF DatapathTables, DatapathMachine!Machine,
       DatapathMachine!ExternalTransitions, DatapathMachine!PausedTransitions,
       DatapathMachine!RunningTransitions, DatapathMachine!Rows
<1> QED
  BY <1>1, <1>2 DEF Row

\* The first event that waits turns the machine, and the rest leads on from there.
LEMMA LeadsOn ==
  ASSUME NEW state, NEW queue, NEW final, Leads(state, queue, final), queue # <<>>
  PROVE  /\ \E between : Turns(state, Head(queue), between) /\ Leads(between, Tail(queue), final)
         /\ Len(Tail(queue)) = Len(queue) - 1
         /\ Tail(queue) = <<>> \/ \E f : queue = <<Head(queue), f>> /\ Tail(queue) = <<f>>
<1>1. CASE \E e : queue = <<e>> /\ Turns(state, e, final)
  <2>1. PICK e : queue = <<e>> /\ Turns(state, e, final)
    BY <1>1
  <2>2. Head(queue) = e /\ Tail(queue) = <<>> /\ Len(queue) = 1
    BY <2>1
  <2> QED
    BY <2>1, <2>2 DEF Leads
<1>2. CASE \E e, f, between :
             queue = <<e, f>> /\ Turns(state, e, between) /\ Turns(between, f, final)
  <2>1. PICK e, f, between :
          queue = <<e, f>> /\ Turns(state, e, between) /\ Turns(between, f, final)
    BY <1>2
  <2>2. Head(queue) = e /\ Tail(queue) = <<f>> /\ Len(queue) = 2
    BY <2>1
  <2> QED
    BY <2>1, <2>2 DEF Leads
<1> QED
  BY <1>1, <1>2 DEF Leads

\* The machine takes the first event it was sent.
LEMMA TakeEventInv ==
  ASSUME NEW final, DatapathInv(final), TakeEvent
  PROVE  DatapathInv(final)' /\ (~Unborn => OnItsWay(final)')
<1>1. /\ CanDequeue(DatapathTables, datapathMachine)
      /\ datapathMachine' = Cleared(Dequeued(DatapathTables, datapathMachine))
      /\ UNCHANGED <<transitionComplete, waiting, miniport, app, script>>
  BY DEF TakeEvent, Cleared
<1>2. /\ datapathMachine # NotInitialized
      /\ \A state, op : datapathMachine = At(state, op, <<>>) => FALSE
      /\ datapathMachine.op = NoOp
  BY <1>1 DEF CanDequeue, NotInitialized, Ready, At, On
<1>3. CASE Unborn
  <2>1. datapathMachine = At("Halted", NoOp, <<"EvtCleanup">>)
    BY <1>2, <1>3 DEF Unborn
  <2>2. datapathMachine' = NotInitialized
    BY <1>1, <2>1, TakesEnd, DatapathEnds, DatapathKinds
  <2>3. Unborn'
    BY <1>1, <1>3, <2>2 DEF Unborn
  <2>4. final = "Halted"
    BY <1>3, Born DEF DatapathInv, OnItsWay
  <2> QED
    BY <1>1, <1>3, <2>3, <2>4 DEF DatapathInv, WaitingType
<1>4. CASE ~Unborn
  <2>1. PICK state, op, queue : Machine(state, op, queue, final)
    BY <1>4 DEF DatapathInv, OnItsWay
  <2>2. op = NoOp /\ queue # <<>> /\ datapathMachine = At(state, NoOp, queue)
    BY <1>2, <2>1 DEF Machine, At, On
  <2>3. state \in Resting /\ GoalOf(state) = state /\ Leads(state, queue, final)
    <3>1. state \in Resting
      BY <2>1, <2>2, EntryOperations DEF Machine, Work
    <3> QED
      BY <2>1, <3>1 DEF Machine, Work, GoalOf, Resting
  <2> DEFINE e == Head(queue)
             rest == Tail(queue)
  <2>4. PICK between : Turns(state, e, between) /\ Leads(between, rest, final)
    BY <2>2, <2>3, LeadsOn
  <2>5. /\ Len(rest) = Len(queue) - 1
        /\ rest = <<>> \/ \E f : queue = <<e, f>> /\ rest = <<f>>
    BY <2>2, <2>3, LeadsOn
  <2>6. queue \in Seq(NdisEvents \cup PnpEvents) /\ Len(queue) \in 0 .. 2
    BY <2>3, ShortQueue
  <2> DEFINE first == FirstOf(state, e)
             new == OpOf(DatapathTables, first)
  <2>7. /\ Goes(state, e, first)
        /\ first \in Resting \cup Transient /\ GoalOf(first) = between
        /\ AppIn(first) = AppIn(state) /\ (ToldIn(first) <=> ToldIn(state))
        /\ first \in Announcing <=> e \in NdisEvents
    BY <2>4, Turning
  <2>8. datapathMachine' = At(first, new, rest)
    <3>1. Plain(DatapathTables, first)
      BY <2>7, DatapathKinds
    <3> HIDE DEF first
    <3> QED
      BY <1>1, <2>2, <2>6, <2>7, <3>1, TakesTo, DatapathKinds DEF Goes
  <2>9. new # NoOp
    BY <2>7, EntryOperations
  <2>10. OneOfNdis(first, rest)
    <3>1. OneOfNdis(state, queue)
      BY <2>1 DEF Machine, Work
    <3>2. \A g, h : rest # <<g, h>>
      <4>1. \A g, h : Len(<<g, h>>) = 2
        OBVIOUS
      <4> QED
        BY <2>5, <2>6, <4>1
    <3>3. ASSUME first \in Announcing, NEW f \in NdisEvents PROVE rest # <<f>>
      <4>1. e \in NdisEvents
        BY <2>7, <3>3
      <4>2. queue # <<e, f>>
        BY <3>1, <4>1 DEF OneOfNdis
      <4>3. \A g : <<g>> # <<>> /\ (<<g>> = <<f>> => g = f)
        OBVIOUS
      <4> QED
        BY <2>5, <4>2, <4>3
    <3> QED
      BY <3>2, <3>3 DEF OneOfNdis
  <2>11. Work(first, new, rest, final)
    BY <2>4, <2>7, <2>10 DEF Work
  <2>12. Alone(first, rest, final)'
    <3>1. CASE waiting[PnpPower] = "NdisMiniportInitializeEx"
      <4>1. state = "Halted" /\ queue = <<"NdisMiniportInitializeEx">>
        BY <2>1, <2>2, <3>1 DEF Machine, Alone
      <4>2. e = "NdisMiniportInitializeEx" /\ rest = <<>>
        BY <4>1
      <4>3. first = "AdapterPaused"
        BY <4>2 DEF FirstOf
      <4>4. waiting' = waiting
        BY <1>1
      <4> HIDE DEF first, rest
      <4> QED
        BY <2>1, <4>2, <4>3, <4>4 DEF Machine, Alone
    <3>2. CASE waiting[PnpPower] # "NdisMiniportInitializeEx"
      BY <1>1, <2>1, <3>2 DEF Machine, Alone
    <3> QED
      BY <3>1, <3>2
  <2>13. Awaited(new, rest)'
    <3>1. Awaited(NoOp, queue)
      BY <2>1, <2>2 DEF Machine
    <3>2. UNCHANGED <<transitionComplete, waiting>>
      BY <1>1
    <3>3. One(NoOp # NoOp) = 0 /\ One(new # NoOp) = 1
      BY <2>9 DEF One
    <3>4. \A holds : One(holds) \in {0, 1}
      BY DEF One
    <3> HIDE DEF new, rest
    <3>5. PICK b, c, d \in {0, 1} :
            b = One(transitionComplete) /\ c = One(waiting[Ndis] # NoOp)
              /\ d = One(waiting[PnpPower] # NoOp)
      BY <3>4, Zenon
    <3>6. b = One(transitionComplete)' /\ c = One(waiting[Ndis] # NoOp)'
            /\ d = One(waiting[PnpPower] # NoOp)'
      BY <3>2, <3>5
    <3>7. Len(queue) + 0 + b <= c + d
      BY <3>1, <3>3, <3>5, Zenon DEF Awaited
    <3>8. Len(rest) + 1 + b <= c + d
      BY <2>5, <2>6, <3>7
    <3> QED
      BY <3>3, <3>6, <3>8, Zenon DEF Awaited
  <2> HIDE DEF first, new, rest
  <2>14. miniport' = MiniportIn(first, final) /\ app' = AppIn(first)
    BY <1>1, <2>1, <2>7 DEF Machine, MiniportIn
  <2>15. Machine(first, new, rest, final)'
    BY <2>8, <2>11, <2>12, <2>13, <2>14 DEF Machine
  <2>16. OnItsWay(final)'
    BY <2>15 DEF OnItsWay
  <2> QED
    BY <1>1, <2>16 DEF DatapathInv, WaitingType
<1> QED
  BY <1>3, <1>4

Threads == {Ndis, PnpPower}

\* Either of the callers takes the signal, and goes on.
LEMMA TransitionCompletesInv ==
  ASSUME NEW final, DatapathInv(final), NEW t \in Threads, TransitionCompletes(t)
  PROVE  DatapathInv(final)' /\ OnItsWay(final)'
<1>1. /\ waiting[t] # NoOp /\ transitionComplete = TRUE /\ transitionComplete' = FALSE
      /\ waiting' = [waiting EXCEPT ![t] = NoOp]
      /\ UNCHANGED <<datapathMachine, miniport, app, script>>
  BY DEF TransitionCompletes, DatapathInv, WaitingType
<1>2. waiting \in [Threads -> NdisEvents \cup PnpEvents \cup {NoOp}] /\ Ndis # PnpPower
  BY DatapathThreadAssumption DEF DatapathInv, WaitingType, Threads
<1>3. waiting'[t] = NoOp /\ \A u \in Threads \ {t} : waiting'[u] = waiting[u]
  BY <1>1, <1>2
<1>4. WaitingType'
  <2>1. waiting' \in [Threads -> NdisEvents \cup PnpEvents \cup {NoOp}]
    BY <1>1, <1>2
  <2> QED
    BY <1>1, <1>3, <2>1 DEF DatapathInv, WaitingType, Threads
<1>5. PICK state, op, queue : Machine(state, op, queue, final)
  BY <1>1 DEF DatapathInv, OnItsWay, Unborn
<1>6. Alone(state, queue, final)'
  BY <1>3, <1>5 DEF Machine, Alone, Threads, NoOp
<1>7. Awaited(op, queue)'
  <2>1. \A holds : One(holds) \in {0, 1}
    BY DEF One
  <2>2. Len(queue) \in 0 .. 2
    BY <1>5, MachineWaits
  <2>3. PICK other \in Threads : other # t /\ Threads = {t, other}
    BY <1>2 DEF Threads
  <2>4. One(waiting[t] # NoOp) = 1 /\ One(waiting[t] # NoOp)' = 0
    BY <1>1, <1>3 DEF One
  <2>5. One(transitionComplete) = 1 /\ One(transitionComplete)' = 0
    BY <1>1 DEF One
  <2>6. One(waiting[other] # NoOp)' = One(waiting[other] # NoOp)
    BY <1>3, <2>3
  <2>7. PICK a, d \in {0, 1} : a = One(op # NoOp) /\ d = One(waiting[other] # NoOp)
    BY <2>1, Zenon
  <2>8. CASE t = Ndis
    <3>1. other = PnpPower
      BY <1>2, <2>3, <2>8 DEF Threads
    <3>2. Len(queue) + a + 1 <= 1 + d
      BY <1>5, <2>4, <2>5, <2>7, <2>8, <3>1, Zenon DEF Machine, Awaited
    <3>3. Len(queue) + a + 0 <= 0 + d
      BY <2>2, <3>2
    <3> QED
      BY <2>4, <2>5, <2>6, <2>7, <2>8, <3>1, <3>3, Zenon DEF Awaited
  <2>9. CASE t = PnpPower
    <3>1. other = Ndis
      BY <1>2, <2>3, <2>9 DEF Threads
    <3>2. Len(queue) + a + 1 <= d + 1
      BY <1>5, <2>4, <2>5, <2>7, <2>9, <3>1, Zenon DEF Machine, Awaited
    <3>3. Len(queue) + a + 0 <= d + 0
      BY <2>2, <3>2
    <3> QED
      BY <2>4, <2>5, <2>6, <2>7, <2>9, <3>1, <3>3, Zenon DEF Awaited
  <2> QED
    BY <2>8, <2>9 DEF Threads
<1>8. Machine(state, op, queue, final)'
  BY <1>1, <1>5, <1>6, <1>7 DEF Machine
<1>9. OnItsWay(final)'
  BY <1>8 DEF OnItsWay
<1> QED
  BY <1>4, <1>9 DEF DatapathInv

\* The machine starts in its first state, where its first operation has run.
LEMMA InitializeInv ==
  ASSUME NEW final, DatapathInv(final), Initialize
  PROVE  final = "Halted" /\ Unborn /\ DatapathInv("Halted")' /\ OnItsWay("Halted")'
<1>1. Unborn /\ final = "Halted"
  <2>1. \A state, op, queue : datapathMachine # At(state, op, queue)
    BY DEF Initialize, NotInitialized, At, On
  <2> QED
    BY <2>1 DEF DatapathInv, OnItsWay, Machine
<1>2. DatapathTables.submachines[DatapathTables.initial] = "Halted"
  BY DEF DatapathTables, DatapathMachine!Machine, DatapathMachine!Submachines
<1>3. Plain(DatapathTables, "Halted")
  BY DatapathKinds DEF Resting
<1>4. datapathMachine = On(<<>>, NoOp, <<>>)
  BY DEF Initialize, NotInitialized, On
<1>5. Started(DatapathTables, datapathMachine)
        = At("Halted", OpOf(DatapathTables, "Halted"), <<>>)
  BY <1>2, <1>3, <1>4, Enters DEF Started
<1>6. datapathMachine' = At("Halted", NoOp, <<>>)
  <2>1. \A stack, op, queue : [On(stack, op, queue) EXCEPT !.op = NoOp] = On(stack, NoOp, queue)
    BY DEF On
  <2> QED
    BY <1>5, <2>1 DEF Initialize, At
<1>7. /\ UNCHANGED <<waiting, miniport, app>> /\ transitionComplete' = FALSE
      /\ waiting[Ndis] = NoOp /\ waiting[PnpPower] = NoOp /\ miniport = "halted" /\ app = NoApp
  BY <1>1 DEF Initialize, Unborn
<1>8. Work("Halted", NoOp, <<>>, "Halted")
  BY DEF Work, Resting, Leads, GoalOf, OneOfNdis, Announcing
<1>9. Awaited(NoOp, <<>>)'
  <2>1. Len(<<>>) = 0 /\ One(NoOp # NoOp) = 0
    BY DEF One
  <2>2. One(transitionComplete)' = 0 /\ One(waiting[Ndis] # NoOp)' = 0
          /\ One(waiting[PnpPower] # NoOp)' = 0
    BY <1>7 DEF One
  <2> QED
    BY <2>1, <2>2 DEF Awaited
<1>10. Alone("Halted", <<>>, "Halted")'
  BY <1>7 DEF Alone, NoOp
<1>11. Machine("Halted", NoOp, <<>>, "Halted")'
  BY <1>6, <1>7, <1>8, <1>9, <1>10 DEF Machine, MiniportIn, AppIn
<1>12. OnItsWay("Halted")'
  BY <1>11 DEF OnItsWay
<1> QED
  BY <1>1, <1>7, <1>12 DEF DatapathInv, WaitingType

\* The adapter is deleted.
LEMMA EvtCleanupInv ==
  ASSUME NEW final, DatapathInv(final), EvtCleanup, datapathMachine.queue = <<>>,
         final = "Halted", waiting[PnpPower] = NoOp
  PROVE  DatapathInv("Halted")' /\ Unborn'
<1>1. datapathMachine.stack # <<>> /\ datapathMachine' = Enqueued(datapathMachine, "EvtCleanup")
      /\ UNCHANGED <<transitionComplete, waiting, miniport, app, script>>
  BY DEF EvtCleanup
<1>2. ~Unborn
  BY <1>1 DEF Unborn, NotInitialized, At, On
<1>3. PICK state, op, queue : Machine(state, op, queue, final)
  BY <1>2 DEF DatapathInv, OnItsWay
<1>4. waiting[Ndis] = NoOp
  BY <1>3 DEF Machine, Alone
<1>5. queue = <<>> /\ op = NoOp /\ ~transitionComplete /\ state = "Halted"
  BY <1>3, <1>4, MachineWaits
<1>6. datapathMachine' = At("Halted", NoOp, <<"EvtCleanup">>)
  BY <1>1, <1>3, <1>5, EnqueuesFirst DEF Machine
<1>7. Unborn'
  BY <1>1, <1>3, <1>4, <1>5, <1>6 DEF Machine, Unborn, MiniportIn, AppIn, ToldIn
<1> QED
  BY <1>1, <1>7 DEF DatapathInv, WaitingType

\* A second element.
LEMMA Appended == ASSUME NEW s, NEW u PROVE Append(<<s>>, u) = <<s, u>>
<1> DEFINE more == Append(<<s>>, u)
           pair == <<s, u>>
<1>1. /\ more \in Seq({s, u}) /\ Len(more) = 2 /\ more[1] = s /\ more[2] = u
      /\ pair \in Seq({s, u}) /\ Len(pair) = 2 /\ pair[1] = s /\ pair[2] = u
  OBVIOUS
<1>2. \A i \in 1 .. Len(more) : more[i] = pair[i]
  BY <1>1
<1> HIDE DEF more, pair
<1>3. more = pair
  BY <1>1, <1>2, SeqEqual
<1> QED
  BY <1>3 DEF more, pair

\* One more event leads the machine further.
LEMMA LeadsFurther ==
  ASSUME NEW state, NEW queue, NEW final, Leads(state, queue, final), Len(queue) <= 1,
         NEW e, NEW next, Turns(final, e, next)
  PROVE  /\ Leads(state, Append(queue, e), next)
         /\ Len(Append(queue, e)) = Len(queue) + 1
         /\ \/ Append(queue, e) = <<e>> /\ queue = <<>>
            \/ \E f : queue = <<f>> /\ Append(queue, e) = <<f, e>>
<1>1. CASE queue = <<>>
  <2>1. Append(queue, e) = <<e>> /\ Len(queue) = 0 /\ Len(<<e>>) = 1
    BY <1>1
  <2>2. final = state
    BY <1>1, ShortQueue
  <2> QED
    BY <1>1, <2>1, <2>2 DEF Leads
<1>2. CASE Len(queue) = 1
  <2>1. PICK f : queue = <<f>> /\ Turns(state, f, final)
    BY <1>2, ShortQueue
  <2>2. Len(queue) = 1 /\ Len(<<f, e>>) = 2
    BY <2>1
  <2>3. Append(queue, e) = <<f, e>>
    BY <2>1, Appended
  <2> QED
    BY <2>1, <2>2, <2>3 DEF Leads
<1>3. Len(queue) \in 0 .. 2 /\ (Len(queue) = 0 => queue = <<>>)
  BY ShortQueue
<1> QED
  BY <1>1, <1>2, <1>3

\* A caller sends the machine an event, on which it will go on from where it is going.
LEMMA EnqueueInv ==
  ASSUME NEW state, NEW op, NEW queue, NEW final, DatapathInv(final),
         Machine(state, op, queue, final),
         NEW t \in Threads, NEW e, EnqueueEventSync(t, e),
         NEW next, Turns(final, e, next), e \in NdisEvents <=> t = Ndis,
         miniport' = MiniportIn(state, next),
         e \in NdisEvents => /\ state \notin Announcing
                             /\ \A f \in NdisEvents : queue # <<f>>,
         Alone(state, Append(queue, e), next)'
  PROVE  DatapathInv(next)' /\ OnItsWay(next)'
<1> DEFINE longer == Append(queue, e)
<1>1. /\ waiting[t] = NoOp /\ waiting' = [waiting EXCEPT ![t] = e]
      /\ datapathMachine' = Enqueued(datapathMachine, e)
      /\ UNCHANGED <<transitionComplete, app>>
  BY DEF EnqueueEventSync
<1>2. waiting \in [Threads -> NdisEvents \cup PnpEvents \cup {NoOp}] /\ Ndis # PnpPower
  BY DatapathThreadAssumption DEF DatapathInv, WaitingType, Threads
<1>3. waiting'[t] = e /\ \A u \in Threads \ {t} : waiting'[u] = waiting[u]
  BY <1>1, <1>2
<1>4. e \in NdisEvents \cup PnpEvents /\ e # NoOp
  BY Turning DEF NdisEvents, PnpEvents, NoOp
<1>5. WaitingType'
  <2>1. waiting' \in [Threads -> NdisEvents \cup PnpEvents \cup {NoOp}]
    BY <1>1, <1>2, <1>4
  <2> QED
    BY <1>1, <1>2, <1>3, <1>4, <2>1 DEF DatapathInv, WaitingType, Threads
<1>6. Len(queue) \in 0 .. 2 /\ Len(queue) <= 1
  BY <1>1, MachineWaits DEF Threads
<1>7. Leads(GoalOf(state), queue, final) /\ OneOfNdis(state, queue)
  BY DEF Machine, Work
<1>8. /\ Leads(GoalOf(state), longer, next) /\ Len(longer) = Len(queue) + 1
      /\ \/ longer = <<e>> /\ queue = <<>>
         \/ \E f : queue = <<f>> /\ longer = <<f, e>>
  BY <1>6, <1>7, LeadsFurther
<1>9. OneOfNdis(state, longer)
  <2>1. \A f, g, h : <<f>> # <<g, h>> /\ (<<f>> = <<g>> => f = g)
    OBVIOUS
  <2>2. \A f, g, h, k : <<f, g>> = <<h, k>> => f = h /\ g = k
    OBVIOUS
  <2> HIDE DEF longer
  <2>3. CASE longer = <<e>> /\ queue = <<>>
    BY <2>1, <2>3 DEF OneOfNdis
  <2>4. CASE \E f : queue = <<f>> /\ longer = <<f, e>>
    BY <2>1, <2>2, <2>4 DEF OneOfNdis
  <2> QED
    BY <1>8, <2>3, <2>4
<1>10. datapathMachine' = At(state, op, longer)
  BY <1>1, Enqueues DEF Machine, At, Longer
<1>11. Awaited(op, longer)'
  <2>1. \A holds : One(holds) \in {0, 1}
    BY DEF One
  <2>2. PICK other \in Threads : other # t /\ Threads = {t, other}
    BY <1>2 DEF Threads
  <2>3. One(waiting[t] # NoOp) = 0 /\ One(waiting[t] # NoOp)' = 1
    BY <1>1, <1>3, <1>4 DEF One
  <2>4. One(waiting[other] # NoOp)' = One(waiting[other] # NoOp)
    BY <1>3, <2>2
  <2>5. PICK a, b, d \in {0, 1} : a = One(op # NoOp) /\ d = One(waiting[other] # NoOp)
                                   /\ b = One(transitionComplete)
    BY <2>1, Zenon
  <2>6. b = One(transitionComplete)'
    BY <1>1, <2>5
  <2> HIDE DEF longer
  <2>7. CASE t = Ndis
    <3>1. other = PnpPower
      BY <1>2, <2>2, <2>7 DEF Threads
    <3>2. Len(queue) + a + b <= 0 + d
      BY <2>3, <2>5, <2>7, <3>1, Zenon DEF Machine, Awaited
    <3>3. Len(longer) + a + b <= 1 + d
      BY <1>6, <1>8, <3>2
    <3> QED
      BY <2>3, <2>4, <2>5, <2>6, <2>7, <3>1, <3>3, Zenon DEF Awaited
  <2>8. CASE t = PnpPower
    <3>1. other = Ndis
      BY <1>2, <2>2, <2>8 DEF Threads
    <3>2. Len(queue) + a + b <= d + 0
      BY <2>3, <2>5, <2>8, <3>1, Zenon DEF Machine, Awaited
    <3>3. Len(longer) + a + b <= d + 1
      BY <1>6, <1>8, <3>2
    <3> QED
      BY <2>3, <2>4, <2>5, <2>6, <2>8, <3>1, <3>3, Zenon DEF Awaited
  <2> QED
    BY <2>7, <2>8 DEF Threads
<1> HIDE DEF longer
<1>12. Work(state, op, longer, next)
  BY <1>8, <1>9 DEF Machine, Work
<1>13. Alone(state, longer, next)'
  BY DEF longer
<1>14. Machine(state, op, longer, next)'
  BY <1>1, <1>10, <1>11, <1>12, <1>13 DEF Machine
<1>15. OnItsWay(next)'
  BY <1>14 DEF OnItsWay
<1> QED
  BY <1>5, <1>15 DEF DatapathInv

-----------------------------------------------------------------------------
(* The invariant of the PnP thread, of the power callbacks and of the       *)
(* rundown.                                                                 *)

\* The resting state has a data path, and an interface.
Created(final) == final \in {"DatapathPaused", "DatapathRunning"}
InUse(final) == final # "Halted"
CreatedAsAsked(final) == Created(final) <=> powered /\ InUse(final)

\* The PnP thread serves a request: it has asked for what the request needs, or is about
\* to ask for it.
Serving(final) ==
  \/ script = <<"Answer">> /\ CreatedAsAsked(final)
  \/ script = <<"DatapathCreate", "Answer">> /\ powered /\ InUse(final) /\ ~Created(final)
  \/ script = <<"DatapathDestroy", "Answer">> /\ ~powered /\ Created(final)
  \/ script = <<"NdisMiniportHalt", "Answer">> /\ ~powered /\ InUse(final) /\ ~Created(final)

\* It does nothing, or starts the interface, or stops it.
NotServing(final) ==
  \/ script = <<>> /\ CreatedAsAsked(final)
  \/ script = <<"NdisMiniportInitializeEx">> /\ ~powered /\ ~InUse(final)
  \/ script = <<"NdisMiniportInitializeEx", "DatapathCreate">> /\ powered /\ ~InUse(final)
  \/ script = <<"DatapathCreate">> /\ powered /\ InUse(final) /\ ~Created(final)
  \/ script = <<"DatapathDestroy", "NdisMiniportHalt">> /\ powered /\ Created(final)
  \/ script = <<"NdisMiniportHalt">> /\ InUse(final) /\ ~Created(final)

ScriptInv(final) == IF request = "taken" THEN Serving(final) ELSE NotServing(final)

\* What the WDF thread has asked for in each phase, and what has come of it.
PhaseInv ==
  CASE phase \in {"enabled", "D0", "suspended"} -> request = "none" /\ powered
    [] phase = "starting" ->
         \/ request = "IoStart" /\ ~powered
         \/ request \in {"taken", "done"} /\ powered
    [] phase = "stopping" ->
         \/ request = "IoStop" /\ powered
         \/ request \in {"taken", "done"} /\ ~powered
    [] phase = "releasing" -> request \in {"Stop", "taken", "done"} /\ ~powered
    [] OTHER -> request = "none" /\ ~powered

HardwareInv ==
  phase \in {"starting", "enabled", "D0", "suspended", "stopping"} => hardwareEnabled

\* The PnP thread asks for the data path, and for its end, in D0 or while WDF waits.
WaitInv ==
  waiting[PnpPower] \in {"DatapathCreate", "DatapathDestroy"} =>
    powered \/ (request = "taken" /\ phase = "stopping")

\* The interface is gone when the hardware has been released, and does not come back.
Released ==
  \/ phase \in {"added", "released", "cleaning", "removed"}
  \/ phase = "releasing" /\ request = "done"

ReleasedInv(final) ==
  /\ Released => script = <<>> /\ waiting[PnpPower] = NoOp /\ ~InUse(final)
  /\ phase = "releasing" /\ request = "taken" =>
       \/ script = <<"NdisMiniportHalt", "Answer">> /\ waiting[PnpPower] = NoOp
       \/ script = <<"Answer">> /\ ~InUse(final)

\* Nobody starts an interface without the machine.
BornInv ==
  Unborn => /\ script \in {<<>>, <<"Answer">>}
            /\ datapathMachine # NotInitialized => phase = "removed"

\* The rundown is open on the way down, and who has entered it may still be there when
\* it closes.
RundownInv ==
  /\ dxRundown \in BOOLEAN
  /\ ~dxRundown <=> phase \in {"suspended", "stopping", "exiting"}
  /\ powerReference \in [Callers -> {"none", "rundown", "wdf", "failed"}]
  /\ \A c \in Callers : powerReference[c] = "rundown" =>
       phase \in {"suspended", "stopping", "exiting", "closing"}

\* All of it, when the machine is on its way to final.
Power(final) ==
  /\ DatapathInv(final) /\ ScriptInv(final) /\ ReleasedInv(final)
  /\ PhaseInv /\ HardwareInv /\ WaitInv /\ BornInv /\ RundownInv

PowerInv == \E final \in Resting : Power(final)

\* What the PnP thread can see of it.
LEMMA Interface ==
  ASSUME NEW final, DatapathInv(final)
  PROVE  (InterfaceStarted <=> InUse(final)) /\ final \in Resting
<1>1. CASE OnItsWay(final)
  <2>1. PICK state, op, queue : Machine(state, op, queue, final)
    BY <1>1 DEF OnItsWay
  <2> QED
    BY <2>1, AsNdisSees, MachineWaits DEF InterfaceStarted, InUse
<1>2. CASE Unborn /\ final = "Halted"
  BY <1>2 DEF Unborn, InterfaceStarted, InUse, Resting
<1> QED
  BY <1>1, <1>2 DEF DatapathInv

\* The adapter stays as it is.
LEMMA AdapterFrame ==
  ASSUME UNCHANGED <<datapathMachine, transitionComplete, waiting, miniport, app>>
  PROVE  /\ \A final : DatapathInv(final) => DatapathInv(final)'
         /\ Unborn' => Unborn
<1>1. Unborn' <=> Unborn
  BY DEF Unborn
<1>2. WaitingType => WaitingType'
  BY DEF WaitingType
<1>3. \A state, queue, final : Alone(state, queue, final) => Alone(state, queue, final)'
  BY DEF Alone
<1>4. \A op, queue : Awaited(op, queue) => Awaited(op, queue)'
  BY DEF Awaited
<1>5. \A state, op, queue, final :
         Machine(state, op, queue, final) => Machine(state, op, queue, final)'
  BY <1>3, <1>4 DEF Machine
<1>6. \A final : OnItsWay(final) => OnItsWay(final)'
  BY <1>5, Zenon DEF OnItsWay
<1> QED
  BY <1>1, <1>2, <1>6 DEF DatapathInv

\* The script concerns the power and whether a request is served.
LEMMA ScriptFrame ==
  ASSUME NEW final, NEW next, ScriptInv(final), UNCHANGED <<script, powered>>,
         request' = "taken" <=> request = "taken",
         Created(next) <=> Created(final), InUse(next) <=> InUse(final)
  PROVE  ScriptInv(next)'
<1>1. CreatedAsAsked(next)' <=> CreatedAsAsked(final)
  BY DEF CreatedAsAsked
<1>2. Serving(next)' <=> Serving(final)
  BY <1>1 DEF Serving
<1>3. NotServing(next)' <=> NotServing(final)
  BY <1>1 DEF NotServing
<1> QED
  BY <1>2, <1>3 DEF ScriptInv

\* What a step of the WDF thread, of the reset machine or of a powered callback has to
\* keep: the adapter stays as it is.
LEMMA OutsideFrame ==
  ASSUME NEW final, Power(final), UNCHANGED <<adapterVars, powered>>,
         request' = "taken" <=> request = "taken",
         phase = "removed" => phase' = "removed",
         PhaseInv', HardwareInv', WaitInv', ReleasedInv(final)', RundownInv'
  PROVE  Power(final)'
<1>1. DatapathInv(final)' /\ (Unborn' => Unborn)
  BY AdapterFrame DEF Power, adapterVars
<1>2. ScriptInv(final)'
  BY ScriptFrame DEF Power, adapterVars
<1>3. BornInv'
  BY <1>1 DEF Power, BornInv, adapterVars
<1> QED
  BY <1>1, <1>2, <1>3 DEF Power

\* The steps of the WDF thread.
WdfThreadStep ==
  \/ PrePrepareHardware \/ PreD0Entry \/ PreSelfManagedIoSuspend \/ PreReleaseHardware
  \/ DeviceCleanup \/ WdfStep

\* Each goes on from one phase to another, and changes at most the request and what
\* the idle state machine knows.
LEMMA WdfThreadInv ==
  ASSUME NEW final, Power(final), WdfThreadStep
  PROVE  Power(final)'
<1> USE DEF WdfThreadStep, WdfStep, PrePrepareHardware, PreD0Entry, PostHardwareEnabled,
       D0EntryFails, PowerUpReturns, PostSelfManagedIo, PreSelfManagedIoSuspend,
       PreHardwareDisabled, PowerDownReturns, PostD0Exit, PostD0ExitReturns,
       PreReleaseHardware, ReleaseReturns, DeviceCleanup, DeviceCleanupReturns, D0Entry,
       HardwareEnabled, SelfManagedIoStart, SelfManagedIoSuspend, HardwareDisabled,
       D0ExitCloses, D0ExitReturns, Holders, GoesOn, idleVars
<1>1. PhaseInv'
  BY SMTT(30) DEF Power, PhaseInv
<1>2. HardwareInv'
  BY SMTT(30) DEF Power, HardwareInv, PhaseInv
<1>3. ReleasedInv(final)'
  BY SMTT(60)
  DEF Power, ReleasedInv, Released, ScriptInv, NotServing, PhaseInv, adapterVars
<1>4. WaitInv'
  <2>1. UNCHANGED <<waiting, powered>>
    BY DEF adapterVars
  <2>2. phase = "stopping" /\ request = "taken" => phase' = phase /\ request' = request
    OBVIOUS
  <2> QED
    BY ONLY Power(final), <2>1, <2>2 DEF Power, WaitInv
<1>5. RundownInv'
  <2>1. dxRundown' \in BOOLEAN /\ (~dxRundown' <=> phase' \in {"suspended", "stopping", "exiting"})
    <3> DEFINE down(p) == p \in {"suspended", "stopping", "exiting"}
    <3>1. dxRundown \in BOOLEAN /\ (~dxRundown <=> down(phase))
      BY ONLY Power(final) DEF Power, RundownInv
    <3>2. CASE PreSelfManagedIoSuspend
      BY <3>2
    <3>3. CASE PostD0Exit
      BY <3>3
    <3>4. CASE ~PreSelfManagedIoSuspend /\ ~PostD0Exit
      <4>1. dxRundown' = dxRundown
        BY <3>4
      <4>2. down(phase') <=> down(phase)
        BY <3>4
      <4> QED
        BY ONLY <3>1, <4>1, <4>2
    <3> QED
      BY ONLY <3>2, <3>3, <3>4
  <2>2. powerReference' = powerReference
    OBVIOUS
  <2>3. ASSUME NEW c \in Callers, powerReference[c] = "rundown"
        PROVE  phase' \in {"suspended", "stopping", "exiting", "closing"}
    <3>1. phase \in {"suspended", "stopping", "exiting", "closing"}
      BY <2>3 DEF Power, RundownInv
    <3>2. phase # "closing" \/ ~PostD0ExitReturns
      BY <2>3
    <3> QED
      BY <3>1, <3>2
  <2> QED
    BY ONLY Power(final), <2>1, <2>2, <2>3 DEF Power, RundownInv
<1>6. /\ UNCHANGED <<adapterVars, powered>>
      /\ request' = "taken" <=> request = "taken"
      /\ phase = "removed" => phase' = "removed"
  BY SMTT(30) DEF Power, PhaseInv
<1> QED
  BY ONLY Power(final), <1>1, <1>2, <1>3, <1>4, <1>5, <1>6, OutsideFrame

\* Everybody else outside the adapter.
LEMMA WdfFrame ==
  ASSUME NEW final, Power(final), UNCHANGED wdfVars,
         UNCHANGED <<hardwareEnabled, dxRundown, powerReference>>
  PROVE  PhaseInv' /\ HardwareInv' /\ RundownInv'
<1>1. PhaseInv'
  BY DEF Power, PhaseInv, wdfVars
<1>2. HardwareInv'
  BY DEF Power, HardwareInv, wdfVars
<1>3. RundownInv'
  BY DEF Power, RundownInv, wdfVars
<1> QED
  BY <1>1, <1>2, <1>3

\* Nothing of the interface changes.
LEMMA ReleasedFrame ==
  ASSUME NEW final, Power(final), UNCHANGED <<wdfVars, adapterVars>>
  PROVE  ReleasedInv(final)' /\ WaitInv'
  BY DEF Power, ReleasedInv, Released, WaitInv, wdfVars, adapterVars

\* A powered callback keeps the invariant.
LEMMA CallbackInv ==
  ASSUME NEW final, Power(final),
         NEW c \in Callers, InvokePoweredCallback(c) \/ PoweredCallbackStep(c)
  PROVE  Power(final)'
<1>1. UNCHANGED <<wdfVars, adapterVars, hardwareEnabled, dxRundown>>
  BY DEF InvokePoweredCallback, PoweredCallbackStep, StopIdle, HardwareWaitReturns,
         CallbackReturns, adapterVars
<1>2. PhaseInv' /\ HardwareInv' /\ ReleasedInv(final)' /\ WaitInv'
  <2>1. PhaseInv'
    BY <1>1 DEF Power, PhaseInv, wdfVars
  <2>2. HardwareInv'
    BY <1>1 DEF Power, HardwareInv, wdfVars
  <2> QED
    BY <1>1, <2>1, <2>2, ReleasedFrame
<1>3. RundownInv'
  <2>1. CASE powerReference' = [powerReference EXCEPT ![c] = "rundown"] /\ ~dxRundown
    BY <1>1, <2>1 DEF Power, RundownInv, wdfVars
  <2>2. ASSUME NEW reference \in {"none", "wdf", "failed"},
               powerReference' = [powerReference EXCEPT ![c] = reference]
        PROVE  RundownInv'
    BY <1>1, <2>2 DEF Power, RundownInv, wdfVars
  <2>3. CASE powerReference' = powerReference
    BY <1>1, <2>3 DEF Power, RundownInv, wdfVars
  <2>4. CASE InvokePoweredCallback(c)
    BY <2>1, <2>2, <2>4 DEF InvokePoweredCallback, StopIdle
  <2>5. CASE PoweredCallbackStep(c)
    BY <2>2, <2>3, <2>5 DEF PoweredCallbackStep, HardwareWaitReturns, CallbackReturns
  <2> QED
    BY <2>4, <2>5
<1> QED
  BY <1>1, <1>2, <1>3, OutsideFrame DEF wdfVars

\* The reset machine and those who ask for a reset keep it.
LEMMA ResetInv ==
  ASSUME NEW final, Power(final),
         \/ \E r \in Requesters : RequestReset(r) \/ ResetRequested(r)
         \/ ResetMachineStep
         \/ UNCHANGED vars
  PROVE  Power(final)'
<1>1. UNCHANGED <<wdfVars, idleVars, adapterVars>>
  BY DEF RequestReset, ResetRequested, ResetMachineStep, vars
<1>2. UNCHANGED <<hardwareEnabled, dxRundown, powerReference>>
  BY <1>1 DEF idleVars
<1> QED
  BY <1>1, <1>2, WdfFrame, ReleasedFrame, OutsideFrame DEF wdfVars

-----------------------------------------------------------------------------
(* The steps of the adapter.                                                *)

\* What a step of the adapter has to keep: the PnP thread waits no longer, or is where
\* it was.
LEMMA ThreadFrame ==
  ASSUME NEW final, Power(final), UNCHANGED <<wdfVars, idleVars, script>>,
         waiting'[PnpPower] \in {waiting[PnpPower], NoOp},
         NEW next, DatapathInv(next)', BornInv',
         Created(next) <=> Created(final), InUse(next) <=> InUse(final)
  PROVE  Power(next)'
<1>1. PhaseInv' /\ HardwareInv' /\ RundownInv'
  BY WdfFrame DEF idleVars
<1>2. phase' = phase /\ request' = request /\ powered' = powered /\ script' = script
  BY DEF wdfVars
<1>3. ReleasedInv(next)'
  BY <1>2 DEF Power, ReleasedInv, Released
<1>4. WaitInv'
  BY <1>2 DEF Power, WaitInv, NoOp
<1>5. ScriptInv(next)'
  BY <1>2, ScriptFrame DEF Power
<1> QED
  BY <1>1, <1>3, <1>4, <1>5 DEF Power

\* A machine on its way exists.
LEMMA BornAfter == \A final : OnItsWay(final)' => ~Unborn'
<1>1. \A final : OnItsWay(final) => ~Unborn
  BY Born DEF OnItsWay
<1>2. (\A final : OnItsWay(final) => ~Unborn)'
  BY <1>1, PTL
<1> QED
  BY <1>2

\* The adapter is created,
LEMMA CreateAdapterInv ==
  ASSUME NEW final, Power(final), CreateAdapter
  PROVE  Power("Halted")'
<1>1. /\ final = "Halted" /\ DatapathInv("Halted")' /\ OnItsWay("Halted")'
      /\ UNCHANGED <<wdfVars, idleVars, script, waiting>>
  BY InitializeInv DEF Power, CreateAdapter, Initialize
<1>2. BornInv'
  BY <1>1, BornAfter DEF BornInv
<1> QED
  BY <1>1, <1>2, ThreadFrame

\* and deleted.
LEMMA CleanUpAdapterInv ==
  ASSUME NEW final, Power(final), CleanUpAdapter
  PROVE  Power("Halted")'
<1>1. phase = "removed" /\ UNCHANGED <<wdfVars, idleVars, script, waiting>>
  BY DEF CleanUpAdapter, EvtCleanup
<1>2. script = <<>> /\ waiting[PnpPower] = NoOp /\ final = "Halted"
  BY <1>1 DEF Power, ReleasedInv, Released, InUse
<1>3. DatapathInv("Halted")' /\ Unborn'
  BY <1>2, EvtCleanupInv DEF Power, CleanUpAdapter
<1>4. BornInv'
  BY <1>1, <1>2 DEF BornInv, wdfVars
<1> QED
  BY <1>1, <1>2, <1>3, <1>4, ThreadFrame

\* NDIS restarts the adapter or pauses it.
LEMMA NdisStepInv ==
  ASSUME NEW final, Power(final), NdisStep
  PROVE  \E next \in Resting : Power(next)'
<1>1. /\ UNCHANGED <<wdfVars, idleVars, script>> /\ waiting[Ndis] = NoOp
      /\ \E e : waiting' = [waiting EXCEPT ![Ndis] = e]
  BY DEF NdisStep, EvtNdisRestart, EvtNdisPause, EnqueueEventSync
<1>2. waiting'[PnpPower] = waiting[PnpPower]
  BY <1>1, DatapathThreadAssumption DEF Power, DatapathInv, WaitingType
<1>3. ~Unborn
  BY DEF Unborn, NdisStep, EvtNdisRestart, EvtNdisPause
<1>4. PICK state, op, queue : Machine(state, op, queue, final)
  BY <1>3 DEF Power, DatapathInv, OnItsWay
<1>5. Work(state, op, queue, final) /\ Len(queue) <= 1 /\ Alone(state, queue, final)
  BY <1>1, <1>4, MachineWaits DEF Machine
<1>6. ASSUME NEW e \in NdisEvents, NEW next, Turns(final, e, next),
             EnqueueEventSync(Ndis, e), miniport' = MiniportIn(state, next),
             ToldIn(state) <=> final \in {"AdapterRestarted", "DatapathRunning"},
             final # "Halted", next # "Halted",
             waiting[PnpPower] # "NdisMiniportInitializeEx"
      PROVE  Power(next)'
  <2>1. state \notin Announcing /\ \A f \in NdisEvents : queue # <<f>>
    BY <1>5, <1>6, NothingOfNdis
  <2>2. Alone(state, Append(queue, e), next)'
    BY <1>2, <1>5, <1>6 DEF Alone
  <2>3. DatapathInv(next)' /\ OnItsWay(next)'
    BY <1>4, <1>6, <2>1, <2>2, EnqueueInv DEF Power, Threads
  <2>4. BornInv'
    BY <2>3, BornAfter DEF BornInv
  <2>5. (Created(next) <=> Created(final)) /\ (InUse(next) <=> InUse(final))
    BY <1>6 DEF Turns, NdisEvents, Created, InUse
  <2> QED
    BY <1>1, <1>2, <2>3, <2>4, <2>5, ThreadFrame
<1>7. CASE EvtNdisRestart
  <2>1. ~ToldIn(state) /\ final \in {"AdapterPaused", "DatapathPaused"}
    BY <1>4, <1>7, AsNdisSees DEF EvtNdisRestart
  <2> DEFINE next == IF final = "AdapterPaused" THEN "AdapterRestarted" ELSE "DatapathRunning"
  <2>2. Turns(final, "NdisMiniportRestart", next) /\ next # "Halted" /\ next \in Resting
    BY <2>1 DEF Turns, Resting
  <2>3. miniport' = MiniportIn(state, next)
    BY <1>7, <2>1 DEF EvtNdisRestart, MiniportIn
  <2>4. Power(next)'
    BY <1>6, <1>7, <2>1, <2>2, <2>3 DEF EvtNdisRestart, NdisEvents
  <2> QED
    BY <2>2, <2>4
<1>8. CASE EvtNdisPause
  <2>1. ToldIn(state) /\ final \in {"AdapterRestarted", "DatapathRunning"}
    BY <1>4, <1>8, AsNdisSees DEF EvtNdisPause
  <2> DEFINE next == IF final = "AdapterRestarted" THEN "AdapterPaused" ELSE "DatapathPaused"
  <2>2. Turns(final, "NdisMiniportPause", next) /\ next # "Halted" /\ next \in Resting
    BY <2>1 DEF Turns, Resting
  <2>3. miniport' = MiniportIn(state, next)
    BY <1>8, <2>1 DEF EvtNdisPause, MiniportIn
  <2>4. waiting[PnpPower] # "NdisMiniportInitializeEx"
    BY <1>5, <2>1 DEF Alone
  <2>5. Power(next)'
    BY <1>6, <1>8, <2>1, <2>2, <2>3, <2>4 DEF EvtNdisPause, NdisEvents
  <2> QED
    BY <2>2, <2>5
<1> QED
  BY <1>7, <1>8 DEF NdisStep

\* The data path machine goes on, where it was going.
LEMMA DatapathMachineStepInv ==
  ASSUME NEW final, Power(final), DatapathMachineStep
  PROVE  Power(final)'
<1>1. DatapathStep /\ UNCHANGED <<wdfVars, idleVars>> /\ DatapathInv(final)
  BY DEF DatapathMachineStep, Power
<1>2. UNCHANGED <<waiting, script>>
  BY <1>1
  DEF DatapathStep, TakeEvent, AsyncTransitionComplete, DatapathCreate, DatapathDestroy,
      DatapathStart, DatapathStop, DatapathStartRestartComplete, DatapathStopPauseComplete,
      DatapathPauseComplete, DatapathRestartComplete, NdisHalt
<1>3. DatapathInv(final)' /\ (~Unborn => OnItsWay(final)')
  BY <1>1, TakeEventInv, AsyncTransitionCompleteInv, DatapathCreateInv, DatapathDestroyInv,
     DatapathStartInv, DatapathStopInv, DatapathStartRestartCompleteInv,
     DatapathStopPauseCompleteInv, DatapathPauseCompleteInv, DatapathRestartCompleteInv,
     NdisHaltInv
  DEF DatapathStep
<1>4. BornInv'
  <2>1. CASE ~Unborn
    BY <1>3, <2>1, BornAfter DEF BornInv
  <2>2. CASE Unborn
    <3>1. datapathMachine # NotInitialized
      BY <1>1
      DEF DatapathStep, TakeEvent, CanDequeue, AsyncTransitionComplete, DatapathCreate,
          DatapathDestroy, DatapathStart, DatapathStop, DatapathStartRestartComplete,
          DatapathStopPauseComplete, DatapathPauseComplete, DatapathRestartComplete, NdisHalt,
          Runs, NotInitialized, NoOp
    <3>2. script \in {<<>>, <<"Answer">>} /\ phase = "removed"
      BY <2>2, <3>1 DEF Power, BornInv
    <3> QED
      BY <1>1, <1>2, <3>2 DEF BornInv, wdfVars
  <2> QED
    BY <2>1, <2>2
<1> QED
  BY <1>1, <1>2, <1>3, <1>4, ThreadFrame

\* A caller goes on.
LEMMA EnqueueEventSyncReturnsInv ==
  ASSUME NEW final, Power(final), NEW t \in Threads, EnqueueEventSyncReturns(t)
  PROVE  Power(final)'
<1>1. /\ TransitionCompletes(t) /\ UNCHANGED <<wdfVars, idleVars, script>>
      /\ waiting' = [waiting EXCEPT ![t] = NoOp]
  BY DEF EnqueueEventSyncReturns, TransitionCompletes
<1>2. DatapathInv(final)' /\ OnItsWay(final)'
  BY <1>1, TransitionCompletesInv DEF Power
<1>3. BornInv'
  BY <1>2, BornAfter DEF BornInv
<1>4. waiting'[PnpPower] \in {waiting[PnpPower], NoOp}
  <2>1. waiting \in [Threads -> NdisEvents \cup PnpEvents \cup {NoOp}]
    BY DEF Power, DatapathInv, WaitingType, Threads
  <2> QED
    BY <1>1, <2>1 DEF Threads
<1> QED
  BY <1>1, <1>2, <1>3, <1>4, ThreadFrame

-----------------------------------------------------------------------------
(* The steps of the PnP and power machines.                                 *)

\* Sequences of one or two elements.
LEMMA Joined == ASSUME NEW s, NEW u PROVE <<s>> \o <<u>> = <<s, u>>
<1> DEFINE both == <<s>> \o <<u>>
           pair == <<s, u>>
<1>1. both \in Seq({s, u}) /\ Len(both) = 2 /\ both[1] = s /\ both[2] = u
  OBVIOUS
<1>2. pair \in Seq({s, u}) /\ Len(pair) = 2 /\ pair[1] = s /\ pair[2] = u
  OBVIOUS
<1>3. \A i \in 1 .. Len(both) : both[i] = pair[i]
  BY <1>1, <1>2
<1> HIDE DEF both, pair
<1>4. both = pair
  BY <1>1, <1>2, <1>3, SeqEqual
<1> QED
  BY <1>4 DEF both, pair

\* Nothing before it or after it.
LEMMA JoinedOne == \A s : <<>> \o <<s>> = <<s>> /\ <<s>> \o <<>> = <<s>>
<1>1. ASSUME NEW s PROVE <<>> \o <<s>> = <<s>>
  OBVIOUS
<1>2. ASSUME NEW s PROVE <<s>> \o <<>> = <<s>>
  OBVIOUS
<1> QED
  BY <1>1, <1>2

\* The head and the tail of the scripts.
LEMMA Parts ==
  /\ \A s : Head(<<s>>) = s /\ Tail(<<s>>) = <<>>
  /\ \A s, u : Head(<<s, u>>) = s /\ Tail(<<s, u>>) = <<u>>
<1>1. ASSUME NEW s PROVE Head(<<s>>) = s /\ Tail(<<s>>) = <<>>
  OBVIOUS
<1>2. ASSUME NEW s, NEW u PROVE Head(<<s, u>>) = s /\ Tail(<<s, u>>) = <<u>>
  <2> DEFINE rest == Tail(<<s, u>>)
  <2>1. /\ rest \in Seq({s, u}) /\ Len(rest) = 1 /\ rest[1] = u
        /\ <<u>> \in Seq({s, u}) /\ Len(<<u>>) = 1 /\ <<u>>[1] = u
    OBVIOUS
  <2>2. \A i \in 1 .. Len(rest) : rest[i] = <<u>>[i]
    BY <2>1
  <2>3. rest = <<u>>
    <3> HIDE DEF rest
    <3> QED
      BY <2>1, <2>2, SeqEqual
  <2>4. Head(<<s, u>>) = s
    OBVIOUS
  <2> QED
    BY <2>3, <2>4
<1> QED
  BY <1>1, <1>2

\* The thread does nothing.
LEMMA IdleThread ==
  ASSUME NEW final, Power(final), PnpIdle
  PROVE  /\ request # "taken" /\ CreatedAsAsked(final)
         /\ script = <<>> /\ waiting[PnpPower] = NoOp
         /\ InterfaceStarted <=> InUse(final)
<1>1. script = <<>> /\ waiting[PnpPower] = NoOp
  BY DEF PnpIdle
<1>2. InterfaceStarted <=> InUse(final)
  BY Interface DEF Power
<1> QED
  BY <1>1, <1>2 DEF Power, ScriptInv, Serving, NotServing

\* A step that only makes or shortens the script.
LEMMA ScriptOnly ==
  ASSUME NEW final, Power(final),
         UNCHANGED <<datapathMachine, transitionComplete, waiting, miniport, app>>
  PROVE  /\ DatapathInv(final)' /\ (Unborn' => Unborn)
         /\ waiting'[PnpPower] = waiting[PnpPower]
         /\ InterfaceStarted <=> InUse(final)
  BY AdapterFrame, Interface DEF Power

\* The PnP thread takes a request: what it has to do fits what exists.
LEMMA TakeRequestInv ==
  ASSUME NEW final, Power(final), TakeRequest
  PROVE  Power(final)'
<1>1. /\ request # "taken" /\ CreatedAsAsked(final) /\ waiting[PnpPower] = NoOp
      /\ InterfaceStarted <=> InUse(final)
  BY IdleThread DEF TakeRequest
<1>2. DatapathInv(final)' /\ (Unborn' => Unborn) /\ waiting'[PnpPower] = waiting[PnpPower]
  BY ScriptOnly DEF TakeRequest
<1>3. /\ request = "IoStart" => phase = "starting" /\ ~powered
      /\ request = "IoStop" => phase = "stopping" /\ powered
      /\ request = "Stop" => phase = "releasing" /\ ~powered
      /\ request \in {"IoStart", "IoStop", "Stop"}
  BY DEF Power, PhaseInv, TakeRequest, Requested
<1>4. /\ ~InterfaceStarted => script' = <<"Answer">>
      /\ InterfaceStarted /\ request = "IoStart" => script' = <<"DatapathCreate", "Answer">>
      /\ InterfaceStarted /\ request = "IoStop" => script' = <<"DatapathDestroy", "Answer">>
      /\ InterfaceStarted /\ request = "Stop" => script' = <<"NdisMiniportHalt", "Answer">>
  <2>1. CASE ~InterfaceStarted
    BY <2>1, JoinedOne DEF TakeRequest
  <2>2. CASE InterfaceStarted /\ request = "IoStart"
    BY <2>2, Joined DEF TakeRequest
  <2>3. CASE InterfaceStarted /\ request = "IoStop"
    BY <2>3, Joined DEF TakeRequest
  <2>4. CASE InterfaceStarted /\ request = "Stop"
    BY <2>4, Joined DEF TakeRequest
  <2> QED
    BY <1>3, <2>1, <2>2, <2>3, <2>4
<1>5. request' = "taken" /\ powered' = (request = "IoStart") /\ phase' = phase
  BY DEF TakeRequest
<1>6. PhaseInv'
  BY <1>3, <1>5 DEF PhaseInv
<1>7. ScriptInv(final)'
  <2>1. Serving(final)'
    BY <1>1, <1>3, <1>4, <1>5 DEF Serving, CreatedAsAsked, Created, InUse
  <2> QED
    BY <1>5, <2>1 DEF ScriptInv
<1>8. ReleasedInv(final)' /\ WaitInv'
  BY <1>1, <1>2, <1>3, <1>4, <1>5 DEF ReleasedInv, Released, WaitInv, NoOp
<1>9. BornInv'
  <2>1. Unborn => ~InterfaceStarted
    BY DEF Unborn, InterfaceStarted
  <2> QED
    BY <1>2, <1>4, <1>5, <2>1 DEF Power, BornInv, TakeRequest
<1>10. HardwareInv' /\ RundownInv'
  BY <1>5 DEF Power, HardwareInv, RundownInv, TakeRequest, idleVars
<1> QED
  BY <1>2, <1>6, <1>7, <1>8, <1>9, <1>10 DEF Power

\* It answers when it has done it.
LEMMA AnswerRequestInv ==
  ASSUME NEW final, Power(final), AnswerRequest
  PROVE  Power(final)'
<1>1. /\ request' = "done" /\ powered' = powered /\ phase' = phase /\ script' = <<>>
      /\ script = <<"Answer">> /\ waiting[PnpPower] = NoOp
  BY DEF AnswerRequest
<1>2. request = "taken" /\ CreatedAsAsked(final)
  BY <1>1 DEF Power, ScriptInv, Serving, NotServing
<1>3. DatapathInv(final)' /\ (Unborn' => Unborn) /\ waiting'[PnpPower] = waiting[PnpPower]
  BY ScriptOnly DEF AnswerRequest
<1>4. PhaseInv'
  BY <1>1, <1>2 DEF Power, PhaseInv
<1>5. ScriptInv(final)'
  BY <1>1, <1>2 DEF ScriptInv, NotServing, CreatedAsAsked
<1>6. ReleasedInv(final)' /\ WaitInv'
  <2>1. phase \notin {"added", "released", "cleaning", "removed"}
    BY <1>2 DEF Power, PhaseInv
  <2>2. phase = "releasing" => ~InUse(final)
    BY <1>1, <1>2 DEF Power, ReleasedInv
  <2> QED
    BY <1>1, <1>3, <2>1, <2>2 DEF ReleasedInv, Released, WaitInv, NoOp
<1>7. BornInv'
  BY <1>1, <1>3 DEF Power, BornInv, AnswerRequest
<1>8. HardwareInv' /\ RundownInv'
  BY <1>1 DEF Power, HardwareInv, RundownInv, AnswerRequest, idleVars
<1> QED
  BY <1>3, <1>4, <1>5, <1>6, <1>7, <1>8 DEF Power

\* The client driver starts the interface,
LEMMA StartInterfaceInv ==
  ASSUME NEW final, Power(final), StartInterface
  PROVE  Power(final)'
<1>1. /\ request # "taken" /\ CreatedAsAsked(final) /\ waiting[PnpPower] = NoOp
      /\ InterfaceStarted <=> InUse(final)
  BY IdleThread DEF StartInterface
<1>2. DatapathInv(final)' /\ (Unborn' => Unborn) /\ waiting'[PnpPower] = waiting[PnpPower]
  BY ScriptOnly DEF StartInterface
<1>3. /\ powered => script' = <<"NdisMiniportInitializeEx", "DatapathCreate">>
      /\ ~powered => script' = <<"NdisMiniportInitializeEx">>
      /\ UNCHANGED <<phase, request, powered>>
      /\ ~InterfaceStarted
      /\ phase \notin {"added", "releasing", "released", "cleaning", "removed"}
  BY Joined, JoinedOne DEF StartInterface, wdfVars
<1>4. PhaseInv' /\ HardwareInv' /\ RundownInv'
  BY WdfFrame DEF StartInterface, idleVars
<1>5. ScriptInv(final)'
  <2>1. NotServing(final)'
    BY <1>1, <1>3 DEF NotServing
  <2> QED
    BY <1>1, <1>3, <2>1 DEF ScriptInv
<1>6. ReleasedInv(final)' /\ WaitInv'
  BY <1>1, <1>2, <1>3 DEF ReleasedInv, Released, WaitInv, NoOp
<1>7. BornInv'
  <2>1. ~Unborn
    BY <1>3 DEF Power, BornInv, StartInterface, NotInitialized
  <2> QED
    BY <1>2, <2>1 DEF BornInv
<1> QED
  BY <1>2, <1>4, <1>5, <1>6, <1>7 DEF Power

\* and stops it.
LEMMA StopInterfaceInv ==
  ASSUME NEW final, Power(final), StopInterface
  PROVE  Power(final)'
<1>1. /\ request # "taken" /\ CreatedAsAsked(final) /\ waiting[PnpPower] = NoOp
      /\ InterfaceStarted <=> InUse(final)
  BY IdleThread DEF StopInterface
<1>2. DatapathInv(final)' /\ (Unborn' => Unborn) /\ waiting'[PnpPower] = waiting[PnpPower]
  BY ScriptOnly DEF StopInterface
<1>3. /\ powered => script' = <<"DatapathDestroy", "NdisMiniportHalt">>
      /\ ~powered => script' = <<"NdisMiniportHalt">>
      /\ UNCHANGED <<phase, request, powered>>
      /\ InterfaceStarted
  BY Joined, JoinedOne DEF StopInterface, wdfVars
<1>4. PhaseInv' /\ HardwareInv' /\ RundownInv'
  BY WdfFrame DEF StopInterface, idleVars
<1>5. ScriptInv(final)'
  <2>1. NotServing(final)'
    BY <1>1, <1>3 DEF NotServing, CreatedAsAsked
  <2> QED
    BY <1>1, <1>3, <2>1 DEF ScriptInv
<1>6. ReleasedInv(final)' /\ WaitInv'
  BY <1>1, <1>2, <1>3 DEF Power, ReleasedInv, Released, WaitInv, NoOp
<1>7. BornInv'
  <2>1. ~Unborn
    BY <1>3 DEF Unborn, InterfaceStarted
  <2> QED
    BY <1>2, <2>1 DEF BornInv
<1> QED
  BY <1>2, <1>4, <1>5, <1>6, <1>7 DEF Power

\* The thread asks the machine for the next step of its script.
LEMMA StepAsks ==
  ASSUME NEW final, Power(final), script # <<>>, script # <<"Answer">>,
         NEW e \in PnpEvents, EnqueueEventSync(PnpPower, e), NEW next, Turns(final, e, next),
         UNCHANGED <<wdfVars, idleVars>>,
         ASSUME NEW state, NEW op, NEW queue, Machine(state, op, queue, final),
                waiting'[PnpPower] = e, waiting'[Ndis] = waiting[Ndis]
         PROVE  miniport' = MiniportIn(state, next) /\ Alone(state, Append(queue, e), next)'
  PROVE  /\ DatapathInv(next)' /\ BornInv'
         /\ PhaseInv' /\ HardwareInv' /\ RundownInv'
         /\ waiting[PnpPower] = NoOp /\ waiting'[PnpPower] = e
         /\ phase' = phase /\ request' = request /\ powered' = powered
<1>1. ~Unborn
  BY DEF Power, BornInv
<1>2. PICK state, op, queue : Machine(state, op, queue, final)
  BY <1>1 DEF Power, DatapathInv, OnItsWay
<1>3. waiting[PnpPower] = NoOp /\ waiting'[PnpPower] = e /\ waiting'[Ndis] = waiting[Ndis]
  BY DatapathThreadAssumption DEF EnqueueEventSync, Power, DatapathInv, WaitingType
<1>4. miniport' = MiniportIn(state, next) /\ Alone(state, Append(queue, e), next)'
  BY <1>2, <1>3
<1>5. e \notin NdisEvents /\ PnpPower # Ndis
  BY DatapathThreadAssumption DEF PnpEvents, NdisEvents
<1>6. DatapathInv(next)' /\ OnItsWay(next)'
  BY <1>2, <1>4, <1>5, EnqueueInv DEF Power, Threads
<1>7. BornInv'
  BY <1>6, BornAfter DEF BornInv
<1>8. PhaseInv' /\ HardwareInv' /\ RundownInv'
  BY WdfFrame DEF idleVars
<1> QED
  BY <1>3, <1>6, <1>7, <1>8 DEF wdfVars

\* The PnP thread asks for the data path,
LEMMA StartIoInv ==
  ASSUME NEW final, Power(final), StartIo, UNCHANGED <<wdfVars, idleVars>>
  PROVE  \E next \in Resting : Power(next)'
<1>1. /\ script # <<>> /\ script # <<"Answer">> /\ Head(script) = "DatapathCreate"
      /\ script' = Tail(script) /\ miniport' = miniport
      /\ EnqueueEventSync(PnpPower, "DatapathCreate")
  BY Parts DEF StartIo
<1>2. /\ powered /\ InUse(final) /\ ~Created(final)
      /\ \/ request = "taken" /\ script = <<"DatapathCreate", "Answer">>
         \/ request # "taken" /\ script = <<"DatapathCreate">>
  BY <1>1, Parts DEF Power, ScriptInv, Serving, NotServing
<1>3. final \in {"AdapterPaused", "AdapterRestarted"}
  BY <1>2, Interface DEF Power, Resting, Created, InUse
<1> DEFINE next == IF final = "AdapterPaused" THEN "DatapathPaused" ELSE "DatapathRunning"
<1>4. Turns(final, "DatapathCreate", next) /\ Created(next) /\ InUse(next) /\ next \in Resting
  BY <1>3 DEF Turns, Created, InUse, Resting
<1>5. ASSUME NEW state, NEW op, NEW queue, Machine(state, op, queue, final),
             waiting'[PnpPower] = "DatapathCreate"
      PROVE  /\ miniport' = MiniportIn(state, next)
             /\ Alone(state, Append(queue, "DatapathCreate"), next)'
  <2>1. miniport' = MiniportIn(state, next)
    BY <1>1, <1>3, <1>5 DEF Machine, MiniportIn
  <2> QED
    BY <1>4, <1>5, <2>1 DEF Alone, InUse
<1> HIDE DEF next
<1>6. /\ DatapathInv(next)' /\ BornInv'
      /\ PhaseInv' /\ HardwareInv' /\ RundownInv'
      /\ waiting[PnpPower] = NoOp /\ waiting'[PnpPower] = "DatapathCreate"
      /\ phase' = phase /\ request' = request /\ powered' = powered
  BY <1>1, <1>4, <1>5, StepAsks DEF PnpEvents
<1>7. ~Released /\ ~(phase = "releasing" /\ request = "taken")
  BY <1>1, <1>2 DEF Power, ReleasedInv, PhaseInv
<1>8. ReleasedInv(next)' /\ WaitInv'
  BY <1>2, <1>6, <1>7 DEF ReleasedInv, Released, WaitInv
<1>9. ScriptInv(next)'
  <2>1. CASE request = "taken" /\ script = <<"DatapathCreate", "Answer">>
    <3>1. script' = <<"Answer">>
      BY <1>1, <2>1, Parts
    <3> QED
      BY <1>2, <1>4, <1>6, <2>1, <3>1 DEF ScriptInv, Serving, CreatedAsAsked
  <2>2. CASE request # "taken" /\ script = <<"DatapathCreate">>
    <3>1. script' = <<>>
      BY <1>1, <2>2, Parts
    <3> QED
      BY <1>2, <1>4, <1>6, <2>2, <3>1 DEF ScriptInv, NotServing, CreatedAsAsked
  <2> QED
    BY <1>2, <2>1, <2>2
<1> QED
  BY <1>4, <1>6, <1>8, <1>9 DEF Power

\* for its end,
LEMMA StopIoInv ==
  ASSUME NEW final, Power(final), StopIo, UNCHANGED <<wdfVars, idleVars>>
  PROVE  \E next \in Resting : Power(next)'
<1>1. /\ script # <<>> /\ script # <<"Answer">> /\ Head(script) = "DatapathDestroy"
      /\ script' = Tail(script) /\ miniport' = miniport
      /\ EnqueueEventSync(PnpPower, "DatapathDestroy")
  BY Parts DEF StopIo
<1>2. /\ Created(final)
      /\ \/ request = "taken" /\ script = <<"DatapathDestroy", "Answer">> /\ ~powered
         \/ request # "taken" /\ script = <<"DatapathDestroy", "NdisMiniportHalt">> /\ powered
  BY <1>1, Parts DEF Power, ScriptInv, Serving, NotServing
<1> DEFINE next == IF final = "DatapathPaused" THEN "AdapterPaused" ELSE "AdapterRestarted"
<1>4. Turns(final, "DatapathDestroy", next) /\ ~Created(next) /\ InUse(next) /\ next \in Resting
  BY <1>2 DEF Turns, Created, InUse, Resting
<1>5. ASSUME NEW state, NEW op, NEW queue, Machine(state, op, queue, final),
             waiting'[PnpPower] = "DatapathDestroy"
      PROVE  /\ miniport' = MiniportIn(state, next)
             /\ Alone(state, Append(queue, "DatapathDestroy"), next)'
  <2>1. miniport' = MiniportIn(state, next)
    BY <1>1, <1>2, <1>5 DEF Machine, MiniportIn, Created
  <2> QED
    BY <1>4, <1>5, <2>1 DEF Alone, InUse
<1> HIDE DEF next
<1>6. /\ DatapathInv(next)' /\ BornInv'
      /\ PhaseInv' /\ HardwareInv' /\ RundownInv'
      /\ waiting[PnpPower] = NoOp /\ waiting'[PnpPower] = "DatapathDestroy"
      /\ phase' = phase /\ request' = request /\ powered' = powered
  BY <1>1, <1>4, <1>5, StepAsks DEF PnpEvents
<1>7. ~Released /\ ~(phase = "releasing" /\ request = "taken")
  BY <1>1, <1>2 DEF Power, ReleasedInv, PhaseInv
<1>8. ReleasedInv(next)' /\ WaitInv'
  <2>1. ~powered => request = "taken" /\ phase = "stopping"
    BY <1>2, <1>7 DEF Power, PhaseInv
  <2> QED
    BY <1>6, <1>7, <2>1 DEF ReleasedInv, Released, WaitInv
<1>9. ScriptInv(next)'
  <2>1. CASE request = "taken" /\ script = <<"DatapathDestroy", "Answer">> /\ ~powered
    <3>1. script' = <<"Answer">>
      BY <1>1, <2>1, Parts
    <3> QED
      BY <1>4, <1>6, <2>1, <3>1 DEF ScriptInv, Serving, CreatedAsAsked
  <2>2. CASE request # "taken" /\ script = <<"DatapathDestroy", "NdisMiniportHalt">> /\ powered
    <3>1. script' = <<"NdisMiniportHalt">>
      BY <1>1, <2>2, Parts
    <3> QED
      BY <1>4, <1>6, <2>2, <3>1 DEF ScriptInv, NotServing
  <2> QED
    BY <1>2, <2>1, <2>2
<1> QED
  BY <1>4, <1>6, <1>8, <1>9 DEF Power

\* for the end of the interface,
LEMMA EvtNdisHaltInv ==
  ASSUME NEW final, Power(final), EvtNdisHalt, UNCHANGED <<wdfVars, idleVars>>
  PROVE  \E next \in Resting : Power(next)'
<1>1. /\ script # <<>> /\ script # <<"Answer">> /\ Head(script) = "NdisMiniportHalt"
      /\ script' = Tail(script) /\ miniport = "paused" /\ miniport' = "halted"
      /\ waiting[Ndis] = NoOp
      /\ EnqueueEventSync(PnpPower, "NdisMiniportHalt")
  BY Parts DEF EvtNdisHalt
<1>2. /\ InUse(final) /\ ~Created(final)
      /\ \/ request = "taken" /\ script = <<"NdisMiniportHalt", "Answer">> /\ ~powered
         \/ request # "taken" /\ script = <<"NdisMiniportHalt">>
  BY <1>1, Parts DEF Power, ScriptInv, Serving, NotServing
<1>3. final = "AdapterPaused"
  <2>1. ~Unborn
    BY <1>1 DEF Unborn
  <2>2. PICK state, op, queue : Machine(state, op, queue, final)
    BY <2>1 DEF Power, DatapathInv, OnItsWay
  <2> QED
    BY <1>1, <1>2, <2>2, AsNdisSees DEF Created
<1>4. Turns(final, "NdisMiniportHalt", "Halted") /\ "Halted" \in Resting
      /\ ~Created("Halted") /\ ~InUse("Halted")
  BY <1>3 DEF Turns, Resting, Created, InUse
<1>5. ASSUME NEW state, NEW op, NEW queue, Machine(state, op, queue, final),
             waiting'[PnpPower] = "NdisMiniportHalt", waiting'[Ndis] = waiting[Ndis]
      PROVE  /\ miniport' = MiniportIn(state, "Halted")
             /\ Alone(state, Append(queue, "NdisMiniportHalt"), "Halted")'
  BY <1>1, <1>5 DEF Alone, MiniportIn
<1>6. /\ DatapathInv("Halted")' /\ BornInv'
      /\ PhaseInv' /\ HardwareInv' /\ RundownInv'
      /\ waiting[PnpPower] = NoOp /\ waiting'[PnpPower] = "NdisMiniportHalt"
      /\ phase' = phase /\ request' = request /\ powered' = powered
  BY <1>1, <1>4, <1>5, StepAsks DEF PnpEvents
<1>7. ~Released
  BY <1>1 DEF Power, ReleasedInv
<1>8. ScriptInv("Halted")' /\ (request = "taken" => script' = <<"Answer">>)
  <2>1. CASE request = "taken" /\ script = <<"NdisMiniportHalt", "Answer">> /\ ~powered
    <3>1. script' = <<"Answer">>
      BY <1>1, <2>1, Parts
    <3> QED
      BY <1>4, <1>6, <2>1, <3>1 DEF ScriptInv, Serving, CreatedAsAsked
  <2>2. CASE request # "taken" /\ script = <<"NdisMiniportHalt">>
    <3>1. script' = <<>>
      BY <1>1, <2>2, Parts
    <3> QED
      BY <1>4, <1>6, <2>2, <3>1 DEF ScriptInv, NotServing, CreatedAsAsked
  <2> QED
    BY <1>2, <2>1, <2>2
<1>9. ReleasedInv("Halted")' /\ WaitInv'
  BY <1>4, <1>6, <1>7, <1>8 DEF ReleasedInv, Released, WaitInv
<1> QED
  BY <1>4, <1>6, <1>8, <1>9 DEF Power

\* and for its start.
LEMMA NdisInitializeInv ==
  ASSUME NEW final, Power(final), NdisInitialize, UNCHANGED <<wdfVars, idleVars>>
  PROVE  \E next \in Resting : Power(next)'
<1>1. /\ script # <<>> /\ script # <<"Answer">> /\ Head(script) = "NdisMiniportInitializeEx"
      /\ waiting[PnpPower] = NoOp
  BY Parts DEF NdisInitialize, EnqueueEventSync
<1>2. /\ ~InUse(final) /\ ~Created(final) /\ request # "taken"
      /\ \/ script = <<"NdisMiniportInitializeEx">> /\ ~powered
         \/ script = <<"NdisMiniportInitializeEx", "DatapathCreate">> /\ powered
  <2>1. /\ ~InUse(final) /\ request # "taken"
        /\ \/ script = <<"NdisMiniportInitializeEx">> /\ ~powered
           \/ script = <<"NdisMiniportInitializeEx", "DatapathCreate">> /\ powered
    BY <1>1, Parts DEF Power, ScriptInv, Serving, NotServing
  <2> QED
    BY <2>1 DEF InUse, Created
<1>3. ~Released
  BY <1>1 DEF Power, ReleasedInv
<1>4. ASSUME EnqueueEventSync(PnpPower, "NdisMiniportInitializeEx"), miniport' = "paused",
             script' = Tail(script)
      PROVE  Power("AdapterPaused")'
  <2> DEFINE next == "AdapterPaused"
  <2>1. Turns(final, "NdisMiniportInitializeEx", next) /\ ~Created(next) /\ InUse(next)
    BY <1>2 DEF Turns, Created, InUse
  <2>2. ASSUME NEW state, NEW op, NEW queue, Machine(state, op, queue, final),
               waiting'[PnpPower] = "NdisMiniportInitializeEx", waiting'[Ndis] = waiting[Ndis]
        PROVE  /\ miniport' = MiniportIn(state, next)
               /\ Alone(state, Append(queue, "NdisMiniportInitializeEx"), next)'
    <3>1. final = "Halted" /\ waiting[Ndis] = NoOp
      BY <1>2, <2>2 DEF InUse, Machine, Alone
    <3>2. state = "Halted" /\ queue = <<>>
      BY <1>1, <2>2, <3>1, MachineWaits
    <3>3. Append(queue, "NdisMiniportInitializeEx") = <<"NdisMiniportInitializeEx">>
      BY <3>2
    <3> QED
      BY <1>4, <2>2, <3>1, <3>2, <3>3 DEF Alone, MiniportIn, ToldIn
  <2> HIDE DEF next
  <2>3. /\ DatapathInv(next)' /\ BornInv'
        /\ PhaseInv' /\ HardwareInv' /\ RundownInv'
        /\ waiting'[PnpPower] = "NdisMiniportInitializeEx"
        /\ phase' = phase /\ request' = request /\ powered' = powered
    BY <1>1, <1>4, <2>1, <2>2, StepAsks DEF PnpEvents
  <2>4. \/ script' = <<>> /\ ~powered
        \/ script' = <<"DatapathCreate">> /\ powered
    BY <1>2, <1>4, Parts
  <2>5. ScriptInv(next)'
    BY <1>2, <2>1, <2>3, <2>4 DEF ScriptInv, NotServing, CreatedAsAsked
  <2>6. ReleasedInv(next)' /\ WaitInv'
    BY <1>2, <1>3, <2>3 DEF ReleasedInv, Released, WaitInv
  <2>7. Power(next)'
    BY <2>3, <2>5, <2>6 DEF Power
  <2> QED
    BY <2>7 DEF next
<1>5. ASSUME script' = <<>>,
             UNCHANGED <<waiting, datapathMachine, transitionComplete, app, miniport>>
      PROVE  Power(final)'
  <2>1. DatapathInv(final)' /\ (Unborn' => Unborn) /\ waiting'[PnpPower] = waiting[PnpPower]
    BY <1>5, ScriptOnly
  <2>2. PhaseInv' /\ HardwareInv' /\ RundownInv'
    BY WdfFrame DEF idleVars
  <2>3. phase' = phase /\ request' = request /\ powered' = powered
    BY DEF wdfVars
  <2>4. ScriptInv(final)'
    BY <1>2, <1>5, <2>3 DEF ScriptInv, NotServing, CreatedAsAsked
  <2>5. ReleasedInv(final)' /\ WaitInv'
    BY <1>1, <1>2, <1>3, <2>1, <2>3 DEF ReleasedInv, Released, WaitInv, NoOp
  <2>6. BornInv'
    BY <1>1, <2>1 DEF Power, BornInv
  <2> QED
    BY <2>1, <2>2, <2>4, <2>5, <2>6 DEF Power
<1>6. final \in Resting /\ "AdapterPaused" \in Resting
  BY Interface DEF Power, Resting
<1> QED
  BY <1>4, <1>5, <1>6 DEF NdisInitialize

-----------------------------------------------------------------------------
(* The invariant.                                                           *)

\* The device has just been added.
LEMMA PowerInvInit == Init => PowerInv
<1> SUFFICES ASSUME Init PROVE Power("Halted")
  BY DEF PowerInv, Resting
<1>1. /\ datapathMachine = NotInitialized /\ phase = "added" /\ request = "none" /\ ~powered
      /\ script = <<>> /\ waiting = [t \in {Ndis, PnpPower} |-> NoOp]
      /\ transitionComplete = FALSE /\ miniport = "halted" /\ app = NoApp
  BY DEF Init, AdapterInit, NoApp
<1>2. DatapathInv("Halted")
  <2>1. waiting[Ndis] = NoOp /\ waiting[PnpPower] = NoOp
    BY <1>1
  <2>2. WaitingType
    BY <1>1, <2>1 DEF WaitingType
  <2>3. Unborn
    BY <1>1, <2>1 DEF Unborn
  <2> QED
    BY <2>2, <2>3 DEF DatapathInv
<1>3. ScriptInv("Halted")
  BY <1>1 DEF ScriptInv, NotServing, CreatedAsAsked, Created
<1>4. ReleasedInv("Halted") /\ WaitInv /\ BornInv
  BY <1>1 DEF ReleasedInv, Released, WaitInv, BornInv, InUse, NoOp
<1>5. PhaseInv /\ HardwareInv
  BY <1>1 DEF PhaseInv, HardwareInv
<1>6. RundownInv
  BY <1>1 DEF RundownInv, Init, IdleInit
<1> QED
  BY <1>2, <1>3, <1>4, <1>5, <1>6 DEF Power

\* Every step keeps the invariant.
LEMMA PowerInvNext == PowerInv /\ [Next]_vars => PowerInv'
<1> SUFFICES ASSUME PowerInv, [Next]_vars PROVE \E next \in Resting : Power(next)'
  BY DEF PowerInv
<1> PICK final \in Resting : Power(final)
  BY DEF PowerInv
<1>1. CASE PrePrepareHardware \/ PreD0Entry \/ PreSelfManagedIoSuspend
             \/ PreReleaseHardware \/ DeviceCleanup \/ WdfStep
  BY <1>1, WdfThreadInv DEF WdfThreadStep
<1>2. CASE PnpStep
  <2>1. CASE TakeRequest \/ AnswerRequest
    BY <2>1, TakeRequestInv, AnswerRequestInv
  <2>2. CASE /\ NdisInitialize \/ EvtNdisHalt \/ StartIo \/ StopIo
             /\ UNCHANGED <<wdfVars, idleVars>>
    BY <2>2, NdisInitializeInv, EvtNdisHaltInv, StartIoInv, StopIoInv
  <2> QED
    BY <1>2, <2>1, <2>2 DEF PnpStep
<1>3. CASE StartInterface \/ StopInterface
  BY <1>3, StartInterfaceInv, StopInterfaceInv
<1>4. CASE \E c \in Callers : InvokePoweredCallback(c) \/ PoweredCallbackStep(c)
  BY <1>4, CallbackInv
<1>5. CASE CreateAdapter \/ CleanUpAdapter \/ NdisStep \/ DatapathMachineStep
  BY <1>5, CreateAdapterInv, CleanUpAdapterInv, NdisStepInv, DatapathMachineStepInv DEF Resting
<1>6. CASE \E t \in {Ndis, PnpPower} : EnqueueEventSyncReturns(t)
  BY <1>6, EnqueueEventSyncReturnsInv DEF Threads
<1>7. CASE \/ \E r \in Requesters : RequestReset(r) \/ ResetRequested(r)
           \/ ResetMachineStep
  BY <1>7, ResetInv
<1>8. CASE Terminating \/ UNCHANGED vars
  BY <1>8, ResetInv DEF Terminating
<1> QED
  BY <1>1, <1>2, <1>3, <1>4, <1>5, <1>6, <1>7, <1>8 DEF Next

\* The data path machine is on its way to one resting state, whichever of its two callers
\* takes which signal, and the power callbacks, the PnP and power machines and NDIS agree
\* about that state (nxadapter.cpp:1101, EnqueueEventSync).
THEOREM PowerInvariant == Spec => []PowerInv
  BY PowerInvInit, PowerInvNext, PTL DEF Spec

-----------------------------------------------------------------------------
(* What follows from it.                                                    *)

\* Outside D0 and the callbacks around it there is to be no data path.
LEMMA NoneAsked ==
  ASSUME NEW final, Power(final),
         phase \notin {"starting", "enabled", "D0", "suspended", "stopping"}
  PROVE  ~Created(final) /\ waiting[PnpPower] \in {NoOp, "NdisMiniportInitializeEx",
                                                   "NdisMiniportHalt"}
<1>1. ~powered /\ (request = "taken" => phase = "releasing")
  BY DEF Power, PhaseInv
<1>2. ~Created(final)
  <2>1. CASE request # "taken"
    BY <1>1, <2>1 DEF Power, ScriptInv, NotServing, CreatedAsAsked, Created, InUse
  <2>2. CASE request = "taken"
    <3>1. \/ script = <<"NdisMiniportHalt", "Answer">>
          \/ script = <<"Answer">> /\ ~InUse(final)
      BY <1>1, <2>2 DEF Power, ReleasedInv
    <3> QED
      BY <1>1, <2>2, <3>1 DEF Power, ScriptInv, Serving, CreatedAsAsked
  <2> QED
    BY <2>1, <2>2
<1>3. waiting[PnpPower] \notin {"DatapathCreate", "DatapathDestroy"}
  BY <1>1 DEF Power, WaitInv
<1> QED
  BY <1>2, <1>3 DEF Power, DatapathInv, WaitingType, PnpEvents

\* A data path that is to be destroyed has its destruction before it.
LEMMA ToDestroy ==
  ASSUME NEW state, NEW op, NEW queue, NEW final, Machine(state, op, queue, final),
         app.created, ~Created(final)
  PROVE  Destroying
<1>1. /\ Work(state, op, queue, final) /\ app = AppIn(state)
      /\ datapathMachine.op = op /\ datapathMachine.queue = queue
  BY DEF Machine, At, On
<1>2. state \in {"DatapathRunning", "DatapathPauseStopping", "DatapathRestartStopping",
                 "DatapathPaused", "DatapathPausedDestroying", "DatapathPausedStarting",
                 "DatapathRestartDestroying", "DatapathRestartedStarting"}
  BY <1>1 DEF AppIn, NoApp
<1>3. CASE state \in {"DatapathRestartStopping", "DatapathPausedDestroying",
                      "DatapathRestartDestroying"}
  <2>1. state \notin Resting /\ OpOf(DatapathTables, state) \in {"DatapathStop", "DatapathDestroy"}
    BY <1>3, DatapathOperations DEF Resting
  <2> QED
    BY <1>1, <2>1 DEF Work, Destroying
<1>4. CASE GoalOf(state) \in {"DatapathPaused", "DatapathRunning"}
  <2>1. Leads(GoalOf(state), queue, final)
    BY <1>1 DEF Work
  <2>2. \A e, goal : Turns(GoalOf(state), e, goal) =>
           e = "DatapathDestroy" \/ goal \in {"DatapathPaused", "DatapathRunning"}
    BY <1>4 DEF Turns
  <2>3. \A from \in {"DatapathPaused", "DatapathRunning"} : \A e, goal :
           Turns(from, e, goal) =>
             e = "DatapathDestroy" \/ goal \in {"DatapathPaused", "DatapathRunning"}
    BY DEF Turns
  <2>4. \E i \in DOMAIN queue : queue[i] = "DatapathDestroy"
    <3>1. CASE queue = <<>> /\ final = GoalOf(state)
      BY <1>4, <3>1 DEF Created
    <3>2. CASE \E e : queue = <<e>> /\ Turns(GoalOf(state), e, final)
      <4>1. PICK e : queue = <<e>> /\ Turns(GoalOf(state), e, final)
        BY <3>2
      <4>2. e = "DatapathDestroy"
        BY <2>2, <4>1 DEF Created
      <4>3. 1 \in DOMAIN queue /\ queue[1] = e
        BY <4>1
      <4> QED
        BY <4>2, <4>3
    <3>3. CASE \E e, f, between : queue = <<e, f>> /\ Turns(GoalOf(state), e, between)
                                     /\ Turns(between, f, final)
      <4>1. PICK e, f, between : queue = <<e, f>> /\ Turns(GoalOf(state), e, between)
                                   /\ Turns(between, f, final)
        BY <3>3
      <4>2. e = "DatapathDestroy" \/ f = "DatapathDestroy"
        BY <2>2, <2>3, <4>1 DEF Created
      <4>3. 1 \in DOMAIN queue /\ queue[1] = e /\ 2 \in DOMAIN queue /\ queue[2] = f
        BY <4>1
      <4> QED
        BY <4>2, <4>3
    <3> QED
      BY <2>1, <3>1, <3>2, <3>3 DEF Leads
  <2> QED
    BY <1>1, <2>4 DEF Destroying
<1> QED
  BY <1>2, <1>3, <1>4 DEF GoalOf

\* It is under way only because a thread of NDIS has lent its signal.
LEMMA LentByNdis ==
  ASSUME NEW state, NEW op, NEW queue, NEW final, Machine(state, op, queue, final),
         app.created, ~Created(final),
         waiting[PnpPower] \in {NoOp, "NdisMiniportInitializeEx", "NdisMiniportHalt"}
  PROVE  waiting[Ndis] # NoOp
<1> SUFFICES ASSUME waiting[Ndis] = NoOp PROVE FALSE
  OBVIOUS
<1>1. /\ Work(state, op, queue, final) /\ app = AppIn(state) /\ Alone(state, queue, final)
  BY DEF Machine
<1>2. state \notin {"Halted", "AdapterPaused", "Halting"}
  BY <1>1 DEF AppIn, NoApp
<1>3. CASE waiting[PnpPower] = NoOp
  <2>1. state \in Resting /\ final = state
    BY <1>3, MachineWaits
  <2>2. state \in {"AdapterRestarted"}
    BY <1>2, <2>1 DEF Created, Resting
  <2> QED
    BY <1>1, <2>2 DEF AppIn, NoApp
<1>4. CASE waiting[PnpPower] = "NdisMiniportInitializeEx"
  BY <1>1, <1>2, <1>4 DEF Alone
<1>5. CASE waiting[PnpPower] = "NdisMiniportHalt"
  <2>1. final = "Halted" /\ GoalOf(state) # "Halted"
    BY <1>1, <1>2, <1>5 DEF Alone, GoalOf
  <2>2. Len(queue) <= 1 /\ (op # NoOp => queue = <<>>)
    BY MachineWaits
  <2>3. Leads(GoalOf(state), queue, final)
    BY <1>1 DEF Work
  <2>4. queue # <<>>
    BY <2>1, <2>3, ShortQueue
  <2>5. state \in Resting
    BY <1>1, <2>2, <2>4, EntryOperations DEF Work
  <2>6. Len(queue) = 1
    <3>1. Len(queue) \in 0 .. 2 /\ (Len(queue) = 0 => queue = <<>>)
      BY <2>3, ShortQueue
    <3> QED
      BY <2>2, <2>4, <3>1
  <2>7. PICK e : queue = <<e>> /\ Turns(GoalOf(state), e, final)
    BY <2>3, <2>6, ShortQueue
  <2>8. GoalOf(state) = "AdapterPaused"
    BY <2>1, <2>7 DEF Turns
  <2> QED
    BY <1>2, <2>5, <2>8 DEF Resting, GoalOf
<1> QED
  BY <1>3, <1>4, <1>5

\* The invariant says where the hardware is.
LEMMA HardwareForDatapath == PowerInv => DatapathNeedsHardware
<1> SUFFICES ASSUME PowerInv, app.created PROVE DatapathNeedsHardware
  BY DEF DatapathNeedsHardware
<1> PICK final \in Resting : Power(final)
  BY DEF PowerInv
<1>1. CASE phase \in {"starting", "enabled", "D0", "suspended", "stopping"}
  BY <1>1 DEF Power, HardwareInv, DatapathNeedsHardware
<1>2. CASE phase \notin {"starting", "enabled", "D0", "suspended", "stopping"}
  <2>1. /\ ~Created(final)
        /\ waiting[PnpPower] \in {NoOp, "NdisMiniportInitializeEx", "NdisMiniportHalt"}
    BY <1>2, NoneAsked
  <2>2. ~Unborn
    BY DEF Unborn, NoApp
  <2>3. PICK state, op, queue : Machine(state, op, queue, final)
    BY <2>2 DEF Power, DatapathInv, OnItsWay
  <2> QED
    BY <2>1, <2>3, ToDestroy, LentByNdis DEF DatapathNeedsHardware
<1> QED
  BY <1>1, <1>2

\* The translation app exists only while the hardware is enabled and WDF is in D0 or in a
\* callback around it: the power callbacks wait for it (nxdevice.cpp,
\* PostD0EntryPostHardwareEnabled and PreD0ExitPreHardwareDisabled). Otherwise its
\* destruction is under way, and NDIS still waits for the signal that IoStop has taken.
THEOREM DatapathOnHardware == Spec => []DatapathNeedsHardware
  BY PowerInvariant, HardwareForDatapath, PTL

\* The invariant says where those who hold the rundown are.
LEMMA RundownForCallbacks == PowerInv => DxWaitsForCallbacks
  BY DEF PowerInv, Power, RundownInv, DxWaitsForCallbacks, Holders

\* A powered callback that took the rundown has returned before WDF goes on from D0Exit
\* (idlestatemachine.cpp, StopIdle and D0Exit).
THEOREM RundownOutlastsCallbacks == Spec => []DxWaitsForCallbacks
  BY PowerInvariant, RundownForCallbacks, PTL

-----------------------------------------------------------------------------
(* The refinement.                                                          *)

\* What Datapath sees.
Told == miniport \in {"restarted", "pausing"}

\* The adapter begins as Datapath does.
LEMMA PromisedInit == Init => Promised!Init
  BY DEF Init, AdapterInit, Promised!Init

\* Nothing that Datapath sees changes.
LEMMA Unseen ==
  ASSUME UNCHANGED <<Told, app>>
  PROVE  UNCHANGED Promised!vars
  BY DEF Told, Promised!vars

\* The operation that runs, and the state in which it does.
LEMMA RunsInState ==
  ASSUME NEW final, DatapathInv(final), NEW op, Runs(op), op # NoOp
  PROVE  \E state \in Resting \cup Transient :
           /\ OpOf(DatapathTables, state) = op
           /\ app = AppIn(state) /\ (Told <=> ToldIn(state))
<1>1. PICK state \in Resting \cup Transient : \E queue :
           Machine(state, op, queue, final) /\ OpOf(DatapathTables, state) = op
  BY RunsIn
<1>2. PICK queue : Machine(state, op, queue, final) /\ OpOf(DatapathTables, state) = op
  BY <1>1
<1> QED
  BY <1>2, AsNdisSees DEF Machine, Told

\* An operation of the machine is a step of Datapath.
LEMMA PromisedOperation ==
  ASSUME NEW final, DatapathInv(final), DatapathStep
  PROVE  Promised!Next \/ UNCHANGED Promised!vars
<1>1. CASE TakeEvent \/ AsyncTransitionComplete \/ NdisHalt
  BY <1>1, Unseen DEF TakeEvent, AsyncTransitionComplete, NdisHalt, Told
<1>2. CASE DatapathCreate
  <2>1. PICK state \in Resting \cup Transient :
           /\ OpOf(DatapathTables, state) = "DatapathCreate"
           /\ app = AppIn(state) /\ (Told <=> ToldIn(state))
    BY <1>2, RunsInState DEF DatapathCreate, NoOp
  <2>2. state \in {"DatapathPausedCreating", "DatapathRestartedCreating"}
    BY <2>1, DatapathOperations DEF Resting, Transient
  <2>3. app = NoApp
    BY <2>1, <2>2 DEF AppIn
  <2>4. app' = PausedApp
    BY <1>2, <2>3, Zenon DEF DatapathCreate, NoApp, PausedApp
  <2>5. Promised!Create
    BY <1>2, <2>3, <2>4 DEF DatapathCreate, NoApp, PausedApp, Promised!Create
  <2> QED
    BY <2>5 DEF Promised!Next
<1>3. CASE DatapathDestroy
  <2>1. PICK state \in Resting \cup Transient :
           /\ OpOf(DatapathTables, state) = "DatapathDestroy"
           /\ app = AppIn(state) /\ (Told <=> ToldIn(state))
    BY <1>3, RunsInState DEF DatapathDestroy, NoOp
  <2>2. state \in {"DatapathPausedDestroying", "DatapathRestartDestroying"}
    BY <2>1, DatapathOperations DEF Resting, Transient
  <2>3. app = PausedApp
    BY <2>1, <2>2 DEF AppIn
  <2>4. app' = NoApp
    BY <1>3, <2>3, Zenon DEF DatapathDestroy, NoApp, PausedApp
  <2>5. Promised!Destroy
    BY <1>3, <2>3, <2>4 DEF DatapathDestroy, NoApp, PausedApp, Promised!Destroy
  <2> QED
    BY <2>5 DEF Promised!Next
<1>4. CASE DatapathStart
  <2>1. PICK state \in Resting \cup Transient :
           /\ OpOf(DatapathTables, state) = "DatapathStart"
           /\ app = AppIn(state) /\ (Told <=> ToldIn(state))
    BY <1>4, RunsInState DEF DatapathStart, NoOp
  <2>2. state = "DatapathRestartedStarting"
    BY <2>1, DatapathOperations DEF Resting, Transient
  <2>3. app = PausedApp /\ Told
    BY <2>1, <2>2 DEF AppIn, ToldIn
  <2>4. app' = RunningApp
    BY <1>4, <2>3, Zenon DEF DatapathStart, RunningApp, PausedApp
  <2>5. Promised!Start
    BY <1>4, <2>3, <2>4 DEF DatapathStart, RunningApp, PausedApp, Promised!Start, Told
  <2> QED
    BY <2>5 DEF Promised!Next
<1>5. CASE DatapathStop
  <2>1. PICK state \in Resting \cup Transient :
           /\ OpOf(DatapathTables, state) = "DatapathStop"
           /\ app = AppIn(state) /\ (Told <=> ToldIn(state))
    BY <1>5, RunsInState DEF DatapathStop, NoOp
  <2>2. state = "DatapathRestartStopping"
    BY <2>1, DatapathOperations DEF Resting, Transient
  <2>3. app = RunningApp
    BY <2>1, <2>2 DEF AppIn
  <2>4. app' = PausedApp
    BY <1>5, <2>3, Zenon DEF DatapathStop, RunningApp, PausedApp
  <2>5. Promised!Stop
    BY <1>5, <2>3, <2>4 DEF DatapathStop, RunningApp, PausedApp, Promised!Stop
  <2> QED
    BY <2>5 DEF Promised!Next
<1>6. CASE DatapathStartRestartComplete
  <2>1. PICK state \in Resting \cup Transient :
           /\ OpOf(DatapathTables, state) = "DatapathStartRestartComplete"
           /\ app = AppIn(state) /\ (Told <=> ToldIn(state))
    BY <1>6, RunsInState DEF DatapathStartRestartComplete, NoOp
  <2>2. state = "DatapathPausedStarting"
    BY <2>1, DatapathOperations DEF Resting, Transient
  <2>3. app = PausedApp /\ ~Told
    BY <2>1, <2>2 DEF AppIn, ToldIn
  <2>4. app' = RunningApp /\ miniport' = "restarted"
    BY <1>6, <2>3, Zenon DEF DatapathStartRestartComplete, RunningApp, PausedApp
  <2>5. Promised!Restart
    BY <2>3, <2>4 DEF RunningApp, PausedApp, Promised!Restart, Told
  <2> QED
    BY <2>5 DEF Promised!Next
<1>7. CASE DatapathStopPauseComplete
  <2>1. PICK state \in Resting \cup Transient :
           /\ OpOf(DatapathTables, state) = "DatapathStopPauseComplete"
           /\ app = AppIn(state) /\ (Told <=> ToldIn(state))
    BY <1>7, RunsInState DEF DatapathStopPauseComplete, NoOp
  <2>2. state = "DatapathPauseStopping"
    BY <2>1, DatapathOperations DEF Resting, Transient
  <2>3. app = RunningApp /\ Told
    BY <2>1, <2>2 DEF AppIn, ToldIn
  <2>4. app' = PausedApp /\ miniport' = "paused"
    BY <1>7, <2>3, Zenon DEF DatapathStopPauseComplete, RunningApp, PausedApp
  <2>5. Promised!Pause
    BY <2>3, <2>4 DEF RunningApp, PausedApp, Promised!Pause, Told
  <2> QED
    BY <2>5 DEF Promised!Next
<1>8. CASE DatapathPauseComplete
  <2>1. PICK state \in Resting \cup Transient :
           /\ OpOf(DatapathTables, state) = "DatapathPauseComplete"
           /\ app = AppIn(state) /\ (Told <=> ToldIn(state))
    BY <1>8, RunsInState DEF DatapathPauseComplete, NoOp
  <2>2. state = "AdapterPauseComplete"
    BY <2>1, DatapathOperations DEF Resting, Transient
  <2>3. app = NoApp /\ Told
    BY <2>1, <2>2 DEF AppIn, ToldIn
  <2>4. app' = NoApp /\ miniport' = "paused"
    BY <1>8, <2>3 DEF DatapathPauseComplete
  <2>5. Promised!Pause
    BY <2>3, <2>4 DEF NoApp, Promised!Pause, Told
  <2> QED
    BY <2>5 DEF Promised!Next
<1>9. CASE DatapathRestartComplete
  <2>1. PICK state \in Resting \cup Transient :
           /\ OpOf(DatapathTables, state) = "DatapathRestartComplete"
           /\ app = AppIn(state) /\ (Told <=> ToldIn(state))
    BY <1>9, RunsInState DEF DatapathRestartComplete, NoOp
  <2>2. state = "AdapterRestartComplete"
    BY <2>1, DatapathOperations DEF Resting, Transient
  <2>3. app = NoApp /\ ~Told
    BY <2>1, <2>2 DEF AppIn, ToldIn
  <2>4. app' = NoApp /\ miniport' = "restarted"
    BY <1>9, <2>3 DEF DatapathRestartComplete
  <2>5. Promised!Restart
    BY <2>3, <2>4 DEF NoApp, Promised!Restart, Told
  <2> QED
    BY <2>5 DEF Promised!Next
<1> QED
  BY <1>1, <1>2, <1>3, <1>4, <1>5, <1>6, <1>7, <1>8, <1>9 DEF DatapathStep

\* The interface is started once.
LEMMA NotStartedYet ==
  ASSUME NEW final, Power(final), NdisInitialize
  PROVE  ~InterfaceStarted
<1>1. script # <<>> /\ Head(script) = "NdisMiniportInitializeEx"
  BY DEF NdisInitialize
<1>2. ~InUse(final)
  BY <1>1, Parts DEF Power, ScriptInv, Serving, NotServing
<1> QED
  BY <1>2, Interface DEF Power

\* Every step is a step of Datapath or does not concern it.
LEMMA PromisedNext ==
  PowerInv /\ [Next]_vars => [Promised!Next]_(Promised!vars)
<1> SUFFICES ASSUME PowerInv, [Next]_vars PROVE Promised!Next \/ UNCHANGED Promised!vars
  OBVIOUS
<1> PICK final \in Resting : Power(final)
  BY DEF PowerInv
<1>1. CASE UNCHANGED adapterVars
  BY <1>1, Unseen DEF adapterVars, Told
<1>2. CASE DatapathMachineStep
  BY <1>2, PromisedOperation DEF Power, DatapathMachineStep
<1>3. CASE NdisStep
  BY <1>3, Unseen DEF NdisStep, EvtNdisRestart, EvtNdisPause, EnqueueEventSync, Told
<1>4. CASE PnpStep
  <2>1. CASE TakeRequest \/ AnswerRequest
    BY <2>1, Unseen DEF TakeRequest, AnswerRequest, Told
  <2>2. CASE NdisInitialize
    <3>1. ~InterfaceStarted
      BY <1>4, <2>2, NotStartedYet
    <3> QED
      BY <2>2, <3>1, Unseen DEF NdisInitialize, EnqueueEventSync, InterfaceStarted, Told
  <2>3. CASE EvtNdisHalt \/ StartIo \/ StopIo
    BY <2>3, Unseen DEF EvtNdisHalt, StartIo, StopIo, EnqueueEventSync, Told
  <2> QED
    BY <1>4, <2>1, <2>2, <2>3 DEF PnpStep
<1>5. CASE \E t \in {Ndis, PnpPower} : EnqueueEventSyncReturns(t)
  BY <1>5, Unseen DEF EnqueueEventSyncReturns, TransitionCompletes, Told
<1>6. CASE StartInterface \/ StopInterface \/ CreateAdapter \/ CleanUpAdapter
  BY <1>6, Unseen
  DEF StartInterface, StopInterface, CreateAdapter, CleanUpAdapter, Initialize,
       EvtCleanup, Told
<1>7. CASE PrePrepareHardware \/ PreD0Entry \/ PreSelfManagedIoSuspend
             \/ PreReleaseHardware \/ DeviceCleanup \/ WdfStep
  BY <1>1, <1>7
  DEF PrePrepareHardware, PreD0Entry, PreSelfManagedIoSuspend, PreReleaseHardware,
       DeviceCleanup, WdfStep, PostHardwareEnabled, D0EntryFails, PowerUpReturns, PostSelfManagedIo,
       PreHardwareDisabled, PowerDownReturns, PostD0Exit, PostD0ExitReturns,
          ReleaseReturns,
       DeviceCleanupReturns
<1>8. CASE \/ \E c \in Callers : InvokePoweredCallback(c) \/ PoweredCallbackStep(c)
           \/ \E r \in Requesters : RequestReset(r) \/ ResetRequested(r)
           \/ ResetMachineStep \/ Terminating \/ UNCHANGED vars
  BY <1>1, <1>8
  DEF InvokePoweredCallback, PoweredCallbackStep, RequestReset, ResetRequested,
       ResetMachineStep, Terminating, vars
<1> QED
  BY <1>2, <1>3, <1>4, <1>5, <1>6, <1>7, <1>8 DEF Next

\* Whatever the power callbacks, the PnP machines and NDIS do at the same time, every step is
\* one that Datapath allows, or none (nxadapter.cpp, DatapathCreate and following).
THEOREM ImplementsDatapath == Spec => Promised!Init /\ [][Promised!Next]_(Promised!vars)
  BY PowerInvariant, PromisedInit, PromisedNext, PTL DEF Spec

-----------------------------------------------------------------------------
(* The reset machine. *)

\* A state has a transition for an event.
Takes(M, state, e) ==
  e \in DOMAIN Row(M.external, state) \cup DOMAIN Row(M.internal, state)
          \cup DOMAIN Row(M.pop, state)

\* The innermost of two states that has one takes the event.
LEMMA TwoTakers ==
  ASSUME NEW M, NEW outer, NEW inner, NEW e
  PROVE  /\ Takes(M, inner, e) => Taker(M, <<outer, inner>>, e) = {2}
         /\ ~Takes(M, inner, e) /\ Takes(M, outer, e) => Taker(M, <<outer, inner>>, e) = {1}
         /\ ~Takes(M, inner, e) /\ ~Takes(M, outer, e) => Takers(M, <<outer, inner>>, e) = {}
<1> DEFINE stack == <<outer, inner>>
           T == Takers(M, stack, e)
<1>1. DOMAIN stack = {1, 2} /\ stack[1] = outer /\ stack[2] = inner
  OBVIOUS
<1>2. T = {i \in DOMAIN stack : Takes(M, stack[i], e)}
  BY Zenon DEF Takers, Takes
<1>3. /\ 2 \in T <=> Takes(M, inner, e)
      /\ 1 \in T <=> Takes(M, outer, e)
      /\ T \subseteq {1, 2}
  BY <1>1, <1>2
<1>4. Taker(M, stack, e) = {i \in T : \A j \in T : j <= i}
  BY DEF Taker
<1> HIDE DEF stack, T
<1>5. 2 \in T => {i \in T : \A j \in T : j <= i} = {2}
  <2>1. 2 \in T => T = {2} \/ T = {1, 2}
    BY <1>3
  <2> QED
    BY <2>1
<1>6. 2 \notin T /\ 1 \in T => {i \in T : \A j \in T : j <= i} = {1}
  <2>1. 2 \notin T /\ 1 \in T => T = {1}
    BY <1>3
  <2> QED
    BY <2>1
<1>7. 2 \notin T /\ 1 \notin T => T = {}
  BY <1>3
<1> QED
  BY <1>3, <1>4, <1>5, <1>6, <1>7 DEF stack, T

\* A stack of one state.
LEMMA OneOrNone ==
  ASSUME NEW M, NEW state, NEW e
  PROVE  /\ Takes(M, state, e) => Taker(M, <<state>>, e) = {1}
         /\ ~Takes(M, state, e) => Takers(M, <<state>>, e) = {}
<1>1. Takers(M, <<state>>, e) = {i \in {1} : Takes(M, state, e)}
  BY DEF Takers, Takes
<1>2. Taker(M, <<state>>, e)
        = {i \in Takers(M, <<state>>, e) : \A j \in Takers(M, <<state>>, e) : j <= i}
  BY DEF Taker
<1> QED
  BY <1>1, <1>2

\* A machine does not leave with an event that nobody takes,
LEMMA NobodyTakes ==
  ASSUME NEW M, NEW stack, NEW queue, NEW e, Takers(M, stack, e) = {}
  PROVE  Cleared(Handled(M, On(stack, NoOp, queue), e)) = On(stack, NoOp, queue)
<1> DEFINE m == On(stack, NoOp, queue)
           dropped == {<<Current(m), e>>}
           left == [stack |-> stack, queue |-> queue, op |-> NoOp, unhandled |-> dropped]
<1>1. m.stack = stack
  BY DEF On
<1>2. Handled(M, m, e) = [m EXCEPT !.unhandled = dropped]
  BY <1>1 DEF Handled
<1> HIDE DEF dropped
<1>3. [m EXCEPT !.unhandled = dropped] = left
  BY DEF On
<1>4. Cleared(left) = m
  BY DEF Cleared, On
<1> QED
  BY <1>2, <1>3, <1>4

\* runs an internal transition where it is,
LEMMA InternallyHandled ==
  ASSUME NEW M, NEW stack, NEW queue, NEW e, NEW i, Taker(M, stack, e) = {i},
         e \in DOMAIN Row(M.internal, stack[i]), M.internal[stack[i]][e] = NoOp
  PROVE  Cleared(Handled(M, On(stack, NoOp, queue), e)) = On(stack, NoOp, queue)
<1> DEFINE m == On(stack, NoOp, queue)
<1>1. Takers(M, stack, e) # {}
  BY DEF Taker
<1>2. m.stack = stack
  BY DEF On
<1>3. {M.internal[stack[j]][e] : j \in Taker(M, stack, e)} = {NoOp}
  OBVIOUS
<1>4. Handled(M, m, e) = [m EXCEPT !.op = NoOp]
  BY <1>1, <1>2, <1>3, TheOnly DEF Handled
<1>5. [m EXCEPT !.op = NoOp] = m
  BY DEF On
<1> QED
  BY <1>4, <1>5, NothingUnhandled

\* and leaves with the others.
LEMMA LeavesFrom ==
  ASSUME NEW M, NEW stack, NEW queue, NEW op, NEW e, NEW i, Taker(M, stack, e) = {i},
         e \notin DOMAIN Row(M.internal, stack[i])
  PROVE  Handled(M, On(stack, op, queue), e) = LeaveFrom(M, On(stack, op, queue), e, i)
<1> DEFINE m == On(stack, op, queue)
<1>1. Takers(M, stack, e) # {}
  BY DEF Taker
<1>2. m.stack = stack
  BY DEF On
<1>3. {LeaveFrom(M, m, e, j) : j \in Taker(M, stack, e)} = {LeaveFrom(M, m, e, i)}
  OBVIOUS
<1> QED
  BY <1>1, <1>2, <1>3, TheOnly DEF Handled, Leave
\* Where it goes: to a state, to a Call state and its submachine, or to its end.
LEMMA EntersAbove ==
  ASSUME NEW M, NEW stack, NEW op, NEW queue, NEW below, NEW goal, Plain(M, goal)
  PROVE  Enter(M, On(stack, op, queue), below, goal)
           = On(Longer(below, goal), OpOf(M, goal), queue)
<1>1. Purged(M, On(stack, op, queue).queue, goal) = queue /\ On(stack, op, queue).unhandled = {}
  BY DEF Plain, Purged, On
<1> QED
  BY <1>1 DEF Plain, Enter, On, Longer

\* It enters a Call state and its submachine.
LEMMA EntersInside ==
  ASSUME NEW M, NEW stack, NEW op, NEW queue, NEW goal,
         IsCall(M, goal), OpOf(M, goal) = NoOp, goal \notin DOMAIN M.purge
  PROVE  LET inside == M.submachines[M.states[goal]]
         IN  Enter(M, On(stack, op, queue), <<>>, goal)
               = On(<<goal, inside>>, OpOf(M, inside), queue)
<1> DEFINE inside == M.submachines[M.states[goal]]
<1>1. Purged(M, On(stack, op, queue).queue, goal) = queue /\ On(stack, op, queue).unhandled = {}
  BY DEF Purged, On
<1>2. <<>> \o <<goal, inside>> = <<goal, inside>>
  OBVIOUS
<1> HIDE DEF inside
<1>3. Enter(M, On(stack, op, queue), <<>>, goal)
        = [stack |-> <<>> \o <<goal, inside>>, op |-> OpOf(M, inside), queue |-> queue,
           unhandled |-> {}]
  BY <1>1 DEF Enter, inside
<1> QED
  BY <1>2, <1>3 DEF On, inside

-----------------------------------------------------------------------------
\* The events that the reset machine is sent.
Up == "D0EntryPostHardwareEnabled"
Low == "D0ExitPreHardwareDisabledDx"
Final == "D0ExitPreHardwareDisabledD3Final"
Reset == "RequestPlatformLevelDeviceReset"
Gone == "WdfDeviceObjectCleanup"
Sent == {Up, Low, Final, Reset, Gone}

Triggering == "TriggeringPlatformLevelDeviceReset"

ResetLeads(state, e, goal) ==
  /\ state \in DOMAIN ResetTables.external
  /\ e \in DOMAIN ResetTables.external[state]
  /\ ResetTables.external[state][e] = goal

\* The rows of the table of external transitions.
LEMMA ResetGoes ==
  /\ ResetLeads("Initialized", Up, "PnPStarted")
  /\ ResetLeads("Initialized", Reset, "CollectingDiagnostics")
  /\ ResetLeads("D0", Low, "Dx") /\ ResetLeads("Dx", Up, "D0")
  /\ ResetLeads("PnPStarted", Final, "D3Final")
  /\ ResetLeads("PnPStarted", Reset, "CollectingDiagnostics")
  /\ ResetLeads("D3Final", Up, "PnPStarted")
  /\ ResetLeads(Triggering, Final, "D3Final")
  /\ ResetLeads("CollectingDiagnostics", "SyncSuccess", Triggering)
  BY SMT
  DEF ResetLeads, ResetTables, DeviceTables!Machine, DeviceTables!ExternalTransitions,
       DeviceTables!Done, Up, Low, Final, Reset, Gone, Triggering

\* The events for which a state has a transition, by the kind of transition.
LEMMA ResetRows ==
  LET M == ResetTables
  IN  /\ DOMAIN Row(M.external, "Initialized") = {Up, Reset}
      /\ DOMAIN Row(M.external, "D0") = {Low}
      /\ DOMAIN Row(M.external, "Dx") = {Up}
      /\ DOMAIN Row(M.external, "PnPStarted") = {Final, Reset}
      /\ DOMAIN Row(M.external, "D3Final") = {Up}
      /\ DOMAIN Row(M.external, Triggering) = {Final}
      /\ \A state \in {"Initialized", "D0", "Dx", "PnPStarted"} : Row(M.internal, state) = <<>>
      /\ Row(M.internal, "D3Final") = [RequestPlatformLevelDeviceReset |-> NoOp]
      /\ Row(M.internal, Triggering) = [D0EntryPostHardwareEnabled |-> NoOp]
      /\ Row(M.pop, "D0") = [D0ExitPreHardwareDisabledD3Final |-> Final]
      /\ Row(M.pop, "Dx") = <<>>
      /\ \A state \in {"Initialized", "PnPStarted", "D3Final", Triggering} :
           Row(M.pop, state) = [WdfDeviceObjectCleanup |-> Gone]
<1> DEFINE M == ResetTables
<1>1. /\ DOMAIN Row(M.external, "Initialized") = {Up, Reset}
      /\ DOMAIN Row(M.external, "D0") = {Low}
      /\ DOMAIN Row(M.external, "Dx") = {Up}
      /\ DOMAIN Row(M.external, "PnPStarted") = {Final, Reset}
      /\ DOMAIN Row(M.external, "D3Final") = {Up}
      /\ DOMAIN Row(M.external, Triggering) = {Final}
  BY SMT DEF Row, ResetTables, DeviceTables!Machine, DeviceTables!ExternalTransitions,
       DeviceTables!Done, Up, Low, Final, Reset, Gone, Triggering
<1>2. /\ \A state \in {"Initialized", "D0", "Dx", "PnPStarted"} : Row(M.internal, state) = <<>>
      /\ Row(M.internal, "D3Final") = [RequestPlatformLevelDeviceReset |-> NoOp]
      /\ Row(M.internal, Triggering) = [D0EntryPostHardwareEnabled |-> NoOp]
  BY SMT DEF Row, ResetTables, DeviceTables!Machine, DeviceTables!InternalTransitions,
       Triggering, NoOp
<1>3. /\ Row(M.pop, "D0") = [D0ExitPreHardwareDisabledD3Final |-> Final]
      /\ Row(M.pop, "Dx") = <<>>
      /\ \A state \in {"Initialized", "PnPStarted", "D3Final", Triggering} :
           Row(M.pop, state) = [WdfDeviceObjectCleanup |-> Gone]
  BY SMT DEF Row, ResetTables, DeviceTables!Machine, DeviceTables!PopTransitions,
       Triggering, Final, Gone
<1> QED
  BY <1>1, <1>2, <1>3

\* The kinds of states and their operations.
LEMMA ResetKinds ==
  LET M == ResetTables
  IN  /\ \A state \in {"Initialized", "D0", "Dx", "D3Final", "CollectingDiagnostics", Triggering} :
           Plain(M, state)
      /\ IsCall(M, "PnPStarted") /\ M.purge = <<>> /\ M.deferred = <<>>
      /\ M.submachines[M.states["PnPStarted"]] = "D0"
      /\ M.submachines[M.initial] = "Initialized"
      /\ \A state \in {"Initialized", "D0", "Dx", "D3Final", "PnPStarted"} : OpOf(M, state) = NoOp
      /\ OpOf(M, "CollectingDiagnostics") = "CollectDiagnostics"
      /\ OpOf(M, Triggering) = "TriggerPlatformLevelDeviceReset"
      /\ M.states["CollectingDiagnostics"] = "Sync" /\ M.states[Triggering] = "Async"
<1> DEFINE M == ResetTables
<1>1. /\ M.purge = <<>> /\ M.deferred = <<>> /\ M.initial = "StateMachine"
      /\ M.submachines = [PowerStateMachine |-> "D0", StateMachine |-> "Initialized"]
      /\ M.states = DeviceTables!States /\ M.entry = DeviceTables!EntryFuncs
  BY DEF ResetTables, DeviceTables!Machine, DeviceTables!Submachines,
         DeviceTables!PurgeEvents,
         DeviceTables!DeferredEvents
<1> HIDE DEF M
<1>2. /\ \A state \in {"Initialized", "D0", "Dx", "D3Final", Triggering} :
           M.states[state] = "Async"
      /\ M.states["CollectingDiagnostics"] = "Sync" /\ M.states["PnPStarted"] = "PowerStateMachine"
  BY <1>1, SMT DEF DeviceTables!States, Triggering
<1>3. /\ \A state \in {"Initialized", "D0", "Dx", "D3Final", "PnPStarted"} : OpOf(M, state) = NoOp
      /\ OpOf(M, "CollectingDiagnostics") = "CollectDiagnostics"
      /\ OpOf(M, Triggering) = "TriggerPlatformLevelDeviceReset"
  BY <1>1, SMT DEF OpOf, DeviceTables!EntryFuncs, Triggering, NoOp
<1>4. DOMAIN M.submachines = {"PowerStateMachine", "StateMachine"}
  BY <1>1
<1> QED
  BY <1>1, <1>2, <1>3, <1>4 DEF M, Plain, IsCall

\* Where the machine waits for events.
ResetShapes ==
  {<<"Initialized">>, <<"PnPStarted", "D0">>, <<"PnPStarted", "Dx">>, <<"D3Final">>, <<Triggering>>}

\* What an event makes of it.
ResetResult(m, e, queue) ==
  \/ m = NotInitialized
  \/ \E stack \in ResetShapes : m = On(stack, NoOp, queue)
  \/ e = Reset /\ m = On(<<"CollectingDiagnostics">>, "CollectDiagnostics", queue)

\* The parts of a pair.
LEMMA Below ==
  ASSUME NEW s, NEW u
  PROVE  LET pair == <<s, u>>
         IN  /\ pair[1] = s /\ pair[2] = u
             /\ SubSeq(pair, 1, 1 - 1) = <<>> /\ SubSeq(pair, 1, 2 - 1) = <<s>>
<1> DEFINE pair == <<s, u>>
           below == SubSeq(pair, 1, 1)
<1>1. below \in Seq({s, u}) /\ Len(below) = 1 /\ below[1] = s
  OBVIOUS
<1>2. <<s>> \in Seq({s, u}) /\ Len(<<s>>) = 1 /\ <<s>>[1] = s
  OBVIOUS
<1>3. \A i \in 1 .. Len(below) : below[i] = <<s>>[i]
  BY <1>1, <1>2
<1>4. below = <<s>>
  <2> HIDE DEF below
  <2> QED
    BY <1>1, <1>2, <1>3, SeqEqual
<1>5. pair[1] = s /\ pair[2] = u /\ SubSeq(pair, 1, 1 - 1) = <<>>
  OBVIOUS
<1> QED
  BY <1>4, <1>5

\* What is under a place of a stack.
Under(stack, i) == SubSeq(stack, 1, i - 1)

\* It enters a state from the state at a place of its stack,
Moves(stack, e, i, below, goal) ==
  /\ Taker(ResetTables, stack, e) = {i}
  /\ e \notin DOMAIN Row(ResetTables.internal, stack[i])
  /\ ResetLeads(stack[i], e, goal)
  /\ Under(stack, i) = below

\* from where it was.
LEMMA ResetEnters ==
  ASSUME NEW stack, NEW queue, NEW e, NEW i, NEW goal, NEW below, Moves(stack, e, i, below, goal)
  PROVE  Handled(ResetTables, On(stack, NoOp, queue), e)
           = Enter(ResetTables, On(stack, NoOp, queue), below, goal)
<1> DEFINE m == On(stack, NoOp, queue)
           M == ResetTables
<1>1. m.stack = stack
  BY DEF On
<1>2. LeaveFrom(M, m, e, i) = Enter(M, m, below, goal)
  <2> HIDE DEF m
  <2> QED
    BY <1>1 DEF LeaveFrom, Row, ResetLeads, Under, Moves
<1> QED
  BY <1>2, LeavesFrom DEF Moves

\* From the only state of the stack,
LEMMA FromOnly ==
  ASSUME NEW state, NEW queue, NEW e, NEW goal, ResetLeads(state, e, goal),
         e \notin DOMAIN Row(ResetTables.internal, state)
  PROVE  Handled(ResetTables, On(<<state>>, NoOp, queue), e)
           = Enter(ResetTables, On(<<state>>, NoOp, queue), <<>>, goal)
<1>1. Takes(ResetTables, state, e)
  BY DEF Takes, ResetLeads, Row
<1>2. Taker(ResetTables, <<state>>, e) = {1}
  BY <1>1, OneOrNone
<1>3. Under(<<state>>, 1) = <<>> /\ <<state>>[1] = state
  BY DEF Under
<1>4. Moves(<<state>>, e, 1, <<>>, goal)
  BY <1>2, <1>3 DEF Moves
<1> QED
  BY <1>4, ResetEnters

\* from the inner of two,
LEMMA FromInner ==
  ASSUME NEW outer, NEW state, NEW queue, NEW e, NEW goal, ResetLeads(state, e, goal),
         e \notin DOMAIN Row(ResetTables.internal, state)
  PROVE  Handled(ResetTables, On(<<outer, state>>, NoOp, queue), e)
           = Enter(ResetTables, On(<<outer, state>>, NoOp, queue), <<outer>>, goal)
<1>1. Takes(ResetTables, state, e)
  BY DEF Takes, ResetLeads, Row
<1>2. Taker(ResetTables, <<outer, state>>, e) = {2}
  BY <1>1, TwoTakers
<1>3. Under(<<outer, state>>, 2) = <<outer>> /\ <<outer, state>>[2] = state
  BY Below DEF Under
<1>4. Moves(<<outer, state>>, e, 2, <<outer>>, goal)
  BY <1>2, <1>3 DEF Moves
<1> QED
  BY <1>4, ResetEnters

\* or from the outer one.
LEMMA FromOuter ==
  ASSUME NEW state, NEW inner, NEW queue, NEW e, NEW goal, ResetLeads(state, e, goal),
         e \notin DOMAIN Row(ResetTables.internal, state), ~Takes(ResetTables, inner, e)
  PROVE  Handled(ResetTables, On(<<state, inner>>, NoOp, queue), e)
           = Enter(ResetTables, On(<<state, inner>>, NoOp, queue), <<>>, goal)
<1>1. Takes(ResetTables, state, e)
  BY DEF Takes, ResetLeads, Row
<1>2. Taker(ResetTables, <<state, inner>>, e) = {1}
  BY <1>1, TwoTakers
<1>3. Under(<<state, inner>>, 1) = <<>> /\ <<state, inner>>[1] = state
  BY Below DEF Under
<1>4. Moves(<<state, inner>>, e, 1, <<>>, goal)
  BY <1>2, <1>3 DEF Moves
<1> QED
  BY <1>4, ResetEnters

\* or leaves the outermost one.
LEMMA ResetEnds ==
  ASSUME NEW stack, NEW queue, NEW e, Taker(ResetTables, stack, e) = {1},
         e \notin DOMAIN Row(ResetTables.internal, stack[1]),
         e \notin DOMAIN Row(ResetTables.external, stack[1])
  PROVE  Cleared(Handled(ResetTables, On(stack, NoOp, queue), e)) = NotInitialized
<1> DEFINE m == On(stack, NoOp, queue)
           M == ResetTables
<1>1. m.stack = stack
  BY DEF On
<1>2. SubSeq(stack, 1, 1 - 1) = <<>>
  OBVIOUS
<1>3. LeaveFrom(M, m, e, 1) = Destroyed(m)
  <2> HIDE DEF m
  <2> QED
    BY <1>1, <1>2 DEF LeaveFrom
<1>4. Destroyed(m) = On(<<>>, NoOp, <<>>)
  BY Destroys
<1> QED
  BY <1>3, <1>4, LeavesFrom, NothingUnhandled DEF NotInitialized, On

\* Where the transitions of the reset machine lead.
LEMMA ResetGoals ==
  ASSUME NEW stack, NEW queue
  PROVE  /\ Enter(ResetTables, On(stack, NoOp, queue), <<>>, "PnPStarted")
              = On(<<"PnPStarted", "D0">>, NoOp, queue)
         /\ Enter(ResetTables, On(stack, NoOp, queue), <<>>, "D3Final")
              = On(<<"D3Final">>, NoOp, queue)
         /\ Enter(ResetTables, On(stack, NoOp, queue), <<>>, "CollectingDiagnostics")
              = On(<<"CollectingDiagnostics">>, "CollectDiagnostics", queue)
         /\ Enter(ResetTables, On(stack, NoOp, queue), <<"PnPStarted">>, "D0")
              = On(<<"PnPStarted", "D0">>, NoOp, queue)
         /\ Enter(ResetTables, On(stack, NoOp, queue), <<"PnPStarted">>, "Dx")
              = On(<<"PnPStarted", "Dx">>, NoOp, queue)
<1> DEFINE M == ResetTables
<1>1. /\ Longer(<<>>, "D3Final") = <<"D3Final">>
      /\ Longer(<<>>, "CollectingDiagnostics") = <<"CollectingDiagnostics">>
  BY DEF Longer
<1>2. /\ Longer(<<"PnPStarted">>, "D0") = <<"PnPStarted", "D0">>
      /\ Longer(<<"PnPStarted">>, "Dx") = <<"PnPStarted", "Dx">>
  BY Appended DEF Longer
<1>3. /\ Plain(M, "D3Final") /\ OpOf(M, "D3Final") = NoOp
      /\ Plain(M, "CollectingDiagnostics")
      /\ OpOf(M, "CollectingDiagnostics") = "CollectDiagnostics"
      /\ Plain(M, "D0") /\ OpOf(M, "D0") = NoOp
      /\ Plain(M, "Dx") /\ OpOf(M, "Dx") = NoOp
      /\ IsCall(M, "PnPStarted") /\ OpOf(M, "PnPStarted") = NoOp
      /\ "PnPStarted" \notin DOMAIN M.purge
      /\ M.submachines[M.states["PnPStarted"]] = "D0"
  BY ResetKinds
<1> HIDE DEF M
<1>4. Enter(M, On(stack, NoOp, queue), <<>>, "PnPStarted") = On(<<"PnPStarted", "D0">>, NoOp, queue)
  BY <1>3, EntersInside
<1>5. Enter(M, On(stack, NoOp, queue), <<>>, "D3Final") = On(<<"D3Final">>, NoOp, queue)
  BY <1>1, <1>3, EntersAbove
<1>6. Enter(M, On(stack, NoOp, queue), <<>>, "CollectingDiagnostics")
        = On(<<"CollectingDiagnostics">>, "CollectDiagnostics", queue)
  BY <1>1, <1>3, EntersAbove
<1>7. Enter(M, On(stack, NoOp, queue), <<"PnPStarted">>, "D0")
        = On(<<"PnPStarted", "D0">>, NoOp, queue)
  BY <1>2, <1>3, EntersAbove
<1>8. Enter(M, On(stack, NoOp, queue), <<"PnPStarted">>, "Dx")
        = On(<<"PnPStarted", "Dx">>, NoOp, queue)
  BY <1>2, <1>3, EntersAbove
<1> QED
  BY <1>4, <1>5, <1>6, <1>7, <1>8 DEF M

\* What it makes of an event before the device was first powered up,
LEMMA InitializedHandles ==
  ASSUME NEW e \in Sent, NEW queue
  PROVE  ResetResult(Cleared(Handled(ResetTables, On(<<"Initialized">>, NoOp, queue), e)), e, queue)
<1> DEFINE M == ResetTables
           stack == <<"Initialized">>
           new == Cleared(Handled(M, On(stack, NoOp, queue), e))
<1>1. stack[1] = "Initialized" /\ Under(stack, 1) = <<>>
  BY DEF Under
<1>2. /\ Takes(M, "Initialized", e) => Taker(M, stack, e) = {1}
      /\ ~Takes(M, "Initialized", e) => Takers(M, stack, e) = {}
  BY OneOrNone
<1> HIDE DEF M, stack, new
<1>3. ASSUME e = Up
      PROVE  new = On(<<"PnPStarted", "D0">>, NoOp, queue)
  <2>1. /\ ResetLeads("Initialized", e, "PnPStarted")
        /\ e \notin DOMAIN Row(ResetTables.internal, "Initialized")
    BY <1>3, ResetGoes, ResetRows DEF Up, Low, Final, Reset, Gone
  <2> QED
    BY <1>3, <2>1, FromOnly, ResetGoals, NothingUnhandled DEF M, stack, new
<1>4. ASSUME e = Low
      PROVE  new = On(stack, NoOp, queue)
  <2>1. ~Takes(M, "Initialized", e)
    BY <1>4, ResetRows DEF M, Takes, Up, Low, Final, Reset, Gone
  <2> QED
    BY <1>4, <1>2, <2>1, NobodyTakes DEF M, new
<1>5. ASSUME e = Final
      PROVE  new = On(stack, NoOp, queue)
  <2>1. ~Takes(M, "Initialized", e)
    BY <1>5, ResetRows DEF M, Takes, Up, Low, Final, Reset, Gone
  <2> QED
    BY <1>5, <1>2, <2>1, NobodyTakes DEF M, new
<1>6. ASSUME e = Reset
      PROVE  new = On(<<"CollectingDiagnostics">>, "CollectDiagnostics", queue)
  <2>1. /\ ResetLeads("Initialized", e, "CollectingDiagnostics")
        /\ e \notin DOMAIN Row(ResetTables.internal, "Initialized")
    BY <1>6, ResetGoes, ResetRows DEF Up, Low, Final, Reset, Gone
  <2> QED
    BY <1>6, <2>1, FromOnly, ResetGoals, NothingUnhandled DEF M, stack, new
<1>7. ASSUME e = Gone
      PROVE  new = NotInitialized
  <2>1. /\ Takes(M, "Initialized", e)
                  /\ e \notin DOMAIN Row(M.internal, stack[1])
                  /\ e \notin DOMAIN Row(M.external, stack[1])
    BY <1>7, <1>1, ResetRows DEF M, Takes, Up, Low, Final, Reset, Gone
  <2> QED
    BY <1>7, <1>2, <2>1, ResetEnds DEF M, new
<1> QED
  BY <1>3, <1>4, <1>5, <1>6, <1>7 DEF Sent, ResetResult, ResetShapes, M, stack, new

\* after D3Final,
LEMMA D3FinalHandles ==
  ASSUME NEW e \in Sent, NEW queue
  PROVE  ResetResult(Cleared(Handled(ResetTables, On(<<"D3Final">>, NoOp, queue), e)), e, queue)
<1> DEFINE M == ResetTables
           stack == <<"D3Final">>
           new == Cleared(Handled(M, On(stack, NoOp, queue), e))
<1>1. stack[1] = "D3Final" /\ Under(stack, 1) = <<>>
  BY DEF Under
<1>2. /\ Takes(M, "D3Final", e) => Taker(M, stack, e) = {1}
      /\ ~Takes(M, "D3Final", e) => Takers(M, stack, e) = {}
  BY OneOrNone
<1> HIDE DEF M, stack, new
<1>3. ASSUME e = Up
      PROVE  new = On(<<"PnPStarted", "D0">>, NoOp, queue)
  <2>1. /\ ResetLeads("D3Final", e, "PnPStarted")
        /\ e \notin DOMAIN Row(ResetTables.internal, "D3Final")
    BY <1>3, ResetGoes, ResetRows DEF Up, Low, Final, Reset, Gone
  <2> QED
    BY <1>3, <2>1, FromOnly, ResetGoals, NothingUnhandled DEF M, stack, new
<1>4. ASSUME e = Low
      PROVE  new = On(stack, NoOp, queue)
  <2>1. ~Takes(M, "D3Final", e)
    BY <1>4, ResetRows DEF M, Takes, Up, Low, Final, Reset, Gone
  <2> QED
    BY <1>4, <1>2, <2>1, NobodyTakes DEF M, new
<1>5. ASSUME e = Final
      PROVE  new = On(stack, NoOp, queue)
  <2>1. ~Takes(M, "D3Final", e)
    BY <1>5, ResetRows DEF M, Takes, Up, Low, Final, Reset, Gone
  <2> QED
    BY <1>5, <1>2, <2>1, NobodyTakes DEF M, new
<1>6. ASSUME e = Reset
      PROVE  new = On(stack, NoOp, queue)
  <2>1. /\ Takes(M, "D3Final", e)
                  /\ e \in DOMAIN Row(M.internal, stack[1]) /\ M.internal[stack[1]][e] = NoOp
    BY <1>6, <1>1, ResetRows DEF M, Takes, Row, Up, Low, Final, Reset, Gone
  <2> QED
    BY <1>6, <1>2, <2>1, InternallyHandled DEF M, new
<1>7. ASSUME e = Gone
      PROVE  new = NotInitialized
  <2>1. /\ Takes(M, "D3Final", e)
                  /\ e \notin DOMAIN Row(M.internal, stack[1])
                  /\ e \notin DOMAIN Row(M.external, stack[1])
    BY <1>7, <1>1, ResetRows DEF M, Takes, Up, Low, Final, Reset, Gone
  <2> QED
    BY <1>7, <1>2, <2>1, ResetEnds DEF M, new
<1> QED
  BY <1>3, <1>4, <1>5, <1>6, <1>7 DEF Sent, ResetResult, ResetShapes, M, stack, new

\* after a reset,
LEMMA TriggeringHandles ==
  ASSUME NEW e \in Sent, NEW queue
  PROVE  ResetResult(Cleared(Handled(ResetTables, On(<<Triggering>>, NoOp, queue), e)), e, queue)
<1> DEFINE M == ResetTables
           stack == <<Triggering>>
           new == Cleared(Handled(M, On(stack, NoOp, queue), e))
<1>1. stack[1] = Triggering /\ Under(stack, 1) = <<>>
  BY DEF Under
<1>2. /\ Takes(M, Triggering, e) => Taker(M, stack, e) = {1}
      /\ ~Takes(M, Triggering, e) => Takers(M, stack, e) = {}
  BY OneOrNone
<1> HIDE DEF M, stack, new
<1>3. ASSUME e = Up
      PROVE  new = On(stack, NoOp, queue)
  <2>1. /\ Takes(M, Triggering, e)
                  /\ e \in DOMAIN Row(M.internal, stack[1]) /\ M.internal[stack[1]][e] = NoOp
    BY <1>3, <1>1, ResetRows DEF M, Takes, Row, Up, Low, Final, Reset, Gone
  <2> QED
    BY <1>3, <1>2, <2>1, InternallyHandled DEF M, new
<1>4. ASSUME e = Low
      PROVE  new = On(stack, NoOp, queue)
  <2>1. ~Takes(M, Triggering, e)
    BY <1>4, ResetRows DEF M, Takes, Up, Low, Final, Reset, Gone
  <2> QED
    BY <1>4, <1>2, <2>1, NobodyTakes DEF M, new
<1>5. ASSUME e = Final
      PROVE  new = On(<<"D3Final">>, NoOp, queue)
  <2>1. /\ ResetLeads(Triggering, e, "D3Final")
        /\ e \notin DOMAIN Row(ResetTables.internal, Triggering)
    BY <1>5, ResetGoes, ResetRows DEF Up, Low, Final, Reset, Gone
  <2> QED
    BY <1>5, <2>1, FromOnly, ResetGoals, NothingUnhandled DEF M, stack, new
<1>6. ASSUME e = Reset
      PROVE  new = On(stack, NoOp, queue)
  <2>1. ~Takes(M, Triggering, e)
    BY <1>6, ResetRows DEF M, Takes, Up, Low, Final, Reset, Gone
  <2> QED
    BY <1>6, <1>2, <2>1, NobodyTakes DEF M, new
<1>7. ASSUME e = Gone
      PROVE  new = NotInitialized
  <2>1. /\ Takes(M, Triggering, e)
                  /\ e \notin DOMAIN Row(M.internal, stack[1])
                  /\ e \notin DOMAIN Row(M.external, stack[1])
    BY <1>7, <1>1, ResetRows DEF M, Takes, Up, Low, Final, Reset, Gone
  <2> QED
    BY <1>7, <1>2, <2>1, ResetEnds DEF M, new
<1> QED
  BY <1>3, <1>4, <1>5, <1>6, <1>7 DEF Sent, ResetResult, ResetShapes, M, stack, new

\* in D0,
LEMMA D0Handles ==
  ASSUME NEW e \in Sent, NEW queue
  PROVE  ResetResult(Cleared(Handled(ResetTables, On(<<"PnPStarted", "D0">>, NoOp, queue), e)),
                     e, queue)
<1> DEFINE M == ResetTables
           stack == <<"PnPStarted", "D0">>
           new == Cleared(Handled(M, On(stack, NoOp, queue), e))
<1>1. /\ stack[1] = "PnPStarted" /\ stack[2] = "D0"
      /\ Under(stack, 1) = <<>> /\ Under(stack, 2) = <<"PnPStarted">>
  BY Below DEF Under
<1>2. /\ Takes(M, "D0", e) => Taker(M, stack, e) = {2}
      /\ ~Takes(M, "D0", e) /\ Takes(M, "PnPStarted", e) => Taker(M, stack, e) = {1}
      /\ ~Takes(M, "D0", e) /\ ~Takes(M, "PnPStarted", e) => Takers(M, stack, e) = {}
  BY TwoTakers
<1> HIDE DEF M, stack, new
<1>3. ASSUME e = Up
      PROVE  new = On(stack, NoOp, queue)
  <2>1. ~Takes(M, "D0", e) /\ ~Takes(M, "PnPStarted", e)
    BY <1>3, ResetRows DEF M, Takes, Up, Low, Final, Reset, Gone
  <2> QED
    BY <1>3, <1>2, <2>1, NobodyTakes DEF M, new
<1>4. ASSUME e = Low
      PROVE  new = On(<<"PnPStarted", "Dx">>, NoOp, queue)
  <2>1. /\ ResetLeads("D0", e, "Dx")
        /\ e \notin DOMAIN Row(ResetTables.internal, "D0")
    BY <1>4, ResetGoes, ResetRows DEF Up, Low, Final, Reset, Gone
  <2> QED
    BY <1>4, <2>1, FromInner, ResetGoals, NothingUnhandled DEF M, stack, new
<1>5. ASSUME e = Final
      PROVE  new = On(<<"D3Final">>, NoOp, queue)
  <2> DEFINE m == On(stack, NoOp, queue)
  <2>1. /\ Takes(M, "D0", e)
                     /\ e \notin DOMAIN Row(M.internal, stack[2])
                     /\ e \notin DOMAIN Row(M.external, stack[2])
                     /\ M.pop["D0"][e] = Final
    BY <1>5, <1>1, ResetRows DEF M, Takes, Row, Up, Low, Final, Reset, Gone
  <2>2. m.stack = stack
    BY DEF On
  <2>3. <<"PnPStarted">> # <<>> /\ SubSeq(<<"PnPStarted">>, 1, 2 - 2) = <<>>
        /\ <<"PnPStarted">>[2 - 1] = "PnPStarted"
    OBVIOUS
  <2>4. M.external["PnPStarted"][Final] = "D3Final"
    BY <1>5, ResetGoes DEF M, ResetLeads
  <2> HIDE DEF m
  <2>5. LeaveFrom(M, m, e, 2) = Enter(M, m, <<>>, "D3Final")
    BY <1>5, <1>1, <2>1, <2>2, <2>3, <2>4 DEF LeaveFrom, Row, Under
  <2>6. Handled(M, m, e) = LeaveFrom(M, m, e, 2)
    BY <1>5, <1>2, <2>1, LeavesFrom DEF m
  <2> QED
    BY <1>5, <2>5, <2>6, ResetGoals, NothingUnhandled DEF M, m, new
<1>6. ASSUME e = Reset
      PROVE  new = On(<<"CollectingDiagnostics">>, "CollectDiagnostics", queue)
  <2>1. /\ ResetLeads("PnPStarted", e, "CollectingDiagnostics") /\ ~Takes(ResetTables, "D0", e)
        /\ e \notin DOMAIN Row(ResetTables.internal, "PnPStarted")
    BY <1>6, ResetGoes, ResetRows DEF Takes, Up, Low, Final, Reset, Gone
  <2> QED
    BY <1>6, <2>1, FromOuter, ResetGoals, NothingUnhandled DEF M, stack, new
<1>7. ASSUME e = Gone
      PROVE  new = NotInitialized
  <2>1. /\ ~Takes(M, "D0", e) /\ Takes(M, "PnPStarted", e)
                  /\ e \notin DOMAIN Row(M.internal, stack[1])
                  /\ e \notin DOMAIN Row(M.external, stack[1])
    BY <1>7, <1>1, ResetRows DEF M, Takes, Up, Low, Final, Reset, Gone
  <2> QED
    BY <1>7, <1>2, <2>1, ResetEnds DEF M, new
<1> QED
  BY <1>3, <1>4, <1>5, <1>6, <1>7 DEF Sent, ResetResult, ResetShapes, M, stack, new

\* and in low power.
LEMMA DxHandles ==
  ASSUME NEW e \in Sent, NEW queue
  PROVE  ResetResult(Cleared(Handled(ResetTables, On(<<"PnPStarted", "Dx">>, NoOp, queue), e)),
                     e, queue)
<1> DEFINE M == ResetTables
           stack == <<"PnPStarted", "Dx">>
           new == Cleared(Handled(M, On(stack, NoOp, queue), e))
<1>1. /\ stack[1] = "PnPStarted" /\ stack[2] = "Dx"
      /\ Under(stack, 1) = <<>> /\ Under(stack, 2) = <<"PnPStarted">>
  BY Below DEF Under
<1>2. /\ Takes(M, "Dx", e) => Taker(M, stack, e) = {2}
      /\ ~Takes(M, "Dx", e) /\ Takes(M, "PnPStarted", e) => Taker(M, stack, e) = {1}
      /\ ~Takes(M, "Dx", e) /\ ~Takes(M, "PnPStarted", e) => Takers(M, stack, e) = {}
  BY TwoTakers
<1> HIDE DEF M, stack, new
<1>3. ASSUME e = Up
      PROVE  new = On(<<"PnPStarted", "D0">>, NoOp, queue)
  <2>1. /\ ResetLeads("Dx", e, "D0")
        /\ e \notin DOMAIN Row(ResetTables.internal, "Dx")
    BY <1>3, ResetGoes, ResetRows DEF Up, Low, Final, Reset, Gone
  <2> QED
    BY <1>3, <2>1, FromInner, ResetGoals, NothingUnhandled DEF M, stack, new
<1>4. ASSUME e = Low
      PROVE  new = On(stack, NoOp, queue)
  <2>1. ~Takes(M, "Dx", e) /\ ~Takes(M, "PnPStarted", e)
    BY <1>4, ResetRows DEF M, Takes, Up, Low, Final, Reset, Gone
  <2> QED
    BY <1>4, <1>2, <2>1, NobodyTakes DEF M, new
<1>5. ASSUME e = Final
      PROVE  new = On(<<"D3Final">>, NoOp, queue)
  <2>1. /\ ResetLeads("PnPStarted", e, "D3Final") /\ ~Takes(ResetTables, "Dx", e)
        /\ e \notin DOMAIN Row(ResetTables.internal, "PnPStarted")
    BY <1>5, ResetGoes, ResetRows DEF Takes, Up, Low, Final, Reset, Gone
  <2> QED
    BY <1>5, <2>1, FromOuter, ResetGoals, NothingUnhandled DEF M, stack, new
<1>6. ASSUME e = Reset
      PROVE  new = On(<<"CollectingDiagnostics">>, "CollectDiagnostics", queue)
  <2>1. /\ ResetLeads("PnPStarted", e, "CollectingDiagnostics") /\ ~Takes(ResetTables, "Dx", e)
        /\ e \notin DOMAIN Row(ResetTables.internal, "PnPStarted")
    BY <1>6, ResetGoes, ResetRows DEF Takes, Up, Low, Final, Reset, Gone
  <2> QED
    BY <1>6, <2>1, FromOuter, ResetGoals, NothingUnhandled DEF M, stack, new
<1>7. ASSUME e = Gone
      PROVE  new = NotInitialized
  <2>1. /\ ~Takes(M, "Dx", e) /\ Takes(M, "PnPStarted", e)
                  /\ e \notin DOMAIN Row(M.internal, stack[1])
                  /\ e \notin DOMAIN Row(M.external, stack[1])
    BY <1>7, <1>1, ResetRows DEF M, Takes, Up, Low, Final, Reset, Gone
  <2> QED
    BY <1>7, <1>2, <2>1, ResetEnds DEF M, new
<1> QED
  BY <1>3, <1>4, <1>5, <1>6, <1>7 DEF Sent, ResetResult, ResetShapes, M, stack, new

-----------------------------------------------------------------------------
(* The invariant of the reset.                                              *)

\* The machine waits for events, has been destroyed, or runs an operation.
ResetMachineInv ==
  \E queue \in Seq(Sent) :
    \/ \E stack \in ResetShapes \cup {<<>>} : resetMachine = On(stack, NoOp, queue)
    \/ resetMachine = At("CollectingDiagnostics", "CollectDiagnostics", queue)
    \/ resetMachine = At(Triggering, "TriggerPlatformLevelDeviceReset", queue)

NoResetIn(queue) == \A i \in DOMAIN queue : queue[i] # Reset
OneResetIn(queue) ==
  \A i, j \in DOMAIN queue : queue[i] = Reset /\ queue[j] = Reset => i = j

\* No reset runs or will run,
Quiet ==
  resetMachine.op = NoOp /\ NoResetIn(resetMachine.queue) /\ pldrReferences = 0

\* or one does or will or has been ignored, and nobody has been told of its end.
Pending ==
  /\ pldrReferences = 1 /\ ~pldrComplete
  /\ OneResetIn(resetMachine.queue)
  /\ resetMachine.op # NoOp => NoResetIn(resetMachine.queue)

\* Who asks and who has asked.
AskedInv ==
  /\ requester \in [Requesters -> {"idle", "requesting", "requested"}]
  /\ pldrRequested \in BOOLEAN /\ pldrComplete \in BOOLEAN
  /\ pldrRequested <=> Requests # {}
  /\ phase \in {"cleaning", "removed"} => \A r \in Requesters : requester[r] # "requesting"
  /\ ~pldrRequested => Quiet /\ ~pldrComplete

\* Each request holds a reference until a reset has ended.
CountInv ==
  /\ pldrReferences \in Int /\ pldrReferences <= Cardinality(Requests)
  /\ pldrComplete => pldrReferences < Cardinality(Requests)
  /\ phase = "removed" /\ pldrRequested => pldrReferences < Cardinality(Requests)

\* A single request is all there is to wait for.
OnlyInv ==
  Cardinality(Requests) <= 1 =>
    /\ Quiet \/ Pending
    /\ phase = "removed" => Quiet

PldrInv == AskedInv /\ CountInv /\ OnlyInv

\* The requests are finitely many.
LEMMA Finitely ==
  ASSUME NEW f
  PROVE  LET R == {r \in Requesters : f[r] = "requested"}
         IN  /\ IsFiniteSet(R) /\ Cardinality(R) \in Nat
             /\ Cardinality(R) = 0 => R = {}
             /\ \A r \in Requesters \ R : Cardinality(R \cup {r}) = Cardinality(R) + 1
<1> DEFINE R == {r \in Requesters : f[r] = "requested"}
<1>1. IsFiniteSet(R)
  BY RequestersAssumption, FS_Subset
<1> HIDE DEF R
<1>2. Cardinality(R) \in Nat /\ (Cardinality(R) = 0 => R = {})
  BY <1>1, FS_CardinalityType, FS_EmptySet
<1>3. \A r \in Requesters \ R : Cardinality(R \cup {r}) = Cardinality(R) + 1
  BY <1>1, FS_AddElement
<1> QED
  BY <1>1, <1>2, <1>3 DEF R

\* An event is enqueued,
LEMMA QueueGrows ==
  ASSUME NEW queue \in Seq(Sent), NEW e \in Sent
  PROVE  LET more == Append(queue, e)
         IN  /\ more \in Seq(Sent)
             /\ e # Reset /\ NoResetIn(queue) => NoResetIn(more)
             /\ e # Reset /\ OneResetIn(queue) => OneResetIn(more)
             /\ NoResetIn(queue) => OneResetIn(more)
  BY DEF NoResetIn, OneResetIn

\* or taken.
LEMMA QueueShrinks ==
  ASSUME NEW queue \in Seq(Sent), queue # <<>>
  PROVE  /\ Tail(queue) \in Seq(Sent) /\ Head(queue) \in Sent
         /\ NoResetIn(queue) => NoResetIn(Tail(queue)) /\ Head(queue) # Reset
         /\ OneResetIn(queue) => OneResetIn(Tail(queue))
         /\ OneResetIn(queue) /\ Head(queue) = Reset => NoResetIn(Tail(queue))
<1>1. /\ Tail(queue) \in Seq(Sent) /\ Head(queue) \in Sent
      /\ Head(queue) = queue[1] /\ 1 \in DOMAIN queue
      /\ \A i \in DOMAIN Tail(queue) :
           i + 1 \in DOMAIN queue /\ Tail(queue)[i] = queue[i + 1] /\ i \in Nat /\ i > 0
  OBVIOUS
<1> QED
  BY <1>1 DEF NoResetIn, OneResetIn
\* Whatever rests and has an event.
LEMMA ResetHandles ==
  ASSUME NEW stack \in ResetShapes, NEW e \in Sent, NEW queue
  PROVE  ResetResult(Cleared(Handled(ResetTables, On(stack, NoOp, queue), e)), e, queue)
  BY InitializedHandles, D0Handles, DxHandles, D3FinalHandles, TriggeringHandles
  DEF ResetShapes

\* The parts of the machine.
LEMMA ResetShape ==
  ASSUME ResetMachineInv
  PROVE  /\ resetMachine.queue \in Seq(Sent)
         /\ resetMachine.op = NoOp =>
              \E stack \in ResetShapes \cup {<<>>} :
                resetMachine = On(stack, NoOp, resetMachine.queue)
         /\ resetMachine.op # NoOp =>
              \/ resetMachine
                   = At("CollectingDiagnostics", "CollectDiagnostics", resetMachine.queue)
              \/ resetMachine
                   = At(Triggering, "TriggerPlatformLevelDeviceReset", resetMachine.queue)
<1>1. PICK queue \in Seq(Sent) :
        \/ \E stack \in ResetShapes \cup {<<>>} : resetMachine = On(stack, NoOp, queue)
        \/ resetMachine = At("CollectingDiagnostics", "CollectDiagnostics", queue)
        \/ resetMachine = At(Triggering, "TriggerPlatformLevelDeviceReset", queue)
  BY DEF ResetMachineInv
<1>2. \A stack, op, q : On(stack, op, q).queue = q /\ On(stack, op, q).op = op
  BY DEF On
<1>3. resetMachine.queue = queue
  BY <1>1, <1>2 DEF At
<1>4. "CollectDiagnostics" # NoOp /\ "TriggerPlatformLevelDeviceReset" # NoOp
  BY DEF NoOp
<1> QED
  BY <1>1, <1>2, <1>3, <1>4 DEF At

\* It takes the oldest event.
LEMMA ResetTakes ==
  ASSUME ResetMachineInv, TakeResetEvent
  PROVE  /\ resetMachine.queue \in Seq(Sent) /\ resetMachine.queue # <<>>
         /\ ResetResult(resetMachine', Head(resetMachine.queue), Tail(resetMachine.queue))
<1> DEFINE queue == resetMachine.queue
<1>1. /\ CanDequeue(ResetTables, resetMachine)
      /\ resetMachine' = Cleared(Dequeued(ResetTables, resetMachine))
  BY DEF TakeResetEvent, Cleared
<1>2. resetMachine.stack # <<>> /\ resetMachine.op = NoOp /\ queue # <<>>
  BY <1>1 DEF CanDequeue, Ready
<1>3. queue \in Seq(Sent)
  BY ResetShape
<1>4. PICK stack \in ResetShapes \cup {<<>>} : resetMachine = On(stack, NoOp, queue)
  BY <1>2, ResetShape
<1>5. stack \in ResetShapes
  BY <1>2, <1>4 DEF On
<1>6. ResetTables.deferred = <<>>
  BY ResetKinds
<1>7. Head(queue) \in Sent
  BY <1>2, <1>3, QueueShrinks
<1> HIDE DEF queue
<1>8. Dequeued(ResetTables, On(stack, NoOp, queue))
        = Handled(ResetTables, On(stack, NoOp, Tail(queue)), Head(queue))
  BY <1>2, <1>3, <1>6, DequeuesHead
<1>9. ResetResult(resetMachine', Head(queue), Tail(queue))
  BY <1>1, <1>4, <1>5, <1>7, <1>8, ResetHandles
<1> QED
  BY <1>2, <1>3, <1>9 DEF queue

\* A step of the machine keeps what it owes.
LEMMA SameCount ==
  ASSUME PldrInv, phase' = phase, Quiet => Quiet', Pending => Pending',
         UNCHANGED <<pldrRequested, pldrComplete, pldrReferences, requester>>
  PROVE  PldrInv'
<1>1. Requests' = Requests
  BY DEF Requests
<1>2. AskedInv'
  BY <1>1 DEF PldrInv, AskedInv
<1>3. CountInv'
  BY <1>1 DEF PldrInv, CountInv
<1>4. OnlyInv'
  BY <1>1 DEF PldrInv, OnlyInv
<1> QED
  BY <1>2, <1>3, <1>4 DEF PldrInv

\* A request that it takes leads to an operation or is ignored.
LEMMA TakeResetEventInv ==
  ASSUME ResetMachineInv, PldrInv, TakeResetEvent, phase' = phase
  PROVE  ResetMachineInv' /\ PldrInv'
<1> DEFINE queue == resetMachine.queue
<1>1. /\ queue \in Seq(Sent) /\ queue # <<>>
      /\ ResetResult(resetMachine', Head(queue), Tail(queue))
  BY ResetTakes
<1>2. resetMachine.op = NoOp /\ UNCHANGED <<pldrRequested, pldrComplete, pldrReferences, requester>>
  BY DEF TakeResetEvent, CanDequeue
<1>3. /\ Tail(queue) \in Seq(Sent) /\ Head(queue) \in Sent
      /\ NoResetIn(queue) => NoResetIn(Tail(queue)) /\ Head(queue) # Reset
      /\ OneResetIn(queue) => OneResetIn(Tail(queue))
      /\ OneResetIn(queue) /\ Head(queue) = Reset => NoResetIn(Tail(queue))
  BY <1>1, QueueShrinks
<1>4. /\ \A stack, op, q : On(stack, op, q).queue = q /\ On(stack, op, q).op = op
      /\ NotInitialized.queue = <<>> /\ NotInitialized.op = NoOp
      /\ NotInitialized = On(<<>>, NoOp, <<>>)
  BY DEF On, NotInitialized
<1>5. NoResetIn(<<>>) /\ OneResetIn(<<>>) /\ <<>> \in Seq(Sent)
  BY DEF NoResetIn, OneResetIn
<1> HIDE DEF queue
<1>6. ResetMachineInv'
  <2>1. CASE resetMachine' = NotInitialized
    BY <1>4, <1>5, <2>1 DEF ResetMachineInv
  <2>2. CASE \E stack \in ResetShapes : resetMachine' = On(stack, NoOp, Tail(queue))
    BY <1>3, <2>2 DEF ResetMachineInv
  <2>3. CASE resetMachine' = On(<<"CollectingDiagnostics">>, "CollectDiagnostics", Tail(queue))
    BY <1>3, <2>3 DEF ResetMachineInv, At
  <2> QED
    BY <1>1, <2>1, <2>2, <2>3 DEF ResetResult
<1>7. \/ resetMachine'.op = NoOp /\ resetMachine'.queue \in {<<>>, Tail(queue)}
      \/ Head(queue) = Reset /\ resetMachine'.op # NoOp /\ resetMachine'.queue = Tail(queue)
  <2>1. CASE resetMachine' = NotInitialized
    BY <1>4, <2>1
  <2>2. CASE \E stack \in ResetShapes : resetMachine' = On(stack, NoOp, Tail(queue))
    <3>1. PICK stack \in ResetShapes : resetMachine' = On(stack, NoOp, Tail(queue))
      BY <2>2
    <3>2. resetMachine'.op = NoOp /\ resetMachine'.queue = Tail(queue)
      BY <3>1 DEF On
    <3> QED
      BY <3>2
  <2>3. CASE /\ Head(queue) = Reset
             /\ resetMachine' = On(<<"CollectingDiagnostics">>, "CollectDiagnostics", Tail(queue))
    <3>1. resetMachine'.op = "CollectDiagnostics" /\ resetMachine'.queue = Tail(queue)
      BY <2>3 DEF On
    <3>2. "CollectDiagnostics" # NoOp
      BY DEF NoOp
    <3> QED
      BY <2>3, <3>1, <3>2
  <2> QED
    BY <1>1, <2>1, <2>2, <2>3 DEF ResetResult
<1>8. Quiet => Quiet'
  BY <1>2, <1>3, <1>5, <1>7 DEF Quiet, queue
<1>9. Pending => Pending'
  BY <1>2, <1>3, <1>5, <1>7 DEF Pending, queue
<1> QED
  BY <1>2, <1>6, <1>8, <1>9, SameCount

\* It is sent an event.
LEMMA EnqueueResetInv ==
  ASSUME ResetMachineInv, NEW e \in Sent, EnqueueResetEvent(e)
  PROVE  /\ ResetMachineInv'
         /\ resetMachine'.op = resetMachine.op
         /\ NoResetIn(resetMachine.queue) => OneResetIn(resetMachine'.queue)
         /\ e # Reset /\ NoResetIn(resetMachine.queue) => NoResetIn(resetMachine'.queue)
         /\ e # Reset /\ OneResetIn(resetMachine.queue) => OneResetIn(resetMachine'.queue)
<1> DEFINE queue == resetMachine.queue
<1>1. resetMachine' = Enqueued(resetMachine, e)
  BY DEF EnqueueResetEvent
<1>2. queue \in Seq(Sent)
  BY ResetShape
<1>3. \A stack, op : resetMachine = On(stack, op, queue) =>
                       resetMachine' = On(stack, op, Longer(queue, e))
  BY <1>1, Enqueues
<1>4. \A stack, op, q : On(stack, op, q).queue = q /\ On(stack, op, q).op = op
  BY DEF On
<1>5. PICK stack, op : /\ resetMachine = On(stack, op, queue)
                       /\ \/ stack \in ResetShapes \cup {<<>>} /\ op = NoOp
                          \/ stack = <<"CollectingDiagnostics">> /\ op = "CollectDiagnostics"
                          \/ stack = <<Triggering>> /\ op = "TriggerPlatformLevelDeviceReset"
  BY ResetShape DEF At
<1>6. resetMachine' = On(stack, op, Longer(queue, e))
  BY <1>3, <1>5
<1> HIDE DEF queue
<1>7. resetMachine'.queue = Append(queue, e) /\ resetMachine'.op = resetMachine.op
  <2>1. resetMachine'.queue = Longer(queue, e) /\ resetMachine'.op = op
    BY <1>4, <1>6
  <2>2. resetMachine.op = op
    BY <1>4, <1>5
  <2> QED
    BY <2>1, <2>2 DEF Longer
<1>8. /\ Append(queue, e) \in Seq(Sent)
      /\ e # Reset /\ NoResetIn(queue) => NoResetIn(Append(queue, e))
      /\ e # Reset /\ OneResetIn(queue) => OneResetIn(Append(queue, e))
      /\ NoResetIn(queue) => OneResetIn(Append(queue, e))
  BY <1>2, QueueGrows
<1>9. ResetMachineInv'
  BY <1>5, <1>6, <1>8 DEF ResetMachineInv, At, Longer
<1> QED
  BY <1>7, <1>8, <1>9 DEF queue

\* The operation and the queue of a machine.
LEMMA PartsOn ==
  ASSUME NEW stack, NEW op, NEW queue
  PROVE  On(stack, op, queue).op = op /\ On(stack, op, queue).queue = queue
  BY DEF On

\* The diagnostics have been collected: the reset is next.
LEMMA CollectDiagnosticsInv ==
  ASSUME ResetMachineInv, PldrInv, CollectDiagnostics, phase' = phase
  PROVE  ResetMachineInv' /\ PldrInv'
<1> DEFINE queue == resetMachine.queue
           M == ResetTables
<1>1. /\ resetMachine.op = "CollectDiagnostics"
      /\ resetMachine' = Returned(M, resetMachine, "SyncSuccess")
      /\ UNCHANGED <<pldrRequested, pldrComplete, pldrReferences, requester>>
  BY DEF CollectDiagnostics
<1>2. "CollectDiagnostics" # NoOp /\ "CollectDiagnostics" # "TriggerPlatformLevelDeviceReset"
      /\ "TriggerPlatformLevelDeviceReset" # NoOp
  BY DEF NoOp
<1>3. queue \in Seq(Sent)
  BY ResetShape
<1>4. resetMachine = At("CollectingDiagnostics", "CollectDiagnostics", queue)
  <2>1. resetMachine # At(Triggering, "TriggerPlatformLevelDeviceReset", queue)
    BY <1>1, <1>2, PartsOn DEF At
  <2> QED
    BY <1>1, <1>2, <2>1, ResetShape
<1>5. /\ "CollectingDiagnostics" \in DOMAIN M.external
      /\ "SyncSuccess" \in DOMAIN M.external["CollectingDiagnostics"]
      /\ M.external["CollectingDiagnostics"]["SyncSuccess"] = Triggering
  BY ResetGoes DEF ResetLeads
<1>6. /\ Plain(M, "CollectingDiagnostics") /\ Plain(M, Triggering)
      /\ M.states["CollectingDiagnostics"] = "Sync"
      /\ OpOf(M, Triggering) = "TriggerPlatformLevelDeviceReset"
  BY ResetKinds
<1> HIDE DEF queue, M
<1>7. /\ ~IsCall(M, "CollectingDiagnostics")
      /\ M.states["CollectingDiagnostics"] # "Async"
  BY <1>6 DEF Plain
<1>8. resetMachine' = At(Triggering, "TriggerPlatformLevelDeviceReset", queue)
  BY <1>1, <1>4, <1>5, <1>6, <1>7, ReturnsTo
<1>9. ResetMachineInv'
  BY <1>3, <1>8 DEF ResetMachineInv
<1>10. resetMachine'.queue = queue /\ resetMachine'.op = "TriggerPlatformLevelDeviceReset"
  BY <1>8, PartsOn DEF At
<1>11. ~Quiet
  BY <1>1, <1>2 DEF Quiet
<1>12. Pending => Pending'
  BY <1>1, <1>2, <1>10 DEF Pending, queue
<1> QED
  BY <1>1, <1>9, <1>11, <1>12, SameCount

\* The end of the reset.
LEMMA TriggerInv ==
  ASSUME ResetMachineInv, PldrInv, TriggerPlatformLevelDeviceReset, phase' = phase
  PROVE  ResetMachineInv' /\ PldrInv'
<1> DEFINE queue == resetMachine.queue
           M == ResetTables
<1>1. /\ resetMachine.op = "TriggerPlatformLevelDeviceReset"
      /\ resetMachine' = Returned(M, resetMachine, NoOp)
      /\ pldrComplete' = TRUE /\ pldrReferences' = pldrReferences - 1
      /\ UNCHANGED <<pldrRequested, requester>>
  BY DEF TriggerPlatformLevelDeviceReset
<1>2. "CollectDiagnostics" # NoOp /\ "CollectDiagnostics" # "TriggerPlatformLevelDeviceReset"
      /\ "TriggerPlatformLevelDeviceReset" # NoOp
  BY DEF NoOp
<1>3. queue \in Seq(Sent)
  BY ResetShape
<1>4. resetMachine = At(Triggering, "TriggerPlatformLevelDeviceReset", queue)
  <2>1. resetMachine # At("CollectingDiagnostics", "CollectDiagnostics", queue)
    BY <1>1, <1>2, PartsOn DEF At
  <2> QED
    BY <1>1, <1>2, <2>1, ResetShape
<1>5. M.states[Triggering] = "Async"
  BY ResetKinds
<1> HIDE DEF queue, M
<1>6. resetMachine' = At(Triggering, NoOp, queue)
  BY <1>1, <1>4, <1>5, ReturnsToRest
<1>7. ResetMachineInv'
  <2>1. <<Triggering>> \in ResetShapes
    BY DEF ResetShapes
  <2> QED
    BY <1>3, <1>6, <2>1 DEF ResetMachineInv, At
<1>8. resetMachine'.queue = queue /\ resetMachine'.op = NoOp
  BY <1>6, PartsOn DEF At
<1>9. ~Quiet /\ pldrRequested /\ phase' = phase
  BY <1>1, <1>2 DEF PldrInv, AskedInv, Quiet
<1>10. Pending => Quiet'
  BY <1>1, <1>2, <1>8 DEF Pending, Quiet, queue
<1>11. Requests' = Requests
  BY <1>1 DEF Requests
<1>12. AskedInv'
  BY <1>1, <1>9, <1>11 DEF PldrInv, AskedInv
<1>13. CountInv'
  <2>1. Cardinality(Requests) \in Nat
    BY Finitely DEF Requests
  <2>2. pldrReferences \in Int /\ pldrReferences <= Cardinality(Requests)
    BY DEF PldrInv, CountInv
  <2>3. /\ pldrReferences' \in Int /\ pldrReferences' <= Cardinality(Requests)
        /\ pldrReferences' < Cardinality(Requests)
    BY <1>1, <2>1, <2>2
  <2> QED
    BY <1>11, <2>3 DEF CountInv
<1>14. OnlyInv'
  BY <1>9, <1>10, <1>11 DEF PldrInv, OnlyInv
<1> QED
  BY <1>7, <1>12, <1>13, <1>14 DEF PldrInv

\* The power callbacks tell the machine.
LEMMA ToldOfPower ==
  ASSUME ResetMachineInv, PldrInv, NEW e \in Sent \ {Reset}, EnqueueResetEvent(e),
         UNCHANGED <<pldrRequested, pldrReferences, requester>>, pldrComplete' \in BOOLEAN,
         pldrComplete' => pldrComplete,
         phase' \in {"cleaning", "removed"} => phase = "cleaning",
         phase' = "removed" /\ pldrRequested => pldrComplete
  PROVE  ResetMachineInv' /\ PldrInv'
<1>1. /\ ResetMachineInv'
      /\ resetMachine'.op = resetMachine.op
      /\ NoResetIn(resetMachine.queue) => NoResetIn(resetMachine'.queue)
      /\ OneResetIn(resetMachine.queue) => OneResetIn(resetMachine'.queue)
  BY EnqueueResetInv
<1>2. Quiet => Quiet'
  BY <1>1 DEF Quiet
<1>3. Pending => Pending'
  BY <1>1 DEF Pending, PldrInv, AskedInv
<1>4. Requests' = Requests
  BY DEF Requests
<1>5. AskedInv'
  BY <1>2, <1>4 DEF PldrInv, AskedInv
<1>6. CountInv'
  BY <1>4 DEF PldrInv, CountInv
<1>7. OnlyInv'
  <2>1. phase' = "removed" /\ ~Quiet => ~Pending
    BY DEF PldrInv, AskedInv, Pending
  <2> QED
    BY <1>2, <1>3, <1>4, <2>1 DEF PldrInv, OnlyInv
<1> QED
  BY <1>1, <1>5, <1>6, <1>7 DEF PldrInv

\* A step that does not concern the reset.
LEMMA Elsewhere ==
  ASSUME ResetMachineInv, PldrInv, UNCHANGED resetVars,
         phase' \in {"cleaning", "removed"} => phase' = phase
  PROVE  ResetMachineInv' /\ PldrInv'
<1>1. ResetMachineInv' /\ Requests' = Requests /\ (Quiet => Quiet') /\ (Pending => Pending')
  BY DEF resetVars, ResetMachineInv, Requests, Quiet, Pending
<1>2. AskedInv'
  BY <1>1 DEF resetVars, PldrInv, AskedInv
<1>3. CountInv'
  BY <1>1 DEF resetVars, PldrInv, CountInv
<1>4. OnlyInv'
  BY <1>1 DEF PldrInv, OnlyInv
<1> QED
  BY <1>1, <1>2, <1>3, <1>4 DEF PldrInv

\* A thread finds no request.
LEMMA RequestInv ==
  ASSUME ResetMachineInv, PldrInv, NEW r \in Requesters, RequestReset(r)
  PROVE  ResetMachineInv' /\ PldrInv'
<1>1. /\ requester[r] = "idle" /\ requester' = [requester EXCEPT ![r] = "requesting"]
      /\ phase \notin {"cleaning", "removed"} /\ phase' = phase /\ ~pldrRequested
      /\ UNCHANGED <<resetMachine, pldrRequested, pldrComplete, pldrReferences>>
  BY DEF RequestReset, FindNoRequest, wdfVars
<1>2. ResetMachineInv'
  BY <1>1 DEF ResetMachineInv
<1>3. (Quiet => Quiet') /\ (Pending => Pending')
  BY <1>1 DEF Quiet, Pending
<1>4. requester' \in [Requesters -> {"idle", "requesting", "requested"}]
  BY <1>1 DEF PldrInv, AskedInv
<1>5. Requests' = Requests
  BY <1>1 DEF PldrInv, AskedInv, Requests
<1>6. AskedInv'
  BY <1>1, <1>3, <1>4, <1>5 DEF PldrInv, AskedInv
<1>7. CountInv'
  BY <1>1, <1>5 DEF PldrInv, CountInv
<1>8. OnlyInv'
  BY <1>1, <1>3, <1>5 DEF PldrInv, OnlyInv
<1> QED
  BY <1>2, <1>6, <1>7, <1>8 DEF PldrInv

\* It requests: the machine was quiet if nobody had before.
LEMMA RequestedInv ==
  ASSUME ResetMachineInv, PldrInv, NEW r \in Requesters, ResetRequested(r)
  PROVE  ResetMachineInv' /\ PldrInv'
<1>1. /\ requester[r] = "requesting" /\ requester' = [requester EXCEPT ![r] = "requested"]
      /\ pldrRequested' = TRUE /\ pldrReferences' = pldrReferences + 1
      /\ EnqueueResetEvent(Reset)
      /\ UNCHANGED <<pldrComplete, phase>>
  BY DEF ResetRequested, PlatformLevelDeviceResetWithDiagnostics, wdfVars, Reset
<1>2. phase \notin {"cleaning", "removed"}
  BY <1>1 DEF PldrInv, AskedInv
<1>3. /\ ResetMachineInv'
      /\ resetMachine'.op = resetMachine.op
      /\ NoResetIn(resetMachine.queue) => OneResetIn(resetMachine'.queue)
  BY <1>1, EnqueueResetInv DEF Sent
<1>4. Quiet /\ ~pldrComplete => Pending'
  BY <1>1, <1>3 DEF Quiet, Pending
<1>5. requester' \in [Requesters -> {"idle", "requesting", "requested"}]
  BY <1>1 DEF PldrInv, AskedInv
<1>6. Requests' = Requests \cup {r} /\ r \in Requesters \ Requests
  BY <1>1 DEF PldrInv, AskedInv, Requests
<1>7. /\ Cardinality(Requests) \in Nat
      /\ Cardinality(Requests') = Cardinality(Requests) + 1
      /\ Cardinality(Requests) = 0 => Requests = {}
  BY <1>6, Finitely DEF Requests
<1>8. AskedInv'
  BY <1>1, <1>2, <1>5, <1>6 DEF PldrInv, AskedInv
<1>9. CountInv'
  <2>1. pldrReferences \in Int /\ pldrReferences <= Cardinality(Requests)
    BY DEF PldrInv, CountInv
  <2>2. pldrReferences' \in Int /\ pldrReferences' <= Cardinality(Requests')
    BY <1>1, <1>7, <2>1
  <2>3. ASSUME pldrComplete PROVE pldrReferences' < Cardinality(Requests')
    <3>1. pldrReferences < Cardinality(Requests)
      BY <2>3 DEF PldrInv, CountInv
    <3> QED
      BY <1>1, <1>7, <2>1, <3>1
  <2> QED
    BY <1>1, <1>2, <2>2, <2>3 DEF CountInv
<1>10. OnlyInv'
  <2>1. Cardinality(Requests') <= 1 => Cardinality(Requests) = 0
    BY <1>7
  <2>2. Requests = {} => Pending'
    BY <1>4 DEF PldrInv, AskedInv
  <2> QED
    BY <1>1, <1>2, <1>7, <2>1, <2>2 DEF OnlyInv
<1> QED
  BY <1>3, <1>8, <1>9, <1>10 DEF PldrInv

\* The device goes when a reset that was requested has ended.
LEMMA CleanupReturnsInv ==
  ASSUME ResetMachineInv, PldrInv, DeviceCleanupReturns
  PROVE  ResetMachineInv' /\ PldrInv'
<1>1. /\ EnqueueResetEvent(Gone) /\ UNCHANGED <<pldrRequested, pldrReferences, requester>>
      /\ pldrRequested => pldrComplete
      /\ pldrComplete' = (pldrComplete /\ ~pldrRequested)
      /\ phase = "cleaning" /\ phase' = "removed"
  BY DEF DeviceCleanupReturns, EvtDeviceCleanup, WaitDeviceResetFinishIfRequested,
         GoesOn, Gone
<1>2. Gone \in Sent \ {Reset}
  BY DEF Sent, Gone, Reset
<1>3. pldrComplete' \in BOOLEAN /\ (pldrComplete' => pldrComplete)
  BY <1>1 DEF PldrInv, AskedInv
<1> QED
  BY <1>1, <1>2, <1>3, ToldOfPower

\* No thread is in a request any more.
LEMMA CleanupInv ==
  ASSUME ResetMachineInv, PldrInv, DeviceCleanup
  PROVE  ResetMachineInv' /\ PldrInv'
<1>1. /\ UNCHANGED resetVars /\ phase' = "cleaning"
      /\ \A r \in Requesters : requester[r] # "requesting"
  BY DEF DeviceCleanup
<1>2. ResetMachineInv' /\ Requests' = Requests /\ (Quiet => Quiet') /\ (Pending => Pending')
  BY <1>1 DEF resetVars, ResetMachineInv, Requests, Quiet, Pending
<1>3. AskedInv'
  BY <1>1, <1>2 DEF resetVars, PldrInv, AskedInv
<1>4. CountInv'
  BY <1>1, <1>2 DEF resetVars, PldrInv, CountInv
<1>5. OnlyInv'
  BY <1>1, <1>2 DEF PldrInv, OnlyInv
<1> QED
  BY <1>2, <1>3, <1>4, <1>5 DEF PldrInv

\* The power callbacks tell the machine about D0 and low power.
LEMMA PowerTellsInv ==
  ASSUME ResetMachineInv, PldrInv, PostHardwareEnabled \/ PowerDownReturns
  PROVE  ResetMachineInv' /\ PldrInv'
<1>1. /\ Up \in Sent \ {Reset} /\ Low \in Sent \ {Reset} /\ Final \in Sent \ {Reset}
  BY DEF Sent, Up, Low, Final, Reset
<1>2. /\ EnqueueResetEvent(Up) \/ EnqueueResetEvent(Low) \/ EnqueueResetEvent(Final)
      /\ UNCHANGED <<pldrRequested, pldrComplete, pldrReferences, requester>>
      /\ phase' \notin {"cleaning", "removed"}
  BY DEF PostHardwareEnabled, PowerDownReturns, GoesOn, Up, Low, Final
<1>3. pldrComplete' \in BOOLEAN /\ (pldrComplete' => pldrComplete)
  BY <1>2 DEF PldrInv, AskedInv
<1> QED
  BY <1>1, <1>2, <1>3, ToldOfPower

\* The other callbacks of WDF.
LEMMA OtherPowerStepsInv ==
  ASSUME ResetMachineInv, PldrInv,
         \/ PrePrepareHardware \/ PreD0Entry \/ PreSelfManagedIoSuspend \/ PreReleaseHardware
         \/ D0EntryFails \/ PowerUpReturns \/ PostSelfManagedIo \/ PreHardwareDisabled \/ PostD0Exit
         \/ PostD0ExitReturns \/ ReleaseReturns
  PROVE  ResetMachineInv' /\ PldrInv'
<1>1. UNCHANGED resetVars
  BY DEF PrePrepareHardware, PreD0Entry, PreSelfManagedIoSuspend, PreReleaseHardware,
         D0EntryFails, PowerUpReturns, PostSelfManagedIo, PreHardwareDisabled, PostD0Exit,
            PostD0ExitReturns,
         ReleaseReturns
<1>2. phase' \notin {"cleaning", "removed"}
  BY DEF PrePrepareHardware, PreD0Entry, PreSelfManagedIoSuspend, PreReleaseHardware,
         D0EntryFails, PowerUpReturns, PostSelfManagedIo, PreHardwareDisabled, PostD0Exit,
            PostD0ExitReturns,
         ReleaseReturns, GoesOn
<1> QED
  BY <1>1, <1>2, Elsewhere

\* The steps of the adapter and of the powered callbacks.
LEMMA AdapterStepsInv ==
  ASSUME ResetMachineInv, PldrInv,
         \/ PnpStep \/ StartInterface \/ StopInterface
         \/ \E c \in Callers : InvokePoweredCallback(c) \/ PoweredCallbackStep(c)
         \/ CreateAdapter \/ CleanUpAdapter \/ NdisStep \/ DatapathMachineStep
         \/ \E t \in {Ndis, PnpPower} : EnqueueEventSyncReturns(t)
         \/ Terminating \/ UNCHANGED vars
  PROVE  ResetMachineInv' /\ PldrInv'
<1>1. UNCHANGED resetVars /\ phase' = phase
  BY DEF PnpStep, TakeRequest, AnswerRequest, StartInterface, StopInterface,
         InvokePoweredCallback, PoweredCallbackStep, CreateAdapter, CleanUpAdapter,
            NdisStep,
         DatapathMachineStep, EnqueueEventSyncReturns, Terminating, wdfVars, vars
<1> QED
  BY <1>1, Elsewhere

OrderlyReset == ResetMachineInv /\ PldrInv

\* At first nobody has asked for a reset.
LEMMA OrderlyResetInit == Init => OrderlyReset
<1> SUFFICES ASSUME Init PROVE OrderlyReset
  OBVIOUS
<1>1. /\ resetMachine = Started(ResetTables, NotInitialized)
      /\ pldrRequested = FALSE /\ pldrComplete = FALSE /\ pldrReferences = 0
      /\ requester = [r \in Requesters |-> "idle"] /\ phase = "added"
  BY DEF Init, ResetInit
<1>2. resetMachine = On(<<"Initialized">>, NoOp, <<>>)
  <2>1. NotInitialized = On(<<>>, NoOp, <<>>)
    BY DEF NotInitialized, On
  <2>2. /\ ResetTables.submachines[ResetTables.initial] = "Initialized"
        /\ Plain(ResetTables, "Initialized") /\ OpOf(ResetTables, "Initialized") = NoOp
    BY ResetKinds
  <2>3. Enter(ResetTables, On(<<>>, NoOp, <<>>), <<>>, "Initialized")
          = On(Longer(<<>>, "Initialized"), NoOp, <<>>)
    BY <2>2, EntersAbove
  <2>4. Longer(<<>>, "Initialized") = <<"Initialized">>
    BY DEF Longer
  <2> QED
    BY <1>1, <2>1, <2>2, <2>3, <2>4 DEF Started
<1>3. resetMachine.op = NoOp /\ resetMachine.queue = <<>>
  BY <1>2, PartsOn
<1>4. ResetMachineInv
  <2>1. <<"Initialized">> \in ResetShapes /\ <<>> \in Seq(Sent)
    BY DEF ResetShapes
  <2> QED
    BY <1>2, <2>1 DEF ResetMachineInv
<1>5. Quiet
  BY <1>1, <1>3 DEF Quiet, NoResetIn
<1> QED
  <2>1. Requests = {}
    BY <1>1 DEF Requests
  <2>2. Cardinality(Requests) = 0
    BY <2>1, FS_EmptySet
  <2>3. AskedInv
    BY <1>1, <1>5, <2>1 DEF AskedInv
  <2>4. CountInv
    BY <1>1, <2>2 DEF CountInv
  <2>5. OnlyInv
    BY <1>1, <1>5 DEF OnlyInv
  <2> QED
    BY <1>4, <2>3, <2>4, <2>5 DEF OrderlyReset, PldrInv

\* Every step keeps it.
LEMMA OrderlyResetNext == OrderlyReset /\ [Next]_vars => OrderlyReset'
<1> SUFFICES ASSUME ResetMachineInv, PldrInv, [Next]_vars PROVE ResetMachineInv' /\ PldrInv'
  BY DEF OrderlyReset
<1>1. CASE DeviceCleanup
  BY <1>1, CleanupInv
<1>2. CASE DeviceCleanupReturns
  BY <1>2, CleanupReturnsInv
<1>3. CASE PostHardwareEnabled \/ PowerDownReturns
  BY <1>3, PowerTellsInv
<1>4. CASE \/ PrePrepareHardware \/ PreD0Entry \/ PreSelfManagedIoSuspend \/ PreReleaseHardware
           \/ D0EntryFails \/ PowerUpReturns \/ PostSelfManagedIo \/ PreHardwareDisabled
           \/ PostD0Exit \/ PostD0ExitReturns \/ ReleaseReturns
  BY <1>4, OtherPowerStepsInv
<1>5. CASE \E r \in Requesters : RequestReset(r) \/ ResetRequested(r)
  BY <1>5, RequestInv, RequestedInv
<1>6. CASE ResetMachineStep
  <2>1. ResetStep /\ phase' = phase
    BY <1>6 DEF ResetMachineStep, wdfVars
  <2> QED
    BY <2>1, TakeResetEventInv, CollectDiagnosticsInv, TriggerInv DEF ResetStep
<1>7. CASE \/ PnpStep \/ StartInterface \/ StopInterface
           \/ \E c \in Callers : InvokePoweredCallback(c) \/ PoweredCallbackStep(c)
           \/ CreateAdapter \/ CleanUpAdapter \/ NdisStep \/ DatapathMachineStep
           \/ \E t \in {Ndis, PnpPower} : EnqueueEventSyncReturns(t)
           \/ Terminating \/ UNCHANGED vars
  BY <1>7, AdapterStepsInv
<1> QED
  BY <1>1, <1>2, <1>3, <1>4, <1>5, <1>6, <1>7 DEF Next, WdfStep

\* No single reset runs or will run in a removed device.
LEMMA QuietRemoval == OrderlyReset => ResetBeforeRemoval
<1> SUFFICES ASSUME OrderlyReset, phase = "removed"
             PROVE  /\ pldrRequested => pldrReferences < Cardinality(Requests)
                    /\ Cardinality(Requests) <= 1 =>
                         /\ resetMachine.op = NoOp
                         /\ pldrReferences > 0 => Idle(ResetTables, resetMachine)
  BY DEF ResetBeforeRemoval
<1>1. pldrRequested => pldrReferences < Cardinality(Requests)
  BY DEF OrderlyReset, PldrInv, CountInv
<1>2. Cardinality(Requests) <= 1 => resetMachine.op = NoOp /\ pldrReferences = 0
  BY DEF OrderlyReset, PldrInv, OnlyInv, Quiet
<1> QED
  BY <1>1, <1>2

\* Whatever number of threads ask: a device in which a reset was requested is removed only
\* after one has ended, and if no two threads have passed the look at m_pldrRequested
\* together, no reset runs or can run any more (nxdevice.cpp, WaitDeviceResetFinishIfRequested).
THEOREM ResetEndsBeforeRemoval == Spec => []ResetBeforeRemoval
<1>1. Init => OrderlyReset
  BY OrderlyResetInit
<1>2. OrderlyReset /\ [Next]_vars => OrderlyReset'
  BY OrderlyResetNext
<1> QED
  BY <1>1, <1>2, QuietRemoval, PTL DEF Spec

\* The thread of WDF goes on only when everybody who needs the state that it leaves is done:
\* the data path, the powered callbacks and the reset.
THEOREM PowerTransitionsWait == Spec => []PowerWaits
<1>1. DatapathNeedsHardware /\ DxWaitsForCallbacks /\ ResetBeforeRemoval => PowerWaits
  BY DEF PowerWaits
<1> QED
  BY <1>1, DatapathOnHardware, RundownOutlastsCallbacks, ResetEndsBeforeRemoval, PTL
=============================================================================
