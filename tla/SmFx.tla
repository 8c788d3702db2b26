-------------------------------- MODULE SmFx --------------------------------
(****************************************************************************)
(* What the state machine framework that runs the machines of the adapter   *)
(* directory does with their tables.  The framework itself is not part of   *)
(* the repository; these rules are the ones the tables and their users      *)
(* presuppose.                                                              *)
(*                                                                          *)
(* A machine is a record [stack, queue, op, unhandled].                     *)
(*   stack      the states it is in: the last one is the current state, the *)
(*              others are the Call states whose submachines it is inside;  *)
(*              empty before it is initialized and after it is destroyed    *)
(*   queue      the events enqueued and not yet dequeued, oldest first      *)
(*   op         the operation that has to run before the machine can do     *)
(*              anything else, or NoOp                                      *)
(*   unhandled  the event dequeued last, with the state it reached, if that *)
(*              has no transition for it: the machine drops it              *)
(*                                                                          *)
(* M is the record of tables of one of the *StateMachine modules.           *)
(****************************************************************************)
EXTENDS Naturals, Sequences

NoOp == "none"

NotInitialized == [stack |-> <<>>, queue |-> <<>>, op |-> NoOp, unhandled |-> {}]

\* The element of a set that has one.
The(S) == CHOOSE x \in S : TRUE

\* The row of a state in a table that has rows for some states only.
Row(table, state) == IF state \in DOMAIN table THEN table[state] ELSE <<>>
Listed(table, state) == IF state \in DOMAIN table THEN table[state] ELSE {}

Current(m) == m.stack[Len(m.stack)]

IsCall(M, state) == M.states[state] \in DOMAIN M.submachines

OpOf(M, state) == IF state \in DOMAIN M.entry THEN M.entry[state] ELSE NoOp

\* What entering a state leaves of the queue.
Purged(M, queue, state) ==
  IF state \in DOMAIN M.purge
  THEN SelectSeq(queue, LAMBDA e : e \notin M.purge[state])
  ELSE queue

\* The machine is in state, called from the states below: its entry operation
\* is next. A Call state that has none enters its submachine at once.
Enter(M, m, below, state) ==
  LET inside == M.submachines[M.states[state]]
      straight == IsCall(M, state) /\ OpOf(M, state) = NoOp
  IN [stack |-> IF straight THEN below \o <<state, inside>> ELSE Append(below, state),
      op |-> OpOf(M, IF straight THEN inside ELSE state),
      queue |-> Purged(M, m.queue, state),
      unhandled |-> m.unhandled]

\* The stack positions that have a transition for event e. The innermost one
\* takes it: what a submachine does not handle, its callers may.
Takers(M, stack, e) ==
  {i \in DOMAIN stack : e \in DOMAIN Row(M.external, stack[i])
                              \cup DOMAIN Row(M.internal, stack[i])
                              \cup DOMAIN Row(M.pop, stack[i])}

Taker(M, stack, e) ==
  {i \in Takers(M, stack, e) : \A j \in Takers(M, stack, e) : j <= i}

Destroyed(m) == [NotInitialized EXCEPT !.unhandled = m.unhandled]

\* Event e takes the machine out of the state that handles it: to the target
\* of an external transition, or back to the caller, which takes the event
\* that the pop transition returns. A pop of the outermost state ends the
\* machine.
LeaveFrom(M, m, e, i) ==
  LET state == m.stack[i]
      below == SubSeq(m.stack, 1, i - 1)
  IN IF e \in DOMAIN Row(M.external, state)
     THEN Enter(M, m, below, M.external[state][e])
     ELSE IF below = <<>> THEN Destroyed(m)
     ELSE Enter(M, m, SubSeq(below, 1, i - 2),
                M.external[below[i - 1]][M.pop[state][e]])

Leave(M, m, e) ==
  The({LeaveFrom(M, m, e, i) : i \in Taker(M, m.stack, e)})

-----------------------------------------------------------------------------
\* Initialize: the implicit transition to the initial state.
Started(M, m) == Enter(M, m, <<>>, M.submachines[M.initial])

Enqueued(m, e) == [m EXCEPT !.queue = Append(@, e)]

\* The events the current state does not defer, by their place in the queue.
Ready(M, m) ==
  {k \in DOMAIN m.queue : m.queue[k] \notin Listed(M.deferred, Current(m))}

\* The machine waits for events and has one it can take.
CanDequeue(M, m) == m.stack # <<>> /\ m.op = NoOp /\ Ready(M, m) # {}

\* Event e reaches the machine.
Handled(M, m, e) ==
  IF Takers(M, m.stack, e) = {}
  THEN [m EXCEPT !.unhandled = {<<Current(m), e>>}]
  ELSE IF \E i \in Taker(M, m.stack, e) : e \in DOMAIN Row(M.internal, m.stack[i])
  THEN [m EXCEPT !.op = The({M.internal[m.stack[i]][e] : i \in Taker(M, m.stack, e)})]
  ELSE Leave(M, m, e)

Without(m, k) ==
  [m EXCEPT !.unhandled = {},
            !.queue = SubSeq(@, 1, k - 1) \o SubSeq(@, k + 1, Len(@))]

\* It takes the oldest one.
Dequeued(M, m) ==
  The({Handled(M, taken[1], taken[2]) :
         taken \in {<<Without(m, k), m.queue[k]>> :
           k \in {k \in Ready(M, m) : \A j \in Ready(M, m) : k <= j}}})

\* The operation has run and returned event e. A synchronous state takes e at
\* once; an asynchronous one, or an internal transition, waits for an event;
\* a Call state enters its submachine.
Returned(M, m, e) ==
  LET state == Current(m)
      inside == M.submachines[M.states[state]]
  IN IF M.states[state] = "Async" THEN [m EXCEPT !.op = NoOp]
     ELSE IF IsCall(M, state)
     THEN [m EXCEPT !.stack = Append(@, inside), !.op = OpOf(M, inside)]
     ELSE Leave(M, m, e)

\* The machine is in an asynchronous state with nothing to do.
Idle(M, m) == m.op = NoOp /\ (m.stack # <<>> => Ready(M, m) = {})
=============================================================================
