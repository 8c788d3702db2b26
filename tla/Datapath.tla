------------------------------- MODULE Datapath -------------------------------
(****************************************************************************)
(* What the data path machine of an adapter promises to the translation     *)
(* app and to NDIS, whatever the order in which NDIS pauses and restarts    *)
(* the miniport and the power state of the device comes and goes: the data  *)
(* path runs when it is created and the miniport is restarted, it is        *)
(* stopped before NDIS learns that the miniport has paused and before it    *)
(* is destroyed. NxAdapter implements this.                                 *)
(****************************************************************************)
VARIABLES restarted,   \* NDIS has been told that the miniport is restarted
          created,     \* the app has created the data path
          running      \* the app has started it

vars == <<restarted, created, running>>

Init == /\ restarted = FALSE
        /\ created = FALSE
        /\ running = FALSE

\* NDIS learns that the miniport is restarted; a data path that exists runs.
Restart == /\ ~restarted
           /\ restarted' = TRUE
           /\ running' = created
           /\ UNCHANGED created

\* NDIS learns that the miniport is paused; nothing runs any more.
Pause == /\ restarted
         /\ restarted' = FALSE
         /\ running' = FALSE
         /\ UNCHANGED created

Create == /\ ~created
          /\ created' = TRUE
          /\ UNCHANGED <<restarted, running>>

Start == /\ created /\ restarted /\ ~running
         /\ running' = TRUE
         /\ UNCHANGED <<restarted, created>>

Stop == /\ running
        /\ running' = FALSE
        /\ UNCHANGED <<restarted, created>>

Destroy == /\ created /\ ~running
           /\ created' = FALSE
           /\ UNCHANGED <<restarted, running>>

Next == Restart \/ Pause \/ Create \/ Start \/ Stop \/ Destroy

\* A data path that could run is started, unless it is destroyed or paused.
Spec == Init /\ [][Next]_vars /\ WF_vars(Start)
=============================================================================
