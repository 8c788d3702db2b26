--------------------------- MODULE MCDevicePower ---------------------------
(****************************************************************************)
(* Model checking of DevicePower. The adapter and the reset have to do with *)
(* each other only through the callbacks of WDF, which both may hold up, so *)
(* that a behaviour has one of them: a device whose adapter, with all its   *)
(* threads, never asks for a reset, or a device without an adapter.         *)
(****************************************************************************)
EXTENDS DevicePower

OneConcern == \/ datapathMachine = NotInitialized
              \/ \A r \in Requesters : requester[r] = "idle"
=============================================================================
