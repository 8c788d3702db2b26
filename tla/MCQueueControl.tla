--------------------------- MODULE MCQueueControl ---------------------------
(***************************************************************************)
(* Model checking of QueueControl: the worker threads are interchangeable, *)
(* and so are the NET_BUFFER_LISTs.                                        *)
(***************************************************************************)
EXTENDS QueueControl, TLC

Symmetry == Permutations(Workers) \cup Permutations(Nbls)
=============================================================================
