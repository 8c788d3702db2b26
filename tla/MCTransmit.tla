---------------------------- MODULE MCTransmit ----------------------------
(***************************************************************************)
(* Model checking of Transmit: the NBLs of the instances.                  *)
(***************************************************************************)
EXTENDS Transmit

Kind(fragmentCount, usableCount) ==
  [fragments |-> fragmentCount, usable |-> usableCount, backfill |-> TRUE, valid |-> TRUE]

Fits     == Kind(2, 2)                               \* two fragments that the NIC can use
One      == Kind(1, 1)                               \* one such fragment
Odd      == Kind(2, 1)                               \* the second is not aligned
Long     == Kind(4, 4)                               \* more fragments than a packet may have
TooLong  == [Kind(1, 1) EXCEPT !.valid = FALSE]      \* longer than the NIC supports
Cramped  == [TooLong EXCEPT !.backfill = FALSE]      \* and without room for the backfill

\* The first NBL has two NET_BUFFERs that never translate: it completes without
\* a fragment.  The second is to be segmented in four with five fragments.  A
\* drain that ends with the first leaves packets of the second behind, and the
\* fragment ring wraps over them.
First == CHOOSE n \in Nbls : TRUE
NblsOfAllKinds   == [n \in Nbls |-> IF n = First THEN <<TooLong, Cramped>> ELSE <<Long>>]
SegmentsOfOthers == [n \in Nbls |-> IF n = First THEN <<>> ELSE <<Long, Fits, One, Odd>>]
===========================================================================
