\* Three modes, three NBLs, three usable packets and fragments, two pieces of
\* memory and data buffers, batches of two, so that a batch leaves a fragment in
\* the ring.  The stop that LastPollUnseen names ends in a deadlock.
CONSTANTS
  NblCount = 3
  BufferCount = 2
  PacketSlots = 4
  FragmentSlots = 4
  MaxFragments = 2
  BufferSlots = 3
  Batch = 2
  Modes = {"DRIVER", "ATTACH", "ALLOCATE"}
  Coalescing = TRUE
  MaxReferences = 1
  None = None
SPECIFICATION FairSpec
INVARIANTS MemoryHasOneOwner StopFindsEverything
PROPERTIES StopEnds
CHECK_DEADLOCK FALSE
