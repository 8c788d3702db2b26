\* Two NBLs with NET_BUFFERs of all kinds; rings, a bounce pool and map registers
\* that run short, and drains that end with the first NBL they complete.
CONSTANTS
  n1 = n1
  n2 = n2
  Nbls = {n1, n2}
  NetBuffers <- NblsOfAllKinds
  Segments <- SegmentsOfOthers
  PacketSlots = 8
  FragmentSlots = 4
  MaxFragments = 2
  b1 = b1
  b2 = b2
  Buffers = {b1, b2}
  Nothing = Nothing
  Batch = 1
  Mappings = {"KvmOnly", "UseHal"}
  SharedDma = TRUE
SPECIFICATION FairSpec
INVARIANTS PacketsKeepTheirData NothingLostOrDoubled
PROPERTIES SentComesBack
CHECK_DEADLOCK FALSE
