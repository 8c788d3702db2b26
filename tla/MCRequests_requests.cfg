SPECIFICATION RequestsSpec
CONSTANTS
  None = None
  Nil = Nil
  Absent = Absent
  Unreadable = Unreadable
  ProcessorCount = 3
  QueueCounts = {1, 3}
  TableSize = 4
  EntryCounts = {2, 4}
  Hashes = {h1, h2}
  SupportedHashes = {h1}
  Retries = 1
  Scenarios <- MCScenarios
  PowerCapabilities <- MCPowerCapabilities
  PmParameters <- MCPmParameters
  PowerIds = {1, 2}
  MaxPatterns = 2
  PowerUsers = {u1, u2}
  MaxExtensions = 2
  a1 = a1
  a2 = a2
  a3 = a3
  NetAdapters = {a1, a2, a3}
  NameSize <- MCNameSize
  FixedInstanceSize = 4
  DataBlockOffset = 64
  IrpThreads = {t1, t2}
  Files = {f1}
  BufferSizes = {104, 200}
CONSTRAINTS
  OneMove
  HashOrTables
  ThirdProcessor
  WalkFirst
INVARIANTS
  ScalingAgrees
  EntriesGoToTheirProcessor
  OffloadsAgree
  WakeAsAsked
  IdleAsRestricted
  ReferencesBalance
  AnsweredOnce
  HandledInOrder
  IrpsReachTheirAdapter
  AllDataIsWhole
CHECK_DEADLOCK FALSE
