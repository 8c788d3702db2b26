------------------------------ MODULE RxScaling ------------------------------
(****************************************************************************)
(* Receive scaling: NDIS names a processor for each entry of the            *)
(* indirection table, the translator (rxscaling.cpp) affinitizes queues to  *)
(* processors and tells the adapter (nxrxscaling.cpp) the queue of each     *)
(* entry, and the adapter asks the client driver. Each of the three keeps   *)
(* what it was told last; the driver may refuse any call; each processor    *)
(* moves its own entries, and the data path comes and goes.                 *)
(*                                                                          *)
(* NDIS holds a power reference during a request (EvtNdisPowerReference),   *)
(* so that requests meet a data path; it changes the number of entries      *)
(* while it moves none, and moves an entry from the processor that has it.  *)
(*                                                                          *)
(* The translator takes the number of entries of a move for the number that *)
(* NDIS uses (rxscaling.cpp:756), so that it may take a later change for a  *)
(* growth that it is not, and copy the first entries over the others (:304),*)
(* or miss a growth. The history variable overwritten has the entries to    *)
(* which that has happened, and that NDIS has not moved since.              *)
(****************************************************************************)
EXTENDS Naturals, FiniteSets, FiniteSetsExt

CONSTANTS ProcessorCount,  \* m_maxProcessorIndex - m_minProcessorIndex
          QueueCounts,     \* the numbers of queues a driver may have
          TableSize,       \* NumberOfIndirectionTableEntries of the driver
          EntryCounts,     \* the numbers of entries NDIS may use
          Hashes,          \* hash functions and types that NDIS may ask for
          SupportedHashes, \* those that the driver supports
          Retries,         \* SET_INDIRECTION_ENTRIES_RETRY
          None

Processors == 0 .. ProcessorCount - 1
Entries == 0 .. TableSize - 1
DefaultProcessor == 0

\* Numbers of entries are powers of two, so that each divides the larger ones.
ASSUME ScalingAssumption ==
  /\ ProcessorCount \in Nat \ {0}
  /\ QueueCounts \subseteq Nat \ {0}
  /\ TableSize \in Nat \ {0} /\ EntryCounts \subseteq 1 .. TableSize
  /\ \A m, n \in EntryCounts \cup {TableSize} : m <= n => n % m = 0
  /\ Retries \in Nat
  /\ None \notin Nat /\ None \notin SupportedHashes

VARIABLES
  queueCount,      \* NumberOfIndirectionQueues
  datapath,        \* of the translation app
  rss,             \* m_rxScaling: absent, or configured
  enabled,         \* m_enabled of the translator
  table,           \* m_indirectionTable: the queue of each entry
  number,          \* m_numberIndirectionTableEntries
  slots,           \* m_affinitizedQueues: the queue of each processor
  affinity,        \* the processor of each queue
  adapterEnabled,  \* m_enabled of NxRxScaling
  hash,            \* m_hashType and m_protocolType of NxRxScaling
  driver,          \* what the client driver was told last
  driverTable,     \* the queue to which it sends each entry
  ndis,            \* what NDIS takes for granted
  request,         \* OID_GEN_RECEIVE_SCALE_PARAMETERS_V2 in progress
  move,            \* for each processor the move of its entries in progress
  push,            \* the loop of Configure over refused entries
  failed,
  overwritten      \* history: the entries that a change of their number has left
                   \*   with another queue than NDIS means, until they move again

scalingVars == <<queueCount, datapath, rss, enabled, table, number, slots, affinity,
          adapterEnabled, hash, driver, driverTable, ndis, request,
          move, push, failed, overwritten>>

translator == <<enabled, table, number, slots, affinity>>
adapter == <<adapterEnabled, hash>>

Queues == 0 .. queueCount - 1
Running == failed = "no"
Created == Running /\ datapath = "created"

\* The entries that processors are moving.
Moving == UNION {move[p].entries : p \in Processors}

NoMove == [entries |-> {}]
NoRequest == [step |-> "none"]

ScalingInit ==
  /\ queueCount \in QueueCounts
  /\ datapath = "destroyed"
  /\ rss = FALSE
  /\ enabled = FALSE
  /\ table = [i \in Entries |-> 0]
  /\ number = TableSize
  /\ slots = [p \in Processors |-> None]
  /\ affinity = [q \in Queues |-> None]
  /\ adapterEnabled = FALSE
  /\ hash = None
  /\ driver = [enabled |-> FALSE, hash |-> None]
  /\ driverTable = [i \in Entries |-> 0]
  /\ ndis = [enabled |-> FALSE, hash |-> None, number |-> TableSize,
             processor |-> [i \in Entries |-> DefaultProcessor]]
  /\ request = NoRequest
  /\ move = [p \in Processors |-> NoMove]
  /\ push = [left |-> {}, retries |-> 0]
  /\ failed = "no"
  /\ overwritten = {}

-----------------------------------------------------------------------------
(* The adapter's side. A driver's callback may refuse.                      *)

\* Enable returns at once when the adapter takes receive scaling for enabled.
Enabled(d) == IF adapterEnabled THEN d
              ELSE [d EXCEPT !.enabled = TRUE, !.hash = hash]

Enable ==
  /\ adapterEnabled' = TRUE
  /\ driver' = Enabled(driver)

Disable ==
  /\ adapterEnabled' = FALSE
  /\ driver' = [driver EXCEPT !.enabled = FALSE]

\* SetHashInfo disables receive scaling and enables it again with the new hash.
SetHashInfo(new) ==
  /\ hash' = new
  /\ adapterEnabled' = TRUE
  /\ driver' = [driver EXCEPT !.enabled = TRUE, !.hash = new]

\* The driver takes some of the entries of queues that it is given.
SetIndirectionEntries(queueOf, accepted) ==
  driverTable' = [i \in Entries |-> IF i \in accepted THEN queueOf[i]
                                    ELSE driverTable[i]]

-----------------------------------------------------------------------------
(* Creation of the data path and initialization, both of which configure.   *)

\* Mutant: the slots outlive the queues and their affinity does not.
AffinitizeDefault ==
  /\ slots' = IF slots[DefaultProcessor] = None
              THEN [slots EXCEPT ![DefaultProcessor] = 0] ELSE slots
  /\ affinity' = [q \in Queues |-> IF slots'[DefaultProcessor] = q
                                   THEN DefaultProcessor ELSE None]

\* Configure: one queue goes to the default processor when that has none, and
\* the queue of each slot, a new object, gets the slot's affinity again.
Affinitize ==
  LET mapped == IF slots[DefaultProcessor] = None
                THEN [slots EXCEPT ![DefaultProcessor] = 0] ELSE slots
  IN  /\ slots' = mapped
      /\ affinity' = [q \in Queues |->
                        LET own == {p \in Processors : mapped[p] = q}
                        IN  IF own = {} THEN None ELSE Max(own)]

\* Only one queue exists until NDIS initializes receive scaling. m_configured
\* is not set yet, so nothing is pushed to the adapter.
ReceiveScalingInitialize ==
  /\ Created /\ ~rss
  /\ rss' = TRUE
  /\ Affinitize
  /\ UNCHANGED <<overwritten, queueCount, datapath, enabled, table, number, adapter,
                 driver, driverTable, ndis, request, move, push, failed>>

CreateDatapath ==
  /\ Running /\ datapath = "destroyed"
  /\ IF rss
     THEN /\ datapath' = "configuring"
          /\ push' = [left |-> Entries, retries |-> Retries]
          /\ Affinitize
     ELSE /\ datapath' = "created"
          /\ UNCHANGED <<push, slots, affinity>>
  /\ UNCHANGED <<overwritten, queueCount, rss, enabled, table, number, adapter, driver,
                 driverTable, ndis, request, move, failed>>

\* The loop of SetIndirectionEntries: what the driver refused is tried again.
PushEntries ==
  /\ Running /\ datapath = "configuring" /\ push.left # {}
  /\ \E accepted \in SUBSET push.left :
       /\ SetIndirectionEntries(table, accepted)
       /\ IF accepted # push.left /\ push.retries = 0
          THEN failed' = "device" /\ UNCHANGED push
          ELSE /\ push' = [left |-> push.left \ accepted,
                           retries |-> IF accepted = push.left THEN 0
                                       ELSE push.retries - 1]
               /\ UNCHANGED failed
  /\ UNCHANGED <<overwritten, queueCount, datapath, rss, translator, adapter, driver, ndis,
                 request, move>>

\* A driver that refuses fails the device (NetClientAdapterCreateDatapath).
RestoreEnabled ==
  /\ Running /\ datapath = "configuring" /\ push.left = {}
  /\ \/ /\ ~enabled
        /\ datapath' = "created"
        /\ UNCHANGED <<driver, adapterEnabled, failed>>
     \/ /\ enabled
        /\ datapath' = "created"
        /\ adapterEnabled' = TRUE
        /\ driver' = Enabled(driver)
        /\ UNCHANGED failed
     \/ /\ enabled
        /\ failed' = "device"
        /\ UNCHANGED <<datapath, driver, adapterEnabled>>
  /\ UNCHANGED <<overwritten, queueCount, rss, translator, hash, driverTable, ndis, request,
                 move, push>>

\* The queues go; the cache of the translator stays.
DestroyDatapath ==
  /\ Created /\ request = NoRequest /\ Moving = {}
  /\ datapath' = "destroyed"
  /\ affinity' = [q \in Queues |-> None]
  /\ driverTable' = IF rss THEN [i \in Entries |-> None] ELSE driverTable
  /\ UNCHANGED <<overwritten, queueCount, rss, enabled, table, number, slots, adapter,
                 driver, ndis, request, move, push, failed>>

-----------------------------------------------------------------------------
(* OID_GEN_RECEIVE_SCALE_PARAMETERS_V2: one step for each call of the       *)
(* adapter, in the order of SetParameters. Any of them may end the request. *)

ScalingParameters == [enable : BOOLEAN, number : EntryCounts \cup {None},
               hash : Hashes \cup {None}]

ReceiveScalingSetParameters(p) ==
  /\ Created /\ rss /\ request = NoRequest
  /\ p.number # None =>
       /\ Moving = {}
       /\ p.number # ndis.number
       /\ \A i \in p.number .. ndis.number - 1 :
            ndis.processor[i] = ndis.processor[i % p.number]
  /\ ~p.enable => p.hash = None
  /\ request' = [step |-> "entries", parameters |-> p]
  /\ UNCHANGED <<overwritten, queueCount, datapath, rss, translator, adapter, driver,
                 driverTable, ndis, move, push, failed>>

At(step) == Running /\ request.step = step

NextStep(step) == request' = [request EXCEPT !.step = step]

Fail == request' = NoRequest /\ UNCHANGED ndis

Succeed ==
  LET p == request.parameters
  IN  /\ request' = NoRequest
      /\ ndis' =
           [enabled |-> p.enable,
            hash |-> IF p.hash = None THEN ndis.hash ELSE p.hash,
            number |-> IF p.number = None THEN ndis.number ELSE p.number,
            processor |-> IF p.number = None \/ p.number < ndis.number
                          THEN ndis.processor
                          ELSE [i \in Entries |-> ndis.processor[i % ndis.number]]]

\* The entry whose queue entry i has when NDIS uses n entries: with more of them
\* the table is replicated, with fewer it stays as it is.
Meant(n, i) == IF n <= ndis.number THEN i ELSE i % ndis.number

\* More entries than in the last request replicate the first ones, fewer leave
\* the table as it is. The cache keeps what the driver refuses here: Restore
\* holds the new values. The number of the last request may be that of a move or
\* of a request that failed later, and then the table need not be what NDIS means.
EvaluateIndirectionTableEntries ==
  /\ At("entries")
  /\ LET n == request.parameters.number
     IN  IF n = None
         THEN /\ NextStep("switch")
              /\ UNCHANGED <<table, number, overwritten, driverTable, ndis>>
         ELSE /\ table' = IF n <= number THEN table
                          ELSE [i \in Entries |->
                                  IF i < number * (TableSize \div number)
                                  THEN table[i % number] ELSE table[i]]
              /\ overwritten' = {i \in Entries :
                   \/ number # ndis.number /\ table'[i] # table[Meant(n, i)]
                   \/ Meant(n, i) \in overwritten}
              /\ \E accepted \in SUBSET (0 .. n - 1) :
                   /\ SetIndirectionEntries(table', accepted)
                   /\ IF accepted = 0 .. n - 1
                      THEN number' = n /\ NextStep("switch") /\ UNCHANGED ndis
                      ELSE UNCHANGED number /\ Fail
  /\ UNCHANGED <<queueCount, datapath, rss, enabled, slots, affinity,
                 adapter, driver, move, push, failed>>

EvaluateDisable ==
  /\ At("switch")
  /\ IF request.parameters.enable
     THEN /\ NextStep("key")
          /\ UNCHANGED <<enabled, adapterEnabled, driver, ndis>>
     ELSE /\ Disable
          /\ enabled' = FALSE
          /\ Succeed
  /\ UNCHANGED <<overwritten, queueCount, datapath, rss, table, number, slots, affinity,
                 hash, driverTable, move, push, failed>>

\* The driver may refuse the key, if NDIS gives one. Keys are not told apart.
EvaluateHashSecretKey ==
  /\ At("key")
  /\ \/ NextStep("hash") /\ UNCHANGED ndis
     \/ Fail
  /\ UNCHANGED <<overwritten, queueCount, datapath, rss, translator, adapter, driver,
                 driverTable, move, push, failed>>

\* A driver that refuses to be enabled with a hash that it supports stops the
\* system: NDIS would take receive scaling for enabled.
EvaluateHashInfo ==
  /\ At("hash")
  /\ LET h == request.parameters.hash
     IN  \/ /\ h = None
            /\ NextStep("enable")
            /\ UNCHANGED <<adapter, driver, ndis, failed>>
         \/ /\ h # None /\ h \notin SupportedHashes
            /\ Fail
            /\ UNCHANGED <<adapter, driver, failed>>
         \/ /\ h \in SupportedHashes
            /\ SetHashInfo(h)
            /\ NextStep("enable")
            /\ UNCHANGED <<ndis, failed>>
         \/ /\ h \in SupportedHashes
            /\ failed' = "bugcheck"
            /\ UNCHANGED <<adapter, driver, ndis, request>>
  /\ UNCHANGED <<overwritten, queueCount, datapath, rss, translator, driverTable, move, push>>

EvaluateEnable ==
  /\ At("enable")
  /\ \/ Enable /\ enabled' = TRUE /\ Succeed
     \/ ~adapterEnabled /\ Fail /\ UNCHANGED <<enabled, adapterEnabled, driver>>
  /\ UNCHANGED <<overwritten, queueCount, datapath, rss, table, number, slots, affinity,
                 hash, driverTable, move, push, failed>>

-----------------------------------------------------------------------------
(* OID_GEN_RSS_SET_INDIRECTION_TABLE_ENTRIES on the processor p that the    *)
(* entries come from. Only MapAffinitizedQueue holds a lock.                *)

BeginMove(p, target) ==
  /\ Created /\ rss /\ move[p] = NoMove
  /\ request # NoRequest => request.parameters.number = None
  /\ DOMAIN target # {}
  /\ \A i \in DOMAIN target : /\ i < ndis.number
                               /\ ndis.processor[i] = p
                               /\ target[i] # p
  /\ move' = [move EXCEPT ![p] =
       [entries |-> DOMAIN target, left |-> DOMAIN target, target |-> target,
        mapping |-> FALSE, queue |-> target,
        restore |-> [i \in DOMAIN target |-> driverTable[i]]]]
  /\ UNCHANGED <<overwritten, queueCount, datapath, rss, translator, adapter, driver,
                 driverTable, ndis, request, push, failed>>

\* The entry is translated: its queue is q.
Translated(p, q) ==
  LET i == Min(move[p].left)
  IN  /\ table' = [table EXCEPT ![i] = q]
      /\ move' = [move EXCEPT ![p].left = @ \ {i}, ![p].mapping = FALSE,
                              ![p].queue[i] = q, ![p].restore[i] = table[i]]

Target(p) == move[p].target[Min(move[p].left)]

GetAffinitizedQueue(p) ==
  /\ Running /\ move[p] # NoMove /\ move[p].left # {} /\ ~move[p].mapping
  /\ IF slots[Target(p)] # None
     THEN Translated(p, slots[Target(p)])
     ELSE move' = [move EXCEPT ![p].mapping = TRUE] /\ UNCHANGED table
  /\ UNCHANGED <<overwritten, queueCount, datapath, rss, enabled, number, slots, affinity,
                 adapter, driver, driverTable, ndis, request, push, failed>>

SetAffinitizedQueue(t, q) ==
  /\ slots' = [slots EXCEPT ![t] = q]
  /\ affinity' = [affinity EXCEPT ![q] = t]

\* Another processor may have mapped the target. Else a queue that has no
\* processor is taken, or the one of the source processor.
MapAffinitizedQueue(p) ==
  /\ Running /\ move[p] # NoMove /\ move[p].mapping
  /\ LET t == Target(p)
         free == {q \in Queues : affinity[q] = None}
     IN  \/ /\ slots[t] # None
            /\ Translated(p, slots[t])
            /\ UNCHANGED <<slots, affinity, failed>>
         \/ /\ slots[t] = None /\ free # {}
            /\ SetAffinitizedQueue(t, Min(free))
            /\ Translated(p, Min(free))
            /\ UNCHANGED failed
         \/ /\ slots[t] = None /\ free = {} /\ slots[p] # None
            /\ slots' = [slots EXCEPT ![p] = None, ![t] = slots[p]]
            /\ affinity' = [affinity EXCEPT ![slots[p]] = t]
            /\ Translated(p, slots[p])
            /\ UNCHANGED failed
         \/ /\ slots[t] = None /\ free = {} /\ slots[p] = None
            /\ failed' = "no queue"
            /\ UNCHANGED <<slots, affinity, table, move>>
  /\ UNCHANGED <<overwritten, queueCount, datapath, rss, enabled, number, adapter, driver,
                 driverTable, ndis, request, push>>

\* Mutant: the cache keeps what the driver refused.
RestoredNothing(p, accepted) == UNCHANGED table

\* What the driver refuses is restored. NDIS looks at the status of each entry.
Restored(p, accepted) ==
  table' = [i \in Entries |-> IF i \in move[p].entries \ accepted
                             THEN move[p].restore[i] ELSE table[i]]

FinishMove(p) ==
  /\ Running /\ move[p] # NoMove /\ move[p].left = {}
  /\ \E accepted \in SUBSET move[p].entries :
       /\ SetIndirectionEntries(move[p].queue, accepted)
       /\ Restored(p, accepted)
       /\ number' = IF accepted = move[p].entries
                    THEN Cardinality(move[p].entries) ELSE number
       /\ ndis' = [ndis EXCEPT !.processor =
            [i \in Entries |-> IF i \in accepted THEN move[p].target[i] ELSE @[i]]]
       /\ overwritten' = overwritten \ accepted
  /\ move' = [move EXCEPT ![p] = NoMove]
  /\ UNCHANGED <<queueCount, datapath, rss, enabled, slots, affinity,
                 adapter, driver, request, push, failed>>

-----------------------------------------------------------------------------
ScalingNext ==
  \/ ReceiveScalingInitialize
  \/ CreateDatapath \/ PushEntries \/ RestoreEnabled \/ DestroyDatapath
  \/ \E p \in ScalingParameters : ReceiveScalingSetParameters(p)
  \/ EvaluateIndirectionTableEntries \/ EvaluateDisable
  \/ EvaluateHashSecretKey \/ EvaluateHashInfo \/ EvaluateEnable
  \/ \E p \in Processors :
       \/ \E S \in SUBSET {i \in Entries : ndis.processor[i] = p} :
            \E target \in [S -> Processors \ {p}] : BeginMove(p, target)
       \/ GetAffinitizedQueue(p) \/ MapAffinitizedQueue(p) \/ FinishMove(p)

ScalingSpec == ScalingInit /\ [][ScalingNext]_scalingVars

-----------------------------------------------------------------------------
\* The cache tells the truth: whatever the driver refused, in a move, in a
\* change of the number of entries or while the data path was created again,
\* it sends each entry in use to the queue in m_indirectionTable. Only an entry
\* that a misread change of the number has overwritten may go elsewhere, until
\* NDIS moves it.
DriverMatchesCache ==
  Created => \A i \in (0 .. number - 1) \ (Moving \cup overwritten) :
               driverTable[i] = table[i]

\* Between two requests the three who think they know whether receive scaling
\* is enabled agree with the driver, and the driver hashes as NDIS asked.
SwitchesAgree ==
  Created /\ request = NoRequest =>
    /\ enabled = ndis.enabled
    /\ adapterEnabled = ndis.enabled
    /\ driver.enabled = ndis.enabled
    /\ ndis.enabled => driver.hash = ndis.hash

\* Translator, adapter and driver agree on the table, and with NDIS on the switch.
ScalingAgrees == DriverMatchesCache /\ SwitchesAgree

\* With a queue for each processor, an entry goes to a queue that runs on the
\* processor that NDIS chose for it, unless the entry is overwritten.
EntriesGoToTheirProcessor ==
  Created /\ rss /\ queueCount >= ProcessorCount =>
    \A i \in (0 .. ndis.number - 1) \ (Moving \cup overwritten) :
      affinity[driverTable[i]] = ndis.processor[i]
=============================================================================
