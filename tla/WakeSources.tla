---------------------------- MODULE WakeSources ----------------------------
(****************************************************************************)
(* Power management as NDIS requests it (nxpowerpolicy.cpp): wake patterns  *)
(* and protocol offloads come and go by their ids, NDIS_PM_PARAMETERS says  *)
(* which of them are enabled, and the driver asks for the list of its wake  *)
(* sources and offloads: of all of them, during a power transition of those *)
(* that are enabled. NDIS makes one request at a time, and the driver       *)
(* declares its capabilities before the adapter starts.                     *)
(****************************************************************************)
EXTENDS Naturals, Sequences, FiniteSets, SequencesExt

CONSTANTS PowerCapabilities, \* what drivers may declare
          PmParameters,      \* NDIS_PM_PARAMETERS that NDIS may give
          PowerIds,          \* ids of patterns and offloads that NDIS uses
          MaxPatterns        \* bound: the patterns of an adapter

PatternTypes == {"bitmap", "magic", "eapol"}
OffloadTypes == {"arp", "ns"}
MediaEvents == {"connect", "disconnect"}

ASSUME CapabilitiesAssumption ==
  /\ PowerCapabilities # {}
  /\ PowerCapabilities \subseteq
       [bitmap : Nat, arp : Nat, ns : Nat, patterns : SUBSET {"magic", "eapol"},
        media : SUBSET MediaEvents, packetFilter : BOOLEAN]

ASSUME ParametersAssumption ==
  PmParameters \subseteq
    [patterns : SUBSET PatternTypes, offloads : SUBSET OffloadTypes,
     flags : SUBSET (MediaEvents \cup {"suspend"})]

VARIABLES
  powerCapabilities, \* maxima for "bitmap", "arp" and "ns", 0 for none; the other
                     \* patterns and the media events; whether a packet wakes
  wakeList,          \* m_WakeListHead, the last one added first
  wakeListEntryCount,
  offloadList,       \* m_ProtocolOffloadListHead
  offloadCount,      \* m_protocolOffloadArpCount and -NsCount
  pmParameters,      \* m_PMParameters: pattern types, offload types, and of the
                     \* flags the media events and "suspend", for selective
                     \* suspend or NAPS
  wakeOnMedia,       \* the events of m_wakeOnMediaChange
  wakeOnPacketFilter,
  inPowerTransition, \* of the device
  asked              \* NDIS_PM_PARAMETERS as NDIS gave them last

wakeVars == <<powerCapabilities, wakeList, wakeListEntryCount, offloadList,
              offloadCount, pmParameters, wakeOnMedia, wakeOnPacketFilter,
              inPowerTransition, asked>>

NoParameters == [patterns |-> {}, offloads |-> {}, flags |-> {}]

WakeInit ==
  /\ powerCapabilities \in PowerCapabilities
  /\ wakeList = <<>> /\ wakeListEntryCount = 0
  /\ offloadList = <<>> /\ offloadCount = [t \in OffloadTypes |-> 0]
  /\ pmParameters = NoParameters
  /\ wakeOnMedia = {} /\ wakeOnPacketFilter = FALSE
  /\ inPowerTransition = FALSE
  /\ asked = NoParameters

-----------------------------------------------------------------------------
Entry(type, id, enabledTypes) ==
  [type |-> type, id |-> id, enabled |-> type \in enabledTypes]

NewPattern(type, id) == Entry(type, id, pmParameters.patterns)
NewOffload(type, id) == Entry(type, id, pmParameters.offloads)

\* Types that the driver does not support are refused, and bitmap patterns when
\* the list is as long as it may be, whatever patterns are in it. So is what
\* the driver does not like when it previews it.
AddWakePattern(type, id) ==
  /\ Len(wakeList) < MaxPatterns
  /\ IF type = "bitmap" THEN /\ powerCapabilities.bitmap > 0
                             /\ wakeListEntryCount # powerCapabilities.bitmap
                        ELSE type \in powerCapabilities.patterns
  /\ wakeList' = <<NewPattern(type, id)>> \o wakeList
  /\ wakeListEntryCount' = wakeListEntryCount + 1
  /\ UNCHANGED <<powerCapabilities, offloadList, offloadCount, pmParameters,
                 wakeOnMedia, wakeOnPacketFilter, inPowerTransition, asked>>

\* The entry with that id that was added last.
First(list, id) ==
  CHOOSE i \in DOMAIN list : /\ list[i].id = id
                             /\ \A j \in 1 .. i - 1 : list[j].id # id

Has(list, id) == \E i \in DOMAIN list : list[i].id = id

RemoveWakePattern(id) ==
  /\ Has(wakeList, id)
  /\ wakeList' = RemoveAt(wakeList, First(wakeList, id))
  /\ wakeListEntryCount' = wakeListEntryCount - 1
  /\ UNCHANGED <<powerCapabilities, offloadList, offloadCount, pmParameters,
                 wakeOnMedia, wakeOnPacketFilter, inPowerTransition, asked>>

AddProtocolOffload(type, id) ==
  /\ powerCapabilities[type] > 0
  /\ offloadCount[type] # powerCapabilities[type]
  /\ offloadList' = <<NewOffload(type, id)>> \o offloadList
  /\ offloadCount' = [offloadCount EXCEPT ![type] = @ + 1]
  /\ UNCHANGED <<powerCapabilities, wakeList, wakeListEntryCount, pmParameters,
                 wakeOnMedia, wakeOnPacketFilter, inPowerTransition, asked>>

\* What is removed counts for its own type.
Removed(list, id) == list[First(list, id)].type

RemoveProtocolOffload(id) ==
  /\ Has(offloadList, id)
  /\ offloadList' = RemoveAt(offloadList, First(offloadList, id))
  /\ offloadCount' = [offloadCount EXCEPT ![Removed(offloadList, id)] = @ - 1]
  /\ UNCHANGED <<powerCapabilities, wakeList, wakeListEntryCount, pmParameters,
                 wakeOnMedia, wakeOnPacketFilter, inPowerTransition, asked>>

-----------------------------------------------------------------------------
\* Mutant: selective suspend leaves the patterns as NDIS enabled them.
SavedWithPatterns(p) ==
  IF "suspend" \in p.flags
  THEN [p EXCEPT !.flags = @ \cup powerCapabilities.media] ELSE p

\* Selective suspend turns on the media events that the driver supports and
\* turns off all patterns.
Saved(p) ==
  IF "suspend" \in p.flags
  THEN [p EXCEPT !.flags = @ \cup powerCapabilities.media, !.patterns = {}] ELSE p

Update(list, enabledTypes) ==
  [i \in DOMAIN list |-> Entry(list[i].type, list[i].id, enabledTypes)]

\* Only what changes is updated.
SetParameters(p) ==
  LET new == Saved(p)
  IN  /\ asked' = p
      /\ pmParameters' = new
      /\ IF new.flags = pmParameters.flags
         THEN UNCHANGED <<wakeOnMedia, wakeOnPacketFilter>>
         ELSE /\ wakeOnMedia' = new.flags \cap powerCapabilities.media
              /\ wakeOnPacketFilter' = (/\ "suspend" \in new.flags
                                        /\ powerCapabilities.packetFilter)
      /\ wakeList' = IF new.patterns = pmParameters.patterns THEN wakeList
                     ELSE Update(wakeList, new.patterns)
      /\ offloadList' = IF new.offloads = pmParameters.offloads THEN offloadList
                        ELSE Update(offloadList, new.offloads)
      /\ UNCHANGED <<powerCapabilities, wakeListEntryCount, offloadCount,
                     inPowerTransition>>

\* Before the device enters or leaves D0, and after.
PowerTransition ==
  /\ inPowerTransition' = ~inPowerTransition
  /\ UNCHANGED <<powerCapabilities, wakeList, wakeListEntryCount, offloadList,
                 offloadCount, pmParameters, wakeOnMedia, wakeOnPacketFilter, asked>>

\* The lists that the driver gets, by the positions of the entries that are in
\* them, and the two wake sources that NDIS does not add.
Listed(list) == {i \in DOMAIN list : ~inPowerTransition \/ list[i].enabled}
WakeSourceList == Listed(wakeList)
PowerOffloadList == Listed(offloadList)

MediaListed ==
  \/ ~inPowerTransition /\ powerCapabilities.media # {}
  \/ wakeOnMedia # {}

PacketFilterListed ==
  \/ ~inPowerTransition /\ powerCapabilities.packetFilter
  \/ wakeOnPacketFilter

\* The OIDs that NDIS sends for power management.
FrameworkSetOid ==
  \/ \E type \in PatternTypes, id \in PowerIds : AddWakePattern(type, id)
  \/ \E id \in PowerIds : RemoveWakePattern(id)
  \/ \E type \in OffloadTypes, id \in PowerIds : AddProtocolOffload(type, id)
  \/ \E id \in PowerIds : RemoveProtocolOffload(id)
  \/ \E p \in PmParameters : SetParameters(p)

WakeNext == FrameworkSetOid \/ PowerTransition

WakeSpec == WakeInit /\ [][WakeNext]_wakeVars

-----------------------------------------------------------------------------
\* Whatever came first, the pattern, the offload, the parameters or the power
\* transition, the lists that the driver gets in a transition name exactly what
\* NDIS enabled last: with selective suspend no pattern but every media event
\* that the driver supports, and the packet filter if it can wake on that.
DriverArmsWhatNdisAsked ==
  LET suspend == "suspend" \in asked.flags
      asks(list, types) == {i \in DOMAIN list : list[i].type \in types}
  IN  inPowerTransition =>
        /\ WakeSourceList = asks(wakeList, IF suspend THEN {} ELSE asked.patterns)
        /\ PowerOffloadList = asks(offloadList, asked.offloads)
        /\ MediaListed = (powerCapabilities.media \cap
                            (IF suspend THEN MediaEvents ELSE asked.flags) # {})
        /\ PacketFilterListed = (suspend /\ powerCapabilities.packetFilter)

\* The entries of a type in a list.
Number(list, type) == Cardinality({i \in DOMAIN list : list[i].type = type})

\* The counters count, however the lists grow and shrink, so that a driver gets
\* no more offloads than it can do, and no more bitmap patterns as long as it
\* declares no other patterns (with others the list may grow past its maximum).
WithinLimits ==
  /\ \A t \in OffloadTypes : /\ Number(offloadList, t) = offloadCount[t]
                             /\ offloadCount[t] <= powerCapabilities[t]
  /\ wakeListEntryCount = Len(wakeList)
  /\ powerCapabilities.patterns = {} =>
       Number(wakeList, "bitmap") <= powerCapabilities.bitmap

\* The driver arms what NDIS asked for, and never more than it can do.
WakeAsAsked == DriverArmsWhatNdisAsked /\ WithinLimits
=============================================================================
