----------------------------- MODULE DeviceIrps -----------------------------
(****************************************************************************)
(* The IRPs that a device gets and NetAdapterCx hands to NDIS: handles to   *)
(* its adapters, and WMI (nxdevice.cpp, nxadaptercollection.cpp). Threads   *)
(* find adapters in the collection of the device, under its lock, while     *)
(* adapters come and go. NDIS removes a miniport when nobody has a          *)
(* reference to it, and grants none when it is removing it. Events of WMI   *)
(* are left out.                                                            *)
(****************************************************************************)
EXTENDS WmiAllData

CONSTANTS IrpThreads,
          Files,       \* file objects
          BufferSizes  \* of WMI queries

ASSUME BufferAssumption == BufferSizes \subseteq Nat

VARIABLES
  collection,      \* m_adapterCollection
  listReaders,     \* the threads that have its m_ListLock shared
  miniport,        \* of each adapter: "none", "present", "removing" or "gone"
  references,      \* miniport references: pairs of a thread and an adapter
  fsContext,       \* of each file: "none", "client" or "ndis"
  servedBy,        \* history: who had IRPs of the file since it was opened
  guidToOidMap,    \* m_pGuidToOidMap has been built
  irp              \* what each thread does: its step and more, see below

irpVars == <<collection, listReaders, miniport, references, fsContext, servedBy,
             guidToOidMap, irp>>
adapterLife == <<collection, miniport>>
handles == <<fsContext, servedBy>>

\* A thread does nothing, opens a handle, calls NDIS for miniports that it has
\* references to, walks along the collection for a query, or has its answer.
Rest == [step |-> "rest"]
Create(f, a) == [step |-> "create", file |-> f, adapter |-> a]
Call == [step |-> "call"]

\* "left" are the adapters of the collection that have not been queried, "count"
\* is miniportCount and "all" is the WNODE_ALL_DATA.
Query(magicPacket, bufferSize) ==
  [step |-> "query", magicPacket |-> magicPacket, bufferSize |-> bufferSize,
   left |-> collection, count |-> 0, all |-> NoData]

IrpInit ==
  /\ collection = <<>> /\ listReaders = {}
  /\ miniport = [a \in NetAdapters |-> "none"] /\ references = {}
  /\ fsContext = [f \in Files |-> "none"] /\ servedBy = [f \in Files |-> {}]
  /\ guidToOidMap = FALSE
  /\ irp = [t \in IrpThreads |-> Rest]

-----------------------------------------------------------------------------
(* Adapters. The lock is taken exclusively to add and to remove one.        *)

\* NDIS has the miniport before the adapter is in the collection.
CreateMiniport(a) ==
  /\ miniport[a] = "none"
  /\ miniport' = [miniport EXCEPT ![a] = "present"]
  /\ UNCHANGED <<collection, listReaders, references, handles, guidToOidMap, irp>>

ProcessNewAdapter(a) ==
  /\ miniport[a] = "present" /\ ~Contains(collection, a) /\ listReaders = {}
  /\ collection' = Append(collection, a)
  /\ UNCHANGED <<listReaders, miniport, references, handles, guidToOidMap, irp>>

\* NDIS may turn to removing a miniport that is still in the collection, as after
\* a surprise removal.
SurpriseRemoved(a) ==
  /\ miniport[a] = "present" /\ Contains(collection, a)
  /\ miniport' = [miniport EXCEPT ![a] = "removing"]
  /\ UNCHANGED <<collection, listReaders, references, handles, guidToOidMap, irp>>

LeavesCollection(a) ==
  /\ \E i \in DOMAIN collection :
       collection[i] = a /\ collection' = RemoveAt(collection, i)
  /\ miniport' = [miniport EXCEPT ![a] = "removing"]
  /\ UNCHANGED <<listReaders, references, handles, guidToOidMap, irp>>

\* A removal that does not wait for those who walk along the collection.
AdapterDeletedUnlocked(a) == LeavesCollection(a)

\* _EvtCleanup: the adapter leaves the collection before NDIS is told to remove
\* its miniport, which waits for the references.
AdapterDeleted(a) == listReaders = {} /\ LeavesCollection(a)

PnpRemove(a) ==
  /\ miniport[a] = "removing" /\ ~Contains(collection, a)
  /\ \A t \in IrpThreads : <<t, a>> \notin references
  /\ miniport' = [miniport EXCEPT ![a] = "gone"]
  /\ UNCHANGED <<collection, listReaders, references, handles, guidToOidMap, irp>>

-----------------------------------------------------------------------------
(* References.                                                              *)

TryReference(t, a) == IF miniport[a] = "present" THEN {<<t, a>>} ELSE {}

\* The reference to the adapter of that name, if it is found and granted.
Found(t, name) ==
  IF Contains(collection, name) THEN TryReference(t, name) ELSE {}

ReferencesOf(t) == {r \in references : r[1] = t}

Goes(t, to) == irp' = [irp EXCEPT ![t] = to]

-----------------------------------------------------------------------------
(* Handles. A name is that of an adapter, or another one.                   *)

Unopened(f) ==
  /\ fsContext[f] = "none"
  /\ \A t \in IrpThreads : irp[t].step = "create" => irp[t].file # f

FindAndReferenceAdapterByBaseName(t, f, name) ==
  /\ irp[t] = Rest /\ Unopened(f)
  /\ Found(t, name) # {}
  /\ references' = references \cup Found(t, name)
  /\ Goes(t, Create(f, name))
  /\ UNCHANGED <<adapterLife, listReaders, handles, guidToOidMap>>

\* Anything else belongs to the client driver, the name of an adapter that is
\* being removed as well.
CreateForClient(t, f, name) ==
  /\ irp[t] = Rest /\ Unopened(f)
  /\ Found(t, name) = {}
  /\ fsContext' = [fsContext EXCEPT ![f] = "client"]
  /\ servedBy' = [servedBy EXCEPT ![f] = {"client"}]
  /\ UNCHANGED <<adapterLife, listReaders, references, guidToOidMap, irp>>

\* NDIS opens the handle, or refuses.
WdmCreateIrpPreProcess(t) ==
  /\ irp[t].step = "create"
  /\ \/ /\ fsContext' = [fsContext EXCEPT ![irp[t].file] = "ndis"]
        /\ servedBy' = [servedBy EXCEPT ![irp[t].file] = {"ndis"}]
     \/ UNCHANGED handles
  /\ references' = references \ {<<t, irp[t].adapter>>}
  /\ Goes(t, Rest)
  /\ UNCHANGED <<adapterLife, listReaders, guidToOidMap>>

\* DeviceInterfaceTypeFromFsContext: whoever does not have the signature of the
\* client driver is NDIS's.
ServerOf(f) == IF fsContext[f] = "client" THEN "client" ELSE "ndis"

\* The framework itself completes what NDIS does not need or support.
WdmIoIrpPreProcess(f, major) ==
  /\ fsContext[f] # "none"
  /\ ServerOf(f) = "client" \/ major = "control"
  /\ servedBy' = [servedBy EXCEPT ![f] = @ \cup {ServerOf(f)}]
  /\ UNCHANGED <<adapterLife, listReaders, references, fsContext, guidToOidMap, irp>>

\* The last IRP of a file.
WdmCloseIrpPreProcess(f) ==
  /\ fsContext[f] # "none"
  /\ fsContext' = [fsContext EXCEPT ![f] = "none"]
  /\ servedBy' = [servedBy EXCEPT ![f] = @ \cup {ServerOf(f)}]
  /\ UNCHANGED <<adapterLife, listReaders, references, guidToOidMap, irp>>

-----------------------------------------------------------------------------
(* WMI. Without the map every GUID is unknown, and nothing is done.         *)

WmiRegister ==
  /\ ~guidToOidMap /\ guidToOidMap' = TRUE
  /\ UNCHANGED <<adapterLife, listReaders, references, handles, irp>>

References(t, S) ==
  /\ irp[t] = Rest /\ guidToOidMap /\ S # {}
  /\ references' = references \cup S
  /\ Goes(t, Call)
  /\ UNCHANGED <<adapterLife, listReaders, handles, guidToOidMap>>

\* A method is executed in the same way.
WmiProcessSingleInstanceDefault(t, name) == References(t, Found(t, name))

\* A query needs one miniport; a change goes to all. The framework goes without
\* one that it cannot note.
WmiProcessSingleInstanceMagicPacket(t, minor) ==
  \E noted \in SUBSET UNION {TryReference(t, a) : a \in Range(collection)} :
    /\ minor = "query" => Cardinality(noted) = 1
    /\ References(t, noted)

\* NDIS does what it is asked for.
CallReturns(t) ==
  /\ irp[t] = Call
  /\ references' = references \ ReferencesOf(t)
  /\ Goes(t, Rest)
  /\ UNCHANGED <<adapterLife, listReaders, handles, guidToOidMap>>

\* The walk along the collection has its lock until it ends.
WmiQueryAllData(t, magicPacket, bufferSize) ==
  /\ irp[t] = Rest /\ guidToOidMap
  /\ listReaders' = listReaders \cup {t}
  /\ Goes(t, Query(magicPacket, bufferSize))
  /\ UNCHANGED <<adapterLife, references, handles, guidToOidMap>>

\* The failure of one adapter, of allocating memory, or a buffer too small for
\* what an adapter answers or for all of them, leaves the others out. All adapters
\* know of magic packets what one knows.
QueryAdapter(t) ==
  LET query == irp[t]
      single == SingleData(Head(query.left))
      next == [query EXCEPT !.left = Tail(@), !.count = @ + 1]
      stop == [query EXCEPT !.left = <<>>]
  IN  /\ query.step = "query" /\ query.left # <<>>
      /\ ~(query.magicPacket /\ query.count > 0) /\ query.all.needed = 0
      /\ \/ Goes(t, [stop EXCEPT !.step = "failed"])
         \/ /\ query.bufferSize < single.size
            /\ Goes(t, [stop EXCEPT !.all = TooSmall(single.size)])
         \/ /\ query.bufferSize >= single.size
            /\ Goes(t, [next EXCEPT !.all =
                 WmiWnodeAllDataMerge(@, single, query.bufferSize, query.count,
                                      Len(collection))])
      /\ UNCHANGED <<adapterLife, listReaders, references, handles, guidToOidMap>>

QueryEnds(t) ==
  LET query == irp[t]
  IN  /\ \/ query.step = "failed"
         \/ /\ query.step = "query"
            /\ \/ query.left = <<>>
               \/ query.all.needed > 0
               \/ query.magicPacket /\ query.count > 0
      /\ listReaders' = listReaders \ {t}
      /\ Goes(t, Rest)
      /\ UNCHANGED <<adapterLife, references, handles, guidToOidMap>>

-----------------------------------------------------------------------------
WmiIrpDispatch(t) ==
  \/ \E name \in NetAdapters : WmiProcessSingleInstanceDefault(t, name)
  \/ \E minor \in {"query", "change"} : WmiProcessSingleInstanceMagicPacket(t, minor)
  \/ \E magicPacket \in BOOLEAN, bufferSize \in BufferSizes :
       WmiQueryAllData(t, magicPacket, bufferSize)
  \/ QueryAdapter(t) \/ QueryEnds(t) \/ CallReturns(t)
  \/ WmiRegister

EvtWdmIrpPreprocessRoutine ==
  \/ \E t \in IrpThreads :
       \/ \E f \in Files, name \in NetAdapters :
            FindAndReferenceAdapterByBaseName(t, f, name) \/ CreateForClient(t, f, name)
       \/ WdmCreateIrpPreProcess(t)
       \/ WmiIrpDispatch(t)
  \/ \E f \in Files :
       \/ \E major \in {"control", "read"} : WdmIoIrpPreProcess(f, major)
       \/ WdmCloseIrpPreProcess(f)

IrpNext ==
  \/ \E a \in NetAdapters :
       \/ CreateMiniport(a) \/ ProcessNewAdapter(a) \/ SurpriseRemoved(a)
       \/ AdapterDeleted(a) \/ PnpRemove(a)
  \/ EvtWdmIrpPreprocessRoutine

IrpSpec == IrpInit /\ [][IrpNext]_irpVars

-----------------------------------------------------------------------------
\* The adapters that a thread makes calls to NDIS for.
Uses(t) ==
  {r[2] : r \in ReferencesOf(t)}
    \cup (IF irp[t].step = "query" THEN Range(irp[t].left) ELSE {})

\* An adapter that a thread found is not removed before the thread is done with
\* it, whether it has a reference or walks along the collection, and a thread that
\* is done keeps neither, so that the adapter can be removed. A handle is served by
\* whom it was opened with, whatever happens to the adapter meanwhile.
IrpsReachTheirAdapter ==
  /\ \A t \in IrpThreads :
       /\ \A a \in Uses(t) : miniport[a] \in {"present", "removing"}
       /\ irp[t].step \in {"create", "call"} <=> ReferencesOf(t) # {}
       /\ irp[t].step \in {"query", "failed"} <=> t \in listReaders
  /\ \A f \in Files : Cardinality(servedBy[f]) <= 1

\* What adapters with names of different lengths answer becomes one answer in which
\* every block of data is found with the name of its adapter, in the order of the
\* collection, and which fits into the buffer; a buffer that is said to be too
\* small is smaller than what is asked for.
AllDataIsWhole ==
  \A t \in IrpThreads : irp[t].step = "query" =>
    LET all == irp[t].all
    IN  IF all.needed > 0 THEN all.needed > irp[t].bufferSize
        ELSE irp[t].count > 0 =>
               /\ WellFormed(all, irp[t].count)
               /\ all.size <= irp[t].bufferSize
               /\ \A i \in 1 .. irp[t].count : all.names[i].of = collection[i]
=============================================================================
