--------------------------- MODULE Requests_proofs ---------------------------
(****************************************************************************)
(* Proofs about the requests that an adapter and a device serve while the   *)
(* device runs: how they reach who handles them (OidDispatch, for any number*)
(* of media extensions, and DeviceIrps, for any number of adapters, threads *)
(* and files), and what they set: the wake patterns and protocol offloads   *)
(* (WakeSources, for all capabilities, all parameters and lists of any      *)
(* length), the references that keep the device in D0 (PowerReferences, for *)
(* any finite number of users), the offloads (Offload, for every driver,    *)
(* setting of the registry and request) and receive scaling (RxScaling, for *)
(* any number of processors, queues and entries).                           *)
(****************************************************************************)
EXTENDS OidDispatch, DeviceIrps, WakeSources, PowerReferences, Offload, RxScaling, ListLemmas

Extension == [oid : BOOLEAN, direct : {"none", "void", "status"}]

OidTypeOK ==
  /\ initExtensions \in Seq(Extension) /\ adapterExtensions \in Seq(Extension)
  /\ created \in BOOLEAN
  /\ oid \in OidRequests \cup {NoOid}
  /\ nextHandlerIndex \in Nat
  /\ holder \in {"dispatch", "extension", "framework", "gone"}
  /\ returnsTo \in {"ndis", "extension", "nobody", "kept"}
  /\ ndisStatus \in {"none", "pending", "final"}
  /\ completions \in Nat
  /\ shownTo \in Seq(Nat)

WithCallback == IF oid.interface = "regular"
                THEN WithOidCallback \cup {Len(adapterExtensions) + 1}
                ELSE WithDirectCallback

\* Where a request is: the index that dispatches it next, or that has it.
Place ==
  /\ oid = NoOid => holder = "gone" /\ nextHandlerIndex = 0 /\ shownTo = <<>>
  /\ ~created => oid = NoOid
  /\ holder # "gone" => oid.interface \in {"regular", "direct"}
  /\ holder \in {"dispatch", "framework"} => returnsTo # "kept"
  /\ holder = "dispatch" =>
       nextHandlerIndex <= Len(adapterExtensions)
                              + (IF oid.interface = "regular" THEN 1 ELSE 0)
  /\ holder = "extension" => nextHandlerIndex \in Extensions \cap WithCallback
  /\ holder = "framework" => /\ oid.interface = "regular"
                             /\ nextHandlerIndex = Len(adapterExtensions) + 1

VoidShown == \E i \in Extensions : /\ i \in Range(shownTo)
                                   /\ adapterExtensions[i].direct = "void"

\* Who answers it.
Answering ==
  /\ holder # "gone" => completions = 0 /\ ndisStatus # "final"
  /\ holder # "gone" /\ oid.interface = "direct" /\ returnsTo = "nobody" => VoidShown
  /\ oid # NoOid /\ holder = "gone" =>
       \/ completions = 1 /\ ndisStatus # "final"
       \/ completions = 0 /\ ndisStatus = "final"
       \/ /\ completions = 0 /\ ndisStatus # "final"
          /\ oid.interface = "direct" /\ VoidShown

\* Who had it.
Shown ==
  /\ \A j, k \in DOMAIN shownTo : j < k => shownTo[j] < shownTo[k]
  /\ {i \in WithCallback : i <= nextHandlerIndex} = Range(shownTo)

OidInv == OidTypeOK /\ Place /\ Answering /\ Shown

-----------------------------------------------------------------------------
\* Nobody has had the request.
LEMMA NobodyShown ==
  ASSUME NEW extensions \in Seq(Extension), NEW W,
         \A i \in W : i \in 1 .. Len(extensions) + 1
  PROVE  {i \in W : i <= 0} = Range(<<>>)
  <1>1. Range(<<>>) = {}
    BY DEF Range
  <1>2. Len(extensions) \in Nat
    OBVIOUS
  <1> QED BY <1>1, <1>2

LEMMA OidInvInit == OidInit => OidInv
  <1> SUFFICES ASSUME OidInit PROVE OidInv
    OBVIOUS
  <1>1. Shown
    <2>1. \A i \in WithCallback : i \in 1 .. Len(adapterExtensions) + 1
      BY DEF OidInit, WithCallback, WithOidCallback, WithDirectCallback, Extensions
    <2>2. adapterExtensions \in Seq(Extension) /\ shownTo = <<>> /\ nextHandlerIndex = 0
      BY DEF OidInit
    <2> QED BY <2>1, <2>2, NobodyShown DEF Shown
  <1>2. OidTypeOK
    <2>1. \A S : <<>> \in Seq(S)
      OBVIOUS
    <2> QED BY <2>1 DEF OidInit, OidTypeOK
  <1>3. Place /\ Answering
    BY DEF OidInit, Place, Answering
  <1> QED BY <1>1, <1>2, <1>3 DEF OidInv

-----------------------------------------------------------------------------
(* One lemma for each group of steps.                                       *)

LEMMA ConfigurationStep ==
  ASSUME OidInv, \/ ExtensionInitAllocate \/ InitializeAdapterExtensions
                 \/ \E i \in 1 .. Len(initExtensions) :
                      \/ SetOidPreprocessCallback(i)
                      \/ \E kind \in {"void", "status"} :
                           SetDirectOidPreprocessCallback(i, kind)
  PROVE  OidInv'
  <1> USE DEF OidInv
  <1>1. OidTypeOK' /\ NoRequestChanges
    <2>1. [oid |-> FALSE, direct |-> "none"] \in Extension
      BY DEF Extension
    <2>2. CASE ExtensionInitAllocate
      BY <2>1, <2>2, AppendProperties DEF OidTypeOK, ExtensionInitAllocate, NoRequestChanges
    <2>3. CASE InitializeAdapterExtensions
      BY <2>3 DEF OidTypeOK, InitializeAdapterExtensions, NoRequestChanges
    <2>4. ASSUME NEW i \in 1 .. Len(initExtensions), SetOidPreprocessCallback(i)
          PROVE  OidTypeOK' /\ NoRequestChanges
      <3>1. [initExtensions[i] EXCEPT !.oid = TRUE] \in Extension
        <4>1. initExtensions[i] \in Extension
          BY DEF OidTypeOK
        <4> QED BY <4>1 DEF Extension
      <3>2. initExtensions' \in Seq(Extension)
        BY <2>4, <3>1 DEF OidTypeOK, SetOidPreprocessCallback
      <3> QED BY <2>4, <3>2 DEF OidTypeOK, SetOidPreprocessCallback, NoRequestChanges
    <2>5. ASSUME NEW i \in 1 .. Len(initExtensions), NEW kind \in {"void", "status"},
                 SetDirectOidPreprocessCallback(i, kind)
          PROVE  OidTypeOK' /\ NoRequestChanges
      <3>1. [initExtensions[i] EXCEPT !.direct = kind] \in Extension
        <4>1. initExtensions[i] \in Extension
          BY DEF OidTypeOK
        <4> QED BY <4>1 DEF Extension
      <3>2. initExtensions' \in Seq(Extension)
        BY <2>5, <3>1 DEF OidTypeOK, SetDirectOidPreprocessCallback
      <3> QED BY <2>5, <3>2 DEF OidTypeOK, SetDirectOidPreprocessCallback, NoRequestChanges
    <2> QED BY <2>2, <2>3, <2>4, <2>5
  <1>2. CASE UNCHANGED <<adapterExtensions, created>>
    BY <1>1, <1>2 DEF Place, Answering, Shown, NoRequestChanges, WithCallback, VoidShown,
      WithOidCallback, WithDirectCallback, Extensions, Answers
  <1>3. CASE InitializeAdapterExtensions
    <2>1. oid = NoOid /\ UNCHANGED <<oid, holder, nextHandlerIndex, shownTo, completions,
                                     ndisStatus>>
      BY <1>1, <1>3 DEF InitializeAdapterExtensions, NoRequestChanges, Place
    <2>8. \A i \in WithCallback' : i \in 1 .. Len(adapterExtensions') + 1
      BY <1>1 DEF OidTypeOK, WithCallback, WithOidCallback, WithDirectCallback, Extensions
    <2>9. adapterExtensions' \in Seq(Extension) /\ shownTo' = <<>> /\ nextHandlerIndex' = 0
      BY <1>1, <2>1 DEF OidTypeOK, Place
    <2>2. Shown'
      BY <2>8, <2>9, NobodyShown DEF Shown
    <2> QED BY <1>1, <2>1, <2>2 DEF Place, Answering
  <1> QED BY <1>1, <1>2, <1>3 DEF ExtensionInitAllocate, SetOidPreprocessCallback,
        SetDirectOidPreprocessCallback

LEMMA ArrivalStep ==
  ASSUME OidInv, NEW arriving \in OidRequests,
         \/ EvtNdisOidRequest(arriving) \/ EvtNdisDirectOidRequest(arriving)
         \/ EvtNdisSynchronousOidRequest(arriving)
  PROVE  OidInv'
  <1> USE DEF OidInv
  <1>1. Arrives(arriving) /\ nextHandlerIndex' = 0 /\ shownTo' = <<>>
    BY DEF EvtNdisOidRequest, EvtNdisDirectOidRequest, EvtNdisSynchronousOidRequest,
      Arrives, AnsweredAtOnce, DispatchedFirst
  <1>2. \/ AnsweredAtOnce
        \/ DispatchedFirst /\ arriving.interface \in {"regular", "direct"}
    BY DEF EvtNdisOidRequest, EvtNdisDirectOidRequest, EvtNdisSynchronousOidRequest
  <1>3. arriving # NoOid
    BY DEF OidRequests, NoOid, Interfaces
  <1>4. OidTypeOK'
    BY <1>1, <1>2 DEF OidTypeOK, Arrives, oidConfiguration, AnsweredAtOnce, DispatchedFirst
  <1>5. Shown'
    <2>8. \A i \in WithCallback' : i \in 1 .. Len(adapterExtensions') + 1
      BY <1>4 DEF OidTypeOK, WithCallback, WithOidCallback, WithDirectCallback, Extensions
    <2>9. adapterExtensions' \in Seq(Extension) /\ shownTo' = <<>> /\ nextHandlerIndex' = 0
      BY <1>1, <1>4 DEF OidTypeOK, Place
    <2> QED BY <2>8, <2>9, NobodyShown DEF Shown
  <1>6. Len(adapterExtensions) \in Nat
    BY DEF OidTypeOK
  <1>7. Place' /\ Answering'
    BY <1>1, <1>2, <1>3, <1>6 DEF Place, Answering, Arrives, oidConfiguration, AnsweredAtOnce,
      DispatchedFirst
  <1> QED BY <1>4, <1>5, <1>7

LEMMA NdisStep ==
  ASSUME OidInv, ReturnPending \/ NdisGoesOn
  PROVE  OidInv'
  <1> USE DEF OidInv
  <1>1. CASE ReturnPending
    BY <1>1 DEF ReturnPending, OidTypeOK, Place, Answering, Shown, WithCallback, VoidShown,
      WithOidCallback, WithDirectCallback, Extensions, oidConfiguration
  <1>2. CASE NdisGoesOn
    <2>3. OidTypeOK'
      <3>1. <<>> \in Seq(Nat)
        OBVIOUS
      <3> QED BY <1>2, <3>1 DEF NdisGoesOn, OidTypeOK, oidConfiguration
    <2>1. shownTo' = <<>> /\ nextHandlerIndex' = 0
      BY <1>2 DEF NdisGoesOn
    <2>8. \A i \in WithCallback' : i \in 1 .. Len(adapterExtensions') + 1
      BY <2>3 DEF OidTypeOK, WithCallback, WithOidCallback, WithDirectCallback, Extensions
    <2>9. adapterExtensions' \in Seq(Extension) /\ shownTo' = <<>> /\ nextHandlerIndex' = 0
      BY <2>1, <2>3 DEF OidTypeOK, Place
    <2>2. Shown'
      BY <2>8, <2>9, NobodyShown DEF Shown
    <2>4. Place' /\ Answering'
      BY <1>2 DEF NdisGoesOn, Place, Answering, oidConfiguration
    <2> QED BY <2>2, <2>3, <2>4
  <1> QED BY <1>1, <1>2

\* Who has had it changes only when the next handler has it.
LEMMA SameShown ==
  ASSUME OidInv, UNCHANGED <<oid, adapterExtensions, nextHandlerIndex, shownTo>>
  PROVE  Shown'
  BY DEF OidInv, Shown, WithCallback, WithOidCallback, WithDirectCallback, Extensions

LEMMA SameVoidShown ==
  ASSUME VoidShown, UNCHANGED <<adapterExtensions, shownTo>>
  PROVE  VoidShown'
  BY DEF VoidShown, Extensions

LEMMA FrameworkStep ==
  ASSUME OidInv, FrameworkOidHandler
  PROVE  OidInv'
  <1> USE DEF OidInv
  <1>1. /\ UNCHANGED <<oidConfiguration, oid, nextHandlerIndex, returnsTo, ndisStatus, shownTo>>
        /\ holder = "framework" /\ holder' \in {"gone", "dispatch"}
        /\ completions' = IF holder' = "gone" THEN completions + 1 ELSE completions
        /\ returnsTo # "kept"
    BY DEF FrameworkOidHandler, Complete, PassOn, Place
  <1>2. Shown'
    BY <1>1, SameShown DEF oidConfiguration
  <1> QED BY <1>1, <1>2 DEF OidTypeOK, Place, Answering, oidConfiguration

\* The request goes to the next handler, or past one without a callback.
LEMMA ShowStep ==
  ASSUME OidInv, NEW handler \in {"extension", "framework"}, ShowTo(handler),
         nextHandlerIndex + 1 \in WithCallback
  PROVE  Shown' /\ shownTo' \in Seq(Nat) /\ Range(shownTo') = Range(shownTo) \cup {nextHandlerIndex + 1}
  <1> USE DEF OidInv
  <1> DEFINE n == nextHandlerIndex + 1
  <1>1. /\ nextHandlerIndex \in Nat /\ n \in Nat /\ n = nextHandlerIndex + 1
        /\ nextHandlerIndex' = n
        /\ shownTo \in Seq(Nat) /\ shownTo' = Append(shownTo, n)
    BY DEF OidTypeOK, ShowTo
  <1>2. WithCallback' = WithCallback /\ WithCallback \subseteq Nat
    BY DEF OidTypeOK, ShowTo, WithCallback, WithOidCallback, WithDirectCallback, Extensions,
      oidConfiguration
  <1> HIDE DEF n
  <1>3. /\ shownTo' \in Seq(Nat) /\ Len(shownTo) \in Nat
        /\ DOMAIN shownTo = 1 .. Len(shownTo)
        /\ DOMAIN shownTo' = 1 .. Len(shownTo) + 1
        /\ \A j \in 1 .. Len(shownTo) : shownTo'[j] = shownTo[j]
        /\ shownTo'[Len(shownTo) + 1] = n
    BY <1>1
  <1>4. Range(shownTo') = Range(shownTo) \cup {n}
    BY <1>3, SMTT(30) DEF Range
  <1>5. \A j \in DOMAIN shownTo : shownTo[j] \in Nat /\ shownTo[j] < n
    <2>1. \A j \in DOMAIN shownTo : shownTo[j] \in Range(shownTo)
      BY DEF Range
    <2> QED BY <1>1, <1>2, <2>1 DEF Shown
  <1>6. \A j, k \in DOMAIN shownTo' : j < k => shownTo'[j] < shownTo'[k]
    BY <1>3, <1>5 DEF Shown
  <1>7. {i \in WithCallback : i <= n} = {i \in WithCallback : i <= nextHandlerIndex} \cup {n}
    <2>1. \A i \in Nat : i <= n <=> i <= nextHandlerIndex \/ i = n
      BY <1>1
    <2> QED BY <1>2, <2>1 DEF n
  <1> QED BY <1>1, <1>2, <1>3, <1>4, <1>6, <1>7 DEF Shown

LEMMA SkipStep ==
  ASSUME OidInv, UNCHANGED <<oid, adapterExtensions, shownTo>>,
         nextHandlerIndex' = nextHandlerIndex + 1, nextHandlerIndex + 1 \notin WithCallback
  PROVE  Shown'
  <1> USE DEF OidInv
  <1>1. WithCallback' = WithCallback /\ WithCallback \subseteq Nat /\ nextHandlerIndex \in Nat
    BY DEF OidTypeOK, WithCallback, WithOidCallback, WithDirectCallback, Extensions
  <1>2. \A i \in WithCallback : i <= nextHandlerIndex' <=> i <= nextHandlerIndex
    BY <1>1
  <1> QED BY <1>1, <1>2 DEF Shown

\* A handler still knows that an extension passed the request on.
LEMMA ShowVoidShown ==
  ASSUME OidInv, NEW handler \in {"extension", "framework"}, ShowTo(handler),
         nextHandlerIndex + 1 \in WithCallback, VoidShown
  PROVE  VoidShown'
  BY ShowStep DEF VoidShown, Extensions, ShowTo, oidConfiguration

LEMMA DispatchStep ==
  ASSUME OidInv, DispatchOidRequest \/ DispatchDirectOidRequest
  PROVE  OidInv'
  <1> USE DEF OidInv
  <1>1. /\ holder = "dispatch" /\ completions = 0 /\ ndisStatus # "final"
        /\ returnsTo # "kept"
        /\ oid.interface \in {"regular", "direct"} /\ oid # NoOid /\ created
        /\ Len(adapterExtensions) \in Nat /\ nextHandlerIndex \in Nat
    BY DEF DispatchOidRequest, DispatchDirectOidRequest, Place, Answering, OidTypeOK
  <1>2. WithCallback \subseteq Nat
    BY <1>1 DEF WithCallback, WithOidCallback, WithDirectCallback, Extensions
  <1>3. ASSUME NEW handler \in {"extension", "framework"}, ShowTo(handler),
               nextHandlerIndex + 1 \in WithCallback,
               IF handler = "extension" THEN nextHandlerIndex + 1 \in Extensions
               ELSE /\ nextHandlerIndex = Len(adapterExtensions)
                    /\ oid.interface = "regular"
        PROVE  OidInv'
    <2>1. OidTypeOK'
      BY <1>1, <1>3, ShowStep DEF OidTypeOK, ShowTo, oidConfiguration
    <2>2. Place'
      BY <1>1, <1>3 DEF Place, ShowTo, oidConfiguration, WithCallback, WithOidCallback,
        WithDirectCallback, Extensions
    <2>3. Answering'
      BY <1>1, <1>3, ShowVoidShown DEF Answering, ShowTo, oidConfiguration
    <2> QED BY <1>3, <2>1, <2>2, <2>3, ShowStep
  <1>4. ASSUME nextHandlerIndex < Len(adapterExtensions),
               nextHandlerIndex' = nextHandlerIndex + 1, nextHandlerIndex + 1 \notin WithCallback,
               UNCHANGED <<oidConfiguration, oid, holder, returnsTo, ndisStatus, completions,
                           shownTo>>
        PROVE  OidInv'
    <2>1. Shown'
      BY <1>4, SkipStep DEF oidConfiguration
    <2> QED BY <1>1, <1>4, <2>1, SameVoidShown DEF OidTypeOK, Place, Answering, oidConfiguration
  <1>5. CASE NotSupported /\ oid.interface = "regular"
    <2>1. nextHandlerIndex + 1 \notin WithCallback
      BY <1>1, <1>5 DEF NotSupported, WithCallback, WithOidCallback, Extensions
    <2>2. Shown'
      BY <1>5, <2>1, SkipStep DEF NotSupported, oidConfiguration
    <2> QED BY <1>1, <1>5, <2>2 DEF NotSupported, OidTypeOK, Place, Answering, oidConfiguration
  <1>6. CASE ReturnStatus /\ oid.interface = "direct"
    <2>1. Shown'
      BY <1>6, SameShown DEF ReturnStatus, oidConfiguration
    <2> QED BY <1>1, <1>6, <2>1, SameVoidShown DEF ReturnStatus, OidTypeOK, Place, Answering,
          oidConfiguration
  <1>7. CASE DispatchOidRequest
    <2>1. WithCallback = WithOidCallback \cup {Len(adapterExtensions) + 1}
      BY <1>7 DEF DispatchOidRequest, WithCallback
    <2>2. CASE InvokePreprocessCallback(WithOidCallback)
      BY <1>1, <1>3, <1>4, <2>1, <2>2 DEF InvokePreprocessCallback, Extensions
    <2> QED BY <1>3, <1>5, <1>7, <2>1, <2>2 DEF DispatchOidRequest
  <1>8. CASE DispatchDirectOidRequest
    <2>1. WithCallback = WithDirectCallback
      BY <1>8 DEF DispatchDirectOidRequest, WithCallback
    <2>2. CASE InvokePreprocessCallback(WithDirectCallback)
      BY <1>1, <1>3, <1>4, <2>1, <2>2 DEF InvokePreprocessCallback, Extensions
    <2> QED BY <1>6, <1>8, <2>2 DEF DispatchDirectOidRequest
  <1> QED BY <1>7, <1>8

LEMMA ExtensionStep ==
  ASSUME OidInv, \/ ExtensionKeeps \/ ExtensionCompletes \/ ExtensionReturns
                 \/ ExtensionForwards
  PROVE  OidInv'
  <1> USE DEF OidInv
  <1>1. /\ UNCHANGED <<oidConfiguration, oid, nextHandlerIndex, shownTo>>
        /\ holder = "extension" /\ completions = 0 /\ ndisStatus # "final" /\ oid # NoOid
        /\ oid.interface \in {"regular", "direct"}
        /\ nextHandlerIndex \in Extensions \cap WithCallback
    BY DEF ExtensionKeeps, ExtensionCompletes, ExtensionReturns, ExtensionForwards, Complete,
      ReturnStatus, Place, Answering
  <1>2. Shown'
    BY <1>1, SameShown DEF oidConfiguration
  <1>3. VoidShown => VoidShown'
    BY <1>1, SameVoidShown DEF oidConfiguration
  <1>4. (Extensions \cap WithCallback)' = Extensions \cap WithCallback
    BY <1>1 DEF oidConfiguration, Extensions, WithCallback, WithOidCallback, WithDirectCallback
  <1>5. nextHandlerIndex \in Range(shownTo)
    BY <1>1 DEF Shown, OidTypeOK
  <1>6. CASE ExtensionKeeps
    BY <1>1, <1>2, <1>3, <1>4, <1>6 DEF ExtensionKeeps, OidTypeOK, Place, Answering,
      oidConfiguration
  <1>7. CASE ExtensionCompletes
    BY <1>1, <1>2, <1>7 DEF ExtensionCompletes, Complete, OidTypeOK, Place, Answering,
      oidConfiguration
  <1>8. CASE ExtensionReturns
    BY <1>1, <1>2, <1>3, <1>8 DEF ExtensionReturns, ReturnStatus, ReturnsStatus, OidTypeOK,
      Place, Answering, oidConfiguration
  <1>9. CASE ExtensionForwards
    <2>1. /\ holder' = "dispatch" /\ UNCHANGED <<completions, ndisStatus>>
          /\ returnsTo' \in {"ndis", "extension", "nobody"}
      BY <1>1, <1>9 DEF ExtensionForwards, OidTypeOK
    <2>2. oid.interface = "direct" /\ returnsTo' = "nobody" => VoidShown
      <3>1. CASE ReturnsStatus
        BY <1>1, <1>9, <3>1 DEF ExtensionForwards, Answering, ReturnsStatus
      <3>2. CASE oid.interface = "direct" /\ ~ReturnsStatus
        <4>1. adapterExtensions[nextHandlerIndex] \in Extension
          BY <1>1 DEF OidTypeOK, Extensions
        <4>2. adapterExtensions[nextHandlerIndex].direct = "void"
          BY <1>1, <3>2, <4>1 DEF WithCallback, WithDirectCallback, ReturnsStatus, Extension
        <4> QED BY <1>1, <1>5, <4>2 DEF VoidShown
      <3> QED BY <3>1, <3>2
    <2>3. nextHandlerIndex <= Len(adapterExtensions) /\ Len(adapterExtensions) \in Nat
      BY <1>1 DEF Extensions, OidTypeOK
    <2> QED BY <1>1, <1>2, <1>3, <2>1, <2>2, <2>3 DEF OidTypeOK, Place, Answering,
          oidConfiguration
  <1> QED BY <1>6, <1>7, <1>8, <1>9

-----------------------------------------------------------------------------
LEMMA OidInvStep ==
  ASSUME OidInv, [OidNext]_oidVars
  PROVE  OidInv'
  <1>1. CASE UNCHANGED oidVars
    BY <1>1 DEF oidVars, OidInv, OidTypeOK, Place, Answering, Shown, WithCallback, VoidShown,
      WithOidCallback, WithDirectCallback, Extensions
  <1>2. CASE OidNext
    BY <1>2, ConfigurationStep, ArrivalStep, NdisStep, FrameworkStep, DispatchStep,
      ExtensionStep DEF OidNext
  <1> QED BY <1>1, <1>2

\* Types, where a request is, who answers it and who had it.
THEOREM OidInvariant == OidSpec => []OidInv
  BY OidInvInit, OidInvStep, PTL DEF OidSpec

\* However many extensions there are and whatever they do with it, a request is
\* answered once, by completing it or by the status of NDIS's call, unless an
\* extension passed on a direct one by the function without a status.
THEOREM AnsweredOnceAlways == OidSpec => []AnsweredOnce
  <1>1. OidInv => AnsweredOnce
    <2> SUFFICES ASSUME OidInv, oid # NoOid PROVE AnsweredOnce
      BY DEF AnsweredOnce
    <2>1. VoidShown => \E i \in Extensions : /\ Contains(shownTo, i)
                                             /\ adapterExtensions[i].direct = "void"
      BY DEF VoidShown, Contains, Range, OidInv, OidTypeOK
    <2> QED BY <2>1 DEF OidInv, OidTypeOK, Answering, AnsweredOnce, Answers
  <1> QED BY <1>1, OidInvariant, PTL

\* The handlers have it in order, each at most once and none is left out.
THEOREM HandledInOrderAlways == OidSpec => []HandledInOrder
  <1>1. OidInv => HandledInOrder
    BY DEF OidInv, Place, Shown, HandledInOrder, WithCallback
  <1> QED BY <1>1, OidInvariant, PTL

-----------------------------------------------------------------------------
(* DeviceIrps: references, handles and the lock of the collection.          *)

WmiBlock == [at : Int, of : NetAdapters]
WmiName == [at : Int, offset : Int, of : NetAdapters]
AllData == [size : Int, namesAt : Int, blocks : Seq(WmiBlock), names : Seq(WmiName),
            needed : Int]
Opening == [step : {"create"}, file : Files, adapter : NetAdapters]
Walk == [step : {"query", "failed"}, magicPacket : BOOLEAN, bufferSize : BufferSizes,
         left : Seq(NetAdapters), count : Nat, all : AllData]

IrpTypeOK ==
  /\ collection \in Seq(NetAdapters)
  /\ listReaders \subseteq IrpThreads
  /\ miniport \in [NetAdapters -> {"none", "present", "removing", "gone"}]
  /\ references \subseteq IrpThreads \X NetAdapters
  /\ fsContext \in [Files -> {"none", "client", "ndis"}]
  /\ servedBy \in [Files -> {{}, {"client"}, {"ndis"}}]
  /\ irp \in [IrpThreads -> {Rest, Call} \cup Opening \cup Walk]

There == {a \in NetAdapters : miniport[a] \in {"present", "removing"}}

\* The miniports that are used are not gone, and each thread has the references of
\* its step.
Referenced ==
  /\ \A r \in references : r[2] \in There
  /\ Range(collection) \subseteq There
  /\ \A t \in IrpThreads :
       /\ irp[t].step = "create" => ReferencesOf(t) = {<<t, irp[t].adapter>>}
       /\ irp[t].step = "call" => ReferencesOf(t) # {}
       /\ irp[t].step \in {"rest", "query", "failed"} => ReferencesOf(t) = {}

\* Who walks along the collection has its lock.
Locked ==
  \A t \in IrpThreads :
    /\ irp[t].step \in {"query", "failed"} <=> t \in listReaders
    /\ irp[t].step = "query" => Range(irp[t].left) \subseteq Range(collection)

Served == \A f \in Files : fsContext[f] # "none" => servedBy[f] \subseteq {ServerOf(f)}

IrpInv == IrpTypeOK /\ Referenced /\ Locked /\ Served

\* Until it has failed or the buffer is too small, a query has asked the first
\* adapters of the collection, and its answer leaves as much room in the buffer as
\* the others need.
Walked(query) ==
  \/ query.all.needed > query.bufferSize
  \/ /\ query.all.needed = 0
     /\ Len(query.left) = Len(collection) - query.count
     /\ \A i \in 1 .. Len(query.left) : query.left[i] = collection[query.count + i]
     /\ query.count > 0 =>
          /\ WellFormed(query.all, query.count)
          /\ \A i \in 1 .. query.count : query.all.names[i].of = collection[i]
          /\ Len(collection) * (query.all.size - DataBlockOffset)
               <= query.count * (query.bufferSize - DataBlockOffset)
          /\ query.bufferSize >= DataBlockOffset

WalkInv == \A t \in IrpThreads : irp[t].step = "query" => Walked(irp[t])

-----------------------------------------------------------------------------
IrpSteps == {Rest, Call} \cup Opening \cup Walk

LEMMA IrpKinds ==
  ASSUME NEW i \in IrpSteps
  PROVE  /\ i.step \in {"rest", "call", "create", "query", "failed"}
         /\ i.step = "rest" => i = Rest
         /\ i.step = "call" => i = Call
         /\ i.step = "create" => i \in Opening
         /\ i.step \in {"query", "failed"} => i \in Walk
  BY DEF IrpSteps, Rest, Call, Opening, Walk

LEMMA OneGoes ==
  ASSUME irp \in [IrpThreads -> IrpSteps], NEW t \in IrpThreads, NEW to \in IrpSteps,
         Goes(t, to)
  PROVE  /\ irp' \in [IrpThreads -> IrpSteps] /\ irp'[t] = to
         /\ \A u \in IrpThreads \ {t} : irp'[u] = irp[u]
  BY DEF Goes

\* A thread that goes to a step has the references of that step.
LEMMA ReferencedStep ==
  ASSUME IrpInv, NEW t \in IrpThreads, NEW to \in IrpSteps, Goes(t, to),
         UNCHANGED <<collection, miniport>>,
         NEW now, now \subseteq {t} \X There,
         references' = (references \ ReferencesOf(t)) \cup now,
         to.step = "create" => now = {<<t, to.adapter>>},
         to.step = "call" => now # {},
         to.step \in {"rest", "query", "failed"} => now = {}
  PROVE  Referenced' /\ references' \subseteq IrpThreads \X NetAdapters
  <1>1. /\ irp \in [IrpThreads -> IrpSteps]
        /\ references \subseteq IrpThreads \X NetAdapters
    BY DEF IrpInv, IrpTypeOK, IrpSteps
  <1>2. irp'[t] = to /\ \A u \in IrpThreads \ {t} : irp'[u] = irp[u]
    BY <1>1, OneGoes
  <1>3. There' = There /\ There \subseteq NetAdapters
    BY DEF There
  <1>4. \A r \in now : r \in {t} \X There /\ r[1] = t /\ r[2] \in There
    OBVIOUS
  <1>5. ReferencesOf(t)' = now
    BY <1>4 DEF ReferencesOf
  <1>6. \A u \in IrpThreads \ {t} : ReferencesOf(u)' = ReferencesOf(u)
    BY <1>4 DEF ReferencesOf
  <1>7. references' \subseteq IrpThreads \X NetAdapters
    BY <1>1, <1>3, <1>4
  <1>8. /\ \A r \in references' : r[2] \in There'
        /\ Range(collection') \subseteq There'
    BY <1>3, <1>4 DEF IrpInv, Referenced
  <1>9. ASSUME NEW u \in IrpThreads
        PROVE  /\ irp'[u].step = "create" => ReferencesOf(u)' = {<<u, irp'[u].adapter>>}
               /\ irp'[u].step = "call" => ReferencesOf(u)' # {}
               /\ irp'[u].step \in {"rest", "query", "failed"} => ReferencesOf(u)' = {}
    <2>1. CASE u = t
      BY <1>2, <1>5, <2>1
    <2>2. CASE u # t
      <3>1. /\ irp[u].step = "create" => ReferencesOf(u) = {<<u, irp[u].adapter>>}
            /\ irp[u].step = "call" => ReferencesOf(u) # {}
            /\ irp[u].step \in {"rest", "query", "failed"} => ReferencesOf(u) = {}
        BY DEF IrpInv, Referenced
      <3> QED BY <1>2, <1>6, <2>2, <3>1
    <2> QED BY <2>1, <2>2
  <1> QED BY <1>7, <1>8, <1>9 DEF Referenced

\* A thread without the lock that goes to a step without it.
LEMMA UnlockedStep ==
  ASSUME IrpInv, NEW t \in IrpThreads, NEW to \in IrpSteps, Goes(t, to),
         irp[t].step \in {"rest", "create", "call"}, to.step \in {"rest", "create", "call"},
         UNCHANGED <<collection, listReaders>>
  PROVE  Locked'
  <1>1. irp'[t] = to /\ \A u \in IrpThreads \ {t} : irp'[u] = irp[u]
    BY OneGoes DEF IrpInv, IrpTypeOK, IrpSteps
  <1> QED BY <1>1 DEF IrpInv, Locked

LEMMA SameServed ==
  ASSUME IrpInv, UNCHANGED handles
  PROVE  /\ Served' /\ fsContext' \in [Files -> {"none", "client", "ndis"}]
         /\ servedBy' \in [Files -> {{}, {"client"}, {"ndis"}}]
  BY DEF IrpInv, IrpTypeOK, Served, ServerOf, handles

-----------------------------------------------------------------------------
LEMMA IrpInvInit == IrpInit => IrpInv
  <1> SUFFICES ASSUME IrpInit PROVE IrpInv
    OBVIOUS
  <1>1. <<>> \in Seq(NetAdapters) /\ Range(<<>>) = {}
    BY DEF Range
  <1> QED BY <1>1 DEF IrpInit, IrpInv, IrpTypeOK, Referenced, Locked, Served, There,
        ReferencesOf, ServerOf, Rest

\* Adapters come and go. Only one that nobody refers to is gone.
LEMMA AdapterStep ==
  ASSUME IrpInv, NEW a \in NetAdapters,
         \/ CreateMiniport(a) \/ ProcessNewAdapter(a) \/ SurpriseRemoved(a)
         \/ AdapterDeleted(a) \/ PnpRemove(a)
  PROVE  IrpInv'
  <1> USE DEF IrpInv
  <1>1. UNCHANGED <<references, listReaders, irp, fsContext, servedBy>>
    BY DEF CreateMiniport, ProcessNewAdapter, SurpriseRemoved, AdapterDeleted,
      LeavesCollection, PnpRemove, handles
  <1>2. /\ collection' \in Seq(NetAdapters)
        /\ Range(collection') \subseteq Range(collection) \cup {a}
        /\ a \in Range(collection') \ Range(collection) => miniport'[a] = "present"
        /\ collection' # collection => listReaders = {}
    <2>1. CASE ProcessNewAdapter(a)
      BY <2>1, AppendRange DEF ProcessNewAdapter, IrpTypeOK
    <2>2. CASE AdapterDeleted(a)
      <3>1. PICK i \in DOMAIN collection : collection' = RemoveAt(collection, i)
        BY <2>2 DEF AdapterDeleted, LeavesCollection
      <3>2. collection' \in Seq(NetAdapters) /\ Without(collection', collection, i)
        BY <3>1, RemoveAtProperties DEF IrpTypeOK
      <3>3. Range(collection') \subseteq Range(collection)
        <4>1. ASSUME NEW j \in DOMAIN collection' PROVE collection'[j] \in Range(collection)
          <5>1. j \in DOMAIN collection /\ j + 1 \in DOMAIN collection
            BY <3>2 DEF Without
          <5>2. collection'[j] \in {collection[j], collection[j + 1]}
            BY <3>2 DEF Without
          <5> QED BY <5>1, <5>2, InRange
        <4> QED BY <4>1 DEF Range
      <3> QED BY <2>2, <3>2, <3>3 DEF AdapterDeleted
    <2>3. CASE UNCHANGED collection
      BY <2>3 DEF IrpTypeOK
    <2> QED BY <2>1, <2>2, <2>3 DEF CreateMiniport, SurpriseRemoved, PnpRemove
  <1>3. /\ miniport' \in [NetAdapters -> {"none", "present", "removing", "gone"}]
        /\ \A b \in NetAdapters \ {a} : miniport'[b] = miniport[b]
        /\ a \in There => \/ a \in There'
                          \/ /\ a \notin Range(collection')
                             /\ \A t \in IrpThreads : <<t, a>> \notin references
    <2>1. CASE CreateMiniport(a)
      BY <2>1 DEF CreateMiniport, IrpTypeOK, There
    <2>2. CASE ProcessNewAdapter(a)
      BY <2>2 DEF ProcessNewAdapter, IrpTypeOK, There
    <2>3. CASE SurpriseRemoved(a)
      BY <2>3 DEF SurpriseRemoved, IrpTypeOK, There
    <2>4. CASE AdapterDeleted(a)
      BY <2>4 DEF AdapterDeleted, LeavesCollection, IrpTypeOK, There
    <2>5. CASE PnpRemove(a)
      <3>1. a \notin Range(collection) /\ UNCHANGED collection
        BY <2>5, LenProperties, InRange DEF PnpRemove, Contains, IrpTypeOK
      <3> QED BY <2>5, <3>1 DEF PnpRemove, IrpTypeOK, There
    <2> QED BY <2>1, <2>2, <2>3, <2>4, <2>5
  <1>4. IrpTypeOK'
    BY <1>1, <1>2, <1>3 DEF IrpTypeOK
  <1>5. Referenced'
    <2>1. \A b \in There : b # a => b \in There'
      BY <1>3 DEF There
    <2>2. ASSUME NEW r \in references PROVE r[2] \in There'
      <3>1. r = <<r[1], r[2]>> /\ r[1] \in IrpThreads /\ r[2] \in There
        BY DEF IrpTypeOK, Referenced
      <3> QED BY <1>3, <2>1, <3>1
    <2>3. Range(collection') \subseteq There'
      BY <1>2, <1>3, <2>1 DEF Referenced, There
    <2> QED BY <1>1, <2>2, <2>3 DEF Referenced, ReferencesOf
  <1>6. Locked'
    BY <1>1, <1>2 DEF Locked
  <1>7. Served'
    BY <1>1 DEF Served, ServerOf
  <1> QED BY <1>4, <1>5, <1>6, <1>7

\* A thread opens a handle, or the client driver does.
LEMMA CreateStep ==
  ASSUME IrpInv, NEW t \in IrpThreads, NEW f \in Files, NEW name \in NetAdapters,
         FindAndReferenceAdapterByBaseName(t, f, name) \/ CreateForClient(t, f, name)
  PROVE  IrpInv'
  <1> USE DEF IrpInv
  <1>1. irp[t] = Rest /\ Rest.step = "rest" /\ Rest \in IrpSteps
        /\ irp \in [IrpThreads -> IrpSteps]
    BY DEF FindAndReferenceAdapterByBaseName, CreateForClient, Rest, IrpSteps, IrpTypeOK
  <1>2. ReferencesOf(t) = {}
    BY <1>1 DEF Referenced
  <1>3. CASE FindAndReferenceAdapterByBaseName(t, f, name)
    <2> DEFINE to == Create(f, name)
    <2>1. to \in IrpSteps /\ to.step = "create" /\ to.adapter = name
      BY DEF Create, Opening, IrpSteps
    <2>2. Found(t, name) = {<<t, name>>} /\ name \in There
      BY <1>3 DEF FindAndReferenceAdapterByBaseName, Found, TryReference, There
    <2>3. Goes(t, to) /\ references' = (references \ ReferencesOf(t)) \cup {<<t, name>>}
          /\ UNCHANGED <<collection, miniport, listReaders>> /\ UNCHANGED handles
      BY <1>2, <1>3, <2>2 DEF FindAndReferenceAdapterByBaseName, adapterLife
    <2> HIDE DEF to
    <2>4. Referenced' /\ references' \subseteq IrpThreads \X NetAdapters
      <3>1. PICK now : now = {<<t, name>>}
        OBVIOUS
      <3>2. /\ references' = (references \ ReferencesOf(t)) \cup now
            /\ now \subseteq {t} \X There /\ now = {<<t, to.adapter>>}
        BY <2>1, <2>2, <2>3, <3>1
      <3> QED BY <2>1, <2>3, <3>2, ReferencedStep
    <2>5. Locked'
      BY <1>1, <2>1, <2>3, UnlockedStep
    <2>6. irp' \in [IrpThreads -> IrpSteps]
      BY <1>1, <2>1, <2>3, OneGoes
    <2> QED BY <2>3, <2>4, <2>5, <2>6, SameServed DEF IrpTypeOK, IrpSteps
  <1>4. CASE CreateForClient(t, f, name)
    <2>1. UNCHANGED <<collection, miniport, listReaders, references, irp>>
      BY <1>4 DEF CreateForClient, adapterLife
    <2>2. IrpTypeOK'
      BY <1>4, <2>1 DEF CreateForClient, IrpTypeOK
    <2>3. Served'
      BY <1>4 DEF CreateForClient, IrpTypeOK, Served, ServerOf
    <2> QED BY <2>1, <2>2, <2>3 DEF Referenced, Locked, There, ReferencesOf
  <1> QED BY <1>3, <1>4

\* NDIS opens a handle, and the reference goes.
LEMMA OpenedStep ==
  ASSUME IrpInv, NEW t \in IrpThreads, WdmCreateIrpPreProcess(t)
  PROVE  IrpInv'
  <1> USE DEF IrpInv
  <1>1. /\ irp[t].step = "create" /\ Rest.step = "rest" /\ Rest \in IrpSteps
        /\ irp \in [IrpThreads -> IrpSteps]
    BY DEF WdmCreateIrpPreProcess, Rest, IrpSteps, IrpTypeOK
  <1>2. irp[t].file \in Files
    BY <1>1, IrpKinds DEF Opening
  <1>3. /\ Goes(t, Rest) /\ references' = (references \ ReferencesOf(t)) \cup {}
        /\ UNCHANGED <<collection, miniport, listReaders>>
    BY <1>1 DEF WdmCreateIrpPreProcess, adapterLife, Referenced
  <1>4. Referenced' /\ references' \subseteq IrpThreads \X NetAdapters
    <2>1. PICK now : now = {}
      OBVIOUS
    <2>2. references' = (references \ ReferencesOf(t)) \cup now /\ now \subseteq {t} \X There
      BY <1>3, <2>1
    <2> QED BY <1>1, <1>3, <2>1, <2>2, ReferencedStep
  <1>5. Locked'
    BY <1>1, <1>3, UnlockedStep
  <1>6. irp' \in [IrpThreads -> IrpSteps]
    BY <1>1, <1>3, OneGoes
  <1>7. /\ Served' /\ fsContext' \in [Files -> {"none", "client", "ndis"}]
        /\ servedBy' \in [Files -> {{}, {"client"}, {"ndis"}}]
    <2>1. CASE UNCHANGED handles
      BY <2>1, SameServed
    <2>2. CASE /\ fsContext' = [fsContext EXCEPT ![irp[t].file] = "ndis"]
               /\ servedBy' = [servedBy EXCEPT ![irp[t].file] = {"ndis"}]
      BY <1>2, <2>2 DEF IrpTypeOK, Served, ServerOf
    <2> QED BY <2>1, <2>2 DEF WdmCreateIrpPreProcess
  <1> QED BY <1>3, <1>4, <1>5, <1>6, <1>7 DEF IrpTypeOK, IrpSteps

\* Whoever opened a file serves it.
LEMMA FileStep ==
  ASSUME IrpInv, NEW f \in Files,
         \/ \E major \in {"control", "read"} : WdmIoIrpPreProcess(f, major)
         \/ WdmCloseIrpPreProcess(f)
  PROVE  IrpInv'
  <1> USE DEF IrpInv
  <1>1. /\ UNCHANGED <<collection, miniport, listReaders, references, irp>>
        /\ fsContext[f] # "none"
        /\ servedBy' = [servedBy EXCEPT ![f] = servedBy[f] \cup {ServerOf(f)}]
        /\ fsContext' \in {fsContext, [fsContext EXCEPT ![f] = "none"]}
    BY DEF WdmIoIrpPreProcess, WdmCloseIrpPreProcess, adapterLife
  <1>2. servedBy[f] \cup {ServerOf(f)} = {ServerOf(f)} /\ ServerOf(f) \in {"client", "ndis"}
    BY <1>1 DEF Served, ServerOf
  <1>3. servedBy' = [servedBy EXCEPT ![f] = {ServerOf(f)}]
    BY <1>1, <1>2
  <1>4. IrpTypeOK'
    BY <1>1, <1>2, <1>3 DEF IrpTypeOK
  <1>5. Served'
    BY <1>1, <1>2, <1>3 DEF IrpTypeOK, Served, ServerOf
  <1> QED BY <1>1, <1>4, <1>5 DEF Referenced, Locked, There, ReferencesOf

\* WMI calls NDIS for the miniports that a thread has references to.
LEMMA CallStep ==
  ASSUME IrpInv, NEW t \in IrpThreads, NEW S, S \subseteq {t} \X There, References(t, S)
  PROVE  IrpInv'
  <1> USE DEF IrpInv
  <1>1. /\ irp[t] = Rest /\ Rest.step = "rest" /\ Call.step = "call" /\ Call \in IrpSteps
        /\ irp \in [IrpThreads -> IrpSteps]
    BY DEF References, Rest, Call, IrpSteps, IrpTypeOK
  <1>2. ReferencesOf(t) = {}
    BY <1>1 DEF Referenced
  <1>3. /\ Goes(t, Call) /\ references' = (references \ ReferencesOf(t)) \cup S /\ S # {}
        /\ UNCHANGED <<collection, miniport, listReaders>> /\ UNCHANGED handles
    BY <1>2 DEF References, adapterLife
  <1>4. Referenced' /\ references' \subseteq IrpThreads \X NetAdapters
    BY <1>1, <1>3, ReferencedStep
  <1>5. Locked'
    BY <1>1, <1>3, UnlockedStep
  <1>6. irp' \in [IrpThreads -> IrpSteps]
    BY <1>1, <1>3, OneGoes
  <1> QED BY <1>3, <1>4, <1>5, <1>6, SameServed DEF IrpTypeOK, IrpSteps

LEMMA CallReturnsStep ==
  ASSUME IrpInv, NEW t \in IrpThreads, CallReturns(t)
  PROVE  IrpInv'
  <1> USE DEF IrpInv
  <1>1. /\ irp[t] = Call /\ Rest.step = "rest" /\ Call.step = "call" /\ Rest \in IrpSteps
        /\ irp \in [IrpThreads -> IrpSteps]
    BY DEF CallReturns, Rest, Call, IrpSteps, IrpTypeOK
  <1>2. /\ Goes(t, Rest) /\ references' = (references \ ReferencesOf(t)) \cup {}
        /\ UNCHANGED <<collection, miniport, listReaders>> /\ UNCHANGED handles
    BY DEF CallReturns, adapterLife
  <1>3. Referenced' /\ references' \subseteq IrpThreads \X NetAdapters
    <2>1. {} \subseteq {t} \X There
      OBVIOUS
    <2> QED BY <1>1, <1>2, <2>1, ReferencedStep
  <1>4. Locked'
    BY <1>1, <1>2, UnlockedStep
  <1>5. irp' \in [IrpThreads -> IrpSteps]
    BY <1>1, <1>2, OneGoes
  <1> QED BY <1>2, <1>3, <1>4, <1>5, SameServed DEF IrpTypeOK, IrpSteps

\* The miniports that a request finds are there.
LEMMA FoundIsThere ==
  ASSUME NEW t \in IrpThreads, NEW name \in NetAdapters
  PROVE  Found(t, name) \subseteq {t} \X There /\ TryReference(t, name) \subseteq {t} \X There
  BY DEF Found, TryReference, There

-----------------------------------------------------------------------------
(* The answer for all adapters of a device.                                 *)

LEMMA RoundedTyped == RoundedInstanceSize \in Nat
  BY WmiAssumption DEF RoundedInstanceSize

\* The offsets of the blocks and the names of an answer that grows by one block.
LEMMA BlockAfterBlock ==
  ASSUME NEW count \in Nat
  PROVE  /\ RoundedInstanceSize * count \in Nat
         /\ RoundedInstanceSize * (count + 1) = RoundedInstanceSize * count + RoundedInstanceSize
  <1>1. PICK rounded \in Nat : rounded = RoundedInstanceSize
    BY RoundedTyped
  <1>2. rounded * count \in Nat /\ rounded * (count + 1) = rounded * count + rounded
    OBVIOUS
  <1> QED BY <1>1, <1>2

LEMMA NoDataTyped ==
  ASSUME NEW size \in Int
  PROVE  /\ NoData \in AllData /\ TooSmall(size) \in AllData
         /\ NoData.needed = 0 /\ TooSmall(size).needed = size
  <1>1. <<>> \in Seq(WmiBlock) /\ <<>> \in Seq(WmiName)
    OBVIOUS
  <1>2. NoData \in AllData /\ NoData.needed = 0
    BY <1>1 DEF NoData, AllData
  <1>3. TooSmall(size) \in AllData /\ TooSmall(size).needed = size
    BY <1>2 DEF TooSmall, AllData
  <1> QED BY <1>2, <1>3

LEMMA SingleTyped ==
  ASSUME NEW a \in NetAdapters
  PROVE  /\ SingleData(a) \in AllData
         /\ SingleData(a).needed = 0
         /\ SingleData(a).size = DataBlockOffset + RoundedInstanceSize + 4 + NameSize[a]
         /\ SingleData(a).size - SingleData(a).namesAt = 4 + NameSize[a]
         /\ SingleData(a).blocks[1].of = a /\ SingleData(a).names[1].of = a
         /\ WellFormed(SingleData(a), 1)
         /\ NameSize[a] \in Nat
  <1> DEFINE s == SingleData(a)
  <1>1. PICK rounded \in Nat : rounded = RoundedInstanceSize
    BY RoundedTyped
  <1>2. NameSize[a] \in Nat /\ DataBlockOffset \in Nat
    BY WmiAssumption
  <1> DEFINE block == [at |-> DataBlockOffset, of |-> a]
             name == [at |-> DataBlockOffset + rounded + 4,
                      offset |-> DataBlockOffset + rounded + 4, of |-> a]
  <1>3. /\ s.size = DataBlockOffset + rounded + 4 + NameSize[a]
        /\ s.namesAt = DataBlockOffset + rounded
        /\ s.blocks = <<block>> /\ s.names = <<name>> /\ s.needed = 0
    BY <1>1, <1>2 DEF SingleData, UlongSize
  <1>4. block \in WmiBlock /\ name \in WmiName
    BY <1>2 DEF WmiBlock, WmiName
  <1>5. s = [size |-> s.size, namesAt |-> s.namesAt, blocks |-> s.blocks, names |-> s.names,
             needed |-> s.needed]
    BY DEF SingleData
  <1> HIDE DEF s, block, name
  <1>6. /\ <<block>> \in Seq(WmiBlock) /\ <<name>> \in Seq(WmiName)
        /\ Len(<<block>>) = 1 /\ Len(<<name>>) = 1 /\ <<block>>[1] = block /\ <<name>>[1] = name
    BY <1>4
  <1>7. s \in AllData
    <2>1. s.size \in Int /\ s.namesAt \in Int /\ s.needed \in Int
      BY <1>2, <1>3
    <2> QED BY <1>3, <1>5, <1>6, <2>1 DEF AllData
  <1>8. WellFormed(s, 1)
    <2>1. /\ block.at = DataBlockOffset /\ block.of = a
          /\ name.at = DataBlockOffset + rounded + 4 /\ name.offset = name.at /\ name.of = a
      BY DEF block, name
    <2> QED BY <1>1, <1>2, <1>3, <1>6, <2>1 DEF WellFormed, UlongSize
  <1> QED BY <1>1, <1>2, <1>3, <1>6, <1>7, <1>8 DEF s, block, name

\* Merging keeps the layout: everything moves by one block and one offset, and the
\* new instance is the last one.
LEMMA MergedWellFormed ==
  ASSUME NEW all \in AllData, NEW count \in Nat \ {0}, WellFormed(all, count),
         NEW a \in NetAdapters, NEW m, m = Merged(all, SingleData(a), count)
  PROVE  /\ m \in AllData /\ m.needed = 0 /\ WellFormed(m, count + 1)
         /\ m.size = all.size + RoundedInstanceSize + 4 + NameSize[a]
         /\ \A i \in 1 .. count : m.names[i].of = all.names[i].of
         /\ m.names[count + 1].of = a
  <1>1. PICK rounded \in Nat : rounded = RoundedInstanceSize
    BY RoundedTyped
  <1>2. /\ NameSize[a] \in Nat /\ DataBlockOffset \in Nat
        /\ SingleData(a).size - SingleData(a).namesAt = 4 + NameSize[a]
        /\ SingleData(a).blocks[1].of = a /\ SingleData(a).names[1].of = a
    BY SingleTyped, WmiAssumption
  <1>3. PICK before \in Nat : /\ before = RoundedInstanceSize * count
                              /\ before + rounded = RoundedInstanceSize * (count + 1)
    BY <1>1, BlockAfterBlock
  <1>4. /\ all.size \in Int /\ all.namesAt \in Int
        /\ all.blocks \in Seq(WmiBlock) /\ all.names \in Seq(WmiName)
    BY DEF AllData
  <1>5. /\ Len(all.blocks) = count /\ Len(all.names) = count
        /\ all.namesAt = DataBlockOffset + before
        /\ all.names[1].at = all.namesAt + 4 * count
    BY <1>3 DEF WellFormed, UlongSize
  <1> DEFINE block == [at |-> DataBlockOffset + before, of |-> a]
             tail == all.size + rounded + 4
             new == [at |-> tail, offset |-> tail, of |-> a]
             namesAt == DataBlockOffset + (before + rounded)
             moved(name) ==
               [at |-> namesAt + 4 * (count + 1) + (name.at - all.namesAt - 4 * count),
                offset |-> name.offset + rounded + 4, of |-> name.of]
             names == [i \in 1 .. count |-> moved(all.names[i])]
  <1>6. \A i \in 1 .. count : all.names[i] \in WmiName /\ all.blocks[i] \in WmiBlock
    BY <1>4, <1>5, ElementOfSeq
  <1>7. /\ m.size = all.size + rounded + (4 + NameSize[a])
        /\ m.namesAt = DataBlockOffset + (before + rounded)
        /\ m.blocks = Append(all.blocks, block)
        /\ m.needed = 0
    BY <1>1, <1>2, <1>3 DEF Merged
  <1>18. m = [size |-> m.size, namesAt |-> m.namesAt, blocks |-> m.blocks,
              names |-> m.names, needed |-> m.needed]
    BY DEF Merged
  <1>8. m.names = Append(names, new)
    <2>2. DOMAIN all.names = 1 .. count
      BY <1>4, <1>5, LenProperties
    <2>3. namesAt + 4 + (all.size - all.namesAt) = tail
      BY <1>2, <1>4, <1>5, SMTT(30)
    <2>4. m.names = Append([i \in DOMAIN all.names |-> moved(all.names[i])],
                           [at |-> namesAt + 4 + (all.size - all.namesAt),
                            offset |-> namesAt + 4 + (all.size - all.namesAt), of |-> a])
      BY <1>1, <1>2, <1>3, ZenonT(40) DEF Merged, UlongSize
    <2> QED BY <2>2, <2>3, <2>4
  <1>9. ASSUME NEW i \in 1 .. count
        PROVE  /\ names[i] \in WmiName
               /\ names[i].at = all.names[i].at + rounded + 4
               /\ names[i].offset = all.names[i].offset + rounded + 4
               /\ names[i].of = all.names[i].of
    <2>1. PICK name \in WmiName : name = all.names[i]
      BY <1>6
    <2>2. PICK at \in Int, offset \in Int : at = name.at /\ offset = name.offset
      BY DEF WmiName
    <2>3. namesAt + 4 * (count + 1) + (name.at - all.namesAt - 4 * count) = at + rounded + 4
      <3>1. PICK base \in Nat : base = DataBlockOffset
        BY <1>2
      <3>2. (base + (before + rounded)) + 4 * (count + 1) + (at - (base + before) - 4 * count)
              = at + rounded + 4
        OBVIOUS
      <3> QED BY <3>1, <3>2, <1>5, <2>2
    <2>4. names[i] = [at |-> at + rounded + 4, offset |-> name.offset + rounded + 4,
                      of |-> name.of]
      BY <2>1, <2>3
    <2>6. /\ names[i] \in WmiName /\ names[i].at = at + rounded + 4
          /\ names[i].offset = name.offset + rounded + 4 /\ names[i].of = name.of
      <3>1. at + rounded + 4 \in Int /\ offset + rounded + 4 \in Int
        OBVIOUS
      <3> HIDE DEF names
      <3> QED BY <2>2, <2>4, <3>1 DEF WmiName
    <2> QED BY <2>1, <2>2, <2>6
  <1>10. /\ names \in Seq(WmiName) /\ Len(names) = count /\ new \in WmiName
         /\ block \in WmiBlock
         /\ new.at = tail /\ new.offset = tail /\ new.of = a
         /\ block.at = DataBlockOffset + before /\ block.of = a
    <2>1. names \in [1 .. count -> WmiName]
      BY <1>9
    <2>2. new \in WmiName /\ block \in WmiBlock
      BY <1>1, <1>2, <1>4 DEF WmiName, WmiBlock
    <2>3. names \in Seq(WmiName) /\ Len(names) = count
      <3> HIDE DEF names
      <3> QED BY <1>4, <2>1
    <2>4. /\ new.at = tail /\ new.offset = tail /\ new.of = a
          /\ block.at = DataBlockOffset + before /\ block.of = a
      <3> HIDE DEF names, tail
      <3> QED OBVIOUS
    <2> QED BY <2>2, <2>3, <2>4
  <1> HIDE DEF names, new, block
  <1>11. /\ m.blocks \in Seq(WmiBlock) /\ Len(m.blocks) = count + 1
         /\ \A i \in 1 .. count : m.blocks[i] = all.blocks[i]
         /\ m.blocks[count + 1] = block
    <2>1. m.blocks = Append(all.blocks, block)
      BY <1>7
    <2> QED BY <1>4, <1>5, <1>10, <2>1, AppendProperties, SMTT(30)
  <1>12. /\ m.names \in Seq(WmiName) /\ Len(m.names) = count + 1
         /\ \A i \in 1 .. count : m.names[i] = names[i]
         /\ m.names[count + 1] = new
    BY <1>8, <1>10, AppendProperties
  <1>19. PICK whole \in Int, size \in Nat : whole = all.size /\ size = NameSize[a]
    BY <1>2, <1>4
  <1>20. m.size = tail + size /\ m.size \in Int /\ tail \in Int
    <2>1. m.size = whole + rounded + (4 + size)
      BY <1>7, <1>19
    <2>2. tail = whole + rounded + 4
      BY <1>19
    <2> QED BY <2>1, <2>2
  <1> HIDE DEF tail
  <1>13. m \in AllData
    <2>1. m.size \in Int /\ m.namesAt \in Int /\ m.needed \in Int
      BY <1>2, <1>7, <1>20
    <2> QED BY <1>18, <1>11, <1>12, <2>1 DEF AllData
  <1>14. ASSUME NEW i \in 1 .. count + 1
         PROVE  /\ m.blocks[i].at = DataBlockOffset + RoundedInstanceSize * (i - 1)
                /\ m.blocks[i].of = m.names[i].of
                /\ m.names[i].offset = m.names[i].at
                /\ m.names[i].at + NameSize[m.names[i].of] =
                     IF i = count + 1 THEN m.size ELSE m.names[i + 1].at
    <2>1. CASE i = count + 1
      <3>1. /\ m.blocks[i] = block /\ m.names[i] = new /\ i - 1 = count
            /\ DataBlockOffset + before = DataBlockOffset + RoundedInstanceSize * (i - 1)
        BY <1>3, <1>11, <1>12, <2>1
      <3> QED BY <1>9, <1>10, <1>19, <1>20, <2>1, <3>1
    <2>2. CASE i # count + 1
      <3>1. i \in 1 .. count
        BY <2>2
      <3>2. /\ all.blocks[i].at = DataBlockOffset + RoundedInstanceSize * (i - 1)
            /\ all.blocks[i].of = all.names[i].of
            /\ all.names[i].offset = all.names[i].at
            /\ all.names[i].at + NameSize[all.names[i].of] =
                 IF i = count THEN all.size ELSE all.names[i + 1].at
        BY <3>1 DEF WellFormed
      <3>3. PICK at \in Int, nameSize \in Nat :
              at = all.names[i].at /\ nameSize = NameSize[all.names[i].of]
        BY <1>6, <3>1, WmiAssumption DEF WmiName
      <3>4. m.names[i].at = at + rounded + 4 /\ NameSize[m.names[i].of] = nameSize
        BY <1>9, <1>10, <1>12, <3>1, <3>3
      <3>7. /\ m.blocks[i] = all.blocks[i] /\ m.names[i] = names[i]
            /\ m.names[i].offset = m.names[i].at
            /\ m.names[i].of = all.names[i].of
        <4>1. m.blocks[i] = all.blocks[i] /\ m.names[i] = names[i]
          BY <1>11, <1>12, <3>1
        <4> QED BY <1>9, <3>1, <3>2, <3>3, <4>1
      <3>5. CASE i = count
        <4>1. at + nameSize = whole /\ m.names[i + 1].at = tail /\ tail = whole + rounded + 4
          BY <1>9, <1>10, <1>12, <1>19, <3>2, <3>3, <3>5 DEF tail
        <4>2. at + rounded + 4 + nameSize = tail
          BY <4>1
        <4>3. m.names[i].at + NameSize[m.names[i].of] = m.names[i + 1].at
          BY <3>4, <4>1, <4>2
        <4> QED BY <2>2, <3>2, <3>7, <4>3
      <3>6. CASE i # count
        <4>1. i + 1 \in 1 .. count
          BY <3>1, <3>6
        <4>2. /\ at + nameSize = all.names[i + 1].at
              /\ m.names[i + 1].at = all.names[i + 1].at + rounded + 4
          BY <1>9, <1>10, <1>12, <3>2, <3>3, <3>6, <4>1
        <4>3. m.names[i].at + NameSize[m.names[i].of] = m.names[i + 1].at
          BY <1>1, <3>3, <3>4, <4>2
        <4> QED BY <2>2, <3>2, <3>7, <4>3
      <3> QED BY <3>5, <3>6
    <2> QED BY <2>1, <2>2
  <1>15. m.names[1].at = m.namesAt + 4 * (count + 1)
    <2>1. 1 \in 1 .. count
      OBVIOUS
    <2>2. m.names[1].at = all.names[1].at + rounded + 4
      BY <1>9, <1>12, <2>1
    <2> QED BY <1>1, <1>2, <1>3, <1>5, <1>7, <2>2
  <1>16. WellFormed(m, count + 1)
    BY <1>3, <1>7, <1>11, <1>12, <1>14, <1>15 DEF WellFormed, UlongSize
  <1>17. m.size = all.size + RoundedInstanceSize + 4 + NameSize[a]
    BY <1>1, <1>19, <1>20 DEF tail
  <1> QED BY <1>7, <1>9, <1>10, <1>12, <1>13, <1>16, <1>17

LEMMA ProductMonotonic ==
  ASSUME NEW n \in Nat \ {0}, NEW x \in Int, NEW y \in Int, n * x <= n * y
  PROVE  x <= y
  <1> SUFFICES ASSUME y < x PROVE FALSE
    OBVIOUS
  <1>1. PICK d \in Nat \ {0} : x = y + d
    <2>1. x - y \in Nat \ {0} /\ x = y + (x - y)
      OBVIOUS
    <2> QED BY <2>1
  <1>2. n * x = n * y + n * d /\ n * d > 0
    BY <1>1
  <1> QED BY <1>2

LEMMA ProductGrows ==
  ASSUME NEW n \in Nat, NEW count \in Nat, NEW room \in Nat, count <= n
  PROVE  count * room <= n * room
  <1>1. PICK more \in Nat : n = count + more
    <2>1. n - count \in Nat /\ n = count + (n - count)
      OBVIOUS
    <2> QED BY <2>1
  <1>2. n * room = count * room + more * room /\ more * room \in Nat /\ count * room \in Nat
    BY <1>1
  <1> QED BY <1>2

\* If each of n adapters finds room in the buffer when all need as much as it does,
\* one more of them leaves that much room to the others.
LEMMA RoomLeft ==
  ASSUME NEW n \in Nat \ {0}, NEW count \in Nat, NEW used \in Int, NEW width \in Nat,
         NEW room \in Nat, n * used <= count * room, width + width * (n - 1) <= room
  PROVE  n * (used + width) <= (count + 1) * room
  <1>1. n * (used + width) = n * used + n * width
    OBVIOUS
  <1>2. (count + 1) * room = count * room + room
    OBVIOUS
  <1>3. n * width = width + width * (n - 1)
    OBVIOUS
  <1>4. n * used \in Int /\ n * width \in Int /\ count * room \in Int
    OBVIOUS
  <1> QED BY <1>1, <1>2, <1>3, <1>4

\* A query that has asked so many adapters goes on with the next one.
LEMMA MergeStep ==
  ASSUME collection \in Seq(NetAdapters), NEW query \in Walk, Walked(query),
         query.all.needed = 0, query.left # <<>>,
         query.bufferSize >= SingleData(Head(query.left)).size,
         NEW next,
         next = [query EXCEPT !.left = Tail(@), !.count = @ + 1,
                   !.all = WmiWnodeAllDataMerge(@, SingleData(Head(query.left)),
                             query.bufferSize, query.count, Len(collection))]
  PROVE  next \in Walk /\ next.step = query.step /\ Walked(next)
  <1> DEFINE n == Len(collection)
             count == query.count
             single == SingleData(Head(query.left))
             required == SizeRequired(single, n)
             merged == WmiWnodeAllDataMerge(query.all, single, query.bufferSize, count, n)
  <1>1. /\ count \in Nat /\ n \in Nat /\ query.left \in Seq(NetAdapters)
        /\ query.all \in AllData /\ query.bufferSize \in Nat
    BY BufferAssumption DEF Walk
  <1>2. ~ query.all.needed > query.bufferSize
    BY <1>1
  <1>3. /\ Len(query.left) = n - count
        /\ \A i \in 1 .. Len(query.left) : query.left[i] = collection[count + i]
    BY <1>2 DEF Walked
  <1>4. /\ Len(query.left) \in Nat \ {0}
        /\ Head(query.left) = query.left[1] /\ Head(query.left) \in NetAdapters
        /\ Tail(query.left) \in Seq(NetAdapters)
        /\ Len(Tail(query.left)) = Len(query.left) - 1
        /\ \A i \in 1 .. Len(query.left) - 1 : Tail(query.left)[i] = query.left[i + 1]
    BY <1>1, HeadTailProperties, LenProperties, EmptySeq
  <1> HIDE DEF n, count
  <1>5. PICK a \in NetAdapters : /\ a = Head(query.left) /\ a = collection[count + 1]
                                 /\ single = SingleData(a)
    <2>1. 1 \in 1 .. Len(query.left)
      BY <1>4
    <2> QED BY <1>3, <1>4, <2>1
  <1>6. n \in Nat \ {0} /\ count + 1 <= n
    BY <1>1, <1>3, <1>4
  <1>7. PICK width \in Nat : /\ width = RoundedInstanceSize + 4 + NameSize[a]
                             /\ single.size = DataBlockOffset + width
                             /\ RoundedInstanceSize + (single.size - single.namesAt) = width
    <2>1. /\ RoundedInstanceSize \in Nat /\ NameSize[a] \in Nat /\ DataBlockOffset \in Nat
          /\ single.size = DataBlockOffset + RoundedInstanceSize + 4 + NameSize[a]
          /\ single.size - single.namesAt = 4 + NameSize[a]
      BY <1>5, SingleTyped, RoundedTyped, WmiAssumption, ZenonT(40)
    <2> HIDE DEF single
    <2>2. PICK rounded \in Nat, nameSize \in Nat :
            rounded = RoundedInstanceSize /\ nameSize = NameSize[a]
      BY <2>1
    <2>3. PICK names : names = single.size - single.namesAt /\ names = 4 + nameSize
      BY <2>1, <2>2
    <2>4. rounded + names = rounded + 4 + nameSize
      BY <2>2, <2>3
    <2>5. single.size = DataBlockOffset + rounded + 4 + nameSize
      BY <2>1, <2>2
    <2>6. single.size = DataBlockOffset + (rounded + 4 + nameSize)
      BY <2>1, <2>5
    <2> QED BY <2>2, <2>3, <2>4, <2>6
  <1>8. required = DataBlockOffset + width + width * (n - 1)
    BY <1>7 DEF SizeRequired
  <1>9. width * (n - 1) \in Nat /\ required \in Nat /\ DataBlockOffset \in Nat
    <2>1. PICK k \in Nat : k = n - 1
      BY <1>6
    <2>2. width * k \in Nat
      OBVIOUS
    <2>3. PICK product \in Nat : product = width * (n - 1)
      BY <2>1, <2>2
    <2> QED BY <1>8, <2>3, WmiAssumption
  <1>10. single \in AllData /\ single.needed = 0 /\ WellFormed(single, 1)
         /\ single.names[1].of = a
    BY <1>5, SingleTyped
  <1> HIDE DEF single, required, merged
  <1>11. merged = IF query.bufferSize < required THEN TooSmall(required)
                  ELSE IF count = 0 THEN single ELSE Merged(query.all, single, count)
    BY DEF merged, required, WmiWnodeAllDataMerge
  <1>12. /\ merged \in AllData
         /\ \/ merged.needed > query.bufferSize
            \/ /\ merged.needed = 0 /\ WellFormed(merged, count + 1)
               /\ \A i \in 1 .. count + 1 : merged.names[i].of = collection[i]
               /\ n * (merged.size - DataBlockOffset)
                    <= (count + 1) * (query.bufferSize - DataBlockOffset)
               /\ query.bufferSize >= DataBlockOffset
    <2>1. CASE query.bufferSize < required
      BY <1>1, <1>9, <1>11, <2>1, NoDataTyped
    <2>2. CASE query.bufferSize >= required
      <3>1. PICK room \in Nat : room = query.bufferSize - DataBlockOffset
        BY <1>1, <1>8, <1>9, <2>2, SMTT(30)
      <3>2. width + width * (n - 1) <= room
        BY <1>1, <1>8, <1>9, <2>2, <3>1, SMTT(30)
      <3>3. query.bufferSize >= DataBlockOffset
        BY <1>1, <1>9, <3>1
      <3>4. CASE count = 0
        <4>1. merged = single
          BY <1>1, <1>9, <1>11, <2>2, <3>4
        <4>2. n * 0 <= 0 * room
          BY <1>6
        <4>3. n * (0 + width) <= (0 + 1) * room
          BY <1>6, <3>2, <4>2, RoomLeft
        <4>4. merged.size - DataBlockOffset = width
          BY <1>7, <1>9, <4>1
        <4>5. n * (merged.size - DataBlockOffset) <= (count + 1) * room
          BY <3>4, <4>3, <4>4
        <4>6. \A i \in 1 .. count + 1 : merged.names[i].of = collection[i]
          BY <1>5, <1>10, <3>4, <4>1
        <4> QED BY <1>10, <3>1, <3>3, <3>4, <4>1, <4>5, <4>6
      <3>5. CASE count # 0
        <4>1. merged = Merged(query.all, single, count)
          BY <1>1, <1>9, <1>11, <2>2, <3>5
        <4>2. /\ WellFormed(query.all, count)
              /\ \A i \in 1 .. count : query.all.names[i].of = collection[i]
              /\ n * (query.all.size - DataBlockOffset) <= count * room
          BY <1>1, <1>2, <3>1, <3>5 DEF Walked, n, count
        <4>3. /\ merged \in AllData /\ merged.needed = 0 /\ WellFormed(merged, count + 1)
              /\ merged.size = query.all.size + RoundedInstanceSize + 4 + NameSize[a]
              /\ \A i \in 1 .. count : merged.names[i].of = query.all.names[i].of
              /\ merged.names[count + 1].of = a
          <5>1. PICK all \in AllData, visited \in Nat \ {0} : all = query.all /\ visited = count
            BY <1>1, <3>5
          <5>2. merged = Merged(all, SingleData(a), visited) /\ WellFormed(all, visited)
            BY <1>5, <4>1, <4>2, <5>1
          <5> QED BY <5>1, <5>2, MergedWellFormed
        <4>4. PICK used \in Int : used = query.all.size - DataBlockOffset
          <5>1. query.all.size \in Int
            BY <1>1 DEF AllData
          <5> QED BY <1>9, <5>1
        <4>5. merged.size - DataBlockOffset = used + width
          <5>1. PICK rounded \in Nat, nameSize \in Nat, size \in Int :
                  /\ rounded = RoundedInstanceSize /\ nameSize = NameSize[a]
                  /\ size = query.all.size
            BY <1>1, RoundedTyped, WmiAssumption DEF AllData
          <5>2. merged.size = size + rounded + 4 + nameSize
            BY <4>3, <5>1
          <5>3. width = rounded + 4 + nameSize /\ used = size - DataBlockOffset
            BY <1>7, <4>4, <5>1
          <5>4. DataBlockOffset \in Nat
            BY WmiAssumption
          <5> QED BY <5>2, <5>3, <5>4, SMTT(30)
        <4>6. n * (merged.size - DataBlockOffset) <= (count + 1) * room
          <5>1. n * (used + width) <= (count + 1) * room
            BY <1>1, <1>6, <3>2, <4>2, <4>4, RoomLeft
          <5> QED BY <4>5, <5>1
        <4>7. \A i \in 1 .. count + 1 : merged.names[i].of = collection[i]
          <5>1. ASSUME NEW i \in 1 .. count + 1 PROVE i \in 1 .. count \/ i = count + 1
            BY <1>1
          <5> QED BY <1>5, <4>2, <4>3, <5>1
        <4> QED BY <3>1, <3>3, <4>3, <4>6, <4>7
      <3> QED BY <3>4, <3>5
    <2> QED BY <1>1, <1>9, <2>1, <2>2
  <1>13. /\ next \in Walk /\ next.step = query.step /\ next.left = Tail(query.left)
         /\ next.count = count + 1 /\ next.all = merged
         /\ next.bufferSize = query.bufferSize
    <2>1. next = [query EXCEPT !.left = Tail(query.left), !.count = count + 1, !.all = merged]
      BY DEF Walk, merged, single, n, count
    <2>2. count + 1 \in Nat
      BY <1>1
    <2> QED BY <1>4, <1>12, <2>1, <2>2, ZenonT(40) DEF Walk
  <1>14. /\ Len(next.left) = n - (count + 1)
         /\ \A i \in 1 .. Len(next.left) : next.left[i] = collection[count + 1 + i]
    <2>1. Len(next.left) = n - (count + 1)
      BY <1>1, <1>3, <1>4, <1>13
    <2>2. ASSUME NEW i \in 1 .. Len(next.left)
          PROVE  next.left[i] = collection[count + 1 + i]
      <3>1. /\ i \in 1 .. Len(query.left) - 1 /\ i + 1 \in 1 .. Len(query.left)
            /\ count + (i + 1) = count + 1 + i
        <4>1. Len(next.left) = Len(query.left) - 1
          BY <1>4, <1>13
        <4>2. PICK length \in Nat : length = Len(query.left)
          BY <1>4
        <4>3. i \in 1 .. length - 1
          BY <4>1, <4>2
        <4>4. i \in Nat /\ i + 1 \in 1 .. length /\ count + (i + 1) = count + 1 + i
          BY <1>1, <4>2, <4>3, SMTT(30)
        <4> QED BY <4>2, <4>3, <4>4
      <3> QED BY <1>3, <1>4, <1>13, <3>1
    <2> QED BY <2>1, <2>2
  <1> QED BY <1>1, <1>12, <1>13, <1>14, SMTT(30) DEF Walked, n

-----------------------------------------------------------------------------
(* The steps of a query, and of everything else while there are queries.    *)

LEMMA WalkStep ==
  ASSUME IrpInv, WalkInv, NEW t \in IrpThreads, NEW to \in IrpSteps, Goes(t, to),
         irp[t].step \in {"rest", "query", "failed"}, to.step \in {"rest", "query", "failed"},
         listReaders' = IF to.step = "rest" THEN listReaders \ {t} ELSE listReaders \cup {t},
         to.step = "query" => Range(to.left) \subseteq Range(collection) /\ Walked(to),
         UNCHANGED <<collection, miniport, references>>, UNCHANGED handles
  PROVE  IrpInv' /\ WalkInv'
  <1> USE DEF IrpInv
  <1>1. /\ irp' \in [IrpThreads -> IrpSteps] /\ irp'[t] = to
        /\ \A u \in IrpThreads \ {t} : irp'[u] = irp[u]
    BY OneGoes DEF IrpTypeOK, IrpSteps
  <1>2. Referenced'
    <2>1. There' = There
      BY DEF There
    <2>2. ReferencesOf(t) = {}
      BY DEF Referenced
    <2>3. \A u \in IrpThreads : ReferencesOf(u)' = ReferencesOf(u)
      BY DEF ReferencesOf
    <2> QED BY <1>1, <2>1, <2>2, <2>3 DEF Referenced
  <1>3. Locked'
    BY <1>1 DEF Locked
  <1>4. WalkInv'
    <2>1. ASSUME NEW u \in IrpThreads, irp'[u].step = "query" PROVE Walked(irp[u])'
      <3>1. Walked(irp'[u])
        BY <1>1, <2>1 DEF WalkInv
      <3> QED BY <3>1 DEF Walked
    <2> QED BY <2>1 DEF WalkInv
  <1> QED BY <1>1, <1>2, <1>3, <1>4, SameServed DEF IrpTypeOK, IrpSteps

LEMMA QueryStarts ==
  ASSUME IrpInv, WalkInv, NEW t \in IrpThreads, NEW magicPacket \in BOOLEAN,
         NEW bufferSize \in BufferSizes, WmiQueryAllData(t, magicPacket, bufferSize)
  PROVE  IrpInv' /\ WalkInv'
  <1>1. PICK to : to = Query(magicPacket, bufferSize)
    OBVIOUS
  <1>2. collection \in Seq(NetAdapters)
    BY DEF IrpInv, IrpTypeOK
  <1>3. /\ to \in Walk /\ to.step = "query" /\ to.left = collection /\ to.count = 0
        /\ to.all = NoData
    BY <1>1, <1>2, NoDataTyped DEF Query, Walk
  <1>4. Walked(to)
    <2>1. Len(collection) \in Nat /\ NoData.needed = 0
      BY <1>2, NoDataTyped
    <2>2. Len(to.left) = Len(collection) - to.count
      BY <1>3, <2>1
    <2>3. \A i \in 1 .. Len(to.left) : to.left[i] = collection[to.count + i]
      BY <1>3, <2>1
    <2> QED BY <1>3, <2>1, <2>2, <2>3 DEF Walked
  <1>5. /\ Goes(t, to) /\ irp[t].step = "rest" /\ listReaders' = listReaders \cup {t}
        /\ UNCHANGED <<collection, miniport, references>> /\ UNCHANGED handles
    BY <1>1 DEF WmiQueryAllData, adapterLife, Rest
  <1>6. to \in IrpSteps
    BY <1>3 DEF IrpSteps
  <1> QED BY <1>3, <1>4, <1>5, <1>6, WalkStep

LEMMA QueryGoesOn ==
  ASSUME IrpInv, WalkInv, NEW t \in IrpThreads, QueryAdapter(t)
  PROVE  IrpInv' /\ WalkInv'
  <1>1. PICK query : query = irp[t]
    OBVIOUS
  <1>2. /\ query \in Walk /\ query.step = "query" /\ query.left # <<>>
        /\ query.all.needed = 0 /\ Walked(query)
        /\ Range(query.left) \subseteq Range(collection) /\ t \in listReaders
        /\ collection \in Seq(NetAdapters)
    BY <1>1, IrpKinds DEF QueryAdapter, IrpInv, IrpTypeOK, IrpSteps, Locked, WalkInv
  <1>3. PICK stop : stop = [query EXCEPT !.left = <<>>]
    OBVIOUS
  <1>4. /\ stop \in Walk /\ stop.left = <<>> /\ stop.step = "query"
        /\ stop.bufferSize = query.bufferSize
    <2>1. <<>> \in Seq(NetAdapters)
      OBVIOUS
    <2> QED BY <1>2, <1>3, <2>1 DEF Walk
  <1>5. PICK a \in NetAdapters : a = Head(query.left)
    BY <1>2, HeadTailProperties DEF Walk
  <1>6. PICK to : /\ Goes(t, to)
                  /\ \/ to = [stop EXCEPT !.step = "failed"]
                     \/ /\ query.bufferSize < SingleData(a).size
                        /\ to = [stop EXCEPT !.all = TooSmall(SingleData(a).size)]
                     \/ /\ query.bufferSize >= SingleData(a).size
                        /\ to = [query EXCEPT !.left = Tail(@), !.count = @ + 1,
                                   !.all = WmiWnodeAllDataMerge(@, SingleData(a),
                                             query.bufferSize, query.count, Len(collection))]
    <2>1. [[query EXCEPT !.left = Tail(@), !.count = @ + 1] EXCEPT
             !.all = WmiWnodeAllDataMerge(@, SingleData(a), query.bufferSize, query.count,
                                          Len(collection))] =
          [query EXCEPT !.left = Tail(@), !.count = @ + 1,
             !.all = WmiWnodeAllDataMerge(@, SingleData(a), query.bufferSize, query.count,
                                          Len(collection))]
      BY <1>2 DEF Walk
    <2> QED BY <1>1, <1>3, <1>5, <2>1 DEF QueryAdapter
  <1>7. /\ to \in Walk
        /\ to.step = "query" => Range(to.left) \subseteq Range(collection) /\ Walked(to)
    <2>1. CASE to = [stop EXCEPT !.step = "failed"]
      BY <1>4, <2>1 DEF Walk
    <2>2. CASE /\ query.bufferSize < SingleData(a).size
               /\ to = [stop EXCEPT !.all = TooSmall(SingleData(a).size)]
      <3>1. /\ TooSmall(SingleData(a).size) \in AllData
            /\ TooSmall(SingleData(a).size).needed = SingleData(a).size
        <4>1. SingleData(a).size \in Int
          BY SingleTyped DEF AllData
        <4> QED BY <4>1, NoDataTyped
      <3>2. /\ to \in Walk /\ to.left = <<>> /\ to.bufferSize = query.bufferSize
            /\ to.all.needed = SingleData(a).size
        BY <1>4, <2>2, <3>1 DEF Walk
      <3>3. Walked(to)
        <4>1. query.bufferSize \in Nat /\ SingleData(a).size \in Int
          BY <1>2, BufferAssumption, SingleTyped DEF Walk, AllData
        <4>2. to.all.needed > to.bufferSize
          BY <2>2, <3>2, <4>1
        <4> QED BY <4>2 DEF Walked
      <3>4. Range(to.left) = {}
        BY <3>2 DEF Range
      <3> QED BY <3>2, <3>3, <3>4
    <2>3. CASE /\ query.bufferSize >= SingleData(a).size
               /\ to = [query EXCEPT !.left = Tail(@), !.count = @ + 1,
                          !.all = WmiWnodeAllDataMerge(@, SingleData(a),
                                    query.bufferSize, query.count, Len(collection))]
      <3>1. to \in Walk /\ Walked(to)
        BY <1>2, <1>5, <2>3, MergeStep
      <3>2. to.left = Tail(query.left)
        BY <1>2, <2>3 DEF Walk
      <3>3. Range(to.left) \subseteq Range(query.left)
        BY <1>2, <3>2, TailRange DEF Walk
      <3> QED BY <1>2, <3>1, <3>3
    <2> QED BY <1>6, <2>1, <2>2, <2>3
  <1>8. /\ to \in IrpSteps /\ to.step \in {"query", "failed"}
        /\ listReaders' = listReaders \cup {t}
        /\ UNCHANGED <<collection, miniport, references>> /\ UNCHANGED handles
    BY <1>2, <1>7 DEF QueryAdapter, adapterLife, IrpSteps, Walk
  <1> QED BY <1>1, <1>2, <1>6, <1>7, <1>8, WalkStep

LEMMA QueryEnded ==
  ASSUME IrpInv, WalkInv, NEW t \in IrpThreads, QueryEnds(t)
  PROVE  IrpInv' /\ WalkInv'
  <1>1. Rest \in IrpSteps /\ Rest.step = "rest"
    BY DEF IrpSteps, Rest
  <1>2. /\ Goes(t, Rest) /\ irp[t].step \in {"query", "failed"}
        /\ listReaders' = listReaders \ {t}
        /\ UNCHANGED <<collection, miniport, references>> /\ UNCHANGED handles
    BY DEF QueryEnds, adapterLife
  <1> QED BY <1>1, <1>2, WalkStep

\* Nothing else changes what a query has or walks along.
LEMMA OtherWalks ==
  ASSUME IrpInv, WalkInv,
         UNCHANGED collection \/ listReaders = {},
         \A u \in IrpThreads : irp'[u] = irp[u] \/ irp'[u].step # "query"
  PROVE  WalkInv'
  <1> SUFFICES ASSUME NEW u \in IrpThreads, irp'[u].step = "query"
               PROVE  Walked(irp[u])'
    BY DEF WalkInv
  <1>1. irp'[u] = irp[u] /\ Walked(irp[u]) /\ u \in listReaders
    BY DEF WalkInv, IrpInv, Locked
  <1>2. Walked(irp'[u]) /\ UNCHANGED collection
    BY <1>1
  <1> QED BY <1>2 DEF Walked

LEMMA IrpInvStep ==
  ASSUME IrpInv, WalkInv, [IrpNext]_irpVars
  PROVE  IrpInv' /\ WalkInv'
  <1> DEFINE sameWalks == /\ UNCHANGED collection \/ listReaders = {}
                          /\ \A u \in IrpThreads : irp'[u] = irp[u] \/ irp'[u].step # "query"
  <1>1. CASE UNCHANGED irpVars
    <2>1. IrpInv'
      BY <1>1 DEF irpVars, IrpInv, IrpTypeOK, Referenced, Locked, Served, There, ReferencesOf,
        ServerOf
    <2> QED BY <1>1, <2>1, OtherWalks DEF irpVars
  <1>2. ASSUME NEW a \in NetAdapters,
               \/ CreateMiniport(a) \/ ProcessNewAdapter(a) \/ SurpriseRemoved(a)
               \/ AdapterDeleted(a) \/ PnpRemove(a)
        PROVE  IrpInv' /\ WalkInv'
    <2>1. sameWalks
      BY <1>2 DEF CreateMiniport, ProcessNewAdapter, SurpriseRemoved, AdapterDeleted, PnpRemove,
        LeavesCollection
    <2> QED BY <1>2, <2>1, AdapterStep, OtherWalks
  <1>3. ASSUME NEW t \in IrpThreads, NEW f \in Files, NEW name \in NetAdapters,
               FindAndReferenceAdapterByBaseName(t, f, name) \/ CreateForClient(t, f, name)
        PROVE  IrpInv' /\ WalkInv'
    <2>1. sameWalks
      BY <1>3 DEF FindAndReferenceAdapterByBaseName, CreateForClient, Goes, Create,
        adapterLife, IrpInv, IrpTypeOK
    <2> QED BY <1>3, <2>1, CreateStep, OtherWalks
  <1>4. ASSUME NEW t \in IrpThreads, WdmCreateIrpPreProcess(t) \/ CallReturns(t)
        PROVE  IrpInv' /\ WalkInv'
    <2>1. sameWalks
      BY <1>4 DEF WdmCreateIrpPreProcess, CallReturns, Goes, Rest, adapterLife, IrpInv, IrpTypeOK
    <2> QED BY <1>4, <2>1, OpenedStep, CallReturnsStep, OtherWalks
  <1>5. ASSUME NEW f \in Files,
               \/ \E major \in {"control", "read"} : WdmIoIrpPreProcess(f, major)
               \/ WdmCloseIrpPreProcess(f)
        PROVE  IrpInv' /\ WalkInv'
    <2>1. sameWalks
      BY <1>5 DEF WdmIoIrpPreProcess, WdmCloseIrpPreProcess, adapterLife
    <2> QED BY <1>5, <2>1, FileStep, OtherWalks
  <1>6. ASSUME NEW t \in IrpThreads, NEW S, S \subseteq {t} \X There, References(t, S)
        PROVE  IrpInv' /\ WalkInv'
    <2>1. sameWalks
      BY <1>6 DEF References, Goes, Call, adapterLife, IrpInv, IrpTypeOK
    <2> QED BY <1>6, <2>1, CallStep, OtherWalks
  <1>7. ASSUME NEW t \in IrpThreads, WmiIrpDispatch(t)
        PROVE  IrpInv' /\ WalkInv'
    <2>1. ASSUME NEW name \in NetAdapters, WmiProcessSingleInstanceDefault(t, name)
          PROVE  IrpInv' /\ WalkInv'
      <3>1. References(t, Found(t, name)) /\ Found(t, name) \subseteq {t} \X There
        BY <2>1, FoundIsThere DEF WmiProcessSingleInstanceDefault
      <3> QED BY <1>6, <3>1
    <2>2. ASSUME NEW minor, WmiProcessSingleInstanceMagicPacket(t, minor)
          PROVE  IrpInv' /\ WalkInv'
      <3>1. PICK noted \in SUBSET UNION {TryReference(t, a) : a \in Range(collection)} :
              References(t, noted)
        BY <2>2 DEF WmiProcessSingleInstanceMagicPacket
      <3>2. Range(collection) \subseteq NetAdapters
        BY DEF IrpInv, Referenced, There
      <3>3. noted \subseteq {t} \X There
        BY <3>2, FoundIsThere
      <3> QED BY <1>6, <3>1, <3>3
    <2>3. CASE WmiRegister
      <3>1. IrpInv'
        BY <2>3 DEF WmiRegister, adapterLife, handles, IrpInv, IrpTypeOK, Referenced, Locked,
          Served, There, ReferencesOf, ServerOf
      <3> QED BY <2>3, <3>1, OtherWalks DEF WmiRegister, adapterLife
    <2> QED BY <1>4, <1>7, <2>1, <2>2, <2>3, QueryStarts, QueryGoesOn, QueryEnded
          DEF WmiIrpDispatch
  <1>8. CASE IrpNext
    BY <1>2, <1>3, <1>4, <1>5, <1>7, <1>8 DEF IrpNext, EvtWdmIrpPreprocessRoutine
  <1> QED BY <1>1, <1>8

\* Types, references, the lock, handles, and the walks along the collection.
THEOREM IrpInvariant == IrpSpec => [](IrpInv /\ WalkInv)
  <1>1. IrpInit => IrpInv /\ WalkInv
    <2>1. IrpInit => WalkInv
      BY DEF IrpInit, WalkInv, Rest
    <2> QED BY <2>1, IrpInvInit
  <1>2. IrpInv /\ WalkInv /\ [IrpNext]_irpVars => IrpInv' /\ WalkInv'
    BY IrpInvStep
  <1> QED BY <1>1, <1>2, PTL DEF IrpSpec

LEMMA IrpsReach ==
  ASSUME IrpInv
  PROVE  IrpsReachTheirAdapter
  <1>1. ASSUME NEW t \in IrpThreads
        PROVE  /\ \A a \in Uses(t) : miniport[a] \in {"present", "removing"}
               /\ irp[t].step \in {"create", "call"} <=> ReferencesOf(t) # {}
               /\ irp[t].step \in {"query", "failed"} <=> t \in listReaders
    <2>1. irp[t].step \in {"rest", "call", "create", "query", "failed"}
      BY IrpKinds DEF IrpInv, IrpTypeOK, IrpSteps
    <2>2. irp[t].step \in {"create", "call"} <=> ReferencesOf(t) # {}
      BY <2>1 DEF IrpInv, Referenced
    <2>3. ASSUME NEW a \in Uses(t) PROVE a \in There
      <3>1. CASE \E r \in ReferencesOf(t) : a = r[2]
        BY <3>1 DEF ReferencesOf, IrpInv, Referenced
      <3>2. CASE irp[t].step = "query" /\ a \in Range(irp[t].left)
        BY <3>2 DEF IrpInv, Referenced, Locked
      <3> QED BY <2>3, <3>1, <3>2 DEF Uses
    <2> QED BY <2>2, <2>3 DEF There, IrpInv, Locked
  <1>2. ASSUME NEW f \in Files PROVE Cardinality(servedBy[f]) <= 1
    <2>1. servedBy[f] \in {{}, {"client"}, {"ndis"}}
      BY DEF IrpInv, IrpTypeOK
    <2>2. ASSUME NEW x PROVE Cardinality({x}) = 1
      BY FS_Singleton
    <2>3. Cardinality({}) = 0
      BY FS_EmptySet
    <2> QED BY <2>1, <2>2, <2>3
  <1> QED BY <1>1, <1>2 DEF IrpsReachTheirAdapter

LEMMA WalksAreWhole ==
  ASSUME IrpInv, WalkInv
  PROVE  AllDataIsWhole
  <1> SUFFICES ASSUME NEW t \in IrpThreads, irp[t].step = "query"
               PROVE  LET all == irp[t].all
                      IN  IF all.needed > 0 THEN all.needed > irp[t].bufferSize
                          ELSE irp[t].count > 0 =>
                                 /\ WellFormed(all, irp[t].count)
                                 /\ all.size <= irp[t].bufferSize
                                 /\ \A i \in 1 .. irp[t].count : all.names[i].of = collection[i]
    BY DEF AllDataIsWhole
  <1>1. PICK query \in Walk : query = irp[t] /\ Walked(query)
    BY IrpKinds DEF IrpInv, IrpTypeOK, IrpSteps, WalkInv
  <1>2. /\ query.bufferSize \in Nat /\ query.count \in Nat /\ query.all.needed \in Int
        /\ query.all.size \in Int /\ DataBlockOffset \in Nat /\ Len(collection) \in Nat
        /\ Len(query.left) \in Nat
    <2>1. query.all \in AllData /\ query.left \in Seq(NetAdapters)
      BY DEF Walk
    <2>2. query.bufferSize \in Nat /\ query.count \in Nat /\ DataBlockOffset \in Nat
      BY BufferAssumption, WmiAssumption DEF Walk
    <2>3. query.all.needed \in Int /\ query.all.size \in Int
      BY <2>1 DEF AllData
    <2>4. Len(collection) \in Nat /\ Len(query.left) \in Nat
      BY <2>1 DEF IrpInv, IrpTypeOK
    <2> QED BY <2>2, <2>3, <2>4
  <1>3. CASE query.all.needed > 0
    BY <1>1, <1>2, <1>3 DEF Walked
  <1>4. CASE ~(query.all.needed > 0) /\ query.count > 0
    <2>1. /\ WellFormed(query.all, query.count)
          /\ \A i \in 1 .. query.count : query.all.names[i].of = collection[i]
          /\ Len(collection) * (query.all.size - DataBlockOffset)
               <= query.count * (query.bufferSize - DataBlockOffset)
          /\ query.bufferSize >= DataBlockOffset /\ Len(query.left) = Len(collection) - query.count
      BY <1>1, <1>2, <1>4 DEF Walked
    <2>2. PICK n \in Nat, count \in Nat, used \in Int, room \in Nat :
            /\ n = Len(collection) /\ count = query.count
            /\ used = query.all.size - DataBlockOffset
            /\ room = query.bufferSize - DataBlockOffset
      BY <1>2, <2>1, SMTT(30)
    <2>3. count <= n /\ count > 0
      BY <1>2, <1>4, <2>1, <2>2
    <2>4. n * used <= count * room
      BY <2>1, <2>2
    <2>5. count * room <= n * room
      BY <2>3, ProductGrows
    <2>6. n * used <= n * room
      <3>1. n * used \in Int /\ count * room \in Int /\ n * room \in Int
        OBVIOUS
      <3> QED BY <2>4, <2>5, <3>1
    <2>7. used <= room
      BY <2>3, <2>6, ProductMonotonic
    <2>8. query.all.size <= query.bufferSize
      BY <1>2, <2>2, <2>7
    <2> QED BY <1>1, <1>4, <2>1, <2>8
  <1> QED BY <1>1, <1>2, <1>3, <1>4

\* However many adapters come and go under however many threads: an adapter is not
\* removed while a thread uses it, a thread that is done keeps no reference and no
\* lock, and a handle is served by whom it was opened with.
THEOREM IrpsReachTheirAdapterAlways == IrpSpec => []IrpsReachTheirAdapter
  <1>1. IrpInv => IrpsReachTheirAdapter
    BY IrpsReach
  <1> QED BY <1>1, IrpInvariant, PTL

\* However many adapters a device has, however long their names are and whatever the
\* buffer: what they answer is merged into a whole that fits, with every block at the
\* name of its adapter.
THEOREM AllDataIsWholeAlways == IrpSpec => []AllDataIsWhole
  <1>1. IrpInv /\ WalkInv => AllDataIsWhole
    BY WalksAreWhole
  <1> QED BY <1>1, IrpInvariant, PTL


-----------------------------------------------------------------------------
(***************************************************************************)
(* The groups, the callbacks that get them, and the order of the steps.    *)
(***************************************************************************)
LEMMA CallbackOfGroup ==
  /\ \A g \in Groups, c \in Callbacks : g \in Members(c) <=> CallbackOf[g] = c
  /\ \A g \in Groups : CallbackOf[g] \in Callbacks
  BY DEF CallbackOf, Callbacks, Groups, Members

\* What a thread has still to do.
Waiting(work) == Range(work.steps)

StepsOfRequests ==
  {<<"v1", "gso", "rsc", "ndis">>, <<"tx", "rx", "gso", "rsc", "ndis">>,
   <<"rx", "gso", "rsc", "ndis">>, <<"gso", "rsc", "ndis">>, <<"rsc", "ndis">>,
   <<"ndis">>}
StepsOfPause ==
  {<<"hardware", "current", "tx", "rx", "gso", "rsc">>,
   <<"current", "tx", "rx", "gso", "rsc">>, <<"tx", "rx", "gso", "rsc">>,
   <<"rx", "gso", "rsc">>, <<"gso", "rsc">>, <<"rsc">>}
StepsOfResume ==
  {<<"tx", "rx", "gso", "rsc", "hardware", "current">>,
   <<"rx", "gso", "rsc", "hardware", "current">>,
   <<"gso", "rsc", "hardware", "current">>, <<"rsc", "hardware", "current">>,
   <<"hardware", "current">>, <<"current">>}

LEMMA RequestProgress ==
  ASSUME NEW s \in StepsOfRequests
  PROVE  /\ Len(s) = 1 => s = <<"ndis">>
         /\ Len(s) # 1 => Tail(s) \in StepsOfRequests
         /\ Len(s) # 1 => Range(Tail(s)) = Range(s) \ {Head(s)}
         /\ Len(s) = 1 <=> Head(s) = "ndis"
         /\ Head(s) \in Callbacks \cup {"ndis"}
         /\ Head(s) \in Range(s)
  <1>1. CASE s = <<"v1", "gso", "rsc", "ndis">>
    BY <1>1 DEF Range, StepsOfRequests, Callbacks
  <1>2. CASE s = <<"tx", "rx", "gso", "rsc", "ndis">>
    BY <1>2 DEF Range, StepsOfRequests, Callbacks
  <1>3. CASE s = <<"rx", "gso", "rsc", "ndis">>
    BY <1>3 DEF Range, StepsOfRequests, Callbacks
  <1>4. CASE s = <<"gso", "rsc", "ndis">>
    BY <1>4 DEF Range, StepsOfRequests, Callbacks
  <1>5. CASE s = <<"rsc", "ndis">>
    BY <1>5 DEF Range, StepsOfRequests, Callbacks
  <1>6. CASE s = <<"ndis">>
    BY <1>6 DEF Range, StepsOfRequests, Callbacks
  <1> QED BY <1>1, <1>2, <1>3, <1>4, <1>5, <1>6 DEF StepsOfRequests

LEMMA PauseProgress ==
  ASSUME NEW s \in StepsOfPause
  PROVE  /\ Len(s) = 1 => s = <<"rsc">>
         /\ Len(s) # 1 => Tail(s) \in StepsOfPause
         /\ Len(s) # 1 => Range(Tail(s)) = Range(s) \ {Head(s)}
         /\ Head(s) \in Range(s)
  <1>1. CASE s = <<"hardware", "current", "tx", "rx", "gso", "rsc">>
    BY <1>1 DEF Range, StepsOfPause
  <1>2. CASE s = <<"current", "tx", "rx", "gso", "rsc">>
    BY <1>2 DEF Range, StepsOfPause
  <1>3. CASE s = <<"tx", "rx", "gso", "rsc">>
    BY <1>3 DEF Range, StepsOfPause
  <1>4. CASE s = <<"rx", "gso", "rsc">>
    BY <1>4 DEF Range, StepsOfPause
  <1>5. CASE s = <<"gso", "rsc">>
    BY <1>5 DEF Range, StepsOfPause
  <1>6. CASE s = <<"rsc">>
    BY <1>6 DEF Range, StepsOfPause
  <1> QED BY <1>1, <1>2, <1>3, <1>4, <1>5, <1>6 DEF StepsOfPause

LEMMA ResumeProgress ==
  ASSUME NEW s \in StepsOfResume
  PROVE  /\ Len(s) = 1 => s = <<"current">>
         /\ Len(s) # 1 => Tail(s) \in StepsOfResume
         /\ Len(s) # 1 => Range(Tail(s)) = Range(s) \ {Head(s)}
         /\ Head(s) \in Range(s)
         /\ Head(s) = "current" <=> Len(s) = 1
         /\ Head(s) = "hardware" => Range(s) = {"hardware", "current"}
         /\ Head(s) \in Callbacks => "hardware" \in Range(s)
  <1>1. CASE s = <<"tx", "rx", "gso", "rsc", "hardware", "current">>
    BY <1>1 DEF Range, StepsOfResume, Callbacks
  <1>2. CASE s = <<"rx", "gso", "rsc", "hardware", "current">>
    BY <1>2 DEF Range, StepsOfResume, Callbacks
  <1>3. CASE s = <<"gso", "rsc", "hardware", "current">>
    BY <1>3 DEF Range, StepsOfResume, Callbacks
  <1>4. CASE s = <<"rsc", "hardware", "current">>
    BY <1>4 DEF Range, StepsOfResume, Callbacks
  <1>5. CASE s = <<"hardware", "current">>
    BY <1>5 DEF Range, StepsOfResume, Callbacks
  <1>6. CASE s = <<"current">>
    BY <1>6 DEF Range, StepsOfResume, Callbacks
  <1> QED BY <1>1, <1>2, <1>3, <1>4, <1>5, <1>6 DEF StepsOfResume

-----------------------------------------------------------------------------
(***************************************************************************)
(* The inductive invariant.                                                *)
(***************************************************************************)
OffloadType ==
  /\ scenario \in Scenarios /\ registry \in scenario.registries
  /\ active \in [Groups -> SUBSET Flags] /\ told \in [Groups -> SUBSET Flags]
  /\ offloadRequest \in Requests \cup {Nil}
  /\ offloadCall \in DriverCalls \cup {Nil}

InRequest == offloadRequest # Nil
InCall    == offloadCall # Nil

\* Whoever works alone does, and each is on its way through its steps.
Threads ==
  /\ InRequest /\ offloadRequest.alone => ~InCall
  /\ InCall /\ offloadCall.alone => ~InRequest
  /\ InRequest => Waiting(offloadRequest) \subseteq Range(RequestSteps)
  /\ InCall => offloadCall.steps \in IF offloadCall.operation = "pause"
                                     THEN StepsOfPause ELSE StepsOfResume

\* The groups of callbacks that requests leave out, or that the driver lacks.
Concerned == {g \in Groups : CallbackOf[g] \in Range(RequestSteps)}
LeftOut ==
  /\ \A g \in Groups \ (Concerned \cup {"v1"}) : active[g] = {} /\ told[g] = {}
  /\ IsChecksumOffloadV1Used => told["v1"] = active["v1"]
  /\ \A g \in Groups : ~Registered(CallbackOf[g]) => told[g] = {}

\* A group of which the translator and the driver have the same idea.
Agreed(g) == told[g] \cap Limit(g) = active[g] \cap Limit(g)

\* A request has set the groups behind it to its target or to the default.
Reached(g) ==
  active[g] = IF offloadRequest.operation = "request"
              THEN offloadRequest.target[g] ELSE DefaultCapabilities[g]
RequestBehind ==
  InRequest => \A g \in Concerned : CallbackOf[g] \notin Waiting(offloadRequest) =>
                 Reached(g) /\ (offloadRequest.alone => Agreed(g))

\* A pause has emptied what is behind it, a resume has filled it again.
PauseBehind ==
  InCall /\ offloadCall.operation = "pause" /\ offloadCall.alone =>
    /\ "hardware" \notin Waiting(offloadCall) => ndisHardware = {}
    /\ "current" \notin Waiting(offloadCall) => ndisCurrent = {}
    /\ \A g \in Groups \ {"v1"} : CallbackOf[g] \notin Waiting(offloadCall) => told[g] = {}
ResumeBehind ==
  InCall /\ offloadCall.operation = "resume" /\ offloadCall.alone =>
    /\ \A g \in Groups \ {"v1"} : CallbackOf[g] \notin Waiting(offloadCall) => Agreed(g)
    /\ "hardware" \notin Waiting(offloadCall) => offloadCall.current = NdisOffload(active)

\* What is off by default is not on its way either.
Kept ==
  kept /\ InRequest /\ offloadRequest.operation = "request" =>
    \A g \in {"ip", "rsc"} \cap Concerned :
      offloadRequest.target[g] \subseteq DefaultCapabilities[g]

OffloadInv ==
  /\ OffloadType /\ Threads /\ LeftOut /\ RequestBehind /\ PauseBehind /\ ResumeBehind
  /\ Kept /\ OffloadsAgree

-----------------------------------------------------------------------------
(***************************************************************************)
(* What the capabilities, their defaults and the translations of a request *)
(* are made of.                                                            *)
(***************************************************************************)
LEMMA HardwareTyped ==
  ASSUME OffloadType, NEW c \in Callbacks
  PROVE  /\ HardwareOf(capabilities, c) \subseteq Flags /\ Hardware(c) \subseteq Flags
         /\ ~Registered(c) => Hardware(c) = {}
  BY OffloadAssumption DEF OffloadType, HardwareOf, Hardware, Registered, capabilities

LEMMA DefaultTyped ==
  ASSUME OffloadType
  PROVE  DefaultCapabilities \in [Groups -> SUBSET Flags]
  <1>1. capabilities \in Drivers /\ registry \in Registries
    BY DEF OffloadType, Drivers, Registries, capabilities
  <1>2. DefaultCapabilities = [g \in Groups |-> DefaultOfGroup(capabilities, registry, g)]
    BY <1>1 DEF DefaultCapabilities, DefaultOf
  <1>3. "v1" \in Callbacks /\ "rx" \in Callbacks
    BY DEF Callbacks
  <1>4. /\ ChecksumV1Default(capabilities, registry) \subseteq Flags
        /\ RxDefault(capabilities, registry) \subseteq Flags
    BY <1>3, HardwareTyped DEF ChecksumV1Default, RxDefault
  <1>5. /\ TxIPv4Default(registry) \subseteq Flags
        /\ TxTcpDefault(registry) \subseteq Flags
        /\ TxUdpDefault(registry) \subseteq Flags
    BY DEF TxIPv4Default, TxTcpDefault, TxUdpDefault, TxChecksumSoftware, If
  <1>6. /\ LsoDefault(registry) \subseteq Flags
        /\ UsoDefault(registry) \subseteq Flags
        /\ RscDefault(registry) \subseteq Flags
    BY DEF LsoDefault, UsoDefault, RscDefault, GsoSoftware, RscSoftware, If, Flags, Layer3
  <1>7. ASSUME NEW g \in Groups
        PROVE  DefaultOfGroup(capabilities, registry, g) \in SUBSET Flags
    BY <1>4, <1>5, <1>6 DEF DefaultOfGroup, Groups
  <1> QED BY <1>2, <1>7

LEMMA SwitchTyped ==
  ASSUME NEW S, NEW c \in SUBSET S, NEW flags \in SUBSET S, NEW v, NEW set, NEW clear
  PROVE  Switch(v, c, flags, set, clear) \in SUBSET S
  BY DEF Switch

LEMMA TranslateTyped ==
  ASSUME OffloadType, NEW p
  PROVE  Translate(p) \in [Groups -> SUBSET Flags]
  <1> SUFFICES ASSUME NEW g \in Groups
               PROVE  TranslateGroup(p, active[g], g) \in SUBSET Flags
    BY DEF Translate
  <1> DEFINE c == active[g]
  <1>1. /\ c \in SUBSET Flags
        /\ "IPv4" \in Flags /\ "IPv6" \in Flags /\ "Tcp" \in Flags /\ "Udp" \in Flags
    BY DEF OffloadType, Flags, Layer3
  <1> HIDE DEF c
  <1>2. ASSUME NEW d \in SUBSET Flags, NEW v, NEW flag \in Flags
        PROVE  TransmitSwitch(v, d, {flag}) \in SUBSET Flags
    BY DEF TransmitSwitch, Switch
  <1>3. ASSUME NEW d \in SUBSET Flags, NEW v, NEW flag \in Flags
        PROVE  ReceiveSwitch(v, d, flag) \in SUBSET Flags
    BY DEF ReceiveSwitch, Switch
  <1>4. TranslateV1(p, c) \in SUBSET Flags
    <2>1. ASSUME NEW d \in SUBSET Flags, NEW v, NEW w, NEW flag \in Flags
          PROVE  SwitchV1(v, w, d, flag) \in SUBSET Flags
      BY DEF SwitchV1
    <2> QED BY <1>1, <2>1, Zenon DEF TranslateV1
  <1>5. TranslateIp(p, c) \in SUBSET Flags
    BY <1>1, <1>2, Zenon DEF TranslateIp
  <1>6. TranslateTcp(p, c) \in SUBSET Flags
    <2>1. ASSUME NEW d \in SUBSET Flags, NEW v PROVE TransmitTcp4(v, d) \in SUBSET Flags
      BY <1>1 DEF TransmitTcp4, Switch
    <2> QED BY <1>1, <1>2, <2>1, Zenon DEF TranslateTcp
  <1>7. TranslateUdp(p, c) \in SUBSET Flags
    BY <1>1, <1>2, Zenon DEF TranslateUdp
  <1>11. TranslateRx(p, c) \in SUBSET Flags
    BY <1>1, <1>3, Zenon DEF TranslateRx
  <1>8. TranslateLso(p, c) \in SUBSET Flags /\ TranslateUso(p, c) \in SUBSET Flags
    BY <1>1 DEF TranslateLso, TranslateUso, Segmentation, Layer3
  <1>9. TranslateRsc(p, c) \in SUBSET Flags
    BY <1>1, SwitchTyped DEF TranslateRsc
  <1>10. TranslateGroup(p, c, g) \in SUBSET Flags
    BY <1>4, <1>5, <1>6, <1>7, <1>8, <1>9, <1>11 DEF TranslateGroup, Groups
  <1> QED BY <1>10 DEF c

LEMMA NdisTyped ==
  ASSUME NEW c \in [Groups -> SUBSET Flags]
  PROVE  NdisOffload(c) \in SUBSET (Groups \X Flags)
  <1>1. \A g \in Groups : c[g] \subseteq Flags /\ {g} \X c[g] \subseteq Groups \X Flags
    OBVIOUS
  <1>2. ASSUME NEW g \in Groups, NEW flag
        PROVE  Each(g, flag, c[g]) \subseteq Groups \X Flags
    BY DEF Each, Flags
  <1> QED BY <1>1, <1>2 DEF NdisOffload, NdisChecksumV1, NdisChecksum, NdisLso, NdisUso,
            NdisRsc, Groups

-----------------------------------------------------------------------------
(***************************************************************************)
(* How the threads move.                                                   *)
(***************************************************************************)
LEMMA RequestShape ==
  ASSUME OffloadType, InRequest
  PROVE  /\ offloadRequest \in Requests /\ offloadRequest.steps \in StepsOfRequests
         /\ offloadRequest.operation \in {"initialize", "request"}
         /\ offloadRequest.target \in [Groups -> SUBSET Flags]
         /\ offloadRequest.alone \in BOOLEAN
  BY DEF OffloadType, InRequest, Requests, StepsOfRequests

LEMMA CallShape ==
  ASSUME OffloadType, InCall
  PROVE  /\ offloadCall \in DriverCalls
         /\ offloadCall.operation \in {"pause", "resume"}
         /\ offloadCall.current \in SUBSET (Groups \X Flags)
         /\ offloadCall.alone \in BOOLEAN
  BY DEF OffloadType, InCall, DriverCalls

\* A step of a request or an initialization takes its callback from those to come.
LEMMA RequestMoves ==
  ASSUME OffloadType, Threads, NEW operation, NEW steps, RequestAt(operation, steps),
         NEW callback, callback = Head(offloadRequest.steps)
  PROVE  /\ InRequest /\ offloadRequest.operation = operation
         /\ callback \in steps /\ callback \in Waiting(offloadRequest)
         /\ callback \in Range(RequestSteps)
         /\ UNCHANGED <<scenario, registry, paused, offloadCall>>
         /\ callback # "ndis" =>
              /\ offloadRequest' \in Requests /\ InRequest' /\ last' = last
              /\ offloadRequest'.operation = operation
              /\ offloadRequest'.target = offloadRequest.target
              /\ offloadRequest'.alone = offloadRequest.alone
              /\ Waiting(offloadRequest') = Waiting(offloadRequest) \ {callback}
         /\ callback = "ndis" =>
              /\ offloadRequest' = Nil /\ Waiting(offloadRequest) = {"ndis"}
              /\ last' = IF offloadRequest.alone THEN operation ELSE "torn"
  <1>1. InRequest /\ offloadRequest.operation = operation /\ callback \in steps
    BY DEF RequestAt, InRequest
  <1>2. PICK s \in StepsOfRequests : s = offloadRequest.steps
    BY <1>1, RequestShape
  <1>3. callback \in Waiting(offloadRequest) /\ callback \in Range(RequestSteps)
    BY <1>1, <1>2, RequestProgress DEF Threads, Waiting
  <1>4. CASE callback # "ndis"
    <2>1. Len(s) # 1 /\ Tail(s) \in StepsOfRequests /\ Range(Tail(s)) = Range(s) \ {callback}
      BY <1>2, <1>4, RequestProgress
    <2>2. offloadRequest' = [operation |-> offloadRequest.operation, steps |-> Tail(s),
                             target |-> offloadRequest.target,
                             alone |-> offloadRequest.alone] /\ last' = last
      BY <1>1, <1>2, <2>1, RequestShape DEF RequestAt, EndOfStep, Requests
    <2>3. offloadRequest' \in Requests
      BY <1>1, <2>1, <2>2, RequestShape DEF Requests, StepsOfRequests
    <2>4. offloadRequest' # Nil
      BY <2>3, OffloadAssumption
    <2> QED BY <1>1, <1>2, <1>3, <1>4, <2>1, <2>2, <2>3, <2>4 DEF InRequest, Waiting, RequestAt
  <1>5. CASE callback = "ndis"
    <2>1. Len(s) = 1 /\ s = <<"ndis">>
      BY <1>2, <1>5, RequestProgress
    <2>2. Range(s) = {"ndis"}
      BY <2>1 DEF Range
    <2> QED BY <1>1, <1>2, <1>3, <1>5, <2>1, <2>2 DEF RequestAt, EndOfStep, Done, Waiting
  <1> QED BY <1>4, <1>5

StepsOf(operation) == IF operation = "pause" THEN StepsOfPause ELSE StepsOfResume

\* So does a step of a pause or a resume.
LEMMA CallMoves ==
  ASSUME OffloadType, Threads, NEW operation, NEW steps, CallAt(operation, steps),
         NEW callback, callback = Head(offloadCall.steps), NEW s, s = offloadCall.steps
  PROVE  /\ InCall /\ offloadCall.operation = operation
         /\ operation \in {"pause", "resume"}
         /\ callback \in steps /\ callback \in Waiting(offloadCall)
         /\ s \in StepsOf(operation) /\ Waiting(offloadCall) = Range(s)
         /\ UNCHANGED <<scenario, registry, software, active, offloadRequest, kept>>
         /\ Len(s) # 1 =>
              /\ last' = last /\ paused' = paused
              /\ EndOfStep(offloadCall) =
                   [operation |-> operation, steps |-> Tail(s),
                    current |-> offloadCall.current, alone |-> offloadCall.alone]
              /\ Tail(s) \in StepsOf(operation)
              /\ Range(Tail(s)) = Waiting(offloadCall) \ {callback}
         /\ Len(s) = 1 =>
              /\ EndOfStep(offloadCall) = Nil /\ Waiting(offloadCall) = {callback}
              /\ last' = IF offloadCall.alone THEN operation ELSE "torn"
  <1>1. InCall /\ offloadCall.operation = operation /\ callback \in steps
        /\ UNCHANGED <<scenario, registry, software, active, offloadRequest, kept>>
    BY DEF CallAt, InCall
  <1>2. s \in StepsOf(operation) /\ operation \in {"pause", "resume"}
    BY <1>1, CallShape DEF Threads, StepsOf
  <1>3. /\ Len(s) # 1 => Tail(s) \in StepsOf(operation)
        /\ Len(s) # 1 => Range(Tail(s)) = Range(s) \ {callback}
        /\ callback \in Range(s)
        /\ Len(s) = 1 => Range(s) = {callback}
    <2>1. s \in StepsOfPause => /\ callback \in Range(s)
                                /\ Len(s) # 1 => Range(Tail(s)) = Range(s) \ {callback}
      BY PauseProgress
    <2>2. s \in StepsOfResume => /\ callback \in Range(s)
                                 /\ Len(s) # 1 => Range(Tail(s)) = Range(s) \ {callback}
      BY ResumeProgress
    <2>3. Len(s) = 1 => s = <<"rsc">> \/ s = <<"current">>
      BY <1>2, PauseProgress, ResumeProgress DEF StepsOf
    <2>4. Len(s) = 1 => Range(s) = {callback}
      BY <2>3 DEF Range
    <2>5. CASE operation = "pause"
      <3>1. Len(s) # 1 => Tail(s) \in StepsOfPause
        BY <1>2, <2>5, PauseProgress DEF StepsOf
      <3> QED BY <1>2, <2>1, <2>4, <2>5, <3>1 DEF StepsOf
    <2>6. CASE operation = "resume"
      <3>1. Len(s) # 1 => Tail(s) \in StepsOfResume
        BY <1>2, <2>6, ResumeProgress DEF StepsOf
      <3> QED BY <1>2, <2>2, <2>4, <2>6, <3>1 DEF StepsOf
    <2> QED BY <1>2, <2>5, <2>6
  <1>4. Len(s) # 1 => EndOfStep(offloadCall) =
                        [operation |-> operation, steps |-> Tail(s),
                         current |-> offloadCall.current, alone |-> offloadCall.alone]
    BY <1>1, CallShape DEF EndOfStep, DriverCalls
  <1>5. Len(s) # 1 => last' = last /\ paused' = paused
    BY DEF CallAt
  <1>6. Len(s) = 1 => /\ EndOfStep(offloadCall) = Nil
                      /\ last' = IF offloadCall.alone THEN operation ELSE "torn"
    BY <1>1 DEF CallAt, EndOfStep, Done
  <1> QED BY <1>1, <1>2, <1>3, <1>4, <1>5, <1>6 DEF Waiting

\* What depends on the driver and the registry alone.
LEMMA SameDriver ==
  ASSUME scenario' = scenario
  PROVE  /\ IsChecksumOffloadV1Used' <=> IsChecksumOffloadV1Used
         /\ RequestSteps' = RequestSteps /\ Concerned' = Concerned
         /\ \A g : Limit(g)' = Limit(g)
         /\ \A c : Registered(c)' <=> Registered(c)
         /\ active' = active => NdisOffload(active)' = NdisOffload(active)
         /\ registry' = registry => DefaultCapabilities' = DefaultCapabilities
  <1>1. /\ IsChecksumOffloadV1Used' <=> IsChecksumOffloadV1Used
        /\ \A g : Limit(g)' = Limit(g)
        /\ \A c : Registered(c)' <=> Registered(c)
        /\ registry' = registry => DefaultCapabilities' = DefaultCapabilities
    BY DEF IsChecksumOffloadV1Used, Hardware, Limit, Registered, capabilities,
      DefaultCapabilities
  <1>2. RequestSteps' = RequestSteps /\ Concerned' = Concerned
    BY <1>1 DEF RequestSteps, Concerned
  <1>3. active' = active => NdisOffload(active)' = NdisOffload(active)
    BY <1>1 DEF NdisOffload
  <1> QED BY <1>1, <1>2, <1>3

LEMMA InitOffload == OffloadInit => OffloadInv
  <1> SUFFICES ASSUME OffloadInit PROVE OffloadInv
    OBVIOUS
  <1>1. OffloadType
    BY DEF OffloadInit, OffloadType, Nothing
  <1>2. ~InRequest /\ ~InCall
    BY DEF OffloadInit, InRequest, InCall
  <1>3. LeftOut
    BY DEF OffloadInit, LeftOut, Nothing, Groups
  <1>4. OffloadsAgree
    BY DEF OffloadInit, OffloadsAgree
  <1> QED BY <1>1, <1>2, <1>3, <1>4
          DEF OffloadInv, Threads, RequestBehind, PauseBehind, ResumeBehind, Kept

LEMMA RegistryChanges ==
  ASSUME OffloadInv, ChangeRegistry
  PROVE  OffloadInv'
  <1>1. /\ scenario' = scenario /\ registry' \in scenario.registries /\ ~InRequest
        /\ ~kept'
        /\ UNCHANGED <<software, active, told, ndisHardware, ndisCurrent, paused,
                       offloadRequest, offloadCall, last>>
    BY DEF ChangeRegistry, InRequest
  <1>2. OffloadType' /\ ~InRequest' /\ (InCall' <=> InCall)
    BY <1>1 DEF OffloadType, OffloadInv, InRequest, InCall
  <1>3. LeftOut'
    BY <1>1, SameDriver DEF LeftOut, OffloadInv
  <1>4. Threads' /\ RequestBehind' /\ Kept'
    BY <1>1, <1>2 DEF Threads, RequestBehind, Kept, OffloadInv
  <1>5. PauseBehind' /\ ResumeBehind'
    BY <1>1, <1>2, SameDriver
    DEF PauseBehind, ResumeBehind, Agreed, Waiting, OffloadInv
  <1>6. OffloadsAgree'
    BY <1>1, <1>2, SameDriver DEF OffloadsAgree, Quiet, OffloadInv
  <1> QED BY <1>2, <1>3, <1>4, <1>5, <1>6 DEF OffloadInv

LEMMA FirstSteps ==
  RequestSteps \in StepsOfRequests
  BY DEF RequestSteps, StepsOfRequests

LEMMA DisturbedRequest ==
  ASSUME OffloadType, offloadRequest' = Disturbed(offloadRequest)
  PROVE  /\ offloadRequest' \in Requests \cup {Nil} /\ (InRequest' <=> InRequest)
         /\ InRequest =>
              /\ ~offloadRequest'.alone /\ offloadRequest'.target = offloadRequest.target
              /\ offloadRequest'.operation = offloadRequest.operation
              /\ Waiting(offloadRequest') = Waiting(offloadRequest)
  <1>1. CASE InRequest
    <2>1. offloadRequest' = [operation |-> offloadRequest.operation,
                             steps |-> offloadRequest.steps,
                             target |-> offloadRequest.target, alone |-> FALSE]
      BY <1>1, RequestShape DEF Disturbed, InRequest, Requests
    <2>2. offloadRequest' \in Requests
      BY <1>1, <2>1, RequestShape DEF Requests, StepsOfRequests
    <2>3. offloadRequest' # Nil
      BY <2>2, OffloadAssumption
    <2> QED BY <1>1, <2>1, <2>2, <2>3 DEF InRequest, Waiting
  <1>2. CASE ~InRequest
    BY <1>2 DEF InRequest, Disturbed
  <1> QED BY <1>1, <1>2

LEMMA DisturbedCall ==
  ASSUME OffloadType, offloadCall' = Disturbed(offloadCall)
  PROVE  /\ offloadCall' \in DriverCalls \cup {Nil} /\ (InCall' <=> InCall)
         /\ InCall => /\ ~offloadCall'.alone /\ offloadCall'.steps = offloadCall.steps
                      /\ offloadCall'.operation = offloadCall.operation
  <1>1. CASE InCall
    <2>1. offloadCall' = [operation |-> offloadCall.operation, steps |-> offloadCall.steps,
                          current |-> offloadCall.current, alone |-> FALSE]
      BY <1>1, CallShape DEF Disturbed, InCall, DriverCalls
    <2>2. offloadCall' \in DriverCalls
      BY <1>1, <2>1, CallShape DEF DriverCalls
    <2>3. offloadCall' # Nil
      BY <2>2, OffloadAssumption
    <2> QED BY <1>1, <2>1, <2>2, <2>3 DEF InCall
  <1>2. CASE ~InCall
    BY <1>2 DEF InCall, Disturbed
  <1> QED BY <1>1, <1>2

\* A request or an initialization begins: nothing lies behind it yet, and a
\* driver in the middle of a pause is no longer alone.
LEMMA RequestBegins ==
  ASSUME OffloadInv, NEW operation \in {"initialize", "request"},
         NEW target \in [Groups -> SUBSET Flags], Begin(operation, RequestSteps, target),
         UNCHANGED <<scenario, registry, software, active, told, ndisHardware, ndisCurrent,
                     paused, last>>,
         operation = "request" =>
           /\ kept' = kept
           /\ kept => \A g \in {"ip", "rsc"} \cap Concerned :
                        target[g] \subseteq DefaultCapabilities[g]
  PROVE  OffloadInv'
  <1>1. /\ ~InRequest /\ offloadCall' = Disturbed(offloadCall)
        /\ offloadRequest' = [operation |-> operation, steps |-> RequestSteps,
                              target |-> target, alone |-> ~InCall]
    BY DEF Begin, InRequest, InCall
  <1>2. offloadRequest' \in Requests
    BY <1>1, FirstSteps DEF Requests, StepsOfRequests, InCall
  <1>3. InRequest'
    BY <1>2, OffloadAssumption DEF InRequest
  <1>4. /\ offloadCall' \in DriverCalls \cup {Nil} /\ (InCall' <=> InCall)
        /\ InCall => /\ ~offloadCall'.alone /\ offloadCall'.steps = offloadCall.steps
                     /\ offloadCall'.operation = offloadCall.operation
    BY <1>1, DisturbedCall DEF OffloadInv
  <1>5. OffloadType'
    BY <1>2, <1>4 DEF OffloadType, OffloadInv
  <1>6. Waiting(offloadRequest') = Range(RequestSteps)
    BY <1>1 DEF Waiting
  <1>7. Threads'
    BY <1>1, <1>3, <1>4, <1>6, SameDriver DEF Threads, OffloadInv, Waiting
  <1>8. LeftOut'
    BY SameDriver DEF LeftOut, OffloadInv
  <1>9. RequestBehind'
    BY <1>6, SameDriver DEF RequestBehind, Concerned
  <1>10. PauseBehind' /\ ResumeBehind'
    BY <1>4 DEF PauseBehind, ResumeBehind
  <1>11. Kept'
    BY <1>1, SameDriver DEF Kept
  <1>12. OffloadsAgree'
    BY <1>1, <1>3, SameDriver DEF OffloadsAgree, OffloadInv, Quiet, InRequest
  <1> QED BY <1>5, <1>7, <1>8, <1>9, <1>10, <1>11, <1>12 DEF OffloadInv

\* A request that is not refused turns on nothing of these two that is off by
\* default.
LEMMA NotRefused ==
  ASSUME OffloadInv, ~InRequest, kept, NEW p, ~Refused(p), NEW g \in {"ip", "rsc"} \cap Concerned
  PROVE  Translate(p)[g] \subseteq DefaultCapabilities[g]
  <1>1. active[g] \subseteq DefaultCapabilities[g]
    BY DEF OffloadInv, OffloadsAgree, InRequest
  <1>2. Translate(p)[g] = TranslateGroup(p, active[g], g)
    BY DEF Translate, Concerned
  <1>3. CASE g = "ip"
    <2>1. ~IsChecksumOffloadV1Used
      <3>1. CallbackOf["ip"] = "tx"
        BY CallbackOfGroup DEF Members, Groups, Callbacks
      <3>2. IsChecksumOffloadV1Used => Range(RequestSteps) = {"v1", "gso", "rsc", "ndis"}
        BY DEF RequestSteps, Range
      <3> QED BY <1>3, <3>1, <3>2 DEF Concerned
    <2>2. p["ip4"] \in {2, 4} => "IPv4" \in DefaultCapabilities["ip"]
      BY <2>1 DEF Refused, RefusedTx, Lacks, Asks, Allowed
    <2>3. TranslateGroup(p, active["ip"], "ip") = TranslateIp(p, active["ip"])
      BY DEF TranslateGroup
    <2> QED BY <1>1, <1>2, <1>3, <2>2, <2>3 DEF TranslateIp, TransmitSwitch, Switch
  <1>4. CASE g = "rsc"
    <2>1. /\ p["rsc4"] = 2 => "IPv4" \in DefaultCapabilities["rsc"]
          /\ p["rsc6"] = 2 => "IPv6" \in DefaultCapabilities["rsc"]
      BY DEF Refused, RefusedRsc, Lacks, Allowed
    <2>2. TranslateGroup(p, active["rsc"], "rsc") = TranslateRsc(p, active["rsc"])
      BY DEF TranslateGroup
    <2> QED BY <1>1, <1>2, <1>4, <2>1, <2>2 DEF TranslateRsc, Switch
  <1> QED BY <1>3, <1>4

LEMMA BeginsInvariant ==
  ASSUME OffloadInv, BeginInitialize \/ \E p \in OffloadParameters : SetActiveCapabilities(p)
  PROVE  OffloadInv'
  <1>1. CASE BeginInitialize
    <2>1. Nothing \in [Groups -> SUBSET Flags]
      BY DEF Nothing
    <2> QED BY <1>1, <2>1, RequestBegins DEF BeginInitialize
  <1>2. ASSUME NEW p \in OffloadParameters, SetActiveCapabilities(p)
        PROVE  OffloadInv'
    <2>1. Translate(p) \in [Groups -> SUBSET Flags]
      BY TranslateTyped DEF OffloadInv
    <2>2. ~InRequest
      BY <1>2 DEF SetActiveCapabilities, Begin, InRequest
    <2>3. kept => \A g \in {"ip", "rsc"} \cap Concerned :
                    Translate(p)[g] \subseteq DefaultCapabilities[g]
      BY <1>2, <2>2, NotRefused DEF SetActiveCapabilities
    <2> QED BY <1>2, <2>1, <2>3, RequestBegins DEF SetActiveCapabilities
  <1> QED BY <1>1, <1>2

-----------------------------------------------------------------------------
(***************************************************************************)
(* The steps of requests and initializations.                              *)
(***************************************************************************)

\* One that sets the groups of a callback to x and tells the driver y of it.
LEMMA GroupIsSet ==
  ASSUME OffloadInv, NEW operation, RequestAt(operation, Callbacks),
         NEW callback, callback = Head(offloadRequest.steps),
         NEW x \in [Groups -> SUBSET Flags], NEW y \in [Groups -> SUBSET Flags],
         x = IF operation = "request" THEN offloadRequest.target ELSE DefaultCapabilities,
         active' = [g \in Groups |-> IF g \in Members(callback) THEN x[g] ELSE active[g]],
         Dispatch(callback, y),
         \A g \in Members(callback) : /\ y[g] \cap Limit(g) = x[g] \cap Limit(g)
                                      /\ g = "v1" => y[g] = x[g],
         UNCHANGED <<ndisHardware, ndisCurrent, kept>>
  PROVE  OffloadInv'
  <1>1. callback # "ndis" /\ callback \in Callbacks
    BY RequestMoves DEF OffloadInv, Callbacks
  <1>2. /\ InRequest /\ offloadRequest.operation = operation
        /\ callback \in Range(RequestSteps)
        /\ UNCHANGED <<scenario, registry, paused, offloadCall>>
        /\ offloadRequest' \in Requests /\ InRequest' /\ last' = last
        /\ offloadRequest'.operation = operation
        /\ offloadRequest'.target = offloadRequest.target
        /\ offloadRequest'.alone = offloadRequest.alone
        /\ Waiting(offloadRequest') = Waiting(offloadRequest) \ {callback}
    BY <1>1, RequestMoves DEF OffloadInv
  <1>3. /\ \A g \in Groups : CallbackOf[g] = callback => active'[g] = x[g]
        /\ \A g \in Groups : CallbackOf[g] # callback => active'[g] = active[g]
    BY <1>1, CallbackOfGroup
  <1>4. /\ \A g \in Groups : CallbackOf[g] = callback /\ Registered(callback) => told'[g] = y[g]
        /\ \A g \in Groups : CallbackOf[g] # callback \/ ~Registered(callback) => told'[g] = told[g]
    BY <1>1, CallbackOfGroup DEF Dispatch
  <1>5. OffloadType'
    <2>1. told' \in [Groups -> SUBSET Flags]
      BY DEF Dispatch, OffloadInv, OffloadType
    <2>2. active' \in [Groups -> SUBSET Flags]
      BY DEF OffloadInv, OffloadType
    <2> QED BY <1>2, <2>1, <2>2 DEF OffloadInv, OffloadType
  <1>6. InCall' <=> InCall
    BY <1>2 DEF InCall
  <1>7. Threads'
    BY <1>2, <1>6, SameDriver DEF Threads, OffloadInv
  <1>8. \A g \in Groups : ~Registered(CallbackOf[g]) => Limit(g) = {}
    BY CallbackOfGroup, HardwareTyped DEF Limit, OffloadInv
  <1>9. LeftOut'
    <2>1. ASSUME NEW g \in Groups \ (Concerned \cup {"v1"})
          PROVE  active'[g] = {} /\ told'[g] = {}
      BY <1>2, <1>3, <1>4 DEF LeftOut, OffloadInv, Concerned
    <2>2. IsChecksumOffloadV1Used => told'["v1"] = active'["v1"]
      <3>1. CallbackOf["v1"] = "v1" /\ "v1" \in Groups /\ "v1" \in Callbacks
            /\ "v1" \in Members("v1")
        BY CallbackOfGroup DEF Groups, Callbacks, Members
      <3>2. IsChecksumOffloadV1Used => Registered("v1")
        BY <3>1, HardwareTyped DEF IsChecksumOffloadV1Used, OffloadInv
      <3>3. CASE callback = "v1"
        BY <1>3, <1>4, <3>1, <3>2, <3>3
      <3>4. CASE callback # "v1"
        BY <1>3, <1>4, <3>1, <3>4 DEF LeftOut, OffloadInv
      <3> QED BY <3>3, <3>4
    <2>3. ASSUME NEW g \in Groups, ~Registered(CallbackOf[g])
          PROVE  told'[g] = {}
      BY <1>4, <2>3 DEF LeftOut, OffloadInv
    <2> QED BY <1>2, <2>1, <2>2, <2>3, SameDriver DEF LeftOut
  <1>10. RequestBehind'
    <2>1. ASSUME NEW g \in Concerned, CallbackOf[g] \notin Waiting(offloadRequest')
          PROVE  /\ active'[g] = x[g]
                 /\ offloadRequest.alone => told'[g] \cap Limit(g) = active'[g] \cap Limit(g)
      <3>1. g \in Groups
        BY DEF Concerned
      <3>2. CASE CallbackOf[g] = callback
        <4>1. g \in Members(callback)
          BY <1>1, <3>1, <3>2, CallbackOfGroup
        <4>2. CASE Registered(callback)
          BY <1>3, <1>4, <3>1, <3>2, <4>1, <4>2
        <4>3. CASE ~Registered(callback)
          BY <1>3, <1>8, <3>1, <3>2, <4>3
        <4> QED BY <4>2, <4>3
      <3>3. CASE CallbackOf[g] # callback
        <4>1. CallbackOf[g] \notin Waiting(offloadRequest)
          BY <1>2, <2>1, <3>3
        <4> QED BY <1>2, <1>3, <1>4, <3>1, <3>3, <4>1
                DEF RequestBehind, Reached, Agreed, OffloadInv
      <3> QED BY <3>2, <3>3
    <2> QED BY <1>2, <2>1, SameDriver DEF RequestBehind, Reached, Agreed
  <1>11. PauseBehind' /\ ResumeBehind'
    BY <1>2, <1>6 DEF PauseBehind, ResumeBehind, Threads, OffloadInv
  <1>12. Kept'
    BY <1>2, SameDriver DEF Kept, OffloadInv
  <1>13. OffloadsAgree'
    <2>1. ASSUME kept', operation = "request", NEW g \in {"ip", "rsc"}
          PROVE  active'[g] \subseteq DefaultCapabilities[g]
      <3>1. g \in Groups
        BY DEF Groups
      <3>2. CASE CallbackOf[g] = callback
        BY <1>2, <1>3, <2>1, <3>1, <3>2 DEF Kept, Concerned, OffloadInv
      <3>3. CASE CallbackOf[g] # callback
        BY <1>2, <1>3, <2>1, <3>1, <3>3 DEF OffloadsAgree, OffloadInv
      <3> QED BY <3>2, <3>3
    <2> QED BY <1>2, <2>1, SameDriver DEF OffloadsAgree, Quiet, InRequest
  <1> QED BY <1>5, <1>7, <1>9, <1>10, <1>11, <1>12, <1>13 DEF OffloadInv

LEMMA GroupsInvariant ==
  ASSUME OffloadInv, InitializeGroup \/ SetActiveGroup
  PROVE  OffloadInv'
  <1> DEFINE callback == Head(offloadRequest.steps)
  <1>1. CASE InitializeGroup
    <2>1. DefaultCapabilities \in [Groups -> SUBSET Flags]
      BY DefaultTyped DEF OffloadInv
    <2>2. /\ RequestAt("initialize", Callbacks) /\ Dispatch(callback, active')
          /\ active' = [g \in Groups |-> IF g \in Members(callback)
                                         THEN DefaultCapabilities[g] ELSE active[g]]
          /\ UNCHANGED <<ndisHardware, ndisCurrent, kept>>
      BY <1>1 DEF InitializeGroup
    <2>3. active' \in [Groups -> SUBSET Flags]
      BY <2>1, <2>2 DEF OffloadInv, OffloadType
    <2>4. callback \in Callbacks
      BY <2>2 DEF RequestAt
    <2>5. \A g \in Members(callback) : active'[g] = DefaultCapabilities[g]
      BY <2>2, <2>4 DEF Members, Groups, Callbacks
    <2> HIDE DEF callback
    <2> QED BY <2>1, <2>2, <2>3, <2>5, GroupIsSet DEF callback
  <1>2. CASE SetActiveGroup
    <2> DEFINE x == offloadRequest.target
               y == Dispatched(callback, x)
    <2>1. /\ RequestAt("request", Callbacks) /\ Dispatch(callback, y)
          /\ active' = [g \in Groups |-> IF g \in Members(callback) THEN x[g] ELSE active[g]]
          /\ UNCHANGED <<ndisHardware, ndisCurrent, kept>>
      BY <1>2 DEF SetActiveGroup
    <2>2. x \in [Groups -> SUBSET Flags]
      BY <2>1, RequestMoves, RequestShape DEF OffloadInv
    <2>3. callback \in Callbacks
      BY <2>1 DEF RequestAt
    <2>4. y \in [Groups -> SUBSET Flags]
      BY <2>2 DEF Dispatched
    <2>5. ASSUME NEW g \in Members(callback)
          PROVE  y[g] \cap Limit(g) = x[g] \cap Limit(g) /\ (g = "v1" => y[g] = x[g])
      <3>1. g \in Groups
        BY <2>3, <2>5 DEF Members, Groups, Callbacks
      <3>2. g = "v1" => callback = "v1"
        BY <2>3, <2>5 DEF Members, Callbacks
      <3> QED BY <3>1, <3>2 DEF Dispatched
    <2> HIDE DEF callback, x, y
    <2> QED BY <2>1, <2>2, <2>4, <2>5, GroupIsSet DEF callback, x
  <1> QED BY <1>1, <1>2

LEMMA ConcernedGroups ==
  Concerned = IF IsChecksumOffloadV1Used THEN {"v1", "lso", "uso", "rsc"}
                                         ELSE Groups \ {"v1"}
  <1>1. /\ CallbackOf["v1"] = "v1" /\ CallbackOf["ip"] = "tx" /\ CallbackOf["tcp"] = "tx"
        /\ CallbackOf["udp"] = "tx" /\ CallbackOf["rx"] = "rx" /\ CallbackOf["lso"] = "gso"
        /\ CallbackOf["uso"] = "gso" /\ CallbackOf["rsc"] = "rsc"
    BY CallbackOfGroup DEF Members, Groups, Callbacks
  <1>2. CASE IsChecksumOffloadV1Used
    <2>1. Range(RequestSteps) = {"v1", "gso", "rsc", "ndis"}
      BY <1>2 DEF RequestSteps, Range
    <2> QED BY <1>1, <1>2, <2>1 DEF Concerned, Groups
  <1>3. CASE ~IsChecksumOffloadV1Used
    <2>1. Range(RequestSteps) = {"tx", "rx", "gso", "rsc", "ndis"}
      BY <1>3 DEF RequestSteps, Range
    <2> QED BY <1>1, <1>3, <2>1 DEF Concerned, Groups
  <1> QED BY <1>2, <1>3

\* What NDIS is told depends on these groups alone.
LEMMA NdisOfConcerned ==
  ASSUME NEW c, NEW d, \A g \in Concerned : c[g] = d[g]
  PROVE  NdisOffload(c) = NdisOffload(d)
  <1>1. c["lso"] = d["lso"] /\ c["uso"] = d["uso"] /\ c["rsc"] = d["rsc"]
    BY ConcernedGroups DEF Groups
  <1>2. IsChecksumOffloadV1Used => c["v1"] = d["v1"]
    BY ConcernedGroups
  <1>3. ~IsChecksumOffloadV1Used =>
          c["ip"] = d["ip"] /\ c["tcp"] = d["tcp"] /\ c["udp"] = d["udp"] /\ c["rx"] = d["rx"]
    BY ConcernedGroups DEF Groups
  <1> QED BY <1>1, <1>2, <1>3
          DEF NdisOffload, NdisChecksumV1, NdisChecksum, NdisLso, NdisUso, NdisRsc

\* Where no request leads, nothing is active that the hardware could do.
LEMMA AgreedElsewhere ==
  ASSUME OffloadInv, NEW g \in Groups \ Concerned
  PROVE  Agreed(g)
  <1>1. CASE g = "v1"
    <2>1. ~IsChecksumOffloadV1Used
      BY <1>1, ConcernedGroups
    <2>2. CallbackOf["v1"] = "v1"
      BY CallbackOfGroup DEF Members, Groups, Callbacks
    <2> QED BY <1>1, <2>1, <2>2 DEF Agreed, Limit, IsChecksumOffloadV1Used
  <1>2. CASE g # "v1"
    BY <1>2 DEF Agreed, LeftOut, OffloadInv
  <1> QED BY <1>1, <1>2

LEMMA RequestEnds ==
  ASSUME OffloadInv, SetNdisMiniportOffloadAttributes \/ IndicateCurrentConfig
  PROVE  OffloadInv'
  <1>1. PICK operation \in {"initialize", "request"} : RequestAt(operation, {"ndis"})
    BY DEF SetNdisMiniportOffloadAttributes, IndicateCurrentConfig
  <1>2. Head(offloadRequest.steps) = "ndis"
    BY <1>1 DEF RequestAt
  <1>3. /\ InRequest /\ offloadRequest.operation = operation
        /\ UNCHANGED <<scenario, registry, paused, offloadCall>>
        /\ offloadRequest' = Nil /\ Waiting(offloadRequest) = {"ndis"}
        /\ last' = IF offloadRequest.alone THEN operation ELSE "torn"
    BY <1>1, <1>2, RequestMoves DEF OffloadInv
  <1>4. UNCHANGED <<active, told, kept>>
    BY DEF SetNdisMiniportOffloadAttributes, IndicateCurrentConfig
  <1>5. \A g \in Groups : CallbackOf[g] # "ndis"
    BY CallbackOfGroup DEF Callbacks
  <1>6. \A g \in Concerned : Reached(g) /\ (offloadRequest.alone => Agreed(g))
    BY <1>3, <1>5 DEF RequestBehind, OffloadInv, Concerned
  <1>7. ndisCurrent' = NdisOffload(active)
    <2>1. CASE SetNdisMiniportOffloadAttributes
      BY <2>1 DEF SetNdisMiniportOffloadAttributes
    <2>2. CASE IndicateCurrentConfig
      <3> DEFINE sent == [offloadRequest.target EXCEPT !["rsc"] = active["rsc"]]
      <3>1. ndisCurrent' = NdisOffload(sent) /\ operation = "request"
        BY <1>3, <2>2 DEF IndicateCurrentConfig, RequestAt
      <3>2. ASSUME NEW g \in Concerned PROVE sent[g] = active[g]
        <4>1. g \in Groups /\ offloadRequest.target \in [Groups -> SUBSET Flags]
          BY <1>3, RequestShape DEF Concerned, OffloadInv
        <4>2. active[g] = offloadRequest.target[g]
          BY <1>3, <1>6, <3>1 DEF Reached
        <4> QED BY <4>1, <4>2
      <3> HIDE DEF sent
      <3> QED BY <3>1, <3>2, NdisOfConcerned
    <2> QED BY <2>1, <2>2
  <1>8. ~InRequest' /\ (InCall' <=> InCall)
    BY <1>3 DEF InRequest, InCall
  <1>9. OffloadType' /\ Threads'
    BY <1>3, <1>4, <1>8, SameDriver DEF OffloadType, Threads, OffloadInv
  <1>10. LeftOut'
    BY <1>3, <1>4, SameDriver DEF LeftOut, OffloadInv
  <1>11. RequestBehind' /\ Kept'
    BY <1>8 DEF RequestBehind, Kept
  <1>12. PauseBehind' /\ ResumeBehind'
    BY <1>3, <1>8 DEF PauseBehind, ResumeBehind, Threads, OffloadInv
  <1>13. OffloadsAgree'
    <2>1. last' \in {"initialize", "request", "resume"} =>
            \A g \in Groups : told[g] \cap Limit(g) = active[g] \cap Limit(g)
      BY <1>3, <1>6, AgreedElsewhere DEF Agreed
    <2>2. ASSUME kept, NEW g \in {"ip", "rsc"}
          PROVE  active[g] \subseteq DefaultCapabilities[g]
      <3>1. g \in Groups /\ g # "v1"
        BY DEF Groups
      <3>2. CASE g \notin Concerned
        BY <3>1, <3>2 DEF LeftOut, OffloadInv
      <3>3. CASE g \in Concerned /\ operation = "request"
        BY <1>3, <1>6, <2>2, <3>3 DEF Reached, Kept, OffloadInv
      <3>4. CASE g \in Concerned /\ operation = "initialize"
        BY <1>3, <1>6, <3>4 DEF Reached
      <3> QED BY <3>2, <3>3, <3>4
    <2>3. last' # "pause"
      BY <1>3
    <2> QED BY <1>3, <1>4, <1>7, <2>1, <2>2, <2>3, SameDriver DEF OffloadsAgree
  <1> QED BY <1>9, <1>10, <1>11, <1>12, <1>13 DEF OffloadInv

-----------------------------------------------------------------------------
(***************************************************************************)
(* The driver's pauses and resumes.                                        *)
(***************************************************************************)
LEMMA CallSteps ==
  ASSUME NEW operation \in {"pause", "resume"}, NEW s \in StepsOf(operation)
  PROVE  "v1" \notin Range(s)
  <1>1. s \in StepsOfPause \cup StepsOfResume
    BY DEF StepsOf
  <1> QED BY <1>1 DEF StepsOfPause, StepsOfResume, Range

\* The callbacks that a pause or a resume leads to, before it has begun.
LEMMA FirstCallSteps ==
  ASSUME NEW g \in Groups \ {"v1"}
  PROVE  /\ CallbackOf[g] \in
              Range(<<"hardware", "current", "tx", "rx", "gso", "rsc">>)
         /\ CallbackOf[g] \in
              Range(<<"tx", "rx", "gso", "rsc", "hardware", "current">>)
  <1>1. CallbackOf[g] \in {"tx", "rx", "gso", "rsc"}
    BY CallbackOfGroup DEF Members, Groups, Callbacks
  <1> QED BY <1>1 DEF Range

LEMMA CallBegins ==
  ASSUME OffloadInv, PauseOffloads \/ ResumeOffloads
  PROVE  OffloadInv'
  <1> DEFINE first(operation) ==
               IF operation = "pause"
               THEN <<"hardware", "current", "tx", "rx", "gso", "rsc">>
               ELSE <<"tx", "rx", "gso", "rsc", "hardware", "current">>
  <1>1. PICK operation \in {"pause", "resume"} : BeginCall(operation, first(operation))
    BY DEF PauseOffloads, ResumeOffloads
  <1>2. UNCHANGED <<scenario, registry, active, told, ndisHardware, ndisCurrent, last, kept>>
    BY DEF PauseOffloads, ResumeOffloads
  <1>3. /\ ~InCall /\ offloadRequest' = Disturbed(offloadRequest)
        /\ offloadCall' = [operation |-> operation, steps |-> first(operation),
                           current |-> {}, alone |-> ~InRequest]
    BY <1>1 DEF BeginCall, InCall, InRequest
  <1>4. offloadCall' \in DriverCalls /\ first(operation) \in StepsOf(operation)
    BY <1>3 DEF DriverCalls, StepsOf, StepsOfPause, StepsOfResume, InRequest
  <1>5. InCall'
    BY <1>4, OffloadAssumption DEF InCall
  <1>6. /\ offloadRequest' \in Requests \cup {Nil} /\ (InRequest' <=> InRequest)
        /\ InRequest =>
             /\ ~offloadRequest'.alone /\ offloadRequest'.target = offloadRequest.target
             /\ offloadRequest'.operation = offloadRequest.operation
             /\ Waiting(offloadRequest') = Waiting(offloadRequest)
    BY <1>3, DisturbedRequest DEF OffloadInv
  <1>7. /\ "hardware" \in Waiting(offloadCall') /\ "current" \in Waiting(offloadCall')
        /\ \A g \in Groups \ {"v1"} : CallbackOf[g] \in Waiting(offloadCall')
    BY <1>3, FirstCallSteps DEF Waiting, Range
  <1> HIDE DEF first
  <1>8. OffloadType'
    BY <1>2, <1>4, <1>6 DEF OffloadType, OffloadInv
  <1>9. Threads'
    <2>1. offloadCall'.steps \in StepsOf(offloadCall'.operation)
          /\ (offloadCall'.alone => ~InRequest)
      BY <1>3, <1>4
    <2> QED BY <1>2, <1>5, <1>6, <2>1, SameDriver DEF Threads, StepsOf, OffloadInv
  <1>10. LeftOut'
    BY <1>2, SameDriver DEF LeftOut, OffloadInv
  <1>11. RequestBehind' /\ Kept'
    BY <1>2, <1>6, SameDriver DEF RequestBehind, Reached, Kept, OffloadInv
  <1>12. PauseBehind' /\ ResumeBehind'
    BY <1>7 DEF PauseBehind, ResumeBehind
  <1>13. OffloadsAgree'
    BY <1>2, <1>5, <1>6, SameDriver
    DEF OffloadsAgree, OffloadInv, Quiet, InRequest, InCall
  <1> QED BY <1>8, <1>9, <1>10, <1>11, <1>12, <1>13 DEF OffloadInv

\* What every step of a call leaves as it was.
LEMMA CallKeeps ==
  ASSUME OffloadInv, NEW operation, NEW steps, CallAt(operation, steps),
         told' \in [Groups -> SUBSET Flags],
         \A g \in Groups :
           told'[g] # told[g] => /\ g # "v1" /\ Registered(CallbackOf[g])
                                 /\ told'[g] \in {{}, active[g]},
         offloadCall' \in DriverCalls \cup {Nil},
         InCall' => /\ offloadCall'.alone = offloadCall.alone
                    /\ offloadCall'.operation = operation
                    /\ offloadCall'.steps \in StepsOf(operation)
  PROVE  /\ OffloadType' /\ Threads' /\ LeftOut' /\ RequestBehind' /\ Kept'
         /\ kept' /\ (offloadRequest' # Nil => offloadRequest'.operation = "request") =>
              \A g \in {"ip", "rsc"} : active'[g] \subseteq DefaultCapabilities'[g]
  <1>1. /\ InCall /\ UNCHANGED <<scenario, registry, active, offloadRequest, kept>>
        /\ operation \in {"pause", "resume"} /\ offloadCall.operation = operation
    BY CallMoves DEF OffloadInv
  <1>2. InRequest' <=> InRequest
    BY <1>1 DEF InRequest
  <1>3. OffloadType'
    BY <1>1 DEF OffloadType, OffloadInv
  <1>4. Threads'
    <2>1. InCall' => offloadCall'.steps \in StepsOf(offloadCall'.operation)
      BY <1>1
    <2> QED BY <1>1, <1>2, <2>1, SameDriver DEF Threads, StepsOf, OffloadInv
  <1>5. LeftOut'
    <2>1. ASSUME NEW g \in Groups \ (Concerned \cup {"v1"}) PROVE told'[g] = {}
      BY <2>1 DEF LeftOut, OffloadInv
    <2>2. told'["v1"] = told["v1"]
      BY DEF Groups
    <2>3. ASSUME NEW g \in Groups, ~Registered(CallbackOf[g]) PROVE told'[g] = {}
      BY <2>3 DEF LeftOut, OffloadInv
    <2> QED BY <1>1, <2>1, <2>2, <2>3, SameDriver DEF LeftOut, OffloadInv
  <1>6. RequestBehind'
    <2>1. InRequest => ~offloadRequest.alone
      BY <1>1 DEF Threads, OffloadInv
    <2> QED BY <1>1, <1>2, <2>1, SameDriver DEF RequestBehind, Reached, OffloadInv
  <1>7. Kept'
    BY <1>1, <1>2, SameDriver DEF Kept, OffloadInv
  <1> QED BY <1>1, <1>3, <1>4, <1>5, <1>6, <1>7, SameDriver DEF OffloadsAgree, OffloadInv

\* What a call tells the driver of: nothing, or what is active.
LEMMA CallTells ==
  ASSUME OffloadInv, NEW operation, NEW steps, CallAt(operation, steps),
         NEW callback \in Callbacks, callback = Head(offloadCall.steps),
         NEW c, c \in {Nothing, active}, Dispatch(callback, c)
  PROVE  /\ told' \in [Groups -> SUBSET Flags]
         /\ \A g \in Groups :
              told'[g] # told[g] => /\ g # "v1" /\ Registered(CallbackOf[g])
                                    /\ told'[g] \in {{}, active[g]}
         /\ \A g \in Groups : CallbackOf[g] = callback /\ Registered(callback) => told'[g] = c[g]
         /\ \A g \in Groups : CallbackOf[g] # callback \/ ~Registered(callback) => told'[g] = told[g]
  <1>1. callback # "v1"
    <2>1. PICK s : s = offloadCall.steps
      OBVIOUS
    <2>2. operation \in {"pause", "resume"} /\ s \in StepsOf(operation) /\ callback \in Range(s)
      BY <2>1, CallMoves DEF OffloadInv
    <2> QED BY <2>2, CallSteps
  <1>2. /\ \A g \in Groups : CallbackOf[g] = callback /\ Registered(callback) => told'[g] = c[g]
        /\ \A g \in Groups : CallbackOf[g] # callback \/ ~Registered(callback) => told'[g] = told[g]
    BY CallbackOfGroup DEF Dispatch
  <1>3. c \in [Groups -> SUBSET Flags]
    BY DEF Nothing, OffloadInv, OffloadType
  <1>4. told' \in [Groups -> SUBSET Flags]
    BY <1>3 DEF Dispatch, OffloadInv, OffloadType
  <1>5. \A g \in Groups : c[g] \in {{}, active[g]}
    BY DEF Nothing
  <1>6. CallbackOf["v1"] = "v1"
    BY CallbackOfGroup DEF Members, Groups, Callbacks
  <1> QED BY <1>1, <1>2, <1>4, <1>5, <1>6

\* A step of EndOfStep: the call goes on, or it is over.
LEMMA CallGoesOn ==
  ASSUME OffloadInv, NEW operation, NEW steps, CallAt(operation, steps),
         offloadCall' = EndOfStep(offloadCall)
  PROVE  /\ offloadCall' \in DriverCalls \cup {Nil}
         /\ InCall' => /\ offloadCall'.alone = offloadCall.alone
                       /\ offloadCall'.current = offloadCall.current
                       /\ offloadCall'.operation = operation
                       /\ offloadCall'.steps \in StepsOf(operation)
                       /\ Waiting(offloadCall') =
                            Waiting(offloadCall) \ {Head(offloadCall.steps)}
                       /\ last' = last
         /\ ~InCall' => /\ Waiting(offloadCall) = {Head(offloadCall.steps)}
                        /\ last' = IF offloadCall.alone THEN operation ELSE "torn"
  <1>1. PICK s, callback : s = offloadCall.steps /\ callback = Head(offloadCall.steps)
    OBVIOUS
  <1>2. InCall /\ operation \in {"pause", "resume"} /\ offloadCall.operation = operation
    BY <1>1, CallMoves DEF OffloadInv
  <1>3. CASE Len(s) # 1
    <2>1. /\ offloadCall' = [operation |-> operation, steps |-> Tail(s),
                             current |-> offloadCall.current, alone |-> offloadCall.alone]
          /\ Tail(s) \in StepsOf(operation) /\ last' = last
          /\ Range(Tail(s)) = Waiting(offloadCall) \ {callback}
      BY <1>1, <1>3, CallMoves DEF OffloadInv
    <2>2. offloadCall' \in DriverCalls
      BY <1>2, <2>1, CallShape DEF DriverCalls, StepsOf, StepsOfPause, StepsOfResume, OffloadInv
    <2>3. InCall'
      BY <2>2, OffloadAssumption DEF InCall
    <2> QED BY <1>1, <2>1, <2>2, <2>3 DEF Waiting
  <1>4. CASE Len(s) = 1
    <2>1. /\ offloadCall' = Nil /\ Waiting(offloadCall) = {callback}
          /\ last' = IF offloadCall.alone THEN operation ELSE "torn"
      BY <1>1, <1>4, CallMoves DEF OffloadInv
    <2> QED BY <1>1, <2>1 DEF InCall
  <1> QED BY <1>3, <1>4

LEMMA PauseSteps ==
  ASSUME OffloadInv, PauseNdis \/ PauseGroup
  PROVE  OffloadInv'
  <1>1. PICK steps : CallAt("pause", steps)
    BY DEF PauseNdis, PauseGroup
  <1>2. PICK callback : callback = Head(offloadCall.steps)
    OBVIOUS
  <1>3. InCall /\ offloadCall.operation = "pause" /\ UNCHANGED <<scenario, active>>
    BY <1>1, CallMoves DEF OffloadInv
  <1>4. offloadCall' = EndOfStep(offloadCall)
    BY DEF PauseNdis, PauseGroup
  <1>5. /\ told' \in [Groups -> SUBSET Flags]
        /\ \A g \in Groups :
             told'[g] # told[g] => /\ g # "v1" /\ Registered(CallbackOf[g])
                                   /\ told'[g] \in {{}, active[g]}
    <2>1. CASE PauseNdis
      BY <2>1 DEF PauseNdis, OffloadInv, OffloadType
    <2>2. CASE PauseGroup
      <3>1. CallAt("pause", Callbacks) /\ Dispatch(callback, Nothing) /\ callback \in Callbacks
        BY <1>2, <2>2 DEF PauseGroup, CallAt
      <3> QED BY <1>2, <3>1, CallTells
    <2> QED BY <2>1, <2>2
  <1>6. /\ OffloadType' /\ Threads' /\ LeftOut' /\ RequestBehind' /\ Kept'
        /\ kept' /\ (offloadRequest' # Nil => offloadRequest'.operation = "request") =>
             \A g \in {"ip", "rsc"} : active'[g] \subseteq DefaultCapabilities'[g]
    BY <1>1, <1>4, <1>5, CallGoesOn, CallKeeps
  \* What is behind the call once the step is done.
  <1>7. ASSUME offloadCall.alone
        PROVE  LET rest == Waiting(offloadCall) \ {callback}
               IN  /\ "hardware" \notin rest => ndisHardware' = {}
                   /\ "current" \notin rest => ndisCurrent' = {}
                   /\ \A g \in Groups \ {"v1"} : CallbackOf[g] \notin rest => told'[g] = {}
    <2>1. /\ "hardware" \notin Waiting(offloadCall) => ndisHardware = {}
          /\ "current" \notin Waiting(offloadCall) => ndisCurrent = {}
          /\ \A g \in Groups \ {"v1"} : CallbackOf[g] \notin Waiting(offloadCall) => told[g] = {}
      BY <1>3, <1>7 DEF PauseBehind, OffloadInv
    <2>2. CASE PauseNdis
      <3>1. /\ callback \in {"hardware", "current"} /\ told' = told
            /\ callback = "hardware" => ndisHardware' = {} /\ ndisCurrent' = ndisCurrent
            /\ callback = "current" => ndisCurrent' = {} /\ ndisHardware' = ndisHardware
        BY <1>2, <2>2 DEF PauseNdis, CallAt
      <3>2. \A g \in Groups : CallbackOf[g] # callback
        BY <3>1, CallbackOfGroup DEF Callbacks
      <3> QED BY <2>1, <3>1, <3>2
    <2>3. CASE PauseGroup
      <3>1. /\ callback \in Callbacks /\ UNCHANGED <<ndisHardware, ndisCurrent>>
            /\ CallAt("pause", Callbacks) /\ Dispatch(callback, Nothing)
        BY <1>2, <2>3 DEF PauseGroup, CallAt
      <3>2. /\ \A g \in Groups : CallbackOf[g] = callback /\ Registered(callback) =>
                 told'[g] = Nothing[g]
            /\ \A g \in Groups : CallbackOf[g] # callback \/ ~Registered(callback) =>
                 told'[g] = told[g]
        BY <1>2, <3>1, CallTells
      <3>3. \A g \in Groups : Nothing[g] = {}
        BY DEF Nothing
      <3>4. \A g \in Groups : CallbackOf[g] = callback => told'[g] = {}
        BY <3>2, <3>3 DEF LeftOut, OffloadInv
      <3>5. callback # "hardware" /\ callback # "current"
        BY <3>1 DEF Callbacks
      <3> QED BY <2>1, <3>1, <3>2, <3>4, <3>5
    <2> QED BY <2>2, <2>3
  <1>8. PauseBehind' /\ ResumeBehind'
    <2>1. InCall' => /\ offloadCall'.operation = "pause"
                     /\ offloadCall'.alone = offloadCall.alone
                     /\ Waiting(offloadCall') = Waiting(offloadCall) \ {callback}
      BY <1>1, <1>2, <1>4, CallGoesOn
    <2> QED BY <1>7, <2>1 DEF PauseBehind, ResumeBehind
  <1>9. OffloadsAgree'
    <2>1. CASE InCall'
      BY <1>6, <2>1 DEF OffloadsAgree, Quiet, InCall
    <2>2. CASE ~InCall'
      <3>1. /\ Waiting(offloadCall) \ {callback} = {}
            /\ last' = IF offloadCall.alone THEN "pause" ELSE "torn"
        BY <1>1, <1>2, <1>4, <2>2, CallGoesOn
      <3>2. offloadCall.alone => /\ ndisHardware' = {} /\ ndisCurrent' = {}
                                 /\ \A g \in Groups \ {"v1"} : told'[g] = {}
        BY <1>7, <3>1
      <3> QED BY <1>6, <3>1, <3>2 DEF OffloadsAgree
    <2> QED BY <2>1, <2>2
  <1> QED BY <1>6, <1>8, <1>9 DEF OffloadInv

LEMMA ResumeGroups ==
  ASSUME OffloadInv, ResumeGroup
  PROVE  OffloadInv'
  <1>1. PICK callback : callback = Head(offloadCall.steps)
    OBVIOUS
  <1>2. /\ CallAt("resume", Callbacks) /\ Dispatch(callback, active) /\ callback \in Callbacks
        /\ offloadCall' = EndOfStep(offloadCall)
        /\ UNCHANGED <<ndisHardware, ndisCurrent>>
    BY <1>1 DEF ResumeGroup, CallAt
  <1>3. PICK s : s = offloadCall.steps
    OBVIOUS
  <1>4. /\ InCall /\ offloadCall.operation = "resume" /\ UNCHANGED <<scenario, active>>
        /\ s \in StepsOfResume /\ Waiting(offloadCall) = Range(s)
    BY <1>2, <1>3, CallMoves DEF OffloadInv, StepsOf
  <1>5. /\ told' \in [Groups -> SUBSET Flags]
        /\ \A g \in Groups :
             told'[g] # told[g] => /\ g # "v1" /\ Registered(CallbackOf[g])
                                   /\ told'[g] \in {{}, active[g]}
        /\ \A g \in Groups : CallbackOf[g] = callback /\ Registered(callback) =>
             told'[g] = active[g]
        /\ \A g \in Groups : CallbackOf[g] # callback \/ ~Registered(callback) =>
             told'[g] = told[g]
    BY <1>1, <1>2, CallTells
  <1>6. /\ OffloadType' /\ Threads' /\ LeftOut' /\ RequestBehind' /\ Kept'
        /\ kept' /\ (offloadRequest' # Nil => offloadRequest'.operation = "request") =>
             \A g \in {"ip", "rsc"} : active'[g] \subseteq DefaultCapabilities'[g]
    BY <1>2, <1>5, CallGoesOn, CallKeeps
  <1>7. callback \in Callbacks /\ "hardware" \in Range(s) /\ Len(s) # 1
    BY <1>1, <1>2, <1>3, <1>4, ResumeProgress DEF Callbacks
  <1>8. InCall'
    <2>1. "hardware" # callback
      BY <1>2 DEF Callbacks
    <2> QED BY <1>1, <1>2, <1>4, <1>7, <2>1, CallGoesOn
  <1>9. /\ offloadCall'.operation = "resume" /\ offloadCall'.alone = offloadCall.alone
        /\ Waiting(offloadCall') = Waiting(offloadCall) \ {callback}
    BY <1>1, <1>2, <1>8, CallGoesOn
  <1>10. ResumeBehind'
    <2>1. "hardware" \in Waiting(offloadCall')
      BY <1>2, <1>4, <1>7, <1>9 DEF Callbacks
    <2>2. ASSUME offloadCall.alone, NEW g \in Groups \ {"v1"},
                 CallbackOf[g] \notin Waiting(offloadCall')
          PROVE  told'[g] \cap Limit(g) = active[g] \cap Limit(g)
      <3>1. CASE CallbackOf[g] = callback /\ Registered(callback)
        BY <1>5, <3>1
      <3>2. CASE CallbackOf[g] = callback /\ ~Registered(callback)
        <4>1. Limit(g) = {}
          BY <1>2, <3>2, HardwareTyped DEF Limit, OffloadInv
        <4> QED BY <4>1
      <3>3. CASE CallbackOf[g] # callback
        BY <1>4, <1>5, <1>9, <2>2, <3>3 DEF ResumeBehind, Agreed, OffloadInv
      <3> QED BY <3>1, <3>2, <3>3
    <2> QED BY <1>4, <1>9, <2>1, <2>2, SameDriver DEF ResumeBehind, Agreed
  <1>11. PauseBehind'
    BY <1>9 DEF PauseBehind
  <1>12. OffloadsAgree'
    BY <1>6, <1>8 DEF OffloadsAgree, Quiet, InCall
  <1> QED BY <1>6, <1>10, <1>11, <1>12 DEF OffloadInv

LEMMA ResumeHardwareStep ==
  ASSUME OffloadInv, ResumeHardware
  PROVE  OffloadInv'
  <1>1. PICK s : s = offloadCall.steps
    OBVIOUS
  <1>2. /\ CallAt("resume", {"hardware"}) /\ Head(s) = "hardware"
        /\ offloadCall' = [EndOfStep(offloadCall) EXCEPT !.current = NdisOffload(active)]
        /\ UNCHANGED <<ndisCurrent, told>>
    BY <1>1 DEF ResumeHardware, CallAt
  <1>3. /\ InCall /\ offloadCall.operation = "resume" /\ UNCHANGED <<scenario, active>>
        /\ s \in StepsOfResume /\ Waiting(offloadCall) = Range(s)
    BY <1>1, <1>2, CallMoves DEF OffloadInv, StepsOf
  <1>4. Len(s) # 1 /\ Range(s) = {"hardware", "current"} /\ Tail(s) \in StepsOfResume
    BY <1>2, <1>3, ResumeProgress
  <1>5. /\ EndOfStep(offloadCall) =
             [operation |-> "resume", steps |-> Tail(s), current |-> offloadCall.current,
              alone |-> offloadCall.alone]
        /\ Range(Tail(s)) = {"current"} /\ last' = last
    BY <1>1, <1>2, <1>3, <1>4, CallMoves DEF OffloadInv
  <1>6. offloadCall' = [operation |-> "resume", steps |-> Tail(s),
                        current |-> NdisOffload(active), alone |-> offloadCall.alone]
    <2>1. PICK now, rest : now = NdisOffload(active) /\ rest = Tail(s)
      OBVIOUS
    <2>2. [[operation |-> "resume", steps |-> rest, current |-> offloadCall.current,
            alone |-> offloadCall.alone] EXCEPT !.current = now]
          = [operation |-> "resume", steps |-> rest, current |-> now,
             alone |-> offloadCall.alone]
      OBVIOUS
    <2>3. offloadCall' = [EndOfStep(offloadCall) EXCEPT !.current = now]
      BY <1>2, <2>1, Zenon
    <2> QED BY <1>5, <2>1, <2>2, <2>3, Zenon
  <1>7. NdisOffload(active) \in SUBSET (Groups \X Flags)
    BY NdisTyped DEF OffloadInv, OffloadType
  <1>8. offloadCall' \in DriverCalls
    BY <1>3, <1>4, <1>6, <1>7, CallShape DEF DriverCalls, StepsOfResume, OffloadInv
  <1>9. InCall'
    BY <1>8, OffloadAssumption DEF InCall
  <1>10. /\ OffloadType' /\ Threads' /\ LeftOut' /\ RequestBehind' /\ Kept'
         /\ kept' /\ (offloadRequest' # Nil => offloadRequest'.operation = "request") =>
              \A g \in {"ip", "rsc"} : active'[g] \subseteq DefaultCapabilities'[g]
    <2>1. told' \in [Groups -> SUBSET Flags] /\ told' = told
      BY <1>2 DEF OffloadInv, OffloadType
    <2>2. /\ offloadCall'.alone = offloadCall.alone /\ offloadCall'.operation = "resume"
          /\ offloadCall'.steps \in StepsOf("resume")
      BY <1>4, <1>6 DEF StepsOf
    <2> QED BY <1>2, <1>8, <2>1, <2>2, CallKeeps
  <1>11. PauseBehind'
    BY <1>6 DEF PauseBehind
  <1>12. ResumeBehind'
    <2>1. Waiting(offloadCall') = {"current"} /\ offloadCall'.current = NdisOffload(active)
      BY <1>5, <1>6 DEF Waiting
    <2>2. \A g \in Groups : CallbackOf[g] \notin {"hardware", "current"}
      BY CallbackOfGroup DEF Callbacks
    <2>3. offloadCall.alone => \A g \in Groups \ {"v1"} : Agreed(g)
      BY <1>3, <1>4, <2>2 DEF ResumeBehind, OffloadInv
    <2> QED BY <1>2, <1>3, <1>6, <2>1, <2>3, SameDriver DEF ResumeBehind, Agreed
  <1>13. OffloadsAgree'
    BY <1>9, <1>10 DEF OffloadsAgree, Quiet, InCall
  <1> QED BY <1>10, <1>11, <1>12, <1>13 DEF OffloadInv

LEMMA ResumeCurrentStep ==
  ASSUME OffloadInv, ResumeCurrent
  PROVE  OffloadInv'
  <1>1. PICK s : s = offloadCall.steps
    OBVIOUS
  <1>2. /\ CallAt("resume", {"current"}) /\ Head(s) = "current"
        /\ offloadCall' = EndOfStep(offloadCall) /\ ndisCurrent' = offloadCall.current
        /\ told' = told
    BY <1>1 DEF ResumeCurrent, CallAt
  <1>3. /\ InCall /\ offloadCall.operation = "resume" /\ UNCHANGED <<scenario, active>>
        /\ s \in StepsOfResume
    BY <1>1, <1>2, CallMoves DEF OffloadInv, StepsOf
  <1>4. Len(s) = 1
    BY <1>2, <1>3, ResumeProgress
  <1>5. /\ ~InCall' /\ Waiting(offloadCall) = {"current"}
        /\ last' = IF offloadCall.alone THEN "resume" ELSE "torn"
    BY <1>1, <1>2, <1>4, CallMoves DEF InCall, OffloadInv
  <1>6. /\ OffloadType' /\ Threads' /\ LeftOut' /\ RequestBehind' /\ Kept'
        /\ kept' /\ (offloadRequest' # Nil => offloadRequest'.operation = "request") =>
             \A g \in {"ip", "rsc"} : active'[g] \subseteq DefaultCapabilities'[g]
    <2>1. told' \in [Groups -> SUBSET Flags]
      BY <1>2 DEF OffloadInv, OffloadType
    <2> QED BY <1>2, <2>1, CallGoesOn, CallKeeps
  <1>7. PauseBehind' /\ ResumeBehind'
    BY <1>5 DEF PauseBehind, ResumeBehind
  <1>8. OffloadsAgree'
    <2>1. \A g \in Groups : CallbackOf[g] # "current"
      BY CallbackOfGroup DEF Callbacks
    <2>2. offloadCall.alone => /\ \A g \in Groups \ {"v1"} : Agreed(g)
                               /\ offloadCall.current = NdisOffload(active)
      BY <1>3, <1>5, <2>1 DEF ResumeBehind, OffloadInv
    <2>3. Agreed("v1")
      <3>1. CASE IsChecksumOffloadV1Used
        BY <3>1 DEF Agreed, LeftOut, OffloadInv
      <3>2. CASE ~IsChecksumOffloadV1Used
        BY <3>2, ConcernedGroups, AgreedElsewhere DEF Groups
      <3> QED BY <3>1, <3>2
    <2>4. offloadCall.alone => \A g \in Groups : told[g] \cap Limit(g) = active[g] \cap Limit(g)
      BY <2>2, <2>3 DEF Agreed
    <2> QED BY <1>2, <1>3, <1>5, <1>6, <2>2, <2>4, SameDriver DEF OffloadsAgree
  <1> QED BY <1>6, <1>7, <1>8 DEF OffloadInv

LEMMA NextOffload ==
  OffloadInv /\ [OffloadNext]_offloadVars => OffloadInv'
  <1> SUFFICES ASSUME OffloadInv, [OffloadNext]_offloadVars PROVE OffloadInv'
    OBVIOUS
  <1>1. CASE UNCHANGED offloadVars
    <2>1. /\ (InRequest' <=> InRequest) /\ (InCall' <=> InCall)
          /\ UNCHANGED <<scenario, registry, active, told, ndisHardware, ndisCurrent,
                         offloadRequest, offloadCall, last, kept>>
      BY <1>1 DEF offloadVars, InRequest, InCall
    <2>2. OffloadType' /\ Threads' /\ LeftOut'
      BY <2>1, SameDriver DEF OffloadInv, OffloadType, Threads, LeftOut
    <2>3. RequestBehind' /\ Kept'
      BY <2>1, SameDriver DEF OffloadInv, RequestBehind, Reached, Agreed, Kept, Waiting
    <2>4. PauseBehind' /\ ResumeBehind'
      BY <2>1, SameDriver DEF OffloadInv, PauseBehind, ResumeBehind, Agreed, Waiting
    <2>5. OffloadsAgree'
      BY <2>1, SameDriver DEF OffloadInv, OffloadsAgree, Quiet
    <2> QED BY <2>2, <2>3, <2>4, <2>5 DEF OffloadInv
  <1>2. CASE OffloadNext
    BY <1>2, RegistryChanges, BeginsInvariant, GroupsInvariant, RequestEnds, CallBegins,
      PauseSteps, ResumeGroups, ResumeHardwareStep, ResumeCurrentStep DEF OffloadNext
  <1> QED BY <1>1, <1>2

-----------------------------------------------------------------------------
(***************************************************************************)
(* Theorems.                                                               *)
(***************************************************************************)

\* The inductive invariant: each thread has done to all groups behind it what it
\* does, and whoever runs alone can rely on it; groups that no request reaches are
\* empty in the translator and at the driver (NxTaskOffload).
THEOREM OffloadInvariant == OffloadSpec => []OffloadInv
  BY InitOffload, NextOffload, PTL DEF OffloadSpec

\* After an initialization, a request or a resume that nothing interrupts, NDIS, the
\* translator and the driver's callbacks agree about every offload, a pause leaves
\* none on, and no request turns on what the registry has turned off.
THEOREM OffloadsAgreeAlways == OffloadSpec => []OffloadsAgree
  <1>1. OffloadInv => OffloadsAgree
    BY DEF OffloadInv
  <1> QED BY <1>1, OffloadInvariant, PTL

-----------------------------------------------------------------------------
(* Receive scaling.                                                         *)


Counts == EntryCounts \cup {TableSize}

-----------------------------------------------------------------------------
(* The switch. While a request has enabled the driver with a new hash and   *)
(* has not ended, the adapter is ahead of the translator and of NDIS.       *)

ScalingRequests == [step : {"entries", "switch", "key", "hash", "enable"},
             parameters : ScalingParameters]

Ahead == request.step = "enable" /\ request.parameters.hash # None

SwitchInv ==
  /\ enabled \in BOOLEAN /\ adapterEnabled \in BOOLEAN
  /\ DOMAIN driver = {"enabled", "hash"}
  /\ DOMAIN ndis = {"enabled", "hash", "number", "processor"}
  /\ request \in ScalingRequests \cup {NoRequest}
  /\ request # NoRequest =>
       /\ datapath = "created"
       /\ request.parameters.enable \/ request.parameters.hash = None
       /\ request.step \in {"key", "hash", "enable"} => request.parameters.enable
  /\ ndis.enabled = enabled
  /\ driver.enabled = adapterEnabled
  /\ adapterEnabled => driver.hash = hash
  /\ IF Ahead THEN adapterEnabled /\ hash = request.parameters.hash
              ELSE adapterEnabled = enabled /\ hash = ndis.hash

-----------------------------------------------------------------------------
(* The table. The driver's table is the cache except where entries move,    *)
(* where what a move would restore is what the driver has.                  *)

Partial(T) == UNION {[S -> T] : S \in SUBSET Entries}

Moves == [entries : (SUBSET Entries) \ {{}}, left : SUBSET Entries,
          target : Partial(Processors), mapping : BOOLEAN, queue : Partial(Nat),
          restore : Partial(Queues \cup {None})]

TableTypeOK ==
  /\ queueCount \in QueueCounts
  /\ datapath \in {"destroyed", "configuring", "created"} /\ rss \in BOOLEAN
  /\ table \in [Entries -> Queues] /\ number \in 1 .. TableSize
  /\ driverTable \in [Entries -> Queues \cup {None}]
  /\ slots \in [Processors -> Queues \cup {None}]
  /\ ndis.number \in Counts /\ ndis.processor \in [Entries -> Processors]
  /\ move \in [Processors -> Moves \cup {NoMove}]
  /\ push.left \in SUBSET Entries

\* The entry has its new queue in the cache, and not yet in the driver.
Changed(p) == IF move[p] = NoMove THEN {} ELSE move[p].entries \ move[p].left

MoveInv(p) ==
  LET m == move[p]
  IN  m # NoMove =>
        /\ \A i \in m.entries : i < ndis.number /\ ndis.processor[i] = p
        /\ m.left \subseteq m.entries
        /\ DOMAIN m.target = m.entries /\ DOMAIN m.queue = m.entries
        /\ DOMAIN m.restore = m.entries
        /\ m.mapping => m.left # {}
        /\ \A i \in Changed(p) : m.queue[i] = table[i] /\ m.restore[i] \in Queues
        /\ \A i \in m.left \ overwritten : driverTable[i] = table[i]
        /\ \A i \in Changed(p) \ overwritten : m.restore[i] = driverTable[i]

RequestInv ==
  LET n == request.parameters.number
  IN  request # NoRequest /\ n # None =>
        /\ Moving = {}
        /\ request.step # "entries" => number = n

TableInv ==
  /\ \A p \in Processors : MoveInv(p)
  /\ Moving # {} => datapath = "created" /\ rss
  /\ request # NoRequest => rss
  /\ RequestInv
  /\ ~rss => driverTable = table
  /\ datapath = "configuring" => \A i \in Entries \ push.left : driverTable[i] = table[i]
  /\ datapath = "created" =>
       \A i \in Entries \ Moving :
         /\ i < ndis.number /\ i \notin overwritten => driverTable[i] = table[i]
         /\ ndis.number <= i /\ i < number => driverTable[i] = table[i]

-----------------------------------------------------------------------------
(* The processors. With enough queues a slot keeps its queue for good, and  *)
(* but for overwritten entries the cache has the queue in the slot of the   *)
(* processor that NDIS chose, or will have chosen when the request ends.    *)

\* The processor of entry i when NDIS uses n entries.
ProcessorOf(n, i) == ndis.processor[Meant(n, i)]

RequestedInv ==
  LET n == request.parameters.number
  IN  request # NoRequest /\ n # None /\ request.step # "entries" =>
        \A i \in Entries \ overwritten : i < n => slots[ProcessorOf(n, i)] = table[i]

ProcessorsInv ==
  /\ \A p, r \in Processors : slots[p] # None /\ slots[p] = slots[r] => p = r
  /\ ~rss => /\ slots = [p \in Processors |-> None] /\ table = [i \in Entries |-> 0]
             /\ ndis.processor = [i \in Entries |-> DefaultProcessor]
  /\ rss => slots[DefaultProcessor] # None
  /\ rss => \A i \in Entries \ overwritten :
              i < ndis.number /\ (\A p \in Processors : i \notin Changed(p))
                => slots[ndis.processor[i]] = table[i]
  /\ rss => \A p \in Processors : \A i \in Changed(p) :
              /\ i \notin overwritten => slots[p] = move[p].restore[i]
              /\ slots[move[p].target[i]] = table[i]
  /\ rss /\ datapath # "destroyed" =>
       /\ affinity \in [Queues -> Processors \cup {None}]
       /\ \A q \in Queues : affinity[q] # None => slots[affinity[q]] = q
       /\ \A p \in Processors : slots[p] # None => affinity[slots[p]] = p
  /\ RequestedInv

-----------------------------------------------------------------------------
LEMMA SwitchInit == ScalingInit => SwitchInv
  <1> SUFFICES ASSUME ScalingInit PROVE SwitchInv
    OBVIOUS
  <1>1. ~Ahead
    BY DEF ScalingInit, Ahead, NoRequest
  <1> QED BY <1>1 DEF ScalingInit, SwitchInv

LEMMA SwitchUnchanged ==
  ASSUME SwitchInv, UNCHANGED <<enabled, adapterEnabled, hash, driver, request>>,
         datapath' = "created" \/ request = NoRequest,
         DOMAIN ndis' = DOMAIN ndis, ndis'.enabled = ndis.enabled, ndis'.hash = ndis.hash
  PROVE  SwitchInv'
  BY DEF SwitchInv, Ahead

LEMMA RequestType ==
  ASSUME SwitchInv, NEW step \in {"entries", "switch", "key", "hash", "enable"},
         request.step = step
  PROVE  request # NoRequest /\ request \in ScalingRequests
  BY DEF SwitchInv, NoRequest

\* A request that goes on to another step, or fails.
LEMMA NextStepType ==
  ASSUME SwitchInv, NEW step \in {"switch", "key", "hash", "enable"},
         request # NoRequest, NextStep(step)
  PROVE  /\ request' \in ScalingRequests /\ request' # NoRequest /\ request'.step = step
         /\ request'.parameters = request.parameters
  <1>1. request \in ScalingRequests
    BY DEF SwitchInv
  <1> QED BY <1>1 DEF NextStep, ScalingRequests, NoRequest

LEMMA SwitchStep == SwitchInv /\ [ScalingNext]_scalingVars => SwitchInv'
  <1> SUFFICES ASSUME SwitchInv, [ScalingNext]_scalingVars PROVE SwitchInv'
    OBVIOUS
  <1>1. CASE ReceiveScalingInitialize
    BY <1>1, SwitchUnchanged DEF ReceiveScalingInitialize, adapter, Created
  <1>2. CASE CreateDatapath
    <2>1. request = NoRequest
      BY <1>2 DEF CreateDatapath, SwitchInv
    <2> QED BY <1>2, <2>1, SwitchUnchanged DEF CreateDatapath, adapter
  <1>3. CASE PushEntries
    BY <1>3, SwitchUnchanged DEF PushEntries, adapter, translator, SwitchInv
  <1>4. CASE RestoreEnabled
    <2>1. request = NoRequest /\ ~Ahead
      BY <1>4 DEF RestoreEnabled, SwitchInv, Ahead, NoRequest
    <2>2. enabled => adapterEnabled /\ Enabled(driver) = driver
      BY <2>1 DEF SwitchInv, Enabled
    <2>3. UNCHANGED <<enabled, adapterEnabled, hash, driver, request, ndis>>
      BY <1>4, <2>2 DEF RestoreEnabled, translator, SwitchInv
    <2> QED BY <2>1, <2>3, SwitchUnchanged
  <1>5. CASE DestroyDatapath
    BY <1>5, SwitchUnchanged DEF DestroyDatapath, adapter
  <1>6. ASSUME NEW p \in ScalingParameters, ReceiveScalingSetParameters(p)
        PROVE  SwitchInv'
    <2>1. /\ request = NoRequest /\ datapath = "created"
          /\ request' = [step |-> "entries", parameters |-> p]
          /\ p.enable \/ p.hash = None
          /\ UNCHANGED <<enabled, adapterEnabled, hash, driver, ndis, datapath>>
      BY <1>6 DEF ReceiveScalingSetParameters, translator, adapter, Created
    <2>2. request' \in ScalingRequests /\ request'.step = "entries" /\ request'.parameters = p
      BY <2>1 DEF ScalingRequests
    <2>3. ~Ahead /\ ~Ahead'
      BY <2>1, <2>2 DEF Ahead, NoRequest
    <2> QED BY <2>1, <2>2, <2>3 DEF SwitchInv
  <1>7. CASE EvaluateIndirectionTableEntries
    <2>1. /\ request # NoRequest /\ ~Ahead
          /\ UNCHANGED <<enabled, adapterEnabled, hash, driver, ndis, datapath>>
          /\ NextStep("switch") \/ request' = NoRequest
      BY <1>7, RequestType DEF EvaluateIndirectionTableEntries, At, Fail, adapter, Ahead
    <2>2. CASE request' = NoRequest
      BY <2>1, <2>2 DEF SwitchInv, Ahead, NoRequest
    <2>3. CASE NextStep("switch")
      BY <2>1, <2>3, NextStepType DEF SwitchInv, Ahead
    <2> QED BY <2>1, <2>2, <2>3
  <1>8. CASE EvaluateDisable
    <2>1. request # NoRequest /\ request \in ScalingRequests /\ ~Ahead
      BY <1>8, RequestType DEF EvaluateDisable, At, Ahead
    <2>2. CASE request.parameters.enable
      <3>1. /\ NextStep("key")
            /\ UNCHANGED <<enabled, adapterEnabled, hash, driver, ndis, datapath>>
        BY <1>8, <2>2 DEF EvaluateDisable
      <3> QED BY <2>1, <2>2, <3>1, NextStepType DEF SwitchInv, Ahead
    <2>3. CASE ~request.parameters.enable
      <3>1. /\ Disable /\ enabled' = FALSE /\ Succeed /\ UNCHANGED <<hash, datapath>>
        BY <1>8, <2>3 DEF EvaluateDisable
      <3>2. request.parameters.enable = FALSE /\ request.parameters.hash = None
        BY <2>1, <2>3 DEF SwitchInv, ScalingRequests, ScalingParameters
      <3>3. /\ request' = NoRequest /\ ndis'.enabled = FALSE /\ ndis'.hash = ndis.hash
            /\ DOMAIN ndis' = {"enabled", "hash", "number", "processor"}
        BY <3>1, <3>2 DEF Succeed
      <3>4. adapterEnabled' = FALSE /\ driver'.enabled = FALSE
            /\ DOMAIN driver' = {"enabled", "hash"}
        BY <3>1 DEF Disable, SwitchInv
      <3>5. ~Ahead'
        BY <3>3 DEF Ahead, NoRequest
      <3> QED BY <2>1, <3>1, <3>3, <3>4, <3>5 DEF SwitchInv
    <2> QED BY <2>2, <2>3
  <1>9. CASE EvaluateHashSecretKey
    <2>1. /\ request # NoRequest /\ ~Ahead
          /\ request.step = "key"
          /\ UNCHANGED <<enabled, adapterEnabled, hash, driver, ndis, datapath>>
          /\ NextStep("hash") \/ request' = NoRequest
      BY <1>9, RequestType DEF EvaluateHashSecretKey, At, Fail, adapter, translator, Ahead
    <2>2. CASE request' = NoRequest
      BY <2>1, <2>2 DEF SwitchInv, Ahead, NoRequest
    <2>3. CASE NextStep("hash")
      BY <2>1, <2>3, NextStepType DEF SwitchInv, Ahead
    <2> QED BY <2>1, <2>2, <2>3
  <1>10. CASE EvaluateHashInfo
    <2>1. request # NoRequest /\ request.step = "hash" /\ ~Ahead
      BY <1>10, RequestType DEF EvaluateHashInfo, At, Ahead
    <2>2. UNCHANGED <<enabled, datapath, ndis>>
      BY <1>10 DEF EvaluateHashInfo, translator, Fail
    <2>3. CASE request.parameters.hash = None /\ NextStep("enable") /\ UNCHANGED <<adapter, driver>>
      BY <2>1, <2>2, <2>3, NextStepType DEF SwitchInv, Ahead, adapter
    <2>4. CASE Fail /\ UNCHANGED <<adapter, driver>>
      BY <2>1, <2>2, <2>4 DEF SwitchInv, Ahead, NoRequest, Fail, adapter
    <2>5. CASE /\ request.parameters.hash \in SupportedHashes
               /\ SetHashInfo(request.parameters.hash) /\ NextStep("enable")
      <3>1. request.parameters.hash # None
        BY <2>5, ScalingAssumption
      <3>2. /\ request' \in ScalingRequests /\ request' # NoRequest /\ request'.step = "enable"
            /\ request'.parameters = request.parameters
        BY <2>1, <2>5, NextStepType
      <3>3. /\ hash' = request.parameters.hash /\ adapterEnabled' = TRUE
            /\ driver'.enabled = TRUE /\ driver'.hash = hash'
            /\ DOMAIN driver' = {"enabled", "hash"}
        BY <2>5 DEF SetHashInfo, SwitchInv
      <3>4. Ahead'
        BY <3>1, <3>2 DEF Ahead
      <3> QED BY <2>1, <2>2, <3>2, <3>3, <3>4 DEF SwitchInv
    <2>6. CASE UNCHANGED <<adapter, driver, request>>
      BY <2>1, <2>2, <2>6, SwitchUnchanged DEF adapter, SwitchInv
    <2> QED BY <1>10, <2>3, <2>4, <2>5, <2>6 DEF EvaluateHashInfo
  <1>11. CASE EvaluateEnable
    <2>1. /\ request # NoRequest /\ request \in ScalingRequests /\ request.step = "enable"
          /\ UNCHANGED <<hash, datapath>>
      BY <1>11, RequestType DEF EvaluateEnable, At
    <2>2. CASE Enable /\ enabled' = TRUE /\ Succeed
      <3>1. request.parameters.enable = TRUE
        BY <2>1 DEF SwitchInv, ScalingRequests, ScalingParameters
      <3>2. /\ request' = NoRequest /\ ndis'.enabled = TRUE
            /\ DOMAIN ndis' = {"enabled", "hash", "number", "processor"}
            /\ ndis'.hash = IF request.parameters.hash = None THEN ndis.hash
                                                              ELSE request.parameters.hash
        BY <2>2, <3>1 DEF Succeed
      <3>3. /\ adapterEnabled' = TRUE /\ driver'.enabled = TRUE /\ driver'.hash = hash
            /\ DOMAIN driver' = {"enabled", "hash"}
        BY <2>2 DEF Enable, Enabled, SwitchInv
      <3>4. hash = ndis'.hash
        BY <2>1, <3>2 DEF SwitchInv, Ahead
      <3>5. ~Ahead'
        BY <3>2 DEF Ahead, NoRequest
      <3> QED BY <2>1, <2>2, <3>2, <3>3, <3>4, <3>5 DEF SwitchInv
    <2>3. CASE ~adapterEnabled /\ Fail /\ UNCHANGED <<enabled, adapterEnabled, driver>>
      BY <2>1, <2>3 DEF SwitchInv, Ahead, NoRequest, Fail
    <2> QED BY <1>11, <2>2, <2>3 DEF EvaluateEnable
  <1>12. ASSUME NEW p \in Processors, NEW target, BeginMove(p, target)
         PROVE  SwitchInv'
    BY <1>12, SwitchUnchanged DEF BeginMove, translator, adapter, Created
  <1>13. ASSUME NEW p \in Processors,
                GetAffinitizedQueue(p) \/ MapAffinitizedQueue(p) \/ FinishMove(p)
         PROVE  SwitchInv'
    <2>1. UNCHANGED <<enabled, adapterEnabled, hash, driver, request, datapath>>
      BY <1>13 DEF GetAffinitizedQueue, MapAffinitizedQueue, FinishMove, adapter
    <2>2. DOMAIN ndis' = DOMAIN ndis /\ ndis'.enabled = ndis.enabled /\ ndis'.hash = ndis.hash
      BY <1>13 DEF GetAffinitizedQueue, MapAffinitizedQueue, FinishMove, SwitchInv
    <2> QED BY <2>1, <2>2, SwitchUnchanged DEF SwitchInv
  <1>14. CASE UNCHANGED scalingVars
    BY <1>14, SwitchUnchanged DEF scalingVars, SwitchInv
  <1> QED BY <1>1, <1>2, <1>3, <1>4, <1>5, <1>6, <1>7, <1>8, <1>9, <1>10, <1>11, <1>12,
             <1>13, <1>14 DEF ScalingNext

LEMMA SwitchesFollow == SwitchInv => SwitchesAgree
  <1> SUFFICES ASSUME SwitchInv, request = NoRequest PROVE
        /\ enabled = ndis.enabled /\ adapterEnabled = ndis.enabled
        /\ driver.enabled = ndis.enabled
        /\ ndis.enabled => driver.hash = ndis.hash
    BY DEF SwitchesAgree
  <1>1. ~Ahead
    BY DEF Ahead, NoRequest
  <1> QED BY <1>1 DEF SwitchInv

-----------------------------------------------------------------------------
(* Numbers.                                                                 *)

LEMMA CountsType == Counts \subseteq 1 .. TableSize /\ TableSize \in Nat \ {0}
  BY ScalingAssumption DEF Counts

LEMMA ModRange ==
  ASSUME NEW i \in Nat, NEW n \in Nat \ {0}
  PROVE  i % n \in 0 .. n - 1
  OBVIOUS

LEMMA ModSmall ==
  ASSUME NEW n \in Nat \ {0}, NEW i \in 0 .. n - 1
  PROVE  i % n = i
  OBVIOUS

LEMMA ModUnique ==
  ASSUME NEW m \in Nat \ {0}, NEW q \in Nat, NEW t \in 0 .. m - 1
  PROVE  (m * q + t) % m = t
  <1> DEFINE x == m * q + t
             d == x \div m
             u == x % m
  <1>1. x \in Nat /\ d \in Nat /\ u \in 0 .. m - 1 /\ x = m * d + u
    OBVIOUS
  <1>2. m * q + t = m * d + u
    BY <1>1
  <1> HIDE DEF x, d, u
  <1>3. CASE q < d
    <2>1. d >= q + 1
      BY <1>1, <1>3
    <2>2. m * d >= m * (q + 1) /\ m * (q + 1) = m * q + m
      BY <1>1, <2>1
    <2>3. m * d \in Nat /\ m * q \in Nat
      BY <1>1
    <2> QED BY <1>1, <1>2, <2>2, <2>3
  <1>4. CASE q > d
    <2>1. q >= d + 1
      BY <1>1, <1>4
    <2>2. m * q >= m * (d + 1) /\ m * (d + 1) = m * d + m
      BY <1>1, <2>1
    <2>3. m * d \in Nat /\ m * q \in Nat
      BY <1>1
    <2> QED BY <1>1, <1>2, <2>2, <2>3
  <1>5. CASE q = d
    <2>1. m * q \in Nat
      OBVIOUS
    <2>2. t = u
      BY <1>1, <1>2, <1>5, <2>1
    <2> QED BY <2>2 DEF x, u
  <1> QED BY <1>1, <1>3, <1>4, <1>5

LEMMA ModMod ==
  ASSUME NEW i \in Nat, NEW m \in Counts, NEW n \in Counts, m <= n
  PROVE  (i % n) % m = i % m
  <1>1. m \in Nat \ {0} /\ n \in Nat \ {0} /\ n % m = 0
    BY CountsType, ScalingAssumption DEF Counts
  <1> DEFINE a == i \div n
             b == n \div m
  <1>2. a \in Nat /\ b \in Nat /\ i = n * a + (i % n) /\ n = m * b
    BY <1>1
  <1> DEFINE r == i % n
             c == r \div m
             t == r % m
  <1>3. r \in Nat /\ c \in Nat /\ t \in 0 .. m - 1 /\ r = m * c + t
    BY <1>1
  <1> HIDE DEF a, b, r, c, t
  <1>4. i = m * (b * a + c) + t
    <2>1. i = (m * b) * a + (m * c + t)
      BY <1>2, <1>3 DEF r
    <2> QED BY <1>1, <1>2, <1>3, <2>1
  <1>5. b * a + c \in Nat
    BY <1>2, <1>3
  <1>6. i % m = t
    BY <1>1, <1>3, <1>4, <1>5, ModUnique
  <1> QED BY <1>6 DEF t, r

LEMMA DivTable ==
  ASSUME NEW n \in Counts
  PROVE  n * (TableSize \div n) = TableSize
  <1>1. n \in Nat \ {0} /\ TableSize \in Nat /\ TableSize % n = 0
    BY CountsType, ScalingAssumption DEF Counts
  <1> QED BY <1>1

LEMMA EntriesType == Entries \subseteq Nat /\ \A n \in 1 .. TableSize : 0 .. n - 1 \subseteq Entries
  BY CountsType DEF Entries

-----------------------------------------------------------------------------
(* The table: one lemma for each action that matters to it.                 *)

DriverInv == SwitchInv /\ TableTypeOK /\ TableInv

LEMMA MovesAreMoves == \A m \in Moves : m # NoMove
  <1> SUFFICES ASSUME NEW m \in Moves PROVE m.entries # NoMove.entries
    OBVIOUS
  <1> QED BY DEF Moves, NoMove

LEMMA MovingMembers ==
  ASSUME NEW i
  PROVE  i \in Moving <=> \E p \in Processors : i \in move[p].entries
  BY DEF Moving

LEMMA NothingMoves ==
  ASSUME TableTypeOK
  PROVE  /\ Moving = {} <=> \A p \in Processors : move[p] = NoMove
         /\ Moving \subseteq Entries
  <1>1. \A p \in Processors : move[p] = NoMove \/ move[p] \in Moves
    BY DEF TableTypeOK
  <1>2. NoMove.entries = {}
    BY DEF NoMove
  <1>3. \A m \in Moves : m.entries # {} /\ m.entries \subseteq Entries
    BY DEF Moves
  <1> QED BY <1>1, <1>2, <1>3, MovingMembers

LEMMA NumbersType ==
  ASSUME TableTypeOK
  PROVE  /\ ndis.number \in Counts /\ ndis.number \in 1 .. TableSize
         /\ ndis.number \in Nat \ {0} /\ number \in Nat \ {0} /\ TableSize \in Nat \ {0}
  <1>1. ndis.number \in Counts /\ number \in 1 .. TableSize
    BY DEF TableTypeOK
  <1>2. ndis.number \in 1 .. TableSize /\ TableSize \in Nat \ {0}
    BY <1>1, CountsType
  <1> QED BY <1>1, <1>2

LEMMA RequestParameters ==
  ASSUME DriverInv, request # NoRequest
  PROVE  /\ request.parameters.number \in EntryCounts \cup {None}
         /\ request.parameters.number # None => request.parameters.number \in Counts
  BY DEF DriverInv, SwitchInv, ScalingRequests, ScalingParameters, Counts

\* Steps that leave the table and the moves alone.
LEMMA TableUnchanged ==
  ASSUME TableTypeOK, TableInv,
         UNCHANGED <<queueCount, datapath, rss, table, number, slots, driverTable,
                     ndis.number, ndis.processor, move, push, overwritten>>,
         RequestInv', request' # NoRequest => rss
  PROVE  TableTypeOK' /\ TableInv'
  <1>1. UNCHANGED <<Moving, Queues, Moves>>
    BY DEF Moving, Queues, Moves
  <1>2. TableTypeOK'
    BY <1>1 DEF TableTypeOK
  <1>3. \A p \in Processors : MoveInv(p)'
    BY <1>1 DEF TableInv, MoveInv, Changed
  <1> QED BY <1>1, <1>2, <1>3 DEF TableInv

LEMMA SetParametersTable ==
  ASSUME DriverInv, NEW p \in ScalingParameters, ReceiveScalingSetParameters(p)
  PROVE  TableTypeOK' /\ TableInv'
  <1>1. /\ UNCHANGED <<queueCount, datapath, rss, table, number, slots, driverTable,
                       ndis, move, push, overwritten>>
        /\ rss /\ request' = [step |-> "entries", parameters |-> p]
        /\ p.number # None => Moving = {}
    BY DEF ReceiveScalingSetParameters, translator
  <1>2. Moving' = Moving
    BY <1>1 DEF Moving
  <1>3. RequestInv'
    BY <1>1, <1>2 DEF RequestInv
  <1> QED BY <1>1, <1>3, TableUnchanged DEF DriverInv

\* The last step of a request gives NDIS the number that the translator has.
LEMMA SucceedTable ==
  ASSUME DriverInv, request # NoRequest, request.step # "entries", Succeed,
         UNCHANGED <<queueCount, datapath, rss, table, number, slots, driverTable,
                     move, push, overwritten>>
  PROVE  TableTypeOK' /\ TableInv'
  <1> DEFINE n == request.parameters.number
  <1>1. /\ request' = NoRequest
        /\ ndis'.number = IF n = None THEN ndis.number ELSE n
        /\ ndis'.processor = IF n = None \/ n < ndis.number THEN ndis.processor
                             ELSE [i \in Entries |-> ndis.processor[i % ndis.number]]
    BY DEF Succeed
  <1>2. CASE n = None
    <2>1. RequestInv'
      BY <1>1 DEF RequestInv
    <2> QED BY <1>1, <1>2, <2>1, TableUnchanged DEF DriverInv
  <1>3. CASE n # None
    <2>1. Moving = {} /\ number = n /\ n \in Counts
      BY <1>3, RequestParameters DEF DriverInv, TableInv, RequestInv
    <2>2. UNCHANGED <<Moving, Queues, Moves>>
      BY DEF Moving, Queues, Moves
    <2>3. ndis.number \in Nat \ {0} /\ ndis.number \in Counts
      BY NumbersType DEF DriverInv
    <2>4. \A i \in Entries : i % ndis.number \in Entries
      <3>1. \A i \in Entries : i % ndis.number \in 0 .. ndis.number - 1
        BY <2>3, EntriesType, ModRange
      <3> QED BY <2>3, <3>1, EntriesType, CountsType
    <2>5. ndis'.processor \in [Entries -> Processors]
      <3>1. ndis.processor \in [Entries -> Processors]
        BY DEF DriverInv, TableTypeOK
      <3> QED BY <1>1, <2>4, <3>1
    <2>6. TableTypeOK'
      BY <1>1, <1>3, <2>1, <2>2, <2>5 DEF DriverInv, TableTypeOK
    <2>7. \A p \in Processors : MoveInv(p)'
      BY <2>1, NothingMoves DEF MoveInv, DriverInv
    <2>8. RequestInv'
      BY <1>1 DEF RequestInv
    <2> HIDE DEF n
    <2>9. ndis'.number = number
      BY <1>1, <1>3, <2>1
    <2>10. ASSUME datapath = "created", NEW i \in Entries, i < number, i \notin overwritten
           PROVE  driverTable[i] = table[i]
      <3>1. i \in Nat
        BY EntriesType
      <3>2. i < ndis.number \/ ndis.number <= i
        BY <2>3, <3>1
      <3> QED BY <2>1, <2>10, <3>2 DEF DriverInv, TableInv
    <2>11. \A i \in Entries : ~ (ndis'.number <= i /\ i < number)
      BY <2>9, EntriesType, NumbersType DEF DriverInv
    <2> QED BY <1>1, <2>1, <2>2, <2>6, <2>7, <2>8, <2>9, <2>10, <2>11 DEF DriverInv, TableInv
  <1> QED BY <1>2, <1>3

LEMMA RequestStepsTable ==
  ASSUME DriverInv,
         \/ EvaluateDisable \/ EvaluateHashSecretKey \/ EvaluateHashInfo \/ EvaluateEnable
  PROVE  TableTypeOK' /\ TableInv'
  <1>1. /\ request # NoRequest /\ request.step \in {"switch", "key", "hash", "enable"}
        /\ UNCHANGED <<queueCount, datapath, rss, table, number, slots, driverTable,
                       move, push, overwritten>>
    BY DEF EvaluateDisable, EvaluateHashSecretKey, EvaluateHashInfo, EvaluateEnable, At,
           translator, NoRequest
  <1>2. \/ Succeed
        \/ Fail
        \/ UNCHANGED ndis /\ \/ UNCHANGED request
                             \/ \E step \in {"key", "hash", "enable"} : NextStep(step)
    BY DEF EvaluateDisable, EvaluateHashSecretKey, EvaluateHashInfo, EvaluateEnable
  <1>3. rss
    BY <1>1 DEF DriverInv, TableInv
  <1>4. CASE Succeed
    BY <1>1, <1>4, SucceedTable
  <1>5. CASE UNCHANGED ndis /\ RequestInv'
    BY <1>1, <1>3, <1>5, TableUnchanged DEF DriverInv
  <1>6. UNCHANGED Moving
    BY <1>1 DEF Moving
  <1>7. CASE Fail
    BY <1>5, <1>7 DEF Fail, RequestInv
  <1>8. CASE UNCHANGED <<ndis, request>>
    BY <1>1, <1>5, <1>6, <1>8 DEF DriverInv, TableInv, RequestInv
  <1>9. ASSUME NEW step \in {"key", "hash", "enable"}, NextStep(step), UNCHANGED ndis
        PROVE  TableTypeOK' /\ TableInv'
    <2>1. request'.parameters = request.parameters /\ request'.step # "entries"
      BY <1>1, <1>9, NextStepType DEF DriverInv
    <2> QED BY <1>1, <1>5, <1>6, <1>9, <2>1 DEF DriverInv, TableInv, RequestInv
  <1> QED BY <1>2, <1>4, <1>7, <1>8, <1>9

\* An entry that NDIS uses keeps its queue in the cache, or is overwritten.
LEMMA EntriesKept ==
  ASSUME DriverInv, EvaluateIndirectionTableEntries, request.parameters.number # None,
         NEW i \in Entries, i < ndis.number, i \notin overwritten'
  PROVE  i \notin overwritten /\ table'[i] = table[i]
  <1> DEFINE n == request.parameters.number
  <1>1. overwritten' = {j \in Entries : \/ number # ndis.number /\ table'[j] # table[Meant(n, j)]
                                        \/ Meant(n, j) \in overwritten}
    BY DEF EvaluateIndirectionTableEntries
  <1>2. table' = IF n <= number THEN table
                 ELSE [j \in Entries |-> IF j < number * (TableSize \div number)
                                        THEN table[j % number] ELSE table[j]]
    BY DEF EvaluateIndirectionTableEntries
  <1>3. Meant(n, i) = i
    <2>1. i \in 0 .. ndis.number - 1 /\ ndis.number \in Nat \ {0}
      BY EntriesType, NumbersType DEF DriverInv
    <2>2. i % ndis.number = i
      BY <2>1, ModSmall
    <2> QED BY <2>2 DEF Meant
  <1> HIDE DEF n
  <1>4. i \notin overwritten /\ (number # ndis.number => table'[i] = table[i])
    BY <1>1, <1>3
  <1>5. ASSUME number = ndis.number PROVE table'[i] = table[i]
    <2>1. i \in 0 .. number - 1 /\ number \in Nat \ {0}
      BY <1>5, EntriesType, NumbersType DEF DriverInv
    <2>2. i % number = i
      BY <2>1, ModSmall
    <2>3. table \in [Entries -> Queues]
      BY DEF DriverInv, TableTypeOK
    <2> QED BY <1>2, <2>2, <2>3
  <1> QED BY <1>4, <1>5

LEMMA EvaluateEntriesTable ==
  ASSUME DriverInv, EvaluateIndirectionTableEntries
  PROVE  TableTypeOK' /\ TableInv'
  <1> DEFINE n == request.parameters.number
  <1>1. /\ request # NoRequest /\ request.step = "entries"
        /\ UNCHANGED <<queueCount, datapath, rss, slots, ndis, move, push>>
    BY DEF EvaluateIndirectionTableEntries, At, Fail, NoRequest
  <1>2. rss /\ datapath = "created"
    BY <1>1 DEF DriverInv, TableInv, SwitchInv
  <1>3. UNCHANGED <<Moving, Queues, Moves>>
    BY <1>1 DEF Moving, Queues, Moves
  <1>4. CASE n = None
    <2>1. NextStep("switch") /\ UNCHANGED <<table, number, driverTable, overwritten>>
      BY <1>4 DEF EvaluateIndirectionTableEntries
    <2>2. request'.parameters = request.parameters
      BY <1>1, <2>1, NextStepType DEF DriverInv
    <2>3. RequestInv'
      BY <1>4, <2>2 DEF RequestInv
    <2> QED BY <1>1, <1>2, <2>1, <2>3, TableUnchanged DEF DriverInv
  <1>5. CASE n # None
    <2>1. PICK accepted \in SUBSET (0 .. n - 1) :
            /\ driverTable' = [i \in Entries |-> IF i \in accepted THEN table'[i]
                                                                   ELSE driverTable[i]]
            /\ IF accepted = 0 .. n - 1
               THEN number' = n /\ NextStep("switch")
               ELSE UNCHANGED number /\ Fail
      BY <1>5 DEF EvaluateIndirectionTableEntries, SetIndirectionEntries
    <2>2. table' = IF n <= number THEN table
                   ELSE [i \in Entries |-> IF i < number * (TableSize \div number)
                                          THEN table[i % number] ELSE table[i]]
      BY <1>5 DEF EvaluateIndirectionTableEntries
    <2>3. Moving = {} /\ n \in Counts /\ n \in 1 .. TableSize
      BY <1>1, <1>5, RequestParameters, CountsType DEF DriverInv, TableInv, RequestInv
    <2> HIDE DEF n
    <2>4. table \in [Entries -> Queues] /\ driverTable \in [Entries -> Queues \cup {None}]
      BY DEF DriverInv, TableTypeOK
    <2>5. number \in Nat \ {0} /\ ndis.number \in Nat \ {0} /\ TableSize \in Nat \ {0}
      BY NumbersType DEF DriverInv
    <2>6. /\ table' \in [Entries -> Queues]
          /\ \A i \in Entries : i < number => table'[i] = table[i]
      <3>1. CASE n <= number
        BY <2>2, <2>4, <3>1
      <3>2. CASE ~ n <= number
        <4>1. \A i \in Entries : i % number \in Entries
          <5>1. number \in 1 .. TableSize
            BY DEF DriverInv, TableTypeOK
          <5>2. \A i \in Entries : i % number \in 0 .. number - 1
            BY <2>5, EntriesType, ModRange
          <5> QED BY <5>1, <5>2, EntriesType
        <4>2. ASSUME NEW i \in Entries, i < number PROVE i % number = i
          BY <2>5, <4>2, EntriesType, ModSmall
        <4> QED BY <2>2, <2>4, <3>2, <4>1, <4>2
      <3> QED BY <3>1, <3>2
    <2>7. driverTable' \in [Entries -> Queues \cup {None}]
      BY <2>1, <2>4, <2>6
    <2>8. number' \in 1 .. TableSize
      BY <2>1, <2>3 DEF DriverInv, TableTypeOK
    <2>9. TableTypeOK'
      BY <1>1, <1>3, <2>6, <2>7, <2>8 DEF DriverInv, TableTypeOK
    <2>10. \A p \in Processors : MoveInv(p)'
      BY <1>1, <2>3, NothingMoves DEF MoveInv, DriverInv
    <2>11. RequestInv'
      <3>1. CASE NextStep("switch") /\ number' = n
        <4>1. request'.parameters = request.parameters /\ request'.step = "switch"
          BY <1>1, <3>1, NextStepType DEF DriverInv
        <4> QED BY <1>3, <2>3, <3>1, <4>1 DEF RequestInv, n
      <3>2. CASE Fail
        BY <3>2 DEF Fail, RequestInv
      <3> QED BY <2>1, <3>1, <3>2
    <2>12. ASSUME NEW i \in Entries, i < ndis.number, i \notin overwritten'
           PROVE  driverTable'[i] = table'[i]
      <3>1. CASE i \in accepted
        BY <2>1, <3>1
      <3>2. CASE i \notin accepted
        <4>1. i \notin overwritten /\ table'[i] = table[i]
          BY <1>5, <2>12, EntriesKept DEF n
        <4>2. driverTable[i] = table[i]
          BY <1>2, <2>3, <2>12, <4>1 DEF DriverInv, TableInv
        <4> QED BY <2>1, <3>2, <4>1, <4>2
      <3> QED BY <3>1, <3>2
    <2>13. ASSUME NEW i \in Entries, ndis.number <= i, i < number'
           PROVE  driverTable'[i] = table'[i]
      <3>1. CASE i \in accepted
        BY <2>1, <3>1
      <3>2. CASE i \notin accepted
        <4>1. i \in Nat /\ n \in Nat
          BY <2>3, EntriesType
        <4>2. accepted # 0 .. n - 1 /\ number' = number
          BY <2>1, <2>13, <3>2, <4>1
        <4>3. driverTable[i] = table[i] /\ table'[i] = table[i]
          BY <1>2, <2>3, <2>6, <2>13, <4>2 DEF DriverInv, TableInv
        <4> QED BY <2>1, <3>2, <4>3
      <3> QED BY <3>1, <3>2
    <2> QED BY <1>1, <1>2, <1>3, <2>3, <2>9, <2>10, <2>11, <2>12, <2>13 DEF TableInv
  <1> QED BY <1>4, <1>5

\* The slots of the processors get queues that exist.
LEMMA AffinitizeType ==
  ASSUME TableTypeOK, Affinitize
  PROVE  slots' \in [Processors -> Queues \cup {None}]
  <1>1. 0 \in Queues
    BY ScalingAssumption DEF Queues, TableTypeOK
  <1> QED BY <1>1 DEF Affinitize, TableTypeOK

LEMMA DatapathTable ==
  ASSUME DriverInv,
         \/ ReceiveScalingInitialize \/ CreateDatapath \/ PushEntries \/ RestoreEnabled
         \/ DestroyDatapath
  PROVE  TableTypeOK' /\ TableInv'
  <1>1. UNCHANGED <<queueCount, table, number, ndis, request, move, overwritten>>
    BY DEF ReceiveScalingInitialize, CreateDatapath, PushEntries, RestoreEnabled,
           DestroyDatapath, translator
  <1>2. UNCHANGED <<Moving, Queues, Moves>>
    BY <1>1 DEF Moving, Queues, Moves
  <1>3. RequestInv'
    BY <1>1, <1>2 DEF RequestInv, DriverInv, TableInv
  <1>4. CASE ReceiveScalingInitialize
    <2>1. /\ rss' = TRUE /\ datapath = "created" /\ Affinitize
          /\ UNCHANGED <<datapath, driverTable, push>>
      BY <1>4 DEF ReceiveScalingInitialize, Created
    <2>2. TableTypeOK'
      BY <1>1, <1>2, <2>1, AffinitizeType DEF DriverInv, TableTypeOK
    <2>3. \A p \in Processors : MoveInv(p)'
      BY <1>1, <1>2, <2>1 DEF MoveInv, Changed, DriverInv, TableInv
    <2> QED BY <1>1, <1>2, <1>3, <2>1, <2>2, <2>3 DEF DriverInv, TableInv
  <1>5. ASSUME Moving = {}
        PROVE  \A p \in Processors : MoveInv(p)'
    BY <1>1, <1>5, NothingMoves DEF MoveInv, DriverInv
  <1>6. CASE CreateDatapath
    <2>1. /\ datapath = "destroyed" /\ UNCHANGED <<rss, driverTable>>
          /\ IF rss THEN datapath' = "configuring" /\ push'.left = Entries /\ Affinitize
                    ELSE datapath' = "created" /\ UNCHANGED <<push, slots>>
      BY <1>6 DEF CreateDatapath
    <2>2. Moving = {}
      BY <2>1 DEF DriverInv, TableInv
    <2>3. TableTypeOK'
      BY <1>1, <1>2, <2>1, AffinitizeType DEF DriverInv, TableTypeOK
    <2> QED BY <1>1, <1>2, <1>3, <1>5, <2>1, <2>2, <2>3 DEF DriverInv, TableInv
  <1>7. CASE PushEntries
    <2>1. PICK accepted \in SUBSET push.left :
            /\ driverTable' = [i \in Entries |-> IF i \in accepted THEN table[i]
                                                                   ELSE driverTable[i]]
            /\ push' = push \/ push'.left = push.left \ accepted
      BY <1>7 DEF PushEntries, SetIndirectionEntries
    <2>2. datapath = "configuring" /\ UNCHANGED <<datapath, rss, slots>>
      BY <1>7 DEF PushEntries, translator
    <2>3. Moving = {}
      BY <2>2 DEF DriverInv, TableInv
    <2>4. /\ table \in [Entries -> Queues] /\ driverTable \in [Entries -> Queues \cup {None}]
          /\ push.left \subseteq Entries
      BY DEF DriverInv, TableTypeOK
    <2>5. driverTable' \in [Entries -> Queues \cup {None}] /\ push'.left \subseteq Entries
      BY <2>1, <2>4
    <2>6. TableTypeOK'
      BY <1>1, <1>2, <2>2, <2>5 DEF DriverInv, TableTypeOK
    <2>7. \A i \in Entries \ push'.left : driverTable'[i] = table[i]
      BY <2>1, <2>2 DEF DriverInv, TableInv
    <2>8. ~rss => driverTable' = table
      <3>1. ~rss => driverTable = table
        BY DEF DriverInv, TableInv
      <3> QED BY <2>1, <2>4, <3>1
    <2> QED BY <1>1, <1>2, <1>3, <1>5, <2>2, <2>3, <2>6, <2>7, <2>8 DEF DriverInv, TableInv
  <1>8. CASE RestoreEnabled
    <2>1. /\ datapath = "configuring" /\ push.left = {} /\ datapath' \in {"created", datapath}
          /\ UNCHANGED <<rss, slots, driverTable, push>>
      BY <1>8 DEF RestoreEnabled, translator
    <2>2. Moving = {}
      BY <2>1 DEF DriverInv, TableInv
    <2>3. TableTypeOK'
      BY <1>1, <1>2, <2>1 DEF DriverInv, TableTypeOK
    <2>4. \A i \in Entries : driverTable[i] = table[i]
      BY <2>1 DEF DriverInv, TableInv
    <2> QED BY <1>1, <1>2, <1>3, <1>5, <2>1, <2>2, <2>3, <2>4 DEF DriverInv, TableInv
  <1>9. CASE DestroyDatapath
    <2>1. /\ Moving = {} /\ datapath' = "destroyed" /\ UNCHANGED <<rss, slots, push>>
          /\ driverTable' = IF rss THEN [i \in Entries |-> None] ELSE driverTable
      BY <1>9 DEF DestroyDatapath
    <2>2. TableTypeOK'
      BY <1>1, <1>2, <2>1 DEF DriverInv, TableTypeOK
    <2> QED BY <1>1, <1>2, <1>3, <1>5, <2>1, <2>2 DEF DriverInv, TableInv
  <1> QED BY <1>4, <1>6, <1>7, <1>8, <1>9

\* Processors move entries of their own.
LEMMA MovesDisjoint ==
  ASSUME DriverInv, NEW p \in Processors, NEW r \in Processors, p # r
  PROVE  move[p].entries \cap move[r].entries = {}
  <1>1. NoMove.entries = {}
    BY DEF NoMove
  <1> QED BY <1>1 DEF DriverInv, TableInv, MoveInv

LEMMA MoveType ==
  ASSUME DriverInv, NEW p \in Processors, move[p] # NoMove
  PROVE  /\ move[p] \in Moves /\ move[p].entries \in (SUBSET Entries) \ {{}}
         /\ move[p].left \subseteq move[p].entries
         /\ move[p].target \in [move[p].entries -> Processors]
         /\ move[p].queue \in [move[p].entries -> Nat]
         /\ move[p].restore \in [move[p].entries -> Queues \cup {None}]
         /\ move[p].left # {} => Min(move[p].left) \in move[p].left
         /\ datapath = "created" /\ rss /\ Moving # {}
  <1> DEFINE m == move[p]
  <1>1. m \in Moves /\ MoveInv(p)
    BY DEF DriverInv, TableTypeOK, TableInv
  <1>2. /\ m.entries \in (SUBSET Entries) \ {{}} /\ m.left \subseteq m.entries
        /\ DOMAIN m.target = m.entries /\ DOMAIN m.queue = m.entries
        /\ DOMAIN m.restore = m.entries
    BY <1>1 DEF Moves, MoveInv
  <1>3. /\ m.target \in Partial(Processors) /\ m.queue \in Partial(Nat)
        /\ m.restore \in Partial(Queues \cup {None})
    BY <1>1 DEF Moves
  <1>4. /\ m.target \in [m.entries -> Processors] /\ m.queue \in [m.entries -> Nat]
        /\ m.restore \in [m.entries -> Queues \cup {None}]
    BY <1>2, <1>3 DEF Partial
  <1>5. m.left # {} => Min(m.left) \in m.left
    BY <1>2, EntriesType, MinIsMember
  <1>6. Moving # {}
    BY <1>2, MovingMembers
  <1> QED BY <1>1, <1>2, <1>4, <1>5, <1>6 DEF DriverInv, TableInv

LEMMA BeginMoveTable ==
  ASSUME DriverInv, NEW p \in Processors, NEW S \in SUBSET Entries,
         NEW target \in [S -> Processors], BeginMove(p, target)
  PROVE  TableTypeOK' /\ TableInv'
  <1> DEFINE m == [entries |-> DOMAIN target, left |-> DOMAIN target, target |-> target,
                   mapping |-> FALSE, queue |-> target,
                   restore |-> [i \in DOMAIN target |-> driverTable[i]]]
  <1>1. /\ datapath = "created" /\ rss /\ move[p] = NoMove
        /\ request # NoRequest => request.parameters.number = None
        /\ S # {} /\ \A i \in S : i < ndis.number /\ ndis.processor[i] = p
        /\ move' = [move EXCEPT ![p] = m]
        /\ UNCHANGED <<queueCount, datapath, rss, table, number, slots, driverTable,
                       ndis, request, push, overwritten>>
    BY DEF BeginMove, Created, translator
  <1>2. UNCHANGED <<Queues, Moves>>
    BY <1>1 DEF Queues, Moves
  <1>3. /\ m.entries = S /\ m.left = S /\ m.target = target /\ m.queue = target /\ ~m.mapping
        /\ DOMAIN m.restore = S
    OBVIOUS
  <1>4. m \in Moves
    <2>1. driverTable \in [Entries -> Queues \cup {None}]
      BY DEF DriverInv, TableTypeOK
    <2>2. target \in Partial(Processors)
      BY DEF Partial
    <2>3. target \in Partial(Nat)
      <3>1. Processors \subseteq Nat
        BY ScalingAssumption DEF Processors
      <3>2. target \in [S -> Nat]
        BY <3>1
      <3> QED BY <3>2 DEF Partial
    <2>4. [i \in DOMAIN target |-> driverTable[i]] \in Partial(Queues \cup {None})
      <3>1. [i \in DOMAIN target |-> driverTable[i]] \in [S -> Queues \cup {None}]
        BY <2>1
      <3> QED BY <3>1 DEF Partial
    <2> QED BY <1>1, <2>2, <2>3, <2>4 DEF Moves
  <1> HIDE DEF m
  <1>5. m # NoMove
    BY <1>4, MovesAreMoves
  <1>6. move'[p] = m /\ \A r \in Processors : r # p => move'[r] = move[r]
    BY <1>1 DEF DriverInv, TableTypeOK
  <1>7. \A i \in Moving : i \in Moving'
    <2>1. NoMove.entries = {}
      BY DEF NoMove
    <2> QED BY <1>1, <1>6, <2>1, MovingMembers DEF Moving
  <1>8. TableTypeOK'
    <2>1. move' \in [Processors -> Moves \cup {NoMove}]
      BY <1>1, <1>4 DEF DriverInv, TableTypeOK
    <2> QED BY <1>1, <1>2, <2>1 DEF DriverInv, TableTypeOK
  <1>9. ASSUME NEW r \in Processors PROVE MoveInv(r)'
    <2>1. CASE r # p
      <3>1. move'[r] = move[r]
        BY <1>6, <2>1
      <3> QED BY <1>1, <1>2, <3>1 DEF MoveInv, Changed, DriverInv, TableInv
    <2>2. CASE r = p
      <3>1. Changed(p)' = {}
        BY <1>3, <1>6 DEF Changed
      <3>2. S \cap Moving = {}
        <4>1. NoMove.entries = {}
          BY DEF NoMove
        <4> QED BY <1>1, <4>1, MovingMembers DEF DriverInv, TableInv, MoveInv
      <3>3. \A i \in S \ overwritten : driverTable[i] = table[i]
        BY <1>1, <3>2 DEF DriverInv, TableInv
      <3> QED BY <1>1, <1>3, <1>6, <2>2, <3>1, <3>3 DEF MoveInv
    <2> QED BY <2>1, <2>2
  <1>10. RequestInv'
    BY <1>1 DEF RequestInv
  <1> QED BY <1>1, <1>7, <1>8, <1>9, <1>10 DEF DriverInv, TableInv

\* An entry gets its new queue.
LEMMA TranslatedShape ==
  ASSUME DriverInv, NEW p \in Processors, move[p] # NoMove, move[p].left # {},
         NEW q \in Queues, Translated(p, q)
  PROVE  LET i == Min(move[p].left)
         IN  /\ i \in move[p].left /\ i \in Entries
             /\ table' = [table EXCEPT ![i] = q]
             /\ move'[p] \in Moves
             /\ move'[p].entries = move[p].entries /\ move'[p].target = move[p].target
             /\ move'[p].left = move[p].left \ {i} /\ ~move'[p].mapping
             /\ move'[p].queue = [move[p].queue EXCEPT ![i] = q]
             /\ move'[p].restore = [move[p].restore EXCEPT ![i] = table[i]]
             /\ \A r \in Processors : r # p => move'[r] = move[r]
             /\ move' \in [Processors -> Moves \cup {NoMove}]
             /\ Moving' = Moving
  <1> DEFINE i == Min(move[p].left)
             m == move[p]
             new == [m EXCEPT !.left = @ \ {i}, !.mapping = FALSE,
                              !.queue = [@ EXCEPT ![i] = q],
                              !.restore = [@ EXCEPT ![i] = table[i]]]
  <1>1. /\ m \in Moves /\ i \in m.left /\ i \in Entries /\ i \in m.entries
        /\ m.queue \in [m.entries -> Nat] /\ m.restore \in [m.entries -> Queues \cup {None}]
    BY MoveType
  <1>2. move \in [Processors -> Moves \cup {NoMove}] /\ table \in [Entries -> Queues]
    BY DEF DriverInv, TableTypeOK
  <1>3. table' = [table EXCEPT ![i] = q] /\ move' = [move EXCEPT ![p] = new]
    BY <1>2, ZenonT(40) DEF Translated
  <1> HIDE DEF i
  <1>4. /\ new.entries = m.entries /\ new.target = m.target /\ new.left = m.left \ {i}
        /\ ~new.mapping /\ new.queue = [m.queue EXCEPT ![i] = q]
        /\ new.restore = [m.restore EXCEPT ![i] = table[i]]
    BY <1>1 DEF Moves
  <1>5. new \in Moves
    <2>1. new.queue \in Partial(Nat)
      <3>1. q \in Nat
        BY ScalingAssumption DEF Queues
      <3>2. new.queue \in [m.entries -> Nat]
        BY <1>1, <1>4, <3>1
      <3>3. m.entries \in SUBSET Entries
        BY <1>1 DEF Moves
      <3> QED BY <3>2, <3>3 DEF Partial
    <2>2. new.restore \in Partial(Queues \cup {None})
      <3>1. new.restore \in [m.entries -> Queues \cup {None}]
        BY <1>1, <1>2, <1>4
      <3>2. m.entries \in SUBSET Entries
        BY <1>1 DEF Moves
      <3> QED BY <3>1, <3>2 DEF Partial
    <2> QED BY <1>1, <1>4, <2>1, <2>2 DEF Moves
  <1> HIDE DEF new
  <1>6. move'[p] = new /\ \A r \in Processors : r # p => move'[r] = move[r]
    BY <1>2, <1>3
  <1>7. move' \in [Processors -> Moves \cup {NoMove}]
    BY <1>2, <1>3, <1>5
  <1>8. Moving' = Moving
    <2>1. \A r \in Processors : move'[r].entries = move[r].entries
      BY <1>4, <1>6
    <2> QED BY <2>1 DEF Moving
  <1> QED BY <1>1, <1>3, <1>4, <1>5, <1>6, <1>7, <1>8 DEF i

LEMMA TranslatedTable ==
  ASSUME DriverInv, NEW p \in Processors, move[p] # NoMove, move[p].left # {},
         NEW q \in Queues, Translated(p, q),
         slots' \in [Processors -> Queues \cup {None}],
         UNCHANGED <<queueCount, datapath, rss, number, driverTable, ndis, request, push,
                     overwritten>>
  PROVE  TableTypeOK' /\ TableInv'
  <1> DEFINE i == Min(move[p].left)
  <1>1. /\ i \in move[p].left /\ i \in Entries
        /\ table' = [table EXCEPT ![i] = q]
        /\ move'[p] \in Moves
        /\ move'[p].entries = move[p].entries /\ move'[p].target = move[p].target
        /\ move'[p].left = move[p].left \ {i} /\ ~move'[p].mapping
        /\ move'[p].queue = [move[p].queue EXCEPT ![i] = q]
        /\ move'[p].restore = [move[p].restore EXCEPT ![i] = table[i]]
        /\ \A r \in Processors : r # p => move'[r] = move[r]
        /\ move' \in [Processors -> Moves \cup {NoMove}]
        /\ Moving' = Moving
    BY TranslatedShape
  <1> HIDE DEF i
  <1>2. UNCHANGED <<Queues, Moves>>
    BY DEF Queues, Moves
  <1>3. table \in [Entries -> Queues]
    BY DEF DriverInv, TableTypeOK
  <1>4. TableTypeOK'
    BY <1>1, <1>2, <1>3 DEF DriverInv, TableTypeOK
  <1>5. i \in move[p].entries /\ i \in Moving /\ rss
    BY <1>1, MoveType, MovingMembers
  <1>6. \A j \in Entries : j # i => table'[j] = table[j]
    BY <1>1, <1>3
  <1>7. ASSUME NEW r \in Processors PROVE MoveInv(r)'
    <2>1. CASE r # p
      <3>1. move'[r] = move[r] /\ Changed(r)' = Changed(r)
        BY <1>1, <2>1 DEF Changed
      <3>2. move[r] # NoMove => i \notin move[r].entries
        BY <1>5, <2>1, MovesDisjoint
      <3>3. CASE move[r] # NoMove
        <4>1. /\ move[r].entries \subseteq Entries /\ move[r].left \subseteq move[r].entries
              /\ Changed(r) \subseteq move[r].entries
          BY <3>3, MoveType DEF Changed
        <4>2. \A j \in move[r].entries : table'[j] = table[j]
          BY <1>6, <3>2, <3>3, <4>1
        <4> QED BY <1>2, <3>1, <4>1, <4>2 DEF MoveInv, DriverInv, TableInv
      <3> QED BY <3>1, <3>3 DEF MoveInv
    <2>2. CASE r = p
      <3>1. /\ move[p].entries \subseteq Entries /\ move[p].left \subseteq move[p].entries
            /\ move[p].queue \in [move[p].entries -> Nat]
            /\ move[p].restore \in [move[p].entries -> Queues \cup {None}]
        BY MoveType
      <3>2. move'[p] # NoMove
        BY <1>1, MovesAreMoves
      <3>3. Changed(p)' = Changed(p) \cup {i}
        BY <1>1, <1>5, <3>2 DEF Changed
      <3>4. MoveInv(p)
        BY DEF DriverInv, TableInv
      <3>5. ASSUME NEW j \in Changed(p)'
            PROVE  move'[p].queue[j] = table'[j] /\ move'[p].restore[j] \in Queues
        <4>1. CASE j = i
          BY <1>1, <1>3, <1>5, <3>1, <4>1
        <4>2. CASE j # i
          <5>1. j \in Changed(p) /\ j \in move[p].entries /\ j \in Entries
            BY <3>1, <3>3, <3>5, <4>2 DEF Changed
          <5>2. move[p].queue[j] = table[j] /\ move[p].restore[j] \in Queues
            BY <3>4, <5>1 DEF MoveInv, Changed
          <5> QED BY <1>1, <1>6, <3>1, <4>2, <5>1, <5>2
        <4> QED BY <4>1, <4>2
      <3>6. \A j \in move'[p].left \ overwritten : driverTable[j] = table'[j]
        BY <1>1, <1>6, <3>1, <3>4 DEF MoveInv
      <3>7. ASSUME NEW j \in Changed(p)', j \notin overwritten
            PROVE  move'[p].restore[j] = driverTable[j]
        <4>1. CASE j = i
          BY <1>1, <1>5, <3>1, <3>4, <3>7, <4>1 DEF MoveInv
        <4>2. CASE j # i
          <5>1. j \in Changed(p) /\ j \in move[p].entries
            BY <3>1, <3>3, <3>7, <4>2 DEF Changed
          <5> QED BY <1>1, <3>1, <3>4, <3>7, <4>2, <5>1 DEF MoveInv
        <4> QED BY <4>1, <4>2
      <3>8. DOMAIN move'[p].queue = move[p].entries /\ DOMAIN move'[p].restore = move[p].entries
        BY <1>1, <3>1
      <3> QED BY <1>1, <1>2, <2>2, <3>1, <3>4, <3>5, <3>6, <3>7, <3>8 DEF MoveInv
    <2> QED BY <2>1, <2>2
  <1>8. RequestInv'
    BY <1>1 DEF RequestInv, DriverInv, TableInv
  <1> QED BY <1>1, <1>4, <1>5, <1>6, <1>7, <1>8 DEF DriverInv, TableInv

LEMMA QueueTable ==
  ASSUME DriverInv, NEW p \in Processors, GetAffinitizedQueue(p) \/ MapAffinitizedQueue(p)
  PROVE  TableTypeOK' /\ TableInv'
  <1>1. /\ move[p] # NoMove /\ move[p].left # {}
        /\ UNCHANGED <<queueCount, datapath, rss, number, driverTable, ndis, request, push,
                       overwritten>>
    BY DEF GetAffinitizedQueue, MapAffinitizedQueue, DriverInv, TableInv, MoveInv
  <1>2. /\ Target(p) \in Processors
        /\ slots \in [Processors -> Queues \cup {None}]
        /\ \A r \in Processors : slots[r] # None => slots[r] \in Queues
    <2>1. Min(move[p].left) \in move[p].entries /\ move[p].target \in [move[p].entries -> Processors]
      BY <1>1, MoveType
    <2> QED BY <2>1 DEF Target, DriverInv, TableTypeOK
  <1>3. UNCHANGED <<Queues, Moves>>
    BY <1>1 DEF Queues, Moves
  <1>4. CASE move' = [move EXCEPT ![p].mapping = TRUE] /\ UNCHANGED <<table, slots>>
    <2>1. move[p] \in Moves
      BY <1>1, MoveType
    <2> DEFINE new == [move[p] EXCEPT !.mapping = TRUE]
    <2>2. /\ new \in Moves /\ new.entries = move[p].entries /\ new.target = move[p].target
          /\ new.left = move[p].left /\ new.queue = move[p].queue
          /\ new.restore = move[p].restore
      BY <2>1 DEF Moves
    <2>3. move \in [Processors -> Moves \cup {NoMove}] /\ move' = [move EXCEPT ![p] = new]
      BY <1>4 DEF DriverInv, TableTypeOK
    <2> HIDE DEF new
    <2>4. /\ move' \in [Processors -> Moves \cup {NoMove}]
          /\ move'[p] = new /\ \A r \in Processors : r # p => move'[r] = move[r]
      BY <2>2, <2>3
    <2>5. Moving' = Moving
      <3>1. \A r \in Processors : move'[r].entries = move[r].entries
        BY <2>2, <2>4
      <3> QED BY <3>1 DEF Moving
    <2>6. TableTypeOK'
      BY <1>1, <1>3, <1>4, <2>4 DEF DriverInv, TableTypeOK
    <2>7. ASSUME NEW r \in Processors PROVE MoveInv(r)'
      <3>1. MoveInv(r)
        BY DEF DriverInv, TableInv
      <3>2. CASE r # p
        BY <1>1, <1>3, <1>4, <2>4, <3>1, <3>2 DEF MoveInv, Changed
      <3>3. CASE r = p
        BY <1>1, <1>3, <1>4, <2>2, <2>4, <3>1, <3>3 DEF MoveInv, Changed
      <3> QED BY <3>2, <3>3
    <2>8. RequestInv'
      BY <1>1, <2>5 DEF RequestInv, DriverInv, TableInv
    <2> QED BY <1>1, <1>4, <2>5, <2>6, <2>7, <2>8 DEF DriverInv, TableInv
  <1>5. ASSUME NEW q \in Queues, Translated(p, q), slots' \in [Processors -> Queues \cup {None}]
        PROVE  TableTypeOK' /\ TableInv'
    BY <1>1, <1>5, TranslatedTable
  <1>6. CASE GetAffinitizedQueue(p)
    <2>1. CASE slots[Target(p)] # None
      <3>1. Translated(p, slots[Target(p)]) /\ slots' = slots /\ slots[Target(p)] \in Queues
        BY <1>2, <1>6, <2>1 DEF GetAffinitizedQueue
      <3> QED BY <1>2, <1>5, <3>1
    <2>2. CASE slots[Target(p)] = None
      BY <1>4, <1>6, <2>2 DEF GetAffinitizedQueue
    <2> QED BY <2>1, <2>2
  <1>7. CASE MapAffinitizedQueue(p)
    <2> DEFINE t == Target(p)
               free == {q \in Queues : affinity[q] = None}
    <2>1. CASE slots[t] # None /\ Translated(p, slots[t]) /\ UNCHANGED slots
      BY <1>2, <1>5, <2>1
    <2>2. CASE /\ free # {} /\ SetAffinitizedQueue(t, Min(free)) /\ Translated(p, Min(free))
      <3>1. free \subseteq Nat
        BY ScalingAssumption DEF Queues
      <3>2. Min(free) \in Queues
        BY <2>2, <3>1, MinIsMember
      <3>3. slots' \in [Processors -> Queues \cup {None}]
        BY <1>2, <2>2, <3>2 DEF SetAffinitizedQueue
      <3> QED BY <1>5, <2>2, <3>2, <3>3
    <2>3. CASE /\ slots[p] # None /\ Translated(p, slots[p])
               /\ slots' = [slots EXCEPT ![p] = None, ![t] = slots[p]]
      <3>1. slots[p] \in Queues /\ slots' \in [Processors -> Queues \cup {None}]
        BY <1>2, <2>3
      <3> QED BY <1>5, <2>3, <3>1
    <2>4. CASE UNCHANGED <<slots, table, move>>
      <3>1. RequestInv'
        BY <1>1, <2>4 DEF RequestInv, Moving, DriverInv, TableInv
      <3> QED BY <1>1, <2>4, <3>1, TableUnchanged DEF DriverInv, TableInv
    <2> QED BY <1>7, <2>1, <2>2, <2>3, <2>4 DEF MapAffinitizedQueue
  <1> QED BY <1>6, <1>7

LEMMA MoveCardinality ==
  ASSUME DriverInv, NEW p \in Processors, move[p] # NoMove
  PROVE  Cardinality(move[p].entries) \in 1 .. ndis.number
  <1> DEFINE E == move[p].entries
  <1>1. E \in (SUBSET Entries) \ {{}} /\ \A i \in E : i < ndis.number
    BY MoveType DEF DriverInv, TableInv, MoveInv
  <1> HIDE DEF E
  <1>2. ndis.number \in Nat \ {0}
    BY NumbersType DEF DriverInv
  <1>3. IsFiniteSet(0 .. ndis.number - 1) /\ Cardinality(0 .. ndis.number - 1) = ndis.number
    <2>1. 0 \in Int /\ ndis.number - 1 \in Int
      BY <1>2
    <2>2. /\ IsFiniteSet(0 .. ndis.number - 1)
          /\ Cardinality(0 .. ndis.number - 1) =
               IF 0 > ndis.number - 1 THEN 0 ELSE ndis.number - 1 - 0 + 1
      BY <2>1, FS_Interval
    <2> QED BY <1>2, <2>2
  <1>4. E \in SUBSET (0 .. ndis.number - 1)
    <2>1. ASSUME NEW i \in E PROVE i \in 0 .. ndis.number - 1
      <3>1. i \in Nat /\ i < ndis.number
        BY <1>1, EntriesType
      <3> QED BY <1>2, <3>1
    <2> QED BY <2>1
  <1>5. IsFiniteSet(E) /\ Cardinality(E) <= ndis.number
    BY <1>3, <1>4, FS_Subset
  <1>6. Cardinality(E) \in Nat /\ Cardinality(E) # 0
    BY <1>1, <1>5, FS_CardinalityType, FS_EmptySet
  <1> QED BY <1>2, <1>5, <1>6 DEF E

\* What the driver took it has, and of the rest the cache gets back what the
\* driver has.
LEMMA FinishMoveTable ==
  ASSUME DriverInv, NEW p \in Processors, FinishMove(p)
  PROVE  TableTypeOK' /\ TableInv'
  <1> DEFINE m == move[p]
  <1>1. /\ m # NoMove /\ m.left = {}
        /\ move' = [move EXCEPT ![p] = NoMove]
        /\ UNCHANGED <<queueCount, datapath, rss, slots, request, push>>
    BY DEF FinishMove
  <1>2. PICK accepted \in SUBSET m.entries :
          /\ driverTable' = [i \in Entries |-> IF i \in accepted THEN m.queue[i]
                                                                 ELSE driverTable[i]]
          /\ table' = [i \in Entries |-> IF i \in m.entries \ accepted THEN m.restore[i]
                                         ELSE table[i]]
          /\ number' = IF accepted = m.entries THEN Cardinality(m.entries) ELSE number
          /\ ndis' = [ndis EXCEPT !.processor =
               [i \in Entries |-> IF i \in accepted THEN m.target[i] ELSE @[i]]]
          /\ overwritten' = overwritten \ accepted
    BY DEF FinishMove, SetIndirectionEntries, Restored
  <1>3. UNCHANGED <<Queues, Moves>>
    BY <1>1 DEF Queues, Moves
  <1>4. /\ m \in Moves /\ m.entries \in (SUBSET Entries) \ {{}}
        /\ m.target \in [m.entries -> Processors]
        /\ datapath = "created" /\ rss /\ Moving # {}
    BY <1>1, MoveType
  <1>5. /\ Changed(p) = m.entries /\ MoveInv(p)
        /\ \A i \in m.entries : /\ m.queue[i] = table[i] /\ m.restore[i] \in Queues
                                /\ i < ndis.number
        /\ \A i \in m.entries \ overwritten : m.restore[i] = driverTable[i]
    BY <1>1 DEF Changed, DriverInv, TableInv, MoveInv
  <1> HIDE DEF m
  <1>6. /\ table \in [Entries -> Queues] /\ driverTable \in [Entries -> Queues \cup {None}]
        /\ move \in [Processors -> Moves \cup {NoMove}]
        /\ ndis.processor \in [Entries -> Processors]
        /\ DOMAIN ndis = {"enabled", "hash", "number", "processor"}
    BY DEF DriverInv, TableTypeOK, SwitchInv
  <1>7. /\ ndis'.number = ndis.number
        /\ ndis'.processor = [i \in Entries |-> IF i \in accepted THEN m.target[i]
                                                ELSE ndis.processor[i]]
    BY <1>2, <1>6
  <1>8. driverTable' \in [Entries -> Queues \cup {None}]
    BY <1>2, <1>4, <1>5, <1>6
  <1>9. ndis'.processor \in [Entries -> Processors]
    BY <1>4, <1>6, <1>7
  <1>10. table' \in [Entries -> Queues]
    BY <1>2, <1>5, <1>6
  <1>11. /\ move' \in [Processors -> Moves \cup {NoMove}] /\ move'[p] = NoMove
         /\ \A r \in Processors : r # p => move'[r] = move[r]
    BY <1>1, <1>6
  <1>12. number' \in 1 .. TableSize /\ (number' <= ndis.number \/ number' = number)
    <2>1. ndis.number \in 1 .. TableSize /\ TableSize \in Nat /\ number \in 1 .. TableSize
      BY NumbersType DEF DriverInv, TableTypeOK
    <2>2. Cardinality(m.entries) \in 1 .. ndis.number
      BY <1>1, MoveCardinality DEF m
    <2> QED BY <1>2, <2>1, <2>2
  <1>13. TableTypeOK'
    BY <1>1, <1>3, <1>7, <1>8, <1>9, <1>10, <1>11, <1>12 DEF DriverInv, TableTypeOK
  <1>14. \A i : i \in Moving' <=> i \in Moving /\ i \notin m.entries
    <2>1. NoMove.entries = {}
      BY DEF NoMove
    <2>2. \A r \in Processors : r # p => move[r].entries \cap m.entries = {}
      BY MovesDisjoint DEF m
    <2>3. ASSUME NEW i PROVE i \in Moving' <=> \E r \in Processors : i \in move'[r].entries
      BY DEF Moving
    <2> QED BY <1>11, <2>1, <2>2, <2>3, MovingMembers DEF m
  <1>15. ASSUME NEW r \in Processors PROVE MoveInv(r)'
    <2>1. CASE r = p
      BY <1>11, <2>1 DEF MoveInv
    <2>2. CASE r # p /\ move[r] # NoMove
      <3>1. /\ move[r].entries \subseteq Entries /\ move[r].left \subseteq move[r].entries
            /\ Changed(r) \subseteq move[r].entries
        BY <2>2, MoveType DEF Changed
      <3>2. move[r].entries \cap m.entries = {}
        BY <2>2, MovesDisjoint DEF m
      <3>3. \A i \in move[r].entries : /\ table'[i] = table[i] /\ driverTable'[i] = driverTable[i]
                                      /\ ndis'.processor[i] = ndis.processor[i]
        BY <1>2, <1>6, <1>7, <3>1, <3>2
      <3>4. move'[r] = move[r] /\ Changed(r)' = Changed(r)
        BY <1>11, <2>2 DEF Changed
      <3>5. MoveInv(r)
        BY DEF DriverInv, TableInv
      <3>6. Queues' = Queues /\ ndis'.number = ndis.number
        BY <1>3, <1>7
      <3>7. \A i \in move[r].entries : i < ndis'.number /\ ndis'.processor[i] = r
        BY <2>2, <3>3, <3>5, <3>6 DEF MoveInv
      <3>8. \A i \in move[r].entries : i \in overwritten => i \in overwritten'
        BY <1>2, <3>2
      <3>9. /\ \A i \in Changed(r) : move[r].queue[i] = table[i] /\ move[r].restore[i] \in Queues
            /\ \A i \in move[r].left \ overwritten : driverTable[i] = table[i]
            /\ \A i \in Changed(r) \ overwritten : move[r].restore[i] = driverTable[i]
        BY <2>2, <3>5 DEF MoveInv
      <3>10. /\ \A i \in Changed(r) : move[r].queue[i] = table'[i] /\ move[r].restore[i] \in Queues'
             /\ \A i \in move[r].left \ overwritten' : driverTable'[i] = table'[i]
             /\ \A i \in Changed(r) \ overwritten' : move[r].restore[i] = driverTable'[i]
        BY <3>1, <3>3, <3>6, <3>8, <3>9
      <3> QED BY <2>2, <3>4, <3>5, <3>7, <3>10 DEF MoveInv
    <2>3. CASE r # p /\ move[r] = NoMove
      BY <1>11, <2>3 DEF MoveInv
    <2> QED BY <2>1, <2>2, <2>3
  <1>16. RequestInv'
    BY <1>1, <1>4 DEF RequestInv, DriverInv, TableInv
  <1>17. ASSUME NEW i \in Entries \ Moving', i < ndis'.number, i \notin overwritten'
         PROVE  driverTable'[i] = table'[i]
    <2>1. CASE i \in m.entries
      BY <1>2, <1>5, <1>17, <2>1
    <2>2. CASE i \notin m.entries
      <3>1. i \notin Moving /\ i \notin overwritten
        BY <1>2, <1>14, <1>17, <2>2
      <3>2. driverTable[i] = table[i]
        BY <1>4, <1>7, <1>17, <3>1 DEF DriverInv, TableInv
      <3> QED BY <1>2, <1>17, <2>2, <3>2
    <2> QED BY <2>1, <2>2
  <1>18. ASSUME NEW i \in Entries \ Moving', ndis'.number <= i, i < number'
         PROVE  driverTable'[i] = table'[i]
    <2>1. i \in Nat /\ number' \in Nat /\ ndis.number \in Nat
      <3>1. ndis.number \in Nat /\ TableSize \in Nat
        BY NumbersType DEF DriverInv
      <3>2. i \in Nat
        BY EntriesType
      <3> QED BY <1>12, <3>1, <3>2
    <2>2. i \notin m.entries /\ number' = number
      BY <1>5, <1>7, <1>12, <1>18, <2>1
    <2>3. driverTable[i] = table[i]
      BY <1>4, <1>7, <1>14, <1>18, <2>2 DEF DriverInv, TableInv
    <2> QED BY <1>2, <1>18, <2>2, <2>3
  <1> QED BY <1>1, <1>4, <1>13, <1>15, <1>16, <1>17, <1>18 DEF DriverInv, TableInv

LEMMA TableInit == ScalingInit => TableTypeOK /\ TableInv
  <1> SUFFICES ASSUME ScalingInit PROVE TableTypeOK /\ TableInv
    OBVIOUS
  <1>1. 0 \in Queues /\ DefaultProcessor \in Processors
    BY ScalingAssumption DEF ScalingInit, Queues, Processors, DefaultProcessor
  <1>2. TableTypeOK
    <2>1. TableSize \in 1 .. TableSize /\ TableSize \in Counts
      BY ScalingAssumption DEF Counts
    <2>2. queueCount \in QueueCounts /\ datapath = "destroyed" /\ rss = FALSE
          /\ table \in [Entries -> Queues] /\ driverTable \in [Entries -> Queues \cup {None}]
          /\ slots \in [Processors -> Queues \cup {None}] /\ push.left \in SUBSET Entries
          /\ move \in [Processors -> Moves \cup {NoMove}]
      BY <1>1 DEF ScalingInit
    <2>3. number = TableSize /\ ndis.number = TableSize
          /\ ndis.processor \in [Entries -> Processors]
      BY <1>1 DEF ScalingInit
    <2> QED BY <2>1, <2>2, <2>3 DEF TableTypeOK
  <1>3. Moving = {} /\ \A p \in Processors : MoveInv(p)
    BY <1>2, NothingMoves DEF ScalingInit, MoveInv
  <1> QED BY <1>2, <1>3 DEF ScalingInit, TableInv, RequestInv

LEMMA TableStep == DriverInv /\ [ScalingNext]_scalingVars => TableTypeOK' /\ TableInv'
  <1> SUFFICES ASSUME DriverInv, [ScalingNext]_scalingVars PROVE TableTypeOK' /\ TableInv'
    OBVIOUS
  <1>1. CASE UNCHANGED scalingVars
    <2>1. RequestInv'
      BY <1>1 DEF scalingVars, RequestInv, Moving, DriverInv, TableInv
    <2> QED BY <1>1, <2>1, TableUnchanged DEF scalingVars, DriverInv, TableInv
  <1> QED BY <1>1, SetParametersTable, RequestStepsTable, EvaluateEntriesTable, DatapathTable,
             BeginMoveTable, QueueTable, FinishMoveTable DEF ScalingNext

LEMMA DriverInvariant == ScalingSpec => []DriverInv
  <1>1. ScalingInit => DriverInv
    BY SwitchInit, TableInit DEF DriverInv
  <1>2. DriverInv /\ [ScalingNext]_scalingVars => DriverInv'
    BY SwitchStep, TableStep DEF DriverInv
  <1> QED BY <1>1, <1>2, PTL DEF ScalingSpec

-----------------------------------------------------------------------------
(* The processors: one lemma for each action that matters to them.          *)

Enough == queueCount >= ProcessorCount

ScalingInv == DriverInv /\ (Enough => ProcessorsInv)

SameChanges(p) ==
  /\ Changed(p)' = Changed(p)
  /\ Changed(p) # {} => /\ move'[p].target = move[p].target
                        /\ move'[p].restore = move[p].restore

LEMMA ProcessorsUnchanged ==
  ASSUME ProcessorsInv,
         UNCHANGED <<queueCount, rss, table, slots, affinity, ndis.number,
                     ndis.processor, overwritten>>,
         \A p \in Processors : SameChanges(p), RequestedInv',
         datapath' = "destroyed" \/ datapath # "destroyed"
  PROVE  ProcessorsInv'
  <1>1. Queues' = Queues
    BY DEF Queues
  <1> QED BY <1>1 DEF ProcessorsInv, SameChanges

\* Outside of a change of the number nothing is promised to NDIS.
LEMMA RequestedUnchanged ==
  ASSUME RequestedInv, DriverInv, UNCHANGED <<table, slots, request, ndis.number, ndis.processor,
                                   overwritten>>
  PROVE  RequestedInv'
  <1>1. \A n, i : ProcessorOf(n, i)' = ProcessorOf(n, i)
    BY DEF ProcessorOf, Meant
  <1> QED BY <1>1 DEF RequestedInv

LEMMA MovesUnchanged ==
  ASSUME UNCHANGED move
  PROVE  \A p \in Processors : SameChanges(p)
  BY DEF Changed, SameChanges

LEMMA SucceedProcessors ==
  ASSUME DriverInv, ProcessorsInv, request # NoRequest, request.step # "entries", Succeed,
         UNCHANGED <<queueCount, datapath, rss, table, slots, affinity, move, overwritten>>
  PROVE  ProcessorsInv'
  <1> DEFINE n == request.parameters.number
             M == ndis.number
  <1>1. /\ request' = NoRequest
        /\ ndis'.number = IF n = None THEN ndis.number ELSE n
        /\ ndis'.processor = IF n = None \/ n < ndis.number THEN ndis.processor
                             ELSE [i \in Entries |-> ndis.processor[i % ndis.number]]
    BY DEF Succeed
  <1>2. RequestedInv'
    BY <1>1 DEF RequestedInv
  <1>3. CASE n = None
    BY <1>1, <1>2, <1>3, MovesUnchanged, ProcessorsUnchanged DEF DriverInv, SwitchInv
  <1>4. CASE n # None
    <2>1. Moving = {} /\ n \in Counts /\ rss /\ datapath = "created"
      BY <1>4, RequestParameters DEF DriverInv, TableInv, RequestInv, SwitchInv
    <2>2. \A p \in Processors : Changed(p) = {} /\ Changed(p)' = {}
      BY <2>1, NothingMoves DEF Changed, DriverInv
    <2>3. M \in Nat \ {0} /\ n \in Nat
      <3>1. \A c \in Counts : c \in Nat
        BY CountsType
      <3>2. M \in Nat \ {0}
        BY NumbersType DEF DriverInv
      <3> HIDE DEF n, M
      <3> QED BY <2>1, <3>1, <3>2
    <2>4. \A i \in Entries \ overwritten : i < n => slots[ProcessorOf(n, i)] = table[i]
      BY <1>4 DEF ProcessorsInv, RequestedInv
    <2> HIDE DEF n
    <2>5. ASSUME NEW i \in Entries, i < n PROVE ndis'.processor[i] = ProcessorOf(n, i)
      <3>1. CASE n < M
        BY <1>1, <2>3, <3>1 DEF ProcessorOf, Meant
      <3>2. CASE n = M
        <4>1. i \in 0 .. M - 1
          BY <2>3, <2>5, <3>2, EntriesType
        <4>2. i % M = i
          BY <2>3, <4>1, ModSmall
        <4> QED BY <1>1, <1>4, <2>3, <3>2, <4>2 DEF ProcessorOf, Meant
      <3>3. CASE n > M
        BY <1>1, <1>4, <2>3, <3>3 DEF ProcessorOf, Meant
      <3> QED BY <2>3, <3>1, <3>2, <3>3
    <2>6. \A i \in Entries \ overwritten : i < n => slots[ndis'.processor[i]] = table[i]
      BY <2>4, <2>5
    <2>7. ndis'.number = n
      BY <1>1, <1>4
    <2> QED BY <1>2, <2>1, <2>2, <2>6, <2>7 DEF ProcessorsInv, Queues
  <1> QED BY <1>3, <1>4

LEMMA RequestStepsProcessors ==
  ASSUME DriverInv, ProcessorsInv,
         \/ EvaluateDisable \/ EvaluateHashSecretKey \/ EvaluateHashInfo \/ EvaluateEnable
  PROVE  ProcessorsInv'
  <1>1. /\ request # NoRequest /\ request.step \in {"switch", "key", "hash", "enable"}
        /\ UNCHANGED <<queueCount, datapath, rss, table, slots, affinity, move, overwritten>>
    BY DEF EvaluateDisable, EvaluateHashSecretKey, EvaluateHashInfo, EvaluateEnable, At,
           translator, NoRequest
  <1>2. \/ Succeed
        \/ Fail
        \/ UNCHANGED ndis /\ \/ UNCHANGED request
                             \/ \E step \in {"key", "hash", "enable"} : NextStep(step)
    BY DEF EvaluateDisable, EvaluateHashSecretKey, EvaluateHashInfo, EvaluateEnable
  <1>3. datapath = "created" /\ request.step # "entries"
    BY <1>1 DEF DriverInv, SwitchInv
  <1>4. CASE Succeed
    BY <1>1, <1>3, <1>4, SucceedProcessors
  <1>5. CASE UNCHANGED ndis /\ RequestedInv'
    BY <1>1, <1>3, <1>5, MovesUnchanged, ProcessorsUnchanged
  <1>6. RequestedInv
    BY DEF ProcessorsInv
  <1>7. CASE Fail
    BY <1>5, <1>7 DEF Fail, RequestedInv
  <1>8. CASE UNCHANGED <<ndis, request>>
    BY <1>1, <1>5, <1>6, <1>8, RequestedUnchanged
  <1>9. ASSUME NEW step \in {"key", "hash", "enable"}, NextStep(step), UNCHANGED ndis
        PROVE  ProcessorsInv'
    <2>1. request'.parameters = request.parameters
      BY <1>1, <1>9, NextStepType DEF DriverInv
    <2>2. \A n, i : ProcessorOf(n, i)' = ProcessorOf(n, i)
      BY <1>9 DEF ProcessorOf, Meant
    <2> QED BY <1>1, <1>3, <1>5, <1>6, <1>9, <2>1, <2>2 DEF RequestedInv
  <1> QED BY <1>2, <1>4, <1>7, <1>8, <1>9

\* The table is as NDIS means it, but for what is overwritten.
LEMMA EvaluateEntriesProcessors ==
  ASSUME DriverInv, ProcessorsInv, EvaluateIndirectionTableEntries
  PROVE  ProcessorsInv'
  <1> DEFINE n == request.parameters.number
             M == ndis.number
  <1>1. /\ request # NoRequest /\ request.step = "entries"
        /\ UNCHANGED <<queueCount, datapath, rss, slots, affinity, ndis, move>>
    BY DEF EvaluateIndirectionTableEntries, At, Fail, NoRequest
  <1>2. rss /\ datapath = "created"
    BY <1>1 DEF DriverInv, TableInv, SwitchInv
  <1>3. CASE n = None
    <2>1. UNCHANGED <<table, overwritten>> /\ NextStep("switch")
      BY <1>3 DEF EvaluateIndirectionTableEntries
    <2>2. request'.parameters = request.parameters
      BY <1>1, <2>1, NextStepType DEF DriverInv
    <2>3. RequestedInv'
      BY <1>3, <2>2 DEF RequestedInv
    <2> QED BY <1>1, <1>2, <2>1, <2>3, MovesUnchanged, ProcessorsUnchanged
  <1>4. CASE n # None
    <2>1. table' = IF n <= number THEN table
                   ELSE [i \in Entries |-> IF i < number * (TableSize \div number)
                                          THEN table[i % number] ELSE table[i]]
      BY <1>4 DEF EvaluateIndirectionTableEntries
    <2>2. overwritten' = {i \in Entries : \/ number # M /\ table'[i] # table[Meant(n, i)]
                                          \/ Meant(n, i) \in overwritten}
      BY <1>4 DEF EvaluateIndirectionTableEntries
    <2>3. Moving = {} /\ n \in Counts /\ n \in Nat
      <3>1. Moving = {} /\ n \in Counts
        BY <1>1, <1>4, RequestParameters DEF DriverInv, TableInv, RequestInv
      <3>2. \A c \in Counts : c \in Nat
        BY CountsType
      <3> HIDE DEF n
      <3> QED BY <3>1, <3>2
    <2>4. \A p \in Processors : Changed(p) = {} /\ Changed(p)' = {}
      BY <1>1, <2>3, NothingMoves DEF Changed, DriverInv
    <2>5. M \in Nat \ {0} /\ M \in Counts /\ number \in Nat \ {0}
      BY NumbersType DEF DriverInv, TableTypeOK
    <2>6. \A i \in Entries \ overwritten : i < M => slots[ndis.processor[i]] = table[i]
      BY <1>2, <2>4 DEF ProcessorsInv
    <2>7. ASSUME NEW i \in Entries, i < M, i \notin overwritten'
          PROVE  slots[ndis.processor[i]] = table'[i]
      BY <1>4, <2>6, <2>7, EntriesKept
    <2> HIDE DEF n
    <2>8. ASSUME NEW i \in Entries, i < n, i \notin overwritten'
          PROVE  slots[ProcessorOf(n, i)] = table'[i]
      <3>1. CASE n <= M
        <4>1. Meant(n, i) = i
          BY <3>1 DEF Meant
        <4>2. i < M
          BY <2>3, <2>5, <2>8, <3>1, EntriesType
        <4> QED BY <2>7, <2>8, <4>1, <4>2 DEF ProcessorOf
      <3>2. CASE ~ n <= M
        <4> DEFINE j == i % M
        <4>1. Meant(n, i) = j
          BY <3>2 DEF Meant
        <4>2. j \in 0 .. M - 1
          BY <2>5, EntriesType, ModRange
        <4>3. j \in Entries /\ j < M
          <5>1. M \in 1 .. TableSize
            BY NumbersType DEF DriverInv
          <5> HIDE DEF j, M
          <5> QED BY <2>5, <4>2, <5>1, EntriesType
        <4>4. j \notin overwritten /\ (number # M => table'[i] = table[j])
          BY <2>2, <2>8, <4>1
        <4>5. slots[ndis.processor[j]] = table[j]
          BY <2>6, <4>3, <4>4
        <4>6. ASSUME number = M PROVE table'[i] = table[j]
          <5>1. M * (TableSize \div M) = TableSize
            BY <2>5, DivTable
          <5>2. i < TableSize
            BY CountsType DEF Entries
          <5> QED BY <2>1, <3>2, <4>6, <5>1, <5>2
        <4> HIDE DEF j
        <4> QED BY <4>1, <4>4, <4>5, <4>6 DEF ProcessorOf
      <3> QED BY <3>1, <3>2
    <2>9. RequestedInv'
      <3>1. request' = NoRequest \/ request'.parameters = request.parameters
        <4>1. NextStep("switch") \/ Fail
          BY <1>4 DEF EvaluateIndirectionTableEntries, n
        <4> QED BY <1>1, <4>1, NextStepType DEF DriverInv, Fail
      <3>2. \A i : ProcessorOf(n, i)' = ProcessorOf(n', i)
        BY <1>1 DEF ProcessorOf, Meant
      <3> QED BY <1>1, <2>8, <3>1 DEF RequestedInv, ProcessorOf, Meant, n
    <2> QED BY <1>1, <1>2, <2>4, <2>7, <2>9 DEF ProcessorsInv, Queues
  <1> QED BY <1>3, <1>4

LEMMA AffinitizeProcessors ==
  ASSUME TableTypeOK, Affinitize,
         \A p, r \in Processors : slots'[p] # None /\ slots'[p] = slots'[r] => p = r
  PROVE  /\ affinity' \in [Queues -> Processors \cup {None}]
         /\ \A q \in Queues : affinity'[q] # None => slots'[affinity'[q]] = q
         /\ \A p \in Processors : slots'[p] # None => affinity'[slots'[p]] = p
  <1> DEFINE own(q) == {p \in Processors : slots'[p] = q}
  <1>1. affinity' = [q \in Queues |-> IF own(q) = {} THEN None ELSE Max(own(q))]
    BY DEF Affinitize
  <1>2. slots' \in [Processors -> Queues \cup {None}]
    BY AffinitizeType
  <1>3. \A q \in Queues : q # None
    BY ScalingAssumption DEF Queues, TableTypeOK
  <1>4. ASSUME NEW q \in Queues, NEW p \in own(q) PROVE Max(own(q)) = p
    <2>1. own(q) = {p}
      BY <1>3, <1>4
    <2>2. p >= p
      <3>1. p \in Nat
        BY <1>4, ScalingAssumption DEF Processors
      <3> QED BY <3>1
    <2>3. \A x : (x \in {p} /\ \A y \in {p} : x >= y) <=> x = p
      BY <2>2
    <2> HIDE DEF own
    <2> QED BY <2>1, <2>2, <2>3 DEF Max
  <1>5. ASSUME NEW q \in Queues
        PROVE  /\ affinity'[q] \in Processors \cup {None}
               /\ affinity'[q] # None => slots'[affinity'[q]] = q
    BY <1>1, <1>4
  <1>6. ASSUME NEW p \in Processors, slots'[p] # None PROVE affinity'[slots'[p]] = p
    BY <1>1, <1>2, <1>4, <1>6
  <1> QED BY <1>1, <1>5, <1>6

LEMMA DatapathProcessors ==
  ASSUME DriverInv, ProcessorsInv,
         \/ ReceiveScalingInitialize \/ CreateDatapath \/ PushEntries \/ RestoreEnabled
         \/ DestroyDatapath
  PROVE  ProcessorsInv'
  <1>1. UNCHANGED <<queueCount, table, number, ndis, request, move, overwritten>>
    BY DEF ReceiveScalingInitialize, CreateDatapath, PushEntries, RestoreEnabled,
           DestroyDatapath, translator
  <1>2. \A p \in Processors : Changed(p)' = Changed(p)
    BY <1>1 DEF Changed
  <1>a. UNCHANGED slots \/ request = NoRequest => RequestedInv'
    BY <1>1, RequestedUnchanged DEF RequestedInv, ProcessorsInv
  <1>3. /\ slots \in [Processors -> Queues \cup {None}] /\ Queues' = Queues
        /\ DefaultProcessor \in Processors /\ 0 \in Queues /\ 0 # None
    BY <1>1, ScalingAssumption DEF DriverInv, TableTypeOK, Queues, Processors, DefaultProcessor
  <1>4. CASE ReceiveScalingInitialize
    <2>1. /\ ~rss /\ rss' = TRUE /\ Affinitize
      BY <1>4 DEF ReceiveScalingInitialize
    <2>2. /\ slots = [p \in Processors |-> None] /\ table = [i \in Entries |-> 0]
          /\ ndis.processor = [i \in Entries |-> DefaultProcessor]
      BY <2>1 DEF ProcessorsInv
    <2>3. slots' = [slots EXCEPT ![DefaultProcessor] = 0]
      BY <1>3, <2>1, <2>2 DEF Affinitize
    <2>4. /\ slots'[DefaultProcessor] = 0
          /\ \A p \in Processors : p # DefaultProcessor => slots'[p] = None
      BY <1>3, <2>2, <2>3
    <2>5. \A p, r \in Processors : slots'[p] # None /\ slots'[p] = slots'[r] => p = r
      BY <2>4
    <2>6. Moving = {}
      BY <2>1 DEF DriverInv, TableInv
    <2>7. \A p \in Processors : Changed(p) = {}
      BY <2>6, NothingMoves DEF Changed, DriverInv
    <2>8. \A i \in Entries : slots'[ndis.processor[i]] = table[i]
      BY <2>2, <2>4
    <2>9. /\ affinity' \in [Queues -> Processors \cup {None}]
          /\ \A q \in Queues : affinity'[q] # None => slots'[affinity'[q]] = q
          /\ \A p \in Processors : slots'[p] # None => affinity'[slots'[p]] = p
      BY <2>1, <2>5, AffinitizeProcessors DEF DriverInv
    <2>10. request = NoRequest
      BY <2>1 DEF DriverInv, TableInv
    <2> QED BY <1>1, <1>2, <1>3, <1>a, <2>1, <2>4, <2>5, <2>7, <2>8, <2>9, <2>10
            DEF ProcessorsInv
  <1>5. CASE CreateDatapath
    <2>1. CASE rss
      <3>1. Affinitize /\ rss' = rss
        BY <1>5, <2>1 DEF CreateDatapath
      <3>2. slots' = slots
        BY <2>1, <3>1 DEF Affinitize, ProcessorsInv
      <3>3. \A p, r \in Processors : slots'[p] # None /\ slots'[p] = slots'[r] => p = r
        BY <3>2 DEF ProcessorsInv
      <3>4. /\ affinity' \in [Queues -> Processors \cup {None}]
            /\ \A q \in Queues : affinity'[q] # None => slots'[affinity'[q]] = q
            /\ \A p \in Processors : slots'[p] # None => affinity'[slots'[p]] = p
        BY <3>1, <3>3, AffinitizeProcessors DEF DriverInv
      <3> QED BY <1>1, <1>2, <1>3, <1>a, <2>1, <3>1, <3>2, <3>4 DEF ProcessorsInv
    <2>2. CASE ~rss
      <3>1. UNCHANGED <<rss, slots, affinity>>
        BY <1>5, <2>2 DEF CreateDatapath
      <3> QED BY <1>1, <1>2, <1>3, <1>a, <2>2, <3>1 DEF ProcessorsInv
    <2> QED BY <2>1, <2>2
  <1>6. CASE PushEntries \/ RestoreEnabled
    <2>1. datapath = "configuring" /\ UNCHANGED <<rss, slots, affinity>>
      BY <1>6 DEF PushEntries, RestoreEnabled, translator
    <2> QED BY <1>1, <1>a, <2>1, MovesUnchanged, ProcessorsUnchanged
  <1>7. CASE DestroyDatapath
    <2>1. datapath' = "destroyed" /\ UNCHANGED <<rss, slots>>
      BY <1>7 DEF DestroyDatapath
    <2> QED BY <1>1, <1>2, <1>3, <1>a, <2>1 DEF ProcessorsInv
  <1> QED BY <1>4, <1>5, <1>6, <1>7

LEMMA BeginMoveProcessors ==
  ASSUME DriverInv, ProcessorsInv, NEW p \in Processors, NEW S \in SUBSET Entries,
         NEW target \in [S -> Processors], BeginMove(p, target)
  PROVE  ProcessorsInv'
  <1> DEFINE m == [entries |-> DOMAIN target, left |-> DOMAIN target, target |-> target,
                   mapping |-> FALSE, queue |-> target,
                   restore |-> [i \in DOMAIN target |-> driverTable[i]]]
  <1>1. /\ datapath = "created" /\ move[p] = NoMove
        /\ move' = [move EXCEPT ![p] = m]
        /\ UNCHANGED <<queueCount, datapath, rss, table, slots, affinity, ndis, request,
                       overwritten>>
    BY DEF BeginMove, Created, translator
  <1>2. m.entries = m.left
    OBVIOUS
  <1> HIDE DEF m
  <1>3. move'[p] = m /\ \A r \in Processors : r # p => move'[r] = move[r]
    BY <1>1 DEF DriverInv, TableTypeOK
  <1>4. Changed(p) = {} /\ Changed(p)' = {}
    BY <1>1, <1>2, <1>3 DEF Changed
  <1>5. \A r \in Processors : SameChanges(r)
    BY <1>3, <1>4 DEF Changed, SameChanges
  <1>6. RequestedInv'
    BY <1>1, RequestedUnchanged DEF ProcessorsInv
  <1> QED BY <1>1, <1>5, <1>6, ProcessorsUnchanged

\* Nothing moves while a request changes the number.
LEMMA RequestedWhileMoving ==
  ASSUME DriverInv, Moving # {}, UNCHANGED request
  PROVE  RequestedInv'
  BY DEF RequestedInv, DriverInv, TableInv, RequestInv

\* The entry gets the queue of its target, and no slot loses its queue.
LEMMA TranslatedProcessors ==
  ASSUME DriverInv, ProcessorsInv, NEW p \in Processors, move[p] # NoMove,
         move[p].left # {}, NEW q \in Queues, Translated(p, q),
         slots' \in [Processors -> Queues \cup {None}], slots'[Target(p)] = q,
         \A r \in Processors : slots[r] # None => slots'[r] = slots[r],
         \A r, t \in Processors : slots'[r] # None /\ slots'[r] = slots'[t] => r = t,
         affinity' \in [Queues -> Processors \cup {None}],
         \A x \in Queues : affinity'[x] # None => slots'[affinity'[x]] = x,
         \A r \in Processors : slots'[r] # None => affinity'[slots'[r]] = r,
         UNCHANGED <<queueCount, datapath, rss, request, ndis, overwritten>>
  PROVE  ProcessorsInv'
  <1> DEFINE i == Min(move[p].left)
  <1>1. /\ i \in move[p].left /\ i \in Entries /\ slots'[move[p].target[i]] = q
        /\ table' = [table EXCEPT ![i] = q]
        /\ move'[p] \in Moves
        /\ move'[p].entries = move[p].entries /\ move'[p].target = move[p].target
        /\ move'[p].left = move[p].left \ {i}
        /\ move'[p].restore = [move[p].restore EXCEPT ![i] = table[i]]
        /\ \A r \in Processors : r # p => move'[r] = move[r]
    BY TranslatedShape, ZenonT(40) DEF Target
  <1> HIDE DEF i
  <1>2. /\ move[p].left \subseteq move[p].entries /\ rss /\ datapath = "created"
        /\ Moving # {}
        /\ move[p].restore \in [move[p].entries -> Queues \cup {None}]
    BY MoveType
  <1>3. table \in [Entries -> Queues] /\ \A x \in Queues : x # None
    BY ScalingAssumption DEF DriverInv, TableTypeOK, Queues
  <1>4. \A r \in Processors : i \notin Changed(r)
    BY <1>1, <1>2, MovesDisjoint DEF Changed
  <1>5. i \notin overwritten => slots'[p] = table[i]
    <2> HAVE i \notin overwritten
    <2>1. i < ndis.number /\ ndis.processor[i] = p
      BY <1>1, <1>2 DEF DriverInv, TableInv, MoveInv
    <2>2. slots[p] = table[i]
      BY <1>1, <1>2, <1>4, <2>1 DEF ProcessorsInv
    <2> QED BY <1>1, <1>3, <2>2
  <1>6. \A j \in Entries : j # i => table'[j] = table[j]
    BY <1>1, <1>3
  <1>7. table'[i] = q
    BY <1>1, <1>3
  <1>8. Changed(p)' = Changed(p) \cup {i}
    <2>1. move'[p] # NoMove
      BY <1>1, MovesAreMoves
    <2> QED BY <1>1, <1>2, <2>1 DEF Changed
  <1>9. \A r \in Processors : r # p => Changed(r)' = Changed(r)
    BY <1>1 DEF Changed
  <1>10. ASSUME NEW j \in Entries, j < ndis.number, \A r \in Processors : j \notin Changed(r)',
                j \notin overwritten
         PROVE  slots'[ndis.processor[j]] = table'[j]
    <2>1. j # i /\ \A r \in Processors : j \notin Changed(r)
      BY <1>8, <1>9, <1>10
    <2>2. slots[ndis.processor[j]] = table[j] /\ ndis.processor[j] \in Processors
      BY <1>2, <1>10, <2>1 DEF ProcessorsInv, DriverInv, TableTypeOK
    <2> QED BY <1>3, <1>6, <2>1, <2>2
  <1>11. ASSUME NEW r \in Processors, NEW j \in Changed(r), j # i
         PROVE  /\ j \notin overwritten => slots'[r] = move[r].restore[j]
                /\ slots'[move[r].target[j]] = table'[j]
                /\ j \in move[r].entries
    <2>1. move[r] # NoMove
      BY <1>11 DEF Changed
    <2>2. j \in move[r].entries /\ j \in Entries /\ move[r].target[j] \in Processors
      BY <1>11, <2>1, MoveType DEF Changed
    <2>3. move[r].restore[j] \in Queues
      BY <1>11, <2>1 DEF DriverInv, TableInv, MoveInv
    <2>4. /\ j \notin overwritten => slots[r] = move[r].restore[j]
          /\ slots[move[r].target[j]] = table[j]
      BY <1>2, <1>11 DEF ProcessorsInv
    <2> QED BY <1>3, <1>6, <1>11, <2>2, <2>3, <2>4
  <1>12. ASSUME NEW r \in Processors, NEW j \in Changed(r)'
         PROVE  /\ j \notin overwritten => slots'[r] = move'[r].restore[j]
                /\ slots'[move'[r].target[j]] = table'[j]
    <2>1. CASE r # p
      <3>1. j \in Changed(r) /\ j # i /\ move'[r] = move[r]
        BY <1>1, <1>4, <1>9, <1>12, <2>1
      <3> QED BY <1>11, <3>1
    <2>2. CASE r = p /\ j = i
      BY <1>1, <1>2, <1>5, <1>7, <2>2
    <2>3. CASE r = p /\ j # i
      <3>1. j \in Changed(p)
        BY <1>8, <1>12, <2>3
      <3>2. /\ j \notin overwritten => slots'[p] = move[p].restore[j]
            /\ slots'[move[p].target[j]] = table'[j] /\ j \in move[p].entries
        BY <1>11, <2>3, <3>1
      <3> QED BY <1>1, <1>2, <2>3, <3>2
    <2> QED BY <2>1, <2>2, <2>3
  <1>13. RequestedInv'
    BY <1>2, RequestedWhileMoving
  <1>14. slots'[DefaultProcessor] # None
    <2>1. DefaultProcessor \in Processors /\ slots[DefaultProcessor] # None
      BY <1>2, ScalingAssumption DEF ProcessorsInv, DefaultProcessor, Processors
    <2> QED BY <2>1
  <1>15. Queues' = Queues
    BY DEF Queues
  <1> QED BY <1>2, <1>10, <1>12, <1>13, <1>14, <1>15 DEF ProcessorsInv

\* A processor without a queue leaves a queue without a processor.
LEMMA FreeQueue ==
  ASSUME TableTypeOK, queueCount >= ProcessorCount,
         affinity \in [Queues -> Processors \cup {None}],
         \A q \in Queues : affinity[q] # None => slots[affinity[q]] = q,
         NEW t \in Processors, slots[t] = None
  PROVE  {q \in Queues : affinity[q] = None} # {}
  <1> DEFINE others == Processors \ {t}
  <1> SUFFICES ASSUME \A q \in Queues : affinity[q] # None PROVE FALSE
    OBVIOUS
  <1>1. ProcessorCount \in Nat \ {0} /\ queueCount \in Nat \ {0}
    BY ScalingAssumption DEF TableTypeOK
  <1>2. IsFiniteSet(Queues) /\ Cardinality(Queues) = queueCount
    <2>1. 0 \in Int /\ queueCount - 1 \in Int
      BY <1>1
    <2>2. /\ IsFiniteSet(0 .. queueCount - 1)
          /\ Cardinality(0 .. queueCount - 1) =
               IF 0 > queueCount - 1 THEN 0 ELSE queueCount - 1 - 0 + 1
      BY <2>1, FS_Interval
    <2> QED BY <1>1, <2>2 DEF Queues
  <1>3. IsFiniteSet(Processors) /\ Cardinality(Processors) = ProcessorCount
    <2>1. 0 \in Int /\ ProcessorCount - 1 \in Int
      BY <1>1
    <2>2. /\ IsFiniteSet(0 .. ProcessorCount - 1)
          /\ Cardinality(0 .. ProcessorCount - 1) =
               IF 0 > ProcessorCount - 1 THEN 0 ELSE ProcessorCount - 1 - 0 + 1
      BY <2>1, FS_Interval
    <2> QED BY <1>1, <2>2 DEF Processors
  <1>4. IsFiniteSet(others) /\ Cardinality(others) = ProcessorCount - 1
    BY <1>3, FS_RemoveElement
  <1>5. \A q \in Queues : q # None
    BY <1>1, ScalingAssumption DEF Queues
  <1>6. affinity \in [Queues -> others]
    <2>1. \A q \in Queues : affinity[q] \in others
      BY <1>5
    <2> QED BY <2>1
  <1>7. Cardinality(Queues) > Cardinality(others)
    BY <1>1, <1>2, <1>4
  <1>8. PICK x \in Queues, y \in Queues : x # y /\ affinity[x] = affinity[y]
    <2> HIDE DEF others
    <2> QED BY <1>2, <1>4, <1>6, <1>7, FS_PigeonHole
  <1> QED BY <1>8

LEMMA QueueProcessors ==
  ASSUME DriverInv, ProcessorsInv, Enough, NEW p \in Processors,
         GetAffinitizedQueue(p) \/ MapAffinitizedQueue(p)
  PROVE  ProcessorsInv'
  <1> DEFINE t == Target(p)
             free == {q \in Queues : affinity[q] = None}
  <1>1. /\ move[p] # NoMove /\ move[p].left # {}
        /\ UNCHANGED <<queueCount, datapath, rss, request, ndis, overwritten>>
    BY DEF GetAffinitizedQueue, MapAffinitizedQueue, DriverInv, TableInv, MoveInv
  <1>2. /\ t \in Processors /\ rss /\ datapath = "created"
        /\ slots \in [Processors -> Queues \cup {None}]
    <2>1. /\ Min(move[p].left) \in move[p].entries
          /\ move[p].target \in [move[p].entries -> Processors]
          /\ rss /\ datapath = "created"
      BY <1>1, MoveType
    <2> QED BY <2>1 DEF Target, DriverInv, TableTypeOK
  <1>3. /\ affinity \in [Queues -> Processors \cup {None}]
        /\ \A q \in Queues : affinity[q] # None => slots[affinity[q]] = q
        /\ \A r \in Processors : slots[r] # None => affinity[slots[r]] = r
        /\ \A r, u \in Processors : slots[r] # None /\ slots[r] = slots[u] => r = u
    BY <1>2 DEF ProcessorsInv
  <1> HIDE DEF t, free
  <1>4. CASE slots[t] # None /\ Translated(p, slots[t]) /\ UNCHANGED <<slots, affinity>>
    <2>1. slots[t] \in Queues
      BY <1>2, <1>4
    <2> QED BY <1>1, <1>2, <1>3, <1>4, <2>1, TranslatedProcessors DEF Enough, t
  <1>5. CASE move' = [move EXCEPT ![p].mapping = TRUE] /\ UNCHANGED <<table, slots, affinity>>
    <2>1. move[p] \in Moves
      BY <1>1, MoveType
    <2> DEFINE new == [move[p] EXCEPT !.mapping = TRUE]
    <2>2. /\ new \in Moves /\ new.entries = move[p].entries /\ new.left = move[p].left
          /\ new.target = move[p].target /\ new.restore = move[p].restore
      BY <2>1 DEF Moves
    <2>3. move \in [Processors -> Moves \cup {NoMove}] /\ move' = [move EXCEPT ![p] = new]
      BY <1>5 DEF DriverInv, TableTypeOK
    <2> HIDE DEF new
    <2>4. move'[p] = new /\ new # NoMove /\ \A r \in Processors : r # p => move'[r] = move[r]
      BY <2>2, <2>3, MovesAreMoves
    <2>5. \A r \in Processors : SameChanges(r)
      BY <1>1, <2>2, <2>4 DEF SameChanges, Changed
    <2>6. RequestedInv'
      BY <1>1, MoveType, RequestedWhileMoving
    <2> QED BY <1>1, <1>2, <1>5, <2>5, <2>6, ProcessorsUnchanged
  <1>6. CASE slots[t] = None /\ SetAffinitizedQueue(t, Min(free)) /\ Translated(p, Min(free))
    <2>1. free # {}
      BY <1>2, <1>3, <1>6, FreeQueue DEF Enough, DriverInv, free
    <2>2. Min(free) \in free
      <3>1. free \subseteq Nat
        BY ScalingAssumption DEF Queues, free
      <3> QED BY <2>1, <3>1, MinIsMember
    <2>3. PICK q \in Queues : q = Min(free) /\ affinity[q] = None
      BY <2>2 DEF free
    <2>4. /\ slots' = [slots EXCEPT ![t] = q] /\ affinity' = [affinity EXCEPT ![q] = t]
      BY <1>6, <2>3 DEF SetAffinitizedQueue
    <2>5. /\ slots' \in [Processors -> Queues \cup {None}] /\ slots'[t] = q
          /\ \A r \in Processors : r # t => slots'[r] = slots[r]
          /\ affinity' \in [Queues -> Processors \cup {None}] /\ affinity'[q] = t
          /\ \A x \in Queues : x # q => affinity'[x] = affinity[x]
      BY <1>2, <1>3, <2>4
    <2>6. \A x \in Queues : x # None
      BY ScalingAssumption DEF Queues, DriverInv, TableTypeOK
    <2>7. \A r \in Processors : slots[r] # q
      <3>1. \A r \in Processors : r # None
        BY ScalingAssumption DEF Processors
      <3> QED BY <1>3, <2>3, <2>6, <3>1
    <2>8. \A r, u \in Processors : slots'[r] # None /\ slots'[r] = slots'[u] => r = u
      BY <1>3, <2>5, <2>7
    <2>9. \A x \in Queues : affinity'[x] # None => slots'[affinity'[x]] = x
      <3>1. ASSUME NEW x \in Queues, x # q, affinity'[x] # None PROVE slots'[affinity'[x]] = x
        <4>1. affinity'[x] = affinity[x] /\ affinity[x] \in Processors /\ slots[affinity[x]] = x
          BY <1>3, <2>5, <3>1
        <4>2. affinity[x] # t
          BY <1>6, <2>6, <4>1
        <4> QED BY <2>5, <4>1, <4>2
      <3> QED BY <2>5, <3>1
    <2>10. \A r \in Processors : slots'[r] # None => affinity'[slots'[r]] = r
      BY <1>2, <1>3, <2>5, <2>7
    <2>11. \A r \in Processors : slots[r] # None => slots'[r] = slots[r]
      BY <1>6, <2>5
    <2> QED BY <1>1, <1>6, <2>3, <2>5, <2>8, <2>9, <2>10, <2>11, TranslatedProcessors
            DEF Enough, t
  <1>7. CASE slots[t] = None /\ free = {}
    BY <1>2, <1>3, <1>7, FreeQueue DEF Enough, DriverInv, free
  <1>8. CASE GetAffinitizedQueue(p)
    BY <1>4, <1>5, <1>8 DEF GetAffinitizedQueue, t
  <1>9. CASE MapAffinitizedQueue(p)
    BY <1>4, <1>6, <1>7, <1>9 DEF MapAffinitizedQueue, t, free
  <1> QED BY <1>8, <1>9

LEMMA FinishMoveProcessors ==
  ASSUME DriverInv, ProcessorsInv, NEW p \in Processors, FinishMove(p)
  PROVE  ProcessorsInv'
  <1> DEFINE m == move[p]
  <1>1. /\ m # NoMove /\ m.left = {}
        /\ move' = [move EXCEPT ![p] = NoMove]
        /\ UNCHANGED <<queueCount, datapath, rss, slots, affinity, request>>
    BY DEF FinishMove
  <1>2. PICK accepted \in SUBSET m.entries :
          /\ table' = [i \in Entries |-> IF i \in m.entries \ accepted THEN m.restore[i]
                                         ELSE table[i]]
          /\ ndis' = [ndis EXCEPT !.processor =
               [i \in Entries |-> IF i \in accepted THEN m.target[i] ELSE @[i]]]
          /\ overwritten' = overwritten \ accepted
    BY DEF FinishMove, Restored
  <1>3. /\ m.entries \subseteq Entries /\ datapath = "created" /\ rss
        /\ Moving # {}
    BY <1>1, MoveType
  <1>4. /\ Changed(p) = m.entries
        /\ \A i \in m.entries : /\ ndis.processor[i] = p
                                /\ i \notin overwritten => slots[p] = m.restore[i]
                                /\ slots[m.target[i]] = table[i]
    BY <1>1, <1>3 DEF Changed, DriverInv, TableInv, MoveInv, ProcessorsInv
  <1> HIDE DEF m
  <1>6. /\ move \in [Processors -> Moves \cup {NoMove}]
        /\ ndis.processor \in [Entries -> Processors]
        /\ DOMAIN ndis = {"enabled", "hash", "number", "processor"}
    BY DEF DriverInv, TableTypeOK, SwitchInv
  <1>7. /\ ndis'.number = ndis.number
        /\ ndis'.processor = [i \in Entries |-> IF i \in accepted THEN m.target[i]
                                                ELSE ndis.processor[i]]
    BY <1>2, <1>6
  <1>8. move'[p] = NoMove /\ \A r \in Processors : r # p => move'[r] = move[r]
    BY <1>1, <1>6
  <1>9. Changed(p)' = {} /\ \A r \in Processors : r # p => Changed(r)' = Changed(r)
    BY <1>8 DEF Changed
  <1>10. ASSUME NEW i \in Entries, i < ndis.number, \A r \in Processors : i \notin Changed(r)',
                i \notin overwritten'
         PROVE  slots[ndis'.processor[i]] = table'[i]
    <2>1. CASE i \in accepted
      BY <1>2, <1>4, <1>7, <2>1
    <2>3. CASE i \in m.entries \ accepted
      BY <1>2, <1>4, <1>7, <1>10, <2>3
    <2>2. CASE i \notin m.entries
      <3>1. \A r \in Processors : i \notin Changed(r)
        BY <1>4, <1>9, <1>10, <2>2
      <3>2. slots[ndis.processor[i]] = table[i]
        BY <1>2, <1>3, <1>10, <2>2, <3>1 DEF ProcessorsInv
      <3> QED BY <1>2, <1>7, <2>2, <3>2
    <2> QED BY <2>1, <2>2, <2>3
  <1>11. ASSUME NEW r \in Processors, NEW i \in Changed(r)'
         PROVE  /\ i \notin overwritten' => slots[r] = move'[r].restore[i]
                /\ slots[move'[r].target[i]] = table'[i]
    <2>1. r # p /\ i \in Changed(r) /\ move'[r] = move[r]
      BY <1>8, <1>9, <1>11
    <2>2. move[r] # NoMove
      BY <2>1 DEF Changed
    <2>3. i \in Entries /\ i \notin m.entries
      BY <2>1, <2>2, MoveType, MovesDisjoint DEF Changed, m
    <2> QED BY <1>2, <1>3, <2>1, <2>3 DEF ProcessorsInv
  <1>12. RequestedInv'
    BY <1>1, <1>3, RequestedWhileMoving
  <1>13. UNCHANGED <<Queues>>
    BY <1>1 DEF Queues
  <1> QED BY <1>1, <1>3, <1>7, <1>10, <1>11, <1>12, <1>13 DEF ProcessorsInv

LEMMA ProcessorsInit == ScalingInit => ProcessorsInv
  <1> SUFFICES ASSUME ScalingInit PROVE ProcessorsInv
    OBVIOUS
  <1> QED BY DEF ScalingInit, ProcessorsInv, RequestedInv

LEMMA ProcessorsStep ==
  ASSUME DriverInv, ProcessorsInv, Enough, [ScalingNext]_scalingVars
  PROVE  ProcessorsInv'
  <1>1. CASE UNCHANGED scalingVars
    <2>1. UNCHANGED <<queueCount, datapath, rss, table, slots, affinity, ndis, move, request,
                      overwritten>>
      BY <1>1 DEF scalingVars
    <2>2. RequestedInv'
      BY <2>1, RequestedUnchanged DEF ProcessorsInv
    <2> QED BY <2>1, <2>2, MovesUnchanged, ProcessorsUnchanged
  <1>2. ASSUME NEW p \in ScalingParameters, ReceiveScalingSetParameters(p)
        PROVE  ProcessorsInv'
    <2>1. /\ UNCHANGED <<queueCount, datapath, rss, table, slots, affinity, ndis, move,
                         overwritten>>
          /\ datapath = "created" /\ request' = [step |-> "entries", parameters |-> p]
      BY <1>2 DEF ReceiveScalingSetParameters, translator, Created
    <2>2. RequestedInv'
      BY <2>1 DEF RequestedInv
    <2> QED BY <2>1, <2>2, MovesUnchanged, ProcessorsUnchanged
  <1> QED BY <1>1, <1>2, RequestStepsProcessors, EvaluateEntriesProcessors,
             DatapathProcessors, BeginMoveProcessors, QueueProcessors,
             FinishMoveProcessors DEF ScalingNext, Enough

LEMMA QueueCountStays == [ScalingNext]_scalingVars => queueCount' = queueCount
  BY DEF scalingVars, ScalingNext, ReceiveScalingInitialize, CreateDatapath, PushEntries,
         RestoreEnabled, DestroyDatapath, ReceiveScalingSetParameters,
         EvaluateIndirectionTableEntries, EvaluateDisable, EvaluateHashSecretKey,
         EvaluateHashInfo, EvaluateEnable, BeginMove, GetAffinitizedQueue,
         MapAffinitizedQueue, FinishMove

LEMMA ScalingInvariant == ScalingSpec => []ScalingInv
  <1>1. ScalingInit => ScalingInv
    BY SwitchInit, TableInit, ProcessorsInit DEF DriverInv, ScalingInv
  <1>2. ScalingInv /\ [ScalingNext]_scalingVars => ScalingInv'
    <2> SUFFICES ASSUME ScalingInv, [ScalingNext]_scalingVars PROVE ScalingInv'
      OBVIOUS
    <2>1. DriverInv'
      BY SwitchStep, TableStep DEF DriverInv, ScalingInv
    <2>2. Enough' => Enough
      BY QueueCountStays DEF Enough
    <2> QED BY <2>1, <2>2, ProcessorsStep DEF ScalingInv
  <1> QED BY <1>1, <1>2, PTL DEF ScalingSpec

-----------------------------------------------------------------------------
\* Whatever the driver refuses and however often the data path comes and goes,
\* NDIS, translator, adapter and driver agree between two requests on whether
\* receive scaling is enabled, and with which hash.
THEOREM SwitchesAgreeAlways == ScalingSpec => []SwitchesAgree
  <1>1. ScalingSpec => []SwitchInv
    BY SwitchInit, SwitchStep, PTL DEF ScalingSpec
  <1> QED BY <1>1, SwitchesFollow, PTL

\* Whatever moves the driver takes in part or refuses, and however NDIS changes
\* the number of entries in between, translator, adapter and driver agree: each
\* entry in use goes to the queue in m_indirectionTable, unless a misread change
\* of the number overwrote the cache for that very entry.
THEOREM ScalingAgreesAlways == ScalingSpec => []ScalingAgrees
  <1>1. DriverInv => ScalingAgrees
    <2> SUFFICES ASSUME DriverInv PROVE DriverMatchesCache
      BY SwitchesFollow DEF ScalingAgrees, DriverInv
    <2> SUFFICES ASSUME Created, NEW i \in 0 .. number - 1, i \notin Moving,
                        i \notin overwritten
                 PROVE  driverTable[i] = table[i]
      BY DEF DriverMatchesCache
    <2>1. number \in 1 .. TableSize
      BY DEF DriverInv, TableTypeOK
    <2>2. i \in Entries /\ i < number
      BY <2>1, EntriesType
    <2>3. i < ndis.number \/ ndis.number <= i
      BY <2>2, EntriesType, NumbersType DEF DriverInv
    <2> QED BY <2>2, <2>3 DEF Created, DriverInv, TableInv
  <1> QED BY <1>1, DriverInvariant, PTL

\* With at least one queue for each processor the affinity of queues that
\* rxscaling.cpp hands out never sends an entry that is not overwritten to
\* another processor than the one NDIS chose, however many processors move
\* entries at a time and however often the queues are created again.
THEOREM EntriesGoToTheirProcessorAlways == ScalingSpec => []EntriesGoToTheirProcessor
  <1>1. ScalingInv => EntriesGoToTheirProcessor
    <2> SUFFICES ASSUME ScalingInv, Created, rss, queueCount >= ProcessorCount,
                        NEW i \in 0 .. ndis.number - 1, i \notin Moving,
                        i \notin overwritten
                 PROVE  affinity[driverTable[i]] = ndis.processor[i]
      BY DEF EntriesGoToTheirProcessor
    <2>1. DriverInv /\ ProcessorsInv /\ datapath = "created"
      BY DEF ScalingInv, Enough, Created
    <2>2. i \in Entries /\ i < ndis.number
      <3>1. ndis.number \in 1 .. TableSize
        BY <2>1, NumbersType DEF DriverInv
      <3> QED BY <3>1, EntriesType
    <2>3. driverTable[i] = table[i]
      BY <2>1, <2>2 DEF DriverInv, TableInv
    <2>4. ASSUME NEW p \in Processors PROVE i \notin Changed(p)
      BY MovingMembers DEF Changed
    <2>5. slots[ndis.processor[i]] = table[i]
      BY <2>1, <2>2, <2>4 DEF ProcessorsInv
    <2>6. ndis.processor[i] \in Processors /\ table[i] # None
      <3>1. table[i] \in Queues /\ ndis.processor[i] \in Processors
        BY <2>1, <2>2 DEF DriverInv, TableTypeOK
      <3>2. \A q \in Queues : q # None
        BY <2>1, ScalingAssumption DEF Queues, DriverInv, TableTypeOK
      <3> QED BY <3>1, <3>2
    <2> QED BY <2>1, <2>3, <2>5, <2>6 DEF ProcessorsInv
  <1> QED BY <1>1, ScalingInvariant, PTL

-----------------------------------------------------------------------------
(* Wake patterns, protocol offloads and idle. *)

USE DEF PatternTypes, OffloadTypes, MediaEvents

Patterns == [type : PatternTypes, id : PowerIds, enabled : BOOLEAN]
Offloads == [type : OffloadTypes, id : PowerIds, enabled : BOOLEAN]

Parameters == [patterns : SUBSET PatternTypes, offloads : SUBSET OffloadTypes,
               flags : SUBSET (MediaEvents \cup {"suspend"})]

-----------------------------------------------------------------------------
(* Entries come and go, and the number of a type with them.                 *)

LEMMA FirstIsListed ==
  ASSUME NEW S, NEW list \in Seq(S), NEW id, Has(list, id)
  PROVE  First(list, id) \in DOMAIN list
  <1> DEFINE T == {i \in DOMAIN list : list[i].id = id}
  <1>1. DOMAIN list = 1 .. Len(list) /\ Len(list) \in Nat
    BY LenProperties
  <1>2. T \in SUBSET Nat /\ T # {}
    BY <1>1 DEF Has
  <1>3. PICK x \in T : \A y \in T : x <= y
    <2> HIDE DEF T
    <2> QED BY <1>2, Least
  <1>4. ASSUME NEW j \in 1 .. x - 1 PROVE list[j].id # id
    <2>1. j \in DOMAIN list /\ ~ x <= j
      BY <1>1, <1>3
    <2> QED BY <1>3, <2>1
  <1>5. \E i \in DOMAIN list : list[i].id = id /\ \A j \in 1 .. i - 1 : list[j].id # id
    BY <1>3, <1>4
  <1> QED BY <1>5 DEF First

LEMMA WithoutNumber ==
  ASSUME NEW s, NEW t, NEW i, Without(t, s, i), NEW type
  PROVE  /\ Number(s, type) \in Nat /\ Number(t, type) \in Nat
         /\ Number(s, type) = Number(t, type) + (IF s[i].type = type THEN 1 ELSE 0)
  <1> DEFINE P == {j \in DOMAIN s : s[j].type = type}
             Q == {j \in DOMAIN t : t[j].type = type}
             from(j) == IF j < i THEN j ELSE j + 1
             f == [j \in Q |-> from(j)]
  <1>1. IsFiniteSet(P) /\ IsFiniteSet(Q)
    <2>1. /\ DOMAIN s = 1 .. Len(s) /\ Len(s) \in Int
          /\ DOMAIN t = 1 .. Len(t) /\ Len(t) \in Int
      BY DEF Without
    <2>2. \A n \in Int : IsFiniteSet(1 .. n)
      BY FS_Interval
    <2> QED BY <2>1, <2>2, FS_Subset
  <1>2. ASSUME NEW j \in Q PROVE from(j) \in P \ {i}
    BY DEF Without
  <1>3. ASSUME NEW j \in Q, NEW k \in Q, from(j) = from(k) PROVE j = k
    BY <1>3 DEF Without
  <1>4. ASSUME NEW j \in P \ {i} PROVE \E k \in Q : from(k) = j
    <2>1. CASE j < i
      BY <2>1 DEF Without
    <2>2. CASE ~ j < i
      <3>1. j - 1 \in DOMAIN t /\ t[j - 1] = s[j] /\ from(j - 1) = j
        BY <2>2 DEF Without
      <3> QED BY <3>1
    <2> QED BY <2>1, <2>2
  <1>5. Cardinality(P \ {i}) = Cardinality(Q)
    <2>1. f \in [Q -> P \ {i}]
      BY <1>2
    <2>2. f \in Bijection(Q, P \ {i})
      <3> HIDE DEF from, P, Q
      <3> QED BY <1>3, <1>4, <2>1, Fun_IsBij
    <2>3. ExistsBijection(Q, P \ {i})
      BY <2>2, Fun_ExistsBij
    <2> QED BY <1>1, <2>3, FS_Bijection
  <1>6. i \in P <=> s[i].type = type
    BY DEF Without
  <1>7. Cardinality(P) \in Nat /\ Cardinality(Q) \in Nat
    BY <1>1, FS_CardinalityType
  <1>8. Cardinality(P \ {i}) = IF i \in P THEN Cardinality(P) - 1 ELSE Cardinality(P)
    <2> HIDE DEF P
    <2> QED BY <1>1, FS_RemoveElement
  <1>9. Number(s, type) = Cardinality(P) /\ Number(t, type) = Cardinality(Q)
    BY DEF Number
  <1> HIDE DEF P, Q
  <1> QED BY <1>5, <1>6, <1>7, <1>8, <1>9

-----------------------------------------------------------------------------
(* The inductive invariant. Between two requests the lists carry what the   *)
(* parameters say, and the parameters are what NDIS asked for, overridden;  *)
(* the counters count.                                                      *)

WakeTypeOK ==
  /\ powerCapabilities \in PowerCapabilities
  /\ wakeList \in Seq(Patterns) /\ wakeListEntryCount \in Nat
  /\ offloadList \in Seq(Offloads) /\ offloadCount \in [OffloadTypes -> Nat]
  /\ asked \in Parameters /\ pmParameters \in Parameters
  /\ wakeOnMedia \in SUBSET MediaEvents /\ wakeOnPacketFilter \in BOOLEAN
  /\ inPowerTransition \in BOOLEAN

EnabledBy(list, types) ==
  \A i \in DOMAIN list : list[i].enabled = (list[i].type \in types)

ParametersApplied ==
  /\ pmParameters = Saved(asked)
  /\ EnabledBy(wakeList, pmParameters.patterns)
  /\ EnabledBy(offloadList, pmParameters.offloads)
  /\ wakeOnMedia = pmParameters.flags \cap powerCapabilities.media
  /\ wakeOnPacketFilter =
       ("suspend" \in pmParameters.flags /\ powerCapabilities.packetFilter)

EntriesCounted ==
  /\ \A t \in OffloadTypes : /\ Number(offloadList, t) = offloadCount[t]
                             /\ offloadCount[t] <= powerCapabilities[t]
  /\ wakeListEntryCount = Len(wakeList)
  /\ powerCapabilities.patterns = {} => wakeListEntryCount <= powerCapabilities.bitmap

WakeInv == WakeTypeOK /\ ParametersApplied /\ EntriesCounted

LEMMA UpdateProperties ==
  ASSUME NEW T, NEW list \in Seq([type : T, id : PowerIds, enabled : BOOLEAN]), NEW types
  PROVE  /\ Update(list, types) \in Seq([type : T, id : PowerIds, enabled : BOOLEAN])
         /\ DOMAIN Update(list, types) = DOMAIN list
         /\ Len(Update(list, types)) = Len(list)
         /\ EnabledBy(Update(list, types), types)
  <1> DEFINE E == [type : T, id : PowerIds, enabled : BOOLEAN]
             u == Update(list, types)
  <1>1. list \in [1 .. Len(list) -> E] /\ Len(list) \in Nat /\ DOMAIN list = 1 .. Len(list)
    BY LenProperties
  <1>2. \A i \in 1 .. Len(list) : u[i] = Entry(list[i].type, list[i].id, types)
    BY <1>1 DEF Update
  <1>3. u \in [1 .. Len(list) -> E]
    BY <1>1 DEF Update, Entry
  <1>4. DOMAIN u = DOMAIN list /\ \A i \in DOMAIN list : u[i].type = list[i].type
    BY <1>1, <1>2, <1>3 DEF Entry
  <1>5. EnabledBy(u, types)
    BY <1>1, <1>2, <1>4 DEF Entry, EnabledBy
  <1> HIDE DEF u, E
  <1>6. u \in Seq(E) /\ Len(u) = Len(list)
    BY <1>1, <1>3
  <1> QED BY <1>4, <1>5, <1>6 DEF u, E

LEMMA UpdateNumber ==
  ASSUME NEW list, NEW types, NEW type
  PROVE  Number(Update(list, types), type) = Number(list, type)
  <1> DEFINE u == Update(list, types)
  <1>1. DOMAIN u = DOMAIN list /\ \A i \in DOMAIN list : u[i].type = list[i].type
    BY DEF Update, Entry
  <1>2. {i \in DOMAIN u : u[i].type = type} = {i \in DOMAIN list : list[i].type = type}
    BY <1>1
  <1> QED BY <1>2 DEF Number

LEMMA CapabilitiesType ==
  ASSUME WakeTypeOK
  PROVE  powerCapabilities \in
           [bitmap : Nat, arp : Nat, ns : Nat, patterns : SUBSET {"magic", "eapol"},
            media : SUBSET MediaEvents, packetFilter : BOOLEAN]
  BY CapabilitiesAssumption DEF WakeTypeOK

LEMMA WakeInvInit == WakeInit => WakeInv
  <1> SUFFICES ASSUME WakeInit PROVE WakeInv
    OBVIOUS
  <1>1. NoParameters \in Parameters
    BY DEF NoParameters, Parameters
  <1>2. <<>> \in Seq(Patterns) /\ <<>> \in Seq(Offloads) /\ Len(<<>>) = 0 /\ DOMAIN <<>> = {}
    BY EmptySeq
  <1>3. WakeTypeOK
    BY <1>1, <1>2 DEF WakeInit, WakeTypeOK
  <1>4. ParametersApplied
    BY <1>2 DEF WakeInit, ParametersApplied, Saved, NoParameters, EnabledBy
  <1>5. \A t : Number(offloadList, t) = 0
    BY <1>2, FS_EmptySet DEF WakeInit, Number
  <1>6. EntriesCounted
    BY <1>2, <1>3, <1>5, CapabilitiesType DEF WakeInit, EntriesCounted
  <1> QED BY <1>3, <1>4, <1>6 DEF WakeInv

\* The parameters stay as they are when they and the capabilities do.
LEMMA SavedUnchanged ==
  ASSUME UNCHANGED <<powerCapabilities, asked>>
  PROVE  Saved(asked)' = Saved(asked)
  BY DEF Saved

LEMMA AddPatternStep ==
  ASSUME WakeInv, NEW type \in PatternTypes, NEW id \in PowerIds, AddWakePattern(type, id)
  PROVE  WakeInv'
  <1> DEFINE e == NewPattern(type, id)
  <1>1. e \in Patterns /\ e.enabled = (type \in pmParameters.patterns) /\ e.type = type
    BY DEF NewPattern, Entry, Patterns
  <1> HIDE DEF e
  <1>2. /\ wakeList' \in Seq(Patterns) /\ Without(wakeList, wakeList', 1)
        /\ wakeList'[1] = e
    BY <1>1, PrependProperties DEF AddWakePattern, WakeInv, WakeTypeOK, e
  <1>3. /\ wakeListEntryCount' = wakeListEntryCount + 1
        /\ UNCHANGED <<powerCapabilities, offloadList, offloadCount, pmParameters,
                       wakeOnMedia, wakeOnPacketFilter, inPowerTransition, asked>>
    BY DEF AddWakePattern
  <1>4. WakeTypeOK'
    BY <1>2, <1>3 DEF WakeInv, WakeTypeOK
  <1>5. EnabledBy(wakeList', pmParameters.patterns)
    <2>1. ASSUME NEW i \in DOMAIN wakeList', i # 1
          PROVE  i - 1 \in DOMAIN wakeList /\ wakeList'[i] = wakeList[i - 1]
      <3>1. i - 1 \in 1 .. Len(wakeList') - 1 /\ ~(i - 1 < 1) /\ (i - 1) + 1 = i
        BY <1>2, <2>1 DEF Without
      <3> QED BY <1>2, <3>1 DEF Without
    <2> QED BY <1>1, <1>2, <2>1 DEF EnabledBy, WakeInv, ParametersApplied
  <1>6. ParametersApplied'
    BY <1>3, <1>5, SavedUnchanged DEF WakeInv, ParametersApplied, EnabledBy
  <1>7. EntriesCounted'
    <2>1. wakeListEntryCount' = Len(wakeList)'
      <3>1. Len(wakeList) = Len(wakeList') - 1 /\ Len(wakeList') \in Nat \ {0}
        BY <1>2 DEF Without
      <3>2. wakeListEntryCount = Len(wakeList)
        BY DEF WakeInv, EntriesCounted
      <3> QED BY <1>3, <3>1, <3>2
    <2>2. powerCapabilities.patterns = {} =>
            wakeListEntryCount + 1 <= powerCapabilities.bitmap
      <3>1. powerCapabilities.patterns = {} =>
              type = "bitmap" /\ wakeListEntryCount # powerCapabilities.bitmap
        BY DEF AddWakePattern
      <3>2. wakeListEntryCount \in Nat /\ powerCapabilities.bitmap \in Nat
        BY CapabilitiesType DEF WakeInv, WakeTypeOK
      <3> QED BY <3>1, <3>2 DEF WakeInv, EntriesCounted
    <2> QED BY <1>3, <2>1, <2>2 DEF WakeInv, EntriesCounted, Number
  <1> QED BY <1>4, <1>6, <1>7 DEF WakeInv

LEMMA RemovePatternStep ==
  ASSUME WakeInv, NEW id \in PowerIds, RemoveWakePattern(id)
  PROVE  WakeInv'
  <1> DEFINE k == First(wakeList, id)
  <1>1. k \in DOMAIN wakeList
    BY FirstIsListed DEF RemoveWakePattern, WakeInv, WakeTypeOK
  <1>2. wakeList' \in Seq(Patterns) /\ Without(wakeList', wakeList, k)
    BY <1>1, RemoveAtProperties DEF RemoveWakePattern, WakeInv, WakeTypeOK
  <1>3. /\ wakeListEntryCount' = wakeListEntryCount - 1
        /\ UNCHANGED <<powerCapabilities, offloadList, offloadCount, pmParameters,
                       wakeOnMedia, wakeOnPacketFilter, inPowerTransition, asked>>
    BY DEF RemoveWakePattern
  <1> HIDE DEF k
  <1>4. /\ wakeListEntryCount' = Len(wakeList)' /\ wakeListEntryCount' \in Nat
        /\ wakeListEntryCount' <= wakeListEntryCount
    <2>1. Len(wakeList') = Len(wakeList) - 1 /\ Len(wakeList) \in Nat \ {0}
      BY <1>2 DEF Without
    <2>2. wakeListEntryCount = Len(wakeList)
      BY DEF WakeInv, EntriesCounted
    <2> QED BY <1>3, <2>1, <2>2
  <1>5. WakeTypeOK'
    BY <1>2, <1>3, <1>4 DEF WakeInv, WakeTypeOK
  <1>6. ASSUME NEW i \in DOMAIN wakeList'
        PROVE  \E j \in DOMAIN wakeList : wakeList'[i] = wakeList[j]
    <2>1. i \in DOMAIN wakeList /\ i + 1 \in DOMAIN wakeList
      BY <1>2, <1>6 DEF Without
    <2> QED BY <1>2, <1>6, <2>1 DEF Without
  <1>7. ParametersApplied'
    BY <1>3, <1>6, SavedUnchanged DEF WakeInv, ParametersApplied, EnabledBy
  <1>8. EntriesCounted'
    <2>1. powerCapabilities.patterns = {} => wakeListEntryCount' <= powerCapabilities.bitmap
      <3>1. wakeListEntryCount \in Nat /\ powerCapabilities.bitmap \in Nat
        BY CapabilitiesType DEF WakeInv, WakeTypeOK
      <3> QED BY <1>4, <3>1 DEF WakeInv, EntriesCounted
    <2> QED BY <1>3, <1>4, <2>1 DEF WakeInv, EntriesCounted, Number
  <1> QED BY <1>5, <1>7, <1>8 DEF WakeInv

LEMMA AddOffloadStep ==
  ASSUME WakeInv, NEW type \in OffloadTypes, NEW id \in PowerIds,
         AddProtocolOffload(type, id)
  PROVE  WakeInv'
  <1> DEFINE e == NewOffload(type, id)
  <1>1. e \in Offloads /\ e.enabled = (type \in pmParameters.offloads) /\ e.type = type
    BY DEF NewOffload, Entry, Offloads
  <1> HIDE DEF e
  <1>2. /\ offloadList' \in Seq(Offloads) /\ Without(offloadList, offloadList', 1)
        /\ offloadList'[1] = e
    BY <1>1, PrependProperties DEF AddProtocolOffload, WakeInv, WakeTypeOK, e
  <1>3. /\ offloadCount' = [offloadCount EXCEPT ![type] = @ + 1]
        /\ offloadCount[type] # powerCapabilities[type]
        /\ UNCHANGED <<powerCapabilities, wakeList, wakeListEntryCount, pmParameters,
                       wakeOnMedia, wakeOnPacketFilter, inPowerTransition, asked>>
    BY DEF AddProtocolOffload
  <1>4. offloadCount \in [OffloadTypes -> Nat]
    BY DEF WakeInv, WakeTypeOK
  <1>5. WakeTypeOK'
    BY <1>2, <1>3, <1>4 DEF WakeInv, WakeTypeOK
  <1>6. EnabledBy(offloadList', pmParameters.offloads)
    <2>1. ASSUME NEW i \in DOMAIN offloadList', i # 1
          PROVE  i - 1 \in DOMAIN offloadList /\ offloadList'[i] = offloadList[i - 1]
      <3>1. i - 1 \in 1 .. Len(offloadList') - 1 /\ ~(i - 1 < 1) /\ (i - 1) + 1 = i
        BY <1>2, <2>1 DEF Without
      <3> QED BY <1>2, <3>1 DEF Without
    <2> QED BY <1>1, <1>2, <2>1 DEF EnabledBy, WakeInv, ParametersApplied
  <1>7. ParametersApplied'
    BY <1>3, <1>6, SavedUnchanged DEF WakeInv, ParametersApplied, EnabledBy
  <1>8. EntriesCounted'
    <2>1. ASSUME NEW t \in OffloadTypes
          PROVE  /\ Number(offloadList', t) = offloadCount'[t]
                 /\ offloadCount'[t] <= powerCapabilities[t]
      <3>1. /\ Number(offloadList', t)
                 = Number(offloadList, t) + (IF type = t THEN 1 ELSE 0)
            /\ Number(offloadList, t) \in Nat
        BY <1>1, <1>2, WithoutNumber
      <3>2. powerCapabilities[t] \in Nat
        BY CapabilitiesType DEF WakeInv
      <3>3. /\ Number(offloadList, t) = offloadCount[t]
            /\ offloadCount[t] <= powerCapabilities[t]
        BY DEF WakeInv, EntriesCounted
      <3>4. CASE type = t
        <4>1. offloadCount'[t] = offloadCount[t] + 1 /\ offloadCount[t] # powerCapabilities[t]
          BY <1>3, <1>4, <3>4
        <4> QED BY <3>1, <3>2, <3>3, <3>4, <4>1
      <3>5. CASE type # t
        <4>1. offloadCount'[t] = offloadCount[t]
          BY <1>3, <1>4, <3>5
        <4> QED BY <3>1, <3>2, <3>3, <3>5, <4>1
      <3> QED BY <3>4, <3>5
    <2> QED BY <1>3, <2>1 DEF WakeInv, EntriesCounted, Number
  <1> QED BY <1>5, <1>7, <1>8 DEF WakeInv

LEMMA RemoveOffloadStep ==
  ASSUME WakeInv, NEW id \in PowerIds, RemoveProtocolOffload(id)
  PROVE  WakeInv'
  <1> DEFINE k == First(offloadList, id)
             type == Removed(offloadList, id)
  <1>1. k \in DOMAIN offloadList
    BY FirstIsListed DEF RemoveProtocolOffload, WakeInv, WakeTypeOK
  <1>2. offloadList' \in Seq(Offloads) /\ Without(offloadList', offloadList, k)
    BY <1>1, RemoveAtProperties DEF RemoveProtocolOffload, WakeInv, WakeTypeOK
  <1>3. /\ offloadCount' = [offloadCount EXCEPT ![type] = @ - 1]
        /\ UNCHANGED <<powerCapabilities, wakeList, wakeListEntryCount, pmParameters,
                       wakeOnMedia, wakeOnPacketFilter, inPowerTransition, asked>>
    BY DEF RemoveProtocolOffload
  <1>4. type = offloadList[k].type
    BY DEF Removed
  <1>5. type \in OffloadTypes
    <2>1. offloadList[k] \in Offloads
      BY <1>1, LenProperties DEF WakeInv, WakeTypeOK
    <2> QED BY <1>4, <2>1 DEF Offloads
  <1> HIDE DEF k, type
  <1>6. offloadCount \in [OffloadTypes -> Nat]
    BY DEF WakeInv, WakeTypeOK
  <1>7. ASSUME NEW t \in OffloadTypes
        PROVE  /\ Number(offloadList', t) = offloadCount'[t] /\ offloadCount'[t] \in Nat
               /\ offloadCount'[t] <= powerCapabilities[t]
    <2>1. /\ Number(offloadList, t)
               = Number(offloadList', t) + (IF type = t THEN 1 ELSE 0)
          /\ Number(offloadList, t) \in Nat /\ Number(offloadList', t) \in Nat
      BY <1>2, <1>4, WithoutNumber
    <2>2. powerCapabilities[t] \in Nat
      BY CapabilitiesType DEF WakeInv
    <2>3. /\ Number(offloadList, t) = offloadCount[t]
          /\ offloadCount[t] <= powerCapabilities[t]
      BY DEF WakeInv, EntriesCounted
    <2>4. offloadCount'[t] = offloadCount[t] - (IF type = t THEN 1 ELSE 0)
      BY <1>3, <1>6
    <2> QED BY <2>1, <2>2, <2>3, <2>4
  <1>8. offloadCount' \in [OffloadTypes -> Nat]
    BY <1>3, <1>6, <1>7
  <1>9. WakeTypeOK'
    BY <1>2, <1>3, <1>8 DEF WakeInv, WakeTypeOK
  <1>10. ASSUME NEW i \in DOMAIN offloadList'
         PROVE  \E j \in DOMAIN offloadList : offloadList'[i] = offloadList[j]
    <2>1. i \in DOMAIN offloadList /\ i + 1 \in DOMAIN offloadList
      BY <1>2, <1>10 DEF Without
    <2> QED BY <1>2, <1>10, <2>1 DEF Without
  <1>11. ParametersApplied'
    BY <1>3, <1>10, SavedUnchanged DEF WakeInv, ParametersApplied, EnabledBy
  <1>12. EntriesCounted'
    BY <1>3, <1>7 DEF WakeInv, EntriesCounted, Number
  <1> QED BY <1>9, <1>11, <1>12 DEF WakeInv

LEMMA SetParametersStep ==
  ASSUME WakeInv, NEW p \in PmParameters, SetParameters(p)
  PROVE  WakeInv'
  <1> DEFINE new == Saved(p)
  <1>1. p \in Parameters
    BY ParametersAssumption DEF Parameters
  <1>2. new \in Parameters
    <2>1. powerCapabilities.media \subseteq MediaEvents
      BY CapabilitiesType DEF WakeInv
    <2> QED BY <1>1, <2>1 DEF Saved, Parameters
  <1>3. /\ asked' = p /\ pmParameters' = new
        /\ UNCHANGED <<powerCapabilities, wakeListEntryCount, offloadCount,
                       inPowerTransition>>
    BY DEF SetParameters
  <1>4. Saved(asked)' = new
    BY <1>3 DEF Saved
  <1>5. /\ wakeOnMedia' = new.flags \cap powerCapabilities.media
        /\ wakeOnPacketFilter' = ("suspend" \in new.flags /\ powerCapabilities.packetFilter)
    BY DEF SetParameters, WakeInv, ParametersApplied
  <1>6. /\ wakeList' \in Seq(Patterns) /\ Len(wakeList') = Len(wakeList)
        /\ EnabledBy(wakeList', new.patterns)
    <2>1. CASE new.patterns = pmParameters.patterns
      BY <2>1 DEF SetParameters, WakeInv, WakeTypeOK, ParametersApplied
    <2>2. CASE new.patterns # pmParameters.patterns
      <3>1. wakeList' = Update(wakeList, new.patterns)
        BY <2>2 DEF SetParameters
      <3>2. wakeList \in Seq(Patterns)
        BY DEF WakeInv, WakeTypeOK
      <3> QED BY <3>1, <3>2, UpdateProperties DEF Patterns
    <2> QED BY <2>1, <2>2
  <1>7. /\ offloadList' \in Seq(Offloads)
        /\ EnabledBy(offloadList', new.offloads)
        /\ \A t : Number(offloadList', t) = Number(offloadList, t)
    <2>1. CASE new.offloads = pmParameters.offloads
      BY <2>1 DEF SetParameters, WakeInv, WakeTypeOK, ParametersApplied
    <2>2. CASE new.offloads # pmParameters.offloads
      <3>1. offloadList' = Update(offloadList, new.offloads)
        BY <2>2 DEF SetParameters
      <3>2. offloadList \in Seq(Offloads)
        BY DEF WakeInv, WakeTypeOK
      <3>3. /\ Update(offloadList, new.offloads) \in Seq(Offloads)
            /\ EnabledBy(Update(offloadList, new.offloads), new.offloads)
            /\ \A t : Number(Update(offloadList, new.offloads), t) = Number(offloadList, t)
        <4>1. /\ Update(offloadList, new.offloads) \in Seq(Offloads)
              /\ EnabledBy(Update(offloadList, new.offloads), new.offloads)
          BY <3>2, UpdateProperties DEF Offloads
        <4>2. ASSUME NEW t
              PROVE  Number(Update(offloadList, new.offloads), t) = Number(offloadList, t)
          BY UpdateNumber
        <4> QED BY <4>1, <4>2
      <3> QED BY <3>1, <3>3
    <2> QED BY <2>1, <2>2
  <1> HIDE DEF new
  <1>8. WakeTypeOK'
    <2>1. wakeOnMedia' \in SUBSET MediaEvents
      BY <1>5, CapabilitiesType DEF WakeInv
    <2>2. wakeOnPacketFilter' \in BOOLEAN
      BY <1>5, CapabilitiesType DEF WakeInv
    <2> QED BY <1>1, <1>2, <1>3, <1>6, <1>7, <2>1, <2>2 DEF WakeInv, WakeTypeOK
  <1>9. ParametersApplied'
    BY <1>3, <1>4, <1>5, <1>6, <1>7 DEF ParametersApplied, EnabledBy
  <1>10. EntriesCounted'
    BY <1>3, <1>6, <1>7 DEF WakeInv, EntriesCounted, Number
  <1> QED BY <1>8, <1>9, <1>10 DEF WakeInv

LEMMA WakeInvStep == WakeInv /\ [WakeNext]_wakeVars => WakeInv'
  <1> SUFFICES ASSUME WakeInv, [WakeNext]_wakeVars PROVE WakeInv'
    OBVIOUS
  <1>1. CASE FrameworkSetOid
    BY <1>1, AddPatternStep, RemovePatternStep, AddOffloadStep, RemoveOffloadStep,
       SetParametersStep DEF FrameworkSetOid
  <1>2. CASE PowerTransition
    <2>1. /\ inPowerTransition' \in BOOLEAN
          /\ UNCHANGED <<powerCapabilities, wakeList, wakeListEntryCount, offloadList,
                         offloadCount, pmParameters, wakeOnMedia, wakeOnPacketFilter,
                         asked>>
      BY <1>2 DEF PowerTransition
    <2> QED BY <2>1, SavedUnchanged DEF WakeInv, WakeTypeOK, ParametersApplied,
                 EntriesCounted, EnabledBy, Number
  <1>3. CASE UNCHANGED wakeVars
    BY <1>3, SavedUnchanged DEF wakeVars, WakeInv, WakeTypeOK, ParametersApplied,
       EntriesCounted, EnabledBy, Number
  <1> QED BY <1>1, <1>2, <1>3 DEF WakeNext

-----------------------------------------------------------------------------
(* What follows from it.                                                    *)

LEMMA InvArms == WakeInv => DriverArmsWhatNdisAsked
  <1> SUFFICES ASSUME WakeInv, inPowerTransition PROVE DriverArmsWhatNdisAsked
    BY DEF DriverArmsWhatNdisAsked
  <1>1. /\ pmParameters = Saved(asked) /\ asked \in Parameters
        /\ powerCapabilities.media \subseteq MediaEvents
        /\ powerCapabilities.packetFilter \in BOOLEAN
    BY CapabilitiesType DEF WakeInv, ParametersApplied, WakeTypeOK
  <1>2. pmParameters.patterns = IF "suspend" \in asked.flags THEN {} ELSE asked.patterns
    BY <1>1 DEF Saved, Parameters
  <1>3. pmParameters.offloads = asked.offloads
    BY <1>1 DEF Saved, Parameters
  <1>4. pmParameters.flags = IF "suspend" \in asked.flags
                             THEN asked.flags \cup powerCapabilities.media ELSE asked.flags
    BY <1>1 DEF Saved, Parameters
  <1>5. WakeSourceList = {i \in DOMAIN wakeList :
                            wakeList[i].type \in pmParameters.patterns}
    BY DEF WakeSourceList, Listed, WakeInv, ParametersApplied, EnabledBy
  <1>6. PowerOffloadList = {i \in DOMAIN offloadList :
                              offloadList[i].type \in pmParameters.offloads}
    BY DEF PowerOffloadList, Listed, WakeInv, ParametersApplied, EnabledBy
  <1>7. MediaListed = (powerCapabilities.media \cap
                         (IF "suspend" \in asked.flags THEN MediaEvents ELSE asked.flags) # {})
    <2>1. wakeOnMedia = powerCapabilities.media \cap
                          (IF "suspend" \in asked.flags THEN MediaEvents ELSE asked.flags)
      BY <1>1, <1>4 DEF WakeInv, ParametersApplied
    <2> QED BY <2>1 DEF MediaListed
  <1>8. PacketFilterListed = ("suspend" \in asked.flags /\ powerCapabilities.packetFilter)
    <2>1. "suspend" \in pmParameters.flags <=> "suspend" \in asked.flags
      BY <1>1, <1>4
    <2>2. wakeOnPacketFilter =
            ("suspend" \in pmParameters.flags /\ powerCapabilities.packetFilter)
      BY DEF WakeInv, ParametersApplied
    <2> QED BY <1>1, <2>1, <2>2 DEF PacketFilterListed
  <1> QED BY <1>2, <1>3, <1>5, <1>6, <1>7, <1>8 DEF DriverArmsWhatNdisAsked

LEMMA InvLimits == WakeInv => WithinLimits
  <1> SUFFICES ASSUME WakeInv PROVE WithinLimits
    OBVIOUS
  <1>1. Number(wakeList, "bitmap") <= wakeListEntryCount /\ wakeListEntryCount \in Nat
        /\ Number(wakeList, "bitmap") \in Nat
    <2>1. DOMAIN wakeList = 1 .. Len(wakeList) /\ Len(wakeList) \in Nat
      BY LenProperties DEF WakeInv, WakeTypeOK
    <2>2. IsFiniteSet(1 .. Len(wakeList)) /\ Cardinality(1 .. Len(wakeList)) = Len(wakeList)
      <3>1. /\ IsFiniteSet(1 .. Len(wakeList))
            /\ Cardinality(1 .. Len(wakeList)) =
                 IF 1 > Len(wakeList) THEN 0 ELSE Len(wakeList) - 1 + 1
        BY <2>1, FS_Interval, SMTT(30)
      <3> QED BY <2>1, <3>1
    <2> DEFINE T == {i \in DOMAIN wakeList : wakeList[i].type = "bitmap"}
    <2>3. T \in SUBSET (1 .. Len(wakeList))
      BY <2>1
    <2>4. IsFiniteSet(T) /\ Cardinality(T) <= Len(wakeList)
      BY <2>2, <2>3, FS_Subset
    <2>5. Cardinality(T) \in Nat
      BY <2>4, FS_CardinalityType
    <2> QED BY <2>1, <2>4, <2>5 DEF Number, WakeInv, EntriesCounted
  <1>2. powerCapabilities.bitmap \in Nat
    BY CapabilitiesType DEF WakeInv
  <1> QED BY <1>1, <1>2 DEF WithinLimits, WakeInv, EntriesCounted

-----------------------------------------------------------------------------
\* The lists and what NDIS asked for have their types, the parameters apply to
\* every entry and the counters count, in every reachable state.
THEOREM WakeInvariant == WakeSpec => []WakeInv
  <1> QED BY WakeInvInit, WakeInvStep, PTL DEF WakeSpec

\* In a power transition a driver arms exactly what NDIS enabled last, in
\* whatever order the patterns, the offloads and the parameters came, and it
\* gets no more offloads and bitmap patterns than it can do: for all the
\* capabilities of drivers, all parameters and lists of any length.
THEOREM WakeAsAskedAlways == WakeSpec => []WakeAsAsked
  <1>1. WakeInv => WakeAsAsked
    BY InvArms, InvLimits DEF WakeAsAsked
  <1> QED BY <1>1, WakeInvariant, PTL

-----------------------------------------------------------------------------
(****************************************************************************)
(* The power references.                                                    *)
(****************************************************************************)
Setters == {"capabilities", "ndis", "d0"}

-----------------------------------------------------------------------------
(* Idle restrictions. An evaluation is under way whenever the reference may *)
(* not be what the conditions ask for.                                      *)

IdleInv ==
  /\ setter \in [Setters -> {"idle", "evaluate"}]
  /\ d0 \in {"before", "entered", "told"}
  /\ powerReferenceAcquired \in BOOLEAN
  /\ current \in Nat /\ minimum \in Nat
  /\ minimum = MinimumIdleCondition(packetFilterMatch)
  /\ d0 = "told" /\ (\A s \in Setters : setter[s] = "idle") =>
       powerReferenceAcquired = (current < minimum)

LEMMA MinimumType == \A match : MinimumIdleCondition(match) \in Nat
  BY DEF MinimumIdleCondition, AnyLowLatency, AnyCondition, UnicastOnly

LEMMA IdleInit == PowerInit => IdleInv
  <1> SUFFICES ASSUME PowerInit PROVE IdleInv
    OBVIOUS
  <1>1. setter \in [Setters -> {"idle", "evaluate"}]
    BY DEF PowerInit, Setters
  <1>2. setter["capabilities"] = "evaluate" /\ "capabilities" \in Setters
    BY DEF PowerInit, Setters
  <1>3. current \in Nat /\ minimum \in Nat
    BY MinimumType DEF PowerInit, AnyLowLatency
  <1>4. minimum = MinimumIdleCondition(packetFilterMatch)
    BY DEF PowerInit
  <1> QED BY <1>1, <1>2, <1>3, <1>4 DEF PowerInit, IdleInv

\* The references of NDIS leave the restrictions alone.
LEMMA RestrictionsUnchanged ==
  ASSUME IdleInv, UNCHANGED restrictions
  PROVE  IdleInv'
  <1>1. UNCHANGED <<selfManaged, highLatencyResume, packetFilterMatch, d0, minimum,
                    current, setter, powerReferenceAcquired>>
    BY DEF restrictions, restrictionVars
  <1> QED BY <1>1 DEF IdleInv, MinimumIdleCondition

LEMMA IdleStep == IdleInv /\ [PowerNext]_powerVars => IdleInv'
  <1> SUFFICES ASSUME IdleInv, [PowerNext]_powerVars PROVE IdleInv'
    OBVIOUS
  <1>1. CASE SetWakePacketFilterCapabilities
    <2>1. setter' = [setter EXCEPT !["capabilities"] = "evaluate"]
      BY <1>1 DEF SetWakePacketFilterCapabilities
    <2>2. setter'["capabilities"] = "evaluate"
      BY <2>1 DEF IdleInv, Setters
    <2>3. minimum' = MinimumIdleCondition(packetFilterMatch)'
      BY <1>1 DEF SetWakePacketFilterCapabilities, MinimumIdleCondition
    <2>4. minimum' \in Nat
      BY <1>1, MinimumType DEF SetWakePacketFilterCapabilities
    <2> QED BY <1>1, <2>1, <2>2, <2>3, <2>4 DEF SetWakePacketFilterCapabilities, IdleInv, Setters
  <1>2. ASSUME NEW c \in IdleConditions, SetCurrentIdleCondition(c) PROVE IdleInv'
    <2>1. setter' = [setter EXCEPT !["ndis"] = "evaluate"]
      BY <1>2 DEF SetCurrentIdleCondition
    <2>2. setter'["ndis"] = "evaluate"
      BY <2>1 DEF IdleInv, Setters
    <2>3. current' \in Nat
      BY <1>2 DEF SetCurrentIdleCondition, IdleConditions, AnyLowLatency,
                  AnyCondition, UnicastOnly
    <2> QED BY <1>2, <2>1, <2>2, <2>3
            DEF SetCurrentIdleCondition, IdleInv, Setters, MinimumIdleCondition
  <1>3. CASE FirstD0Entry
    BY <1>3 DEF FirstD0Entry, restrictionVars, IdleInv, MinimumIdleCondition
  <1>4. CASE PostD0Entry
    <2>1. setter' = [setter EXCEPT !["d0"] = "evaluate"]
      BY <1>4 DEF PostD0Entry
    <2>2. setter'["d0"] = "evaluate"
      BY <2>1 DEF IdleInv, Setters
    <2> QED BY <1>4, <2>1, <2>2 DEF PostD0Entry, IdleInv, Setters, MinimumIdleCondition
  <1>5. ASSUME NEW s \in DOMAIN setter, RestrictS0IdleByIdleCondition(s) PROVE IdleInv'
    <2>1. setter' \in [Setters -> {"idle", "evaluate"}]
      BY <1>5 DEF RestrictS0IdleByIdleCondition, IdleInv
    <2>2. d0 = "told" => powerReferenceAcquired' = (current < minimum)
      <3>1. powerReferenceAcquired' = (/\ current < minimum
                                       /\ powerReferenceAcquired \/ d0 # "before")
        BY <1>5 DEF RestrictS0IdleByIdleCondition
      <3>2. d0 = "told" => d0 # "before"
        OBVIOUS
      <3> DEFINE restricts == current < minimum
      <3>3. restricts \in BOOLEAN
        OBVIOUS
      <3>4. powerReferenceAcquired' = (restricts /\ (powerReferenceAcquired \/ d0 # "before"))
        BY <3>1
      <3> HIDE DEF restricts
      <3>5. d0 = "told" => powerReferenceAcquired' = restricts
        BY <3>2, <3>3, <3>4
      <3> QED BY <3>5 DEF restricts
    <2>3. powerReferenceAcquired' \in BOOLEAN
      BY <1>5 DEF RestrictS0IdleByIdleCondition, IdleInv
    <2> QED BY <1>5, <2>1, <2>2, <2>3
            DEF RestrictS0IdleByIdleCondition, IdleInv, MinimumIdleCondition
  <1>6. ASSUME NEW u \in PowerUsers,
               \/ PowerReference(u) \/ StopIdle(u) \/ CountSuccess(u)
               \/ PowerDereference(u) \/ ResumeIdle(u)
        PROVE  IdleInv'
    BY <1>6, RestrictionsUnchanged
       DEF PowerReference, StopIdle, CountSuccess, PowerDereference, ResumeIdle
  <1>7. CASE ReleaseOutstandingPowerReferences
    BY <1>7, RestrictionsUnchanged DEF ReleaseOutstandingPowerReferences
  <1>8. CASE UNCHANGED powerVars
    BY <1>8, RestrictionsUnchanged DEF powerVars, restrictions, restrictionVars
  <1> QED BY <1>1, <1>2, <1>3, <1>4, <1>5, <1>6, <1>7, <1>8 DEF PowerNext

\* The device is kept from idling if and only if NDIS's condition asks for more
\* than the driver can do, once every change was evaluated.
THEOREM IdleRestrictionsHold == PowerSpec => []IdleAsRestricted
  <1>1. IdleInv => IdleAsRestricted
    BY DEF IdleInv, IdleAsRestricted
  <1> QED BY <1>1, IdleInit, IdleStep, PTL DEF PowerSpec

-----------------------------------------------------------------------------
(* The references of NDIS. WDF counts what the adapter counts and what is   *)
(* on its way there or back; the adapter never counts more than users hold. *)

UserStates == {"none", "stopping", "counts", "holds", "resuming"}

doing == [s \in UserStates |-> Cardinality(Doing(s))]

BalanceInv ==
  /\ user \in [PowerUsers -> UserStates]
  /\ doing \in [UserStates -> Nat]
  /\ successful \in Nat /\ wdfReferences \in Nat
  /\ selfManaged \in BOOLEAN /\ refused \in BOOLEAN /\ interfaceStopped \in BOOLEAN
  /\ wdfReferences = doing["counts"] + successful + doing["resuming"]
  /\ successful <= doing["holds"]
  /\ ~(selfManaged \/ refused \/ interfaceStopped) => successful = doing["holds"]
  /\ interfaceStopped =>
       successful = 0 /\ doing["counts"] = 0 /\ doing["stopping"] = 0

LEMMA Counted ==
  ASSUME NEW s PROVE IsFiniteSet(Doing(s)) /\ Cardinality(Doing(s)) \in Nat
  <1>1. Doing(s) \in SUBSET PowerUsers
    BY DEF Doing
  <1>2. IsFiniteSet(Doing(s))
    BY <1>1, PowerUsersAssumption, FS_Subset
  <1> QED BY <1>2, FS_CardinalityType

LEMMA NumberOfNone ==
  ASSUME NEW s \in UserStates PROVE doing[s] = 0 <=> Doing(s) = {}
  BY Counted, FS_EmptySet DEF doing

\* A user that moves from one state to another is counted there.
LEMMA ReferencesMove ==
  ASSUME user \in [PowerUsers -> UserStates], doing \in [UserStates -> Nat],
         NEW u \in PowerUsers, NEW from \in UserStates, NEW to \in UserStates,
         from # to, BecomesUser(u, from, to)
  PROVE  /\ user' \in [PowerUsers -> UserStates]
         /\ doing' = [doing EXCEPT ![from] = doing[from] - 1, ![to] = doing[to] + 1]
         /\ doing' \in [UserStates -> Nat]
         /\ doing[from] > 0
  <1>1. user[u] = from /\ user' = [user EXCEPT ![u] = to]
    BY DEF BecomesUser
  <1>2. user' \in [PowerUsers -> UserStates]
    BY <1>1
  <1>3. Doing(from)' = Doing(from) \ {u} /\ u \in Doing(from)
    BY <1>1 DEF Doing
  <1>4. Doing(to)' = Doing(to) \cup {u} /\ u \notin Doing(to)
    BY <1>1 DEF Doing
  <1>5. \A s \in UserStates \ {from, to} : Doing(s)' = Doing(s)
    BY <1>1 DEF Doing
  <1>6. Cardinality(Doing(from)') = Cardinality(Doing(from)) - 1
    BY <1>3, Counted, FS_RemoveElement
  <1>7. Cardinality(Doing(to)') = Cardinality(Doing(to)) + 1
    BY <1>4, Counted, FS_AddElement
  <1>8. doing[from] # 0
    BY <1>3, NumberOfNone
  <1>9. doing' = [s \in UserStates |-> Cardinality(Doing(s)')]
    BY DEF doing
  <1>10. \A s \in UserStates : doing[s] = Cardinality(Doing(s))
    BY DEF doing
  <1>11. doing' = [doing EXCEPT ![from] = doing[from] - 1, ![to] = doing[to] + 1]
    BY <1>5, <1>6, <1>7, <1>9, <1>10
  <1>12. doing[from] > 0
    BY <1>8
  <1>13. doing' \in [UserStates -> Nat]
    BY <1>11, <1>12
  <1> QED BY <1>2, <1>11, <1>12, <1>13

LEMMA BalanceInit == PowerInit => BalanceInv
  <1> SUFFICES ASSUME PowerInit PROVE BalanceInv
    OBVIOUS
  <1>1. \A s \in UserStates \ {"none"} : Doing(s) = {}
    BY DEF PowerInit, Doing
  <1>2. \A s \in UserStates \ {"none"} : doing[s] = 0
    BY <1>1, NumberOfNone
  <1>3. doing \in [UserStates -> Nat]
    BY Counted DEF doing
  <1>4. user \in [PowerUsers -> UserStates]
    BY DEF PowerInit, UserStates
  <1>5. doing["counts"] = 0 /\ doing["holds"] = 0 /\ doing["resuming"] = 0
    BY <1>2 DEF UserStates
  <1>6. /\ successful = 0 /\ wdfReferences = 0 /\ interfaceStopped = FALSE
        /\ refused = FALSE /\ selfManaged \in BOOLEAN
    BY DEF PowerInit
  <1>7. wdfReferences = doing["counts"] + successful + doing["resuming"]
    BY <1>5, <1>6
  <1>8. ~interfaceStopped /\ interfaceStopped \in BOOLEAN /\ refused \in BOOLEAN
    BY <1>6
  <1> QED BY <1>3, <1>4, <1>5, <1>6, <1>7, <1>8 DEF BalanceInv

\* What the idle restrictions do does not touch NDIS's references.
LEMMA ReferencesUnchanged ==
  ASSUME BalanceInv, UNCHANGED <<selfManaged, referenceVars>>
  PROVE  BalanceInv'
  <1>1. UNCHANGED <<selfManaged, user, successful, wdfReferences, refused,
                    interfaceStopped>>
    BY DEF referenceVars
  <1>2. UNCHANGED doing
    BY <1>1 DEF doing, Doing
  <1> QED BY <1>1, <1>2 DEF BalanceInv

LEMMA BalanceStep == BalanceInv /\ [PowerNext]_powerVars => BalanceInv'
  <1> SUFFICES ASSUME BalanceInv, [PowerNext]_powerVars PROVE BalanceInv'
    OBVIOUS
  <1> USE DEF UserStates
  <1>t. /\ user \in [PowerUsers -> UserStates] /\ doing \in [UserStates -> Nat]
        /\ successful \in Nat /\ wdfReferences \in Nat
        /\ selfManaged \in BOOLEAN /\ refused \in BOOLEAN /\ interfaceStopped \in BOOLEAN
    BY DEF BalanceInv
  <1>1. \/ SetWakePacketFilterCapabilities
        \/ \E c \in IdleConditions : SetCurrentIdleCondition(c)
        \/ FirstD0Entry \/ PostD0Entry
        \/ \E s \in DOMAIN setter : RestrictS0IdleByIdleCondition(s)
        \/ UNCHANGED powerVars
        => BalanceInv'
    BY ReferencesUnchanged
       DEF SetWakePacketFilterCapabilities, SetCurrentIdleCondition, FirstD0Entry,
           PostD0Entry, RestrictS0IdleByIdleCondition, powerVars, referenceVars
  <1>2. ASSUME NEW u \in PowerUsers, PowerReference(u) PROVE BalanceInv'
    <2>1. UNCHANGED <<selfManaged, successful, wdfReferences, refused, interfaceStopped>>
          /\ ~interfaceStopped
      BY <1>2 DEF PowerReference, restrictions
    <2>2. CASE selfManaged
      <3>1. BecomesUser(u, "none", "holds")
        BY <1>2, <2>2 DEF PowerReference
      <3>2. /\ user' \in [PowerUsers -> UserStates] /\ doing' \in [UserStates -> Nat]
            /\ doing' = [doing EXCEPT !["none"] = doing["none"] - 1,
                                        !["holds"] = doing["holds"] + 1]
        BY <3>1, <1>t, ReferencesMove
      <3> QED BY <1>t, <2>1, <2>2, <3>2 DEF BalanceInv
    <2>3. CASE ~selfManaged
      <3>1. BecomesUser(u, "none", "stopping")
        BY <1>2, <2>3 DEF PowerReference
      <3>2. /\ user' \in [PowerUsers -> UserStates] /\ doing' \in [UserStates -> Nat]
            /\ doing' = [doing EXCEPT !["none"] = doing["none"] - 1,
                                        !["stopping"] = doing["stopping"] + 1]
        BY <3>1, <1>t, ReferencesMove
      <3> QED BY <1>t, <2>1, <3>2 DEF BalanceInv
    <2> QED BY <2>2, <2>3
  <1>3. ASSUME NEW u \in PowerUsers, StopIdle(u) PROVE BalanceInv'
    <2>0. UNCHANGED <<selfManaged, successful, interfaceStopped>>
      BY <1>3 DEF StopIdle, restrictions
    <2>1. CASE BecomesUser(u, "stopping", "counts")
      <3>1. wdfReferences' = wdfReferences + 1 /\ UNCHANGED refused
        BY <1>3, <2>1, <1>t DEF StopIdle, BecomesUser
      <3>2. /\ user' \in [PowerUsers -> UserStates] /\ doing' \in [UserStates -> Nat]
            /\ doing' = [doing EXCEPT !["stopping"] = doing["stopping"] - 1,
                                        !["counts"] = doing["counts"] + 1]
            /\ doing["stopping"] > 0
        BY <2>1, <1>t, ReferencesMove
      <3> QED BY <1>t, <2>0, <3>1, <3>2 DEF BalanceInv
    <2>2. CASE BecomesUser(u, "stopping", "holds")
      <3>1. UNCHANGED wdfReferences /\ refused' = TRUE
        BY <1>3, <2>2, <1>t DEF StopIdle, BecomesUser
      <3>2. /\ user' \in [PowerUsers -> UserStates] /\ doing' \in [UserStates -> Nat]
            /\ doing' = [doing EXCEPT !["stopping"] = doing["stopping"] - 1,
                                        !["holds"] = doing["holds"] + 1]
            /\ doing["stopping"] > 0
        BY <2>2, <1>t, ReferencesMove
      <3> QED BY <1>t, <2>0, <3>1, <3>2 DEF BalanceInv
    <2> QED BY <1>3, <2>1, <2>2 DEF StopIdle
  <1>4. ASSUME NEW u \in PowerUsers, CountSuccess(u) PROVE BalanceInv'
    <2>1. /\ BecomesUser(u, "counts", "holds") /\ successful' = successful + 1
          /\ UNCHANGED <<selfManaged, wdfReferences, refused, interfaceStopped>>
      BY <1>4 DEF CountSuccess, restrictions
    <2>2. /\ user' \in [PowerUsers -> UserStates] /\ doing' \in [UserStates -> Nat]
          /\ doing' = [doing EXCEPT !["counts"] = doing["counts"] - 1,
                                      !["holds"] = doing["holds"] + 1]
          /\ doing["counts"] > 0
      BY <2>1, <1>t, ReferencesMove
    <2> QED BY <1>t, <2>1, <2>2 DEF BalanceInv
  <1>5. ASSUME NEW u \in PowerUsers, PowerDereference(u) PROVE BalanceInv'
    <2>0. UNCHANGED <<selfManaged, wdfReferences, refused, interfaceStopped>>
      BY <1>5 DEF PowerDereference, restrictions
    <2>1. CASE successful # 0
      <3>1. BecomesUser(u, "holds", "resuming") /\ successful' = successful - 1
        BY <1>5, <2>1 DEF PowerDereference
      <3>2. /\ user' \in [PowerUsers -> UserStates] /\ doing' \in [UserStates -> Nat]
            /\ doing' = [doing EXCEPT !["holds"] = doing["holds"] - 1,
                                        !["resuming"] = doing["resuming"] + 1]
        BY <3>1, <1>t, ReferencesMove
      <3> QED BY <1>t, <2>0, <2>1, <3>1, <3>2 DEF BalanceInv
    <2>2. CASE successful = 0
      <3>1. BecomesUser(u, "holds", "none") /\ UNCHANGED successful
        <4>1. ~(successful > 0)
          BY <2>2
        <4> QED BY <1>5, <4>1 DEF PowerDereference
      <3>2. /\ user' \in [PowerUsers -> UserStates] /\ doing' \in [UserStates -> Nat]
            /\ doing' = [doing EXCEPT !["holds"] = doing["holds"] - 1,
                                        !["none"] = doing["none"] + 1]
            /\ doing["holds"] > 0
        BY <3>1, <1>t, ReferencesMove
      <3> QED BY <1>t, <2>0, <2>2, <3>1, <3>2 DEF BalanceInv
    <2> QED BY <2>1, <2>2
  <1>6. ASSUME NEW u \in PowerUsers, ResumeIdle(u) PROVE BalanceInv'
    <2>1. /\ BecomesUser(u, "resuming", "none") /\ wdfReferences' = wdfReferences - 1
          /\ UNCHANGED <<selfManaged, successful, refused, interfaceStopped>>
      BY <1>6 DEF ResumeIdle, restrictions
    <2>2. /\ user' \in [PowerUsers -> UserStates] /\ doing' \in [UserStates -> Nat]
          /\ doing' = [doing EXCEPT !["resuming"] = doing["resuming"] - 1,
                                      !["none"] = doing["none"] + 1]
      BY <2>1, <1>t, ReferencesMove
    <2> QED BY <1>t, <2>1, <2>2 DEF BalanceInv
  <1>7. CASE ReleaseOutstandingPowerReferences
    <2>1. /\ \A u \in PowerUsers : user[u] \in {"none", "holds"}
          /\ interfaceStopped' = TRUE /\ successful' = 0
          /\ wdfReferences' = wdfReferences - successful
          /\ UNCHANGED <<user, refused, selfManaged>>
      BY <1>7 DEF ReleaseOutstandingPowerReferences, restrictions
    <2>2. UNCHANGED doing
      BY <2>1 DEF doing, Doing
    <2>3. Doing("counts") = {} /\ Doing("stopping") = {}
      BY <2>1 DEF Doing
    <2>4. doing["counts"] = 0 /\ doing["stopping"] = 0
      BY <2>3, NumberOfNone
    <2> QED BY <1>t, <2>1, <2>2, <2>4 DEF BalanceInv
  <1> QED BY <1>1, <1>2, <1>3, <1>4, <1>5, <1>6, <1>7 DEF PowerNext

\* The adapter drops no reference that it does not have, whatever WDF refused,
\* and keeps none that nobody holds.
THEOREM ReferencesAreBalanced == PowerSpec => []ReferencesBalance
  <1>1. ASSUME BalanceInv PROVE ReferencesBalance
    <2>1. /\ Cardinality(Doing("resuming")) = doing["resuming"]
          /\ Cardinality(Doing("holds")) = doing["holds"]
      BY DEF doing, UserStates
    <2>2. ASSUME \A u \in PowerUsers : user[u] = "none"
          PROVE  wdfReferences = 0
      <3>1. Doing("counts") = {} /\ Doing("resuming") = {} /\ Doing("holds") = {}
        BY <2>2 DEF Doing
      <3>2. doing["counts"] = 0 /\ doing["resuming"] = 0 /\ doing["holds"] = 0
        BY <3>1, NumberOfNone DEF UserStates
      <3> QED BY <3>2, <1>1 DEF BalanceInv
    <2> QED BY <1>1, <2>1, <2>2 DEF BalanceInv, ReferencesBalance, UserStates
  <1> QED BY <1>1, BalanceInit, BalanceStep, PTL DEF PowerSpec
==============================================================================
