---------------------------- MODULE OidDispatch ----------------------------
(****************************************************************************)
(* OID requests of NDIS (nxadapter.cpp, nxadapterextension.cpp and its API). *)
(* The translator answers those it knows. The others pass along the media   *)
(* extensions of the adapter, each of which may answer a request, keep it   *)
(* for later or pass it on, to the framework after them, which answers some *)
(* for power management, and to an answer by default at the end. A request  *)
(* is answered by completing it or, when it came by the direct interface,   *)
(* by the status that the handler of NDIS's call returns.                   *)
(*                                                                          *)
(* NDIS makes regular requests one after the other. Direct ones may overlap *)
(* but share no state, so that one at a time is modelled.                   *)
(****************************************************************************)
EXTENDS Integers, Sequences, FiniteSets, SequencesExt

CONSTANT MaxExtensions \* bound: the media extensions of an adapter

ASSUME ExtensionsAssumption == MaxExtensions \in Nat

VARIABLES
  initExtensions,    \* AdapterExtensions of the NETADAPTER_INIT: whether there is
                     \* a callback for OIDs and which for direct ones: "none",
                     \* "void", or "status" for the one that returns a status
  adapterExtensions, \* m_adapterExtensions
  created,           \* the adapter has been created
  oid,               \* the request: its interface, type and OID, or NoOid
  nextHandlerIndex,  \* in its DispatchContext
  holder,            \* who has it: "dispatch" a call to DispatchOidRequest or
                     \* DispatchDirectOidRequest, "extension" the one of index
                     \* nextHandlerIndex, counted from 1, "framework", or "gone"
                     \* when the last one is done with it
  returnsTo,         \* who gets the status of that call, or of the callback of
                     \* the extension: "ndis" its own call, "extension" one that
                     \* passed on what it had kept, "nobody"; "kept" when the
                     \* callback has returned and the extension still has it
  ndisStatus,        \* of NDIS's call: "none" before it returns, "pending" or
                     \* "final"
  completions,       \* how often the request was completed
  shownTo            \* history: the handlers that had the request, in order; the
                     \* framework counts as the one after the extensions

oidVars == <<initExtensions, adapterExtensions, created, oid, nextHandlerIndex, holder,
             returnsTo, ndisStatus, completions, shownTo>>
oidConfiguration == <<initExtensions, adapterExtensions, created>>

Interfaces == {"regular", "direct", "synchronous"}
RequestTypes == {"query", "set", "method"}

\* What the translator handles of each type and by each interface is "translated";
\* "wake" are the four OIDs for wake patterns and protocol offloads.
Oids == {"translated", "wake", "parameters", "other"}

OidRequests == {[interface |-> i, type |-> t, oid |-> o] :
                  i \in Interfaces, t \in RequestTypes, o \in Oids}
NoOid == [interface |-> "none", type |-> "none", oid |-> "none"]

OidInit ==
  /\ initExtensions = <<>> /\ adapterExtensions = <<>> /\ created = FALSE
  /\ oid = NoOid /\ nextHandlerIndex = 0
  /\ holder = "gone" /\ returnsTo = "nobody"
  /\ ndisStatus = "final" /\ completions = 0 /\ shownTo = <<>>

-----------------------------------------------------------------------------
(* The adapter is created.                                                  *)

NoRequestChanges ==
  UNCHANGED <<oid, nextHandlerIndex, holder, returnsTo, ndisStatus, completions, shownTo>>

ExtensionInitAllocate ==
  /\ ~created /\ Len(initExtensions) < MaxExtensions
  /\ initExtensions' = Append(initExtensions, [oid |-> FALSE, direct |-> "none"])
  /\ UNCHANGED <<adapterExtensions, created>> /\ NoRequestChanges

SetOidPreprocessCallback(i) ==
  /\ ~created
  /\ initExtensions' = [initExtensions EXCEPT ![i].oid = TRUE]
  /\ UNCHANGED <<adapterExtensions, created>> /\ NoRequestChanges

\* The constructor asserts that an extension sets only one of the two.
SetDirectOidPreprocessCallback(i, kind) ==
  /\ ~created /\ initExtensions[i].direct = "none"
  /\ initExtensions' = [initExtensions EXCEPT ![i].direct = kind]
  /\ UNCHANGED <<adapterExtensions, created>> /\ NoRequestChanges

InitializeAdapterExtensions ==
  /\ ~created /\ created' = TRUE
  /\ adapterExtensions' = initExtensions
  /\ UNCHANGED initExtensions /\ NoRequestChanges

-----------------------------------------------------------------------------
(* NDIS's calls.                                                            *)

Extensions == 1 .. Len(adapterExtensions)

\* NDIS makes the next request when it has the answer to this one.
Answers == completions + (IF ndisStatus = "final" THEN 1 ELSE 0)

Arrives(request) ==
  /\ created /\ oid = NoOid
  /\ oid' = request
  /\ completions' = 0 /\ shownTo' = <<>>
  /\ UNCHANGED oidConfiguration

AnsweredAtOnce ==
  /\ ndisStatus' = "final" /\ holder' = "gone" /\ returnsTo' = "nobody"
  /\ nextHandlerIndex' = 0

DispatchedFirst ==
  /\ ndisStatus' = "none" /\ holder' = "dispatch" /\ returnsTo' = "ndis"
  /\ nextHandlerIndex' = 0

\* OID_PM_PARAMETERS are answered whatever the type of the request.
EvtNdisOidRequest(request) ==
  /\ request.interface = "regular"
  /\ Arrives(request)
  /\ IF request.oid \in {"translated", "parameters"} THEN AnsweredAtOnce
                                                     ELSE DispatchedFirst

EvtNdisDirectOidRequest(request) ==
  /\ request.interface = "direct"
  /\ Arrives(request)
  /\ IF request.oid = "translated" THEN AnsweredAtOnce ELSE DispatchedFirst

EvtNdisSynchronousOidRequest(request) ==
  /\ request.interface = "synchronous"
  /\ Arrives(request)
  /\ AnsweredAtOnce

\* The call returns STATUS_PENDING, maybe after the request was completed.
ReturnPending ==
  /\ ndisStatus = "none"
  /\ holder = "gone" \/ returnsTo # "ndis"
  /\ ndisStatus' = "pending"
  /\ UNCHANGED <<oidConfiguration, oid, nextHandlerIndex, holder, returnsTo, completions,
                 shownTo>>

NdisGoesOn ==
  /\ oid # NoOid /\ holder = "gone" /\ ndisStatus # "none" /\ Answers > 0
  /\ oid' = NoOid /\ ndisStatus' = "final" /\ completions' = 0 /\ shownTo' = <<>>
  /\ nextHandlerIndex' = 0 /\ returnsTo' = "nobody"
  /\ UNCHANGED <<oidConfiguration, holder>>

-----------------------------------------------------------------------------
(* The handlers, one after the other.                                       *)

\* A handler that has the request is not counted.
ShowToAgain(handler) ==
  /\ holder' = handler
  /\ shownTo' = Append(shownTo, nextHandlerIndex + 1)
  /\ UNCHANGED <<oidConfiguration, oid, nextHandlerIndex, returnsTo, ndisStatus, completions>>

\* The next handler of an adapter has the request.
ShowTo(handler) ==
  /\ holder' = handler
  /\ shownTo' = Append(shownTo, nextHandlerIndex + 1)
  /\ nextHandlerIndex' = nextHandlerIndex + 1
  /\ UNCHANGED <<oidConfiguration, oid, returnsTo, ndisStatus, completions>>

Complete ==
  /\ holder' = "gone" /\ completions' = completions + 1
  /\ UNCHANGED <<oidConfiguration, oid, nextHandlerIndex, returnsTo, ndisStatus, shownTo>>

PassOn ==
  /\ holder' = "dispatch"
  /\ UNCHANGED <<oidConfiguration, oid, nextHandlerIndex, returnsTo, ndisStatus,
                 completions, shownTo>>

\* A final status goes back through the calls that led here: to NDIS, to an
\* extension, which completes the request, or to nobody.
ReturnStatus ==
  /\ holder' = "gone"
  /\ ndisStatus' = IF returnsTo = "ndis" THEN "final" ELSE ndisStatus
  /\ completions' = IF returnsTo = "extension" THEN completions + 1 ELSE completions
  /\ UNCHANGED <<oidConfiguration, oid, nextHandlerIndex, returnsTo, shownTo>>

\* Those of the extensions with a callback have it, the others pass it on.
InvokePreprocessCallback(withCallback) ==
  /\ nextHandlerIndex < Len(adapterExtensions)
  /\ \/ nextHandlerIndex + 1 \in withCallback /\ ShowTo("extension")
     \/ /\ nextHandlerIndex + 1 \notin withCallback
        /\ nextHandlerIndex' = nextHandlerIndex + 1
        /\ UNCHANGED <<oidConfiguration, oid, holder, returnsTo, ndisStatus, completions,
                       shownTo>>

NotSupported ==
  /\ nextHandlerIndex > Len(adapterExtensions)
  /\ nextHandlerIndex' = nextHandlerIndex + 1
  /\ holder' = "gone" /\ completions' = completions + 1
  /\ UNCHANGED <<oidConfiguration, oid, returnsTo, ndisStatus, shownTo>>

WithOidCallback == {i \in Extensions : adapterExtensions[i].oid}
WithDirectCallback == {i \in Extensions : adapterExtensions[i].direct # "none"}

DispatchOidRequest ==
  /\ holder = "dispatch" /\ oid.interface = "regular"
  /\ \/ InvokePreprocessCallback(WithOidCallback)
     \/ nextHandlerIndex = Len(adapterExtensions) /\ ShowTo("framework")
     \/ NotSupported

\* A missing break: what is done with is passed on as well.
FrameworkFallsThrough ==
  /\ holder = "framework"
  /\ holder' = "dispatch"
  /\ completions' = completions + (IF oid.oid = "wake" THEN 1 ELSE 0)
  /\ UNCHANGED <<oidConfiguration, oid, nextHandlerIndex, returnsTo, ndisStatus, shownTo>>

FrameworkOidHandler ==
  /\ holder = "framework"
  /\ IF oid.type = "set" /\ oid.oid = "wake" THEN Complete ELSE PassOn

DispatchDirectOidRequest ==
  /\ holder = "dispatch" /\ oid.interface = "direct"
  /\ \/ InvokePreprocessCallback(WithDirectCallback)
     \/ nextHandlerIndex >= Len(adapterExtensions) /\ ReturnStatus

-----------------------------------------------------------------------------
(* The extensions.                                                          *)

ReturnsStatus ==
  /\ oid.interface = "direct"
  /\ adapterExtensions[nextHandlerIndex].direct = "status"

\* The callback returns, or returns STATUS_PENDING, and the extension has the
\* request. A callback that returns nothing counts as one that returned that.
ExtensionKeeps ==
  /\ holder = "extension" /\ returnsTo # "kept"
  /\ returnsTo' = "kept"
  /\ UNCHANGED <<oidConfiguration, oid, nextHandlerIndex, holder, ndisStatus, completions,
                 shownTo>>

\* NdisMOidRequestComplete or NdisMDirectOidRequestComplete, in the callback or
\* later.
ExtensionCompletes == holder = "extension" /\ Complete

\* The status that the callback returns.
ExtensionReturns ==
  /\ holder = "extension" /\ returnsTo # "kept" /\ ReturnsStatus
  /\ ReturnStatus

\* NetExAdapterDispatchPreprocessedDirectOid returns the status: in its callback
\* an extension returns it, later it completes the request with it unless it is
\* STATUS_PENDING. The other two functions return nothing.
ExtensionForwards ==
  /\ holder = "extension"
  /\ holder' = "dispatch"
  /\ returnsTo' = CASE ReturnsStatus -> IF returnsTo = "kept" THEN "extension" ELSE returnsTo
                     [] oid.interface = "direct" /\ ~ReturnsStatus -> "nobody"
                     [] oid.interface = "regular" ->
                          IF returnsTo = "kept" THEN "nobody" ELSE returnsTo
  /\ UNCHANGED <<oidConfiguration, oid, nextHandlerIndex, ndisStatus, completions, shownTo>>

-----------------------------------------------------------------------------
OidNext ==
  \/ ExtensionInitAllocate \/ InitializeAdapterExtensions
  \/ \E i \in 1 .. Len(initExtensions) :
       \/ SetOidPreprocessCallback(i)
       \/ \E kind \in {"void", "status"} : SetDirectOidPreprocessCallback(i, kind)
  \/ \E request \in OidRequests : \/ EvtNdisOidRequest(request)
                                  \/ EvtNdisDirectOidRequest(request)
                                  \/ EvtNdisSynchronousOidRequest(request)
  \/ ReturnPending \/ NdisGoesOn
  \/ DispatchOidRequest \/ FrameworkOidHandler \/ DispatchDirectOidRequest
  \/ ExtensionKeeps \/ ExtensionCompletes \/ ExtensionReturns \/ ExtensionForwards

OidSpec == OidInit /\ [][OidNext]_oidVars

-----------------------------------------------------------------------------
\* A request is never answered twice, and nobody has it after it was answered.
\* It may be left without an answer only when it is a direct one that an
\* extension passed on by the function without a status: what the handler after
\* it returns, or the default, is then returned to nobody.
AnsweredOnce ==
  oid # NoOid =>
    /\ Answers <= 1
    /\ holder # "gone" => Answers = 0
    /\ holder = "gone" /\ Answers = 0 =>
         /\ oid.interface = "direct"
         /\ \E i \in Extensions : Contains(shownTo, i) /\ adapterExtensions[i].direct = "void"

\* The handlers have a request one after the other and at most once, and none is
\* left out that comes before the one that has it or that answered it; the
\* framework asserts that nobody dispatches a request more often.
HandledInOrder ==
  LET withCallback == IF oid.interface = "regular"
                      THEN WithOidCallback \cup {Len(adapterExtensions) + 1}
                      ELSE WithDirectCallback
  IN  /\ \A j, k \in DOMAIN shownTo : j < k => shownTo[j] < shownTo[k]
      /\ {i \in withCallback : i <= nextHandlerIndex} = Range(shownTo)
      /\ holder = "dispatch" =>
           nextHandlerIndex <= Len(adapterExtensions)
                                 + (IF oid.interface = "regular" THEN 1 ELSE 0)
=============================================================================
