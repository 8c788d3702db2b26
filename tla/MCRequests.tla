----------------------------- MODULE MCRequests -----------------------------
(****************************************************************************)
(* The components that NDIS configures by requests, and those that lead     *)
(* requests and IRPs to them. They share no state, so that a behaviour      *)
(* exercises one of them, chosen at the start, while the others keep one of *)
(* their initial states.                                                    *)
(****************************************************************************)
EXTENDS RxScaling, Offload, WakeSources, PowerReferences, OidDispatch, DeviceIrps

VARIABLE component

requestsVars == <<component, scalingVars, offloadVars, wakeVars, powerVars,
                  oidVars, irpVars>>

AnyOf(S) == CHOOSE x \in S : TRUE

RequestsInit ==
  /\ component \in {"scaling", "offload", "wake", "power", "oid", "irps"}
  /\ ScalingInit
  /\ component # "scaling" => queueCount = AnyOf(QueueCounts)
  /\ OffloadInit
  /\ component # "offload" => /\ scenario = AnyOf(Scenarios)
                              /\ registry = AnyOf(scenario.registries)
  /\ WakeInit
  /\ component # "wake" => powerCapabilities = AnyOf(PowerCapabilities)
  /\ PowerInit
  /\ component # "power" => ~selfManaged /\ ~highLatencyResume /\ d0 = "before"
  /\ OidInit /\ IrpInit

RequestsNext ==
  \/ /\ component = "scaling" /\ ScalingNext
     /\ UNCHANGED <<component, offloadVars, wakeVars, powerVars, oidVars, irpVars>>
  \/ /\ component = "offload" /\ OffloadNext
     /\ UNCHANGED <<component, scalingVars, wakeVars, powerVars, oidVars, irpVars>>
  \/ /\ component = "wake" /\ WakeNext
     /\ UNCHANGED <<component, scalingVars, offloadVars, powerVars, oidVars, irpVars>>
  \/ /\ component = "power" /\ PowerNext
     /\ UNCHANGED <<component, scalingVars, offloadVars, wakeVars, oidVars, irpVars>>
  \/ /\ component = "oid" /\ OidNext
     /\ UNCHANGED <<component, scalingVars, offloadVars, wakeVars, powerVars, irpVars>>
  \/ /\ component = "irps" /\ IrpNext
     /\ UNCHANGED <<component, scalingVars, offloadVars, wakeVars, powerVars, oidVars>>

RequestsSpec == RequestsInit /\ [][RequestsNext]_requestsVars

\* Several processors move their entries at a time only with a queue for each of
\* them, and while all entries are in use.
OneMove ==
  \/ Cardinality({p \in Processors : move[p] # NoMove}) <= 1
  \/ /\ queueCount >= ProcessorCount
     /\ number = TableSize /\ ndis.number = TableSize /\ overwritten = {}

\* The third processor gets the first two entries at most, and from then on the
\* others stay where they are and their number does not change.
ThirdProcessor ==
  slots[2] # None \/ (\E p \in {0, 1} : \E i \in move[p].entries : move[p].target[i] = 2) =>
    /\ ndis.number = TableSize /\ request = NoRequest /\ overwritten = {}
    /\ \A i \in Entries \ {0, 1} : i \notin Moving /\ ndis.processor[i] = DefaultProcessor

\* Requests for a hash, and those that disable, only with a single queue.
HashOrTables == queueCount > 1 /\ request # NoRequest =>
                  request.parameters.hash = None /\ request.parameters.enable

\* A query walks along the collection before any handle was opened.
WalkFirst == (\E t \in IrpThreads : irp[t].step \in {"query", "failed"}) =>
               \A f \in Files : servedBy[f] = {}

\* Names of different lengths, so that which adapter comes first matters.
CONSTANTS a1, a2, a3
MCNameSize == (a1 :> 10) @@ (a2 :> 6) @@ (a3 :> 32)

-----------------------------------------------------------------------------
(* Drivers with their registry settings, and the fields that requests vary. *)

NoCallbacks == [c \in Callbacks |-> Nil]
All(value) == [k \in Keywords |-> value]

MCScenarios == {
  \* transmit and receive checksums over IPv4, which the registry restricts
  [capabilities |-> [NoCallbacks EXCEPT !["tx"] = {"IPv4", "IPv6", "Tcp"},
                                        !["rx"] = {"IPv4", "Tcp", "Udp"}],
   registries |-> {[All(Absent) EXCEPT !["ip4"] = 2, !["udp6"] = 1]},
   fields |-> {{"ip4"}, {"udp6"}}],
  \* TCP checksums, where the values for IPv4 and IPv6 are combined
  [capabilities |-> [NoCallbacks EXCEPT !["tx"] = {"IPv6", "Tcp"}, !["rx"] = {"Tcp"}],
   registries |-> {[All(Absent) EXCEPT !["tcp4"] = 2, !["tcp6"] = Unreadable]},
   fields |-> {{"tcp4", "tcp6"}}],
  \* segmentation and coalescing, which the user turns off
  [capabilities |-> [NoCallbacks EXCEPT !["gso"] = {"IPv4", "Tcp", "Udp"},
                                        !["rsc"] = {"IPv4"}],
   registries |-> {All(Absent),
                   [All(Absent) EXCEPT !["lso4"] = 0, !["uso6"] = 0, !["uso4"] = 1,
                                       !["rsc4"] = 0]},
   fields |-> {{"rsc4", "rsc6"}, {"lso4", "lsoV1"}, {"uso6"}}],
  \* the checksum callback of NetAdapterCx 2.0
  [capabilities |-> [NoCallbacks EXCEPT !["v1"] = {"IPv4", "Udp"}],
   registries |-> {All(Absent), [All(3) EXCEPT !["ip4"] = 0]},
   fields |-> {{"ip4"}, {"udp4"}}]}

\* A driver with bitmap patterns only, and one with the others as well.
MCPowerCapabilities ==
  {[bitmap |-> 2, arp |-> 1, ns |-> 1, patterns |-> {}, media |-> {"connect"},
    packetFilter |-> TRUE],
   [bitmap |-> 1, arp |-> 0, ns |-> 2, patterns |-> {"magic", "eapol"}, media |-> {},
    packetFilter |-> FALSE]}

MCPmParameters ==
  [patterns : {{}, {"bitmap"}, {"magic", "eapol"}},
   offloads : {{}, {"arp"}, {"arp", "ns"}},
   flags : {{}, {"connect"}, {"suspend", "disconnect"}}]
=============================================================================
