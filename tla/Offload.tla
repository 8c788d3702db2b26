------------------------------- MODULE Offload -------------------------------
(****************************************************************************)
(* Checksum, segmentation and coalescing offloads. The client driver states *)
(* what its hardware can do (NxOffloadManager), the registry what the user  *)
(* wants; the translator (NxTaskOffload) keeps what is active, tells the    *)
(* driver and reports to NDIS. NDIS initializes the adapter and requests    *)
(* changes (OID_TCP_OFFLOAD_PARAMETERS); the driver pauses and resumes its  *)
(* offloads from a thread of its own. No lock keeps these apart.            *)
(*                                                                          *)
(* Flags for packets with and without options or extension headers are set  *)
(* and cleared together and are one flag here, NDIS's structures the set of *)
(* the features they name. A driver offers the checksum of NetAdapterCx 2.0 *)
(* ("v1") or the later ones ("tx", "rx"), not both.                         *)
(****************************************************************************)
EXTENDS Naturals, Sequences, FiniteSets

CONSTANTS Scenarios,  \* a driver, settings of the registry and requests to explore
          Absent,     \* a keyword that the registry does not have
          Unreadable, \* one whose value cannot be read
          Nil

\* A scenario names
\*   capabilities: of the driver, the flags of each callback it registered,
\*   registries: settings of the standardized keywords,
\*   fields: sets of fields of NDIS_OFFLOAD_PARAMETERS; a request sets the
\*     fields of one of them and leaves the others alone.
Drivers == {s.capabilities : s \in Scenarios}
Registries == UNION {s.registries : s \in Scenarios}

Layer3 == {"IPv4", "IPv6"}
Flags == Layer3 \cup {"Tcp", "Udp"}
Callbacks == {"v1", "tx", "rx", "gso", "rsc"}
Groups == {"v1", "ip", "tcp", "udp", "rx", "lso", "uso", "rsc"}

\* The groups of capabilities that a callback of the driver gets.
Members(callback) ==
  CASE callback = "tx" -> {"ip", "tcp", "udp"}
    [] callback = "gso" -> {"lso", "uso"}
    [] OTHER -> {callback}

\* The flags that matter to a group.
FlagsOf(g) ==
  CASE g = "ip" -> {"IPv4"}
    [] g \in {"tcp", "lso"} -> Layer3 \cup {"Tcp"}
    [] g \in {"udp", "uso"} -> Layer3 \cup {"Udp"}
    [] g \in {"v1", "rx"} -> {"IPv4", "Tcp", "Udp"}
    [] g = "rsc" -> Layer3

Nothing == [g \in Groups |-> {}]

VARIABLES
  scenario,
  registry,      \* settings of the keywords
  software,      \* m_softwareTxChecksum-, -Gso- and -RscCapabilities
  active,        \* m_active...Capabilities
  told,          \* what the driver's callbacks were told last
  ndisHardware, ndisCurrent,
  paused,        \* m_isOffloadPaused
  offloadRequest, \* of NDIS in progress: initialization or OID
  offloadCall,   \* of the driver in progress: pause or resume
  last,          \* what was done last, "torn" if not alone
  kept           \* the registry is what it was when the adapter was initialized

offloadVars == <<scenario, registry, software, active, told, ndisHardware,
                 ndisCurrent, paused, offloadRequest, offloadCall, last, kept>>

-----------------------------------------------------------------------------
(* What the driver and the registry say.                                    *)

capabilities == scenario.capabilities
Registered(callback) == capabilities[callback] # Nil
HardwareOf(d, callback) == IF d[callback] = Nil THEN {} ELSE d[callback]
Hardware(callback) == HardwareOf(capabilities, callback)
IsChecksumOffloadV1Used == Hardware("v1") # {}

CallbackOf == [g \in Groups |-> CHOOSE c \in Callbacks : g \in Members(c)]
Limit(g) == Hardware(CallbackOf[g]) \cap FlagsOf(g)

IsKeywordPresent(r, k) == r[k] # Absent
IsKeywordSettingDisabled(r, k) == r[k] = 0

\* A keyword that cannot be read counts as enabled.
TxEnabled(r, k) == r[k] \in {Absent, Unreadable, 1, 3}
RxEnabled(r, k) == r[k] \in {Absent, Unreadable, 2, 3}

ChecksumKeywords == {"ip4", "tcp4", "tcp6", "udp4", "udp6"}
LsoKeywords == {"lsoV1", "lso4", "lso6"}
UsoKeywords == {"uso4", "uso6"}
RscKeywords == {"rsc4", "rsc6"}
Keywords == ChecksumKeywords \cup LsoKeywords \cup UsoKeywords \cup RscKeywords

If(condition, flags) == IF condition THEN flags ELSE {}

\* Software stands in for the hardware as soon as any keyword is present.
AnyPresent(r, keywords) == \E k \in keywords : IsKeywordPresent(r, k)
TxChecksumSoftware(r) == If(AnyPresent(r, ChecksumKeywords), Flags)
GsoSoftware(r) ==
  If(AnyPresent(r, LsoKeywords \cup UsoKeywords), Layer3)
  \cup If(AnyPresent(r, LsoKeywords), {"Tcp"})
  \cup If(AnyPresent(r, UsoKeywords), {"Udp"})
RscSoftware(r) == If(AnyPresent(r, RscKeywords), Layer3)

SoftwareCapabilities(r) ==
  [tx |-> TxChecksumSoftware(r), gso |-> GsoSoftware(r), rsc |-> RscSoftware(r)]

Layers(on4, on6, flag) ==
  If(on4, {"IPv4"}) \cup If(on6, {"IPv6"}) \cup If(on4 \/ on6, {flag})
Off(r, keywords) == \A k \in keywords : IsKeywordSettingDisabled(r, k)

\* What the software can do, for receive and the old checksum the hardware,
\* without what the registry disables.
ChecksumV1Default(d, r) ==
  HardwareOf(d, "v1") \
    (If(Off(r, {"ip4"}), {"IPv4"}) \cup If(Off(r, {"tcp4", "tcp6"}), {"Tcp"})
     \cup If(Off(r, {"udp4", "udp6"}), {"Udp"}))
TxIPv4Default(r) == TxChecksumSoftware(r) \cap If(TxEnabled(r, "ip4"), {"IPv4"})
TxTcpDefault(r) ==
  TxChecksumSoftware(r) \cap Layers(TxEnabled(r, "tcp4"), TxEnabled(r, "tcp6"), "Tcp")
TxUdpDefault(r) ==
  TxChecksumSoftware(r) \cap Layers(TxEnabled(r, "udp4"), TxEnabled(r, "udp6"), "Udp")
RxDefault(d, r) ==
  LET on(keywords) == \E k \in keywords : RxEnabled(r, k)
  IN  HardwareOf(d, "rx") \cap
        (If(on({"ip4"}), {"IPv4"}) \cup If(on({"tcp4", "tcp6"}), {"Tcp"})
         \cup If(on({"udp4", "udp6"}), {"Udp"}))
LsoDefault(r) ==
  (GsoSoftware(r) \ {"Udp"}) \ If("Tcp" \in GsoSoftware(r),
    If(Off(r, {"lsoV1"}) \/ Off(r, {"lso4"}), {"IPv4"})
    \cup If(Off(r, {"lso6"}), {"IPv6"}))
UsoDefault(r) ==
  (GsoSoftware(r) \ {"Tcp"}) \ If("Udp" \in GsoSoftware(r),
    If(Off(r, {"uso4"}), {"IPv4"}) \cup If(Off(r, {"uso6"}), {"IPv6"}))
RscDefault(r) ==
  RscSoftware(r) \ (If(Off(r, {"rsc4"}), {"IPv4"}) \cup If(Off(r, {"rsc6"}), {"IPv6"}))

DefaultOfGroup(d, r, g) ==
  CASE g = "v1" -> ChecksumV1Default(d, r)
    [] g = "ip" -> TxIPv4Default(r)
    [] g = "tcp" -> TxTcpDefault(r)
    [] g = "udp" -> TxUdpDefault(r)
    [] g = "rx" -> RxDefault(d, r)
    [] g = "lso" -> LsoDefault(r)
    [] g = "uso" -> UsoDefault(r)
    [] g = "rsc" -> RscDefault(r)
DefaultOf ==
  [d \in Drivers |-> [r \in Registries |-> [g \in Groups |-> DefaultOfGroup(d, r, g)]]]
DefaultCapabilities == DefaultOf[capabilities][registry]

-----------------------------------------------------------------------------
(* The features that the structures for NDIS name.                          *)

Each(g, flag, c) == {<<g, l>> : l \in {x \in Layer3 : {x, flag} \subseteq c}}

NdisChecksumV1(c) == {"v1"} \X c["v1"]
NdisChecksum(c) ==
  ({"ip"} \X c["ip"]) \cup Each("tcp", "Tcp", c["tcp"]) \cup Each("udp", "Udp", c["udp"])
  \cup ({"rx"} \X c["rx"])
NdisLso(c) == Each("lso", "Tcp", c["lso"])
NdisUso(c) == Each("uso", "Udp", c["uso"])
NdisRsc(c) == {"rsc"} \X c["rsc"]

NdisOffload(c) ==
  (IF IsChecksumOffloadV1Used THEN NdisChecksumV1(c) ELSE NdisChecksum(c))
  \cup NdisLso(c) \cup NdisUso(c) \cup NdisRsc(c)

HardwareCapabilities ==
  NdisOffload([g \in Groups |->
    CASE g \in {"ip", "tcp", "udp"} -> software.tx \cap FlagsOf(g)
      [] g \in {"lso", "uso"} -> software.gso \cap FlagsOf(g)
      [] g = "rsc" -> software.rsc
      [] OTHER -> Hardware(g)])

-----------------------------------------------------------------------------
(* The parameters of a request: 0 leaves a setting alone, 1 disables, 2     *)
(* enables; for checksums 2 enables transmit only, 3 receive only, 4 both.  *)

Values(fields) == IF fields \subseteq ChecksumKeywords THEN 0 .. 4 ELSE 0 .. 2
ParametersOf == [s \in Scenarios |->
  UNION {{[k \in Keywords |-> IF k \in fields THEN v[k] ELSE 0] :
            v \in [fields -> Values(fields)]} : fields \in s.fields}]
OffloadParameters == ParametersOf[scenario]

\* What requests are held against.
Allowed == DefaultCapabilities

\* Refused are the values that turn on, for both protocols, what the default
\* capabilities lack.
Asks(p, fields, others) == \A k \in fields : p[k] \notin {0, 1} \cup others

Lacks(c, flags) == c \cap flags = {}

RefusedV1(c, p) ==
  \/ Lacks(c["v1"], {"IPv4"}) /\ Asks(p, {"ip4"}, {})
  \/ Lacks(c["v1"], {"Tcp"}) /\ Asks(p, {"tcp4", "tcp6"}, {})
  \/ Lacks(c["v1"], {"Udp"}) /\ Asks(p, {"udp4", "udp6"}, {})
RefusedTx(c, p) ==
  \/ Lacks(c["ip"], {"IPv4"}) /\ Asks(p, {"ip4"}, {3})
  \/ Lacks(c["tcp"], {"Tcp"}) /\ Asks(p, {"tcp4", "tcp6"}, {3})
  \/ Lacks(c["udp"], {"Udp"}) /\ Asks(p, {"udp4", "udp6"}, {3})
RefusedRx(c, p) ==
  \/ Lacks(c["rx"], {"IPv4"}) /\ Asks(p, {"ip4"}, {2})
  \/ Lacks(c["rx"], {"Tcp"}) /\ Asks(p, {"tcp4", "tcp6"}, {2})
  \/ Lacks(c["rx"], {"Udp"}) /\ Asks(p, {"udp4", "udp6"}, {2})
RefusedGso(c, p) ==
  \/ /\ Lacks(c["lso"], {"IPv4"}) /\ ~Lacks(c["lso"], {"Tcp"})
     /\ p["lsoV1"] = 2 \/ p["lso4"] = 2
  \/ Lacks(c["lso"], {"IPv6", "Tcp"}) /\ p["lso6"] = 2
  \/ Lacks(c["uso"], {"IPv4", "Udp"}) /\ p["uso4"] = 2
  \/ Lacks(c["uso"], {"IPv6", "Udp"}) /\ p["uso6"] = 2
RefusedRsc(c, p) ==
  \/ Lacks(c["rsc"], {"IPv4"}) /\ p["rsc4"] = 2
  \/ Lacks(c["rsc"], {"IPv6"}) /\ p["rsc6"] = 2

Refused(p) ==
  LET c == Allowed
  IN  \/ IF IsChecksumOffloadV1Used THEN RefusedV1(c, p)
                                    ELSE RefusedTx(c, p) \/ RefusedRx(c, p)
      \/ RefusedGso(c, p) \/ RefusedRsc(c, p)

\* The flags c after a switch over v; those that transmit and those that
\* receive are set by different values.
Switch(v, c, flags, set, clear) ==
  IF v \in set THEN c \cup flags ELSE IF v \in clear THEN c \ flags ELSE c

TransmitSwitch(v, c, flags) == Switch(v, c, flags, {2, 4}, {1, 3})
ReceiveSwitch(v, c, flag) == Switch(v, c, {flag}, {3, 4}, {1, 2})

\* TCP over IPv4 is cleared by the value that should set it (nxoffload.cpp:763).
TransmitTcp4(v, c) == Switch(v, c, {"IPv4"}, {2}, {1, 3, 4})

\* A value that is not "disabled" turns segmentation on, "no change" too.
Segmentation(c, off4, off6) ==
  ((c \cup Layer3) \ If(off4, {"IPv4"})) \ If(off6, {"IPv6"})

\* The values for IPv4 and IPv6 are combined bit by bit, as numbers.
Bit(v, b) == (v \div b) % 2
Combined == [v, w \in 0 .. 4 |->
  LET or(b) == IF Bit(v, b) + Bit(w, b) > 0 THEN b ELSE 0
  IN  or(1) + or(2) + or(4)]
Tcp(p) == Combined[p["tcp4"], p["tcp6"]]
Udp(p) == Combined[p["udp4"], p["udp6"]]

SwitchV1(v4, v6, c, flag) ==
  IF v4 = 1 /\ v6 = 1 THEN c \ {flag}
  ELSE IF v4 # 0 \/ v6 # 0 THEN c \cup {flag} ELSE c

TranslateV1(p, c) ==
  SwitchV1(p["udp4"], p["udp6"],
    SwitchV1(p["tcp4"], p["tcp6"], SwitchV1(p["ip4"], p["ip4"], c, "IPv4"), "Tcp"), "Udp")
TranslateIp(p, c) == TransmitSwitch(p["ip4"], c, {"IPv4"})
TranslateTcp(p, c) ==
  TransmitSwitch(p["tcp6"],
    TransmitTcp4(p["tcp4"], TransmitSwitch(Tcp(p), c, {"Tcp"})), {"IPv6"})
TranslateUdp(p, c) ==
  TransmitSwitch(p["udp6"],
    TransmitSwitch(p["udp4"], TransmitSwitch(Udp(p), c, {"Udp"}), {"IPv4"}), {"IPv6"})
TranslateRx(p, c) ==
  LET udp == ReceiveSwitch(p["udp6"],
               ReceiveSwitch(p["udp4"], ReceiveSwitch(Udp(p), c, "Udp"), "Udp"), "Udp")
      tcp == ReceiveSwitch(p["tcp6"],
               ReceiveSwitch(p["tcp4"], ReceiveSwitch(Tcp(p), udp, "Tcp"), "Tcp"), "Tcp")
  IN  ReceiveSwitch(p["ip4"], tcp, "IPv4")
TranslateLso(p, c) == Segmentation(c, p["lsoV1"] = 1 /\ p["lso4"] = 1, p["lso6"] = 1)
TranslateUso(p, c) == Segmentation(c, p["uso4"] = 1, p["uso6"] = 1)
TranslateRsc(p, c) ==
  Switch(p["rsc6"], Switch(p["rsc4"], c, {"IPv4"}, {2}, {1}), {"IPv6"}, {2}, {1})

TranslateGroup(p, c, g) ==
  CASE g = "v1" -> TranslateV1(p, c)
    [] g = "ip" -> TranslateIp(p, c)
    [] g = "tcp" -> TranslateTcp(p, c)
    [] g = "udp" -> TranslateUdp(p, c)
    [] g = "rx" -> TranslateRx(p, c)
    [] g = "lso" -> TranslateLso(p, c)
    [] g = "uso" -> TranslateUso(p, c)
    [] g = "rsc" -> TranslateRsc(p, c)
Translate(p) == [g \in Groups |-> TranslateGroup(p, active[g], g)]

-----------------------------------------------------------------------------
OffloadInit ==
  /\ scenario \in Scenarios
  /\ registry \in scenario.registries
  /\ software = [tx |-> {}, gso |-> {}, rsc |-> {}]
  /\ active = Nothing
  /\ told = Nothing
  /\ ndisHardware = {} /\ ndisCurrent = {}
  /\ paused = FALSE
  /\ offloadRequest = Nil /\ offloadCall = Nil
  /\ last = "none"
  /\ kept = FALSE

\* SetActiveCapabilities: a callback that the driver did not register is left out.
Dispatch(callback, c) ==
  told' = [g \in Groups |-> IF Registered(callback) /\ g \in Members(callback)
                            THEN c[g] ELSE told[g]]

RequestSteps ==
  IF IsChecksumOffloadV1Used THEN <<"v1", "gso", "rsc", "ndis">>
                             ELSE <<"tx", "rx", "gso", "rsc", "ndis">>

Disturbed(work) == IF work = Nil THEN Nil ELSE [work EXCEPT !.alone = FALSE]

\* What is in progress of NDIS and of the driver.  Nil is neither.
Requests ==
  [operation : {"initialize", "request"},
   steps : {<<"v1", "gso", "rsc", "ndis">>, <<"tx", "rx", "gso", "rsc", "ndis">>,
            <<"rx", "gso", "rsc", "ndis">>, <<"gso", "rsc", "ndis">>, <<"rsc", "ndis">>,
            <<"ndis">>},
   target : [Groups -> SUBSET Flags], alone : BOOLEAN]
DriverCalls ==
  [operation : {"pause", "resume"},
   steps : {<<"hardware", "current", "tx", "rx", "gso", "rsc">>,
            <<"current", "tx", "rx", "gso", "rsc">>, <<"tx", "rx", "gso", "rsc">>,
            <<"rx", "gso", "rsc">>, <<"gso", "rsc">>, <<"rsc">>,
            <<"tx", "rx", "gso", "rsc", "hardware", "current">>,
            <<"rx", "gso", "rsc", "hardware", "current">>,
            <<"gso", "rsc", "hardware", "current">>, <<"rsc", "hardware", "current">>,
            <<"hardware", "current">>, <<"current">>},
   current : SUBSET (Groups \X Flags), alone : BOOLEAN]

ASSUME OffloadAssumption ==
  /\ Nil \notin Requests \cup DriverCalls
  /\ \A s \in Scenarios : s.capabilities \in [Callbacks -> {Nil} \cup SUBSET Flags]

Begin(operation, steps, target) ==
  /\ offloadRequest = Nil
  /\ offloadRequest' = [operation |-> operation, steps |-> steps, target |-> target,
                        alone |-> offloadCall = Nil]
  /\ offloadCall' = Disturbed(offloadCall)

BeginCall(operation, steps) ==
  /\ offloadCall = Nil
  /\ offloadCall' = [operation |-> operation, steps |-> steps, current |-> {},
                     alone |-> offloadRequest = Nil]
  /\ offloadRequest' = Disturbed(offloadRequest)

Done(work) == last' = IF work.alone THEN work.operation ELSE "torn"

EndOfStep(work) ==
  IF Len(work.steps) = 1 THEN Nil ELSE [work EXCEPT !.steps = Tail(@)]

RequestAt(operation, steps) ==
  /\ offloadRequest # Nil /\ offloadRequest.operation = operation
  /\ Head(offloadRequest.steps) \in steps
  /\ offloadRequest' = EndOfStep(offloadRequest)
  /\ IF Len(offloadRequest.steps) = 1 THEN Done(offloadRequest) ELSE UNCHANGED last
  /\ UNCHANGED <<scenario, registry, paused, offloadCall>>

CallAt(operation, steps) ==
  /\ offloadCall # Nil /\ offloadCall.operation = operation
  /\ Head(offloadCall.steps) \in steps
  /\ IF Len(offloadCall.steps) = 1
     THEN Done(offloadCall) /\ paused' = (operation = "pause")
     ELSE UNCHANGED <<last, paused>>
  /\ UNCHANGED <<scenario, registry, software, active, offloadRequest, kept>>

\* The user changes a setting; it counts from the next initialization on, for
\* requests at once.
ChangeRegistry ==
  /\ offloadRequest = Nil
  /\ registry' \in scenario.registries \ {registry}
  /\ kept' = FALSE
  /\ UNCHANGED <<scenario, software, active, told, ndisHardware,
                 ndisCurrent, paused, offloadRequest, offloadCall, last>>

-----------------------------------------------------------------------------
(* Initialization, again each time NDIS initializes the miniport.           *)

BeginInitialize ==
  /\ Begin("initialize", RequestSteps, Nothing)
  /\ kept' = TRUE
  /\ UNCHANGED <<scenario, registry, software, active, told,
                 ndisHardware, ndisCurrent, paused, last>>

\* The driver is told the default capabilities, its own or not.
InitializeGroup ==
  /\ RequestAt("initialize", Callbacks)
  /\ LET callback == Head(offloadRequest.steps)
         default == DefaultCapabilities
     IN  /\ software' = [k \in DOMAIN software |->
              IF k = callback THEN SoftwareCapabilities(registry)[k] ELSE software[k]]
         /\ active' = [g \in Groups |-> IF g \in Members(callback)
                                        THEN default[g] ELSE active[g]]
         /\ Dispatch(callback, active')
  /\ UNCHANGED <<ndisHardware, ndisCurrent, kept>>

SetNdisMiniportOffloadAttributes ==
  /\ RequestAt("initialize", {"ndis"})
  /\ ndisHardware' = HardwareCapabilities
  /\ ndisCurrent' = NdisOffload(active)
  /\ UNCHANGED <<software, active, told, kept>>

-----------------------------------------------------------------------------
(* OID_TCP_OFFLOAD_PARAMETERS.                                              *)

SetActiveCapabilities(p) ==
  /\ last # "none"
  /\ Begin("request", RequestSteps, Translate(p))
  /\ ~Refused(p)
  /\ UNCHANGED <<scenario, registry, software, active, told,
                 ndisHardware, ndisCurrent, paused, last, kept>>

\* The driver gets what its hardware can do, receive checksums as they are.
Dispatched(callback, c) ==
  [g \in Groups |-> IF callback \in {"v1", "rx"} THEN c[g] ELSE c[g] \cap Limit(g)]

SetActiveGroup ==
  /\ RequestAt("request", Callbacks)
  /\ LET callback == Head(offloadRequest.steps)
     IN  /\ active' = [g \in Groups |-> IF g \in Members(callback)
                                        THEN offloadRequest.target[g] ELSE active[g]]
         /\ Dispatch(callback, Dispatched(callback, offloadRequest.target))
  /\ UNCHANGED <<software, ndisHardware, ndisCurrent, kept>>

IndicateCurrentConfig ==
  /\ RequestAt("request", {"ndis"})
  /\ ndisCurrent' = NdisOffload([offloadRequest.target EXCEPT !["rsc"] = active["rsc"]])
  /\ UNCHANGED <<software, active, told, ndisHardware, kept>>

-----------------------------------------------------------------------------
(* The driver pauses and resumes. The checksum callback of NetAdapterCx 2.0 *)
(* is told neither.                                                         *)

PauseOffloads ==
  /\ BeginCall("pause", <<"hardware", "current", "tx", "rx", "gso", "rsc">>)
  /\ UNCHANGED <<scenario, registry, software, active, told,
                 ndisHardware, ndisCurrent, paused, last, kept>>

PauseNdis ==
  /\ CallAt("pause", {"hardware", "current"})
  /\ IF Head(offloadCall.steps) = "hardware"
     THEN ndisHardware' = {} /\ UNCHANGED ndisCurrent
     ELSE ndisCurrent' = {} /\ UNCHANGED ndisHardware
  /\ offloadCall' = EndOfStep(offloadCall)
  /\ UNCHANGED told

\* Mutant: the driver is told what is active.
PauseGroupLater ==
  /\ CallAt("pause", Callbacks)
  /\ Dispatch(Head(offloadCall.steps), active)
  /\ offloadCall' = EndOfStep(offloadCall)
  /\ UNCHANGED <<ndisHardware, ndisCurrent>>

PauseGroup ==
  /\ CallAt("pause", Callbacks)
  /\ Dispatch(Head(offloadCall.steps), Nothing)
  /\ offloadCall' = EndOfStep(offloadCall)
  /\ UNCHANGED <<ndisHardware, ndisCurrent>>

\* Verifier_VerifyOffloadPaused stops a driver that has not paused.
ResumeOffloads ==
  /\ paused
  /\ BeginCall("resume", <<"tx", "rx", "gso", "rsc", "hardware", "current">>)
  /\ UNCHANGED <<scenario, registry, software, active, told,
                 ndisHardware, ndisCurrent, paused, last, kept>>

ResumeGroup ==
  /\ CallAt("resume", Callbacks)
  /\ Dispatch(Head(offloadCall.steps), active)
  /\ offloadCall' = EndOfStep(offloadCall)
  /\ UNCHANGED <<ndisHardware, ndisCurrent>>

\* Both structures are filled in before the first is indicated.
ResumeHardware ==
  /\ CallAt("resume", {"hardware"})
  /\ ndisHardware' = HardwareCapabilities
  /\ offloadCall' = [EndOfStep(offloadCall) EXCEPT !.current = NdisOffload(active)]
  /\ UNCHANGED <<ndisCurrent, told>>

ResumeCurrent ==
  /\ CallAt("resume", {"current"})
  /\ ndisCurrent' = offloadCall.current
  /\ offloadCall' = EndOfStep(offloadCall)
  /\ UNCHANGED <<ndisHardware, told>>

OffloadNext ==
  \/ ChangeRegistry
  \/ BeginInitialize \/ InitializeGroup \/ SetNdisMiniportOffloadAttributes
  \/ \E p \in OffloadParameters : SetActiveCapabilities(p)
  \/ SetActiveGroup \/ IndicateCurrentConfig
  \/ PauseOffloads \/ PauseNdis \/ PauseGroup
  \/ ResumeOffloads \/ ResumeGroup \/ ResumeHardware \/ ResumeCurrent

OffloadSpec == OffloadInit /\ [][OffloadNext]_offloadVars

-----------------------------------------------------------------------------
Quiet == offloadRequest = Nil /\ offloadCall = Nil

\* Whatever was torn by two threads before: a request, an initialization or a
\* resume that nothing interrupts leaves NDIS with what is active and each
\* callback of the driver with what of it the hardware can do, and a pause
\* leaves none of them with anything. As long as the settings of the registry stay
\* as they were at initialization, no sequence of requests turns on the IPv4
\* header checksum or coalescing that they turn off.
OffloadsAgree ==
  /\ Quiet /\ last \in {"initialize", "request", "resume"} =>
       /\ ndisCurrent = NdisOffload(active)
       /\ \A g \in Groups : told[g] \cap Limit(g) = active[g] \cap Limit(g)
  /\ Quiet /\ last = "pause" =>
       /\ ndisHardware \cup ndisCurrent = {}
       /\ \A g \in Groups \ {"v1"} : told[g] = {}
  /\ kept /\ (offloadRequest # Nil => offloadRequest.operation = "request") =>
       LET default == DefaultCapabilities
       IN  \A g \in {"ip", "rsc"} : active[g] \subseteq default[g]
=============================================================================
