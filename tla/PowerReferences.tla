-------------------------- MODULE PowerReferences --------------------------
(****************************************************************************)
(* The references that keep the device in D0. NDIS takes and drops some     *)
(* through the adapter (EvtNdisPowerReference and -Dereference), which      *)
(* keeps track of the ones that WDF refused, the idle restrictions of the   *)
(* adapter hold one more while NDIS's idle condition asks for more than the *)
(* driver can resume from. The calls come from any thread.                  *)
(*                                                                          *)
(* WDF refuses references until the driver's first D0 entry, and may refuse *)
(* those of NDIS later.                                                     *)
(****************************************************************************)
EXTENDS Integers, FiniteSets

CONSTANT PowerUsers   \* users of NDIS's references, the adapter's work item too
ASSUME PowerUsersAssumption == IsFiniteSet(PowerUsers)

\* NDIS_IDLE_CONDITION, a larger one asks for less.
AnyLowLatency == 1
AnyCondition == 2
UnicastOnly == 3
IdleConditions == {AnyLowLatency, AnyCondition, UnicastOnly}

VARIABLES
  selfManaged,           \* the driver takes its own power references
  highLatencyResume,     \* *IdleRestriction of the registry
  packetFilterMatch,     \* the driver can wake on its packet filter
  d0,                    \* "before", "entered" for the first time, "told" the adapter
  minimum, current,      \* m_minimumIdleCondition, m_currentIdleCondition
  setter,                \* the three that change something and evaluate then
  powerReferenceAcquired,
  user,                  \* what each user of a reference is doing
  successful,            \* m_successfulPowerReferences
  wdfReferences,         \* that WDF counts with the adapter's tag
  refused,               \* WDF refused a reference once
  interfaceStopped       \* StopNetworkInterface

powerVars == <<selfManaged, highLatencyResume, packetFilterMatch, d0, minimum,
               current, setter, powerReferenceAcquired, user, successful,
               wdfReferences, refused, interfaceStopped>>

restrictionVars == <<minimum, current, setter, powerReferenceAcquired,
                     packetFilterMatch>>
restrictions == <<selfManaged, highLatencyResume, d0, restrictionVars>>
referenceVars == <<user, successful, wdfReferences, refused, interfaceStopped>>

\* SetS0IdleRestriction.
MinimumIdleCondition(match) ==
  IF selfManaged THEN AnyLowLatency
  ELSE IF ~match THEN UnicastOnly
  ELSE IF highLatencyResume THEN AnyCondition ELSE AnyLowLatency

\* The adapter may be added before the device is in D0 or later. Initialize has
\* written the minimum and still is to evaluate it.
PowerInit ==
  /\ selfManaged \in BOOLEAN /\ highLatencyResume \in BOOLEAN
  /\ packetFilterMatch = FALSE
  /\ d0 \in {"before", "told"}
  /\ minimum = MinimumIdleCondition(FALSE)
  /\ current = AnyLowLatency
  /\ setter = [capabilities |-> "evaluate", ndis |-> "idle", d0 |-> "idle"]
  /\ powerReferenceAcquired = FALSE
  /\ user = [u \in PowerUsers |-> "none"]
  /\ successful = 0 /\ wdfReferences = 0
  /\ refused = FALSE /\ interfaceStopped = FALSE

-----------------------------------------------------------------------------
(* Idle restrictions: what is set is set without the lock, and evaluated    *)
(* under it.                                                                *)

SetWakePacketFilterCapabilities ==
  /\ setter.capabilities = "idle"
  /\ packetFilterMatch' = ~packetFilterMatch
  /\ minimum' = MinimumIdleCondition(packetFilterMatch')
  /\ setter' = [setter EXCEPT !.capabilities = "evaluate"]
  /\ UNCHANGED <<selfManaged, highLatencyResume, d0, current,
                 powerReferenceAcquired, referenceVars>>

SetCurrentIdleCondition(condition) ==
  /\ setter.ndis = "idle" /\ ~interfaceStopped
  /\ current' = condition
  /\ setter' = [setter EXCEPT !.ndis = "evaluate"]
  /\ UNCHANGED <<selfManaged, highLatencyResume, packetFilterMatch, d0, minimum,
                 powerReferenceAcquired, referenceVars>>

FirstD0Entry ==
  /\ d0 = "before"
  /\ d0' = "entered"
  /\ UNCHANGED <<selfManaged, highLatencyResume, restrictionVars, referenceVars>>

\* Mutant: the adapter is not told when WDF gives references.
PostD0EntryForgets ==
  /\ d0 = "entered"
  /\ d0' = "told"
  /\ UNCHANGED <<selfManaged, highLatencyResume, restrictionVars, referenceVars>>

\* A reference that WDF refused before is asked for again.
PostD0Entry ==
  /\ d0 = "entered"
  /\ d0' = "told"
  /\ setter' = [setter EXCEPT !.d0 = "evaluate"]
  /\ UNCHANGED <<selfManaged, highLatencyResume, minimum, current,
                 powerReferenceAcquired, packetFilterMatch, referenceVars>>

RestrictS0IdleByIdleCondition(s) ==
  /\ setter[s] = "evaluate"
  /\ setter' = [setter EXCEPT ![s] = "idle"]
  /\ powerReferenceAcquired' = /\ current < minimum
                               /\ powerReferenceAcquired \/ d0 # "before"
  /\ UNCHANGED <<selfManaged, highLatencyResume, packetFilterMatch, d0, minimum,
                 current, referenceVars>>

-----------------------------------------------------------------------------
(* The references of NDIS.                                                  *)

BecomesUser(u, from, to) == user[u] = from /\ user' = [user EXCEPT ![u] = to]

PowerReference(u) ==
  /\ ~interfaceStopped
  /\ BecomesUser(u, "none", IF selfManaged THEN "holds" ELSE "stopping")
  /\ UNCHANGED <<successful, wdfReferences, refused, interfaceStopped, restrictions>>

\* WdfDeviceStopIdle. A reference that it refuses is not counted.
StopIdle(u) ==
  /\ \/ /\ d0 # "before"
        /\ BecomesUser(u, "stopping", "counts")
        /\ wdfReferences' = wdfReferences + 1
        /\ UNCHANGED refused
     \/ /\ BecomesUser(u, "stopping", "holds")
        /\ refused' = TRUE
        /\ UNCHANGED wdfReferences
  /\ UNCHANGED <<successful, interfaceStopped, restrictions>>

CountSuccess(u) ==
  /\ BecomesUser(u, "counts", "holds")
  /\ successful' = successful + 1
  /\ UNCHANGED <<wdfReferences, refused, interfaceStopped, restrictions>>

\* Mutant: a reference that was refused is dropped like the others.
DereferenceAny(u) ==
  /\ BecomesUser(u, "holds", "resuming")
  /\ successful' = successful - 1
  /\ UNCHANGED <<wdfReferences, refused, interfaceStopped, restrictions>>

\* NDIS drops a reference that was refused too: the count does not go below 0.
PowerDereference(u) ==
  /\ \/ /\ successful > 0
        /\ BecomesUser(u, "holds", "resuming")
        /\ successful' = successful - 1
     \/ /\ successful = 0
        /\ BecomesUser(u, "holds", "none")
        /\ UNCHANGED successful
  /\ UNCHANGED <<wdfReferences, refused, interfaceStopped, restrictions>>

ResumeIdle(u) ==
  /\ BecomesUser(u, "resuming", "none")
  /\ wdfReferences' = wdfReferences - 1
  /\ UNCHANGED <<successful, refused, interfaceStopped, restrictions>>

\* NDIS initiates nothing any more, what it holds is released for it.
ReleaseOutstandingPowerReferences ==
  /\ ~interfaceStopped
  /\ \A u \in PowerUsers : user[u] \in {"none", "holds"}
  /\ interfaceStopped' = TRUE
  /\ successful' = 0
  /\ wdfReferences' = wdfReferences - successful
  /\ UNCHANGED <<user, refused, restrictions>>

PowerNext ==
  \/ SetWakePacketFilterCapabilities
  \/ \E c \in IdleConditions : SetCurrentIdleCondition(c)
  \/ FirstD0Entry \/ PostD0Entry
  \/ \E s \in DOMAIN setter : RestrictS0IdleByIdleCondition(s)
  \/ \E u \in PowerUsers : \/ PowerReference(u) \/ StopIdle(u) \/ CountSuccess(u)
                         \/ PowerDereference(u) \/ ResumeIdle(u)
  \/ ReleaseOutstandingPowerReferences

PowerSpec == PowerInit /\ [][PowerNext]_powerVars

-----------------------------------------------------------------------------
\* Once every setter has evaluated and the adapter knows that the device has
\* been in D0, the device is kept from idling if and only if NDIS's condition
\* asks for more than the driver can do, whoever set what last and whatever WDF
\* refused before.
IdleAsRestricted ==
  d0 # "entered" /\ d0 # "before" /\ (\A s \in DOMAIN setter : setter[s] = "idle") =>
    /\ powerReferenceAcquired = (current < minimum)
    /\ minimum = MinimumIdleCondition(packetFilterMatch)

Doing(s) == {u \in PowerUsers : user[u] = s}

\* The adapter drops no reference that it does not have, however references
\* that were refused and references that were granted are dropped, and keeps
\* none when all are dropped or the interface has stopped. As long as none was
\* refused, each user's reference holds.
ReferencesBalance ==
  /\ wdfReferences >= 0
  /\ (\A u \in PowerUsers : user[u] = "none") => wdfReferences = 0
  /\ interfaceStopped => wdfReferences = Cardinality(Doing("resuming"))
  /\ ~(selfManaged \/ refused \/ interfaceStopped) =>
       wdfReferences >= Cardinality(Doing("holds"))
=============================================================================
