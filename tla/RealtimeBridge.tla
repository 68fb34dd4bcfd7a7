--------------------------- MODULE RealtimeBridge ---------------------------
(***************************************************************************)
(* The MQTT to Socket.IO bridge (apps/realtime/src): the device registry,  *)
(* the filter of stale simulator sessions, the detection of status         *)
(* transitions, the cooldown of alerts and the choice of rooms.            *)
(*                                                                         *)
(* A handler of the bridge runs to completion without awaiting, so each    *)
(* message, each run of the cleanup timer and each restart is one action.  *)
(* Messages are arbitrary here: any message, in any order, any number of   *)
(* times.  FleetSimulator produces real ones and RealtimePipeline joins    *)
(* the two.  sent holds what the last step emitted; from, shown and quiet  *)
(* are history, which no handler reads.                                    *)
(***************************************************************************)
EXTENDS Naturals, RealtimeMessages

CONSTANTS
    Device,       \* device ids
    Session,      \* sessionIds of simulator processes
    Site,         \* sites (and estates: the code treats both alike)
    AlertType,    \* event types of ALERT_EVENT_TYPES
    Message,      \* the payloads that may arrive on a device topic
    AlertDedup,   \* ALERT_DEDUP_MS, in ticks
    DeviceTtl     \* DEVICE_TTL_MS, in ticks

ASSUME NoneAssumption ==
    None \notin Session /\ None \notin Site /\ None \notin AlertType
    /\ None \notin Status \cup {"unknown"}
ASSUME MessageAssumption ==
    Message \subseteq
        [device : Device, topic : Topic, session : Session \cup {None},
         status : Status \cup {None}, previous : Status \cup {None},
         site : Site \cup {None}, type : AlertType \cup {None}, alarm : BOOLEAN,
         named : BOOLEAN]
ASSUME TicksAssumption == AlertDedup \in Nat /\ DeviceTtl \in Nat

VARIABLES
    registry,         \* registry[d]: the entry of the registry map, or None
    session,          \* currentSimulatorSessionId
    previousStatuses, \* previousStatuses[d]
    alertAge,         \* ticks since alertDedupTimestamps[d:type], capped
    sent,             \* the events the last step emitted
    shown,            \* history: status of d's last device:status event
    quiet             \* history: ticks since d's last alert:created of a type

vars == <<registry, session, previousStatuses, alertAge, sent, shown, quiet>>

Age(cap) == 0..cap
Entry == [status : Status \cup {"unknown"}, site : Site \cup {None},
          from : Session \cup {None}, age : Age(DeviceTtl + 1)]

(* The ?? operator. *)
Or(a, b) == IF a # None THEN a ELSE b

Nothing == [d \in Device |-> None]
LongAgo == [d \in Device |-> [t \in AlertType |-> AlertDedup]]

Init ==
    /\ registry = Nothing
    /\ session = None
    /\ previousStatuses = Nothing
    /\ alertAge = LongAgo
    /\ sent = {}
    /\ shown = Nothing
    /\ quiet = LongAgo

-----------------------------------------------------------------------------
(* Emissions. *)

(* emitToDevice(): the dashboard room, the device's and, if known, the     *)
(* site's.                                                                 *)
Rooms(d, site) ==
    {<<"dashboard">>, <<"device", d>>} \cup (IF site = None THEN {} ELSE {<<"site", site>>})

Event(name, m, entry) == [event |-> name, device |-> m.device, rooms |-> Rooms(m.device, entry.site)]
StatusEvent(m, entry, from, to) ==
    [event |-> "device:status", device |-> m.device, rooms |-> Rooms(m.device, entry.site),
     previous |-> from, status |-> to]
AlertCreated(m, entry) ==
    [event |-> "alert:created", device |-> m.device, rooms |-> Rooms(m.device, entry.site),
     type |-> m.type]

(* The step emits E. *)
Emit(E) ==
    /\ sent' = E
    /\ shown' = [d \in Device |->
          IF \E e \in E : e.event = "device:status" /\ e.device = d
            THEN (CHOOSE e \in E : e.event = "device:status").status
            ELSE shown[d]]
    /\ quiet' = [d \in Device |-> [t \in AlertType |->
          IF \E e \in E : e.event = "alert:created" /\ e.device = d /\ e.type = t
            THEN 0
            ELSE quiet[d][t]]]

-----------------------------------------------------------------------------
(* Messages on a device topic.  A payload may leave out any field.  One    *)
(* with neither a name nor a deviceId of its own (named) cannot be given a *)
(* title: formatEventTitle throws, onMessage ends there and the MQTT       *)
(* client logs the error.                                                  *)

shouldDropStaleMessage(s) == s # None /\ session # None /\ s # session

Registered(d) == registry[d] # None
KnownStatus(d) == IF Registered(d) THEN registry[d].status ELSE None
KnownSite(d) == IF Registered(d) THEN registry[d].site ELSE None

UpdatedAsIs(m, s) ==      \* fault: stores an absent status
    [status |-> Or(s, KnownStatus(m.device)),
     site   |-> Or(m.site, KnownSite(m.device)),
     from   |-> m.session,
     age    |-> 0]

(* updateDevice(), with the status the caller passes. *)
Updated(m, s) ==
    [status |-> Or(Or(s, KnownStatus(m.device)), "unknown"),
     site   |-> Or(m.site, KnownSite(m.device)),
     from   |-> m.session,
     age    |-> 0]

Register(m, entry) == registry' = [registry EXCEPT ![m.device] = entry]

Drop(m) ==
    /\ shouldDropStaleMessage(m.session)
    /\ Emit({})
    /\ UNCHANGED <<registry, session, previousStatuses, alertAge>>

Telemetry(m) ==
    /\ m.topic = "telemetry"
    /\ ~shouldDropStaleMessage(m.session)
    /\ LET entry == Updated(m, m.status) IN
       /\ Register(m, entry)
       /\ Emit({Event("device:telemetry", m, entry)})
    /\ UNCHANGED <<session, previousStatuses, alertAge>>

RegistryFirst(m) ==      \* fault: trusts the registry before its own record
    Or(m.previous, Or(KnownStatus(m.device), Or(previousStatuses[m.device], "online")))
EffectivePrevious(m) ==
    Or(m.previous, Or(previousStatuses[m.device], Or(KnownStatus(m.device), "online")))

StatusMessage(m) ==
    /\ m.topic = "status"
    /\ ~shouldDropStaleMessage(m.session)
    /\ LET from == EffectivePrevious(m)
           to == Or(m.status, "online")
           entry == Updated(m, to) IN
       IF from = to
         THEN /\ Register(m, Updated(m, m.status))
              /\ Emit({})
              /\ UNCHANGED previousStatuses
         ELSE /\ Register(m, entry)
              /\ previousStatuses' = [previousStatuses EXCEPT ![m.device] = to]
              /\ Emit({StatusEvent(m, entry, from, to)}
                      \cup (IF m.named THEN {Event("event:new", m, entry)} ELSE {}))
    /\ UNCHANGED <<session, alertAge>>

QuietDevice(d, t) == \A u \in AlertType : alertAge[d][u] >= AlertDedup      \* fault: one cooldown per device
CooledDown(d, t) == alertAge[d][t] >= AlertDedup

EventMessage(m) ==
    /\ m.topic = "events" /\ m.named
    /\ ~shouldDropStaleMessage(m.session)
    /\ LET entry == Updated(m, m.status)
           alerts == m.type # None /\ CooledDown(m.device, m.type) IN
       /\ Register(m, entry)
       /\ alertAge' = IF alerts THEN [alertAge EXCEPT ![m.device][m.type] = 0] ELSE alertAge
       /\ Emit({Event("event:new", m, entry)}
               \cup (IF alerts THEN {AlertCreated(m, entry)} ELSE {})
               \cup (IF m.alarm THEN {Event("device:diagnostic", m, entry)} ELSE {}))
    /\ UNCHANGED <<session, previousStatuses>>

(* No title, and so no event and no alert: only the registry has changed.  *)
UntitledEventDedup(m) ==      \* fault: starts the cooldown before the title is needed
    /\ m.topic = "events" /\ ~m.named
    /\ ~shouldDropStaleMessage(m.session)
    /\ Register(m, Updated(m, m.status))
    /\ alertAge' = IF m.type = None THEN alertAge ELSE [alertAge EXCEPT ![m.device][m.type] = 0]
    /\ Emit({})
    /\ UNCHANGED <<session, previousStatuses>>

UntitledEvent(m) ==
    /\ m.topic = "events" /\ ~m.named
    /\ ~shouldDropStaleMessage(m.session)
    /\ Register(m, Updated(m, m.status))
    /\ Emit({})
    /\ UNCHANGED <<session, previousStatuses, alertAge>>

OnMessage(m) ==
    Drop(m) \/ Telemetry(m) \/ StatusMessage(m) \/ EventMessage(m) \/ UntitledEvent(m)

-----------------------------------------------------------------------------
(* simulator/started: resetSimulatorDevices(), setSimulatorSession().      *)

KeepRegistry == registry      \* fault: forgets to reset
ClearedRegistry == Nothing

SimulatorStarted(s) ==
    /\ registry' = ClearedRegistry
    /\ session' = s
    /\ sent' = {[event |-> "simulator:reset", rooms |-> {<<"dashboard">>}]}
    /\ UNCHANGED <<previousStatuses, alertAge, shown, quiet>>

(* The cleanup timer. *)
Prune ==
    /\ \E d \in Device : Registered(d) /\ registry[d].age > DeviceTtl
    /\ registry' = [d \in Device |->
          IF Registered(d) /\ registry[d].age > DeviceTtl THEN None ELSE registry[d]]
    /\ Emit({})
    /\ UNCHANGED <<session, previousStatuses, alertAge>>

(* The process stops and a new one starts: all of its state is in memory.  *)
Restart ==
    /\ registry' = Nothing
    /\ session' = None
    /\ previousStatuses' = Nothing
    /\ alertAge' = LongAgo
    /\ sent' = {}
    /\ shown' = Nothing
    /\ quiet' = LongAgo

(* Time passes. *)
Older(age, cap) == IF age < cap THEN age + 1 ELSE cap
Tick ==
    /\ registry' = [d \in Device |->
          IF Registered(d) THEN [registry[d] EXCEPT !.age = Older(@, DeviceTtl + 1)] ELSE None]
    /\ alertAge' = [d \in Device |-> [t \in AlertType |-> Older(alertAge[d][t], AlertDedup)]]
    /\ quiet' = [d \in Device |-> [t \in AlertType |-> Older(quiet[d][t], AlertDedup)]]
    /\ sent' = {}
    /\ UNCHANGED <<session, previousStatuses, shown>>

Next ==
    \/ \E m \in Message : OnMessage(m)
    \/ \E s \in Session : SimulatorStarted(s)
    \/ Prune
    \/ Restart
    \/ Tick

Spec == Init /\ [][Next]_vars

-----------------------------------------------------------------------------
(* Properties. *)

(* Every variable keeps its shape. *)
TypeOK ==
    /\ registry \in [Device -> Entry \cup {None}]
    /\ session \in Session \cup {None}
    /\ previousStatuses \in [Device -> Status \cup {None}]
    /\ alertAge \in [Device -> [AlertType -> Age(AlertDedup)]]
    /\ shown \in [Device -> Status \cup {None}]
    /\ quiet \in [Device -> [AlertType -> Age(AlertDedup)]]

(* Once a simulator has announced itself, no device is in the registry on  *)
(* the word of another simulator, however its messages and those of the    *)
(* old processes interleave, are repeated or wait at the broker            *)
(* (device-registry.ts:12-17).                                             *)
NoForeignSession ==
    session # None =>
        \A d \in Device : Registered(d) => registry[d].from \in {session, None}

(* The device:status events of a device form a chain: each starts from the *)
(* status the one before ended in, whatever was pruned, reset or overheard *)
(* from other topics in between, and none repeats a status.  A payload     *)
(* that carries its own previousStatus is believed instead.                *)
StatusChain ==
    [][\A m \in Message : OnMessage(m) =>
          \A e \in sent' : e.event = "device:status" =>
             /\ e.status # e.previous
             /\ m.previous = None /\ shown[m.device] # None => e.previous = shown[m.device]
      ]_vars

(* A condition is announced once per cooldown, device and type: never      *)
(* twice within it, and never silenced by another type, another device, a  *)
(* restart of the simulator or a message whose handler threw ("skip if     *)
(* same deviceId+category emitted within 60s", index.ts:216).              *)
AnnouncedOnce ==
    \A m \in Message :
        m.type # None /\ EventMessage(m) =>
           (quiet[m.device][m.type] >= AlertDedup
              <=> \E e \in sent' : e.event = "alert:created" /\ e.type = m.type)
AlertOncePerCooldown == [][AnnouncedOnce]_vars

=============================================================================
