--------------------------- MODULE RealtimeProofs ---------------------------
(***************************************************************************)
(* The bridge under any messages, and the pipeline of simulators, broker,  *)
(* bridge and dashboard for any fleet.                                     *)
(*                                                                         *)
(* StatusChain and AlertOncePerCooldown are properties of what was         *)
(* emitted, the code only keeps its own records: the invariant IInv says   *)
(* that previousStatuses and the ages of the alerts are exactly the        *)
(* histories shown and quiet, which no prune, reset or handler that throws *)
(* disturbs.                                                               *)
(*                                                                         *)
(* TrackedStatusShown is followed along the pipeline, as long as one       *)
(* process is the only one there has been (LoneOK): its last status in the *)
(* queue, or else the broker's copy, is the device's (Lasting), and        *)
(* outside an outage what the bridge has shown of a device, and the        *)
(* dashboard shows, is the broker's copy (LoneDevice).                     *)
(***************************************************************************)
EXTENDS RealtimePipeline, SequenceTheorems, TLAPS

RecordIsHistory == shown = previousStatuses

CooldownIsHistory == quiet = alertAge

IInv == TypeOK /\ NoForeignSession /\ RecordIsHistory /\ CooldownIsHistory

-----------------------------------------------------------------------------
(* updateDevice() makes a well-formed entry, marked with the session of    *)
(* the message.                                                            *)
LEMMA UpdatedType ==
    ASSUME NEW m \in Message, NEW s \in Status \cup {None}, TypeOK
    PROVE  /\ Updated(m, s) \in Entry
           /\ Updated(m, s).from = m.session
           /\ Updated(m, s) # None => Updated(m, s).status \in Status \cup {"unknown"}
<1>1. /\ m.device \in Device /\ m.session \in Session \cup {None}
      /\ m.site \in Site \cup {None}
  BY MessageAssumption
<1>2. registry[m.device] \in Entry \cup {None}
  BY <1>1 DEF TypeOK
<1>3. KnownStatus(m.device) \in Status \cup {"unknown", None}
  BY <1>2 DEF KnownStatus, Registered, Entry
<1>4. KnownSite(m.device) \in Site \cup {None}
  BY <1>2 DEF KnownSite, Registered, Entry
<1>5. Or(Or(s, KnownStatus(m.device)), "unknown") \in Status \cup {"unknown"}
  BY <1>3 DEF Or
<1>6. Or(m.site, KnownSite(m.device)) \in Site \cup {None}
  BY <1>1, <1>4 DEF Or
<1>7. 0 \in Age(DeviceTtl + 1)
  BY TicksAssumption DEF Age
<1>8. QED
  BY <1>1, <1>5, <1>6, <1>7 DEF Updated, Entry

(* A message that is not dropped carries the session in force, if it       *)
(* carries one and one is in force.                                        *)
LEMMA AcceptedSession ==
    ASSUME NEW m \in Message, ~shouldDropStaleMessage(m.session)
    PROVE  session # None => m.session \in {session, None}
  BY DEF shouldDropStaleMessage

(* Registering the entry of an accepted message keeps both conjuncts about *)
(* the registry.                                                           *)
LEMMA RegisterKeeps ==
    ASSUME NEW m \in Message, NEW s \in Status \cup {None}, TypeOK, NoForeignSession,
           ~shouldDropStaleMessage(m.session),
           Register(m, Updated(m, s)), UNCHANGED session
    PROVE  registry' \in [Device -> Entry \cup {None}] /\ NoForeignSession'
<1>1. m.device \in Device
  BY MessageAssumption
<1>2. Updated(m, s) \in Entry /\ Updated(m, s).from = m.session
  BY UpdatedType
<1>3. registry' \in [Device -> Entry \cup {None}]
  BY <1>2 DEF Register, TypeOK
<1>4. NoForeignSession'
  <2> SUFFICES ASSUME session # None, NEW d \in Device, registry'[d] # None
               PROVE  registry'[d].from \in {session, None}
    BY DEF NoForeignSession, Registered
  <2>1. CASE d = m.device
    <3>1. registry'[d] = Updated(m, s)
      BY <2>1, <1>1 DEF Register, TypeOK
    <3>2. QED
      BY <3>1, <1>2, AcceptedSession
  <2>2. CASE d # m.device
    <3>1. registry'[d] = registry[d]
      BY <2>2, <1>1 DEF Register, TypeOK
    <3>2. QED
      BY <3>1 DEF NoForeignSession, Registered
  <2>3. QED
    BY <2>1, <2>2
<1>5. QED
  BY <1>3, <1>4

(* A step that emits no device:status leaves the history shown alone, one  *)
(* that emits no alert:created the history quiet.                          *)
LEMMA EmitQuietly ==
    ASSUME NEW E, Emit(E), TypeOK, \A e \in E : e.event # "device:status"
    PROVE  shown' = shown
<1>1. shown' = [d \in Device |-> shown[d]]
  BY DEF Emit
<1>2. QED
  BY <1>1 DEF TypeOK

LEMMA EmitNoAlert ==
    ASSUME NEW E, Emit(E), TypeOK, \A e \in E : e.event # "alert:created"
    PROVE  quiet' = quiet
<1>1. quiet' = [d \in Device |-> [t \in AlertType |-> quiet[d][t]]]
  BY DEF Emit
<1>2. QED
  BY <1>1 DEF TypeOK

-----------------------------------------------------------------------------
LEMMA InitIInv == Init => IInv
  BY TicksAssumption
  DEF Init, IInv, TypeOK, NoForeignSession, RecordIsHistory, CooldownIsHistory,
      Nothing, LongAgo, Registered, Age

LEMMA TelemetryIInv ==
    ASSUME NEW m \in Message, IInv, Telemetry(m)
    PROVE  IInv'
<1> DEFINE entry == Updated(m, m.status)
           E == {Event("device:telemetry", m, entry)}
<1>1. m.status \in Status \cup {None}
  BY MessageAssumption
<1>2. /\ ~shouldDropStaleMessage(m.session)
      /\ Register(m, entry) /\ Emit(E)
      /\ UNCHANGED <<session, previousStatuses, alertAge>>
  BY DEF Telemetry
<1>3. registry' \in [Device -> Entry \cup {None}] /\ NoForeignSession'
  BY <1>1, <1>2, RegisterKeeps DEF IInv
<1>4. \A e \in E : e.event \notin {"device:status", "alert:created"}
  BY DEF Event
<1>5. shown' = shown
  BY <1>2, <1>4, EmitQuietly DEF IInv
<1>6. quiet' = quiet
  BY <1>2, <1>4, EmitNoAlert DEF IInv
<1>7. QED
  BY <1>2, <1>3, <1>5, <1>6 DEF IInv, TypeOK, RecordIsHistory, CooldownIsHistory

LEMMA EventIInv ==
    ASSUME NEW m \in Message, IInv, EventMessage(m)
    PROVE  IInv'
<1> DEFINE entry == Updated(m, m.status)
           alerts == m.type # None /\ CooledDown(m.device, m.type)
           E == {Event("event:new", m, entry)}
                  \cup (IF alerts THEN {AlertCreated(m, entry)} ELSE {})
                  \cup (IF m.alarm THEN {Event("device:diagnostic", m, entry)} ELSE {})
<1>1. /\ m.status \in Status \cup {None} /\ m.device \in Device
      /\ m.type \in AlertType \cup {None}
  BY MessageAssumption
<1>2. /\ ~shouldDropStaleMessage(m.session)
      /\ Register(m, entry) /\ Emit(E)
      /\ alertAge' = IF alerts THEN [alertAge EXCEPT ![m.device][m.type] = 0] ELSE alertAge
      /\ UNCHANGED <<session, previousStatuses>>
  BY DEF EventMessage
<1>3. registry' \in [Device -> Entry \cup {None}] /\ NoForeignSession'
  BY <1>1, <1>2, RegisterKeeps DEF IInv
<1>4. \A e \in E : e.event # "device:status"
  BY DEF Event, AlertCreated
<1>5. shown' = shown
  BY <1>2, <1>4, EmitQuietly DEF IInv
<1>6. quiet' = alertAge'
  <2>1. \A d \in Device, t \in AlertType :
           (\E e \in E : e.event = "alert:created" /\ e.device = d /\ e.type = t)
             <=> alerts /\ d = m.device /\ t = m.type
    <3> HIDE DEF alerts, entry
    <3>1. \A name : Event(name, m, entry).event = name
      BY DEF Event
    <3>2. /\ AlertCreated(m, entry).event = "alert:created"
          /\ AlertCreated(m, entry).device = m.device
          /\ AlertCreated(m, entry).type = m.type
      BY DEF AlertCreated
    <3>3. \A e \in E : e.event = "alert:created" => alerts /\ e = AlertCreated(m, entry)
      BY <3>1
    <3>4. alerts => AlertCreated(m, entry) \in E
      OBVIOUS
    <3> HIDE DEF E
    <3>5. QED
      BY <3>2, <3>3, <3>4
  <2>2. quiet' = [d \in Device |-> [t \in AlertType |->
             IF \E e \in E : e.event = "alert:created" /\ e.device = d /\ e.type = t
               THEN 0 ELSE quiet[d][t]]]
    BY <1>2 DEF Emit
  <2>3. quiet' = [d \in Device |-> [t \in AlertType |->
             IF alerts /\ d = m.device /\ t = m.type THEN 0 ELSE quiet[d][t]]]
    <3> HIDE DEF E, alerts
    <3>1. QED
      BY <2>1, <2>2
  <2>4. alertAge \in [Device -> [AlertType -> Age(AlertDedup)]] /\ quiet = alertAge
    BY DEF IInv, TypeOK, CooldownIsHistory
  <2>5. CASE alerts
    <3>1. m.type \in AlertType
      BY <1>1, <2>5
    <3>2. alertAge' = [alertAge EXCEPT ![m.device][m.type] = 0]
      BY <1>2, <2>5
    <3> HIDE DEF alerts
    <3>3. QED
      BY <1>1, <2>3, <2>4, <2>5, <3>1, <3>2
  <2>6. CASE ~alerts
    <3>1. alertAge' = alertAge
      BY <1>2, <2>6
    <3> HIDE DEF alerts
    <3>2. QED
      BY <2>3, <2>4, <2>6, <3>1
  <2>7. QED
    BY <2>5, <2>6
<1>7. alertAge' \in [Device -> [AlertType -> Age(AlertDedup)]]
  <2>1. alertAge \in [Device -> [AlertType -> Age(AlertDedup)]] /\ 0 \in Age(AlertDedup)
    BY TicksAssumption DEF IInv, TypeOK, Age
  <2>2. CASE alerts
    BY <1>1, <1>2, <2>1, <2>2
  <2>3. CASE ~alerts
    BY <1>2, <2>1, <2>3
  <2>4. QED
    BY <2>2, <2>3
<1>8. QED
  BY <1>2, <1>3, <1>5, <1>6, <1>7 DEF IInv, TypeOK, RecordIsHistory, CooldownIsHistory

LEMMA UntitledEventIInv ==
    ASSUME NEW m \in Message, IInv, UntitledEvent(m)
    PROVE  IInv'
<1>1. m.status \in Status \cup {None}
  BY MessageAssumption
<1>2. /\ ~shouldDropStaleMessage(m.session)
      /\ Register(m, Updated(m, m.status)) /\ Emit({})
      /\ UNCHANGED <<session, previousStatuses, alertAge>>
  BY DEF UntitledEvent
<1>3. registry' \in [Device -> Entry \cup {None}] /\ NoForeignSession'
  BY <1>1, <1>2, RegisterKeeps DEF IInv
<1>4. shown' = shown /\ quiet' = quiet
  BY <1>2, EmitQuietly, EmitNoAlert DEF IInv
<1>5. QED
  BY <1>2, <1>3, <1>4 DEF IInv, TypeOK, RecordIsHistory, CooldownIsHistory

(* The one handler that writes the record: it emits what it records.       *)
LEMMA StatusIInv ==
    ASSUME NEW m \in Message, IInv, StatusMessage(m)
    PROVE  IInv'
<1> DEFINE from == EffectivePrevious(m)
           to == Or(m.status, "online")
           entry == Updated(m, to)
           E == {StatusEvent(m, entry, from, to)}
                  \cup (IF m.named THEN {Event("event:new", m, entry)} ELSE {})
<1>1. m.status \in Status \cup {None} /\ to \in Status /\ m.device \in Device
  BY MessageAssumption DEF Or, Status
<1>2. ~shouldDropStaleMessage(m.session) /\ UNCHANGED <<session, alertAge>>
  BY DEF StatusMessage
<1>3. CASE from = to
  <2>1. Register(m, Updated(m, m.status)) /\ Emit({}) /\ UNCHANGED previousStatuses
    BY <1>3 DEF StatusMessage
  <2>2. registry' \in [Device -> Entry \cup {None}] /\ NoForeignSession'
    BY <1>1, <1>2, <2>1, RegisterKeeps DEF IInv
  <2>3. shown' = shown
    BY <2>1, EmitQuietly DEF IInv
  <2>4. quiet' = quiet
    BY <2>1, EmitNoAlert DEF IInv
  <2>5. QED
    BY <1>2, <2>1, <2>2, <2>3, <2>4 DEF IInv, TypeOK, RecordIsHistory, CooldownIsHistory
<1>4. CASE from # to
  <2>1. /\ Register(m, entry) /\ Emit(E)
        /\ previousStatuses' = [previousStatuses EXCEPT ![m.device] = to]
    BY <1>4 DEF StatusMessage
  <2>2. registry' \in [Device -> Entry \cup {None}] /\ NoForeignSession'
    BY <1>1, <1>2, <2>1, RegisterKeeps DEF IInv
  <2>3. \A e \in E : e.event = "device:status" => e = StatusEvent(m, entry, from, to)
    BY DEF Event, StatusEvent
  <2>4. /\ StatusEvent(m, entry, from, to).event = "device:status"
        /\ StatusEvent(m, entry, from, to).device = m.device
        /\ StatusEvent(m, entry, from, to).status = to
    BY DEF StatusEvent
  <2>5. (CHOOSE e \in E : e.event = "device:status").status = to
    <3> HIDE DEF from, to, entry
    <3>1. \E e \in E : e.event = "device:status"
      BY <2>4
    <3> DEFINE chosen == CHOOSE e \in E : e.event = "device:status"
    <3>2. chosen \in E /\ chosen.event = "device:status"
      BY <3>1
    <3> HIDE DEF chosen
    <3>3. chosen = StatusEvent(m, entry, from, to)
      BY <3>2, <2>3
    <3>4. chosen.status = to
      BY <3>3, <2>4
    <3>5. QED
      BY <3>4 DEF chosen
  <2>6. shown' = [d \in Device |-> IF d = m.device THEN to ELSE shown[d]]
    <3> HIDE DEF from, to, entry
    <3>1. \A d \in Device : (\E e \in E : e.event = "device:status" /\ e.device = d) <=> d = m.device
      BY <2>3, <2>4
    <3>2. shown' = [d \in Device |->
                      IF \E e \in E : e.event = "device:status" /\ e.device = d
                        THEN (CHOOSE e \in E : e.event = "device:status").status
                        ELSE shown[d]]
      BY <2>1 DEF Emit
    <3> HIDE DEF E
    <3>3. QED
      BY <2>5, <3>1, <3>2
  <2>7. shown' = previousStatuses' /\ previousStatuses' \in [Device -> Status \cup {None}]
    BY <1>1, <2>1, <2>6 DEF IInv, TypeOK, RecordIsHistory
  <2>8. quiet' = quiet
    <3>1. \A e \in E : e.event # "alert:created"
      BY DEF Event, StatusEvent
    <3>2. QED
      BY <2>1, <3>1, EmitNoAlert DEF IInv
  <2>9. QED
    BY <1>2, <2>2, <2>7, <2>8 DEF IInv, TypeOK, RecordIsHistory, CooldownIsHistory
<1>5. QED
  BY <1>3, <1>4

LEMMA OtherStepsIInv ==
    ASSUME IInv,
           \/ \E m \in Message : Drop(m)
           \/ \E s \in Session : SimulatorStarted(s)
           \/ Prune \/ Restart \/ Tick
    PROVE  IInv'
<1>1. ASSUME NEW m \in Message, Drop(m)  PROVE IInv'
  <2>1. Emit({}) /\ UNCHANGED <<registry, session, previousStatuses, alertAge>>
    BY <1>1 DEF Drop
  <2>2. shown' = shown
    BY <2>1, EmitQuietly DEF IInv
  <2>3. quiet' = quiet
    BY <2>1, EmitNoAlert DEF IInv
  <2>4. QED
    BY <2>1, <2>2, <2>3 DEF IInv, TypeOK, NoForeignSession, Registered, RecordIsHistory, CooldownIsHistory
<1>2. ASSUME NEW s \in Session, SimulatorStarted(s)  PROVE IInv'
  BY <1>2 DEF SimulatorStarted, ClearedRegistry, Nothing,
              IInv, TypeOK, NoForeignSession, Registered, RecordIsHistory, CooldownIsHistory
<1>3. CASE Prune
  <2>1. Emit({}) /\ UNCHANGED <<session, previousStatuses, alertAge>>
    BY <1>3 DEF Prune
  <2>2. shown' = shown
    BY <2>1, EmitQuietly DEF IInv
  <2>3. quiet' = quiet
    BY <2>1, EmitNoAlert DEF IInv
  <2>4. \A d \in Device : registry'[d] \in {registry[d], None}
    BY <1>3 DEF Prune
  <2>5. registry' \in [Device -> Entry \cup {None}]
    BY <1>3 DEF Prune, IInv, TypeOK
  <2>6. NoForeignSession'
    BY <2>1, <2>4 DEF IInv, NoForeignSession, Registered
  <2>7. QED
    BY <2>1, <2>2, <2>3, <2>5, <2>6 DEF IInv, TypeOK, RecordIsHistory, CooldownIsHistory
<1>4. CASE Restart
  BY <1>4, TicksAssumption
  DEF Restart, IInv, TypeOK, NoForeignSession, RecordIsHistory, CooldownIsHistory, Nothing, LongAgo, Registered, Age
<1>5. CASE Tick
  <2>1. ASSUME NEW cap \in Nat, NEW age \in Age(cap)  PROVE Older(age, cap) \in Age(cap)
    BY <2>1 DEF Older, Age
  <2>2. AlertDedup \in Nat /\ DeviceTtl + 1 \in Nat
    BY TicksAssumption
  <2>3. alertAge' \in [Device -> [AlertType -> Age(AlertDedup)]]
    BY <1>5, <2>1, <2>2 DEF Tick, IInv, TypeOK
  <2>4. quiet' \in [Device -> [AlertType -> Age(AlertDedup)]]
    BY <1>5, <2>1, <2>2 DEF Tick, IInv, TypeOK
  <2>5. ASSUME NEW d \in Device, Registered(d)
        PROVE  /\ [registry[d] EXCEPT !.age = Older(@, DeviceTtl + 1)] \in Entry
               /\ [registry[d] EXCEPT !.age = Older(@, DeviceTtl + 1)].from = registry[d].from
    <3>1. registry[d] \in Entry
      BY <2>5 DEF IInv, TypeOK, Registered
    <3>2. Older(registry[d].age, DeviceTtl + 1) \in Age(DeviceTtl + 1)
      BY <3>1, <2>1, <2>2 DEF Entry
    <3>3. QED
      BY <3>1, <3>2 DEF Entry
  <2>6. \A d \in Device : registry'[d] =
          IF Registered(d) THEN [registry[d] EXCEPT !.age = Older(@, DeviceTtl + 1)] ELSE None
    BY <1>5 DEF Tick
  <2>7. registry' \in [Device -> Entry \cup {None}]
    BY <1>5, <2>5 DEF Tick
  <2>8. session' = session /\ shown' = shown /\ previousStatuses' = previousStatuses
    BY <1>5 DEF Tick
  <2>9. NoForeignSession'
    <3> SUFFICES ASSUME session # None, NEW d \in Device, registry'[d] # None
                 PROVE  registry'[d].from \in {session, None}
      BY <2>8 DEF NoForeignSession, Registered
    <3>1. Registered(d)
      BY <2>6
    <3>2. registry'[d].from = registry[d].from
      BY <3>1, <2>5, <2>6
    <3>3. QED
      BY <3>1, <3>2 DEF IInv, NoForeignSession
  <2>10. quiet' = alertAge'
    BY <1>5 DEF Tick, IInv, CooldownIsHistory
  <2>11. QED
    BY <2>3, <2>4, <2>7, <2>8, <2>9, <2>10 DEF IInv, TypeOK, RecordIsHistory, CooldownIsHistory
<1>6. QED
  BY <1>1, <1>2, <1>3, <1>4, <1>5

LEMMA NextIInv ==
    ASSUME IInv, [Next]_vars
    PROVE  IInv'
<1>1. ASSUME NEW m \in Message, OnMessage(m)  PROVE IInv'
  BY <1>1, TelemetryIInv, StatusIInv, EventIInv, UntitledEventIInv, OtherStepsIInv DEF OnMessage
<1>2. CASE (\E s \in Session : SimulatorStarted(s)) \/ Prune \/ Restart \/ Tick
  BY <1>2, OtherStepsIInv
<1>3. CASE UNCHANGED vars
  BY <1>3 DEF vars, IInv, TypeOK, NoForeignSession, Registered, RecordIsHistory, CooldownIsHistory
<1>4. QED
  BY <1>1, <1>2, <1>3 DEF Next

LEMMA SpecIInv == Spec => []IInv
<1>1. Init => IInv
  BY InitIInv
<1>2. IInv /\ [Next]_vars => IInv'
  BY NextIInv
<1>3. QED
  BY <1>1, <1>2, PTL DEF Spec

-----------------------------------------------------------------------------
(* Every variable keeps its shape, whatever arrives.                       *)
THEOREM TypeCorrect == Spec => []TypeOK
<1>1. IInv => TypeOK
  BY DEF IInv
<1>2. QED
  BY <1>1, SpecIInv, PTL

(* While a simulator session is in force no device is registered by        *)
(* another one.                                                            *)
THEOREM StaleSessionsStayOut == Spec => []NoForeignSession
<1>1. IInv => NoForeignSession
  BY DEF IInv
<1>2. QED
  BY <1>1, SpecIInv, PTL

ChainStep ==
    \A m \in Message : OnMessage(m) =>
        \A e \in sent' : e.event = "device:status" =>
            /\ e.status # e.previous
            /\ m.previous = None /\ shown[m.device] # None => e.previous = shown[m.device]

(* A status message with a transition is the only one that emits a         *)
(* device:status event, and it starts from the bridge's own record.        *)
LEMMA MessageChains ==
    ASSUME IInv
    PROVE  ChainStep
<1> SUFFICES ASSUME IInv, NEW m \in Message, OnMessage(m),
                    NEW e \in sent', e.event = "device:status"
             PROVE  /\ e.status # e.previous
                    /\ m.previous = None /\ shown[m.device] # None => e.previous = shown[m.device]
  BY DEF ChainStep
<1> DEFINE from == EffectivePrevious(m)
           to == Or(m.status, "online")
           entry == Updated(m, to)
<1>1. from # to /\ e = StatusEvent(m, entry, from, to)
  <2>1. ~Drop(m)
    BY DEF Drop, Emit
  <2>2. ~Telemetry(m)
    BY DEF Telemetry, Emit, Event
  <2>3. ~EventMessage(m)
    BY DEF EventMessage, Emit, Event, AlertCreated
  <2>4. StatusMessage(m)
    BY <2>1, <2>2, <2>3 DEF OnMessage, UntitledEvent, Emit
  <2>5. from # to
    BY <2>4 DEF StatusMessage, Emit
  <2>6. sent' \subseteq {StatusEvent(m, entry, from, to), Event("event:new", m, entry)}
    BY <2>4, <2>5 DEF StatusMessage, Emit
  <2>7. Event("event:new", m, entry).event # "device:status"
    BY DEF Event
  <2>8. QED
    BY <2>5, <2>6, <2>7
<1>2. e.status = to /\ e.previous = from
  BY <1>1 DEF StatusEvent
<1>3. m.previous = None /\ shown[m.device] # None => from = shown[m.device]
  BY DEF EffectivePrevious, Or, IInv, RecordIsHistory
<1>4. QED
  BY <1>1, <1>2, <1>3

(* The device:status events of every device form a chain.                  *)
THEOREM StatusEventsChain == Spec => StatusChain
<1>1. IInv /\ [Next]_vars => [ChainStep]_vars
  BY MessageChains
<1>2. QED
  BY <1>1, SpecIInv, PTL DEF Spec, StatusChain, ChainStep

(* Within a cooldown a condition is announced once, whatever comes in      *)
(* between, and after it the next message that names it is.                *)
THEOREM AlertsKeepCooldown == Spec => AlertOncePerCooldown
<1>1. ASSUME IInv PROVE AnnouncedOnce
  <2>. SUFFICES ASSUME NEW m \in Message, m.type # None, EventMessage(m)
                PROVE  quiet[m.device][m.type] >= AlertDedup
                         <=> \E e \in sent' : e.event = "alert:created" /\ e.type = m.type
    BY DEF AnnouncedOnce
  <2>. DEFINE entry == Updated(m, m.status)
              alerts == CooledDown(m.device, m.type)
  <2>1. sent' = {Event("event:new", m, entry)}
                  \cup (IF alerts THEN {AlertCreated(m, entry)} ELSE {})
                  \cup (IF m.alarm THEN {Event("device:diagnostic", m, entry)} ELSE {})
    BY DEF EventMessage, Emit
  <2>2. alerts <=> quiet[m.device][m.type] >= AlertDedup
    BY <1>1 DEF CooledDown, IInv, CooldownIsHistory
  <2> HIDE DEF alerts, entry
  <2>3. (\E e \in sent' : e.event = "alert:created" /\ e.type = m.type) <=> alerts
    <3>1. \A name : Event(name, m, entry).event = name
      BY DEF Event
    <3>2. AlertCreated(m, entry).event = "alert:created" /\ AlertCreated(m, entry).type = m.type
      BY DEF AlertCreated
    <3>3. \A e \in sent' : e.event = "alert:created" => alerts
      BY <2>1, <3>1
    <3>4. alerts => AlertCreated(m, entry) \in sent'
      BY <2>1
    <3>5. QED
      BY <3>2, <3>3, <3>4
  <2>4. QED
    BY <2>2, <2>3
<1>2. IInv /\ [Next]_vars => [AnnouncedOnce]_vars
  BY <1>1
<1>3. QED
  BY <1>2, SpecIInv, PTL DEF Spec, AlertOncePerCooldown

-----------------------------------------------------------------------------
(* The pipeline.                                                           *)
LEMMA PayloadFacts ==
    ASSUME NEW m \in Payloads
    PROVE  /\ m.device \in SimDevice /\ m.topic \in {"telemetry", "status", "events"}
           /\ m.session \in Process /\ m.status \in SimStatus /\ m.previous = None
           /\ m \in Message /\ m # None
  BY PayloadsAssumption DEF Payloads, Topic

LEMMA PayloadType ==
    ASSUME NEW s \in Process, NEW d \in SimDevice, NEW topic \in Topic, NEW status \in SimStatus,
           NEW type \in SimEvent \cup {None}, NEW alarm \in BOOLEAN
    PROVE  LET m == Payload(s, d, topic, status, type, alarm) IN
           /\ m \in Payloads /\ m.session = s /\ m.device = d /\ m.topic = topic
           /\ m.status = status
  BY DEF Payload, Payloads

(* What a process has handed to its client: its announcement, if that has  *)
(* not been acknowledged, and then messages on device topics.              *)
GoodQueue(s, q) ==
    /\ q \in Seq(Payloads \cup {Started(s)})
    /\ \A i \in 1..Len(q) :
          (i = 1 /\ q[i] = Started(s)) \/ (q[i] \in Payloads /\ q[i].session = s)

LEMMA GoodAppend ==
    ASSUME NEW s \in Process, NEW q, GoodQueue(s, q),
           NEW more \in Seq(Payloads), \A i \in 1..Len(more) : more[i].session = s
    PROVE  GoodQueue(s, q \o more) /\ Len(q \o more) = Len(q) + Len(more)
<1> DEFINE S == Payloads \cup {Started(s)}
<1>1. q \in Seq(S) /\ more \in Seq(S) /\ Len(q) \in Nat /\ Len(more) \in Nat
  BY LenProperties DEF GoodQueue
<1>2. /\ q \o more \in Seq(S) /\ Len(q \o more) = Len(q) + Len(more)
      /\ \A i \in 1..(Len(q) + Len(more)) :
            (q \o more)[i] = IF i <= Len(q) THEN q[i] ELSE more[i - Len(q)]
  BY <1>1, ConcatProperties
<1>3. ASSUME NEW i \in 1..(Len(q) + Len(more))
      PROVE  \/ i = 1 /\ (q \o more)[i] = Started(s)
             \/ (q \o more)[i] \in Payloads /\ (q \o more)[i].session = s
  <2>1. CASE i <= Len(q)
    <3>1. i \in 1..Len(q) /\ (q \o more)[i] = q[i]
      BY <1>1, <1>2, <2>1
    <3>2. QED
      BY <3>1 DEF GoodQueue
  <2>2. CASE ~ (i <= Len(q))
    <3>1. i - Len(q) \in 1..Len(more) /\ (q \o more)[i] = more[i - Len(q)]
      BY <1>1, <1>2, <2>2
    <3>2. more[i - Len(q)] \in Payloads /\ more[i - Len(q)].session = s
      BY <3>1, ElementOfSeq
    <3>3. QED
      BY <3>1, <3>2
  <2>3. QED
    BY <2>1, <2>2
<1>4. QED
  BY <1>2, <1>3 DEF GoodQueue

LEMMA GoodPrefix ==
    ASSUME NEW s, NEW q, GoodQueue(s, q), NEW k \in 0..Len(q)
    PROVE  GoodQueue(s, SubSeq(q, 1, k)) /\ Len(SubSeq(q, 1, k)) = k
<1> DEFINE S == Payloads \cup {Started(s)}
<1>1. q \in Seq(S) /\ Len(q) \in Nat
  BY LenProperties DEF GoodQueue
<1>2. \A i \in 1..k : i \in 1..Len(q) /\ q[i] \in S
  BY <1>1, ElementOfSeq
<1>3. /\ SubSeq(q, 1, k) \in Seq(S)
      /\ Len(SubSeq(q, 1, k)) = IF 1 <= k THEN k - 1 + 1 ELSE 0
      /\ \A i \in 1..(k - 1 + 1) : SubSeq(q, 1, k)[i] = q[1 + i - 1]
  BY <1>1, <1>2, SubSeqProperties
<1>4. Len(SubSeq(q, 1, k)) = k /\ \A i \in 1..k : SubSeq(q, 1, k)[i] = q[i]
  BY <1>1, <1>3
<1>5. QED
  BY <1>2, <1>3, <1>4 DEF GoodQueue

(* Only the announcement can be at the head and not be a payload.          *)
LEMMA GoodTail ==
    ASSUME NEW s, NEW q, GoodQueue(s, q), q # <<>>
    PROVE  /\ GoodQueue(s, Tail(q)) /\ Len(Tail(q)) = Len(q) - 1 /\ Len(q) \in Nat /\ Len(q) >= 1
           /\ \A i \in 1..(Len(q) - 1) : Tail(q)[i] = q[i + 1]
           /\ Tail(q) # <<>> => Tail(q)[1] # Started(s)
           /\ Head(q) = q[1]
           /\ Head(q) = Started(s) \/ (Head(q) \in Payloads /\ Head(q).session = s)
<1> DEFINE S == Payloads \cup {Started(s)}
<1>1. q \in Seq(S) /\ Len(q) \in Nat /\ Len(q) # 0
  BY EmptySeq, LenProperties DEF GoodQueue
<1>2. /\ Head(q) = q[1] /\ Tail(q) \in Seq(S) /\ Len(Tail(q)) = Len(q) - 1
      /\ \A i \in 1..Len(Tail(q)) : Tail(q)[i] = q[i + 1]
  BY <1>1, HeadTailProperties
<1>3. \A i \in 1..(Len(q) - 1) : Tail(q)[i] \in Payloads /\ Tail(q)[i].session = s
  BY <1>1, <1>2 DEF GoodQueue
<1>4. Tail(q) # <<>> => 1 \in 1..(Len(q) - 1)
  BY <1>1, <1>2, EmptySeq
<1>5. Started(s) \notin Payloads
  <2>1. Started(s).topic = "system"
    BY DEF Started
  <2>2. QED
    BY <2>1, PayloadFacts
<1>6. QED
  BY <1>1, <1>2, <1>3, <1>4, <1>5 DEF GoodQueue

(* A process and its queue. *)
SimState ==
    [phase : Phase, status : [SimDevice -> SimStatus], alarmed : SUBSET SimDevice,
     left : SUBSET SimDevice, current : SimDevice \cup {None}, await : 0..MaxOut]

ProcessOK(s, st, q) ==
    /\ st \in SimState /\ GoodQueue(s, q)
    /\ Len(q) <= MaxOut /\ st.await <= Len(q)
    /\ st.phase = "off" => q = <<>>

FleetOK ==
    /\ sim = [s \in Process |-> sim[s]] /\ out = [s \in Process |-> out[s]]
    /\ \A s \in Process : ProcessOK(s, sim[s], out[s])

LEMMA FleetType == FleetOK => SimTypeOK
<1> SUFFICES ASSUME FleetOK PROVE SimTypeOK
  OBVIOUS
<1>1. sim \in [Process -> SimState]
  BY DEF FleetOK, ProcessOK
<1>2. QED
  BY <1>1 DEF SimTypeOK, FleetOK, ProcessOK, SimState

(* One process goes on. *)
GoesOn(s, st, q) == sim' = [sim EXCEPT ![s] = st] /\ out' = [out EXCEPT ![s] = q]

LEMMA FleetGoesOn ==
    ASSUME FleetOK, NEW s \in Process, NEW st, NEW q, GoesOn(s, st, q), ProcessOK(s, st, q)
    PROVE  /\ FleetOK' /\ sim'[s] = st /\ out'[s] = q
           /\ \A t \in Process \ {s} : sim'[t] = sim[t] /\ out'[t] = out[t]
<1>1. /\ sim'[s] = st /\ out'[s] = q
      /\ \A t \in Process \ {s} : sim'[t] = sim[t] /\ out'[t] = out[t]
  BY DEF FleetOK, GoesOn
<1>2. sim' = [t \in Process |-> sim'[t]] /\ out' = [t \in Process |-> out'[t]]
  BY DEF FleetOK, GoesOn
<1>3. \A t \in Process : ProcessOK(t, sim'[t], out'[t])
  BY <1>1 DEF FleetOK
<1>4. QED
  BY <1>1, <1>2, <1>3 DEF FleetOK

(* The last status of device d in the queue q, or the broker's copy r if   *)
(* q has none, is st.                                                      *)
IsStatus(m, d) == m.topic = "status" /\ m.device = d

LatestIs(q, d, st, r) ==
    /\ \A i \in 1..Len(q) :
          IsStatus(q[i], d) /\ (\A j \in (i + 1)..Len(q) : ~IsStatus(q[j], d)) => q[i].status = st
    /\ (\A i \in 1..Len(q) : ~IsStatus(q[i], d)) => r # None /\ r.status = st

LEMMA LatestAppend ==
    ASSUME NEW q, NEW more, NEW d, NEW st, NEW r, Len(q) \in Nat, Len(more) \in Nat,
           Len(q \o more) = Len(q) + Len(more),
           \A i \in 1..Len(q) : (q \o more)[i] = q[i],
           \A i \in 1..Len(more) : (q \o more)[Len(q) + i] = more[i]
    PROVE  /\ (\A i \in 1..Len(more) : ~IsStatus(more[i], d)) /\ LatestIs(q, d, st, r)
                => LatestIs(q \o more, d, st, r)
           /\ (\E k \in 1..Len(more) : IsStatus(more[k], d))
                 /\ (\A i \in 1..Len(more) : IsStatus(more[i], d) => more[i].status = st)
                => LatestIs(q \o more, d, st, r)
<1> DEFINE all2 == q \o more
           n == Len(q)
<1> HIDE DEF all2
<1>0. /\ Len(all2) = n + Len(more)
      /\ \A i \in 1..n : all2[i] = q[i]
      /\ \A i \in 1..Len(more) : all2[n + i] = more[i]
  BY DEF all2
<1>1. \A i \in 1..Len(all2) : i \in 1..n \/ (i - n \in 1..Len(more) /\ i = n + (i - n))
  BY <1>0
<1>2. ASSUME \A i \in 1..Len(more) : ~IsStatus(more[i], d), LatestIs(q, d, st, r)
      PROVE  LatestIs(all2, d, st, r)
  <2>1. ASSUME NEW i \in 1..Len(all2), IsStatus(all2[i], d),
               \A j \in (i + 1)..Len(all2) : ~IsStatus(all2[j], d)
        PROVE  all2[i].status = st
    <3>1. i \in 1..n
      BY <1>0, <1>1, <1>2, <2>1
    <3>2. \A j \in (i + 1)..n : j \in 1..n /\ j \in (i + 1)..Len(all2)
      BY <1>0, <3>1
    <3>3. \A j \in (i + 1)..n : ~IsStatus(q[j], d)
      BY <1>0, <2>1, <3>2
    <3>4. QED
      BY <1>0, <1>2, <2>1, <3>1, <3>3 DEF LatestIs
  <2>2. ASSUME \A i \in 1..Len(all2) : ~IsStatus(all2[i], d)
        PROVE  r # None /\ r.status = st
    <3>1. \A i \in 1..n : i \in 1..Len(all2)
      BY <1>0
    <3>2. \A i \in 1..n : ~IsStatus(q[i], d)
      BY <1>0, <2>2, <3>1
    <3>3. QED
      BY <1>2, <3>2 DEF LatestIs
  <2>3. QED
    BY <2>1, <2>2 DEF LatestIs
<1>3. ASSUME NEW k \in 1..Len(more), IsStatus(more[k], d),
             \A i \in 1..Len(more) : IsStatus(more[i], d) => more[i].status = st
      PROVE  LatestIs(all2, d, st, r)
  <2>1. n + k \in 1..Len(all2) /\ IsStatus(all2[n + k], d)
    BY <1>0, <1>3
  <2>2. ASSUME NEW i \in 1..Len(all2), IsStatus(all2[i], d),
               \A j \in (i + 1)..Len(all2) : ~IsStatus(all2[j], d)
        PROVE  all2[i].status = st
    <3>1. ~ (n + k \in (i + 1)..Len(all2))
      BY <2>1, <2>2
    <3>2. i \notin 1..n
      BY <2>1, <3>1
    <3>3. PICK l \in 1..Len(more) : i = n + l
      BY <1>1, <2>2, <3>2
    <3>4. all2[i] = more[l]
      BY <1>0, <3>3
    <3>5. QED
      BY <1>3, <2>2, <3>4
  <2>3. QED
    BY <2>1, <2>2 DEF LatestIs
<1>4. QED
  BY <1>2, <1>3 DEF all2

(* The broker takes the oldest message and keeps it if it is a status.     *)
LEMMA LatestDelivered ==
    ASSUME NEW s, NEW q, GoodQueue(s, q), q # <<>>,
           NEW d \in SimDevice, NEW st, NEW r, LatestIs(q, d, st, r),
           NEW r2, r2 = IF IsStatus(Head(q), d) THEN Head(q) ELSE r
    PROVE  LatestIs(Tail(q), d, st, r2) /\ LatestIs(q, d, st, r2)
<1>1. /\ Len(Tail(q)) = Len(q) - 1 /\ Len(q) \in Nat /\ Len(q) >= 1
      /\ \A i \in 1..(Len(q) - 1) : Tail(q)[i] = q[i + 1]
      /\ Head(q) = q[1]
      /\ Head(q) = Started(s) \/ (Head(q) \in Payloads /\ Head(q).session = s)
  <2>1. GoodQueue(s, q) /\ q # <<>>
    OBVIOUS
  <2>2. Len(Tail(q)) = Len(q) - 1 /\ Len(q) \in Nat /\ Len(q) >= 1
    BY ONLY <2>1, GoodTail
  <2>3. Head(q) = q[1] /\ (Head(q) = Started(s) \/ (Head(q) \in Payloads /\ Head(q).session = s))
    BY ONLY <2>1, GoodTail
  <2>4. \A i \in 1..(Len(q) - 1) : Tail(q)[i] = q[i + 1]
    BY ONLY <2>1, GoodTail
  <2>5. QED
    BY <2>2, <2>3, <2>4
<1> DEFINE t == Tail(q)
           h == Head(q)
           n == Len(q)
<1> HIDE DEF t, h
<1>2. /\ Len(t) = n - 1 /\ n \in Nat /\ n >= 1 /\ h = q[1]
      /\ \A i \in 1..(n - 1) : t[i] = q[i + 1]
      /\ r2 = IF IsStatus(h, d) THEN h ELSE r
  BY <1>1 DEF t, h
<1>3. IsStatus(h, d) => h # None
  <2>1. h = Started(s) => ~IsStatus(h, d)
    BY DEF Started, IsStatus
  <2>2. h \in Payloads => h # None
    BY PayloadFacts
  <2>3. QED
    BY <1>1, <2>1, <2>2 DEF h
<1>4. LatestIs(t, d, st, r2)
  <2>1. ASSUME NEW i \in 1..Len(t), IsStatus(t[i], d),
               \A j \in (i + 1)..Len(t) : ~IsStatus(t[j], d)
        PROVE  t[i].status = st
    <3>1. i + 1 \in 1..n /\ t[i] = q[i + 1]
      BY <1>2
    <3>2. ASSUME NEW j \in (i + 1 + 1)..n PROVE ~IsStatus(q[j], d)
      <4>1. j - 1 \in (i + 1)..Len(t) /\ j - 1 \in 1..(n - 1) /\ j - 1 + 1 = j
        BY <1>2
      <4>2. t[j - 1] = q[j]
        BY <1>2, <4>1
      <4>3. QED
        BY <2>1, <4>1, <4>2
    <3>3. QED
      BY <2>1, <3>1, <3>2 DEF LatestIs
  <2>2. ASSUME \A i \in 1..Len(t) : ~IsStatus(t[i], d)
        PROVE  r2 # None /\ r2.status = st
    <3>1. ASSUME NEW j \in 2..n PROVE ~IsStatus(q[j], d)
      <4>1. j - 1 \in 1..Len(t) /\ j - 1 \in 1..(n - 1) /\ j - 1 + 1 = j
        BY <1>2
      <4>2. t[j - 1] = q[j]
        BY <1>2, <4>1
      <4>3. QED
        BY <2>2, <4>1, <4>2
    <3>2. 1 \in 1..n /\ \A j \in 1..n : j = 1 \/ j \in 2..n
      BY <1>2
    <3>3. CASE IsStatus(h, d)
      <4>1. \A j \in (1 + 1)..n : ~IsStatus(q[j], d)
        BY <3>1
      <4>2. q[1].status = st
        BY <1>2, <3>2, <3>3, <4>1 DEF LatestIs
      <4>3. QED
        BY <1>2, <1>3, <3>3, <4>2
    <3>4. CASE ~IsStatus(h, d)
      <4>1. \A j \in 1..n : ~IsStatus(q[j], d)
        BY <1>2, <3>1, <3>2, <3>4
      <4>2. QED
        BY <1>2, <3>4, <4>1 DEF LatestIs
    <3>5. QED
      BY <3>3, <3>4
  <2>3. QED
    BY <2>1, <2>2 DEF LatestIs
<1>5. LatestIs(q, d, st, r2)
  <2>1. ASSUME \A i \in 1..n : ~IsStatus(q[i], d)
        PROVE  r2 # None /\ r2.status = st
    <3>1. 1 \in 1..n
      BY <1>2
    <3>2. QED
      BY <1>2, <2>1, <3>1 DEF LatestIs
  <2>2. QED
    BY <2>1 DEF LatestIs
<1>6. QED
  BY <1>4, <1>5 DEF t

-----------------------------------------------------------------------------
(* Has process s published the status of d? Is its announcement yet to     *)
(* reach the broker?                                                       *)
PublishedBy(st, d) == st.phase = "running" \/ (st.phase = "starting" /\ d \notin st.left)
Unannounced(s) == sim[s].phase = "off" \/ (out[s] # <<>> /\ out[s][1] = Started(s))

Lasting(st, q) ==
    \A d \in SimDevice : PublishedBy(st, d) => LatestIs(q, d, st.status[d], retained[d])

(* Process s goes on to state st with queue q.                             *)
SimGood(s, st, q) ==
    /\ GoesOn(s, st, q) /\ ProcessOK(s, st, q) /\ st.phase # "off"
    /\ q # <<>> /\ q[1] = Started(s) => Unannounced(s)
    /\ Lasting(sim[s], out[s]) => Lasting(st, q)

(* What a step publishes must tell of every device whose status it has     *)
(* changed, and of one it counts as published now.                         *)
Tells(s, more, st) ==
    \A d \in SimDevice : PublishedBy(st, d) =>
        \/ /\ PublishedBy(sim[s], d) /\ st.status[d] = sim[s].status[d]
           /\ \A i \in 1..Len(more) : ~IsStatus(more[i], d)
        \/ /\ \E k \in 1..Len(more) : IsStatus(more[k], d)
           /\ \A i \in 1..Len(more) : IsStatus(more[i], d) => more[i].status = st.status[d]

LEMMA PublishGood ==
    ASSUME NEW s \in Process, FleetOK, sim[s].phase # "off",
           NEW more \in Seq(Payloads), \A i \in 1..Len(more) : more[i].session = s,
           Publish(s, more),
           NEW st \in SimState, sim' = [sim EXCEPT ![s] = st], st.phase # "off",
           st.await <= Len(out[s]) + Len(more), Tells(s, more, st)
    PROVE  SimGood(s, st, out[s] \o more)
<1> DEFINE old == out[s]
           new == old \o more
<1>1. ProcessOK(s, sim[s], old)
  BY DEF FleetOK
<1>2. GoodQueue(s, old) /\ old \in Seq(Payloads \cup {Started(s)})
  BY <1>1 DEF ProcessOK, GoodQueue
<1>3. Len(old) \in Nat /\ Len(more) \in Nat
  BY <1>2, LenProperties
<1>4. GoodQueue(s, new) /\ Len(new) = Len(old) + Len(more)
  BY <1>2, GoodAppend
<1>5. /\ \A i \in 1..Len(old) : new[i] = old[i]
      /\ \A i \in 1..Len(more) : new[Len(old) + i] = more[i]
  <2>1. more \in Seq(Payloads \cup {Started(s)})
    BY LenProperties
  <2>2. \A i \in 1..(Len(old) + Len(more)) :
           new[i] = IF i <= Len(old) THEN old[i] ELSE more[i - Len(old)]
    BY <1>2, <2>1, ConcatProperties
  <2>3. \A i \in 1..Len(old) : i \in 1..(Len(old) + Len(more)) /\ i <= Len(old)
    BY <1>3
  <2>4. \A i \in 1..Len(more) :
           /\ Len(old) + i \in 1..(Len(old) + Len(more)) /\ ~ (Len(old) + i <= Len(old))
           /\ Len(old) + i - Len(old) = i
    BY <1>3
  <2>5. QED
    BY <2>2, <2>3, <2>4
<1>6. GoesOn(s, st, new) /\ Len(old) + Len(more) <= MaxOut
  BY DEF GoesOn, Publish
<1>7. ProcessOK(s, st, new)
  BY <1>4, <1>6 DEF ProcessOK
<1>8. new # <<>> /\ new[1] = Started(s) => Unannounced(s)
  <2> SUFFICES ASSUME new # <<>>, new[1] = Started(s) PROVE Unannounced(s)
    OBVIOUS
  <2>1. CASE Len(old) = 0
    <3>1. Len(more) = 0 \/ 1 \in 1..Len(more)
      BY <1>3
    <3>2. Len(more) # 0
      BY <2>1, <1>4, <1>2, EmptySeq DEF GoodQueue
    <3>3. new[1] = more[1] /\ more[1] \in Payloads
      BY <2>1, <3>1, <3>2, <1>5, ElementOfSeq
    <3>4. Started(s).topic = "system"
      BY DEF Started
    <3>5. QED
      BY <3>3, <3>4, PayloadFacts
  <2>2. CASE Len(old) # 0
    <3>1. 1 \in 1..Len(old) /\ old # <<>>
      BY <2>2, <1>2, <1>3, EmptySeq
    <3>2. QED
      BY <3>1, <1>5 DEF Unannounced
  <2>3. QED
    BY <2>1, <2>2
<1>9. ASSUME Lasting(sim[s], old) PROVE Lasting(st, new)
  <2> SUFFICES ASSUME NEW d \in SimDevice, PublishedBy(st, d)
               PROVE  LatestIs(new, d, st.status[d], retained[d])
    BY DEF Lasting
  <2>1. /\ (\A i \in 1..Len(more) : ~IsStatus(more[i], d)) /\ LatestIs(old, d, st.status[d], retained[d])
              => LatestIs(new, d, st.status[d], retained[d])
        /\ (\E k \in 1..Len(more) : IsStatus(more[k], d))
              /\ (\A i \in 1..Len(more) : IsStatus(more[i], d) => more[i].status = st.status[d])
              => LatestIs(new, d, st.status[d], retained[d])
    BY <1>3, <1>4, <1>5, LatestAppend
  <2>2. PublishedBy(sim[s], d) => LatestIs(old, d, sim[s].status[d], retained[d])
    BY <1>9 DEF Lasting
  <2>3. QED
    BY <2>1, <2>2 DEF Tells
<1>10. QED
  BY <1>6, <1>7, <1>8, <1>9 DEF SimGood

LEMMA PublishOneGood ==
    ASSUME NEW s \in Process, FleetOK, sim[s].phase # "off",
           NEW m \in Payloads, m.session = s, Publish(s, <<m>>),
           NEW st \in SimState, sim' = [sim EXCEPT ![s] = st], st.phase # "off",
           st.await <= Len(out[s]) + 1,
           \A d \in SimDevice : PublishedBy(st, d) =>
              IF IsStatus(m, d) THEN m.status = st.status[d]
                ELSE PublishedBy(sim[s], d) /\ st.status[d] = sim[s].status[d]
    PROVE  SimGood(s, st, out[s] \o <<m>>)
<1> DEFINE more == <<m>>
<1>1. more \in Seq(Payloads) /\ Len(more) = 1 /\ more[1] = m /\ \A i \in 1..Len(more) : i = 1
  OBVIOUS
<1> HIDE DEF more
<1>2. 1 \in 1..Len(more)
  BY <1>1
<1>3. Tells(s, more, st)
  BY <1>1, <1>2 DEF Tells
<1>4. Publish(s, more)
  BY DEF more
<1>5. \A i \in 1..Len(more) : more[i].session = s
  BY <1>1
<1>6. st.await <= Len(out[s]) + Len(more)
  BY <1>1
<1>7. SimGood(s, st, out[s] \o more)
  BY <1>1, <1>3, <1>4, <1>5, <1>6, PublishGood
<1>8. QED
  BY <1>7 DEF more

(* A step that publishes nothing, or loses some of what was under way.     *)
LEMMA SilentGood ==
    ASSUME NEW s \in Process, FleetOK, sim[s].phase # "off",
           NEW k \in 0..Len(out[s]), NEW q, q = SubSeq(out[s], 1, k) \/ (k = Len(out[s]) /\ q = out[s]),
           NEW st \in SimState, GoesOn(s, st, q), st.phase # "off", st.await <= k,
           \A d \in SimDevice : PublishedBy(st, d) =>
              q = out[s] /\ PublishedBy(sim[s], d) /\ st.status[d] = sim[s].status[d]
    PROVE  SimGood(s, st, q)
<1> DEFINE old == out[s]
<1>1. ProcessOK(s, sim[s], old)
  BY DEF FleetOK
<1>2. GoodQueue(s, old) /\ old \in Seq(Payloads \cup {Started(s)}) /\ Len(old) <= MaxOut
  BY <1>1 DEF ProcessOK, GoodQueue
<1>3. Len(old) \in Nat
  BY <1>2, LenProperties
<1>4. GoodQueue(s, q) /\ Len(q) = k
  <2>1. GoodQueue(s, SubSeq(old, 1, k)) /\ Len(SubSeq(old, 1, k)) = k
    BY <1>2, GoodPrefix
  <2>2. QED
    BY <1>2, <2>1
<1>5. ProcessOK(s, st, q)
  BY <1>2, <1>3, <1>4, MaxOutAssumption DEF ProcessOK
<1>6. q # <<>> /\ q[1] = Started(s) => Unannounced(s)
  <2> SUFFICES ASSUME q # <<>>, q[1] = Started(s) PROVE Unannounced(s)
    OBVIOUS
  <2>1. k # 0
    BY <1>4, EmptySeq DEF GoodQueue
  <2>2. old # <<>>
    BY <2>1, <1>2, EmptySeq
  <2>3. \A i \in 1..k : i \in 1..Len(old) /\ old[i] \in Payloads \cup {Started(s)}
    BY <1>2, <1>3, ElementOfSeq
  <2>4. q = SubSeq(old, 1, k) => \A i \in 1..(k - 1 + 1) : q[i] = old[1 + i - 1]
    BY <1>2, <1>3, <2>3, SubSeqProperties
  <2>5. 1 \in 1..(k - 1 + 1) /\ 1 + 1 - 1 = 1
    BY <1>3, <2>1
  <2>6. q[1] = old[1]
    BY <2>4, <2>5
  <2>7. QED
    BY <2>2, <2>6 DEF Unannounced
<1>7. Lasting(sim[s], old) => Lasting(st, q)
  BY DEF Lasting
<1>8. QED
  BY <1>5, <1>6, <1>7 DEF SimGood

-----------------------------------------------------------------------------
(* The steps of a process.                                                 *)
LEMMA OwnFacts ==
    ASSUME NEW s \in Process, FleetOK
    PROVE  /\ sim[s] \in SimState /\ Len(out[s]) \in Nat /\ Len(out[s]) <= MaxOut
           /\ sim[s].await <= Len(out[s]) /\ GoodQueue(s, out[s])
           /\ sim[s].phase = "off" => out[s] = <<>>
<1>1. ProcessOK(s, sim[s], out[s])
  BY DEF FleetOK
<1>2. Len(out[s]) \in Nat
  BY <1>1, LenProperties DEF ProcessOK, GoodQueue
<1>3. QED
  BY <1>1, <1>2 DEF ProcessOK

(* What the timers and the start-up publish of d is what the device is.    *)
LEMMA NowFacts ==
    ASSUME NEW s \in Process, NEW d \in SimDevice, FleetOK, NEW topic \in Topic,
           NEW type \in SimEvent \cup {None}
    PROVE  /\ Now(s, d, topic, type) \in Payloads /\ Now(s, d, topic, type).session = s
           /\ Now(s, d, topic, type).device = d /\ Now(s, d, topic, type).topic = topic
           /\ Now(s, d, topic, type).status = sim[s].status[d]
<1> DEFINE status == sim[s].status[d]
           alarm == d \in sim[s].alarmed
<1>1. sim[s] \in SimState
  BY OwnFacts
<1>2. status \in SimStatus /\ alarm \in BOOLEAN
  BY <1>1 DEF SimState
<1>3. Now(s, d, topic, type) = Payload(s, d, topic, status, type, alarm)
  BY DEF Now
<1> HIDE DEF status, alarm
<1>4. LET m == Payload(s, d, topic, status, type, alarm) IN
      m \in Payloads /\ m.session = s /\ m.device = d /\ m.topic = topic /\ m.status = status
  BY <1>2, PayloadType
<1>5. QED
  BY <1>3, <1>4 DEF status

LEMMA StartGood ==
    ASSUME NEW s \in Process, FleetOK, Start(s)
    PROVE  \E st, q : SimGood(s, st, q)
<1> DEFINE st == [[sim[s] EXCEPT !.phase = "starting", !.left = SimDevice,
                         !.alarmed = {d \in SimDevice : Generated[d] \in {"fault", "warning"}}]
                    EXCEPT !.await = Len(out[s]) + 1]
           q == out[s] \o <<Started(s)>>
<1>1. /\ sim[s].phase = "off" /\ Len(out[s]) + Len(<<Started(s)>>) <= MaxOut
      /\ sim' = [sim EXCEPT ![s] = st] /\ out' = [out EXCEPT ![s] = q]
  <2>1. /\ sim[s].phase = "off" /\ Len(out[s]) + Len(<<Started(s)>>) <= MaxOut
        /\ out' = [out EXCEPT ![s] = @ \o <<Started(s)>>] /\ sim' = [sim EXCEPT ![s] = st]
    BY DEF Start, PublishAndAwait, Publish
  <2>2. out' = [out EXCEPT ![s] = q]
    BY <2>1
  <2>3. QED
    BY <2>1, <2>2
<1>2. out[s] = <<>> /\ sim[s] \in SimState
  BY <1>1, OwnFacts
<1>3. q = <<Started(s)>> /\ Len(out[s]) = 0
  BY <1>2
<1>4. 1 <= MaxOut /\ 1 \in 0..MaxOut
  BY <1>1, <1>3, MaxOutAssumption
<1>5. st \in SimState /\ st.phase = "starting" /\ st.left = SimDevice /\ st.await = 1
  <2> DEFINE base == [sim[s] EXCEPT !.phase = "starting", !.left = SimDevice,
                         !.alarmed = {d \in SimDevice : Generated[d] \in {"fault", "warning"}}]
  <2>1. base \in SimState /\ base.phase = "starting" /\ base.left = SimDevice
    BY <1>2 DEF SimState, Phase
  <2> HIDE DEF base
  <2>2. [base EXCEPT !.await = 1] \in SimState
    BY <1>4, <2>1 DEF SimState
  <2>3. st = [base EXCEPT !.await = 1]
    BY <1>3 DEF base
  <2>4. QED
    BY <2>1, <2>2, <2>3 DEF SimState
<1>6. GoodQueue(s, <<Started(s)>>)
  BY DEF GoodQueue
<1>7. \A d \in SimDevice : ~PublishedBy(st, d)
  <2> HIDE DEF st
  <2>1. QED
    BY <1>5 DEF PublishedBy
<1>8. SimGood(s, st, q)
  <2> HIDE DEF st, q
  <2>1. ProcessOK(s, st, q)
    BY <1>3, <1>4, <1>5, <1>6 DEF ProcessOK
  <2>2. GoesOn(s, st, q)
    BY <1>1 DEF GoesOn
  <2>3. QED
    BY <1>1, <1>5, <1>7, <2>1, <2>2 DEF SimGood, Unannounced, Lasting
<1>9. QED
  BY <1>8

LEMMA InitialStatusGood ==
    ASSUME NEW s \in Process, NEW d \in SimDevice, FleetOK, PublishInitialStatus(s, d)
    PROVE  \E st, q : SimGood(s, st, q)
<1> DEFINE m == Now(s, d, "status", None)
           st == [[sim[s] EXCEPT !.left = @ \ {d}] EXCEPT !.await = Len(out[s]) + 1]
<1>1. /\ sim[s].phase = "starting" /\ Publish(s, <<m>>) /\ sim' = [sim EXCEPT ![s] = st]
      /\ Len(out[s]) + Len(<<m>>) <= MaxOut
  BY DEF PublishInitialStatus, PublishAndAwait, Publish
<1>2. sim[s] \in SimState /\ Len(out[s]) \in Nat
  BY OwnFacts
<1>3. Len(out[s]) + 1 \in 0..MaxOut
  BY <1>1, <1>2, MaxOutAssumption
<1>4. /\ m \in Payloads /\ m.session = s /\ m.topic = "status" /\ m.device = d
      /\ m.status = sim[s].status[d]
  <2>1. "status" \in Topic
    BY DEF Topic
  <2>2. QED
    BY <2>1, NowFacts
<1>5. /\ st \in SimState /\ st.phase = "starting" /\ st.left = sim[s].left \ {d}
      /\ st.status = sim[s].status /\ st.await = Len(out[s]) + 1
  BY <1>1, <1>2, <1>3 DEF SimState
<1> HIDE DEF st, m
<1>6. \A e \in SimDevice : PublishedBy(st, e) =>
         IF IsStatus(m, e) THEN m.status = st.status[e]
           ELSE PublishedBy(sim[s], e) /\ st.status[e] = sim[s].status[e]
  BY <1>1, <1>4, <1>5 DEF PublishedBy, IsStatus
<1>7. SimGood(s, st, out[s] \o <<m>>)
  <2>1. sim[s].phase # "off" /\ st.phase # "off" /\ st.await <= Len(out[s]) + 1
    BY <1>1, <1>2, <1>5
  <2>2. QED
    BY <1>1, <1>4, <1>5, <1>6, <2>1, PublishOneGood
<1>8. QED
  BY <1>7

LEMMA StartTimersGood ==
    ASSUME NEW s \in Process, FleetOK, StartTimers(s)
    PROVE  \E st, q : SimGood(s, st, q)
<1> DEFINE st == [sim[s] EXCEPT !.phase = "running"]
<1>1. /\ sim[s].phase = "starting" /\ sim[s].left = {} /\ sim' = [sim EXCEPT ![s] = st]
      /\ out' = out /\ sim[s].await = 0
  BY DEF StartTimers
<1>2. sim[s] \in SimState /\ Len(out[s]) \in Nat
  BY OwnFacts
<1>3. /\ st \in SimState /\ st.phase = "running" /\ st.status = sim[s].status
      /\ st.await = sim[s].await
  BY <1>2 DEF SimState, Phase
<1>4. GoesOn(s, st, out[s])
  <2>1. out' = [out EXCEPT ![s] = out[s]]
    BY <1>1 DEF FleetOK
  <2>2. QED
    BY <1>1, <2>1 DEF GoesOn
<1> HIDE DEF st
<1>5. \A d \in SimDevice : PublishedBy(sim[s], d)
  BY <1>1 DEF PublishedBy
<1>6. SimGood(s, st, out[s])
  <2>1. Len(out[s]) \in 0..Len(out[s])
    BY <1>2
  <2>2. st.await <= Len(out[s])
    BY <1>1, <1>2, <1>3
  <2>3. sim[s].phase # "off" /\ st.phase # "off"
    BY <1>1, <1>3
  <2>4. \A d \in SimDevice : PublishedBy(st, d) =>
              out[s] = out[s] /\ PublishedBy(sim[s], d) /\ st.status[d] = sim[s].status[d]
    BY <1>3, <1>5
  <2>5. QED
    BY <1>3, <1>4, <2>1, <2>2, <2>3, <2>4, SilentGood
<1>7. QED
  BY <1>6

LEMMA TransitionGood ==
    ASSUME NEW s \in Process, NEW d \in SimDevice, NEW next \in SimStatus, FleetOK,
           TransitionTick(s, d, next)
    PROVE  \E st, q : SimGood(s, st, q)
<1> DEFINE alarm == next \in {"fault", "warning"}
           msg(topic) == Payload(s, d, topic, next, None, alarm)
           more == <<msg("events"), msg("status"), msg("telemetry")>>
<1>1. /\ Armed(s) /\ Publish(s, more)
      /\ sim' = [sim EXCEPT ![s].status[d] = next,
                            ![s].alarmed = IF alarm THEN @ \cup {d} ELSE @ \ {d}]
  BY DEF TransitionTick
<1>2. sim[s] \in SimState /\ Len(out[s]) \in Nat /\ sim[s].await <= Len(out[s])
  BY OwnFacts
<1>3. PICK alarmed \in SUBSET SimDevice :
         alarmed = IF alarm THEN sim[s].alarmed \cup {d} ELSE sim[s].alarmed \ {d}
  BY <1>2 DEF SimState
<1> DEFINE st == [sim[s] EXCEPT !.status = [sim[s].status EXCEPT ![d] = next], !.alarmed = alarmed]
<1>4. sim' = [sim EXCEPT ![s] = st]
  BY <1>1, <1>2, <1>3 DEF FleetOK, SimState
<1>5. /\ st \in SimState /\ st.phase = sim[s].phase /\ st.left = sim[s].left
      /\ st.await = sim[s].await /\ st.status = [sim[s].status EXCEPT ![d] = next]
      /\ \A e \in SimDevice : st.status[e] = IF e = d THEN next ELSE sim[s].status[e]
  BY <1>2, <1>3 DEF SimState
<1>6. \A topic \in Topic :
         /\ msg(topic) \in Payloads /\ msg(topic).session = s /\ msg(topic).device = d
         /\ msg(topic).topic = topic /\ msg(topic).status = next
  <2>1. alarm \in BOOLEAN
    OBVIOUS
  <2> HIDE DEF alarm
  <2>2. QED
    BY <2>1, PayloadType
<1>7. {"events", "status", "telemetry"} \subseteq Topic
  BY DEF Topic
<1>8. /\ more \in Seq(Payloads) /\ Len(more) = 3
      /\ more[1] = msg("events") /\ more[2] = msg("status") /\ more[3] = msg("telemetry")
  <2>1. msg("events") \in Payloads /\ msg("status") \in Payloads /\ msg("telemetry") \in Payloads
    BY <1>6, <1>7
  <2> HIDE DEF msg
  <2>2. QED
    BY <2>1
<1> HIDE DEF st, more, msg
<1>9. \A i \in 1..Len(more) : /\ more[i].session = s /\ more[i].device = d /\ more[i].status = next
                              /\ IsStatus(more[i], d) => i = 2
  <2>1. \A i \in 1..3 : i = 1 \/ i = 2 \/ i = 3
    OBVIOUS
  <2>2. QED
    BY <1>6, <1>7, <1>8, <2>1 DEF IsStatus
<1>10. 2 \in 1..Len(more) /\ IsStatus(more[2], d)
  BY <1>6, <1>7, <1>8 DEF IsStatus
<1>11. Tells(s, more, st)
  <2> SUFFICES ASSUME NEW e \in SimDevice, PublishedBy(st, e)
               PROVE \/ /\ PublishedBy(sim[s], e) /\ st.status[e] = sim[s].status[e]
                        /\ \A i \in 1..Len(more) : ~IsStatus(more[i], e)
                     \/ /\ \E k \in 1..Len(more) : IsStatus(more[k], e)
                        /\ \A i \in 1..Len(more) : IsStatus(more[i], e) => more[i].status = st.status[e]
    BY DEF Tells
  <2>1. CASE e = d
    BY <1>5, <1>9, <1>10, <2>1
  <2>2. CASE e # d
    <3>1. \A i \in 1..Len(more) : ~IsStatus(more[i], e)
      BY <1>9, <2>2 DEF IsStatus
    <3>2. QED
      BY <1>5, <2>2, <3>1 DEF PublishedBy
  <2>3. QED
    BY <2>1, <2>2
<1>12. sim[s].phase # "off" /\ st.phase # "off"
  BY <1>1, <1>5 DEF Armed
<1>13. st.await <= Len(out[s]) + Len(more)
  <2>1. sim[s].await \in 0..MaxOut
    BY <1>2 DEF SimState
  <2>2. sim[s].await \in Nat
    BY <2>1, MaxOutAssumption
  <2>3. QED
    BY <1>2, <1>5, <1>8, <2>2
<1>14. SimGood(s, st, out[s] \o more)
  BY <1>1, <1>4, <1>5, <1>8, <1>9, <1>11, <1>12, <1>13, PublishGood
<1>15. QED
  BY <1>14

(* A message on a topic that tells of no status.                           *)
LEMMA MentionGood ==
    ASSUME NEW s \in Process, FleetOK, NEW m \in Payloads, m.session = s, m.topic # "status",
           sim[s].phase # "off", Publish(s, <<m>>),
           NEW st \in SimState, sim' = [sim EXCEPT ![s] = st], st.phase # "off",
           st.await <= Len(out[s]) + 1,
           \A d \in SimDevice : PublishedBy(st, d) =>
              PublishedBy(sim[s], d) /\ st.status[d] = sim[s].status[d]
    PROVE  \E st2, q : SimGood(s, st2, q)
<1>1. \A d \in SimDevice : ~IsStatus(m, d)
  BY DEF IsStatus
<1>2. SimGood(s, st, out[s] \o <<m>>)
  BY <1>1, PublishOneGood
<1>3. QED
  BY <1>2

LEMMA TickGood ==
    ASSUME NEW s \in Process, NEW d \in SimDevice, FleetOK,
           TelemetryTick(s, d) \/ \E type \in SimEvent : EventTick(s, d, type)
    PROVE  \E st, q : SimGood(s, st, q)
<1>1. sim[s] \in SimState /\ Len(out[s]) \in Nat /\ sim[s].await <= Len(out[s])
  BY OwnFacts
<1>2. sim[s].await <= Len(out[s]) + 1
  <2>1. sim[s].await \in 0..MaxOut
    BY <1>1 DEF SimState
  <2>2. QED
    BY <1>1, <2>1, MaxOutAssumption
<1>3. /\ Armed(s) /\ sim' = sim
      /\ \E topic \in {"telemetry", "events"} : \E type \in SimEvent \cup {None} :
            Publish(s, <<Now(s, d, topic, type)>>)
  BY DEF TelemetryTick, EventTick
<1>4. PICK topic \in {"telemetry", "events"}, type \in SimEvent \cup {None} :
         Publish(s, <<Now(s, d, topic, type)>>)
  BY <1>3
<1> DEFINE m == Now(s, d, topic, type)
<1>5. topic \in Topic /\ topic # "status"
  BY DEF Topic
<1>6. m \in Payloads /\ m.session = s /\ m.topic # "status"
  BY <1>5, NowFacts
<1>7. sim' = [sim EXCEPT ![s] = sim[s]] /\ sim[s].phase # "off"
  BY <1>3 DEF FleetOK, Armed
<1>8. Publish(s, <<m>>)
  BY <1>4
<1> HIDE DEF m
<1>9. QED
  BY <1>1, <1>2, <1>6, <1>7, <1>8, MentionGood

LEMMA ShutdownGood ==
    ASSUME NEW s \in Process, FleetOK, Shutdown(s)
    PROVE  \E st, q : SimGood(s, st, q)
<1> DEFINE st == [sim[s] EXCEPT !.phase = "stopping", !.left = SimDevice]
<1>1. sim[s].phase = "running" /\ out' = out
  BY DEF Shutdown
<1>2. sim[s] \in SimState /\ Len(out[s]) \in Nat /\ sim[s].await <= Len(out[s])
  BY OwnFacts
<1>3. st \in SimState /\ st.phase = "stopping" /\ st.await = sim[s].await
  BY <1>2 DEF SimState, Phase
<1>4. GoesOn(s, st, out[s])
  <2>1. sim' = [sim EXCEPT ![s].phase = "stopping", ![s].left = SimDevice]
    BY DEF Shutdown
  <2>2. sim' = [sim EXCEPT ![s] = st]
    BY <1>2, <2>1 DEF SimState, FleetOK
  <2>3. out' = [out EXCEPT ![s] = out[s]]
    BY <1>1 DEF FleetOK
  <2>4. QED
    BY <2>2, <2>3 DEF GoesOn
<1> HIDE DEF st
<1>5. SimGood(s, st, out[s])
  <2>1. Len(out[s]) \in 0..Len(out[s])
    BY <1>2
  <2>2. sim[s].phase # "off" /\ st.phase # "off" /\ st.await <= Len(out[s])
    BY <1>1, <1>2, <1>3
  <2>3. \A d \in SimDevice : ~PublishedBy(st, d)
    BY <1>3 DEF PublishedBy
  <2>4. QED
    BY <1>3, <1>4, <2>1, <2>2, <2>3, SilentGood
<1>6. QED
  BY <1>5

(* The shutdown counts no device as published: its last statuses may be    *)
(* overtaken by what the timers publish.                                   *)
LEMMA ShutdownEventGood ==
    ASSUME NEW s \in Process, NEW d \in SimDevice, FleetOK, ShutdownEvent(s, d)
    PROVE  \E st, q : SimGood(s, st, q)
<1> DEFINE alarm == d \in sim[s].alarmed
           m == Payload(s, d, "events", "offline", None, alarm)
           st == [[sim[s] EXCEPT !.status[d] = "offline", !.current = d] EXCEPT !.await = Len(out[s]) + 1]
<1>1. /\ sim[s].phase = "stopping" /\ Publish(s, <<m>>) /\ sim' = [sim EXCEPT ![s] = st]
      /\ Len(out[s]) + Len(<<m>>) <= MaxOut
  BY DEF ShutdownEvent, PublishAndAwait, Publish
<1>2. sim[s] \in SimState /\ Len(out[s]) \in Nat
  BY OwnFacts
<1>3. Len(out[s]) + 1 \in 0..MaxOut
  BY <1>1, <1>2, MaxOutAssumption
<1>4. m \in Payloads /\ m.session = s /\ m.topic = "events"
  <2>1. "events" \in Topic /\ "offline" \in SimStatus /\ alarm \in BOOLEAN
    BY SimStatusAssumption DEF Topic
  <2> HIDE DEF alarm
  <2>2. QED
    BY <2>1, PayloadType
<1>5. st \in SimState /\ st.phase = "stopping" /\ st.await = Len(out[s]) + 1
  BY <1>1, <1>2, <1>3, SimStatusAssumption DEF SimState
<1> HIDE DEF st, m
<1>6. \A e \in SimDevice : ~PublishedBy(st, e)
  BY <1>5 DEF PublishedBy
<1>7. m.topic # "status" /\ sim[s].phase # "off" /\ st.phase # "off" /\ st.await <= Len(out[s]) + 1
  BY <1>1, <1>2, <1>4, <1>5
<1>8. QED
  BY <1>1, <1>4, <1>5, <1>6, <1>7, MentionGood

LEMMA ShutdownStatusGood ==
    ASSUME NEW s \in Process, FleetOK, ShutdownStatus(s)
    PROVE  \E st, q : SimGood(s, st, q)
<1> DEFINE d == sim[s].current
           m == Now(s, d, "status", None)
           st == [[sim[s] EXCEPT !.left = @ \ {d}, !.current = None] EXCEPT !.await = Len(out[s]) + 1]
<1>1. /\ sim[s].phase = "stopping" /\ Publish(s, <<m>>) /\ sim' = [sim EXCEPT ![s] = st]
      /\ Len(out[s]) + Len(<<m>>) <= MaxOut /\ d # None
  BY DEF ShutdownStatus, PublishAndAwait, Publish
<1>2. sim[s] \in SimState /\ Len(out[s]) \in Nat
  BY OwnFacts
<1>3. Len(out[s]) + 1 \in 0..MaxOut /\ d \in SimDevice
  BY <1>1, <1>2, MaxOutAssumption DEF SimState
<1>4. m \in Payloads /\ m.session = s
  <2>1. "status" \in Topic
    BY DEF Topic
  <2> HIDE DEF d
  <2>2. QED
    BY <1>3, <2>1, NowFacts
<1>5. st \in SimState /\ st.phase = "stopping" /\ st.await = Len(out[s]) + 1
  BY <1>1, <1>2, <1>3 DEF SimState
<1> HIDE DEF st, m, d
<1>6. \A e \in SimDevice : ~PublishedBy(st, e)
  BY <1>5 DEF PublishedBy
<1>7. sim[s].phase # "off" /\ st.phase # "off" /\ st.await <= Len(out[s]) + 1
  BY <1>1, <1>2, <1>5
<1>8. SimGood(s, st, out[s] \o <<m>>)
  BY <1>1, <1>4, <1>5, <1>6, <1>7, PublishOneGood
<1>9. QED
  BY <1>8

LEMMA StopGood ==
    ASSUME NEW s \in Process, FleetOK, Exit(s) \/ Crash(s)
    PROVE  \E st, q : SimGood(s, st, q)
<1>1. PICK phase \in {"stopped", "crashed"} : Stop(s, phase) /\ sim[s].phase # "off"
  BY DEF Exit, Crash
<1> DEFINE st == [sim[s] EXCEPT !.phase = phase, !.await = 0]
<1>2. sim[s] \in SimState /\ Len(out[s]) \in Nat
  BY OwnFacts
<1>3. PICK k \in 0..Len(out[s]) : out' = [out EXCEPT ![s] = SubSeq(@, 1, k)]
  BY <1>1 DEF Stop
<1>4. st \in SimState /\ st.phase = phase /\ st.await = 0
  <2>1. phase \in Phase /\ 0 \in 0..MaxOut
    BY MaxOutAssumption DEF Phase
  <2>2. QED
    BY <1>2, <2>1 DEF SimState
<1>5. GoesOn(s, st, SubSeq(out[s], 1, k))
  <2>1. sim' = [sim EXCEPT ![s].phase = phase, ![s].await = 0]
    BY <1>1 DEF Stop
  <2>2. sim' = [sim EXCEPT ![s] = st]
    BY <1>2, <2>1 DEF SimState, FleetOK
  <2>3. QED
    BY <1>3, <2>2 DEF GoesOn
<1> HIDE DEF st
<1>6. st.phase # "off" /\ st.await <= k /\ \A d \in SimDevice : ~PublishedBy(st, d)
  BY <1>2, <1>4 DEF PublishedBy
<1>7. SimGood(s, st, SubSeq(out[s], 1, k))
  BY <1>1, <1>4, <1>5, <1>6, SilentGood
<1>8. QED
  BY <1>7

LEMMA SimStepGood ==
    ASSUME NEW s \in Process, FleetOK, SimStep(s)
    PROVE  \E st, q : SimGood(s, st, q)
<1>1. CASE \E d \in SimDevice : TelemetryTick(s, d) \/ \E type \in SimEvent : EventTick(s, d, type)
  BY <1>1, TickGood
<1>2. CASE \E d \in SimDevice : \E next \in SimStatus : TransitionTick(s, d, next)
  BY <1>2, TransitionGood
<1>3. CASE \E d \in SimDevice : PublishInitialStatus(s, d) \/ ShutdownEvent(s, d)
  BY <1>3, InitialStatusGood, ShutdownEventGood
<1>4. CASE Start(s) \/ StartTimers(s) \/ Shutdown(s) \/ ShutdownStatus(s) \/ Exit(s) \/ Crash(s)
  BY <1>4, StartGood, StartTimersGood, ShutdownGood, ShutdownStatusGood, StopGood
<1>5. QED
  BY <1>1, <1>2, <1>3, <1>4 DEF SimStep

-----------------------------------------------------------------------------
(* What a message does to the bridge and to the dashboard.                 *)
LEMMA MessageEmits ==
    ASSUME NEW m \in Message, OnMessage(m)
    PROVE  Emit(sent') /\ session' = session /\ \A e \in sent' : e.event # "simulator:reset"
<1>1. ASSUME NEW E, Emit(E) PROVE Emit(sent')
  BY <1>1 DEF Emit
<1>2. \A name : \A entry : Event(name, m, entry).event = name
  BY DEF Event
<1>3. \A entry : AlertCreated(m, entry).event = "alert:created"
  BY DEF AlertCreated
<1>4. \A entry : \A from : \A to : StatusEvent(m, entry, from, to).event = "device:status"
  BY DEF StatusEvent
<1>5. CASE Drop(m)
  <2>1. Emit({}) /\ session' = session
    BY <1>5 DEF Drop
  <2>2. QED
    BY <2>1, <1>1 DEF Emit
<1>6. CASE Telemetry(m)
  <2>1. Emit({Event("device:telemetry", m, Updated(m, m.status))}) /\ session' = session
    BY <1>6 DEF Telemetry
  <2>2. sent' = {Event("device:telemetry", m, Updated(m, m.status))}
    BY <2>1 DEF Emit
  <2>3. QED
    BY <2>1, <2>2, <1>1, <1>2
<1>7. CASE UntitledEvent(m)
  <2>1. Emit({}) /\ session' = session
    BY <1>7 DEF UntitledEvent
  <2>2. QED
    BY <2>1, <1>1 DEF Emit
<1>8. CASE EventMessage(m)
  <2> DEFINE entry == Updated(m, m.status)
             alerts == m.type # None /\ CooledDown(m.device, m.type)
             E == {Event("event:new", m, entry)}
                    \cup (IF alerts THEN {AlertCreated(m, entry)} ELSE {})
                    \cup (IF m.alarm THEN {Event("device:diagnostic", m, entry)} ELSE {})
  <2>1. Emit(E) /\ session' = session
    BY <1>8 DEF EventMessage
  <2>2. sent' = E
    BY <2>1 DEF Emit
  <2>3. \A e \in E : e.event # "simulator:reset"
    <3> HIDE DEF entry, alerts
    <3>1. QED
      BY <1>2, <1>3
  <2>4. QED
    BY <2>1, <2>2, <2>3, <1>1
<1>9. CASE StatusMessage(m)
  <2> DEFINE from == EffectivePrevious(m)
             to == Or(m.status, "online")
             entry == Updated(m, to)
             E == {StatusEvent(m, entry, from, to)}
                    \cup (IF m.named THEN {Event("event:new", m, entry)} ELSE {})
  <2>1. session' = session /\ (Emit({}) \/ Emit(E))
    BY <1>9 DEF StatusMessage
  <2>2. sent' = {} \/ sent' = E
    BY <2>1 DEF Emit
  <2>3. \A e \in E : e.event # "simulator:reset"
    <3> HIDE DEF entry, from, to
    <3>1. QED
      BY <1>2, <1>4
  <2>4. QED
    BY <2>1, <2>2, <2>3, <1>1
<1>10. QED
  BY <1>5, <1>6, <1>7, <1>8, <1>9 DEF OnMessage

(* Of a device without a previousStatus of its own the bridge shows what   *)
(* its last accepted status message said.                                  *)
LEMMA MessageShows ==
    ASSUME NEW m \in Message, IInv, OnMessage(m), m.previous = None, m.status # None
    PROVE  /\ \A d \in Device :
                 shown'[d] = shown[d] \/ (IsStatus(m, d) /\ shown'[d] = m.status)
           /\ m.topic = "status" /\ ~shouldDropStaleMessage(m.session) /\ shown'[m.device] # None
                 => shown'[m.device] = m.status
<1>1. IInv'
  <2>1. Next
    BY DEF Next
  <2>2. QED
    BY <2>1, NextIInv
<1>2. /\ shown = previousStatuses /\ shown' = previousStatuses'
      /\ previousStatuses \in [Device -> Status \cup {None}]
  BY <1>1 DEF IInv, RecordIsHistory, TypeOK
<1>3. m.device \in Device
  BY MessageAssumption
<1>4. CASE Drop(m)
  BY <1>2, <1>4 DEF Drop
<1>5. CASE Telemetry(m)
  BY <1>2, <1>5 DEF Telemetry
<1>6. CASE EventMessage(m)
  BY <1>2, <1>6 DEF EventMessage
<1>7. CASE UntitledEvent(m)
  BY <1>2, <1>7 DEF UntitledEvent
<1>8. CASE StatusMessage(m)
  <2>1. m.topic = "status" /\ Or(m.status, "online") = m.status
    BY <1>8 DEF StatusMessage, Or
  <2>2. CASE EffectivePrevious(m) = m.status
    <3>1. previousStatuses' = previousStatuses
      BY <1>8, <2>1, <2>2 DEF StatusMessage
    <3>2. previousStatuses[m.device] # None => previousStatuses[m.device] = m.status
      BY <2>2 DEF EffectivePrevious, Or
    <3>3. QED
      BY <1>2, <3>1, <3>2
  <2>3. CASE EffectivePrevious(m) # m.status
    <3>1. previousStatuses' = [previousStatuses EXCEPT ![m.device] = m.status]
      BY <1>8, <2>1, <2>3 DEF StatusMessage
    <3>2. QED
      BY <1>2, <1>3, <2>1, <3>1 DEF IsStatus
  <2>4. QED
    BY <2>2, <2>3
<1>9. QED
  BY <1>4, <1>5, <1>6, <1>7, <1>8 DEF OnMessage

DashboardType == dashboard \in [SimDevice -> SimStatus \cup {None, "online"}]
ShownSim == \A d \in SimDevice : shown[d] \in SimStatus \cup {None}

(* The dashboard follows each device:status event.                         *)
LEMMA DisplayFollows ==
    ASSUME Emit(sent'), Display, \A e \in sent' : e.event # "simulator:reset", TypeOK,
           NEW d \in SimDevice
    PROVE  \/ dashboard'[d] = shown'[d]
           \/ /\ shown'[d] = shown[d]
              /\ dashboard'[d] = dashboard[d] \/ (dashboard[d] = None /\ dashboard'[d] = "online")
<1>1. d \in Device
  BY FleetAssumption
<1>2. dashboard'[d] = Displayed(d, sent')
  BY DEF Display
<1> DEFINE told == \E e \in sent' : e.event = "device:status" /\ e.device = d
           status == (CHOOSE e \in sent' : e.event = "device:status").status
<1>3. shown'[d] = IF told THEN status ELSE shown[d]
  BY <1>1 DEF Emit
<1>4. told => dashboard'[d] = status
  BY <1>2 DEF Displayed
<1>5. ~told => dashboard'[d] = dashboard[d] \/ (dashboard[d] = None /\ dashboard'[d] = "online")
  BY <1>2 DEF Displayed
<1> HIDE DEF told, status
<1>6. QED
  BY <1>3, <1>4, <1>5

LEMMA PayloadHandled ==
    ASSUME IInv, DashboardType, ShownSim, NEW m \in Payloads, Handle(m)
    PROVE  /\ [Next]_vars /\ session' = session /\ DashboardType' /\ ShownSim'
           /\ \A d \in SimDevice :
                 /\ (shown[d] # None => dashboard[d] = shown[d])
                      => (shown'[d] # None => dashboard'[d] = shown'[d])
                 /\ shown'[d] = shown[d] \/ (IsStatus(m, d) /\ shown'[d] = m.status)
                 /\ connected /\ session \in {None, m.session} /\ IsStatus(m, d) /\ shown'[d] # None
                      => shown'[d] = m.status
<1>1. /\ m \in Message /\ m.device \in SimDevice /\ m.status \in SimStatus /\ m.previous = None
      /\ m.topic # "system"
  BY PayloadFacts
<1>2. m.status # None
  BY <1>1, NoneAssumption, SimStatusAssumption
<1>3. CASE ~connected
  <2>1. UNCHANGED <<vars, dashboard>>
    BY <1>3 DEF Handle
  <2>2. session' = session /\ shown' = shown /\ dashboard' = dashboard
    BY <2>1 DEF vars
  <2>3. DashboardType' /\ ShownSim'
    BY <2>2 DEF DashboardType, ShownSim
  <2>4. QED
    BY <1>3, <2>1, <2>2, <2>3
<1>4. CASE connected
  <2>1. OnMessage(m) /\ Display
    BY <1>1, <1>4 DEF Handle
  <2>2. Next
    BY <1>1, <2>1 DEF Next
  <2>3. Emit(sent') /\ session' = session /\ \A e \in sent' : e.event # "simulator:reset"
    BY <1>1, <2>1, MessageEmits
  <2>4. /\ \A d \in Device :
              shown'[d] = shown[d] \/ (IsStatus(m, d) /\ shown'[d] = m.status)
        /\ m.topic = "status" /\ ~shouldDropStaleMessage(m.session) /\ shown'[m.device] # None
              => shown'[m.device] = m.status
    BY <1>1, <1>2, <2>1, MessageShows
  <2>5. SimDevice \subseteq Device /\ TypeOK
    BY FleetAssumption DEF IInv
  <2>6. ShownSim'
    BY <1>1, <2>4, <2>5 DEF ShownSim
  <2>7. \A d \in SimDevice :
           \/ dashboard'[d] = shown'[d]
           \/ /\ shown'[d] = shown[d]
              /\ dashboard'[d] = dashboard[d] \/ (dashboard[d] = None /\ dashboard'[d] = "online")
    BY <2>1, <2>3, <2>5, DisplayFollows
  <2>8. DashboardType'
    <3>1. dashboard' = [d \in SimDevice |-> Displayed(d, sent')]
      BY <2>1, <2>3 DEF Display
    <3>2. \A d \in SimDevice : dashboard'[d] \in SimStatus \cup {None, "online"}
      BY <2>6, <2>7 DEF DashboardType, ShownSim
    <3> DEFINE f == [d \in SimDevice |-> Displayed(d, sent')]
    <3>3. f = [d \in SimDevice |-> f[d]]
      OBVIOUS
    <3> HIDE DEF f
    <3>4. dashboard' = f
      BY <3>1 DEF f
    <3>5. QED
      BY <3>2, <3>3, <3>4 DEF DashboardType
  <2>9. ~shouldDropStaleMessage(m.session) \/ session \notin {None, m.session}
    BY DEF shouldDropStaleMessage
  <2>10. ASSUME NEW d \in SimDevice
         PROVE  /\ (shown[d] # None => dashboard[d] = shown[d])
                     => (shown'[d] # None => dashboard'[d] = shown'[d])
                /\ shown'[d] = shown[d] \/ (IsStatus(m, d) /\ shown'[d] = m.status)
                /\ connected /\ session \in {None, m.session} /\ IsStatus(m, d) /\ shown'[d] # None
                     => shown'[d] = m.status
    <3>1. (shown[d] # None => dashboard[d] = shown[d]) => (shown'[d] # None => dashboard'[d] = shown'[d])
      BY <2>7
    <3>2. shown'[d] = shown[d] \/ (IsStatus(m, d) /\ shown'[d] = m.status)
      BY <2>4, <2>5
    <3>3. session \in {None, m.session} /\ IsStatus(m, d) /\ shown'[d] # None => shown'[d] = m.status
      BY <2>4, <2>9 DEF IsStatus
    <3>4. QED
      BY <3>1, <3>2, <3>3
  <2>11. QED
    BY <2>2, <2>3, <2>6, <2>8, <2>10
<1>5. QED
  BY <1>3, <1>4

LEMMA StartHandled ==
    ASSUME NEW s \in Process, DashboardType, Handle(Started(s))
    PROVE  /\ [Next]_vars /\ session' \in {session, s} /\ shown' = shown
           /\ DashboardType'
<1>1. Started(s).topic = "system" /\ Started(s).session = s /\ s \in Session
  BY FleetAssumption DEF Started
<1>2. CASE ~connected
  <2>1. UNCHANGED <<vars, dashboard>>
    BY <1>2 DEF Handle
  <2>2. QED
    BY <2>1 DEF vars, DashboardType
<1>3. CASE connected
  <2>1. SimulatorStarted(s) /\ Display
    BY <1>1, <1>3 DEF Handle
  <2>2. Next
    BY <1>1, <2>1 DEF Next
  <2>3. \E e \in sent' : e.event = "simulator:reset"
    BY <2>1 DEF SimulatorStarted
  <2>4. dashboard' = [d \in SimDevice |-> None]
    BY <2>1, <2>3 DEF Display
  <2>5. QED
    BY <2>1, <2>2, <2>4 DEF SimulatorStarted, DashboardType
<1>4. QED
  BY <1>2, <1>3

-----------------------------------------------------------------------------
(* The broker's copies are statuses of their devices, and only they wait   *)
(* in the inbox.                                                           *)
BrokerOK ==
    /\ retained \in [SimDevice -> Payloads \cup {None}]
    /\ inbox \subseteq {d \in SimDevice : retained[d] # None}
    /\ \A d \in SimDevice : retained[d] # None => IsStatus(retained[d], d)

(* No process but s has been started. *)
Alone(s) == \A t \in Process \ {s} : sim[t].phase = "off"

(* As long as s is the only process there has been, all the bridge and the *)
(* broker know is its work: what is shown of a device was announced, is    *)
(* the broker's copy unless that waits in the inbox, and the last status   *)
(* published is the device's.                                              *)
LoneDevice(s, d) ==
    /\ retained[d] # None => retained[d].session = s
    /\ Unannounced(s) => shown[d] = None /\ retained[d] = None
    /\ shown[d] # None => dashboard[d] = shown[d] /\ retained[d] # None
    /\ shown[d] # None /\ connected /\ d \notin inbox => shown[d] = retained[d].status

LoneOK(s) ==
    /\ session \in {None, s}
    /\ \A d \in SimDevice : LoneDevice(s, d)
    /\ Lasting(sim[s], out[s])

PipelineIInv ==
    /\ IInv /\ FleetOK /\ BrokerOK /\ DashboardType /\ ShownSim
    /\ \A s \in Process : Alone(s) => LoneOK(s)

LEMMA InitPipelineIInv == PipelineInit => PipelineIInv
<1> SUFFICES ASSUME PipelineInit PROVE PipelineIInv
  OBVIOUS
<1>1. IInv
  BY InitIInv DEF PipelineInit
<1>2. /\ sim = [s \in Process |->
                [phase |-> "off", status |-> Generated, alarmed |-> {},
                 left |-> {}, current |-> None, await |-> 0]]
      /\ out = [s \in Process |-> <<>>]
  BY DEF PipelineInit, SimInit
<1>3. FleetOK
  <2>1. ASSUME NEW s \in Process PROVE ProcessOK(s, sim[s], out[s])
    <3>1. /\ sim[s].phase = "off" /\ sim[s].await = 0 /\ out[s] = <<>>
          /\ sim[s] = [phase |-> "off", status |-> Generated, alarmed |-> {},
                       left |-> {}, current |-> None, await |-> 0]
      BY <1>2
    <3>2. sim[s] \in SimState
      BY <3>1, GeneratedAssumption, MaxOutAssumption DEF SimState, Phase
    <3>3. GoodQueue(s, <<>>) /\ Len(<<>>) = 0
      BY DEF GoodQueue
    <3>4. QED
      BY <3>1, <3>2, <3>3, MaxOutAssumption DEF ProcessOK
  <2>2. QED
    BY <1>2, <2>1 DEF FleetOK
<1>4. /\ retained = [d \in SimDevice |-> None] /\ inbox = {} /\ session = None
      /\ dashboard = [d \in SimDevice |-> None] /\ shown = [d \in Device |-> None]
  BY DEF PipelineInit, Init, Nothing
<1>5. BrokerOK /\ DashboardType /\ ShownSim
  BY <1>4, FleetAssumption DEF BrokerOK, DashboardType, ShownSim
<1>6. ASSUME NEW s \in Process PROVE LoneOK(s)
  <2>1. \A d \in SimDevice : LoneDevice(s, d)
    BY <1>4, FleetAssumption DEF LoneDevice
  <2>2. sim[s].phase = "off"
    BY <1>2
  <2>3. Lasting(sim[s], out[s])
    BY <2>2 DEF Lasting, PublishedBy
  <2>4. QED
    BY <1>4, <2>1, <2>3 DEF LoneOK
<1>7. QED
  BY <1>1, <1>3, <1>5, <1>6 DEF PipelineIInv

(* A step of the fleet. *)
LEMMA FleetStepIInv ==
    ASSUME PipelineIInv, NEW s \in Process, SimStep(s), UNCHANGED <<vars, pipeline>>
    PROVE  PipelineIInv' /\ [Next]_vars
<1>1. PICK st, q : SimGood(s, st, q)
  BY SimStepGood DEF PipelineIInv
<1>2. /\ GoesOn(s, st, q) /\ ProcessOK(s, st, q) /\ st.phase # "off"
      /\ q # <<>> /\ q[1] = Started(s) => Unannounced(s)
      /\ Lasting(sim[s], out[s]) => Lasting(st, q)
  BY <1>1 DEF SimGood
<1>3. /\ FleetOK' /\ sim'[s] = st /\ out'[s] = q
      /\ \A t \in Process \ {s} : sim'[t] = sim[t] /\ out'[t] = out[t]
  BY <1>2, FleetGoesOn DEF PipelineIInv
<1>4. /\ retained' = retained /\ connected' = connected /\ inbox' = inbox
      /\ dashboard' = dashboard /\ session' = session /\ shown' = shown
  BY DEF vars, pipeline
<1>5. IInv' /\ [Next]_vars
  BY NextIInv DEF PipelineIInv
<1>6. BrokerOK' /\ DashboardType' /\ ShownSim'
  BY <1>4 DEF PipelineIInv, BrokerOK, DashboardType, ShownSim
<1>7. ASSUME NEW t \in Process, Alone(t)' PROVE LoneOK(t)'
  <2>1. t = s
    BY <1>2, <1>3, <1>7 DEF Alone
  <2>2. Alone(s)
    BY <1>3, <1>7, <2>1 DEF Alone
  <2>3. LoneOK(s)
    BY <2>2 DEF PipelineIInv
  <2>4. Unannounced(s)' => Unannounced(s)
    BY <1>2, <1>3 DEF Unannounced
  <2>5. \A d \in SimDevice : LoneDevice(s, d)'
    BY <1>4, <2>3, <2>4 DEF LoneOK, LoneDevice
  <2>6. Lasting(sim[s], out[s])'
    BY <1>2, <1>3, <1>4, <2>3 DEF LoneOK, Lasting
  <2>7. QED
    BY <1>4, <2>1, <2>3, <2>5, <2>6 DEF LoneOK
<1>8. QED
  BY <1>3, <1>5, <1>6, <1>7 DEF PipelineIInv

(* The broker takes a publication, once or once more.                      *)
LEMMA TakenKeepsFleet ==
    ASSUME FleetOK, NEW s \in Process, out[s] # <<>>, Acknowledge(s) \/ UNCHANGED simVars
    PROVE  /\ FleetOK'
           /\ \A t \in Process : /\ sim'[t].phase = sim[t].phase /\ sim'[t].status = sim[t].status
                                 /\ sim'[t].left = sim[t].left
           /\ out'[s] = Tail(out[s]) \/ out'[s] = out[s]
<1>1. CASE UNCHANGED simVars
  BY <1>1 DEF simVars, FleetOK
<1>2. CASE Acknowledge(s)
  <2> DEFINE old == out[s]
             q == Tail(old)
  <2>1. /\ sim[s] \in SimState /\ Len(old) \in Nat /\ Len(old) <= MaxOut
        /\ sim[s].await <= Len(old) /\ GoodQueue(s, old)
        /\ sim[s].phase # "off"
    BY OwnFacts
  <2>2. GoodQueue(s, q)
    BY <2>1, GoodTail
  <2>3. Len(q) = Len(old) - 1
    BY <2>1, GoodTail
  <2>4. sim[s].await \in Nat
    <3>1. sim[s].await \in 0..MaxOut
      BY <2>1 DEF SimState
    <3>2. QED
      BY <3>1, MaxOutAssumption
  <2>5. Len(old) >= 1
    BY <2>1, EmptySeq DEF GoodQueue
  <2>6. PICK a \in 0..MaxOut : a = (IF sim[s].await > 0 THEN sim[s].await - 1 ELSE 0)
    BY <2>1, <2>4, MaxOutAssumption
  <2>7. a <= Len(q)
    BY <2>1, <2>3, <2>4, <2>5, <2>6
  <2> DEFINE st == [sim[s] EXCEPT !.await = a]
  <2>8. /\ st \in SimState /\ st.await = a /\ st.phase = sim[s].phase
        /\ st.status = sim[s].status /\ st.left = sim[s].left
    BY <2>1 DEF SimState
  <2>9. sim' = [sim EXCEPT ![s] = st]
    <3>1. sim' = [sim EXCEPT ![s].await = IF @ > 0 THEN @ - 1 ELSE 0]
      BY <1>2 DEF Acknowledge
    <3>2. QED
      BY <2>1, <2>6, <3>1 DEF FleetOK, SimState
  <2>10. out' = [out EXCEPT ![s] = q]
    BY <1>2 DEF Acknowledge
  <2> HIDE DEF st, q, old
  <2>11. GoesOn(s, st, q)
    BY <2>9, <2>10 DEF GoesOn
  <2>12. ProcessOK(s, st, q)
    BY <2>1, <2>2, <2>3, <2>7, <2>8, MaxOutAssumption DEF ProcessOK
  <2>13. /\ FleetOK' /\ sim'[s] = st /\ out'[s] = q
         /\ \A t \in Process \ {s} : sim'[t] = sim[t] /\ out'[t] = out[t]
    BY <2>11, <2>12, FleetGoesOn
  <2>14. QED
    BY <2>8, <2>13 DEF q, old
<1>3. QED
  BY <1>1, <1>2

(* The message the broker delivers, and what becomes of its queue.         *)
LEMMA DeliverIInv ==
    ASSUME PipelineIInv, NEW s \in Process, Deliver(s)
    PROVE  PipelineIInv' /\ [Next]_vars
<1> DEFINE m == Head(out[s])
<1>1. /\ out[s] # <<>> /\ inbox = {} /\ Handle(m)
      /\ retained' = IF m.topic = "status" THEN [retained EXCEPT ![m.device] = m] ELSE retained
      /\ Acknowledge(s) \/ UNCHANGED simVars
      /\ connected' = connected /\ inbox' = inbox
  BY DEF Deliver
<1>2. /\ FleetOK'
      /\ \A t \in Process : /\ sim'[t].phase = sim[t].phase /\ sim'[t].status = sim[t].status
                            /\ sim'[t].left = sim[t].left
      /\ out'[s] = Tail(out[s]) \/ out'[s] = out[s]
  BY <1>1, TakenKeepsFleet DEF PipelineIInv
<1>3. GoodQueue(s, out[s]) /\ sim[s].phase # "off"
  BY <1>1, OwnFacts DEF PipelineIInv
<1>4. /\ m = out[s][1] /\ (m = Started(s) \/ (m \in Payloads /\ m.session = s))
  <2>1. Head(out[s]) = out[s][1]
    BY <1>1, <1>3, GoodTail
  <2>2. Head(out[s]) = Started(s) \/ (Head(out[s]) \in Payloads /\ Head(out[s]).session = s)
    BY <1>1, <1>3, GoodTail
  <2>3. QED
    BY <2>1, <2>2
<1>5. Tail(out[s]) # <<>> => Tail(out[s])[1] # Started(s)
  BY <1>1, <1>3, GoodTail
<1>6. \A d \in SimDevice : retained'[d] = IF IsStatus(m, d) THEN m ELSE retained[d]
  <2>1. m.topic = "status" => m \in Payloads
    BY <1>4 DEF Started
  <2>2. CASE m.topic = "status"
    <3>1. m.device \in SimDevice
      BY <2>1, <2>2, PayloadFacts
    <3>2. retained' = [retained EXCEPT ![m.device] = m]
      BY <1>1, <2>2
    <3> HIDE DEF m
    <3>3. QED
      BY <2>2, <3>1, <3>2 DEF PipelineIInv, BrokerOK, IsStatus
  <2>3. CASE m.topic # "status"
    BY <1>1, <2>3 DEF IsStatus
  <2>4. QED
    BY <2>2, <2>3
<1>7. ASSUME NEW d \in SimDevice, IsStatus(m, d) PROVE m \in Payloads /\ m.session = s /\ m # None
  <2>1. m \in Payloads /\ m.session = s
    BY <1>4, <1>7 DEF IsStatus, Started
  <2>2. QED
    BY <2>1, PayloadFacts
<1> HIDE DEF m
<1>8. BrokerOK'
  <2>1. retained' = IF m.topic = "status" THEN [retained EXCEPT ![m.device] = m] ELSE retained
    BY <1>1
  <2>2. \A d \in SimDevice : retained'[d] \in Payloads \cup {None}
    BY <1>6, <1>7 DEF PipelineIInv, BrokerOK
  <2>3. retained' = [d \in SimDevice |-> retained'[d]]
    BY <2>1 DEF PipelineIInv, BrokerOK
  <2>4. retained' \in [SimDevice -> Payloads \cup {None}]
    BY <2>2, <2>3
  <2>5. \A d \in SimDevice : retained'[d] # None => IsStatus(retained'[d], d)
    BY <1>6 DEF PipelineIInv, BrokerOK
  <2>6. QED
    BY <1>1, <2>4, <2>5 DEF BrokerOK
<1>9. /\ [Next]_vars /\ DashboardType' /\ ShownSim'
      /\ session' \in {session, s}
  <2>1. CASE m = Started(s)
    <3>1. Handle(Started(s))
      BY <1>1, <2>1
    <3>2. /\ [Next]_vars /\ session' \in {session, s} /\ shown' = shown /\ DashboardType'
      BY <3>1, StartHandled DEF PipelineIInv
    <3>3. QED
      BY <3>2 DEF PipelineIInv, ShownSim
  <2>2. CASE m \in Payloads
    BY <1>1, <2>2, PayloadHandled DEF PipelineIInv
  <2>3. QED
    BY <1>4, <2>1, <2>2
<1>10. IInv'
  BY <1>9, NextIInv DEF PipelineIInv
<1>11. ASSUME NEW t \in Process, Alone(t)' PROVE LoneOK(t)'
  <2>1. t = s /\ Alone(s)
    BY <1>2, <1>3, <1>11 DEF Alone
  <2>2. LoneOK(s)
    BY <2>1 DEF PipelineIInv
  <2>3. session \in {None, s} /\ session' \in {None, s}
    BY <1>9, <2>2 DEF LoneOK
  <2>4. ASSUME NEW d \in SimDevice PROVE LoneDevice(s, d)'
    <3>1. LoneDevice(s, d)
      BY <2>2 DEF LoneOK
    <3>2. retained'[d] # None => retained'[d].session = s
      BY <1>6, <1>7, <3>1 DEF LoneDevice
    <3>3. CASE m = Started(s)
      <4>1. Handle(Started(s))
        BY <1>1, <3>3
      <4>2. shown' = shown
        BY <4>1, StartHandled DEF PipelineIInv
      <4>3. Unannounced(s)
        BY <1>1, <1>4, <3>3 DEF Unannounced
      <4>4. ~IsStatus(m, d)
        BY <3>3 DEF IsStatus, Started
      <4>5. shown'[d] = None /\ retained'[d] = None
        BY <1>6, <3>1, <4>2, <4>3, <4>4 DEF LoneDevice
      <4>6. QED
        BY <3>2, <4>5 DEF LoneDevice
    <3>4. CASE m \in Payloads /\ m.session = s
      <4>1. m # Started(s)
        BY <3>4, PayloadFacts DEF Started
      <4>2. ~Unannounced(s)'
        BY <1>2, <1>3, <1>4, <1>5, <4>1 DEF Unannounced
      <4>3. /\ (shown[d] # None => dashboard[d] = shown[d])
                  => (shown'[d] # None => dashboard'[d] = shown'[d])
            /\ shown'[d] = shown[d] \/ (IsStatus(m, d) /\ shown'[d] = m.status)
            /\ connected /\ session \in {None, m.session} /\ IsStatus(m, d) /\ shown'[d] # None
                  => shown'[d] = m.status
        BY <1>1, <3>4, PayloadHandled DEF PipelineIInv
      <4>4. shown'[d] # None => dashboard'[d] = shown'[d]
        BY <3>1, <4>3 DEF LoneDevice
      <4>5. shown'[d] # None => retained'[d] # None
        BY <1>6, <1>7, <3>1, <4>3 DEF LoneDevice
      <4>6. shown'[d] # None /\ connected => shown'[d] = retained'[d].status
        <5>1. CASE IsStatus(m, d)
          BY <1>6, <2>3, <3>4, <4>3, <5>1
        <5>2. CASE ~IsStatus(m, d)
          BY <1>1, <1>6, <3>1, <4>3, <5>2 DEF LoneDevice
        <5>3. QED
          BY <5>1, <5>2
      <4>7. QED
        BY <1>1, <3>2, <4>2, <4>4, <4>5, <4>6 DEF LoneDevice
    <3>5. QED
      BY <1>4, <3>3, <3>4
  <2>5. Lasting(sim[s], out[s])'
    <3>1. ASSUME NEW d \in SimDevice, PublishedBy(sim[s], d)'
          PROVE  LatestIs(out'[s], d, sim'[s].status[d], retained'[d])
      <4>1. PublishedBy(sim[s], d)
        BY <1>2, <3>1 DEF PublishedBy
      <4>2. LatestIs(out[s], d, sim[s].status[d], retained[d])
        BY <2>2, <4>1 DEF LoneOK, Lasting
      <4>3. PICK r2 : r2 = IF IsStatus(Head(out[s]), d) THEN Head(out[s]) ELSE retained[d]
        OBVIOUS
      <4>4. r2 = retained'[d]
        BY <1>6, <4>3 DEF m
      <4>5. LatestIs(Tail(out[s]), d, sim[s].status[d], r2) /\ LatestIs(out[s], d, sim[s].status[d], r2)
        BY <1>1, <1>3, <4>2, <4>3, LatestDelivered
      <4>6. QED
        BY <1>2, <4>4, <4>5
    <3>2. QED
      BY <3>1 DEF Lasting
  <2>6. QED
    BY <2>1, <2>3, <2>4, <2>5 DEF LoneOK
<1>12. QED
  BY <1>2, <1>8, <1>9, <1>10, <1>11 DEF PipelineIInv

(* When neither the fleet nor the broker's copies change, the conjuncts    *)
(* about the fleet stand.                                                  *)
LEMMA FleetRests ==
    ASSUME PipelineIInv, UNCHANGED <<simVars, retained>>, [Next]_vars, BrokerOK', DashboardType', ShownSim',
           \A s \in Process : Alone(s) /\ LoneOK(s) =>
              session' \in {None, s} /\ \A d \in SimDevice : LoneDevice(s, d)'
    PROVE  PipelineIInv'
<1>1. sim' = sim /\ out' = out /\ retained' = retained
  BY DEF simVars
<1>2. IInv'
  BY NextIInv DEF PipelineIInv
<1>3. FleetOK'
  BY <1>1 DEF PipelineIInv, FleetOK
<1>4. ASSUME NEW s \in Process, Alone(s)' PROVE LoneOK(s)'
  <2>1. Alone(s)
    BY <1>1, <1>4 DEF Alone
  <2>2. LoneOK(s)
    BY <2>1 DEF PipelineIInv
  <2>3. Lasting(sim[s], out[s])'
    BY <1>1, <2>2 DEF LoneOK, Lasting
  <2>4. QED
    BY <2>1, <2>2, <2>3 DEF LoneOK
<1>5. QED
  BY <1>2, <1>3, <1>4 DEF PipelineIInv

LEMMA RetainedIInv ==
    ASSUME PipelineIInv, NEW e \in SimDevice, DeliverRetained(e)
    PROVE  PipelineIInv' /\ [Next]_vars
<1> DEFINE m == retained[e]
<1>1. /\ e \in inbox /\ inbox' = inbox \ {e} /\ Handle(m)
      /\ UNCHANGED <<simVars, retained>> /\ connected' = connected
  BY DEF DeliverRetained
<1>2. m \in Payloads /\ IsStatus(m, e)
  BY <1>1 DEF PipelineIInv, BrokerOK
<1> HIDE DEF m
<1>3. /\ [Next]_vars /\ session' = session /\ DashboardType' /\ ShownSim'
      /\ \A d \in SimDevice :
            /\ (shown[d] # None => dashboard[d] = shown[d])
                 => (shown'[d] # None => dashboard'[d] = shown'[d])
            /\ shown'[d] = shown[d] \/ (IsStatus(m, d) /\ shown'[d] = m.status)
            /\ connected /\ session \in {None, m.session} /\ IsStatus(m, d) /\ shown'[d] # None
                 => shown'[d] = m.status
  BY <1>1, <1>2, PayloadHandled DEF PipelineIInv
<1>4. BrokerOK'
  BY <1>1 DEF PipelineIInv, BrokerOK
<1>5. ASSUME NEW s \in Process, Alone(s), LoneOK(s), NEW d \in SimDevice
      PROVE  LoneDevice(s, d)'
  <2>1. LoneDevice(s, d) /\ LoneDevice(s, e) /\ session \in {None, s}
    BY <1>5 DEF LoneOK
  <2>2. m.session = s /\ ~Unannounced(s)
    BY <1>2, <2>1, PayloadFacts DEF m, LoneDevice
  <2>3. ~Unannounced(s)'
    BY <1>1, <2>2 DEF Unannounced, simVars
  <2>4. IsStatus(m, d) <=> d = e
    BY <1>2 DEF IsStatus
  <2>5. shown'[d] # None => dashboard'[d] = shown'[d]
    BY <1>3, <2>1 DEF LoneDevice
  <2>6. CASE d = e
    <3>1. retained'[d] = m /\ m # None
      BY <1>1, <1>2, <2>6, PayloadFacts DEF m
    <3>2. connected /\ shown'[d] # None => shown'[d] = m.status
      BY <1>3, <2>1, <2>2, <2>4, <2>6
    <3>3. QED
      BY <1>1, <2>2, <2>3, <2>5, <3>1, <3>2 DEF LoneDevice
  <2>7. CASE d # e
    <3>1. shown'[d] = shown[d] /\ retained'[d] = retained[d]
      BY <1>1, <1>3, <2>4, <2>7
    <3>2. d \in inbox' <=> d \in inbox
      BY <1>1, <2>7
    <3>3. QED
      BY <1>1, <2>1, <2>3, <2>5, <3>1, <3>2 DEF LoneDevice
  <2>8. QED
    BY <2>6, <2>7
<1>6. QED
  BY <1>1, <1>3, <1>4, <1>5, FleetRests DEF LoneOK

(* The bridge leaves, comes back, grows older.                             *)
LEMMA OutageIInv ==
    ASSUME PipelineIInv, Disconnect \/ BridgeRestart \/ Subscribe \/ BridgeTimer
    PROVE  PipelineIInv' /\ [Next]_vars
<1>1. /\ UNCHANGED <<simVars, retained>> /\ dashboard' = dashboard
      /\ [Next]_vars
  BY DEF Disconnect, BridgeRestart, Away, Subscribe, BridgeTimer, Next
<1>2. /\ session' = session \/ session' = None
      /\ shown' = shown \/ shown' = [d \in Device |-> None]
  <2>1. CASE UNCHANGED vars
    BY <2>1 DEF vars
  <2>2. CASE Restart
    BY <2>2 DEF Restart, Nothing
  <2>3. CASE Tick
    BY <2>3 DEF Tick
  <2>4. CASE Prune
    <3>1. Emit({}) /\ session' = session
      BY <2>4 DEF Prune
    <3>2. QED
      BY <3>1, EmitQuietly DEF PipelineIInv, IInv
  <2>5. QED
    BY <2>1, <2>2, <2>3, <2>4 DEF Disconnect, BridgeRestart, Subscribe, BridgeTimer
<1>3. BrokerOK'
  BY DEF PipelineIInv, BrokerOK, Disconnect, BridgeRestart, Away, Subscribe, BridgeTimer
<1>4. DashboardType' /\ ShownSim'
  <2>1. \A d \in SimDevice : shown'[d] \in {shown[d], None}
    BY <1>2, FleetAssumption
  <2>2. QED
    BY <1>1, <2>1 DEF PipelineIInv, DashboardType, ShownSim
<1>5. ASSUME NEW s \in Process, Alone(s), LoneOK(s), NEW d \in SimDevice
      PROVE  LoneDevice(s, d)'
  <2>1. LoneDevice(s, d)
    BY <1>5 DEF LoneOK
  <2>2. shown'[d] \in {shown[d], None} /\ retained'[d] = retained[d] /\ dashboard'[d] = dashboard[d]
    BY <1>1, <1>2, FleetAssumption
  <2>3. Unannounced(s)' => Unannounced(s)
    BY <1>1 DEF Unannounced, simVars
  <2>4. CASE Disconnect \/ BridgeRestart
    <3>1. connected' = FALSE
      BY <2>4 DEF Disconnect, BridgeRestart, Away
    <3>2. QED
      BY <2>1, <2>2, <2>3, <3>1 DEF LoneDevice
  <2>5. CASE Subscribe
    <3>1. d \notin inbox' => retained[d] = None
      BY <2>5 DEF Subscribe
    <3>2. QED
      BY <2>1, <2>2, <2>3, <3>1 DEF LoneDevice
  <2>6. CASE BridgeTimer
    <3>1. connected' = connected /\ inbox' = inbox
      BY <2>6 DEF BridgeTimer
    <3>2. QED
      BY <2>1, <2>2, <2>3, <3>1 DEF LoneDevice
  <2>7. QED
    BY <2>4, <2>5, <2>6
<1>6. QED
  BY <1>1, <1>2, <1>3, <1>4, <1>5, FleetRests DEF LoneOK

LEMMA PipelineNextIInv ==
    ASSUME PipelineIInv, [PipelineNext]_all
    PROVE  PipelineIInv' /\ [Next]_vars
<1>1. CASE \E s \in Process : (SimStep(s) /\ UNCHANGED <<vars, pipeline>>) \/ Deliver(s)
  BY <1>1, FleetStepIInv, DeliverIInv
<1>2. CASE \E d \in SimDevice : DeliverRetained(d)
  BY <1>2, RetainedIInv
<1>3. CASE Disconnect \/ BridgeRestart \/ Subscribe \/ BridgeTimer
  BY <1>3, OutageIInv
<1>4. CASE UNCHANGED all
  <2>1. UNCHANGED <<simVars, retained>> /\ UNCHANGED vars /\ UNCHANGED pipeline
    BY <1>4 DEF all, pipeline
  <2>2. UNCHANGED <<session, shown, retained, inbox, connected, dashboard, sim, out>>
    BY <2>1 DEF vars, pipeline, simVars
  <2>3. BrokerOK' /\ DashboardType' /\ ShownSim'
    BY <2>2 DEF PipelineIInv, BrokerOK, DashboardType, ShownSim
  <2>4. \A s \in Process : Alone(s) /\ LoneOK(s) =>
           session' \in {None, s} /\ \A d \in SimDevice : LoneDevice(s, d)'
    BY <2>2 DEF LoneOK, LoneDevice, Unannounced
  <2>5. QED
    BY <2>1, <2>3, <2>4, FleetRests
<1>5. QED
  BY <1>1, <1>2, <1>3, <1>4 DEF PipelineNext

LEMMA PipelineInductive == PipelineSpec => []PipelineIInv
<1>1. PipelineInit => PipelineIInv
  BY InitPipelineIInv
<1>2. PipelineIInv /\ [PipelineNext]_all => PipelineIInv'
  BY PipelineNextIInv
<1>3. QED
  BY <1>1, <1>2, PTL DEF PipelineSpec

(* Every variable of the pipeline keeps its shape, and an awaited message  *)
(* is always in flight.                                                    *)
THEOREM PipelineTypeCorrect == PipelineSpec => []PipelineTypeOK
<1>1. PipelineIInv => PipelineTypeOK
  BY FleetType DEF PipelineIInv, IInv, BrokerOK, DashboardType, PipelineTypeOK
<1>2. QED
  BY <1>1, PipelineInductive, PTL

(* What the bridge does in the pipeline is a behaviour of the bridge, so   *)
(* its theorems hold of it there too.                                      *)
THEOREM PipelineIsBridge == PipelineSpec => Spec
<1>1. PipelineInit => Init
  BY DEF PipelineInit
<1>2. PipelineIInv /\ [PipelineNext]_all => [Next]_vars
  BY PipelineNextIInv
<1>3. QED
  BY <1>1, <1>2, PipelineInductive, PTL DEF PipelineSpec, Spec

(* With one fleet operating and nothing under way, the dashboard shows of  *)
(* every device that was announced the status the device is in, whatever   *)
(* was repeated, lost or restarted before.                                 *)
THEOREM TrackedShown == PipelineSpec => []TrackedStatusShown
<1>1. PipelineIInv => TrackedStatusShown
  <2> SUFFICES ASSUME PipelineIInv, NEW s \in Process, NEW d \in SimDevice,
                      AtRest, Operating(s), shown[d] # None
               PROVE  Shows(d) = sim[s].status[d]
    BY DEF TrackedStatusShown
  <2>1. Alone(s)
    BY DEF Operating, Alone
  <2>2. LoneDevice(s, d) /\ Lasting(sim[s], out[s])
    BY <2>1 DEF PipelineIInv, LoneOK
  <2>3. connected /\ inbox = {} /\ out[s] = <<>>
    BY DEF AtRest
  <2>4. dashboard[d] = retained[d].status /\ dashboard[d] # None
    BY <2>2, <2>3 DEF LoneDevice
  <2>5. LatestIs(<<>>, d, sim[s].status[d], retained[d])
    BY <2>2, <2>3 DEF Lasting, PublishedBy, Operating
  <2>6. retained[d].status = sim[s].status[d]
    BY <2>5 DEF LatestIs
  <2>7. QED
    BY <2>4, <2>6 DEF Shows
<1>2. QED
  BY <1>1, PipelineInductive, PTL

=============================================================================
