-------------------------- MODULE RealtimePipeline --------------------------
(***************************************************************************)
(* Simulator, MQTT broker, bridge and dashboard together: what the live    *)
(* device store of a connected browser shows of the fleet.                 *)
(*                                                                         *)
(* The broker (external) keeps the order of one client's publications,     *)
(* delivers at least once (the bridge subscribes at QoS 1), keeps the last *)
(* retained status of each device and sends it to the bridge when the      *)
(* bridge subscribes again.  The bridge connects with clean: true, so what *)
(* arrives while it is away is lost to it.                                 *)
(***************************************************************************)
EXTENDS FleetSimulator, RealtimeBridge

CONSTANTS
    MaxDuplicates,   \* bound: publications the broker gets twice
    MaxOutages       \* bound: times the bridge is away from the broker

ASSUME MaxDuplicatesAssumption == MaxDuplicates \in Nat
ASSUME MaxOutagesAssumption == MaxOutages \in Nat

VARIABLES
    retained,     \* retained[d]: the broker's retained message of d's status topic
    connected,    \* is the bridge subscribed?
    inbox,        \* devices whose retained message the broker has yet to deliver
    dashboard,    \* dashboard[d]: status of d in the live device store, or None
    duplicates,
    outages

Payloads ==
    [device : SimDevice, topic : Topic, session : Process, status : SimStatus,
     previous : {None}, site : {HomeSite}, type : SimEvent \cup {None}, alarm : BOOLEAN, named : {TRUE}]

(* The fleet is among the devices the bridge may hear of.                  *)
ASSUME FleetAssumption == SimDevice \subseteq Device /\ Process \subseteq Session
ASSUME PayloadsAssumption == Payloads \subseteq Message /\ None \notin Payloads

pipeline == <<retained, connected, inbox, dashboard, duplicates, outages>>
all == <<simVars, vars, pipeline>>

PipelineInit ==
    /\ SimInit
    /\ Init
    /\ retained = [d \in SimDevice |-> None]
    /\ connected = TRUE
    /\ inbox = {}
    /\ dashboard = [d \in SimDevice |-> None]
    /\ duplicates = 0
    /\ outages = 0

-----------------------------------------------------------------------------
(* The browser: upsertDeviceTelemetry, upsertDeviceStatus, clearLiveState. *)

Displayed(d, events) ==
    IF \E e \in events : e.event = "device:status" /\ e.device = d
      THEN (CHOOSE e \in events : e.event = "device:status").status
      ELSE IF dashboard[d] = None /\ \E e \in events : e.event = "device:telemetry" /\ e.device = d
        THEN "online"
        ELSE dashboard[d]

Display ==
    dashboard' =
        IF \E e \in sent' : e.event = "simulator:reset"
          THEN [d \in SimDevice |-> None]
          ELSE [d \in SimDevice |-> Displayed(d, sent')]

-----------------------------------------------------------------------------
(* The broker. *)

(* The bridge handles a message, if it is there to receive it. *)
Handle(m) ==
    IF connected
      THEN /\ IF m.topic = "system" THEN SimulatorStarted(m.session) ELSE OnMessage(m)
           /\ Display
      ELSE UNCHANGED <<vars, dashboard>>

Deliver(s) ==
    /\ out[s] # <<>>
    /\ inbox = {}
    /\ LET m == Head(out[s]) IN
       /\ Handle(m)
       /\ retained' = IF m.topic = "status" THEN [retained EXCEPT ![m.device] = m] ELSE retained
    /\ \/ Acknowledge(s) /\ UNCHANGED duplicates
       \/ /\ duplicates < MaxDuplicates
          /\ duplicates' = duplicates + 1
          /\ UNCHANGED simVars
    /\ UNCHANGED <<connected, inbox, outages>>

DeliverRetained(d) ==
    /\ d \in inbox
    /\ inbox' = inbox \ {d}
    /\ Handle(retained[d])
    /\ UNCHANGED <<simVars, retained, connected, duplicates, outages>>

(* The bridge loses the broker, with its state or without. *)
Away ==
    /\ connected /\ outages < MaxOutages
    /\ connected' = FALSE
    /\ inbox' = {}
    /\ outages' = outages + 1
    /\ UNCHANGED <<simVars, retained, dashboard, duplicates>>

Disconnect == Away /\ UNCHANGED vars
BridgeRestart == Away /\ Restart

Subscribe ==
    /\ ~connected
    /\ connected' = TRUE
    /\ inbox' = {d \in SimDevice : retained[d] # None}
    /\ UNCHANGED <<simVars, vars, retained, dashboard, duplicates, outages>>

BridgeTimer ==
    /\ Tick \/ Prune
    /\ UNCHANGED <<simVars, retained, connected, inbox, dashboard, duplicates, outages>>

PipelineNext ==
    \/ \E s \in Process :
          \/ SimStep(s) /\ UNCHANGED <<vars, pipeline>>
          \/ Deliver(s)
    \/ \E d \in SimDevice : DeliverRetained(d)
    \/ Disconnect \/ BridgeRestart \/ Subscribe
    \/ BridgeTimer

PipelineSpec == PipelineInit /\ [][PipelineNext]_all

-----------------------------------------------------------------------------
(* Properties. *)

(* Every variable keeps its shape. *)
PipelineTypeOK ==
    /\ SimTypeOK
    /\ TypeOK
    /\ retained \in [SimDevice -> Payloads \cup {None}]
    /\ inbox \subseteq {d \in SimDevice : retained[d] # None}
    /\ dashboard \in [SimDevice -> SimStatus \cup {None, "online"}]

(* Nothing is under way, and process s is the only fleet there has been:   *)
(* of a successor the bridge emits what differs from previousStatuses,     *)
(* which outlives the reset.                                               *)
AtRest == connected /\ inbox = {} /\ \A s \in Process : out[s] = <<>>
Operating(s) ==
    sim[s].phase = "running" /\ \A t \in Process \ {s} : sim[t].phase = "off"

(* The status a browser shows; it takes a device it knows nothing of, or   *)
(* only telemetry, for online.                                             *)
Shows(d) == IF dashboard[d] = None THEN "online" ELSE dashboard[d]

(* From the first status of a device that was announced on, the dashboard  *)
(* shows the device's status whenever the pipeline is at rest, whatever    *)
(* was repeated or lost: the retained copy makes up for the transitions    *)
(* missed during an outage.                                                *)
TrackedStatusShown ==
    \A s \in Process, d \in SimDevice :
        AtRest /\ Operating(s) /\ shown[d] # None => Shows(d) = sim[s].status[d]

=============================================================================
