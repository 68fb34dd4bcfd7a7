--------------------------- MODULE FleetSimulator ---------------------------
(***************************************************************************)
(* The MQTT device simulator (packages/mock/src/device-simulator.ts): one  *)
(* process per sessionId, started one after the other and possibly         *)
(* overlapping, as in a rolling restart.  A seeded fleet has the same      *)
(* devices in every process.                                               *)
(*                                                                         *)
(* out[s] is what process s has handed to its MQTT client and the broker   *)
(* has not yet acknowledged.  The timers publish without awaiting; the     *)
(* start-up and the shutdown await each publication: sim[s].await is the   *)
(* place in out[s] of the message awaited, 0 when there is none.           *)
(***************************************************************************)
EXTENDS Naturals, Sequences, RealtimeMessages

CONSTANTS
    MaxSession,   \* bound: simulator processes
    SimDevice,    \* the devices of the seeded fleet
    Generated,    \* Generated[d]: the status generateDevice() gives d
    SimStatus,    \* bound: the statuses computeNextStatus() may pick
    SimEvent,     \* the event types eventTick publishes
    HomeSite,     \* the site of the fleet
    MaxOut        \* bound: publications in flight

ASSUME MaxSessionAssumption == MaxSession \in Nat
ASSUME GeneratedAssumption == Generated \in [SimDevice -> SimStatus]
ASSUME SimStatusAssumption == SimStatus \subseteq Status /\ "offline" \in SimStatus
ASSUME MaxOutAssumption == MaxOut \in Nat

Process == 1..MaxSession

VARIABLES
    sim,   \* sim[s]: the state of process s
    out    \* out[s]: its unacknowledged publications, oldest first

simVars == <<sim, out>>

Phase == {"off", "starting", "running", "stopping", "stopped", "crashed"}

SimInit ==
    /\ sim = [s \in Process |->
                [phase |-> "off", status |-> Generated, alarmed |-> {},
                 left |-> {}, current |-> None, await |-> 0]]
    /\ out = [s \in Process |-> <<>>]

Started(s) == [topic |-> "system", session |-> s]

(* basePayload(): reads the device when it is published. *)
Payload(s, d, topic, status, type, alarm) ==
    [device |-> d, topic |-> topic, session |-> s, status |-> status, previous |-> None,
     site |-> HomeSite, type |-> type, alarm |-> alarm, named |-> TRUE]

Now(s, d, topic, type) ==
    Payload(s, d, topic, sim[s].status[d], type, d \in sim[s].alarmed)

Publish(s, messages) ==
    /\ Len(out[s]) + Len(messages) <= MaxOut
    /\ out' = [out EXCEPT ![s] = @ \o messages]

(* The process goes on in state next once the message has been published   *)
(* and acknowledged.                                                       *)
PublishAndAwait(s, message, next) ==
    /\ sim[s].await = 0
    /\ Publish(s, <<message>>)
    /\ sim' = [sim EXCEPT ![s] = [next EXCEPT !.await = Len(out[s]) + 1]]

-----------------------------------------------------------------------------
(* Start-up: simulator:started, then the status of every device. *)

(* Environment: nobody starts a process while the announcement of another  *)
(* one is still on its way.                                                *)
Announced(t) ==
    sim[t].phase # "off" /\ (out[t] # <<>> => Head(out[t]).topic # "system")

Start(s) ==
    /\ sim[s].phase = "off"
    /\ \A t \in Process : t < s => Announced(t)
    /\ PublishAndAwait(s, Started(s),
          [sim[s] EXCEPT !.phase = "starting", !.left = SimDevice,
                         !.alarmed = {d \in SimDevice : Generated[d] \in {"fault", "warning"}}])

PublishInitialStatus(s, d) ==
    /\ sim[s].phase = "starting"
    /\ d \in sim[s].left
    /\ PublishAndAwait(s, Now(s, d, "status", None), [sim[s] EXCEPT !.left = @ \ {d}])

StartTimers(s) ==
    /\ sim[s].phase = "starting"
    /\ sim[s].left = {}
    /\ sim[s].await = 0
    /\ sim' = [sim EXCEPT ![s].phase = "running"]
    /\ UNCHANGED out

-----------------------------------------------------------------------------
(* The timers, which run until the shutdown has published every device. *)

Armed(s) == sim[s].phase \in {"running", "stopping"}

TransitionTick(s, d, next) ==
    /\ Armed(s)
    /\ next # sim[s].status[d]
    /\ LET alarm == next \in {"fault", "warning"}
           message(topic) == Payload(s, d, topic, next, None, alarm) IN
       /\ sim' = [sim EXCEPT ![s].status[d] = next,
                             ![s].alarmed = IF alarm THEN @ \cup {d} ELSE @ \ {d}]
       /\ Publish(s, <<message("events"), message("status"), message("telemetry")>>)

TelemetryTick(s, d) ==
    /\ Armed(s)
    /\ Publish(s, <<Now(s, d, "telemetry", None)>>)
    /\ UNCHANGED sim

EventTick(s, d, type) ==
    /\ Armed(s)
    /\ Publish(s, <<Now(s, d, "events", type)>>)
    /\ UNCHANGED sim

-----------------------------------------------------------------------------
(* Shutdown on SIGINT or SIGTERM. *)

Shutdown(s) ==
    /\ sim[s].phase = "running"
    /\ sim' = [sim EXCEPT ![s].phase = "stopping", ![s].left = SimDevice]
    /\ UNCHANGED out

ShutdownEvent(s, d) ==
    /\ sim[s].phase = "stopping"
    /\ sim[s].current = None
    /\ d \in sim[s].left
    /\ PublishAndAwait(s, Payload(s, d, "events", "offline", None, d \in sim[s].alarmed),
          [sim[s] EXCEPT !.status[d] = "offline", !.current = d])

ShutdownStatus(s) ==
    /\ sim[s].phase = "stopping"
    /\ sim[s].current # None
    /\ PublishAndAwait(s, Now(s, sim[s].current, "status", None),
          [sim[s] EXCEPT !.left = @ \ {sim[s].current}, !.current = None])

(* What is in flight when the connection closes may or may not arrive. *)
Stop(s, phase) ==
    /\ sim' = [sim EXCEPT ![s].phase = phase, ![s].await = 0]
    /\ \E k \in 0..Len(out[s]) : out' = [out EXCEPT ![s] = SubSeq(@, 1, k)]

Exit(s) ==
    /\ sim[s].phase = "stopping"
    /\ sim[s].left = {} /\ sim[s].current = None
    /\ sim[s].await = 0
    /\ Stop(s, "stopped")

Crash(s) ==
    /\ sim[s].phase \in {"starting", "running", "stopping"}
    /\ Stop(s, "crashed")

AcknowledgeUncounted(s) ==      \* fault: still waits for what was acknowledged
    /\ out' = [out EXCEPT ![s] = Tail(@)]
    /\ UNCHANGED sim

(* The broker takes the oldest publication and acknowledges it.            *)
Acknowledge(s) ==
    /\ out' = [out EXCEPT ![s] = Tail(@)]
    /\ sim' = [sim EXCEPT ![s].await = IF @ > 0 THEN @ - 1 ELSE 0]

SimStep(s) ==
    \/ Start(s) \/ StartTimers(s)
    \/ Shutdown(s) \/ ShutdownStatus(s) \/ Exit(s) \/ Crash(s)
    \/ \E d \in SimDevice :
          \/ PublishInitialStatus(s, d)
          \/ \E next \in SimStatus : TransitionTick(s, d, next)
          \/ TelemetryTick(s, d)
          \/ \E type \in SimEvent : EventTick(s, d, type)
          \/ ShutdownEvent(s, d)

-----------------------------------------------------------------------------
(* Every variable keeps its shape; an awaited message is in flight. *)
SimTypeOK ==
    /\ sim \in [Process ->
          [phase : Phase, status : [SimDevice -> SimStatus], alarmed : SUBSET SimDevice,
           left : SUBSET SimDevice, current : SimDevice \cup {None}, await : 0..MaxOut]]
    /\ \A s \in Process :
          /\ Len(out[s]) <= MaxOut
          /\ sim[s].await <= Len(out[s])

=============================================================================
