-------------------------- MODULE MCRealtimeBridge --------------------------
(* Instances of RealtimeBridge for TLC. *)
EXTENDS RealtimeBridge

CONSTANTS sim, real, s1, s2, x1

(* A simulated payload carries a session, a site and a status; a real one  *)
(* carries what its firmware sends.                                        *)
Payload(d, topic, s, status, previous, site, type) ==
    [device |-> d, topic |-> topic, session |-> s, status |-> status, previous |-> previous,
     site |-> site, type |-> type, alarm |-> status = "fault", named |-> TRUE]

Unnamed(m) == [m EXCEPT !.named = FALSE]

Simulated ==
    {Payload(sim, topic, s, status, None, x1, None) :
        topic \in {"telemetry", "status"}, s \in {s1, s2}, status \in {"online", "fault"}}
    \cup {Payload(sim, "events", s, status, None, x1, type) :
        s \in {s1, s2}, status \in {"online", "fault"}, type \in AlertType \cup {None}}

Real ==
    {Payload(real, "telemetry", None, None, None, None, None),
     Payload(real, "status", None, "offline", "online", x1, None),
     Payload(real, "status", None, "online", None, None, None),
     Payload(real, "events", None, None, None, None, "battery_low"),
     Unnamed(Payload(real, "status", None, "fault", None, None, None)),
     Unnamed(Payload(real, "events", None, None, None, None, "battery_low"))}

AnyMessage == Simulated \cup Real

=============================================================================
