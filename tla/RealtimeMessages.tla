-------------------------- MODULE RealtimeMessages --------------------------
(***************************************************************************)
(* What the simulator and the bridge both know of a payload on the device  *)
(* topics of the broker (packages/types/src/device.ts, mqtt-client.ts).    *)
(***************************************************************************)

CONSTANT None     \* an absent field

Status == {"online", "offline", "fault", "warning"}
Topic == {"telemetry", "status", "events"}

=============================================================================
