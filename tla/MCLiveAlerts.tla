---------------------------- MODULE MCLiveAlerts ----------------------------
(* Two operators, one stored alert, one simulated and one real live alert, *)
(* a list that holds one alert.                                            *)
EXTENDS LiveAlerts

CONSTANTS v, w, stored, sim, real
=============================================================================
