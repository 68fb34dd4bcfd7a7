--------------------------- MODULE MCDeviceGroups ---------------------------
(* Instances of DeviceGroups for TLC. *)
EXTENDS DeviceGroups, TLC

CONSTANTS d1, dGone

(* A create or an update may carry any uuids: one that no row of devices   *)
(* has, and the same one twice.                                            *)
RepeatingMemberList == {<<>>, <<dGone, dGone>>}

(* Arrays without a repeated device. *)
CleanMemberList == {<<>>, <<d1>>, <<dGone, d1>>}

HandlerSymmetry == Permutations(Handler)

=============================================================================
