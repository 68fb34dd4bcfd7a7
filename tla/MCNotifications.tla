--------------------------- MODULE MCNotifications --------------------------
(* An instance of Notifications for TLC: an administrator and a user of    *)
(* the customer who owns the estate of one of the alerts.                  *)
EXTENDS Notifications

CONSTANTS v, w, real, sim, post, c

Roles == [u \in User |-> IF u = v THEN "admin" ELSE "customer"]
Customers == [u \in User |-> c]
Owners == [a \in Alert |-> c]
Everyone == {{"admin", "customer"}}
Rules == {{"admin", "customer"}, {"customer"}, {}}
Unruled == Rules \cup {None}

=============================================================================
