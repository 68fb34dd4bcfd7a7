------------------------- MODULE MCNotificationBell -------------------------
(* An instance of NotificationBell for TLC: an administrator, whose bell   *)
(* it is, and a customer user.                                             *)
EXTENDS NotificationBell, MCNotifications

=============================================================================
