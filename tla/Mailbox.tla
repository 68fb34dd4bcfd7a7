------------------------------ MODULE Mailbox -------------------------------
(***************************************************************************)
(* What the notification tables promise: whatever gives rise to            *)
(* notifications (a source) delivers them once, in one step, at most one   *)
(* to a user, all of them unread; after that a notification is only ever   *)
(* read, never delivered again, unread again or lost.                      *)
(***************************************************************************)
EXTENDS Naturals

CONSTANTS User, Source

VARIABLES
    rows,      \* rows[s][u]: notifications user u got from s
    unread     \* unread[s][u]: those u has not read

vars == <<rows, unread>>

Nothing == [u \in User |-> 0]

Init == rows = [s \in Source |-> Nothing] /\ unread = rows

Deliver(s, to) ==
    /\ rows[s] = Nothing
    /\ rows' = [rows EXCEPT ![s] = [u \in User |-> IF u \in to THEN 1 ELSE 0]]
    /\ unread' = [unread EXCEPT ![s] = rows'[s]]

Read(u, those) ==
    /\ unread' = [s \in Source |-> IF s \in those THEN [unread[s] EXCEPT ![u] = 0] ELSE unread[s]]
    /\ UNCHANGED rows

Next ==
    \/ \E s \in Source, to \in SUBSET User : Deliver(s, to)
    \/ \E u \in User, those \in SUBSET Source : Read(u, those)

Spec == Init /\ [][Next]_vars

=============================================================================
