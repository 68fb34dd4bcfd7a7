-------------------------- MODULE NotificationBell --------------------------
(***************************************************************************)
(* The number on the bell of one signed-in browser (Viewer's), composed    *)
(* with the pipeline of Notifications: stores/notification-store.ts,       *)
(* hooks/use-notifications.ts and the notification handlers of             *)
(* hooks/use-socket.ts.                                                    *)
(*                                                                         *)
(* Three sources feed one number: pushes add one, the query polls the      *)
(* table, and an effect writes the query's last answer (or, in Simulator   *)
(* Mode, the unread simulated notifications) over it whenever one of its   *)
(* dependencies has changed: the answer, the mode, or the array of         *)
(* notifications, which every operation of the store but a push rebuilds.  *)
(***************************************************************************)
EXTENDS Notifications

CONSTANTS
    Viewer,
    MaxClicks      \* bound: what the user does

ASSUME ViewerAssumption == Viewer \in User
ASSUME ClicksAssumption == MaxClicks \in Nat

VARIABLES
    mode,      \* Simulator Mode
    notes,     \* notes[a]: the store's notification of simulated alert a
    bell,      \* unreadCount of the store
    data,      \* the query's last answer
    fetch,     \* what the server has read for the request in flight, or None
    change,    \* the read mutation in flight, or None
    clicks

browser == <<mode, notes, bell, data, fetch, change, clicks>>
all == <<vars, browser>>

Note == {"none", "unread", "read"}
Count == Nat \cup {None}
Change == [those : SUBSET Source, answered : BOOLEAN] \cup {None}

BellInit ==
    /\ Init
    /\ mode \in BOOLEAN
    /\ notes = [a \in Simulated |-> "none"] /\ bell = 0
    /\ data = None /\ fetch = None /\ change = None
    /\ clicks = 0

NoNotes == [a \in Simulated |-> "none"]
Unread == Cardinality({s \in Source : unread[s][Viewer] > 0})
SimulatedUnread(n) == Cardinality({a \in Simulated : n[a] = "unread"})

-----------------------------------------------------------------------------
(* The effect of useNotificationUnreadCount, after a change that left the  *)
(* number at n.                                                            *)

SyncLoaded(n, inMode, newNotes, answer) ==      \* fault: the array is no dependency
    IF inMode # mode \/ answer # data
      THEN IF inMode THEN SimulatedUnread(newNotes) ELSE IF answer # None THEN answer ELSE n
      ELSE n

Synced(n, inMode, newNotes, answer) ==
    IF inMode THEN SimulatedUnread(newNotes) ELSE IF answer # None THEN answer ELSE n

MinusAsIs(n, k) == n - k      \* fault: no Math.max(0, ...)

Minus(n, k) == IF n < k THEN 0 ELSE n - k

(* An operation of the store that rebuilds the array of notifications and  *)
(* sets the number to n.                                                   *)
Rebuild(n, newNotes) ==
    /\ notes' = newNotes
    /\ bell' = Synced(n, mode, newNotes, data)

-----------------------------------------------------------------------------
(* Messages from the bridge: simulator:reset, a push that adds one for     *)
(* whomever it is, and a simulated alert, which comes in twice (as an      *)
(* alert and as a notification) under one id.                              *)

ClearSimulated == Rebuild(Minus(bell, SimulatedUnread(notes)), NoNotes)

AddSimulated(a) ==
    /\ notes[a] = "none"                       \* else the store stays as it is
    /\ Rebuild(bell + 1, [notes EXCEPT ![a] = "unread"])

Apply(m) ==
    \/ m.kind = "reset" /\ ClearSimulated
    \/ m.kind = "real" /\ bell' = bell + 1 /\ UNCHANGED notes
    \/ m.kind \in {"alert", "simulated"} /\ AddSimulated(m.source)
    \/ /\ m.kind \in {"alert", "simulated"} /\ notes[m.source] # "none"
       /\ UNCHANGED <<notes, bell>>

Receive ==
    /\ wire # <<>> /\ wire' = Tail(wire)
    /\ Apply(Head(wire))
    /\ UNCHANGED <<directory, links, task, table, mishaps>>
    /\ UNCHANGED <<mode, data, fetch, change, clicks>>

(* A message to or from the bridge is lost with its connection. *)
LoseMessage ==
    /\ wire # <<>> /\ wire' = Tail(wire)
    /\ Mishap
    /\ UNCHANGED <<directory, links, task, table, browser>>

Reset ==
    /\ Mishap
    /\ wire' = Append(wire, [kind |-> "reset"])
    /\ UNCHANGED <<directory, links, task, table>>
    /\ UNCHANGED <<mode, notes, bell, data, fetch, change, clicks>>

-----------------------------------------------------------------------------
(* The query: every 30 seconds and after an invalidation, except in        *)
(* Simulator Mode.                                                         *)

FetchInSimulator ==      \* fault: enabled: simulatorMode
    /\ mode
    /\ fetch' = Unread
    /\ UNCHANGED <<vars, mode, notes, bell, data, change, clicks>>

Fetch ==
    /\ ~mode
    /\ fetch' = Unread
    /\ UNCHANGED <<vars, mode, notes, bell, data, change, clicks>>

FetchAnswer ==
    /\ fetch # None
    /\ data' = fetch /\ fetch' = None
    /\ bell' = IF fetch = data THEN bell ELSE Synced(bell, mode, notes, fetch)
    /\ UNCHANGED <<vars, mode, notes, change, clicks>>

FetchError ==
    /\ fetch # None
    /\ Mishap
    /\ fetch' = None
    /\ UNCHANGED <<directory, links, task, table, wire>>
    /\ UNCHANGED <<mode, notes, bell, data, change, clicks>>

-----------------------------------------------------------------------------
(* The user.  A click on a notification cancels the request in flight,     *)
(* changes the store at once and sends the mutation; another is not        *)
(* possible until it has settled, which invalidates the queries.  The list *)
(* on the page may be old, and the notification read elsewhere by now.     *)

Click == clicks < MaxClicks /\ clicks' = clicks + 1

Send(those) ==
    /\ change = None
    /\ change' = [those |-> those, answered |-> FALSE]
    /\ fetch' = None
    /\ UNCHANGED <<vars, mode, data>>

ClickRead(s) ==
    /\ Click
    /\ rows[s][Viewer] > 0
    /\ Rebuild(Minus(bell, 1), notes)
    /\ Send({s})

ClickReadAll ==
    /\ Click
    /\ Rebuild(0, [a \in Simulated |-> IF notes[a] = "none" THEN "none" ELSE "read"])
    /\ Send(Source)

ClickReadSimulated(a) ==
    /\ Click
    /\ mode /\ notes[a] = "unread"
    /\ Rebuild(Minus(bell, 1), [notes EXCEPT ![a] = "read"])
    /\ UNCHANGED <<vars, mode, data, fetch, change>>

Answer(update) ==
    /\ change # None /\ ~change.answered
    /\ change' = [change EXCEPT !.answered = TRUE]
    /\ update
    /\ UNCHANGED <<directory, links, task, rows, wire>>
    /\ UNCHANGED <<mode, notes, bell, data, fetch, clicks>>

ChangeApplied == Answer(ReadUpdate(Viewer, change.those) /\ UNCHANGED mishaps)
ChangeFailed == Answer(Mishap /\ UNCHANGED unread)

(* onSettled: a request that was under way by now is started over. *)
Settle ==
    /\ change # None /\ change.answered
    /\ change' = None /\ fetch' = None
    /\ UNCHANGED <<vars, mode, notes, bell, data, clicks>>

(* addNotification() of the reports and health pages: the new entry is     *)
(* only local, and the effect takes its number back once there is an       *)
(* answer.                                                                 *)
AddLocal ==
    /\ Click
    /\ Rebuild(bell + 1, notes)
    /\ UNCHANGED <<vars, mode, data, fetch, change>>

(* Simulator Mode, on and off; off clears the simulated notifications. *)
Toggle ==
    /\ Click
    /\ mode' = ~mode
    /\ notes' = IF mode THEN NoNotes ELSE notes
    /\ bell' = Synced(IF mode THEN Minus(bell, SimulatedUnread(notes)) ELSE bell,
                      mode', notes', data)
    /\ UNCHANGED <<vars, data, fetch, change>>

-----------------------------------------------------------------------------
Clicks ==
    \/ \E s \in Source : ClickRead(s)
    \/ ClickReadAll \/ AddLocal \/ Toggle
    \/ \E a \in Simulated : ClickReadSimulated(a)

Network == Receive \/ LoseMessage \/ Reset \/ ChangeApplied \/ ChangeFailed

Query == Fetch \/ FetchAnswer \/ FetchError \/ Settle

BellNext == (Next /\ UNCHANGED browser) \/ Clicks \/ Network \/ Query

(* The timer of the query fires, requests are answered, messages arrive.   *)
BellFairness ==
    /\ WF_all(Fetch) /\ WF_all(FetchAnswer)
    /\ WF_all(ChangeApplied \/ ChangeFailed) /\ WF_all(Settle)
    /\ WF_all(Receive)

BellSpec == BellInit /\ [][BellNext]_all
FairBellSpec == BellSpec /\ Fairness /\ BellFairness

-----------------------------------------------------------------------------
(* Properties. *)

(* Every variable of the browser keeps its shape. *)
BellTypeOK ==
    /\ TypeOK
    /\ mode \in BOOLEAN /\ notes \in [Simulated -> Note]
    /\ bell \in Nat /\ data \in Count /\ fetch \in Count /\ change \in Change
    /\ clicks \in 0..MaxClicks

(* Optimistic decrements, cancelled requests, repeated clicks and clears   *)
(* never take the bell below the last answer of the server, or below the   *)
(* unread simulated notifications in Simulator Mode: it may ring for       *)
(* nothing, never keep silent about what the browser knows of.             *)
BellNotTooLow ==
    IF mode THEN bell >= SimulatedUnread(notes)
    ELSE data # None => bell >= data

(* Once Simulator Mode stays off the browser ends up knowing the number of *)
(* unread notifications, whatever was cancelled, failed, lost or was read  *)
(* elsewhere: the poll makes up for every lost announcement ("will be      *)
(* picked up on the next poll", notifications-emitter.ts:97).              *)
CountCatchesUp == <>[](~mode) => <>[](data = Unread)

=============================================================================
