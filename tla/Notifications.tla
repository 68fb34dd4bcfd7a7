---------------------------- MODULE Notifications ---------------------------
(***************************************************************************)
(* From an alert to its notifications: the API as a Socket.IO client of    *)
(* the bridge (apps/api/src/socket/bridge-listener.ts), the routes of the  *)
(* notifications table and the client that announces new rows             *)
(* (notifications-emitter.ts).                                             *)
(*                                                                         *)
(* Several alerts are handled at a time; every awaited statement is an     *)
(* action, task[s].step is the one that runs next.  Users and rules change *)
(* in between.  A source is what gives rise to notifications: an alert or  *)
(* a POST to the route.  What is announced reaches every browser; wire is  *)
(* what is on its way to one of them.                                      *)
(***************************************************************************)
EXTENDS Naturals, Sequences, FiniteSets

CONSTANTS
    User,
    Alert, Simulated,    \* alerts, and those of them marked isSimulated
    Post,                \* requests to POST /notifications
    SeedRole,            \* the role each user starts with
    CustomerOf,          \* users.customer_id, or None
    EstateOwner,         \* the customer of an alert's estate, or None
    Preferences,         \* values of rolePreferences, as the set of enabled roles; None: no rule
    None,
    AllowUnauthenticated,
    MaxMishaps           \* bound: changes of users and rules, lost connections,
                         \* restarts, failed statements, lost messages,
                         \* notifications read elsewhere

ASSUME UserAssumption == IsFiniteSet(User)
ASSUME SimulatedAssumption == Simulated \subseteq Alert
ASSUME PreferencesAssumption ==
    Preferences \subseteq (SUBSET {"admin", "support", "installer", "customer"}) \cup {None}
ASSUME SeedRoleAssumption ==
    SeedRole \in [User -> {"admin", "support", "installer", "customer"}]
ASSUME MishapsAssumption == MaxMishaps \in Nat

Source == Alert \cup Post
PlatformRole == {"admin", "support", "installer"}
RoleName == PlatformRole \cup {"customer"}

VARIABLES
    role, active,      \* users.role_id and users.is_active
    prefs,             \* rolePreferences of the rule for the alerts' category
    listener,          \* the API's connection that hears alerts
    emitter,           \* the API's connection that announces notifications
    token,             \* are the service tokens of the two younger than an hour?
    task,              \* what is being handled
    rows, unread,      \* rows[s][u], unread[s][u]: notifications of u from s
    wire,              \* messages on their way to the browser
    mishaps            \* what went wrong or was changed so far

directory == <<role, active, prefs>>
links == <<listener, emitter, token>>
table == <<rows, unread>>
vars == <<directory, links, task, table, wire, mishaps>>

Mishap == mishaps < MaxMishaps /\ mishaps' = mishaps + 1

Nobody == [u \in User |-> 0]
Step == {"unraised", "rule", "platform", "customers", "insert", "audit", "announce",
         "done", "dropped"}
InProgress == Step \ {"unraised", "done", "dropped"}
Task == [step : Step, roles : SUBSET RoleName, targets : [User -> Nat]]
Message == [kind : {"alert", "simulated", "real"}, source : Source] \cup [kind : {"reset"}]

Init ==
    /\ role = SeedRole /\ active = [u \in User |-> TRUE]
    /\ prefs \in Preferences
    /\ listener = "connecting" /\ emitter = "connecting" /\ token = TRUE
    /\ task = [s \in Source |-> [step |-> "unraised", roles |-> {}, targets |-> Nobody]]
    /\ rows = [s \in Source |-> Nobody] /\ unread = rows
    /\ wire = <<>> /\ mishaps = 0

-----------------------------------------------------------------------------
(* The directory: PATCH and DELETE of users, PATCH of a rule.  A rule is   *)
(* neither created nor deleted by a route.                                 *)

UpdateUser(u, r, a) ==
    /\ Mishap
    /\ role' = [role EXCEPT ![u] = r]
    /\ active' = [active EXCEPT ![u] = a]
    /\ UNCHANGED <<prefs, links, task, table, wire>>

UpdateRule(p) ==
    /\ Mishap
    /\ prefs # None /\ p # None
    /\ prefs' = p
    /\ UNCHANGED <<role, active, links, task, table, wire>>

-----------------------------------------------------------------------------
(* The two connections.  Their token is made when the client is, and the   *)
(* bridge refuses one that has expired; a refused client does not try      *)
(* again by itself.                                                        *)

Admitted == token \/ AllowUnauthenticated

Expire ==
    /\ Mishap
    /\ token /\ token' = FALSE
    /\ UNCHANGED <<directory, listener, emitter, task, table, wire>>

Lose ==
    /\ Mishap
    /\ \/ listener = "up" /\ listener' = "connecting" /\ UNCHANGED emitter
       \/ emitter = "up" /\ emitter' = "connecting" /\ UNCHANGED listener
    /\ UNCHANGED <<directory, token, task, table, wire>>

ListenerAnswer ==
    /\ listener = "connecting"
    /\ listener' = IF Admitted THEN "up" ELSE "refused"
    /\ UNCHANGED <<directory, emitter, token, task, table, wire, mishaps>>

EmitterAnswer ==
    /\ emitter = "connecting"
    /\ emitter' = IF Admitted THEN "up" ELSE "stopped"
    /\ UNCHANGED <<directory, listener, token, task, table, wire, mishaps>>

(* reconnectionAttempts: 5 *)
EmitterGivesUp ==
    /\ Mishap
    /\ emitter = "connecting" /\ emitter' = "stopped"
    /\ UNCHANGED <<directory, listener, token, task, table, wire>>

-----------------------------------------------------------------------------
(* The statements of a handler. *)

At(s, step) == task[s].step = step
Continue(s, step) == task' = [task EXCEPT ![s].step = step]

(* The bridge emits alert:created to every client.  The API's handler      *)
(* announces a simulated alert at once and starts on a real one.           *)
Raise(a) ==
    /\ At(a, "unraised")
    /\ wire' = IF a \in Simulated THEN Append(wire, [kind |-> "alert", source |-> a]) ELSE wire
    /\ Continue(a, IF listener # "up" THEN "dropped"
                   ELSE IF a \in Simulated THEN "announce" ELSE "rule")
    /\ UNCHANGED <<directory, links, table, mishaps>>

Enabled == IF prefs = None THEN {"admin", "support"} ELSE prefs

SelectRule(a) ==
    /\ At(a, "rule")
    /\ task' = [task EXCEPT ![a].roles = Enabled,
                            ![a].step = IF Enabled = {} THEN "done" ELSE "platform"]
    /\ UNCHANGED <<directory, links, table, wire, mishaps>>

SelectPlatformUsers(a) ==
    /\ At(a, "platform")
    /\ LET wanted(u) == active[u] /\ role[u] \in task[a].roles \cap PlatformRole IN
       task' = [task EXCEPT ![a].targets = [u \in User |-> IF wanted(u) THEN 1 ELSE 0],
                            ![a].step = "customers"]
    /\ UNCHANGED <<directory, links, table, wire, mishaps>>

(* Customer users of the estate's own customer, unless already a target. *)
AddEveryone(targets, found) ==      \* fault: no existingIds
    [u \in User |-> IF u \in found THEN targets[u] + 1 ELSE targets[u]]

AddMissing(targets, found) ==
    [u \in User |-> IF u \in found /\ targets[u] = 0 THEN 1 ELSE targets[u]]

SelectCustomerUsers(a) ==
    /\ At(a, "customers")
    /\ LET found == IF "customer" \in task[a].roles /\ EstateOwner[a] # None
                      THEN {u \in User : active[u] /\ role[u] = "customer"
                                            /\ CustomerOf[u] = EstateOwner[a]}
                      ELSE {}
           targets == AddMissing(task[a].targets, found) IN
       task' = [task EXCEPT ![a].targets = targets,
                            ![a].step = IF targets = Nobody THEN "done" ELSE "insert"]
    /\ UNCHANGED <<directory, links, table, wire, mishaps>>

InsertRows(s, to) ==
    /\ rows' = [rows EXCEPT ![s] = to]
    /\ unread' = [unread EXCEPT ![s] = to]

InsertNotAwaited(a) ==      \* fault: announces without waiting for the rows
    /\ At(a, "insert")
    /\ Continue(a, "announce")
    /\ UNCHANGED <<directory, links, table, wire, mishaps>>

Insert(a) ==
    /\ At(a, "insert")
    /\ InsertRows(a, task[a].targets)
    /\ Continue(a, "announce")
    /\ UNCHANGED <<directory, links, wire, mishaps>>

(* POST /: the row, the audit entry, the announcement. *)
Create(p, u) ==
    /\ p \in Post /\ At(p, "unraised")
    /\ LET to == [Nobody EXCEPT ![u] = 1] IN
       /\ InsertRows(p, to)
       /\ task' = [task EXCEPT ![p].targets = to, ![p].step = "audit"]
    /\ UNCHANGED <<directory, links, wire, mishaps>>

LogAudit(p) ==
    /\ At(p, "audit")
    /\ Continue(p, "announce")
    /\ UNCHANGED <<directory, links, table, wire, mishaps>>

-----------------------------------------------------------------------------
(* emitNotification(), once per row.  A client that is not connected is    *)
(* told to connect and the announcement is dropped.                        *)
Announcement(s) ==
    IF s \in Simulated THEN <<[kind |-> "simulated", source |-> s]>>
    ELSE [i \in 1..Cardinality({u \in User : task[s].targets[u] > 0}) |->
             [kind |-> "real", source |-> s]]

Announce(s) ==
    /\ At(s, "announce")
    /\ IF emitter = "up"
         THEN wire' = wire \o Announcement(s) /\ UNCHANGED emitter
         ELSE emitter' = "connecting" /\ UNCHANGED wire
    /\ Continue(s, "done")
    /\ UNCHANGED <<directory, listener, token, table, mishaps>>

(* A statement throws: the handler gives up, what it wrote stays. *)
Fail(s) ==
    /\ task[s].step \in InProgress \ {"announce"}
    /\ Mishap
    /\ Continue(s, "dropped")
    /\ UNCHANGED <<directory, links, table, wire>>

(* The API process stops and starts again, with new tokens. *)
Restart ==
    /\ Mishap
    /\ task' = [s \in Source |-> IF task[s].step \in InProgress
                                   THEN [task[s] EXCEPT !.step = "dropped"] ELSE task[s]]
    /\ listener' = "connecting" /\ emitter' = "connecting" /\ token' = TRUE
    /\ UNCHANGED <<directory, table, wire>>

-----------------------------------------------------------------------------
(* PATCH /:id/read and PATCH /read-all of a user's own rows, from any      *)
(* device.                                                                 *)

ReadCountdown(u, those) ==      \* fault: a counter that each request takes one off
    unread' = [s \in Source |-> IF s \in those THEN [unread[s] EXCEPT ![u] = @ - 1] ELSE unread[s]]

ReadUpdate(u, those) ==
    unread' = [s \in Source |-> IF s \in those THEN [unread[s] EXCEPT ![u] = 0] ELSE unread[s]]

MarkRead(u, s) ==
    /\ Mishap
    /\ rows[s][u] > 0                          \* else 404
    /\ ReadUpdate(u, {s})
    /\ UNCHANGED <<directory, links, task, rows, wire>>

MarkAllRead(u) ==
    /\ Mishap
    /\ ReadUpdate(u, Source)
    /\ UNCHANGED <<directory, links, task, rows, wire>>

-----------------------------------------------------------------------------
Statement(s) ==
    \/ SelectRule(s) \/ SelectPlatformUsers(s) \/ SelectCustomerUsers(s) \/ Insert(s)
    \/ LogAudit(s) \/ Announce(s)

Arrival ==
    \/ \E a \in Alert : Raise(a)
    \/ \E p \in Post, u \in User : Create(p, u)

Directory ==
    \/ \E u \in User, r \in RoleName, a \in BOOLEAN : UpdateUser(u, r, a)
    \/ \E p \in Preferences : UpdateRule(p)

Connection == Expire \/ Lose \/ ListenerAnswer \/ EmitterAnswer \/ EmitterGivesUp \/ Restart

Next ==
    \/ Arrival \/ Directory \/ Connection
    \/ \E s \in Source : Statement(s) \/ Fail(s)
    \/ \E u \in User : MarkAllRead(u) \/ \E s \in Source : MarkRead(u, s)

(* Statements answer and connection attempts end; nothing else is assumed. *)
Fairness ==
    /\ \A s \in Source : WF_vars(Statement(s))
    /\ WF_vars(ListenerAnswer) /\ WF_vars(EmitterAnswer)

Spec == Init /\ [][Next]_vars
FairSpec == Spec /\ Fairness

-----------------------------------------------------------------------------
(* Properties. *)

(* Every variable keeps its shape. *)
TypeOK ==
    /\ role \in [User -> RoleName] /\ active \in [User -> BOOLEAN]
    /\ prefs \in Preferences
    /\ listener \in {"connecting", "up", "refused"}
    /\ emitter \in {"connecting", "up", "stopped"}
    /\ token \in BOOLEAN
    /\ task \in [Source -> Task]
    /\ rows \in [Source -> [User -> Nat]] /\ unread \in [Source -> [User -> Nat]]
    /\ wire \in Seq(Message) /\ mishaps \in 0..MaxMishaps

(* The pipeline of an alert, with users changing roles between its two     *)
(* user queries, failures and restarts, writes what a Mailbox delivers:    *)
(* all rows of an alert at once, one per user, each only ever read.        *)
Inbox == INSTANCE Mailbox
DeliversLikeAMailbox == Inbox!Spec

(* A browser that hears of a notification finds it in the table: rows are  *)
(* announced after they were committed, never on the way there.            *)
AnnouncedIsStored ==
    \A i \in DOMAIN wire :
        wire[i].kind = "real" => \E u \in User : rows[wire[i].source][u] > 0

(* The connection the alerts come in by "is established once at server     *)
(* startup and auto-reconnects if the realtime service is temporarily      *)
(* unavailable" (bridge-listener.ts:16).                                   *)
ListenerReconnects == (listener # "up") ~> (listener = "up")

=============================================================================
