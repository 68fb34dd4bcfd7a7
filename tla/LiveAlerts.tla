----------------------------- MODULE LiveAlerts -----------------------------
(***************************************************************************)
(* Operators at their alert pages.  Two lists meet in a browser:           *)
(*                                                                         *)
(* - the live store (stores/live-alert-store.ts) of what the bridge emits, *)
(*   shown in Simulator Mode, changed by clicks and never persisted;       *)
(* - the query of the alerts table (hooks/use-alerts.ts), shown otherwise; *)
(*   a click sends PATCH /alerts/:id (routes/alerts.ts), which writes      *)
(*   whatever status it is asked for.  No other operator is told of it.    *)
(*                                                                         *)
(* A live alert has no row: no route inserts alerts, so a PATCH for a live *)
(* alert that is not simulated is answered with 404.                       *)
(***************************************************************************)
EXTENDS Naturals, Sequences, FiniteSets

CONSTANTS
    Operator,
    Stored,               \* rows of the alerts table
    Live, Simulated,      \* alerts the bridge raises, and those marked isSimulated
    MaxListed,            \* MAX_ALERTS: length of the store's list
    None,
    MaxClicks,            \* bound: what the operators do
    MaxMishaps            \* bound: alerts emitted, resets, repeats, failed requests

ASSUME SimulatedAssumption == Simulated \subseteq Live
ASSUME BoundsAssumption == MaxListed \in Nat /\ MaxClicks \in Nat /\ MaxMishaps \in Nat

Status == {"open", "acknowledged", "resolved"}
ASSUME NoneAssumption == None \notin Status \cup {"ok", "error"}
Alert == Stored \cup Live

VARIABLES
    row,           \* row[a]: column status
    applied,       \* applied[v]: updates of v's the table has taken
    live,          \* live[v][a]: status in the store, or None
    ids,           \* ids[v]: alertIds, newest first
    history,       \* history[v][a]: alertHistory, newest first
    mode,          \* mode[v]: Simulator Mode
    list,          \* list[v]: the query's last answer, or None
    due,           \* due[v]: a request is due, "again" for the one retry, or given up
    fetch,         \* fetch[v]: what the server has read for the request in flight, or None
    patch,         \* patch[v]: mutations in flight
    clicks, mishaps

store == <<live, ids, history>>
query == <<list, due, fetch>>
vars == <<row, applied, store, mode, query, patch, clicks, mishaps>>

Click == clicks < MaxClicks /\ clicks' = clicks + 1
Mishap == mishaps < MaxMishaps /\ mishaps' = mishaps + 1

Answer == [row : [Stored -> Status], applied : Nat] \cup {None}
Patch == [id : Nat, alert : Alert, to : Status, seen : Status, answer : {None, "ok", "error"}]

Unlisted == [a \in Live |-> None]
NoHistory == [a \in Live |-> <<>>]

Init ==
    /\ row = [a \in Stored |-> "open"] /\ applied = [v \in Operator |-> 0]
    /\ live = [v \in Operator |-> Unlisted] /\ ids = [v \in Operator |-> <<>>]
    /\ history = [v \in Operator |-> NoHistory]
    /\ mode \in [Operator -> BOOLEAN]
    /\ list = [v \in Operator |-> None] /\ due = [v \in Operator |-> "yes"]
    /\ fetch = [v \in Operator |-> None] /\ patch = [v \in Operator |-> {}]
    /\ clicks = 0 /\ mishaps = 0

-----------------------------------------------------------------------------
(* The store. *)

Change(from, to) == <<[from |-> from, to |-> to]>>

(* acknowledgeAlert() and resolveAlert(): nothing for an unknown alert or  *)
(* one that has the status already.                                        *)
SetStatusAlways(v, a, to) ==      \* fault: no test for the same status
    IF a \in Live /\ live[v][a] # None
      THEN /\ live' = [live EXCEPT ![v][a] = to]
           /\ history' = [history EXCEPT ![v][a] = Change(live[v][a], to) \o @]
           /\ UNCHANGED ids
      ELSE UNCHANGED store

SetStatus(v, a, to) ==
    IF a \in Live /\ live[v][a] \notin {None, to}
      THEN /\ live' = [live EXCEPT ![v][a] = to]
           /\ history' = [history EXCEPT ![v][a] = Change(live[v][a], to) \o @]
           /\ UNCHANGED ids
      ELSE UNCHANGED store

ShortenLate(s) == SubSeq(s, 1, IF Len(s) <= MaxListed THEN Len(s) ELSE MaxListed + 1)   \* fault: slices one late

Shorten(s) == SubSeq(s, 1, IF Len(s) < MaxListed THEN Len(s) ELSE MaxListed)

(* addAlert(): an id that is in the map, listed or not, is skipped. *)
Prepend(v, a) ==
    /\ live' = [live EXCEPT ![v][a] = "open"]
    /\ history' = [history EXCEPT ![v][a] = Change("open", "open") \o @]
    /\ ids' = [ids EXCEPT ![v] = Shorten(<<a>> \o @)]

Add(v, a) == IF live[v][a] = None THEN Prepend(v, a) ELSE UNCHANGED store

(* clearAlerts() *)
ClearAlertsOnly(v) ==      \* fault: leaves the list
    /\ live' = [live EXCEPT ![v] = Unlisted]
    /\ history' = [history EXCEPT ![v] = NoHistory]
    /\ UNCHANGED ids

Clear(v) ==
    /\ live' = [live EXCEPT ![v] = Unlisted]
    /\ ids' = [ids EXCEPT ![v] = <<>>]
    /\ history' = [history EXCEPT ![v] = NoHistory]

-----------------------------------------------------------------------------
(* Events of the bridge.  A browser that is not connected misses them; one *)
(* that subscribed to rooms gets an alert once for each.                   *)

AlertCreated(v, a) ==
    /\ Mishap
    /\ Add(v, a)
    /\ UNCHANGED <<row, applied, mode, query, patch, clicks>>

SimulatorReset(v) ==
    /\ Mishap
    /\ Clear(v)
    /\ UNCHANGED <<row, applied, mode, query, patch, clicks>>

-----------------------------------------------------------------------------
(* The query: requested on mount and when it is invalidated, not polled;   *)
(* a request that fails is repeated once.                                  *)

Fetch(v) ==
    /\ due[v] \in {"yes", "again"} /\ fetch[v] = None
    /\ fetch' = [fetch EXCEPT ![v] = [row |-> row, applied |-> applied[v]]]
    /\ UNCHANGED <<row, applied, store, mode, list, due, patch, clicks, mishaps>>

FetchAnswer(v) ==
    /\ fetch[v] # None
    /\ list' = [list EXCEPT ![v] = fetch[v]]
    /\ due' = [due EXCEPT ![v] = "no"]
    /\ fetch' = [fetch EXCEPT ![v] = None]
    /\ UNCHANGED <<row, applied, store, mode, patch, clicks, mishaps>>

FetchError(v) ==
    /\ fetch[v] # None
    /\ Mishap
    /\ due' = [due EXCEPT ![v] = IF @ = "yes" THEN "again" ELSE "given up"]
    /\ fetch' = [fetch EXCEPT ![v] = None]
    /\ UNCHANGED <<row, applied, store, mode, list, patch, clicks>>

-----------------------------------------------------------------------------
(* The page.  A button is there for the status the page shows. *)

Shown(v, a) ==
    IF mode[v] THEN IF \E i \in DOMAIN ids[v] : ids[v][i] = a THEN live[v][a] ELSE None
    ELSE IF a \in Stored /\ list[v] # None THEN list[v].row[a] ELSE None

OfferedAlways(seen, to) == seen # None /\ seen # to      \* fault: offers to acknowledge what is resolved

Offered(seen, to) ==
    \/ to = "acknowledged" /\ seen = "open"
    \/ to = "resolved" /\ seen \in {"open", "acknowledged"}

(* onMutate cancels the request in flight and changes the store.           *)
Act(v, a, to) ==
    /\ Click
    /\ Offered(Shown(v, a), to)
    /\ SetStatus(v, a, to)
    /\ fetch' = [fetch EXCEPT ![v] = None]
    /\ due' = [due EXCEPT ![v] = IF fetch[v] = None THEN @ ELSE "no"]
    /\ patch' = [patch EXCEPT ![v] = @ \cup
           {[id |-> clicks, alert |-> a, to |-> to, seen |-> Shown(v, a), answer |-> None]}]
    /\ UNCHANGED <<row, applied, mode, list, mishaps>>

Answered(v, p, answer) ==
    patch' = [patch EXCEPT ![v] = (@ \ {p}) \cup {[p EXCEPT !.answer = answer]}]

(* The mutation of a simulated alert changes the store again.  A browser   *)
(* that is offline runs it when it is back, in the order of the clicks.    *)
ActSimulated(v, p) ==
    /\ p \in patch[v] /\ p.answer = None /\ p.alert \in Simulated
    /\ \A q \in patch[v] : q.answer = None /\ q.alert \in Simulated => p.id <= q.id
    /\ SetStatus(v, p.alert, p.to)
    /\ Answered(v, p, "ok")
    /\ UNCHANGED <<row, applied, mode, query, clicks, mishaps>>

(* PATCH /alerts/:id: one UPDATE, or 404. *)
Write(v, a, to) ==
    /\ row' = [row EXCEPT ![a] = to]
    /\ applied' = [applied EXCEPT ![v] = @ + 1]

PatchApplied(v, p) ==
    /\ p \in patch[v] /\ p.answer = None /\ p.alert \in Stored
    /\ Write(v, p.alert, p.to)
    /\ Answered(v, p, "ok")
    /\ UNCHANGED <<store, mode, query, clicks, mishaps>>

PatchNotFound(v, p) ==
    /\ p \in patch[v] /\ p.answer = None /\ p.alert \in Live \ Simulated
    /\ Answered(v, p, "error")
    /\ UNCHANGED <<row, applied, store, mode, query, clicks, mishaps>>

(* The request or its answer is lost. *)
PatchFailed(v, p) ==
    /\ p \in patch[v] /\ p.answer = None /\ p.alert \notin Simulated
    /\ Mishap
    /\ \/ p.alert \in Stored /\ Write(v, p.alert, p.to)
       \/ UNCHANGED <<row, applied>>
    /\ Answered(v, p, "error")
    /\ UNCHANGED <<store, mode, query, clicks>>

(* onError restores the query under a key that no query has; onSettled     *)
(* invalidates: a request under way is started over.                       *)
Settled(v, p) ==
    /\ p \in patch[v] /\ p.answer # None
    /\ patch' = [patch EXCEPT ![v] = @ \ {p}]
    /\ UNCHANGED <<row, applied, store, mode, list, clicks, mishaps>>

Invalidate(v) ==
    /\ due' = [due EXCEPT ![v] = "yes"]
    /\ fetch' = [fetch EXCEPT ![v] = None]

SettleIfApplied(v, p) ==      \* fault: onSuccess
    /\ Settled(v, p)
    /\ IF p.answer = "ok" THEN Invalidate(v) ELSE UNCHANGED <<due, fetch>>

SettleJoining(v, p) ==      \* fault: cancelRefetch: false
    /\ Settled(v, p)
    /\ due' = [due EXCEPT ![v] = "yes"] /\ UNCHANGED fetch

Settle(v, p) == Settled(v, p) /\ Invalidate(v)

Toggle(v) ==
    /\ Click
    /\ mode' = [mode EXCEPT ![v] = ~@]
    /\ UNCHANGED <<row, applied, store, query, patch, mishaps>>

-----------------------------------------------------------------------------
Server(v, p) == ActSimulated(v, p) \/ PatchApplied(v, p) \/ PatchNotFound(v, p) \/ PatchFailed(v, p)

Browser(v) ==
    \/ SimulatorReset(v) \/ \E a \in Live : AlertCreated(v, a)
    \/ Fetch(v) \/ FetchAnswer(v) \/ FetchError(v) \/ Toggle(v)
    \/ \E a \in Alert, to \in Status : Act(v, a, to)
    \/ \E p \in patch[v] : Server(v, p) \/ Settle(v, p)

Next == \E v \in Operator : Browser(v)

(* Requests are answered one way or the other and the query client sends   *)
(* what is due.                                                            *)
Fairness ==
    \A v \in Operator :
        /\ WF_vars(Fetch(v)) /\ WF_vars(FetchAnswer(v))
        /\ WF_vars(\E p \in patch[v] : Server(v, p))
        /\ WF_vars(\E p \in patch[v] : Settle(v, p))

Spec == Init /\ [][Next]_vars
FairSpec == Spec /\ Fairness

-----------------------------------------------------------------------------
(* Properties. *)

(* Every variable keeps its shape. *)
TypeOK ==
    /\ row \in [Stored -> Status] /\ applied \in [Operator -> Nat]
    /\ live \in [Operator -> [Live -> Status \cup {None}]]
    /\ ids \in [Operator -> Seq(Live)] /\ \A v \in Operator : Len(ids[v]) <= MaxListed
    /\ history \in [Operator -> [Live -> Seq([from : Status, to : Status])]]
    /\ mode \in [Operator -> BOOLEAN]
    /\ list \in [Operator -> Answer] /\ fetch \in [Operator -> Answer]
    /\ due \in [Operator -> {"no", "yes", "again", "given up"}]
    /\ patch \in [Operator -> SUBSET Patch]
    /\ clicks \in 0..MaxClicks /\ mishaps \in 0..MaxMishaps

(* The timeline of an alert accounts for its status: it starts with the    *)
(* alert's arrival, every other entry is a change, each follows on the one *)
(* before it and the last one led to the status the page shows, although   *)
(* events, clicks and resumed mutations write both without looking at the  *)
(* timeline, and an alert that fell off the capped list lives on.          *)
Timeline(h, status) ==
    IF status = None THEN h = <<>>
    ELSE /\ h # <<>> /\ h[1].to = status
         /\ h[Len(h)] = [from |-> "open", to |-> "open"]
         /\ \A i \in 1..(Len(h) - 1) : h[i].from = h[i + 1].to /\ h[i].from # h[i].to
HistoryIsTimeline ==
    \A v \in Operator, a \in Live : Timeline(history[v][a], live[v][a])

(* The list shows each alert of the store once and leaves none out unless  *)
(* it is full.                                                             *)
ListMatchesStore ==
    \A v \in Operator :
        LET listed == {ids[v][i] : i \in DOMAIN ids[v]}
            known == {a \in Live : live[v][a] # None} IN
        /\ Cardinality(listed) = Len(ids[v]) /\ listed \subseteq known
        /\ Len(ids[v]) = MaxListed \/ listed = known

(* A resolved alert leaves that status only by a click on a page that did  *)
(* not show it resolved: the route writes what it is asked for, whatever   *)
(* is stored.                                                              *)
ReopenedUnseen ==
    [][\A a \in Stored :
          row[a] = "resolved" /\ row'[a] # "resolved" =>
             \E v \in Operator : \E p \in patch[v] \ patch'[v] :
                p.alert = a /\ p.seen # "resolved" /\ p.to = row'[a]
      ]_vars

(* Read your writes: a page at rest shows a list that was read after the   *)
(* last update its operator's clicks made, the ones included whose answer  *)
(* was lost.                                                               *)
AtRest(v) == patch[v] = {} /\ due[v] = "no"
OwnChangesListed ==
    \A v \in Operator : AtRest(v) /\ list[v] # None => list[v].applied = applied[v]

(* And every page gets there, unless its request and the retry failed: no  *)
(* cancelled, lost or overtaken request leaves it on the old list.         *)
PageCatchesUp ==
    \A v \in Operator :
        []<>(\/ due[v] = "given up"
             \/ patch[v] = {} /\ list[v] # None /\ list[v].applied = applied[v])

=============================================================================
