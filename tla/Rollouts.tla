------------------------------ MODULE Rollouts ------------------------------
(***************************************************************************)
(* The firmware rollout routes of the API (apps/api/src/routes/rollouts.ts)*)
(* over the tables rollouts, rollout_devices and audit_log.                *)
(*                                                                         *)
(* Every route is a chain of awaited SQL statements without a transaction: *)
(* a SELECT that the guards look at, one or two UPDATEs that name the row  *)
(* by id only, and an INSERT into the audit log.  Each statement is one    *)
(* action of the request in progress, handler[h]; handler[h].step is the   *)
(* statement it runs next and handler[h].seen the status its SELECT found. *)
(* A request refused with 4xx changes nothing and is a stuttering step.    *)
(*                                                                         *)
(* What executes a rollout is not in the repository: the Worker actions    *)
(* are any program that keeps to the two transition tables of this file.   *)
(***************************************************************************)
EXTENDS Naturals, Sequences

CONSTANTS
    Rollout,      \* ids of rollouts rows
    Handler,      \* requests in progress at the same time
    MaxDevices,   \* bound: devices of the largest group
    MaxAborts     \* bound: requests that die between two statements

ASSUME MaxDevicesAssumption == MaxDevices \in Nat
ASSUME MaxAbortsAssumption == MaxAborts \in Nat

VARIABLES
    status,        \* rollouts.status, or "unborn" before the INSERT
    deviceCount,   \* rollouts.device_count
    rows,          \* rows[r]: status of each rollout_devices row of r
    audit,         \* audit[r]: lifecycle events in the audit log
    handler,       \* the requests in progress
    aborts         \* requests that died so far

vars == <<status, deviceCount, rows, audit, handler, aborts>>
tables == <<status, deviceCount, rows, audit>>

RolloutStatus == {"draft", "running", "completed", "failed", "cancelled"}
RowStatus == {"pending", "running", "succeeded", "failed", "skipped", "cancelled"}

-----------------------------------------------------------------------------
(* The transition tables. *)

RestartableTransition(from, to) ==      \* fault: a cancelled rollout may start again
    \/ from \in {"draft", "cancelled"} /\ to = "running"
    \/ from = "running" /\ to \in {"completed", "failed", "cancelled"}

isValidRolloutTransition(from, to) ==
    \/ from = "draft" /\ to = "running"
    \/ from = "running" /\ to \in {"completed", "failed", "cancelled"}

isValidDeviceTransition(from, to) ==
    \/ from = "pending" /\ to \in {"running", "skipped", "cancelled"}
    \/ from = "running" /\ to \in {"succeeded", "failed"}
    \/ from = "failed" /\ to = "pending"

-----------------------------------------------------------------------------
Idle == [op |-> "idle"]
Lifecycle == {"created", "started", "cancelled", "retried"}
Request ==
    {Idle}
    \cup [op : {"created"}, step : {"insert"}, count : 1..MaxDevices]
    \cup [op : {"created"}, step : {"rows"}, rollout : Rollout, count : 1..MaxDevices]
    \cup [op : Lifecycle, step : {"update", "devices", "reopen"},
          rollout : Rollout, seen : RolloutStatus]
    \cup [op : Lifecycle, step : {"audit"}, rollout : Rollout]

Init ==
    /\ status = [r \in Rollout |-> "unborn"]
    /\ deviceCount = [r \in Rollout |-> 0]
    /\ rows = [r \in Rollout |-> <<>>]
    /\ audit = [r \in Rollout |-> {}]
    /\ handler = [h \in Handler |-> Idle]
    /\ aborts = 0

Becomes(h, request) == handler' = [handler EXCEPT ![h] = request]

Accept(h, request) ==
    /\ handler[h] = Idle
    /\ Becomes(h, request)
    /\ UNCHANGED <<tables, aborts>>

At(h, op, step) == handler[h].op = op /\ handler[h].step = step

(* The request goes on to its next statement for the same rollout. *)
Continue(h, step) == Becomes(h, [handler[h] EXCEPT !.step = step])
ToAudit(h) ==
    Becomes(h, [op |-> handler[h].op, step |-> "audit", rollout |-> handler[h].rollout])

SetStatus(r, s) == status' = [status EXCEPT ![r] = s]

(* UPDATE rollout_devices SET status = to WHERE rollout_id = r AND status IN from *)
MoveRows(r, from, to) ==
    rows' = [rows EXCEPT ![r] = [i \in DOMAIN @ |-> IF @[i] \in from THEN to ELSE @[i]]]

-----------------------------------------------------------------------------
(* POST / : SELECT the group's devices, INSERT the draft, INSERT the rows. *)

CreateRead(h, n) ==
    /\ n > 0                                   \* else 400 EMPTY_GROUP
    /\ Accept(h, [op |-> "created", step |-> "insert", count |-> n])

CreateInsert(h, r) ==
    /\ At(h, "created", "insert")
    /\ status[r] = "unborn"
    /\ SetStatus(r, "draft")
    /\ deviceCount' = [deviceCount EXCEPT ![r] = handler[h].count]
    /\ Becomes(h, [op |-> "created", step |-> "rows", rollout |-> r, count |-> handler[h].count])
    /\ UNCHANGED <<rows, audit, aborts>>

InsertRows(h, n, s) ==
    /\ At(h, "created", "rows")
    /\ rows' = [rows EXCEPT ![handler[h].rollout] = [i \in 1..n |-> s]]
    /\ ToAudit(h)
    /\ UNCHANGED <<status, deviceCount, audit, aborts>>

CreateRowsReread(h) ==      \* fault: the group is read again for the rows
    \E n \in 1..MaxDevices : InsertRows(h, n, "pending")

CreateRowsDraft(h) ==      \* fault: the rows get the rollout's own status
    At(h, "created", "rows") /\ InsertRows(h, handler[h].count, "draft")

CreateRows(h) == At(h, "created", "rows") /\ InsertRows(h, handler[h].count, "pending")

-----------------------------------------------------------------------------
(* POST /:id/start *)

StartRead(h, r) ==
    /\ status[r] # "unborn"                    \* else 404
    /\ isValidRolloutTransition(status[r], "running")
    /\ Accept(h, [op |-> "started", step |-> "update", rollout |-> r, seen |-> status[r]])

StartUpdate(h) ==
    /\ At(h, "started", "update")
    /\ SetStatus(handler[h].rollout, "running")
    /\ ToAudit(h)
    /\ UNCHANGED <<deviceCount, rows, audit, aborts>>

(* POST /:id/cancel *)

CancelRead(h, r) ==
    /\ status[r] # "unborn"                    \* else 404
    /\ isValidRolloutTransition(status[r], "cancelled")
    /\ Accept(h, [op |-> "cancelled", step |-> "update", rollout |-> r, seen |-> status[r]])

CancelUpdate(h) ==
    /\ At(h, "cancelled", "update")
    /\ SetStatus(handler[h].rollout, "cancelled")
    /\ Continue(h, "devices")
    /\ UNCHANGED <<deviceCount, rows, audit, aborts>>

CancelDevicesSilent(h) ==      \* fault: answers without an audit row
    /\ At(h, "cancelled", "devices")
    /\ MoveRows(handler[h].rollout, {"pending"}, "cancelled")
    /\ Becomes(h, Idle)
    /\ UNCHANGED <<status, deviceCount, audit, aborts>>

CancelDevices(h) ==
    /\ At(h, "cancelled", "devices")
    /\ MoveRows(handler[h].rollout, {"pending"}, "cancelled")
    /\ ToAudit(h)
    /\ UNCHANGED <<status, deviceCount, audit, aborts>>

(* POST /:id/retry: the rollout goes back to running only if the SELECT    *)
(* found it terminal and the UPDATE of the rows changed one.               *)

RetryStatus == {"running", "completed", "failed"}

RetryRead(h, r) ==
    /\ status[r] \in RetryStatus               \* else 404 or 409
    /\ Accept(h, [op |-> "retried", step |-> "devices", rollout |-> r, seen |-> status[r]])

ResetEverySettled == {"failed", "succeeded"}      \* fault: retries what succeeded
ResetStatus == {"failed"}

RetryDevices(h) ==
    /\ At(h, "retried", "devices")
    /\ LET r == handler[h].rollout
           retried == \E i \in DOMAIN rows[r] : rows[r][i] \in ResetStatus IN
       /\ MoveRows(r, ResetStatus, "pending")
       /\ IF retried /\ handler[h].seen \in {"completed", "failed"}
            THEN Continue(h, "reopen")
            ELSE ToAudit(h)
    /\ UNCHANGED <<status, deviceCount, audit, aborts>>

RetryReopen(h) ==
    /\ At(h, "retried", "reopen")
    /\ SetStatus(handler[h].rollout, "running")
    /\ ToAudit(h)
    /\ UNCHANGED <<deviceCount, rows, audit, aborts>>

-----------------------------------------------------------------------------
(* The last statement of every route, then the reply. *)
LogAuditEvent(h) ==
    /\ handler[h] # Idle
    /\ handler[h].step = "audit"
    /\ audit' = [audit EXCEPT ![handler[h].rollout] = @ \cup {handler[h].op}]
    /\ Becomes(h, Idle)
    /\ UNCHANGED <<status, deviceCount, rows, aborts>>

(* A statement fails (the rows' device no longer satisfies its foreign     *)
(* key, the connection drops) or the process stops: the statements run so  *)
(* far stay, the others never run.                                         *)
Abort(h) ==
    /\ handler[h] # Idle
    /\ aborts < MaxAborts
    /\ aborts' = aborts + 1
    /\ Becomes(h, Idle)
    /\ UNCHANGED tables

-----------------------------------------------------------------------------
(* The worker. *)

WorkerDevice(r, i, to) ==
    /\ to \notin {"pending", "cancelled"}      \* those two belong to the API
    /\ isValidDeviceTransition(rows[r][i], to)
    /\ rows[r][i] = "pending" => status[r] = "running"
    /\ rows' = [rows EXCEPT ![r][i] = to]
    /\ UNCHANGED <<status, deviceCount, audit, handler, aborts>>

Settled == {"succeeded", "failed", "skipped", "cancelled"}

WorkerFinish(r, to) ==
    /\ status[r] = "running"
    /\ \A i \in DOMAIN rows[r] : rows[r][i] \in Settled
    /\ SetStatus(r, to)
    /\ UNCHANGED <<deviceCount, rows, audit, handler, aborts>>

Worker ==
    \E r \in Rollout :
        \/ \E i \in DOMAIN rows[r], to \in RowStatus : WorkerDevice(r, i, to)
        \/ \E to \in {"completed", "failed"} : WorkerFinish(r, to)

Statement(h) ==
    \/ \E r \in Rollout : CreateInsert(h, r)
    \/ CreateRows(h)
    \/ StartUpdate(h)
    \/ CancelUpdate(h) \/ CancelDevices(h)
    \/ RetryDevices(h) \/ RetryReopen(h)
    \/ LogAuditEvent(h)

Arrival(h) ==
    \/ \E n \in 0..MaxDevices : CreateRead(h, n)
    \/ \E r \in Rollout : StartRead(h, r) \/ CancelRead(h, r) \/ RetryRead(h, r)

Next ==
    \/ \E h \in Handler : Arrival(h) \/ Statement(h) \/ Abort(h)
    \/ Worker

Spec == Init /\ [][Next]_vars

-----------------------------------------------------------------------------
(* Properties. *)

(* Every variable keeps its shape. *)
TypeOK ==
    /\ status \in [Rollout -> RolloutStatus \cup {"unborn"}]
    /\ deviceCount \in [Rollout -> Nat]
    /\ rows \in [Rollout -> Seq(RowStatus)]
    /\ audit \in [Rollout -> SUBSET Lifecycle]
    /\ handler \in [Handler -> Request]
    /\ aborts \in 0..MaxAborts

InFlight(r, op, steps) ==
    \E h \in Handler :
        handler[h] # Idle /\ handler[h].op = op /\ handler[h].step \in steps /\ handler[h].rollout = r

(* A rollout has one row per device counted in device_count, except while  *)
(* its create has yet to insert them, or for good if that create died:     *)
(* the rows come from the read that gave the count, whatever happens to    *)
(* the group in between.                                                   *)
RowsMatchCount ==
    \A r \in Rollout :
        \/ status[r] = "unborn"
        \/ Len(rows[r]) = deviceCount[r]
        \/ rows[r] = <<>> /\ (aborts > 0 \/ InFlight(r, "created", {"rows"}))

(* No interleaving of starts, cancels, retries and the worker moves a      *)
(* device row against the table of isValidDeviceTransition, although no    *)
(* route calls that function: what succeeded, was skipped or cancelled     *)
(* stays so, and a retry only touches failed rows.                         *)
RowsFollowTable ==
    [][\A r \in Rollout : \A i \in DOMAIN rows[r] :
          /\ i \in DOMAIN rows'[r]
          /\ rows'[r][i] # rows[r][i] => isValidDeviceTransition(rows[r][i], rows'[r][i])
      ]_rows

(* A rollout leaves draft by a start only, and nothing takes it back to    *)
(* draft, however stale the status is that a request acts on.              *)
DraftOnlyStarts ==
    [][\A r \in Rollout :
          /\ status[r] = "draft" => status'[r] \in {"draft", "running"}
          /\ status'[r] = "draft" => status[r] \in {"draft", "unborn"}
      ]_status

(* The audit log misses no start and no cancellation: a rollout that left  *)
(* draft was logged as started, one with a cancelled row as cancelled,     *)
(* unless the request that did it has yet to log it or died first.         *)
TransitionsAudited ==
    \A r \in Rollout : aborts = 0 =>
        /\ status[r] \notin {"unborn", "draft"} =>
              "started" \in audit[r] \/ InFlight(r, "started", {"audit"})
        /\ status[r] = "cancelled" \/ (\E i \in DOMAIN rows[r] : rows[r][i] = "cancelled") =>
              "cancelled" \in audit[r] \/ InFlight(r, "cancelled", {"devices", "audit"})

(* What revives a cancelled rollout, if anything does, is a start or a     *)
(* retry that read it before the cancel: no request that began afterwards, *)
(* no retry under way and no step of the worker.                           *)
OnlyStaleRevives ==
    [][\A r \in Rollout : status[r] = "cancelled" /\ status'[r] # "cancelled" =>
          \E h \in Handler :
             /\ handler'[h] # handler[h]
             /\ handler[h].step \in {"update", "reopen"}
             /\ handler[h].rollout = r /\ handler[h].seen # "cancelled"
      ]_vars

(* A cancelled rollout stays cancelled ("cancelled: []", rollouts.ts:42).  *)
CancelledIsFinal ==
    [][\A r \in Rollout : status[r] = "cancelled" => status'[r] = "cancelled"]_status

=============================================================================
