--------------------------- MODULE RolloutsProofs ---------------------------
(***************************************************************************)
(* What holds of the rollout routes for any number of rollouts, devices,   *)
(* overlapping requests and requests that die half-way.                    *)
(*                                                                         *)
(* The action properties need to know what the requests in progress may    *)
(* still do.  A create that has yet to insert its rows is the only one for *)
(* its rollout, whose rows are empty and whose device_count is the number  *)
(* it will insert (CreatePending, OneCreate); a start, cancel or retry has *)
(* seen the rollout exist and not cancelled, a cancel or a retry has seen  *)
(* it leave draft, and nothing takes existence or leaving draft back       *)
(* (ActingSeen), which is what makes the audit log complete: whoever moves *)
(* a rollout that left draft on finds its start logged or being logged.    *)
(***************************************************************************)
EXTENDS Rollouts, SequenceTheorems, TLAPS

Creating(h) == At(h, "created", "rows")

CreatePending ==
    \A h \in Handler : Creating(h) =>
        /\ status[handler[h].rollout] # "unborn"
        /\ rows[handler[h].rollout] = <<>>
        /\ deviceCount[handler[h].rollout] = handler[h].count

OneCreate ==
    \A h, k \in Handler :
        Creating(h) /\ Creating(k) /\ handler[h].rollout = handler[k].rollout => h = k

UnbornIsEmpty == \A r \in Rollout : status[r] = "unborn" => rows[r] = <<>>

LeftDraft(r) == status[r] \notin {"unborn", "draft"}

Acting(h) == handler[h] # Idle /\ handler[h].step \in {"update", "devices", "reopen"}

Saw(request) ==
    /\ status[request.rollout] # "unborn"
    /\ request.op # "started" => LeftDraft(request.rollout)
    /\ request.seen # "cancelled"

Seen(h) == Saw(handler[h])

ActingSeen == \A h \in Handler : Acting(h) => Seen(h)

IInv ==
    /\ TypeOK /\ RowsMatchCount
    /\ CreatePending /\ OneCreate /\ UnbornIsEmpty /\ ActingSeen

-----------------------------------------------------------------------------
(* What a request in progress looks like, step by step. *)
LEMMA CreatingType ==
    ASSUME NEW q \in Request, q.op = "created", q.step = "rows"
    PROVE  q.rollout \in Rollout /\ q.count \in 1..MaxDevices
  BY DEF Request, Idle, Lifecycle

LEMMA InsertingType ==
    ASSUME NEW q \in Request, q.op = "created", q.step = "insert"
    PROVE  q.count \in 1..MaxDevices
  BY DEF Request, Idle, Lifecycle

LEMMA LifecycleType ==
    ASSUME NEW q \in Request, q # Idle, q.step \in {"update", "devices", "reopen"}
    PROVE  q \in [op : Lifecycle, step : {"update", "devices", "reopen"},
                  rollout : Rollout, seen : RolloutStatus]
  BY DEF Request, Idle, Lifecycle

LEMMA AuditType ==
    ASSUME NEW q \in Request, q # Idle, q.step = "audit"
    PROVE  q.rollout \in Rollout /\ q.op \in Lifecycle
  BY DEF Request, Idle, Lifecycle

LEMMA IdleType == Idle \in Request /\ Idle.op = "idle"
  BY DEF Idle, Request

(* MoveRows keeps every row in place.                                      *)
LEMMA MoveRowsKeeps ==
    ASSUME NEW r \in Rollout, NEW from, NEW to \in RowStatus,
           rows \in [Rollout -> Seq(RowStatus)], MoveRows(r, from, to)
    PROVE  /\ rows' \in [Rollout -> Seq(RowStatus)]
           /\ \A q \in Rollout : Len(rows'[q]) = Len(rows[q])
           /\ \A q \in Rollout : \A i \in DOMAIN rows[q] :
                 /\ i \in DOMAIN rows'[q]
                 /\ rows'[q][i] # rows[q][i] => rows[q][i] \in from /\ rows'[q][i] = to
<1> DEFINE moved == [i \in DOMAIN rows[r] |-> IF rows[r][i] \in from THEN to ELSE rows[r][i]]
<1>1. rows[r] \in Seq(RowStatus)
  OBVIOUS
<1>2. Len(rows[r]) \in Nat /\ DOMAIN rows[r] = 1..Len(rows[r])
  BY <1>1, LenProperties
<1>3. \A i \in 1..Len(rows[r]) : rows[r][i] \in RowStatus
  BY <1>1, ElementOfSeq
<1>4. moved \in [1..Len(rows[r]) -> RowStatus]
  BY <1>2, <1>3
<1>5. moved \in Seq(RowStatus) /\ Len(moved) = Len(rows[r]) /\ DOMAIN moved = DOMAIN rows[r]
  <2> HIDE DEF moved
  <2>1. moved \in Seq(RowStatus)
    BY <1>2, <1>4, SeqDef
  <2>2. DOMAIN moved = 1..Len(rows[r])
    BY <1>4
  <2>3. QED
    BY <1>2, <2>1, <2>2, LenProperties
<1>6. rows' = [rows EXCEPT ![r] = moved]
  BY DEF MoveRows
<1>7. \A i \in DOMAIN rows[r] : moved[i] # rows[r][i] => rows[r][i] \in from /\ moved[i] = to
  OBVIOUS
<1> HIDE DEF moved
<1>8. QED
  BY <1>5, <1>6, <1>7

-----------------------------------------------------------------------------
(* Every step but the two INSERTs of a create is calm: it starts no create *)
(* and ends none unless it dies, inserts no row, and takes no rollout back.*)
Calm ==
    /\ \A k \in Handler : Creating(k)' => handler'[k] = handler[k]
    /\ \A k \in Handler : Creating(k) => handler'[k] = handler[k] \/ aborts' > 0
    /\ \A k \in Handler : Acting(k)' =>
          handler'[k] = handler[k] \/ Saw(handler'[k])
    /\ \A r \in Rollout : Len(rows'[r]) = Len(rows[r])
    /\ \A r \in Rollout : status'[r] # status[r] =>
          status[r] # "unborn" /\ status'[r] \notin {"unborn", "draft"}
    /\ deviceCount' = deviceCount
    /\ aborts' >= aborts

LEMMA CalmIInv ==
    ASSUME IInv, TypeOK', Calm
    PROVE  IInv'
<1> USE DEF IInv
<1>1. \A r \in Rollout : rows'[r] = <<>> <=> rows[r] = <<>>
  BY EmptySeq DEF TypeOK, Calm
<1>2. \A k \in Handler : Creating(k)' => Creating(k) /\ handler'[k].rollout \in Rollout
  <2> SUFFICES ASSUME NEW k \in Handler, Creating(k)'
               PROVE  Creating(k) /\ handler'[k].rollout \in Rollout
    OBVIOUS
  <2>1. handler'[k] = handler[k]
    BY DEF Calm
  <2>2. Creating(k)
    BY <2>1 DEF Creating, At
  <2>3. handler[k] \in Request
    BY DEF TypeOK
  <2>4. handler[k].rollout \in Rollout
    BY <2>2, <2>3, CreatingType DEF Creating, At
  <2>5. QED
    BY <2>1, <2>2, <2>4
<1>3. \A r \in Rollout : status[r] # "unborn" => status'[r] # "unborn"
  BY DEF Calm
<1>4. \A r \in Rollout : LeftDraft(r) => status'[r] \notin {"unborn", "draft"}
  BY DEF Calm, LeftDraft
<1>5. CreatePending'
  BY <1>1, <1>2, <1>3 DEF CreatePending, Calm
<1>6. OneCreate'
  BY <1>2 DEF OneCreate, Calm
<1>7. UnbornIsEmpty'
  BY <1>1 DEF UnbornIsEmpty, Calm
<1>8. ActingSeen'
  <2> SUFFICES ASSUME NEW k \in Handler, Acting(k)'
               PROVE  /\ status'[handler'[k].rollout] # "unborn"
                      /\ handler'[k].op # "started" =>
                            status'[handler'[k].rollout] \notin {"unborn", "draft"}
                      /\ handler'[k].seen # "cancelled"
    BY DEF ActingSeen, Seen, Saw, LeftDraft
  <2>1. handler'[k] \in Request /\ handler'[k] # Idle
    BY DEF TypeOK, Acting, Idle
  <2>2. handler'[k].rollout \in Rollout
    BY <2>1, LifecycleType DEF Acting
  <2>3. Saw(handler'[k])
    <3>1. CASE handler'[k] = handler[k]
      <4>1. Acting(k)
        BY <3>1 DEF Acting, Idle
      <4>2. QED
        BY <3>1, <4>1 DEF ActingSeen, Seen
    <3>2. QED
      BY <3>1 DEF Calm
  <2>4. QED
    BY <2>2, <2>3, <1>3, <1>4 DEF Saw
<1>9. RowsMatchCount'
  <2> SUFFICES ASSUME NEW r \in Rollout, status'[r] # "unborn", Len(rows'[r]) # deviceCount'[r]
               PROVE  rows'[r] = <<>> /\ (aborts' > 0 \/ InFlight(r, "created", {"rows"})')
    BY DEF RowsMatchCount
  <2>1. Len(rows[r]) # deviceCount[r]
    BY DEF Calm
  <2>2. status[r] # "unborn"
    BY DEF Calm
  <2>3. rows[r] = <<>> /\ (aborts > 0 \/ InFlight(r, "created", {"rows"}))
    BY <2>1, <2>2 DEF RowsMatchCount
  <2>4. CASE aborts > 0
    BY <2>3, <2>4, <1>1 DEF Calm, TypeOK
  <2>5. CASE InFlight(r, "created", {"rows"})
    <3>1. PICK k \in Handler : Creating(k) /\ handler[k].rollout = r /\ handler[k] # Idle
      BY <2>5 DEF InFlight, Creating, At
    <3>2. CASE aborts' > 0
      BY <2>3, <3>2, <1>1
    <3>3. CASE handler'[k] = handler[k]
      BY <2>3, <3>1, <3>3, <1>1 DEF InFlight, Creating, At, Idle
    <3>4. QED
      BY <3>1, <3>2, <3>3 DEF Calm
  <2>6. QED
    BY <2>3, <2>4, <2>5
<1>10. QED
  BY <1>5, <1>6, <1>7, <1>8, <1>9

(* A step of request h that leaves the INSERTs of creates alone is calm if *)
(* the request it turns into is well-formed and has seen what it acts on.  *)
LEMMA RequestCalm ==
    ASSUME NEW h \in Handler, NEW q \in Request, TypeOK,
           Becomes(h, q),
           ~(q.op = "created" /\ q.step = "rows"),
           Creating(h) => aborts' > 0,
           q # Idle /\ q.step \in {"update", "devices", "reopen"} => Saw(q),
           \A r \in Rollout : Len(rows'[r]) = Len(rows[r]),
           \A r \in Rollout : status'[r] # status[r] =>
              status[r] # "unborn" /\ status'[r] \notin {"unborn", "draft"},
           deviceCount' = deviceCount, aborts' \in Nat, aborts' >= aborts
    PROVE  handler' \in [Handler -> Request] /\ Calm
<1>1. handler' = [handler EXCEPT ![h] = q] /\ handler \in [Handler -> Request]
  BY DEF Becomes, TypeOK
<1>2. handler' \in [Handler -> Request]
  BY <1>1
<1>3. handler'[h] = q /\ \A k \in Handler : k # h => handler'[k] = handler[k]
  BY <1>1
<1>4. \A k \in Handler : Creating(k)' => handler'[k] = handler[k]
  BY <1>3 DEF Creating, At
<1>5. \A k \in Handler : Creating(k) => handler'[k] = handler[k] \/ aborts' > 0
  BY <1>3
<1>6. \A k \in Handler : Acting(k)' =>
          handler'[k] = handler[k] \/ Saw(handler'[k])
  BY <1>3 DEF Acting, Idle
<1>7. QED
  BY <1>2, <1>4, <1>5, <1>6 DEF Calm

-----------------------------------------------------------------------------
(* The steps of a request. *)

LEMMA ReadIInv ==
    ASSUME NEW h \in Handler, NEW q \in Request, IInv, Accept(h, q),
           ~(q.op = "created" /\ q.step = "rows"),
           q # Idle /\ q.step \in {"update", "devices", "reopen"} => Saw(q)
    PROVE  IInv'
<1>1. /\ Becomes(h, q) /\ ~Creating(h)
      /\ UNCHANGED <<status, deviceCount, rows, audit, aborts>>
  BY IdleType DEF Accept, tables, Creating, At
<1>2. aborts' \in Nat /\ aborts' >= aborts
  BY <1>1, MaxAbortsAssumption DEF IInv, TypeOK
<1>3. handler' \in [Handler -> Request] /\ Calm
  BY <1>1, <1>2, RequestCalm DEF IInv
<1>4. TypeOK'
  BY <1>1, <1>3 DEF IInv, TypeOK
<1>5. QED
  BY <1>3, <1>4, CalmIInv

LEMMA ArrivalIInv ==
    ASSUME NEW h \in Handler, IInv, Arrival(h)
    PROVE  IInv'
<1>1. ASSUME NEW n \in 0..MaxDevices, CreateRead(h, n)  PROVE IInv'
  <2> DEFINE q == [op |-> "created", step |-> "insert", count |-> n]
  <2>1. n \in 1..MaxDevices /\ Accept(h, q)
    BY <1>1 DEF CreateRead
  <2>2. q \in Request /\ q.op = "created" /\ q.step = "insert"
    BY <2>1 DEF Request
  <2>3. QED
    BY <2>1, <2>2, ReadIInv
<1>2. ASSUME NEW r \in Rollout, StartRead(h, r)  PROVE IInv'
  <2> DEFINE q == [op |-> "started", step |-> "update", rollout |-> r, seen |-> status[r]]
  <2>1. status[r] # "unborn" /\ Accept(h, q)
    BY <1>2 DEF StartRead
  <2>2. q \in Request /\ q.op = "started" /\ q.step = "update" /\ q.rollout = r
    BY <2>1 DEF IInv, TypeOK, Request, Lifecycle
  <2>3. Saw(q)
    BY <1>2, <2>1 DEF Saw, StartRead, isValidRolloutTransition
  <2>4. QED
    BY <2>1, <2>2, <2>3, ReadIInv
<1>3. ASSUME NEW r \in Rollout, CancelRead(h, r)  PROVE IInv'
  <2> DEFINE q == [op |-> "cancelled", step |-> "update", rollout |-> r, seen |-> status[r]]
  <2>1. LeftDraft(r) /\ status[r] # "unborn" /\ Accept(h, q)
    BY <1>3 DEF CancelRead, isValidRolloutTransition, LeftDraft
  <2>2. q \in Request /\ q.op = "cancelled" /\ q.step = "update" /\ q.rollout = r
    BY <2>1 DEF IInv, TypeOK, Request, Lifecycle
  <2>3. Saw(q)
    BY <1>3, <2>1 DEF Saw, CancelRead, isValidRolloutTransition
  <2>4. QED
    BY <2>1, <2>2, <2>3, ReadIInv
<1>4. ASSUME NEW r \in Rollout, RetryRead(h, r)  PROVE IInv'
  <2> DEFINE q == [op |-> "retried", step |-> "devices", rollout |-> r, seen |-> status[r]]
  <2>1. status[r] # "unborn" /\ Accept(h, q)
    BY <1>4 DEF RetryRead, RetryStatus
  <2>2. q \in Request /\ q.op = "retried" /\ q.step = "devices" /\ q.rollout = r
    BY <2>1 DEF IInv, TypeOK, Request, Lifecycle
  <2>3. Saw(q)
    BY <1>4, <2>1 DEF Saw, RetryRead, RetryStatus, LeftDraft
  <2>4. QED
    BY <2>1, <2>2, <2>3, ReadIInv
<1>5. QED
  BY <1>1, <1>2, <1>3, <1>4 DEF Arrival

(* What the statements of start, cancel and retry know of their request.   *)
LEMMA ActingRequest ==
    ASSUME NEW h \in Handler, IInv, Acting(h)
    PROVE  /\ handler[h] \in Request /\ handler[h].rollout \in Rollout
           /\ handler[h].op \in Lifecycle /\ handler[h].seen \in RolloutStatus
           /\ [op |-> handler[h].op, step |-> "audit", rollout |-> handler[h].rollout] \in Request
           /\ \A step \in {"devices", "reopen"} :
                 [handler[h] EXCEPT !.step = step] \in Request
           /\ Seen(h) /\ ~Creating(h)
<1>1. handler[h] \in Request
  BY DEF IInv, TypeOK
<1>2. handler[h] \in [op : Lifecycle, step : {"update", "devices", "reopen"},
                     rollout : Rollout, seen : RolloutStatus]
  BY <1>1, LifecycleType DEF Acting
<1>3. [op |-> handler[h].op, step |-> "audit", rollout |-> handler[h].rollout]
        \in [op : Lifecycle, step : {"audit"}, rollout : Rollout]
  BY <1>2
<1>4. \A step \in {"devices", "reopen"} :
        [handler[h] EXCEPT !.step = step] \in
           [op : Lifecycle, step : {"update", "devices", "reopen"},
            rollout : Rollout, seen : RolloutStatus]
  BY <1>2
<1>5. Seen(h)
  BY DEF IInv, ActingSeen
<1>6. ~Creating(h)
  BY DEF Acting, Creating, At
<1>7. QED
  BY <1>1, <1>2, <1>3, <1>4, <1>5, <1>6 DEF Request

(* UPDATE rollouts SET status: start, cancel and retry write a status that *)
(* is not draft over one that exists.                                      *)
LEMMA WriteStatusIInv ==
    ASSUME NEW h \in Handler, NEW q \in Request, NEW s \in {"running", "cancelled"},
           IInv, Acting(h), SetStatus(handler[h].rollout, s), Becomes(h, q),
           q.step # "rows",
           q # Idle /\ q.step \in {"update", "devices", "reopen"} =>
              /\ q.rollout = handler[h].rollout /\ q.op = handler[h].op
              /\ q.seen = handler[h].seen,
           UNCHANGED <<deviceCount, rows, audit, aborts>>
    PROVE  IInv'
<1>1. handler[h].rollout \in Rollout /\ Seen(h) /\ ~Creating(h)
  BY ActingRequest
<1>2. status' \in [Rollout -> RolloutStatus \cup {"unborn"}]
  BY <1>1 DEF SetStatus, IInv, TypeOK, RolloutStatus
<1>3. \A r \in Rollout : status'[r] # status[r] =>
         status[r] # "unborn" /\ status'[r] \notin {"unborn", "draft"}
  BY <1>1 DEF SetStatus, IInv, TypeOK, Seen, Saw
<1>4. aborts' \in Nat /\ aborts' >= aborts
  BY MaxAbortsAssumption DEF IInv, TypeOK
<1>5. handler' \in [Handler -> Request] /\ Calm
  BY <1>1, <1>3, <1>4, RequestCalm DEF IInv, Seen, Saw
<1>6. TypeOK'
  BY <1>2, <1>5 DEF IInv, TypeOK
<1>7. QED
  BY <1>5, <1>6, CalmIInv

(* UPDATE rollout_devices: cancel and retry. *)
LEMMA WriteRowsIInv ==
    ASSUME NEW h \in Handler, NEW q \in Request, NEW from, NEW to \in RowStatus,
           IInv, Acting(h), MoveRows(handler[h].rollout, from, to), Becomes(h, q),
           q.step # "rows",
           q # Idle /\ q.step \in {"update", "devices", "reopen"} =>
              /\ q.rollout = handler[h].rollout /\ q.op = handler[h].op
              /\ q.seen = handler[h].seen,
           UNCHANGED <<status, deviceCount, audit, aborts>>
    PROVE  IInv'
<1>1. handler[h].rollout \in Rollout /\ Seen(h) /\ ~Creating(h)
  BY ActingRequest
<1>2. /\ rows' \in [Rollout -> Seq(RowStatus)]
      /\ \A r \in Rollout : Len(rows'[r]) = Len(rows[r])
  BY <1>1, MoveRowsKeeps DEF IInv, TypeOK
<1>3. aborts' \in Nat /\ aborts' >= aborts
  BY MaxAbortsAssumption DEF IInv, TypeOK
<1>4. handler' \in [Handler -> Request] /\ Calm
  BY <1>1, <1>2, <1>3, RequestCalm DEF IInv, Seen, Saw
<1>5. TypeOK'
  BY <1>2, <1>4 DEF IInv, TypeOK
<1>6. QED
  BY <1>4, <1>5, CalmIInv

LEMMA ActingStepIInv ==
    ASSUME NEW h \in Handler, IInv,
           StartUpdate(h) \/ CancelUpdate(h) \/ CancelDevices(h) \/ RetryDevices(h) \/ RetryReopen(h)
    PROVE  IInv'
<1> DEFINE logged == [op |-> handler[h].op, step |-> "audit", rollout |-> handler[h].rollout]
           onward(step) == [handler[h] EXCEPT !.step = step]
<1>1. Acting(h)
  BY DEF StartUpdate, CancelUpdate, CancelDevices, RetryDevices, RetryReopen, At, Acting, Idle
<1>2. /\ handler[h] \in Request
      /\ logged \in Request /\ onward("devices") \in Request /\ onward("reopen") \in Request
  BY <1>1, ActingRequest
<1>3. logged.step = "audit"
  OBVIOUS
<1>4. \A step \in {"devices", "reopen"} :
        /\ onward(step).step = step
        /\ onward(step).rollout = handler[h].rollout /\ onward(step).op = handler[h].op
        /\ onward(step).seen = handler[h].seen
  <2>1. handler[h] \in [op : Lifecycle, step : {"update", "devices", "reopen"},
                       rollout : Rollout, seen : RolloutStatus]
    BY <1>1, <1>2, LifecycleType DEF Acting
  <2>2. QED
    BY <2>1
<1>5. CASE StartUpdate(h) \/ RetryReopen(h)
  <2>1. /\ SetStatus(handler[h].rollout, "running") /\ Becomes(h, logged)
        /\ UNCHANGED <<deviceCount, rows, audit, aborts>>
    BY <1>5 DEF StartUpdate, RetryReopen, ToAudit
  <2>2. QED
    BY <1>1, <1>2, <1>3, <2>1, WriteStatusIInv
<1>6. CASE CancelUpdate(h)
  <2>1. /\ SetStatus(handler[h].rollout, "cancelled") /\ Becomes(h, onward("devices"))
        /\ UNCHANGED <<deviceCount, rows, audit, aborts>>
    BY <1>6 DEF CancelUpdate, Continue
  <2>2. QED
    BY <1>1, <1>2, <1>4, <2>1, WriteStatusIInv
<1>7. CASE CancelDevices(h)
  <2>1. /\ MoveRows(handler[h].rollout, {"pending"}, "cancelled") /\ Becomes(h, logged)
        /\ UNCHANGED <<status, deviceCount, audit, aborts>>
    BY <1>7 DEF CancelDevices, ToAudit
  <2>2. "cancelled" \in RowStatus
    BY DEF RowStatus
  <2>3. QED
    BY <1>1, <1>2, <1>3, <2>1, <2>2, WriteRowsIInv
<1>8. CASE RetryDevices(h)
  <2>1. /\ MoveRows(handler[h].rollout, ResetStatus, "pending")
        /\ Becomes(h, onward("reopen")) \/ Becomes(h, logged)
        /\ UNCHANGED <<status, deviceCount, audit, aborts>>
    BY <1>8 DEF RetryDevices, ToAudit, Continue
  <2>2. "pending" \in RowStatus
    BY DEF RowStatus
  <2>3. QED
    BY <1>1, <1>2, <1>3, <1>4, <2>1, <2>2, WriteRowsIInv
<1>9. QED
  BY <1>5, <1>6, <1>7, <1>8

LEMMA LogIInv ==
    ASSUME NEW h \in Handler, IInv, LogAuditEvent(h)
    PROVE  IInv'
<1>1. /\ handler[h] # Idle /\ handler[h].step = "audit" /\ Becomes(h, Idle)
      /\ audit' = [audit EXCEPT ![handler[h].rollout] = @ \cup {handler[h].op}]
      /\ UNCHANGED <<status, deviceCount, rows, aborts>>
  BY DEF LogAuditEvent
<1>2. handler[h].rollout \in Rollout /\ handler[h].op \in Lifecycle
  BY <1>1, AuditType DEF IInv, TypeOK
<1>3. audit' \in [Rollout -> SUBSET Lifecycle]
  BY <1>1, <1>2 DEF IInv, TypeOK
<1>4. ~Creating(h) /\ aborts' \in Nat /\ aborts' >= aborts
  BY <1>1, MaxAbortsAssumption DEF Creating, At, IInv, TypeOK
<1>5. handler' \in [Handler -> Request] /\ Calm
  BY <1>1, <1>4, IdleType, RequestCalm DEF IInv
<1>6. TypeOK'
  BY <1>1, <1>3, <1>5 DEF IInv, TypeOK
<1>7. QED
  BY <1>5, <1>6, CalmIInv

LEMMA AbortIInv ==
    ASSUME NEW h \in Handler, IInv, Abort(h)
    PROVE  IInv'
<1>1. /\ Becomes(h, Idle) /\ aborts' = aborts + 1 /\ aborts < MaxAborts
      /\ UNCHANGED <<status, deviceCount, rows, audit>>
  BY DEF Abort, tables
<1>2. aborts' \in 0..MaxAborts /\ aborts' > 0 /\ aborts' >= aborts /\ aborts' \in Nat
  BY <1>1, MaxAbortsAssumption DEF IInv, TypeOK
<1>3. handler' \in [Handler -> Request] /\ Calm
  BY <1>1, <1>2, IdleType, RequestCalm DEF IInv
<1>4. TypeOK'
  BY <1>1, <1>2, <1>3 DEF IInv, TypeOK
<1>5. QED
  BY <1>3, <1>4, CalmIInv

LEMMA WorkerIInv ==
    ASSUME IInv, Worker
    PROVE  IInv'
<1>1. ASSUME NEW r \in Rollout, NEW i \in DOMAIN rows[r], NEW to \in RowStatus, WorkerDevice(r, i, to)
      PROVE  IInv'
  <2>1. rows' = [rows EXCEPT ![r][i] = to] /\ UNCHANGED <<status, deviceCount, audit, handler, aborts>>
    BY <1>1 DEF WorkerDevice
  <2>2. rows[r] \in Seq(RowStatus) /\ i \in 1..Len(rows[r])
    BY LenProperties DEF IInv, TypeOK
  <2>3. /\ [rows[r] EXCEPT ![i] = to] \in Seq(RowStatus)
        /\ Len([rows[r] EXCEPT ![i] = to]) = Len(rows[r])
    BY <2>2, ExceptSeq
  <2>4. /\ rows' \in [Rollout -> Seq(RowStatus)]
        /\ \A q \in Rollout : Len(rows'[q]) = Len(rows[q])
    BY <2>1, <2>3 DEF IInv, TypeOK
  <2>5. aborts \in Nat
    BY MaxAbortsAssumption DEF IInv, TypeOK
  <2>6. Calm
    BY <2>1, <2>4, <2>5 DEF Calm
  <2>7. TypeOK'
    BY <2>1, <2>4 DEF IInv, TypeOK
  <2>8. QED
    BY <2>6, <2>7, CalmIInv
<1>2. ASSUME NEW r \in Rollout, NEW to \in {"completed", "failed"}, WorkerFinish(r, to)
      PROVE  IInv'
  <2>1. /\ status[r] = "running" /\ status' = [status EXCEPT ![r] = to]
        /\ UNCHANGED <<deviceCount, rows, audit, handler, aborts>>
    BY <1>2 DEF WorkerFinish, SetStatus
  <2>2. TypeOK'
    BY <2>1 DEF IInv, TypeOK, RolloutStatus
  <2>3. \A q \in Rollout : status'[q] # status[q] =>
           status[q] # "unborn" /\ status'[q] \notin {"unborn", "draft"}
    BY <2>1 DEF IInv, TypeOK
  <2>4. aborts \in Nat
    BY MaxAbortsAssumption DEF IInv, TypeOK
  <2>5. Calm
    BY <2>1, <2>3, <2>4 DEF Calm
  <2>6. QED
    BY <2>2, <2>5, CalmIInv
<1>3. QED
  BY <1>1, <1>2 DEF Worker

-----------------------------------------------------------------------------
(* The INSERTs of a create: the first makes a rollout nobody else works    *)
(* on, the second gives it its rows.                                       *)

LEMMA CreateInsertIInv ==
    ASSUME NEW h \in Handler, NEW r \in Rollout, IInv, CreateInsert(h, r)
    PROVE  IInv'
<1> USE DEF IInv
<1> DEFINE q == [op |-> "created", step |-> "rows", rollout |-> r, count |-> handler[h].count]
<1>1. /\ handler[h].op = "created" /\ handler[h].step = "insert" /\ status[r] = "unborn"
      /\ status' = [status EXCEPT ![r] = "draft"]
      /\ deviceCount' = [deviceCount EXCEPT ![r] = handler[h].count]
      /\ handler' = [handler EXCEPT ![h] = q]
      /\ UNCHANGED <<rows, audit, aborts>>
  BY DEF CreateInsert, At, SetStatus, Becomes
<1>2. handler[h].count \in 1..MaxDevices
  BY <1>1, InsertingType DEF TypeOK
<1>3. q \in Request /\ q # Idle /\ q.step = "rows" /\ q.rollout = r /\ q.count = handler[h].count
  BY <1>2 DEF Request, Idle
<1> HIDE DEF q
<1>4. /\ handler'[h] = q /\ handler \in [Handler -> Request]
      /\ \A k \in Handler : k # h => handler'[k] = handler[k]
  BY <1>1 DEF TypeOK
<1>5. TypeOK'
  BY <1>1, <1>2, <1>3 DEF TypeOK, RolloutStatus
<1>6. \A k \in Handler : Creating(k) => handler[k].rollout \in Rollout /\ handler[k].rollout # r
  <2> SUFFICES ASSUME NEW k \in Handler, Creating(k)
               PROVE  handler[k].rollout \in Rollout /\ handler[k].rollout # r
    OBVIOUS
  <2>1. handler[k].rollout \in Rollout
    BY <1>4, CreatingType DEF Creating, At
  <2>2. QED
    BY <2>1, <1>1 DEF CreatePending
<1>7. \A k \in Handler : Creating(k)' => k = h \/ (Creating(k) /\ handler'[k] = handler[k])
  BY <1>4 DEF Creating, At
<1>8. CreatePending'
  <2> SUFFICES ASSUME NEW k \in Handler, Creating(k)'
               PROVE  /\ status'[handler'[k].rollout] # "unborn"
                      /\ rows'[handler'[k].rollout] = <<>>
                      /\ deviceCount'[handler'[k].rollout] = handler'[k].count
    BY DEF CreatePending
  <2>1. CASE k = h
    <3>1. status'[r] = "draft" /\ deviceCount'[r] = handler[h].count
      BY <1>1 DEF TypeOK
    <3>2. rows'[r] = <<>>
      BY <1>1 DEF UnbornIsEmpty
    <3>3. QED
      BY <2>1, <3>1, <3>2, <1>3, <1>4
  <2>2. CASE k # h
    <3>1. Creating(k) /\ handler'[k] = handler[k]
      BY <2>2, <1>7
    <3>2. handler[k].rollout \in Rollout \ {r}
      BY <3>1, <1>6
    <3>3. /\ status'[handler[k].rollout] = status[handler[k].rollout]
          /\ deviceCount'[handler[k].rollout] = deviceCount[handler[k].rollout]
      BY <3>2, <1>1 DEF TypeOK
    <3>4. QED
      BY <3>1, <3>3, <1>1 DEF CreatePending
  <2>3. QED
    BY <2>1, <2>2
<1>9. OneCreate'
  BY <1>3, <1>4, <1>6, <1>7 DEF OneCreate
<1>10. UnbornIsEmpty'
  BY <1>1 DEF UnbornIsEmpty, TypeOK
<1>11. ActingSeen'
  <2> SUFFICES ASSUME NEW k \in Handler, Acting(k)'
               PROVE  /\ status'[handler'[k].rollout] # "unborn"
                      /\ handler'[k].op # "started" =>
                            status'[handler'[k].rollout] \notin {"unborn", "draft"}
                      /\ handler'[k].seen # "cancelled"
    BY DEF ActingSeen, Seen, Saw, LeftDraft
  <2>1. k # h
    BY <1>3, <1>4 DEF Acting
  <2>2. handler'[k] = handler[k] /\ Acting(k)
    BY <2>1, <1>4 DEF Acting, Idle
  <2>3. Seen(k) /\ handler[k].rollout \in Rollout
    BY <2>2, ActingRequest
  <2>4. handler[k].rollout # r
    BY <2>3, <1>1 DEF Seen, Saw
  <2>5. status'[handler[k].rollout] = status[handler[k].rollout]
    BY <2>3, <2>4, <1>1 DEF TypeOK
  <2>6. QED
    BY <2>2, <2>3, <2>5 DEF Seen, Saw, LeftDraft
<1>12. RowsMatchCount'
  <2> SUFFICES ASSUME NEW x \in Rollout
               PROVE  \/ status'[x] = "unborn"
                      \/ Len(rows'[x]) = deviceCount'[x]
                      \/ rows'[x] = <<>> /\ (aborts' > 0 \/ InFlight(x, "created", {"rows"})')
    BY DEF RowsMatchCount
  <2>1. CASE x = r
    <3>1. rows'[r] = <<>>
      BY <1>1 DEF UnbornIsEmpty
    <3>2. q.op = "created"
      BY DEF q
    <3>3. InFlight(r, "created", {"rows"})'
      BY <1>3, <1>4, <3>2 DEF InFlight, Idle
    <3>4. QED
      BY <2>1, <3>1, <3>3
  <2>2. CASE x # r
    <3>1. status'[x] = status[x] /\ deviceCount'[x] = deviceCount[x] /\ rows' = rows /\ aborts' = aborts
      BY <2>2, <1>1 DEF TypeOK
    <3>2. InFlight(x, "created", {"rows"}) => InFlight(x, "created", {"rows"})'
      <4> SUFFICES ASSUME NEW k \in Handler, handler[k] # Idle, handler[k].op = "created",
                          handler[k].step = "rows", handler[k].rollout = x
                   PROVE  InFlight(x, "created", {"rows"})'
        BY DEF InFlight
      <4>1. k # h
        BY <1>1
      <4>2. QED
        BY <4>1, <1>4 DEF InFlight, Idle
    <3>3. QED
      BY <3>1, <3>2 DEF RowsMatchCount
  <2>3. QED
    BY <2>1, <2>2
<1>13. QED
  BY <1>5, <1>8, <1>9, <1>10, <1>11, <1>12

LEMMA CreateRowsIInv ==
    ASSUME NEW h \in Handler, IInv, CreateRows(h)
    PROVE  IInv'
<1> USE DEF IInv
<1> DEFINE r == handler[h].rollout
           n == handler[h].count
           fresh == [i \in 1..n |-> "pending"]
           q == [op |-> handler[h].op, step |-> "audit", rollout |-> r]
<1>1. /\ Creating(h) /\ handler[h].op = "created"
      /\ rows' = [rows EXCEPT ![r] = fresh]
      /\ handler' = [handler EXCEPT ![h] = q]
      /\ UNCHANGED <<status, deviceCount, audit, aborts>>
  BY DEF CreateRows, InsertRows, ToAudit, Becomes, Creating, At
<1>2. r \in Rollout /\ n \in 1..MaxDevices /\ n \in Nat
  BY <1>1, CreatingType, MaxDevicesAssumption DEF TypeOK, Creating, At
<1>3. q \in Request /\ q.step = "audit"
  BY <1>1, <1>2 DEF Request, Lifecycle
<1>4. fresh \in Seq(RowStatus) /\ Len(fresh) = n
  <2>1. \A i \in 1..n : fresh[i] \in RowStatus
    BY DEF RowStatus
  <2>2. fresh \in Seq(RowStatus)
    BY <1>2, <2>1, IsASeq
  <2>3. DOMAIN fresh = 1..n
    OBVIOUS
  <2> HIDE DEF fresh
  <2>4. QED
    BY <1>2, <2>2, <2>3, LenProperties
<1>5. deviceCount[r] = n /\ status[r] # "unborn"
  BY <1>1 DEF CreatePending
<1> HIDE DEF q, fresh
<1>6. /\ handler'[h] = q /\ handler \in [Handler -> Request]
      /\ \A k \in Handler : k # h => handler'[k] = handler[k]
  BY <1>1 DEF TypeOK
<1>7. TypeOK'
  BY <1>1, <1>2, <1>3, <1>4 DEF TypeOK
<1>8. \A k \in Handler : Creating(k)' => k # h /\ Creating(k) /\ handler'[k] = handler[k]
  BY <1>3, <1>6 DEF Creating, At
<1>9. CreatePending'
  <2> SUFFICES ASSUME NEW k \in Handler, Creating(k)'
               PROVE  /\ status'[handler'[k].rollout] # "unborn"
                      /\ rows'[handler'[k].rollout] = <<>>
                      /\ deviceCount'[handler'[k].rollout] = handler'[k].count
    BY DEF CreatePending
  <2>1. Creating(k) /\ handler'[k] = handler[k] /\ k # h
    BY <1>8
  <2>2. handler[k].rollout # r
    BY <2>1, <1>1 DEF OneCreate
  <2>3. handler[k].rollout \in Rollout
    BY <2>1, <1>6, CreatingType DEF Creating, At
  <2>4. rows'[handler[k].rollout] = rows[handler[k].rollout]
    BY <2>2, <2>3, <1>1 DEF TypeOK
  <2>5. QED
    BY <2>1, <2>4, <1>1 DEF CreatePending
<1>10. OneCreate'
  BY <1>8 DEF OneCreate
<1>11. UnbornIsEmpty'
  BY <1>1, <1>5 DEF UnbornIsEmpty, TypeOK
<1>12. ActingSeen'
  <2>1. \A k \in Handler : Acting(k)' => Acting(k) /\ handler'[k] = handler[k]
    BY <1>3, <1>6 DEF Acting, Idle
  <2>2. QED
    BY <2>1, <1>1 DEF ActingSeen, Seen, Saw, LeftDraft
<1>13. RowsMatchCount'
  <2> SUFFICES ASSUME NEW x \in Rollout
               PROVE  \/ status'[x] = "unborn"
                      \/ Len(rows'[x]) = deviceCount'[x]
                      \/ rows'[x] = <<>> /\ (aborts' > 0 \/ InFlight(x, "created", {"rows"})')
    BY DEF RowsMatchCount
  <2>1. CASE x = r
    BY <2>1, <1>1, <1>2, <1>4, <1>5 DEF TypeOK
  <2>2. CASE x # r
    <3>1. rows'[x] = rows[x]
      BY <2>2, <1>1 DEF TypeOK
    <3>2. InFlight(x, "created", {"rows"}) => InFlight(x, "created", {"rows"})'
      <4> SUFFICES ASSUME NEW k \in Handler, handler[k] # Idle, handler[k].op = "created",
                          handler[k].step = "rows", handler[k].rollout = x
                   PROVE  InFlight(x, "created", {"rows"})'
        BY DEF InFlight
      <4>1. k # h
        BY <2>2
      <4>2. QED
        BY <4>1, <1>6 DEF InFlight, Idle
    <3>3. QED
      BY <3>1, <3>2, <1>1 DEF RowsMatchCount
  <2>3. QED
    BY <2>1, <2>2
<1>14. QED
  BY <1>7, <1>9, <1>10, <1>11, <1>12, <1>13

-----------------------------------------------------------------------------
LEMMA InitIInv == Init => IInv
<1> SUFFICES ASSUME Init  PROVE IInv
  OBVIOUS
<1>1. TypeOK
  BY IdleType, EmptySeq, MaxAbortsAssumption DEF Init, TypeOK
<1>2. RowsMatchCount /\ UnbornIsEmpty
  BY DEF Init, RowsMatchCount, UnbornIsEmpty
<1>3. CreatePending /\ OneCreate /\ ActingSeen
  BY IdleType DEF Init, CreatePending, OneCreate, ActingSeen, Creating, At, Acting
<1>4. QED
  BY <1>1, <1>2, <1>3 DEF IInv

LEMMA NextIInv ==
    ASSUME IInv, [Next]_vars
    PROVE  IInv'
<1>1. ASSUME NEW h \in Handler, Statement(h)  PROVE IInv'
  BY <1>1, CreateInsertIInv, CreateRowsIInv, ActingStepIInv, LogIInv DEF Statement
<1>2. CASE Next
  BY <1>1, <1>2, ArrivalIInv, AbortIInv, WorkerIInv DEF Next
<1>3. CASE UNCHANGED vars
  BY <1>3 DEF vars, IInv, TypeOK, RowsMatchCount, InFlight, CreatePending, OneCreate, UnbornIsEmpty,
              ActingSeen, Acting, Seen, Saw, LeftDraft, Creating, At
<1>4. QED
  BY <1>2, <1>3

LEMMA SpecIInv == Spec => []IInv
<1>1. Init => IInv
  BY InitIInv
<1>2. IInv /\ [Next]_vars => IInv'
  BY NextIInv
<1>3. QED
  BY <1>1, <1>2, PTL DEF Spec

-----------------------------------------------------------------------------
(* Every variable keeps its shape.                                         *)
THEOREM TypeCorrect == Spec => []TypeOK
<1>1. IInv => TypeOK
  BY DEF IInv
<1>2. QED
  BY <1>1, SpecIInv, PTL

(* A rollout has one row per counted device, its create apart.             *)
THEOREM RowsAlwaysMatchCount == Spec => []RowsMatchCount
<1>1. IInv => RowsMatchCount
  BY DEF IInv
<1>2. QED
  BY <1>1, SpecIInv, PTL

(* No step moves a device row against the transition table.                *)
RowsStep ==
    \A r \in Rollout : \A i \in DOMAIN rows[r] :
        /\ i \in DOMAIN rows'[r]
        /\ rows'[r][i] # rows[r][i] => isValidDeviceTransition(rows[r][i], rows'[r][i])

LEMMA RowsUnchangedStep ==
    ASSUME UNCHANGED rows
    PROVE  RowsStep
  BY DEF RowsStep

LEMMA NextRowsStep ==
    ASSUME IInv, Next
    PROVE  RowsStep
<1> USE DEF IInv
<1>1. ASSUME NEW h \in Handler, CreateRows(h)  PROVE RowsStep
  <2> DEFINE r == handler[h].rollout
             fresh == [i \in 1..handler[h].count |-> "pending"]
  <2>1. Creating(h) /\ rows' = [rows EXCEPT ![r] = fresh]
    BY <1>1 DEF CreateRows, InsertRows, Creating, At
  <2>2. rows[r] = <<>>
    BY <2>1 DEF CreatePending
  <2>3. DOMAIN rows[r] = {}
    BY <2>2
  <2> HIDE DEF fresh
  <2>4. \A x \in Rollout : x # r => rows'[x] = rows[x]
    BY <2>1 DEF TypeOK
  <2>5. QED
    BY <2>3, <2>4 DEF RowsStep
<1>2. ASSUME NEW h \in Handler, CancelDevices(h) \/ RetryDevices(h)  PROVE RowsStep
  <2>1. Acting(h)
    BY <1>2 DEF CancelDevices, RetryDevices, At, Acting, Idle
  <2>2. handler[h].rollout \in Rollout
    BY <2>1, ActingRequest
  <2>3. CASE CancelDevices(h)
    <3>1. MoveRows(handler[h].rollout, {"pending"}, "cancelled") /\ "cancelled" \in RowStatus
      BY <2>3 DEF CancelDevices, RowStatus
    <3>2. \A q \in Rollout : \A i \in DOMAIN rows[q] :
             /\ i \in DOMAIN rows'[q]
             /\ rows'[q][i] # rows[q][i] => rows[q][i] \in {"pending"} /\ rows'[q][i] = "cancelled"
      <4>1. rows \in [Rollout -> Seq(RowStatus)]
        BY DEF TypeOK
      <4>2. QED
        BY <2>2, <3>1, <4>1, MoveRowsKeeps, Zenon
    <3>3. QED
      BY <3>2 DEF RowsStep, isValidDeviceTransition
  <2>4. CASE RetryDevices(h)
    <3>1. MoveRows(handler[h].rollout, ResetStatus, "pending") /\ "pending" \in RowStatus
      BY <2>4 DEF RetryDevices, RowStatus
    <3>2. \A q \in Rollout : \A i \in DOMAIN rows[q] :
             /\ i \in DOMAIN rows'[q]
             /\ rows'[q][i] # rows[q][i] => rows[q][i] \in ResetStatus /\ rows'[q][i] = "pending"
      <4>1. rows \in [Rollout -> Seq(RowStatus)]
        BY DEF TypeOK
      <4>2. QED
        BY <2>2, <3>1, <4>1, MoveRowsKeeps, Zenon
    <3>3. QED
      BY <3>2 DEF RowsStep, ResetStatus, isValidDeviceTransition
  <2>5. QED
    BY <1>2, <2>3, <2>4
<1>3. ASSUME NEW r \in Rollout, NEW i \in DOMAIN rows[r], NEW to \in RowStatus, WorkerDevice(r, i, to)
      PROVE  RowsStep
  <2>1. isValidDeviceTransition(rows[r][i], to) /\ rows' = [rows EXCEPT ![r][i] = to]
    BY <1>3 DEF WorkerDevice
  <2>2. \A q \in Rollout : q # r => rows'[q] = rows[q]
    BY <2>1 DEF TypeOK
  <2>3. rows'[r] = [rows[r] EXCEPT ![i] = to]
    BY <2>1 DEF TypeOK
  <2>4. QED
    BY <2>1, <2>2, <2>3 DEF RowsStep
<1>4. ASSUME NEW h \in Handler, Arrival(h) \/ Abort(h) \/ LogAuditEvent(h) \/ StartUpdate(h)
                                   \/ CancelUpdate(h) \/ RetryReopen(h)
                                   \/ \E r \in Rollout : CreateInsert(h, r)
      PROVE  RowsStep
  <2>1. UNCHANGED rows
    BY <1>4 DEF Arrival, CreateRead, StartRead, CancelRead, RetryRead, Accept, tables, Abort,
                LogAuditEvent, StartUpdate, CancelUpdate, RetryReopen, CreateInsert
  <2>2. QED
    BY <2>1, RowsUnchangedStep
<1>5. ASSUME NEW r \in Rollout, NEW to \in {"completed", "failed"}, WorkerFinish(r, to)
      PROVE  RowsStep
  BY <1>5, RowsUnchangedStep DEF WorkerFinish
<1>6. QED
  BY <1>1, <1>2, <1>3, <1>4, <1>5 DEF Next, Statement, Worker

THEOREM RowsKeepToTable == Spec => RowsFollowTable
<1>1. IInv /\ [Next]_vars => [RowsStep]_rows
  BY NextRowsStep DEF vars
<1>2. QED
  BY <1>1, SpecIInv, PTL DEF Spec, RowsFollowTable, RowsStep

(* No step takes a rollout out of draft but a start, or back into it.      *)
DraftStep ==
    \A r \in Rollout :
        /\ status[r] = "draft" => status'[r] \in {"draft", "running"}
        /\ status'[r] = "draft" => status[r] \in {"draft", "unborn"}

LEMMA StatusUnchangedStep ==
    ASSUME UNCHANGED status
    PROVE  DraftStep
  BY DEF DraftStep

LEMMA NextDraftStep ==
    ASSUME IInv, Next
    PROVE  DraftStep
<1> USE DEF IInv
<1>1. ASSUME NEW h \in Handler, NEW r \in Rollout, CreateInsert(h, r)  PROVE DraftStep
  BY <1>1 DEF CreateInsert, SetStatus, DraftStep, TypeOK
<1>2. ASSUME NEW h \in Handler, StartUpdate(h) \/ RetryReopen(h)  PROVE DraftStep
  <2>1. status' = [status EXCEPT ![handler[h].rollout] = "running"]
    BY <1>2 DEF StartUpdate, RetryReopen, SetStatus
  <2>2. QED
    BY <2>1 DEF DraftStep, TypeOK
<1>3. ASSUME NEW h \in Handler, CancelUpdate(h)  PROVE DraftStep
  <2>1. Acting(h) /\ handler[h].op = "cancelled"
    BY <1>3 DEF CancelUpdate, At, Acting, Idle
  <2>2. handler[h].rollout \in Rollout /\ LeftDraft(handler[h].rollout)
    BY <2>1, ActingRequest DEF Seen, Saw
  <2>3. status' = [status EXCEPT ![handler[h].rollout] = "cancelled"]
    BY <1>3 DEF CancelUpdate, SetStatus
  <2>4. QED
    BY <2>2, <2>3 DEF DraftStep, LeftDraft, TypeOK
<1>4. ASSUME NEW r \in Rollout, NEW to \in {"completed", "failed"}, WorkerFinish(r, to)
      PROVE  DraftStep
  BY <1>4 DEF WorkerFinish, SetStatus, DraftStep, TypeOK
<1>5. ASSUME NEW h \in Handler, Arrival(h) \/ Abort(h) \/ LogAuditEvent(h) \/ CreateRows(h)
                                   \/ CancelDevices(h) \/ RetryDevices(h)
      PROVE  DraftStep
  <2>1. UNCHANGED status
    BY <1>5 DEF Arrival, CreateRead, StartRead, CancelRead, RetryRead, Accept, tables, Abort,
                LogAuditEvent, CreateRows, InsertRows, CancelDevices, RetryDevices
  <2>2. QED
    BY <2>1, StatusUnchangedStep
<1>6. ASSUME NEW r \in Rollout, NEW i \in DOMAIN rows[r], NEW to \in RowStatus, WorkerDevice(r, i, to)
      PROVE  DraftStep
  BY <1>6, StatusUnchangedStep DEF WorkerDevice
<1>7. QED
  BY <1>1, <1>2, <1>3, <1>4, <1>5, <1>6 DEF Next, Statement, Worker

THEOREM DraftsOnlyStart == Spec => DraftOnlyStarts
<1>1. IInv /\ [Next]_vars => [DraftStep]_status
  BY NextDraftStep DEF vars
<1>2. QED
  BY <1>1, SpecIInv, PTL DEF Spec, DraftOnlyStarts, DraftStep

-----------------------------------------------------------------------------
(* The audit log.  A change is known if it is logged or the request that   *)
(* made it is on its way to log it.                                        *)
Known(r, op, steps) == op \in audit[r] \/ InFlight(r, op, steps)
StartKnown(r) == Known(r, "started", {"audit"})
CancelKnown(r) == Known(r, "cancelled", {"devices", "audit"})

HasCancelled(r) == status[r] = "cancelled" \/ \E i \in DOMAIN rows[r] : rows[r][i] = "cancelled"

MakesKnown(request, r, op, steps) ==
    request # Idle /\ request.op = op /\ request.step \in steps /\ request.rollout = r

(* What is known stays known if the request that moves still makes it      *)
(* known, or has logged it.                                                *)
LEMMA KnownKept ==
    ASSUME NEW h \in Handler, NEW q, handler \in [Handler -> Request], Becomes(h, q),
           NEW r \in Rollout, NEW op, NEW steps,
           audit[r] \subseteq audit'[r],
           MakesKnown(handler[h], r, op, steps) => MakesKnown(q, r, op, steps) \/ op \in audit'[r],
           Known(r, op, steps)
    PROVE  Known(r, op, steps)'
<1>1. handler'[h] = q /\ \A k \in Handler : k # h => handler'[k] = handler[k]
  BY DEF Becomes
<1>2. CASE op \in audit[r]
  BY <1>2 DEF Known
<1>3. CASE InFlight(r, op, steps)
  <2>1. PICK k \in Handler : MakesKnown(handler[k], r, op, steps)
    BY <1>3 DEF InFlight, MakesKnown
  <2>2. MakesKnown(handler'[k], r, op, steps) \/ op \in audit'[r]
    BY <1>1, <2>1
  <2>3. QED
    BY <2>2 DEF Known, InFlight, MakesKnown, Idle
<1>4. QED
  BY <1>2, <1>3 DEF Known

(* A step audits what it does if what was known stays known and a rollout  *)
(* that leaves draft, or gets its first cancellation, is known to.         *)
LEMMA AuditedStep ==
    ASSUME TransitionsAudited, aborts' = 0 => aborts = 0,
           \A r \in Rollout :
              /\ StartKnown(r) => StartKnown(r)'
              /\ CancelKnown(r) => CancelKnown(r)'
              /\ LeftDraft(r)' => LeftDraft(r) \/ StartKnown(r)'
              /\ HasCancelled(r)' => HasCancelled(r) \/ CancelKnown(r)'
    PROVE  TransitionsAudited'
<1> SUFFICES ASSUME NEW r \in Rollout, aborts' = 0
             PROVE  /\ LeftDraft(r)' => StartKnown(r)'
                    /\ HasCancelled(r)' => CancelKnown(r)'
  BY DEF TransitionsAudited, LeftDraft, HasCancelled, StartKnown, CancelKnown, Known
<1>1. /\ LeftDraft(r) => StartKnown(r)
      /\ HasCancelled(r) => CancelKnown(r)
  BY DEF TransitionsAudited, LeftDraft, HasCancelled, StartKnown, CancelKnown, Known
<1>2. QED
  BY <1>1

(* The requests that neither write a status nor end: reads, the INSERTs    *)
(* and the UPDATE of the rows by a retry.                                  *)
LEMMA UnloggedAudited ==
    ASSUME NEW h \in Handler, NEW q, IInv, TransitionsAudited, Becomes(h, q),
           ~ \E r \in Rollout : MakesKnown(handler[h], r, "started", {"audit"})
                             \/ MakesKnown(handler[h], r, "cancelled", {"devices", "audit"}),
           \A r \in Rollout : LeftDraft(r)' => LeftDraft(r),
           \A r \in Rollout : HasCancelled(r)' => HasCancelled(r),
           UNCHANGED <<audit, aborts>>
    PROVE  TransitionsAudited'
<1>1. ASSUME NEW r \in Rollout
      PROVE  (StartKnown(r) => StartKnown(r)') /\ (CancelKnown(r) => CancelKnown(r)')
  BY KnownKept DEF IInv, TypeOK, StartKnown, CancelKnown
<1>2. QED
  BY <1>1, AuditedStep

LEMMA ArrivalAudited ==
    ASSUME NEW h \in Handler, IInv, TransitionsAudited, Arrival(h)
    PROVE  TransitionsAudited'
<1>1. PICK q : Accept(h, q)
  BY DEF Arrival, CreateRead, StartRead, CancelRead, RetryRead
<1>2. handler[h] = Idle /\ Becomes(h, q) /\ UNCHANGED <<status, rows, audit, aborts>>
  BY <1>1 DEF Accept, tables
<1>3. QED
  BY <1>2, UnloggedAudited DEF MakesKnown, LeftDraft, HasCancelled

LEMMA CreateAudited ==
    ASSUME NEW h \in Handler, IInv, TransitionsAudited,
           (\E r \in Rollout : CreateInsert(h, r)) \/ CreateRows(h)
    PROVE  TransitionsAudited'
<1>1. CASE \E r \in Rollout : CreateInsert(h, r)
  <2>1. PICK r \in Rollout : CreateInsert(h, r)
    BY <1>1
  <2>2. PICK q : Becomes(h, q)
    BY <2>1 DEF CreateInsert
  <2>3. /\ handler[h].op = "created" /\ status' = [status EXCEPT ![r] = "draft"]
        /\ UNCHANGED <<rows, audit, aborts>>
    BY <2>1 DEF CreateInsert, At, SetStatus
  <2>4. \A x \in Rollout : (LeftDraft(x)' => LeftDraft(x)) /\ (HasCancelled(x)' => HasCancelled(x))
    BY <2>3 DEF IInv, TypeOK, LeftDraft, HasCancelled
  <2>5. QED
    BY <2>2, <2>3, <2>4, UnloggedAudited DEF MakesKnown
<1>2. CASE CreateRows(h)
  <2> DEFINE r == handler[h].rollout
             fresh == [i \in 1..handler[h].count |-> "pending"]
  <2>1. PICK q : Becomes(h, q)
    BY <1>2 DEF CreateRows, InsertRows, ToAudit
  <2>2. /\ handler[h].op = "created" /\ rows' = [rows EXCEPT ![r] = fresh]
        /\ UNCHANGED <<status, audit, aborts>>
    BY <1>2 DEF CreateRows, InsertRows, At
  <2>3. \A i \in DOMAIN fresh : fresh[i] # "cancelled"
    OBVIOUS
  <2> HIDE DEF fresh
  <2>4. \A x \in Rollout : rows'[x] = rows[x] \/ rows'[x] = fresh
    BY <2>2 DEF IInv, TypeOK
  <2>5. \A x \in Rollout : (LeftDraft(x)' => LeftDraft(x)) /\ (HasCancelled(x)' => HasCancelled(x))
    BY <2>2, <2>3, <2>4 DEF LeftDraft, HasCancelled
  <2>6. QED
    BY <2>1, <2>2, <2>5, UnloggedAudited DEF MakesKnown
<1>3. QED
  BY <1>1, <1>2

(* A start makes itself known by the step it takes; a retry reopens what   *)
(* had left draft, whose start is known.                                   *)
LEMMA RunningAudited ==
    ASSUME NEW h \in Handler, IInv, TransitionsAudited, StartUpdate(h) \/ RetryReopen(h)
    PROVE  TransitionsAudited'
<1>0. Acting(h)
  BY DEF StartUpdate, RetryReopen, At, Acting, Idle
<1> PICK r \in Rollout : handler[h].rollout = r
  BY <1>0, ActingRequest
<1> DEFINE q == [op |-> handler[h].op, step |-> "audit", rollout |-> r]
<1>1. /\ Acting(h) /\ handler[h].step \in {"update", "reopen"}
      /\ handler[h].op = "started" \/ handler[h].op = "retried"
      /\ status' = [status EXCEPT ![r] = "running"] /\ Becomes(h, q)
      /\ UNCHANGED <<rows, audit, aborts>>
  BY DEF StartUpdate, RetryReopen, At, Acting, SetStatus, ToAudit, Idle
<1>2. handler \in [Handler -> Request] /\ status \in [Rollout -> RolloutStatus \cup {"unborn"}]
  BY DEF IInv, TypeOK
<1>3. \A x \in Rollout : (StartKnown(x) => StartKnown(x)') /\ (CancelKnown(x) => CancelKnown(x)')
  BY <1>1, <1>2, KnownKept DEF StartKnown, CancelKnown, MakesKnown
<1>4. \A x \in Rollout : HasCancelled(x)' => HasCancelled(x)
  BY <1>1, <1>2 DEF HasCancelled
<1>5. \A x \in Rollout : LeftDraft(x)' => LeftDraft(x) \/ x = r
  BY <1>1, <1>2 DEF LeftDraft
<1>6. LeftDraft(r) \/ StartKnown(r)'
  <2>1. CASE handler[h].op = "retried"
    BY <1>1, <2>1, ActingRequest DEF Seen, Saw
  <2>2. CASE handler[h].op = "started"
    <3>1. handler'[h] = q
      BY <1>1, <1>2 DEF Becomes
    <3>2. q.op = "started" /\ q.step = "audit" /\ q.rollout = r
      BY <2>2
    <3> HIDE DEF q
    <3>3. q # Idle
      BY <3>2 DEF Idle
    <3>4. QED
      BY <3>1, <3>2, <3>3 DEF StartKnown, Known, InFlight
  <2>3. QED
    BY <1>1, <2>1, <2>2
<1>7. \A x \in Rollout : LeftDraft(x)' => LeftDraft(x) \/ StartKnown(x)'
  BY <1>5, <1>6
<1>8. QED
  BY <1>1, <1>3, <1>4, <1>7, AuditedStep

(* A cancel is on its way to log itself from its first UPDATE on.          *)
LEMMA CancelAudited ==
    ASSUME NEW h \in Handler, IInv, TransitionsAudited, CancelUpdate(h) \/ CancelDevices(h)
    PROVE  TransitionsAudited'
<1>0. Acting(h)
  BY DEF CancelUpdate, CancelDevices, At, Acting, Idle
<1> PICK r \in Rollout : handler[h].rollout = r
  BY <1>0, ActingRequest
<1>1. /\ Acting(h) /\ handler[h].op = "cancelled" /\ UNCHANGED <<audit, aborts>>
      /\ handler[h].step \in {"update", "devices"}
  BY DEF CancelUpdate, CancelDevices, At, Acting, Idle
<1>2. /\ handler \in [Handler -> Request] /\ r \in Rollout /\ LeftDraft(r)
      /\ handler[h] \in [op : Lifecycle, step : {"update", "devices", "reopen"},
                         rollout : Rollout, seen : RolloutStatus]
  BY <1>1, ActingRequest, LifecycleType DEF Seen, Saw, IInv, TypeOK, Acting
<1>3. PICK q : Becomes(h, q) /\ MakesKnown(q, r, "cancelled", {"devices", "audit"})
  <2>1. CASE CancelUpdate(h)
    <3>1. Becomes(h, [handler[h] EXCEPT !.step = "devices"])
      BY <2>1 DEF CancelUpdate, Continue
    <3>2. MakesKnown([handler[h] EXCEPT !.step = "devices"], r, "cancelled", {"devices", "audit"})
      BY <1>1, <1>2 DEF MakesKnown, Idle
    <3>3. QED
      BY <3>1, <3>2
  <2>2. CASE CancelDevices(h)
    <3>1. Becomes(h, [op |-> handler[h].op, step |-> "audit", rollout |-> handler[h].rollout])
      BY <2>2 DEF CancelDevices, ToAudit
    <3>2. MakesKnown([op |-> handler[h].op, step |-> "audit", rollout |-> handler[h].rollout],
                     r, "cancelled", {"devices", "audit"})
      BY <1>1 DEF MakesKnown, Idle
    <3>3. QED
      BY <3>1, <3>2
  <2>3. QED
    BY <2>1, <2>2
<1>4. \A x \in Rollout : StartKnown(x) => StartKnown(x)'
  BY <1>1, <1>2, <1>3, KnownKept DEF StartKnown, MakesKnown
<1>5. CancelKnown(r)'
  BY <1>2, <1>3 DEF Becomes, CancelKnown, Known, InFlight, MakesKnown, Idle
<1>6. \A x \in Rollout : CancelKnown(x) => CancelKnown(x)'
  BY <1>1, <1>2, <1>3, <1>5, KnownKept DEF CancelKnown, MakesKnown
<1>7. \A x \in Rollout : x # r => status'[x] = status[x] /\ rows'[x] = rows[x]
  BY DEF CancelUpdate, CancelDevices, SetStatus, MoveRows, IInv, TypeOK
<1>8. \A x \in Rollout : (LeftDraft(x)' => LeftDraft(x)) /\ (HasCancelled(x)' => HasCancelled(x) \/ x = r)
  BY <1>2, <1>7 DEF LeftDraft, HasCancelled
<1>9. \A x \in Rollout : HasCancelled(x)' => HasCancelled(x) \/ CancelKnown(x)'
  BY <1>5, <1>8
<1>10. QED
  BY <1>1, <1>4, <1>6, <1>8, <1>9, AuditedStep

LEMMA RetryRowsAudited ==
    ASSUME NEW h \in Handler, IInv, TransitionsAudited, RetryDevices(h)
    PROVE  TransitionsAudited'
<1>1. /\ Acting(h) /\ handler[h].op = "retried"
      /\ MoveRows(handler[h].rollout, ResetStatus, "pending")
      /\ UNCHANGED <<status, audit, aborts>>
  BY DEF RetryDevices, At, Acting, Idle
<1>2. PICK q : Becomes(h, q)
  BY DEF RetryDevices, ToAudit, Continue
<1>3. /\ handler[h].rollout \in Rollout /\ rows \in [Rollout -> Seq(RowStatus)]
      /\ "pending" \in RowStatus
  BY <1>1, ActingRequest DEF IInv, TypeOK, RowStatus
<1>4. \A x \in Rollout : \A i \in DOMAIN rows[x] :
        /\ i \in DOMAIN rows'[x]
        /\ rows'[x][i] # rows[x][i] => rows[x][i] \in ResetStatus /\ rows'[x][i] = "pending"
  BY <1>1, <1>3, MoveRowsKeeps, Zenon
<1>5. \A x \in Rollout : DOMAIN rows'[x] = DOMAIN rows[x]
  BY <1>1, <1>3 DEF MoveRows
<1>6. \A x \in Rollout : (LeftDraft(x)' => LeftDraft(x)) /\ (HasCancelled(x)' => HasCancelled(x))
  BY <1>1, <1>4, <1>5 DEF LeftDraft, HasCancelled
<1>7. QED
  BY <1>1, <1>2, <1>6, UnloggedAudited DEF MakesKnown

(* The INSERT into the audit log takes over what the request made known.   *)
LEMMA LogAudited ==
    ASSUME NEW h \in Handler, IInv, TransitionsAudited, LogAuditEvent(h)
    PROVE  TransitionsAudited'
<1>1. /\ handler[h] # Idle /\ handler[h].step = "audit" /\ Becomes(h, Idle)
      /\ audit' = [audit EXCEPT ![handler[h].rollout] = @ \cup {handler[h].op}]
      /\ UNCHANGED <<status, rows, aborts>>
  BY DEF LogAuditEvent
<1>2. handler \in [Handler -> Request] /\ audit \in [Rollout -> SUBSET Lifecycle]
  BY DEF IInv, TypeOK
<1>3. \A r \in Rollout : audit[r] \subseteq audit'[r]
  BY <1>1, <1>2
<1>4. \A r \in Rollout : handler[h].rollout = r => handler[h].op \in audit'[r]
  BY <1>1, <1>2
<1>5. \A x \in Rollout : (StartKnown(x) => StartKnown(x)') /\ (CancelKnown(x) => CancelKnown(x)')
  BY <1>1, <1>2, <1>3, <1>4, KnownKept DEF StartKnown, CancelKnown, MakesKnown
<1>6. QED
  BY <1>1, <1>5, AuditedStep DEF LeftDraft, HasCancelled

LEMMA WorkerAudited ==
    ASSUME IInv, TransitionsAudited, Worker
    PROVE  TransitionsAudited'
<1>1. UNCHANGED <<audit, handler, aborts>>
  BY DEF Worker, WorkerDevice, WorkerFinish
<1>2. \A x \in Rollout : (StartKnown(x) => StartKnown(x)') /\ (CancelKnown(x) => CancelKnown(x)')
  BY <1>1 DEF StartKnown, CancelKnown, Known, InFlight
<1>3. ASSUME NEW r \in Rollout, NEW i \in DOMAIN rows[r], NEW to \in RowStatus, WorkerDevice(r, i, to)
      PROVE  \A x \in Rollout : (LeftDraft(x)' => LeftDraft(x)) /\ (HasCancelled(x)' => HasCancelled(x))
  <2>1. to # "cancelled" /\ rows' = [rows EXCEPT ![r][i] = to] /\ status' = status
    BY <1>3 DEF WorkerDevice
  <2>2. \A x \in Rollout : x # r => rows'[x] = rows[x]
    BY <2>1 DEF IInv, TypeOK
  <2>3. rows'[r] = [rows[r] EXCEPT ![i] = to]
    BY <2>1 DEF IInv, TypeOK
  <2>4. QED
    BY <2>1, <2>2, <2>3 DEF LeftDraft, HasCancelled
<1>4. ASSUME NEW r \in Rollout, NEW to \in {"completed", "failed"}, WorkerFinish(r, to)
      PROVE  \A x \in Rollout : (LeftDraft(x)' => LeftDraft(x)) /\ (HasCancelled(x)' => HasCancelled(x))
  BY <1>4 DEF WorkerFinish, SetStatus, LeftDraft, HasCancelled, IInv, TypeOK
<1>5. QED
  BY <1>1, <1>2, <1>3, <1>4, AuditedStep DEF Worker

LEMMA NextAudited ==
    ASSUME IInv, TransitionsAudited, [Next]_vars
    PROVE  TransitionsAudited'
<1>1. ASSUME NEW h \in Handler, Abort(h)  PROVE TransitionsAudited'
  <2>1. aborts' # 0
    BY <1>1, MaxAbortsAssumption DEF Abort, IInv, TypeOK
  <2>2. QED
    BY <2>1 DEF TransitionsAudited
<1>2. ASSUME NEW h \in Handler, Statement(h)  PROVE TransitionsAudited'
  BY <1>2, CreateAudited, RunningAudited, CancelAudited, RetryRowsAudited, LogAudited DEF Statement
<1>3. CASE UNCHANGED vars
  BY <1>3 DEF vars, TransitionsAudited, InFlight
<1>4. QED
  BY <1>1, <1>2, <1>3, ArrivalAudited, WorkerAudited DEF Next

(* The audit log misses no start and no cancellation, however the requests *)
(* and the worker interleave, as long as no request dies before it logs.   *)
THEOREM AuditComplete == Spec => []TransitionsAudited
<1>1. Init => TransitionsAudited
  BY DEF Init, TransitionsAudited
<1>2. IInv /\ TransitionsAudited /\ [Next]_vars => TransitionsAudited'
  BY NextAudited
<1>3. QED
  BY <1>1, <1>2, SpecIInv, PTL DEF Spec

-----------------------------------------------------------------------------
(* What revives a cancelled rollout read its status before the cancel.     *)
RevivalStep ==
    \A r \in Rollout : status[r] = "cancelled" /\ status'[r] # "cancelled" =>
        \E h \in Handler :
           /\ handler'[h] # handler[h]
           /\ handler[h].step \in {"update", "reopen"}
           /\ handler[h].rollout = r /\ handler[h].seen # "cancelled"

LEMMA NextRevivalStep ==
    ASSUME IInv, Next
    PROVE  RevivalStep
<1> SUFFICES ASSUME NEW r \in Rollout, status[r] = "cancelled", status'[r] # "cancelled"
             PROVE  \E h \in Handler :
                       /\ handler'[h] # handler[h]
                       /\ handler[h].step \in {"update", "reopen"}
                       /\ handler[h].rollout = r /\ handler[h].seen # "cancelled"
  BY DEF RevivalStep
<1>1. status \in [Rollout -> RolloutStatus \cup {"unborn"}] /\ handler \in [Handler -> Request]
  BY DEF IInv, TypeOK
<1>2. PICK h \in Handler : StartUpdate(h) \/ RetryReopen(h)
  <2>1. \A h \in Handler : ~ \E x \in Rollout : CreateInsert(h, x)
    BY <1>1 DEF CreateInsert, SetStatus
  <2>2. \A h \in Handler : ~CancelUpdate(h)
    BY <1>1 DEF CancelUpdate, SetStatus
  <2>3. \A x \in Rollout, to \in {"completed", "failed"} : ~WorkerFinish(x, to)
    BY <1>1 DEF WorkerFinish, SetStatus
  <2>4. \A h \in Handler : ~(Arrival(h) \/ Abort(h) \/ LogAuditEvent(h) \/ CreateRows(h)
                             \/ CancelDevices(h) \/ RetryDevices(h))
    BY DEF Arrival, CreateRead, StartRead, CancelRead, RetryRead, Accept, tables, Abort,
           LogAuditEvent, CreateRows, InsertRows, CancelDevices, RetryDevices
  <2>5. \A x \in Rollout : \A i \in DOMAIN rows[x], to \in RowStatus : ~WorkerDevice(x, i, to)
    BY DEF WorkerDevice
  <2>6. QED
    BY <2>1, <2>2, <2>3, <2>4, <2>5 DEF Next, Statement, Worker
<1>3. /\ Acting(h) /\ handler[h].step \in {"update", "reopen"}
      /\ status' = [status EXCEPT ![handler[h].rollout] = "running"]
      /\ Becomes(h, [op |-> handler[h].op, step |-> "audit", rollout |-> handler[h].rollout])
  BY <1>2 DEF StartUpdate, RetryReopen, At, Acting, SetStatus, ToAudit, Idle
<1>4. handler[h].rollout = r
  BY <1>1, <1>3
<1>5. handler[h].seen # "cancelled"
  BY <1>3, ActingRequest DEF Seen, Saw
<1>6. handler'[h].step = "audit"
  BY <1>1, <1>3 DEF Becomes
<1>7. QED
  BY <1>3, <1>4, <1>5, <1>6

(* No rollout is revived but by a start or a retry that read it live.      *)
THEOREM RevivedByStaleOnly == Spec => OnlyStaleRevives
<1>1. IInv /\ [Next]_vars => [RevivalStep]_vars
  BY NextRevivalStep
<1>2. QED
  BY <1>1, SpecIInv, PTL DEF Spec, OnlyStaleRevives, RevivalStep

=============================================================================
