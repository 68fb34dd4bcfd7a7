------------------------------ MODULE Catalog -------------------------------
(***************************************************************************)
(* The rows that hang on each other: sites on estates (routes/sites.ts,    *)
(* routes/estates.ts), rollouts on firmware packages (routes/firmware.ts,  *)
(* routes/rollouts.ts) and on device groups (routes/device-groups.ts).     *)
(*                                                                         *)
(* A handler awaits each SQL statement, so other requests come between the *)
(* count that allows a deletion and the DELETE, and between the count of   *)
(* an estate's sites and the UPDATE that writes it to estates.site_count.  *)
(* The foreign keys refuse the INSERT or DELETE that would leave a row     *)
(* without its parent; the request then ends with an error.                *)
(*                                                                         *)
(* No route inserts, deletes or moves devices: those of the seed stay.     *)
(***************************************************************************)
EXTENDS Integers, FiniteSets

CONSTANTS
    Estate, Site, Package, Group, Rollout,   \* ids; a uuid is never reused
    Home, Occupied,                          \* an estate of the seed and its sites, with devices
    Handler,                                 \* requests in progress at the same time
    MaxAborts                                \* bound: requests that die between two statements

ASSUME SeedAssumption == Home \in Estate /\ Occupied \subseteq Site /\ IsFiniteSet(Site)
ASSUME BoundAssumption == MaxAborts \in Nat
ASSUME KindsAssumption ==
    /\ Estate \cap (Site \cup Package \cup Group \cup Rollout) = {}
    /\ Site \cap (Package \cup Group \cup Rollout) = {}

Row == Estate \cup Site \cup Package \cup Group \cup Rollout

VARIABLES
    life,        \* life[x]: "unborn", "active", "deprecated" (packages only) or "deleted"
    refs,        \* refs[x]: the rows its foreign keys name
    siteCount,   \* column site_count
    deletions,   \* deletions[x]: rows of the audit log that say x was deleted
    handler,     \* the next statement of each request and what it has read
    aborts

tables == <<life, refs, siteCount, deletions>>
vars == <<tables, handler, aborts>>

There(x) == life[x] \in {"active", "deprecated"}
Children(x) == {y \in Row : There(y) /\ x \in refs[y]}
SitesOf(e) == {s \in Site : There(s) /\ e \in refs[s]}

Idle == [step |-> "idle"]
Operation == {"create", "update", "delete"}
Request ==
    {Idle}
    \cup [step : {"insert"}, package : Package, group : Group]
    \cup [step : {"delete"}, row : Row]
    \cup [step : {"status"}, row : Package, to : {"active", "deprecated"}]
    \cup [step : {"count"}, op : Operation, row : Site, estate : Estate, alone : BOOLEAN]
    \cup [step : {"write"}, op : Operation, row : Site, estate : Estate, alone : BOOLEAN, n : Nat]
    \cup [step : {"audit"}, op : Operation, row : Row]

Init ==
    /\ life = [x \in Row |-> IF x \in {Home} \cup Occupied \cup Group THEN "active" ELSE "unborn"]
    /\ refs = [x \in Row |-> IF x \in Occupied THEN {Home} ELSE {}]
    /\ siteCount = [e \in Estate |-> IF e = Home THEN Cardinality(Occupied) ELSE 0]
    /\ deletions = [x \in Row |-> 0]
    /\ handler = [h \in Handler |-> Idle]
    /\ aborts = 0

At(h, step) == handler[h].step = step

Becomes(h, request) == handler' = [handler EXCEPT ![h] = request]

Accept(h, request) ==
    /\ At(h, "idle")
    /\ Becomes(h, request)
    /\ UNCHANGED <<tables, aborts>>

ToAudit(h, op, x) == Becomes(h, [step |-> "audit", op |-> op, row |-> x])

(* Requests that have created or deleted a site of e and have yet to write *)
(* its site_count.  A request is alone if no other was, or came to be, one *)
(* of them; nothing in the code tells it so.                               *)
Recounting(e) ==
    {h \in Handler : handler[h].step \in {"count", "write"} /\ handler[h].estate = e}

SiteChanged(h, op, s, e) ==
    handler' = [k \in Handler |->
        IF k = h THEN [step |-> "count", op |-> op, row |-> s, estate |-> e,
                       alone |-> Recounting(e) = {}]
        ELSE IF k \in Recounting(e) THEN [handler[k] EXCEPT !.alone = FALSE]
        ELSE handler[k]]

-----------------------------------------------------------------------------
InsertUnchecked(x, parents) ==      \* fault: the column has no foreign key
    /\ life[x] = "unborn"
    /\ life' = [life EXCEPT ![x] = "active"]
    /\ refs' = [refs EXCEPT ![x] = parents]

(* INSERT, which the foreign keys refuse if a parent is not there. *)
Insert(x, parents) ==
    /\ life[x] = "unborn"
    /\ \A p \in parents : There(p)
    /\ life' = [life EXCEPT ![x] = "active"]
    /\ refs' = [refs EXCEPT ![x] = parents]

(* POST /estates and POST /firmware *)
CreateAlone(h, x) ==
    /\ At(h, "idle")
    /\ Insert(x, {})
    /\ ToAudit(h, "create", x)
    /\ UNCHANGED <<siteCount, deletions, aborts>>

(* POST /sites *)
CreateSite(h, s, e) ==
    /\ At(h, "idle")
    /\ Insert(s, {e})
    /\ SiteChanged(h, "create", s, e)
    /\ UNCHANGED <<siteCount, deletions, aborts>>

(* POST /rollouts finds the package and the group, then inserts.           *)
CreateRolloutRead(h, p, g) ==
    /\ There(p) /\ There(g)                    \* else 404
    /\ Accept(h, [step |-> "insert", package |-> p, group |-> g])

CreateRollout(h, r) ==
    /\ At(h, "insert")
    /\ Insert(r, {handler[h].package, handler[h].group})
    /\ ToAudit(h, "create", r)
    /\ UNCHANGED <<siteCount, deletions, aborts>>

CreateRolloutRefused(h) ==
    /\ At(h, "insert")
    /\ ~(There(handler[h].package) /\ There(handler[h].group))
    /\ Becomes(h, Idle)
    /\ UNCHANGED <<tables, aborts>>

-----------------------------------------------------------------------------
(* DELETE /sites/:id, /estates/:id and /firmware/:id count the devices,    *)
(* sites or rollouts first.  DELETE /device-groups/:id counts nothing.     *)
DeleteRead(h, x) ==
    /\ life[x] # "unborn"
    /\ x \in Group \/ (Children(x) = {} /\ x \notin Occupied)     \* else 409
    /\ Accept(h, [step |-> "delete", row |-> x])

Deleted(h, x) ==
    IF x \in Site
      THEN \E e \in refs[x] : SiteChanged(h, "delete", x, e)
      ELSE ToAudit(h, "delete", x)

(* The route also reads the estate of a site before it deletes the site:   *)
(* that never changes.                                                     *)
DeleteRow(h) ==
    /\ At(h, "delete")
    /\ LET x == handler[h].row IN
       /\ There(x) /\ Children(x) = {}
       /\ life' = [life EXCEPT ![x] = "deleted"]
       /\ Deleted(h, x)
    /\ UNCHANGED <<refs, siteCount, deletions, aborts>>

(* 404 if another request deleted the row, an error if it has children. *)
DeleteUnreturned(h) ==      \* fault: does not look at what the DELETE returned
    /\ At(h, "delete")
    /\ LET x == handler[h].row IN
       IF There(x) THEN Children(x) # {} /\ Becomes(h, Idle)
       ELSE Deleted(h, x)
    /\ UNCHANGED <<tables, aborts>>

DeleteRefused(h) ==
    /\ At(h, "delete")
    /\ LET x == handler[h].row IN ~There(x) \/ Children(x) # {}
    /\ Becomes(h, Idle)
    /\ UNCHANGED <<tables, aborts>>

-----------------------------------------------------------------------------
(* The rest of POST /sites and DELETE /sites/:id *)
CountedIncrement(h, e) ==      \* fault: adds to the column instead of counting
    IF handler[h].op = "create" THEN siteCount[e] + 1 ELSE siteCount[e] - 1

Counted(h, e) == Cardinality(SitesOf(e))

CountSites(h) ==
    /\ At(h, "count")
    /\ LET e == handler[h].estate IN
       Becomes(h, [step |-> "write", op |-> handler[h].op, row |-> handler[h].row,
                   estate |-> e, alone |-> handler[h].alone, n |-> Counted(h, e)])
    /\ UNCHANGED <<tables, aborts>>

WriteCount(h) ==
    /\ At(h, "write")
    /\ LET e == handler[h].estate IN
       siteCount' = IF There(e) THEN [siteCount EXCEPT ![e] = handler[h].n] ELSE siteCount
    /\ ToAudit(h, handler[h].op, handler[h].row)
    /\ UNCHANGED <<life, refs, deletions, aborts>>

-----------------------------------------------------------------------------
(* POST /firmware/:id/deprecate and /activate: nothing looks at what the   *)
(* UPDATE returned, a change of a package that is gone is logged too.      *)
SetStatusRead(h, p, to) ==
    /\ There(p)                                \* else 404
    /\ life[p] # to                            \* else 409
    /\ Accept(h, [step |-> "status", row |-> p, to |-> to])

NewStatus(h, p) ==
    life' = IF There(p) THEN [life EXCEPT ![p] = handler[h].to] ELSE life

SetStatus(h) ==
    /\ At(h, "status")
    /\ NewStatus(h, handler[h].row)
    /\ ToAudit(h, "update", handler[h].row)
    /\ UNCHANGED <<refs, siteCount, deletions, aborts>>

(* The last statement of every route, then the reply. *)
LogAuditEvent(h) ==
    /\ At(h, "audit")
    /\ deletions' = IF handler[h].op = "delete" THEN [deletions EXCEPT ![handler[h].row] = @ + 1]
                    ELSE deletions
    /\ Becomes(h, Idle)
    /\ UNCHANGED <<life, refs, siteCount, aborts>>

(* A statement fails or the process stops. *)
Abort(h) ==
    /\ ~At(h, "idle")
    /\ aborts < MaxAborts
    /\ aborts' = aborts + 1
    /\ Becomes(h, Idle)
    /\ UNCHANGED tables

-----------------------------------------------------------------------------
Arrival(h) ==
    \/ \E x \in Estate \cup Package : CreateAlone(h, x)
    \/ \E s \in Site, e \in Estate : CreateSite(h, s, e)
    \/ \E p \in Package, g \in Group : CreateRolloutRead(h, p, g)
    \/ \E x \in Row \ Rollout : DeleteRead(h, x)
    \/ \E p \in Package, to \in {"active", "deprecated"} : SetStatusRead(h, p, to)

Statement(h) ==
    \/ \E r \in Rollout : CreateRollout(h, r)
    \/ CreateRolloutRefused(h)
    \/ DeleteRow(h) \/ DeleteRefused(h)
    \/ CountSites(h) \/ WriteCount(h)
    \/ SetStatus(h)
    \/ LogAuditEvent(h)

Next == \E h \in Handler : Arrival(h) \/ Statement(h) \/ Abort(h)

Spec == Init /\ [][Next]_vars

-----------------------------------------------------------------------------
(* Properties. *)

(* Every variable keeps its shape. *)
TypeOK ==
    /\ life \in [Row -> {"unborn", "active", "deprecated", "deleted"}]
    /\ refs \in [Row -> SUBSET Row]
    /\ siteCount \in [Estate -> Nat]
    /\ deletions \in [Row -> Nat]
    /\ handler \in [Handler -> Request]
    /\ aborts \in 0..MaxAborts

(* The tables keep the promise of their foreign keys although every route  *)
(* decides on what it read before: no deletion, creation or late change of *)
(* a status leaves a row without its parent or brings one back.            *)
Keys == INSTANCE References WITH
    rows <- {x \in Row : There(x)}, gone <- {x \in Row : life[x] = "deleted"}
KeepsReferences == Keys!Spec

(* A create or delete of a site leaves the right site_count unless another *)
(* request changed the sites of the estate meanwhile, and so repairs what  *)
(* overlapping or dying requests left there.                               *)
CountRight(e) == There(e) => siteCount'[e] = Cardinality(SitesOf(e))
LoneWritesRight ==
    \A h \in Handler :
        At(h, "write") /\ handler[h].alone /\ handler'[h].step = "audit" =>
           CountRight(handler[h].estate)
LoneChangeCounts == [][LoneWritesRight]_vars

(* Of the requests that delete a row at the same time, one logs it: the    *)
(* audit log has one row per deletion, unless the request that deleted has *)
(* yet to write it or died.                                                *)
Logging(x) ==
    {h \in Handler :
        /\ handler[h].step \in {"count", "write", "audit"}
        /\ handler[h].op = "delete" /\ handler[h].row = x}
DeletionsLogged ==
    \A x \in Row :
        LET logged == deletions[x] + Cardinality(Logging(x)) IN
        /\ logged <= 1
        /\ logged = 1 => life[x] = "deleted"
        /\ life[x] = "deleted" /\ aborts = 0 => logged = 1

=============================================================================
