--------------------------- MODULE CatalogProofs ----------------------------
(***************************************************************************)
(* TypeOK, LoneChangeCounts, DeletionsLogged and the refinement of         *)
(* References, for any rows, requests in flight and failures.              *)
(*                                                                         *)
(* The strengthening says that a site refers to one estate, so that a      *)
(* change of a site is a change for the requests recounting that estate    *)
(* and for no other, and that a request which is still alone when it has   *)
(* counted holds the count as it is now.  For the log it says that of the  *)
(* requests deleting a row at most one still has to log it, and none once  *)
(* one has (DeletionLog).                                                  *)
(***************************************************************************)
EXTENDS Catalog, FiniteSetTheorems, TLAPS

SiteHasEstate == \A s \in Site : There(s) => \E e \in Estate : refs[s] = {e}

LoneCountKnown ==
    \A h \in Handler :
        At(h, "write") /\ handler[h].alone => handler[h].n = Cardinality(SitesOf(handler[h].estate))

IInv == TypeOK /\ SiteHasEstate /\ LoneCountKnown

USE DEF At, Becomes

-----------------------------------------------------------------------------
(* The number of sites of an estate is a natural number. *)
LEMMA SitesCounted ==
    ASSUME NEW e
    PROVE  Cardinality(SitesOf(e)) \in Nat
<1>1. SitesOf(e) \subseteq Site
  BY DEF SitesOf
<1>2. IsFiniteSet(SitesOf(e))
  BY <1>1, SeedAssumption, FS_Subset
<1>3. QED
  BY <1>2, FS_CardinalityType

(* A request under way has the fields of its step. *)
LEMMA Fields ==
    ASSUME TypeOK, NEW h \in Handler
    PROVE  /\ At(h, "insert") => handler[h].package \in Package /\ handler[h].group \in Group
           /\ At(h, "delete") => handler[h].row \in Row
           /\ At(h, "status") => handler[h].row \in Package /\ handler[h].to \in {"active", "deprecated"}
           /\ At(h, "count") => /\ handler[h] \in [step : {"count"}, op : Operation, row : Site,
                                                   estate : Estate, alone : BOOLEAN]
           /\ At(h, "write") => /\ handler[h] \in [step : {"write"}, op : Operation, row : Site,
                                                   estate : Estate, alone : BOOLEAN, n : Nat]
           /\ At(h, "audit") => handler[h].row \in Row /\ handler[h].op \in Operation
<1>1. handler[h] \in Request
  BY DEF TypeOK
<1>2. QED
  BY <1>1 DEF Request, Idle

(* A change of a site leaves well-formed requests. *)
LEMMA SiteChangedType ==
    ASSUME TypeOK, NEW h \in Handler, NEW s \in Site, NEW e \in Estate,
           NEW op \in Operation, SiteChanged(h, op, s, e)
    PROVE  handler' \in [Handler -> Request]
<1>1. ASSUME NEW k \in Recounting(e) PROVE [handler[k] EXCEPT !.alone = FALSE] \in Request
  <2>1. k \in Handler /\ (At(k, "count") \/ At(k, "write"))
    BY <1>1 DEF Recounting
  <2>2. CASE At(k, "count")
    <3>1. handler[k] \in [step : {"count"}, op : Operation, row : Site,
                          estate : Estate, alone : BOOLEAN]
      BY <2>1, <2>2, Fields
    <3>2. [handler[k] EXCEPT !.alone = FALSE] \in
             [step : {"count"}, op : Operation, row : Site, estate : Estate, alone : BOOLEAN]
      BY <3>1
    <3>3. QED
      BY <3>2 DEF Request
  <2>3. CASE At(k, "write")
    <3>1. handler[k] \in [step : {"write"}, op : Operation, row : Site,
                          estate : Estate, alone : BOOLEAN, n : Nat]
      BY <2>1, <2>3, Fields
    <3>2. [handler[k] EXCEPT !.alone = FALSE] \in
             [step : {"write"}, op : Operation, row : Site, estate : Estate, alone : BOOLEAN, n : Nat]
      BY <3>1
    <3>3. QED
      BY <3>2 DEF Request
  <2>4. QED
    BY <2>1, <2>2, <2>3
<1>2. [step |-> "count", op |-> op, row |-> s, estate |-> e, alone |-> Recounting(e) = {}] \in Request
  <2>1. (Recounting(e) = {}) \in BOOLEAN
    OBVIOUS
  <2>2. QED
    BY <2>1 DEF Request
<1>3. \A k \in Handler : handler[k] \in Request
  BY DEF TypeOK
<1>4. QED
  BY <1>1, <1>2, <1>3 DEF SiteChanged

(* The row to delete, and the request that deletes it. *)
LEMMA DeletedType ==
    ASSUME IInv, NEW h \in Handler, NEW x \in Row, There(x), Deleted(h, x)
    PROVE  handler' \in [Handler -> Request]
<1>1. CASE x \in Site
  <2>1. PICK e \in refs[x] : SiteChanged(h, "delete", x, e)
    BY <1>1 DEF Deleted
  <2>2. e \in Estate
    BY <1>1, <2>1 DEF IInv, SiteHasEstate
  <2>3. QED
    BY <1>1, <2>1, <2>2, SiteChangedType DEF IInv, Operation
<1>2. CASE x \notin Site
  <2>1. [step |-> "audit", op |-> "delete", row |-> x] \in Request
    BY DEF Request, Operation
  <2>2. QED
    BY <1>2, <2>1 DEF Deleted, ToAudit, IInv, TypeOK
<1>3. QED
  BY <1>1, <1>2

-----------------------------------------------------------------------------
LEMMA InitType == Init => TypeOK
<1>. SUFFICES ASSUME Init PROVE TypeOK
  OBVIOUS
<1>1. Cardinality(Occupied) \in Nat
  BY SeedAssumption, FS_Subset, FS_CardinalityType
<1>2. Home \in Row
  BY SeedAssumption DEF Row
<1>3. refs \in [Row -> SUBSET Row]
  BY <1>2 DEF Init
<1>4. siteCount \in [Estate -> Nat]
  BY <1>1 DEF Init
<1>5. handler \in [Handler -> Request]
  BY DEF Init, Request
<1>6. QED
  BY <1>3, <1>4, <1>5, BoundAssumption DEF Init, TypeOK

LEMMA StepType == IInv /\ [Next]_vars => TypeOK'
<1>. SUFFICES ASSUME IInv, [Next]_vars PROVE TypeOK'
  OBVIOUS
<1>. USE DEF IInv
<1>1. CASE UNCHANGED vars
  BY <1>1 DEF vars, tables, TypeOK
<1>2. CASE Next
  <2>1. PICK h \in Handler : Arrival(h) \/ Statement(h) \/ Abort(h)
    BY <1>2 DEF Next
  <2>2. ASSUME NEW x \in Estate \cup Package, CreateAlone(h, x) PROVE TypeOK'
    <3>1. x \in Row
      BY DEF Row
    <3>2. [step |-> "audit", op |-> "create", row |-> x] \in Request
      BY <3>1 DEF Request, Operation
    <3>3. QED
      BY <2>2, <3>1, <3>2 DEF CreateAlone, Insert, ToAudit, TypeOK
  <2>3. ASSUME NEW s \in Site, NEW e \in Estate, CreateSite(h, s, e) PROVE TypeOK'
    <3>1. s \in Row /\ {e} \subseteq Row
      BY DEF Row
    <3>2. handler' \in [Handler -> Request]
      BY <2>3, SiteChangedType DEF CreateSite, Operation
    <3>3. QED
      BY <2>3, <3>1, <3>2 DEF CreateSite, Insert, TypeOK
  <2>4. ASSUME NEW p \in Package, NEW g \in Group, CreateRolloutRead(h, p, g) PROVE TypeOK'
    BY <2>4 DEF CreateRolloutRead, Accept, tables, TypeOK, Request
  <2>5. ASSUME NEW x \in Row, DeleteRead(h, x) PROVE TypeOK'
    BY <2>5 DEF DeleteRead, Accept, tables, TypeOK, Request
  <2>6. ASSUME NEW p \in Package, NEW to \in {"active", "deprecated"}, SetStatusRead(h, p, to)
        PROVE  TypeOK'
    BY <2>6 DEF SetStatusRead, Accept, tables, TypeOK, Request
  <2>7. ASSUME NEW r \in Rollout, CreateRollout(h, r) PROVE TypeOK'
    <3>1. handler[h].package \in Package /\ handler[h].group \in Group
      BY <2>7, Fields DEF CreateRollout
    <3>2. r \in Row /\ {handler[h].package, handler[h].group} \subseteq Row
      BY <3>1 DEF Row
    <3>3. [step |-> "audit", op |-> "create", row |-> r] \in Request
      BY <3>2 DEF Request, Operation
    <3>4. QED
      BY <2>7, <3>2, <3>3 DEF CreateRollout, Insert, ToAudit, TypeOK
  <2>8. CASE CreateRolloutRefused(h) \/ DeleteRefused(h)
    BY <2>8 DEF CreateRolloutRefused, DeleteRefused, tables, TypeOK, Request
  <2>9. CASE DeleteRow(h)
    <3>1. handler[h].row \in Row
      BY <2>9, Fields DEF DeleteRow
    <3>2. handler' \in [Handler -> Request]
      BY <2>9, <3>1, DeletedType DEF DeleteRow
    <3>3. QED
      BY <2>9, <3>1, <3>2 DEF DeleteRow, TypeOK
  <2>10. CASE CountSites(h)
    <3>1. handler[h] \in [step : {"count"}, op : Operation, row : Site,
                          estate : Estate, alone : BOOLEAN]
      BY <2>10, Fields DEF CountSites
    <3>2. Counted(h, handler[h].estate) \in Nat
      BY SitesCounted DEF Counted
    <3>3. handler' \in [Handler -> Request]
      BY <2>10, <3>1, <3>2 DEF CountSites, Request, TypeOK
    <3>4. QED
      BY <2>10, <3>3 DEF CountSites, tables, TypeOK
  <2>11. CASE WriteCount(h)
    <3>1. handler[h] \in [step : {"write"}, op : Operation, row : Site,
                          estate : Estate, alone : BOOLEAN, n : Nat]
      BY <2>11, Fields DEF WriteCount
    <3>2. [step |-> "audit", op |-> handler[h].op, row |-> handler[h].row] \in Request
      BY <3>1 DEF Request, Row
    <3>3. siteCount' \in [Estate -> Nat]
      BY <2>11, <3>1 DEF WriteCount, TypeOK
    <3>4. QED
      BY <2>11, <3>2, <3>3 DEF WriteCount, ToAudit, TypeOK
  <2>12. CASE SetStatus(h)
    <3>1. handler[h].row \in Package /\ handler[h].to \in {"active", "deprecated"}
      BY <2>12, Fields DEF SetStatus
    <3>2. [step |-> "audit", op |-> "update", row |-> handler[h].row] \in Request
      BY <3>1 DEF Request, Row, Operation
    <3>3. QED
      BY <2>12, <3>1, <3>2 DEF SetStatus, NewStatus, ToAudit, TypeOK
  <2>13. CASE LogAuditEvent(h)
    <3>1. handler[h].row \in Row
      BY <2>13, Fields DEF LogAuditEvent
    <3>2. QED
      BY <2>13, <3>1 DEF LogAuditEvent, TypeOK, Request
  <2>14. CASE Abort(h)
    BY <2>14, BoundAssumption DEF Abort, tables, TypeOK, Request
  <2>15. QED
    BY <2>1, <2>2, <2>3, <2>4, <2>5, <2>6, <2>7, <2>8, <2>9, <2>10, <2>11, <2>12, <2>13, <2>14
       DEF Arrival, Statement
<1>3. QED
  BY <1>1, <1>2

-----------------------------------------------------------------------------
(* What does not touch the rows of sites leaves the sites of every estate. *)
LEMMA SitesKept ==
    ASSUME \A s \in Site : life'[s] = life[s] /\ refs'[s] = refs[s], NEW e
    PROVE  SitesOf(e)' = SitesOf(e)
BY DEF SitesOf, There

LEMMA StepKeepsSites ==
    ASSUME IInv, \A s \in Site : life'[s] = life[s] /\ refs'[s] = refs[s]
    PROVE  SiteHasEstate'
BY DEF IInv, SiteHasEstate, There

(* A request that does not move keeps the right count if the sites of its  *)
(* estate stay.                                                            *)
LEMMA LoneCountStays ==
    ASSUME IInv, NEW k \in Handler, At(k, "write"), handler[k].alone,
           handler'[k] = handler[k],
           \A f \in Estate : handler[k].estate = f => SitesOf(f)' = SitesOf(f)
    PROVE  (handler[k].n = Cardinality(SitesOf(handler[k].estate)))'
<1>1. PICK f \in Estate : handler[k].estate = f
  BY Fields DEF IInv
<1>2. handler[k].n = Cardinality(SitesOf(f))
  BY <1>1 DEF IInv, LoneCountKnown
<1>3. SitesOf(f)' = SitesOf(f)
  BY <1>1
<1>4. SitesOf(handler[k].estate)' = SitesOf(f)'
  BY <1>1 DEF SitesOf
<1>5. QED
  BY <1>2, <1>3, <1>4

(* A change of a site of e changes the sites of no other estate, and takes *)
(* the others that recount e out of the lone requests.                     *)
LEMMA SiteChangedLone ==
    ASSUME IInv, NEW h \in Handler, NEW op, NEW s, NEW e, SiteChanged(h, op, s, e),
           \A f \in Estate \ {e} : SitesOf(f)' = SitesOf(f)
    PROVE  LoneCountKnown'
<1>. SUFFICES ASSUME NEW k \in Handler, (At(k, "write") /\ handler[k].alone)'
              PROVE  (handler[k].n = Cardinality(SitesOf(handler[k].estate)))'
  BY DEF LoneCountKnown
<1>1. k # h
  BY DEF SiteChanged
<1>2. k \notin Recounting(e)
  <2>1. SUFFICES ASSUME k \in Recounting(e) PROVE FALSE
    OBVIOUS
  <2>2. handler'[k] = [handler[k] EXCEPT !.alone = FALSE]
    BY <1>1, <2>1 DEF SiteChanged
  <2>3. k \in Handler /\ (At(k, "count") \/ At(k, "write"))
    BY <2>1 DEF Recounting
  <2>4. "alone" \in DOMAIN handler[k]
    BY <2>3, Fields DEF IInv
  <2>5. QED
    BY <2>2, <2>4
<1>3. handler'[k] = handler[k]
  BY <1>1, <1>2 DEF SiteChanged
<1>4. At(k, "write") /\ handler[k].estate \in Estate /\ handler[k].estate # e
  BY <1>2, <1>3, Fields DEF IInv, Recounting
<1>5. QED
  BY <1>3, <1>4, LoneCountStays DEF IInv

LEMMA StepSites == IInv /\ [Next]_vars => SiteHasEstate' /\ LoneCountKnown'
<1>. SUFFICES ASSUME IInv, [Next]_vars PROVE SiteHasEstate' /\ LoneCountKnown'
  OBVIOUS
<1>. DEFINE Kept == \A s \in Site : life'[s] = life[s] /\ refs'[s] = refs[s]
            Quiet(h) == \A k \in Handler \ {h} : handler'[k] = handler[k]
<1>1. ASSUME NEW h \in Handler, Kept, Quiet(h), At(h, "write")' => FALSE
      PROVE  SiteHasEstate' /\ LoneCountKnown'
  <2>1. \A f \in Estate : SitesOf(f)' = SitesOf(f)
    BY <1>1, SitesKept
  <2>2. LoneCountKnown'
    <3>. SUFFICES ASSUME NEW k \in Handler, (At(k, "write") /\ handler[k].alone)'
                  PROVE  (handler[k].n = Cardinality(SitesOf(handler[k].estate)))'
      BY DEF LoneCountKnown
    <3>1. k # h /\ handler'[k] = handler[k]
      BY <1>1
    <3>2. QED
      BY <2>1, <3>1, LoneCountStays
  <2>3. QED
    BY <1>1, <2>2, StepKeepsSites
<1>2. CASE UNCHANGED vars
  BY <1>2 DEF vars, tables, IInv, SiteHasEstate, LoneCountKnown, SitesOf, There
<1>3. CASE Next
  <2>1. PICK h \in Handler : Arrival(h) \/ Statement(h) \/ Abort(h)
    BY <1>3 DEF Next
  <2>2. ASSUME NEW x \in Estate \cup Package, CreateAlone(h, x)
        PROVE  SiteHasEstate' /\ LoneCountKnown'
    <3>1. Kept
      BY <2>2, KindsAssumption DEF CreateAlone, Insert, IInv, TypeOK
    <3>2. QED
      BY <1>1, <2>2, <3>1 DEF CreateAlone, ToAudit, IInv, TypeOK
  <2>3. ASSUME NEW s \in Site, NEW e \in Estate, CreateSite(h, s, e)
        PROVE  SiteHasEstate' /\ LoneCountKnown'
    <3>1. \A z \in Site \ {s} : life'[z] = life[z] /\ refs'[z] = refs[z]
      BY <2>3 DEF CreateSite, Insert, IInv, TypeOK
    <3>2. ~There(s) /\ refs'[s] = {e}
      BY <2>3 DEF CreateSite, Insert, There, IInv, TypeOK, Row
    <3>3. \A f \in Estate \ {e} : SitesOf(f)' = SitesOf(f)
      BY <3>1, <3>2 DEF SitesOf, There
    <3>4. SiteHasEstate'
      BY <3>1, <3>2 DEF SiteHasEstate, There, IInv
    <3>5. QED
      BY <2>3, <3>3, <3>4, SiteChangedLone DEF CreateSite
  <2>4. ASSUME NEW r \in Rollout, CreateRollout(h, r)
        PROVE  SiteHasEstate' /\ LoneCountKnown'
    <3>1. Kept
      BY <2>4, KindsAssumption DEF CreateRollout, Insert, IInv, TypeOK
    <3>2. QED
      BY <1>1, <2>4, <3>1 DEF CreateRollout, ToAudit, IInv, TypeOK
  <2>5. CASE DeleteRow(h)
    <3>. DEFINE x == handler[h].row
    <3>1. x \in Row /\ There(x) /\ Deleted(h, x) /\ refs' = refs
      BY <2>5, Fields DEF DeleteRow, IInv
    <3>2. life' = [life EXCEPT ![x] = "deleted"]
      BY <2>5 DEF DeleteRow
    <3>3. \A z \in Site \ {x} : life'[z] = life[z] /\ refs'[z] = refs[z]
      BY <3>1, <3>2 DEF IInv, TypeOK
    <3>4. SiteHasEstate'
      BY <3>1, <3>2, <3>3 DEF SiteHasEstate, There, IInv, TypeOK
    <3>5. CASE x \in Site
      <4>1. PICK e \in Estate : refs[x] = {e}
        BY <3>1, <3>5 DEF IInv, SiteHasEstate
      <4>2. SiteChanged(h, "delete", x, e)
        BY <3>1, <3>5, <4>1 DEF Deleted
      <4>3. \A f \in Estate \ {e} : SitesOf(f)' = SitesOf(f)
        BY <3>1, <3>3, <4>1 DEF SitesOf, There
      <4>4. QED
        BY <3>4, <4>2, <4>3, SiteChangedLone
    <3>6. CASE x \notin Site
      <4>1. Kept
        BY <3>3, <3>6
      <4>2. handler' = [handler EXCEPT ![h] = [step |-> "audit", op |-> "delete", row |-> x]]
        BY <3>1, <3>6 DEF Deleted, ToAudit
      <4>3. QED
        BY <1>1, <4>1, <4>2 DEF IInv, TypeOK
    <3>7. QED
      BY <3>5, <3>6
  <2>6. CASE CountSites(h)
    <3>1. PICK e \in Estate : handler[h].estate = e
      BY <2>6, Fields DEF CountSites, IInv
    <3>2. /\ Kept /\ Quiet(h)
          /\ (handler[h].estate)' = e /\ (handler[h].n)' = Cardinality(SitesOf(e))
      BY <2>6, <3>1 DEF CountSites, Counted, tables, IInv, TypeOK
    <3>3. \A f \in Estate : SitesOf(f)' = SitesOf(f)
      BY <3>2, SitesKept
    <3>4. (handler[h].n = Cardinality(SitesOf(handler[h].estate)))'
      <4>1. SitesOf(handler[h].estate)' = SitesOf(e)'
        BY <3>2 DEF SitesOf
      <4>2. QED
        BY <3>2, <3>3, <4>1
    <3>5. LoneCountKnown'
      <4>. SUFFICES ASSUME NEW k \in Handler, (At(k, "write") /\ handler[k].alone)', k # h
                    PROVE  (handler[k].n = Cardinality(SitesOf(handler[k].estate)))'
        BY <3>4 DEF LoneCountKnown
      <4>1. handler'[k] = handler[k]
        BY <3>2
      <4>2. QED
        BY <3>3, <4>1, LoneCountStays
    <3>6. QED
      BY <3>2, <3>5, StepKeepsSites
  <2>7. CASE SetStatus(h)
    <3>1. handler[h].row \in Package
      BY <2>7, Fields DEF SetStatus, IInv
    <3>2. Kept
      BY <2>7, <3>1, KindsAssumption DEF SetStatus, NewStatus, IInv, TypeOK
    <3>3. QED
      BY <1>1, <2>7, <3>2 DEF SetStatus, ToAudit, IInv, TypeOK
  <2>8. CASE WriteCount(h)
    BY <1>1, <2>8 DEF WriteCount, ToAudit, IInv, TypeOK
  <2>9. CASE CreateRolloutRefused(h) \/ DeleteRefused(h) \/ Abort(h) \/ LogAuditEvent(h)
    BY <1>1, <2>9 DEF CreateRolloutRefused, DeleteRefused, Abort, LogAuditEvent, tables, Idle, IInv, TypeOK
  <2>10. ASSUME NEW q, q.step # "write", Accept(h, q)
         PROVE  SiteHasEstate' /\ LoneCountKnown'
    BY <1>1, <2>10 DEF Accept, tables, IInv, TypeOK
  <2>11. QED
    BY <2>1, <2>2, <2>3, <2>4, <2>5, <2>6, <2>7, <2>8, <2>9, <2>10
       DEF Arrival, Statement, CreateRolloutRead, DeleteRead, SetStatusRead
<1>4. QED
  BY <1>2, <1>3

-----------------------------------------------------------------------------
LEMMA InitSites == Init => SiteHasEstate /\ LoneCountKnown
<1>. SUFFICES ASSUME Init PROVE SiteHasEstate /\ LoneCountKnown
  OBVIOUS
<1>1. LoneCountKnown
  BY DEF Init, Idle, LoneCountKnown
<1>2. ASSUME NEW s \in Site, There(s) PROVE refs[s] = {Home}
  BY <1>2, SeedAssumption, KindsAssumption DEF Init, There, Row
<1>3. QED
  BY <1>1, <1>2, SeedAssumption DEF SiteHasEstate

THEOREM Inductive == Spec => []IInv
<1>1. Init => IInv
  BY InitType, InitSites DEF IInv
<1>2. IInv /\ [Next]_vars => IInv'
  BY StepType, StepSites DEF IInv
<1>3. QED
  BY <1>1, <1>2, PTL DEF Spec

(* Every variable of the catalog routes keeps its shape. *)
THEOREM TypeCorrect == Spec => []TypeOK
BY Inductive, PTL DEF IInv

-----------------------------------------------------------------------------
(* The only step that takes a request from its write to its audit row is   *)
(* its own write.                                                          *)
LEMMA OwnWrite ==
    ASSUME IInv, Next, NEW h \in Handler, At(h, "write"), handler'[h].step = "audit"
    PROVE  WriteCount(h)
<1>. USE DEF IInv
<1>1. PICK k \in Handler : Arrival(k) \/ Statement(k) \/ Abort(k)
  BY DEF Next
<1>2. ASSUME k # h PROVE FALSE
  <2>1. ASSUME NEW op, NEW s, NEW e, SiteChanged(k, op, s, e) PROVE handler'[h].step = "write"
    BY <1>2, <2>1 DEF SiteChanged, TypeOK
  <2>2. ASSUME NEW x, Deleted(k, x) PROVE handler'[h].step = "write"
    BY <1>2, <2>1, <2>2 DEF Deleted, ToAudit, TypeOK
  <2>3. handler'[h].step = "write"
    BY <1>1, <1>2, <2>1, <2>2
       DEF Arrival, Statement, CreateAlone, CreateSite, CreateRolloutRead, DeleteRead,
           SetStatusRead, Accept, CreateRollout, CreateRolloutRefused, DeleteRow, DeleteRefused,
           CountSites, WriteCount, SetStatus, LogAuditEvent, Abort, ToAudit, TypeOK
  <2>4. QED
    BY <2>3
<1>3. CASE k = h
  <2>1. CASE Arrival(h)
    BY <2>1 DEF Arrival, CreateAlone, CreateSite, CreateRolloutRead, DeleteRead, SetStatusRead, Accept
  <2>2. CASE Statement(h)
    BY <2>2 DEF Statement, CreateRollout, CreateRolloutRefused, DeleteRow, DeleteRefused,
                CountSites, SetStatus, LogAuditEvent
  <2>3. CASE Abort(h)
    BY <2>3 DEF Abort, Idle, TypeOK
  <2>4. QED
    BY <1>1, <1>3, <2>1, <2>2, <2>3
<1>4. QED
  BY <1>2, <1>3

(* A create or delete of a site that no other overlapped leaves the right  *)
(* site_count, whatever was there before.                                  *)
THEOREM LoneChangesCount == Spec => LoneChangeCounts
<1>1. IInv /\ [Next]_vars => [LoneWritesRight]_vars
  <2>. SUFFICES ASSUME IInv, Next, NEW h \in Handler, At(h, "write"), handler[h].alone,
                       handler'[h].step = "audit", There(handler[h].estate)
                PROVE  siteCount'[handler[h].estate] = Cardinality(SitesOf(handler[h].estate))
    BY DEF LoneWritesRight, CountRight
  <2>1. WriteCount(h)
    BY OwnWrite
  <2>2. handler[h].estate \in Estate
    BY Fields DEF IInv
  <2>3. siteCount'[handler[h].estate] = handler[h].n
    BY <2>1, <2>2 DEF WriteCount, IInv, TypeOK
  <2>4. QED
    BY <2>3 DEF IInv, LoneCountKnown
<1>2. QED
  BY <1>1, Inductive, PTL DEF Spec, LoneChangeCounts

-----------------------------------------------------------------------------
(* A step that keeps the foreign keys, and life but for a status, maps to  *)
(* a stutter of References.                                                *)
LEMMA Stutter ==
    ASSUME refs' = refs,
           \A x \in Row : There(x)' = There(x) /\ (life'[x] = "deleted" <=> life[x] = "deleted")
    PROVE  UNCHANGED Keys!vars
BY DEF Keys!vars

LEMMA InsertMaps ==
    ASSUME TypeOK, NEW x \in Row, NEW parents \in SUBSET Row, Insert(x, parents)
    PROVE  Keys!Insert(x)
<1>1. life[x] = "unborn" /\ life' = [life EXCEPT ![x] = "active"]
      /\ refs' = [refs EXCEPT ![x] = parents]
  BY DEF Insert
<1>2. {y \in Row : There(y)}' = {y \in Row : There(y)} \cup {x}
  BY <1>1 DEF There, TypeOK
<1>3. {y \in Row : life[y] = "deleted"}' = {y \in Row : life[y] = "deleted"}
  BY <1>1 DEF TypeOK
<1>4. x \notin {y \in Row : There(y)} \cup {y \in Row : life[y] = "deleted"}
  BY <1>1 DEF There
<1>5. refs'[x] = parents /\ parents \subseteq {y \in Row : There(y)}
  BY <1>1 DEF Insert, TypeOK
<1>6. QED
  BY <1>1, <1>2, <1>3, <1>4, <1>5 DEF Keys!Insert

LEMMA DeleteMaps ==
    ASSUME TypeOK, NEW h \in Handler, DeleteRow(h), NEW x \in Row, x = handler[h].row
    PROVE  Keys!Delete(x)
<1>1. There(x) /\ Children(x) = {} /\ life' = [life EXCEPT ![x] = "deleted"]
      /\ refs' = refs
  BY DEF DeleteRow
<1>2. {y \in Row : There(y)}' = {y \in Row : There(y)} \ {x}
  BY <1>1 DEF There, TypeOK
<1>3. {y \in Row : life[y] = "deleted"}' = {y \in Row : life[y] = "deleted"} \cup {x}
  BY <1>1 DEF TypeOK
<1>4. \A y \in {z \in Row : There(z)} : x \notin refs[y]
  BY <1>1 DEF Children
<1>5. QED
  BY <1>1, <1>2, <1>3, <1>4 DEF Keys!Delete

(* The tables implement References: no interleaving leaves a row without   *)
(* its parent or brings one back.                                          *)
THEOREM ReferencesKept == Spec => KeepsReferences
<1>1. Init => Keys!Init
  <2>. SUFFICES ASSUME Init PROVE Keys!Init
    OBVIOUS
  <2>1. Home \in Row /\ There(Home)
    BY SeedAssumption DEF Init, There, Row
  <2>2. refs \in [Row -> SUBSET {x \in Row : There(x)}]
    BY <2>1 DEF Init
  <2>3. {x \in Row : life[x] = "deleted"} = {}
    BY DEF Init
  <2>4. QED
    BY <2>2, <2>3 DEF Keys!Init
<1>2. IInv /\ [Next]_vars => [Keys!Next]_(Keys!vars)
  <2>. SUFFICES ASSUME IInv, [Next]_vars PROVE Keys!Next \/ UNCHANGED Keys!vars
    OBVIOUS
  <2>. USE DEF IInv
  <2>1. CASE UNCHANGED vars
    BY <2>1, Stutter DEF vars, tables, There
  <2>2. CASE Next
    <3>1. PICK h \in Handler : Arrival(h) \/ Statement(h) \/ Abort(h)
      BY <2>2 DEF Next
    <3>2. ASSUME NEW x \in Row, NEW parents \in SUBSET Row, Insert(x, parents) PROVE Keys!Next
      BY <3>2, InsertMaps DEF Keys!Next
    <3>3. ASSUME NEW x \in Estate \cup Package, CreateAlone(h, x) PROVE Keys!Next
      BY <3>2, <3>3 DEF CreateAlone, Row
    <3>4. ASSUME NEW s \in Site, NEW e \in Estate, CreateSite(h, s, e) PROVE Keys!Next
      BY <3>2, <3>4 DEF CreateSite, Row
    <3>5. ASSUME NEW r \in Rollout, CreateRollout(h, r) PROVE Keys!Next
      <4>1. handler[h].package \in Package /\ handler[h].group \in Group
        BY <3>5, Fields DEF CreateRollout
      <4>2. QED
        BY <3>2, <3>5, <4>1 DEF CreateRollout, Row
    <3>6. CASE DeleteRow(h)
      <4>1. PICK x \in Row : x = handler[h].row
        BY <3>6, Fields DEF DeleteRow
      <4>2. Keys!Delete(x)
        BY <3>6, <4>1, DeleteMaps
      <4>3. QED
        BY <4>1, <4>2 DEF Keys!Next
    <3>7. CASE SetStatus(h)
      <4>1. handler[h].row \in Row /\ handler[h].to \in {"active", "deprecated"}
        BY <3>7, Fields DEF SetStatus, Row
      <4>2. refs' = refs /\ NewStatus(h, handler[h].row)
        BY <3>7 DEF SetStatus
      <4>3. \A x \in Row : There(x)' = There(x) /\ (life'[x] = "deleted" <=> life[x] = "deleted")
        BY <4>1, <4>2 DEF NewStatus, There, TypeOK
      <4>4. QED
        BY <4>2, <4>3, Stutter
    <3>8. ASSUME UNCHANGED <<life, refs>> PROVE UNCHANGED Keys!vars
      BY <3>8, Stutter DEF There
    <3>9. QED
      BY <3>1, <3>3, <3>4, <3>5, <3>6, <3>7, <3>8
         DEF Arrival, Statement, CreateRolloutRead, DeleteRead, SetStatusRead, Accept,
             CreateRolloutRefused, DeleteRefused, CountSites, WriteCount, LogAuditEvent, Abort, tables
  <2>3. QED
    BY <2>1, <2>2
<1>3. QED
  BY <1>1, <1>2, Inductive, PTL DEF Spec, KeepsReferences, Keys!Spec

-----------------------------------------------------------------------------
(* The audit log.  A request that has deleted a row and not yet logged it  *)
(* claims the row: nobody else does, since the row was there before.       *)
Claims(k, x) ==
    /\ handler[k].step \in {"count", "write", "audit"}
    /\ handler[k].op = "delete" /\ handler[k].row = x

Claimed(x) == \E k \in Handler : Claims(k, x)

DeletionLog ==
    \A x \in Row :
        /\ \A k, l \in Handler : Claims(k, x) /\ Claims(l, x) => k = l
        /\ deletions[x] \in {0, 1}
        /\ Claimed(x) => life[x] = "deleted" /\ deletions[x] = 0
        /\ deletions[x] = 1 => life[x] = "deleted"
        /\ life[x] = "deleted" /\ aborts = 0 => deletions[x] = 1 \/ Claimed(x)

(* The claims, counted. *)
LEMMA ClaimsCounted ==
    ASSUME NEW x \in Row, \A k, l \in Handler : Claims(k, x) /\ Claims(l, x) => k = l
    PROVE  Cardinality(Logging(x)) = IF Claimed(x) THEN 1 ELSE 0
<1>1. Logging(x) = {k \in Handler : Claims(k, x)}
  BY DEF Logging, Claims
<1>2. CASE Claimed(x)
  <2>1. PICK k \in Handler : Claims(k, x)
    BY <1>2 DEF Claimed
  <2>2. Logging(x) = {k}
    BY <1>1, <2>1
  <2>3. QED
    BY <1>2, <2>2, FS_Singleton
<1>3. CASE ~Claimed(x)
  <2>1. Logging(x) = {}
    BY <1>1, <1>3 DEF Claimed
  <2>2. QED
    BY <1>3, <2>1, FS_EmptySet
<1>4. QED
  BY <1>2, <1>3

LEMMA LogCounted == DeletionLog => DeletionsLogged
<1>. SUFFICES ASSUME DeletionLog, NEW x \in Row
              PROVE  LET logged == deletions[x] + Cardinality(Logging(x)) IN
                     /\ logged <= 1
                     /\ logged = 1 => life[x] = "deleted"
                     /\ life[x] = "deleted" /\ aborts = 0 => logged = 1
  BY DEF DeletionsLogged
<1>1. Cardinality(Logging(x)) = IF Claimed(x) THEN 1 ELSE 0
  BY ClaimsCounted DEF DeletionLog
<1>2. /\ deletions[x] \in {0, 1}
      /\ Claimed(x) => life[x] = "deleted" /\ deletions[x] = 0
      /\ deletions[x] = 1 => life[x] = "deleted"
      /\ life[x] = "deleted" /\ aborts = 0 => deletions[x] = 1 \/ Claimed(x)
  BY DEF DeletionLog
<1>3. CASE Claimed(x)
  BY <1>1, <1>2, <1>3
<1>4. CASE ~Claimed(x)
  BY <1>1, <1>2, <1>4
<1>5. QED
  BY <1>3, <1>4

(* A change of a site by h leaves the claims of the others alone.          *)
LEMMA SiteChangedClaims ==
    ASSUME TypeOK, NEW h \in Handler, NEW op, NEW s, NEW e, SiteChanged(h, op, s, e),
           NEW k \in Handler \ {h}, NEW x
    PROVE  Claims(k, x)' <=> Claims(k, x)
<1>1. CASE k \in Recounting(e)
  <2>1. handler'[k] = [handler[k] EXCEPT !.alone = FALSE]
    BY <1>1 DEF SiteChanged
  <2>2. At(k, "count") \/ At(k, "write")
    BY <1>1 DEF Recounting
  <2>3. CASE At(k, "count")
    <3>1. handler[k] \in [step : {"count"}, op : Operation, row : Site,
                          estate : Estate, alone : BOOLEAN]
      BY <2>3, Fields
    <3>2. QED
      BY <2>1, <3>1 DEF Claims
  <2>4. CASE At(k, "write")
    <3>1. handler[k] \in [step : {"write"}, op : Operation, row : Site,
                          estate : Estate, alone : BOOLEAN, n : Nat]
      BY <2>4, Fields
    <3>2. QED
      BY <2>1, <3>1 DEF Claims
  <2>5. QED
    BY <2>2, <2>3, <2>4
<1>2. CASE k \notin Recounting(e)
  BY <1>2 DEF SiteChanged, Claims
<1>3. QED
  BY <1>1, <1>2

LEMMA DeletedClaims ==
    ASSUME IInv, NEW h \in Handler, NEW x \in Row, There(x), Deleted(h, x)
    PROVE  /\ \A k \in Handler \ {h} : \A y \in Row : Claims(k, y)' <=> Claims(k, y)
           /\ \A y \in Row : Claims(h, y)' <=> y = x
<1>1. CASE x \in Site
  <2>1. PICK e \in refs[x] : SiteChanged(h, "delete", x, e)
    BY <1>1 DEF Deleted
  <2>2. handler'[h].step = "count" /\ handler'[h].op = "delete" /\ handler'[h].row = x
    BY <2>1 DEF SiteChanged
  <2>3. QED
    BY <2>1, <2>2, SiteChangedClaims DEF Claims, IInv
<1>2. CASE x \notin Site
  <2>1. handler' = [handler EXCEPT ![h] = [step |-> "audit", op |-> "delete", row |-> x]]
    BY <1>2 DEF Deleted, ToAudit
  <2>2. QED
    BY <2>1 DEF Claims, IInv, TypeOK
<1>3. QED
  BY <1>1, <1>2

(* A step that takes and drops no claim, deletes no row and logs no        *)
(* deletion keeps the log in order.                                        *)
LEMMA UnclaimedStep ==
    ASSUME DeletionLog,
           \A k \in Handler : \A x \in Row : Claims(k, x)' <=> Claims(k, x),
           \A x \in Row : life'[x] = "deleted" <=> life[x] = "deleted",
           UNCHANGED <<deletions, aborts>>
    PROVE  DeletionLog'
<1>1. \A x \in Row : Claimed(x)' <=> Claimed(x)
  BY DEF Claimed
<1>2. QED
  BY <1>1 DEF DeletionLog

LEMMA DeleteRowLog ==
    ASSUME IInv, DeletionLog, NEW h \in Handler, DeleteRow(h)
    PROVE  DeletionLog'
<1>1. PICK x \in Row : handler[h].row = x
  BY Fields DEF DeleteRow, IInv
<1>2. /\ There(x) /\ Deleted(h, x) /\ life' = [life EXCEPT ![x] = "deleted"]
      /\ UNCHANGED <<deletions, aborts>>
  BY <1>1 DEF DeleteRow
<1>3. /\ \A k \in Handler \ {h} : \A y \in Row : Claims(k, y)' <=> Claims(k, y)
      /\ \A y \in Row : Claims(h, y)' <=> y = x
  BY <1>2, DeletedClaims
<1>4. \A y \in Row : ~Claims(h, y)
  BY DEF DeleteRow, Claims
<1>5. ~Claimed(x) /\ deletions[x] = 0
  BY <1>2 DEF DeletionLog, There
<1>6. life'[x] = "deleted" /\ \A y \in Row : y # x => life'[y] = life[y]
  BY <1>2 DEF IInv, TypeOK
<1>7. Claimed(x)' /\ \A y \in Row : y # x => (Claimed(y)' <=> Claimed(y))
  BY <1>3, <1>4 DEF Claimed
<1>8. ASSUME NEW y \in Row
      PROVE  /\ \A k, l \in Handler : Claims(k, y)' /\ Claims(l, y)' => k = l
             /\ deletions'[y] \in {0, 1}
             /\ Claimed(y)' => life'[y] = "deleted" /\ deletions'[y] = 0
             /\ deletions'[y] = 1 => life'[y] = "deleted"
             /\ life'[y] = "deleted" /\ aborts' = 0 => deletions'[y] = 1 \/ Claimed(y)'
  <2>1. CASE y = x
    BY <1>2, <1>3, <1>5, <1>6, <1>7, <2>1 DEF Claimed
  <2>2. CASE y # x
    BY <1>2, <1>3, <1>4, <1>6, <1>7, <2>2 DEF DeletionLog
  <2>3. QED
    BY <2>1, <2>2
<1>9. QED
  BY <1>8 DEF DeletionLog

LEMMA LogEventLog ==
    ASSUME IInv, DeletionLog, NEW h \in Handler, LogAuditEvent(h)
    PROVE  DeletionLog'
<1>1. PICK x \in Row : handler[h].row = x
  BY Fields DEF LogAuditEvent, IInv
<1>2. /\ handler[h].step = "audit" /\ handler' = [handler EXCEPT ![h] = Idle]
      /\ UNCHANGED <<life, aborts>>
      /\ deletions' = IF handler[h].op = "delete" THEN [deletions EXCEPT ![x] = @ + 1] ELSE deletions
  BY <1>1 DEF LogAuditEvent
<1>3. /\ \A k \in Handler \ {h} : \A y \in Row : Claims(k, y)' <=> Claims(k, y)
      /\ \A y \in Row : ~Claims(h, y)'
  BY <1>2 DEF Claims, Idle, IInv, TypeOK
<1>4. CASE handler[h].op # "delete"
  <2>1. \A k \in Handler : \A y \in Row : Claims(k, y)' <=> Claims(k, y)
    BY <1>3, <1>4 DEF Claims
  <2>2. QED
    BY <1>2, <1>4, <2>1, UnclaimedStep
<1>5. CASE handler[h].op = "delete"
  <2>1. Claims(h, x) /\ \A y \in Row : y # x => ~Claims(h, y)
    BY <1>1, <1>2, <1>5 DEF Claims
  <2>2. Claimed(x) /\ deletions[x] = 0 /\ life[x] = "deleted"
    BY <2>1 DEF Claimed, DeletionLog
  <2>3. deletions'[x] = 1 /\ \A y \in Row : y # x => deletions'[y] = deletions[y]
    BY <1>2, <1>5, <2>2 DEF IInv, TypeOK
  <2>4. \A k \in Handler : ~Claims(k, x)'
    BY <1>3, <2>1 DEF DeletionLog
  <2>5. \A y \in Row : y # x => (Claimed(y)' <=> Claimed(y))
    BY <1>3, <2>1 DEF Claimed
  <2>6. ASSUME NEW y \in Row
        PROVE  /\ \A k, l \in Handler : Claims(k, y)' /\ Claims(l, y)' => k = l
               /\ deletions'[y] \in {0, 1}
               /\ Claimed(y)' => life'[y] = "deleted" /\ deletions'[y] = 0
               /\ deletions'[y] = 1 => life'[y] = "deleted"
               /\ life'[y] = "deleted" /\ aborts' = 0 => deletions'[y] = 1 \/ Claimed(y)'
    <3>1. CASE y = x
      BY <1>2, <2>2, <2>3, <2>4, <3>1 DEF Claimed
    <3>2. CASE y # x
      BY <1>2, <1>3, <2>1, <2>3, <2>5, <3>2 DEF DeletionLog
    <3>3. QED
      BY <3>1, <3>2
  <2>7. QED
    BY <2>6 DEF DeletionLog
<1>6. QED
  BY <1>4, <1>5

LEMMA AbortLog ==
    ASSUME IInv, DeletionLog, NEW h \in Handler, Abort(h)
    PROVE  DeletionLog'
<1>1. /\ handler' = [handler EXCEPT ![h] = Idle] /\ UNCHANGED <<life, deletions>>
      /\ aborts' # 0
  BY BoundAssumption DEF Abort, tables, IInv, TypeOK
<1>2. \A k \in Handler : \A y \in Row : Claims(k, y)' => Claims(k, y)
  BY <1>1 DEF Claims, Idle, IInv, TypeOK
<1>3. \A y \in Row : Claimed(y)' => Claimed(y)
  BY <1>2 DEF Claimed
<1>4. QED
  BY <1>1, <1>2, <1>3 DEF DeletionLog

LEMMA NextLog == IInv /\ DeletionLog /\ [Next]_vars => DeletionLog'
<1>. SUFFICES ASSUME IInv, DeletionLog, [Next]_vars PROVE DeletionLog'
  OBVIOUS
<1>1. CASE UNCHANGED vars
  BY <1>1, UnclaimedStep DEF vars, tables, Claims
<1>2. CASE Next
  <2>1. PICK h \in Handler : Arrival(h) \/ Statement(h) \/ Abort(h)
    BY <1>2 DEF Next
  <2>. DEFINE Others == \A k \in Handler \ {h} : \A x \in Row : Claims(k, x)' <=> Claims(k, x)
              Own == \A x \in Row : Claims(h, x)' <=> Claims(h, x)
              Alive == \A x \in Row : life'[x] = "deleted" <=> life[x] = "deleted"
  <2>2. ASSUME Others, Own, Alive, UNCHANGED <<deletions, aborts>> PROVE DeletionLog'
    <3>1. \A k \in Handler : \A x \in Row : Claims(k, x)' <=> Claims(k, x)
      BY <2>2
    <3>2. QED
      BY <2>2, <3>1, UnclaimedStep
  <2>3. ASSUME NEW q, handler' = [handler EXCEPT ![h] = q],
               q.step \in {"count", "write", "audit"} => q.op # "delete",
               handler[h].step \in {"count", "write", "audit"} => handler[h].op # "delete"
        PROVE  Others /\ Own
    BY <2>3 DEF Claims, IInv, TypeOK
  <2>4. ASSUME NEW x \in Row, NEW parents, Insert(x, parents) PROVE Alive
    BY <2>4 DEF Insert, IInv, TypeOK
  <2>5. ASSUME NEW x \in Estate \cup Package, CreateAlone(h, x) PROVE DeletionLog'
    <3>1. Alive /\ UNCHANGED <<deletions, aborts>>
      BY <2>4, <2>5 DEF CreateAlone, Row
    <3>2. QED
      BY <2>2, <2>3, <2>5, <3>1 DEF CreateAlone, ToAudit
  <2>6. ASSUME NEW s \in Site, NEW e \in Estate, CreateSite(h, s, e) PROVE DeletionLog'
    <3>1. Alive /\ UNCHANGED <<deletions, aborts>>
      BY <2>4, <2>6 DEF CreateSite, Row
    <3>2. Others
      BY <2>6, SiteChangedClaims DEF CreateSite, IInv
    <3>3. Own
      BY <2>6 DEF CreateSite, SiteChanged, Claims
    <3>4. QED
      BY <2>2, <3>1, <3>2, <3>3
  <2>7. ASSUME NEW r \in Rollout, CreateRollout(h, r) PROVE DeletionLog'
    <3>1. Alive /\ UNCHANGED <<deletions, aborts>>
      BY <2>4, <2>7 DEF CreateRollout, Row
    <3>2. QED
      BY <2>2, <2>3, <2>7, <3>1 DEF CreateRollout, ToAudit
  <2>8. ASSUME NEW q, q.step \notin {"count", "write", "audit"}, Accept(h, q) PROVE DeletionLog'
    BY <2>2, <2>3, <2>8 DEF Accept, tables
  <2>9. CASE CreateRolloutRefused(h) \/ DeleteRefused(h)
    BY <2>2, <2>3, <2>9 DEF CreateRolloutRefused, DeleteRefused, tables, Idle
  <2>10. CASE CountSites(h)
    <3>1. Others /\ Own
      BY <2>10 DEF CountSites, Claims, IInv, TypeOK
    <3>2. QED
      BY <2>2, <2>10, <3>1 DEF CountSites, tables
  <2>11. CASE WriteCount(h)
    <3>1. Others /\ Own
      BY <2>11 DEF WriteCount, ToAudit, Claims, IInv, TypeOK
    <3>2. QED
      BY <2>2, <2>11, <3>1 DEF WriteCount
  <2>12. CASE SetStatus(h)
    <3>1. handler[h].row \in Package /\ handler[h].to \in {"active", "deprecated"}
      BY <2>12, Fields DEF SetStatus, IInv
    <3>2. Alive
      BY <2>12, <3>1 DEF SetStatus, NewStatus, There, IInv, TypeOK
    <3>3. QED
      BY <2>2, <2>3, <2>12, <3>2 DEF SetStatus, ToAudit
  <2>13. QED
    BY <2>1, <2>5, <2>6, <2>7, <2>8, <2>9, <2>10, <2>11, <2>12,
       DeleteRowLog, LogEventLog, AbortLog
       DEF Arrival, Statement, CreateRolloutRead, DeleteRead, SetStatusRead
<1>3. QED
  BY <1>1, <1>2

(* Of the requests that delete a row at the same time one deletes it, and  *)
(* it alone logs the deletion, once.                                       *)
THEOREM DeletionsLoggedOnce == Spec => []DeletionsLogged
<1>1. Init => DeletionLog
  BY DEF Init, DeletionLog, Claimed, Claims, Idle
<1>2. Spec => []DeletionLog
  BY <1>1, NextLog, Inductive, PTL DEF Spec
<1>3. QED
  BY <1>2, LogCounted, PTL

=============================================================================
