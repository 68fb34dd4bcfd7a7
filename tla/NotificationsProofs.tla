------------------------ MODULE NotificationsProofs -------------------------
(***************************************************************************)
(* TypeOK, AnnouncedIsStored and the refinement of Mailbox, and what holds *)
(* of the bell of a browser in front of it, for any users, alerts, rules   *)
(* and failures.                                                           *)
(*                                                                         *)
(* The strengthening follows a handler: before its INSERT its source has   *)
(* no rows, at its announcement the rows are the targets it collected, and *)
(* no user is a target twice.  For the bell it adds that only finitely     *)
(* many notifications are unread, since the unread ones are counted        *)
(* (FiniteUnread).                                                         *)
(***************************************************************************)
EXTENDS NotificationBell, FiniteSetTheorems, SequenceTheorems, TLAPS

BeforeInsert == {"unraised", "rule", "platform", "customers", "insert"}

NoRowsYet == \A s \in Source : task[s].step \in BeforeInsert => rows[s] = Nobody
EachOnce == \A s \in Source, u \in User : task[s].targets[u] \in {0, 1}
TargetsStored ==
    \A s \in Source :
        task[s].step \in {"audit", "announce"} /\ s \notin Simulated => rows[s] = task[s].targets

IInv == TypeOK /\ NoRowsYet /\ EachOnce /\ TargetsStored /\ AnnouncedIsStored

USE DEF At, Continue

-----------------------------------------------------------------------------
LEMMA Nobodies == Nobody \in [User -> Nat] /\ \A u \in User : Nobody[u] = 0
BY DEF Nobody

LEMMA Tasks ==
    ASSUME TypeOK, NEW s \in Source
    PROVE  /\ task[s] \in Task
           /\ task[s].step \in Step /\ task[s].roles \in SUBSET RoleName
           /\ task[s].targets \in [User -> Nat]
BY DEF TypeOK, Task

LEMMA AlertsAndPosts == \A a \in Alert \cup Post : a \in Source
BY DEF Source

(* What is announced are messages. *)
LEMMA AnnouncementType ==
    ASSUME NEW s \in Source
    PROVE  Announcement(s) \in Seq(Message)
<1>. DEFINE n == Cardinality({u \in User : task[s].targets[u] > 0})
<1>1. {u \in User : task[s].targets[u] > 0} \subseteq User
  OBVIOUS
<1>2. n \in Nat
  BY <1>1, UserAssumption, FS_Subset, FS_CardinalityType
<1>3. [kind |-> "simulated", source |-> s] \in Message /\ [kind |-> "real", source |-> s] \in Message
  BY DEF Message
<1>. HIDE DEF n
<1>4. [i \in 1..n |-> [kind |-> "real", source |-> s]] \in Seq(Message)
  BY <1>2, <1>3
<1>5. <<[kind |-> "simulated", source |-> s]>> \in Seq(Message)
  BY <1>3
<1>6. QED
  BY <1>4, <1>5 DEF Announcement, n

(* The statements of a handler keep the shape of its task. *)
LEMMA StepType ==
    ASSUME TypeOK, NEW s \in Source, NEW step \in Step, Continue(s, step)
    PROVE  task' \in [Source -> Task]
BY DEF TypeOK, Task

LEMMA TypeInit == Init => TypeOK
<1>. SUFFICES ASSUME Init PROVE TypeOK
  OBVIOUS
<1>1. [step |-> "unraised", roles |-> {}, targets |-> Nobody] \in Task
  BY Nobodies DEF Task, Step
<1>2. prefs \in Preferences /\ role \in [User -> RoleName] /\ active \in [User -> BOOLEAN]
  BY SeedRoleAssumption DEF Init, RoleName, PlatformRole
<1>3. wire \in Seq(Message)
  BY DEF Init
<1>4. task \in [Source -> Task]
  BY <1>1 DEF Init
<1>5. rows \in [Source -> [User -> Nat]] /\ unread \in [Source -> [User -> Nat]]
  BY Nobodies DEF Init
<1>6. mishaps \in 0..MaxMishaps
  BY MishapsAssumption DEF Init
<1>7. /\ listener \in {"connecting", "up", "refused"}
      /\ emitter \in {"connecting", "up", "stopped"}
      /\ token \in BOOLEAN
  BY DEF Init
<1>8. QED
  BY <1>2, <1>3, <1>4, <1>5, <1>6, <1>7 DEF TypeOK

LEMMA EnabledType == ASSUME TypeOK PROVE Enabled \in SUBSET RoleName
BY PreferencesAssumption DEF TypeOK, Enabled, RoleName, PlatformRole

LEMMA TypeNext == TypeOK /\ [Next]_vars => TypeOK'
<1>. SUFFICES ASSUME TypeOK, [Next]_vars PROVE TypeOK'
  OBVIOUS
<1>. USE DEF directory, links, table
<1>m. Mishap => mishaps' \in 0..MaxMishaps
  BY MishapsAssumption DEF Mishap, TypeOK
<1>1. ASSUME NEW u \in User, NEW r \in RoleName, NEW a \in BOOLEAN, UpdateUser(u, r, a) PROVE TypeOK'
  BY <1>1, <1>m DEF UpdateUser, TypeOK
<1>2. ASSUME NEW p \in Preferences, UpdateRule(p) PROVE TypeOK'
  BY <1>2, <1>m DEF UpdateRule, TypeOK
<1>3. CASE Expire \/ Lose \/ ListenerAnswer \/ EmitterAnswer \/ EmitterGivesUp
  BY <1>3, <1>m DEF Expire, Lose, ListenerAnswer, EmitterAnswer, EmitterGivesUp, TypeOK
<1>4. CASE Restart
  <2>1. ASSUME NEW s \in Source PROVE [task[s] EXCEPT !.step = "dropped"] \in Task
    BY Tasks DEF Task, Step
  <2>2. task' \in [Source -> Task]
    BY <1>4, <2>1, Tasks DEF Restart
  <2>3. QED
    BY <1>4, <1>m, <2>2 DEF Restart, TypeOK
<1>5. ASSUME NEW a \in Alert, Raise(a) PROVE TypeOK'
  <2>1. [kind |-> "alert", source |-> a] \in Message
    BY AlertsAndPosts DEF Message
  <2>2. wire' \in Seq(Message)
    BY <1>5, <2>1 DEF Raise, TypeOK
  <2>3. task' \in [Source -> Task]
    BY <1>5, StepType, AlertsAndPosts DEF Raise, Step
  <2>4. QED
    BY <1>5, <2>2, <2>3 DEF Raise, TypeOK
<1>6. ASSUME NEW s \in Source, SelectRule(s) PROVE TypeOK'
  <2>1. [task[s] EXCEPT !.roles = Enabled, !.step = IF Enabled = {} THEN "done" ELSE "platform"] \in Task
    BY Tasks, EnabledType DEF Task, Step
  <2>2. task' \in [Source -> Task]
    BY <1>6, <2>1 DEF SelectRule, TypeOK
  <2>3. QED
    BY <1>6, <2>2 DEF SelectRule, TypeOK
<1>7. ASSUME NEW s \in Source, SelectPlatformUsers(s) PROVE TypeOK'
  <2>. DEFINE wanted(u) == active[u] /\ role[u] \in task[s].roles \cap PlatformRole
  <2>1. [u \in User |-> IF wanted(u) THEN 1 ELSE 0] \in [User -> Nat]
    OBVIOUS
  <2>. HIDE DEF wanted
  <2>2. [task[s] EXCEPT !.targets = [u \in User |-> IF wanted(u) THEN 1 ELSE 0],
                        !.step = "customers"] \in Task
    BY <2>1, Tasks DEF Task, Step
  <2>3. task' \in [Source -> Task]
    BY <1>7, <2>2 DEF SelectPlatformUsers, TypeOK, wanted
  <2>4. QED
    BY <1>7, <2>3 DEF SelectPlatformUsers, TypeOK
<1>8. ASSUME NEW s \in Source, SelectCustomerUsers(s) PROVE TypeOK'
  <2>1. ASSUME NEW targets \in [User -> Nat], NEW found PROVE AddMissing(targets, found) \in [User -> Nat]
    BY DEF AddMissing
  <2>2. ASSUME NEW targets \in [User -> Nat], NEW step \in {"done", "insert"}
        PROVE  [task[s] EXCEPT !.targets = targets, !.step = step] \in Task
    BY Tasks DEF Task, Step
  <2>3. PICK targets \in [User -> Nat], step \in {"done", "insert"} :
            task' = [task EXCEPT ![s].targets = targets, ![s].step = step]
    BY <1>8, <2>1, Tasks DEF SelectCustomerUsers
  <2>4. task' \in [Source -> Task]
    BY <2>2, <2>3 DEF TypeOK
  <2>5. QED
    BY <1>8, <2>4 DEF SelectCustomerUsers, TypeOK
<1>9. ASSUME NEW s \in Source, Insert(s) PROVE TypeOK'
  <2>1. task' \in [Source -> Task]
    BY <1>9, StepType DEF Insert, Step
  <2>2. task[s].targets \in [User -> Nat]
    BY Tasks
  <2>3. QED
    BY <1>9, <2>1, <2>2 DEF Insert, InsertRows, TypeOK
<1>10. ASSUME NEW p \in Post, NEW u \in User, Create(p, u) PROVE TypeOK'
  <2>. DEFINE to == [Nobody EXCEPT ![u] = 1]
  <2>1. to \in [User -> Nat] /\ p \in Source
    BY Nobodies, AlertsAndPosts
  <2>. HIDE DEF to
  <2>2. [task[p] EXCEPT !.targets = to, !.step = "audit"] \in Task
    BY <2>1, Tasks DEF Task, Step
  <2>3. /\ task' = [task EXCEPT ![p].targets = to, ![p].step = "audit"]
        /\ InsertRows(p, to) /\ UNCHANGED <<directory, links, wire, mishaps>>
    BY <1>10 DEF Create, to
  <2>4. task' \in [Source -> Task]
    BY <2>1, <2>2, <2>3 DEF TypeOK
  <2>5. QED
    BY <2>1, <2>3, <2>4 DEF InsertRows, TypeOK
<1>11. ASSUME NEW s \in Source, LogAudit(s) PROVE TypeOK'
  <2>1. task' \in [Source -> Task]
    BY <1>11, StepType DEF LogAudit, Step
  <2>2. QED
    BY <1>11, <2>1 DEF LogAudit, TypeOK
<1>12. ASSUME NEW s \in Source, Announce(s) PROVE TypeOK'
  <2>1. task' \in [Source -> Task]
    BY <1>12, StepType DEF Announce, Step
  <2>2. wire' \in Seq(Message)
    BY <1>12, AnnouncementType, ConcatProperties DEF Announce, TypeOK
  <2>3. QED
    BY <1>12, <2>1, <2>2 DEF Announce, TypeOK
<1>13. ASSUME NEW s \in Source, Fail(s) PROVE TypeOK'
  <2>1. task' \in [Source -> Task]
    BY <1>13, StepType DEF Fail, Step
  <2>2. QED
    BY <1>13, <1>m, <2>1 DEF Fail, TypeOK
<1>14. ASSUME NEW u \in User,
              MarkAllRead(u) \/ \E s \in Source : MarkRead(u, s)
       PROVE  TypeOK'
  <2>1. \A those : ReadUpdate(u, those) => unread' \in [Source -> [User -> Nat]]
    BY DEF ReadUpdate, TypeOK
  <2>2. QED
    BY <1>14, <1>m, <2>1 DEF MarkAllRead, MarkRead, TypeOK
<1>15. CASE UNCHANGED vars
  BY <1>15 DEF vars, TypeOK
<1>16. QED
  BY <1>1, <1>2, <1>3, <1>4, <1>5, <1>6, <1>7, <1>8, <1>9, <1>10, <1>11, <1>12, <1>13, <1>14, <1>15
     DEF Next, Arrival, Directory, Connection, Statement

-----------------------------------------------------------------------------
(* A step that leaves the rows alone and takes no handler where its rows   *)
(* are presumed stored keeps the three conjuncts about the handlers.       *)
Handlers == NoRowsYet /\ EachOnce /\ TargetsStored

LEMMA HandlersInit == Init => Handlers
<1>. SUFFICES ASSUME Init PROVE Handlers
  OBVIOUS
<1>1. \A s \in Source : /\ task[s].step = "unraised" /\ task[s].targets = Nobody
                        /\ rows[s] = Nobody
  BY DEF Init
<1>2. QED
  BY <1>1, Nobodies DEF Handlers, NoRowsYet, EachOnce, TargetsStored

(* One handler goes on, with the same targets and no rows written. *)
LEMMA GoesOn ==
    ASSUME IInv, NEW s \in Source, NEW step \in Step, Continue(s, step), rows' = rows,
           step \in BeforeInsert => task[s].step \in BeforeInsert,
           step \in {"audit", "announce"} /\ s \notin Simulated =>
              task[s].step \in {"audit", "announce"}
    PROVE  Handlers'
<1>1. \A t \in Source : /\ t # s => task'[t] = task[t]
                        /\ task'[s].step = step /\ task'[s].targets = task[s].targets
  BY DEF IInv, TypeOK, Task
<1>2. \A t \in Source : task'[t].targets = task[t].targets
  BY <1>1
<1>3. EachOnce'
  BY <1>2 DEF IInv, EachOnce
<1>4. NoRowsYet'
  BY <1>1 DEF IInv, NoRowsYet
<1>5. TargetsStored'
  BY <1>1 DEF IInv, TargetsStored
<1>6. QED
  BY <1>3, <1>4, <1>5 DEF Handlers

(* One handler collects targets before its INSERT. *)
LEMMA Collects ==
    ASSUME IInv, NEW s \in Source, NEW new \in Task, task' = [task EXCEPT ![s] = new],
           rows' = rows, task[s].step \in BeforeInsert,
           new.step \notin {"audit", "announce"}, \A u \in User : new.targets[u] \in {0, 1}
    PROVE  Handlers'
<1>1. \A t \in Source : (t # s => task'[t] = task[t]) /\ task'[s] = new
  BY DEF IInv, TypeOK
<1>2. EachOnce'
  BY <1>1 DEF IInv, EachOnce
<1>3. NoRowsYet'
  BY <1>1 DEF IInv, NoRowsYet
<1>4. TargetsStored'
  BY <1>1 DEF IInv, TargetsStored
<1>5. QED
  BY <1>2, <1>3, <1>4 DEF Handlers

(* A handler writes the rows of its targets. *)
LEMMA Writes ==
    ASSUME IInv, NEW s \in Source, NEW to \in [User -> {0, 1}],
           rows' = [rows EXCEPT ![s] = to],
           \A t \in Source \ {s} : task'[t] = task[t],
           task'[s].step \in {"audit", "announce"}, task'[s].targets = to
    PROVE  Handlers'
<1>1. \A t \in Source : t # s => rows'[t] = rows[t]
  BY DEF IInv, TypeOK
<1>2. rows'[s] = to
  BY DEF IInv, TypeOK
<1>3. EachOnce'
  BY DEF IInv, EachOnce
<1>4. NoRowsYet'
  BY <1>1 DEF IInv, NoRowsYet, BeforeInsert
<1>5. TargetsStored'
  BY <1>1, <1>2 DEF IInv, TargetsStored
<1>6. QED
  BY <1>3, <1>4, <1>5 DEF Handlers

LEMMA HandlersNext == IInv /\ [Next]_vars => Handlers'
<1>. SUFFICES ASSUME IInv, [Next]_vars PROVE Handlers'
  OBVIOUS
<1>. USE DEF table
<1>t. TypeOK
  BY DEF IInv
<1>1. ASSUME UNCHANGED <<task, rows>> PROVE Handlers'
  BY <1>1 DEF IInv, Handlers, NoRowsYet, EachOnce, TargetsStored
<1>2. CASE Restart
  <2>1. \A s \in Source : /\ task'[s].targets = task[s].targets
                          /\ task'[s].step \in {task[s].step, "dropped"}
    BY <1>2, <1>t DEF Restart, TypeOK, Task
  <2>2. rows' = rows
    BY <1>2 DEF Restart
  <2>3. QED
    BY <2>1, <2>2 DEF IInv, Handlers, NoRowsYet, EachOnce, TargetsStored, BeforeInsert
<1>3. ASSUME NEW a \in Alert, Raise(a) PROVE Handlers'
  <2>. DEFINE step == IF listener # "up" THEN "dropped"
                      ELSE IF a \in Simulated THEN "announce" ELSE "rule"
  <2>1. Continue(a, step) /\ rows' = rows /\ a \in Source /\ task[a].step = "unraised"
    BY <1>3, AlertsAndPosts DEF Raise
  <2>2. step \in Step /\ (step \in {"audit", "announce"} => a \in Simulated)
    BY DEF Step
  <2>. HIDE DEF step
  <2>3. QED
    BY <2>1, <2>2, GoesOn DEF BeforeInsert
<1>4. ASSUME NEW s \in Source, SelectRule(s) PROVE Handlers'
  <2>. DEFINE new == [task[s] EXCEPT !.roles = Enabled,
                                     !.step = IF Enabled = {} THEN "done" ELSE "platform"]
  <2>1. new \in Task
    BY <1>t, Tasks, EnabledType DEF Task, Step
  <2>2. new.targets = task[s].targets /\ new.step \in {"done", "platform"}
    BY <1>t, Tasks DEF Task
  <2>3. task' = [task EXCEPT ![s] = new] /\ rows' = rows /\ task[s].step = "rule"
    BY <1>4 DEF SelectRule
  <2>. HIDE DEF new
  <2>4. \A u \in User : new.targets[u] \in {0, 1}
    BY <2>2 DEF IInv, EachOnce
  <2>5. QED
    BY <2>1, <2>2, <2>3, <2>4, Collects DEF BeforeInsert
<1>5. ASSUME NEW s \in Source, SelectPlatformUsers(s) PROVE Handlers'
  <2>. DEFINE wanted(u) == active[u] /\ role[u] \in task[s].roles \cap PlatformRole
              chosen == [u \in User |-> IF wanted(u) THEN 1 ELSE 0]
              new == [task[s] EXCEPT !.targets = chosen, !.step = "customers"]
  <2>1. chosen \in [User -> {0, 1}] /\ chosen \in [User -> Nat]
    OBVIOUS
  <2>2. task' = [task EXCEPT ![s] = new] /\ rows' = rows /\ task[s].step = "platform"
    BY <1>5 DEF SelectPlatformUsers
  <2>. HIDE DEF chosen
  <2>3. new \in Task /\ new.targets = chosen /\ new.step = "customers"
    BY <2>1, <1>t, Tasks DEF Task, Step
  <2>4. \A u \in User : new.targets[u] \in {0, 1}
    BY <2>1, <2>3
  <2>. HIDE DEF new
  <2>5. QED
    BY <2>2, <2>3, <2>4, Collects DEF BeforeInsert
<1>6. ASSUME NEW s \in Source, SelectCustomerUsers(s) PROVE Handlers'
  <2>1. \A found : AddMissing(task[s].targets, found) \in [User -> {0, 1}]
    BY DEF AddMissing, IInv, EachOnce
  <2>2. PICK targets \in [User -> {0, 1}], step \in {"done", "insert"} :
            task' = [task EXCEPT ![s].targets = targets, ![s].step = step]
    BY <1>6, <2>1 DEF SelectCustomerUsers
  <2>. DEFINE new == [task[s] EXCEPT !.targets = targets, !.step = step]
  <2>3. task' = [task EXCEPT ![s] = new] /\ rows' = rows /\ task[s].step = "customers"
    BY <1>6, <2>2 DEF SelectCustomerUsers
  <2>n. targets \in [User -> Nat]
    OBVIOUS
  <2>4. new \in Task /\ new.targets = targets /\ new.step = step
    BY <2>n, <1>t, Tasks DEF Task, Step
  <2>5. (\A u \in User : new.targets[u] \in {0, 1}) /\ new.step \notin {"audit", "announce"}
    BY <2>4
  <2>. HIDE DEF new
  <2>6. QED
    BY <2>3, <2>4, <2>5, Collects DEF BeforeInsert
<1>7. ASSUME NEW s \in Source, Insert(s) PROVE Handlers'
  <2>1. task[s].targets \in [User -> {0, 1}]
    <3>1. task[s].targets \in [User -> Nat] /\ \A u \in User : task[s].targets[u] \in {0, 1}
      BY <1>t, Tasks DEF IInv, EachOnce
    <3>2. QED
      BY <3>1
  <2>2. rows' = [rows EXCEPT ![s] = task[s].targets]
    BY <1>7 DEF Insert, InsertRows
  <2>3. /\ \A t \in Source \ {s} : task'[t] = task[t]
        /\ task'[s].step = "announce" /\ task'[s].targets = task[s].targets
    BY <1>7, <1>t DEF Insert, TypeOK, Task
  <2>4. QED
    BY <2>1, <2>2, <2>3, Writes
<1>8. ASSUME NEW p \in Post, NEW u \in User, Create(p, u) PROVE Handlers'
  <2>. DEFINE to == [Nobody EXCEPT ![u] = 1]
  <2>1. to \in [User -> {0, 1}] /\ p \in Source
    BY AlertsAndPosts DEF Nobody
  <2>2. /\ task' = [task EXCEPT ![p].targets = to, ![p].step = "audit"]
        /\ rows' = [rows EXCEPT ![p] = to]
    BY <1>8 DEF Create, InsertRows
  <2>. HIDE DEF to
  <2>3. /\ \A t \in Source \ {p} : task'[t] = task[t]
        /\ task'[p].step = "audit" /\ task'[p].targets = to
    BY <2>1, <2>2, <1>t DEF TypeOK, Task
  <2>4. QED
    BY <2>1, <2>2, <2>3, Writes
<1>9. ASSUME NEW s \in Source, LogAudit(s) PROVE Handlers'
  BY <1>9, GoesOn DEF LogAudit, Step, BeforeInsert
<1>10. ASSUME NEW s \in Source, Announce(s) PROVE Handlers'
  BY <1>10, GoesOn DEF Announce, Step, BeforeInsert
<1>11. ASSUME NEW s \in Source, Fail(s) PROVE Handlers'
  BY <1>11, GoesOn DEF Fail, Step, BeforeInsert
<1>12. CASE UNCHANGED vars
  BY <1>1, <1>12 DEF vars
<1>13. QED
  BY <1>1, <1>2, <1>3, <1>4, <1>5, <1>6, <1>7, <1>8, <1>9, <1>10, <1>11, <1>12
     DEF Next, Arrival, Directory, Connection, Statement, UpdateUser, UpdateRule, Expire, Lose,
         ListenerAnswer, EmitterAnswer, EmitterGivesUp, MarkRead, MarkAllRead

-----------------------------------------------------------------------------
(* Rows are never taken away: a source gets its rows when it has none. *)
RowsStay == \A s \in Source, u \in User : rows[s][u] > 0 => rows'[s][u] > 0

LEMMA RowsOnce ==
    ASSUME IInv, NEW s \in Source, NEW to, task[s].step \in BeforeInsert, InsertRows(s, to)
    PROVE  RowsStay
<1>1. rows[s] = Nobody
  BY DEF IInv, NoRowsYet
<1>2. \A t \in Source : t # s => rows'[t] = rows[t]
  BY DEF IInv, TypeOK, InsertRows
<1>3. QED
  BY <1>1, <1>2, Nobodies DEF RowsStay

LEMMA RowsKept == [Next]_vars /\ IInv => RowsStay
<1>. SUFFICES ASSUME IInv, [Next]_vars PROVE RowsStay
  OBVIOUS
<1>. USE DEF table
<1>1. CASE rows' = rows
  BY <1>1 DEF RowsStay
<1>2. ASSUME NEW s \in Source, Insert(s) PROVE RowsStay
  BY <1>2, RowsOnce DEF Insert, BeforeInsert
<1>3. ASSUME NEW p \in Post, NEW u \in User, Create(p, u) PROVE RowsStay
  <2>1. p \in Source /\ task[p].step \in BeforeInsert
    BY <1>3, AlertsAndPosts DEF Create, BeforeInsert
  <2>2. InsertRows(p, [Nobody EXCEPT ![u] = 1])
    BY <1>3 DEF Create
  <2>3. QED
    BY <2>1, <2>2, RowsOnce
<1>4. QED
  BY <1>1, <1>2, <1>3
     DEF Next, vars, Arrival, Directory, Connection, Statement, UpdateUser, UpdateRule, Expire,
         Lose, ListenerAnswer, EmitterAnswer, EmitterGivesUp, Restart, Raise, SelectRule,
         SelectPlatformUsers, SelectCustomerUsers, LogAudit, Announce, Fail, MarkRead, MarkAllRead

(* What is added to the wire is stored, and what was on it stays stored. *)
LEMMA Grows ==
    ASSUME IInv, RowsStay, NEW more \in Seq(Message), wire' = wire \o more,
           \A j \in DOMAIN more :
               more[j].kind = "real" => \E u \in User : rows[more[j].source][u] > 0
    PROVE  AnnouncedIsStored'
<1>1. wire \in Seq(Message)
  BY DEF IInv, TypeOK
<1>2. ASSUME NEW m \in Message, m.kind = "real",
             \E u \in User : rows[m.source][u] > 0
      PROVE  \E u \in User : rows'[m.source][u] > 0
  <2>1. m.source \in Source
    BY <1>2 DEF Message
  <2>2. QED
    BY <1>2, <2>1 DEF RowsStay
<1>3. ASSUME NEW i \in DOMAIN wire', wire'[i].kind = "real"
      PROVE  \E u \in User : rows'[wire'[i].source][u] > 0
  <2>1. wire'[i] \in Message
    BY <1>1, <1>3, ConcatProperties
  <2>2. CASE i \in DOMAIN wire
    <3>1. wire'[i] = wire[i]
      BY <1>1, <2>2
    <3>2. QED
      BY <1>2, <1>3, <2>1, <2>2, <3>1 DEF IInv, AnnouncedIsStored
  <2>3. CASE i \notin DOMAIN wire
    <3>1. i - Len(wire) \in DOMAIN more /\ wire'[i] = more[i - Len(wire)]
      BY <1>1, <1>3, <2>3
    <3>2. QED
      BY <1>2, <1>3, <2>1, <3>1
  <2>4. QED
    BY <2>2, <2>3
<1>4. QED
  BY <1>3 DEF AnnouncedIsStored

(* A handler that announces a real source has stored a row for each target. *)
LEMMA AnnouncesStored ==
    ASSUME IInv, NEW s \in Source, task[s].step = "announce",
           NEW j \in DOMAIN Announcement(s), Announcement(s)[j].kind = "real"
    PROVE  \E u \in User : rows[Announcement(s)[j].source][u] > 0
<1>. DEFINE to == {u \in User : task[s].targets[u] > 0}
<1>1. s \notin Simulated
  <2>1. SUFFICES ASSUME s \in Simulated PROVE FALSE
    OBVIOUS
  <2>2. Announcement(s) = <<[kind |-> "simulated", source |-> s]>>
    BY <2>1 DEF Announcement
  <2>3. j = 1
    BY <2>2
  <2>4. QED
    BY <2>2, <2>3
<1>2. Announcement(s) = [i \in 1..Cardinality(to) |-> [kind |-> "real", source |-> s]]
  BY <1>1 DEF Announcement
<1>3. to # {}
  <2>. SUFFICES ASSUME to = {} PROVE FALSE
    OBVIOUS
  <2>1. Cardinality(to) = 0
    BY FS_EmptySet
  <2>. HIDE DEF to
  <2>2. j \in 1..Cardinality(to)
    BY <1>2
  <2>3. QED
    BY <2>1, <2>2
<1>4. rows[s] = task[s].targets
  BY <1>1 DEF IInv, TargetsStored
<1>5. Announcement(s)[j].source = s
  BY <1>2
<1>6. QED
  BY <1>3, <1>4, <1>5

LEMMA AnnouncedNext == IInv /\ [Next]_vars => AnnouncedIsStored'
<1>. SUFFICES ASSUME IInv, [Next]_vars PROVE AnnouncedIsStored'
  OBVIOUS
<1>r. RowsStay
  BY RowsKept
<1>t. wire \in Seq(Message)
  BY DEF IInv, TypeOK
<1>1. CASE wire' = wire
  <2>1. wire' = wire \o << >> /\ << >> \in Seq(Message)
    BY <1>1, <1>t
  <2>2. \A j \in DOMAIN << >> : FALSE
    OBVIOUS
  <2>3. QED
    BY <1>r, <2>1, <2>2, Grows
<1>2. ASSUME NEW a \in Alert, Raise(a), a \in Simulated PROVE AnnouncedIsStored'
  <2>. DEFINE more == <<[kind |-> "alert", source |-> a]>>
  <2>1. more \in Seq(Message)
    BY AlertsAndPosts DEF Message
  <2>2. wire' = wire \o more
    BY <1>2, <1>t DEF Raise
  <2>3. \A j \in DOMAIN more : more[j].kind = "alert"
    OBVIOUS
  <2>. HIDE DEF more
  <2>4. QED
    BY <1>r, <2>1, <2>2, <2>3, Grows
<1>3. ASSUME NEW s \in Source, Announce(s), emitter = "up" PROVE AnnouncedIsStored'
  <2>1. Announcement(s) \in Seq(Message)
    BY AnnouncementType
  <2>2. wire' = wire \o Announcement(s) /\ task[s].step = "announce"
    BY <1>3 DEF Announce
  <2>3. QED
    BY <1>r, <2>1, <2>2, Grows, AnnouncesStored
<1>4. QED
  BY <1>1, <1>2, <1>3
     DEF Next, vars, Arrival, Directory, Connection, Statement, UpdateUser, UpdateRule, Expire,
         Lose, ListenerAnswer, EmitterAnswer, EmitterGivesUp, Restart, Raise, SelectRule,
         SelectPlatformUsers, SelectCustomerUsers, Insert, Create, LogAudit, Announce, Fail,
         MarkRead, MarkAllRead

-----------------------------------------------------------------------------
(* The strengthening is inductive: it holds initially and every step of    *)
(* the listener, the routes and the connections keeps it.                  *)
THEOREM Inductive == Spec => []IInv
<1>1. Init => IInv
  BY TypeInit, HandlersInit DEF IInv, Handlers, AnnouncedIsStored, Init
<1>2. IInv /\ [Next]_vars => IInv'
  BY TypeNext, HandlersNext, AnnouncedNext DEF IInv, Handlers
<1>3. QED
  BY <1>1, <1>2, PTL DEF Spec

(* Every variable of the notification pipeline keeps its shape. *)
THEOREM TypeCorrect == Spec => []TypeOK
BY Inductive, PTL DEF IInv

(* Whatever fails or restarts, a browser never hears of a notification     *)
(* that is not in the table.                                               *)
THEOREM AnnouncedStored == Spec => []AnnouncedIsStored
BY Inductive, PTL DEF IInv

-----------------------------------------------------------------------------
(* Each step of the pipeline is a step of Mailbox or leaves it alone. *)
LEMMA DeliversInit == Init => Inbox!Init
BY DEF Init, Inbox!Init, Nobody, Inbox!Nothing

LEMMA Delivers ==
    ASSUME IInv, NEW s \in Source, NEW to \in [User -> {0, 1}],
           task[s].step \in BeforeInsert, InsertRows(s, to)
    PROVE  Inbox!Next
<1>. DEFINE them == {u \in User : to[u] = 1}
<1>1. to = [u \in User |-> IF u \in them THEN 1 ELSE 0]
  OBVIOUS
<1>2. rows[s] = Inbox!Nothing
  BY DEF IInv, NoRowsYet, Nobody, Inbox!Nothing
<1>3. rows'[s] = to
  BY DEF InsertRows, IInv, TypeOK
<1>4. them \in SUBSET User
  OBVIOUS
<1>. HIDE DEF them
<1>5. Inbox!Deliver(s, them)
  BY <1>1, <1>2, <1>3 DEF InsertRows, Inbox!Deliver
<1>6. QED
  BY <1>4, <1>5 DEF Inbox!Next

LEMMA DeliversNext == IInv /\ [Next]_vars => [Inbox!Next]_(Inbox!vars)
<1>. SUFFICES ASSUME IInv, [Next]_vars PROVE Inbox!Next \/ UNCHANGED Inbox!vars
  OBVIOUS
<1>. USE DEF table, Inbox!vars
<1>1. ASSUME NEW s \in Source, Insert(s) PROVE Inbox!Next
  <2>1. task[s].targets \in [User -> Nat] /\ \A u \in User : task[s].targets[u] \in {0, 1}
    BY Tasks DEF IInv, EachOnce
  <2>2. task[s].targets \in [User -> {0, 1}]
    BY <2>1
  <2>3. QED
    BY <1>1, <2>2, Delivers DEF Insert, BeforeInsert
<1>2. ASSUME NEW p \in Post, NEW u \in User, Create(p, u) PROVE Inbox!Next
  <2>1. p \in Source /\ task[p].step \in BeforeInsert
    BY <1>2, AlertsAndPosts DEF Create, BeforeInsert
  <2>2. InsertRows(p, [Nobody EXCEPT ![u] = 1])
    BY <1>2 DEF Create
  <2>3. [Nobody EXCEPT ![u] = 1] \in [User -> {0, 1}]
    BY DEF Nobody
  <2>4. QED
    BY <2>1, <2>2, <2>3, Delivers
<1>3. ASSUME NEW u \in User, NEW s \in Source, MarkRead(u, s) PROVE Inbox!Next
  <2>1. Inbox!Read(u, {s}) /\ {s} \in SUBSET Source
    BY <1>3 DEF MarkRead, ReadUpdate, Inbox!Read
  <2>2. QED
    BY <2>1 DEF Inbox!Next
<1>4. ASSUME NEW u \in User, MarkAllRead(u) PROVE Inbox!Next
  <2>1. Inbox!Read(u, Source) /\ Source \in SUBSET Source
    BY <1>4 DEF MarkAllRead, ReadUpdate, Inbox!Read
  <2>2. QED
    BY <2>1 DEF Inbox!Next
<1>5. QED
  BY <1>1, <1>2, <1>3, <1>4
     DEF Next, vars, Arrival, Directory, Connection, Statement, UpdateUser, UpdateRule, Expire,
         Lose, ListenerAnswer, EmitterAnswer, EmitterGivesUp, Restart, Raise, SelectRule,
         SelectPlatformUsers, SelectCustomerUsers, LogAudit, Announce, Fail

(* The whole pipeline, statement by statement and with everything that can *)
(* go wrong, implements a Mailbox: what a source delivers is there at once *)
(* and once, and then only read.                                           *)
THEOREM MailboxImplemented == Spec => DeliversLikeAMailbox
<1>1. Init => Inbox!Init
  BY DeliversInit
<1>2. IInv /\ [Next]_vars => [Inbox!Next]_(Inbox!vars)
  BY DeliversNext
<1>3. QED
  BY <1>1, <1>2, Inductive, PTL DEF Spec, DeliversLikeAMailbox, Inbox!Spec

-----------------------------------------------------------------------------
(* The bell.  It counts two sets that are never assumed to be finite: they *)
(* start empty and grow by one element at a time.                          *)
UnreadSources == {s \in Source : unread[s][Viewer] > 0}
UnreadNotes(n) == {a \in Simulated : n[a] = "unread"}
FiniteUnread == IsFiniteSet(UnreadSources) /\ IsFiniteSet(UnreadNotes(notes))

BellIInv == BellTypeOK /\ FiniteUnread /\ BellNotTooLow

LEMMA GrowsByOne ==
    ASSUME NEW S, NEW T, NEW e, IsFiniteSet(S), T \subseteq S \cup {e}
    PROVE  IsFiniteSet(T)
BY FS_AddElement, FS_Subset

LEMMA Counts ==
    ASSUME NEW n, IsFiniteSet(UnreadNotes(n))
    PROVE  SimulatedUnread(n) \in Nat
BY FS_CardinalityType DEF SimulatedUnread, UnreadNotes

LEMMA CountsStored == FiniteUnread => Unread \in Nat
BY FS_CardinalityType DEF FiniteUnread, Unread, UnreadSources

(* Reading takes from what is unread, a new source adds itself. *)
LEMMA ReadShrinks ==
    ASSUME TypeOK, FiniteUnread, NEW u \in User, NEW those, ReadUpdate(u, those)
    PROVE  IsFiniteSet(UnreadSources')
<1>1. unread \in [Source -> [User -> Nat]]
  BY DEF TypeOK
<1>2. \A s \in Source : unread'[s][Viewer] > 0 => unread[s][Viewer] > 0
  BY <1>1, ViewerAssumption DEF ReadUpdate
<1>3. UnreadSources' \subseteq UnreadSources
  BY <1>2 DEF UnreadSources
<1>4. QED
  BY <1>3, FS_Subset DEF FiniteUnread

LEMMA InsertAddsOne ==
    ASSUME TypeOK, FiniteUnread, NEW s \in Source, NEW to, InsertRows(s, to)
    PROVE  IsFiniteSet(UnreadSources')
<1>1. \A t \in Source : t # s => unread'[t] = unread[t]
  BY DEF TypeOK, InsertRows
<1>2. UnreadSources' \subseteq UnreadSources \cup {s}
  BY <1>1 DEF UnreadSources
<1>3. IsFiniteSet(UnreadSources)
  BY DEF FiniteUnread
<1>. HIDE DEF UnreadSources
<1>4. QED
  BY <1>2, <1>3, GrowsByOne

LEMMA UnreadStaysFinite ==
    ASSUME TypeOK, FiniteUnread, Next
    PROVE  IsFiniteSet(UnreadSources')
<1>. USE DEF table
<1>1. CASE unread' = unread
  BY <1>1 DEF FiniteUnread, UnreadSources
<1>2. ASSUME NEW s \in Source, Insert(s) PROVE IsFiniteSet(UnreadSources')
  BY <1>2, InsertAddsOne DEF Insert
<1>3. ASSUME NEW p \in Post, NEW u \in User, Create(p, u) PROVE IsFiniteSet(UnreadSources')
  <2>1. InsertRows(p, [Nobody EXCEPT ![u] = 1]) /\ p \in Source
    BY <1>3, AlertsAndPosts DEF Create
  <2>2. QED
    BY <2>1, InsertAddsOne
<1>4. ASSUME NEW u \in User, MarkAllRead(u) \/ \E s \in Source : MarkRead(u, s)
      PROVE  IsFiniteSet(UnreadSources')
  BY <1>4, ReadShrinks DEF MarkAllRead, MarkRead
<1>5. QED
  BY <1>1, <1>2, <1>3, <1>4
     DEF Next, Arrival, Directory, Connection, Statement, UpdateUser, UpdateRule, Expire, Lose,
         ListenerAnswer, EmitterAnswer, EmitterGivesUp, Restart, Raise, SelectRule,
         SelectPlatformUsers, SelectCustomerUsers, LogAudit, Announce, Fail

(* What happens to the pipeline in a step of the browser: the wire gets    *)
(* shorter or longer, a mutation marks notifications as read.              *)
LEMMA PipelineNext ==
    ASSUME BellIInv, [BellNext]_all
    PROVE  TypeOK' /\ IsFiniteSet(UnreadSources')
<1>. USE DEF directory, links, table, browser, vars
<1>t. TypeOK /\ FiniteUnread
  BY DEF BellIInv, BellTypeOK
<1>m. Mishap => mishaps' \in 0..MaxMishaps
  BY <1>t, MishapsAssumption DEF Mishap, TypeOK
<1>1. CASE Next
  BY <1>1, <1>t, TypeNext, UnreadStaysFinite
<1>2. CASE UNCHANGED vars
  BY <1>2, <1>t DEF TypeOK, FiniteUnread, UnreadSources
<1>3. CASE Receive \/ LoseMessage
  <2>1. Tail(wire) \in Seq(Message) /\ wire' = Tail(wire)
    BY <1>3, <1>t, HeadTailProperties DEF Receive, LoseMessage, TypeOK
  <2>2. QED
    BY <1>3, <1>t, <1>m, <2>1
       DEF Receive, LoseMessage, TypeOK, FiniteUnread, UnreadSources
<1>4. CASE Reset
  <2>1. [kind |-> "reset"] \in Message
    BY DEF Message
  <2>2. wire' \in Seq(Message)
    BY <1>4, <1>t, <2>1 DEF Reset, TypeOK
  <2>3. QED
    BY <1>4, <1>t, <1>m, <2>2 DEF Reset, TypeOK, FiniteUnread, UnreadSources
<1>5. CASE FetchError
  BY <1>5, <1>t, <1>m DEF FetchError, TypeOK, FiniteUnread, UnreadSources
<1>6. CASE ChangeFailed
  BY <1>6, <1>t, <1>m DEF ChangeFailed, Answer, TypeOK, FiniteUnread, UnreadSources
<1>7. CASE ChangeApplied
  <2>1. ReadUpdate(Viewer, change.those)
    BY <1>7 DEF ChangeApplied, Answer
  <2>2. IsFiniteSet(UnreadSources')
    BY <1>t, <2>1, ReadShrinks, ViewerAssumption
  <2>3. unread' \in [Source -> [User -> Nat]]
    BY <1>t, <2>1 DEF ReadUpdate, TypeOK
  <2>4. QED
    BY <1>7, <1>t, <2>2, <2>3 DEF ChangeApplied, Answer, TypeOK
<1>8. QED
  BY <1>1, <1>2, <1>3, <1>4, <1>5, <1>6, <1>7
     DEF BellNext, Clicks, Network, Query, ClickRead, ClickReadAll, ClickReadSimulated, AddLocal,
         Toggle, Send, Fetch, FetchAnswer, Settle, all

-----------------------------------------------------------------------------
(* The effect writes what BellNotTooLow asks for, whatever it finds.       *)
LEMMA SyncedIsRight ==
    ASSUME NEW n \in Nat, NEW inMode \in BOOLEAN, NEW new, IsFiniteSet(UnreadNotes(new)),
           NEW answer \in Count
    PROVE  /\ Synced(n, inMode, new, answer) \in Nat
           /\ IF inMode THEN Synced(n, inMode, new, answer) >= SimulatedUnread(new)
              ELSE answer # None => Synced(n, inMode, new, answer) >= answer
<1>1. SimulatedUnread(new) \in Nat
  BY Counts
<1>2. answer # None => answer \in Nat
  BY DEF Count
<1>. DEFINE k == SimulatedUnread(new)
<1>. HIDE DEF k
<1>3. Synced(n, inMode, new, answer) = IF inMode THEN k ELSE IF answer # None THEN answer ELSE n
  BY DEF Synced, k
<1>4. k \in Nat
  BY <1>1 DEF k
<1>5. CASE inMode
  BY <1>3, <1>4, <1>5 DEF k
<1>6. CASE ~inMode
  BY <1>2, <1>3, <1>6
<1>7. QED
  BY <1>5, <1>6

LEMMA MinusType == \A n, k \in Nat : Minus(n, k) \in Nat
BY DEF Minus

(* The number, what it is read from, and what it must not fall below. *)
NumberOK ==
    /\ mode \in BOOLEAN /\ notes \in [Simulated -> Note] /\ bell \in Nat /\ data \in Count
    /\ IsFiniteSet(UnreadNotes(notes))
    /\ BellNotTooLow

LEMMA NumberHolds ==
    ASSUME BellIInv
    PROVE  NumberOK /\ SimulatedUnread(notes) \in Nat
<1>1. IsFiniteSet(UnreadNotes(notes))
  BY DEF BellIInv, FiniteUnread
<1>2. QED
  BY <1>1, Counts DEF BellIInv, BellTypeOK, NumberOK

LEMMA NumberUnchanged ==
    ASSUME NumberOK, UNCHANGED <<mode, notes, bell, data>>
    PROVE  NumberOK'
BY DEF NumberOK, BellNotTooLow, SimulatedUnread, UnreadNotes

LEMMA NumberSynced ==
    ASSUME NEW n \in Nat, mode' \in BOOLEAN, data' \in Count, notes' \in [Simulated -> Note],
           IsFiniteSet(UnreadNotes(notes')), bell' = Synced(n, mode', notes', data')
    PROVE  NumberOK'
<1>. PICK m, d, new, b : m = mode' /\ d = data' /\ new = notes' /\ b = bell'
  OBVIOUS
<1>1. /\ Synced(n, m, new, d) \in Nat
      /\ IF m THEN Synced(n, m, new, d) >= SimulatedUnread(new)
         ELSE d # None => Synced(n, m, new, d) >= d
  BY SyncedIsRight
<1>2. b = Synced(n, m, new, d)
  OBVIOUS
<1>3. b \in Nat /\ IF m THEN b >= SimulatedUnread(new) ELSE d # None => b >= d
  BY <1>1, <1>2
<1>4. BellNotTooLow'
  BY <1>3 DEF BellNotTooLow, SimulatedUnread
<1>5. QED
  BY <1>3, <1>4 DEF NumberOK

LEMMA NumberRebuilt ==
    ASSUME BellIInv, NEW n \in Nat, NEW new \in [Simulated -> Note],
           IsFiniteSet(UnreadNotes(new)), Rebuild(n, new), UNCHANGED <<mode, data>>
    PROVE  NumberOK'
<1>1. bell' = Synced(n, mode', notes', data') /\ notes' = new
  BY DEF Rebuild
<1>2. mode' \in BOOLEAN /\ data' \in Count
  BY DEF BellIInv, BellTypeOK
<1>3. QED
  BY <1>1, <1>2, NumberSynced

(* What the store does with its notes leaves finitely many unread. *)
LEMMA NotesAfter ==
    ASSUME BellIInv
    PROVE  /\ NoNotes \in [Simulated -> Note] /\ IsFiniteSet(UnreadNotes(NoNotes))
           /\ \A a, to : to \in Note => 
                 /\ [notes EXCEPT ![a] = to] \in [Simulated -> Note]
                 /\ IsFiniteSet(UnreadNotes([notes EXCEPT ![a] = to]))
           /\ LET read == [a \in Simulated |-> IF notes[a] = "none" THEN "none" ELSE "read"] IN
              read \in [Simulated -> Note] /\ IsFiniteSet(UnreadNotes(read))
<1>t. notes \in [Simulated -> Note] /\ IsFiniteSet(UnreadNotes(notes))
  BY DEF BellIInv, BellTypeOK, FiniteUnread
<1>1. NoNotes \in [Simulated -> Note] /\ IsFiniteSet(UnreadNotes(NoNotes))
  <2>1. UnreadNotes(NoNotes) = {}
    BY DEF UnreadNotes, NoNotes
  <2>2. QED
    BY <2>1, FS_EmptySet DEF NoNotes, Note
<1>2. ASSUME NEW a, NEW to \in Note
      PROVE  /\ [notes EXCEPT ![a] = to] \in [Simulated -> Note]
             /\ IsFiniteSet(UnreadNotes([notes EXCEPT ![a] = to]))
  <2>1. UnreadNotes([notes EXCEPT ![a] = to]) \subseteq UnreadNotes(notes) \cup {a}
    BY <1>t DEF UnreadNotes
  <2>2. IsFiniteSet(UnreadNotes([notes EXCEPT ![a] = to]))
    BY <1>t, <2>1, GrowsByOne
  <2>3. QED
    BY <1>t, <2>2
<1>3. LET read == [a \in Simulated |-> IF notes[a] = "none" THEN "none" ELSE "read"] IN
      read \in [Simulated -> Note] /\ IsFiniteSet(UnreadNotes(read))
  <2>. DEFINE read == [a \in Simulated |-> IF notes[a] = "none" THEN "none" ELSE "read"]
  <2>1. UnreadNotes(read) = {}
    BY DEF UnreadNotes
  <2>2. read \in [Simulated -> Note]
    BY DEF Note
  <2>3. QED
    BY <2>1, <2>2, FS_EmptySet
<1>4. QED
  BY <1>1, <1>2, <1>3

LEMMA NumberReceived ==
    ASSUME BellIInv, NEW m, Apply(m), UNCHANGED <<mode, data>>
    PROVE  NumberOK'
<1>n. NumberOK /\ SimulatedUnread(notes) \in Nat /\ bell \in Nat
  BY NumberHolds DEF NumberOK
<1>1. CASE ClearSimulated
  <2>1. Minus(bell, SimulatedUnread(notes)) \in Nat
    BY <1>n, MinusType
  <2>2. Rebuild(Minus(bell, SimulatedUnread(notes)), NoNotes)
    BY <1>1 DEF ClearSimulated
  <2>3. QED
    BY <2>1, <2>2, NotesAfter, NumberRebuilt
<1>2. CASE bell' = bell + 1 /\ UNCHANGED notes
  <2>1. bell' \in Nat /\ bell' >= bell
    BY <1>n, <1>2
  <2>2. data # None => data \in Nat
    BY <1>n DEF NumberOK, Count
  <2>3. BellNotTooLow'
    <3>. PICK k : k = SimulatedUnread(notes)
      OBVIOUS
    <3>1. SimulatedUnread(notes)' = k /\ k \in Nat
      BY <1>2, <1>n DEF SimulatedUnread
    <3>2. IF mode THEN bell >= k ELSE data # None => bell >= data
      BY <1>n DEF NumberOK, BellNotTooLow
    <3>3. IF mode THEN bell' >= k ELSE data # None => bell' >= data
      BY <1>n, <2>1, <2>2, <3>1, <3>2
    <3>4. QED
      BY <3>1, <3>3 DEF BellNotTooLow
  <2>4. QED
    BY <1>n, <1>2, <2>1, <2>3 DEF NumberOK, UnreadNotes
<1>3. ASSUME AddSimulated(m.source) PROVE NumberOK'
  <2>1. Rebuild(bell + 1, [notes EXCEPT ![m.source] = "unread"])
    BY <1>3 DEF AddSimulated
  <2>2. "unread" \in Note /\ bell + 1 \in Nat
    BY <1>n DEF Note
  <2>3. QED
    BY <2>1, <2>2, NotesAfter, NumberRebuilt
<1>4. CASE UNCHANGED <<notes, bell>>
  BY <1>n, <1>4, NumberUnchanged
<1>5. QED
  BY <1>1, <1>2, <1>3, <1>4 DEF Apply

LEMMA NumberNext ==
    ASSUME BellIInv, [BellNext]_all
    PROVE  NumberOK'
<1>. USE DEF browser
<1>n. NumberOK /\ SimulatedUnread(notes) \in Nat /\ bell \in Nat
  BY NumberHolds DEF NumberOK
<1>1. CASE UNCHANGED <<mode, notes, bell, data>>
  BY <1>n, <1>1, NumberUnchanged
<1>2. CASE Receive
  <2>1. Apply(Head(wire)) /\ UNCHANGED <<mode, data>>
    BY <1>2 DEF Receive
  <2>2. QED
    BY <2>1, NumberReceived
<1>3. CASE FetchAnswer
  <2>1. fetch \in Count /\ mode' = mode /\ notes' = notes /\ data' = fetch
    BY <1>3 DEF FetchAnswer, BellIInv, BellTypeOK
  <2>2. CASE fetch = data
    BY <1>3, <1>n, <2>1, <2>2, NumberUnchanged DEF FetchAnswer
  <2>3. CASE fetch # data
    <3>1. bell' = Synced(bell, mode', notes', data')
      BY <1>3, <2>1, <2>3 DEF FetchAnswer
    <3>2. QED
      BY <1>n, <2>1, <3>1, NumberSynced DEF NumberOK
  <2>4. QED
    BY <2>2, <2>3
<1>4. ASSUME NEW n \in Nat, Rebuild(n, notes), UNCHANGED <<mode, data>> PROVE NumberOK'
  BY <1>4, <1>n, NumberRebuilt DEF NumberOK
<1>5. CASE \E s \in Source : ClickRead(s)
  <2>1. Minus(bell, 1) \in Nat
    BY <1>n, MinusType
  <2>2. QED
    BY <1>4, <1>5, <2>1 DEF ClickRead, Send
<1>6. CASE AddLocal
  <2>1. bell + 1 \in Nat
    BY <1>n
  <2>2. QED
    BY <1>4, <1>6, <2>1 DEF AddLocal
<1>7. CASE ClickReadAll
  <2>1. /\ Rebuild(0, [a \in Simulated |-> IF notes[a] = "none" THEN "none" ELSE "read"])
        /\ UNCHANGED <<mode, data>>
    BY <1>7 DEF ClickReadAll, Send
  <2>2. QED
    BY <2>1, NotesAfter, NumberRebuilt
<1>8. ASSUME NEW a \in Simulated, ClickReadSimulated(a) PROVE NumberOK'
  <2>1. Rebuild(Minus(bell, 1), [notes EXCEPT ![a] = "read"]) /\ UNCHANGED <<mode, data>>
    BY <1>8 DEF ClickReadSimulated
  <2>2. Minus(bell, 1) \in Nat /\ "read" \in Note
    BY <1>n, MinusType DEF Note
  <2>3. QED
    BY <2>1, <2>2, NotesAfter, NumberRebuilt
<1>9. CASE Toggle
  <2>. DEFINE n == IF mode THEN Minus(bell, SimulatedUnread(notes)) ELSE bell
  <2>1. n \in Nat
    BY <1>n, MinusType
  <2>2. mode' \in BOOLEAN /\ data' = data /\ bell' = Synced(n, mode', notes', data')
    BY <1>9 DEF Toggle
  <2>3. notes' \in [Simulated -> Note] /\ IsFiniteSet(UnreadNotes(notes'))
    BY <1>9, <1>n, NotesAfter DEF Toggle, NumberOK
  <2>. HIDE DEF n
  <2>4. data' \in Count
    BY <1>n, <2>2 DEF NumberOK
  <2>5. QED
    BY <2>1, <2>2, <2>3, <2>4, NumberSynced
<1>10. QED
  BY <1>1, <1>2, <1>3, <1>5, <1>6, <1>7, <1>8, <1>9
     DEF BellNext, Clicks, Network, Query, LoseMessage, Reset, Fetch, FetchError, ChangeApplied,
         ChangeFailed, Answer, Settle, all

(* The query, the mutation and the clicks keep their shape. *)
RequestsOK == fetch \in Count /\ change \in Change /\ clicks \in 0..MaxClicks

LEMMA RequestsNext ==
    ASSUME BellIInv, [BellNext]_all
    PROVE  RequestsOK'
<1>. USE DEF browser
<1>t. RequestsOK
  BY DEF BellIInv, BellTypeOK, RequestsOK
<1>c. Click => clicks' \in 0..MaxClicks
  BY <1>t, ClicksAssumption DEF Click, RequestsOK
<1>n. None \in Count /\ None \in Change
  BY DEF Count, Change
<1>1. CASE UNCHANGED <<fetch, change, clicks>>
  BY <1>t, <1>1 DEF RequestsOK
<1>2. CASE Fetch
  <2>1. Unread \in Nat
    BY CountsStored DEF BellIInv
  <2>2. QED
    BY <1>t, <1>2, <2>1 DEF Fetch, RequestsOK, Count
<1>3. CASE FetchAnswer \/ FetchError \/ Settle
  BY <1>t, <1>n, <1>3 DEF FetchAnswer, FetchError, Settle, RequestsOK
<1>4. ASSUME NEW those \in SUBSET Source, Click, Send(those) PROVE RequestsOK'
  <2>1. [those |-> those, answered |-> FALSE] \in Change
    BY DEF Change
  <2>2. QED
    BY <1>c, <1>n, <1>4, <2>1 DEF Send, RequestsOK
<1>5. CASE \E s \in Source : ClickRead(s)
  BY <1>4, <1>5 DEF ClickRead
<1>6. CASE ClickReadAll
  BY <1>4, <1>6 DEF ClickReadAll
<1>7. CASE AddLocal \/ Toggle \/ \E a \in Simulated : ClickReadSimulated(a)
  BY <1>t, <1>c, <1>7 DEF AddLocal, Toggle, ClickReadSimulated, RequestsOK
<1>8. CASE ChangeApplied \/ ChangeFailed
  <2>1. change # None /\ change' = [change EXCEPT !.answered = TRUE]
    BY <1>8 DEF ChangeApplied, ChangeFailed, Answer
  <2>2. change' \in Change
    BY <1>t, <2>1 DEF RequestsOK, Change
  <2>3. QED
    BY <1>t, <1>8, <2>2 DEF ChangeApplied, ChangeFailed, Answer, RequestsOK
<1>9. QED
  BY <1>1, <1>2, <1>3, <1>5, <1>6, <1>7, <1>8
     DEF BellNext, Clicks, Network, Query, LoseMessage, Reset, Receive, all

LEMMA BellStart == BellInit => BellIInv
<1>. SUFFICES ASSUME BellInit PROVE BellIInv
  OBVIOUS
<1>1. TypeOK
  BY TypeInit DEF BellInit
<1>2. UnreadSources = {} /\ UnreadNotes(notes) = {}
  BY Nobodies, ViewerAssumption DEF BellInit, Init, UnreadSources, UnreadNotes
<1>3. SimulatedUnread(notes) = 0
  BY <1>2, FS_EmptySet DEF SimulatedUnread, UnreadNotes
<1>4. FiniteUnread
  BY <1>2, FS_EmptySet DEF FiniteUnread
<1>5. BellNotTooLow
  BY <1>3 DEF BellNotTooLow, BellInit
<1>6. BellTypeOK
  BY <1>1, ClicksAssumption DEF BellTypeOK, BellInit, Note, Count, Change
<1>7. QED
  BY <1>4, <1>5, <1>6 DEF BellIInv

(* Every step of the pipeline, the wire, the query and the user keeps the  *)
(* strengthening of the bell.                                              *)
THEOREM BellInductive == BellSpec => []BellIInv
<1>1. BellInit => BellIInv
  BY BellStart
<1>2. BellIInv /\ [BellNext]_all => BellIInv'
  BY PipelineNext, NumberNext, RequestsNext
     DEF NumberOK, RequestsOK, BellIInv, BellTypeOK, FiniteUnread
<1>3. QED
  BY <1>1, <1>2, PTL DEF BellSpec

(* Every variable of the browser's bell keeps its shape: the number never  *)
(* goes below zero.                                                        *)
THEOREM BellTypeCorrect == BellSpec => []BellTypeOK
BY BellInductive, PTL DEF BellIInv

(* The bell never shows less than the browser knows of, whatever the order *)
(* of pushes, clicks, polls and toggles.                                   *)
THEOREM BellNeverTooLow == BellSpec => []BellNotTooLow
BY BellInductive, PTL DEF BellIInv

=============================================================================
