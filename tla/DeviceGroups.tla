---------------------------- MODULE DeviceGroups ----------------------------
(***************************************************************************)
(* The device-group routes of the API (apps/api/src/routes/                *)
(* device-groups.ts) over the tables device_groups and devices.            *)
(*                                                                         *)
(* A handler runs SQL statements and awaits each of them, so requests      *)
(* interleave between statements.  A route made of one statement is one    *)
(* action.  A route that reads a row and later uses what it read is a      *)
(* Read action, which stores what it read in handler[h], and a Write       *)
(* action.  A request refused with 404 or 409 changes nothing and is a     *)
(* stuttering step.  The audit row each route appends last is left out:    *)
(* nothing here reads it (module Rollouts models that step).               *)
(***************************************************************************)
EXTENDS Naturals, Sequences, FiniteSets

CONSTANTS
    Group,         \* ids of device_groups rows; a uuid is never reused
    DeviceId,      \* ids a request may name, known or not
    KnownDevice,   \* ids of rows of the devices table
    Tag,           \* device tags
    MemberList,    \* the deviceIds arrays a create or an update may carry
    Handler        \* requests in progress at the same time

ASSUME DevicesAssumption == KnownDevice \subseteq DeviceId
ASSUME MemberListAssumption == MemberList \subseteq Seq(DeviceId)

VARIABLES
    life,      \* life[g]: "unborn", "active", "archived" (archivedAt set) or "deleted"
    members,   \* members[g]: column device_ids, an array
    count,     \* count[g]: column device_count
    tags,      \* tags[d]: column tags of a device
    handler    \* handler[h]: what the request in progress has read

vars == <<life, members, count, tags, handler>>

Exists(g) == life[g] \in {"active", "archived"}

Elements(s) == {s[i] : i \in DOMAIN s}

(* PostgreSQL array_remove(): drops every occurrence, the rest closes up. *)
Kept(s, d) == {i \in DOMAIN s : s[i] # d}
Rank(s, d, i) == Cardinality({j \in Kept(s, d) : j <= i})
ArrayRemove(s, d) ==
    [k \in 1..Cardinality(Kept(s, d)) |-> s[CHOOSE i \in Kept(s, d) : Rank(s, d, i) = k]]

Idle == [op |-> "idle"]
Request ==
    {Idle}
    \cup [op : {"add"}, group : Group, device : KnownDevice, seen : Seq(DeviceId)]
    \cup [op : {"duplicate"}, seen : Seq(DeviceId), seenCount : Nat]
    \cup [op : {"assign", "unassign"}, seen : Seq(DeviceId), tags : SUBSET Tag]

Init ==
    /\ life = [g \in Group |-> "unborn"]
    /\ members = [g \in Group |-> <<>>]
    /\ count = [g \in Group |-> 0]
    /\ tags = [d \in KnownDevice |-> {}]
    /\ handler = [h \in Handler |-> Idle]

Accept(h, request) ==
    /\ handler[h] = Idle
    /\ handler' = [handler EXCEPT ![h] = request]
    /\ UNCHANGED <<life, members, count, tags>>

Reply(h) == handler' = [handler EXCEPT ![h] = Idle]

SetMembers(g, s, n) ==
    /\ members' = [members EXCEPT ![g] = s]
    /\ count' = [count EXCEPT ![g] = n]

-----------------------------------------------------------------------------
(* Routes of one statement. *)

Insert(g, s, n) ==
    /\ life[g] = "unborn"
    /\ life' = [life EXCEPT ![g] = "active"]
    /\ SetMembers(g, s, n)

Create(g, s) ==
    /\ Insert(g, s, Len(s))
    /\ UNCHANGED <<tags, handler>>

Update(g, s) ==
    /\ Exists(g)
    /\ SetMembers(g, s, Len(s))
    /\ UNCHANGED <<life, tags, handler>>

(* The SELECT before the UPDATE only finds the group's name; the UPDATE    *)
(* recomputes the array and its length from the row as it is then.         *)
RemoveDeviceOneLess(g, d) ==      \* fault: counts one occurrence
    /\ Exists(g)
    /\ SetMembers(g, ArrayRemove(members[g], d), count[g] - 1)
    /\ UNCHANGED <<life, tags, handler>>

RemoveDevice(g, d) ==
    /\ Exists(g)
    /\ LET rest == ArrayRemove(members[g], d) IN SetMembers(g, rest, Len(rest))
    /\ UNCHANGED <<life, tags, handler>>

MoveLife(g, from, to) ==
    /\ life[g] = from
    /\ life' = [life EXCEPT ![g] = to]
    /\ UNCHANGED <<members, count, tags, handler>>

Archive(g) == MoveLife(g, "active", "archived")
Restore(g) == MoveLife(g, "archived", "active")

Delete(g) ==
    /\ Exists(g)
    /\ life' = [life EXCEPT ![g] = "deleted"]
    /\ SetMembers(g, <<>>, 0)
    /\ UNCHANGED <<tags, handler>>

-----------------------------------------------------------------------------
(* POST /:groupId/devices: the membership test looks at the row that was   *)
(* read; the UPDATE appends to the row as it is when it runs.              *)

AddDeviceReadUnchecked(h, g, d) ==      \* fault: no 409 for a member
    /\ Exists(g)
    /\ Accept(h, [op |-> "add", group |-> g, device |-> d, seen |-> members[g]])

AddDeviceRead(h, g, d) ==
    /\ Exists(g)
    /\ d \notin Elements(members[g])
    /\ Accept(h, [op |-> "add", group |-> g, device |-> d, seen |-> members[g]])

AppendTo(h, array) ==
    /\ LET g == handler[h].group IN
       IF Exists(g)
         THEN SetMembers(g, Append(array, handler[h].device), Len(array) + 1)
         ELSE UNCHANGED <<members, count>>
    /\ Reply(h)
    /\ UNCHANGED <<life, tags>>

AddDeviceWriteBack(h) ==      \* fault: read-modify-write
    /\ handler[h].op = "add"
    /\ AppendTo(h, handler[h].seen)

AddDeviceWrite(h) ==
    /\ handler[h].op = "add"
    /\ AppendTo(h, members[handler[h].group])

(* POST /:id/duplicate: INSERT of the array and of the count that were read. *)
DuplicateRead(h, g) ==
    /\ Exists(g)
    /\ Accept(h, [op |-> "duplicate", seen |-> members[g], seenCount |-> count[g]])

DuplicateWrite(h, copy) ==
    /\ handler[h].op = "duplicate"
    /\ Insert(copy, handler[h].seen, handler[h].seenCount)
    /\ Reply(h)
    /\ UNCHANGED tags

(* POST and DELETE /:id/tags: one UPDATE over the members that were read;  *)
(* an empty group is answered at once, unknown ids match no device.        *)
BulkTagRead(h, g, op, T) ==
    /\ Exists(g)
    /\ members[g] # <<>>
    /\ Accept(h, [op |-> op, seen |-> members[g], tags |-> T])

AssignedAfresh(old, new) == new      \* fault: replaces instead of merging
Assigned(old, new) == old \cup new

BulkTagWrite(h) ==
    /\ handler[h].op \in {"assign", "unassign"}
    /\ tags' = [d \in KnownDevice |->
                  IF d \notin Elements(handler[h].seen) THEN tags[d]
                  ELSE IF handler[h].op = "assign" THEN Assigned(tags[d], handler[h].tags)
                  ELSE tags[d] \ handler[h].tags]
    /\ Reply(h)
    /\ UNCHANGED <<life, members, count>>

-----------------------------------------------------------------------------
GroupStep ==
    \E g \in Group :
        \/ \E s \in MemberList : Create(g, s) \/ Update(g, s)
        \/ \E d \in DeviceId : RemoveDevice(g, d)
        \/ Archive(g) \/ Restore(g) \/ Delete(g)

HandlerStep(h) ==
    \/ \E g \in Group, d \in KnownDevice : AddDeviceRead(h, g, d)
    \/ AddDeviceWrite(h)
    \/ \E g \in Group : DuplicateRead(h, g)
    \/ \E copy \in Group : DuplicateWrite(h, copy)
    \/ \E g \in Group, op \in {"assign", "unassign"}, T \in SUBSET Tag \ {{}} :
          BulkTagRead(h, g, op, T)
    \/ BulkTagWrite(h)

Next == GroupStep \/ \E h \in Handler : HandlerStep(h)

Spec == Init /\ [][Next]_vars

-----------------------------------------------------------------------------
(* Properties. *)

(* Every variable keeps its shape. *)
TypeOK ==
    /\ life \in [Group -> {"unborn", "active", "archived", "deleted"}]
    /\ members \in [Group -> Seq(DeviceId)]
    /\ count \in [Group -> Nat]
    /\ tags \in [KnownDevice -> SUBSET Tag]
    /\ handler \in [Handler -> Request]

(* The stored device_count is the length of device_ids, which the group    *)
(* list, the rollout wizard and the fleet reports rely on, although five   *)
(* routes write the pair, one of them from a copy read earlier.            *)
CountMatches == \A g \in Group : count[g] = Len(members[g])

(* Two adds in flight never lose each other's device: the UPDATE of an add *)
(* keeps every member, the ones that arrived after the add read the row    *)
(* included (the comment at device-groups.ts:289).                         *)
AddKeepsMembers ==
    [][\A h \in Handler :
          handler[h].op = "add" /\ handler'[h] = Idle =>
             Elements(members[handler[h].group]) \subseteq Elements(members'[handler[h].group])
      ]_vars

(* An add brings a second copy of a device into a group only when the row  *)
(* changed between its SELECT and its UPDATE: answering 409 for a member   *)
(* protects every add that does not race.                                  *)
NoRepeats(s) == \A i, j \in DOMAIN s : s[i] = s[j] => i = j
UnracedAddIsClean ==
    [][\A h \in Handler :
          handler[h].op = "add" /\ handler'[h] = Idle =>
             LET g == handler[h].group IN
             members[g] = handler[h].seen /\ NoRepeats(members[g]) => NoRepeats(members'[g])
      ]_vars

(* A bulk assignment and a bulk removal that overlap never undo each other *)
(* beyond the tags they name: a device loses a tag only in the UPDATE of a *)
(* removal that names it, and only if it was in the group when that        *)
(* removal read it.                                                        *)
TagLossIsRequested ==
    [][\A d \in KnownDevice : \A t \in tags[d] \ tags'[d] :
          \E h \in Handler :
             /\ handler[h].op = "unassign" /\ handler'[h] = Idle
             /\ t \in handler[h].tags
             /\ d \in Elements(handler[h].seen)
      ]_vars

=============================================================================
