------------------------- MODULE DeviceGroupsProofs -------------------------
(***************************************************************************)
(* The properties of the device-group routes for any groups, devices, tags *)
(* and number of requests.                                                 *)
(*                                                                         *)
(* CountMatches alone is not inductive: a duplicate inserts the array and  *)
(* the count its SELECT returned, so the pair held by a request in         *)
(* progress has to match as well (CopiesMatch).  UnracedAddIsClean rests   *)
(* on what an add in progress has read: an array without its device        *)
(* (AddsUnseen).                                                           *)
(***************************************************************************)
EXTENDS DeviceGroups, FiniteSetTheorems, SequenceTheorems, TLAPS

CopiesMatch ==
    \A h \in Handler :
        handler[h].op = "duplicate" => handler[h].seenCount = Len(handler[h].seen)

AddsUnseen ==
    \A h \in Handler :
        handler[h].op = "add" => handler[h].device \notin Elements(handler[h].seen)

IInv == TypeOK /\ CountMatches /\ CopiesMatch /\ AddsUnseen

-----------------------------------------------------------------------------
(* The positions array_remove() keeps are a finite set. *)
LEMMA KeptFinite ==
    ASSUME NEW s \in Seq(DeviceId), NEW d
    PROVE  /\ IsFiniteSet(Kept(s, d))
           /\ Cardinality(Kept(s, d)) \in Nat
           /\ Kept(s, d) \subseteq Nat /\ Kept(s, d) \subseteq DOMAIN s
<1>1. Kept(s, d) \in SUBSET (1..Len(s))
  BY DEF Kept
<1>2. IsFiniteSet(1..Len(s))
  BY FS_Interval
<1>3. Kept(s, d) \subseteq Nat /\ Kept(s, d) \subseteq DOMAIN s
  BY DEF Kept
<1>4. QED
  BY <1>1, <1>2, <1>3, FS_Subset, FS_CardinalityType

(* Rank numbers the kept positions in their order. *)
LEMMA RankMonotone ==
    ASSUME NEW s \in Seq(DeviceId), NEW d,
           NEW i \in Kept(s, d), NEW j \in Kept(s, d), i < j
    PROVE  Rank(s, d, i) \in Nat /\ Rank(s, d, j) \in Nat /\ Rank(s, d, i) < Rank(s, d, j)
<1> DEFINE Below(m) == {k \in Kept(s, d) : k <= m}
<1>1. IsFiniteSet(Kept(s, d)) /\ Kept(s, d) \subseteq Nat
  BY KeptFinite
<1>2. Below(i) \in SUBSET Below(j) /\ Below(j) \in SUBSET Kept(s, d)
  BY <1>1
<1>3. j \in Below(j) /\ j \notin Below(i)
  BY <1>1
<1>4. IsFiniteSet(Below(i)) /\ IsFiniteSet(Below(j))
  BY <1>1, <1>2, FS_Subset
<1>5. /\ Cardinality(Below(i)) \in Nat /\ Cardinality(Below(j)) \in Nat
      /\ Cardinality(Below(i)) <= Cardinality(Below(j))
      /\ Cardinality(Below(i)) # Cardinality(Below(j))
  <2>1. Below(i) # Below(j)
    BY <1>3
  <2> HIDE DEF Below
  <2>2. QED
    BY <1>2, <1>4, <2>1, FS_Subset, FS_CardinalityType
<1>6. QED
  BY <1>5 DEF Rank

LEMMA RankBounds ==
    ASSUME NEW s \in Seq(DeviceId), NEW d, NEW i \in Kept(s, d)
    PROVE  Rank(s, d, i) \in 1..Cardinality(Kept(s, d))
<1> DEFINE Below == {j \in Kept(s, d) : j <= i}
<1>1. IsFiniteSet(Kept(s, d)) /\ Cardinality(Kept(s, d)) \in Nat /\ Kept(s, d) \subseteq Nat
  BY KeptFinite
<1>2. Below \in SUBSET Kept(s, d) /\ i \in Below
  BY <1>1
<1>3. IsFiniteSet(Below) /\ Cardinality(Below) <= Cardinality(Kept(s, d))
  BY <1>1, <1>2, FS_Subset
<1>4. Cardinality(Below) \in Nat /\ Cardinality(Below) # 0
  BY <1>2, <1>3, FS_CardinalityType, FS_EmptySet
<1>5. QED
  BY <1>1, <1>3, <1>4 DEF Rank

(* Rank numbers the kept positions 1, 2, ... without a gap: it is an       *)
(* injection between two sets of one size, so every number is a rank.      *)
LEMMA RankOnto ==
    ASSUME NEW s \in Seq(DeviceId), NEW d, NEW k \in 1..Cardinality(Kept(s, d))
    PROVE  \E i \in Kept(s, d) : Rank(s, d, i) = k
<1> DEFINE K == Kept(s, d)
           n == Cardinality(K)
           rank == [i \in K |-> Rank(s, d, i)]
<1>1. IsFiniteSet(K) /\ n \in Nat /\ K \subseteq Nat
  BY KeptFinite
<1>2. \A i \in K : Rank(s, d, i) \in 1..n
  BY RankBounds
<1>3. ASSUME NEW i \in K, NEW j \in K, i < j
      PROVE  Rank(s, d, i) # Rank(s, d, j)
  BY <1>3, RankMonotone
<1>4. rank \in Injection(K, 1..n)
  <2>1. \A i, j \in K : rank[i] = rank[j] => i = j
    BY <1>1, <1>3
  <2>2. rank \in [K -> 1..n]
    BY <1>2
  <2>3. QED
    BY <2>1, <2>2 DEF Injection, IsInjective
<1>5. IsFiniteSet(1..n) /\ Cardinality(1..n) = n
  BY <1>1, FS_Interval
<1>6. rank \in Surjection(K, 1..n)
  BY <1>4, <1>5, FS_Injection
<1>7. \A m \in 1..n : \E i \in K : rank[i] = m
  BY <1>6 DEF Surjection
<1>8. QED
  BY <1>7

(* array_remove() returns an array: what is kept, in its order, so the     *)
(* same elements without d.                                                *)
THEOREM ArrayRemoveKeepsRest ==
    ASSUME NEW s \in Seq(DeviceId), NEW d
    PROVE  /\ ArrayRemove(s, d) \in Seq(DeviceId)
           /\ Len(ArrayRemove(s, d)) = Cardinality(Kept(s, d))
           /\ \E at \in [1..Cardinality(Kept(s, d)) -> Kept(s, d)] :
                 /\ \A k \in DOMAIN at : ArrayRemove(s, d)[k] = s[at[k]]
                 /\ \A k, l \in DOMAIN at : k < l => at[k] < at[l]
           /\ Elements(ArrayRemove(s, d)) = Elements(s) \ {d}
<1> DEFINE n == Cardinality(Kept(s, d))
           at == [k \in 1..n |-> CHOOSE i \in Kept(s, d) : Rank(s, d, i) = k]
<1>1. n \in Nat /\ Kept(s, d) \subseteq Nat /\ Kept(s, d) \subseteq DOMAIN s
  BY KeptFinite
<1>2. ASSUME NEW k \in 1..n
      PROVE  at[k] \in Kept(s, d) /\ Rank(s, d, at[k]) = k
  BY RankOnto
<1>3. ArrayRemove(s, d) = [k \in 1..n |-> s[at[k]]]
  BY DEF ArrayRemove
<1> HIDE DEF at
<1>4. at \in [1..n -> Kept(s, d)]
  BY <1>2 DEF at
<1>5. \A i \in DOMAIN s : s[i] \in DeviceId
  OBVIOUS
<1>6. \A k \in 1..n : s[at[k]] \in DeviceId
  BY <1>1, <1>2, <1>5
<1>7. \A k, l \in 1..n : k < l => at[k] < at[l]
  <2> SUFFICES ASSUME NEW k \in 1..n, NEW l \in 1..n, k < l, ~(at[k] < at[l])
               PROVE  FALSE
    OBVIOUS
  <2>1. /\ at[k] \in Kept(s, d) /\ Rank(s, d, at[k]) = k
        /\ at[l] \in Kept(s, d) /\ Rank(s, d, at[l]) = l
    BY <1>2
  <2>2. at[l] < at[k] \/ at[l] = at[k]
    BY <1>1, <2>1
  <2>3. CASE at[l] < at[k]
    BY <2>1, <2>3, RankMonotone
  <2>4. CASE at[l] = at[k]
    BY <2>1, <2>4
  <2>5. QED
    BY <2>2, <2>3, <2>4
<1>8. \A i \in Kept(s, d) : \E k \in 1..n : at[k] = i
  <2> SUFFICES ASSUME NEW i \in Kept(s, d)
               PROVE  \E k \in 1..n : at[k] = i
    OBVIOUS
  <2> DEFINE k == Rank(s, d, i)
  <2>1. k \in 1..n
    BY RankBounds
  <2>2. at[k] \in Kept(s, d) /\ Rank(s, d, at[k]) = k
    BY <1>2, <2>1
  <2>3. ~(at[k] < i)
    BY <2>2, RankMonotone
  <2>4. ~(i < at[k])
    BY <2>2, RankMonotone
  <2>5. at[k] = i
    BY <1>1, <2>2, <2>3, <2>4
  <2>6. QED
    BY <2>1, <2>5
<1> HIDE DEF n
<1>9. ArrayRemove(s, d) \in Seq(DeviceId) /\ DOMAIN ArrayRemove(s, d) = 1..n
  BY <1>1, <1>3, <1>6, IsASeq
<1>10. Len(ArrayRemove(s, d)) = n
  BY <1>1, <1>9, LenProperties
<1>11. Elements(ArrayRemove(s, d)) = {s[i] : i \in Kept(s, d)}
  BY <1>3, <1>4, <1>8, <1>9 DEF Elements
<1>12. {s[i] : i \in Kept(s, d)} = Elements(s) \ {d}
  BY DEF Kept, Elements
<1>13. QED
  BY <1>3, <1>4, <1>7, <1>9, <1>10, <1>11, <1>12 DEF n

-----------------------------------------------------------------------------
LEMMA InitIInv == Init => IInv
  BY EmptySeq DEF Init, IInv, TypeOK, CountMatches, CopiesMatch, AddsUnseen, Request, Idle

(* Storing a sequence in a group and its length in the count keeps both    *)
(* the types and the match, whichever route does it.                       *)
LEMMA SetMembersKeeps ==
    ASSUME NEW g \in Group, NEW s \in Seq(DeviceId), NEW n, n = Len(s),
           members \in [Group -> Seq(DeviceId)], count \in [Group -> Nat],
           CountMatches, SetMembers(g, s, n)
    PROVE  /\ members' \in [Group -> Seq(DeviceId)]
           /\ count' \in [Group -> Nat]
           /\ CountMatches'
  BY LenProperties DEF SetMembers, CountMatches

(* A request that stores nothing but an array and its own count, or none,  *)
(* keeps the copies matched, and one that has read an array without the    *)
(* device it adds keeps the adds unseen; so does the reply.                *)
LEMMA HandlerKeeps ==
    ASSUME NEW h \in Handler, NEW r \in Request,
           handler \in [Handler -> Request], CopiesMatch, AddsUnseen,
           handler' = [handler EXCEPT ![h] = r],
           r.op = "duplicate" => r.seenCount = Len(r.seen),
           r.op = "add" => r.device \notin Elements(r.seen)
    PROVE  handler' \in [Handler -> Request] /\ CopiesMatch' /\ AddsUnseen'
  BY DEF CopiesMatch, AddsUnseen

LEMMA GroupStepIInv ==
    ASSUME IInv, GroupStep
    PROVE  IInv'
<1> USE DEF IInv
<1>1. PICK g \in Group :
        \/ \E s \in MemberList : Create(g, s) \/ Update(g, s)
        \/ \E d \in DeviceId : RemoveDevice(g, d)
        \/ Archive(g) \/ Restore(g) \/ Delete(g)
  BY DEF GroupStep
<1>2. ASSUME NEW s \in MemberList, Create(g, s)  PROVE IInv'
  <2>1. s \in Seq(DeviceId)
    BY MemberListAssumption
  <2>2. CountMatches' /\ members' \in [Group -> Seq(DeviceId)] /\ count' \in [Group -> Nat]
    BY <1>2, <2>1, SetMembersKeeps DEF Create, Insert, TypeOK
  <2>3. QED
    BY <1>2, <2>2 DEF Create, Insert, TypeOK, CopiesMatch, AddsUnseen
<1>3. ASSUME NEW s \in MemberList, Update(g, s)  PROVE IInv'
  <2>1. s \in Seq(DeviceId)
    BY MemberListAssumption
  <2>2. CountMatches' /\ members' \in [Group -> Seq(DeviceId)] /\ count' \in [Group -> Nat]
    BY <1>3, <2>1, SetMembersKeeps DEF Update, TypeOK
  <2>3. QED
    BY <1>3, <2>2 DEF Update, TypeOK, CopiesMatch, AddsUnseen
<1>4. ASSUME NEW d \in DeviceId, RemoveDevice(g, d)  PROVE IInv'
  <2>1. ArrayRemove(members[g], d) \in Seq(DeviceId)
    BY ArrayRemoveKeepsRest DEF TypeOK
  <2>2. CountMatches' /\ members' \in [Group -> Seq(DeviceId)] /\ count' \in [Group -> Nat]
    BY <1>4, <2>1, SetMembersKeeps DEF RemoveDevice, TypeOK
  <2>3. QED
    BY <1>4, <2>2 DEF RemoveDevice, TypeOK, CopiesMatch, AddsUnseen
<1>5. CASE Archive(g) \/ Restore(g)
  BY <1>5 DEF Archive, Restore, MoveLife, TypeOK, CountMatches, CopiesMatch, AddsUnseen
<1>6. CASE Delete(g)
  <2>1. CountMatches' /\ members' \in [Group -> Seq(DeviceId)] /\ count' \in [Group -> Nat]
    BY <1>6, EmptySeq, SetMembersKeeps DEF Delete, TypeOK
  <2>2. QED
    BY <1>6, <2>1 DEF Delete, TypeOK, CopiesMatch, AddsUnseen
<1>7. QED
  BY <1>1, <1>2, <1>3, <1>4, <1>5, <1>6

LEMMA HandlerStepIInv ==
    ASSUME NEW h \in Handler, IInv, HandlerStep(h)
    PROVE  IInv'
<1> USE DEF IInv
<1>0. Idle \in Request /\ Idle.op \notin {"duplicate", "add"}
  BY DEF Idle, Request
<1>1. ASSUME NEW g \in Group, NEW d \in KnownDevice, AddDeviceRead(h, g, d)  PROVE IInv'
  <2> DEFINE r == [op |-> "add", group |-> g, device |-> d, seen |-> members[g]]
  <2>1. r \in Request /\ r.op # "duplicate" /\ r.device \notin Elements(r.seen)
    BY <1>1 DEF TypeOK, Request, AddDeviceRead
  <2>2. handler' = [handler EXCEPT ![h] = r] /\ UNCHANGED <<life, members, count, tags>>
    BY <1>1 DEF AddDeviceRead, Accept
  <2>3. handler' \in [Handler -> Request] /\ CopiesMatch' /\ AddsUnseen'
    BY <2>1, <2>2, HandlerKeeps DEF TypeOK
  <2>4. QED
    BY <2>2, <2>3 DEF TypeOK, CountMatches
<1>2. CASE AddDeviceWrite(h)
  <2> DEFINE g == handler[h].group
  <2>1. handler[h] \in [op : {"add"}, group : Group, device : KnownDevice, seen : Seq(DeviceId)]
    BY <1>2 DEF AddDeviceWrite, TypeOK, Request, Idle
  <2>2. g \in Group /\ handler[h].device \in DeviceId
    BY <2>1, DevicesAssumption
  <2>3. /\ Append(members[g], handler[h].device) \in Seq(DeviceId)
        /\ Len(members[g]) + 1 = Len(Append(members[g], handler[h].device))
    BY <2>2, AppendProperties DEF TypeOK
  <2>4. CountMatches' /\ members' \in [Group -> Seq(DeviceId)] /\ count' \in [Group -> Nat]
    <3>1. CASE Exists(g)
      BY <1>2, <2>2, <2>3, <3>1, SetMembersKeeps DEF AddDeviceWrite, AppendTo, TypeOK
    <3>2. CASE ~Exists(g)
      BY <1>2, <3>2 DEF AddDeviceWrite, AppendTo, TypeOK, CountMatches
    <3>3. QED
      BY <3>1, <3>2
  <2>5. handler' \in [Handler -> Request] /\ CopiesMatch' /\ AddsUnseen'
    BY <1>2, <1>0, HandlerKeeps DEF AddDeviceWrite, AppendTo, Reply, TypeOK
  <2>6. QED
    BY <1>2, <2>4, <2>5 DEF AddDeviceWrite, AppendTo, TypeOK
<1>3. ASSUME NEW g \in Group, DuplicateRead(h, g)  PROVE IInv'
  <2> DEFINE r == [op |-> "duplicate", seen |-> members[g], seenCount |-> count[g]]
  <2>1. r \in Request /\ r.op # "add" /\ r.seenCount = Len(r.seen)
    BY DEF TypeOK, Request, CountMatches
  <2>2. handler' = [handler EXCEPT ![h] = r] /\ UNCHANGED <<life, members, count, tags>>
    BY <1>3 DEF DuplicateRead, Accept
  <2>3. handler' \in [Handler -> Request] /\ CopiesMatch' /\ AddsUnseen'
    BY <2>1, <2>2, HandlerKeeps DEF TypeOK
  <2>4. QED
    BY <2>2, <2>3 DEF TypeOK, CountMatches
<1>4. ASSUME NEW copy \in Group, DuplicateWrite(h, copy)  PROVE IInv'
  <2>1. handler[h] \in [op : {"duplicate"}, seen : Seq(DeviceId), seenCount : Nat]
    <3>1. handler[h] \in Request /\ handler[h].op = "duplicate"
      BY <1>4 DEF DuplicateWrite, TypeOK
    <3>2. QED
      BY <3>1 DEF Request, Idle
  <2>2. handler[h].seen \in Seq(DeviceId) /\ handler[h].seenCount = Len(handler[h].seen)
    BY <1>4, <2>1 DEF DuplicateWrite, CopiesMatch
  <2>3. CountMatches' /\ members' \in [Group -> Seq(DeviceId)] /\ count' \in [Group -> Nat]
    BY <1>4, <2>2, SetMembersKeeps DEF DuplicateWrite, Insert, TypeOK
  <2>4. handler' \in [Handler -> Request] /\ CopiesMatch' /\ AddsUnseen'
    BY <1>4, <1>0, HandlerKeeps DEF DuplicateWrite, Reply, TypeOK
  <2>5. QED
    BY <1>4, <2>3, <2>4 DEF DuplicateWrite, Insert, TypeOK
<1>5. ASSUME NEW g \in Group, NEW op \in {"assign", "unassign"}, NEW T \in SUBSET Tag,
             BulkTagRead(h, g, op, T)
      PROVE  IInv'
  <2> DEFINE r == [op |-> op, seen |-> members[g], tags |-> T]
  <2>1. r \in Request /\ r.op \notin {"duplicate", "add"}
    BY DEF TypeOK, Request
  <2>2. handler' = [handler EXCEPT ![h] = r] /\ UNCHANGED <<life, members, count, tags>>
    BY <1>5 DEF BulkTagRead, Accept
  <2>3. handler' \in [Handler -> Request] /\ CopiesMatch' /\ AddsUnseen'
    BY <2>1, <2>2, HandlerKeeps DEF TypeOK
  <2>4. QED
    BY <2>2, <2>3 DEF TypeOK, CountMatches
<1>6. CASE BulkTagWrite(h)
  <2>1. handler[h] \in [op : {"assign", "unassign"}, seen : Seq(DeviceId), tags : SUBSET Tag]
    BY <1>6 DEF BulkTagWrite, TypeOK, Request, Idle
  <2>2. tags' \in [KnownDevice -> SUBSET Tag]
    BY <1>6, <2>1 DEF BulkTagWrite, Assigned, TypeOK
  <2>3. handler' \in [Handler -> Request] /\ CopiesMatch' /\ AddsUnseen'
    BY <1>6, <1>0, HandlerKeeps DEF BulkTagWrite, Reply, TypeOK
  <2>4. QED
    BY <1>6, <2>2, <2>3 DEF BulkTagWrite, TypeOK, CountMatches
<1>7. QED
  BY <1>1, <1>2, <1>3, <1>4, <1>5, <1>6 DEF HandlerStep

-----------------------------------------------------------------------------
LEMMA SpecIInv == Spec => []IInv
<1>1. Init => IInv
  BY InitIInv
<1>2. IInv /\ [Next]_vars => IInv'
  <2>1. CASE Next
    BY <2>1, GroupStepIInv, HandlerStepIInv DEF Next
  <2>2. CASE UNCHANGED vars
    BY <2>2 DEF vars, IInv, TypeOK, CountMatches, CopiesMatch, AddsUnseen
  <2>3. QED
    BY <2>1, <2>2
<1>3. QED
  BY <1>1, <1>2, PTL DEF Spec

-----------------------------------------------------------------------------
(* Every variable keeps its shape.                                         *)
THEOREM TypeCorrect == Spec => []TypeOK
<1>1. IInv => TypeOK
  BY DEF IInv
<1>2. QED
  BY <1>1, SpecIInv, PTL

(* The stored device_count is the length of device_ids in every state,     *)
(* whatever the number of groups, devices and overlapping requests.        *)
THEOREM CountAlwaysMatches == Spec => []CountMatches
<1>1. IInv => CountMatches
  BY DEF IInv
<1>2. QED
  BY <1>1, SpecIInv, PTL

(* The UPDATE of an add appends to the row as it is, so it loses no        *)
(* member.                                                                 *)
AddStep ==
    \A h \in Handler :
        handler[h].op = "add" /\ handler'[h] = Idle =>
            Elements(members[handler[h].group]) \subseteq Elements(members'[handler[h].group])

LEMMA OtherHandlerKept ==
    ASSUME IInv, NEW k \in Handler, NEW h \in Handler, NEW q,
           handler' = [handler EXCEPT ![k] = q], h # k
    PROVE  handler'[h] = handler[h]
  BY DEF IInv, TypeOK

LEMMA AppendKeepsElements ==
    ASSUME NEW s \in Seq(DeviceId), NEW d \in DeviceId
    PROVE  Elements(s) \subseteq Elements(Append(s, d))
<1>1. DOMAIN s = 1..Len(s) /\ Len(s) \in Nat
  BY LenProperties
<1>2. /\ DOMAIN Append(s, d) = 1..(Len(s) + 1)
      /\ \A i \in 1..Len(s) : Append(s, d)[i] = s[i]
  BY AppendProperties
<1>3. ASSUME NEW i \in DOMAIN s
      PROVE  s[i] \in Elements(Append(s, d))
  BY <1>1, <1>2, <1>3 DEF Elements
<1>4. QED
  BY <1>3 DEF Elements

LEMMA AddWriteStep ==
    ASSUME IInv, NEW k \in Handler, AddDeviceWrite(k)
    PROVE  AddStep
<1> DEFINE g == handler[k].group
           d == handler[k].device
<1>1. handler[k].op = "add" /\ handler' = [handler EXCEPT ![k] = Idle]
  BY DEF AddDeviceWrite, AppendTo, Reply
<1>2. handler[k] \in Request
  BY DEF IInv, TypeOK
<1>3. g \in Group /\ d \in DeviceId
  BY <1>1, <1>2, DevicesAssumption DEF Request, Idle
<1>4. members[g] \in Seq(DeviceId)
  BY <1>3 DEF IInv, TypeOK
<1>5. members'[g] = members[g] \/ members'[g] = Append(members[g], d)
  <2>1. CASE Exists(g)
    <3>1. members' = [members EXCEPT ![g] = Append(members[g], d)]
      BY <2>1 DEF AddDeviceWrite, AppendTo, SetMembers
    <3>2. QED
      BY <3>1, <1>3 DEF IInv, TypeOK
  <2>2. CASE ~Exists(g)
    BY <2>2 DEF AddDeviceWrite, AppendTo
  <2>3. QED
    BY <2>1, <2>2
<1>6. Elements(members[g]) \subseteq Elements(members'[g])
  BY <1>3, <1>4, <1>5, AppendKeepsElements
<1>7. ASSUME NEW h \in Handler, h # k, handler[h].op = "add"
      PROVE  handler'[h] # Idle
  BY <1>1, <1>7, OtherHandlerKept DEF Idle
<1>8. QED
  BY <1>6, <1>7 DEF AddStep

LEMMA NextAddStep ==
    ASSUME IInv, Next
    PROVE  AddStep
<1>1. ASSUME GroupStep  PROVE AddStep
  <2>1. handler' = handler
    BY <1>1 DEF GroupStep, Create, Update, RemoveDevice, Archive, Restore, Delete, MoveLife
  <2>2. QED
    BY <2>1 DEF AddStep, Idle
<1>2. ASSUME NEW k \in Handler, HandlerStep(k), ~AddDeviceWrite(k)  PROVE AddStep
  <2>1. handler[k].op # "add"
    BY <1>2 DEF HandlerStep, AddDeviceRead, DuplicateRead, DuplicateWrite, BulkTagRead, BulkTagWrite,
                Accept, Idle
  <2>2. PICK q : handler' = [handler EXCEPT ![k] = q]
    BY <1>2 DEF HandlerStep, AddDeviceRead, DuplicateRead, DuplicateWrite, BulkTagRead, BulkTagWrite,
                Accept, Reply
  <2>3. \A h \in Handler : h # k => handler'[h] = handler[h]
    BY <2>2, OtherHandlerKept
  <2>4. QED
    BY <2>1, <2>3 DEF AddStep, Idle
<1>3. QED
  BY <1>1, <1>2, AddWriteStep DEF Next

(* However many adds of a group are in flight, none loses a member that    *)
(* another one appended after it read the row.                             *)
THEOREM AddsLoseNobody == Spec => AddKeepsMembers
<1>1. IInv /\ [Next]_vars => [AddStep]_vars
  BY NextAddStep
<1>2. QED
  BY <1>1, SpecIInv, PTL DEF Spec, AddKeepsMembers, AddStep

-----------------------------------------------------------------------------
(* An add that appends to the very array its SELECT tested adds a device   *)
(* that is not in it.                                                      *)
CleanStep ==
    \A h \in Handler :
        handler[h].op = "add" /\ handler'[h] = Idle =>
            LET g == handler[h].group IN
            members[g] = handler[h].seen /\ NoRepeats(members[g]) => NoRepeats(members'[g])

LEMMA AppendNoRepeats ==
    ASSUME NEW s \in Seq(DeviceId), NEW d \in DeviceId, NoRepeats(s), d \notin Elements(s)
    PROVE  NoRepeats(Append(s, d))
<1>1. DOMAIN s = 1..Len(s) /\ Len(s) \in Nat
  BY LenProperties
<1>2. /\ DOMAIN Append(s, d) = 1..(Len(s) + 1)
      /\ \A i \in 1..Len(s) : Append(s, d)[i] = s[i]
      /\ Append(s, d)[Len(s) + 1] = d
  BY AppendProperties
<1>3. \A i \in 1..Len(s) : s[i] # d
  BY <1>1 DEF Elements
<1>4. \A i, j \in 1..Len(s) : s[i] = s[j] => i = j
  BY <1>1 DEF NoRepeats
<1>5. ASSUME NEW i \in 1..(Len(s) + 1), NEW j \in 1..(Len(s) + 1), Append(s, d)[i] = Append(s, d)[j]
      PROVE  i = j
  <2>1. CASE i = Len(s) + 1 \/ j = Len(s) + 1
    BY <1>1, <1>2, <1>3, <1>5, <2>1
  <2>2. CASE i \in 1..Len(s) /\ j \in 1..Len(s)
    BY <1>2, <1>4, <1>5, <2>2
  <2>3. QED
    BY <1>1, <2>1, <2>2
<1>6. QED
  BY <1>2, <1>5 DEF NoRepeats

LEMMA AddWriteClean ==
    ASSUME IInv, NEW k \in Handler, AddDeviceWrite(k)
    PROVE  CleanStep
<1> DEFINE g == handler[k].group
           d == handler[k].device
<1>1. handler[k].op = "add" /\ handler' = [handler EXCEPT ![k] = Idle]
  BY DEF AddDeviceWrite, AppendTo, Reply
<1>2. handler[k] \in Request
  BY DEF IInv, TypeOK
<1>3. g \in Group /\ d \in DeviceId /\ d \notin Elements(handler[k].seen)
  BY <1>1, <1>2, DevicesAssumption DEF Request, Idle, IInv, AddsUnseen
<1>4. members[g] \in Seq(DeviceId)
  BY <1>3 DEF IInv, TypeOK
<1>5. members'[g] = members[g] \/ members'[g] = Append(members[g], d)
  BY <1>3 DEF AddDeviceWrite, AppendTo, SetMembers, IInv, TypeOK
<1>6. members[g] = handler[k].seen /\ NoRepeats(members[g]) => NoRepeats(members'[g])
  BY <1>3, <1>4, <1>5, AppendNoRepeats
<1>7. ASSUME NEW h \in Handler, h # k, handler[h].op = "add"
      PROVE  handler'[h] # Idle
  BY <1>1, <1>7, OtherHandlerKept DEF Idle
<1>8. QED
  BY <1>6, <1>7 DEF CleanStep

(* Only its own UPDATE ends an add.                                        *)
LEMMA OnlyWriteEndsAdd ==
    ASSUME IInv, Next, NEW h \in Handler, handler[h].op = "add", handler'[h] = Idle
    PROVE  AddDeviceWrite(h)
<1>1. CASE GroupStep
  <2>1. handler' = handler
    BY <1>1 DEF GroupStep, Create, Update, RemoveDevice, Archive, Restore, Delete, MoveLife
  <2>2. QED
    BY <2>1 DEF Idle
<1>2. ASSUME NEW k \in Handler, HandlerStep(k)  PROVE AddDeviceWrite(h)
  <2>1. PICK q : handler' = [handler EXCEPT ![k] = q]
    BY <1>2 DEF HandlerStep, AddDeviceRead, AddDeviceWrite, AppendTo, DuplicateRead, DuplicateWrite,
                BulkTagRead, BulkTagWrite, Accept, Reply
  <2>2. CASE k # h
    BY <2>1, <2>2, OtherHandlerKept DEF Idle
  <2>3. CASE k = h
    BY <1>2, <2>3 DEF HandlerStep, AddDeviceRead, DuplicateRead, DuplicateWrite, BulkTagRead,
                      BulkTagWrite, Accept, Idle
  <2>4. QED
    BY <2>2, <2>3
<1>3. QED
  BY <1>1, <1>2 DEF Next

(* A second copy of a device comes into a group by an add only when the    *)
(* row changed between its SELECT and its UPDATE.                          *)
THEOREM UnracedAddsClean == Spec => UnracedAddIsClean
<1>1. IInv /\ [Next]_vars => [CleanStep]_vars
  <2> SUFFICES ASSUME IInv, Next  PROVE CleanStep
    OBVIOUS
  <2>1. CASE \E k \in Handler : AddDeviceWrite(k)
    BY <2>1, AddWriteClean
  <2>2. CASE ~ \E k \in Handler : AddDeviceWrite(k)
    BY <2>2, OnlyWriteEndsAdd DEF CleanStep
  <2>3. QED
    BY <2>1, <2>2
<1>2. QED
  BY <1>1, SpecIInv, PTL DEF Spec, UnracedAddIsClean, CleanStep

-----------------------------------------------------------------------------
(* A device loses no tag but in the UPDATE of a bulk removal that names    *)
(* the tag and read the device as a member.                                *)
TagStep ==
    \A d \in KnownDevice : \A t \in tags[d] \ tags'[d] :
        \E h \in Handler :
           /\ handler[h].op = "unassign" /\ handler'[h] = Idle
           /\ t \in handler[h].tags
           /\ d \in Elements(handler[h].seen)

LEMMA NextTagStep ==
    ASSUME IInv, Next
    PROVE  TagStep
<1>1. ASSUME NEW h \in Handler, BulkTagWrite(h)  PROVE TagStep
  <2>1. handler'[h] = Idle
    BY <1>1 DEF BulkTagWrite, Reply, IInv, TypeOK
  <2>2. SUFFICES ASSUME NEW d \in KnownDevice, NEW t \in tags[d] \ tags'[d]
                 PROVE  /\ handler[h].op = "unassign" /\ t \in handler[h].tags
                        /\ d \in Elements(handler[h].seen)
    BY <2>1 DEF TagStep
  <2>3. tags'[d] = IF d \notin Elements(handler[h].seen) THEN tags[d]
                   ELSE IF handler[h].op = "assign" THEN tags[d] \cup handler[h].tags
                   ELSE tags[d] \ handler[h].tags
    BY <1>1 DEF BulkTagWrite, Assigned
  <2>4. QED
    BY <1>1, <2>3 DEF BulkTagWrite
<1>2. ASSUME tags' = tags  PROVE TagStep
  BY <1>2 DEF TagStep
<1>3. QED
  BY <1>1, <1>2 DEF Next, GroupStep, Create, Update, RemoveDevice, Archive, Restore, Delete, MoveLife,
                    HandlerStep, AddDeviceRead, AddDeviceWrite, AppendTo, DuplicateRead,
                    DuplicateWrite, BulkTagRead, Accept

(* Overlapping bulk assignments and removals never undo each other beyond  *)
(* the tags they name.                                                     *)
THEOREM TagLossRequested == Spec => TagLossIsRequested
<1>1. IInv /\ [Next]_vars => [TagStep]_vars
  BY NextTagStep
<1>2. QED
  BY <1>1, SpecIInv, PTL DEF Spec, TagLossIsRequested, TagStep

=============================================================================
