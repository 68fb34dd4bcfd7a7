-------------------------- MODULE LiveAlertsProofs --------------------------
(***************************************************************************)
(* The alert pages for any operators, alerts, list length, clicks and      *)
(* mishaps.  PageCatchesUp is liveness and is checked by TLC alone.        *)
(*                                                                         *)
(* HistoryIsTimeline is inductive on its own.  ListMatchesStore needs that *)
(* no id is listed twice, which its cardinalities only say after counting  *)
(* (OnceListed).  ReopenedUnseen rests on what a click in flight was       *)
(* offered (PatchesOffered), and OwnChangesListed on a fetch that runs     *)
(* while no click is in flight (FetchCurrent): whoever changed the row in  *)
(* between has a patch in flight until it has invalidated that fetch.      *)
(***************************************************************************)
EXTENDS LiveAlerts, FiniteSetTheorems, SequenceTheorems, TLAPS

OnceListed ==
    \A v \in Operator :
        /\ \A i, j \in DOMAIN ids[v] : ids[v][i] = ids[v][j] => i = j
        /\ \A i \in DOMAIN ids[v] : live[v][ids[v][i]] # None
        /\ \/ Len(ids[v]) = MaxListed
           \/ \A a \in Live : live[v][a] # None => \E i \in DOMAIN ids[v] : ids[v][i] = a

PatchesOffered == \A v \in Operator : \A p \in patch[v] : Offered(p.seen, p.to)

FetchCurrent ==
    \A v \in Operator : patch[v] = {} /\ fetch[v] # None => fetch[v].applied = applied[v]

Entry == [from : Status, to : Status]

-----------------------------------------------------------------------------
(* Sequences: what an element put in front and a list cut off contain.     *)
LEMMA PushProperties ==
    ASSUME NEW S, NEW s \in Seq(S), NEW e \in S
    PROVE  /\ <<e>> \o s \in Seq(S)
           /\ Len(<<e>> \o s) = Len(s) + 1 /\ Len(s) \in Nat
           /\ (<<e>> \o s)[1] = e
           /\ \A i \in 1..Len(s) : (<<e>> \o s)[i + 1] = s[i]
<1>1. <<e>> \in Seq(S) /\ Len(<<e>>) = 1 /\ <<e>>[1] = e
  OBVIOUS
<1>2. Len(s) \in Nat
  BY LenProperties
<1> DEFINE t == <<e>>
<1> HIDE DEF t
<1>3. /\ t \o s \in Seq(S) /\ Len(t \o s) = Len(t) + Len(s)
      /\ \A i \in 1..(Len(t) + Len(s)) : (t \o s)[i] = IF i <= Len(t) THEN t[i] ELSE s[i - Len(t)]
  BY <1>1, ConcatProperties DEF t
<1>4. Len(t) = 1 /\ t[1] = e
  BY <1>1 DEF t
<1>5. (t \o s)[1] = e
  BY <1>2, <1>3, <1>4
<1>6. \A i \in 1..Len(s) : (t \o s)[i + 1] = s[i]
  BY <1>2, <1>3, <1>4
<1>7. QED
  BY <1>2, <1>3, <1>4, <1>5, <1>6 DEF t

LEMMA ShortenProperties ==
    ASSUME NEW S, NEW s \in Seq(S)
    PROVE  /\ Shorten(s) \in Seq(S) /\ Len(Shorten(s)) \in Nat
           /\ Len(Shorten(s)) <= MaxListed
           /\ Len(Shorten(s)) = IF Len(s) < MaxListed THEN Len(s) ELSE MaxListed
           /\ \A i \in 1..Len(Shorten(s)) : i \in 1..Len(s) /\ Shorten(s)[i] = s[i]
<1> DEFINE n == IF Len(s) < MaxListed THEN Len(s) ELSE MaxListed
<1>1. Len(s) \in Nat /\ n \in Nat /\ n <= Len(s)
  BY LenProperties, BoundsAssumption
<1>2. \A i \in 1..n : i \in 1..Len(s) /\ s[i] \in S
  BY <1>1, ElementOfSeq
<1>3. Shorten(s) = SubSeq(s, 1, n)
  BY DEF Shorten
<1> HIDE DEF n
<1>4. /\ SubSeq(s, 1, n) \in Seq(S)
      /\ Len(SubSeq(s, 1, n)) = IF 1 <= n THEN n - 1 + 1 ELSE 0
      /\ \A i \in 1..(n - 1 + 1) : SubSeq(s, 1, n)[i] = s[1 + i - 1]
  BY <1>1, <1>2, SubSeqProperties
<1>5. Len(SubSeq(s, 1, n)) = n /\ \A i \in 1..n : SubSeq(s, 1, n)[i] = s[i]
  BY <1>1, <1>4
<1>6. QED
  BY <1>1, <1>2, <1>3, <1>4, <1>5, BoundsAssumption DEF n

-----------------------------------------------------------------------------
(* What a step may do to the store of an operator: list a new alert, move  *)
(* one to another status, forget them all, or nothing.                     *)
Moves(v, a, to) ==
    /\ live[v][a] \notin {None, to}
    /\ live' = [live EXCEPT ![v][a] = to]
    /\ history' = [history EXCEPT ![v][a] = Change(live[v][a], to) \o @]
    /\ UNCHANGED ids

StoreStep(v) ==
    \/ \E a \in Live : live[v][a] = None /\ Prepend(v, a)
    \/ \E a \in Live, to \in Status : Moves(v, a, to)
    \/ Clear(v)
    \/ UNCHANGED store

LEMMA PatchType ==
    ASSUME TypeOK, NEW v \in Operator, NEW p \in patch[v]
    PROVE  /\ p \in Patch /\ p.to \in Status /\ p.alert \in Alert
           /\ \A answer \in {"ok", "error"} : [p EXCEPT !.answer = answer] \in Patch
<1>1. p \in Patch
  BY DEF TypeOK
<1>2. QED
  BY <1>1 DEF Patch

LEMMA SetStatusStep ==
    ASSUME NEW v \in Operator, NEW a, NEW to \in Status, SetStatus(v, a, to)
    PROVE  StoreStep(v)
  BY DEF SetStatus, StoreStep, Moves

LEMMA NextStoreStep ==
    ASSUME TypeOK, Next
    PROVE  \E v \in Operator : StoreStep(v)
<1>1. PICK v \in Operator : Browser(v)
  BY DEF Next
<1>2. ASSUME NEW a \in Live, AlertCreated(v, a)  PROVE StoreStep(v)
  BY <1>2 DEF AlertCreated, Add, StoreStep
<1>3. CASE SimulatorReset(v)
  BY <1>3 DEF SimulatorReset, StoreStep
<1>4. ASSUME NEW a \in Alert, NEW to \in Status, Act(v, a, to)  PROVE StoreStep(v)
  BY <1>4, SetStatusStep DEF Act
<1>5. ASSUME NEW p \in patch[v], Server(v, p) \/ Settle(v, p)  PROVE StoreStep(v)
  <2>1. CASE ActSimulated(v, p)
    <3>1. p.to \in Status
      BY PatchType
    <3>2. QED
      BY <2>1, <3>1, SetStatusStep DEF ActSimulated
  <2>2. CASE ~ActSimulated(v, p)
    BY <1>5, <2>2 DEF Server, PatchApplied, PatchNotFound, PatchFailed, Settle, Settled, StoreStep
  <2>3. QED
    BY <2>1, <2>2
<1>6. CASE Fetch(v) \/ FetchAnswer(v) \/ FetchError(v) \/ Toggle(v)
  BY <1>6 DEF Fetch, FetchAnswer, FetchError, Toggle, StoreStep
<1>7. QED
  BY <1>1, <1>2, <1>3, <1>4, <1>5, <1>6 DEF Browser

(* The store keeps its shape. *)
StoreType ==
    /\ live \in [Operator -> [Live -> Status \cup {None}]]
    /\ ids \in [Operator -> Seq(Live)] /\ \A v \in Operator : Len(ids[v]) <= MaxListed
    /\ history \in [Operator -> [Live -> Seq(Entry)]]

LEMMA TypesOfStore == TypeOK => StoreType
  BY DEF TypeOK, StoreType, Entry

LEMMA StoreStepType ==
    ASSUME StoreType, NEW v \in Operator, StoreStep(v)
    PROVE  StoreType'
<1> USE DEF StoreType
<1>1. ASSUME NEW a \in Live, NEW from \in Status, NEW to \in Status,
             history' = [history EXCEPT ![v][a] = Change(from, to) \o @]
      PROVE  history' \in [Operator -> [Live -> Seq(Entry)]]
  <2>1. [from |-> from, to |-> to] \in Entry /\ history[v][a] \in Seq(Entry)
    BY DEF Entry
  <2>2. Change(from, to) \o history[v][a] \in Seq(Entry)
    BY <2>1, PushProperties DEF Change
  <2>3. QED
    BY <1>1, <2>2
<1>2. ASSUME NEW a \in Live, live[v][a] = None, Prepend(v, a)  PROVE StoreType'
  <2>1. "open" \in Status
    BY DEF Status
  <2>2. <<a>> \o ids[v] \in Seq(Live)
    BY PushProperties
  <2>3. Shorten(<<a>> \o ids[v]) \in Seq(Live) /\ Len(Shorten(<<a>> \o ids[v])) <= MaxListed
    BY <2>2, ShortenProperties
  <2>4. ids' = [ids EXCEPT ![v] = Shorten(<<a>> \o ids[v])]
    BY <1>2 DEF Prepend
  <2>5. ids' \in [Operator -> Seq(Live)] /\ \A u \in Operator : Len(ids'[u]) <= MaxListed
    BY <2>3, <2>4
  <2>6. live' \in [Operator -> [Live -> Status \cup {None}]]
    BY <1>2, <2>1 DEF Prepend
  <2>7. history' \in [Operator -> [Live -> Seq(Entry)]]
    BY <1>1, <1>2, <2>1 DEF Prepend
  <2>8. QED
    BY <2>5, <2>6, <2>7
<1>3. ASSUME NEW a \in Live, NEW to \in Status, Moves(v, a, to)  PROVE StoreType'
  <2>1. live[v][a] \in Status
    BY <1>3 DEF Moves
  <2>2. live' \in [Operator -> [Live -> Status \cup {None}]]
    BY <1>3 DEF Moves
  <2>3. history' \in [Operator -> [Live -> Seq(Entry)]]
    BY <1>1, <1>3, <2>1 DEF Moves
  <2>4. QED
    BY <1>3, <2>2, <2>3 DEF Moves
<1>4. CASE Clear(v)
  <2>1. Unlisted \in [Live -> Status \cup {None}] /\ NoHistory \in [Live -> Seq(Entry)]
    BY EmptySeq DEF Unlisted, NoHistory
  <2>2. <<>> \in Seq(Live) /\ Len(<<>>) <= MaxListed
    BY EmptySeq, BoundsAssumption
  <2>3. QED
    BY <1>4, <2>1, <2>2 DEF Clear
<1>5. CASE UNCHANGED store
  BY <1>5 DEF store
<1>6. QED
  BY <1>2, <1>3, <1>4, <1>5 DEF StoreStep

-----------------------------------------------------------------------------
(* The timeline: the first entry of an alert, and one more on top. *)
LEMMA TimelineStart ==
    ASSUME NEW h, h = <<>>
    PROVE  Timeline(Change("open", "open") \o h, "open")
<1> DEFINE e == [from |-> "open", to |-> "open"]
<1>1. e \in Entry /\ <<>> \in Seq(Entry) /\ Len(<<>>) = 0 /\ "open" # None
  BY NoneAssumption, EmptySeq DEF Entry, Status
<1> HIDE DEF e
<1> DEFINE t == <<e>> \o <<>>
<1>2. t \in Seq(Entry) /\ Len(t) = 1 /\ t[1] = e
  BY <1>1, PushProperties
<1> HIDE DEF t
<1>3. t # <<>> /\ \A i \in 1..(Len(t) - 1) : FALSE
  BY <1>1, <1>2
<1>4. Timeline(t, "open")
  BY <1>1, <1>2, <1>3 DEF Timeline, e
<1>5. QED
  BY <1>4 DEF t, e, Change

LEMMA TimelinePush ==
    ASSUME NEW from \in Status, NEW to \in Status, from # to,
           NEW h \in Seq(Entry), Timeline(h, from)
    PROVE  Timeline(Change(from, to) \o h, to)
<1> DEFINE e == [from |-> from, to |-> to]
           t == <<e>> \o h
<1>1. from # None /\ to # None
  BY NoneAssumption
<1>2. /\ h # <<>> /\ h[1].to = from
      /\ h[Len(h)] = [from |-> "open", to |-> "open"]
      /\ \A i \in 1..(Len(h) - 1) : h[i].from = h[i + 1].to /\ h[i].from # h[i].to
  BY <1>1 DEF Timeline
<1>3. e \in Entry /\ e.from = from /\ e.to = to
  BY DEF Entry
<1>4. Len(h) \in Nat /\ Len(h) # 0
  BY <1>2, EmptySeq, LenProperties
<1>5. /\ t \in Seq(Entry) /\ Len(t) = Len(h) + 1 /\ t[1] = e
      /\ \A i \in 1..Len(h) : t[i + 1] = h[i]
  <2> HIDE DEF e
  <2>1. QED
    BY <1>3, PushProperties
<1> HIDE DEF e, t
<1>6. t # <<>> /\ t[1].to = to
  BY <1>3, <1>4, <1>5, EmptySeq
<1>7. t[Len(t)] = [from |-> "open", to |-> "open"]
  BY <1>2, <1>4, <1>5
<1>8. ASSUME NEW i \in 1..(Len(t) - 1)
      PROVE  t[i].from = t[i + 1].to /\ t[i].from # t[i].to
  <2>1. i \in 1..Len(h) /\ t[i + 1] = h[i]
    BY <1>4, <1>5
  <2>2. CASE i = 1
    BY <1>2, <1>3, <1>5, <2>1, <2>2
  <2>3. CASE i # 1
    <3>1. PICK j \in 1..(Len(h) - 1) : i = j + 1
      <4>1. i - 1 \in 1..(Len(h) - 1) /\ i = (i - 1) + 1
        BY <1>4, <2>1, <2>3
      <4>2. QED
        BY <4>1
    <3>2. t[i] = h[j] /\ t[i + 1] = h[j + 1]
      BY <1>4, <1>5, <2>1, <3>1
    <3>3. QED
      BY <1>2, <3>1, <3>2
  <2>4. QED
    BY <2>2, <2>3
<1>9. Timeline(t, to)
  BY <1>1, <1>6, <1>7, <1>8 DEF Timeline
<1>10. QED
  BY <1>9 DEF t, e, Change

LEMMA TimelineStep ==
    ASSUME StoreType, HistoryIsTimeline, NEW v \in Operator, StoreStep(v)
    PROVE  HistoryIsTimeline'
<1> USE DEF StoreType
<1>1. ASSUME NEW a \in Live, NEW h, NEW to,
             live' = [live EXCEPT ![v][a] = to], history' = [history EXCEPT ![v][a] = h],
             Timeline(h, to)
      PROVE  HistoryIsTimeline'
  <2>1. live'[v][a] = to /\ history'[v][a] = h
    BY <1>1
  <2>2. \A u \in Operator, b \in Live :
           ~ (u = v /\ b = a) => live'[u][b] = live[u][b] /\ history'[u][b] = history[u][b]
    BY <1>1
  <2>3. SUFFICES ASSUME NEW u \in Operator, NEW b \in Live
                 PROVE  Timeline(history'[u][b], live'[u][b])
    BY DEF HistoryIsTimeline
  <2>4. Timeline(history[u][b], live[u][b])
    BY DEF HistoryIsTimeline
  <2>5. QED
    BY <1>1, <2>1, <2>2, <2>4
<1>2. ASSUME NEW a \in Live, live[v][a] = None, Prepend(v, a)  PROVE HistoryIsTimeline'
  <2>1. Timeline(history[v][a], None)
    BY <1>2 DEF HistoryIsTimeline
  <2>2. history[v][a] = <<>>
    BY <2>1 DEF Timeline
  <2>3. Timeline(Change("open", "open") \o history[v][a], "open")
    BY <2>2, TimelineStart
  <2>4. /\ live' = [live EXCEPT ![v][a] = "open"]
        /\ history' = [history EXCEPT ![v][a] = Change("open", "open") \o history[v][a]]
    BY <1>2 DEF Prepend
  <2>5. QED
    BY <1>1, <2>3, <2>4
<1>3. ASSUME NEW a \in Live, NEW to \in Status, Moves(v, a, to)  PROVE HistoryIsTimeline'
  <2>1. live[v][a] \in Status /\ live[v][a] # to
    BY <1>3 DEF Moves
  <2>2. Timeline(history[v][a], live[v][a]) /\ history[v][a] \in Seq(Entry)
    BY DEF HistoryIsTimeline
  <2>3. Timeline(Change(live[v][a], to) \o history[v][a], to)
    BY <2>1, <2>2, TimelinePush
  <2>4. /\ live' = [live EXCEPT ![v][a] = to]
        /\ history' = [history EXCEPT ![v][a] = Change(live[v][a], to) \o history[v][a]]
    BY <1>3 DEF Moves
  <2>5. QED
    BY <1>1, <2>3, <2>4
<1>4. CASE Clear(v)
  <2>1. \A b \in Live : live'[v][b] = None /\ history'[v][b] = <<>>
    BY <1>4 DEF Clear, Unlisted, NoHistory
  <2>2. \A u \in Operator, b \in Live :
           u # v => live'[u][b] = live[u][b] /\ history'[u][b] = history[u][b]
    BY <1>4 DEF Clear
  <2>3. Timeline(<<>>, None)
    BY DEF Timeline
  <2>4. ASSUME NEW u \in Operator, NEW b \in Live
        PROVE  Timeline(history'[u][b], live'[u][b])
    <3>1. Timeline(history[u][b], live[u][b])
      BY DEF HistoryIsTimeline
    <3>2. QED
      BY <2>1, <2>2, <2>3, <3>1
  <2>5. QED
    BY <2>4 DEF HistoryIsTimeline
<1>5. CASE UNCHANGED store
  BY <1>5 DEF store, HistoryIsTimeline
<1>6. QED
  BY <1>2, <1>3, <1>4, <1>5 DEF StoreStep

-----------------------------------------------------------------------------
(* The list: each operation keeps OnceListed.  Prepend lists an alert that *)
(* was not in the store, so its id is new, and what Shorten cuts off the   *)
(* end leaves the list full.                                               *)
Lists(s, known) ==
    /\ \A i, j \in 1..Len(s) : s[i] = s[j] => i = j
    /\ \A i \in 1..Len(s) : s[i] \in known
    /\ \/ Len(s) = MaxListed
       \/ \A a \in known : \E i \in 1..Len(s) : s[i] = a

Known(v) == {a \in Live : live[v][a] # None}

LEMMA OnceIsLists ==
    ASSUME StoreType
    PROVE  OnceListed <=> \A v \in Operator : Lists(ids[v], Known(v))
<1>1. \A v \in Operator : /\ ids[v] \in Seq(Live) /\ DOMAIN ids[v] = 1..Len(ids[v])
                          /\ \A i \in 1..Len(ids[v]) : ids[v][i] \in Live
  BY ElementOfSeq, LenProperties DEF StoreType
<1>2. QED
  BY <1>1 DEF OnceListed, Lists, Known

LEMMA ListsPush ==
    ASSUME NEW s \in Seq(Live), Len(s) <= MaxListed, NEW known \in SUBSET Live,
           Lists(s, known), NEW a \in Live \ known
    PROVE  Lists(Shorten(<<a>> \o s), known \cup {a})
<1> DEFINE t == <<a>> \o s
<1>1. /\ t \in Seq(Live) /\ Len(t) = Len(s) + 1 /\ Len(s) \in Nat /\ t[1] = a
      /\ \A i \in 1..Len(s) : t[i + 1] = s[i]
  BY PushProperties
<1> HIDE DEF t
<1> DEFINE r == Shorten(t)
<1>2. /\ Len(r) \in Nat
      /\ Len(r) = IF Len(t) < MaxListed THEN Len(t) ELSE MaxListed
      /\ \A i \in 1..Len(r) : i \in 1..Len(t) /\ r[i] = t[i]
  BY <1>1, ShortenProperties
<1> HIDE DEF r
<1>3. ASSUME NEW i \in 1..Len(t)
      PROVE  t[i] \in known \cup {a} /\ (i # 1 => i - 1 \in 1..Len(s) /\ t[i] = s[i - 1])
  <2>1. CASE i = 1
    BY <1>1, <2>1
  <2>2. CASE i # 1
    <3>1. i - 1 \in 1..Len(s) /\ (i - 1) + 1 = i
      BY <1>1, <2>2
    <3>2. t[i] = s[i - 1]
      BY <1>1, <3>1
    <3>3. QED
      BY <3>1, <3>2 DEF Lists
  <2>3. QED
    BY <2>1, <2>2
<1>4. ASSUME NEW i \in 1..Len(t), NEW j \in 1..Len(t), t[i] = t[j]
      PROVE  i = j
  <2>1. \A k \in 1..Len(t) : k # 1 => t[k] # a
    BY <1>3 DEF Lists
  <2>2. CASE i = 1 \/ j = 1
    BY <1>1, <1>4, <2>1, <2>2
  <2>3. CASE i # 1 /\ j # 1
    <3>1. s[i - 1] = s[j - 1] /\ i - 1 \in 1..Len(s) /\ j - 1 \in 1..Len(s)
      BY <1>3, <1>4, <2>3
    <3>2. i - 1 = j - 1
      BY <3>1 DEF Lists
    <3>3. QED
      BY <3>2
  <2>4. QED
    BY <2>2, <2>3
<1>5. \/ Len(r) = MaxListed
      \/ \A b \in known \cup {a} : \E i \in 1..Len(r) : r[i] = b
  <2>1. SUFFICES ASSUME Len(r) # MaxListed, NEW b \in known \cup {a}
                 PROVE  \E i \in 1..Len(r) : r[i] = b
    OBVIOUS
  <2>2. Len(r) = Len(t) /\ Len(s) # MaxListed
    BY <1>1, <1>2, <2>1, BoundsAssumption
  <2>3. PICK k \in 1..Len(t) : t[k] = b
    <3>1. CASE b = a
      <4>1. 1 \in 1..Len(t)
        BY <1>1
      <4>2. QED
        BY <1>1, <3>1, <4>1
    <3>2. CASE b # a
      <4>1. PICK i \in 1..Len(s) : s[i] = b
        BY <2>2, <3>2 DEF Lists
      <4>2. i + 1 \in 1..Len(t) /\ t[i + 1] = b
        BY <1>1, <4>1
      <4>3. QED
        BY <4>2
    <3>3. QED
      BY <3>1, <3>2
  <2>4. QED
    BY <1>2, <2>2, <2>3
<1>6. Lists(r, known \cup {a})
  BY <1>2, <1>3, <1>4, <1>5 DEF Lists
<1>7. QED
  BY <1>6 DEF r, t

LEMMA OnceListedStep ==
    ASSUME StoreType, OnceListed, NEW v \in Operator, StoreStep(v)
    PROVE  OnceListed'
<1>1. \A u \in Operator : Lists(ids[u], Known(u))
  BY OnceIsLists
<1>2. StoreType'
  BY StoreStepType
<1>3. ASSUME NEW u \in Operator, ids'[u] = ids[u], live'[u] = live[u]
      PROVE  Lists(ids'[u], Known(u)')
  BY <1>1, <1>3 DEF Known
<1>4. ASSUME NEW a \in Live, live[v][a] = None, Prepend(v, a)
      PROVE  Lists(ids'[v], Known(v)') /\ \A u \in Operator : u # v => ids'[u] = ids[u] /\ live'[u] = live[u]
  <2>1. a \in Live \ Known(v) /\ Known(v) \in SUBSET Live
    BY <1>4 DEF Known
  <2>2. ids[v] \in Seq(Live) /\ Len(ids[v]) <= MaxListed
    BY DEF StoreType
  <2>3. Lists(Shorten(<<a>> \o ids[v]), Known(v) \cup {a})
    BY <1>1, <2>1, <2>2, ListsPush
  <2>4. /\ live' = [live EXCEPT ![v][a] = "open"]
        /\ ids' = [ids EXCEPT ![v] = Shorten(<<a>> \o ids[v])]
    BY <1>4 DEF Prepend
  <2>5. Known(v)' = Known(v) \cup {a}
    <3>1. "open" # None
      BY NoneAssumption DEF Status
    <3>2. live'[v] = [live[v] EXCEPT ![a] = "open"] /\ live[v] \in [Live -> Status \cup {None}]
      BY <2>4 DEF StoreType
    <3>3. QED
      BY <3>1, <3>2 DEF Known
  <2>6. ids'[v] = Shorten(<<a>> \o ids[v])
    BY <2>4 DEF StoreType
  <2>7. \A u \in Operator : u # v => ids'[u] = ids[u] /\ live'[u] = live[u]
    BY <2>4 DEF StoreType
  <2>8. QED
    BY <2>3, <2>5, <2>6, <2>7
<1>5. ASSUME NEW a \in Live, NEW to \in Status, Moves(v, a, to)
      PROVE  \A u \in Operator : ids'[u] = ids[u] /\ Known(u)' = Known(u)
  <2>1. live' = [live EXCEPT ![v][a] = to] /\ ids' = ids /\ live[v][a] # None /\ to # None
    BY <1>5, NoneAssumption DEF Moves
  <2>2. QED
    BY <2>1 DEF Known, StoreType
<1>6. ASSUME Clear(v)
      PROVE  Lists(ids'[v], Known(v)') /\ \A u \in Operator : u # v => ids'[u] = ids[u] /\ live'[u] = live[u]
  <2>1. ids'[v] = <<>> /\ live'[v] = Unlisted
    BY <1>6 DEF Clear, StoreType
  <2>2. Known(v)' = {} /\ Len(<<>>) = 0
    BY <2>1 DEF Known, Unlisted
  <2>3. QED
    BY <1>6, <2>1, <2>2 DEF Clear, Lists
<1>7. \A u \in Operator : Lists(ids'[u], Known(u)')
  <2>1. ASSUME NEW a \in Live, live[v][a] = None, Prepend(v, a)
        PROVE  \A u \in Operator : Lists(ids'[u], Known(u)')
    BY <1>3, <1>4, <2>1
  <2>2. ASSUME NEW a \in Live, NEW to \in Status, Moves(v, a, to)
        PROVE  \A u \in Operator : Lists(ids'[u], Known(u)')
    BY <1>1, <1>5, <2>2
  <2>3. CASE Clear(v)
    BY <1>3, <1>6, <2>3
  <2>4. CASE UNCHANGED store
    BY <1>3, <2>4 DEF store
  <2>5. QED
    BY <2>1, <2>2, <2>3, <2>4 DEF StoreStep
<1>8. \A u \in Operator : /\ DOMAIN ids'[u] = 1..Len(ids'[u])
                          /\ \A i \in 1..Len(ids'[u]) : ids'[u][i] \in Live
  BY <1>2, ElementOfSeq, LenProperties DEF StoreType
<1>9. QED
  BY <1>7, <1>8 DEF OnceListed, Lists, Known

(* A list without repetition is as long as it has elements. *)
LEMMA ListCounts ==
    ASSUME StoreType, OnceListed
    PROVE  ListMatchesStore
<1> SUFFICES ASSUME NEW v \in Operator
             PROVE  LET listed == {ids[v][i] : i \in DOMAIN ids[v]}
                        known == {a \in Live : live[v][a] # None} IN
                    /\ Cardinality(listed) = Len(ids[v]) /\ listed \subseteq known
                    /\ Len(ids[v]) = MaxListed \/ listed = known
  BY DEF ListMatchesStore
<1> DEFINE s == ids[v]
           n == Len(s)
           listed == {s[i] : i \in DOMAIN s}
<1>1. n \in Nat /\ DOMAIN s = 1..n /\ s \in [1..n -> listed]
  <2>1. s \in Seq(Live)
    BY DEF StoreType
  <2>2. n \in Nat /\ DOMAIN s = 1..n /\ s \in [1..n -> Live]
    BY <2>1, LenProperties
  <2>3. QED
    BY <2>2
<1>2. Lists(s, Known(v))
  BY OnceIsLists
<1>3. Cardinality(listed) = n
  <2>1. s \in Bijection(1..n, listed)
    BY <1>1, <1>2 DEF Lists, Bijection, Injection, Surjection, IsInjective
  <2>2. ExistsBijection(1..n, listed)
    BY <2>1 DEF ExistsBijection
  <2>3. IsFiniteSet(1..n) /\ Cardinality(1..n) = n
    BY <1>1, FS_Interval
  <2>4. QED
    BY <2>2, <2>3, FS_Bijection
<1>4. listed \subseteq Known(v)
  BY <1>1, <1>2 DEF Lists
<1>5. n = MaxListed \/ \A a \in Known(v) : \E i \in DOMAIN s : s[i] = a
  BY <1>1, <1>2 DEF Lists
<1>6. n = MaxListed \/ listed = Known(v)
  BY <1>4, <1>5
<1>7. QED
  BY <1>3, <1>4, <1>6 DEF Known

-----------------------------------------------------------------------------
(* The table, the query and the mutations keep their shape. *)
PageType ==
    /\ row \in [Stored -> Status] /\ applied \in [Operator -> Nat]
    /\ mode \in [Operator -> BOOLEAN]
    /\ list \in [Operator -> Answer] /\ fetch \in [Operator -> Answer]
    /\ due \in [Operator -> {"no", "yes", "again", "given up"}]
    /\ patch \in [Operator -> SUBSET Patch]
    /\ clicks \in 0..MaxClicks /\ mishaps \in 0..MaxMishaps

LEMMA TypeParts == TypeOK <=> StoreType /\ PageType
  BY DEF TypeOK, StoreType, PageType, Entry

LEMMA AnswerRecord ==
    ASSUME NEW r \in [Stored -> Status], NEW n \in Nat
    PROVE  [row |-> r, applied |-> n] \in Answer /\ None \in Answer
  BY DEF Answer

(* A page shows a status or nothing. *)
LEMMA ShownType ==
    ASSUME TypeOK, NEW v \in Operator, NEW a \in Alert
    PROVE  Shown(v, a) \in Status \cup {None}
<1>1. CASE mode[v]
  <2>1. \A i \in DOMAIN ids[v] : ids[v][i] \in Live
    <3>1. ids[v] \in Seq(Live)
      BY DEF TypeOK
    <3>2. QED
      BY <3>1, ElementOfSeq, LenProperties
  <2>2. \A b \in Live : live[v][b] \in Status \cup {None}
    BY DEF TypeOK
  <2>3. QED
    BY <1>1, <2>1, <2>2 DEF Shown
<1>2. CASE ~mode[v]
  <2>1. list[v] \in Answer
    BY DEF TypeOK
  <2>2. list[v] # None => list[v].row \in [Stored -> Status]
    BY <2>1 DEF Answer
  <2>3. QED
    BY <1>2, <2>2 DEF Shown
<1>3. QED
  BY <1>1, <1>2

LEMMA AnsweredType ==
    ASSUME TypeOK, NEW v \in Operator, NEW p \in patch[v], NEW answer \in {"ok", "error"},
           Answered(v, p, answer)
    PROVE  patch' \in [Operator -> SUBSET Patch]
<1>1. [p EXCEPT !.answer = answer] \in Patch
  BY PatchType
<1>2. QED
  BY <1>1 DEF Answered, TypeOK

LEMMA PageTypeNext ==
    ASSUME TypeOK, Next
    PROVE  PageType'
<1> USE DEF PageType, store, query
<1>p. PageType
  BY TypeParts
<1>v. PICK v \in Operator : Browser(v)
  BY DEF Next
<1>b. clicks \in 0..MaxClicks /\ mishaps \in 0..MaxMishaps
  BY <1>p
<1>m. Mishap => mishaps' \in 0..MaxMishaps
  <2> HIDE DEF PageType
  <2>1. QED
    BY <1>b, BoundsAssumption DEF Mishap
<1>c. Click => clicks' \in 0..MaxClicks
  <2> HIDE DEF PageType
  <2>1. QED
    BY <1>b, BoundsAssumption DEF Click
<1>n. None \in Answer
  BY DEF Answer
<1>1. CASE SimulatorReset(v) \/ \E a \in Live : AlertCreated(v, a)
  BY <1>1, <1>p, <1>m DEF SimulatorReset, AlertCreated
<1>2. CASE Fetch(v)
  <2>1. [row |-> row, applied |-> applied[v]] \in Answer
    BY <1>p, AnswerRecord
  <2>2. QED
    BY <1>2, <1>p, <2>1 DEF Fetch
<1>3. CASE FetchAnswer(v)
  BY <1>3, <1>p, <1>n DEF FetchAnswer
<1>4. CASE FetchError(v)
  BY <1>4, <1>p, <1>n, <1>m DEF FetchError
<1>5. CASE Toggle(v)
  BY <1>5, <1>p, <1>c DEF Toggle
<1>6. ASSUME NEW a \in Alert, NEW to \in Status, Act(v, a, to)  PROVE PageType'
  <2>1. Offered(Shown(v, a), to)
    BY <1>6 DEF Act
  <2>2. Shown(v, a) \in Status
    BY <2>1 DEF Offered, Status
  <2>3. clicks \in Nat
    <3> HIDE DEF PageType
    <3>1. QED
      BY <1>b, BoundsAssumption
  <2>4. [id |-> clicks, alert |-> a, to |-> to, seen |-> Shown(v, a), answer |-> None] \in Patch
    <3> DEFINE seen == Shown(v, a)
    <3>1. seen \in Status
      BY <2>2
    <3> HIDE DEF seen
    <3>2. [id |-> clicks, alert |-> a, to |-> to, seen |-> seen, answer |-> None] \in Patch
      BY <2>3, <3>1 DEF Patch
    <3>3. QED
      BY <3>2 DEF seen
  <2>5. patch' \in [Operator -> SUBSET Patch]
    BY <1>6, <1>p, <2>4 DEF Act
  <2>6. fetch' \in [Operator -> Answer] /\ due' \in [Operator -> {"no", "yes", "again", "given up"}]
    BY <1>6, <1>p, <1>n DEF Act
  <2>7. QED
    BY <1>6, <1>p, <1>c, <2>5, <2>6 DEF Act
<1>7. ASSUME NEW p \in patch[v], Server(v, p)  PROVE PageType'
  <2>1. p.to \in Status /\ p.alert \in Alert
    BY PatchType
  <2>2. patch' \in [Operator -> SUBSET Patch]
    <3>1. Answered(v, p, "ok") \/ Answered(v, p, "error")
      BY <1>7 DEF Server, ActSimulated, PatchApplied, PatchNotFound, PatchFailed
    <3>2. QED
      BY <3>1, AnsweredType
  <2>3. Write(v, p.alert, p.to) => row' \in [Stored -> Status] /\ applied' \in [Operator -> Nat]
    <3>1. row \in [Stored -> Status] /\ applied \in [Operator -> Nat]
      BY <1>p
    <3> HIDE DEF PageType
    <3>2. [row EXCEPT ![p.alert] = p.to] \in [Stored -> Status]
      BY <2>1, <3>1
    <3>3. [applied EXCEPT ![v] = @ + 1] \in [Operator -> Nat]
      BY <3>1
    <3>4. QED
      BY <3>2, <3>3 DEF Write
  <2>4. mishaps' \in 0..MaxMishaps
    BY <1>7, <1>p, <1>m DEF Server, ActSimulated, PatchApplied, PatchNotFound, PatchFailed
  <2>5. row' \in [Stored -> Status] /\ applied' \in [Operator -> Nat]
    BY <1>7, <1>p, <2>3 DEF Server, ActSimulated, PatchApplied, PatchNotFound, PatchFailed
  <2>6. UNCHANGED <<mode, list, fetch, due, clicks>>
    BY <1>7 DEF Server, ActSimulated, PatchApplied, PatchNotFound, PatchFailed
  <2>7. QED
    BY <1>p, <2>2, <2>4, <2>5, <2>6
<1>8. ASSUME NEW p \in patch[v], Settle(v, p)  PROVE PageType'
  BY <1>8, <1>p, <1>n DEF Settle, Settled, Invalidate
<1>9. QED
  BY <1>v, <1>1, <1>2, <1>3, <1>4, <1>5, <1>6, <1>7, <1>8 DEF Browser

-----------------------------------------------------------------------------
(* Who has acted stays in patch until the list is asked for again. *)
Current(v) ==
    /\ \A p \in patch[v] : Offered(p.seen, p.to)
    /\ patch[v] = {} /\ fetch[v] # None => fetch[v].applied = applied[v]
    /\ AtRest(v) /\ list[v] # None => list[v].applied = applied[v]

LEMMA CurrentAll ==
    (\A v \in Operator : Current(v)) <=> PatchesOffered /\ FetchCurrent /\ OwnChangesListed
  BY DEF Current, PatchesOffered, FetchCurrent, OwnChangesListed

(* A step of one operator leaves the variables of the others alone. *)
LEMMA OthersUntouched ==
    ASSUME TypeOK, NEW v \in Operator, Browser(v), NEW u \in Operator, u # v
    PROVE  /\ patch'[u] = patch[u] /\ fetch'[u] = fetch[u] /\ list'[u] = list[u]
           /\ due'[u] = due[u] /\ applied'[u] = applied[u]
<1> USE DEF store, query
<1>p. PageType
  BY TypeParts
<1>1. CASE \/ SimulatorReset(v) \/ Fetch(v) \/ FetchAnswer(v) \/ FetchError(v) \/ Toggle(v)
           \/ \E a \in Live : AlertCreated(v, a)
  BY <1>1, <1>p DEF PageType, SimulatorReset, AlertCreated, Fetch, FetchAnswer, FetchError, Toggle
<1>2. CASE \E a \in Alert, to \in Status : Act(v, a, to)
  BY <1>2, <1>p DEF PageType, Act
<1>3. ASSUME NEW p \in patch[v], Settle(v, p)
      PROVE  /\ patch'[u] = patch[u] /\ fetch'[u] = fetch[u] /\ list'[u] = list[u]
             /\ due'[u] = due[u] /\ applied'[u] = applied[u]
  BY <1>3, <1>p DEF PageType, Settle, Settled, Invalidate
<1>4. ASSUME NEW p \in patch[v], Server(v, p)
      PROVE  /\ patch'[u] = patch[u] /\ fetch'[u] = fetch[u] /\ list'[u] = list[u]
             /\ due'[u] = due[u] /\ applied'[u] = applied[u]
  <2>1. Answered(v, p, "ok") \/ Answered(v, p, "error")
    BY <1>4 DEF Server, ActSimulated, PatchApplied, PatchNotFound, PatchFailed
  <2>2. patch'[u] = patch[u]
    BY <1>p, <2>1 DEF Answered, PageType
  <2>3. Write(v, p.alert, p.to) => applied'[u] = applied[u]
    BY <1>p DEF Write, PageType
  <2>4. QED
    BY <1>4, <2>2, <2>3 DEF Server, ActSimulated, PatchApplied, PatchNotFound, PatchFailed
<1>5. QED
  BY <1>1, <1>2, <1>3, <1>4 DEF Browser

LEMMA CurrentStep ==
    ASSUME TypeOK, NEW v \in Operator, Browser(v), Current(v)
    PROVE  Current(v)'
<1> USE DEF store, query, Current, AtRest
<1>p. PageType
  BY TypeParts
<1>1. CASE SimulatorReset(v) \/ Toggle(v) \/ \E a \in Live : AlertCreated(v, a)
  BY <1>1 DEF SimulatorReset, AlertCreated, Toggle
<1>2. CASE Fetch(v)
  <2>1. fetch'[v] = [row |-> row, applied |-> applied[v]]
    BY <1>2, <1>p DEF Fetch, PageType
  <2>2. QED
    BY <1>2, <2>1 DEF Fetch
<1>3. CASE FetchAnswer(v)
  BY <1>3, <1>p DEF FetchAnswer, PageType
<1>4. CASE FetchError(v)
  BY <1>4, <1>p DEF FetchError, PageType
<1>5. ASSUME NEW a \in Alert, NEW to \in Status, Act(v, a, to)  PROVE Current(v)'
  <2> DEFINE seen == Shown(v, a)
             p == [id |-> clicks, alert |-> a, to |-> to, seen |-> seen, answer |-> None]
  <2>1. Offered(seen, to)
    BY <1>5 DEF Act
  <2>2. patch'[v] = patch[v] \cup {p}
    BY <1>5, <1>p DEF Act, PageType
  <2> HIDE DEF seen
  <2>3. p.seen = seen /\ p.to = to
    OBVIOUS
  <2> HIDE DEF p
  <2>4. patch'[v] # {} /\ \A q \in patch'[v] : Offered(q.seen, q.to)
    BY <2>1, <2>2, <2>3
  <2>5. QED
    BY <2>4
<1>6. ASSUME NEW p \in patch[v], Server(v, p)  PROVE Current(v)'
  <2>1. PICK answer \in {"ok", "error"} : Answered(v, p, answer)
    BY <1>6 DEF Server, ActSimulated, PatchApplied, PatchNotFound, PatchFailed
  <2> DEFINE q == [p EXCEPT !.answer = answer]
  <2>2. patch'[v] = (patch[v] \ {p}) \cup {q}
    BY <1>p, <2>1 DEF Answered, PageType
  <2>3. q.seen = p.seen /\ q.to = p.to
    <3>1. p \in Patch
      BY PatchType
    <3>2. QED
      BY <3>1 DEF Patch
  <2> HIDE DEF q
  <2>4. patch'[v] # {} /\ \A r \in patch'[v] : Offered(r.seen, r.to)
    BY <2>2, <2>3
  <2>5. QED
    BY <2>4
<1>7. ASSUME NEW p \in patch[v], Settle(v, p)  PROVE Current(v)'
  <2>1. fetch'[v] = None /\ due'[v] = "yes" /\ patch'[v] = patch[v] \ {p}
    BY <1>7, <1>p DEF Settle, Settled, Invalidate, PageType
  <2>2. QED
    BY <2>1
<1>8. QED
  BY <1>1, <1>2, <1>3, <1>4, <1>5, <1>6, <1>7 DEF Browser

-----------------------------------------------------------------------------
IInv ==
    /\ TypeOK /\ HistoryIsTimeline /\ OnceListed
    /\ PatchesOffered /\ FetchCurrent /\ OwnChangesListed

LEMMA InvInit == Init => IInv
<1> SUFFICES ASSUME Init PROVE IInv
  OBVIOUS
<1> USE DEF Init
<1>1. <<>> \in Seq(Live) /\ <<>> \in Seq(Entry) /\ Len(<<>>) = 0 /\ Len(<<>>) <= MaxListed
  BY EmptySeq, BoundsAssumption
<1>2. StoreType
  BY <1>1 DEF StoreType, Unlisted, NoHistory
<1>3. PageType
  BY BoundsAssumption DEF PageType, Status, Answer
<1>4. HistoryIsTimeline
  BY DEF HistoryIsTimeline, Timeline, Unlisted, NoHistory
<1>5. OnceListed
  <2>1. \A v \in Operator : DOMAIN ids[v] = {} /\ \A a \in Live : live[v][a] = None
    BY DEF Unlisted
  <2>2. QED
    BY <2>1 DEF OnceListed
<1>6. PatchesOffered /\ FetchCurrent /\ OwnChangesListed
  BY DEF PatchesOffered, FetchCurrent, OwnChangesListed
<1>7. QED
  BY <1>2, <1>3, <1>4, <1>5, <1>6, TypeParts DEF IInv

LEMMA InvNext == IInv /\ [Next]_vars => IInv'
<1> SUFFICES ASSUME IInv, [Next]_vars PROVE IInv'
  OBVIOUS
<1>1. CASE UNCHANGED vars
  <2>1. TypeOK' /\ HistoryIsTimeline' /\ OnceListed'
    BY <1>1 DEF vars, store, query, IInv, TypeOK, HistoryIsTimeline, OnceListed
  <2>2. PatchesOffered' /\ FetchCurrent' /\ OwnChangesListed'
    BY <1>1 DEF vars, query, IInv, PatchesOffered, FetchCurrent, OwnChangesListed, AtRest
  <2>3. QED
    BY <2>1, <2>2 DEF IInv
<1>2. CASE Next
  <2>t. TypeOK /\ StoreType
    BY TypesOfStore DEF IInv
  <2>1. StoreType' /\ HistoryIsTimeline' /\ OnceListed'
    <3>1. PICK v \in Operator : StoreStep(v)
      BY <1>2, <2>t, NextStoreStep
    <3>2. QED
      BY <2>t, <3>1, StoreStepType, TimelineStep, OnceListedStep DEF IInv
  <2>2. PageType'
    BY <1>2, <2>t, PageTypeNext
  <2>3. TypeOK'
    BY <2>1, <2>2 DEF TypeOK, StoreType, PageType, Entry
  <2>4. PICK v \in Operator : Browser(v)
    BY <1>2 DEF Next
  <2>5. \A u \in Operator : Current(u)
    BY CurrentAll DEF IInv
  <2>6. Current(v)'
    BY <2>t, <2>4, <2>5, CurrentStep
  <2>7. ASSUME NEW u \in Operator, u # v  PROVE Current(u)'
    <3>1. /\ patch'[u] = patch[u] /\ fetch'[u] = fetch[u] /\ list'[u] = list[u]
          /\ due'[u] = due[u] /\ applied'[u] = applied[u]
      BY <2>t, <2>4, <2>7, OthersUntouched
    <3>2. QED
      BY <2>5, <3>1 DEF Current, AtRest
  <2>8. PatchesOffered' /\ FetchCurrent' /\ OwnChangesListed'
    BY <2>6, <2>7 DEF Current, PatchesOffered, FetchCurrent, OwnChangesListed
  <2>9. QED
    BY <2>1, <2>3, <2>8 DEF IInv
<1>3. QED
  BY <1>1, <1>2

(* The strengthening is inductive. *)
THEOREM Inductive == Spec => []IInv
<1>1. Init => IInv
  BY InvInit
<1>2. IInv /\ [Next]_vars => IInv'
  BY InvNext
<1>3. QED
  BY <1>1, <1>2, PTL DEF Spec

(* Every variable of the browsers, the table and the requests keeps its    *)
(* shape, and the store's list its length, whatever is emitted and clicked. *)
THEOREM TypeCorrect == Spec => []TypeOK
BY Inductive, PTL DEF IInv

(* addAlert, the two status changes and clearAlerts keep the timeline of   *)
(* every alert in step with its status, in every browser.                  *)
THEOREM TimelineAccounts == Spec => []HistoryIsTimeline
BY Inductive, PTL DEF IInv

(* The capped list of the store and its map of alerts never disagree, for  *)
(* a list of any length.                                                   *)
THEOREM ListMatches == Spec => []ListMatchesStore
<1>1. IInv => ListMatchesStore
  BY TypesOfStore, ListCounts DEF IInv
<1>2. QED
  BY <1>1, Inductive, PTL

(* An operator whose page is at rest reads the effect of every click of    *)
(* theirs that the table took, lost answers included.                      *)
THEOREM OwnChangesRead == Spec => []OwnChangesListed
BY Inductive, PTL DEF IInv

-----------------------------------------------------------------------------
(* A row changes only by a PATCH that is being answered. *)
LEMMA WrittenByPatch ==
    ASSUME TypeOK, NEW v \in Operator, Browser(v), NEW a \in Stored, row'[a] # row[a]
    PROVE  \E p \in patch[v] \ patch'[v] : p.alert = a /\ p.to = row'[a]
<1>p. PageType
  BY TypeParts
<1>1. PICK p \in patch[v] : Server(v, p)
  BY DEF Browser, SimulatorReset, AlertCreated, Fetch, FetchAnswer, FetchError, Toggle, Act,
         Settle, Settled
<1>2. PICK answer \in {"ok", "error"} :
          p.answer = None /\ Answered(v, p, answer) /\ Write(v, p.alert, p.to)
  BY <1>1 DEF Server, ActSimulated, PatchApplied, PatchNotFound, PatchFailed
<1>3. p.alert = a /\ p.to = row'[a]
  BY <1>2, <1>p DEF Write, PageType
<1> DEFINE q == [p EXCEPT !.answer = answer]
<1>4. patch'[v] = (patch[v] \ {p}) \cup {q}
  BY <1>p, <1>2 DEF Answered, PageType
<1>5. q # p
  <2>1. p \in Patch
    BY PatchType
  <2>2. q.answer = answer
    BY <2>1 DEF Patch
  <2>3. answer # None
    BY NoneAssumption
  <2>4. QED
    BY <1>2, <2>2, <2>3
<1>6. QED
  BY <1>3, <1>4, <1>5

(* A resolved alert is only ever reopened by an operator whose page did    *)
(* not show it resolved: the buttons see to it, the route does not.        *)
THEOREM ReopenedByUnseeing == Spec => ReopenedUnseen
<1>1. ASSUME IInv, [Next]_vars, NEW a \in Stored, row[a] = "resolved", row'[a] # "resolved"
      PROVE  \E v \in Operator : \E p \in patch[v] \ patch'[v] :
                p.alert = a /\ p.seen # "resolved" /\ p.to = row'[a]
  <2>1. PICK v \in Operator : Browser(v)
    BY <1>1 DEF Next, vars
  <2>2. PICK p \in patch[v] \ patch'[v] : p.alert = a /\ p.to = row'[a]
    BY <1>1, <2>1, WrittenByPatch DEF IInv
  <2>3. Offered(p.seen, p.to)
    BY <1>1 DEF IInv, PatchesOffered
  <2>4. p.seen # "resolved"
    BY <1>1, <2>2, <2>3 DEF Offered
  <2>5. QED
    BY <2>2, <2>4
<1>2. IInv /\ [Next]_vars =>
      [\A a \in Stored :
          row[a] = "resolved" /\ row'[a] # "resolved" =>
             \E v \in Operator : \E p \in patch[v] \ patch'[v] :
                p.alert = a /\ p.seen # "resolved" /\ p.to = row'[a]
      ]_vars
  BY <1>1
<1>3. QED
  BY <1>2, Inductive, PTL DEF Spec, ReopenedUnseen

=============================================================================
