--------------------------- MODULE AccountsProofs ---------------------------
(***************************************************************************)
(* The properties of Accounts, for any users, tokens and requests.         *)
(*                                                                         *)
(* They are inductive together but for one fact: a user has finitely many  *)
(* live links, without which they cannot be counted.                       *)
(***************************************************************************)
EXTENDS Accounts, FiniteSetTheorems, TLAPS

FiniteLive == \A u \in User : IsFiniteSet(Live(u))

IInv == TypeOK /\ FiniteLive /\ FewLiveLinks /\ LinkIsSpent

USE DEF At, Becomes

-----------------------------------------------------------------------------
LEMMA IdleRequest == Idle \in Request
BY DEF Request

(* A request under way has the fields of its step. *)
LEMMA Fields ==
    ASSUME TypeOK, NEW h \in Handler
    PROVE  /\ handler[h].step \in {"issue", "setup", "disable", "enable"} => handler[h].user \in User
           /\ At(h, "reset") => handler[h].link \in Token
           /\ At(h, "enable") => handler[h].checked \in Secret
<1>1. handler[h] \in Request
  BY DEF TypeOK
<1>2. QED
  BY <1>1 DEF Request, Idle

LEMMA TypeInit == Init => TypeOK
BY IdleRequest, AbortAssumption DEF Init, TypeOK

LEMMA TypeNext == TypeOK /\ [Next]_vars => TypeOK'
<1>. SUFFICES ASSUME TypeOK, [Next]_vars PROVE TypeOK'
  OBVIOUS
<1>1. ASSUME NEW h \in Handler, NEW u \in User, Invalidate(h, u) PROVE TypeOK'
  <2>1. [step |-> "issue", user |-> u] \in Request
    BY DEF Request
  <2>2. QED
    BY <1>1, <2>1 DEF Invalidate, Retired, TypeOK, mfa
<1>2. ASSUME NEW h \in Handler, NEW u \in User, VerifyRead(h, u) PROVE TypeOK'
  <2>1. secret[u] \in Secret
    BY <1>2 DEF VerifyRead, TypeOK
  <2>2. [step |-> "enable", user |-> u, checked |-> secret[u]] \in Request
    BY <2>1 DEF Request
  <2>3. QED
    BY <1>2, <2>2 DEF VerifyRead, TypeOK, mfa, links
<1>3. ASSUME NEW h \in Handler, NEW u \in User, NEW step, CompareRead(h, u, step) PROVE TypeOK'
  <2>1. [step |-> step, user |-> u] \in Request
    BY <1>3 DEF CompareRead, Request
  <2>2. QED
    BY <1>3, <2>1 DEF CompareRead, TypeOK, mfa, links
<1>4. ASSUME NEW h \in Handler, NEW t \in Token, ResetRead(h, t) PROVE TypeOK'
  <2>1. [step |-> "reset", link |-> t] \in Request
    BY DEF Request
  <2>2. QED
    BY <1>4, <2>1 DEF ResetRead, TypeOK, mfa, links
<1>5. ASSUME NEW h \in Handler, NEW t \in Token, Issue(h, t) PROVE TypeOK'
  BY <1>5, IdleRequest DEF Issue, TypeOK, mfa
<1>6. ASSUME NEW h \in Handler, Reset(h) PROVE TypeOK'
  <2>1. handler[h].link \in Token
    BY <1>6, Fields DEF Reset
  <2>2. QED
    BY <1>6, <2>1, IdleRequest DEF Reset, Retired, TypeOK, mfa
<1>7. ASSUME NEW h \in Handler, NEW s \in Secret, Setup(h, s) PROVE TypeOK'
  <2>1. handler[h].user \in User
    BY <1>7, Fields DEF Setup
  <2>2. QED
    BY <1>7, <2>1, IdleRequest DEF Setup, TypeOK, links
<1>8. ASSUME NEW h \in Handler, Disable(h) PROVE TypeOK'
  <2>1. handler[h].user \in User
    BY <1>8, Fields DEF Disable
  <2>2. QED
    BY <1>8, <2>1, IdleRequest DEF Disable, TypeOK, links
<1>9. ASSUME NEW h \in Handler, Enable(h) PROVE TypeOK'
  <2>1. handler[h].user \in User
    BY <1>9, Fields DEF Enable
  <2>2. QED
    BY <1>9, <2>1, IdleRequest DEF Enable, TypeOK, links
<1>10. ASSUME NEW h \in Handler, Abort(h) PROVE TypeOK'
  BY <1>10, IdleRequest, AbortAssumption DEF Abort, TypeOK, links, mfa
<1>11. ASSUME NEW t \in Token, Expire(t) PROVE TypeOK'
  BY <1>11 DEF Expire, TypeOK, mfa
<1>12. CASE UNCHANGED vars
  BY <1>12 DEF vars, links, mfa, TypeOK
<1>13. QED
  BY <1>1, <1>2, <1>3, <1>4, <1>5, <1>6, <1>7, <1>8, <1>9, <1>10, <1>11, <1>12
     DEF Next, Arrival, Statement

-----------------------------------------------------------------------------
(* What is counted is finite. *)
LEMMA RequestsCounted ==
    /\ Cardinality(Handler) \in Nat
    /\ \A S : S \subseteq Handler =>
          /\ IsFiniteSet(S) /\ Cardinality(S) \in Nat
          /\ Cardinality(S) <= Cardinality(Handler)
BY HandlerAssumption, FS_Subset, FS_CardinalityType

(* The count of a user's links does not grow when both sets shrink. *)
LEMMA FewerLinks ==
    ASSUME IInv, NEW u \in User,
           NEW L, L \subseteq Live(u), NEW I, I \subseteq Issuing(u)
    PROVE  IsFiniteSet(L) /\ Cardinality(L) + Cardinality(I) <= Cardinality(Handler)
<1>1. IsFiniteSet(Live(u)) /\ Cardinality(Live(u)) \in Nat
  BY FS_CardinalityType DEF IInv, FiniteLive
<1>2. IsFiniteSet(L) /\ Cardinality(L) \in Nat /\ Cardinality(L) <= Cardinality(Live(u))
  BY <1>1, FS_Subset, FS_CardinalityType
<1>3. Issuing(u) \subseteq Handler /\ I \subseteq Handler
  BY DEF Issuing
<1>4. IsFiniteSet(Issuing(u)) /\ Cardinality(Issuing(u)) \in Nat /\ Cardinality(I) \in Nat
  BY <1>3, RequestsCounted
<1>5. Cardinality(I) <= Cardinality(Issuing(u))
  BY <1>4, FS_Subset
<1>6. Cardinality(Live(u)) + Cardinality(Issuing(u)) <= Cardinality(Handler)
  BY DEF IInv, FewLiveLinks
<1>7. QED
  BY <1>1, <1>2, <1>4, <1>5, <1>6, RequestsCounted

(* One request fewer issues a link, one more link is live. *)
LEMMA OneMoreLink ==
    ASSUME IInv, NEW u \in User, NEW t, NEW h \in Issuing(u),
           NEW L, L \subseteq Live(u) \cup {t}, NEW I, I \subseteq Issuing(u) \ {h}
    PROVE  IsFiniteSet(L) /\ Cardinality(L) + Cardinality(I) <= Cardinality(Handler)
<1>1. IsFiniteSet(Live(u)) /\ Cardinality(Live(u)) \in Nat
  BY FS_CardinalityType DEF IInv, FiniteLive
<1>2. /\ IsFiniteSet(Live(u) \cup {t}) /\ Cardinality(Live(u) \cup {t}) \in Nat
      /\ Cardinality(Live(u) \cup {t}) <= Cardinality(Live(u)) + 1
  BY <1>1, FS_AddElement
<1>3. IsFiniteSet(L) /\ Cardinality(L) \in Nat /\ Cardinality(L) <= Cardinality(Live(u) \cup {t})
  BY <1>2, FS_Subset, FS_CardinalityType
<1>4. Issuing(u) \subseteq Handler /\ I \subseteq Handler
  BY DEF Issuing
<1>5. IsFiniteSet(Issuing(u)) /\ Cardinality(Issuing(u)) \in Nat /\ Cardinality(I) \in Nat
  BY <1>4, RequestsCounted
<1>6. IsFiniteSet(Issuing(u) \ {h}) /\ Cardinality(Issuing(u) \ {h}) = Cardinality(Issuing(u)) - 1
  BY <1>5, FS_RemoveElement
<1>7. Cardinality(I) <= Cardinality(Issuing(u)) - 1
  BY <1>6, FS_Subset
<1>8. Cardinality(Live(u)) + Cardinality(Issuing(u)) <= Cardinality(Handler)
  BY DEF IInv, FewLiveLinks
<1>9. QED
  BY <1>1, <1>2, <1>3, <1>5, <1>7, <1>8, RequestsCounted

LEMMA FewLinksNext ==
    ASSUME IInv, [Next]_vars
    PROVE  (FiniteLive /\ FewLiveLinks)'
<1>. SUFFICES ASSUME NEW u \in User
              PROVE  IsFiniteSet(Live(u)') /\
                     Cardinality(Live(u)') + Cardinality(Issuing(u)') <= Cardinality(Handler)
  BY DEF FiniteLive, FewLiveLinks
<1>. DEFINE Goal == /\ IsFiniteSet(Live(u)')
                    /\ Cardinality(Live(u)') + Cardinality(Issuing(u)') <= Cardinality(Handler)
<1>t. TypeOK
  BY DEF IInv
<1>1. ASSUME NEW h \in Handler, Invalidate(h, u) PROVE Goal
  <2>1. Live(u)' = {}
    BY <1>1, <1>t DEF Invalidate, Retired, Live, TypeOK
  <2>2. Issuing(u)' \subseteq Handler
    BY DEF Issuing
  <2>3. QED
    BY <2>1, <2>2, FS_EmptySet, RequestsCounted
<1>2. ASSUME NEW h \in Handler, NEW v \in User \ {u}, Invalidate(h, v) PROVE Goal
  <2>1. Live(u)' \subseteq Live(u)
    BY <1>2, <1>t DEF Invalidate, Retired, Live, TypeOK
  <2>2. Issuing(u)' \subseteq Issuing(u)
    BY <1>2, <1>t DEF Invalidate, Issuing, TypeOK
  <2>3. QED
    BY <2>1, <2>2, FewerLinks
<1>3. ASSUME NEW h \in Handler, NEW t \in Token, Issue(h, t), h \in Issuing(u) PROVE Goal
  <2>1. Live(u)' \subseteq Live(u) \cup {t}
    BY <1>3, <1>t DEF Issue, Live, TypeOK
  <2>2. Issuing(u)' \subseteq Issuing(u) \ {h}
    BY <1>3, <1>t DEF Issue, Issuing, TypeOK, Idle
  <2>3. QED
    BY <1>3, <2>1, <2>2, OneMoreLink
<1>4. ASSUME NEW h \in Handler, NEW t \in Token, Issue(h, t), h \notin Issuing(u) PROVE Goal
  <2>1. Live(u)' \subseteq Live(u)
    BY <1>4, <1>t DEF Issue, Live, Issuing, TypeOK
  <2>2. Issuing(u)' \subseteq Issuing(u)
    BY <1>4, <1>t DEF Issue, Issuing, TypeOK, Idle
  <2>3. QED
    BY <2>1, <2>2, FewerLinks
<1>5. ASSUME NEW h \in Handler, Reset(h) PROVE Goal
  <2>1. Live(u)' \subseteq Live(u)
    BY <1>5, <1>t DEF Reset, Retired, Live, TypeOK
  <2>2. Issuing(u)' \subseteq Issuing(u)
    BY <1>5, <1>t DEF Reset, Issuing, TypeOK, Idle
  <2>3. QED
    BY <2>1, <2>2, FewerLinks
<1>6. ASSUME NEW t \in Token, Expire(t) PROVE Goal
  <2>1. Live(u)' \subseteq Live(u) /\ Issuing(u)' \subseteq Issuing(u)
    BY <1>6, <1>t DEF Expire, Live, Issuing, TypeOK
  <2>2. QED
    BY <2>1, FewerLinks
<1>7. ASSUME NEW h \in Handler, UNCHANGED links, Becomes(h, handler'[h]),
             handler'[h].step # "issue"
      PROVE  Goal
  <2>1. Live(u)' \subseteq Live(u)
    BY <1>7 DEF links, Live
  <2>2. Issuing(u)' \subseteq Issuing(u)
    BY <1>7, <1>t DEF Issuing, TypeOK
  <2>3. QED
    BY <2>1, <2>2, FewerLinks
<1>8. CASE UNCHANGED vars
  <2>1. Live(u)' \subseteq Live(u) /\ Issuing(u)' \subseteq Issuing(u)
    BY <1>8 DEF vars, links, Live, Issuing
  <2>2. QED
    BY <2>1, FewerLinks
<1>9. ASSUME NEW h \in Handler,
             \/ \E v \in User : VerifyRead(h, v)
             \/ \E v \in User, step \in {"setup", "disable"} : CompareRead(h, v, step)
             \/ \E t \in Token : ResetRead(h, t)
             \/ \E s \in Secret : Setup(h, s)
             \/ Disable(h) \/ Enable(h) \/ Abort(h)
      PROVE  Goal
  <2>1. UNCHANGED links
    BY <1>9 DEF VerifyRead, CompareRead, ResetRead, Setup, Disable, Enable, Abort
  <2>2. Becomes(h, handler'[h])
    BY <1>9, <1>t DEF VerifyRead, CompareRead, ResetRead, Setup, Disable, Enable, Abort, TypeOK
  <2>3. handler'[h].step # "issue"
    BY <1>9, <1>t
       DEF VerifyRead, CompareRead, ResetRead, Setup, Disable, Enable, Abort, Idle, TypeOK
  <2>4. QED
    BY <2>1, <2>2, <2>3, <1>7
<1>10. QED
  BY <1>1, <1>2, <1>3, <1>4, <1>5, <1>6, <1>8, <1>9 DEF Next, Arrival, Statement

-----------------------------------------------------------------------------
(* No request more uses a link that was not used. *)
LEMMA FewerUses ==
    ASSUME IInv, NEW t \in Token, NEW U, U \subseteq Using(t)
    PROVE  resets[t] + Cardinality(U) <= Cardinality(Handler)
<1>1. Using(t) \subseteq Handler /\ U \subseteq Handler
  BY DEF Using
<1>2. IsFiniteSet(Using(t)) /\ Cardinality(Using(t)) \in Nat /\ Cardinality(U) \in Nat
  BY <1>1, RequestsCounted
<1>3. Cardinality(U) <= Cardinality(Using(t))
  BY <1>2, FS_Subset
<1>4. resets[t] \in Nat /\ resets[t] + Cardinality(Using(t)) <= Cardinality(Handler)
  BY DEF IInv, TypeOK, LinkIsSpent
<1>5. QED
  BY <1>2, <1>3, <1>4, RequestsCounted

(* One use more, one request fewer that uses it. *)
LEMMA OneMoreUse ==
    ASSUME IInv, NEW t \in Token, NEW h \in Using(t), NEW U, U \subseteq Using(t) \ {h}
    PROVE  resets[t] + 1 + Cardinality(U) <= Cardinality(Handler)
<1>1. Using(t) \subseteq Handler /\ U \subseteq Handler
  BY DEF Using
<1>2. IsFiniteSet(Using(t)) /\ Cardinality(Using(t)) \in Nat /\ Cardinality(U) \in Nat
  BY <1>1, RequestsCounted
<1>3. IsFiniteSet(Using(t) \ {h}) /\ Cardinality(Using(t) \ {h}) = Cardinality(Using(t)) - 1
  BY <1>2, FS_RemoveElement
<1>4. Cardinality(U) <= Cardinality(Using(t)) - 1
  BY <1>3, FS_Subset
<1>5. resets[t] \in Nat /\ resets[t] + Cardinality(Using(t)) <= Cardinality(Handler)
  BY DEF IInv, TypeOK, LinkIsSpent
<1>6. QED
  BY <1>2, <1>4, <1>5, RequestsCounted

LEMMA SpentNext ==
    ASSUME IInv, [Next]_vars
    PROVE  LinkIsSpent'
<1>. SUFFICES ASSUME NEW t \in Token
              PROVE  /\ resets'[t] > 0 => token'[t] = "used"
                     /\ resets'[t] + Cardinality(Using(t)') <= Cardinality(Handler)
  BY DEF LinkIsSpent
<1>. DEFINE Goal == /\ resets'[t] > 0 => token'[t] = "used"
                    /\ resets'[t] + Cardinality(Using(t)') <= Cardinality(Handler)
<1>t. TypeOK /\ (resets[t] > 0 => token[t] = "used")
  BY DEF IInv, LinkIsSpent
<1>1. ASSUME NEW h \in Handler, ResetRead(h, t) PROVE Goal
  <2>1. resets[t] = 0 /\ resets' = resets /\ token' = token
    BY <1>1, <1>t DEF ResetRead, TypeOK, links
  <2>2. Using(t)' \subseteq Handler
    BY DEF Using
  <2>3. QED
    BY <2>1, <2>2, <1>t, RequestsCounted
<1>2. ASSUME NEW h \in Handler, Reset(h), handler[h].link = t PROVE Goal
  <2>1. resets'[t] = resets[t] + 1 /\ token'[t] = "used"
    BY <1>2, <1>t DEF Reset, Retired, TypeOK
  <2>2. h \in Using(t) /\ Using(t)' \subseteq Using(t) \ {h}
    BY <1>2, <1>t DEF Reset, Using, TypeOK, Idle
  <2>3. QED
    BY <2>1, <2>2, OneMoreUse
<1>3. ASSUME NEW h \in Handler, Reset(h), handler[h].link # t PROVE Goal
  <2>1. resets'[t] = resets[t] /\ (token[t] = "used" => token'[t] = "used")
    BY <1>3, <1>t DEF Reset, Retired, Live, TypeOK
  <2>2. Using(t)' \subseteq Using(t)
    BY <1>3, <1>t DEF Reset, Using, TypeOK, Idle
  <2>3. QED
    BY <2>1, <2>2, <1>t, FewerUses
<1>4. ASSUME resets' = resets, token[t] = "used" => token'[t] = "used",
             Using(t)' \subseteq Using(t)
      PROVE  Goal
  BY <1>4, <1>t, FewerUses
<1>5. ASSUME NEW h \in Handler, NEW u \in User, Invalidate(h, u) PROVE Goal
  <2>1. resets' = resets /\ (token[t] = "used" => token'[t] = "used")
    BY <1>5 DEF Invalidate, Retired
  <2>2. Using(t)' \subseteq Using(t)
    BY <1>5, <1>t DEF Invalidate, Using, TypeOK
  <2>3. QED
    BY <2>1, <2>2, <1>4
<1>6. ASSUME NEW h \in Handler, NEW s \in Token, Issue(h, s) PROVE Goal
  <2>1. resets' = resets /\ (token[t] = "used" => token'[t] = "used")
    BY <1>6, <1>t DEF Issue, TypeOK
  <2>2. Using(t)' \subseteq Using(t)
    BY <1>6, <1>t DEF Issue, Using, TypeOK, Idle
  <2>3. QED
    BY <2>1, <2>2, <1>4
<1>7. ASSUME NEW s \in Token, Expire(s) PROVE Goal
  <2>1. resets' = resets /\ (token[t] = "used" => token'[t] = "used")
    BY <1>7, <1>t DEF Expire, TypeOK
  <2>2. Using(t)' \subseteq Using(t)
    BY <1>7 DEF Expire, Using
  <2>3. QED
    BY <2>1, <2>2, <1>4
<1>8. ASSUME NEW h \in Handler,
             \/ \E v \in User : VerifyRead(h, v)
             \/ \E v \in User, step \in {"setup", "disable"} : CompareRead(h, v, step)
             \/ \E s \in Token \ {t} : ResetRead(h, s)
             \/ \E s \in Secret : Setup(h, s)
             \/ Disable(h) \/ Enable(h) \/ Abort(h)
      PROVE  Goal
  <2>1. resets' = resets /\ token' = token
    BY <1>8 DEF VerifyRead, CompareRead, ResetRead, Setup, Disable, Enable, Abort, links
  <2>2. Becomes(h, handler'[h])
    BY <1>8, <1>t DEF VerifyRead, CompareRead, ResetRead, Setup, Disable, Enable, Abort, TypeOK
  <2>3. ~(handler'[h].step = "reset" /\ handler'[h].link = t)
    BY <1>8, <1>t
       DEF VerifyRead, CompareRead, ResetRead, Setup, Disable, Enable, Abort, Idle, TypeOK
  <2>4. Using(t)' \subseteq Using(t)
    BY <2>2, <2>3, <1>t DEF Using, TypeOK
  <2>5. QED
    BY <2>1, <2>4, <1>4
<1>9. CASE UNCHANGED vars
  <2>1. resets' = resets /\ token' = token /\ Using(t)' \subseteq Using(t)
    BY <1>9 DEF vars, links, Using
  <2>2. QED
    BY <2>1, <1>4
<1>10. QED
  BY <1>1, <1>2, <1>3, <1>5, <1>6, <1>7, <1>8, <1>9 DEF Next, Arrival, Statement

-----------------------------------------------------------------------------
LEMMA InvInit == Init => IInv
<1>. SUFFICES ASSUME Init PROVE IInv
  OBVIOUS
<1>1. \A u \in User : Live(u) = {} /\ Issuing(u) = {}
  BY DEF Init, Live, Issuing, Idle
<1>2. \A t \in Token : Using(t) = {} /\ resets[t] = 0
  BY DEF Init, Using, Idle
<1>3. QED
  BY <1>1, <1>2, TypeInit, RequestsCounted, FS_EmptySet
     DEF IInv, FiniteLive, FewLiveLinks, LinkIsSpent

(* The invariant is inductive. *)
THEOREM Inductive == Spec => []IInv
<1>1. IInv /\ [Next]_vars => IInv'
  BY TypeNext, FewLinksNext, SpentNext DEF IInv
<1>2. QED
  BY <1>1, InvInit, PTL DEF Spec

(* Type correctness of the accounts, their links and the requests. *)
THEOREM TypeCorrect == Spec => []TypeOK
BY Inductive, PTL DEF IInv

(* Overlapping requests of POST /forgot-password leave a user no more live *)
(* links than there are requests.                                          *)
THEOREM LiveLinksFew == Spec => []FewLiveLinks
BY Inductive, PTL DEF IInv

(* POST /reset-password: a link sets a password once, or once for each of  *)
(* the requests that found it live before the first did.                   *)
THEOREM LinkSpent == Spec => []LinkIsSpent
BY Inductive, PTL DEF IInv

(* Only a POST /mfa/verify whose secret was replaced or cleared meanwhile  *)
(* leaves MFA enabled without a secret.                                    *)
THEOREM OnlyOvertakenLock == Spec => OnlyOvertakenLocks
<1>1. ASSUME TypeOK, Next PROVE LocksOvertaken
  <2>. SUFFICES ASSUME NEW u \in User, ~Locked(u), Locked(u)' PROVE Overtaken(u)
    BY DEF LocksOvertaken
  <2>1. ASSUME NEW h \in Handler, Enable(h) PROVE Overtaken(u)
    <3>1. handler[h].user = u /\ secret[u] = NoSecret
      BY <2>1, <1>1 DEF Enable, Locked, TypeOK
    <3>2. handler[h].checked # secret[u]
      BY <2>1, <1>1, <3>1, Fields, SecretAssumption DEF Enable
    <3>3. QED
      BY <2>1, <1>1, <3>1, <3>2 DEF Enable, TypeOK, Overtaken
  <2>2. ASSUME NEW h \in Handler, NEW s \in Secret, Setup(h, s) PROVE FALSE
    BY <2>2, <1>1, SecretAssumption DEF Setup, Locked, TypeOK
  <2>3. ASSUME NEW h \in Handler, Disable(h) PROVE FALSE
    BY <2>3, <1>1 DEF Disable, Locked, TypeOK
  <2>4. CASE UNCHANGED mfa
    BY <2>4 DEF mfa, Locked
  <2>5. QED
    BY <1>1, <2>1, <2>2, <2>3, <2>4
       DEF Next, Arrival, Statement, Invalidate, VerifyRead, CompareRead, ResetRead,
           Issue, Reset, Abort, Expire
<1>2. TypeOK /\ [Next]_vars => [LocksOvertaken]_vars
  BY <1>1
<1>3. QED
  BY <1>2, TypeCorrect, PTL DEF Spec, OnlyOvertakenLocks

=============================================================================
