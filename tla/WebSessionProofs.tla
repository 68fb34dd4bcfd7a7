--------------------------- MODULE WebSessionProofs --------------------------
(***************************************************************************)
(* The safety of WebSession, for any users and tokens: types, and that the *)
(* connection of a tab is the one its session made.                        *)
(*                                                                         *)
(* The invariant says of every token that is held somewhere whom it was    *)
(* signed for.  A token is only signed over one that nobody holds, so what *)
(* is held never changes its holder.                                       *)
(***************************************************************************)
EXTENDS WebSession, TLAPS

SessionHolds == session # None => holder[session.token] = session.user
ChallengeHolds == challenge # None => holder[challenge] \in User
LoginHolds ==
    login # None =>
        /\ login.by # None => holder[login.by] = login.user
        /\ login.step \in {"granted", "challenged"} => login.by # None
PollHolds ==
    poll # None =>
        /\ poll.by # None => holder[poll.by] \in User
        /\ poll.step = "served" => poll.by # None
SocketWired == socket.by = wired /\ (wired = None => socket.state = "none")

IInv ==
    /\ TypeOK
    /\ SessionHolds /\ ChallengeHolds /\ LoginHolds /\ PollHolds
    /\ SocketWired

-----------------------------------------------------------------------------
(* Signing a token changes no token that is held. *)
LEMMA HeldStay ==
    ASSUME TypeOK, Unused # {}, NEW u \in User, NEW t, t = (CHOOSE s \in Unused : TRUE), Sign(t, u)
    PROVE  /\ t \in Token /\ t \notin InUse /\ holder'[t] = u
           /\ holder' \in [Token -> User \cup {None}] /\ fresh' \in [Token -> BOOLEAN]
           /\ \A s \in Token \cap InUse : holder'[s] = holder[s]
<1>1. t \in Unused
  OBVIOUS
<1>2. t \in Token /\ t \notin InUse
  BY <1>1 DEF Unused
<1>3. holder' \in [Token -> User \cup {None}]
  BY <1>2 DEF Sign, TypeOK
<1>4. fresh' \in [Token -> BOOLEAN]
  BY DEF Sign, TypeOK
<1>5. holder'[t] = u /\ \A s \in Token \cap InUse : holder'[s] = holder[s]
  BY <1>2 DEF Sign, Unused
<1>6. QED
  BY <1>2, <1>3, <1>4, <1>5

(* A granted token is held by the login alone. *)
LEMMA GrantIInv ==
    ASSUME IInv, login # None, NEW step \in {"granted", "challenged"}, Grant(step),
           UNCHANGED <<active, session, challenge, link, query, mode, mishaps>>
    PROVE  IInv'
<1>1. PICK t : /\ t = (CHOOSE s \in Unused : TRUE) /\ Unused # {}
               /\ Sign(t, login.user) /\ login' = [login EXCEPT !.by = t, !.step = step]
  BY DEF Grant
<1>2. TypeOK /\ login \in Login \ {None} /\ login.user \in User
  BY DEF IInv, TypeOK, Login
<1>3. /\ t \in Token /\ t \notin InUse /\ holder'[t] = login.user
      /\ holder' \in [Token -> User \cup {None}] /\ fresh' \in [Token -> BOOLEAN]
      /\ \A s \in Token \cap InUse : holder'[s] = holder[s]
  BY <1>1, <1>2, HeldStay
<1>4. login' \in Login /\ login'.by = t /\ login'.user = login.user
  <2>1. login \in [user : User, by : TokenOrNone, seen : BOOLEAN,
                   step : {"password", "compare", "code", "granted", "challenged", "refused"}]
    BY <1>2 DEF Login
  <2>2. t \in TokenOrNone
    BY <1>3 DEF TokenOrNone
  <2>3. login' = [login EXCEPT !.by = t, !.step = step]
    BY <1>1
  <2>4. QED
    BY <2>1, <2>2, <2>3 DEF Login
<1>5. TypeOK'
  BY <1>2, <1>3, <1>4 DEF TypeOK, link, query
<1>6. SessionHolds'
  BY <1>2, <1>3 DEF IInv, TypeOK, SessionHolds, Session, InUse, SessionToken
<1>7. ChallengeHolds'
  BY <1>2, <1>3 DEF IInv, TypeOK, ChallengeHolds, TokenOrNone, InUse
<1>8. PollHolds'
  BY <1>2, <1>3 DEF IInv, TypeOK, PollHolds, Poll, TokenOrNone, InUse, query
<1>9. LoginHolds' /\ SocketWired'
  BY <1>3, <1>4, TokenAssumption DEF LoginHolds, SocketWired, IInv, link
<1>10. QED
  BY <1>5, <1>6, <1>7, <1>8, <1>9 DEF IInv

-----------------------------------------------------------------------------
LEMMA InitIInv == Init => IInv
BY MishapsAssumption DEF Init, IInv, TypeOK, SessionHolds, ChallengeHolds, LoginHolds, PollHolds,
   SocketWired, NoSocket, Session, Login, Socket, Poll, TokenOrNone

LEMMA NextIInv == IInv /\ [Next]_vars => IInv'
<1>. SUFFICES ASSUME IInv, [Next]_vars PROVE IInv'
  OBVIOUS
<1>. USE DEF tokens, page, link, query, Mishap
<1>1. ASSUME Compare PROVE IInv'
  <2>1. CASE Refuse
    BY <1>1, <2>1 DEF Compare, Refuse, IInv, TypeOK, SessionHolds, ChallengeHolds,
       LoginHolds, PollHolds, SocketWired, Login, TokenOrNone
  <2>2. CASE Grant("challenged") \/ Grant("granted")
    BY <1>1, <2>2, GrantIInv DEF Compare
  <2>3. QED
    BY <1>1, <2>1, <2>2 DEF Compare
<1>2. ASSUME VerifyCode PROVE IInv'
  <2>1. CASE Refuse
    BY <1>2, <2>1 DEF VerifyCode, Refuse, IInv, TypeOK, SessionHolds, ChallengeHolds,
       LoginHolds, PollHolds, SocketWired, Login, TokenOrNone
  <2>2. CASE Grant("granted")
    BY <1>2, <2>2, GrantIInv DEF VerifyCode
  <2>3. QED
    BY <1>2, <2>1, <2>2 DEF VerifyCode
<1>3. ASSUME ReadUser \/ \E u \in User : SubmitPassword(u) PROVE IInv'
  <2>1. login' \in Login /\ LoginHolds'
    <3>1. CASE ReadUser
      <4>1. login \in Login /\ login # None /\ active[login.user] \in BOOLEAN
        BY <1>3, <3>1 DEF ReadUser, IInv, TypeOK, Login
      <4>2. QED
        BY <3>1, <4>1 DEF ReadUser, IInv, LoginHolds, Login
    <3>2. CASE \E u \in User : SubmitPassword(u)
      BY <3>2 DEF SubmitPassword, Request, LoginHolds, Login, TokenOrNone
    <3>3. QED
      BY <1>3, <3>1, <3>2
  <2>2. QED
    BY <1>3, <2>1 DEF ReadUser, SubmitPassword, IInv, TypeOK, SessionHolds, ChallengeHolds,
       PollHolds, SocketWired
<1>4. ASSUME SubmitCode PROVE IInv'
  BY <1>4 DEF SubmitCode, Request, IInv, TypeOK, SessionHolds, ChallengeHolds,
     LoginHolds, PollHolds, SocketWired, Login, TokenOrNone
<1>5. ASSUME LoginAnswer PROVE IInv'
  <2>1. login \in Login /\ login # None
    BY <1>5 DEF LoginAnswer, IInv, TypeOK
  <2>2. login.step \in {"granted", "challenged"} =>
           login.by \in Token /\ login.user \in User /\ holder[login.by] = login.user
    BY <2>1 DEF IInv, LoginHolds, Login, TokenOrNone
  <2>3. session' \in Session /\ SessionHolds'
    BY <1>5, <2>2 DEF LoginAnswer, IInv, TypeOK, SessionHolds, Session
  <2>4. challenge' \in TokenOrNone /\ ChallengeHolds'
    BY <1>5, <2>2 DEF LoginAnswer, IInv, TypeOK, ChallengeHolds, TokenOrNone
  <2>5. QED
    BY <1>5, <2>3, <2>4 DEF LoginAnswer, IInv, TypeOK, LoginHolds, PollHolds, SocketWired, Login
<1>6. ASSUME LoginLost \/ LeaveChallenge \/ Logout PROVE IInv'
  BY <1>6, MishapsAssumption DEF LoginLost, LeaveChallenge, Logout, IInv, TypeOK, SessionHolds,
     ChallengeHolds, LoginHolds, PollHolds, SocketWired, Login, Session, TokenOrNone
<1>7. ASSUME Toggle \/ (\E u \in User : SetActive(u)) \/ (\E t \in Token : Expire(t)) PROVE IInv'
  BY <1>7 DEF Toggle, SetActive, Expire, IInv, TypeOK, SessionHolds, ChallengeHolds,
     LoginHolds, PollHolds, SocketWired
<1>8. ASSUME Reload PROVE IInv'
  BY <1>8, MishapsAssumption DEF Reload, IInv, TypeOK, SessionHolds, ChallengeHolds,
     LoginHolds, PollHolds, SocketWired, NoSocket, Login, Socket, Poll, TokenOrNone
<1>9. ASSUME RunEffect PROVE IInv'
  <2>1. SessionToken \in TokenOrNone
    BY DEF IInv, TypeOK, SessionToken, Session, TokenOrNone
  <2>2. socket' \in Socket /\ SocketWired'
    <3>1. CASE session = None
      BY <1>9, <3>1, <2>1 DEF RunEffect, IInv, TypeOK, SocketWired, Disconnected, NoSocket,
         SessionToken, Socket, TokenOrNone
    <3>2. CASE session # None
      <4>1. DEFINE clean == IF wired = None THEN socket ELSE NoSocket
      <4>2. clean.state = "none"
        BY DEF IInv, SocketWired, NoSocket
      <4>3. socket' = Connected(clean, session.token) /\ wired' = session.token
        BY <1>9, <3>2 DEF RunEffect, Disconnected, SessionToken
      <4>4. socket' = [state |-> "connecting", by |-> session.token]
        BY <4>2, <4>3 DEF Connected
      <4>5. session.token \in Token
        BY <3>2 DEF IInv, TypeOK, Session
      <4>6. QED
        BY <4>3, <4>4, <4>5, TokenAssumption DEF SocketWired, Socket, TokenOrNone
    <3>3. QED
      BY <3>1, <3>2
  <2>3. QED
    BY <1>9, <2>1, <2>2 DEF RunEffect, IInv, TypeOK, SessionHolds, ChallengeHolds, LoginHolds, PollHolds
<1>10. ASSUME Handshake \/ DropSocket PROVE IInv'
  BY <1>10, MishapsAssumption DEF Handshake, DropSocket, IInv, TypeOK, SessionHolds, ChallengeHolds,
     LoginHolds, PollHolds, SocketWired, Socket
<1>11. ASSUME StartPoll \/ Retry PROVE IInv'
  <2>1. /\ SessionToken \in TokenOrNone
        /\ SessionToken # None => holder[SessionToken] \in User
    BY TokenAssumption DEF IInv, TypeOK, SessionToken, Session, TokenOrNone, SessionHolds
  <2>2. poll' \in Poll /\ PollHolds'
    <3>1. CASE poll' = None
      BY <3>1 DEF PollHolds, Poll
    <3>2. CASE \E again \in BOOLEAN : Send(again)
      <4>1. PICK again \in BOOLEAN : poll' = [by |-> SessionToken, step |-> "sent", again |-> again]
        BY <3>2 DEF Send
      <4>2. holder' = holder
        BY <1>11 DEF StartPoll, Retry
      <4>3. poll'.by = SessionToken /\ poll'.step = "sent"
        BY <4>1
      <4>4. QED
        BY <4>1, <4>2, <4>3, <2>1 DEF PollHolds, Poll
    <3>3. QED
      BY <1>11, <3>1, <3>2 DEF StartPoll, Retry
  <2>3. QED
    BY <1>11, <2>2 DEF StartPoll, Retry, IInv, TypeOK, SessionHolds, ChallengeHolds,
       LoginHolds, SocketWired
<1>12. ASSUME Serve PROVE IInv'
  BY <1>12 DEF Serve, Valid, IInv, TypeOK, SessionHolds, ChallengeHolds,
     LoginHolds, PollHolds, SocketWired, Poll, TokenOrNone
<1>13. ASSUME PollLost \/ PollDenied PROVE IInv'
  BY <1>13, MishapsAssumption DEF PollLost, PollDenied, IInv, TypeOK, SessionHolds, ChallengeHolds,
     LoginHolds, PollHolds, SocketWired, Poll, Session, TokenOrNone
<1>14. ASSUME PollAnswer PROVE IInv'
  BY <1>14 DEF PollAnswer, IInv, TypeOK, SessionHolds, ChallengeHolds,
     LoginHolds, PollHolds, SocketWired, Poll, TokenOrNone
<1>15. CASE UNCHANGED vars
  BY <1>15 DEF vars, IInv, TypeOK, SessionHolds, ChallengeHolds, LoginHolds, PollHolds, SocketWired
<1>16. QED
  BY <1>1, <1>2, <1>3, <1>4, <1>5, <1>6, <1>7, <1>8, <1>9, <1>10, <1>11, <1>12, <1>13, <1>14, <1>15
     DEF Next, Server, Person, Browser, Faults

THEOREM Inductive == Spec => []IInv
<1>1. QED
  BY InitIInv, NextIInv, PTL DEF Spec

(* Every variable keeps its shape. *)
THEOREM TypeCorrect == Spec => []TypeOK
<1>1. IInv => TypeOK
  BY DEF IInv
<1>2. QED
  BY <1>1, Inductive, PTL

(* Once the effect has caught up, the connection of a tab was made by the  *)
(* session it shows, whatever was under way when the users changed.        *)
THEOREM OwnSocket == Spec => []SocketIsOwn
<1>1. IInv => SocketIsOwn
  BY DEF IInv, SocketWired, SessionHolds, SocketIsOwn, SessionToken
<1>2. QED
  BY <1>1, Inductive, PTL

=============================================================================
