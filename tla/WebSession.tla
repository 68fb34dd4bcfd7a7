----------------------------- MODULE WebSession -----------------------------
(***************************************************************************)
(* The session of one browser tab, from the login to the last refused      *)
(* request: stores/auth-store.ts, lib/api-client.ts, lib/socket-client.ts, *)
(* the connection part of hooks/use-socket.ts and the bell's poll, against *)
(* the routes that sign tokens (routes/auth.ts), those that retire a user  *)
(* (routes/users.ts) and the two places that check a token, requireAuth    *)
(* and the handshake of the bridge.                                        *)
(*                                                                         *)
(* Tokens carry who they were signed for and cannot be revoked: they stop  *)
(* working when they expire.  The same tab is used by several people, one  *)
(* after the other, and everything it has under way (a login, a poll, a    *)
(* socket) goes on while the session changes.                              *)
(***************************************************************************)
EXTENDS Naturals, FiniteSets

CONSTANTS
    User,
    MfaUser,       \* those who have MFA enabled
    Token,
    None,
    AllowUnauthenticated,
    MaxMishaps     \* bound: lost requests and connections, reloads

ASSUME MfaAssumption == MfaUser \subseteq User
ASSUME TokenAssumption == None \notin Token \cup User
ASSUME SwitchAssumption == AllowUnauthenticated \in BOOLEAN
ASSUME MishapsAssumption == MaxMishaps \in Nat

VARIABLES
    active,        \* users.is_active
    holder, fresh, \* what the tokens in use are signed for, and have they not expired?
    session,       \* the auth store: [user, token], or None
    challenge,     \* the token the page for the code was opened with, or None
    login,         \* POST /auth/login or /auth/mfa/verify under way, or None
    wired,         \* the token the effect of useSocket last ran with, or None
    socket,        \* the connection to the bridge
    poll,          \* the query of the unread count under way, or None
    cache,         \* whose answer that query holds, or None
    mode,          \* Simulator Mode
    mishaps

tokens == <<holder, fresh>>
page == <<session, challenge, login>>
link == <<wired, socket>>
query == <<poll, cache>>
vars == <<active, tokens, page, link, query, mode, mishaps>>

TokenOrNone == Token \cup {None}
Session == [user : User, token : Token] \cup {None}
Login == [user : User, by : TokenOrNone, seen : BOOLEAN,
          step : {"password", "compare", "code", "granted", "challenged", "refused"}] \cup {None}
Socket == [state : {"none", "connecting", "up", "refused"}, by : TokenOrNone]
Poll == [by : TokenOrNone, step : {"sent", "served", "denied", "failed"}, again : BOOLEAN] \cup {None}

NoSocket == [state |-> "none", by |-> None]
SessionToken == IF session = None THEN None ELSE session.token

Init ==
    /\ active = [u \in User |-> TRUE]
    /\ holder = [t \in Token |-> None] /\ fresh = [t \in Token |-> FALSE]
    /\ session = None /\ challenge = None /\ login = None
    /\ wired = None /\ socket = NoSocket
    /\ poll = None /\ cache = None
    /\ mode \in BOOLEAN /\ mishaps = 0

Mishap == mishaps < MaxMishaps /\ mishaps' = mishaps + 1

-----------------------------------------------------------------------------
(* Tokens.  A token nobody holds any more makes room for the next one,     *)
(* whichever it is.                                                        *)

InUse ==
    {SessionToken, challenge, wired, socket.by}
      \cup (IF login = None THEN {} ELSE {login.by})
      \cup (IF poll = None THEN {} ELSE {poll.by})

Unused == Token \ InUse

Sign(t, u) ==
    /\ holder' = [s \in Token |-> IF s = t THEN u ELSE IF s \in Unused THEN None ELSE holder[s]]
    /\ fresh' = [s \in Token |-> s = t \/ (s \notin Unused /\ fresh[s])]

Valid(t) == t # None /\ fresh[t]

Expire(t) ==
    /\ fresh[t]
    /\ fresh' = [fresh EXCEPT ![t] = FALSE]
    /\ UNCHANGED <<active, holder, page, link, query, mode, mishaps>>

(* PATCH and DELETE of a user. *)
SetActive(u) ==
    /\ active' = [active EXCEPT ![u] = ~@]
    /\ UNCHANGED <<tokens, page, link, query, mode, mishaps>>

-----------------------------------------------------------------------------
(* POST /auth/login: the row is read, the password compared, and what was  *)
(* read decides.                                                           *)

Request(u, by, step) ==
    login' = [user |-> u, by |-> by, seen |-> FALSE, step |-> step]

SubmitPassword(u) ==
    /\ session = None /\ challenge = None /\ login = None
    /\ Request(u, None, "password")
    /\ UNCHANGED <<active, tokens, session, challenge, link, query, mode, mishaps>>

ReadUser ==
    /\ login # None /\ login.step = "password"
    /\ login' = [login EXCEPT !.seen = active[login.user], !.step = "compare"]
    /\ UNCHANGED <<active, tokens, session, challenge, link, query, mode, mishaps>>

Refuse ==
    /\ login' = [login EXCEPT !.by = None, !.step = "refused"]
    /\ UNCHANGED tokens

Grant(step) ==
    /\ Unused # {}
    /\ LET t == CHOOSE t \in Unused : TRUE IN
       /\ Sign(t, login.user)
       /\ login' = [login EXCEPT !.by = t, !.step = step]

CompareUnchecked ==      \* fault: is_active is not looked at
    /\ login # None /\ login.step = "compare"
    /\ IF login.user \in MfaUser THEN Grant("challenged") ELSE Grant("granted")
    /\ UNCHANGED <<active, session, challenge, link, query, mode, mishaps>>

Compare ==
    /\ login # None /\ login.step = "compare"
    /\ \/ Refuse                            \* the password is wrong
       \/ ~login.seen /\ Refuse
       \/ login.seen /\ login.user \in MfaUser /\ Grant("challenged")
       \/ login.seen /\ login.user \notin MfaUser /\ Grant("granted")
    /\ UNCHANGED <<active, session, challenge, link, query, mode, mishaps>>

(* The challenge half of POST /auth/mfa/verify looks at the token and the  *)
(* code.                                                                   *)
SubmitCode ==
    /\ session = None /\ challenge # None /\ login = None
    /\ Request(holder[challenge], challenge, "code")
    /\ UNCHANGED <<active, tokens, session, challenge, link, query, mode, mishaps>>

VerifyCode ==
    /\ login # None /\ login.step = "code"
    /\ Refuse \/ (Valid(login.by) /\ Grant("granted"))
    /\ UNCHANGED <<active, session, challenge, link, query, mode, mishaps>>

(* The answer reaches the page. *)
LoginAnswerUnchecked ==      \* fault: a session whatever the answer
    /\ login # None /\ login.step \in {"granted", "challenged", "refused"}
    /\ login' = None
    /\ session' = [user |-> login.user, token |-> login.by] /\ challenge' = None
    /\ UNCHANGED <<active, tokens, link, query, mode, mishaps>>

LoginAnswer ==
    /\ login # None /\ login.step \in {"granted", "challenged", "refused"}
    /\ login' = None
    /\ session' = IF login.step = "granted"
                    THEN [user |-> login.user, token |-> login.by] ELSE session
    /\ challenge' = CASE login.step = "granted" -> None
                      [] login.step = "challenged" -> login.by
                      [] login.step = "refused" -> challenge
    /\ UNCHANGED <<active, tokens, link, query, mode, mishaps>>

LoginLost ==
    /\ login # None /\ login' = None
    /\ Mishap
    /\ UNCHANGED <<active, tokens, session, challenge, link, query, mode>>

(* Back to the login page: an answer that comes now is not listened to. *)
LeaveChallenge ==
    /\ challenge # None /\ challenge' = None /\ login' = None
    /\ UNCHANGED <<active, tokens, session, link, query, mode, mishaps>>

-----------------------------------------------------------------------------
(* The end of a session, by a click or because a request was refused. *)

Logout ==
    /\ session # None /\ session' = None
    /\ UNCHANGED <<active, tokens, challenge, login, link, query, mode, mishaps>>

Toggle ==
    /\ mode' = ~mode
    /\ UNCHANGED <<active, tokens, page, link, query, mishaps>>

(* What the tab keeps is in localStorage and the address. *)
Reload ==
    /\ Mishap
    /\ login' = None /\ wired' = None /\ socket' = NoSocket
    /\ poll' = None /\ cache' = None
    /\ UNCHANGED <<active, tokens, session, challenge, mode>>

-----------------------------------------------------------------------------
(* The socket.  React runs the effect some time after the session changed: *)
(* its clean-up takes the old connection down, then a new one is made.     *)

Kept(s) == s      \* fault: the clean-up leaves the connection
Disconnected(s) == NoSocket

Connected(s, t) == IF s.state = "up" THEN s ELSE [state |-> "connecting", by |-> t]

RunEffect ==
    /\ wired # SessionToken /\ wired' = SessionToken
    /\ LET clean == IF wired = None THEN socket ELSE Disconnected(socket) IN
       socket' = IF session = None THEN clean ELSE Connected(clean, session.token)
    /\ UNCHANGED <<active, tokens, page, query, mode, mishaps>>

(* The handshake.  One that is refused is not repeated. *)
Handshake ==
    /\ socket.state = "connecting"
    /\ socket' = [socket EXCEPT !.state =
                     IF Valid(socket.by) \/ AllowUnauthenticated THEN "up" ELSE "refused"]
    /\ UNCHANGED <<active, tokens, page, wired, query, mode, mishaps>>

(* A lost connection is tried again, with the token it had. *)
DropSocket ==
    /\ socket.state = "up"
    /\ socket' = [socket EXCEPT !.state = "connecting"]
    /\ Mishap
    /\ UNCHANGED <<active, tokens, page, wired, query, mode>>

-----------------------------------------------------------------------------
(* The poll of the unread count, with the token of the moment it is sent.  *)
(* While one is under way there is no other, whoever asks for it; its      *)
(* answer is cached under a key that does not name the user.               *)

Send(again) == poll' = [by |-> SessionToken, step |-> "sent", again |-> again]

StartPoll ==
    /\ session # None /\ ~mode /\ poll = None
    /\ Send(FALSE)
    /\ UNCHANGED <<active, tokens, page, link, cache, mode, mishaps>>

Serve ==
    /\ poll # None /\ poll.step = "sent"
    /\ poll' = [poll EXCEPT !.step = IF Valid(poll.by) THEN "served" ELSE "denied"]
    /\ UNCHANGED <<active, tokens, page, link, cache, mode, mishaps>>

PollLost ==
    /\ poll # None /\ poll.step \in {"sent", "served", "denied"}
    /\ poll' = [poll EXCEPT !.step = "failed"]
    /\ Mishap
    /\ UNCHANGED <<active, tokens, page, link, cache, mode>>

PollAnswer ==
    /\ poll # None /\ poll.step = "served"
    /\ cache' = holder[poll.by] /\ poll' = None
    /\ UNCHANGED <<active, tokens, page, link, mode, mishaps>>

(* Any 401 ends the session there is, be it the one that sent the request  *)
(* or not.                                                                 *)
PollDeniedIgnored ==      \* fault: a 401 is an error like any other
    /\ poll # None /\ poll.step = "denied"
    /\ poll' = [poll EXCEPT !.step = "failed"]
    /\ UNCHANGED <<active, tokens, page, link, cache, mode, mishaps>>

PollDenied ==
    /\ poll # None /\ poll.step = "denied"
    /\ poll' = [poll EXCEPT !.step = "failed"]
    /\ session' = None
    /\ UNCHANGED <<active, tokens, challenge, login, link, cache, mode, mishaps>>

(* One retry, with the token of that moment, cancelled if the page was     *)
(* left in between.                                                        *)
Retry ==
    /\ poll # None /\ poll.step = "failed"
    /\ \/ ~poll.again /\ session # None /\ Send(TRUE)
       \/ poll' = None
    /\ UNCHANGED <<active, tokens, page, link, cache, mode, mishaps>>

-----------------------------------------------------------------------------
Server == ReadUser \/ Compare \/ VerifyCode \/ Serve \/ \E u \in User : SetActive(u)

Person ==
    \/ \E u \in User : SubmitPassword(u)
    \/ SubmitCode \/ LeaveChallenge \/ Logout \/ Toggle

Browser ==
    \/ LoginAnswer \/ RunEffect \/ Handshake
    \/ StartPoll \/ PollAnswer \/ PollDenied \/ Retry

Faults == LoginLost \/ DropSocket \/ PollLost \/ Reload

Next == Server \/ Person \/ Browser \/ Faults \/ \E t \in Token : Expire(t)

(* Effects run, handshakes and requests are answered, the timer of the     *)
(* query fires.                                                            *)
Fairness ==
    /\ WF_vars(RunEffect) /\ WF_vars(Handshake)
    /\ WF_vars(StartPoll) /\ WF_vars(Serve)
    /\ WF_vars(PollAnswer) /\ WF_vars(PollDenied) /\ WF_vars(Retry)

Spec == Init /\ [][Next]_vars
FairSpec == Spec /\ Fairness

(* Time passes. *)
TokensExpire == \A t \in Token : WF_vars(Expire(t))

-----------------------------------------------------------------------------
(* Properties. *)

(* Every variable keeps its shape. *)
TypeOK ==
    /\ active \in [User -> BOOLEAN]
    /\ holder \in [Token -> User \cup {None}] /\ fresh \in [Token -> BOOLEAN]
    /\ session \in Session /\ challenge \in TokenOrNone /\ login \in Login
    /\ wired \in TokenOrNone /\ socket \in Socket
    /\ poll \in Poll /\ cache \in User \cup {None}
    /\ mode \in BOOLEAN /\ mishaps \in 0..MaxMishaps

(* Once the effect has caught up with the session, the connection that     *)
(* carries live events was made by that session and no earlier one.        *)
SocketIsOwn ==
    wired = SessionToken =>
        /\ socket.by = wired
        /\ session # None => holder[socket.by] = session.user

(* A user who stays deactivated ends up signed out, although a token       *)
(* cannot be revoked and the socket is not asked again: no path of the     *)
(* login renews a token, and the first request after the last one expired  *)
(* "auto-logs out so the user sees the login screen rather than a stuck    *)
(* error state" (api-client.ts:80).  In Simulator Mode nothing is asked.   *)
RetiredIsSignedOut ==
    TokensExpire =>
        \A u \in User :
            <>[](~active[u] /\ ~mode) => <>[](session = None \/ session.user # u)

(* Whoever is signed in comes to have a live connection and their own      *)
(* number in the tab, whatever an earlier user left under way there,       *)
(* unless the session ends or expires first.                               *)
SignedIn(u) == session # None /\ session.user = u /\ fresh[session.token]
Served(u) == socket.state = "up" /\ socket.by = SessionToken /\ cache = u
SignedInIsServed ==
    \A u \in User : SignedIn(u) ~> (~SignedIn(u) \/ mode \/ Served(u))

=============================================================================
