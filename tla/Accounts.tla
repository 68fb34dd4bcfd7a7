------------------------------ MODULE Accounts ------------------------------
(***************************************************************************)
(* The requests of routes/auth.ts that change an account in more than one  *)
(* statement: password resets by a mailed link (table                      *)
(* password_reset_tokens) and multi-factor authentication (columns         *)
(* users.mfa_secret and users.mfa_enabled).                                *)
(*                                                                         *)
(* A handler selects, awaits a hash, a comparison or the check of a code,  *)
(* and then updates rows it names by id only: whatever it found may have   *)
(* changed.  The comparisons are left to chance: one that fails answers    *)
(* 4xx and changes nothing.  The audit rows and the mail that follow the   *)
(* last change of a request are left out; any link issued may be used.     *)
(***************************************************************************)
EXTENDS Integers, FiniteSets

CONSTANTS
    User,
    Token,        \* ids of password_reset_tokens; a uuid is never reused
    Secret,       \* what generateSecret returns
    NoSecret,     \* the null of users.mfa_secret
    Handler,      \* requests between two of their statements at the same time
    MaxAborts     \* bound: requests that die there

ASSUME SecretAssumption == NoSecret \notin Secret
ASSUME HandlerAssumption == IsFiniteSet(Handler)
ASSUME AbortAssumption == MaxAborts \in Nat

VARIABLES
    token,       \* token[t]: "unborn", "live", "expired" or "used"
    owner,       \* owner[t]: column user_id
    resets,      \* resets[t]: how often a password was set by the link of t
    secret,      \* column mfa_secret
    enabled,     \* column mfa_enabled
    handler,     \* the next statement of each request and what it has read
    aborts

links == <<token, owner, resets>>
mfa == <<secret, enabled>>
vars == <<links, mfa, handler, aborts>>

Live(u) == {t \in Token : token[t] = "live" /\ owner[t] = u}

Idle == [step |-> "idle"]
Request ==
    {Idle}
    \cup [step : {"issue", "setup", "disable"}, user : User]
    \cup [step : {"reset"}, link : Token]
    \cup [step : {"enable"}, user : User, checked : Secret]

Init ==
    /\ token = [t \in Token |-> "unborn"]
    /\ owner \in [Token -> User]                  \* chosen by the request that issues t
    /\ resets = [t \in Token |-> 0]
    /\ secret = [u \in User |-> NoSecret]
    /\ enabled = [u \in User |-> FALSE]
    /\ handler = [h \in Handler |-> Idle]
    /\ aborts = 0

At(h, step) == handler[h].step = step
Becomes(h, request) == handler' = [handler EXCEPT ![h] = request]

(* UPDATE password_reset_tokens SET used_at = now() WHERE user_id = u AND  *)
(* used_at IS NULL AND expires_at > now(), and the same for a link by id   *)
Retired(u, spent) ==
    [t \in Token |-> IF t \in Live(u) \cup spent THEN "used" ELSE token[t]]

-----------------------------------------------------------------------------
(* POST /forgot-password *)
InvalidateNothing(h, u) ==      \* fault: leaves the older links alone
    /\ At(h, "idle")
    /\ Becomes(h, [step |-> "issue", user |-> u])
    /\ UNCHANGED <<links, mfa, aborts>>

Invalidate(h, u) ==
    /\ At(h, "idle")
    /\ token' = Retired(u, {})
    /\ Becomes(h, [step |-> "issue", user |-> u])
    /\ UNCHANGED <<owner, resets, mfa, aborts>>

Issue(h, t) ==
    /\ At(h, "issue")
    /\ token[t] = "unborn" /\ owner[t] = handler[h].user
    /\ token' = [token EXCEPT ![t] = "live"]
    /\ Becomes(h, Idle)
    /\ UNCHANGED <<owner, resets, mfa, aborts>>

(* One hour after the INSERT. *)
Expire(t) ==
    /\ token[t] = "live"
    /\ token' = [token EXCEPT ![t] = "expired"]
    /\ UNCHANGED <<owner, resets, mfa, handler, aborts>>

(* POST /reset-password finds the token of the link, hashes the password   *)
(* and writes both tables in a transaction.                                *)
ResetRead(h, t) ==
    /\ At(h, "idle")
    /\ token[t] = "live"                          \* else 400 INVALID_TOKEN
    /\ Becomes(h, [step |-> "reset", link |-> t])
    /\ UNCHANGED <<links, mfa, aborts>>

ResetKeepingLink(h) ==      \* fault: retires the other links only
    /\ At(h, "reset")
    /\ LET t == handler[h].link IN
       /\ resets' = [resets EXCEPT ![t] = @ + 1]
       /\ token' = [Retired(owner[t], {}) EXCEPT ![t] = token[t]]
    /\ Becomes(h, Idle)
    /\ UNCHANGED <<owner, mfa, aborts>>

Reset(h) ==
    /\ At(h, "reset")
    /\ LET t == handler[h].link IN
       /\ resets' = [resets EXCEPT ![t] = @ + 1]
       /\ token' = Retired(owner[t], {t})
    /\ Becomes(h, Idle)
    /\ UNCHANGED <<owner, mfa, aborts>>

-----------------------------------------------------------------------------
(* POST /mfa/setup and /mfa/disable select the user and compare the        *)
(* password; disable also checks a code if one is sent and a secret is     *)
(* set.  The setup of an account that has MFA enabled is not refused.      *)
CompareRead(h, u, step) ==
    /\ At(h, "idle")
    /\ step \in {"setup", "disable"}
    /\ Becomes(h, [step |-> step, user |-> u])
    /\ UNCHANGED <<links, mfa, aborts>>

Setup(h, s) ==
    /\ At(h, "setup")
    /\ secret' = [secret EXCEPT ![handler[h].user] = s]
    /\ Becomes(h, Idle)
    /\ UNCHANGED <<links, enabled, aborts>>

DisableSecretOnly(h) ==      \* fault: the flag stays
    /\ At(h, "disable")
    /\ secret' = [secret EXCEPT ![handler[h].user] = NoSecret]
    /\ Becomes(h, Idle)
    /\ UNCHANGED <<links, enabled, aborts>>

Disable(h) ==
    /\ At(h, "disable")
    /\ secret' = [secret EXCEPT ![handler[h].user] = NoSecret]
    /\ enabled' = [enabled EXCEPT ![handler[h].user] = FALSE]
    /\ Becomes(h, Idle)
    /\ UNCHANGED <<links, aborts>>

(* POST /mfa/verify without mfaToken: the code is checked against the      *)
(* secret found, then the flag is set.  With an mfaToken it is the second  *)
(* half of a login and changes neither column.                             *)
VerifyUnset(h, u) ==      \* fault: goes on without a secret
    /\ At(h, "idle")
    /\ Becomes(h, [step |-> "enable", user |-> u, checked |-> secret[u]])
    /\ UNCHANGED <<links, mfa, aborts>>

VerifyRead(h, u) ==
    /\ At(h, "idle")
    /\ secret[u] # NoSecret                       \* else 400 MFA_NOT_SETUP
    /\ Becomes(h, [step |-> "enable", user |-> u, checked |-> secret[u]])
    /\ UNCHANGED <<links, mfa, aborts>>

Enable(h) ==
    /\ At(h, "enable")
    /\ enabled' = [enabled EXCEPT ![handler[h].user] = TRUE]
    /\ Becomes(h, Idle)
    /\ UNCHANGED <<links, secret, aborts>>

-----------------------------------------------------------------------------
(* A statement fails or the process stops. *)
Abort(h) ==
    /\ ~At(h, "idle")
    /\ aborts < MaxAborts
    /\ aborts' = aborts + 1
    /\ Becomes(h, Idle)
    /\ UNCHANGED <<links, mfa>>

Arrival(h) ==
    \/ \E u \in User : Invalidate(h, u) \/ VerifyRead(h, u)
    \/ \E u \in User, step \in {"setup", "disable"} : CompareRead(h, u, step)
    \/ \E t \in Token : ResetRead(h, t)

Statement(h) ==
    \/ \E t \in Token : Issue(h, t)
    \/ Reset(h)
    \/ \E s \in Secret : Setup(h, s)
    \/ Disable(h)
    \/ Enable(h)

Next ==
    \/ \E h \in Handler : Arrival(h) \/ Statement(h) \/ Abort(h)
    \/ \E t \in Token : Expire(t)

Spec == Init /\ [][Next]_vars

-----------------------------------------------------------------------------
(* Properties. *)

(* Every variable keeps its shape. *)
TypeOK ==
    /\ token \in [Token -> {"unborn", "live", "expired", "used"}]
    /\ owner \in [Token -> User]
    /\ resets \in [Token -> Nat]
    /\ secret \in [User -> Secret \cup {NoSecret}]
    /\ enabled \in [User -> BOOLEAN]
    /\ handler \in [Handler -> Request]
    /\ aborts \in 0..MaxAborts

(* Requests for a link may overlap: each retires the older links before it *)
(* issues its own.  Together they never leave a user more live links than  *)
(* there are requests that run at the same time.                           *)
Issuing(u) == {h \in Handler : At(h, "issue") /\ handler[h].user = u}
FewLiveLinks ==
    \A u \in User : Cardinality(Live(u)) + Cardinality(Issuing(u)) <= Cardinality(Handler)

(* A link is good for one reset.  Requests that had all found it live may  *)
(* each set the password, but none that comes after the first has done so. *)
Using(t) == {h \in Handler : At(h, "reset") /\ handler[h].link = t}
LinkIsSpent ==
    \A t \in Token :
        /\ resets[t] > 0 => token[t] = "used"
        /\ resets[t] + Cardinality(Using(t)) <= Cardinality(Handler)

(* MFA that is enabled without a secret cannot be passed.  An account gets *)
(* there only by a verification that was overtaken: the secret its code    *)
(* was checked against is no longer the one stored.                        *)
Locked(u) == enabled[u] /\ secret[u] = NoSecret
Overtaken(u) ==
    \E h \in Handler :
        /\ At(h, "enable") /\ handler[h].user = u
        /\ handler[h].checked # secret[u]
        /\ handler'[h] = Idle
LocksOvertaken == \A u \in User : ~Locked(u) /\ Locked(u)' => Overtaken(u)
OnlyOvertakenLocks == [][LocksOvertaken]_vars

=============================================================================
