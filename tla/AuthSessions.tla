----------------------------- MODULE AuthSessions -----------------------------
(***************************************************************************)
(* Sessions and refresh tokens of one user (backend/src/modules/auth and   *)
(* the session parts of backend/src/modules/users).                        *)
(*                                                                         *)
(* login creates a session and the first token of a rotation family;       *)
(* refresh rotates a token; logout, session revocation, eviction over the  *)
(* limit of concurrent sessions, password change, password reset and       *)
(* deactivation end sessions.  None of these but reset and deactivation    *)
(* runs in a transaction: a request is one action per awaited statement,   *)
(* and any number of requests may be between two statements.               *)
(*                                                                         *)
(* A family belongs to one session for good (login draws its id, refresh   *)
(* copies both), so the family of a token is its session.  The code orders *)
(* sessions by lastActiveAt; the model keeps that order itself.  Time is    *)
(* free: any time may pass between two statements, so CheckIdle finds any  *)
(* session idle or not, and an expired token is one no client presents.    *)
(***************************************************************************)
EXTENDS Naturals, FiniteSets

CONSTANTS
    Sessions,    \* session rows that may be created (bound)
    Tokens,      \* refresh-token rows that may be created (bound)
    Requests,    \* requests in flight at a time (bound)
    Limit,       \* SESSION.MAX_CONCURRENT
    MaxCrashes,  \* requests that die between two statements (bound)
    None

ASSUME NoneAssumption == None \notin Sessions \union Tokens
ASSUME LimitAssumption == Limit \in Nat \ {0}
ASSUME CrashAssumption == MaxCrashes \in Nat

VARIABLES
    active,      \* users.status = ACTIVE
    sessions,    \* session -> "absent", "active" (status ACTIVE) or "revoked"
    newer,       \* pairs of sessions, the first with the later lastActiveAt
    tokens,      \* table refresh_tokens: [row, session, used, revoked, from]
    requests,    \* requests in flight
    crashes,
    late,        \* observation: tokens minted after a revocation of their session began
    spared,      \* observation: sessions a request revoked without their tokens
    overLimit    \* observation: logins that died before they enforced the limit

vars == <<active, sessions, newer, tokens, requests, crashes,
          late, spared, overLimit>>
observed == <<late, spared, overLimit>>

-----------------------------------------------------------------------------
TokenRow == [row : BOOLEAN, session : Sessions \union {None}, used : BOOLEAN,
             revoked : BOOLEAN, from : Tokens \union {None}]

Steps == {"none",
          "session", "firstToken", "limit", "evictSessions", "evictTokens",      \* login
          "checkIdle", "checkUser", "mint", "markUsed", "touch",                 \* refresh
          "revokeFamily", "revokeTokens", "revokeSession",                       \* revocations
          "adminTokens",
          "reset", "deactivate", "setInactive"}                                  \* account

Request == [step : Steps, session : Sessions \union {None}, token : Tokens \union {None},
            victims : SUBSET Sessions]

NoRequest == [step |-> "none", session |-> None, token |-> None, victims |-> {}]
NoToken == [row |-> FALSE, session |-> None, used |-> FALSE, revoked |-> FALSE, from |-> None]

TypeOK ==
    /\ active \in BOOLEAN
    /\ sessions \in [Sessions -> {"absent", "active", "revoked"}]
    /\ newer \in SUBSET (Sessions \X Sessions)
    /\ tokens \in [Tokens -> TokenRow]
    /\ requests \in [Requests -> Request]
    /\ crashes \in 0..MaxCrashes
    /\ late \in SUBSET Tokens
    /\ spared \in SUBSET Sessions
    /\ overLimit \in Nat

Init ==
    /\ active = TRUE
    /\ sessions = [s \in Sessions |-> "absent"]
    /\ newer = {}
    /\ tokens = [t \in Tokens |-> NoToken]
    /\ requests = [r \in Requests |-> NoRequest]
    /\ crashes = 0
    /\ late = {}
    /\ spared = {}
    /\ overLimit = 0

ActiveSessions == {s \in Sessions : sessions[s] = "active"}
TokensOf(s) == {t \in Tokens : tokens[t].row /\ tokens[t].session = s}

(* refresh() would rotate it, its session's idle and expiry times apart. *)
Usable(t) == tokens[t].row /\ ~tokens[t].used /\ ~tokens[t].revoked

-----------------------------------------------------------------------------
(* What the statements of the two repositories do                            *)

Start(r, step, s, t) ==
    /\ requests[r].step = "none"
    /\ requests' = [requests EXCEPT ![r] =
                      [step |-> step, session |-> s, token |-> t, victims |-> {}]]

At(r, step) == requests[r].step = step
Goto(r, step) == requests' = [requests EXCEPT ![r].step = step]
End(r) == requests' = [requests EXCEPT ![r] = NoRequest]

(* lastActiveAt = now *)
MoveToFront(s) ==
    newer' = {p \in newer : p[2] # s}
               \union {<<s, u>> : u \in {u \in Sessions \ {s} : sessions[u] # "absent"}}

(* createRefreshToken.  A token is late when the revocation of its session   *)
(* has reached its tokens, or the session itself, before it.                 *)
NewToken(t, s, from) ==
    /\ ~tokens[t].row
    /\ tokens' = [tokens EXCEPT ![t] = [row |-> TRUE, session |-> s, used |-> FALSE,
                                        revoked |-> FALSE, from |-> from]]
    /\ late' = IF \/ sessions[s] = "revoked"
                  \/ \E u \in TokensOf(s) : tokens[u].revoked
                  \/ \E r \in Requests : At(r, "revokeSession") /\ requests[r].session = s
               THEN late \union {t}
               ELSE late

(* Fault: only the first token of each family is revoked. *)
RevokeFirstTokensOf(S) ==
    tokens' = [t \in Tokens |->
                 IF tokens[t].row /\ tokens[t].session \in S /\ ~tokens[t].used /\ tokens[t].from = None
                 THEN [tokens[t] EXCEPT !.revoked = TRUE]
                 ELSE tokens[t]]

(* updateMany of the unrevoked tokens of some sessions: revokeRefreshTokensBySession, *)
(* revokeUserSession, enforceConcurrentSessionLimit and revokeAllSessionsAndTokens    *)
(* leave used tokens alone.                                                           *)
RevokeTokensOf(S) ==
    tokens' = [t \in Tokens |->
                 IF tokens[t].row /\ tokens[t].session \in S /\ ~tokens[t].used
                 THEN [tokens[t] EXCEPT !.revoked = TRUE]
                 ELSE tokens[t]]

(* revokeRefreshTokenFamily takes the used tokens as well. *)
RevokeFamilyOf(s) ==
    tokens' = [t \in Tokens |->
                 IF tokens[t].row /\ tokens[t].session = s
                 THEN [tokens[t] EXCEPT !.revoked = TRUE]
                 ELSE tokens[t]]

RevokeSessions(S) ==
    sessions' = [s \in Sessions |-> IF s \in S /\ sessions[s] # "absent" THEN "revoked" ELSE sessions[s]]

-----------------------------------------------------------------------------
(* login, from the password check on                                         *)

StartLogin(r) ==
    /\ active
    /\ Start(r, "session", None, None)
    /\ UNCHANGED <<active, sessions, newer, tokens, crashes, observed>>

CreateSession(r, s) ==
    /\ At(r, "session")
    /\ sessions[s] = "absent"
    /\ sessions' = [sessions EXCEPT ![s] = "active"]
    /\ MoveToFront(s)
    /\ requests' = [requests EXCEPT ![r] = [@ EXCEPT !.step = "firstToken", !.session = s]]
    /\ UNCHANGED <<active, tokens, crashes, observed>>

CreateFirstToken(r, t) ==
    /\ At(r, "firstToken")
    /\ NewToken(t, requests[r].session, None)
    /\ Goto(r, "limit")
    /\ UNCHANGED <<active, sessions, newer, crashes, spared, overLimit>>

(* Fault: one session too many is kept. *)
ExcessOffByOne ==
    {s \in ActiveSessions :
        Cardinality({u \in ActiveSessions : <<u, s>> \in newer}) > Limit}

(* enforceConcurrentSessionLimit: activeSessions.slice(limit), most recent first. *)
Excess ==
    {s \in ActiveSessions :
        Cardinality({u \in ActiveSessions : <<u, s>> \in newer}) >= Limit}

ReadActiveSessions(r) ==
    /\ At(r, "limit")
    /\ IF Excess = {}
       THEN End(r)
       ELSE requests' = [requests EXCEPT ![r] = [@ EXCEPT !.step = "evictSessions", !.victims = Excess]]
    /\ UNCHANGED <<active, sessions, newer, tokens, crashes, observed>>

EvictSessions(r) ==
    /\ At(r, "evictSessions")
    /\ RevokeSessions(requests[r].victims)
    /\ Goto(r, "evictTokens")
    /\ UNCHANGED <<active, newer, tokens, crashes, observed>>

EvictTokens(r) ==
    /\ At(r, "evictTokens")
    /\ RevokeTokensOf(requests[r].victims)
    /\ End(r)
    /\ UNCHANGED <<active, sessions, newer, crashes, observed>>

-----------------------------------------------------------------------------
(* refresh: a client may present any token it was ever given                 *)

(* Reuse of a rotated token: its family, then its session. *)
PresentUsedToken(r, t) ==
    /\ tokens[t].row
    /\ tokens[t].used
    /\ Start(r, "revokeFamily", tokens[t].session, None)
    /\ UNCHANGED <<active, sessions, newer, tokens, crashes, observed>>

(* The row is read here and not again; a revoked one is refused. *)
PresentUsableToken(r, t) ==
    /\ Usable(t)
    /\ Start(r, "checkIdle", tokens[t].session, t)
    /\ UNCHANGED <<active, sessions, newer, tokens, crashes, observed>>

(* Reads lastActiveAt of the session, and not its status. *)
CheckIdle(r) ==
    /\ At(r, "checkIdle")
    /\ \/ requests' = [requests EXCEPT ![r] = [@ EXCEPT !.step = "revokeTokens", !.token = None]]
       \/ Goto(r, "checkUser")
    /\ UNCHANGED <<active, sessions, newer, tokens, crashes, observed>>

CheckUser(r) ==
    /\ At(r, "checkUser")
    /\ IF active THEN Goto(r, "mint") ELSE End(r)
    /\ UNCHANGED <<active, sessions, newer, tokens, crashes, observed>>

MintSuccessor(r, t) ==
    /\ At(r, "mint")
    /\ NewToken(t, requests[r].session, requests[r].token)
    /\ Goto(r, "markUsed")
    /\ UNCHANGED <<active, sessions, newer, crashes, spared, overLimit>>

MarkUsed(r) ==
    /\ At(r, "markUsed")
    /\ tokens' = [tokens EXCEPT ![requests[r].token].used = TRUE]
    /\ requests' = [requests EXCEPT ![r] = [@ EXCEPT !.step = "touch", !.token = None]]
    /\ UNCHANGED <<active, sessions, newer, crashes, observed>>

(* Fault: touching a session makes it active. *)
TouchAndActivate(r) ==
    /\ At(r, "touch")
    /\ MoveToFront(requests[r].session)
    /\ sessions' = [sessions EXCEPT ![requests[r].session] = "active"]
    /\ End(r)
    /\ UNCHANGED <<active, tokens, crashes, observed>>

TouchSession(r) ==
    /\ At(r, "touch")
    /\ MoveToFront(requests[r].session)
    /\ End(r)
    /\ UNCHANGED <<active, sessions, tokens, crashes, observed>>

-----------------------------------------------------------------------------
(* Revocations                                                               *)

(* logout (the session of a presented token) and revokeSession (a session id). *)
StartRevocation(r, s) ==
    /\ sessions[s] # "absent"
    /\ Start(r, "revokeTokens", s, None)
    /\ UNCHANGED <<active, sessions, newer, tokens, crashes, observed>>

RevokeTokens(r) ==
    /\ At(r, "revokeTokens")
    /\ RevokeTokensOf({requests[r].session})
    /\ Goto(r, "revokeSession")
    /\ UNCHANGED <<active, sessions, newer, crashes, observed>>

RevokeFamily(r) ==
    /\ At(r, "revokeFamily")
    /\ RevokeFamilyOf(requests[r].session)
    /\ Goto(r, "revokeSession")
    /\ UNCHANGED <<active, sessions, newer, crashes, observed>>

RevokeSession(r) ==
    /\ At(r, "revokeSession")
    /\ RevokeSessions({requests[r].session})
    /\ End(r)
    /\ UNCHANGED <<active, newer, tokens, crashes, observed>>

(* UserRepository.revokeUserSession: an active session, then its tokens. *)
AdminRevokeSession(r, s) ==
    /\ sessions[s] = "active"
    /\ RevokeSessions({s})
    /\ Start(r, "adminTokens", s, None)
    /\ UNCHANGED <<active, newer, tokens, crashes, observed>>

AdminRevokeTokens(r) ==
    /\ At(r, "adminTokens")
    /\ RevokeTokensOf({requests[r].session})
    /\ End(r)
    /\ UNCHANGED <<active, sessions, newer, crashes, observed>>

(* revokeAllSessionsExcept: one statement, sessions only.  changePassword    *)
(* spares no session, logoutAllSessions at most one.                         *)
RevokeSessionsExcept(S) ==
    /\ RevokeSessions(ActiveSessions \ S)
    /\ spared' = spared \union (ActiveSessions \ S)
    /\ UNCHANGED <<active, newer, tokens, requests, crashes, late, overLimit>>

LogoutAllSessions == \E s \in Sessions : RevokeSessionsExcept({s})
ChangePassword == RevokeSessionsExcept({})

(* revokeAllSessionsAndTokens, in the transaction of its two callers. *)
RevokeEverything ==
    /\ RevokeSessions(ActiveSessions)
    /\ RevokeTokensOf(Sessions)

(* resetPassword and updateUser read users.status before their transaction.  *)
StartReset(r) ==
    /\ active
    /\ Start(r, "reset", None, None)
    /\ UNCHANGED <<active, sessions, newer, tokens, crashes, observed>>

ResetPassword(r) ==
    /\ At(r, "reset")
    /\ RevokeEverything
    /\ End(r)
    /\ UNCHANGED <<active, newer, crashes, observed>>

(* updateUser to a status other than ACTIVE: nothing is revoked when the     *)
(* status read is the new one already.  deleteUser always revokes.           *)
StartDeactivation(r) ==
    /\ \/ Start(r, "deactivate", None, None)
       \/ ~active /\ Start(r, "setInactive", None, None)
    /\ UNCHANGED <<active, sessions, newer, tokens, crashes, observed>>

DeactivateUser(r) ==
    /\ At(r, "deactivate")
    /\ active' = FALSE
    /\ RevokeEverything
    /\ End(r)
    /\ UNCHANGED <<newer, crashes, observed>>

SetInactive(r) ==
    /\ At(r, "setInactive")
    /\ active' = FALSE
    /\ End(r)
    /\ UNCHANGED <<sessions, newer, tokens, crashes, observed>>

ReactivateUser ==
    /\ ~active
    /\ active' = TRUE
    /\ UNCHANGED <<sessions, newer, tokens, requests, crashes, observed>>

-----------------------------------------------------------------------------
(* Failures                                                                  *)

(* The request dies: what it has written stays, the rest is never written. *)
Crash(r) ==
    /\ ~At(r, "none")
    /\ crashes < MaxCrashes
    /\ crashes' = crashes + 1
    /\ spared' = IF At(r, "evictTokens") THEN spared \union requests[r].victims
                 ELSE IF At(r, "adminTokens") THEN spared \union {requests[r].session}
                 ELSE spared
    /\ overLimit' = IF requests[r].step \in {"firstToken", "limit", "evictSessions"}
                    THEN overLimit + 1
                    ELSE overLimit
    /\ End(r)
    /\ UNCHANGED <<active, sessions, newer, tokens, late>>

-----------------------------------------------------------------------------
Login(r) ==
    \/ StartLogin(r)
    \/ \E s \in Sessions : CreateSession(r, s)
    \/ \E t \in Tokens : CreateFirstToken(r, t)
    \/ ReadActiveSessions(r)
    \/ EvictSessions(r)
    \/ EvictTokens(r)

Refresh(r) ==
    \/ \E t \in Tokens : PresentUsedToken(r, t) \/ PresentUsableToken(r, t)
    \/ CheckIdle(r)
    \/ CheckUser(r)
    \/ \E t \in Tokens : MintSuccessor(r, t)
    \/ MarkUsed(r)
    \/ TouchSession(r)

Revoke(r) ==
    \/ \E s \in Sessions : StartRevocation(r, s) \/ AdminRevokeSession(r, s)
    \/ RevokeTokens(r)
    \/ RevokeFamily(r)
    \/ RevokeSession(r)
    \/ AdminRevokeTokens(r)

Account(r) ==
    \/ StartReset(r)
    \/ ResetPassword(r)
    \/ StartDeactivation(r)
    \/ DeactivateUser(r)
    \/ SetInactive(r)

Next ==
    \/ \E r \in Requests : Login(r) \/ Refresh(r) \/ Revoke(r) \/ Account(r) \/ Crash(r)
    \/ LogoutAllSessions
    \/ ChangePassword
    \/ ReactivateUser

Spec == Init /\ [][Next]_vars

-----------------------------------------------------------------------------
(* Requests that have revoked a session and still owe it the tokens. *)
RevocationPending(s) ==
    \E r \in Requests :
        \/ At(r, "evictTokens") /\ s \in requests[r].victims
        \/ At(r, "adminTokens") /\ s = requests[r].session

(* Logout, eviction, reuse detection, the idle timeout, password reset and   *)
(* deactivation all reach the refresh tokens: a usable token of a revoked    *)
(* session was minted after that revocation began, by a request that had     *)
(* read the old token before, or the session was revoked by a request that   *)
(* left tokens alone (or died before it came to them).                       *)
RevocationReachesTokens ==
    \A t \in Tokens :
        Usable(t) /\ sessions[tokens[t].session] = "revoked" =>
            \/ t \in late
            \/ tokens[t].session \in spared
            \/ RevocationPending(tokens[t].session)

(* Logins between createSession and the eviction their limit check led to. *)
Entering == {r \in Requests : requests[r].step \in {"firstToken", "limit", "evictSessions"}}

(* The active sessions of a user are at most the limit, plus one for each    *)
(* login that has not enforced it yet and one for each that died before: the *)
(* last of several concurrent logins to read the sessions sees them all.     *)
SessionsWithinLimit ==
    Cardinality(ActiveSessions) <= Limit + Cardinality(Entering) + overLimit

(* refresh() mints before it marks: a token is used only when its successor  *)
(* is stored, in the same session, so a dying request strands nobody.        *)
UsedTokenHasSuccessor ==
    \A t \in Tokens : tokens[t].used =>
        \E u \in Tokens : tokens[u].row /\ tokens[u].from = t
                            /\ tokens[u].session = tokens[t].session

(* No later step of any request makes a revoked session active, or a used or *)
(* revoked token usable, again: touchSession writes after other requests     *)
(* may have revoked the session it touches.                                  *)
RevocationIsFinal ==
    [][/\ \A s \in Sessions : sessions[s] = "revoked" => sessions'[s] = "revoked"
       /\ \A t \in Tokens : tokens[t].row /\ ~Usable(t) => ~Usable(t)']_vars
=============================================================================
