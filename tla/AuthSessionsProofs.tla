-------------------------- MODULE AuthSessionsProofs --------------------------
(***************************************************************************)
(* Theorems about AuthSessions, for every set of sessions, tokens and      *)
(* concurrent requests, every session limit and any number of crashes.     *)
(***************************************************************************)
EXTENDS AuthSessions, FiniteSetTheorems, TLAPS

(* Strengthening of the invariants                                           *)

TokensOwned ==
    \A t \in Tokens :
        /\ tokens[t].row => tokens[t].session \in Sessions
        /\ tokens[t].used => tokens[t].row

(* What a request holds while it is at a step. *)
RequestsOwned ==
    \A r \in Requests :
        /\ requests[r].step \in {"firstToken", "limit", "evictSessions", "evictTokens", "checkIdle",
                                 "checkUser", "mint", "markUsed", "touch", "revokeFamily",
                                 "revokeTokens", "revokeSession", "adminTokens"}
              => requests[r].session \in Sessions
        /\ requests[r].step \in {"checkIdle", "checkUser", "mint", "markUsed"}
              => /\ requests[r].token \in Tokens
                 /\ tokens[requests[r].token].row
                 /\ tokens[requests[r].token].session = requests[r].session

(* Between mint and mark the successor is already stored. *)
MintedBeforeMarked ==
    \A r \in Requests : At(r, "markUsed") =>
        \E u \in Tokens : /\ tokens[u].row
                          /\ tokens[u].from = requests[r].token
                          /\ tokens[u].session = requests[r].session

(* A request about to revoke a session has reached its tokens. *)
TokensRevokedFirst ==
    \A r \in Requests : At(r, "revokeSession") =>
        \A t \in Tokens : tokens[t].session = requests[r].session /\ Usable(t) => t \in late

(* Inductive: with what a request holds, the steps that mark a token and     *)
(* revoke a session keep the two token invariants.                           *)
IInv ==
    /\ TypeOK
    /\ TokensOwned
    /\ RequestsOwned
    /\ MintedBeforeMarked
    /\ TokensRevokedFirst
    /\ UsedTokenHasSuccessor
    /\ RevocationReachesTokens

(* lastActiveAt orders the session rows. *)
NewerOrdersSessions ==
    LET rows == {s \in Sessions : sessions[s] # "absent"} IN
    /\ \A s \in rows : <<s, s>> \notin newer
    /\ \A s, u \in rows : s # u => <<s, u>> \in newer \/ <<u, s>> \in newer
    /\ \A s, u, v \in rows : <<s, u>> \in newer /\ <<u, v>> \in newer => <<s, v>> \in newer

Evicting == {r \in Requests : At(r, "evictSessions")}
Victims(Q) == UNION {requests[r].victims : r \in Q}

(* Whichever of the evictions to come are done, those who remain to enforce  *)
(* the limit account for the sessions above it.                              *)
EvictionsSuffice ==
    \A Q \in SUBSET Evicting :
        Cardinality(ActiveSessions \ Victims(Q)) <= Limit + Cardinality(Entering \ Q) + overLimit

(* Inductive, for SessionsWithinLimit: the case of no eviction done.         *)
LimitInv ==
    /\ IsFiniteSet(ActiveSessions)
    /\ IsFiniteSet(Entering)
    /\ NewerOrdersSessions
    /\ EvictionsSuffice

-----------------------------------------------------------------------------

LEMMA InitialTypes == Init => TypeOK
  BY CrashAssumption
     DEF Init, TypeOK, TokenRow, Request, Steps, NoRequest, NoToken

(* The statements on refresh_tokens keep the rows' types. *)
LEMMA TokenStatementTypes ==
  ASSUME TypeOK
  PROVE  /\ \A S : RevokeTokensOf(S) => tokens' \in [Tokens -> TokenRow]
         /\ \A s : RevokeFamilyOf(s) => tokens' \in [Tokens -> TokenRow]
         /\ \A t \in Tokens, s \in Sessions \union {None}, from \in Tokens \union {None} :
              NewToken(t, s, from) => /\ tokens' \in [Tokens -> TokenRow]
                                      /\ late' \in SUBSET Tokens
<1>0. \A t \in Tokens : tokens[t] \in TokenRow /\ [tokens[t] EXCEPT !.revoked = TRUE] \in TokenRow
  BY DEF TypeOK, TokenRow
<1>1. \A S : RevokeTokensOf(S) => tokens' \in [Tokens -> TokenRow]
  BY <1>0 DEF RevokeTokensOf
<1>2. \A s : RevokeFamilyOf(s) => tokens' \in [Tokens -> TokenRow]
  BY <1>0 DEF RevokeFamilyOf
<1>3. ASSUME NEW t \in Tokens, NEW s \in Sessions \union {None}, NEW from \in Tokens \union {None},
             NewToken(t, s, from)
      PROVE tokens' \in [Tokens -> TokenRow] /\ late' \in SUBSET Tokens
  <2> DEFINE row == [row |-> TRUE, session |-> s, used |-> FALSE, revoked |-> FALSE, from |-> from]
  <2>1. row \in TokenRow
    BY DEF TokenRow
  <2>2. tokens' = [tokens EXCEPT ![t] = row]
    BY <1>3 DEF NewToken
  <2>3. late' = late \/ late' = late \union {t}
    BY <1>3 DEF NewToken
  <2> HIDE DEF row
  <2> QED
    BY <2>1, <2>2, <2>3 DEF TypeOK
<1> QED
  BY <1>1, <1>2, <1>3

LEMMA SessionStatementTypes ==
  ASSUME TypeOK
  PROVE  /\ \A S : RevokeSessions(S) => sessions' \in [Sessions -> {"absent", "active", "revoked"}]
         /\ \A s \in Sessions : MoveToFront(s) => newer' \in SUBSET (Sessions \X Sessions)
  BY DEF TypeOK, RevokeSessions, MoveToFront

LEMMA RequestStatementTypes ==
  ASSUME TypeOK, NEW r \in Requests
  PROVE  /\ \A step \in Steps, s \in Sessions \union {None} :
              Start(r, step, s, None) => requests' \in [Requests -> Request]
         /\ \A step \in Steps, s \in Sessions \union {None}, t \in Tokens :
              Start(r, step, s, t) => requests' \in [Requests -> Request]
         /\ \A step \in Steps : Goto(r, step) => requests' \in [Requests -> Request]
         /\ End(r) => requests' \in [Requests -> Request]
         /\ requests[r].session \in Sessions \union {None}
         /\ requests[r].token \in Tokens \union {None}
         /\ requests[r].victims \in SUBSET Sessions
         /\ requests[r].step \in Steps
<1> USE DEF TypeOK
<1>1. requests[r] \in Request
  OBVIOUS
<1>2. ASSUME NEW step \in Steps, NEW s \in Sessions \union {None}, NEW t \in Tokens \union {None}
      PROVE [step |-> step, session |-> s, token |-> t, victims |-> {}] \in Request
  BY DEF Request
<1>3. NoRequest \in Request
  BY DEF NoRequest, Request, Steps
<1>4. ASSUME NEW step \in Steps, Goto(r, step) PROVE requests' \in [Requests -> Request]
  BY <1>4 DEF Goto, Request
<1>5. End(r) => requests' \in [Requests -> Request]
  BY <1>3 DEF End
<1>6. ASSUME NEW step \in Steps, NEW s \in Sessions \union {None}, NEW t \in Tokens \union {None},
             Start(r, step, s, t)
      PROVE requests' \in [Requests -> Request]
  BY <1>2, <1>6 DEF Start
<1> QED
  BY <1>1, <1>4, <1>5, <1>6 DEF Request

LEMMA StepKeepsTypes == TypeOK /\ RequestsOwned /\ [Next]_vars => TypeOK'
<1> SUFFICES ASSUME TypeOK, RequestsOwned, [Next]_vars PROVE TypeOK'
  OBVIOUS
<1> USE DEF TypeOK, observed
<1>1. ASSUME NEW r \in Requests, StartLogin(r) \/ StartReset(r) \/ StartDeactivation(r)
      PROVE TypeOK'
  BY <1>1, RequestStatementTypes DEF StartLogin, StartReset, StartDeactivation, Steps
<1>2. ASSUME NEW r \in Requests, NEW s \in Sessions, CreateSession(r, s) PROVE TypeOK'
  <2>1. [requests[r] EXCEPT !.step = "firstToken", !.session = s] \in Request
    BY DEF Request, Steps
  <2> QED
    BY <1>2, <2>1, SessionStatementTypes DEF CreateSession
<1>3. ASSUME NEW r \in Requests, NEW t \in Tokens, CreateFirstToken(r, t) PROVE TypeOK'
  BY <1>3, RequestStatementTypes, TokenStatementTypes DEF CreateFirstToken, Steps
<1>4. ASSUME NEW r \in Requests, ReadActiveSessions(r) PROVE TypeOK'
  <2>1. Excess \in SUBSET Sessions
    BY DEF Excess, ActiveSessions
  <2>2. [requests[r] EXCEPT !.step = "evictSessions", !.victims = Excess] \in Request
    BY <2>1 DEF Request, Steps
  <2> QED
    BY <1>4, <2>2, RequestStatementTypes DEF ReadActiveSessions
<1>5. ASSUME NEW r \in Requests, EvictSessions(r) PROVE TypeOK'
  BY <1>5, RequestStatementTypes, SessionStatementTypes DEF EvictSessions, Steps
<1>6. ASSUME NEW r \in Requests, EvictTokens(r) \/ AdminRevokeTokens(r) PROVE TypeOK'
  BY <1>6, RequestStatementTypes, TokenStatementTypes DEF EvictTokens, AdminRevokeTokens
<1>7. ASSUME NEW r \in Requests, NEW t \in Tokens, PresentUsedToken(r, t) \/ PresentUsableToken(r, t)
      PROVE TypeOK'
  <2>1. tokens[t].session \in Sessions \union {None}
    BY DEF TokenRow
  <2> QED
    BY <1>7, <2>1, RequestStatementTypes DEF PresentUsedToken, PresentUsableToken, Steps
<1>8. ASSUME NEW r \in Requests, CheckIdle(r) \/ CheckUser(r) PROVE TypeOK'
  <2>1. [requests[r] EXCEPT !.step = "revokeTokens", !.token = None] \in Request
    BY DEF Request, Steps
  <2> QED
    BY <1>8, <2>1, RequestStatementTypes DEF CheckIdle, CheckUser, Steps
<1>9. ASSUME NEW r \in Requests, NEW t \in Tokens, MintSuccessor(r, t) PROVE TypeOK'
  BY <1>9, RequestStatementTypes, TokenStatementTypes DEF MintSuccessor, Steps
<1>10. ASSUME NEW r \in Requests, MarkUsed(r) PROVE TypeOK'
  <2>1. [requests[r] EXCEPT !.step = "touch", !.token = None] \in Request
    BY DEF Request, Steps
  <2>2. tokens' \in [Tokens -> TokenRow]
    BY <1>10 DEF MarkUsed, TokenRow
  <2> QED
    BY <1>10, <2>1, <2>2 DEF MarkUsed
<1>11. ASSUME NEW r \in Requests, TouchSession(r) PROVE TypeOK'
  <2>1. requests[r].session \in Sessions
    BY <1>11 DEF TouchSession, At, RequestsOwned
  <2> QED
    BY <1>11, <2>1, RequestStatementTypes, SessionStatementTypes DEF TouchSession
<1>12. ASSUME NEW r \in Requests, NEW s \in Sessions, StartRevocation(r, s) \/ AdminRevokeSession(r, s)
       PROVE TypeOK'
  BY <1>12, RequestStatementTypes, SessionStatementTypes
     DEF StartRevocation, AdminRevokeSession, Steps
<1>13. ASSUME NEW r \in Requests, RevokeTokens(r) \/ RevokeFamily(r) PROVE TypeOK'
  BY <1>13, RequestStatementTypes, TokenStatementTypes DEF RevokeTokens, RevokeFamily, Steps
<1>14. ASSUME NEW r \in Requests, RevokeSession(r) PROVE TypeOK'
  BY <1>14, RequestStatementTypes, SessionStatementTypes DEF RevokeSession
<1>15. ASSUME NEW r \in Requests, ResetPassword(r) \/ DeactivateUser(r) \/ SetInactive(r)
       PROVE TypeOK'
  BY <1>15, RequestStatementTypes, SessionStatementTypes, TokenStatementTypes
     DEF ResetPassword, DeactivateUser, SetInactive, RevokeEverything
<1>16. ASSUME NEW r \in Requests, Crash(r) PROVE TypeOK'
  <2>1. crashes' \in 0..MaxCrashes /\ overLimit' \in Nat
    BY <1>16, CrashAssumption DEF Crash
  <2>2. spared' \in SUBSET Sessions
    BY <1>16, RequestStatementTypes DEF Crash, At, RequestsOwned
  <2> QED
    BY <1>16, <2>1, <2>2, RequestStatementTypes DEF Crash
<1>17. ASSUME NEW S \in SUBSET Sessions, RevokeSessionsExcept(S) PROVE TypeOK'
  BY <1>17, SessionStatementTypes DEF RevokeSessionsExcept, ActiveSessions
<1>18. CASE ReactivateUser
  BY <1>18 DEF ReactivateUser
<1>19. CASE UNCHANGED vars
  BY <1>19 DEF vars
<1> QED
  BY <1>1, <1>2, <1>3, <1>4, <1>5, <1>6, <1>7, <1>8, <1>9, <1>10, <1>11, <1>12, <1>13, <1>14,
     <1>15, <1>16, <1>17, <1>18, <1>19
     DEF Next, Login, Refresh, Revoke, Account, LogoutAllSessions, ChangePassword
(* A step that leaves the variables of a conjunct alone leaves the conjunct true. *)
LEMMA Frame ==
    /\ TokensOwned /\ UNCHANGED tokens => TokensOwned'
    /\ UsedTokenHasSuccessor /\ UNCHANGED tokens => UsedTokenHasSuccessor'
    /\ RequestsOwned /\ UNCHANGED <<tokens, requests>> => RequestsOwned'
    /\ MintedBeforeMarked /\ UNCHANGED <<tokens, requests>> => MintedBeforeMarked'
    /\ TokensRevokedFirst /\ UNCHANGED <<tokens, requests, late>> => TokensRevokedFirst'
    /\ RevocationReachesTokens /\ UNCHANGED <<tokens, requests, sessions, late, spared>>
          => RevocationReachesTokens'
  BY DEF TokensOwned, UsedTokenHasSuccessor, RequestsOwned, MintedBeforeMarked,
         TokensRevokedFirst, RevocationReachesTokens, RevocationPending, Usable, At

LEMMA InvariantHoldsInitially == Init => IInv
  BY InitialTypes
     DEF Init, IInv, TokensOwned, RequestsOwned, MintedBeforeMarked, TokensRevokedFirst,
         UsedTokenHasSuccessor, RevocationReachesTokens, Usable, At, NoRequest, NoToken

(* One step per action, and under it one per conjunct the action disturbs. *)
LEMMA StepKeepsInvariant == IInv /\ [Next]_vars => IInv'
<1> SUFFICES ASSUME IInv, [Next]_vars PROVE IInv'
  OBVIOUS
<1> USE DEF IInv, TypeOK, observed, At
<1>1. ASSUME NEW r \in Requests, StartLogin(r) PROVE IInv'
  <2>1. TokensOwned' /\ UsedTokenHasSuccessor'
    BY <1>1, Frame DEF StartLogin
  <2>2. RequestsOwned'
    BY <1>1 DEF StartLogin, Start, RequestsOwned
  <2>3. MintedBeforeMarked'
    BY <1>1 DEF StartLogin, Start, MintedBeforeMarked
  <2>4. TokensRevokedFirst'
    BY <1>1 DEF StartLogin, Start, TokensRevokedFirst, Usable
  <2>5. RevocationReachesTokens'
    BY <1>1 DEF StartLogin, Start, RevocationReachesTokens, Usable, RevocationPending
  <2> QED
    BY <2>1, <2>2, <2>3, <2>4, <2>5, StepKeepsTypes
<1>2. ASSUME NEW r \in Requests, NEW s \in Sessions, CreateSession(r, s) PROVE IInv'
  <2>1. TokensOwned' /\ UsedTokenHasSuccessor'
    BY <1>2, Frame DEF CreateSession
  <2>2. RequestsOwned'
    BY <1>2 DEF CreateSession, RequestsOwned
  <2>3. MintedBeforeMarked'
    BY <1>2 DEF CreateSession, MintedBeforeMarked
  <2>4. TokensRevokedFirst'
    BY <1>2 DEF CreateSession, TokensRevokedFirst, Usable
  <2>5. RevocationReachesTokens'
    BY <1>2 DEF CreateSession, RevocationReachesTokens, Usable, RevocationPending
  <2> QED
    BY <2>1, <2>2, <2>3, <2>4, <2>5, StepKeepsTypes
<1>3. ASSUME NEW r \in Requests, NEW t \in Tokens, CreateFirstToken(r, t) PROVE IInv'
  <2>1. TokensOwned'
    BY <1>3 DEF CreateFirstToken, Goto, NewToken, TokensOwned, RequestsOwned
  <2>2. RequestsOwned'
    BY <1>3 DEF CreateFirstToken, Goto, NewToken, RequestsOwned
  <2>3. MintedBeforeMarked'
    BY <1>3 DEF CreateFirstToken, Goto, NewToken, MintedBeforeMarked
  <2>4. TokensRevokedFirst'
    BY <1>3 DEF CreateFirstToken, Goto, NewToken, TokensRevokedFirst, Usable, TokensOf
  <2>5. UsedTokenHasSuccessor'
    BY <1>3 DEF CreateFirstToken, Goto, NewToken, UsedTokenHasSuccessor
  <2>6. RevocationReachesTokens'
    BY <1>3
       DEF CreateFirstToken, Goto, NewToken, RevocationReachesTokens, Usable, RevocationPending,
           TokensOf
  <2> QED
    BY <2>1, <2>2, <2>3, <2>4, <2>5, <2>6, StepKeepsTypes
<1>4. ASSUME NEW r \in Requests, ReadActiveSessions(r) PROVE IInv'
  <2>1. TokensOwned' /\ UsedTokenHasSuccessor'
    BY <1>4, Frame DEF ReadActiveSessions
  <2>2. RequestsOwned'
    <3>1. CASE Excess = {}
      BY <1>4, <3>1 DEF ReadActiveSessions, End, NoRequest, RequestsOwned
    <3>2. CASE requests' = [requests EXCEPT ![r] = [@ EXCEPT !.step = "evictSessions", !.victims = Excess]]
      BY <1>4, <3>2 DEF ReadActiveSessions, End, NoRequest, RequestsOwned
    <3> QED
      BY <1>4, <3>1, <3>2 DEF ReadActiveSessions
  <2>3. MintedBeforeMarked'
    <3>1. CASE Excess = {}
      BY <1>4, <3>1 DEF ReadActiveSessions, End, NoRequest, MintedBeforeMarked
    <3>2. CASE requests' = [requests EXCEPT ![r] = [@ EXCEPT !.step = "evictSessions", !.victims = Excess]]
      BY <1>4, <3>2 DEF ReadActiveSessions, End, NoRequest, MintedBeforeMarked
    <3> QED
      BY <1>4, <3>1, <3>2 DEF ReadActiveSessions
  <2>4. TokensRevokedFirst'
    <3>1. CASE Excess = {}
      BY <1>4, <3>1 DEF ReadActiveSessions, End, NoRequest, TokensRevokedFirst, Usable
    <3>2. CASE requests' = [requests EXCEPT ![r] = [@ EXCEPT !.step = "evictSessions", !.victims = Excess]]
      BY <1>4, <3>2 DEF ReadActiveSessions, End, NoRequest, TokensRevokedFirst, Usable
    <3> QED
      BY <1>4, <3>1, <3>2 DEF ReadActiveSessions
  <2>5. RevocationReachesTokens'
    <3>1. CASE Excess = {}
      BY <1>4, <3>1
         DEF ReadActiveSessions, End, NoRequest, RevocationReachesTokens, Usable,
             RevocationPending
    <3>2. CASE requests' = [requests EXCEPT ![r] = [@ EXCEPT !.step = "evictSessions", !.victims = Excess]]
      BY <1>4, <3>2
         DEF ReadActiveSessions, End, NoRequest, RevocationReachesTokens, Usable,
             RevocationPending
    <3> QED
      BY <1>4, <3>1, <3>2 DEF ReadActiveSessions
  <2> QED
    BY <2>1, <2>2, <2>3, <2>4, <2>5, StepKeepsTypes
<1>5. ASSUME NEW r \in Requests, EvictSessions(r) PROVE IInv'
  <2>1. TokensOwned' /\ UsedTokenHasSuccessor'
    BY <1>5, Frame DEF EvictSessions
  <2>2. RequestsOwned'
    BY <1>5 DEF EvictSessions, Goto, RevokeSessions, RequestsOwned
  <2>3. MintedBeforeMarked'
    BY <1>5 DEF EvictSessions, Goto, RevokeSessions, MintedBeforeMarked
  <2>4. TokensRevokedFirst'
    BY <1>5 DEF EvictSessions, Goto, RevokeSessions, TokensRevokedFirst, Usable
  <2>5. RevocationReachesTokens'
    BY <1>5
       DEF EvictSessions, Goto, RevokeSessions, RevocationReachesTokens, TokensOwned,
           RequestsOwned, Usable, RevocationPending
  <2> QED
    BY <2>1, <2>2, <2>3, <2>4, <2>5, StepKeepsTypes
<1>6. ASSUME NEW r \in Requests, EvictTokens(r) PROVE IInv'
  <2>1. TokensOwned'
    BY <1>6 DEF EvictTokens, End, NoRequest, RevokeTokensOf, TokensOwned
  <2>2. RequestsOwned'
    BY <1>6 DEF EvictTokens, End, NoRequest, RevokeTokensOf, RequestsOwned
  <2>3. MintedBeforeMarked'
    BY <1>6 DEF EvictTokens, End, NoRequest, RevokeTokensOf, MintedBeforeMarked
  <2>4. TokensRevokedFirst'
    BY <1>6 DEF EvictTokens, End, NoRequest, RevokeTokensOf, TokensRevokedFirst, Usable
  <2>5. UsedTokenHasSuccessor'
    BY <1>6 DEF EvictTokens, End, NoRequest, RevokeTokensOf, UsedTokenHasSuccessor
  <2>6. RevocationReachesTokens'
    BY <1>6
       DEF EvictTokens, End, NoRequest, RevokeTokensOf, RevocationReachesTokens, Usable,
           RevocationPending
  <2> QED
    BY <2>1, <2>2, <2>3, <2>4, <2>5, <2>6, StepKeepsTypes
<1>7. ASSUME NEW r \in Requests, NEW t \in Tokens, PresentUsedToken(r, t) PROVE IInv'
  <2>1. TokensOwned' /\ UsedTokenHasSuccessor'
    BY <1>7, Frame DEF PresentUsedToken
  <2>2. RequestsOwned'
    BY <1>7 DEF PresentUsedToken, Start, RequestsOwned, TokensOwned, Request, TokenRow, Steps
  <2>3. MintedBeforeMarked'
    BY <1>7 DEF PresentUsedToken, Start, MintedBeforeMarked
  <2>4. TokensRevokedFirst'
    BY <1>7 DEF PresentUsedToken, Start, TokensRevokedFirst, Usable
  <2>5. RevocationReachesTokens'
    BY <1>7 DEF PresentUsedToken, Start, RevocationReachesTokens, Usable, RevocationPending
  <2> QED
    BY <2>1, <2>2, <2>3, <2>4, <2>5, StepKeepsTypes
<1>8. ASSUME NEW r \in Requests, NEW t \in Tokens, PresentUsableToken(r, t) PROVE IInv'
  <2>1. TokensOwned' /\ UsedTokenHasSuccessor'
    BY <1>8, Frame DEF PresentUsableToken
  <2>2. RequestsOwned'
    BY <1>8
       DEF PresentUsableToken, Start, RequestsOwned, TokensOwned, Usable, Request, TokenRow,
           Steps
  <2>3. MintedBeforeMarked'
    BY <1>8 DEF PresentUsableToken, Start, MintedBeforeMarked, Usable
  <2>4. TokensRevokedFirst'
    BY <1>8 DEF PresentUsableToken, Start, TokensRevokedFirst, Usable
  <2>5. RevocationReachesTokens'
    BY <1>8 DEF PresentUsableToken, Start, RevocationReachesTokens, Usable, RevocationPending
  <2> QED
    BY <2>1, <2>2, <2>3, <2>4, <2>5, StepKeepsTypes
<1>9. ASSUME NEW r \in Requests, CheckIdle(r) PROVE IInv'
  <2>1. TokensOwned' /\ UsedTokenHasSuccessor'
    BY <1>9, Frame DEF CheckIdle
  <2>2. RequestsOwned'
    <3>1. CASE requests' = [requests EXCEPT ![r] = [@ EXCEPT !.step = "revokeTokens", !.token = None]]
      BY <1>9, <3>1 DEF CheckIdle, Goto, RequestsOwned
    <3>2. CASE Goto(r, "checkUser")
      BY <1>9, <3>2 DEF CheckIdle, Goto, RequestsOwned
    <3> QED
      BY <1>9, <3>1, <3>2 DEF CheckIdle
  <2>3. MintedBeforeMarked'
    <3>1. CASE requests' = [requests EXCEPT ![r] = [@ EXCEPT !.step = "revokeTokens", !.token = None]]
      BY <1>9, <3>1 DEF CheckIdle, Goto, MintedBeforeMarked
    <3>2. CASE Goto(r, "checkUser")
      BY <1>9, <3>2 DEF CheckIdle, Goto, MintedBeforeMarked
    <3> QED
      BY <1>9, <3>1, <3>2 DEF CheckIdle
  <2>4. TokensRevokedFirst'
    <3>1. CASE requests' = [requests EXCEPT ![r] = [@ EXCEPT !.step = "revokeTokens", !.token = None]]
      BY <1>9, <3>1 DEF CheckIdle, Goto, TokensRevokedFirst, Usable
    <3>2. CASE Goto(r, "checkUser")
      BY <1>9, <3>2 DEF CheckIdle, Goto, TokensRevokedFirst, Usable
    <3> QED
      BY <1>9, <3>1, <3>2 DEF CheckIdle
  <2>5. RevocationReachesTokens'
    <3>1. CASE requests' = [requests EXCEPT ![r] = [@ EXCEPT !.step = "revokeTokens", !.token = None]]
      BY <1>9, <3>1 DEF CheckIdle, Goto, RevocationReachesTokens, Usable, RevocationPending
    <3>2. CASE Goto(r, "checkUser")
      BY <1>9, <3>2 DEF CheckIdle, Goto, RevocationReachesTokens, Usable, RevocationPending
    <3> QED
      BY <1>9, <3>1, <3>2 DEF CheckIdle
  <2> QED
    BY <2>1, <2>2, <2>3, <2>4, <2>5, StepKeepsTypes
<1>10. ASSUME NEW r \in Requests, CheckUser(r) PROVE IInv'
  <2>1. TokensOwned' /\ UsedTokenHasSuccessor'
    BY <1>10, Frame DEF CheckUser
  <2>2. RequestsOwned'
    BY <1>10
       DEF CheckUser, Goto, End, NoRequest, RequestsOwned, TokensOwned, Request, TokenRow, Steps
  <2>3. MintedBeforeMarked'
    BY <1>10
       DEF CheckUser, Goto, End, NoRequest, MintedBeforeMarked, TokensOwned, RequestsOwned,
           Request, TokenRow, Steps
  <2>4. TokensRevokedFirst'
    BY <1>10
       DEF CheckUser, Goto, End, NoRequest, TokensRevokedFirst, TokensOwned, RequestsOwned,
           Usable, Request, TokenRow, Steps
  <2>5. RevocationReachesTokens'
    BY <1>10
       DEF CheckUser, Goto, End, NoRequest, RevocationReachesTokens, Usable, RevocationPending
  <2> QED
    BY <2>1, <2>2, <2>3, <2>4, <2>5, StepKeepsTypes
<1>11. ASSUME NEW r \in Requests, NEW t \in Tokens, MintSuccessor(r, t) PROVE IInv'
  <2>1. TokensOwned'
    BY <1>11 DEF MintSuccessor, Goto, NewToken, TokensOwned, RequestsOwned
  <2>2. RequestsOwned'
    BY <1>11 DEF MintSuccessor, Goto, NewToken, RequestsOwned
  <2>3. MintedBeforeMarked'
    BY <1>11 DEF MintSuccessor, Goto, NewToken, MintedBeforeMarked
  <2>4. TokensRevokedFirst'
    BY <1>11 DEF MintSuccessor, Goto, NewToken, TokensRevokedFirst, Usable, TokensOf
  <2>5. UsedTokenHasSuccessor'
    BY <1>11 DEF MintSuccessor, Goto, NewToken, UsedTokenHasSuccessor
  <2>6. RevocationReachesTokens'
    BY <1>11
       DEF MintSuccessor, Goto, NewToken, RevocationReachesTokens, Usable, RevocationPending,
           TokensOf
  <2> QED
    BY <2>1, <2>2, <2>3, <2>4, <2>5, <2>6, StepKeepsTypes
<1>12. ASSUME NEW r \in Requests, MarkUsed(r) PROVE IInv'
  <2>1. TokensOwned'
    BY <1>12 DEF MarkUsed, TokensOwned, RequestsOwned
  <2>2. RequestsOwned'
    BY <1>12 DEF MarkUsed, RequestsOwned
  <2>3. MintedBeforeMarked'
    BY <1>12 DEF MarkUsed, MintedBeforeMarked
  <2>4. TokensRevokedFirst'
    BY <1>12 DEF MarkUsed, TokensRevokedFirst, Usable
  <2>5. UsedTokenHasSuccessor'
    BY <1>12 DEF MarkUsed, UsedTokenHasSuccessor, RequestsOwned, MintedBeforeMarked
  <2>6. RevocationReachesTokens'
    BY <1>12 DEF MarkUsed, RevocationReachesTokens, Usable, RevocationPending
  <2> QED
    BY <2>1, <2>2, <2>3, <2>4, <2>5, <2>6, StepKeepsTypes
<1>13. ASSUME NEW r \in Requests, TouchSession(r) PROVE IInv'
  <2>1. TokensOwned' /\ UsedTokenHasSuccessor'
    BY <1>13, Frame DEF TouchSession
  <2>2. RequestsOwned'
    BY <1>13 DEF TouchSession, End, NoRequest, RequestsOwned
  <2>3. MintedBeforeMarked'
    BY <1>13 DEF TouchSession, End, NoRequest, MintedBeforeMarked
  <2>4. TokensRevokedFirst'
    BY <1>13 DEF TouchSession, End, NoRequest, TokensRevokedFirst, Usable
  <2>5. RevocationReachesTokens'
    BY <1>13
       DEF TouchSession, End, NoRequest, RevocationReachesTokens, Usable, RevocationPending
  <2> QED
    BY <2>1, <2>2, <2>3, <2>4, <2>5, StepKeepsTypes
<1>14. ASSUME NEW r \in Requests, NEW s \in Sessions, StartRevocation(r, s) PROVE IInv'
  <2>1. TokensOwned' /\ UsedTokenHasSuccessor'
    BY <1>14, Frame DEF StartRevocation
  <2>2. RequestsOwned'
    BY <1>14 DEF StartRevocation, Start, RequestsOwned
  <2>3. MintedBeforeMarked'
    BY <1>14 DEF StartRevocation, Start, MintedBeforeMarked
  <2>4. TokensRevokedFirst'
    BY <1>14 DEF StartRevocation, Start, TokensRevokedFirst, Usable
  <2>5. RevocationReachesTokens'
    BY <1>14 DEF StartRevocation, Start, RevocationReachesTokens, Usable, RevocationPending
  <2> QED
    BY <2>1, <2>2, <2>3, <2>4, <2>5, StepKeepsTypes
<1>15. ASSUME NEW r \in Requests, RevokeTokens(r) PROVE IInv'
  <2>1. TokensOwned'
    BY <1>15 DEF RevokeTokens, Goto, RevokeTokensOf, TokensOwned
  <2>2. RequestsOwned'
    BY <1>15 DEF RevokeTokens, Goto, RevokeTokensOf, RequestsOwned
  <2>3. MintedBeforeMarked'
    BY <1>15 DEF RevokeTokens, Goto, RevokeTokensOf, MintedBeforeMarked
  <2>4. TokensRevokedFirst'
    BY <1>15 DEF RevokeTokens, Goto, RevokeTokensOf, TokensRevokedFirst, Usable
  <2>5. UsedTokenHasSuccessor'
    BY <1>15 DEF RevokeTokens, Goto, RevokeTokensOf, UsedTokenHasSuccessor
  <2>6. RevocationReachesTokens'
    BY <1>15
       DEF RevokeTokens, Goto, RevokeTokensOf, RevocationReachesTokens, Usable,
           RevocationPending
  <2> QED
    BY <2>1, <2>2, <2>3, <2>4, <2>5, <2>6, StepKeepsTypes
<1>16. ASSUME NEW r \in Requests, RevokeFamily(r) PROVE IInv'
  <2>1. TokensOwned'
    BY <1>16 DEF RevokeFamily, Goto, RevokeFamilyOf, TokensOwned
  <2>2. RequestsOwned'
    BY <1>16 DEF RevokeFamily, Goto, RevokeFamilyOf, RequestsOwned
  <2>3. MintedBeforeMarked'
    BY <1>16 DEF RevokeFamily, Goto, RevokeFamilyOf, MintedBeforeMarked
  <2>4. TokensRevokedFirst'
    BY <1>16 DEF RevokeFamily, Goto, RevokeFamilyOf, TokensRevokedFirst, Usable
  <2>5. UsedTokenHasSuccessor'
    BY <1>16 DEF RevokeFamily, Goto, RevokeFamilyOf, UsedTokenHasSuccessor
  <2>6. RevocationReachesTokens'
    BY <1>16
       DEF RevokeFamily, Goto, RevokeFamilyOf, RevocationReachesTokens, Usable,
           RevocationPending
  <2> QED
    BY <2>1, <2>2, <2>3, <2>4, <2>5, <2>6, StepKeepsTypes
<1>17. ASSUME NEW r \in Requests, RevokeSession(r) PROVE IInv'
  <2>1. TokensOwned' /\ UsedTokenHasSuccessor'
    BY <1>17, Frame DEF RevokeSession
  <2>2. RequestsOwned'
    BY <1>17 DEF RevokeSession, End, NoRequest, RevokeSessions, RequestsOwned
  <2>3. MintedBeforeMarked'
    BY <1>17 DEF RevokeSession, End, NoRequest, RevokeSessions, MintedBeforeMarked
  <2>4. TokensRevokedFirst'
    BY <1>17 DEF RevokeSession, End, NoRequest, RevokeSessions, TokensRevokedFirst, Usable
  <2>5. RevocationReachesTokens'
    BY <1>17
       DEF RevokeSession, End, NoRequest, RevokeSessions, RevocationReachesTokens, TokensOwned,
           RequestsOwned, TokensRevokedFirst, Usable, RevocationPending, Request, TokenRow,
           Steps
  <2> QED
    BY <2>1, <2>2, <2>3, <2>4, <2>5, StepKeepsTypes
<1>18. ASSUME NEW r \in Requests, NEW s \in Sessions, AdminRevokeSession(r, s) PROVE IInv'
  <2>1. TokensOwned' /\ UsedTokenHasSuccessor'
    BY <1>18, Frame DEF AdminRevokeSession
  <2>2. RequestsOwned'
    BY <1>18 DEF AdminRevokeSession, Start, RevokeSessions, RequestsOwned
  <2>3. MintedBeforeMarked'
    BY <1>18 DEF AdminRevokeSession, Start, RevokeSessions, MintedBeforeMarked
  <2>4. TokensRevokedFirst'
    BY <1>18 DEF AdminRevokeSession, Start, RevokeSessions, TokensRevokedFirst, Usable
  <2>5. RevocationReachesTokens'
    BY <1>18
       DEF AdminRevokeSession, Start, RevokeSessions, RevocationReachesTokens, TokensOwned,
           RequestsOwned, Usable, RevocationPending, Request, TokenRow, Steps
  <2> QED
    BY <2>1, <2>2, <2>3, <2>4, <2>5, StepKeepsTypes
<1>19. ASSUME NEW r \in Requests, AdminRevokeTokens(r) PROVE IInv'
  <2>1. TokensOwned'
    BY <1>19 DEF AdminRevokeTokens, End, NoRequest, RevokeTokensOf, TokensOwned
  <2>2. RequestsOwned'
    BY <1>19 DEF AdminRevokeTokens, End, NoRequest, RevokeTokensOf, RequestsOwned
  <2>3. MintedBeforeMarked'
    BY <1>19 DEF AdminRevokeTokens, End, NoRequest, RevokeTokensOf, MintedBeforeMarked
  <2>4. TokensRevokedFirst'
    BY <1>19 DEF AdminRevokeTokens, End, NoRequest, RevokeTokensOf, TokensRevokedFirst, Usable
  <2>5. UsedTokenHasSuccessor'
    BY <1>19 DEF AdminRevokeTokens, End, NoRequest, RevokeTokensOf, UsedTokenHasSuccessor
  <2>6. RevocationReachesTokens'
    BY <1>19
       DEF AdminRevokeTokens, End, NoRequest, RevokeTokensOf, RevocationReachesTokens, Usable,
           RevocationPending
  <2> QED
    BY <2>1, <2>2, <2>3, <2>4, <2>5, <2>6, StepKeepsTypes
<1>20. ASSUME NEW S \in SUBSET Sessions, RevokeSessionsExcept(S) PROVE IInv'
  <2>1. TokensOwned' /\ UsedTokenHasSuccessor' /\ RequestsOwned' /\ MintedBeforeMarked' /\ TokensRevokedFirst'
    BY <1>20, Frame DEF RevokeSessionsExcept
  <2>2. RevocationReachesTokens'
    BY <1>20
       DEF RevokeSessionsExcept, RevokeSessions, ActiveSessions, RevocationReachesTokens,
           TokensOwned, RequestsOwned, Usable, RevocationPending, Request, TokenRow, Steps
  <2> QED
    BY <2>1, <2>2, StepKeepsTypes
<1>21. ASSUME NEW r \in Requests, StartReset(r) PROVE IInv'
  <2>1. TokensOwned' /\ UsedTokenHasSuccessor'
    BY <1>21, Frame DEF StartReset
  <2>2. RequestsOwned'
    BY <1>21 DEF StartReset, Start, RequestsOwned
  <2>3. MintedBeforeMarked'
    BY <1>21 DEF StartReset, Start, MintedBeforeMarked
  <2>4. TokensRevokedFirst'
    BY <1>21 DEF StartReset, Start, TokensRevokedFirst, Usable
  <2>5. RevocationReachesTokens'
    BY <1>21 DEF StartReset, Start, RevocationReachesTokens, Usable, RevocationPending
  <2> QED
    BY <2>1, <2>2, <2>3, <2>4, <2>5, StepKeepsTypes
<1>22. ASSUME NEW r \in Requests, ResetPassword(r) PROVE IInv'
  <2>1. TokensOwned'
    BY <1>22
       DEF ResetPassword, RevokeEverything, RevokeSessions, RevokeTokensOf, End, NoRequest,
           TokensOwned
  <2>2. RequestsOwned'
    BY <1>22
       DEF ResetPassword, RevokeEverything, RevokeSessions, RevokeTokensOf, End, NoRequest,
           RequestsOwned
  <2>3. MintedBeforeMarked'
    BY <1>22
       DEF ResetPassword, RevokeEverything, RevokeSessions, RevokeTokensOf, End, NoRequest,
           MintedBeforeMarked
  <2>4. TokensRevokedFirst'
    BY <1>22
       DEF ResetPassword, RevokeEverything, RevokeSessions, RevokeTokensOf, End, NoRequest,
           TokensRevokedFirst, Usable
  <2>5. UsedTokenHasSuccessor'
    BY <1>22
       DEF ResetPassword, RevokeEverything, RevokeSessions, RevokeTokensOf, End, NoRequest,
           UsedTokenHasSuccessor
  <2>6. RevocationReachesTokens'
    BY <1>22
       DEF ResetPassword, RevokeEverything, RevokeSessions, RevokeTokensOf, End, NoRequest,
           RevocationReachesTokens, TokensOwned, RequestsOwned, Usable, RevocationPending,
           Request, TokenRow, Steps
  <2> QED
    BY <2>1, <2>2, <2>3, <2>4, <2>5, <2>6, StepKeepsTypes
<1>23. ASSUME NEW r \in Requests, StartDeactivation(r) PROVE IInv'
  <2>1. TokensOwned' /\ UsedTokenHasSuccessor'
    BY <1>23, Frame DEF StartDeactivation
  <2>2. RequestsOwned'
    BY <1>23 DEF StartDeactivation, Start, RequestsOwned
  <2>3. MintedBeforeMarked'
    BY <1>23 DEF StartDeactivation, Start, MintedBeforeMarked
  <2>4. TokensRevokedFirst'
    BY <1>23 DEF StartDeactivation, Start, TokensRevokedFirst, Usable
  <2>5. RevocationReachesTokens'
    <3>1. CASE Start(r, "deactivate", None, None)
      BY <1>23, <3>1
         DEF StartDeactivation, Start, RevocationReachesTokens, Usable, RevocationPending
    <3>2. CASE Start(r, "setInactive", None, None)
      BY <1>23, <3>2
         DEF StartDeactivation, Start, RevocationReachesTokens, Usable, RevocationPending
    <3> QED
      BY <1>23, <3>1, <3>2 DEF StartDeactivation
  <2> QED
    BY <2>1, <2>2, <2>3, <2>4, <2>5, StepKeepsTypes
<1>24. ASSUME NEW r \in Requests, DeactivateUser(r) PROVE IInv'
  <2>1. TokensOwned'
    BY <1>24
       DEF DeactivateUser, RevokeEverything, RevokeSessions, RevokeTokensOf, End, NoRequest,
           TokensOwned
  <2>2. RequestsOwned'
    BY <1>24
       DEF DeactivateUser, RevokeEverything, RevokeSessions, RevokeTokensOf, End, NoRequest,
           RequestsOwned
  <2>3. MintedBeforeMarked'
    BY <1>24
       DEF DeactivateUser, RevokeEverything, RevokeSessions, RevokeTokensOf, End, NoRequest,
           MintedBeforeMarked
  <2>4. TokensRevokedFirst'
    BY <1>24
       DEF DeactivateUser, RevokeEverything, RevokeSessions, RevokeTokensOf, End, NoRequest,
           TokensRevokedFirst, Usable
  <2>5. UsedTokenHasSuccessor'
    BY <1>24
       DEF DeactivateUser, RevokeEverything, RevokeSessions, RevokeTokensOf, End, NoRequest,
           UsedTokenHasSuccessor
  <2>6. RevocationReachesTokens'
    BY <1>24
       DEF DeactivateUser, RevokeEverything, RevokeSessions, RevokeTokensOf, End, NoRequest,
           RevocationReachesTokens, TokensOwned, RequestsOwned, Usable, RevocationPending,
           Request, TokenRow, Steps
  <2> QED
    BY <2>1, <2>2, <2>3, <2>4, <2>5, <2>6, StepKeepsTypes
<1>25. ASSUME NEW r \in Requests, SetInactive(r) PROVE IInv'
  <2>1. TokensOwned' /\ UsedTokenHasSuccessor'
    BY <1>25, Frame DEF SetInactive
  <2>2. RequestsOwned'
    BY <1>25 DEF SetInactive, End, NoRequest, RequestsOwned
  <2>3. MintedBeforeMarked'
    BY <1>25 DEF SetInactive, End, NoRequest, MintedBeforeMarked
  <2>4. TokensRevokedFirst'
    BY <1>25 DEF SetInactive, End, NoRequest, TokensRevokedFirst, Usable
  <2>5. RevocationReachesTokens'
    BY <1>25 DEF SetInactive, End, NoRequest, RevocationReachesTokens, Usable, RevocationPending
  <2> QED
    BY <2>1, <2>2, <2>3, <2>4, <2>5, StepKeepsTypes
<1>26. CASE ReactivateUser
  BY <1>26, Frame, StepKeepsTypes DEF ReactivateUser
<1>27. ASSUME NEW r \in Requests, Crash(r) PROVE IInv'
  <2>1. TokensOwned' /\ UsedTokenHasSuccessor'
    BY <1>27, Frame DEF Crash
  <2>2. RequestsOwned'
    BY <1>27 DEF Crash, End, NoRequest, RequestsOwned
  <2>3. MintedBeforeMarked'
    BY <1>27 DEF Crash, End, NoRequest, MintedBeforeMarked
  <2>4. TokensRevokedFirst'
    BY <1>27 DEF Crash, End, NoRequest, TokensRevokedFirst, Usable
  <2>5. RevocationReachesTokens'
    BY <1>27 DEF Crash, End, NoRequest, RevocationReachesTokens, Usable, RevocationPending
  <2> QED
    BY <2>1, <2>2, <2>3, <2>4, <2>5, StepKeepsTypes
<1>28. CASE UNCHANGED vars
  BY <1>28, Frame, StepKeepsTypes DEF vars
<1> QED
  BY <1>1, <1>2, <1>3, <1>4, <1>5, <1>6, <1>7, <1>8, <1>9, <1>10, <1>11, <1>12, <1>13, <1>14,
     <1>15, <1>16, <1>17, <1>18, <1>19, <1>20, <1>21, <1>22, <1>23, <1>24, <1>25, <1>26, <1>27,
     <1>28
     DEF Next, Login, Refresh, Revoke, Account, LogoutAllSessions, ChangePassword

(* The inductive invariant: what a request holds at each step, and the token *)
(* invariants it keeps.                                                      *)
THEOREM InvariantCorrect == Spec => []IInv
  BY InvariantHoldsInitially, StepKeepsInvariant, PTL DEF Spec

(* The rows keep their types: a status is only ever one of the values the    *)
(* code writes.                                                              *)
THEOREM TypeCorrect == Spec => []TypeOK
  BY InvariantCorrect, PTL DEF IInv

(* refresh() mints before it marks: a used token always has its successor,   *)
(* however many requests rotate and crash.                                   *)
THEOREM RotationStrandsNobody == Spec => []UsedTokenHasSuccessor
  BY InvariantCorrect, PTL DEF IInv

(* Every way of ending a session but changePassword and logoutAllSessions    *)
(* reaches its refresh tokens: a usable token of a revoked session was       *)
(* minted late, or its revocation died or is still under way.                *)
THEOREM TokensFollowSessions == Spec => []RevocationReachesTokens
  BY InvariantCorrect, PTL DEF IInv

(* Revocations are final: no step of login, refresh or any revocation gives  *)
(* a revoked session or a spent token back.                                  *)
THEOREM RevocationsFinal == Spec => RevocationIsFinal
<1> DEFINE Final == /\ \A s \in Sessions : sessions[s] = "revoked" => sessions'[s] = "revoked"
                    /\ \A t \in Tokens : tokens[t].row /\ ~Usable(t) => ~Usable(t)'
<1>1. IInv /\ [Next]_vars => Final
  <2> SUFFICES ASSUME IInv, [Next]_vars PROVE Final
    OBVIOUS
  <2> USE DEF IInv, TypeOK
  <2>1. CASE UNCHANGED <<sessions, tokens>>
    BY <2>1 DEF Usable
  <2>2. ASSUME NEW r \in Requests, NEW s \in Sessions, CreateSession(r, s) PROVE Final
    BY <2>2 DEF CreateSession, Usable
  <2>3. ASSUME NEW r \in Requests, NEW t \in Tokens, CreateFirstToken(r, t) \/ MintSuccessor(r, t)
        PROVE Final
    BY <2>3 DEF CreateFirstToken, MintSuccessor, NewToken, Usable
  <2>4. ASSUME NEW S \in SUBSET Sessions, RevokeSessions(S), UNCHANGED tokens PROVE Final
    BY <2>4 DEF RevokeSessions, Usable
  <2>5. ASSUME NEW S \in SUBSET Sessions, RevokeTokensOf(S),
               UNCHANGED sessions \/ RevokeSessions(ActiveSessions)
        PROVE Final
    BY <2>5 DEF RevokeTokensOf, RevokeSessions, TokenRow, Usable
  <2>6. ASSUME NEW r \in Requests, RevokeFamily(r) PROVE Final
    BY <2>6 DEF RevokeFamily, RevokeFamilyOf, TokenRow, Usable
  <2>7. ASSUME NEW r \in Requests, MarkUsed(r) PROVE Final
    BY <2>7 DEF MarkUsed, TokenRow, Usable
  <2>8. ASSUME NEW r \in Requests PROVE requests[r].victims \in SUBSET Sessions
    BY <2>8, RequestStatementTypes
  <2>9. ASSUME NEW r \in Requests, Login(r) PROVE Final
    BY <2>1, <2>2, <2>3, <2>4, <2>5, <2>8, <2>9
       DEF Login, StartLogin, ReadActiveSessions, EvictSessions, EvictTokens
  <2>10. ASSUME NEW r \in Requests, Refresh(r) PROVE Final
    BY <2>1, <2>3, <2>7, <2>10
       DEF Refresh, PresentUsedToken, PresentUsableToken, CheckIdle, CheckUser, TouchSession
  <2>11. ASSUME NEW r \in Requests, Revoke(r) PROVE Final
    <3>1. requests[r].step \in {"revokeTokens", "revokeSession", "adminTokens"}
             => {requests[r].session} \in SUBSET Sessions
      BY DEF RequestsOwned
    <3>2. \A s \in Sessions : {s} \in SUBSET Sessions
      OBVIOUS
    <3> QED
      BY <2>1, <2>4, <2>5, <2>6, <2>11, <3>1, <3>2
         DEF Revoke, StartRevocation, AdminRevokeSession, RevokeTokens, RevokeSession,
             AdminRevokeTokens, At
  <2>12. ASSUME NEW r \in Requests, Account(r) PROVE Final
    BY <2>1, <2>5, <2>12
       DEF Account, StartReset, ResetPassword, StartDeactivation, DeactivateUser, SetInactive,
           RevokeEverything
  <2>13. ASSUME NEW S \in SUBSET Sessions, RevokeSessionsExcept(S) PROVE Final
    <3>1. ActiveSessions \ S \in SUBSET Sessions
      BY DEF ActiveSessions
    <3> QED
      BY <2>4, <2>13, <3>1 DEF RevokeSessionsExcept
  <2>14. CASE ReactivateUser \/ (\E r \in Requests : Crash(r)) \/ UNCHANGED vars
    BY <2>1, <2>14 DEF ReactivateUser, Crash, vars
  <2> HIDE DEF Final, IInv, TypeOK
  <2> QED
    BY <2>9, <2>10, <2>11, <2>12, <2>13, <2>14 DEF Next, LogoutAllSessions, ChangePassword
<1>2. Final => [Final]_vars
  OBVIOUS
<1> QED
  BY <1>1, <1>2, InvariantCorrect, PTL DEF Spec, RevocationIsFinal

-----------------------------------------------------------------------------
(* The limit of concurrent sessions                                          *)

LEMMA Fewer ==
  ASSUME NEW S, IsFiniteSet(S), NEW T, T \subseteq S
  PROVE  /\ IsFiniteSet(T)
         /\ Cardinality(T) \in Nat /\ Cardinality(S) \in Nat
         /\ Cardinality(T) <= Cardinality(S)
  BY FS_Subset, FS_CardinalityType

(* Of the sessions in the order of their activity, at most Limit have fewer   *)
(* than Limit before them: two with equally many would be one.               *)
LEMMA KeptAreFew ==
  ASSUME IsFiniteSet(ActiveSessions), NewerOrdersSessions
  PROVE  Cardinality(ActiveSessions \ Excess) <= Limit
<1> DEFINE Before(s) == {u \in ActiveSessions : <<u, s>> \in newer}
           Kept == ActiveSessions \ Excess
           ahead == [s \in Kept |-> Cardinality(Before(s))]
<1>1. IsFiniteSet(Kept) /\ Cardinality(Kept) \in Nat
  BY Fewer, Kept \subseteq ActiveSessions
<1>2. \A s \in ActiveSessions : IsFiniteSet(Before(s)) /\ Cardinality(Before(s)) \in Nat
  <2> TAKE s \in ActiveSessions
  <2>1. Before(s) \subseteq ActiveSessions
    OBVIOUS
  <2> QED
    BY <2>1, Fewer
<1>3. \A s \in Kept : Cardinality(Before(s)) \in 0 .. Limit - 1
  <2> TAKE s \in Kept
  <2>1. ~(Cardinality(Before(s)) >= Limit)
    BY DEF Excess, ActiveSessions
  <2> QED
    BY <2>1, <1>2, LimitAssumption
<1>4. \A s, u \in Kept : s # u => Cardinality(Before(s)) # Cardinality(Before(u))
  <2>1. ASSUME NEW s \in Kept, NEW u \in Kept, <<s, u>> \in newer
        PROVE Cardinality(Before(s)) # Cardinality(Before(u))
    <3>1. Before(s) \subseteq Before(u)
      BY <2>1 DEF NewerOrdersSessions, ActiveSessions
    <3>2. s \in Before(u) /\ s \notin Before(s)
      BY <2>1 DEF NewerOrdersSessions, ActiveSessions
    <3>3. IsFiniteSet(Before(u)) /\ Before(s) \in SUBSET Before(u) /\ Before(s) # Before(u)
      BY <3>1, <3>2, <1>2
    <3> HIDE DEF Before
    <3> QED
      BY <3>3, FS_Subset
  <2>2. \A s, u \in Kept : s # u => <<s, u>> \in newer \/ <<u, s>> \in newer
    BY DEF NewerOrdersSessions, ActiveSessions
  <2> HIDE DEF Before, Kept
  <2> QED
    BY <2>1, <2>2
<1>5. SUFFICES ASSUME Cardinality(Kept) > Limit PROVE FALSE
  BY <1>1, LimitAssumption
<1>6. ahead \in [Kept -> 0 .. Limit - 1]
  BY <1>3
<1>7. IsFiniteSet(0 .. Limit - 1) /\ Cardinality(0 .. Limit - 1) = Limit
  BY FS_Interval, LimitAssumption
<1>8. \E s, u \in Kept : s # u /\ ahead[s] = ahead[u]
  <2> HIDE DEF ahead, Kept
  <2>1. Cardinality(0 .. Limit - 1) < Cardinality(Kept)
    BY <1>1, <1>5, <1>7, LimitAssumption
  <2> QED
    BY <1>1, <1>6, <1>7, <2>1, FS_PigeonHole
<1> QED
  BY <1>4, <1>8

(* The steps of a login that has not enforced the limit. *)
EnteringSteps == {"firstToken", "limit", "evictSessions"}

(* A statement moves a request that has nothing to enforce. *)
LEMMA RequestMoves ==
  ASSUME TypeOK, NEW r \in Requests, requests[r].step \notin EnteringSteps,
         \A q \in Requests \ {r} : requests'[q] = requests[q],
         requests'[r].step \notin EnteringSteps
  PROVE  /\ Entering' = Entering /\ Evicting' = Evicting
         /\ \A q \in Evicting : requests'[q].victims = requests[q].victims
  BY DEF Entering, Evicting, At, EnteringSteps

(* Fewer sessions are active, and every login stays where it was. *)
LEMMA FewerSessions ==
  ASSUME LimitInv, ActiveSessions' \subseteq ActiveSessions, NewerOrdersSessions',
         overLimit' = overLimit, overLimit \in Nat, Entering' = Entering, Evicting' = Evicting,
         \A q \in Evicting : requests'[q].victims = requests[q].victims
  PROVE  LimitInv'
<1>1. ASSUME NEW Q \in SUBSET Evicting
      PROVE Cardinality(ActiveSessions' \ Victims(Q)')
              <= Limit + Cardinality(Entering \ Q) + overLimit
  <2>1. Victims(Q)' = Victims(Q)
    BY DEF Victims
  <2>2. ActiveSessions' \ Victims(Q)' \subseteq ActiveSessions \ Victims(Q)
    BY <2>1
  <2>3. IsFiniteSet(ActiveSessions \ Victims(Q))
    BY Fewer, ActiveSessions \ Victims(Q) \subseteq ActiveSessions DEF LimitInv
  <2>4. Cardinality(ActiveSessions' \ Victims(Q)') <= Cardinality(ActiveSessions \ Victims(Q))
        /\ Cardinality(ActiveSessions' \ Victims(Q)') \in Nat
        /\ Cardinality(ActiveSessions \ Victims(Q)) \in Nat
    BY <2>2, <2>3, Fewer
  <2>5. Cardinality(Entering \ Q) \in Nat
    BY Fewer, Entering \ Q \subseteq Entering DEF LimitInv
  <2>6. Cardinality(ActiveSessions \ Victims(Q)) <= Limit + Cardinality(Entering \ Q) + overLimit
    BY DEF LimitInv, EvictionsSuffice
  <2> DEFINE a == Cardinality(ActiveSessions \ Victims(Q))
             b == Cardinality(ActiveSessions' \ Victims(Q)')
             e == Cardinality(Entering \ Q)
  <2>7. b <= a /\ a \in Nat /\ b \in Nat /\ e \in Nat /\ a <= Limit + e + overLimit
    BY <2>4, <2>5, <2>6
  <2> HIDE DEF a, b, e
  <2>8. b <= Limit + e + overLimit
    BY <2>7, LimitAssumption
  <2> QED
    BY <2>8 DEF b, e
<1>2. IsFiniteSet(ActiveSessions')
  BY Fewer DEF LimitInv
<1> QED
  BY <1>1, <1>2 DEF LimitInv, EvictionsSuffice

(* Rows are only ever added, and revoking changes none but their status. *)
LEMMA RevocationShrinks ==
  ASSUME TypeOK, NEW S, RevokeSessions(S)
  PROVE  /\ ActiveSessions' = ActiveSessions \ S
         /\ NewerOrdersSessions /\ UNCHANGED newer => NewerOrdersSessions'
<1>1. \A s \in Sessions : sessions'[s] # "absent" <=> sessions[s] # "absent"
  BY DEF RevokeSessions, TypeOK
<1>2. NewerOrdersSessions /\ UNCHANGED newer => NewerOrdersSessions'
  BY <1>1 DEF NewerOrdersSessions
<1> QED
  BY <1>2 DEF RevokeSessions, ActiveSessions, TypeOK

(* A session that is created or touched comes first. *)
LEMMA FrontIsFirst ==
  ASSUME TypeOK, NewerOrdersSessions, NEW s \in Sessions, MoveToFront(s),
         \A u \in Sessions \ {s} : sessions'[u] = sessions[u]
  PROVE  NewerOrdersSessions'
<1> DEFINE rows == {u \in Sessions : sessions[u] # "absent"}
<1>1. {u \in Sessions : sessions'[u] # "absent"} \subseteq rows \union {s}
  OBVIOUS
<1>2. \A u \in rows \ {s} : <<s, u>> \in newer' /\ <<u, s>> \notin newer'
  BY DEF MoveToFront
<1>3. <<s, s>> \notin newer'
  BY DEF MoveToFront
<1>4. \A u, v \in rows \ {s} : <<u, v>> \in newer' <=> <<u, v>> \in newer
  BY DEF MoveToFront
<1>5. ASSUME NEW u \in rows \union {s} PROVE <<u, u>> \notin newer'
  BY <1>3, <1>4 DEF NewerOrdersSessions
<1>6. ASSUME NEW u \in rows \union {s}, NEW v \in rows \union {s}, u # v
      PROVE <<u, v>> \in newer' \/ <<v, u>> \in newer'
  BY <1>2, <1>4, <1>6 DEF NewerOrdersSessions
<1>7. ASSUME NEW u \in rows \union {s}, NEW v \in rows \union {s}, NEW w \in rows \union {s},
             <<u, v>> \in newer', <<v, w>> \in newer'
      PROVE <<u, w>> \in newer'
  <2>1. v # s \/ u = s
    BY <1>2, <1>7
  <2>2. w # s
    BY <1>2, <1>3, <1>7
  <2>3. CASE u = s
    BY <1>2, <2>2, <2>3
  <2>4. CASE u # s
    BY <1>4, <1>7, <2>1, <2>2, <2>4 DEF NewerOrdersSessions
  <2> QED
    BY <2>3, <2>4
<1> QED
  BY <1>1, <1>5, <1>6, <1>7 DEF NewerOrdersSessions

LEMMA LimitHoldsInitially == Init => LimitInv
<1> SUFFICES ASSUME Init PROVE LimitInv
  OBVIOUS
<1>1. ActiveSessions = {} /\ Entering = {} /\ Evicting = {}
  BY DEF Init, ActiveSessions, Entering, Evicting, At, NoRequest
<1>2. NewerOrdersSessions
  BY DEF Init, NewerOrdersSessions
<1>3. EvictionsSuffice
  <2> SUFFICES ASSUME NEW Q \in SUBSET Evicting
               PROVE Cardinality(ActiveSessions \ Victims(Q))
                       <= Limit + Cardinality(Entering \ Q) + overLimit
    BY DEF EvictionsSuffice
  <2>1. ActiveSessions \ Victims(Q) = {} /\ Entering \ Q = {}
    BY <1>1
  <2> QED
    BY <2>1, FS_EmptySet, LimitAssumption DEF Init
<1> QED
  BY <1>1, <1>2, <1>3, FS_EmptySet DEF LimitInv

(* A login that has just created its session has yet to enforce the limit. *)
LEMMA CreateSessionKeeps ==
  ASSUME TypeOK, LimitInv, NEW r \in Requests, NEW s \in Sessions, CreateSession(r, s)
  PROVE  LimitInv'
<1>1. ActiveSessions' = ActiveSessions \union {s} /\ s \notin ActiveSessions
  BY DEF CreateSession, ActiveSessions, TypeOK
<1>2. Entering' = Entering \union {r} /\ r \notin Entering
  BY DEF CreateSession, Entering, TypeOK, At
<1>3. /\ Evicting' = Evicting /\ r \notin Evicting
      /\ \A q \in Evicting : requests'[q].victims = requests[q].victims
  BY DEF CreateSession, Evicting, TypeOK, At
<1>4. NewerOrdersSessions'
  <2>1. \A u \in Sessions \ {s} : sessions'[u] = sessions[u]
    BY DEF CreateSession, TypeOK
  <2> QED
    BY <2>1, FrontIsFirst DEF CreateSession, LimitInv
<1>5. ASSUME NEW Q \in SUBSET Evicting
      PROVE Cardinality(ActiveSessions' \ Victims(Q)')
              <= Limit + Cardinality(Entering' \ Q) + overLimit'
  <2>1. Victims(Q)' = Victims(Q)
    BY <1>3 DEF Victims
  <2> DEFINE A == ActiveSessions \ Victims(Q)
             E == Entering \ Q
  <2>2. IsFiniteSet(A) /\ IsFiniteSet(E) /\ Cardinality(A) \in Nat /\ Cardinality(E) \in Nat
    BY Fewer, A \subseteq ActiveSessions, E \subseteq Entering DEF LimitInv
  <2>3. Cardinality(A) <= Limit + Cardinality(E) + overLimit
    BY DEF LimitInv, EvictionsSuffice
  <2>4. ActiveSessions' \ Victims(Q)' \subseteq A \union {s}
    BY <1>1, <2>1
  <2>5. Entering' \ Q = E \union {r} /\ r \notin E
    BY <1>2, <1>3
  <2> HIDE DEF A, E
  <2> DEFINE a == Cardinality(A)
             e == Cardinality(E)
             more == Cardinality(A \union {s})
             b == Cardinality(ActiveSessions' \ Victims(Q)')
             d == Cardinality(Entering' \ Q)
  <2>6. IsFiniteSet(A \union {s}) /\ more = IF s \in A THEN a ELSE a + 1
    BY <2>2, FS_AddElement
  <2>7. d = e + 1
    BY <2>2, <2>5, FS_AddElement
  <2>8. b <= more /\ b \in Nat /\ more \in Nat
    BY <2>4, <2>6, Fewer
  <2>9. overLimit' = overLimit /\ overLimit \in Nat
    BY DEF CreateSession, observed, TypeOK
  <2>10. a \in Nat /\ e \in Nat /\ a <= Limit + e + overLimit
    BY <2>2, <2>3
  <2> HIDE DEF a, e, more, b, d
  <2>11. more <= a + 1
    BY <2>6, <2>10
  <2>12. b <= Limit + d + overLimit'
    BY <2>7, <2>8, <2>9, <2>10, <2>11, LimitAssumption
  <2> QED
    BY <2>12 DEF b, d
<1>6. IsFiniteSet(ActiveSessions') /\ IsFiniteSet(Entering')
  BY <1>1, <1>2, FS_AddElement DEF LimitInv
<1> QED
  BY <1>3, <1>4, <1>5, <1>6 DEF LimitInv, EvictionsSuffice

(* A login leaves Entering with nothing to evict, or by its own eviction. *)
LEMMA ReadActiveSessionsKeeps ==
  ASSUME TypeOK, LimitInv, NEW r \in Requests, ReadActiveSessions(r)
  PROVE  LimitInv'
<1> DEFINE A == ActiveSessions
<1>0. /\ sessions' = sessions /\ newer' = newer /\ overLimit' = overLimit /\ overLimit \in Nat
      /\ ActiveSessions' = ActiveSessions
  BY DEF ReadActiveSessions, observed, TypeOK, ActiveSessions
<1>1. Cardinality(ActiveSessions \ Excess) <= Limit
  BY KeptAreFew DEF LimitInv
<1>2. /\ Entering' \subseteq Entering
      /\ Evicting' \subseteq Evicting \union {r}
      /\ r \notin Evicting
      /\ \A q \in Evicting' \ {r} : requests'[q].victims = requests[q].victims
      /\ \A q \in Evicting' : q = r => requests'[q].victims = Excess /\ Entering' = Entering
      /\ Excess # {} => Entering' = Entering
  <2>1. CASE Excess = {}
    BY <2>1 DEF ReadActiveSessions, End, NoRequest, Entering, Evicting, At, TypeOK
  <2>2. CASE Excess # {}
    <3>1. requests' = [requests EXCEPT ![r] = [@ EXCEPT !.step = "evictSessions", !.victims = Excess]]
      BY <2>2 DEF ReadActiveSessions
    <3>2. requests[r] \in Request
      BY DEF TypeOK
    <3>3. requests'[r].step = "evictSessions" /\ requests'[r].victims = Excess
      BY <3>1, <3>2 DEF Request, TypeOK
    <3>4. \A q \in Requests \ {r} : requests'[q] = requests[q]
      BY <3>1 DEF TypeOK
    <3>5. requests[r].step = "limit"
      BY DEF ReadActiveSessions, At
    <3> QED
      BY <2>2, <3>3, <3>4, <3>5 DEF Entering, Evicting, At
  <2> QED
    BY <2>1, <2>2
<1>3. ASSUME NEW Q \in SUBSET Evicting'
      PROVE Cardinality(ActiveSessions \ Victims(Q)')
              <= Limit + Cardinality(Entering' \ Q) + overLimit
  <2>1. IsFiniteSet(Entering' \ Q) /\ Cardinality(Entering' \ Q) \in Nat
    BY <1>2, Fewer, Entering' \ Q \subseteq Entering DEF LimitInv
  <2>2. IsFiniteSet(A \ Excess)
    BY Fewer, A \ Excess \subseteq A DEF LimitInv
  <2>3. CASE r \in Q \/ Excess = {}
    <3>1. A \ Victims(Q)' \subseteq A \ Excess
      BY <1>2, <2>3 DEF Victims
    <3>2. /\ Cardinality(A \ Victims(Q)') <= Cardinality(A \ Excess)
          /\ Cardinality(A \ Victims(Q)') \in Nat /\ Cardinality(A \ Excess) \in Nat
      BY <3>1, <2>2, Fewer
    <3> QED
      BY <3>2, <2>1, <1>1, <1>0, LimitAssumption
  <2>4. CASE r \notin Q /\ Excess # {}
    <3>1. Victims(Q)' = Victims(Q) /\ Q \in SUBSET Evicting
      BY <1>2, <2>4 DEF Victims
    <3>2. Entering' \ Q = Entering \ Q
      BY <1>2, <2>4
    <3> QED
      BY <3>1, <3>2 DEF LimitInv, EvictionsSuffice
  <2> QED
    BY <2>3, <2>4
<1>4. NewerOrdersSessions'
  BY <1>0 DEF LimitInv, NewerOrdersSessions
<1>5. IsFiniteSet(Entering')
  BY <1>2, Fewer DEF LimitInv
<1> QED
  BY <1>0, <1>3, <1>4, <1>5 DEF LimitInv, EvictionsSuffice

(* An eviction takes away what the others could count on it for. *)
LEMMA EvictSessionsKeeps ==
  ASSUME TypeOK, LimitInv, NEW r \in Requests, EvictSessions(r)
  PROVE  LimitInv'
<1>1. /\ ActiveSessions' = ActiveSessions \ requests[r].victims
      /\ NewerOrdersSessions'
  BY RevocationShrinks DEF EvictSessions, LimitInv
<1>2. /\ Entering' = Entering \ {r} /\ Evicting' = Evicting \ {r} /\ r \in Evicting
      /\ \A q \in Evicting \ {r} : requests'[q].victims = requests[q].victims
      /\ overLimit' = overLimit
  BY DEF EvictSessions, Goto, Entering, Evicting, At, TypeOK, observed
<1>3. ASSUME NEW Q \in SUBSET Evicting'
      PROVE Cardinality(ActiveSessions' \ Victims(Q)')
              <= Limit + Cardinality(Entering' \ Q) + overLimit'
  <2>1. Q \union {r} \in SUBSET Evicting
    BY <1>2
  <2>2. Victims(Q)' = Victims(Q)
    BY <1>2 DEF Victims
  <2>3. ActiveSessions' \ Victims(Q)' = ActiveSessions \ Victims(Q \union {r})
    BY <1>1, <2>2 DEF Victims
  <2>4. Entering' \ Q = Entering \ (Q \union {r})
    BY <1>2
  <2> QED
    BY <1>2, <2>1, <2>3, <2>4 DEF LimitInv, EvictionsSuffice
<1>4. IsFiniteSet(ActiveSessions') /\ IsFiniteSet(Entering')
  <2>1. ActiveSessions' \subseteq ActiveSessions /\ Entering' \subseteq Entering
    BY <1>1, <1>2
  <2> QED
    BY <2>1, Fewer DEF LimitInv
<1> QED
  BY <1>1, <1>3, <1>4 DEF LimitInv, EvictionsSuffice

(* A login that dies before it enforced the limit is counted. *)
LEMMA CrashKeeps ==
  ASSUME TypeOK, LimitInv, NEW r \in Requests, Crash(r)
  PROVE  LimitInv'
<1>1. /\ sessions' = sessions /\ newer' = newer
      /\ ActiveSessions' = ActiveSessions
      /\ overLimit' = IF r \in Entering THEN overLimit + 1 ELSE overLimit
  BY DEF Crash, ActiveSessions, Entering
<1>2. /\ Entering' = Entering \ {r} /\ Evicting' = Evicting \ {r}
      /\ \A q \in Evicting \ {r} : requests'[q].victims = requests[q].victims
  BY DEF Crash, End, NoRequest, Entering, Evicting, At, TypeOK
<1>3. ASSUME NEW Q \in SUBSET Evicting'
      PROVE Cardinality(ActiveSessions' \ Victims(Q)')
              <= Limit + Cardinality(Entering' \ Q) + overLimit'
  <2> DEFINE E == Entering \ Q
  <2>1. Q \in SUBSET Evicting /\ r \notin Q
    BY <1>2
  <2>2. Victims(Q)' = Victims(Q)
    BY <1>2 DEF Victims
  <2>3. Cardinality(ActiveSessions \ Victims(Q)) <= Limit + Cardinality(E) + overLimit
    BY <2>1 DEF LimitInv, EvictionsSuffice
  <2>4. IsFiniteSet(E) /\ Cardinality(E) \in Nat
    BY Fewer, E \subseteq Entering DEF LimitInv
  <2>5. Entering' \ Q = E \ {r} /\ (r \in E <=> r \in Entering)
    BY <1>2, <2>1
  <2> HIDE DEF E
  <2> DEFINE a == Cardinality(ActiveSessions \ Victims(Q))
             e == Cardinality(E)
             d == Cardinality(Entering' \ Q)
  <2>6. d = IF r \in E THEN e - 1 ELSE e
    BY <2>4, <2>5, FS_RemoveElement
  <2>7. a \in Nat
    BY Fewer, ActiveSessions \ Victims(Q) \subseteq ActiveSessions DEF LimitInv
  <2>8. e \in Nat /\ a <= Limit + e + overLimit /\ overLimit \in Nat
    BY <2>3, <2>4 DEF TypeOK
  <2>9. overLimit' = IF r \in E THEN overLimit + 1 ELSE overLimit
    BY <1>1, <2>5
  <2> HIDE DEF a, e, d
  <2>10. a <= Limit + d + overLimit'
    BY <2>6, <2>7, <2>8, <2>9, LimitAssumption
  <2> QED
    BY <1>1, <2>2, <2>10 DEF a, d
<1>4. NewerOrdersSessions'
  BY <1>1 DEF LimitInv, NewerOrdersSessions
<1>5. IsFiniteSet(Entering')
  BY <1>2, Fewer, Entering \ {r} \subseteq Entering DEF LimitInv
<1> QED
  BY <1>1, <1>3, <1>4, <1>5 DEF LimitInv, EvictionsSuffice

(* The other statements revoke sessions or leave them alone. *)
LEMMA LimitStep == TypeOK /\ RequestsOwned /\ LimitInv /\ [Next]_vars => LimitInv'
<1> SUFFICES ASSUME TypeOK, RequestsOwned, LimitInv, [Next]_vars PROVE LimitInv'
  OBVIOUS
<1> USE DEF observed, At
<1>0. /\ ActiveSessions \subseteq ActiveSessions /\ NewerOrdersSessions /\ overLimit \in Nat
      /\ UNCHANGED <<sessions, newer>> => ActiveSessions' = ActiveSessions /\ NewerOrdersSessions'
  BY DEF LimitInv, TypeOK, ActiveSessions, NewerOrdersSessions
<1>1. ASSUME NEW r \in Requests,
             \/ StartLogin(r)
             \/ EvictTokens(r)
             \/ \E t \in Tokens : PresentUsedToken(r, t) \/ PresentUsableToken(r, t)
             \/ CheckIdle(r)
             \/ CheckUser(r)
             \/ \E t \in Tokens : MintSuccessor(r, t)
             \/ MarkUsed(r)
             \/ \E s \in Sessions : StartRevocation(r, s)
             \/ RevokeTokens(r)
             \/ RevokeFamily(r)
             \/ AdminRevokeTokens(r)
             \/ StartReset(r)
             \/ StartDeactivation(r)
             \/ SetInactive(r)
      PROVE LimitInv'
  <2>1. UNCHANGED <<sessions, newer, overLimit>>
    BY <1>1 DEF StartLogin, EvictTokens, PresentUsedToken, PresentUsableToken, CheckIdle, CheckUser,
                MintSuccessor, MarkUsed, StartRevocation, RevokeTokens, RevokeFamily,
                AdminRevokeTokens, StartReset, StartDeactivation, SetInactive
  <2>2. requests'[r].step \notin EnteringSteps /\ \A q \in Requests \ {r} : requests'[q] = requests[q]
    <3>1. requests \in [Requests -> Request] /\ requests[r] \in Request
      BY DEF TypeOK
    <3>2. CASE CheckIdle(r)
      BY <3>1, <3>2 DEF CheckIdle, Goto, Request, EnteringSteps
    <3>3. CASE MarkUsed(r)
      BY <3>1, <3>3 DEF MarkUsed, Request, EnteringSteps
    <3>4. CASE RevokeTokens(r) \/ RevokeFamily(r) \/ \E t \in Tokens : MintSuccessor(r, t)
      BY <3>1, <3>4 DEF MintSuccessor, RevokeTokens, RevokeFamily, Goto, Request, EnteringSteps
    <3>5. CASE CheckUser(r)
      BY <3>1, <3>5 DEF CheckUser, Goto, End, NoRequest, Request, EnteringSteps
    <3>6. CASE EvictTokens(r) \/ AdminRevokeTokens(r) \/ SetInactive(r)
      BY <3>1, <3>6 DEF EvictTokens, AdminRevokeTokens, SetInactive, End, NoRequest, EnteringSteps
    <3>7. CASE StartLogin(r) \/ StartReset(r) \/ StartDeactivation(r)
      BY <3>1, <3>7 DEF StartLogin, StartReset, StartDeactivation, Start, EnteringSteps
    <3>8. CASE \/ \E s \in Sessions : StartRevocation(r, s)
               \/ \E t \in Tokens : PresentUsedToken(r, t) \/ PresentUsableToken(r, t)
      BY <3>1, <3>8 DEF StartRevocation, PresentUsedToken, PresentUsableToken, Start, EnteringSteps
    <3> QED
      BY <1>1, <3>2, <3>3, <3>4, <3>5, <3>6, <3>7, <3>8
  <2>3. requests[r].step \notin EnteringSteps
    BY <1>1 DEF StartLogin, EvictTokens, PresentUsedToken, PresentUsableToken, CheckIdle, CheckUser,
                MintSuccessor, MarkUsed, StartRevocation, RevokeTokens, RevokeFamily,
                AdminRevokeTokens, StartReset, StartDeactivation, SetInactive, Start,
                EnteringSteps
  <2> QED
    BY <1>0, <2>1, <2>2, <2>3, RequestMoves, FewerSessions
<1>2. ASSUME NEW r \in Requests, NEW s \in Sessions, CreateSession(r, s) PROVE LimitInv'
  BY <1>2, CreateSessionKeeps
<1>3. ASSUME NEW r \in Requests, NEW t \in Tokens, CreateFirstToken(r, t) PROVE LimitInv'
  <2>1. /\ Entering' = Entering /\ Evicting' = Evicting
        /\ \A q \in Evicting : requests'[q].victims = requests[q].victims
        /\ UNCHANGED <<sessions, newer, overLimit>>
    BY <1>3 DEF CreateFirstToken, Goto, Entering, Evicting, TypeOK
  <2> QED
    BY <1>0, <2>1, FewerSessions
<1>4. ASSUME NEW r \in Requests, ReadActiveSessions(r) PROVE LimitInv'
  BY <1>4, ReadActiveSessionsKeeps
<1>5. ASSUME NEW r \in Requests, EvictSessions(r) PROVE LimitInv'
  BY <1>5, EvictSessionsKeeps
<1>6. ASSUME NEW r \in Requests, TouchSession(r) PROVE LimitInv'
  <2>1. NewerOrdersSessions'
    <3>1. requests[r].session \in Sessions
      BY <1>6 DEF TouchSession, RequestsOwned
    <3> QED
      BY <1>0, <1>6, <3>1, FrontIsFirst DEF TouchSession
  <2>2. /\ Entering' = Entering /\ Evicting' = Evicting
        /\ \A q \in Evicting : requests'[q].victims = requests[q].victims
    <3>1. /\ requests[r].step \notin EnteringSteps /\ requests'[r].step \notin EnteringSteps
          /\ \A q \in Requests \ {r} : requests'[q] = requests[q]
      BY <1>6 DEF TouchSession, End, NoRequest, TypeOK, EnteringSteps
    <3> QED
      BY <3>1, RequestMoves
  <2>3. ActiveSessions' = ActiveSessions /\ overLimit' = overLimit
    BY <1>6 DEF TouchSession, ActiveSessions
  <2> QED
    BY <1>0, <2>1, <2>2, <2>3, FewerSessions
<1>7. ASSUME NEW r \in Requests,
             \/ RevokeSession(r)
             \/ \E s \in Sessions : AdminRevokeSession(r, s)
             \/ ResetPassword(r)
             \/ DeactivateUser(r)
      PROVE LimitInv'
  <2>1. UNCHANGED <<newer, overLimit>> /\ \E S : RevokeSessions(S)
    BY <1>7 DEF RevokeSession, AdminRevokeSession, ResetPassword, DeactivateUser, RevokeEverything
  <2>2. ActiveSessions' \subseteq ActiveSessions /\ NewerOrdersSessions'
    BY <1>0, <2>1, RevocationShrinks
  <2>3. requests'[r].step \notin EnteringSteps /\ \A q \in Requests \ {r} : requests'[q] = requests[q]
    <3>1. requests \in [Requests -> Request]
      BY DEF TypeOK
    <3>2. CASE RevokeSession(r) \/ ResetPassword(r) \/ DeactivateUser(r)
      BY <3>1, <3>2 DEF RevokeSession, ResetPassword, DeactivateUser, End, NoRequest, EnteringSteps
    <3>3. CASE \E s \in Sessions : AdminRevokeSession(r, s)
      BY <3>1, <3>3 DEF AdminRevokeSession, Start, EnteringSteps
    <3> QED
      BY <1>7, <3>2, <3>3
  <2>4. requests[r].step \notin EnteringSteps
    BY <1>7 DEF RevokeSession, AdminRevokeSession, ResetPassword, DeactivateUser, Start, EnteringSteps
  <2> QED
    BY <1>0, <2>1, <2>2, <2>3, <2>4, RequestMoves, FewerSessions
<1>8. ASSUME NEW r \in Requests, Crash(r) PROVE LimitInv'
  BY <1>8, CrashKeeps
<1>9. ASSUME NEW S, RevokeSessionsExcept(S) PROVE LimitInv'
  <2>1. ActiveSessions' \subseteq ActiveSessions /\ NewerOrdersSessions'
    BY <1>0, <1>9, RevocationShrinks DEF RevokeSessionsExcept
  <2> QED
    BY <1>0, <1>9, <2>1, FewerSessions DEF RevokeSessionsExcept, Entering, Evicting
<1>10. CASE ReactivateUser \/ UNCHANGED vars
  <2>1. UNCHANGED <<sessions, newer, requests, overLimit>>
    BY <1>10 DEF ReactivateUser, vars
  <2> QED
    BY <1>0, <2>1, FewerSessions DEF Entering, Evicting
<1> QED
  BY <1>1, <1>2, <1>3, <1>4, <1>5, <1>6, <1>7, <1>8, <1>9, <1>10
     DEF Next, Login, Refresh, Revoke, Account, LogoutAllSessions, ChangePassword

(* However many logins overlap and die, no user has more active sessions than *)
(* the limit and one for each login that has not enforced it, or died first. *)
THEOREM LimitEnforced == Spec => []SessionsWithinLimit
<1>1. LimitInv => SessionsWithinLimit
  <2> SUFFICES ASSUME LimitInv PROVE SessionsWithinLimit
    OBVIOUS
  <2>1. Victims({}) = {}
    BY DEF Victims
  <2>2. ActiveSessions \ {} = ActiveSessions /\ Entering \ {} = Entering
    OBVIOUS
  <2> QED
    BY <2>1, <2>2 DEF LimitInv, EvictionsSuffice, SessionsWithinLimit
<1>2. IInv => TypeOK /\ RequestsOwned
  BY DEF IInv
<1> QED
  BY LimitHoldsInitially, LimitStep, InvariantCorrect, <1>1, <1>2, PTL DEF Spec
=============================================================================
