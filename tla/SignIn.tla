--------------------------------- MODULE SignIn ---------------------------------
(***************************************************************************)
(* The sign-in counter, the lockout and the password-reset links of one    *)
(* user.  A login reads the user, tests the lock, compares the password    *)
(* and only then writes the counter: the value it read plus one, or zero.  *)
(* A reset link is tested before the transaction that spends it, and a new *)
(* link is made some time after the older ones were revoked.               *)
(*                                                                         *)
(* Left out: the sessions a login makes and a reset revokes (module        *)
(* AuthSessions), login history and audit records, and the checks of the   *)
(* user's and the tenant's status: both are ACTIVE throughout.             *)
(***************************************************************************)
EXTENDS Naturals

CONSTANTS
    Requests,       \* requests in flight (bound)
    Links,          \* reset links that may be made (bound)
    MaxAttempts,    \* PASSWORD.MAX_FAILED_ATTEMPTS
    MaxLogins,      \* logins that pass the lock (bound)
    None

ASSUME LimitAssumption == MaxAttempts \in Nat \ {0} /\ MaxLogins \in Nat
ASSUME NoneAssumption == None \notin Links

VARIABLES
    count,          \* failedLoginCount
    lock,           \* lockedUntil: null, in the future, or passed
    links,          \* password_reset_tokens: what has happened to each
    reqs,           \* what each request in flight is about to do
    logins,         \* logins so far, for the bound
    wrong,          \* observation: failures recorded since the last success was
    trust,          \* observation: how far the counter may be from wrong
    stale,          \* observation: requests that read what has been written since
    straddling,     \* observation: logins that read before a success recorded since
    lockout,        \* observation: the number of the current or latest lockout
    notices,        \* observation: "Account locked" notices of each lockout
    crossed,        \* observation: lockouts a stale login renewed
    late,           \* observation: links made though another was made meanwhile
    commits,        \* observation: passwords set with each link
    overdone        \* observation: links spent by a stale request

account == <<count, lock, wrong, trust, straddling, lockout, crossed, logins>>
reset == <<links, late, commits, overdone>>
signInVars == <<account, reset, reqs, stale, notices>>

-----------------------------------------------------------------------------
Steps == {"idle", "right", "wrong", "notify", "mint", "reset"}
Req == [step : Steps, n : Nat, link : Links \union {None}]
Idle == [step |-> "idle", n |-> 0, link |-> None]

SignInTypeOK ==
    /\ count \in Nat /\ wrong \in Nat /\ logins \in Nat
    /\ lock \in {"open", "locked", "lapsed"}
    /\ trust \in {"exact", "short", "inflated"}
    /\ links \in [Links -> SUBSET {"made", "used", "revoked", "lapsed"}]
    /\ reqs \in [Requests -> Req]
    /\ stale \subseteq Requests /\ straddling \subseteq Requests
    /\ lockout \in Nat /\ crossed \subseteq Nat
    /\ notices \in [1 .. MaxLogins -> Nat]
    /\ commits \in [Links -> Nat]
    /\ late \subseteq Links /\ overdone \subseteq Links

SignInInit ==
    /\ count = 0 /\ wrong = 0 /\ logins = 0
    /\ lock = "open" /\ trust = "exact"
    /\ links = [l \in Links |-> {}]
    /\ reqs = [r \in Requests |-> Idle]
    /\ stale = {} /\ straddling = {}
    /\ lockout = 0 /\ crossed = {}
    /\ notices = [k \in 1 .. MaxLogins |-> 0]
    /\ commits = [l \in Links |-> 0]
    /\ late = {} /\ overdone = {}

-----------------------------------------------------------------------------
At(r, s) == reqs[r].step = s
Goto(r, s, n, l) == reqs' = [reqs EXCEPT ![r] = [step |-> s, n |-> n, link |-> l]]
Done(r) == reqs' = [reqs EXCEPT ![r] = Idle]
Overtaken(Q, r) == stale' = (stale \union Q) \ {r}

(* Variant: the lock is not tested.                                          *)
LoginThoughLocked(r) ==
    /\ At(r, "idle")
    /\ logins < MaxLogins
    /\ logins' = logins + 1
    /\ \E s \in {"right", "wrong"} : Goto(r, s, count, None)
    /\ UNCHANGED <<count, lock, wrong, trust, straddling, lockout, crossed, reset, stale, notices>>

(* login up to the comparison of the password, which goes either way.        *)
Login(r) ==
    /\ At(r, "idle")
    /\ logins < MaxLogins
    /\ lock # "locked"
    /\ logins' = logins + 1
    /\ \E s \in {"right", "wrong"} : Goto(r, s, count, None)
    /\ UNCHANGED <<count, lock, wrong, trust, straddling, lockout, crossed, reset, stale, notices>>

Signing == {q \in Requests : At(q, "right") \/ At(q, "wrong")}

(* recordFailedLogin: counter and lockedUntil from the value read before.    *)
(* Without a lockout lockedUntil becomes null, whatever it was.              *)
RecordFailure(r) ==
    LET n == reqs[r].n + 1 IN
    /\ At(r, "wrong")
    /\ count' = n
    /\ wrong' = wrong + 1
    /\ lock' = IF n >= MaxAttempts THEN "locked" ELSE "open"
    /\ trust' = CASE r \in straddling -> "inflated"
                  [] r \in stale \ straddling /\ trust = "exact" -> "short"
                  [] OTHER -> trust
    /\ Overtaken(Signing, r)
    /\ straddling' = straddling \ {r}
    /\ UNCHANGED <<logins, reset, notices>>
    /\ IF n >= MaxAttempts
       THEN /\ lockout' = IF lock = "locked" THEN lockout ELSE lockout + 1
            /\ crossed' = IF lock = "locked" /\ r \in stale THEN crossed \union {lockout} ELSE crossed
            /\ Goto(r, "notify", lockout', None)
       ELSE Done(r) /\ UNCHANGED <<lockout, crossed>>

(* The notice that follows the write.                                        *)
Notify(r) ==
    /\ At(r, "notify")
    /\ notices' = [notices EXCEPT ![reqs[r].n] = @ + 1]
    /\ Done(r)
    /\ Overtaken({}, r)
    /\ UNCHANGED <<account, reset>>

(* Variant: the counter is not reset.                                        *)
SuccessKeepsCount(r) ==
    /\ At(r, "right")
    /\ wrong' = 0
    /\ lock' = "open" /\ trust' = "exact"
    /\ Overtaken(Signing, r)
    /\ straddling' = (straddling \union Signing) \ {r}
    /\ Done(r)
    /\ UNCHANGED <<count, lockout, crossed, logins, reset, notices>>

(* recordSuccessfulLogin, after the session was made.                        *)
RecordSuccess(r) ==
    /\ At(r, "right")
    /\ count' = 0 /\ wrong' = 0
    /\ lock' = "open" /\ trust' = "exact"
    /\ Overtaken(Signing, r)
    /\ straddling' = (straddling \union Signing) \ {r}
    /\ Done(r)
    /\ UNCHANGED <<lockout, crossed, logins, reset, notices>>

(* lockedUntil passes.  Nothing resets the counter then.                     *)
LockLapses ==
    /\ lock = "locked"
    /\ lock' = "lapsed"
    /\ UNCHANGED <<count, wrong, trust, straddling, lockout, crossed, logins, reset, reqs, stale, notices>>

-----------------------------------------------------------------------------
Usable(l) == links[l] = {"made"}
Resetting(L) == {q \in Requests : At(q, "reset") /\ reqs[q].link \in L}

(* Variant: the older links stay.                                            *)
ForgotKeepsLinks(r) ==
    /\ At(r, "idle")
    /\ \E l \in Links : links[l] = {}
    /\ Goto(r, "mint", 0, None)
    /\ UNCHANGED <<account, reset, stale, notices>>

(* forgotPassword: invalidatePasswordResetTokens, then the new link.         *)
Forgot(r) ==
    /\ At(r, "idle")
    /\ \E l \in Links : links[l] = {}
    /\ links' = [l \in Links |-> IF "made" \in links[l] /\ links[l] \intersect {"used", "revoked"} = {}
                                 THEN links[l] \union {"revoked"} ELSE links[l]]
    /\ Overtaken(Resetting({l \in Links : links'[l] # links[l]}), r)
    /\ Goto(r, "mint", 0, None)
    /\ UNCHANGED <<account, late, commits, overdone, notices>>

Mint(r, l) ==
    /\ At(r, "mint")
    /\ links[l] = {}
    /\ links' = [links EXCEPT ![l] = {"made"}]
    /\ late' = IF r \in stale THEN late \union {l} ELSE late
    /\ Overtaken({q \in Requests : At(q, "mint")}, r)
    /\ Done(r)
    /\ UNCHANGED <<account, commits, overdone, notices>>

(* Variant: a used link is let through.                                      *)
OpenUsedLink(r, l) ==
    /\ At(r, "idle")
    /\ "made" \in links[l] /\ links[l] \intersect {"revoked", "lapsed"} = {}
    /\ commits[l] < 2
    /\ Goto(r, "reset", 0, l)
    /\ UNCHANGED <<account, reset, stale, notices>>

(* resetPassword: the link is tested, then the transaction spends it.        *)
OpenReset(r, l) ==
    /\ At(r, "idle")
    /\ Usable(l)
    /\ Goto(r, "reset", 0, l)
    /\ UNCHANGED <<account, reset, stale, notices>>

CommitReset(r) ==
    LET l == reqs[r].link IN
    /\ At(r, "reset")
    /\ links' = [links EXCEPT ![l] = @ \union {"used"}]
    /\ commits' = [commits EXCEPT ![l] = @ + 1]
    /\ overdone' = IF r \in stale THEN overdone \union {l} ELSE overdone
    /\ Overtaken(Resetting({l}), r)
    /\ Done(r)
    /\ UNCHANGED <<account, late, notices>>

(* expiresAt passes.                                                         *)
LinkLapses(l) ==
    /\ Usable(l)
    /\ links' = [links EXCEPT ![l] = @ \union {"lapsed"}]
    /\ stale' = stale \union Resetting({l})
    /\ UNCHANGED <<account, late, commits, overdone, reqs, notices>>

(* The process stops, or a statement before the write fails.                 *)
Stop(r) ==
    /\ ~At(r, "idle")
    /\ Done(r)
    /\ Overtaken({}, r)
    /\ straddling' = straddling \ {r}
    /\ UNCHANGED <<count, lock, wrong, trust, lockout, crossed, logins, reset, notices>>

SignInNext ==
    \/ \E r \in Requests :
         \/ Login(r) \/ RecordFailure(r) \/ Notify(r) \/ RecordSuccess(r)
         \/ Forgot(r) \/ CommitReset(r) \/ Stop(r)
         \/ \E l \in Links : Mint(r, l) \/ OpenReset(r, l)
    \/ LockLapses
    \/ \E l \in Links : LinkLapses(l)

SignInSpec == SignInInit /\ [][SignInNext]_signInVars

-----------------------------------------------------------------------------
(* The counter says how many failures were recorded since the last success,  *)
(* never more unless a login straddled that success, and never fewer unless  *)
(* two failures crossed; so a user is locked out only after MaxAttempts      *)
(* failures in a row, and is as soon as they are recorded one by one.        *)
LockoutIsEarned ==
    /\ trust # "inflated" => count <= wrong /\ (lock # "open" => wrong >= MaxAttempts)
    /\ trust = "exact" => count = wrong /\ (wrong >= MaxAttempts => lock # "open")

(* While an account is locked only a login that read it before can write it: *)
(* an open account was locked by nobody, or its lock lapsed first, or a      *)
(* login was overtaken.                                                      *)
LockHoldsUntilItLapses ==
    [][lock = "locked" /\ lock' = "open" => \E r \in stale : reqs'[r] # reqs[r]]_signInVars

(* "Fires exactly once per lockout" (recordFailedLogin), as far as it holds: *)
(* a second notice means that a login which had read the account before the  *)
(* lockout renewed it.                                                       *)
NoticeOncePerLockout ==
    \A k \in 1 .. MaxLogins : notices[k] > 1 => k \in crossed

(* "At most one usable reset link at a time" (forgotPassword), unless a link *)
(* was made by a request that another one had overtaken.                     *)
OneUsableLink ==
    \A l, m \in Links : Usable(l) /\ Usable(m) /\ l # m => l \in late \/ m \in late

(* A link sets one password, and never one after it was revoked or lapsed,   *)
(* unless the request tested it before that.                                 *)
LinkIsSpentOnce ==
    \A l \in Links : commits[l] > 1 \/ ("used" \in links[l] /\ links[l] # {"made", "used"})
                       => l \in overdone
=============================================================================
