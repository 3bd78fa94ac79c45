------------------------------ MODULE Invitations ------------------------------
(***************************************************************************)
(* How somebody becomes a user of a tenant: an invitation is created, sent *)
(* again, revoked or runs out; the first acceptance of its link creates    *)
(* the user, and for a client links the user to a contact.  Each operation *)
(* reads, checks, and writes by id later; the acceptance alone is a        *)
(* transaction, and it tests the invitation before the transaction begins. *)
(*                                                                         *)
(* A resend replaces the token, so an older link finds nothing: a link is  *)
(* opened here with the newest token, and what was read before a resend is *)
(* stale.  Left out: roles, passwords, audit records and notifications.    *)
(***************************************************************************)
CONSTANTS
    Ids,        \* invitations that may be created (bound)
    Emails,     \* addresses of one tenant
    Contacts,   \* contacts a client may be invited for
    Requests,   \* requests in flight (bound)
    None

ASSUME NoneAssumption == None \notin Emails \union Contacts \union Ids

VARIABLES
    rows,       \* user_invitations
    users,      \* the user row of each address
    portal,     \* portalUserId of each contact
    reqs,       \* what each request in flight is about to do
    stale,      \* observation: requests that read what has been written since
    overtaken,  \* observation: invitations written by a stale request
    tangled     \* observation: addresses invited by a stale request, or whose
                \* expired invitation was sent again

vars == <<rows, users, portal, reqs, stale, overtaken, tangled>>

-----------------------------------------------------------------------------
Row == [status : {"absent", "PENDING", "ACCEPTED", "REVOKED", "EXPIRED"},
        email : Emails \union {None}, contact : Contacts \union {None},
        lapsed : {"no", "yes"}, joined : {"no", "yes"}]

NoRow == [status |-> "absent", email |-> None, contact |-> None,
          lapsed |-> "no", joined |-> "no"]

(* A request: its step, the invitation it read, or whom it is to invite.     *)
Steps == {"idle", "pending?", "contact?", "create", "resend", "revoke", "expire", "join"}
Req == [step : Steps, id : Ids \union {None},
        email : Emails \union {None}, contact : Contacts \union {None}]
Idle == [step |-> "idle", id |-> None, email |-> None, contact |-> None]

TypeOK == /\ rows \in [Ids -> Row]
          /\ users \in [Emails -> {"none", "live", "removed"}]
          /\ portal \in [Contacts -> Emails \union {None}]
          /\ reqs \in [Requests -> Req]
          /\ stale \subseteq Requests
          /\ overtaken \subseteq Ids
          /\ tangled \subseteq Emails

Init == /\ rows = [i \in Ids |-> NoRow]
        /\ users = [e \in Emails |-> "none"]
        /\ portal = [c \in Contacts |-> None]
        /\ reqs = [r \in Requests |-> Idle]
        /\ stale = {} /\ overtaken = {} /\ tangled = {}

-----------------------------------------------------------------------------
At(r, s) == reqs[r].step = s
Goto(r, s) == reqs' = [reqs EXCEPT ![r].step = s]
Reply(r) == reqs' = [reqs EXCEPT ![r] = Idle] /\ stale' = stale \ {r}
Read(r, i, s) == reqs' = [reqs EXCEPT ![r] = [Idle EXCEPT !.step = s, !.id = i]]
Tables == <<rows, users, portal, overtaken, tangled>>

(* The requests that rest on what they read of invitation i, its address e,  *)
(* or the contact c that is taken now.                                       *)
Concerned(i, e, c) == {q \in Requests : \/ reqs[q].id = i \/ reqs[q].email = e
                                        \/ c # None /\ reqs[q].contact = c}

Draft(e, c) == [NoRow EXCEPT !.status = "PENDING", !.email = e, !.contact = c]

(* findByEmail, findPendingByEmail, contact.findById: three reads, then the  *)
(* insert, outside a transaction and with no unique index behind them.       *)
Invite(r, e, c) ==
    /\ At(r, "idle")
    /\ users[e] # "live"
    /\ reqs' = [reqs EXCEPT ![r] = [Idle EXCEPT !.step = "pending?", !.email = e, !.contact = c]]
    /\ UNCHANGED <<Tables, stale>>

Open(e) == {i \in Ids : rows[i].email = e /\ rows[i].status = "PENDING"}

(* Variant: the check for an open invitation is left out.                    *)
SkipPending(r) ==
    /\ At(r, "pending?")
    /\ Goto(r, "contact?")
    /\ UNCHANGED <<Tables, stale>>

CheckPending(r) ==
    /\ At(r, "pending?")
    /\ \/ Open(reqs[r].email) = {} /\ Goto(r, "contact?") /\ UNCHANGED stale
       \/ Open(reqs[r].email) # {} /\ Reply(r)
    /\ UNCHANGED Tables

Vacant(c) == c # None => portal[c] = None
CheckContact(r) ==
    /\ At(r, "contact?")
    /\ \/ Vacant(reqs[r].contact) /\ Goto(r, "create") /\ UNCHANGED stale
       \/ ~Vacant(reqs[r].contact) /\ Reply(r)
    /\ UNCHANGED Tables

Create(r, i) ==
    LET e == reqs[r].email IN
    /\ At(r, "create")
    /\ rows[i] = NoRow
    /\ rows' = [rows EXCEPT ![i] = Draft(e, reqs[r].contact)]
    /\ stale' = (stale \union Concerned(i, e, None)) \ {r}
    /\ tangled' = IF r \in stale THEN tangled \union {e} ELSE tangled
    /\ reqs' = [reqs EXCEPT ![r] = Idle]
    /\ UNCHANGED <<users, portal, overtaken>>

-----------------------------------------------------------------------------
(* Variant: an accepted invitation may be sent again.                        *)
ReadForAnyResend(r, i) ==
    /\ At(r, "idle")
    /\ rows[i].status \in {"PENDING", "EXPIRED", "ACCEPTED"}
    /\ Read(r, i, "resend")
    /\ UNCHANGED <<Tables, stale>>

(* Refuses ACCEPTED and REVOKED; an expired invitation comes back.           *)
ReadForResend(r, i) ==
    /\ At(r, "idle")
    /\ rows[i].status \in {"PENDING", "EXPIRED"}
    /\ Read(r, i, "resend")
    /\ UNCHANGED <<Tables, stale>>

(* Refuses ACCEPTED only.                                                    *)
ReadForRevoke(r, i) ==
    /\ At(r, "idle")
    /\ rows[i].status \in {"PENDING", "EXPIRED", "REVOKED"}
    /\ Read(r, i, "revoke")
    /\ UNCHANGED <<Tables, stale>>

(* resolvePendingInvitationOrThrow, for the preview (which goes no further   *)
(* than marking a lapsed invitation) and for the acceptance.                 *)
OpenLink(r, i) ==
    /\ At(r, "idle")
    /\ rows[i].status = "PENDING"
    /\ Read(r, i, IF rows[i].lapsed = "yes" THEN "expire" ELSE "join")
    /\ UNCHANGED <<Tables, stale>>

(* Request r writes invitation i: what the others read of it is now stale.   *)
Taken(i, row) == IF row.joined = rows[i].joined THEN None ELSE row.contact
Save(r, i, row) ==
    /\ rows' = [rows EXCEPT ![i] = row]
    /\ stale' = (stale \union Concerned(i, row.email, Taken(i, row))) \ {r}
    /\ overtaken' = IF r \in stale THEN overtaken \union {i} ELSE overtaken
    /\ reqs' = [reqs EXCEPT ![r] = Idle]

(* UserInvitationRepository.update: by id and tenant, whatever the status.   *)
Resend(r) ==
    LET i == reqs[r].id IN
    /\ At(r, "resend")
    /\ Save(r, i, [rows[i] EXCEPT !.status = "PENDING", !.lapsed = "no"])
    /\ tangled' = IF rows[i].status = "EXPIRED" THEN tangled \union {rows[i].email} ELSE tangled
    /\ UNCHANGED <<users, portal>>

Settle(r, step, status) ==
    LET i == reqs[r].id IN
    /\ At(r, step)
    /\ Save(r, i, [rows[i] EXCEPT !.status = status])
    /\ UNCHANGED <<users, portal, tangled>>

Revoke(r) == Settle(r, "revoke", "REVOKED")
Expire(r) == Settle(r, "expire", "EXPIRED")

-----------------------------------------------------------------------------
(* Variant: the invitation keeps its status.                                 *)
JoinUnmarked(r) ==
    LET i == reqs[r].id  e == rows[i].email  c == rows[i].contact IN
    /\ At(r, "join")
    /\ users[e] = "none"
    /\ users' = [users EXCEPT ![e] = "live"]
    /\ Save(r, i, [rows[i] EXCEPT !.joined = "yes"])
    /\ portal' = IF c = None THEN portal ELSE [portal EXCEPT ![c] = e]
    /\ UNCHANGED tangled

(* Variant: the contact is left as it was.                                   *)
JoinUnlinked(r) ==
    LET i == reqs[r].id  e == rows[i].email  c == rows[i].contact IN
    /\ At(r, "join")
    /\ users[e] = "none"
    /\ users' = [users EXCEPT ![e] = "live"]
    /\ Save(r, i, [rows[i] EXCEPT !.joined = "yes", !.status = "ACCEPTED"])
    /\ portal' = portal
    /\ UNCHANGED tangled

(* The transaction: user, roles, invitation, contact.  The unique index on   *)
(* tenant and e-mail spans removed users, whom no check before has seen.     *)
Join(r) ==
    LET i == reqs[r].id  e == rows[i].email  c == rows[i].contact IN
    /\ At(r, "join")
    /\ users[e] = "none"
    /\ users' = [users EXCEPT ![e] = "live"]
    /\ Save(r, i, [rows[i] EXCEPT !.joined = "yes", !.status = "ACCEPTED"])
    /\ portal' = IF c = None THEN portal ELSE [portal EXCEPT ![c] = e]
    /\ UNCHANGED tangled

(* The check for a live user, or the unique index inside the transaction.    *)
JoinConflicts(r) ==
    /\ At(r, "join")
    /\ users[rows[reqs[r].id].email] # "none"
    /\ Reply(r)
    /\ UNCHANGED Tables

(* deleteUser: the row stays, and so does the contact's portalUserId.        *)
RemoveUser(e) ==
    /\ users[e] = "live"
    /\ users' = [users EXCEPT ![e] = "removed"]
    /\ UNCHANGED <<rows, portal, reqs, stale, overtaken, tangled>>

(* expiresAt passes.                                                         *)
Lapse(i) ==
    /\ rows[i].status = "PENDING" /\ rows[i].lapsed = "no"
    /\ rows' = [rows EXCEPT ![i].lapsed = "yes"]
    /\ stale' = stale \union Concerned(i, rows[i].email, None)
    /\ UNCHANGED <<users, portal, reqs, overtaken, tangled>>

(* The process stops before the write.                                       *)
Stop(r) ==
    /\ ~At(r, "idle")
    /\ Reply(r)
    /\ UNCHANGED Tables

Next ==
    \/ \E r \in Requests :
         \/ \E e \in Emails, c \in Contacts \union {None} : Invite(r, e, c)
         \/ \E i \in Ids : \/ Create(r, i) \/ ReadForResend(r, i)
                           \/ ReadForRevoke(r, i) \/ OpenLink(r, i)
         \/ CheckPending(r) \/ CheckContact(r)
         \/ Resend(r) \/ Revoke(r) \/ Expire(r)
         \/ Join(r) \/ JoinConflicts(r) \/ Stop(r)
    \/ \E e \in Emails : RemoveUser(e)
    \/ \E i \in Ids : Lapse(i)

Spec == Init /\ [][Next]_vars

-----------------------------------------------------------------------------
Of(e) == {i \in Ids : rows[i].email = e}
Untangled(e) == e \notin tangled /\ Of(e) \intersect overtaken = {}

(* An address is let in by one way at a time: a live user has no open        *)
(* invitation left and an address has at most one ("a second invite while a  *)
(* User with this email exists" and "a second invite for an email that       *)
(* already has a PENDING invitation" are both refused), unless two invites   *)
(* crossed, a write was overtaken, or an expired invitation was resent.      *)
OneWayIn ==
    \A e \in Emails : Untangled(e) =>
        /\ users[e] = "live" => Open(e) = {}
        /\ \A i, j \in Open(e) : i = j

(* Every user, removed ones too, came through exactly one invitation of the  *)
(* address, which says ACCEPTED unless a late resend, revocation or expiry   *)
(* wrote over it; and an ACCEPTED invitation let its user in.                *)
Joiners == {i \in Ids : rows[i].joined = "yes"}
UserHasItsInvitation ==
    /\ \A e \in Emails : users[e] # "none" => Of(e) \intersect Joiners # {}
    /\ \A i, j \in Joiners : rows[i].email = rows[j].email => i = j
    /\ \A i \in Ids :
         /\ rows[i].joined = "yes" => /\ rows[i].status = "ACCEPTED" \/ i \in overtaken
                                     /\ users[rows[i].email] # "none"
         /\ rows[i].status = "ACCEPTED" => rows[i].joined = "yes"

(* A contact somebody joined for has as its portal user one of those who     *)
(* did: the latest, and never nobody.                                        *)
Joined(c) == {i \in Joiners : rows[i].contact = c}
ContactHasItsClient ==
    \A c \in Contacts : IF Joined(c) = {} THEN portal[c] = None
                         ELSE \E i \in Joined(c) : portal[c] = rows[i].email

(* What is ACCEPTED or REVOKED stays so; whoever joins does so by a live     *)
(* invitation; an invitation is made for somebody who is not here yet.       *)
WriteRestsOnItsCheck(i) ==
    /\ rows[i].status \in {"ACCEPTED", "REVOKED"} /\ rows'[i].status # rows[i].status
         => i \in overtaken'
    /\ rows[i].joined = "no" /\ rows'[i].joined = "yes"
         => (rows[i].status = "PENDING" /\ rows[i].lapsed = "no") \/ i \in overtaken'
    /\ rows[i].status = "absent" /\ rows'[i].status # "absent"
         => LET e == rows'[i].email IN
            \/ users[e] # "live" /\ Open(e) = {} /\ Vacant(rows'[i].contact)
            \/ e \in tangled'

(* The checks outside transactions fail only by staleness.  What is ACCEPTED *)
(* or REVOKED stays so, and whoever joins holds the newest link of an        *)
(* invitation still PENDING and not lapsed, unless that was written since it *)
(* was read; an invitation is made for an address with neither a user nor an *)
(* open invitation, and a contact without a portal user, unless one of those *)
(* came after the check.                                                     *)
OnlyStaleChecksFail == [][\A i \in Ids : WriteRestsOnItsCheck(i)]_vars

(* "A CLIENT-provisioned user should never resolve to a staff tier"          *)
(* (AuthService.resolveRole): the contact of a live client names that user.  *)
ClientStaysClient ==
    \A c \in Contacts : \A i \in Joined(c) :
        users[rows[i].email] = "live" => portal[c] = rows[i].email
=============================================================================
