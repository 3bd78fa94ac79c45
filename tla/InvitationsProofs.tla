--------------------------- MODULE InvitationsProofs ---------------------------
(***************************************************************************)
(* Theorems about Invitations, for any number of addresses, contacts,      *)
(* invitations and requests in flight.                                     *)
(***************************************************************************)
EXTENDS Invitations, TLAPS

(* What a request in flight knows, as long as nothing it read was written:   *)
(* the status its check passed, and that the address it invites is vacant.   *)
RowsAreWhole ==
    \A i \in Ids : IF rows[i].status = "absent" THEN rows[i] = NoRow ELSE rows[i].email \in Emails

Holding == {"resend", "revoke", "expire", "join"}
Drafting == {"pending?", "contact?", "create"}
Whole(r) == /\ reqs[r].step \in Holding => /\ reqs[r].id \in Ids
                                            /\ rows[reqs[r].id].status # "absent"
            /\ reqs[r].step \in Drafting => reqs[r].email \in Emails
RequestsAreWhole == \A r \in Requests : Whole(r)

Passed == [resend |-> {"PENDING", "EXPIRED"}, revoke |-> {"PENDING", "EXPIRED", "REVOKED"},
           expire |-> {"PENDING"}, join |-> {"PENDING"}]
KnowsRow(r) ==
    /\ reqs[r].step \in Holding => rows[reqs[r].id].status \in Passed[reqs[r].step]
    /\ At(r, "join") => rows[reqs[r].id].lapsed = "no"
KnowsVacancy(r) ==
    /\ reqs[r].step \in Drafting => users[reqs[r].email] # "live"
    /\ At(r, "contact?") \/ At(r, "create") => Open(reqs[r].email) = {}
    /\ At(r, "create") => Vacant(reqs[r].contact)
FreshRequestsKnow == \A r \in Requests \ stale : KnowsRow(r) /\ KnowsVacancy(r)

IInv == /\ TypeOK
        /\ RowsAreWhole
        /\ RequestsAreWhole
        /\ FreshRequestsKnow
        /\ OneWayIn
        /\ UserHasItsInvitation
        /\ ContactHasItsClient

-----------------------------------------------------------------------------

(* The rows and requests that the actions build. *)
LEMMA StatusSet ==
  ASSUME NEW w \in Row, NEW s \in {"PENDING", "ACCEPTED", "REVOKED", "EXPIRED"}
  PROVE  LET v == [w EXCEPT !.status = s] IN
         /\ v \in Row /\ v.status = s /\ v.email = w.email /\ v.contact = w.contact
         /\ v.joined = w.joined /\ v.lapsed = w.lapsed
  BY DEF Row

LEMMA Reopened ==
  ASSUME NEW w \in Row
  PROVE  LET v == [w EXCEPT !.status = "PENDING", !.lapsed = "no"] IN
         /\ v \in Row /\ v.status = "PENDING" /\ v.email = w.email /\ v.contact = w.contact
         /\ v.joined = w.joined
  BY DEF Row

LEMMA Accepted ==
  ASSUME NEW w \in Row
  PROVE  LET v == [w EXCEPT !.joined = "yes", !.status = "ACCEPTED"] IN
         /\ v \in Row /\ v.status = "ACCEPTED" /\ v.email = w.email /\ v.contact = w.contact
         /\ v.joined = "yes"
  BY DEF Row

LEMMA Lapsing ==
  ASSUME TypeOK, NEW i \in Ids, Lapse(i)
  PROVE  /\ rows' \in [Ids -> Row] /\ \A j \in Ids \ {i} : rows'[j] = rows[j]
         /\ \A j \in Ids : /\ rows'[j].status = rows[j].status /\ rows'[j].email = rows[j].email
                           /\ rows'[j].joined = rows[j].joined
                           /\ rows'[j].contact = rows[j].contact
         /\ stale' \subseteq Requests
         /\ \A q \in Requests : q \notin stale' => q \notin stale /\ reqs[q].id # i
<1>1. LET v == [rows[i] EXCEPT !.lapsed = "yes"] IN
      /\ v \in Row /\ v.status = rows[i].status /\ v.email = rows[i].email
      /\ v.contact = rows[i].contact /\ v.joined = rows[i].joined
  BY DEF Row, TypeOK
<1>2. /\ rows' \in [Ids -> Row] /\ rows'[i] = [rows[i] EXCEPT !.lapsed = "yes"]
      /\ \A j \in Ids \ {i} : rows'[j] = rows[j]
  BY <1>1 DEF TypeOK, Lapse
<1>3. /\ stale' \subseteq Requests
      /\ \A q \in Requests : q \notin stale' => q \notin stale /\ reqs[q].id # i
  BY DEF Lapse, TypeOK, Concerned
<1> QED
  BY <1>1, <1>2, <1>3

LEMMA NoRowTyped ==
  NoRow \in Row /\ NoRow.status = "absent" /\ NoRow.joined = "no" /\ NoRow.email = None
<1>1. NoRow \in Row
  BY DEF Row, NoRow
<1>2. NoRow.status = "absent" /\ NoRow.joined = "no" /\ NoRow.email = None
  BY DEF NoRow
<1> QED
  BY <1>1, <1>2

LEMMA Drafts ==
  ASSUME NEW e \in Emails, NEW c \in Contacts \union {None}
  PROVE  /\ Draft(e, c) \in Row /\ Draft(e, c).status = "PENDING" /\ Draft(e, c).joined = "no"
         /\ Draft(e, c).email = e /\ Draft(e, c).contact = c
  BY NoRowTyped DEF Row, Draft

LEMMA IdleTyped ==
  Idle \in Req /\ Idle.step = "idle" /\ Idle.id = None /\ Idle.email = None /\ Idle.contact = None
<1>1. Idle \in Req
  BY DEF Idle, Req, Steps
<1>2. Idle.step = "idle" /\ Idle.id = None /\ Idle.email = None /\ Idle.contact = None
  BY DEF Idle
<1> QED
  BY <1>1, <1>2

(* What the helpers that only touch the requests do. *)
LEMMA Replying ==
  ASSUME TypeOK, NEW r \in Requests, Reply(r)
  PROVE  /\ reqs' \in [Requests -> Req] /\ reqs'[r] = Idle
         /\ \A q \in Requests \ {r} : reqs'[q] = reqs[q]
         /\ stale' = stale \ {r} /\ stale' \subseteq Requests
  BY IdleTyped DEF TypeOK, Reply

LEMMA Reading ==
  ASSUME TypeOK, NEW r \in Requests, NEW i \in Ids, NEW s \in Steps, Read(r, i, s)
  PROVE  /\ reqs' \in [Requests -> Req]
         /\ reqs'[r].step = s /\ reqs'[r].id = i
         /\ \A q \in Requests \ {r} : reqs'[q] = reqs[q]
<1>1. LET q == [Idle EXCEPT !.step = s, !.id = i] IN q \in Req /\ q.step = s /\ q.id = i
  BY IdleTyped DEF Req
<1> QED
  BY <1>1 DEF TypeOK, Read

LEMMA Going ==
  ASSUME TypeOK, NEW r \in Requests, NEW s \in Steps, Goto(r, s)
  PROVE  /\ reqs' \in [Requests -> Req] /\ reqs'[r].step = s
         /\ reqs'[r].email = reqs[r].email /\ reqs'[r].contact = reqs[r].contact
         /\ \A q \in Requests \ {r} : reqs'[q] = reqs[q]
  BY DEF TypeOK, Goto, Req

LEMMA Inviting ==
  ASSUME TypeOK, NEW r \in Requests, NEW e \in Emails, NEW c \in Contacts \union {None},
         Invite(r, e, c)
  PROVE  /\ reqs' \in [Requests -> Req] /\ reqs'[r].step = "pending?" /\ reqs'[r].email = e
         /\ \A q \in Requests \ {r} : reqs'[q] = reqs[q]
<1>1. LET q == [Idle EXCEPT !.step = "pending?", !.email = e, !.contact = c] IN
      q \in Req /\ q.step = "pending?" /\ q.email = e
  BY IdleTyped DEF Req, Steps
<1> QED
  BY <1>1 DEF TypeOK, Invite

(* What a request knows depends on its invitation, or on its address and contact. *)
LEMMA KnowledgeKept ==
  ASSUME NEW q \in Requests, KnowsRow(q), KnowsVacancy(q), reqs'[q] = reqs[q],
         reqs[q].step \in Holding =>
           /\ rows'[reqs[q].id].status = rows[reqs[q].id].status
           /\ rows'[reqs[q].id].lapsed = rows[reqs[q].id].lapsed,
         reqs[q].step \in Drafting =>
           /\ users[reqs[q].email] # "live" => users'[reqs[q].email] # "live"
           /\ Open(reqs[q].email)' = Open(reqs[q].email)
           /\ Vacant(reqs[q].contact) => Vacant(reqs[q].contact)'
  PROVE  KnowsRow(q)' /\ KnowsVacancy(q)'
<1>1. KnowsRow(q)'
  BY DEF KnowsRow, At, Holding
<1>2. KnowsVacancy(q)'
  BY DEF KnowsVacancy, At, Drafting
<1> QED
  BY <1>1, <1>2

LEMMA IdleKnows ==
  ASSUME NEW q, reqs'[q] = Idle
  PROVE  Whole(q)' /\ KnowsRow(q)' /\ KnowsVacancy(q)'
<1>1. reqs'[q].step = "idle"
  BY IdleTyped
<1> QED
  BY <1>1 DEF Whole, KnowsRow, KnowsVacancy, At, Holding, Drafting

(* What a write of one invitation does to the other variables. *)
SaveEffects(r, i, row) ==
  /\ rows' \in [Ids -> Row] /\ rows'[i] = row /\ \A j \in Ids \ {i} : rows'[j] = rows[j]
  /\ reqs' \in [Requests -> Req] /\ reqs'[r] = Idle
  /\ \A q \in Requests \ {r} : reqs'[q] = reqs[q]
  /\ stale' \subseteq Requests /\ overtaken' \subseteq overtaken \union {i}
  /\ overtaken' \subseteq Ids /\ overtaken \subseteq overtaken'
  /\ r \in stale => i \in overtaken'
  /\ \A q \in Requests \ {r} : q \notin stale' =>
       /\ q \notin stale /\ reqs[q].id # i /\ reqs[q].email # row.email
       /\ row.joined # rows[i].joined /\ row.contact # None => reqs[q].contact # row.contact

LEMMA Saving ==
  ASSUME TypeOK, NEW r \in Requests, NEW i \in Ids, NEW row \in Row, Save(r, i, row)
  PROVE  SaveEffects(r, i, row)
<1>1. Idle \in Req
  BY IdleTyped
<1>2. /\ rows' \in [Ids -> Row] /\ rows'[i] = row /\ \A j \in Ids \ {i} : rows'[j] = rows[j]
      /\ reqs' \in [Requests -> Req] /\ reqs'[r] = Idle
      /\ \A q \in Requests \ {r} : reqs'[q] = reqs[q]
  BY <1>1 DEF Save, TypeOK
<1>3. /\ stale' \subseteq Requests
      /\ \A q \in Requests \ {r} : q \notin stale' => q \notin stale /\ q \notin Concerned(i, row.email, Taken(i, row))
  BY DEF Save, TypeOK, Concerned
<1>4. \A q \in Requests : q \notin Concerned(i, row.email, Taken(i, row)) =>
        /\ reqs[q].id # i /\ reqs[q].email # row.email
        /\ row.joined # rows[i].joined /\ row.contact # None => reqs[q].contact # row.contact
  BY DEF Concerned, Taken
<1>5. /\ overtaken' \subseteq overtaken \union {i} /\ overtaken' \subseteq Ids
      /\ overtaken \subseteq overtaken' /\ (r \in stale => i \in overtaken')
  BY DEF Save, TypeOK
<1> QED
  BY <1>2, <1>3, <1>4, <1>5 DEF SaveEffects

(* A request moves on; the others know what they knew. *)
LEMMA OneMoves ==
  ASSUME IInv, NEW r \in Requests, UNCHANGED Tables,
         \A q \in Requests \ {r} : reqs'[q] = reqs[q],
         stale \ {r} \subseteq stale', Whole(r)',
         r \notin stale' => KnowsRow(r)' /\ KnowsVacancy(r)'
  PROVE  RequestsAreWhole' /\ FreshRequestsKnow'
<1>1. RequestsAreWhole'
  BY DEF IInv, RequestsAreWhole, Whole, Tables
<1>2. ASSUME NEW q \in Requests \ {r}, q \notin stale' PROVE KnowsRow(q)' /\ KnowsVacancy(q)'
  <2>1. KnowsRow(q) /\ KnowsVacancy(q) /\ reqs'[q] = reqs[q]
    BY <1>2 DEF IInv, FreshRequestsKnow
  <2>2. Open(reqs[q].email)' = Open(reqs[q].email)
    BY <2>1 DEF Open, Tables
  <2>3. Vacant(reqs[q].contact) => Vacant(reqs[q].contact)'
    BY <2>1 DEF Vacant, Tables
  <2> QED
    BY <2>1, <2>2, <2>3, KnowledgeKept DEF Tables
<1> QED
  BY <1>1, <1>2 DEF FreshRequestsKnow

(* A write of an invitation leaves the requests that it does not make stale  *)
(* with what they know.                                                      *)
LEMMA SaveLeavesKnowledge ==
  ASSUME IInv, NEW r \in Requests, NEW i \in Ids, NEW row \in Row, SaveEffects(r, i, row),
         rows[i].status # "absent", row.status # "absent", row.email = rows[i].email,
         \A a \in Emails \ {row.email} : users'[a] = users[a],
         \A c \in Contacts : portal'[c] # portal[c] =>
           c = row.contact /\ row.joined # rows[i].joined
  PROVE  RowsAreWhole' /\ RequestsAreWhole' /\ FreshRequestsKnow'
<1>1. RowsAreWhole'
  BY DEF IInv, RowsAreWhole, SaveEffects
<1>2. Whole(r)' /\ KnowsRow(r)' /\ KnowsVacancy(r)'
  BY IdleKnows DEF SaveEffects
<1>3. RequestsAreWhole'
  BY <1>2 DEF IInv, RequestsAreWhole, Whole, SaveEffects
<1>4. ASSUME NEW q \in Requests \ {r}, q \notin stale' PROVE KnowsRow(q)' /\ KnowsVacancy(q)'
  <2>1. /\ KnowsRow(q) /\ KnowsVacancy(q) /\ Whole(q) /\ reqs'[q] = reqs[q] /\ reqs[q] \in Req
        /\ reqs[q].id # i /\ reqs[q].email # row.email
        /\ row.joined # rows[i].joined /\ row.contact # None => reqs[q].contact # row.contact
    BY <1>4 DEF IInv, FreshRequestsKnow, RequestsAreWhole, SaveEffects, TypeOK
  <2>2. reqs[q].step \in Holding => rows'[reqs[q].id] = rows[reqs[q].id]
    BY <2>1 DEF Whole, SaveEffects
  <2>3. Open(reqs[q].email)' = Open(reqs[q].email)
    <3>1. \A j \in Ids : /\ j # i => rows'[j] = rows[j]
                         /\ j = i => rows'[j].email # reqs[q].email /\ rows[j].email # reqs[q].email
      BY <2>1 DEF SaveEffects
    <3> QED
      BY <2>1, <3>1 DEF Open
  <2>4. reqs[q].contact \in Contacts \union {None}
    BY <2>1 DEF Req
  <2>5. Vacant(reqs[q].contact) => Vacant(reqs[q].contact)'
    BY <2>1, <2>4 DEF Vacant
  <2>6. reqs[q].step \in Drafting => users'[reqs[q].email] = users[reqs[q].email]
    BY <2>1 DEF Whole
  <2> QED
    BY <2>1, <2>2, <2>3, <2>5, <2>6, KnowledgeKept
<1> QED
  BY <1>1, <1>2, <1>3, <1>4 DEF FreshRequestsKnow

(* No way in opens where none was: the form that most steps satisfy.         *)
LEMMA NoNewWayIn ==
  ASSUME OneWayIn,
         \A a \in Emails : Untangled(a)' =>
           /\ Untangled(a)
           /\ Open(a)' \subseteq Open(a)
           /\ users'[a] = "live" => users[a] = "live" \/ Open(a)' = {}
  PROVE  OneWayIn'
  BY DEF OneWayIn

LEMMA SaveSpread ==
  ASSUME NEW r \in Requests, NEW i \in Ids, NEW row \in Row, SaveEffects(r, i, row),
         row.email = rows[i].email, row.contact = rows[i].contact
  PROVE  /\ \A a \in Emails : Of(a)' = Of(a)
         /\ \A j \in Ids : rows'[j].email = rows[j].email /\ rows'[j].contact = rows[j].contact
         /\ tangled \subseteq tangled' => \A a \in Emails : Untangled(a)' => Untangled(a)
<1>1. \A j \in Ids : rows'[j].email = rows[j].email /\ rows'[j].contact = rows[j].contact
  BY DEF SaveEffects
<1>2. \A a \in Emails : Of(a)' = Of(a)
  BY <1>1 DEF Of
<1>3. overtaken \subseteq overtaken'
  BY DEF SaveEffects
<1> QED
  BY <1>1, <1>2, <1>3 DEF Untangled

(* A write that lets nobody in keeps what is said of users and contacts.     *)
LEMMA SaveLetsNobodyIn ==
  ASSUME IInv, NEW r \in Requests, NEW i \in Ids, NEW row \in Row, SaveEffects(r, i, row),
         row.email = rows[i].email, row.contact = rows[i].contact,
         row.joined = rows[i].joined, row.status # "ACCEPTED",
         r \notin stale => rows[i].status # "ACCEPTED",
         UNCHANGED <<users, portal>>
  PROVE  UserHasItsInvitation' /\ ContactHasItsClient'
<1>1. \A j \in Ids : /\ rows'[j].email = rows[j].email /\ rows'[j].contact = rows[j].contact
                     /\ rows'[j].joined = rows[j].joined
  BY SaveSpread DEF SaveEffects
<1>2. Joiners' = Joiners /\ \A a \in Emails : Of(a)' = Of(a)
  BY <1>1 DEF Joiners, Of
<1>3. \A j \in Ids : rows'[j].joined = "yes" =>
        (rows'[j].status = "ACCEPTED" \/ j \in overtaken') /\ users'[rows'[j].email] # "none"
  <2>1. \A j \in Ids \ {i} : rows'[j] = rows[j]
    BY DEF SaveEffects
  <2>2. overtaken \subseteq overtaken' /\ (r \in stale => i \in overtaken')
    BY DEF SaveEffects
  <2>3. rows[i].joined = "yes" => i \in overtaken'
    BY <2>2 DEF IInv, UserHasItsInvitation
  <2> QED
    BY <1>1, <2>1, <2>2, <2>3 DEF IInv, UserHasItsInvitation
<1>4. \A j \in Ids : rows'[j].status = "ACCEPTED" => rows'[j].joined = "yes"
  <2>1. rows'[i] = row /\ \A j \in Ids \ {i} : rows'[j] = rows[j]
    BY DEF SaveEffects
  <2> QED
    BY <2>1 DEF IInv, UserHasItsInvitation
<1>5. UserHasItsInvitation'
  <2>1. \A a \in Emails : users'[a] # "none" => (Of(a) \intersect Joiners)' # {}
    BY <1>2 DEF IInv, UserHasItsInvitation
  <2>2. \A j, k \in Joiners' : rows'[j].email = rows'[k].email => j = k
    BY <1>1, <1>2 DEF IInv, UserHasItsInvitation, Joiners
  <2> QED
    BY <1>3, <1>4, <2>1, <2>2 DEF UserHasItsInvitation
<1>6. ContactHasItsClient'
  <2>1. \A c \in Contacts : Joined(c)' = Joined(c)
    BY <1>1, <1>2 DEF Joined, Joiners
  <2> QED
    BY <1>1, <2>1 DEF IInv, ContactHasItsClient, Joined, Joiners
<1> QED
  BY <1>5, <1>6

LEMMA InitialTypes == Init => TypeOK
  BY NoneAssumption, NoRowTyped, IdleTyped DEF Init, TypeOK, Steps

LEMMA StepKeepsTypes == TypeOK /\ RowsAreWhole /\ RequestsAreWhole /\ [Next]_vars => TypeOK'
<1> SUFFICES ASSUME TypeOK, RowsAreWhole, RequestsAreWhole, [Next]_vars PROVE TypeOK'
  OBVIOUS
<1> USE NoneAssumption
        DEF TypeOK, At, Tables
<1>1. ASSUME NEW r \in Requests, NEW e \in Emails, NEW c \in Contacts \union {None}, Invite(r, e, c) PROVE TypeOK'
  <2>1. reqs' \in [Requests -> Req]
    BY <1>1, Inviting
  <2> QED
    BY <1>1, <2>1 DEF Invite
<1>2. ASSUME NEW r \in Requests, CheckPending(r) PROVE TypeOK'
  <2>1. CASE Goto(r, "contact?") /\ UNCHANGED <<Tables, stale>>
    BY <2>1, Going DEF Steps
  <2>2. CASE Reply(r) /\ UNCHANGED Tables
    BY <2>2, Replying
  <2> QED
    BY <1>2, <2>1, <2>2 DEF CheckPending
<1>3. ASSUME NEW r \in Requests, CheckContact(r) PROVE TypeOK'
  <2>1. CASE Goto(r, "create") /\ UNCHANGED <<Tables, stale>>
    BY <2>1, Going DEF Steps
  <2>2. CASE Reply(r) /\ UNCHANGED Tables
    BY <2>2, Replying
  <2> QED
    BY <1>3, <2>1, <2>2 DEF CheckContact
<1>4. ASSUME NEW r \in Requests, NEW i \in Ids, Create(r, i) PROVE TypeOK'
  <2>a. reqs[r].email \in Emails /\ reqs[r].contact \in Contacts \union {None}
    BY <1>4 DEF Create, RequestsAreWhole, Whole, Drafting, Req
  <2>1. rows' \in [Ids -> Row] /\ reqs' \in [Requests -> Req]
    BY <1>4, <2>a, Drafts, IdleTyped DEF Create
  <2>2. stale' \subseteq Requests /\ tangled' \subseteq Emails
    BY <1>4, <2>a DEF Create, Concerned
  <2> QED
    BY <1>4, <2>1, <2>2 DEF Create
<1>5. ASSUME NEW r \in Requests, NEW i \in Ids, ReadForResend(r, i) PROVE TypeOK'
  <2>1. \E s \in {"resend"} : Read(r, i, s)
    BY <1>5 DEF ReadForResend
  <2>2. reqs' \in [Requests -> Req]
    BY <2>1, Reading DEF Steps
  <2> QED
    BY <1>5, <2>2 DEF ReadForResend
<1>6. ASSUME NEW r \in Requests, NEW i \in Ids, ReadForRevoke(r, i) PROVE TypeOK'
  <2>1. \E s \in {"revoke"} : Read(r, i, s)
    BY <1>6 DEF ReadForRevoke
  <2>2. reqs' \in [Requests -> Req]
    BY <2>1, Reading DEF Steps
  <2> QED
    BY <1>6, <2>2 DEF ReadForRevoke
<1>7. ASSUME NEW r \in Requests, NEW i \in Ids, OpenLink(r, i) PROVE TypeOK'
  <2>1. \E s \in {"expire", "join"} : Read(r, i, s)
    BY <1>7 DEF OpenLink
  <2>2. reqs' \in [Requests -> Req]
    BY <2>1, Reading DEF Steps
  <2> QED
    BY <1>7, <2>2 DEF OpenLink
<1>8. ASSUME NEW r \in Requests, Resend(r) PROVE TypeOK'
  <2> DEFINE i == reqs[r].id
             row == [rows[i] EXCEPT !.status = "PENDING", !.lapsed = "no"]
  <2>a. i \in Ids /\ rows[i].status # "absent" /\ At(r, "resend")
    BY <1>8 DEF Resend, RequestsAreWhole, Whole, Holding
  <2>0. rows[i] \in Row
    BY <2>a
  <2>b. /\ rows[i] \in Row /\ row \in Row
        /\ row.email = rows[i].email /\ row.contact = rows[i].contact
        /\ row.status = "PENDING" /\ row.joined = rows[i].joined
    BY <2>0, Reopened, Zenon
  <2>c. Save(r, i, row)
    BY <1>8 DEF Resend
  <2>d. SaveEffects(r, i, row)
    BY <2>a, <2>b, <2>c, Saving

  <2>e. tangled' \subseteq Emails /\ UNCHANGED <<users, portal>>
    BY <1>8, <2>a, <2>b DEF Resend, Row, RowsAreWhole
  <2> QED
    BY <2>d, <2>e DEF SaveEffects
<1>9. ASSUME NEW r \in Requests, Revoke(r) PROVE TypeOK'
  <2> DEFINE i == reqs[r].id
             row == [rows[i] EXCEPT !.status = "REVOKED"]
  <2>a. i \in Ids /\ rows[i].status # "absent" /\ At(r, "revoke")
    BY <1>9 DEF Revoke, Settle, RequestsAreWhole, Whole, Holding
  <2>0. rows[i] \in Row
    BY <2>a
  <2>b. /\ rows[i] \in Row /\ row \in Row
        /\ row.email = rows[i].email /\ row.contact = rows[i].contact
        /\ row.status = "REVOKED" /\ row.joined = rows[i].joined
    BY <2>0, StatusSet, Zenon
  <2>c. Save(r, i, row)
    BY <1>9 DEF Revoke, Settle
  <2>d. SaveEffects(r, i, row)
    BY <2>a, <2>b, <2>c, Saving

  <2>e. UNCHANGED <<users, portal, tangled>>
    BY <1>9, <2>a, <2>b DEF Revoke, Settle, Row, RowsAreWhole
  <2> QED
    BY <2>d, <2>e DEF SaveEffects
<1>10. ASSUME NEW r \in Requests, Expire(r) PROVE TypeOK'
  <2> DEFINE i == reqs[r].id
             row == [rows[i] EXCEPT !.status = "EXPIRED"]
  <2>a. i \in Ids /\ rows[i].status # "absent" /\ At(r, "expire")
    BY <1>10 DEF Expire, Settle, RequestsAreWhole, Whole, Holding
  <2>0. rows[i] \in Row
    BY <2>a
  <2>b. /\ rows[i] \in Row /\ row \in Row
        /\ row.email = rows[i].email /\ row.contact = rows[i].contact
        /\ row.status = "EXPIRED" /\ row.joined = rows[i].joined
    BY <2>0, StatusSet, Zenon
  <2>c. Save(r, i, row)
    BY <1>10 DEF Expire, Settle
  <2>d. SaveEffects(r, i, row)
    BY <2>a, <2>b, <2>c, Saving

  <2>e. UNCHANGED <<users, portal, tangled>>
    BY <1>10, <2>a, <2>b DEF Expire, Settle, Row, RowsAreWhole
  <2> QED
    BY <2>d, <2>e DEF SaveEffects
<1>11. ASSUME NEW r \in Requests, Join(r) PROVE TypeOK'
  <2> DEFINE i == reqs[r].id
             row == [rows[i] EXCEPT !.joined = "yes", !.status = "ACCEPTED"]
  <2>a. i \in Ids /\ rows[i].status # "absent" /\ At(r, "join")
    BY <1>11 DEF Join, RequestsAreWhole, Whole, Holding
  <2>0. rows[i] \in Row
    BY <2>a
  <2>b. /\ rows[i] \in Row /\ row \in Row
        /\ row.email = rows[i].email /\ row.contact = rows[i].contact
        /\ row.status = "ACCEPTED" /\ row.joined = "yes"
    BY <2>0, Accepted, Zenon
  <2>c. Save(r, i, row)
    BY <1>11 DEF Join
  <2>d. SaveEffects(r, i, row)
    BY <2>a, <2>b, <2>c, Saving

  <2>e. users' \in [Emails -> {"none", "live", "removed"}] /\ portal' \in [Contacts -> Emails \union {None}] /\ UNCHANGED tangled
    BY <1>11, <2>a, <2>b DEF Join, Row, RowsAreWhole
  <2> QED
    BY <2>d, <2>e DEF SaveEffects
<1>12. ASSUME NEW r \in Requests, JoinConflicts(r) PROVE TypeOK'
  <2>1. reqs' \in [Requests -> Req] /\ stale' \subseteq Requests
    BY <1>12, Replying DEF JoinConflicts
  <2> QED
    BY <1>12, <2>1 DEF JoinConflicts
<1>13. ASSUME NEW r \in Requests, Stop(r) PROVE TypeOK'
  <2>1. reqs' \in [Requests -> Req] /\ stale' \subseteq Requests
    BY <1>13, Replying DEF Stop
  <2> QED
    BY <1>13, <2>1 DEF Stop
<1>14. ASSUME NEW e \in Emails, RemoveUser(e) PROVE TypeOK'
  BY <1>14 DEF RemoveUser
<1>15. ASSUME NEW i \in Ids, Lapse(i) PROVE TypeOK'
  <2>1. rows' \in [Ids -> Row] /\ stale' \subseteq Requests
    BY <1>15, Lapsing
  <2> QED
    BY <1>15, <2>1 DEF Lapse
<1>16. CASE UNCHANGED vars
  BY <1>16 DEF vars
<1> QED
  BY <1>1, <1>2, <1>3, <1>4, <1>5, <1>6, <1>7, <1>8, <1>9, <1>10, <1>11, <1>12, <1>13, <1>14,
     <1>15, <1>16
     DEF Next

(* A step that leaves the variables of a conjunct alone leaves the conjunct true. *)
LEMMA Frame ==
    /\ RowsAreWhole /\ UNCHANGED <<rows>> => RowsAreWhole'
    /\ RequestsAreWhole /\ UNCHANGED <<reqs, rows>> => RequestsAreWhole'
    /\ FreshRequestsKnow /\ UNCHANGED <<reqs, rows, users, portal, stale>> => FreshRequestsKnow'
    /\ OneWayIn /\ UNCHANGED <<rows, users, overtaken, tangled>> => OneWayIn'
    /\ UserHasItsInvitation /\ UNCHANGED <<rows, users, overtaken>> => UserHasItsInvitation'
    /\ ContactHasItsClient /\ UNCHANGED <<rows, portal>> => ContactHasItsClient'
<1>1. RowsAreWhole /\ UNCHANGED <<rows>> => RowsAreWhole'
  BY DEF RowsAreWhole
<1>2. RequestsAreWhole /\ UNCHANGED <<reqs, rows>> => RequestsAreWhole'
  BY DEF RequestsAreWhole, Whole
<1>3. FreshRequestsKnow /\ UNCHANGED <<reqs, rows, users, portal, stale>> => FreshRequestsKnow'
  BY DEF FreshRequestsKnow, KnowsRow, KnowsVacancy, Open, Vacant, At
<1>4. OneWayIn /\ UNCHANGED <<rows, users, overtaken, tangled>> => OneWayIn'
  BY DEF OneWayIn, Untangled, Of, Open
<1>5. UserHasItsInvitation /\ UNCHANGED <<rows, users, overtaken>> => UserHasItsInvitation'
  BY DEF UserHasItsInvitation, Of, Joiners
<1>6. ContactHasItsClient /\ UNCHANGED <<rows, portal>> => ContactHasItsClient'
  BY DEF ContactHasItsClient, Joined, Joiners
<1> QED
  BY <1>1, <1>2, <1>3, <1>4, <1>5, <1>6

LEMMA InvariantHoldsInitially == Init => IInv
<1> SUFFICES ASSUME Init PROVE IInv
  OBVIOUS
<1>1. RowsAreWhole
  <2>1. NoRow.status = "absent"
    BY DEF NoRow
  <2>2. \A i \in Ids : rows[i] = NoRow
    BY DEF Init
  <2> QED
    BY <2>1, <2>2, Zenon DEF RowsAreWhole
<1>2. RequestsAreWhole
  BY IdleTyped DEF Init, RequestsAreWhole, Whole, Holding, Drafting
<1>3. FreshRequestsKnow
  BY IdleTyped DEF Init, FreshRequestsKnow, KnowsRow, KnowsVacancy, At, Holding, Drafting
<1>4. OneWayIn
  BY NoRowTyped DEF Init, OneWayIn, Open
<1>5. UserHasItsInvitation
  BY NoRowTyped DEF Init, UserHasItsInvitation, Of, Joiners
<1>6. ContactHasItsClient
  BY NoRowTyped DEF Init, ContactHasItsClient, Joined, Joiners
<1> QED
  BY <1>1, <1>2, <1>3, <1>4, <1>5, <1>6, InitialTypes DEF IInv

(* One step per action, and under it one per conjunct the action disturbs. *)
LEMMA StepKeepsInvariant == IInv /\ [Next]_vars => IInv'
<1> SUFFICES ASSUME IInv, [Next]_vars PROVE IInv'
  OBVIOUS
<1> USE DEF IInv, TypeOK, At, Tables
<1>1. ASSUME NEW r \in Requests, NEW e \in Emails, NEW c \in Contacts \union {None}, Invite(r, e, c) PROVE IInv'
  <2>p. /\ reqs'[r].step = "pending?" /\ reqs'[r].email = e
        /\ \A q \in Requests \ {r} : reqs'[q] = reqs[q]
    BY <1>1, Inviting
  <2>q. Whole(r)' /\ KnowsRow(r)' /\ KnowsVacancy(r)'
    BY <1>1, <2>p DEF Invite, Whole, KnowsRow, KnowsVacancy, Holding, Drafting, At, Tables
  <2>w. RequestsAreWhole' /\ FreshRequestsKnow'
    BY <1>1, <2>p, <2>q, OneMoves DEF Invite
  <2>1. RowsAreWhole' /\ OneWayIn' /\ UserHasItsInvitation' /\ ContactHasItsClient'
    BY <1>1, Frame DEF Invite, Tables
  <2>2. RequestsAreWhole'
    BY <2>w
  <2>3. FreshRequestsKnow'
    BY <2>w
  <2> QED
    BY <2>1, <2>2, <2>3, StepKeepsTypes
<1>2. ASSUME NEW r \in Requests, CheckPending(r) PROVE IInv'
  <2>w. RequestsAreWhole' /\ FreshRequestsKnow'
    <3>1. CASE Open(reqs[r].email) = {} /\ Goto(r, "contact?") /\ UNCHANGED stale
      <4>1. /\ reqs'[r].step = "contact?" /\ reqs'[r].email = reqs[r].email
            /\ reqs'[r].contact = reqs[r].contact
            /\ \A q \in Requests \ {r} : reqs'[q] = reqs[q]
        BY <3>1, Going DEF Steps
      <4>2. reqs[r].step = "pending?" /\ UNCHANGED Tables
        BY <1>2 DEF CheckPending, At
      <4>3. Whole(r)'
        BY <4>1, <4>2 DEF RequestsAreWhole, Whole, Holding, Drafting
      <4>4. r \notin stale => KnowsVacancy(r) 
        BY DEF FreshRequestsKnow
      <4>5. Open(reqs[r].email)' = Open(reqs[r].email) /\ Vacant(reqs[r].contact)' = Vacant(reqs[r].contact)
        BY <4>1, <4>2 DEF Open, Vacant, Tables
      <4>6. r \notin stale' => KnowsRow(r)' /\ KnowsVacancy(r)'
        BY <3>1, <4>1, <4>2, <4>4, <4>5 DEF KnowsRow, KnowsVacancy, Holding, Drafting, At, Tables, Open, Vacant
      <4> QED
        BY <3>1, <4>1, <4>2, <4>3, <4>6, OneMoves
    <3>2. CASE Reply(r) /\ UNCHANGED Tables
      <4>1. /\ reqs'[r] = Idle /\ \A q \in Requests \ {r} : reqs'[q] = reqs[q]
            /\ stale \ {r} \subseteq stale'
        BY <3>2, Replying
      <4>2. Whole(r)' /\ KnowsRow(r)' /\ KnowsVacancy(r)'
        BY <4>1, IdleKnows
      <4> QED
        BY <3>2, <4>1, <4>2, OneMoves
    <3> QED
      BY <1>2, <3>1, <3>2 DEF CheckPending
  <2>1. RowsAreWhole' /\ OneWayIn' /\ UserHasItsInvitation' /\ ContactHasItsClient'
    BY <1>2, Frame DEF CheckPending, Tables
  <2>2. RequestsAreWhole'
    BY <2>w
  <2>3. FreshRequestsKnow'
    BY <2>w
  <2> QED
    BY <2>1, <2>2, <2>3, StepKeepsTypes
<1>3. ASSUME NEW r \in Requests, CheckContact(r) PROVE IInv'
  <2>w. RequestsAreWhole' /\ FreshRequestsKnow'
    <3>1. CASE Vacant(reqs[r].contact) /\ Goto(r, "create") /\ UNCHANGED stale
      <4>1. /\ reqs'[r].step = "create" /\ reqs'[r].email = reqs[r].email
            /\ reqs'[r].contact = reqs[r].contact
            /\ \A q \in Requests \ {r} : reqs'[q] = reqs[q]
        BY <3>1, Going DEF Steps
      <4>2. reqs[r].step = "contact?" /\ UNCHANGED Tables
        BY <1>3 DEF CheckContact, At
      <4>3. Whole(r)'
        BY <4>1, <4>2 DEF RequestsAreWhole, Whole, Holding, Drafting
      <4>4. r \notin stale => KnowsVacancy(r) 
        BY DEF FreshRequestsKnow
      <4>5. Open(reqs[r].email)' = Open(reqs[r].email) /\ Vacant(reqs[r].contact)' = Vacant(reqs[r].contact)
        BY <4>1, <4>2 DEF Open, Vacant, Tables
      <4>6. r \notin stale' => KnowsRow(r)' /\ KnowsVacancy(r)'
        BY <3>1, <4>1, <4>2, <4>4, <4>5 DEF KnowsRow, KnowsVacancy, Holding, Drafting, At, Tables, Open, Vacant
      <4> QED
        BY <3>1, <4>1, <4>2, <4>3, <4>6, OneMoves
    <3>2. CASE Reply(r) /\ UNCHANGED Tables
      <4>1. /\ reqs'[r] = Idle /\ \A q \in Requests \ {r} : reqs'[q] = reqs[q]
            /\ stale \ {r} \subseteq stale'
        BY <3>2, Replying
      <4>2. Whole(r)' /\ KnowsRow(r)' /\ KnowsVacancy(r)'
        BY <4>1, IdleKnows
      <4> QED
        BY <3>2, <4>1, <4>2, OneMoves
    <3> QED
      BY <1>3, <3>1, <3>2 DEF CheckContact
  <2>1. RowsAreWhole' /\ OneWayIn' /\ UserHasItsInvitation' /\ ContactHasItsClient'
    BY <1>3, Frame DEF CheckContact, Tables
  <2>2. RequestsAreWhole'
    BY <2>w
  <2>3. FreshRequestsKnow'
    BY <2>w
  <2> QED
    BY <2>1, <2>2, <2>3, StepKeepsTypes
<1>4. ASSUME NEW r \in Requests, NEW i \in Ids, Create(r, i) PROVE IInv'
  <2> DEFINE e == reqs[r].email
             row == Draft(e, reqs[r].contact)
  <2>a. e \in Emails /\ reqs[r].contact \in Contacts \union {None} /\ e # None
    BY <1>4, NoneAssumption DEF Create, RequestsAreWhole, Whole, Drafting, Req
  <2>b. /\ row \in Row /\ row.status = "PENDING" /\ row.joined = "no" /\ row.email = e
        /\ row.contact = reqs[r].contact
    BY <2>a, Drafts
  <2>c. /\ rows[i] = NoRow /\ rows[i].status = "absent" /\ rows[i].joined = "no" /\ rows[i].email = None
    BY <1>4, NoRowTyped DEF Create
  <2>d. /\ rows'[i] = row /\ \A j \in Ids \ {i} : rows'[j] = rows[j]
        /\ reqs'[r] = Idle /\ \A q \in Requests \ {r} : reqs'[q] = reqs[q]
        /\ \A q \in Requests \ {r} : q \notin stale' => q \notin stale /\ reqs[q].id # i /\ reqs[q].email # e
        /\ tangled' = IF r \in stale THEN tangled \union {e} ELSE tangled
        /\ UNCHANGED <<users, portal, overtaken>>
    BY <1>4, <2>a, <2>b DEF Create, Concerned
  <2>f. r \notin stale => users[e] # "live" /\ Open(e) = {} /\ Vacant(reqs[r].contact)
    BY <1>4 DEF Create, FreshRequestsKnow, KnowsVacancy, Drafting
  <2> HIDE DEF e, row
  <2>1. RowsAreWhole'
    BY <2>a, <2>b, <2>d DEF RowsAreWhole
  <2>2. RequestsAreWhole'
    <3>1. Whole(r)'
      BY <2>d, IdleKnows
    <3>2. ASSUME NEW q \in Requests \ {r} PROVE Whole(q)'
      BY <2>b, <2>d DEF RequestsAreWhole, Whole
    <3> QED
      BY <3>1, <3>2 DEF RequestsAreWhole
  <2>3. FreshRequestsKnow'
    <3>1. KnowsRow(r)' /\ KnowsVacancy(r)'
      BY <2>d, IdleKnows
    <3>2. ASSUME NEW q \in Requests \ {r}, q \notin stale' PROVE KnowsRow(q)' /\ KnowsVacancy(q)'
      <4>1. /\ KnowsRow(q) /\ KnowsVacancy(q) /\ Whole(q) /\ reqs'[q] = reqs[q] /\ reqs[q].id # i /\ reqs[q].email # e
        BY <2>d, <3>2 DEF FreshRequestsKnow, RequestsAreWhole
      <4>2. reqs[q].step \in Holding => rows'[reqs[q].id] = rows[reqs[q].id]
        BY <2>d, <4>1 DEF Whole
      <4>3. Open(reqs[q].email)' = Open(reqs[q].email)
        BY <2>b, <2>c, <2>d, <4>1 DEF Open
      <4>4. Vacant(reqs[q].contact) => Vacant(reqs[q].contact)'
        BY <2>d, <4>1 DEF Vacant
      <4> QED
        BY <2>d, <4>1, <4>2, <4>3, <4>4, KnowledgeKept
    <3> QED
      BY <3>1, <3>2 DEF FreshRequestsKnow
  <2>4. OneWayIn'
    <3>1. \A a \in Emails : Of(a) \subseteq Of(a)'
      BY <2>a, <2>c, <2>d, NoneAssumption DEF Of
    <3>2. ASSUME NEW a \in Emails, Untangled(a)'
          PROVE  (users'[a] = "live" => Open(a)' = {}) /\ \A j, k \in Open(a)' : j = k
      <4>1. Untangled(a)
        BY <2>d, <3>1, <3>2 DEF Untangled
      <4>2. CASE a = e
        <5>1. users[a] # "live" /\ Open(a) = {}
          BY <2>d, <2>f, <3>2, <4>2 DEF Untangled
        <5>2. Open(a)' \subseteq {i}
          BY <2>d, <5>1 DEF Open
        <5> QED
          BY <2>d, <5>1, <5>2
      <4>3. CASE a # e
        <5>1. Open(a)' = Open(a)
          BY <2>b, <2>c, <2>d, <4>3 DEF Open
        <5> QED
          BY <2>d, <4>1, <5>1 DEF OneWayIn
      <4> QED
        BY <4>2, <4>3
    <3> QED
      BY <3>2 DEF OneWayIn
  <2>5. UserHasItsInvitation'
    <3>1. Joiners' = Joiners /\ \A j \in Joiners : rows'[j] = rows[j]
      BY <2>b, <2>c, <2>d DEF Joiners
    <3>2. \A a \in Emails : Of(a) \subseteq Of(a)'
      BY <2>a, <2>c, <2>d, NoneAssumption DEF Of
    <3>3. \A a \in Emails : users'[a] # "none" => (Of(a) \intersect Joiners)' # {}
      BY <2>d, <3>1, <3>2 DEF UserHasItsInvitation
    <3>4. \A j, k \in Joiners' : rows'[j].email = rows'[k].email => j = k
      BY <3>1 DEF UserHasItsInvitation
    <3>5. \A j \in Ids : /\ rows'[j].joined = "yes" => /\ rows'[j].status = "ACCEPTED" \/ j \in overtaken'
                                                       /\ users'[rows'[j].email] # "none"
                         /\ rows'[j].status = "ACCEPTED" => rows'[j].joined = "yes"
      BY <2>b, <2>d DEF UserHasItsInvitation
    <3> QED
      BY <3>3, <3>4, <3>5 DEF UserHasItsInvitation
  <2>6. ContactHasItsClient'
    <3>1. \A c \in Contacts : Joined(c)' = Joined(c)
      BY <2>b, <2>c, <2>d DEF Joined, Joiners
    <3>2. \A c \in Contacts : \A j \in Joined(c) : rows'[j] = rows[j]
      BY <2>c, <2>d DEF Joined, Joiners
    <3> QED
      BY <2>d, <3>1, <3>2 DEF ContactHasItsClient
  <2> QED
    BY <2>1, <2>2, <2>3, <2>4, <2>5, <2>6, StepKeepsTypes
<1>5. ASSUME NEW r \in Requests, NEW i \in Ids, ReadForResend(r, i) PROVE IInv'
  <2> DEFINE s == "resend"
  <2>p. Read(r, i, s) /\ UNCHANGED Tables /\ UNCHANGED stale /\ rows[i].status # "absent"
    BY <1>5 DEF ReadForResend
  <2>q. s \in Steps
    BY DEF Steps
  <2>t. reqs'[r].step = s /\ reqs'[r].id = i /\ \A q \in Requests \ {r} : reqs'[q] = reqs[q]
    BY <2>p, <2>q, Reading
  <2>u. rows[i].status \in Passed[s] /\ (s = "join" => rows[i].lapsed = "no")
    <3>1. rows[i] \in Row
      OBVIOUS
    <3> QED
      BY <1>5, <3>1 DEF ReadForResend, Passed, Row
  <2>v. Whole(r)' /\ KnowsRow(r)' /\ KnowsVacancy(r)'
    BY <2>p, <2>t, <2>u DEF Whole, KnowsRow, KnowsVacancy, Holding, Drafting, At, Tables
  <2>w. RequestsAreWhole' /\ FreshRequestsKnow'
    BY <2>p, <2>t, <2>v, OneMoves
  <2> HIDE DEF s
  <2>1. RowsAreWhole' /\ OneWayIn' /\ UserHasItsInvitation' /\ ContactHasItsClient'
    BY <1>5, Frame DEF ReadForResend, Tables
  <2>2. RequestsAreWhole'
    BY <2>w
  <2>3. FreshRequestsKnow'
    BY <2>w
  <2> QED
    BY <2>1, <2>2, <2>3, StepKeepsTypes
<1>6. ASSUME NEW r \in Requests, NEW i \in Ids, ReadForRevoke(r, i) PROVE IInv'
  <2> DEFINE s == "revoke"
  <2>p. Read(r, i, s) /\ UNCHANGED Tables /\ UNCHANGED stale /\ rows[i].status # "absent"
    BY <1>6 DEF ReadForRevoke
  <2>q. s \in Steps
    BY DEF Steps
  <2>t. reqs'[r].step = s /\ reqs'[r].id = i /\ \A q \in Requests \ {r} : reqs'[q] = reqs[q]
    BY <2>p, <2>q, Reading
  <2>u. rows[i].status \in Passed[s] /\ (s = "join" => rows[i].lapsed = "no")
    <3>1. rows[i] \in Row
      OBVIOUS
    <3> QED
      BY <1>6, <3>1 DEF ReadForRevoke, Passed, Row
  <2>v. Whole(r)' /\ KnowsRow(r)' /\ KnowsVacancy(r)'
    BY <2>p, <2>t, <2>u DEF Whole, KnowsRow, KnowsVacancy, Holding, Drafting, At, Tables
  <2>w. RequestsAreWhole' /\ FreshRequestsKnow'
    BY <2>p, <2>t, <2>v, OneMoves
  <2> HIDE DEF s
  <2>1. RowsAreWhole' /\ OneWayIn' /\ UserHasItsInvitation' /\ ContactHasItsClient'
    BY <1>6, Frame DEF ReadForRevoke, Tables
  <2>2. RequestsAreWhole'
    BY <2>w
  <2>3. FreshRequestsKnow'
    BY <2>w
  <2> QED
    BY <2>1, <2>2, <2>3, StepKeepsTypes
<1>7. ASSUME NEW r \in Requests, NEW i \in Ids, OpenLink(r, i) PROVE IInv'
  <2> DEFINE s == IF rows[i].lapsed = "yes" THEN "expire" ELSE "join"
  <2>p. Read(r, i, s) /\ UNCHANGED Tables /\ UNCHANGED stale /\ rows[i].status # "absent"
    BY <1>7 DEF OpenLink
  <2>q. s \in Steps
    BY DEF Steps
  <2>t. reqs'[r].step = s /\ reqs'[r].id = i /\ \A q \in Requests \ {r} : reqs'[q] = reqs[q]
    BY <2>p, <2>q, Reading
  <2>u. rows[i].status \in Passed[s] /\ (s = "join" => rows[i].lapsed = "no")
    <3>1. rows[i] \in Row
      OBVIOUS
    <3> QED
      BY <1>7, <3>1 DEF OpenLink, Passed, Row
  <2>v. Whole(r)' /\ KnowsRow(r)' /\ KnowsVacancy(r)'
    BY <2>p, <2>t, <2>u DEF Whole, KnowsRow, KnowsVacancy, Holding, Drafting, At, Tables
  <2>w. RequestsAreWhole' /\ FreshRequestsKnow'
    BY <2>p, <2>t, <2>v, OneMoves
  <2> HIDE DEF s
  <2>1. RowsAreWhole' /\ OneWayIn' /\ UserHasItsInvitation' /\ ContactHasItsClient'
    BY <1>7, Frame DEF OpenLink, Tables
  <2>2. RequestsAreWhole'
    BY <2>w
  <2>3. FreshRequestsKnow'
    BY <2>w
  <2> QED
    BY <2>1, <2>2, <2>3, StepKeepsTypes
<1>8. ASSUME NEW r \in Requests, Resend(r) PROVE IInv'
  <2> DEFINE i == reqs[r].id
             row == [rows[i] EXCEPT !.status = "PENDING", !.lapsed = "no"]
  <2>a. i \in Ids /\ rows[i].status # "absent" /\ At(r, "resend")
    BY <1>8 DEF Resend, RequestsAreWhole, Whole, Holding
  <2>0. rows[i] \in Row
    BY <2>a
  <2>b. /\ rows[i] \in Row /\ row \in Row
        /\ row.email = rows[i].email /\ row.contact = rows[i].contact
        /\ row.status = "PENDING" /\ row.joined = rows[i].joined
    BY <2>0, Reopened, Zenon
  <2>c. Save(r, i, row)
    BY <1>8 DEF Resend
  <2>d. SaveEffects(r, i, row)
    BY <2>a, <2>b, <2>c, Saving
  <2> HIDE DEF i, row
  <2>e. UNCHANGED <<users, portal>>
    BY <1>8 DEF Resend
  <2>w. RowsAreWhole' /\ RequestsAreWhole' /\ FreshRequestsKnow'
    BY <2>a, <2>b, <2>d, <2>e, SaveLeavesKnowledge
  <2>n. UserHasItsInvitation' /\ ContactHasItsClient'
    <3>1. r \notin stale => rows[i].status # "ACCEPTED"
      BY <2>a DEF FreshRequestsKnow, KnowsRow, Holding, Passed, i
    <3> QED
      BY <2>a, <2>b, <2>d, <2>e, <3>1, SaveLetsNobodyIn
  <2>1. RowsAreWhole'
    BY <2>w
  <2>2. RequestsAreWhole'
    BY <2>w
  <2>3. FreshRequestsKnow'
    BY <2>w
  <2>4. OneWayIn'
    <3>1. rows'[i] = row /\ \A j \in Ids \ {i} : rows'[j] = rows[j]
      BY <2>d DEF SaveEffects
    <3>2. tangled' = IF rows[i].status = "EXPIRED" THEN tangled \union {rows[i].email} ELSE tangled
      BY <1>8 DEF Resend, i
    <3>3. \A a \in Emails : Untangled(a)' => Untangled(a)
      BY <2>a, <2>b, <2>d, <3>2, SaveSpread
    <3>4. ASSUME NEW a \in Emails, Untangled(a)' PROVE Open(a)' \subseteq Open(a)
      <4>1. CASE rows[i].email # a
        BY <2>b, <3>1, <4>1 DEF Open
      <4>2. CASE rows[i].email = a
        <5>1. i \in Of(a)' /\ a \notin tangled' /\ i \notin overtaken'
          BY <2>a, <2>b, <3>1, <3>4, <4>2 DEF Of, Untangled
        <5>2. r \notin stale /\ rows[i].status # "EXPIRED"
          BY <2>d, <3>2, <4>2, <5>1 DEF SaveEffects
        <5>3. rows[i].status = "PENDING"
          BY <2>a, <5>2 DEF FreshRequestsKnow, KnowsRow, Holding, Passed, i
        <5> QED
          BY <2>b, <3>1, <5>3 DEF Open
      <4> QED
        BY <4>1, <4>2
    <3> QED
      BY <2>e, <3>3, <3>4, NoNewWayIn
  <2>5. UserHasItsInvitation'
    BY <2>n
  <2>6. ContactHasItsClient'
    BY <2>n
  <2> QED
    BY <2>1, <2>2, <2>3, <2>4, <2>5, <2>6, StepKeepsTypes
<1>9. ASSUME NEW r \in Requests, Revoke(r) PROVE IInv'
  <2> DEFINE i == reqs[r].id
             row == [rows[i] EXCEPT !.status = "REVOKED"]
  <2>a. i \in Ids /\ rows[i].status # "absent" /\ At(r, "revoke")
    BY <1>9 DEF Revoke, Settle, RequestsAreWhole, Whole, Holding
  <2>0. rows[i] \in Row
    BY <2>a
  <2>b. /\ rows[i] \in Row /\ row \in Row
        /\ row.email = rows[i].email /\ row.contact = rows[i].contact
        /\ row.status = "REVOKED" /\ row.joined = rows[i].joined
    BY <2>0, StatusSet, Zenon
  <2>c. Save(r, i, row)
    BY <1>9 DEF Revoke, Settle
  <2>d. SaveEffects(r, i, row)
    BY <2>a, <2>b, <2>c, Saving
  <2> HIDE DEF i, row
  <2>e. UNCHANGED <<users, portal>> /\ tangled' = tangled
    BY <1>9 DEF Revoke, Settle
  <2>w. RowsAreWhole' /\ RequestsAreWhole' /\ FreshRequestsKnow'
    BY <2>a, <2>b, <2>d, <2>e, SaveLeavesKnowledge
  <2>n. UserHasItsInvitation' /\ ContactHasItsClient'
    <3>1. r \notin stale => rows[i].status # "ACCEPTED"
      BY <2>a DEF FreshRequestsKnow, KnowsRow, Holding, Passed, i
    <3> QED
      BY <2>a, <2>b, <2>d, <2>e, <3>1, SaveLetsNobodyIn
  <2>1. RowsAreWhole'
    BY <2>w
  <2>2. RequestsAreWhole'
    BY <2>w
  <2>3. FreshRequestsKnow'
    BY <2>w
  <2>4. OneWayIn'
    <3>1. rows'[i] = row /\ \A j \in Ids \ {i} : rows'[j] = rows[j]
      BY <2>d DEF SaveEffects
    <3>2. \A a \in Emails : Open(a)' \subseteq Open(a)
      BY <2>b, <3>1 DEF Open
    <3> QED
      BY <2>a, <2>b, <2>d, <2>e, <3>2, SaveSpread, NoNewWayIn
  <2>5. UserHasItsInvitation'
    BY <2>n
  <2>6. ContactHasItsClient'
    BY <2>n
  <2> QED
    BY <2>1, <2>2, <2>3, <2>4, <2>5, <2>6, StepKeepsTypes
<1>10. ASSUME NEW r \in Requests, Expire(r) PROVE IInv'
  <2> DEFINE i == reqs[r].id
             row == [rows[i] EXCEPT !.status = "EXPIRED"]
  <2>a. i \in Ids /\ rows[i].status # "absent" /\ At(r, "expire")
    BY <1>10 DEF Expire, Settle, RequestsAreWhole, Whole, Holding
  <2>0. rows[i] \in Row
    BY <2>a
  <2>b. /\ rows[i] \in Row /\ row \in Row
        /\ row.email = rows[i].email /\ row.contact = rows[i].contact
        /\ row.status = "EXPIRED" /\ row.joined = rows[i].joined
    BY <2>0, StatusSet, Zenon
  <2>c. Save(r, i, row)
    BY <1>10 DEF Expire, Settle
  <2>d. SaveEffects(r, i, row)
    BY <2>a, <2>b, <2>c, Saving
  <2> HIDE DEF i, row
  <2>e. UNCHANGED <<users, portal>> /\ tangled' = tangled
    BY <1>10 DEF Expire, Settle
  <2>w. RowsAreWhole' /\ RequestsAreWhole' /\ FreshRequestsKnow'
    BY <2>a, <2>b, <2>d, <2>e, SaveLeavesKnowledge
  <2>n. UserHasItsInvitation' /\ ContactHasItsClient'
    <3>1. r \notin stale => rows[i].status # "ACCEPTED"
      BY <2>a DEF FreshRequestsKnow, KnowsRow, Holding, Passed, i
    <3> QED
      BY <2>a, <2>b, <2>d, <2>e, <3>1, SaveLetsNobodyIn
  <2>1. RowsAreWhole'
    BY <2>w
  <2>2. RequestsAreWhole'
    BY <2>w
  <2>3. FreshRequestsKnow'
    BY <2>w
  <2>4. OneWayIn'
    <3>1. rows'[i] = row /\ \A j \in Ids \ {i} : rows'[j] = rows[j]
      BY <2>d DEF SaveEffects
    <3>2. \A a \in Emails : Open(a)' \subseteq Open(a)
      BY <2>b, <3>1 DEF Open
    <3> QED
      BY <2>a, <2>b, <2>d, <2>e, <3>2, SaveSpread, NoNewWayIn
  <2>5. UserHasItsInvitation'
    BY <2>n
  <2>6. ContactHasItsClient'
    BY <2>n
  <2> QED
    BY <2>1, <2>2, <2>3, <2>4, <2>5, <2>6, StepKeepsTypes
<1>11. ASSUME NEW r \in Requests, Join(r) PROVE IInv'
  <2> DEFINE i == reqs[r].id
             row == [rows[i] EXCEPT !.joined = "yes", !.status = "ACCEPTED"]
  <2>a. i \in Ids /\ rows[i].status # "absent" /\ At(r, "join")
    BY <1>11 DEF Join, RequestsAreWhole, Whole, Holding
  <2>0. rows[i] \in Row
    BY <2>a
  <2>b. /\ rows[i] \in Row /\ row \in Row
        /\ row.email = rows[i].email /\ row.contact = rows[i].contact
        /\ row.status = "ACCEPTED" /\ row.joined = "yes"
    BY <2>0, Accepted, Zenon
  <2>c. Save(r, i, row)
    BY <1>11 DEF Join
  <2>d. SaveEffects(r, i, row)
    BY <2>a, <2>b, <2>c, Saving
  <2> HIDE DEF i, row
  <2>e. /\ users[row.email] = "none" /\ users' = [users EXCEPT ![row.email] = "live"]
        /\ portal' = IF row.contact = None THEN portal ELSE [portal EXCEPT ![row.contact] = row.email]
        /\ tangled' = tangled
    BY <1>11, <2>b DEF Join, row, i
  <2>f. rows[i].joined = "no" /\ row.email \in Emails
    BY <2>a, <2>b, <2>e DEF UserHasItsInvitation, Row, RowsAreWhole
  <2>w. RowsAreWhole' /\ RequestsAreWhole' /\ FreshRequestsKnow'
    <3>1. \A a \in Emails \ {row.email} : users'[a] = users[a]
      BY <2>e
    <3>2. \A c \in Contacts : portal'[c] # portal[c] =>
            c = row.contact /\ row.joined # rows[i].joined
      BY <2>b, <2>e, <2>f
    <3> QED
      BY <2>a, <2>b, <2>d, <3>1, <3>2, SaveLeavesKnowledge
  <2>1. RowsAreWhole'
    BY <2>w
  <2>2. RequestsAreWhole'
    BY <2>w
  <2>3. FreshRequestsKnow'
    BY <2>w
  <2>4. OneWayIn'
    <3>1. rows'[i] = row /\ \A j \in Ids \ {i} : rows'[j] = rows[j]
      BY <2>d DEF SaveEffects
    <3>2. \A a \in Emails : Open(a)' \subseteq Open(a)
      BY <2>b, <3>1 DEF Open
    <3>3. \A a \in Emails : Untangled(a)' => Untangled(a)
      BY <2>a, <2>b, <2>d, <2>e, SaveSpread
    <3>4. ASSUME NEW a \in Emails, Untangled(a)', users'[a] = "live"
          PROVE  users[a] = "live" \/ Open(a)' = {}
      <4>1. CASE a # row.email
        BY <2>e, <3>4, <4>1
      <4>2. CASE a = row.email
        <5>1. i \in Of(a)' /\ i \notin overtaken'
          BY <2>a, <2>b, <3>1, <3>4, <4>2 DEF Of, Untangled
        <5>2. r \notin stale
          BY <2>d, <5>1 DEF SaveEffects
        <5>3. rows[i].status = "PENDING"
          BY <2>a, <5>2 DEF FreshRequestsKnow, KnowsRow, Holding, Passed, i
        <5>4. i \in Open(a)
          BY <2>a, <2>b, <4>2, <5>3 DEF Open
        <5>5. \A j \in Open(a) : j = i
          BY <3>3, <3>4, <5>4 DEF OneWayIn
        <5> QED
          BY <2>b, <3>1, <3>2, <5>5 DEF Open
      <4> QED
        BY <4>1, <4>2
    <3> QED
      BY <3>2, <3>3, <3>4, NoNewWayIn
  <2>5. UserHasItsInvitation'
    <3>1. rows'[i] = row /\ \A j \in Ids \ {i} : rows'[j] = rows[j]
      BY <2>d DEF SaveEffects
    <3>2. \A j \in Ids : rows'[j].email = rows[j].email
      BY <2>b, <3>1
    <3>3. Joiners' = Joiners \union {i} /\ i \notin Joiners /\ \A a \in Emails : Of(a)' = Of(a)
      BY <2>a, <2>b, <2>f, <3>1, <3>2 DEF Joiners, Of
    <3>4. \A j \in Joiners : rows[j].email # row.email
      BY <2>e DEF UserHasItsInvitation, Joiners
    <3>5. \A a \in Emails : users'[a] # "none" => (Of(a) \intersect Joiners)' # {}
      <4>1. i \in Of(row.email)
        BY <2>a, <2>b DEF Of
      <4> QED
        BY <2>e, <2>f, <3>3, <4>1 DEF UserHasItsInvitation
    <3>6. \A j, k \in Joiners' : rows'[j].email = rows'[k].email => j = k
      <4>1. Joiners \subseteq Ids
        BY DEF Joiners
      <4> QED
        BY <2>b, <3>2, <3>3, <3>4, <4>1, <2>a DEF UserHasItsInvitation
    <3>7. overtaken \subseteq overtaken' /\ \A a \in Emails : users[a] # "none" => users'[a] # "none"
      BY <2>d, <2>e DEF SaveEffects
    <3>8. users'[row.email] # "none"
      BY <2>e, <2>f
    <3>9. \A j \in Ids : rows[j].status # "absent" => rows[j].email \in Emails
      BY DEF RowsAreWhole
    <3>10. \A j \in Ids : rows[j].joined = "yes" => rows[j].status # "absent"
      BY NoRowTyped DEF RowsAreWhole
    <3>11. \A j \in Ids : /\ rows'[j].joined = "yes" => /\ rows'[j].status = "ACCEPTED" \/ j \in overtaken'
                                                        /\ users'[rows'[j].email] # "none"
                          /\ rows'[j].status = "ACCEPTED" => rows'[j].joined = "yes"
      BY <2>b, <3>1, <3>7, <3>8, <3>9, <3>10 DEF UserHasItsInvitation
    <3> QED
      BY <3>5, <3>6, <3>11 DEF UserHasItsInvitation
  <2>6. ContactHasItsClient'
    <3>1. rows'[i] = row /\ \A j \in Ids \ {i} : rows'[j] = rows[j]
      BY <2>d DEF SaveEffects
    <3>2. \A j \in Ids : rows'[j].email = rows[j].email /\ rows'[j].contact = rows[j].contact
      BY <2>b, <3>1
    <3>3. Joiners' = Joiners \union {i} /\ Joiners \subseteq Ids
      BY <2>a, <2>b, <3>1 DEF Joiners
    <3>4. ASSUME NEW c \in Contacts
          PROVE  Joined(c)' = IF c = row.contact THEN Joined(c) \union {i} ELSE Joined(c)
      BY <2>a, <2>b, <3>2, <3>3 DEF Joined
    <3>5. ASSUME NEW c \in Contacts
          PROVE  IF Joined(c)' = {} THEN portal'[c] = None
                                    ELSE \E j \in Joined(c)' : portal'[c] = rows'[j].email
      <4>1. CASE c = row.contact
        <5>1. portal'[c] = row.email
          BY <2>e, <3>5, <4>1, NoneAssumption
        <5> QED
          BY <3>1, <3>4, <4>1, <5>1
      <4>2. CASE c # row.contact
        <5>1. portal'[c] = portal[c] /\ Joined(c)' = Joined(c) /\ Joined(c) \subseteq Ids
          BY <2>e, <3>4, <4>2 DEF Joined, Joiners
        <5> QED
          BY <3>2, <5>1 DEF ContactHasItsClient
      <4> QED
        BY <4>1, <4>2
    <3> QED
      BY <3>5 DEF ContactHasItsClient
  <2> QED
    BY <2>1, <2>2, <2>3, <2>4, <2>5, <2>6, StepKeepsTypes
<1>12. ASSUME NEW r \in Requests, JoinConflicts(r) PROVE IInv'
  <2>p. /\ reqs'[r] = Idle /\ \A q \in Requests \ {r} : reqs'[q] = reqs[q]
        /\ stale \ {r} \subseteq stale'
    BY <1>12, Replying DEF JoinConflicts
  <2>q. Whole(r)' /\ KnowsRow(r)' /\ KnowsVacancy(r)'
    BY <2>p, IdleKnows
  <2>w. RequestsAreWhole' /\ FreshRequestsKnow'
    BY <1>12, <2>p, <2>q, OneMoves DEF JoinConflicts, Stop
  <2>1. RowsAreWhole' /\ OneWayIn' /\ UserHasItsInvitation' /\ ContactHasItsClient'
    BY <1>12, Frame DEF JoinConflicts, Tables
  <2>2. RequestsAreWhole'
    BY <2>w
  <2>3. FreshRequestsKnow'
    BY <2>w
  <2> QED
    BY <2>1, <2>2, <2>3, StepKeepsTypes
<1>13. ASSUME NEW r \in Requests, Stop(r) PROVE IInv'
  <2>p. /\ reqs'[r] = Idle /\ \A q \in Requests \ {r} : reqs'[q] = reqs[q]
        /\ stale \ {r} \subseteq stale'
    BY <1>13, Replying DEF Stop
  <2>q. Whole(r)' /\ KnowsRow(r)' /\ KnowsVacancy(r)'
    BY <2>p, IdleKnows
  <2>w. RequestsAreWhole' /\ FreshRequestsKnow'
    BY <1>13, <2>p, <2>q, OneMoves DEF Stop
  <2>1. RowsAreWhole' /\ OneWayIn' /\ UserHasItsInvitation' /\ ContactHasItsClient'
    BY <1>13, Frame DEF Stop, Tables
  <2>2. RequestsAreWhole'
    BY <2>w
  <2>3. FreshRequestsKnow'
    BY <2>w
  <2> QED
    BY <2>1, <2>2, <2>3, StepKeepsTypes
<1>14. ASSUME NEW e \in Emails, RemoveUser(e) PROVE IInv'
  <2>a. /\ UNCHANGED <<rows, portal, reqs, stale, overtaken, tangled>>
        /\ users[e] = "live" /\ users'[e] = "removed" /\ \A a \in Emails \ {e} : users'[a] = users[a]
    BY <1>14 DEF RemoveUser
  <2>1. RowsAreWhole' /\ RequestsAreWhole' /\ ContactHasItsClient'
    BY <1>14, Frame DEF RemoveUser
  <2>2. FreshRequestsKnow'
    <3>1. ASSUME NEW q \in Requests, q \notin stale' PROVE KnowsRow(q)' /\ KnowsVacancy(q)'
      <4>1. KnowsRow(q) /\ KnowsVacancy(q) /\ Whole(q) /\ reqs'[q] = reqs[q]
        BY <2>a, <3>1 DEF FreshRequestsKnow, RequestsAreWhole
      <4>2. Open(reqs[q].email)' = Open(reqs[q].email) /\ Vacant(reqs[q].contact)' = Vacant(reqs[q].contact)
        BY <2>a, <4>1 DEF Open, Vacant
      <4>3. reqs[q].step \in Drafting => (users[reqs[q].email] # "live" => users'[reqs[q].email] # "live")
        BY <2>a, <4>1 DEF Whole
      <4> QED
        BY <2>a, <4>1, <4>2, <4>3, KnowledgeKept
    <3> QED
      BY <3>1 DEF FreshRequestsKnow
  <2>3. OneWayIn'
    <3>1. \A a \in Emails : Open(a)' = Open(a) /\ (Untangled(a)' => Untangled(a))
      BY <2>a DEF Open, Untangled, Of
    <3> QED
      BY <2>a, <3>1, NoNewWayIn
  <2>4. UserHasItsInvitation'
    <3>1. \A a \in Emails : users'[a] = "none" <=> users[a] = "none"
      BY <2>a
    <3>2. \A j \in Ids : rows[j].joined = "yes" => rows[j].email \in Emails
      BY NoRowTyped DEF RowsAreWhole
    <3> QED
      BY <2>a, <3>1, <3>2 DEF UserHasItsInvitation, Of, Joiners
  <2> QED
    BY <2>1, <2>2, <2>3, <2>4, StepKeepsTypes
<1>15. ASSUME NEW i \in Ids, Lapse(i) PROVE IInv'
  <2>a. /\ UNCHANGED <<users, portal, reqs, overtaken, tangled>> /\ stale \subseteq stale'
        /\ rows[i].status = "PENDING"
    BY <1>15 DEF Lapse
  <2>b. /\ \A j \in Ids \ {i} : rows'[j] = rows[j]
        /\ \A j \in Ids : /\ rows'[j].status = rows[j].status /\ rows'[j].email = rows[j].email
                          /\ rows'[j].joined = rows[j].joined /\ rows'[j].contact = rows[j].contact
        /\ \A q \in Requests : q \notin stale' => q \notin stale /\ reqs[q].id # i
    BY <1>15, Lapsing
  <2>c. \A a \in Emails \union {None} : Open(a)' = Open(a) /\ Of(a)' = Of(a)
    BY <2>b DEF Open, Of
  <2>d. Joiners' = Joiners /\ Joiners \subseteq Ids
    BY <2>b DEF Joiners
  <2>1. RowsAreWhole'
    BY <2>a, <2>b DEF RowsAreWhole
  <2>2. RequestsAreWhole'
    BY <2>a, <2>b DEF RequestsAreWhole, Whole
  <2>3. FreshRequestsKnow'
    <3>1. ASSUME NEW q \in Requests, q \notin stale' PROVE KnowsRow(q)' /\ KnowsVacancy(q)'
      <4>1. KnowsRow(q) /\ KnowsVacancy(q) /\ Whole(q) /\ reqs'[q] = reqs[q] /\ reqs[q] \in Req
        BY <2>a, <2>b, <3>1 DEF FreshRequestsKnow, RequestsAreWhole
      <4>2. Open(reqs[q].email)' = Open(reqs[q].email)
        BY <2>a, <2>c, <4>1 DEF Req
      <4>3. Vacant(reqs[q].contact)' = Vacant(reqs[q].contact)
        BY <2>a, <4>1 DEF Vacant
      <4>4. reqs[q].step \in Holding => rows'[reqs[q].id] = rows[reqs[q].id]
        BY <2>b, <3>1, <4>1 DEF Whole
      <4> QED
        BY <2>a, <4>1, <4>2, <4>3, <4>4, KnowledgeKept
    <3> QED
      BY <3>1 DEF FreshRequestsKnow
  <2>4. OneWayIn'
    <3>1. \A a \in Emails : Untangled(a)' => Untangled(a)
      BY <2>a, <2>c DEF Untangled
    <3> QED
      BY <2>a, <2>c, <3>1, NoNewWayIn
  <2>5. UserHasItsInvitation'
    BY <2>a, <2>b, <2>c, <2>d DEF UserHasItsInvitation
  <2>6. ContactHasItsClient'
    <3>1. \A c \in Contacts : Joined(c)' = Joined(c) /\ Joined(c) \subseteq Ids
      BY <2>b, <2>d DEF Joined
    <3> QED
      BY <2>a, <2>b, <3>1 DEF ContactHasItsClient
  <2> QED
    BY <2>1, <2>2, <2>3, <2>4, <2>5, <2>6, StepKeepsTypes
<1>16. CASE UNCHANGED vars
  BY <1>16, Frame, StepKeepsTypes DEF vars
<1> QED
  BY <1>1, <1>2, <1>3, <1>4, <1>5, <1>6, <1>7, <1>8, <1>9, <1>10, <1>11, <1>12, <1>13, <1>14,
     <1>15, <1>16
     DEF Next

--------------------------------------------------------------------------------
(* The invariant of all the proofs holds in every reachable state. *)
THEOREM InvariantCorrect == Spec => []IInv
  BY InvariantHoldsInitially, StepKeepsInvariant, PTL DEF Spec

(* A second way in needs a stale check or the resend of an expired invitation. *)
THEOREM OneWay == Spec => []OneWayIn
  BY InvariantCorrect, PTL DEF IInv

(* Every user came through exactly one invitation of its address. *)
THEOREM UsersWereInvited == Spec => []UserHasItsInvitation
  BY InvariantCorrect, PTL DEF IInv

(* A contact never loses its portal user to nobody. *)
THEOREM ContactsKeepAClient == Spec => []ContactHasItsClient
  BY InvariantCorrect, PTL DEF IInv

(* Only a stale check lets a wrong write pass. *)
THEOREM StalenessAlone == Spec => OnlyStaleChecksFail
<1> DEFINE Rests == \A i \in Ids : WriteRestsOnItsCheck(i)
<1>1. IInv /\ [Next]_vars => Rests
  <2> SUFFICES ASSUME IInv, [Next]_vars PROVE Rests
    OBVIOUS
  <2> USE DEF IInv, TypeOK, At
  <2>1. ASSUME NEW r \in Requests, NEW i \in Ids, Create(r, i) PROVE Rests
    <3> DEFINE e == reqs[r].email
               row == Draft(e, reqs[r].contact)
    <3>a. e \in Emails /\ reqs[r].contact \in Contacts \union {None} /\ e # None
      BY <2>1, NoneAssumption DEF Create, RequestsAreWhole, Whole, Drafting, Req
    <3>b. /\ row \in Row /\ row.status = "PENDING" /\ row.joined = "no" /\ row.email = e
          /\ row.contact = reqs[r].contact
      BY <3>a, Drafts
    <3>c. /\ rows[i] = NoRow /\ rows[i].status = "absent" /\ rows[i].joined = "no" /\ rows[i].email = None
      BY <2>1, NoRowTyped DEF Create
    <3>d. /\ rows'[i] = row /\ \A j \in Ids \ {i} : rows'[j] = rows[j]
          /\ reqs'[r] = Idle /\ \A q \in Requests \ {r} : reqs'[q] = reqs[q]
          /\ \A q \in Requests \ {r} : q \notin stale' => q \notin stale /\ reqs[q].id # i /\ reqs[q].email # e
          /\ tangled' = IF r \in stale THEN tangled \union {e} ELSE tangled
          /\ UNCHANGED <<users, portal, overtaken>>
      BY <2>1, <3>a, <3>b DEF Create, Concerned
    <3>f. r \notin stale => users[e] # "live" /\ Open(e) = {} /\ Vacant(reqs[r].contact)
      BY <2>1 DEF Create, FreshRequestsKnow, KnowsVacancy, Drafting
    <3> HIDE DEF e, row
    <3>z. WriteRestsOnItsCheck(i)
      BY <3>b, <3>c, <3>d, <3>f DEF WriteRestsOnItsCheck
    <3> QED
      BY <3>d, <3>z DEF WriteRestsOnItsCheck
  <2>2. ASSUME NEW r \in Requests, Resend(r) PROVE Rests
    <3> DEFINE i == reqs[r].id
               row == [rows[i] EXCEPT !.status = "PENDING", !.lapsed = "no"]
    <3>a. i \in Ids /\ rows[i].status # "absent" /\ At(r, "resend")
      BY <2>2 DEF Resend, RequestsAreWhole, Whole, Holding
    <3>0. rows[i] \in Row
      BY <3>a
    <3>b. /\ rows[i] \in Row /\ row \in Row
          /\ row.email = rows[i].email /\ row.contact = rows[i].contact
          /\ row.status = "PENDING" /\ row.joined = rows[i].joined
      BY <3>0, Reopened, Zenon
    <3>c. Save(r, i, row)
      BY <2>2 DEF Resend
    <3>d. SaveEffects(r, i, row)
      BY <3>a, <3>b, <3>c, Saving
    <3> HIDE DEF i, row
    <3>x. rows'[i] = row /\ (\A j \in Ids \ {i} : rows'[j] = rows[j]) /\ (r \in stale => i \in overtaken')
      BY <3>d DEF SaveEffects
    <3>y. r \notin stale => KnowsRow(r)
      BY DEF FreshRequestsKnow
    <3>z. WriteRestsOnItsCheck(i)
      BY <3>a, <3>b, <3>x, <3>y DEF KnowsRow, Holding, Passed, i, WriteRestsOnItsCheck
    <3> QED
      BY <3>x, <3>z DEF WriteRestsOnItsCheck
  <2>3. ASSUME NEW r \in Requests, Revoke(r) PROVE Rests
    <3> DEFINE i == reqs[r].id
               row == [rows[i] EXCEPT !.status = "REVOKED"]
    <3>a. i \in Ids /\ rows[i].status # "absent" /\ At(r, "revoke")
      BY <2>3 DEF Revoke, Settle, RequestsAreWhole, Whole, Holding
    <3>0. rows[i] \in Row
      BY <3>a
    <3>b. /\ rows[i] \in Row /\ row \in Row
          /\ row.email = rows[i].email /\ row.contact = rows[i].contact
          /\ row.status = "REVOKED" /\ row.joined = rows[i].joined
      BY <3>0, StatusSet, Zenon
    <3>c. Save(r, i, row)
      BY <2>3 DEF Revoke, Settle
    <3>d. SaveEffects(r, i, row)
      BY <3>a, <3>b, <3>c, Saving
    <3> HIDE DEF i, row
    <3>x. rows'[i] = row /\ (\A j \in Ids \ {i} : rows'[j] = rows[j]) /\ (r \in stale => i \in overtaken')
      BY <3>d DEF SaveEffects
    <3>y. r \notin stale => KnowsRow(r)
      BY DEF FreshRequestsKnow
    <3>z. WriteRestsOnItsCheck(i)
      BY <3>a, <3>b, <3>x, <3>y DEF KnowsRow, Holding, Passed, i, WriteRestsOnItsCheck
    <3> QED
      BY <3>x, <3>z DEF WriteRestsOnItsCheck
  <2>4. ASSUME NEW r \in Requests, Expire(r) PROVE Rests
    <3> DEFINE i == reqs[r].id
               row == [rows[i] EXCEPT !.status = "EXPIRED"]
    <3>a. i \in Ids /\ rows[i].status # "absent" /\ At(r, "expire")
      BY <2>4 DEF Expire, Settle, RequestsAreWhole, Whole, Holding
    <3>0. rows[i] \in Row
      BY <3>a
    <3>b. /\ rows[i] \in Row /\ row \in Row
          /\ row.email = rows[i].email /\ row.contact = rows[i].contact
          /\ row.status = "EXPIRED" /\ row.joined = rows[i].joined
      BY <3>0, StatusSet, Zenon
    <3>c. Save(r, i, row)
      BY <2>4 DEF Expire, Settle
    <3>d. SaveEffects(r, i, row)
      BY <3>a, <3>b, <3>c, Saving
    <3> HIDE DEF i, row
    <3>x. rows'[i] = row /\ (\A j \in Ids \ {i} : rows'[j] = rows[j]) /\ (r \in stale => i \in overtaken')
      BY <3>d DEF SaveEffects
    <3>y. r \notin stale => KnowsRow(r)
      BY DEF FreshRequestsKnow
    <3>z. WriteRestsOnItsCheck(i)
      BY <3>a, <3>b, <3>x, <3>y DEF KnowsRow, Holding, Passed, i, WriteRestsOnItsCheck
    <3> QED
      BY <3>x, <3>z DEF WriteRestsOnItsCheck
  <2>5. ASSUME NEW r \in Requests, Join(r) PROVE Rests
    <3> DEFINE i == reqs[r].id
               row == [rows[i] EXCEPT !.joined = "yes", !.status = "ACCEPTED"]
    <3>a. i \in Ids /\ rows[i].status # "absent" /\ At(r, "join")
      BY <2>5 DEF Join, RequestsAreWhole, Whole, Holding
    <3>0. rows[i] \in Row
      BY <3>a
    <3>b. /\ rows[i] \in Row /\ row \in Row
          /\ row.email = rows[i].email /\ row.contact = rows[i].contact
          /\ row.status = "ACCEPTED" /\ row.joined = "yes"
      BY <3>0, Accepted, Zenon
    <3>c. Save(r, i, row)
      BY <2>5 DEF Join
    <3>d. SaveEffects(r, i, row)
      BY <3>a, <3>b, <3>c, Saving
    <3> HIDE DEF i, row
    <3>x. rows'[i] = row /\ (\A j \in Ids \ {i} : rows'[j] = rows[j]) /\ (r \in stale => i \in overtaken')
      BY <3>d DEF SaveEffects
    <3>y. r \notin stale => KnowsRow(r)
      BY DEF FreshRequestsKnow
    <3>z. WriteRestsOnItsCheck(i)
      BY <3>a, <3>b, <3>x, <3>y DEF KnowsRow, Holding, Passed, i, WriteRestsOnItsCheck
    <3> QED
      BY <3>x, <3>z DEF WriteRestsOnItsCheck
  <2>6. ASSUME NEW i \in Ids, Lapse(i) PROVE Rests
    BY <2>6, Lapsing DEF WriteRestsOnItsCheck
  <2>7. CASE UNCHANGED rows
    BY <2>7 DEF WriteRestsOnItsCheck
  <2> QED
    BY <2>1, <2>2, <2>3, <2>4, <2>5, <2>6, <2>7, Zenon
       DEF Next, vars, Tables, Invite, CheckPending, CheckContact, ReadForResend, ReadForRevoke,
           OpenLink, JoinConflicts, Stop, RemoveUser
<1>2. Rests => [Rests]_vars
  OBVIOUS
<1> QED
  BY <1>1, <1>2, InvariantCorrect, PTL DEF Spec, OnlyStaleChecksFail
================================================================================
