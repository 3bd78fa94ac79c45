---------------------------- MODULE ClientPayments ----------------------------
(***************************************************************************)
(* Collecting a client's payment of an invoice through the firm's own      *)
(* gateway (backend/src/modules/client-billing).                           *)
(*                                                                         *)
(*   PaymentLinkService.generatePaymentLink asks the gateway for a payment *)
(*   link; the client pays it there; the gateway posts payment_link.paid   *)
(*   until it is answered 2xx; PaymentGatewayWebhookService.handleWebhook  *)
(*   books a Payment row, marks the link PAID and the invoice PAID.        *)
(*                                                                         *)
(* Staff meanwhile create, renumber and delete payments, delete invoices   *)
(* and change the gateway settings.  Nothing but the last three writes of  *)
(* handleWebhook runs in a transaction: every other await is a point where *)
(* other requests run, so a request is one action per await.               *)
(*                                                                         *)
(* One tenant.  A link is named by the id the gateway gives it             *)
(* (providerPaymentId), so the request that will create link l is          *)
(* generating[l].  Amounts, dates and texts are left out: no decision of   *)
(* this code reads them.                                                   *)
(***************************************************************************)
EXTENDS Naturals

CONSTANTS
    Invoices,    \* invoice rows that may be created
    Links,       \* payment links the gateway may issue
    Payments,    \* payment rows that may be created (bound)
    Copies,      \* concurrent deliveries of the events of one link (bound)
    Typed,       \* payment numbers staff may type in
    MaxCrashes,  \* crashes of a process that is handling a delivery (bound)
    None         \* SQL NULL

ASSUME NoneAssumption == None \notin Invoices \union Links \union Payments
ASSUME CrashAssumption == MaxCrashes \in Nat

VARIABLES
    invoices,    \* table invoices: [row, status]
    payments,    \* table payments: [row, number, invoice, status]
    links,       \* table payment_gateway_links: [row, status, invoice, payment]
    settings,    \* firm_payment_gateway_settings, as the handlers see it
    generating,  \* the generatePaymentLink request of each link: [pc, invoice]
    provider,    \* the gateway's own view of each link
    pending,     \* links whose payment_link.paid event is not acknowledged yet
    hooks,       \* handleWebhook requests in flight: [pc, event, seen]
    crashes,     \* crashes so far
    bookedFor,   \* observation: the capture each payment row was booked for
    unmatched    \* observation: captures acknowledged before the link had a row

tables == <<invoices, payments, links, settings>>
observed == <<bookedFor, unmatched>>
vars == <<invoices, payments, links, settings, generating, provider, pending,
          hooks, crashes, bookedFor, unmatched>>

-----------------------------------------------------------------------------
(* Rows and requests                                                         *)

RowStates == {"absent", "live", "deleted"}

(* The number handleWebhook gives the payment it books for link l. *)
GatewayNumber(l) == <<"PAY-GW", l>>

Numbers == Typed \union {GatewayNumber(l) : l \in Links}

(* "off": Disabled provider; "nohook": links can be made but no webhook      *)
(* signature verifies (the secret is missing or was rotated); "on": both.    *)
SettingStates == {"off", "nohook", "on"}

InvoiceRow == [row : RowStates, status : {"DRAFT", "PAID"}]
PaymentRow == [row : RowStates, number : Numbers \union {None},
               invoice : Invoices \union {None}, status : {"PENDING", "COMPLETED"}]
LinkRow == [row : BOOLEAN, status : {"CREATED", "PAID"},
            invoice : Invoices \union {None}, payment : Payments \union {None}]
LinkRequest == [pc : {"idle", "settings", "call", "persist", "done"},
                invoice : Invoices \union {None}]
Delivery == [pc : {"idle", "lookup", "verify", "commit", "respond"},
             event : {"paid", "other"}, seen : {"CREATED", "PAID"}]

Deliveries == Links \X Copies
LinkOf(d) == d[1]

TypeOK ==
    /\ invoices \in [Invoices -> InvoiceRow]
    /\ payments \in [Payments -> PaymentRow]
    /\ links \in [Links -> LinkRow]
    /\ settings \in SettingStates
    /\ generating \in [Links -> LinkRequest]
    /\ provider \in [Links -> {"unissued", "open", "captured"}]
    /\ pending \in SUBSET Links
    /\ hooks \in [Deliveries -> Delivery]
    /\ crashes \in 0..MaxCrashes
    /\ bookedFor \in [Payments -> Links \union {None}]
    /\ unmatched \in SUBSET Links

NoInvoice == [row |-> "absent", status |-> "DRAFT"]
NoPayment == [row |-> "absent", number |-> None, invoice |-> None, status |-> "PENDING"]
NoLink == [row |-> FALSE, status |-> "CREATED", invoice |-> None, payment |-> None]
NoRequest == [pc |-> "idle", invoice |-> None]
NoDelivery == [pc |-> "idle", event |-> "other", seen |-> "CREATED"]

Init ==
    /\ invoices = [i \in Invoices |-> NoInvoice]
    /\ payments = [p \in Payments |-> NoPayment]
    /\ links = [l \in Links |-> NoLink]
    /\ settings = "off"
    /\ generating = [l \in Links |-> NoRequest]
    /\ provider = [l \in Links |-> "unissued"]
    /\ pending = {}
    /\ hooks = [d \in Deliveries |-> NoDelivery]
    /\ crashes = 0
    /\ bookedFor = [p \in Payments |-> None]
    /\ unmatched = {}

-----------------------------------------------------------------------------
(* Staff                                                                     *)

(* Fault: a partial unique index, that of the live rows only. *)
NumberFreeAmongLive(n) == \A p \in Payments : payments[p].row = "live" => payments[p].number # n

(* @@unique([tenantId, paymentNumber]) counts soft-deleted rows as well. *)
NumberFree(n) == \A p \in Payments : payments[p].row # "absent" => payments[p].number # n

CreateInvoice(i) ==
    /\ invoices[i].row = "absent"
    /\ invoices' = [invoices EXCEPT ![i] = [row |-> "live", status |-> "DRAFT"]]
    /\ UNCHANGED <<payments, links, settings, generating, provider, pending,
                   hooks, crashes, observed>>

(* Neither deletes nor refuses because of links that are still open. *)
DeleteInvoice(i) ==
    /\ invoices[i].row = "live"
    /\ invoices' = [invoices EXCEPT ![i].row = "deleted"]
    /\ UNCHANGED <<payments, links, settings, generating, provider, pending,
                   hooks, crashes, observed>>

(* The invoice a payment request names: none, or one that findById returns. *)
NamesInvoice(i) == i # None => invoices[i].row = "live"

CreatePayment(p, n, i) ==
    /\ payments[p].row = "absent"
    /\ NamesInvoice(i)
    /\ NumberFree(n)
    /\ payments' = [payments EXCEPT ![p] =
                      [row |-> "live", number |-> n, invoice |-> i, status |-> "PENDING"]]
    /\ UNCHANGED <<invoices, links, settings, generating, provider, pending,
                   hooks, crashes, observed>>

(* The DTO is createPayment's, every field optional: a gateway payment may   *)
(* be given another number or invoice.  The row's status is not in the DTO.  *)
UpdatePayment(p, n, i) ==
    /\ payments[p].row = "live"
    /\ n = payments[p].number \/ NumberFree(n)
    /\ i = payments[p].invoice \/ (i # None /\ NamesInvoice(i))
    /\ payments' = [payments EXCEPT ![p] = [@ EXCEPT !.number = n, !.invoice = i]]
    /\ UNCHANGED <<invoices, links, settings, generating, provider, pending,
                   hooks, crashes, observed>>

(* Fault: deleting a payment opens its link again. *)
DeletePaymentAndReopen(p) ==
    /\ payments[p].row = "live"
    /\ payments' = [payments EXCEPT ![p].row = "deleted"]
    /\ links' = [l \in Links |->
                    IF links[l].payment = p THEN [links[l] EXCEPT !.status = "CREATED"] ELSE links[l]]
    /\ UNCHANGED <<invoices, settings, generating, provider, pending,
                   hooks, crashes, observed>>

DeletePayment(p) ==
    /\ payments[p].row = "live"
    /\ payments' = [payments EXCEPT ![p].row = "deleted"]
    /\ UNCHANGED <<invoices, links, settings, generating, provider, pending,
                   hooks, crashes, observed>>

UpdateSettings(s) ==
    /\ settings # s
    /\ settings' = s
    /\ UNCHANGED <<invoices, payments, links, generating, provider, pending,
                   hooks, crashes, observed>>

-----------------------------------------------------------------------------
(* generatePaymentLink                                                       *)

EndRequest(l) == generating' = [generating EXCEPT ![l] = [pc |-> "done", invoice |-> None]]

(* 404 for a missing invoice and 409 for a settled one leave nothing behind. *)
ReadInvoice(l, i) ==
    /\ generating[l].pc = "idle"
    /\ invoices[i].row = "live"
    /\ invoices[i].status # "PAID"
    /\ generating' = [generating EXCEPT ![l] = [pc |-> "settings", invoice |-> i]]
    /\ UNCHANGED <<tables, provider, pending, hooks, crashes, observed>>

ReadSettings(l) ==
    /\ generating[l].pc = "settings"
    /\ IF settings = "off"
       THEN EndRequest(l)
       ELSE generating' = [generating EXCEPT ![l].pc = "call"]
    /\ UNCHANGED <<tables, provider, pending, hooks, crashes, observed>>

(* The gateway creates the link and sends it to the client at once. *)
CallProvider(l) ==
    /\ generating[l].pc = "call"
    /\ provider' = [provider EXCEPT ![l] = "open"]
    /\ generating' = [generating EXCEPT ![l].pc = "persist"]
    /\ UNCHANGED <<tables, pending, hooks, crashes, observed>>

CallFails(l) ==
    /\ generating[l].pc = "call"
    /\ EndRequest(l)
    /\ UNCHANGED <<tables, provider, pending, hooks, crashes, observed>>

PersistLink(l) ==
    /\ generating[l].pc = "persist"
    /\ links' = [links EXCEPT ![l] = [row |-> TRUE, status |-> "CREATED",
                                      invoice |-> generating[l].invoice, payment |-> None]]
    /\ EndRequest(l)
    /\ UNCHANGED <<invoices, payments, settings, provider, pending, hooks, crashes, observed>>

(* The row is never written: the process stops, the database is unreachable, *)
(* or the amount in paise exceeds the INTEGER column amount_in_paise.        *)
PersistFails(l) ==
    /\ generating[l].pc = "persist"
    /\ EndRequest(l)
    /\ UNCHANGED <<tables, provider, pending, hooks, crashes, observed>>

-----------------------------------------------------------------------------
(* The gateway: takes the client's money, posts events until answered 2xx.   *)

ClientPays(l) ==
    /\ provider[l] = "open"
    /\ provider' = [provider EXCEPT ![l] = "captured"]
    /\ pending' = pending \union {l}
    /\ UNCHANGED <<tables, generating, hooks, crashes, observed>>

(* Events arrive late, more than once and concurrently; payment_link.paid    *)
(* also after it was acknowledged (a replay).                                *)
Deliver(d, e) ==
    /\ hooks[d].pc = "idle"
    /\ \/ e = "paid" /\ provider[LinkOf(d)] = "captured"
       \/ e = "other" /\ provider[LinkOf(d)] = "open"
    /\ hooks' = [hooks EXCEPT ![d] = [pc |-> "lookup", event |-> e, seen |-> "CREATED"]]
    /\ UNCHANGED <<tables, generating, provider, pending, crashes, observed>>

-----------------------------------------------------------------------------
(* handleWebhook                                                             *)

Answer(d) == hooks' = [hooks EXCEPT ![d] = NoDelivery]

(* A 2xx answer ends the retries of payment_link.paid. *)
Acknowledge(d) ==
    /\ Answer(d)
    /\ pending' = IF hooks[d].event = "paid" THEN pending \ {LinkOf(d)} ELSE pending

(* findByProviderPaymentId; the link's status is read here, for good. *)
LookupLink(d) ==
    /\ hooks[d].pc = "lookup"
    /\ links[LinkOf(d)].row
    /\ hooks' = [hooks EXCEPT ![d] = [@ EXCEPT !.pc = "verify", !.seen = links[LinkOf(d)].status]]
    /\ UNCHANGED <<tables, generating, provider, pending, crashes, observed>>

(* "Received a client-payment webhook for an unknown payment link": 200. *)
UnknownLink(d) ==
    /\ hooks[d].pc = "lookup"
    /\ ~links[LinkOf(d)].row
    /\ Acknowledge(d)
    /\ unmatched' = IF hooks[d].event = "paid" THEN unmatched \union {LinkOf(d)} ELSE unmatched
    /\ UNCHANGED <<tables, generating, provider, crashes, bookedFor>>

(* Fault: a delivery that cannot be verified is answered 200. *)
RejectSignatureWith200(d) ==
    /\ hooks[d].pc = "verify"
    /\ settings # "on"
    /\ Acknowledge(d)
    /\ UNCHANGED <<tables, generating, provider, crashes, observed>>

(* 403, which the gateway retries: a disabled provider verifies nothing. *)
RejectSignature(d) ==
    /\ hooks[d].pc = "verify"
    /\ settings # "on"
    /\ Answer(d)
    /\ UNCHANGED <<tables, generating, provider, pending, crashes, observed>>

(* Already processed, or not an event this handler books. *)
IgnoreEvent(d) ==
    /\ hooks[d].pc = "verify"
    /\ settings = "on"
    /\ hooks[d].seen = "PAID" \/ hooks[d].event # "paid"
    /\ Acknowledge(d)
    /\ UNCHANGED <<tables, generating, provider, crashes, observed>>

AcceptEvent(d) ==
    /\ hooks[d].pc = "verify"
    /\ settings = "on"
    /\ hooks[d].seen # "PAID"
    /\ hooks[d].event = "paid"
    /\ hooks' = [hooks EXCEPT ![d].pc = "commit"]
    /\ UNCHANGED <<tables, generating, provider, pending, crashes, observed>>

(* invoiceRepository.update: no row matches once the invoice is deleted. *)
SettleInvoice(i) ==
    invoices' = IF invoices[i].row = "live"
                THEN [invoices EXCEPT ![i].status = "PAID"]
                ELSE invoices

(* The transaction: payment, link and invoice, or nothing. *)
Commit(d, p) ==
    LET l == LinkOf(d) IN
    /\ hooks[d].pc = "commit"
    /\ payments[p].row = "absent"
    /\ NumberFree(GatewayNumber(l))
    /\ payments' = [payments EXCEPT ![p] =
                      [row |-> "live", number |-> GatewayNumber(l),
                       invoice |-> links[l].invoice, status |-> "COMPLETED"]]
    /\ links' = [links EXCEPT ![l] = [@ EXCEPT !.status = "PAID", !.payment = p]]
    /\ SettleInvoice(links[l].invoice)
    /\ bookedFor' = [bookedFor EXCEPT ![p] = l]
    /\ hooks' = [hooks EXCEPT ![d].pc = "respond"]
    /\ UNCHANGED <<settings, generating, provider, pending, crashes, unmatched>>

(* P2002 on paymentNumber rolls the transaction back; 409, retried. *)
CommitConflict(d) ==
    /\ hooks[d].pc = "commit"
    /\ ~NumberFree(GatewayNumber(LinkOf(d)))
    /\ Answer(d)
    /\ UNCHANGED <<tables, generating, provider, pending, crashes, observed>>

Respond(d) ==
    /\ hooks[d].pc = "respond"
    /\ Acknowledge(d)
    /\ UNCHANGED <<tables, generating, provider, crashes, observed>>

(* The process stops, or the gateway stops waiting: no answer, so a retry. *)
Crash(d) ==
    /\ hooks[d].pc # "idle"
    /\ crashes < MaxCrashes
    /\ crashes' = crashes + 1
    /\ Answer(d)
    /\ UNCHANGED <<tables, generating, provider, pending, observed>>

-----------------------------------------------------------------------------
Staff ==
    \/ \E i \in Invoices : CreateInvoice(i) \/ DeleteInvoice(i)
    \/ \E p \in Payments, n \in Typed, i \in Invoices \union {None} : CreatePayment(p, n, i)
    \/ \E p \in Payments, n \in Numbers, i \in Invoices \union {None} :
          (n \in Typed \/ n = payments[p].number) /\ UpdatePayment(p, n, i)
    \/ \E p \in Payments : DeletePayment(p)
    \/ \E s \in SettingStates : UpdateSettings(s)

Generate(l) ==
    \/ \E i \in Invoices : ReadInvoice(l, i)
    \/ ReadSettings(l)
    \/ CallProvider(l)
    \/ CallFails(l)
    \/ PersistLink(l)
    \/ PersistFails(l)

Handle(d) ==
    \/ LookupLink(d)
    \/ UnknownLink(d)
    \/ RejectSignature(d)
    \/ IgnoreEvent(d)
    \/ AcceptEvent(d)
    \/ \E p \in Payments : Commit(d, p)
    \/ CommitConflict(d)
    \/ Respond(d)

Next ==
    \/ Staff
    \/ \E l \in Links : Generate(l) \/ ClientPays(l)
    \/ \E d \in Deliveries : (\E e \in {"paid", "other"} : Deliver(d, e)) \/ Handle(d) \/ Crash(d)

Spec == Init /\ [][Next]_vars

(* The gateway retries what was not acknowledged and a request that was      *)
(* accepted runs on; staff, clients and crashes owe nothing.                 *)
Fairness ==
    /\ \A l \in Links : WF_vars(l \in pending /\ \E c \in Copies : Deliver(<<l, c>>, "paid"))
    /\ \A d \in Deliveries : WF_vars(Handle(d))

FairSpec == Spec /\ Fairness

-----------------------------------------------------------------------------
(* A PAID link was captured by the gateway and points to the COMPLETED       *)
(* payment booked for it (handleWebhook's transaction, the event guard and   *)
(* the status guard); that payment may since have been renumbered or         *)
(* deleted by staff, but never to belong to another capture.                 *)
PaidLinkIsBooked ==
    \A l \in Links : links[l].status = "PAID" =>
        /\ provider[l] = "captured"
        /\ links[l].payment \in Payments
        /\ payments[links[l].payment].row # "absent"
        /\ payments[links[l].payment].status = "COMPLETED"
        /\ bookedFor[links[l].payment] = l

(* Link and invoice settle together: the invoice of a PAID link is PAID      *)
(* unless staff deleted it, and an invoice is PAID only through a PAID link. *)
LinkAndInvoiceAgree ==
    /\ \A l \in Links : links[l].status = "PAID" =>
           /\ links[l].invoice \in Invoices
           /\ \/ invoices[links[l].invoice].status = "PAID"
              \/ invoices[links[l].invoice].row = "deleted"
    /\ \A i \in Invoices : invoices[i].status = "PAID" =>
           \E l \in Links : links[l].status = "PAID" /\ links[l].invoice = i

(* No captured money is forgotten: it is booked, or its event is still to be *)
(* acknowledged, or it was acknowledged when the link had no row yet (the    *)
(* one answer of handleWebhook that gives a capture up).                     *)
CaptureAccountedFor ==
    \A l \in Links : provider[l] = "captured" =>
        links[l].status = "PAID" \/ l \in pending \/ l \in unmatched

(* Only a link whose row was never written, or was written after the client  *)
(* had paid, can be acknowledged unbooked: once handleWebhook has seen the   *)
(* row, its acknowledgement means the capture is booked.                     *)
AcknowledgedMeansBooked ==
    [][\A l \in Links : l \in pending /\ l \notin pending' =>
           links'[l].status = "PAID" \/ ~links[l].row]_vars

(* Two payments booked for one capture: staff has renumbered one of them,    *)
(* since nothing else frees the unique payment number of the other.          *)
TwiceBookedMeansRenumbered ==
    \A p, q \in Payments :
        /\ p # q
        /\ bookedFor[p] # None
        /\ bookedFor[p] = bookedFor[q]
        => \E r \in {p, q} : payments[r].number # GatewayNumber(bookedFor[r])

(* Every COMPLETED payment is a booking and every booking stays COMPLETED.   *)
CompletedMeansBooked ==
    \A p \in Payments : payments[p].status = "COMPLETED" <=> bookedFor[p] # None

-----------------------------------------------------------------------------
(* The tables as the abstract specification of collection sees them. *)
Stage == [l \in Links |-> IF links[l].status = "PAID" THEN "booked" ELSE provider[l]]
Target == [l \in Links |-> links[l].invoice]
Settled == {i \in Invoices : invoices[i].status = "PAID"}

Collection == INSTANCE GatewayCollection
                WITH stage <- Stage, target <- Target, settled <- Settled

(* The requests implement the abstract collection: money is booked once, only *)
(* after its capture, and settles only the invoice its link was made for.    *)
ImplementsCollection == Collection!Spec

(* Captured money of a persisted link is booked, through crashes, conflicts  *)
(* and rejected deliveries, once the settings stay usable and no payment     *)
(* that staff made holds the number the booking needs.  Captured before its  *)
(* link has a row, it is booked or acknowledged as of an unknown link, and   *)
(* never left with the gateway for good.                                     *)
CapturedIsEventuallyBooked ==
    \A l \in Links :
        <>[](/\ settings = "on"
             /\ \A p \in Payments : payments[p].number = GatewayNumber(l) => bookedFor[p] = l) =>
            /\ (provider[l] = "captured" /\ links[l].row /\ l \in pending)
                 ~> links[l].status = "PAID"
            /\ (provider[l] = "captured" /\ l \in pending)
                 ~> (links[l].status = "PAID" \/ l \in unmatched)
=============================================================================
