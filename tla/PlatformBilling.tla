---------------------------- MODULE PlatformBilling ----------------------------
(***************************************************************************)
(* A tenant's subscription to the platform (backend/src/modules/billing)   *)
(* and the check every request of the tenant passes                        *)
(* (backend/src/middlewares/tenant.middleware.ts).                         *)
(*                                                                         *)
(*   createCheckoutSession opens an order at the gateway and keeps a       *)
(*   PENDING invoice for it; the browser pays and calls verifyPayment, and *)
(*   the gateway posts payment.captured until it is answered 2xx; both end *)
(*   in finalizePayment, which sends two statements at once, without a     *)
(*   transaction: the invoice becomes PAID, the tenant gets the plan.      *)
(*   tenantMiddleware turns the requests of a lapsed tenant away, and the  *)
(*   one that notices the lapse writes EXPIRED.                            *)
(*                                                                         *)
(* One tenant; others share only the plans.  A request is one action per   *)
(* awaited statement.  The limits a plan carries are written with its code *)
(* and left out; EXPIRED stands for CANCELLED and SUSPENDED, which block   *)
(* alike.                                                                  *)
(***************************************************************************)
EXTENDS Naturals

CONSTANTS
    Orders,       \* orders the gateway may open (bound)
    Plans,
    Cycle,        \* days a plan's billing cycle lasts
    Requests,     \* requests in flight at a time (bound)
    Horizon,      \* last day (bound)
    MaxFailures,  \* statements and requests that fail (bound)
    None          \* SQL NULL

ASSUME NoneAssumption == None \notin Orders \union Plans \union Nat
ASSUME CycleAssumption == Cycle \in [Plans -> Nat \ {0}]
ASSUME BoundAssumption == Horizon \in Nat /\ MaxFailures \in Nat

VARIABLES
    now,
    tenant,     \* the tenant's row: [plan, subscription, expires], plan None unless bought
    invoices,   \* table platform_invoices: [row, plan, status, until]
    gateway,    \* the gateway's own view of each order
    pending,    \* orders whose payment.captured is not acknowledged yet
    hooked,     \* RAZORPAY_WEBHOOK_SECRET is configured
    requests,   \* requests in flight
    failures,
    granted,    \* observation: the order whose payment the tenant's row reflects
    applied,    \* observation: orders whose plan was ever written to the tenant
    split,      \* observation: orders finalized by halves, or by two requests at once
    lockedOut   \* observation: EXPIRED was written over a row changed since it was read

vars == <<now, tenant, invoices, gateway, pending, hooked, requests, failures,
          granted, applied, split, lockedOut>>
tables == <<tenant, invoices>>
provider == <<gateway, pending, hooked>>
observed == <<granted, applied, split, lockedOut>>

-----------------------------------------------------------------------------
Subscriptions == {"TRIAL", "ACTIVE", "PAST_DUE", "EXPIRED"}
Statements == {"invoice", "tenant"}

TenantRow == [plan : Plans \union {None}, subscription : Subscriptions,
              expires : Nat \union {None}]
InvoiceRow == [row : BOOLEAN, plan : Plans \union {None}, status : {"PENDING", "PAID"},
               until : Nat \union {None}]
Request == [step : {"none", "expire", "order", "insert", "lookup", "finalize"},
            hook : BOOLEAN, order : Orders \union {None}, plan : Plans \union {None},
            until : Nat \union {None}, todo : SUBSET Statements, failed : BOOLEAN]

TypeOK ==
    /\ now \in 0..Horizon
    /\ tenant \in TenantRow
    /\ invoices \in [Orders -> InvoiceRow]
    /\ gateway \in [Orders -> {"none", "open", "captured"}]
    /\ pending \in SUBSET Orders
    /\ hooked \in BOOLEAN
    /\ requests \in [Requests -> Request]
    /\ failures \in 0..MaxFailures
    /\ granted \in Orders \union {None}
    /\ applied \in SUBSET Orders
    /\ split \in SUBSET Orders
    /\ lockedOut \in BOOLEAN

NoRequest == [step |-> "none", hook |-> FALSE, order |-> None, plan |-> None,
              until |-> None, todo |-> {}, failed |-> FALSE]
NoInvoice == [row |-> FALSE, plan |-> None, status |-> "PENDING", until |-> None]

(* createTenant leaves subscriptionExpiresAt empty; a master admin sets it. *)
Init ==
    /\ now = 0
    /\ tenant = [plan |-> None, subscription |-> "TRIAL", expires |-> None]
    /\ invoices = [o \in Orders |-> NoInvoice]
    /\ gateway = [o \in Orders |-> "none"]
    /\ pending = {}
    /\ hooked \in BOOLEAN
    /\ requests = [r \in Requests |-> NoRequest]
    /\ failures = 0
    /\ granted = None
    /\ applied = {}
    /\ split = {}
    /\ lockedOut = FALSE

At(r, step) == requests[r].step = step
Begin(r, fields) ==
    /\ At(r, "none")
    /\ requests' = [requests EXCEPT ![r] = fields]
End(r) == requests' = [requests EXCEPT ![r] = NoRequest]

NextDay ==
    /\ now < Horizon
    /\ now' = now + 1
    /\ UNCHANGED <<tables, provider, requests, failures, observed>>

-----------------------------------------------------------------------------
(* tenantMiddleware                                                          *)

(* Fault: the last day counts as lapsed. *)
LapsedOnLastDay ==
    /\ tenant.subscription \in {"TRIAL", "ACTIVE"}
    /\ tenant.expires # None
    /\ tenant.expires <= now

(* PAST_DUE never lapses: the grace period has no end of its own. *)
Lapsed ==
    /\ tenant.subscription \in {"TRIAL", "ACTIVE"}
    /\ tenant.expires # None
    /\ tenant.expires < now

(* The request goes on to its handler.  A tenant whose own status is not     *)
(* ACTIVE is refused and nothing else: a request that never came.            *)
Admitted ==
    /\ ~Lapsed
    /\ tenant.subscription # "EXPIRED"

(* The tenant's row is read here and not again. *)
NoticeLapse(r) ==
    /\ Lapsed
    /\ Begin(r, [NoRequest EXCEPT !.step = "expire", !.until = tenant.expires])
    /\ UNCHANGED <<now, tables, provider, failures, observed>>

(* The update names the tenant only. *)
WriteExpired(r) ==
    /\ At(r, "expire")
    /\ tenant' = [tenant EXCEPT !.subscription = "EXPIRED"]
    /\ lockedOut' = (lockedOut \/ tenant.expires # requests[r].until)
    /\ End(r)
    /\ UNCHANGED <<now, invoices, provider, failures, granted, applied, split>>

-----------------------------------------------------------------------------
(* createCheckoutSession                                                     *)

(* An inactive or unknown plan is a 404, and no other statement reads plans. *)
StartCheckout(r, p) ==
    /\ Admitted
    /\ Begin(r, [NoRequest EXCEPT !.step = "order", !.plan = p])
    /\ UNCHANGED <<now, tables, provider, failures, observed>>

CreateOrder(r, o) ==
    /\ At(r, "order")
    /\ gateway[o] = "none"
    /\ gateway' = [gateway EXCEPT ![o] = "open"]
    /\ requests' = [requests EXCEPT ![r] = [@ EXCEPT !.step = "insert", !.order = o]]
    /\ UNCHANGED <<now, tables, pending, hooked, failures, observed>>

OrderRefused(r) ==
    /\ At(r, "order")
    /\ End(r)
    /\ UNCHANGED <<now, tables, provider, failures, observed>>

InsertInvoice(r) ==
    /\ At(r, "insert")
    /\ invoices' = [invoices EXCEPT ![requests[r].order] =
                      [row |-> TRUE, plan |-> requests[r].plan, status |-> "PENDING", until |-> None]]
    /\ End(r)
    /\ UNCHANGED <<now, tenant, provider, failures, observed>>

(* The browser learns the order's id from the answer, after the insert. *)
ClientPays(o) ==
    /\ gateway[o] = "open"
    /\ invoices[o].row
    /\ gateway' = [gateway EXCEPT ![o] = "captured"]
    /\ pending' = pending \union {o}
    /\ UNCHANGED <<now, tables, hooked, requests, failures, observed>>

-----------------------------------------------------------------------------
(* verifyPayment, handleWebhook and finalizePayment                          *)

(* The signature exists once the order is paid. *)
VerifyPayment(r, o) ==
    /\ Admitted
    /\ gateway[o] = "captured"
    /\ Begin(r, [NoRequest EXCEPT !.step = "lookup", !.order = o])
    /\ UNCHANGED <<now, tables, provider, failures, observed>>

(* Public; late, repeated and concurrent. *)
DeliverCaptured(r, o) ==
    /\ hooked
    /\ gateway[o] = "captured"
    /\ Begin(r, [NoRequest EXCEPT !.step = "lookup", !.order = o, !.hook = TRUE])
    /\ UNCHANGED <<now, tables, provider, failures, observed>>

(* Without the secret every event is answered 200 and forgotten. *)
IgnoreCaptured(o) ==
    /\ ~hooked
    /\ o \in pending
    /\ pending' = pending \ {o}
    /\ UNCHANGED <<now, tables, gateway, hooked, requests, failures, observed>>

Acknowledge(r) ==
    pending' = IF requests[r].hook THEN pending \ {requests[r].order} ELSE pending

AlreadyPaid(r) ==
    /\ At(r, "lookup")
    /\ invoices[requests[r].order].status = "PAID"
    /\ Acknowledge(r)
    /\ End(r)
    /\ UNCHANGED <<now, tables, gateway, hooked, failures, observed>>

Finalizing(o) == {q \in Requests : At(q, "finalize") /\ requests[q].order = o}

(* Fault: an active tenant is taken to have its plan already. *)
StartFinalizeUnlessActive(r) ==
    LET o == requests[r].order IN
    /\ At(r, "lookup")
    /\ invoices[o].status # "PAID"
    /\ requests' = [requests EXCEPT ![r] =
                      [@ EXCEPT !.step = "finalize", !.plan = invoices[o].plan,
                                !.until = now + Cycle[invoices[o].plan],
                                !.todo = IF tenant.subscription = "ACTIVE" THEN {"invoice"} ELSE Statements]]
    /\ split' = IF Finalizing(o) = {} THEN split ELSE split \union {o}
    /\ UNCHANGED <<now, tables, provider, failures, granted, applied, lockedOut>>

(* The period starts today, whatever is left of the one before.  The status  *)
(* is read here, for good; the two statements are sent together.             *)
StartFinalize(r) ==
    LET o == requests[r].order IN
    /\ At(r, "lookup")
    /\ invoices[o].status # "PAID"
    /\ requests' = [requests EXCEPT ![r] =
                      [@ EXCEPT !.step = "finalize", !.plan = invoices[o].plan,
                                !.until = now + Cycle[invoices[o].plan], !.todo = Statements]]
    /\ split' = IF Finalizing(o) = {} THEN split ELSE split \union {o}
    /\ UNCHANGED <<now, tables, provider, failures, granted, applied, lockedOut>>

Sent(r, s) == At(r, "finalize") /\ s \in requests[r].todo
Done(r, s) == requests' = [requests EXCEPT ![r].todo = @ \ {s}]

MarkPaid(r) ==
    /\ Sent(r, "invoice")
    /\ invoices' = [invoices EXCEPT ![requests[r].order] =
                      [@ EXCEPT !.status = "PAID", !.until = requests[r].until]]
    /\ Done(r, "invoice")
    /\ UNCHANGED <<now, tenant, provider, failures, observed>>

(* Fault: the end of the period is worked out anew. *)
ApplyPlanFromNow(r) ==
    /\ Sent(r, "tenant")
    /\ tenant' = [tenant EXCEPT !.plan = requests[r].plan, !.subscription = "ACTIVE",
                                !.expires = now + Cycle[requests[r].plan]]
    /\ granted' = requests[r].order
    /\ applied' = applied \union {requests[r].order}
    /\ Done(r, "tenant")
    /\ UNCHANGED <<now, invoices, provider, failures, split, lockedOut>>

ApplyPlan(r) ==
    /\ Sent(r, "tenant")
    /\ tenant' = [tenant EXCEPT !.plan = requests[r].plan, !.subscription = "ACTIVE",
                                !.expires = requests[r].until]
    /\ granted' = requests[r].order
    /\ applied' = applied \union {requests[r].order}
    /\ Done(r, "tenant")
    /\ UNCHANGED <<now, invoices, provider, failures, split, lockedOut>>

(* Fault: a failed finalization is acknowledged all the same. *)
FinishAnyway(r) ==
    /\ At(r, "finalize")
    /\ requests[r].todo = {}
    /\ Acknowledge(r)
    /\ End(r)
    /\ UNCHANGED <<now, tables, gateway, hooked, failures, observed>>

(* 200 when both statements succeeded; the notice and the audit event follow. *)
Finish(r) ==
    /\ At(r, "finalize")
    /\ requests[r].todo = {}
    /\ IF requests[r].failed THEN UNCHANGED pending ELSE Acknowledge(r)
    /\ End(r)
    /\ UNCHANGED <<now, tables, gateway, hooked, failures, observed>>

-----------------------------------------------------------------------------
(* Failures                                                                  *)

MayFail == failures < MaxFailures /\ failures' = failures + 1

(* One of the two statements fails; the other is not taken back. *)
StatementFails(r, s) ==
    /\ MayFail
    /\ Sent(r, s)
    /\ requests' = [requests EXCEPT ![r].todo = @ \ {s}, ![r].failed = TRUE]
    /\ split' = split \union {requests[r].order}
    /\ UNCHANGED <<now, tables, provider, granted, applied, lockedOut>>

(* The request dies: the rest of it is never done. *)
Crash(r) ==
    /\ MayFail
    /\ ~At(r, "none")
    /\ split' = IF At(r, "finalize") /\ requests[r].todo # {}
                THEN split \union {requests[r].order}
                ELSE split
    /\ End(r)
    /\ UNCHANGED <<now, tables, provider, granted, applied, lockedOut>>

-----------------------------------------------------------------------------
(* Master admin                                                              *)

(* updateLimits: any status, and the expiry kept, none or today.  A plan that *)
(* was set and not bought is None like no plan: nothing tells them apart.     *)
UpdateLimits(s, e) ==
    /\ tenant' = [plan |-> None, subscription |-> s, expires |-> e]
    /\ granted' = None
    /\ UNCHANGED <<now, invoices, provider, requests, failures, applied, split, lockedOut>>

-----------------------------------------------------------------------------
Handle(r) ==
    \/ WriteExpired(r)
    \/ \E o \in Orders : CreateOrder(r, o)
    \/ OrderRefused(r)
    \/ InsertInvoice(r)
    \/ AlreadyPaid(r)
    \/ StartFinalize(r)
    \/ MarkPaid(r)
    \/ ApplyPlan(r)
    \/ Finish(r)

Next ==
    \/ NextDay
    \/ \E r \in Requests :
          \/ NoticeLapse(r)
          \/ \E p \in Plans : StartCheckout(r, p)
          \/ \E o \in Orders : VerifyPayment(r, o) \/ DeliverCaptured(r, o)
          \/ Handle(r)
          \/ \E s \in Statements : StatementFails(r, s)
          \/ Crash(r)
    \/ \E o \in Orders : ClientPays(o) \/ IgnoreCaptured(o)
    \/ \E s \in Subscriptions, e \in {None, now, tenant.expires} : UpdateLimits(s, e)

Spec == Init /\ [][Next]_vars

(* Requests in flight run on, and the gateway posts what was not acknowledged *)
(* again; strong fairness, because the server takes any number of requests    *)
(* and only the model's are few enough to be all busy.                        *)
Fairness ==
    /\ \A r \in Requests : WF_vars(Handle(r))
    /\ \A o \in Orders :
          SF_vars(IgnoreCaptured(o) \/ (o \in pending /\ \E r \in Requests : DeliverCaptured(r, o)))

FairSpec == Spec /\ Fairness

-----------------------------------------------------------------------------
(* No plan without a payment: a tenant's plan that no master admin set was   *)
(* bought with an order the gateway has captured, the browser's call or the  *)
(* webhook's, raced and repeated, notwithstanding.                           *)
GrantedWasCaptured ==
    granted # None =>
        /\ gateway[granted] = "captured"
        /\ tenant.plan = invoices[granted].plan
        /\ tenant.subscription \in {"ACTIVE", "EXPIRED"}

(* No captured order is forgotten: its invoice is PAID or its event is still *)
(* to be acknowledged, unless events are ignored for want of the secret.     *)
CaptureAccountedFor ==
    \A o \in Orders : gateway[o] = "captured" =>
        invoices[o].status = "PAID" \/ o \in pending \/ ~hooked

(* A PAID invoice has given the tenant its plan, or is about to, or one of   *)
(* the two statements of finalizePayment failed or met another request's:    *)
(* nothing else keeps the two tables together.                               *)
PaidMeansApplied ==
    \A o \in Orders : invoices[o].status = "PAID" =>
        \/ o \in applied \union split
        \/ \E r \in Finalizing(o) : "tenant" \in requests[r].todo

(* The tenant's expiry is the end of the period its invoice records, once    *)
(* markPaid has run; the same exceptions.                                    *)
ExpiryMatchesInvoice ==
    granted # None /\ granted \notin split =>
        \/ invoices[granted].status = "PAID" /\ invoices[granted].until = tenant.expires
        \/ \E r \in Finalizing(granted) :
              "invoice" \in requests[r].todo /\ requests[r].until = tenant.expires

(* A tenant is locked out of a period it paid for only by a request that     *)
(* read the row before the payment and wrote EXPIRED after it.               *)
LockoutMeansLapse ==
    tenant.subscription = "EXPIRED" /\ granted # None => tenant.expires < now \/ lockedOut

(* Every captured order is PAID in the end, whatever the browser does.       *)
CapturedIsEventuallyPaid ==
    hooked => \A o \in Orders : o \in pending ~> invoices[o].status = "PAID"
-----------------------------------------------------------------------------
(* The subscription's money as GatewayCollection sees it: an order is a link *)
(* and its invoice at once, and an invoice is settled when it is PAID.       *)
Stage == [o \in Orders |-> IF invoices[o].status = "PAID" THEN "booked"
                           ELSE IF gateway[o] = "none" THEN "unissued" ELSE gateway[o]]
Target == [o \in Orders |-> IF invoices[o].row THEN o ELSE None]
Settled == {o \in Orders : invoices[o].status = "PAID"}

Collection == INSTANCE GatewayCollection
                WITH Invoices <- Orders, Links <- Orders,
                     stage <- Stage, target <- Target, settled <- Settled

(* Checkout, confirmation, webhook and the statements sent together implement *)
(* the abstract collection: an order's money is booked only after its capture *)
(* and once, whoever finalizes it, and settles that order's invoice alone.    *)
ImplementsCollection == Collection!Spec
=============================================================================
