------------------------- MODULE PlatformBillingProofs -------------------------
(* The invariants of PlatformBilling, for any number of orders, plans,       *)
(* requests, days and failures.                                              *)
EXTENDS PlatformBilling, TLAPS

(* Strengthening of the invariants                                           *)

(* What a request may rely on between two statements: the row it read has    *)
(* lapsed, its new order is its own, the order it confirms is captured.      *)
RequestsKnowOrders ==
    \A r \in Requests :
        /\ At(r, "expire") => requests[r].until \in Nat /\ requests[r].until < now
        /\ requests[r].step \in {"order", "insert"} => requests[r].plan \in Plans
        /\ At(r, "insert") =>
              /\ requests[r].order \in Orders
              /\ gateway[requests[r].order] = "open"
              /\ ~invoices[requests[r].order].row
        /\ requests[r].step \in {"lookup", "finalize"} =>
              requests[r].order \in Orders /\ gateway[requests[r].order] = "captured"
        /\ At(r, "lookup") => ~requests[r].failed
        /\ At(r, "finalize") =>
              requests[r].plan = invoices[requests[r].order].plan /\ requests[r].until \in Nat

OneInsertPerOrder ==
    \A r, q \in Requests :
        At(r, "insert") /\ At(q, "insert") /\ requests[r].order = requests[q].order => r = q

InvoicesKnowOrders ==
    \A o \in Orders :
        /\ invoices[o].row => gateway[o] # "none" /\ invoices[o].plan \in Plans
        /\ gateway[o] = "captured" => invoices[o].row
        /\ invoices[o].status = "PAID" => gateway[o] = "captured"

(* What a finalizing request has done shows in the tables, unless the order  *)
(* is split.                                                                 *)
FinalizersLeaveTraces ==
    \A r \in Requests : At(r, "finalize") =>
        LET o == requests[r].order IN
        /\ requests[r].failed => o \in split
        /\ "tenant" \notin requests[r].todo => o \in applied \union split
        /\ "invoice" \notin requests[r].todo /\ ~requests[r].failed => invoices[o].status = "PAID"
        /\ o \notin split =>
              IF "invoice" \in requests[r].todo
              THEN invoices[o].status # "PAID"
              ELSE invoices[o].status = "PAID" /\ invoices[o].until = requests[r].until

FinalizedTogetherIsSplit ==
    \A r, q \in Requests :
        At(r, "finalize") /\ At(q, "finalize") /\ requests[r].order = requests[q].order
            => r = q \/ requests[r].order \in split

GrantedHasExpiry == granted # None => tenant.expires \in Nat

(* Inductive: with what the requests in flight know, the steps that write    *)
(* the two tables keep them together.                                        *)
IInv ==
    /\ TypeOK
    /\ RequestsKnowOrders
    /\ OneInsertPerOrder
    /\ InvoicesKnowOrders
    /\ FinalizersLeaveTraces
    /\ FinalizedTogetherIsSplit
    /\ GrantedHasExpiry
    /\ GrantedWasCaptured
    /\ CaptureAccountedFor
    /\ PaidMeansApplied
    /\ ExpiryMatchesInvoice
    /\ LockoutMeansLapse

-----------------------------------------------------------------------------
(* Types                                                                     *)

LEMMA InitialTypes == Init => TypeOK
<1>1. NoRequest \in Request /\ NoInvoice \in InvoiceRow
  BY DEF NoRequest, Request, NoInvoice, InvoiceRow
<1>2. [plan |-> None, subscription |-> "TRIAL", expires |-> None] \in TenantRow
  BY DEF TenantRow, Subscriptions
<1>3. 0 \in 0..Horizon /\ 0 \in 0..MaxFailures
  BY BoundAssumption
<1> QED
  BY <1>1, <1>2, <1>3 DEF Init, TypeOK

(* What Begin and End put into a request is a request. *)
LEMMA RequestTypes ==
    ASSUME TypeOK, NEW r \in Requests
    PROVE  /\ NoRequest \in Request
           /\ \A f \in Request : Begin(r, f) => requests' \in [Requests -> Request]
           /\ End(r) => requests' \in [Requests -> Request]
<1>1. NoRequest \in Request
  BY DEF NoRequest, Request
<1> QED
  BY <1>1 DEF TypeOK, Begin, End

LEMMA StepKeepsTypes ==
    TypeOK /\ RequestsKnowOrders /\ InvoicesKnowOrders /\ [Next]_vars => TypeOK'
<1> SUFFICES ASSUME TypeOK, RequestsKnowOrders, InvoicesKnowOrders, [Next]_vars PROVE TypeOK'
  OBVIOUS
<1> USE DEF TypeOK, tables, provider, observed
<1>0. \A r \in Requests : requests[r] \in Request
  OBVIOUS
<1>1. CASE NextDay
  BY <1>1, BoundAssumption DEF NextDay
<1>2. ASSUME NEW r \in Requests, NoticeLapse(r) PROVE TypeOK'
  <2>1. tenant.expires \in Nat \union {None}
    BY DEF TenantRow
  <2>2. [NoRequest EXCEPT !.step = "expire", !.until = tenant.expires] \in Request
    BY <2>1 DEF NoRequest, Request
  <2> QED
    BY <1>2, <2>2, RequestTypes DEF NoticeLapse
<1>3. ASSUME NEW r \in Requests, WriteExpired(r) PROVE TypeOK'
  <2>1. tenant' \in TenantRow
    BY <1>3 DEF WriteExpired, TenantRow, Subscriptions
  <2> QED
    BY <1>3, <2>1, RequestTypes DEF WriteExpired
<1>4. ASSUME NEW r \in Requests, NEW p \in Plans, StartCheckout(r, p) PROVE TypeOK'
  <2>1. [NoRequest EXCEPT !.step = "order", !.plan = p] \in Request
    BY DEF NoRequest, Request
  <2> QED
    BY <1>4, <2>1, RequestTypes DEF StartCheckout
<1>5. ASSUME NEW r \in Requests, NEW o \in Orders, CreateOrder(r, o) PROVE TypeOK'
  <2>1. [requests[r] EXCEPT !.step = "insert", !.order = o] \in Request
    BY <1>0 DEF Request
  <2> QED
    BY <1>5, <2>1 DEF CreateOrder
<1>6. ASSUME NEW r \in Requests, OrderRefused(r) PROVE TypeOK'
  BY <1>6, RequestTypes DEF OrderRefused
<1>7. ASSUME NEW r \in Requests, InsertInvoice(r) PROVE TypeOK'
  <2>1. [row |-> TRUE, plan |-> requests[r].plan, status |-> "PENDING", until |-> None] \in InvoiceRow
    BY <1>7, <1>0 DEF InsertInvoice, At, RequestsKnowOrders, InvoiceRow
  <2> QED
    BY <1>7, <2>1, RequestTypes DEF InsertInvoice
<1>8. ASSUME NEW o \in Orders, ClientPays(o) \/ IgnoreCaptured(o) PROVE TypeOK'
  BY <1>8 DEF ClientPays, IgnoreCaptured
<1>9. ASSUME NEW r \in Requests, NEW o \in Orders, VerifyPayment(r, o) \/ DeliverCaptured(r, o)
      PROVE TypeOK'
  <2>1. /\ [NoRequest EXCEPT !.step = "lookup", !.order = o] \in Request
        /\ [NoRequest EXCEPT !.step = "lookup", !.order = o, !.hook = TRUE] \in Request
    BY DEF NoRequest, Request
  <2> QED
    BY <1>9, <2>1, RequestTypes DEF VerifyPayment, DeliverCaptured
<1>10. ASSUME NEW r \in Requests, AlreadyPaid(r) \/ Finish(r) PROVE TypeOK'
  BY <1>10, RequestTypes DEF AlreadyPaid, Finish, Acknowledge
<1>11. ASSUME NEW r \in Requests, StartFinalize(r) PROVE TypeOK'
  <2> DEFINE o == requests[r].order
  <2>1. o \in Orders /\ invoices[o].plan \in Plans
    BY <1>11 DEF StartFinalize, At, RequestsKnowOrders, InvoicesKnowOrders
  <2>2. now + Cycle[invoices[o].plan] \in Nat
    BY <2>1, CycleAssumption, BoundAssumption
  <2> DEFINE f == [requests[r] EXCEPT !.step = "finalize", !.plan = invoices[o].plan,
                     !.until = now + Cycle[invoices[o].plan], !.todo = Statements]
  <2>3. f \in Request
    BY <1>0, <2>1, <2>2 DEF Request
  <2>4. requests' = [requests EXCEPT ![r] = f]
    BY <1>11 DEF StartFinalize
  <2>5. split' \in SUBSET Orders
    BY <1>11, <2>1 DEF StartFinalize
  <2> QED
    BY <1>11, <2>3, <2>4, <2>5 DEF StartFinalize
<1>12. ASSUME NEW r \in Requests, MarkPaid(r) PROVE TypeOK'
  <2>1. requests[r].order \in Orders /\ requests[r].until \in Nat
    BY <1>12 DEF MarkPaid, Sent, At, RequestsKnowOrders
  <2>2. [invoices[requests[r].order] EXCEPT !.status = "PAID", !.until = requests[r].until] \in InvoiceRow
    <3>1. invoices[requests[r].order] \in InvoiceRow
      BY <2>1
    <3> QED
      BY <2>1, <3>1 DEF InvoiceRow
  <2>3. [requests[r] EXCEPT !.todo = @ \ {"invoice"}] \in Request
    BY <1>0 DEF Request
  <2> QED
    BY <1>12, <2>2, <2>3 DEF MarkPaid, Done
<1>13. ASSUME NEW r \in Requests, ApplyPlan(r) PROVE TypeOK'
  <2>1. /\ requests[r].order \in Orders
        /\ requests[r].until \in Nat
        /\ requests[r].plan \in Plans \union {None}
    BY <1>13, <1>0 DEF ApplyPlan, Sent, At, RequestsKnowOrders, Request
  <2>2. tenant' \in TenantRow
    BY <1>13, <2>1 DEF ApplyPlan, TenantRow, Subscriptions
  <2>3. [requests[r] EXCEPT !.todo = @ \ {"tenant"}] \in Request
    BY <1>0 DEF Request
  <2> QED
    BY <1>13, <2>1, <2>2, <2>3 DEF ApplyPlan, Done
<1>14. ASSUME NEW r \in Requests, NEW s \in Statements, StatementFails(r, s) PROVE TypeOK'
  <2>1. [[requests[r] EXCEPT !.todo = @ \ {s}] EXCEPT !.failed = TRUE] \in Request
    BY <1>0 DEF Request
  <2>2. failures' \in 0..MaxFailures
    BY <1>14, BoundAssumption DEF StatementFails, MayFail
  <2>3. requests[r].order \in Orders
    BY <1>14 DEF StatementFails, Sent, At, RequestsKnowOrders
  <2> QED
    BY <1>14, <2>1, <2>2, <2>3 DEF StatementFails
<1>15. ASSUME NEW r \in Requests, Crash(r) PROVE TypeOK'
  <2>1. failures' \in 0..MaxFailures
    BY <1>15, BoundAssumption DEF Crash, MayFail
  <2>2. split' \in SUBSET Orders
    BY <1>15 DEF Crash, At, RequestsKnowOrders
  <2> QED
    BY <1>15, <2>1, <2>2, RequestTypes DEF Crash
<1>16. ASSUME NEW s \in Subscriptions, NEW e \in {None, now, tenant.expires}, UpdateLimits(s, e)
       PROVE TypeOK'
  <2>1. tenant' \in TenantRow
    BY <1>16, BoundAssumption DEF UpdateLimits, TenantRow
  <2> QED
    BY <1>16, <2>1 DEF UpdateLimits
<1>17. CASE UNCHANGED vars
  BY <1>17 DEF vars
<1> QED
  BY <1>1, <1>2, <1>3, <1>4, <1>5, <1>6, <1>7, <1>8, <1>9, <1>10, <1>11, <1>12, <1>13, <1>14,
     <1>15, <1>16, <1>17
     DEF Next, Handle

-----------------------------------------------------------------------------
(* The inductive invariant                                                   *)

(* A step that leaves the variables of a conjunct alone leaves the conjunct true. *)
LEMMA Frame ==
    /\ RequestsKnowOrders /\ UNCHANGED <<requests, gateway, invoices, now>> => RequestsKnowOrders'
    /\ OneInsertPerOrder /\ UNCHANGED requests => OneInsertPerOrder'
    /\ InvoicesKnowOrders /\ UNCHANGED <<gateway, invoices>> => InvoicesKnowOrders'
    /\ FinalizersLeaveTraces /\ UNCHANGED <<requests, invoices, split, applied>>
          => FinalizersLeaveTraces'
    /\ FinalizedTogetherIsSplit /\ UNCHANGED <<requests, split>> => FinalizedTogetherIsSplit'
    /\ GrantedHasExpiry /\ UNCHANGED <<granted, tenant>> => GrantedHasExpiry'
    /\ GrantedWasCaptured /\ UNCHANGED <<granted, gateway, tenant, invoices>> => GrantedWasCaptured'
    /\ CaptureAccountedFor /\ UNCHANGED <<gateway, invoices, pending, hooked>>
          => CaptureAccountedFor'
    /\ PaidMeansApplied /\ UNCHANGED <<invoices, applied, split, requests>> => PaidMeansApplied'
    /\ ExpiryMatchesInvoice /\ UNCHANGED <<granted, split, invoices, tenant, requests>>
          => ExpiryMatchesInvoice'
    /\ LockoutMeansLapse /\ UNCHANGED <<tenant, granted, now, lockedOut>> => LockoutMeansLapse'
  BY DEF RequestsKnowOrders, OneInsertPerOrder, InvoicesKnowOrders, FinalizersLeaveTraces,
         FinalizedTogetherIsSplit, GrantedHasExpiry, GrantedWasCaptured, CaptureAccountedFor,
         PaidMeansApplied, ExpiryMatchesInvoice, LockoutMeansLapse, Finalizing, At

(* A request that neither is left nor comes to be at "finalize", or whose    *)
(* order counts as split when it leaves with statements to do, disturbs none *)
(* of the conjuncts about the finalizing ones.                               *)
LEMMA BystanderStep ==
    ASSUME TypeOK, NEW r \in Requests, NEW f \in Request,
           f.step # "finalize",
           requests' = [requests EXCEPT ![r] = f],
           split \subseteq split',
           At(r, "finalize") /\ requests[r].todo # {} => requests[r].order \in split',
           UNCHANGED <<invoices, applied, granted>>,
           tenant'.expires = tenant.expires
    PROVE  /\ FinalizersLeaveTraces => FinalizersLeaveTraces'
           /\ FinalizedTogetherIsSplit => FinalizedTogetherIsSplit'
           /\ PaidMeansApplied => PaidMeansApplied'
           /\ ExpiryMatchesInvoice => ExpiryMatchesInvoice'
<1>1. \A q \in Requests : At(q, "finalize")' => q # r /\ requests'[q] = requests[q]
  BY DEF TypeOK, At
<1>2. \A q \in Requests : q # r => requests'[q] = requests[q]
  BY DEF TypeOK
<1>3. FinalizersLeaveTraces => FinalizersLeaveTraces'
  BY <1>1 DEF FinalizersLeaveTraces, At
<1>4. FinalizedTogetherIsSplit => FinalizedTogetherIsSplit'
  BY <1>1 DEF FinalizedTogetherIsSplit, At
<1>5. PaidMeansApplied => PaidMeansApplied'
  BY <1>2 DEF PaidMeansApplied, Finalizing, At
<1>6. ExpiryMatchesInvoice => ExpiryMatchesInvoice'
  BY <1>2 DEF ExpiryMatchesInvoice, Finalizing, At
<1> QED
  BY <1>3, <1>4, <1>5, <1>6

LEMMA InvariantHoldsInitially == Init => IInv
  BY InitialTypes
     DEF Init, IInv, RequestsKnowOrders, OneInsertPerOrder, InvoicesKnowOrders,
         FinalizersLeaveTraces, FinalizedTogetherIsSplit, GrantedHasExpiry, GrantedWasCaptured,
         CaptureAccountedFor, PaidMeansApplied, ExpiryMatchesInvoice, LockoutMeansLapse,
         NoRequest, NoInvoice, At

(* One step per action, and under it one per conjunct the action can disturb. *)
LEMMA StepKeepsInvariant == IInv /\ [Next]_vars => IInv'
<1> SUFFICES ASSUME IInv, [Next]_vars PROVE IInv'
  OBVIOUS
<1> USE DEF IInv, tables, provider, observed
<1>0. TypeOK' /\ (\A r \in Requests : requests[r] \in Request) /\ NoRequest \in Request
  <2>1. NoRequest \in Request
    BY DEF NoRequest, Request
  <2> QED
    BY <2>1, StepKeepsTypes DEF TypeOK
<1>1. CASE NextDay
  <2>1. RequestsKnowOrders'
    BY <1>1 DEF NextDay, TypeOK, RequestsKnowOrders, At
  <2>2. LockoutMeansLapse'
    BY <1>1 DEF NextDay, TypeOK, LockoutMeansLapse, GrantedHasExpiry
  <2> QED
    BY <1>1, <1>0, <2>1, <2>2, Frame DEF NextDay
<1>2. ASSUME NEW r \in Requests, NoticeLapse(r) PROVE IInv'
  <2> DEFINE f == [NoRequest EXCEPT !.step = "expire", !.until = tenant.expires]
  <2>1. f \in Request /\ f.step = "expire" /\ f.until = tenant.expires
    BY DEF TypeOK, TenantRow, NoRequest, Request
  <2>2. requests' = [requests EXCEPT ![r] = f]
    BY <1>2 DEF NoticeLapse, Begin
  <2>3. tenant.expires \in Nat /\ tenant.expires < now
    BY <1>2 DEF NoticeLapse, Lapsed, TypeOK, TenantRow
  <2>4. RequestsKnowOrders'
    BY <1>2, <2>1, <2>2, <2>3 DEF NoticeLapse, TypeOK, RequestsKnowOrders, At
  <2>5. OneInsertPerOrder'
    BY <2>1, <2>2 DEF TypeOK, OneInsertPerOrder, At
  <2>6. /\ FinalizersLeaveTraces' /\ FinalizedTogetherIsSplit'
        /\ PaidMeansApplied' /\ ExpiryMatchesInvoice'
    BY <1>2, <2>1, <2>2, BystanderStep DEF NoticeLapse, Begin, At
  <2> QED
    BY <1>2, <1>0, <2>4, <2>5, <2>6, Frame DEF NoticeLapse
<1>3. ASSUME NEW r \in Requests, WriteExpired(r) PROVE IInv'
  <2>1. requests' = [requests EXCEPT ![r] = NoRequest] /\ NoRequest.step = "none"
    BY <1>3 DEF WriteExpired, End, NoRequest
  <2>2. /\ tenant'.expires = tenant.expires
        /\ tenant'.plan = tenant.plan
        /\ tenant'.subscription = "EXPIRED"
    BY <1>3 DEF WriteExpired, TypeOK, TenantRow
  <2>3. RequestsKnowOrders'
    BY <1>3, <2>1 DEF WriteExpired, TypeOK, RequestsKnowOrders, At
  <2>4. OneInsertPerOrder'
    BY <2>1 DEF TypeOK, OneInsertPerOrder, At
  <2>5. /\ FinalizersLeaveTraces' /\ FinalizedTogetherIsSplit'
        /\ PaidMeansApplied' /\ ExpiryMatchesInvoice'
    BY <1>3, <1>0, <2>1, <2>2, BystanderStep DEF WriteExpired, At
  <2>6. GrantedHasExpiry' /\ GrantedWasCaptured'
    BY <1>3, <2>2 DEF WriteExpired, GrantedHasExpiry, GrantedWasCaptured
  <2>7. LockoutMeansLapse'
    <3>1. requests[r].until < now
      BY <1>3 DEF WriteExpired, RequestsKnowOrders, At
    <3>2. lockedOut' = (lockedOut \/ tenant.expires # requests[r].until) /\ now' = now
      BY <1>3 DEF WriteExpired
    <3>3. CASE tenant.expires = requests[r].until
      BY <2>2, <3>1, <3>2, <3>3 DEF LockoutMeansLapse
    <3>4. CASE tenant.expires # requests[r].until
      BY <3>2, <3>4 DEF LockoutMeansLapse
    <3> QED
      BY <3>3, <3>4
  <2> QED
    BY <1>3, <1>0, <2>3, <2>4, <2>5, <2>6, <2>7, Frame DEF WriteExpired
<1>4. ASSUME NEW r \in Requests, NEW p \in Plans, StartCheckout(r, p) PROVE IInv'
  <2> DEFINE f == [NoRequest EXCEPT !.step = "order", !.plan = p]
  <2>1. f \in Request /\ f.step = "order" /\ f.plan = p
    BY DEF NoRequest, Request
  <2>2. requests' = [requests EXCEPT ![r] = f]
    BY <1>4 DEF StartCheckout, Begin
  <2>3. RequestsKnowOrders'
    BY <1>4, <2>1, <2>2 DEF StartCheckout, TypeOK, RequestsKnowOrders, At
  <2>4. OneInsertPerOrder'
    BY <2>1, <2>2 DEF TypeOK, OneInsertPerOrder, At
  <2>5. /\ FinalizersLeaveTraces' /\ FinalizedTogetherIsSplit'
        /\ PaidMeansApplied' /\ ExpiryMatchesInvoice'
    BY <1>4, <2>1, <2>2, BystanderStep DEF StartCheckout, Begin, At
  <2> QED
    BY <1>4, <1>0, <2>3, <2>4, <2>5, Frame DEF StartCheckout
<1>5. ASSUME NEW r \in Requests, NEW o \in Orders, CreateOrder(r, o) PROVE IInv'
  <2> DEFINE f == [requests[r] EXCEPT !.step = "insert", !.order = o]
  <2>1. f \in Request /\ f.step = "insert" /\ f.order = o /\ f.plan = requests[r].plan
    BY <1>0 DEF Request
  <2>2. requests' = [requests EXCEPT ![r] = f]
    BY <1>5 DEF CreateOrder
  <2>3. ~invoices[o].row
    BY <1>5 DEF CreateOrder, InvoicesKnowOrders
  <2>4. RequestsKnowOrders'
    BY <1>5, <2>1, <2>2, <2>3 DEF CreateOrder, TypeOK, RequestsKnowOrders, At
  <2>5. OneInsertPerOrder'
    BY <1>5, <2>1, <2>2 DEF CreateOrder, TypeOK, OneInsertPerOrder, RequestsKnowOrders, At
  <2>6. InvoicesKnowOrders'
    BY <1>5 DEF CreateOrder, TypeOK, InvoicesKnowOrders
  <2>7. /\ FinalizersLeaveTraces' /\ FinalizedTogetherIsSplit'
        /\ PaidMeansApplied' /\ ExpiryMatchesInvoice'
    BY <1>5, <2>1, <2>2, BystanderStep DEF CreateOrder, At
  <2>8. GrantedWasCaptured' /\ CaptureAccountedFor'
    BY <1>5 DEF CreateOrder, TypeOK, GrantedWasCaptured, CaptureAccountedFor
  <2> QED
    BY <1>5, <1>0, <2>4, <2>5, <2>6, <2>7, <2>8, Frame DEF CreateOrder
<1>6. ASSUME NEW r \in Requests, OrderRefused(r) PROVE IInv'
  <2>1. requests' = [requests EXCEPT ![r] = NoRequest] /\ NoRequest.step = "none"
    BY <1>6 DEF OrderRefused, End, NoRequest
  <2>2. RequestsKnowOrders'
    BY <1>6, <2>1 DEF OrderRefused, TypeOK, RequestsKnowOrders, At
  <2>3. OneInsertPerOrder'
    BY <2>1 DEF TypeOK, OneInsertPerOrder, At
  <2>4. /\ FinalizersLeaveTraces' /\ FinalizedTogetherIsSplit'
        /\ PaidMeansApplied' /\ ExpiryMatchesInvoice'
    BY <1>6, <1>0, <2>1, BystanderStep DEF OrderRefused, At
  <2> QED
    BY <1>6, <1>0, <2>2, <2>3, <2>4, Frame DEF OrderRefused
<1>7. ASSUME NEW r \in Requests, InsertInvoice(r) PROVE IInv'
  <2> DEFINE o == requests[r].order
             i == [row |-> TRUE, plan |-> requests[r].plan, status |-> "PENDING", until |-> None]
  <2>1. o \in Orders /\ gateway[o] = "open" /\ ~invoices[o].row /\ requests[r].plan \in Plans
    BY <1>7 DEF InsertInvoice, RequestsKnowOrders, At
  <2>2. invoices' = [invoices EXCEPT ![o] = i] /\ UNCHANGED <<now, gateway, split, applied, granted, tenant>>
    BY <1>7 DEF InsertInvoice
  <2>3. \A p \in Orders : p # o => invoices'[p] = invoices[p]
    BY <2>2 DEF TypeOK
  <2>4. invoices'[o] = i
    BY <2>1, <2>2 DEF TypeOK
  <2>5. requests'[r].step = "none" /\ \A q \in Requests : q # r => requests'[q] = requests[q]
    BY <1>7 DEF InsertInvoice, End, NoRequest, TypeOK
  <2>6. \A q \in Requests : At(q, "insert") /\ q # r => requests[q].order # o
    BY <1>7 DEF InsertInvoice, OneInsertPerOrder, At
  <2>7. \A q \in Requests : requests[q].step \in {"lookup", "finalize"} => requests[q].order # o
    BY <2>1 DEF RequestsKnowOrders
  <2>8. RequestsKnowOrders'
    BY <2>2, <2>3, <2>5, <2>6, <2>7 DEF RequestsKnowOrders, At
  <2>9. OneInsertPerOrder' /\ FinalizedTogetherIsSplit'
    BY <2>2, <2>5 DEF OneInsertPerOrder, FinalizedTogetherIsSplit, At
  <2>10. InvoicesKnowOrders' /\ GrantedWasCaptured' /\ CaptureAccountedFor'
    BY <1>7, <2>1, <2>2, <2>3, <2>4
       DEF InsertInvoice, InvoicesKnowOrders, GrantedWasCaptured, CaptureAccountedFor, TypeOK
  <2>11. FinalizersLeaveTraces'
    BY <2>2, <2>3, <2>5, <2>7 DEF FinalizersLeaveTraces, RequestsKnowOrders, At
  <2>12. PaidMeansApplied'
    BY <1>7, <2>2, <2>3, <2>4, <2>5 DEF InsertInvoice, PaidMeansApplied, Finalizing, At
  <2>13. ExpiryMatchesInvoice'
    <3>1. granted # o
      BY <2>1, NoneAssumption DEF GrantedWasCaptured
    <3> QED
      BY <1>7, <3>1, <2>2, <2>3, <2>5
         DEF InsertInvoice, ExpiryMatchesInvoice, Finalizing, At, TypeOK
  <2> QED
    BY <1>7, <1>0, <2>8, <2>9, <2>10, <2>11, <2>12, <2>13, Frame DEF InsertInvoice
<1>8. ASSUME NEW o \in Orders, ClientPays(o) PROVE IInv'
  <2>1. RequestsKnowOrders'
    BY <1>8 DEF ClientPays, TypeOK, RequestsKnowOrders, At
  <2>2. InvoicesKnowOrders' /\ GrantedWasCaptured' /\ CaptureAccountedFor'
    BY <1>8 DEF ClientPays, TypeOK, InvoicesKnowOrders, GrantedWasCaptured, CaptureAccountedFor
  <2> QED
    BY <1>8, <1>0, <2>1, <2>2, Frame DEF ClientPays
<1>9. ASSUME NEW o \in Orders, IgnoreCaptured(o) PROVE IInv'
  <2>1. CaptureAccountedFor'
    BY <1>9 DEF IgnoreCaptured, CaptureAccountedFor
  <2> QED
    BY <1>9, <1>0, <2>1, Frame DEF IgnoreCaptured
<1>10. ASSUME NEW r \in Requests, NEW o \in Orders, VerifyPayment(r, o) \/ DeliverCaptured(r, o)
       PROVE IInv'
  <2>1. PICK f \in Request : /\ requests' = [requests EXCEPT ![r] = f]
                             /\ f.step = "lookup" /\ f.order = o /\ ~f.failed
    <3>1. /\ [NoRequest EXCEPT !.step = "lookup", !.order = o] \in Request
          /\ [NoRequest EXCEPT !.step = "lookup", !.order = o, !.hook = TRUE] \in Request
      BY DEF NoRequest, Request
    <3> QED
      BY <1>10, <3>1 DEF VerifyPayment, DeliverCaptured, Begin, NoRequest
  <2>2. At(r, "none") /\ gateway[o] = "captured" /\ UNCHANGED <<now, tables, provider, failures, observed>>
    BY <1>10 DEF VerifyPayment, DeliverCaptured, Begin
  <2>3. RequestsKnowOrders'
    BY <2>1, <2>2 DEF TypeOK, RequestsKnowOrders, At
  <2>4. OneInsertPerOrder'
    BY <2>1 DEF TypeOK, OneInsertPerOrder, At
  <2>5. /\ FinalizersLeaveTraces' /\ FinalizedTogetherIsSplit'
        /\ PaidMeansApplied' /\ ExpiryMatchesInvoice'
    BY <2>1, <2>2, BystanderStep DEF At
  <2> QED
    BY <1>0, <2>2, <2>3, <2>4, <2>5, Frame
<1>11. ASSUME NEW r \in Requests, AlreadyPaid(r) \/ Finish(r) PROVE IInv'
  <2>1. requests' = [requests EXCEPT ![r] = NoRequest] /\ NoRequest.step = "none"
    BY <1>11 DEF AlreadyPaid, Finish, End, NoRequest
  <2>2. At(r, "finalize") => requests[r].todo = {}
    BY <1>11 DEF AlreadyPaid, Finish, At
  <2>3. UNCHANGED <<now, tables, gateway, hooked, failures, observed>>
    BY <1>11 DEF AlreadyPaid, Finish
  <2>4. RequestsKnowOrders'
    BY <2>1, <2>3 DEF TypeOK, RequestsKnowOrders, At
  <2>5. OneInsertPerOrder'
    BY <2>1 DEF TypeOK, OneInsertPerOrder, At
  <2>6. /\ FinalizersLeaveTraces' /\ FinalizedTogetherIsSplit'
        /\ PaidMeansApplied' /\ ExpiryMatchesInvoice'
    BY <1>0, <2>1, <2>2, <2>3, BystanderStep
  <2>7. CaptureAccountedFor'
    <3>1. pending' = pending \/ invoices[requests[r].order].status = "PAID"
      BY <1>11 DEF AlreadyPaid, Finish, FinalizersLeaveTraces, At
    <3>2. pending \ {requests[r].order} \subseteq pending'
      BY <1>11 DEF AlreadyPaid, Finish, Acknowledge
    <3> QED
      BY <2>3, <3>1, <3>2 DEF CaptureAccountedFor
  <2> QED
    BY <1>0, <2>3, <2>4, <2>5, <2>6, <2>7, Frame
<1>12. ASSUME NEW r \in Requests, StartFinalize(r) PROVE IInv'
  <2> DEFINE o == requests[r].order
             f == [requests[r] EXCEPT !.step = "finalize", !.plan = invoices[o].plan,
                     !.until = now + Cycle[invoices[o].plan], !.todo = Statements]
  <2>1. /\ o \in Orders /\ gateway[o] = "captured" /\ ~requests[r].failed
        /\ At(r, "lookup") /\ invoices[o].status # "PAID"
    BY <1>12 DEF StartFinalize, RequestsKnowOrders, At
  <2>2. now + Cycle[invoices[o].plan] \in Nat
    BY <2>1, CycleAssumption, BoundAssumption DEF InvoicesKnowOrders, TypeOK
  <2>3. /\ f.step = "finalize" /\ f.order = o /\ f.plan = invoices[o].plan
        /\ f.until \in Nat /\ f.todo = Statements /\ f.failed = requests[r].failed
    BY <1>0, <2>2 DEF Request
  <2>4. requests' = [requests EXCEPT ![r] = f]
    BY <1>12 DEF StartFinalize
  <2>5. requests'[r] = f /\ \A q \in Requests : q # r => requests'[q] = requests[q]
    BY <2>4 DEF TypeOK
  <2>6. /\ UNCHANGED <<now, tables, provider, granted, applied, lockedOut>>
        /\ split \subseteq split'
        /\ Finalizing(o) # {} => o \in split'
    BY <1>12 DEF StartFinalize
  <2> HIDE DEF f
  <2>7. RequestsKnowOrders'
    BY <2>1, <2>3, <2>5, <2>6 DEF RequestsKnowOrders, At
  <2>8. OneInsertPerOrder'
    BY <2>3, <2>5 DEF OneInsertPerOrder, At
  <2>9. FinalizersLeaveTraces'
    BY <2>1, <2>3, <2>5, <2>6 DEF FinalizersLeaveTraces, Statements, At
  <2>10. FinalizedTogetherIsSplit'
    BY <2>3, <2>5, <2>6 DEF FinalizedTogetherIsSplit, Finalizing, At
  <2>11. PaidMeansApplied'
    BY <2>1, <2>5, <2>6 DEF PaidMeansApplied, Finalizing, At
  <2>12. ExpiryMatchesInvoice'
    BY <2>1, <2>5, <2>6 DEF ExpiryMatchesInvoice, Finalizing, At
  <2> QED
    BY <1>0, <2>6, <2>7, <2>8, <2>9, <2>10, <2>11, <2>12, Frame
<1>13. ASSUME NEW r \in Requests, MarkPaid(r) PROVE IInv'
  <2> DEFINE o == requests[r].order
  <2>1. /\ o \in Orders /\ gateway[o] = "captured" /\ requests[r].until \in Nat
        /\ At(r, "finalize") /\ "invoice" \in requests[r].todo
    BY <1>13 DEF MarkPaid, Sent, RequestsKnowOrders, At
  <2>2. /\ UNCHANGED <<now, tenant, provider, failures, observed>>
        /\ invoices' = [invoices EXCEPT ![o] = [@ EXCEPT !.status = "PAID", !.until = requests[r].until]]
        /\ requests' = [requests EXCEPT ![r].todo = @ \ {"invoice"}]
    BY <1>13 DEF MarkPaid, Done
  <2>3. \A p \in Orders : p # o => invoices'[p] = invoices[p]
    BY <2>2 DEF TypeOK
  <2>4. /\ invoices'[o].status = "PAID" /\ invoices'[o].until = requests[r].until
        /\ invoices'[o].row = invoices[o].row /\ invoices'[o].plan = invoices[o].plan
    BY <2>1, <2>2 DEF TypeOK, InvoiceRow
  <2>5. \A q \in Requests : q # r => requests'[q] = requests[q]
    BY <2>2 DEF TypeOK
  <2>6. /\ requests'[r].todo = requests[r].todo \ {"invoice"}
        /\ requests'[r].step = requests[r].step /\ requests'[r].order = o
        /\ requests'[r].plan = requests[r].plan /\ requests'[r].until = requests[r].until
        /\ requests'[r].failed = requests[r].failed
    BY <1>0, <2>2 DEF TypeOK, Request
  <2>7. \A q \in Requests : At(q, "finalize") /\ requests[q].order = o /\ o \notin split => q = r
    BY <2>1 DEF FinalizedTogetherIsSplit
  <2>8. RequestsKnowOrders'
    BY <2>1, <2>2, <2>3, <2>4, <2>5, <2>6 DEF RequestsKnowOrders, At
  <2>9. OneInsertPerOrder' /\ FinalizedTogetherIsSplit'
    BY <2>2, <2>5, <2>6 DEF OneInsertPerOrder, FinalizedTogetherIsSplit, At
  <2>10. InvoicesKnowOrders' /\ GrantedWasCaptured' /\ CaptureAccountedFor'
    BY <2>1, <2>2, <2>3, <2>4
       DEF InvoicesKnowOrders, GrantedWasCaptured, CaptureAccountedFor, TypeOK, provider, observed
  <2>11. FinalizersLeaveTraces'
    BY <2>1, <2>2, <2>3, <2>4, <2>5, <2>6, <2>7 DEF FinalizersLeaveTraces, RequestsKnowOrders, At
  <2>12. PaidMeansApplied'
    BY <2>1, <2>2, <2>3, <2>5, <2>6 DEF PaidMeansApplied, FinalizersLeaveTraces, Finalizing, At
  <2>13. ExpiryMatchesInvoice'
    BY <2>1, <2>2, <2>3, <2>4, <2>5, <2>6, <2>7
       DEF ExpiryMatchesInvoice, FinalizersLeaveTraces, Finalizing, At, TypeOK
  <2> QED
    BY <1>0, <2>2, <2>8, <2>9, <2>10, <2>11, <2>12, <2>13, Frame
<1>14. ASSUME NEW r \in Requests, ApplyPlan(r) PROVE IInv'
  <2> DEFINE o == requests[r].order
  <2>1. /\ o \in Orders /\ gateway[o] = "captured" /\ requests[r].until \in Nat
        /\ requests[r].plan = invoices[o].plan
        /\ At(r, "finalize") /\ "tenant" \in requests[r].todo
    BY <1>14 DEF ApplyPlan, Sent, RequestsKnowOrders, At
  <2>2. /\ UNCHANGED <<now, invoices, provider, failures, split, lockedOut>>
        /\ granted' = o /\ applied' = applied \union {o}
        /\ requests' = [requests EXCEPT ![r].todo = @ \ {"tenant"}]
    BY <1>14 DEF ApplyPlan, Done
  <2>3. /\ tenant'.plan = requests[r].plan /\ tenant'.subscription = "ACTIVE"
        /\ tenant'.expires = requests[r].until
    BY <1>14 DEF ApplyPlan, TypeOK, TenantRow
  <2>4. \A q \in Requests : q # r => requests'[q] = requests[q]
    BY <2>2 DEF TypeOK
  <2>5. /\ requests'[r].todo = requests[r].todo \ {"tenant"}
        /\ requests'[r].step = requests[r].step /\ requests'[r].order = o
        /\ requests'[r].plan = requests[r].plan /\ requests'[r].until = requests[r].until
        /\ requests'[r].failed = requests[r].failed
    BY <1>0, <2>2 DEF TypeOK, Request
  <2>6. RequestsKnowOrders'
    BY <2>2, <2>4, <2>5 DEF RequestsKnowOrders, At
  <2>7. OneInsertPerOrder' /\ FinalizedTogetherIsSplit'
    BY <2>2, <2>4, <2>5 DEF OneInsertPerOrder, FinalizedTogetherIsSplit, At
  <2>8. FinalizersLeaveTraces'
    BY <2>1, <2>2, <2>4, <2>5 DEF FinalizersLeaveTraces, At
  <2>9. GrantedHasExpiry' /\ GrantedWasCaptured' /\ LockoutMeansLapse'
    BY <2>1, <2>2, <2>3 DEF GrantedHasExpiry, GrantedWasCaptured, LockoutMeansLapse
  <2>10. PaidMeansApplied'
    BY <2>1, <2>2, <2>4, <2>5 DEF PaidMeansApplied, Finalizing, At
  <2>11. ExpiryMatchesInvoice'
    BY <2>1, <2>2, <2>3, <2>5 DEF ExpiryMatchesInvoice, FinalizersLeaveTraces, Finalizing, At
  <2> QED
    BY <1>0, <2>2, <2>6, <2>7, <2>8, <2>9, <2>10, <2>11, Frame
<1>15. ASSUME NEW r \in Requests, NEW s \in Statements, StatementFails(r, s) PROVE IInv'
  <2> DEFINE o == requests[r].order
  <2>1. At(r, "finalize") /\ o \in Orders
    BY <1>15 DEF StatementFails, Sent, RequestsKnowOrders, At
  <2>2. /\ UNCHANGED <<now, tables, provider, granted, applied, lockedOut>>
        /\ split' = split \union {o}
    BY <1>15 DEF StatementFails
  <2>3. \A q \in Requests : q # r => requests'[q] = requests[q]
    BY <1>15 DEF StatementFails, TypeOK
  <2>4. /\ requests'[r].step = requests[r].step /\ requests'[r].order = o
        /\ requests'[r].plan = requests[r].plan /\ requests'[r].until = requests[r].until
        /\ requests'[r].failed = TRUE
    BY <1>0, <1>15 DEF StatementFails, TypeOK, Request
  <2>5. RequestsKnowOrders'
    BY <2>1, <2>2, <2>3, <2>4 DEF RequestsKnowOrders, At
  <2>6. OneInsertPerOrder' /\ FinalizedTogetherIsSplit'
    BY <2>2, <2>3, <2>4 DEF OneInsertPerOrder, FinalizedTogetherIsSplit, At
  <2>7. FinalizersLeaveTraces'
    BY <2>2, <2>3, <2>4 DEF FinalizersLeaveTraces, At
  <2>8. PaidMeansApplied' /\ ExpiryMatchesInvoice'
    BY <2>2, <2>3 DEF PaidMeansApplied, ExpiryMatchesInvoice, Finalizing, At
  <2> QED
    BY <1>0, <2>2, <2>5, <2>6, <2>7, <2>8, Frame
<1>16. ASSUME NEW r \in Requests, Crash(r) PROVE IInv'
  <2>1. requests' = [requests EXCEPT ![r] = NoRequest] /\ NoRequest.step = "none"
    BY <1>16 DEF Crash, End, NoRequest
  <2>2. /\ UNCHANGED <<now, tables, provider, granted, applied, lockedOut>>
        /\ split \subseteq split'
        /\ At(r, "finalize") /\ requests[r].todo # {} => requests[r].order \in split'
    BY <1>16 DEF Crash
  <2>3. RequestsKnowOrders'
    BY <2>1, <2>2 DEF TypeOK, RequestsKnowOrders, At
  <2>4. OneInsertPerOrder'
    BY <2>1 DEF TypeOK, OneInsertPerOrder, At
  <2>5. /\ FinalizersLeaveTraces' /\ FinalizedTogetherIsSplit'
        /\ PaidMeansApplied' /\ ExpiryMatchesInvoice'
    BY <1>0, <2>1, <2>2, BystanderStep
  <2> QED
    BY <1>0, <2>2, <2>3, <2>4, <2>5, Frame
<1>17. ASSUME NEW s \in Subscriptions, NEW e \in {None, now, tenant.expires}, UpdateLimits(s, e)
       PROVE IInv'
  <2>1. /\ GrantedHasExpiry' /\ GrantedWasCaptured' /\ ExpiryMatchesInvoice' /\ LockoutMeansLapse'
    BY <1>17 DEF UpdateLimits, GrantedHasExpiry, GrantedWasCaptured, ExpiryMatchesInvoice,
                 LockoutMeansLapse
  <2> QED
    BY <1>17, <1>0, <2>1, Frame DEF UpdateLimits
<1>18. CASE UNCHANGED vars
  BY <1>18, <1>0, Frame DEF vars
<1> QED
  BY <1>1, <1>2, <1>3, <1>4, <1>5, <1>6, <1>7, <1>8, <1>9, <1>10, <1>11, <1>12, <1>13, <1>14,
     <1>15, <1>16, <1>17, <1>18
     DEF Next, Handle

(* What requests in flight know keeps invoice, tenant and gateway together:   *)
(* the invariant of billing and tenant gate.                                 *)
THEOREM InvariantCorrect == Spec => []IInv
<1> QED
  BY InvariantHoldsInitially, StepKeepsInvariant, PTL DEF Spec

(* Tables, requests and the gateway's view keep their types. *)
THEOREM TypeCorrect == Spec => []TypeOK
<1>1. IInv => TypeOK
  BY DEF IInv
<1> QED
  BY InvariantCorrect, <1>1, PTL

(* No tenant has a bought plan without a captured payment of it. *)
THEOREM NoPlanUnpaid == Spec => []GrantedWasCaptured
<1>1. IInv => GrantedWasCaptured
  BY DEF IInv
<1> QED
  BY InvariantCorrect, <1>1, PTL

(* A captured order is PAID or still announced, or events are ignored. *)
THEOREM NoCaptureForgotten == Spec => []CaptureAccountedFor
<1>1. IInv => CaptureAccountedFor
  BY DEF IInv
<1> QED
  BY InvariantCorrect, <1>1, PTL

(* A PAID invoice has given the tenant its plan, unless finalizePayment's two *)
(* statements were cut apart or crossed another request's.                   *)
THEOREM PaidInvoicesApply == Spec => []PaidMeansApplied
<1>1. IInv => PaidMeansApplied
  BY DEF IInv
<1> QED
  BY InvariantCorrect, <1>1, PTL

(* The tenant's period is the one its invoice records, with the same          *)
(* exceptions.                                                               *)
THEOREM PeriodsAgree == Spec => []ExpiryMatchesInvoice
<1>1. IInv => ExpiryMatchesInvoice
  BY DEF IInv
<1> QED
  BY InvariantCorrect, <1>1, PTL

(* Only a lapse noticed before a payment locks out a tenant that has paid. *)
THEOREM LockoutsExplained == Spec => []LockoutMeansLapse
<1>1. IInv => LockoutMeansLapse
  BY DEF IInv
<1> QED
  BY InvariantCorrect, <1>1, PTL
-----------------------------------------------------------------------------
(* Refinement: what a request does to an order is a step of GatewayCollection. *)

abstract == <<Stage, Target, Settled>>

LEMMA CollectionInit == Init => Collection!Init
  BY DEF Init, Collection!Init, Stage, Target, Settled, NoInvoice

(* Everything but CreateOrder, InsertInvoice, ClientPays and MarkPaid stutters. *)
LEMMA StutterSteps ==
  ASSUME UNCHANGED <<invoices, gateway>>
  PROVE  UNCHANGED abstract
  BY DEF abstract, Stage, Target, Settled

LEMMA CheckoutRefines ==
  ASSUME IInv, NEW r \in Requests, NEW o \in Orders, CreateOrder(r, o)
  PROVE  [Collection!Next]_abstract
<1>1. invoices[o].status # "PAID"
  BY DEF CreateOrder, IInv, InvoicesKnowOrders
<1>2. Stage[o] = "unissued" /\ Stage' = [Stage EXCEPT ![o] = "open"]
  BY <1>1 DEF CreateOrder, Stage, IInv, TypeOK, tables
<1>3. Target' = Target /\ Settled' = Settled
  BY DEF CreateOrder, Target, Settled, tables
<1> QED
  BY <1>2, <1>3 DEF Collection!Issue, Collection!Next

LEMMA InsertRefines ==
  ASSUME IInv, NEW r \in Requests, InsertInvoice(r)
  PROVE  [Collection!Next]_abstract
<1> DEFINE o == requests[r].order
<1>1. /\ o \in Orders
      /\ gateway[o] = "open"
      /\ ~invoices[o].row
  BY DEF InsertInvoice, IInv, RequestsKnowOrders
<1>2. invoices[o].status # "PAID"
  BY <1>1 DEF IInv, InvoicesKnowOrders
<1>3. /\ gateway' = gateway
      /\ invoices'[o].row /\ invoices'[o].status = "PENDING"
      /\ \A q \in Orders : q # o => invoices'[q] = invoices[q]
  BY <1>1 DEF InsertInvoice, IInv, TypeOK, provider
<1>4. Stage' = Stage /\ Settled' = Settled
  BY <1>1, <1>2, <1>3 DEF Stage, Settled
<1>5. Target[o] = None /\ Target' = [Target EXCEPT ![o] = o]
  BY <1>1, <1>3 DEF Target
<1>6. Stage[o] = "open"
  BY <1>1, <1>2 DEF Stage
<1>7. Collection!Save(o, o)
  BY <1>4, <1>5, <1>6 DEF Collection!Save
<1> QED
  BY <1>1, <1>7 DEF Collection!Next

LEMMA PaymentRefines ==
  ASSUME IInv, NEW o \in Orders, ClientPays(o)
  PROVE  [Collection!Next]_abstract
<1>1. invoices[o].status # "PAID"
  BY DEF ClientPays, IInv, InvoicesKnowOrders
<1>2. Stage[o] = "open" /\ Stage' = [Stage EXCEPT ![o] = "captured"]
  BY <1>1 DEF ClientPays, Stage, IInv, TypeOK, tables
<1>3. Target' = Target /\ Settled' = Settled
  BY DEF ClientPays, Target, Settled, tables
<1> QED
  BY <1>2, <1>3 DEF Collection!Capture, Collection!Next

(* The first of the requests that finalize an order books it; those after it *)
(* write what is there.                                                      *)
LEMMA MarkPaidRefines ==
  ASSUME IInv, NEW r \in Requests, MarkPaid(r)
  PROVE  [Collection!Next]_abstract
<1> DEFINE o == requests[r].order
<1>1. /\ o \in Orders
      /\ gateway[o] = "captured"
      /\ invoices[o].row
  BY DEF MarkPaid, Sent, At, IInv, RequestsKnowOrders, InvoicesKnowOrders
<1>2. /\ gateway' = gateway
      /\ invoices'[o].status = "PAID" /\ invoices'[o].row = invoices[o].row
      /\ \A q \in Orders : q # o => invoices'[q] = invoices[q]
  BY <1>1 DEF MarkPaid, IInv, TypeOK, InvoiceRow, provider
<1>3. Target' = Target
  BY <1>1, <1>2 DEF Target
<1>4. Settled' = Settled \union {o}
  BY <1>1, <1>2 DEF Settled
<1>5. CASE invoices[o].status = "PAID"
  <2>1. Stage' = Stage
    BY <1>1, <1>2, <1>5 DEF Stage
  <2>2. Settled' = Settled
    BY <1>1, <1>4, <1>5 DEF Settled
  <2> QED
    BY <1>3, <2>1, <2>2 DEF abstract
<1>6. CASE invoices[o].status # "PAID"
  <2>1. Stage[o] = "captured" /\ Stage' = [Stage EXCEPT ![o] = "booked"]
    BY <1>1, <1>2, <1>6 DEF Stage
  <2>2. Target[o] = o /\ o # None
    BY <1>1, NoneAssumption DEF Target
  <2>3. Collection!Book(o)
    BY <1>3, <1>4, <2>1, <2>2 DEF Collection!Book
  <2> QED
    BY <1>1, <2>3 DEF Collection!Next
<1> QED
  BY <1>5, <1>6

LEMMA StepRefines == IInv /\ [Next]_vars => [Collection!Next]_abstract
<1> SUFFICES ASSUME IInv, [Next]_vars PROVE [Collection!Next]_abstract
  OBVIOUS
<1>1. ASSUME NEW r \in Requests, Handle(r) PROVE [Collection!Next]_abstract
  <2>1. CASE WriteExpired(r) \/ OrderRefused(r) \/ AlreadyPaid(r) \/ StartFinalize(r)
             \/ ApplyPlan(r) \/ Finish(r)
    BY <2>1, StutterSteps DEF WriteExpired, OrderRefused, AlreadyPaid, StartFinalize,
          ApplyPlan, Finish, tables, provider
  <2> QED
    BY <1>1, <2>1, CheckoutRefines, InsertRefines, MarkPaidRefines DEF Handle
<1>2. ASSUME NEW o \in Orders, ClientPays(o) PROVE [Collection!Next]_abstract
  BY <1>2, PaymentRefines
<1>3. ASSUME NEW r \in Requests,
             \/ NoticeLapse(r)
             \/ \E p \in Plans : StartCheckout(r, p)
             \/ \E o \in Orders : VerifyPayment(r, o) \/ DeliverCaptured(r, o)
             \/ \E s \in Statements : StatementFails(r, s)
             \/ Crash(r)
      PROVE  [Collection!Next]_abstract
  BY <1>3, StutterSteps DEF NoticeLapse, StartCheckout, VerifyPayment, DeliverCaptured,
        StatementFails, Crash, tables, provider
<1>4. CASE \/ NextDay
           \/ \E o \in Orders : IgnoreCaptured(o)
           \/ \E s \in Subscriptions, e \in {None, now, tenant.expires} : UpdateLimits(s, e)
           \/ UNCHANGED vars
  BY <1>4, StutterSteps DEF NextDay, IgnoreCaptured, UpdateLimits, vars, tables, provider
<1> QED
  BY <1>1, <1>2, <1>3, <1>4 DEF Next

(* Checkout, confirmation, webhook, failed statements and crashes implement   *)
(* the abstract collection: however many requests finalize an order, its      *)
(* money is booked once, after the capture, and never unbooked.               *)
THEOREM CollectionImplemented == Spec => ImplementsCollection
<1>1. IInv /\ [Next]_vars => [Collection!Next]_<<Stage, Target, Settled>>
  BY StepRefines DEF abstract
<1> QED
  BY CollectionInit, <1>1, InvariantCorrect, PTL DEF Spec, ImplementsCollection, Collection!Spec
=============================================================================
