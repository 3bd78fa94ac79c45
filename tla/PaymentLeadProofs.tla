------------------------- MODULE PaymentLeadProofs --------------------------
(***************************************************************************)
(* Theorems about ClientPayments, for every set of invoices, links,        *)
(* payments and numbers and any number of deliveries and crashes, and      *)
(* about LeadPipeline, whose leads become the clients that pay, for any    *)
(* number of requests.  The two share no state and no definition.          *)
(***************************************************************************)
EXTENDS ClientPayments, LeadPipeline, TLAPS

(* ClientPayments                                                          *)

(* The inductive invariant: what a request in flight has already made sure   *)
(* of, and how the tables hang together.                                     *)

(* A request that got past an await still stands on what it found there;     *)
(* the gateway knows a link exactly when CallProvider has run for it.        *)
RequestsStandOnInvoices ==
    \A l \in Links :
        /\ generating[l].pc \in {"settings", "call", "persist"} =>
               /\ generating[l].invoice \in Invoices
               /\ invoices[generating[l].invoice].row # "absent"
               /\ ~links[l].row
        /\ generating[l].pc \in {"idle", "settings", "call"} => provider[l] = "unissued"
        /\ generating[l].pc = "persist" => provider[l] # "unissued"
        /\ generating[l].pc = "idle" => ~links[l].row

LinksStandOnInvoices ==
    \A l \in Links :
        IF links[l].row
        THEN /\ provider[l] # "unissued"
             /\ links[l].invoice \in Invoices
             /\ invoices[links[l].invoice].row # "absent"
        ELSE links[l].status = "CREATED" /\ links[l].invoice = None

(* What a delivery at each await may rely on.  Only seen = "PAID" can be     *)
(* relied on later: seen = "CREATED" may be stale.                           *)
DeliveriesStandOnLinks ==
    \A d \in Deliveries :
        /\ hooks[d].event = "paid" => provider[LinkOf(d)] = "captured"
        /\ hooks[d].pc \in {"verify", "commit", "respond"} => links[LinkOf(d)].row
        /\ hooks[d].pc = "verify" /\ hooks[d].seen = "PAID" => links[LinkOf(d)].status = "PAID"
        /\ hooks[d].pc \in {"commit", "respond"} => hooks[d].event = "paid"
        /\ hooks[d].pc = "respond" => links[LinkOf(d)].status = "PAID"

UniqueNumbers ==
    \A p, q \in Payments :
        /\ payments[p].row # "absent"
        /\ payments[q].row # "absent"
        /\ payments[p].number = payments[q].number
        => p = q

(* A booked payment keeps the gateway's number until staff type another. *)
BookedRowsAreNumbered ==
    \A p \in Payments : bookedFor[p] # None =>
        /\ payments[p].row # "absent"
        /\ payments[p].number \in Typed \union {GatewayNumber(bookedFor[p])}

IInv ==
    /\ TypeOK
    /\ RequestsStandOnInvoices
    /\ LinksStandOnInvoices
    /\ DeliveriesStandOnLinks
    /\ UniqueNumbers
    /\ BookedRowsAreNumbered
    /\ PaidLinkIsBooked
    /\ LinkAndInvoiceAgree
    /\ CaptureAccountedFor
    /\ CompletedMeansBooked

-----------------------------------------------------------------------------

(* Every delivery is of an event of one link. *)
LEMMA DeliveryOfLink == ASSUME NEW d \in Deliveries PROVE LinkOf(d) \in Links
  BY DEF Deliveries, LinkOf

LEMMA InitialTypes == Init => TypeOK
  BY NoneAssumption, CrashAssumption
     DEF Init, TypeOK, InvoiceRow, PaymentRow, LinkRow, LinkRequest, Delivery, RowStates,
         SettingStates, NoInvoice, NoPayment, NoLink, NoRequest, NoDelivery

(* One step per action; Commit, which writes most, one step per variable. *)
LEMMA StepKeepsTypes == TypeOK /\ [Next]_vars => TypeOK'
<1> SUFFICES ASSUME TypeOK, [Next]_vars PROVE TypeOK'
  OBVIOUS
<1> USE DEF TypeOK
<1>1. ASSUME NEW i \in Invoices, CreateInvoice(i) \/ DeleteInvoice(i) PROVE TypeOK'
  BY <1>1 DEF CreateInvoice, DeleteInvoice, InvoiceRow, RowStates, observed
<1>2. ASSUME NEW p \in Payments, NEW n \in Typed, NEW i \in Invoices \union {None},
             CreatePayment(p, n, i)
      PROVE TypeOK'
  BY <1>2 DEF CreatePayment, Numbers, PaymentRow, RowStates, observed
<1>3. ASSUME NEW p \in Payments, NEW n \in Numbers, NEW i \in Invoices \union {None},
             UpdatePayment(p, n, i)
      PROVE TypeOK'
  BY <1>3 DEF UpdatePayment, Numbers, PaymentRow, observed
<1>4. ASSUME NEW p \in Payments, DeletePayment(p) PROVE TypeOK'
  BY <1>4 DEF DeletePayment, PaymentRow, RowStates, observed
<1>5. ASSUME NEW s \in SettingStates, UpdateSettings(s) PROVE TypeOK'
  BY <1>5 DEF UpdateSettings, observed
<1>6. ASSUME NEW l \in Links, NEW i \in Invoices, ReadInvoice(l, i) PROVE TypeOK'
  BY <1>6 DEF ReadInvoice, LinkRequest, tables, observed
<1>7. ASSUME NEW l \in Links, ReadSettings(l) \/ CallFails(l) \/ PersistFails(l) PROVE TypeOK'
  BY <1>7 DEF ReadSettings, CallFails, PersistFails, EndRequest, LinkRequest, tables, observed
<1>8. ASSUME NEW l \in Links, CallProvider(l) PROVE TypeOK'
  BY <1>8 DEF CallProvider, LinkRequest, tables, observed
<1>9. ASSUME NEW l \in Links, PersistLink(l) PROVE TypeOK'
  BY <1>9 DEF PersistLink, EndRequest, LinkRequest, LinkRow, observed
<1>10. ASSUME NEW l \in Links, ClientPays(l) PROVE TypeOK'
  BY <1>10 DEF ClientPays, tables, observed
<1>11. ASSUME NEW d \in Deliveries, NEW e \in {"paid", "other"}, Deliver(d, e) PROVE TypeOK'
  BY <1>11 DEF Deliver, Delivery, tables, observed
<1>12. ASSUME NEW d \in Deliveries, LookupLink(d) PROVE TypeOK'
  BY <1>12, DeliveryOfLink DEF LookupLink, Delivery, LinkRow, tables, observed
<1>13. ASSUME NEW d \in Deliveries, UnknownLink(d) PROVE TypeOK'
  BY <1>13, DeliveryOfLink
     DEF UnknownLink, Acknowledge, Answer, NoDelivery, Delivery, tables, observed
<1>14. ASSUME NEW d \in Deliveries, IgnoreEvent(d) \/ Respond(d) PROVE TypeOK'
  BY <1>14 DEF IgnoreEvent, Respond, Acknowledge, Answer, NoDelivery, Delivery, tables, observed
<1>15. ASSUME NEW d \in Deliveries, RejectSignature(d) \/ AcceptEvent(d) \/ CommitConflict(d)
       PROVE TypeOK'
  BY <1>15 DEF RejectSignature, AcceptEvent, CommitConflict, Answer, NoDelivery, Delivery,
               tables, observed
<1>16. ASSUME NEW d \in Deliveries, NEW p \in Payments, Commit(d, p) PROVE TypeOK'
  <2>1. GatewayNumber(LinkOf(d)) \in Numbers /\ LinkOf(d) \in Links
    BY DeliveryOfLink DEF Numbers
  <2>2. invoices' \in [Invoices -> InvoiceRow]
    BY <1>16, <2>1 DEF Commit, SettleInvoice, InvoiceRow, RowStates
  <2>3. payments' \in [Payments -> PaymentRow]
    BY <1>16, <2>1 DEF Commit, PaymentRow, LinkRow, RowStates
  <2>4. links' \in [Links -> LinkRow]
    BY <1>16, <2>1 DEF Commit, LinkRow
  <2>5. hooks' \in [Deliveries -> Delivery] /\ bookedFor' \in [Payments -> Links \union {None}]
    BY <1>16, <2>1 DEF Commit, Delivery
  <2> QED
    BY <1>16, <2>2, <2>3, <2>4, <2>5 DEF Commit
<1>17. ASSUME NEW d \in Deliveries, Crash(d) PROVE TypeOK'
  BY <1>17, CrashAssumption DEF Crash, Answer, NoDelivery, Delivery, tables, observed
<1>18. CASE UNCHANGED vars
  BY <1>18 DEF vars
<1> QED
  BY <1>1, <1>2, <1>3, <1>4, <1>5, <1>6, <1>7, <1>8, <1>9, <1>10, <1>11, <1>12, <1>13, <1>14,
     <1>15, <1>16, <1>17, <1>18
     DEF Next, Staff, Generate, Handle

(* The tables and requests keep their types: a status is only ever one of    *)
(* the values the code writes.                                               *)
THEOREM TypeCorrect == Spec => []TypeOK
  BY InitialTypes, StepKeepsTypes, PTL DEF Spec

(* A step that leaves the variables of a conjunct alone leaves the conjunct true. *)
LEMMA Frame ==
    /\ RequestsStandOnInvoices /\ UNCHANGED <<generating, invoices, links, provider>>
          => RequestsStandOnInvoices'
    /\ LinksStandOnInvoices /\ UNCHANGED <<links, provider, invoices>>
          => LinksStandOnInvoices'
    /\ DeliveriesStandOnLinks /\ UNCHANGED <<hooks, provider, links>>
          => DeliveriesStandOnLinks'
    /\ UniqueNumbers /\ UNCHANGED <<payments>>
          => UniqueNumbers'
    /\ BookedRowsAreNumbered /\ UNCHANGED <<bookedFor, payments>>
          => BookedRowsAreNumbered'
    /\ PaidLinkIsBooked /\ UNCHANGED <<links, provider, payments, bookedFor>>
          => PaidLinkIsBooked'
    /\ LinkAndInvoiceAgree /\ UNCHANGED <<links, invoices>>
          => LinkAndInvoiceAgree'
    /\ CaptureAccountedFor /\ UNCHANGED <<provider, links, pending, unmatched>>
          => CaptureAccountedFor'
    /\ CompletedMeansBooked /\ UNCHANGED <<payments, bookedFor>>
          => CompletedMeansBooked'
  BY DEF RequestsStandOnInvoices, LinksStandOnInvoices, DeliveriesStandOnLinks,
       UniqueNumbers, BookedRowsAreNumbered, PaidLinkIsBooked, LinkAndInvoiceAgree,
       CaptureAccountedFor, CompletedMeansBooked

LEMMA InvariantHoldsInitially == Init => IInv
  BY InitialTypes, NoneAssumption
     DEF Init, IInv, RequestsStandOnInvoices, LinksStandOnInvoices, DeliveriesStandOnLinks,
         UniqueNumbers, BookedRowsAreNumbered, PaidLinkIsBooked, LinkAndInvoiceAgree,
         CaptureAccountedFor, CompletedMeansBooked, NoInvoice, NoPayment, NoLink, NoRequest,
         NoDelivery

(* One step per action of Next, and under it one per conjunct it can disturb. *)
LEMMA StepKeepsInvariant == IInv /\ [Next]_vars => IInv'
<1> SUFFICES ASSUME IInv, [Next]_vars PROVE IInv'
  OBVIOUS
<1>t. TypeOK'
  BY StepKeepsTypes DEF IInv
<1>1. ASSUME NEW i \in Invoices, CreateInvoice(i) PROVE IInv'
  <2>1. RequestsStandOnInvoices'
    BY <1>1, <1>t DEF CreateInvoice, IInv, TypeOK, InvoiceRow,
         RequestsStandOnInvoices, observed
  <2>2. LinksStandOnInvoices'
    BY <1>1, <1>t DEF CreateInvoice, IInv, TypeOK, InvoiceRow, LinksStandOnInvoices,
         observed
  <2>3. LinkAndInvoiceAgree'
    BY <1>1, <1>t DEF CreateInvoice, IInv, TypeOK, InvoiceRow, RowStates,
         LinkAndInvoiceAgree, LinksStandOnInvoices, observed
  <2> QED BY <1>1, <1>t, <2>1, <2>2, <2>3, Frame DEF CreateInvoice, IInv, observed
<1>2. ASSUME NEW i \in Invoices, DeleteInvoice(i) PROVE IInv'
  <2>1. RequestsStandOnInvoices'
    BY <1>2, <1>t DEF DeleteInvoice, IInv, TypeOK, InvoiceRow,
         RequestsStandOnInvoices, observed
  <2>2. LinksStandOnInvoices'
    BY <1>2, <1>t DEF DeleteInvoice, IInv, TypeOK, InvoiceRow, LinksStandOnInvoices,
         observed
  <2>3. LinkAndInvoiceAgree'
    BY <1>2, <1>t DEF DeleteInvoice, IInv, TypeOK, InvoiceRow, LinkAndInvoiceAgree,
         observed
  <2> QED BY <1>2, <1>t, <2>1, <2>2, <2>3, Frame DEF DeleteInvoice, IInv, observed
<1>3. ASSUME NEW p \in Payments, NEW n \in Typed, NEW i \in Invoices \union {None},
     CreatePayment(p, n, i) PROVE IInv'
  <2>1. UniqueNumbers'
    BY <1>3, <1>t DEF CreatePayment, NumberFree, IInv, TypeOK, PaymentRow,
         UniqueNumbers, observed
  <2>2. BookedRowsAreNumbered'
    BY <1>3, <1>t DEF CreatePayment, NumberFree, IInv, TypeOK, PaymentRow,
         BookedRowsAreNumbered, observed
  <2>3. PaidLinkIsBooked'
    BY <1>3, <1>t DEF CreatePayment, NumberFree, IInv, TypeOK, PaymentRow,
         PaidLinkIsBooked, observed
  <2>4. CompletedMeansBooked'
    BY <1>3, <1>t DEF CreatePayment, NumberFree, IInv, TypeOK, PaymentRow,
         CompletedMeansBooked, BookedRowsAreNumbered, observed
  <2> QED BY <1>3, <1>t, <2>1, <2>2, <2>3, <2>4, Frame DEF CreatePayment, IInv,
       observed
<1>4. ASSUME NEW p \in Payments, NEW n \in Numbers, NEW i \in Invoices \union {None},
     n \in Typed \/ n = payments[p].number, UpdatePayment(p, n, i) PROVE IInv'
  <2>1. UniqueNumbers'
    BY <1>4, <1>t DEF UpdatePayment, NumberFree, IInv, TypeOK, PaymentRow,
         UniqueNumbers, observed
  <2>2. BookedRowsAreNumbered'
    BY <1>4, <1>t DEF UpdatePayment, NumberFree, IInv, TypeOK, PaymentRow,
         BookedRowsAreNumbered, observed
  <2>3. PaidLinkIsBooked'
    BY <1>4, <1>t DEF UpdatePayment, NumberFree, IInv, TypeOK, PaymentRow,
         PaidLinkIsBooked, observed
  <2>4. CompletedMeansBooked'
    BY <1>4, <1>t DEF UpdatePayment, NumberFree, IInv, TypeOK, PaymentRow,
         CompletedMeansBooked, observed
  <2> QED BY <1>4, <1>t, <2>1, <2>2, <2>3, <2>4, Frame DEF UpdatePayment, IInv,
       observed
<1>5. ASSUME NEW p \in Payments, DeletePayment(p) PROVE IInv'
  <2>1. UniqueNumbers'
    BY <1>5, <1>t DEF DeletePayment, IInv, TypeOK, PaymentRow, UniqueNumbers,
         observed
  <2>2. BookedRowsAreNumbered'
    BY <1>5, <1>t DEF DeletePayment, IInv, TypeOK, PaymentRow, BookedRowsAreNumbered,
         observed
  <2>3. PaidLinkIsBooked'
    BY <1>5, <1>t DEF DeletePayment, IInv, TypeOK, PaymentRow, PaidLinkIsBooked,
         observed
  <2>4. CompletedMeansBooked'
    BY <1>5, <1>t DEF DeletePayment, IInv, TypeOK, PaymentRow, CompletedMeansBooked,
         observed
  <2> QED BY <1>5, <1>t, <2>1, <2>2, <2>3, <2>4, Frame DEF DeletePayment, IInv,
       observed
<1>6. ASSUME NEW s \in SettingStates, UpdateSettings(s) PROVE IInv'
  <2> QED BY <1>6, <1>t, Frame DEF UpdateSettings, IInv, observed
<1>7. ASSUME NEW l \in Links, NEW i \in Invoices, ReadInvoice(l, i) PROVE IInv'
  <2>1. RequestsStandOnInvoices'
    BY <1>7, <1>t DEF ReadInvoice, IInv, TypeOK, LinkRequest,
         RequestsStandOnInvoices, tables, observed
  <2> QED BY <1>7, <1>t, <2>1, Frame DEF ReadInvoice, IInv, tables, observed
<1>8. ASSUME NEW l \in Links, ReadSettings(l) PROVE IInv'
  <2>1. RequestsStandOnInvoices'
    <3>1. CASE settings = "off"
      BY <1>8, <3>1 DEF ReadSettings, EndRequest, IInv, TypeOK, LinkRequest,
           RequestsStandOnInvoices, tables, observed
    <3>2. CASE settings # "off"
      BY <1>8, <3>2 DEF ReadSettings, IInv, TypeOK, LinkRequest,
           RequestsStandOnInvoices, tables, observed
    <3> QED BY <3>1, <3>2
  <2> QED BY <1>8, <1>t, <2>1, Frame DEF ReadSettings, IInv, tables, observed
<1>9. ASSUME NEW l \in Links, CallProvider(l) PROVE IInv'
  <2>1. RequestsStandOnInvoices'
    BY <1>9, <1>t DEF CallProvider, IInv, TypeOK, LinkRequest,
         RequestsStandOnInvoices, tables, observed
  <2>2. LinksStandOnInvoices'
    BY <1>9, <1>t DEF CallProvider, IInv, TypeOK, LinksStandOnInvoices, tables,
         observed
  <2>3. DeliveriesStandOnLinks'
    BY <1>9, <1>t DEF CallProvider, IInv, TypeOK, DeliveriesStandOnLinks,
         RequestsStandOnInvoices, tables, observed
  <2>4. PaidLinkIsBooked'
    BY <1>9, <1>t DEF CallProvider, IInv, TypeOK, PaidLinkIsBooked,
         RequestsStandOnInvoices, tables, observed
  <2>5. CaptureAccountedFor'
    BY <1>9, <1>t DEF CallProvider, IInv, TypeOK, CaptureAccountedFor, tables,
         observed
  <2> QED BY <1>9, <1>t, <2>1, <2>2, <2>3, <2>4, <2>5, Frame DEF CallProvider, IInv,
       tables, observed
<1>10. ASSUME NEW l \in Links, CallFails(l) PROVE IInv'
  <2>1. RequestsStandOnInvoices'
    BY <1>10, <1>t DEF CallFails, EndRequest, IInv, TypeOK, LinkRequest,
         RequestsStandOnInvoices, tables, observed
  <2> QED BY <1>10, <1>t, <2>1, Frame DEF CallFails, IInv, tables, observed
<1>11. ASSUME NEW l \in Links, PersistLink(l) PROVE IInv'
  <2>1. RequestsStandOnInvoices'
    BY <1>11, <1>t DEF PersistLink, EndRequest, IInv, TypeOK, LinkRow, LinkRequest,
         RequestsStandOnInvoices, observed
  <2>2. LinksStandOnInvoices'
    BY <1>11, <1>t DEF PersistLink, EndRequest, IInv, TypeOK, LinkRow,
         LinksStandOnInvoices, RequestsStandOnInvoices, observed
  <2>3. DeliveriesStandOnLinks'
    BY <1>11, <1>t DEF PersistLink, EndRequest, IInv, TypeOK, LinkRow,
         DeliveriesStandOnLinks, RequestsStandOnInvoices, observed
  <2>4. PaidLinkIsBooked'
    BY <1>11, <1>t DEF PersistLink, EndRequest, IInv, TypeOK, LinkRow,
         PaidLinkIsBooked, observed
  <2>5. LinkAndInvoiceAgree'
    BY <1>11, <1>t DEF PersistLink, EndRequest, IInv, TypeOK, LinkRow,
         LinkAndInvoiceAgree, RequestsStandOnInvoices, LinksStandOnInvoices, observed
  <2>6. CaptureAccountedFor'
    BY <1>11, <1>t DEF PersistLink, EndRequest, IInv, TypeOK, LinkRow,
         CaptureAccountedFor, RequestsStandOnInvoices, LinksStandOnInvoices, observed
  <2> QED BY <1>11, <1>t, <2>1, <2>2, <2>3, <2>4, <2>5, <2>6, Frame DEF PersistLink,
       IInv, observed
<1>12. ASSUME NEW l \in Links, PersistFails(l) PROVE IInv'
  <2>1. RequestsStandOnInvoices'
    BY <1>12, <1>t DEF PersistFails, EndRequest, IInv, TypeOK, LinkRequest,
         RequestsStandOnInvoices, tables, observed
  <2> QED BY <1>12, <1>t, <2>1, Frame DEF PersistFails, IInv, tables, observed
<1>13. ASSUME NEW l \in Links, ClientPays(l) PROVE IInv'
  <2>1. RequestsStandOnInvoices'
    BY <1>13, <1>t DEF ClientPays, IInv, TypeOK, RequestsStandOnInvoices, tables,
         observed
  <2>2. LinksStandOnInvoices'
    BY <1>13, <1>t DEF ClientPays, IInv, TypeOK, LinksStandOnInvoices, tables,
         observed
  <2>3. DeliveriesStandOnLinks'
    BY <1>13, <1>t DEF ClientPays, IInv, TypeOK, DeliveriesStandOnLinks, tables,
         observed
  <2>4. PaidLinkIsBooked'
    BY <1>13, <1>t DEF ClientPays, IInv, TypeOK, PaidLinkIsBooked, tables, observed
  <2>5. CaptureAccountedFor'
    BY <1>13, <1>t DEF ClientPays, IInv, TypeOK, CaptureAccountedFor, tables,
         observed
  <2> QED BY <1>13, <1>t, <2>1, <2>2, <2>3, <2>4, <2>5, Frame DEF ClientPays, IInv,
       tables, observed
<1>14. ASSUME NEW d \in Deliveries, NEW e \in {"paid", "other"}, Deliver(d, e) PROVE
     IInv'
  <2>1. DeliveriesStandOnLinks'
    BY <1>14, <1>t, DeliveryOfLink DEF Deliver, IInv, TypeOK, Delivery,
         DeliveriesStandOnLinks, tables, observed
  <2> QED BY <1>14, <1>t, <2>1, Frame DEF Deliver, IInv, tables, observed
<1>15. ASSUME NEW d \in Deliveries, LookupLink(d) PROVE IInv'
  <2>1. DeliveriesStandOnLinks'
    BY <1>15, <1>t, DeliveryOfLink DEF LookupLink, IInv, TypeOK, Delivery,
         DeliveriesStandOnLinks, tables, observed
  <2> QED BY <1>15, <1>t, <2>1, Frame DEF LookupLink, IInv, tables, observed
<1>16. ASSUME NEW d \in Deliveries, UnknownLink(d) PROVE IInv'
  <2>1. DeliveriesStandOnLinks'
    BY <1>16, <1>t, DeliveryOfLink DEF UnknownLink, Acknowledge, Answer, NoDelivery,
         IInv, TypeOK, Delivery, DeliveriesStandOnLinks, tables
  <2>2. CaptureAccountedFor'
    BY <1>16, <1>t, DeliveryOfLink DEF UnknownLink, Acknowledge, Answer, NoDelivery,
         IInv, TypeOK, CaptureAccountedFor, tables
  <2> QED BY <1>16, <1>t, <2>1, <2>2, Frame DEF UnknownLink, IInv, tables
<1>17. ASSUME NEW d \in Deliveries, RejectSignature(d) PROVE IInv'
  <2>1. DeliveriesStandOnLinks'
    BY <1>17, <1>t, DeliveryOfLink DEF RejectSignature, Answer, NoDelivery, IInv,
         TypeOK, Delivery, DeliveriesStandOnLinks, tables, observed
  <2> QED BY <1>17, <1>t, <2>1, Frame DEF RejectSignature, IInv, tables, observed
<1>18. ASSUME NEW d \in Deliveries, IgnoreEvent(d) PROVE IInv'
  <2>1. DeliveriesStandOnLinks'
    BY <1>18, <1>t, DeliveryOfLink DEF IgnoreEvent, Acknowledge, Answer, NoDelivery,
         IInv, TypeOK, Delivery, DeliveriesStandOnLinks, tables, observed
  <2>2. CaptureAccountedFor'
    BY <1>18, <1>t, DeliveryOfLink DEF IgnoreEvent, Acknowledge, Answer, NoDelivery,
         IInv, TypeOK, CaptureAccountedFor, DeliveriesStandOnLinks, tables, observed
  <2> QED BY <1>18, <1>t, <2>1, <2>2, Frame DEF IgnoreEvent, IInv, tables, observed
<1>19. ASSUME NEW d \in Deliveries, AcceptEvent(d) PROVE IInv'
  <2>1. DeliveriesStandOnLinks'
    BY <1>19, <1>t, DeliveryOfLink DEF AcceptEvent, IInv, TypeOK, Delivery,
         DeliveriesStandOnLinks, tables, observed
  <2> QED BY <1>19, <1>t, <2>1, Frame DEF AcceptEvent, IInv, tables, observed
<1>20. ASSUME NEW d \in Deliveries, NEW p \in Payments, Commit(d, p) PROVE IInv'
  <2>1. RequestsStandOnInvoices'
    BY <1>20, <1>t, DeliveryOfLink DEF Commit, SettleInvoice, NumberFree, IInv,
         TypeOK, InvoiceRow, LinkRow, RequestsStandOnInvoices
  <2>2. LinksStandOnInvoices'
    BY <1>20, <1>t, DeliveryOfLink DEF Commit, SettleInvoice, NumberFree, IInv,
         TypeOK, InvoiceRow, LinkRow, RowStates, LinksStandOnInvoices,
         DeliveriesStandOnLinks
  <2>3. DeliveriesStandOnLinks'
    BY <1>20, <1>t, DeliveryOfLink DEF Commit, SettleInvoice, NumberFree, IInv,
         TypeOK, LinkRow, Delivery, DeliveriesStandOnLinks
  <2>4. UniqueNumbers'
    BY <1>20, <1>t, DeliveryOfLink DEF Commit, SettleInvoice, NumberFree, IInv,
         TypeOK, PaymentRow, UniqueNumbers
  <2>5. BookedRowsAreNumbered'
    BY <1>20, <1>t, DeliveryOfLink DEF Commit, SettleInvoice, NumberFree, IInv,
         TypeOK, PaymentRow, BookedRowsAreNumbered
  <2>6. PaidLinkIsBooked'
    BY <1>20, <1>t, DeliveryOfLink DEF Commit, SettleInvoice, NumberFree, IInv,
         TypeOK, PaymentRow, LinkRow, PaidLinkIsBooked, DeliveriesStandOnLinks
  <2>7. LinkAndInvoiceAgree'
    BY <1>20, <1>t, DeliveryOfLink DEF Commit, SettleInvoice, NumberFree, IInv,
         TypeOK, InvoiceRow, LinkRow, RowStates, LinkAndInvoiceAgree,
         LinksStandOnInvoices, DeliveriesStandOnLinks
  <2>8. CaptureAccountedFor'
    BY <1>20, <1>t, DeliveryOfLink DEF Commit, SettleInvoice, NumberFree, IInv,
         TypeOK, LinkRow, CaptureAccountedFor
  <2>9. CompletedMeansBooked'
    BY <1>20, <1>t, DeliveryOfLink, NoneAssumption DEF Commit, SettleInvoice,
         NumberFree, IInv, TypeOK, PaymentRow, CompletedMeansBooked
  <2> QED BY <1>20, <1>t, <2>1, <2>2, <2>3, <2>4, <2>5, <2>6, <2>7, <2>8, <2>9, Frame
       DEF Commit, IInv
<1>21. ASSUME NEW d \in Deliveries, CommitConflict(d) PROVE IInv'
  <2>1. DeliveriesStandOnLinks'
    BY <1>21, <1>t, DeliveryOfLink DEF CommitConflict, Answer, NoDelivery, IInv,
         TypeOK, Delivery, DeliveriesStandOnLinks, tables, observed
  <2> QED BY <1>21, <1>t, <2>1, Frame DEF CommitConflict, IInv, tables, observed
<1>22. ASSUME NEW d \in Deliveries, Respond(d) PROVE IInv'
  <2>1. DeliveriesStandOnLinks'
    BY <1>22, <1>t, DeliveryOfLink DEF Respond, Acknowledge, Answer, NoDelivery,
         IInv, TypeOK, Delivery, DeliveriesStandOnLinks, tables, observed
  <2>2. CaptureAccountedFor'
    BY <1>22, <1>t, DeliveryOfLink DEF Respond, Acknowledge, Answer, NoDelivery,
         IInv, TypeOK, CaptureAccountedFor, DeliveriesStandOnLinks, tables, observed
  <2> QED BY <1>22, <1>t, <2>1, <2>2, Frame DEF Respond, IInv, tables, observed
<1>23. ASSUME NEW d \in Deliveries, Crash(d) PROVE IInv'
  <2>1. DeliveriesStandOnLinks'
    BY <1>23, <1>t, DeliveryOfLink DEF Crash, Answer, NoDelivery, IInv, TypeOK,
         Delivery, DeliveriesStandOnLinks, tables, observed
  <2> QED BY <1>23, <1>t, <2>1, Frame DEF Crash, IInv, tables, observed
<1>24. CASE UNCHANGED vars
  BY <1>24, <1>t, Frame DEF vars, IInv
<1> QED
  BY <1>1, <1>2, <1>3, <1>4, <1>5, <1>6, <1>7, <1>8, <1>9, <1>10, <1>11, <1>12,
       <1>13, <1>14, <1>15, <1>16, <1>17, <1>18, <1>19, <1>20, <1>21, <1>22, <1>23,
       <1>24 DEF Next, Staff, Generate, Handle

(* The invariant and what it implies, at every reachable state: see each     *)
(* conjunct in ClientPayments for the code behaviour it is about.            *)
THEOREM InvariantCorrect == Spec => []IInv
  BY InvariantHoldsInitially, StepKeepsInvariant, PTL DEF Spec

(* Captured money is booked, about to be retried, or was acknowledged before *)
(* the link had a row: handleWebhook has no other way to end the retries.    *)
THEOREM CapturesAccountedFor == Spec => []CaptureAccountedFor
<1>1. IInv => CaptureAccountedFor
  BY DEF IInv
<1> QED
  BY <1>1, InvariantCorrect, PTL

(* handleWebhook's transaction keeps link, payment and invoice together.     *)
THEOREM SettlementConsistent == Spec => [](PaidLinkIsBooked /\ LinkAndInvoiceAgree)
<1>1. IInv => PaidLinkIsBooked /\ LinkAndInvoiceAgree
  BY DEF IInv
<1> QED
  BY <1>1, InvariantCorrect, PTL

(* A duplicate booking needs staff to renumber the first one: the unique     *)
(* paymentNumber is what makes a replayed or concurrent delivery harmless.   *)
THEOREM DuplicatesNeedRenumbering == Spec => []TwiceBookedMeansRenumbered
<1>1. IInv => TwiceBookedMeansRenumbered
  BY DEF IInv, UniqueNumbers, BookedRowsAreNumbered, TwiceBookedMeansRenumbered
<1> QED
  BY <1>1, InvariantCorrect, PTL

(* The 2xx answers of handleWebhook: once the link's row is there, the answer *)
(* that ends the retries is given only for a capture that is booked.         *)
THEOREM AcknowledgementsAreBookings == Spec => AcknowledgedMeansBooked
<1> DEFINE A == \A l \in Links : l \in pending /\ l \notin pending' =>
                  links'[l].status = "PAID" \/ ~links[l].row
<1>1. IInv /\ [Next]_vars => [A]_vars
  <2> SUFFICES ASSUME IInv, Next PROVE A
    OBVIOUS
  <2>1. CASE Staff
    BY <2>1 DEF Staff, CreateInvoice, DeleteInvoice, CreatePayment, UpdatePayment,
          DeletePayment, UpdateSettings
  <2>2. ASSUME NEW l \in Links, Generate(l) \/ ClientPays(l) PROVE A
    BY <2>2 DEF Generate, ReadInvoice, ReadSettings, CallProvider, CallFails, PersistLink,
          PersistFails, ClientPays
  <2>3. ASSUME NEW d \in Deliveries, NEW e \in {"paid", "other"}, Deliver(d, e) PROVE A
    BY <2>3 DEF Deliver
  <2>4. ASSUME NEW d \in Deliveries, Crash(d) PROVE A
    BY <2>4 DEF Crash
  <2>5. ASSUME NEW d \in Deliveries, Handle(d) PROVE A
    BY <2>5, DeliveryOfLink DEF Handle, LookupLink, UnknownLink, RejectSignature, IgnoreEvent,
          AcceptEvent, Commit, CommitConflict, Respond, Acknowledge, IInv,
          DeliveriesStandOnLinks, tables
  <2> QED
    BY <2>1, <2>2, <2>3, <2>4, <2>5 DEF Next
<1> QED
  BY <1>1, InvariantCorrect, PTL DEF Spec, AcknowledgedMeansBooked

-----------------------------------------------------------------------------
(* Refinement: each request's write is a step of GatewayCollection.          *)

abstract == <<Stage, Target, Settled>>

LEMMA CollectionInit == Init => Collection!Init
  BY DEF Init, Collection!Init, Stage, Target, Settled, NoInvoice, NoLink

(* Everything but CallProvider, ClientPays, PersistLink and Commit stutters. *)
LEMMA StutterSteps ==
  ASSUME IInv, UNCHANGED <<links, provider>>,
         \A i \in Invoices : invoices'[i].status = invoices[i].status
  PROVE  UNCHANGED abstract
  BY DEF abstract, Stage, Target, Settled

LEMMA CommitRefines ==
  ASSUME IInv, TypeOK', NEW d \in Deliveries, NEW p \in Payments, Commit(d, p)
  PROVE  [Collection!Next]_abstract
<1> DEFINE l == LinkOf(d)
           i == links[l].invoice
<1>1. /\ l \in Links
      /\ links[l].row
      /\ provider[l] = "captured"
      /\ i \in Invoices
  BY DeliveryOfLink DEF Commit, IInv, DeliveriesStandOnLinks, LinksStandOnInvoices
<1>2. /\ provider' = provider
      /\ links'[l].status = "PAID"
      /\ \A m \in Links : m # l => links'[m] = links[m]
      /\ links'[l].invoice = i
  BY <1>1 DEF Commit, IInv, TypeOK, LinkRow
<1>3. Target' = Target
  BY <1>1, <1>2 DEF Target
<1>4. Settled' = Settled \/ Settled' = Settled \union {i}
  BY <1>1 DEF Commit, SettleInvoice, IInv, TypeOK, InvoiceRow, Settled
<1>5. CASE links[l].status = "PAID"
  <2>1. Stage' = Stage
    BY <1>1, <1>2, <1>5 DEF Stage
  <2>2. invoices[i].status = "PAID" \/ invoices[i].row # "live"
    BY <1>1, <1>5 DEF IInv, LinkAndInvoiceAgree, TypeOK, InvoiceRow
  <2>3. Settled' = Settled
    BY <1>1, <2>2 DEF Commit, SettleInvoice, IInv, TypeOK, InvoiceRow, Settled
  <2> QED
    BY <1>3, <2>1, <2>3 DEF abstract
<1>6. CASE links[l].status # "PAID"
  <2>1. Stage[l] = "captured" /\ Stage' = [Stage EXCEPT ![l] = "booked"]
    BY <1>1, <1>2, <1>6 DEF Stage
  <2>2. Target[l] = i /\ i # None
    BY <1>1, NoneAssumption DEF Target
  <2>3. Collection!Book(l)
    BY <1>3, <1>4, <2>1, <2>2 DEF Collection!Book
  <2> QED
    BY <1>1, <2>3 DEF Collection!Next
<1> QED
  BY <1>5, <1>6

LEMMA PersistRefines ==
  ASSUME IInv, TypeOK', NEW l \in Links, PersistLink(l)
  PROVE  [Collection!Next]_abstract
<1> DEFINE i == generating[l].invoice
<1>1. i \in Invoices /\ provider[l] # "unissued" /\ ~links[l].row
  BY DEF PersistLink, IInv, RequestsStandOnInvoices
<1>2. links[l].status = "CREATED" /\ links[l].invoice = None
  BY <1>1 DEF IInv, LinksStandOnInvoices
<1>3. Stage' = Stage /\ Settled' = Settled
  BY <1>2 DEF PersistLink, Stage, Settled, IInv, TypeOK
<1>4. Target[l] = None /\ Target' = [Target EXCEPT ![l] = i]
  BY <1>2 DEF PersistLink, Target, IInv, TypeOK
<1>5. Stage[l] \in {"open", "captured"}
  BY <1>1, <1>2 DEF Stage, IInv, TypeOK
<1>6. Collection!Save(l, i)
  BY <1>3, <1>4, <1>5 DEF Collection!Save
<1> QED
  BY <1>1, <1>6 DEF Collection!Next

LEMMA ProviderRefines ==
  ASSUME IInv, TypeOK', NEW l \in Links, CallProvider(l) \/ ClientPays(l)
  PROVE  [Collection!Next]_abstract
<1>1. links[l].status = "PAID" => provider[l] = "captured"
  BY DEF IInv, PaidLinkIsBooked
<1>2. Target' = Target /\ Settled' = Settled
  BY DEF CallProvider, ClientPays, Target, Settled, tables
<1>3. CASE CallProvider(l)
  <2>1. Stage[l] = "unissued"
    BY <1>1, <1>3 DEF CallProvider, Stage, IInv, RequestsStandOnInvoices
  <2>2. Stage' = [Stage EXCEPT ![l] = "open"]
    BY <1>1, <1>3, <2>1 DEF CallProvider, Stage, IInv, TypeOK, tables
  <2> QED
    BY <1>2, <2>1, <2>2 DEF Collection!Issue, Collection!Next
<1>4. CASE ClientPays(l)
  <2>1. Stage[l] = "open" /\ Stage' = [Stage EXCEPT ![l] = "captured"]
    BY <1>1, <1>4 DEF ClientPays, Stage, IInv, TypeOK, tables
  <2> QED
    BY <1>2, <2>1 DEF Collection!Capture, Collection!Next
<1> QED
  BY <1>3, <1>4

LEMMA StepRefines == IInv /\ IInv' /\ [Next]_vars => [Collection!Next]_abstract
<1> SUFFICES ASSUME IInv, IInv', [Next]_vars PROVE [Collection!Next]_abstract
  OBVIOUS
<1>t. TypeOK'
  BY DEF IInv
<1>1. CASE Staff
  <2>1. UNCHANGED <<links, provider>>
    BY <1>1 DEF Staff, CreateInvoice, DeleteInvoice, CreatePayment, UpdatePayment,
          DeletePayment, UpdateSettings
  <2>2. ASSUME NEW i \in Invoices, CreateInvoice(i)
        PROVE  \A j \in Invoices : invoices'[j].status = invoices[j].status
    <3>1. invoices[i].status = "DRAFT"
      BY <2>2 DEF CreateInvoice, IInv, LinkAndInvoiceAgree, LinksStandOnInvoices, TypeOK,
            InvoiceRow, LinkRow
    <3> QED
      BY <2>2, <3>1 DEF CreateInvoice, IInv, TypeOK, InvoiceRow
  <2>3. ASSUME NEW i \in Invoices, DeleteInvoice(i)
        PROVE  \A j \in Invoices : invoices'[j].status = invoices[j].status
    BY <2>3 DEF DeleteInvoice, IInv, TypeOK, InvoiceRow
  <2>4. \A j \in Invoices : invoices'[j].status = invoices[j].status
    BY <1>1, <2>2, <2>3 DEF Staff, CreatePayment, UpdatePayment, DeletePayment, UpdateSettings
  <2> QED
    BY <2>1, <2>4, StutterSteps
<1>2. ASSUME NEW l \in Links, Generate(l) \/ ClientPays(l) PROVE [Collection!Next]_abstract
  <2>1. CASE CallProvider(l) \/ ClientPays(l)
    BY <1>t, <2>1, ProviderRefines
  <2>2. CASE PersistLink(l)
    BY <1>t, <2>2, PersistRefines
  <2>3. CASE (\E i \in Invoices : ReadInvoice(l, i)) \/ ReadSettings(l) \/ CallFails(l)
             \/ PersistFails(l)
    BY <2>3, StutterSteps DEF ReadInvoice, ReadSettings, CallFails, PersistFails, tables
  <2> QED
    BY <1>2, <2>1, <2>2, <2>3 DEF Generate
<1>3. ASSUME NEW d \in Deliveries,
             (\E e \in {"paid", "other"} : Deliver(d, e)) \/ Handle(d) \/ Crash(d)
      PROVE  [Collection!Next]_abstract
  <2>1. ASSUME NEW p \in Payments, Commit(d, p) PROVE [Collection!Next]_abstract
    BY <1>t, <2>1, CommitRefines
  <2>2. CASE (\E e \in {"paid", "other"} : Deliver(d, e)) \/ Crash(d)
    BY <2>2, StutterSteps DEF Deliver, Crash, tables
  <2>3. CASE LookupLink(d) \/ UnknownLink(d) \/ RejectSignature(d) \/ IgnoreEvent(d)
             \/ AcceptEvent(d) \/ CommitConflict(d) \/ Respond(d)
    BY <2>3, StutterSteps DEF LookupLink, UnknownLink, RejectSignature, IgnoreEvent,
          AcceptEvent, CommitConflict, Respond, tables
  <2> QED
    BY <1>3, <2>1, <2>2, <2>3 DEF Handle
<1>4. CASE UNCHANGED vars
  BY <1>4, StutterSteps DEF vars
<1> QED
  BY <1>1, <1>2, <1>3, <1>4 DEF Next

(* The requests, retries and crashes of ClientPayments implement the         *)
(* abstract collection: a capture is booked at most once and settles only    *)
(* the invoice its link was made for.                                        *)
THEOREM CollectionImplemented == Spec => ImplementsCollection
<1>1. IInv /\ IInv' /\ [Next]_vars => [Collection!Next]_<<Stage, Target, Settled>>
  BY StepRefines DEF abstract
<1> QED
  BY CollectionInit, <1>1, InvariantCorrect, PTL DEF Spec, ImplementsCollection, Collection!Spec

-----------------------------------------------------------------------------
(* LeadPipeline                                                            *)

(* The inductive invariant                                                   *)

(* A call that inserts a role, or has. *)
Inserts(c) == calls[c].lead = Unset \/ calls[c].primary
Past(c) == At(c, "conversion") \/ At(c, "commit")

(* What a call is about fits the step it is at.                              *)
CallsAreShaped ==
    \A c \in Callers :
        /\ At(c, "unown") \/ At(c, "own") => calls[c].row \in Seats /\ calls[c].lead = Unset
        /\ ~At(c, "none") /\ ~At(c, "unown") /\ ~At(c, "own") =>
              calls[c].row \in Businesses \X (Contacts \union {Unset}) \X Types
        /\ calls[c].lead # Unset => calls[c].row[3] = Representative /\ ~At(c, "none")
        /\ calls[c].step \in {"client", "newClient", "existing", "conversion"} => calls[c].lead # Unset
        /\ calls[c].step \in {"client", "newClient", "existing"} => ~calls[c].primary
        /\ calls[c].step \in {"clear", "lock", "unown"} => calls[c].primary
        /\ At(c, "role") /\ calls[c].lead # Unset => calls[c].primary
        /\ calls[c].step \in {"clear", "lock", "role"} \/ (Past(c) /\ Inserts(c)) => calls[c].row \in Roles
        /\ calls[c].made => calls[c].lead # Unset
        /\ ~calls[c].primary => calls[c].sees = {} /\ calls[c].late = {}
        /\ calls[c].step \in {"clear", "unown"} => calls[c].late = {}

(* A role a transaction has inserted is nobody else's, and not yet there.    *)
InsertsAreNew ==
    \A c \in Callers : Past(c) /\ Inserts(c) =>
        /\ roles[calls[c].row] = "absent"
        /\ \A d \in Others(c) : ~HasInserted(d, calls[c].row)

(* A transaction that is to set a primary has seen every primary of the      *)
(* business, or is remembered as one that missed it.                         *)
PrimariesAreSeen ==
    \A c \in Callers :
        /\ \A r \in calls[c].sees : r[1] = Firm(c) /\ roles[r] # "absent"
        /\ SetsPrimary(c, Firm(c)) => Primaries(Firm(c)) \subseteq calls[c].sees \union calls[c].late

(* What a conversion has found or made is still so.                          *)
ConversionsAreSound ==
    \A c \in Callers : calls[c].lead # Unset =>
        /\ At(c, "client") \/ At(c, "newClient") \/ calls[c].made \/ clients[Firm(c)] # "absent"
        /\ Past(c) /\ ~calls[c].primary /\ calls[c].row[2] # Unset => roles[calls[c].row] # "absent"
        /\ At(c, "commit") => /\ ~Converted(calls[c].lead, Firm(c))
                              /\ \A d \in Others(c) : ~Converting(d, calls[c].lead, Firm(c))

(* An owner made since a call cleared a lead's owners is one that it missed. *)
OwnersAreSeen ==
    \A c \in Callers : At(c, "own") /\ calls[c].primary => Owners(calls[c].row[1]) \subseteq calls[c].late

LeadInv == /\ LeadTypeOK /\ CallsAreShaped /\ InsertsAreNew /\ PrimariesAreSeen
           /\ ConversionsAreSound /\ OwnersAreSeen
           /\ TwoPrimariesOverlapped /\ ConversionIsWhole /\ OwnersAccountedFor

-----------------------------------------------------------------------------

(* What one call x holds, as an operator of the call, so that it reads the   *)
(* same before a step and after it.                                          *)
PastIn(x) == x.step \in {"conversion", "commit"}
InsertsIn(x) == x.lead = Unset \/ x.primary
HoldsIn(x, r) == PastIn(x) /\ InsertsIn(x) /\ x.row = r
SetsIn(x) == x.step \in {"lock", "role", "conversion", "commit"} /\ x.primary
ConvertsIn(x, l, b) == x.step = "commit" /\ x.lead # Unset /\ (x.lead = l \/ x.row[1] = b)
ChangesIn(x, l) == x.step = "own" /\ x.primary /\ x.row[1] = l

ShapedIn(x) ==
    /\ x.step \in {"unown", "own"} => x.row \in Seats /\ x.lead = Unset
    /\ x.step \notin {"none", "unown", "own"} =>
          x.row \in Businesses \X (Contacts \union {Unset}) \X Types
    /\ x.lead # Unset => x.row[3] = Representative /\ x.step # "none"
    /\ x.step \in {"client", "newClient", "existing", "conversion"} => x.lead # Unset
    /\ x.step \in {"client", "newClient", "existing"} => ~x.primary
    /\ x.step \in {"clear", "lock", "unown"} => x.primary
    /\ x.step = "role" /\ x.lead # Unset => x.primary
    /\ x.step \in {"clear", "lock", "role"} \/ (PastIn(x) /\ InsertsIn(x)) => x.row \in Roles
    /\ x.made => x.lead # Unset
    /\ ~x.primary => x.sees = {} /\ x.late = {}
    /\ x.step \in {"clear", "unown"} => x.late = {}

PrimariesIn(z, b) == {r \in Roles : r[1] = b /\ z[r] = "primary"}
SeenIn(x, z) ==
    /\ \A r \in x.sees : r[1] = x.row[1] /\ z[r] # "absent"
    /\ SetsIn(x) => PrimariesIn(z, x.row[1]) \subseteq x.sees \union x.late

FoundIn(x, k, z) ==
    x.lead # Unset =>
        /\ x.step \in {"client", "newClient"} \/ x.made \/ k[x.row[1]] # "absent"
        /\ PastIn(x) /\ ~x.primary /\ x.row[2] # Unset => z[x.row] # "absent"

OwnersIn(z, l) == {s \in Seats : s[1] = l /\ z[s] = "primary"}
OwnedIn(x, z) == x.step = "own" /\ x.primary => OwnersIn(z, x.row[1]) \subseteq x.late

(* A role to be inserted, and a conversion to be committed, is one call's.   *)
NewIn(y, z) == \A c \in Callers : \A r : HoldsIn(y[c], r) =>
                   z[r] = "absent" /\ \A d \in Callers : d # c => ~HoldsIn(y[d], r)
ConvertedIn(f, l, b) == f[l] # Unset \/ \E m \in Leads : f[m] = b
AloneIn(y, f) == \A c \in Callers : y[c].lead # Unset /\ y[c].step = "commit" =>
                     /\ ~ConvertedIn(f, y[c].lead, y[c].row[1])
                     /\ \A d \in Callers : d # c => ~ConvertsIn(y[d], y[c].lead, y[c].row[1])

TwoIn(z, w) == \A b \in Businesses : \A r, q \in PrimariesIn(z, b) : r # q => {r, q} \in w
AccountIn(z, o, w, y) ==
    \A l \in Leads :
        /\ \A s, t \in OwnersIn(z, l) : s # t => {s, t} \in w
        /\ l \in o /\ OwnersIn(z, l) = {} => \E c \in Callers : ChangesIn(y[c], l)

LEMMA CallsRead ==
    /\ CallsAreShaped <=> \A c \in Callers : ShapedIn(calls[c])
    /\ InsertsAreNew <=> NewIn(calls, roles)
    /\ PrimariesAreSeen <=> \A c \in Callers : SeenIn(calls[c], roles)
    /\ ConversionsAreSound <=> AloneIn(calls, conversions) /\ \A c \in Callers : FoundIn(calls[c], clients, roles)
    /\ OwnersAreSeen <=> \A c \in Callers : OwnedIn(calls[c], staff)
    /\ TwoPrimariesOverlapped <=> TwoIn(roles, missed)
    /\ OwnersAccountedFor <=> AccountIn(staff, owned, missed, calls)
<1>1. CallsAreShaped <=> \A c \in Callers : ShapedIn(calls[c])
  BY DEF CallsAreShaped, ShapedIn, At, Past, PastIn, Inserts, InsertsIn
<1>2. InsertsAreNew <=> NewIn(calls, roles)
  BY DEF InsertsAreNew, NewIn, HoldsIn, HasInserted, At, Past, PastIn, Inserts, InsertsIn, Others
<1>3. \A c \in Callers : \A b : SetsPrimary(c, b) <=> SetsIn(calls[c]) /\ calls[c].row[1] = b
  BY DEF SetsPrimary, SetsIn, Firm
<1>4. \A b : Primaries(b) = PrimariesIn(roles, b)
  BY DEF Primaries, PrimariesIn
<1>5. PrimariesAreSeen <=> \A c \in Callers : SeenIn(calls[c], roles)
  BY <1>3, <1>4 DEF PrimariesAreSeen, SeenIn, Firm
<1>6. ConversionsAreSound <=> AloneIn(calls, conversions) /\ \A c \in Callers : FoundIn(calls[c], clients, roles)
  BY DEF ConversionsAreSound, AloneIn, FoundIn, At, Past, PastIn, Firm, Converted, ConvertedIn,
         Converting, ConvertsIn, Others
<1>7. \A l : Owners(l) = OwnersIn(staff, l)
  BY DEF Owners, OwnersIn
<1>8. OwnersAreSeen <=> \A c \in Callers : OwnedIn(calls[c], staff)
  BY <1>7 DEF OwnersAreSeen, OwnedIn, At
<1>9. TwoPrimariesOverlapped <=> TwoIn(roles, missed)
  BY <1>4 DEF TwoPrimariesOverlapped, TwoIn
<1>10. OwnersAccountedFor <=> AccountIn(staff, owned, missed, calls)
  BY <1>7 DEF OwnersAccountedFor, AccountIn, ChangesOwner, ChangesIn, At
<1> QED
  BY <1>1, <1>2, <1>5, <1>6, <1>8, <1>9, <1>10

LEMMA CallsReadNext ==
    /\ (CallsAreShaped <=> \A c \in Callers : ShapedIn(calls[c]))'
    /\ (InsertsAreNew <=> NewIn(calls, roles))'
    /\ (PrimariesAreSeen <=> \A c \in Callers : SeenIn(calls[c], roles))'
    /\ (ConversionsAreSound <=> AloneIn(calls, conversions) /\ \A c \in Callers : FoundIn(calls[c], clients, roles))'
    /\ (OwnersAreSeen <=> \A c \in Callers : OwnedIn(calls[c], staff))'
    /\ (TwoPrimariesOverlapped <=> TwoIn(roles, missed))'
    /\ (OwnersAccountedFor <=> AccountIn(staff, owned, missed, calls))'
  BY CallsRead, PTL

-----------------------------------------------------------------------------
(* A step of one call that leaves every table as it is.                      *)
LEMMA CallStep ==
    ASSUME LeadInv, UNCHANGED <<crmTables, read, missed>>, owned' \subseteq owned,
           NEW c \in Callers, NEW x, calls' = [calls EXCEPT ![c] = x],
           x \in Call, ShapedIn(x), SeenIn(x, roles), FoundIn(x, clients, roles), OwnedIn(x, staff),
           \A r : HoldsIn(x, r) => /\ roles[r] = "absent"
                                  /\ \A d \in Callers : d # c => ~HoldsIn(calls[d], r),
           x.lead # Unset /\ x.step = "commit" =>
               /\ ~ConvertedIn(conversions, x.lead, x.row[1])
               /\ \A d \in Callers : d # c => ~ConvertsIn(calls[d], x.lead, x.row[1])
    PROVE  /\ LeadTypeOK' /\ CallsAreShaped' /\ InsertsAreNew' /\ PrimariesAreSeen'
           /\ ConversionsAreSound' /\ OwnersAreSeen' /\ TwoPrimariesOverlapped' /\ ConversionIsWhole'
<1>0. UNCHANGED <<leads, clients, conversions, roles, staff, read, missed>>
  BY DEF crmTables
<1>1. /\ \A d \in Callers : ShapedIn(calls[d]) /\ SeenIn(calls[d], roles) /\ OwnedIn(calls[d], staff)
      /\ \A d \in Callers : FoundIn(calls[d], clients, roles)
      /\ NewIn(calls, roles) /\ AloneIn(calls, conversions) /\ TwoIn(roles, missed)
      /\ LeadTypeOK
  BY CallsRead DEF LeadInv
<1>2. /\ \A d \in Callers : calls'[d] = IF d = c THEN x ELSE calls[d]
      /\ calls' \in [Callers -> Call]
  BY <1>1 DEF LeadTypeOK
<1>3. LeadTypeOK'
  BY <1>0, <1>1, <1>2 DEF LeadTypeOK
<1>4. \A d \in Callers : /\ ShapedIn(calls'[d]) /\ SeenIn(calls'[d], roles) /\ OwnedIn(calls'[d], staff)
                        /\ FoundIn(calls'[d], clients, roles)
  BY <1>1, <1>2
<1>5. NewIn(calls', roles)
  <2> SUFFICES ASSUME NEW d \in Callers, NEW r, HoldsIn(calls'[d], r)
               PROVE  roles[r] = "absent" /\ \A e \in Callers : e # d => ~HoldsIn(calls'[e], r)
    BY DEF NewIn
  <2>1. CASE d = c
    BY <1>2, <2>1
  <2>2. CASE d # c
    <3>1. HoldsIn(calls[d], r)
      BY <1>2, <2>2
    <3>2. ~HoldsIn(x, r)
      BY <2>2, <3>1
    <3>3. roles[r] = "absent" /\ \A e \in Callers : e # d => ~HoldsIn(calls[e], r)
      BY <1>1, <3>1 DEF NewIn
    <3> QED
      BY <1>2, <3>2, <3>3
  <2> QED
    BY <2>1, <2>2
<1>6. AloneIn(calls', conversions)
  <2> SUFFICES ASSUME NEW d \in Callers, calls'[d].lead # Unset, calls'[d].step = "commit"
               PROVE  /\ ~ConvertedIn(conversions, calls'[d].lead, calls'[d].row[1])
                      /\ \A e \in Callers : e # d => ~ConvertsIn(calls'[e], calls'[d].lead, calls'[d].row[1])
    BY DEF AloneIn
  <2>1. CASE d = c
    BY <1>2, <2>1
  <2>2. CASE d # c
    <3>1. calls'[d] = calls[d]
      BY <1>2, <2>2
    <3>2. /\ ~ConvertedIn(conversions, calls[d].lead, calls[d].row[1])
          /\ \A e \in Callers : e # d => ~ConvertsIn(calls[e], calls[d].lead, calls[d].row[1])
      BY <1>1, <3>1 DEF AloneIn
    <3>3. ~ConvertsIn(x, calls[d].lead, calls[d].row[1])
      BY <2>2, <3>1 DEF ConvertsIn
    <3> QED
      BY <1>2, <3>1, <3>2, <3>3
  <2> QED
    BY <2>1, <2>2
<1>7. ConversionIsWhole'
  BY <1>0 DEF LeadInv, ConversionIsWhole
<1> QED
  BY <1>0, <1>1, <1>3, <1>4, <1>5, <1>6, <1>7, CallsReadNext

LEMMA AccountStep ==
    ASSUME LeadInv, UNCHANGED <<staff, missed, owned>>,
           NEW c \in Callers, NEW x, calls' = [calls EXCEPT ![c] = x], ~At(c, "own")
    PROVE  OwnersAccountedFor'
<1>1. AccountIn(staff, owned, missed, calls) /\ calls \in [Callers -> Call]
  BY CallsRead DEF LeadInv, LeadTypeOK
<1>2. ASSUME NEW d \in Callers, NEW l \in Leads, ChangesIn(calls[d], l) PROVE ChangesIn(calls'[d], l)
  BY <1>1, <1>2 DEF ChangesIn, At
<1>3. AccountIn(staff, owned, missed, calls')
  BY <1>1, <1>2 DEF AccountIn
<1> QED
  BY <1>3, CallsReadNext

(* What a call is before it steps.                                           *)
LEMMA CallBefore ==
    ASSUME LeadInv, NEW c \in Callers
    PROVE  /\ calls[c] \in Call /\ ShapedIn(calls[c]) /\ SeenIn(calls[c], roles)
           /\ FoundIn(calls[c], clients, roles) /\ OwnedIn(calls[c], staff)
  BY CallsRead DEF LeadInv, LeadTypeOK

LEMMA FreshCall ==
    ASSUME NEW x \in Call, x.sees = {}, x.late = {}, ~PastIn(x), ~SetsIn(x), x.step # "own",
           x.lead # Unset => x.step = "client"
    PROVE  /\ \A z : SeenIn(x, z) /\ OwnedIn(x, z)
           /\ \A k, z : FoundIn(x, k, z)
           /\ \A r : ~HoldsIn(x, r)
           /\ x.step # "commit"
<1>1. \A z : SeenIn(x, z) /\ OwnedIn(x, z)
  BY DEF SeenIn, OwnedIn
<1>2. \A k, z : FoundIn(x, k, z)
  BY DEF FoundIn
<1>3. (\A r : ~HoldsIn(x, r)) /\ x.step # "commit"
  BY DEF HoldsIn, PastIn
<1> QED
  BY <1>1, <1>2, <1>3

LEMMA NoCallIsTyped ==
    /\ NoCall \in Call /\ ShapedIn(NoCall)
    /\ \A z : SeenIn(NoCall, z) /\ OwnedIn(NoCall, z)
    /\ \A k, z : FoundIn(NoCall, k, z)
    /\ \A r : ~HoldsIn(NoCall, r)
    /\ NoCall.step = "none" /\ NoCall.lead = Unset
<1>1. NoCall \in Call
  BY DEF NoCall, Call, Steps
<1>2. ShapedIn(NoCall)
  BY DEF NoCall, ShapedIn, PastIn
<1>3. /\ NoCall.sees = {} /\ NoCall.late = {} /\ NoCall.step = "none" /\ NoCall.lead = Unset
  BY DEF NoCall
<1>4. ~PastIn(NoCall) /\ ~SetsIn(NoCall)
  BY <1>3 DEF PastIn, SetsIn
<1> QED
  BY <1>1, <1>2, <1>3, <1>4, FreshCall

(* A step of a call that is not about an owner, and leaves the tables.       *)
LEMMA CallKeeps ==
    ASSUME LeadInv, UNCHANGED <<crmTables, leadObservations>>,
           NEW c \in Callers, NEW x, calls' = [calls EXCEPT ![c] = x], ~At(c, "own"),
           x \in Call, ShapedIn(x), SeenIn(x, roles), FoundIn(x, clients, roles), OwnedIn(x, staff),
           \A r : HoldsIn(x, r) => /\ roles[r] = "absent"
                                  /\ \A d \in Callers : d # c => ~HoldsIn(calls[d], r),
           x.lead # Unset /\ x.step = "commit" =>
               /\ ~ConvertedIn(conversions, x.lead, x.row[1])
               /\ \A d \in Callers : d # c => ~ConvertsIn(calls[d], x.lead, x.row[1])
    PROVE  LeadInv'
<1>1. UNCHANGED <<read, missed, owned, staff>>
  BY DEF leadObservations, crmTables
<1>2. OwnersAccountedFor'
  BY <1>1, AccountStep
<1>3. /\ LeadTypeOK' /\ CallsAreShaped' /\ InsertsAreNew' /\ PrimariesAreSeen'
      /\ ConversionsAreSound' /\ OwnersAreSeen' /\ TwoPrimariesOverlapped' /\ ConversionIsWhole'
  BY <1>1, CallStep
<1> QED
  BY <1>2, <1>3 DEF LeadInv

LEMMA AssignContactRoleKeeps ==
    ASSUME LeadInv, NEW c \in Callers, NEW b \in Businesses, NEW k \in Contacts, NEW t \in Types,
           NEW primary \in BOOLEAN, AssignContactRole(c, b, k, t, primary)
    PROVE  LeadInv'
<1> DEFINE x == [NoCall EXCEPT !.step = IF primary THEN "clear" ELSE "role",
                               !.row = <<b, k, t>>, !.primary = primary]
<1>1. /\ calls' = [calls EXCEPT ![c] = x] /\ ~At(c, "own")
      /\ UNCHANGED <<crmTables, leadObservations>>
  BY DEF AssignContactRole, At
<1>2. /\ x.step = (IF primary THEN "clear" ELSE "role") /\ x.row = <<b, k, t>> /\ x.primary = primary
      /\ x.lead = Unset /\ x.sees = {} /\ x.late = {} /\ x.made = FALSE
  BY DEF NoCall
<1>3. <<b, k, t>> \in Roles /\ <<b, k, t>> \in Businesses \X (Contacts \union {Unset}) \X Types
  BY DEF Roles
<1>4. x \in Call
  BY <1>3 DEF NoCall, Call, Steps
<1> HIDE DEF x
<1>5. ~PastIn(x) /\ ~SetsIn(x) /\ x.step # "own"
  BY <1>2 DEF PastIn, SetsIn
<1>6. ShapedIn(x)
  BY <1>2, <1>3, <1>5 DEF ShapedIn
<1> QED
  BY <1>1, <1>2, <1>4, <1>5, <1>6, FreshCall, CallKeeps

LEMMA ConvertLeadKeeps ==
    ASSUME LeadInv, NEW c \in Callers, NEW l \in Leads, ConvertLead(c, l)
    PROVE  LeadInv'
<1> DEFINE x == [NoCall EXCEPT !.step = "client", !.lead = l,
                               !.row = <<leads[l].business, leads[l].contact, Representative>>]
<1>1. /\ calls' = [calls EXCEPT ![c] = x] /\ ~At(c, "own")
      /\ UNCHANGED <<crmTables, leadObservations>>
  BY DEF ConvertLead, At
<1>2. /\ x.step = "client" /\ x.row = <<leads[l].business, leads[l].contact, Representative>>
      /\ x.primary = FALSE /\ x.lead = l /\ x.sees = {} /\ x.late = {} /\ x.made = FALSE
  BY DEF NoCall
<1>3. x.row \in Businesses \X (Contacts \union {Unset}) \X Types /\ x.row[3] = Representative
  <2>1. leads[l].business \in Businesses /\ leads[l].contact \in Contacts \union {Unset}
    BY DEF LeadInv, LeadTypeOK, Lead, ConvertLead
  <2> QED
    BY <1>2, <2>1 DEF Types
<1>4. x \in Call
  BY <1>2, <1>3 DEF NoCall, Call, Steps
<1>5. x.lead # Unset
  BY <1>2, UnsetAssumption
<1> HIDE DEF x
<1>6. ~PastIn(x) /\ ~SetsIn(x) /\ x.step # "own"
  BY <1>2 DEF PastIn, SetsIn
<1>7. ShapedIn(x)
  BY <1>2, <1>3, <1>5, <1>6 DEF ShapedIn
<1> QED
  BY <1>1, <1>2, <1>4, <1>6, <1>7, FreshCall, CallKeeps

LEMMA AssignLeadUserKeeps ==
    ASSUME LeadInv, NEW c \in Callers, NEW l \in Leads, NEW u \in Users,
           NEW primary \in BOOLEAN, AssignLeadUser(c, l, u, primary)
    PROVE  LeadInv'
<1> DEFINE x == [NoCall EXCEPT !.step = IF primary THEN "unown" ELSE "own",
                               !.row = <<l, u>>, !.primary = primary]
<1>1. /\ calls' = [calls EXCEPT ![c] = x] /\ ~At(c, "own")
      /\ UNCHANGED <<crmTables, leadObservations>>
  BY DEF AssignLeadUser, At
<1>2. /\ x.step = (IF primary THEN "unown" ELSE "own") /\ x.row = <<l, u>> /\ x.primary = primary
      /\ x.lead = Unset /\ x.sees = {} /\ x.late = {} /\ x.made = FALSE
  BY DEF NoCall
<1>3. <<l, u>> \in Seats
  BY DEF Seats
<1>4. x \in Call
  BY <1>3 DEF NoCall, Call, Steps
<1> HIDE DEF x
<1>5. ~PastIn(x) /\ ~SetsIn(x) /\ x.step # "commit"
  BY <1>2 DEF PastIn, SetsIn
<1>6. ShapedIn(x)
  BY <1>2, <1>3, <1>5 DEF ShapedIn
<1>7. SeenIn(x, roles) /\ OwnedIn(x, staff) /\ FoundIn(x, clients, roles) /\ \A r : ~HoldsIn(x, r)
  BY <1>2, <1>5 DEF SeenIn, OwnedIn, FoundIn, HoldsIn
<1> QED
  BY <1>1, <1>4, <1>5, <1>6, <1>7, CallKeeps

(* A call that goes on to another step of its transaction.                   *)
LEMMA StepOn ==
    ASSUME LeadInv, NEW c \in Callers, NEW t \in Steps
    PROVE  LET x == [calls[c] EXCEPT !.step = t]
           IN  /\ x \in Call /\ x.step = t /\ x.lead = calls[c].lead /\ x.row = calls[c].row
               /\ x.primary = calls[c].primary /\ x.sees = calls[c].sees /\ x.late = calls[c].late
               /\ x.made = calls[c].made
<1>1. calls[c] \in Call
  BY DEF LeadInv, LeadTypeOK
<1> QED
  BY <1>1 DEF Call

LEMMA ReplyKeeps ==
    ASSUME LeadInv, NEW c \in Callers, Reply(c), ~At(c, "own"), UNCHANGED <<crmTables, leadObservations>>
    PROVE  LeadInv'
  BY NoCallIsTyped, CallKeeps DEF Reply

LEMMA FindClientKeeps ==
    ASSUME LeadInv, NEW c \in Callers, FindClient(c)
    PROVE  LeadInv'
<1> DEFINE t == IF clients[Firm(c)] = "absent" THEN "newClient" ELSE "existing"
           x == [calls[c] EXCEPT !.step = t]
<1>1. /\ calls' = [calls EXCEPT ![c] = x] /\ calls[c].step = "client"
      /\ UNCHANGED <<crmTables, leadObservations>>
  BY DEF FindClient, Goto, At
<1>2. t \in Steps /\ t \in {"newClient", "existing"} /\ (t = "existing" => clients[calls[c].row[1]] # "absent")
  BY DEF Steps, Firm
<1> HIDE DEF t
<1>3. /\ x \in Call /\ x.step = t /\ x.lead = calls[c].lead /\ x.row = calls[c].row
      /\ x.primary = calls[c].primary /\ x.sees = calls[c].sees /\ x.late = calls[c].late
      /\ x.made = calls[c].made
  BY <1>2, StepOn
<1>4. ShapedIn(calls[c]) /\ SeenIn(calls[c], roles)
  BY CallBefore
<1> HIDE DEF x
<1>5. ~PastIn(x) /\ ~SetsIn(x) /\ x.step # "own" /\ x.step # "commit"
  BY <1>2, <1>3 DEF PastIn, SetsIn
<1>6. ShapedIn(x)
  BY <1>1, <1>2, <1>3, <1>4, <1>5 DEF ShapedIn
<1>7. SeenIn(x, roles) /\ OwnedIn(x, staff) /\ FoundIn(x, clients, roles) /\ \A r : ~HoldsIn(x, r)
  BY <1>2, <1>3, <1>4, <1>5 DEF SeenIn, OwnedIn, FoundIn, HoldsIn
<1>8. ~At(c, "own")
  BY <1>1 DEF At
<1> QED
  BY <1>1, <1>3, <1>5, <1>6, <1>7, <1>8, CallKeeps

LEMMA CreateClientKeeps ==
    ASSUME LeadInv, NEW c \in Callers, CreateClient(c)
    PROVE  LeadInv'
<1>0. calls[c].step = "newClient" /\ ~At(c, "own") /\ UNCHANGED <<crmTables, leadObservations>>
  BY DEF CreateClient, At
<1>1. CASE Reply(c)
  BY <1>0, <1>1, ReplyKeeps
<1>2. CASE calls' = [calls EXCEPT ![c].step = "existing", ![c].made = TRUE]
  <2> DEFINE x == [calls[c] EXCEPT !.step = "existing", !.made = TRUE]
  <2>0. calls[c] \in Call /\ ShapedIn(calls[c]) /\ SeenIn(calls[c], roles)
    BY CallBefore
  <2>1. calls' = [calls EXCEPT ![c] = x]
    BY <1>2, <2>0 DEF LeadInv, LeadTypeOK
  <2>2. /\ x \in Call /\ x.step = "existing" /\ x.lead = calls[c].lead /\ x.row = calls[c].row
        /\ x.primary = calls[c].primary /\ x.sees = calls[c].sees /\ x.late = calls[c].late
        /\ x.made = TRUE
    BY <2>0 DEF Call, Steps
  <2> HIDE DEF x
  <2>3. ~PastIn(x) /\ ~SetsIn(x) /\ x.step # "own" /\ x.step # "commit"
    BY <2>2 DEF PastIn, SetsIn
  <2>4. ShapedIn(x)
    BY <1>0, <2>0, <2>2, <2>3 DEF ShapedIn
  <2>5. SeenIn(x, roles) /\ OwnedIn(x, staff) /\ FoundIn(x, clients, roles) /\ \A r : ~HoldsIn(x, r)
    BY <2>0, <2>2, <2>3 DEF SeenIn, OwnedIn, FoundIn, HoldsIn
  <2> QED
    BY <1>0, <2>1, <2>2, <2>3, <2>4, <2>5, CallKeeps
<1> QED
  BY <1>1, <1>2 DEF CreateClient

LEMMA FindExistingRoleKeeps ==
    ASSUME LeadInv, NEW c \in Callers, FindExistingRole(c)
    PROVE  LeadInv'
<1> DEFINE call == calls[c]
<1>0. /\ call \in Call /\ ShapedIn(call) /\ SeenIn(call, roles) /\ FoundIn(call, clients, roles)
      /\ call.step = "existing" /\ ~At(c, "own") /\ UNCHANGED <<crmTables, leadObservations>>
  BY CallBefore DEF FindExistingRole, At
<1>1. ~call.primary /\ call.sees = {} /\ call.late = {} /\ call.lead # Unset
      /\ call.row \in Businesses \X (Contacts \union {Unset}) \X Types
  BY <1>0 DEF ShapedIn
<1>2. ASSUME call.row[2] = Unset \/ (call.row \in Roles /\ roles[call.row] # "absent"),
             Goto(c, "conversion")
      PROVE  LeadInv'
  <2> DEFINE x == [call EXCEPT !.step = "conversion"]
  <2>1. calls' = [calls EXCEPT ![c] = x]
    BY <1>2 DEF Goto
  <2>2. /\ x \in Call /\ x.step = "conversion" /\ x.lead = call.lead /\ x.row = call.row
        /\ x.primary = call.primary /\ x.sees = call.sees /\ x.late = call.late
        /\ x.made = call.made
    BY StepOn DEF Steps
  <2> HIDE DEF x, call
  <2>3. ~InsertsIn(x) /\ ~SetsIn(x) /\ x.step # "own" /\ x.step # "commit"
    BY <1>1, <2>2 DEF InsertsIn, SetsIn
  <2>4. ShapedIn(x)
    BY <1>0, <1>1, <2>2, <2>3 DEF ShapedIn
  <2>5. SeenIn(x, roles) /\ OwnedIn(x, staff) /\ \A r : ~HoldsIn(x, r)
    BY <1>0, <1>1, <2>2, <2>3 DEF SeenIn, OwnedIn, HoldsIn
  <2>6. FoundIn(x, clients, roles)
    BY <1>0, <1>1, <1>2, <2>2 DEF FoundIn
  <2> QED
    BY <1>0, <2>1, <2>2, <2>3, <2>4, <2>5, <2>6, CallKeeps
<1>3. ASSUME call.row[2] # Unset, calls' = [calls EXCEPT ![c].step = "clear", ![c].primary = TRUE]
      PROVE  LeadInv'
  <2> DEFINE x == [call EXCEPT !.step = "clear", !.primary = TRUE]
  <2>1. calls' = [calls EXCEPT ![c] = x]
    BY <1>3 DEF LeadInv, LeadTypeOK
  <2>2. /\ x \in Call /\ x.step = "clear" /\ x.lead = call.lead /\ x.row = call.row
        /\ x.primary = TRUE /\ x.sees = call.sees /\ x.late = call.late
        /\ x.made = call.made
    BY <1>0 DEF Call, Steps
  <2> HIDE DEF x, call
  <2>3. ~PastIn(x) /\ ~SetsIn(x) /\ x.step # "own" /\ x.step # "commit"
    BY <2>2 DEF PastIn, SetsIn
  <2>4. x.row \in Roles
    BY <1>1, <1>3, <2>2 DEF Roles
  <2>5. ShapedIn(x)
    BY <1>0, <1>1, <2>2, <2>3, <2>4 DEF ShapedIn
  <2>6. SeenIn(x, roles) /\ OwnedIn(x, staff) /\ FoundIn(x, clients, roles) /\ \A r : ~HoldsIn(x, r)
    BY <1>0, <2>2, <2>3 DEF SeenIn, OwnedIn, FoundIn, HoldsIn
  <2> QED
    BY <1>0, <2>1, <2>2, <2>3, <2>5, <2>6, CallKeeps
<1> QED
  BY <1>2, <1>3 DEF FindExistingRole

LEMMA ClearPrimaryKeeps ==
    ASSUME LeadInv, NEW c \in Callers, ClearPrimary(c)
    PROVE  LeadInv'
<1> DEFINE call == calls[c]
           p == PrimariesIn(roles, call.row[1])
           x == [call EXCEPT !.step = "lock", !.sees = p]
<1>0. /\ call \in Call /\ ShapedIn(call) /\ SeenIn(call, roles) /\ FoundIn(call, clients, roles)
      /\ call.step = "clear" /\ ~At(c, "own") /\ UNCHANGED <<crmTables, leadObservations>>
  BY CallBefore DEF ClearPrimary, At
<1>1. p = Primaries(Firm(c)) /\ p \subseteq Roles /\ \A r \in p : roles[r] = "primary" /\ r[1] = call.row[1]
  BY DEF PrimariesIn, Primaries, Firm
<1>2. calls' = [calls EXCEPT ![c] = x]
  <2> HIDE DEF p
  <2> QED
    BY <1>1 DEF ClearPrimary, LeadInv, LeadTypeOK
<1> HIDE DEF p
<1>3. /\ x \in Call /\ x.step = "lock" /\ x.lead = call.lead /\ x.row = call.row
      /\ x.primary = call.primary /\ x.sees = p /\ x.late = call.late /\ x.made = call.made
  BY <1>0, <1>1 DEF Call, Steps
<1> HIDE DEF x, call
<1>4. ~PastIn(x) /\ x.step # "own" /\ x.step # "commit"
  BY <1>3 DEF PastIn
<1>5. ShapedIn(x)
  BY <1>0, <1>3, <1>4 DEF ShapedIn
<1>6. SeenIn(x, roles)
  BY <1>1, <1>3 DEF SeenIn, p
<1>7. OwnedIn(x, staff) /\ FoundIn(x, clients, roles) /\ \A r : ~HoldsIn(x, r)
  BY <1>0, <1>3, <1>4 DEF OwnedIn, FoundIn, HoldsIn
<1> QED
  BY <1>0, <1>2, <1>3, <1>4, <1>5, <1>6, <1>7, CallKeeps

LEMMA LockPrimariesKeeps ==
    ASSUME LeadInv, NEW c \in Callers, LockPrimaries(c)
    PROVE  LeadInv'
<1> DEFINE call == calls[c]
           p == {r \in call.sees : roles[r] = "primary"}
           x == [call EXCEPT !.step = "role", !.sees = p]
<1>0. /\ call \in Call /\ ShapedIn(call) /\ SeenIn(call, roles) /\ FoundIn(call, clients, roles)
      /\ call.step = "lock" /\ ~At(c, "own") /\ UNCHANGED <<crmTables, leadObservations>>
  BY CallBefore DEF LockPrimaries, At
<1>1. calls' = [calls EXCEPT ![c] = x]
  BY DEF LockPrimaries, LeadInv, LeadTypeOK
<1>2. p \subseteq call.sees /\ p \subseteq Roles
  BY <1>0 DEF Call
<1>3. /\ x \in Call /\ x.step = "role" /\ x.lead = call.lead /\ x.row = call.row
      /\ x.primary = call.primary /\ x.sees = p /\ x.late = call.late /\ x.made = call.made
  <2> HIDE DEF p
  <2> QED
    BY <1>0, <1>2 DEF Call, Steps
<1> HIDE DEF x, call
<1>4. ~PastIn(x) /\ x.step # "own" /\ x.step # "commit"
  BY <1>3 DEF PastIn
<1>5. ShapedIn(x)
  BY <1>0, <1>2, <1>3, <1>4 DEF ShapedIn
<1>6. SeenIn(x, roles)
  <2>1. SetsIn(call) /\ call.primary
    BY <1>0 DEF SetsIn, ShapedIn
  <2>2. PrimariesIn(roles, call.row[1]) \subseteq call.sees \union call.late
    BY <1>0, <2>1 DEF SeenIn
  <2>3. PrimariesIn(roles, call.row[1]) \subseteq p \union call.late
    BY <2>2 DEF PrimariesIn
  <2> QED
    BY <1>0, <1>2, <1>3, <2>3 DEF SeenIn
<1>7. OwnedIn(x, staff) /\ FoundIn(x, clients, roles) /\ \A r : ~HoldsIn(x, r)
  BY <1>0, <1>3, <1>4 DEF OwnedIn, FoundIn, HoldsIn
<1> QED
  BY <1>0, <1>1, <1>3, <1>4, <1>5, <1>6, <1>7, CallKeeps

LEMMA InsertRoleKeeps ==
    ASSUME LeadInv, NEW c \in Callers, InsertRole(c)
    PROVE  LeadInv'
<1> DEFINE call == calls[c]
           t == IF call.lead = Unset THEN "commit" ELSE "conversion"
           x == [call EXCEPT !.step = t]
<1>0. /\ call \in Call /\ ShapedIn(call) /\ SeenIn(call, roles) /\ FoundIn(call, clients, roles)
      /\ call.step = "role" /\ ~At(c, "own") /\ UNCHANGED <<crmTables, leadObservations>>
  BY CallBefore DEF InsertRole, At
<1>1. CASE Reply(c)
  BY <1>0, <1>1, ReplyKeeps
<1>2. ASSUME roles[call.row] = "absent", Goto(c, t) PROVE LeadInv'
  <2>1. calls' = [calls EXCEPT ![c] = x]
    BY <1>2 DEF Goto
  <2>2. t \in Steps /\ t \in {"commit", "conversion"} /\ (t = "commit" <=> call.lead = Unset)
    BY DEF Steps
  <2>3. \A d \in Callers : d # c => ~HoldsIn(calls[d], call.row)
    BY DEF InsertRole, Others, HasInserted, HoldsIn, PastIn, InsertsIn, At
  <2> HIDE DEF t
  <2>4. /\ x \in Call /\ x.step = t /\ x.lead = call.lead /\ x.row = call.row
        /\ x.primary = call.primary /\ x.sees = call.sees /\ x.late = call.late
        /\ x.made = call.made
    BY <2>2, StepOn
  <2> HIDE DEF x, call
  <2>5. call.row \in Roles /\ (call.lead # Unset => call.primary)
    BY <1>0 DEF ShapedIn
  <2>6. ShapedIn(x)
    BY <1>0, <2>2, <2>4, <2>5 DEF ShapedIn
  <2>7. SeenIn(x, roles) /\ OwnedIn(x, staff)
    BY <1>0, <2>2, <2>4 DEF SeenIn, OwnedIn, SetsIn
  <2>8. FoundIn(x, clients, roles)
    BY <1>0, <2>4, <2>5 DEF FoundIn
  <2>9. \A r : HoldsIn(x, r) => /\ roles[r] = "absent"
                               /\ \A d \in Callers : d # c => ~HoldsIn(calls[d], r)
    BY <1>2, <2>3, <2>4 DEF HoldsIn
  <2>10. ~(x.lead # Unset /\ x.step = "commit")
    BY <2>2, <2>4
  <2> QED
    BY <1>0, <2>1, <2>4, <2>6, <2>7, <2>8, <2>9, <2>10, CallKeeps
<1> QED
  BY <1>1, <1>2 DEF InsertRole

LEMMA CreateConversionKeeps ==
    ASSUME LeadInv, NEW c \in Callers, CreateConversion(c)
    PROVE  LeadInv'
<1> DEFINE call == calls[c]
           x == [call EXCEPT !.step = "commit"]
<1>0. /\ call \in Call /\ ShapedIn(call) /\ SeenIn(call, roles) /\ FoundIn(call, clients, roles)
      /\ call.step = "conversion" /\ ~At(c, "own") /\ UNCHANGED <<crmTables, leadObservations>>
  BY CallBefore DEF CreateConversion, At
<1>1. CASE Reply(c)
  BY <1>0, <1>1, ReplyKeeps
<1>2. ASSUME ~Converted(call.lead, Firm(c)), Goto(c, "commit") PROVE LeadInv'
  <2>1. calls' = [calls EXCEPT ![c] = x]
    BY <1>2 DEF Goto
  <2>2. /\ ~ConvertedIn(conversions, call.lead, call.row[1])
        /\ \A d \in Callers : d # c => ~ConvertsIn(calls[d], call.lead, call.row[1])
    BY <1>2 DEF CreateConversion, Converted, ConvertedIn, Converting, ConvertsIn, Others, At, Firm
  <2>3. /\ x \in Call /\ x.step = "commit" /\ x.lead = call.lead /\ x.row = call.row
        /\ x.primary = call.primary /\ x.sees = call.sees /\ x.late = call.late
        /\ x.made = call.made
    BY StepOn DEF Steps
  <2>4. NewIn(calls, roles)
    BY CallsRead DEF LeadInv
  <2>5. \A r : HoldsIn(x, r) => HoldsIn(calls[c], r)
    BY <1>0, <2>3 DEF HoldsIn, PastIn, InsertsIn
  <2>6. \A r : HoldsIn(x, r) => /\ roles[r] = "absent"
                               /\ \A d \in Callers : d # c => ~HoldsIn(calls[d], r)
    BY <2>4, <2>5 DEF NewIn
  <2> HIDE DEF x, call
  <2>7. ShapedIn(x)
    BY <1>0, <2>3 DEF ShapedIn, PastIn, InsertsIn
  <2>8. SeenIn(x, roles) /\ OwnedIn(x, staff)
    BY <1>0, <2>3 DEF SeenIn, OwnedIn, SetsIn
  <2>9. FoundIn(x, clients, roles)
    BY <1>0, <2>3 DEF FoundIn, PastIn
  <2> QED
    BY <1>0, <2>1, <2>2, <2>3, <2>6, <2>7, <2>8, <2>9, CallKeeps
<1> QED
  BY <1>1, <1>2 DEF CreateConversion

(* A call that missed a primary set by another is as it was but for that.    *)
Misses(x, y, n) ==
    /\ y.step = x.step /\ y.lead = x.lead /\ y.row = x.row /\ y.primary = x.primary
    /\ y.sees = x.sees /\ y.made = x.made
    /\ y.late = x.late \/ (y.late = x.late \union {n} /\ x.primary /\ x.step \notin {"clear", "unown"})

LEMMA MissesAre ==
    ASSUME NEW x, NEW y, NEW n, Misses(x, y, n)
    PROVE  /\ PastIn(y) = PastIn(x) /\ InsertsIn(y) = InsertsIn(x) /\ SetsIn(y) = SetsIn(x)
           /\ \A r : HoldsIn(y, r) <=> HoldsIn(x, r)
           /\ \A l, b : ConvertsIn(y, l, b) <=> ConvertsIn(x, l, b)
           /\ \A l : ChangesIn(y, l) <=> ChangesIn(x, l)
           /\ ShapedIn(x) => ShapedIn(y)
           /\ x.late \subseteq y.late
<1>0. /\ y.step = x.step /\ y.lead = x.lead /\ y.row = x.row /\ y.primary = x.primary
      /\ y.sees = x.sees /\ y.made = x.made
      /\ y.late = x.late \/ (y.late = x.late \union {n} /\ x.primary /\ x.step \notin {"clear", "unown"})
  BY DEF Misses
<1>1. PastIn(y) = PastIn(x) /\ InsertsIn(y) = InsertsIn(x) /\ SetsIn(y) = SetsIn(x)
  BY <1>0 DEF PastIn, InsertsIn, SetsIn
<1>2. /\ \A r : HoldsIn(y, r) <=> HoldsIn(x, r)
      /\ \A l, b : ConvertsIn(y, l, b) <=> ConvertsIn(x, l, b)
      /\ \A l : ChangesIn(y, l) <=> ChangesIn(x, l)
  BY <1>0, <1>1 DEF HoldsIn, ConvertsIn, ChangesIn
<1>3. ShapedIn(x) => ShapedIn(y)
  BY <1>0, <1>1 DEF ShapedIn
<1>4. x.late \subseteq y.late
  BY <1>0
<1> QED
  BY <1>1, <1>2, <1>3, <1>4

LEMMA MissesTyped ==
    ASSUME NEW x \in Call, NEW n \in Roles \union Seats,
           x.primary, x.step \notin {"clear", "unown"}
    PROVE  LET y == [x EXCEPT !.late = x.late \union {n}]
           IN  y \in Call /\ Misses(x, y, n) /\ n \in y.late
  BY DEF Call, Misses

LEMMA CommitKeeps ==
    ASSUME LeadInv, NEW c \in Callers, CommitTransaction(c)
    PROVE  LeadInv'
<1> DEFINE call == calls[c]
           n == call.row
           ins == InsertsIn(call)
<1>0. /\ call \in Call /\ ShapedIn(call) /\ SeenIn(call, roles) /\ FoundIn(call, clients, roles)
      /\ call.step = "commit" /\ LeadTypeOK /\ PastIn(call)
  BY CallBefore DEF CommitTransaction, At, LeadInv, PastIn
<1>1. /\ \A d \in Callers : calls[d] \in Call /\ ShapedIn(calls[d]) /\ SeenIn(calls[d], roles)
      /\ \A d \in Callers : OwnedIn(calls[d], staff) /\ FoundIn(calls[d], clients, roles)
      /\ NewIn(calls, roles) /\ AloneIn(calls, conversions) /\ TwoIn(roles, missed)
      /\ AccountIn(staff, owned, missed, calls)
  BY CallBefore, CallsRead DEF LeadInv
<1>2. /\ ins => n \in Roles
      /\ call.lead # Unset => n \in Businesses \X (Contacts \union {Unset}) \X {Representative}
      /\ n \in Businesses \X (Contacts \union {Unset}) \X Types
      /\ call.made => call.lead # Unset
      /\ ~call.primary => call.sees = {} /\ call.late = {}
      /\ call.primary => ins
  BY <1>0 DEF ShapedIn, InsertsIn
<1>3. /\ roles' = [r \in Roles |-> IF ins /\ r = n THEN IF call.primary THEN "primary" ELSE "plain"
                                  ELSE IF r \in call.sees THEN "plain" ELSE roles[r]]
      /\ clients' = (IF call.made THEN [clients EXCEPT ![n[1]] = "converted"] ELSE clients)
      /\ call.lead = Unset => UNCHANGED <<conversions, read>>
      /\ call.lead # Unset => /\ conversions' = [conversions EXCEPT ![call.lead] = n[1]]
                              /\ read' = [read EXCEPT ![call.lead] = n[2]]
      /\ missed' = missed \union {{n, r} : r \in call.late}
      /\ UNCHANGED <<leads, staff, owned>>
  <2>1. \A r : HasInserted(c, r) <=> ins /\ r = n
    BY <1>0 DEF HasInserted, InsertsIn, At
  <2> QED
    BY <2>1 DEF CommitTransaction, Firm
<1>4. calls' = [d \in Callers |->
                  IF d = c THEN NoCall
                  ELSE IF call.primary /\ SetsIn(calls[d]) /\ calls[d].row[1] = n[1]
                  THEN [calls[d] EXCEPT !.late = calls[d].late \union {n}]
                  ELSE calls[d]]
  BY DEF CommitTransaction, SetsPrimary, SetsIn, Firm
<1>5. ASSUME NEW d \in Callers, d # c
      PROVE  /\ calls'[d] \in Call /\ Misses(calls[d], calls'[d], n)
             /\ call.primary /\ SetsIn(calls[d]) /\ calls[d].row[1] = n[1] => n \in calls'[d].late
  <2>1. CASE call.primary /\ SetsIn(calls[d]) /\ calls[d].row[1] = n[1]
    <3>1. n \in Roles \union Seats /\ calls[d].primary /\ calls[d].step \notin {"clear", "unown"}
      BY <1>2, <2>1 DEF SetsIn
    <3>2. calls'[d] = [calls[d] EXCEPT !.late = calls[d].late \union {n}]
      BY <1>4, <1>5, <2>1
    <3> QED
      BY <1>1, <3>1, <3>2, MissesTyped
  <2>2. CASE ~(call.primary /\ SetsIn(calls[d]) /\ calls[d].row[1] = n[1])
    <3>1. calls'[d] = calls[d]
      BY <1>4, <1>5, <2>2
    <3> QED
      BY <1>1, <2>2, <3>1 DEF Misses
  <2> QED
    BY <2>1, <2>2
<1>6. calls'[c] = NoCall /\ calls' \in [Callers -> Call]
  <2>1. calls'[c] = NoCall
    BY <1>4
  <2>2. \A d \in Callers : calls'[d] \in Call
    BY <1>5, <2>1, NoCallIsTyped
  <2> QED
    BY <1>4, <2>1, <2>2
<1> HIDE DEF call, n, ins
<1>7. ASSUME NEW r \in Roles
      PROVE  /\ roles[r] # "absent" => roles'[r] # "absent"
             /\ roles'[r] = "primary" => \/ r = n /\ ins /\ call.primary
                                         \/ roles[r] = "primary" /\ r \notin call.sees
             /\ r # n \/ ~ins => (roles[r] = "absent" => roles'[r] = "absent")
             /\ ins /\ r = n => roles'[r] # "absent"
  <2>1. \A q \in call.sees : roles[q] # "absent"
    BY <1>0 DEF SeenIn
  <2> QED
    BY <1>3, <2>1
<1>8. LeadTypeOK'
  <2>1. roles' \in [Roles -> Mark]
    BY <1>0, <1>3 DEF LeadTypeOK, Mark
  <2>2. clients' \in [Businesses -> {"absent", "imported", "converted"}]
    BY <1>0, <1>3 DEF LeadTypeOK
  <2>3. n[1] \in Businesses /\ n[2] \in Contacts \union {Unset}
    BY <1>2
  <2>4. conversions' \in [Leads -> Businesses \union {Unset}] /\ read' \in [Leads -> Contacts \union {Unset}]
    BY <1>0, <1>3, <2>3 DEF LeadTypeOK
  <2>5. missed' \subseteq SUBSET (Roles \union Seats)
    <3>1. call.late \subseteq Roles \union Seats
      BY <1>0 DEF Call
    <3>2. ASSUME NEW r \in call.late PROVE {n, r} \subseteq Roles \union Seats
      BY <1>2, <3>1
    <3> QED
      BY <1>0, <1>3, <3>2 DEF LeadTypeOK
  <2> QED
    BY <1>0, <1>3, <1>6, <2>1, <2>2, <2>4, <2>5 DEF LeadTypeOK
<1>9. \A d \in Callers : ShapedIn(calls'[d])
  BY <1>1, <1>5, <1>6, MissesAre, NoCallIsTyped
<1>10. NewIn(calls', roles')
  <2> SUFFICES ASSUME NEW d \in Callers, NEW r, HoldsIn(calls'[d], r)
               PROVE  roles'[r] = "absent" /\ \A e \in Callers : e # d => ~HoldsIn(calls'[e], r)
    BY DEF NewIn
  <2>1. d # c
    BY <1>6, NoCallIsTyped
  <2>2. HoldsIn(calls[d], r)
    BY <1>5, <2>1, MissesAre
  <2>3. roles[r] = "absent" /\ \A e \in Callers : e # d => ~HoldsIn(calls[e], r)
    BY <1>1, <2>2 DEF NewIn
  <2>4. r \in Roles
    BY <1>1, <2>2 DEF HoldsIn, ShapedIn
  <2>5. r # n \/ ~ins
    BY <1>0, <2>1, <2>3 DEF HoldsIn, call, n, ins
  <2>6. ASSUME NEW e \in Callers, e # d PROVE ~HoldsIn(calls'[e], r)
    BY <1>5, <1>6, <2>3, <2>6, MissesAre, NoCallIsTyped
  <2> QED
    BY <1>7, <2>3, <2>4, <2>5, <2>6
<1>11. \A d \in Callers : SeenIn(calls'[d], roles')
  <2> SUFFICES ASSUME NEW d \in Callers, d # c PROVE SeenIn(calls'[d], roles')
    BY <1>6, NoCallIsTyped
  <2>0. Misses(calls[d], calls'[d], n) /\ SeenIn(calls[d], roles) /\ calls[d] \in Call
    BY <1>1, <1>5
  <2>1. \A r \in calls'[d].sees : r[1] = calls'[d].row[1] /\ roles'[r] # "absent"
    BY <1>7, <2>0 DEF SeenIn, Misses, Call
  <2>2. ASSUME SetsIn(calls'[d]), NEW r \in PrimariesIn(roles', calls'[d].row[1])
        PROVE  r \in calls'[d].sees \union calls'[d].late
    <3>0. SetsIn(calls[d]) /\ calls'[d].row = calls[d].row /\ calls'[d].sees = calls[d].sees
          /\ calls[d].late \subseteq calls'[d].late
      BY <2>0, <2>2, MissesAre DEF Misses
    <3>1. r \in Roles /\ r[1] = calls[d].row[1] /\ roles'[r] = "primary"
      BY <2>2, <3>0 DEF PrimariesIn
    <3>2. CASE r = n /\ call.primary
      BY <1>5, <3>0, <3>1, <3>2
    <3>3. CASE roles[r] = "primary"
      <4>1. r \in PrimariesIn(roles, calls[d].row[1])
        BY <3>1, <3>3 DEF PrimariesIn
      <4> QED
        BY <2>0, <3>0, <4>1 DEF SeenIn
    <3> QED
      BY <1>7, <3>1, <3>2, <3>3
  <2> QED
    BY <2>1, <2>2 DEF SeenIn
<1>12. \A d \in Callers : FoundIn(calls'[d], clients', roles')
  <2> SUFFICES ASSUME NEW d \in Callers, d # c, calls'[d].lead # Unset PROVE FoundIn(calls'[d], clients', roles')
    BY <1>6, NoCallIsTyped DEF FoundIn
  <2>0. Misses(calls[d], calls'[d], n) /\ FoundIn(calls[d], clients, roles) /\ ShapedIn(calls[d])
    BY <1>1, <1>5
  <2>1. \A b \in Businesses : clients[b] # "absent" => clients'[b] # "absent"
    BY <1>0, <1>3 DEF LeadTypeOK
  <2>2. calls[d].lead # Unset /\ calls'[d].row = calls[d].row /\ calls[d].step # "none"
    BY <2>0 DEF Misses, ShapedIn
  <2>3. calls[d].row \in Businesses \X (Contacts \union {Unset}) \X Types
    BY <2>0, <2>2 DEF ShapedIn
  <2>4. calls[d].row[1] \in Businesses /\ (calls[d].row[2] # Unset => calls[d].row \in Roles)
    BY <2>3 DEF Roles
  <2>5. calls'[d].step \in {"client", "newClient"} \/ calls'[d].made \/ clients'[calls'[d].row[1]] # "absent"
    BY <2>0, <2>1, <2>2, <2>4 DEF FoundIn, Misses
  <2>6. PastIn(calls'[d]) /\ ~calls'[d].primary /\ calls'[d].row[2] # Unset => roles'[calls'[d].row] # "absent"
    BY <1>7, <2>0, <2>2, <2>4 DEF FoundIn, Misses, PastIn
  <2> QED
    BY <2>5, <2>6 DEF FoundIn
<1>13. AloneIn(calls', conversions')
  <2> SUFFICES ASSUME NEW d \in Callers, calls'[d].lead # Unset, calls'[d].step = "commit"
               PROVE  /\ ~ConvertedIn(conversions', calls'[d].lead, calls'[d].row[1])
                      /\ \A e \in Callers : e # d => ~ConvertsIn(calls'[e], calls'[d].lead, calls'[d].row[1])
    BY DEF AloneIn
  <2>1. d # c
    BY <1>6, NoCallIsTyped
  <2>2. calls'[d].lead = calls[d].lead /\ calls'[d].row = calls[d].row /\ calls[d].step = "commit"
    BY <1>5, <2>1 DEF Misses
  <2> DEFINE l == calls[d].lead  b == calls[d].row[1]
  <2>3. /\ ~ConvertedIn(conversions, l, b)
        /\ \A e \in Callers : e # d => ~ConvertsIn(calls[e], l, b)
    BY <1>1, <2>2 DEF AloneIn
  <2>4. l \in Leads
    BY <1>1, <2>2 DEF Call
  <2>5. call.lead # Unset => call.lead # l /\ n[1] # b
    BY <1>0, <2>1, <2>3 DEF ConvertsIn, call, n
  <2>6. ~ConvertedIn(conversions', l, b)
    <3> HIDE DEF l, b
    <3> QED
      BY <1>0, <1>3, <2>3, <2>4, <2>5 DEF ConvertedIn, LeadTypeOK
  <2>7. ASSUME NEW e \in Callers, e # d PROVE ~ConvertsIn(calls'[e], l, b)
    <3>1. CASE e = c
      BY <1>6, <3>1, NoCallIsTyped DEF ConvertsIn
    <3>2. CASE e # c
      BY <1>5, <2>3, <2>7, <3>2, MissesAre
    <3> QED
      BY <3>1, <3>2
  <2> QED
    BY <2>2, <2>6, <2>7
<1>14. \A d \in Callers : OwnedIn(calls'[d], staff')
  <2> SUFFICES ASSUME NEW d \in Callers, d # c PROVE OwnedIn(calls'[d], staff)
    BY <1>3, <1>6, NoCallIsTyped
  <2>1. Misses(calls[d], calls'[d], n) /\ OwnedIn(calls[d], staff) /\ calls[d].late \subseteq calls'[d].late
    BY <1>1, <1>5, MissesAre
  <2> QED
    BY <2>1 DEF OwnedIn, Misses
<1>15. TwoIn(roles', missed')
  <2> SUFFICES ASSUME NEW b \in Businesses, NEW r \in PrimariesIn(roles', b), NEW q \in PrimariesIn(roles', b), r # q
               PROVE  {r, q} \in missed'
    BY DEF TwoIn
  <2>0. r \in Roles /\ q \in Roles /\ r[1] = b /\ q[1] = b /\ roles'[r] = "primary" /\ roles'[q] = "primary"
    BY DEF PrimariesIn
  <2>1. ASSUME NEW v \in Roles, v[1] = b, n[1] = b, roles[v] = "primary", v \notin call.sees, ins, call.primary
        PROVE  {n, v} \in missed'
    <3>1. SetsIn(call)
      BY <1>0, <2>1 DEF SetsIn
    <3>2. v \in PrimariesIn(roles, n[1])
      BY <2>1 DEF PrimariesIn
    <3>3. v \in call.late
      BY <1>0, <2>1, <3>1, <3>2 DEF SeenIn, n
    <3> QED
      BY <1>3, <3>3
  <2>2. CASE r = n /\ ins /\ call.primary
    BY <1>7, <2>0, <2>1, <2>2
  <2>3. CASE q = n /\ ins /\ call.primary
    <3>1. {q, r} \in missed'
      BY <1>7, <2>0, <2>1, <2>3
    <3>2. {q, r} = {r, q}
      OBVIOUS
    <3> QED
      BY <3>1, <3>2
  <2>4. CASE roles[r] = "primary" /\ roles[q] = "primary"
    <3>1. r \in PrimariesIn(roles, b) /\ q \in PrimariesIn(roles, b)
      BY <2>0, <2>4 DEF PrimariesIn
    <3> QED
      BY <1>1, <1>3, <3>1 DEF TwoIn
  <2> QED
    BY <1>7, <2>0, <2>2, <2>3, <2>4
<1>16. ConversionIsWhole'
  <2>0. ConversionIsWhole
    BY DEF LeadInv
  <2>1. CASE call.lead = Unset
    <3>1. UNCHANGED <<clients, conversions, read>>
      BY <1>2, <1>3, <2>1
    <3>2. \A l \in Leads : conversions[l] # Unset /\ read[l] # Unset => <<conversions[l], read[l], Representative>> \in Roles
      BY <1>0 DEF LeadTypeOK, Roles, Types
    <3> QED
      BY <1>7, <2>0, <3>1, <3>2 DEF ConversionIsWhole
  <2>2. CASE call.lead # Unset
    <3> DEFINE l == call.lead  b == n[1]
    <3>0. l \in Leads /\ b \in Businesses /\ b # Unset
      BY <1>0, <1>2, <2>2, UnsetAssumption DEF Call
    <3>1. conversions[l] = Unset /\ \A m \in Leads : conversions[m] # b
      BY <1>0, <1>1, <2>2 DEF AloneIn, ConvertedIn, call, n
    <3>2. /\ conversions'[l] = b /\ read'[l] = n[2]
          /\ \A m \in Leads : m # l => conversions'[m] = conversions[m] /\ read'[m] = read[m]
      BY <1>0, <1>3, <2>2, <3>0 DEF LeadTypeOK
    <3>3. \A e \in Businesses : clients'[e] = "converted" => e = b \/ clients[e] = "converted"
      BY <1>0, <1>3 DEF LeadTypeOK
    <3>4. \A e \in Businesses : clients[e] # "absent" => clients'[e] # "absent"
      BY <1>0, <1>3 DEF LeadTypeOK
    <3>5. clients'[b] # "absent"
      <4>1. CASE call.made
        BY <1>0, <1>3, <3>0, <4>1 DEF LeadTypeOK
      <4>2. CASE ~call.made
        <5>1. clients[b] # "absent"
          BY <1>0, <2>2, <4>2 DEF FoundIn, n
        <5> QED
          BY <3>0, <3>4, <5>1
      <4> QED
        BY <4>1, <4>2
    <3>6. n[2] # Unset => n \in Roles /\ n = <<b, n[2], Representative>> /\ roles'[n] # "absent"
      <4> SUFFICES ASSUME n[2] # Unset PROVE n \in Roles /\ n = <<b, n[2], Representative>> /\ roles'[n] # "absent"
        OBVIOUS
      <4>1. n \in Roles /\ n = <<b, n[2], Representative>>
        BY <1>2, <2>2 DEF Roles, Types
      <4>2. CASE ins
        BY <1>7, <4>1, <4>2
      <4>3. CASE ~ins
        <5>1. roles[n] # "absent"
          BY <1>0, <1>2, <2>2, <4>3 DEF FoundIn, n
        <5> QED
          BY <1>7, <4>1, <5>1
      <4> QED
        BY <4>1, <4>2, <4>3
    <3> HIDE DEF l, b
    <3>7. \A e \in Businesses : clients'[e] = "converted" => \E m \in Leads : conversions'[m] = e
      <4> SUFFICES ASSUME NEW e \in Businesses, clients'[e] = "converted"
                   PROVE  \E m \in Leads : conversions'[m] = e
        OBVIOUS
      <4>1. CASE e = b
        BY <3>0, <3>2, <4>1
      <4>2. CASE e # b
        <5>1. PICK m \in Leads : conversions[m] = e
          BY <2>0, <3>3, <4>2 DEF ConversionIsWhole
        <5>2. m # l
          BY <3>1, <5>1, UnsetAssumption
        <5> QED
          BY <3>2, <5>1, <5>2
      <4> QED
        BY <4>1, <4>2
    <3>8. \A m, k \in Leads : conversions'[m] = conversions'[k] /\ conversions'[m] # Unset => m = k
      BY <2>0, <3>0, <3>1, <3>2 DEF ConversionIsWhole
    <3>9. ASSUME NEW m \in Leads, conversions'[m] # Unset
          PROVE  /\ clients'[conversions'[m]] # "absent"
                 /\ read'[m] # Unset => roles'[<<conversions'[m], read'[m], Representative>>] # "absent"
      <4>1. CASE m = l
        BY <3>2, <3>5, <3>6, <4>1
      <4>2. CASE m # l
        <5>1. conversions'[m] = conversions[m] /\ read'[m] = read[m] /\ conversions[m] \in Businesses
          BY <1>0, <3>2, <3>9, <4>2 DEF LeadTypeOK
        <5>2. read[m] # Unset => <<conversions[m], read[m], Representative>> \in Roles
          BY <1>0, <5>1 DEF LeadTypeOK, Roles, Types
        <5> QED
          BY <1>7, <2>0, <3>4, <3>9, <5>1, <5>2 DEF ConversionIsWhole
      <4> QED
        BY <4>1, <4>2
    <3> QED
      BY <3>7, <3>8, <3>9 DEF ConversionIsWhole
  <2> QED
    BY <2>1, <2>2
<1>17. AccountIn(staff', owned', missed', calls')
  <2>1. ASSUME NEW d \in Callers, NEW l \in Leads, ChangesIn(calls[d], l) PROVE ChangesIn(calls'[d], l)
    <3>1. d # c
      BY <1>0, <2>1 DEF ChangesIn, call
    <3> QED
      BY <1>5, <2>1, <3>1, MissesAre
  <2>2. missed \subseteq missed'
    BY <1>3
  <2> QED
    BY <1>1, <1>3, <2>1, <2>2 DEF AccountIn
<1> QED
  BY <1>8, <1>9, <1>10, <1>11, <1>12, <1>13, <1>14, <1>15, <1>16, <1>17, CallsReadNext DEF LeadInv

LEMMA ClearOwnersKeeps ==
    ASSUME LeadInv, NEW c \in Callers, ClearOwners(c)
    PROVE  LeadInv'
<1> DEFINE call == calls[c]
           l == call.row[1]
           x == [call EXCEPT !.step = "own"]
<1>0. /\ call \in Call /\ ShapedIn(call) /\ SeenIn(call, roles) /\ LeadTypeOK
      /\ call.step = "unown" /\ ~At(c, "own")
  BY CallBefore DEF ClearOwners, At, LeadInv
<1>1. /\ calls' = [calls EXCEPT ![c] = x]
      /\ staff' = [s \in Seats |-> IF s \in Owners(l) THEN "plain" ELSE staff[s]]
      /\ UNCHANGED <<leads, clients, conversions, roles, read, missed, owned>>
  BY DEF ClearOwners, Goto, leadObservations
<1>2. /\ x \in Call /\ x.step = "own" /\ x.lead = call.lead /\ x.row = call.row
      /\ x.primary = call.primary /\ x.sees = call.sees /\ x.late = call.late
      /\ x.made = call.made
  BY StepOn DEF Steps
<1>3. call.primary /\ call.row \in Seats /\ call.lead = Unset /\ l \in Leads
  BY <1>0 DEF ShapedIn, Seats
<1> HIDE DEF x, call, l
<1>4. /\ \A d \in Callers : ShapedIn(calls[d]) /\ SeenIn(calls[d], roles) /\ OwnedIn(calls[d], staff)
      /\ \A d \in Callers : FoundIn(calls[d], clients, roles)
      /\ NewIn(calls, roles) /\ AloneIn(calls, conversions) /\ TwoIn(roles, missed)
      /\ AccountIn(staff, owned, missed, calls)
  BY CallBefore, CallsRead DEF LeadInv
<1>5. /\ \A d \in Callers : calls'[d] = IF d = c THEN x ELSE calls[d]
      /\ calls' \in [Callers -> Call]
  BY <1>0, <1>1, <1>2 DEF LeadTypeOK
<1>6. \A k : OwnersIn(staff', k) = IF k = l THEN {} ELSE OwnersIn(staff, k)
  BY <1>1 DEF OwnersIn, Owners
<1>7. LeadTypeOK'
  <2>1. staff' \in [Seats -> Mark]
    BY <1>0, <1>1 DEF LeadTypeOK, Mark
  <2> QED
    BY <1>0, <1>1, <1>5, <2>1 DEF LeadTypeOK
<1>8. ShapedIn(x) /\ SeenIn(x, roles) /\ FoundIn(x, clients, roles)
  BY <1>0, <1>2, <1>3 DEF ShapedIn, SeenIn, FoundIn, SetsIn, PastIn
<1>9. \A d \in Callers : OwnedIn(calls'[d], staff')
  <2>1. OwnedIn(x, staff')
    BY <1>2, <1>6 DEF OwnedIn, l
  <2>2. ASSUME NEW d \in Callers PROVE OwnedIn(calls[d], staff')
    BY <1>4, <1>6 DEF OwnedIn
  <2> QED
    BY <1>5, <2>1, <2>2
<1>10. /\ \A r : ~HoldsIn(x, r)
       /\ \A k, b : ~ConvertsIn(x, k, b)
       /\ x.step # "commit"
  BY <1>2 DEF HoldsIn, PastIn, ConvertsIn
<1>11. NewIn(calls', roles)
  BY <1>4, <1>5, <1>10 DEF NewIn
<1>12. AloneIn(calls', conversions)
  BY <1>4, <1>5, <1>10 DEF AloneIn
<1>13. AccountIn(staff', owned, missed, calls')
  <2> SUFFICES ASSUME NEW k \in Leads
               PROVE  /\ \A s, t \in OwnersIn(staff', k) : s # t => {s, t} \in missed
                      /\ k \in owned /\ OwnersIn(staff', k) = {} => \E d \in Callers : ChangesIn(calls'[d], k)
    BY DEF AccountIn
  <2>1. CASE k = l
    <3>1. ChangesIn(calls'[c], l)
      BY <1>2, <1>3, <1>5 DEF ChangesIn, l
    <3> QED
      BY <1>6, <2>1, <3>1
  <2>2. CASE k # l
    <3>1. ASSUME NEW d \in Callers, ChangesIn(calls[d], k) PROVE ChangesIn(calls'[d], k)
      BY <1>0, <1>5, <3>1 DEF ChangesIn, call
    <3> QED
      BY <1>4, <1>6, <2>2, <3>1 DEF AccountIn
  <2> QED
    BY <2>1, <2>2
<1>14. ConversionIsWhole'
  BY <1>1 DEF LeadInv, ConversionIsWhole
<1> QED
  BY <1>1, <1>4, <1>5, <1>7, <1>8, <1>9, <1>11, <1>12, <1>13, <1>14, CallsReadNext DEF LeadInv

LEMMA CreateAssignmentKeeps ==
    ASSUME LeadInv, NEW c \in Callers, CreateAssignment(c)
    PROVE  LeadInv'
<1> DEFINE call == calls[c]
           n == call.row
           l == n[1]
<1>0. /\ call \in Call /\ ShapedIn(call) /\ OwnedIn(call, staff) /\ LeadTypeOK
      /\ call.step = "own" /\ n \in Seats /\ l \in Leads /\ (~call.primary => call.late = {})
  BY CallBefore DEF CreateAssignment, At, LeadInv, ShapedIn, Seats
<1>1. /\ staff[n] = "absent"
      /\ staff' = [staff EXCEPT ![n] = IF call.primary THEN "primary" ELSE "plain"]
      /\ missed' = missed \union {{n, s} : s \in call.late}
      /\ owned' = (IF call.primary THEN owned \union {l} ELSE owned)
      /\ UNCHANGED <<leads, clients, conversions, roles, read>>
  BY DEF CreateAssignment
<1>2. calls' = [d \in Callers |->
                  IF d = c THEN NoCall
                  ELSE IF call.primary /\ ChangesIn(calls[d], l)
                  THEN [calls[d] EXCEPT !.late = calls[d].late \union {n}]
                  ELSE calls[d]]
  BY DEF CreateAssignment, ChangesOwner, ChangesIn, At
<1>3. /\ \A d \in Callers : calls[d] \in Call /\ ShapedIn(calls[d]) /\ SeenIn(calls[d], roles)
      /\ \A d \in Callers : OwnedIn(calls[d], staff) /\ FoundIn(calls[d], clients, roles)
      /\ NewIn(calls, roles) /\ AloneIn(calls, conversions) /\ TwoIn(roles, missed)
      /\ AccountIn(staff, owned, missed, calls)
  BY CallBefore, CallsRead DEF LeadInv
<1>4. ASSUME NEW d \in Callers, d # c
      PROVE  /\ calls'[d] \in Call /\ Misses(calls[d], calls'[d], n)
             /\ call.primary /\ ChangesIn(calls[d], l) => n \in calls'[d].late
  <2>1. CASE call.primary /\ ChangesIn(calls[d], l)
    <3>1. n \in Roles \union Seats /\ calls[d].primary /\ calls[d].step \notin {"clear", "unown"}
      BY <1>0, <2>1 DEF ChangesIn
    <3>2. calls'[d] = [calls[d] EXCEPT !.late = calls[d].late \union {n}]
      BY <1>2, <1>4, <2>1
    <3> QED
      BY <1>3, <3>1, <3>2, MissesTyped
  <2>2. CASE ~(call.primary /\ ChangesIn(calls[d], l))
    <3>1. calls'[d] = calls[d]
      BY <1>2, <1>4, <2>2
    <3> QED
      BY <1>3, <2>2, <3>1 DEF Misses
  <2> QED
    BY <2>1, <2>2
<1>5. calls'[c] = NoCall /\ calls' \in [Callers -> Call]
  <2>1. calls'[c] = NoCall
    BY <1>2
  <2>2. \A d \in Callers : calls'[d] \in Call
    BY <1>4, <2>1, NoCallIsTyped
  <2> QED
    BY <1>2, <2>1, <2>2
<1> HIDE DEF call, n, l
<1>6. \A s \in Seats : staff'[s] = IF s = n THEN IF call.primary THEN "primary" ELSE "plain" ELSE staff[s]
  BY <1>0, <1>1 DEF LeadTypeOK
<1>7. ASSUME NEW k
      PROVE  OwnersIn(staff', k) = IF call.primary /\ k = l THEN OwnersIn(staff, k) \union {n} ELSE OwnersIn(staff, k)
  BY <1>0, <1>1, <1>6 DEF OwnersIn, l
<1>8. LeadTypeOK'
  <2>1. staff' \in [Seats -> Mark]
    BY <1>0, <1>1 DEF LeadTypeOK, Mark
  <2>2. missed' \subseteq SUBSET (Roles \union Seats)
    <3>1. call.late \subseteq Roles \union Seats
      BY <1>0 DEF Call
    <3>2. ASSUME NEW r \in call.late PROVE {n, r} \subseteq Roles \union Seats
      BY <1>0, <3>1
    <3> QED
      BY <1>0, <1>1, <3>2 DEF LeadTypeOK
  <2>3. owned' \subseteq Leads
    BY <1>0, <1>1 DEF LeadTypeOK
  <2> QED
    BY <1>0, <1>1, <1>5, <2>1, <2>2, <2>3 DEF LeadTypeOK
<1>9. \A d \in Callers : ShapedIn(calls'[d])
  BY <1>3, <1>4, <1>5, MissesAre, NoCallIsTyped
<1>10. \A d \in Callers : \A r : HoldsIn(calls'[d], r) => HoldsIn(calls[d], r)
  BY <1>4, <1>5, MissesAre, NoCallIsTyped
<1>11. NewIn(calls', roles)
  BY <1>3, <1>10 DEF NewIn
<1>12. \A d \in Callers : SeenIn(calls'[d], roles) /\ FoundIn(calls'[d], clients, roles)
  <2>1. ASSUME NEW d \in Callers, d # c PROVE SeenIn(calls'[d], roles) /\ FoundIn(calls'[d], clients, roles)
    <3>1. /\ Misses(calls[d], calls'[d], n) /\ calls[d].late \subseteq calls'[d].late
          /\ SeenIn(calls[d], roles) /\ FoundIn(calls[d], clients, roles)
      BY <1>3, <1>4, <2>1, MissesAre
    <3> QED
      BY <3>1 DEF Misses, SeenIn, FoundIn, SetsIn, PastIn
  <2> QED
    BY <1>5, <2>1, NoCallIsTyped
<1>13. AloneIn(calls', conversions)
  <2>1. ASSUME NEW d \in Callers, NEW k, NEW b, ConvertsIn(calls'[d], k, b) PROVE ConvertsIn(calls[d], k, b)
    <3>1. d # c
      BY <1>5, <2>1, NoCallIsTyped DEF ConvertsIn
    <3> QED
      BY <1>4, <2>1, <3>1, MissesAre
  <2>2. \A d \in Callers : calls'[d].step = "commit" => calls'[d].lead = calls[d].lead /\ calls'[d].row = calls[d].row /\ calls[d].step = "commit"
    BY <1>4, <1>5, NoCallIsTyped DEF Misses
  <2> QED
    BY <1>3, <2>1, <2>2 DEF AloneIn
<1>14. \A d \in Callers : OwnedIn(calls'[d], staff')
  <2> SUFFICES ASSUME NEW d \in Callers, d # c, calls'[d].step = "own", calls'[d].primary,
                      NEW s \in OwnersIn(staff', calls'[d].row[1])
               PROVE  s \in calls'[d].late
    BY <1>5, NoCallIsTyped DEF OwnedIn
  <2>1. /\ Misses(calls[d], calls'[d], n) /\ calls[d].late \subseteq calls'[d].late /\ OwnedIn(calls[d], staff)
        /\ (call.primary /\ ChangesIn(calls[d], l) => n \in calls'[d].late)
    BY <1>3, <1>4, MissesAre
  <2>2. calls[d].step = "own" /\ calls[d].primary /\ calls[d].row = calls'[d].row
    BY <2>1 DEF Misses
  <2>3. CASE s \in OwnersIn(staff, calls[d].row[1])
    BY <2>1, <2>2, <2>3 DEF OwnedIn
  <2>4. CASE s = n /\ call.primary /\ calls[d].row[1] = l
    BY <2>1, <2>2, <2>4 DEF ChangesIn
  <2> QED
    BY <1>7, <2>2, <2>3, <2>4
<1>15. AccountIn(staff', owned', missed', calls')
  <2> SUFFICES ASSUME NEW k \in Leads
               PROVE  /\ \A s, t \in OwnersIn(staff', k) : s # t => {s, t} \in missed'
                      /\ k \in owned' /\ OwnersIn(staff', k) = {} => \E d \in Callers : ChangesIn(calls'[d], k)
    BY DEF AccountIn
  <2>0. /\ \A s, t \in OwnersIn(staff, k) : s # t => {s, t} \in missed
        /\ k \in owned /\ OwnersIn(staff, k) = {} => \E d \in Callers : ChangesIn(calls[d], k)
    BY <1>3 DEF AccountIn
  <2>1. CASE call.primary /\ k = l
    <3>1. OwnersIn(staff', k) = OwnersIn(staff, k) \union {n}
      BY <1>7, <2>1
    <3>2. ASSUME NEW s \in OwnersIn(staff, k) PROVE {n, s} \in missed' /\ {s, n} \in missed'
      <4>1. s \in call.late
        BY <1>0, <2>1, <3>2 DEF OwnedIn, n, l
      <4>2. {n, s} = {s, n}
        OBVIOUS
      <4> QED
        BY <1>1, <4>1, <4>2
    <3>3. missed \subseteq missed'
      BY <1>1
    <3> QED
      BY <2>0, <3>1, <3>2, <3>3
  <2>2. CASE ~(call.primary /\ k = l)
    <3>1. OwnersIn(staff', k) = OwnersIn(staff, k) /\ missed \subseteq missed' /\ (k \in owned' => k \in owned)
      BY <1>1, <1>7, <2>2
    <3>2. ASSUME NEW d \in Callers, ChangesIn(calls[d], k) PROVE ChangesIn(calls'[d], k)
      <4>1. d # c
        BY <2>2, <3>2 DEF ChangesIn, call, n, l
      <4> QED
        BY <1>4, <3>2, <4>1, MissesAre
    <3> QED
      BY <2>0, <3>1, <3>2
  <2> QED
    BY <2>1, <2>2
<1>16. ConversionIsWhole'
  BY <1>1 DEF LeadInv, ConversionIsWhole
<1>17. TwoIn(roles, missed')
  BY <1>1, <1>3 DEF TwoIn
<1> QED
  BY <1>1, <1>8, <1>9, <1>11, <1>12, <1>13, <1>14, <1>15, <1>16, <1>17, CallsReadNext DEF LeadInv

LEMMA StopKeeps ==
    ASSUME LeadInv, NEW c \in Callers, Stop(c)
    PROVE  LeadInv'
<1>1. /\ calls' = [calls EXCEPT ![c] = NoCall]
      /\ UNCHANGED <<crmTables, read, missed>>
      /\ owned' = (IF At(c, "own") /\ calls[c].primary /\ Owners(calls[c].row[1]) = {}
                   THEN owned \ {calls[c].row[1]} ELSE owned)
  BY DEF Stop, Reply
<1>2. owned' \subseteq owned /\ UNCHANGED staff
  BY <1>1 DEF crmTables
<1>3. /\ LeadTypeOK' /\ CallsAreShaped' /\ InsertsAreNew' /\ PrimariesAreSeen'
      /\ ConversionsAreSound' /\ OwnersAreSeen' /\ TwoPrimariesOverlapped' /\ ConversionIsWhole'
  BY <1>1, <1>2, NoCallIsTyped, CallStep
<1>4. AccountIn(staff, owned, missed, calls) /\ calls \in [Callers -> Call]
  BY CallsRead DEF LeadInv, LeadTypeOK
<1>5. \A l : Owners(l) = OwnersIn(staff, l)
  BY DEF Owners, OwnersIn
<1>6. AccountIn(staff, owned', missed, calls')
  <2> SUFFICES ASSUME NEW l \in Leads, l \in owned', OwnersIn(staff, l) = {}
               PROVE  \E d \in Callers : ChangesIn(calls'[d], l)
    BY <1>4 DEF AccountIn
  <2>1. PICK d \in Callers : ChangesIn(calls[d], l)
    BY <1>2, <1>4 DEF AccountIn
  <2>2. d # c
    BY <1>1, <1>5, <2>1 DEF ChangesIn, At
  <2>3. calls'[d] = calls[d]
    BY <1>1, <1>4, <2>2
  <2> QED
    BY <2>1, <2>3
<1>7. OwnersAccountedFor'
  BY <1>1, <1>2, <1>6, CallsReadNext
<1> QED
  BY <1>3, <1>7 DEF LeadInv

(* Steps that no call takes.                                                 *)
LEMMA LeadsChange ==
    ASSUME LeadInv, leads' \in [Leads -> Lead],
           UNCHANGED <<clients, conversions, roles, staff, calls, leadObservations>>
    PROVE  LeadInv'
<1>1. UNCHANGED <<clients, conversions, roles, staff, calls, read, missed, owned>>
  BY DEF leadObservations
<1>2. LeadTypeOK'
  BY <1>1 DEF LeadInv, LeadTypeOK
<1>3. CallsAreShaped' /\ InsertsAreNew' /\ PrimariesAreSeen' /\ TwoPrimariesOverlapped'
  BY <1>1, CallsRead, CallsReadNext DEF LeadInv
<1>4. ConversionsAreSound' /\ OwnersAreSeen' /\ OwnersAccountedFor'
  BY <1>1, CallsRead, CallsReadNext DEF LeadInv
<1>5. ConversionIsWhole'
  BY <1>1 DEF LeadInv, ConversionIsWhole
<1> QED
  BY <1>2, <1>3, <1>4, <1>5 DEF LeadInv

LEMMA UnassignKeeps ==
    ASSUME LeadInv, NEW l \in Leads, NEW u \in Users, UnassignLeadUser(l, u)
    PROVE  LeadInv'
<1> DEFINE n == <<l, u>>
<1>0. n \in Seats /\ n[1] = l /\ LeadTypeOK
  BY DEF Seats, LeadInv
<1>1. /\ staff' = [staff EXCEPT ![n] = "absent"]
      /\ owned' = (IF Owners(l) = {n} THEN owned \ {l} ELSE owned)
      /\ UNCHANGED <<leads, clients, conversions, roles, calls, read, missed>>
  BY DEF UnassignLeadUser
<1> HIDE DEF n
<1>2. \A s \in Seats : staff'[s] = IF s = n THEN "absent" ELSE staff[s]
  BY <1>0, <1>1 DEF LeadTypeOK
<1>3. \A k : OwnersIn(staff', k) = OwnersIn(staff, k) \ {n}
  BY <1>2 DEF OwnersIn
<1>4. LeadTypeOK'
  <2>1. staff' \in [Seats -> Mark]
    BY <1>0, <1>1 DEF LeadTypeOK, Mark
  <2> QED
    BY <1>0, <1>1, <2>1 DEF LeadTypeOK
<1>5. CallsAreShaped' /\ InsertsAreNew' /\ PrimariesAreSeen' /\ TwoPrimariesOverlapped' /\ ConversionsAreSound'
  BY <1>1, CallsRead, CallsReadNext DEF LeadInv
<1>6. OwnersAreSeen'
  <2>1. ASSUME NEW c \in Callers, OwnedIn(calls[c], staff) PROVE OwnedIn(calls[c], staff')
    BY <1>3, <2>1 DEF OwnedIn
  <2> QED
    BY <1>1, <2>1, CallsRead, CallsReadNext DEF LeadInv
<1>7. AccountIn(staff', owned', missed, calls)
  <2>0. AccountIn(staff, owned, missed, calls)
    BY CallsRead DEF LeadInv
  <2>1. Owners(l) = OwnersIn(staff, l)
    BY DEF Owners, OwnersIn
  <2> SUFFICES ASSUME NEW k \in Leads, k \in owned', OwnersIn(staff', k) = {}
               PROVE  \E d \in Callers : ChangesIn(calls[d], k)
    BY <1>3, <2>0 DEF AccountIn
  <2>2. k \in owned
    BY <1>1
  <2>3. CASE k = l
    <3>1. OwnersIn(staff, l) # {n}
      BY <1>1, <2>1, <2>3
    <3>2. OwnersIn(staff, l) = {}
      BY <1>3, <2>3, <3>1
    <3> QED
      BY <2>0, <2>2, <2>3, <3>2 DEF AccountIn
  <2>4. CASE k # l
    <3>1. n \notin OwnersIn(staff, k)
      BY <1>0, <2>4 DEF OwnersIn
    <3>2. OwnersIn(staff, k) = {}
      BY <1>3, <3>1
    <3> QED
      BY <2>0, <2>2, <3>2 DEF AccountIn
  <2> QED
    BY <2>3, <2>4
<1>8. OwnersAccountedFor'
  BY <1>1, <1>7, CallsReadNext
<1>9. ConversionIsWhole'
  BY <1>1 DEF LeadInv, ConversionIsWhole
<1> QED
  BY <1>4, <1>5, <1>6, <1>8, <1>9 DEF LeadInv

LEMMA LeadInvHoldsInitially == LeadInit => LeadInv
<1> SUFFICES ASSUME LeadInit PROVE LeadInv
  OBVIOUS
<1>1. /\ \A c \in Callers : calls[c] = NoCall
      /\ \A l \in Leads : conversions[l] = Unset
      /\ \A r \in Roles : roles[r] = "absent"
      /\ \A s \in Seats : staff[s] = "absent"
      /\ owned = {} /\ missed = {}
  BY DEF LeadInit
<1>2. LeadTypeOK
  <2>1. leads \in [Leads -> Lead]
    BY DEF LeadInit, Lead
  <2>2. calls \in [Callers -> Call]
    BY NoCallIsTyped DEF LeadInit
  <2>3. clients \in [Businesses -> {"absent", "imported", "converted"}]
    BY DEF LeadInit
  <2> QED
    BY <2>1, <2>2, <2>3 DEF LeadInit, LeadTypeOK, Mark
<1>3. CallsAreShaped /\ InsertsAreNew /\ PrimariesAreSeen /\ ConversionsAreSound /\ OwnersAreSeen
  <2>1. NewIn(calls, roles) /\ AloneIn(calls, conversions)
    BY <1>1, NoCallIsTyped DEF NewIn, AloneIn
  <2>2. \A c \in Callers : /\ ShapedIn(calls[c]) /\ SeenIn(calls[c], roles) /\ OwnedIn(calls[c], staff)
                          /\ FoundIn(calls[c], clients, roles)
    BY <1>1, NoCallIsTyped
  <2> QED
    BY <2>1, <2>2, CallsRead
<1>4. TwoPrimariesOverlapped
  BY <1>1 DEF TwoPrimariesOverlapped, Primaries
<1>5. ConversionIsWhole
  <2>1. \A b \in Businesses : clients[b] # "converted"
    BY DEF LeadInit
  <2> QED
    BY <1>1, <2>1 DEF ConversionIsWhole
<1>6. OwnersAccountedFor
  BY <1>1 DEF OwnersAccountedFor, Owners
<1> QED
  BY <1>2, <1>3, <1>4, <1>5, <1>6 DEF LeadInv

LEMMA LeadKeepsInv == LeadInv /\ [LeadNext]_leadVars => LeadInv'
<1> SUFFICES ASSUME LeadInv, [LeadNext]_leadVars PROVE LeadInv'
  OBVIOUS
<1>0. leads \in [Leads -> Lead]
  BY DEF LeadInv, LeadTypeOK
<1>1. ASSUME NEW l \in Leads, NEW b \in Businesses \union {Unset}, NEW k \in Contacts \union {Unset},
             UpdateLead(l, b, k)
      PROVE  LeadInv'
  <2>1. leads' \in [Leads -> Lead]
    BY <1>0, <1>1 DEF UpdateLead, Lead
  <2> QED
    BY <1>1, <2>1, LeadsChange DEF UpdateLead
<1>2. ASSUME NEW l \in Leads, DeleteLead(l) PROVE LeadInv'
  <2>1. [leads[l] EXCEPT !.life = "deleted"] \in Lead
    BY <1>0 DEF Lead
  <2>2. leads' \in [Leads -> Lead]
    BY <1>0, <1>2, <2>1 DEF DeleteLead
  <2> QED
    BY <1>2, <2>2, LeadsChange DEF DeleteLead
<1>3. ASSUME NEW l \in Leads, NEW u \in Users, UnassignLeadUser(l, u) PROVE LeadInv'
  BY <1>3, UnassignKeeps
<1>4. ASSUME NEW c \in Callers, Request(c) PROVE LeadInv'
  BY <1>4, AssignContactRoleKeeps, ConvertLeadKeeps, AssignLeadUserKeeps DEF Request
<1>5. ASSUME NEW c \in Callers, Transact(c) PROVE LeadInv'
  BY <1>5, FindClientKeeps, CreateClientKeeps, FindExistingRoleKeeps, ClearPrimaryKeeps,
     LockPrimariesKeeps, InsertRoleKeeps, CreateConversionKeeps, CommitKeeps DEF Transact
<1>6. ASSUME NEW c \in Callers, ClearOwners(c) \/ CreateAssignment(c) \/ Stop(c) PROVE LeadInv'
  BY <1>6, ClearOwnersKeeps, CreateAssignmentKeeps, StopKeeps
<1>7. CASE UNCHANGED leadVars
  BY <1>0, <1>7, LeadsChange DEF leadVars, crmTables
<1> QED
  BY <1>1, <1>2, <1>3, <1>4, <1>5, <1>6, <1>7 DEF LeadNext

-----------------------------------------------------------------------------
(* The inductive invariant holds in every reachable state.                   *)
THEOREM LeadInvariantCorrect == LeadSpec => []LeadInv
<1>1. LeadInit => LeadInv
  BY LeadInvHoldsInitially
<1>2. LeadInv /\ [LeadNext]_leadVars => LeadInv'
  BY LeadKeepsInv
<1> QED
  BY <1>1, <1>2, PTL DEF LeadSpec

(* Two primary contacts of one business come only of two transactions that   *)
(* overlapped.                                                               *)
THEOREM PrimariesOverlap == LeadSpec => []TwoPrimariesOverlapped
<1>1. LeadInv => TwoPrimariesOverlapped
  BY DEF LeadInv
<1> QED
  BY <1>1, LeadInvariantCorrect, PTL

(* A conversion is whole or not there.                                       *)
THEOREM ConversionsAreWhole == LeadSpec => []ConversionIsWhole
<1>1. LeadInv => ConversionIsWhole
  BY DEF LeadInv
<1> QED
  BY <1>1, LeadInvariantCorrect, PTL

(* Two owners of a lead, and none where there was one, come only of an       *)
(* assignment that is under way, failed, or overlapped another.              *)
THEOREM OwnersAreAccountedFor == LeadSpec => []OwnersAccountedFor
<1>1. LeadInv => OwnersAccountedFor
  BY DEF LeadInv
<1> QED
  BY <1>1, LeadInvariantCorrect, PTL

(* A step that writes no role keeps the primary contacts.                    *)
LEMMA RolesAlone ==
    ASSUME LeadNext, ~(\E c \in Callers : CommitTransaction(c))
    PROVE  UNCHANGED roles
<1>1. ASSUME NEW c \in Callers, Request(c) PROVE UNCHANGED roles
  BY <1>1 DEF Request, AssignContactRole, ConvertLead, AssignLeadUser, crmTables
<1>2. ASSUME NEW c \in Callers, Transact(c) PROVE UNCHANGED roles
  BY <1>2 DEF Transact, FindClient, CreateClient, FindExistingRole, ClearPrimary, LockPrimaries,
              InsertRole, CreateConversion, crmTables
<1>3. ASSUME NEW c \in Callers, ClearOwners(c) \/ CreateAssignment(c) \/ Stop(c) PROVE UNCHANGED roles
  BY <1>3 DEF ClearOwners, CreateAssignment, Stop, crmTables
<1> QED
  BY <1>1, <1>2, <1>3 DEF LeadNext, UpdateLead, DeleteLead, UnassignLeadUser

(* A business that has a primary contact has one after every step.           *)
THEOREM PrimaryContactsAreKept == LeadSpec => PrimaryContactIsKept
<1>1. LeadInv /\ [LeadNext]_leadVars
         => [\A b \in Businesses : Primaries(b) # {} => Primaries(b)' # {}]_leadVars
  <2> SUFFICES ASSUME LeadInv, LeadNext, NEW b \in Businesses, Primaries(b) # {}
               PROVE  Primaries(b)' # {}
    OBVIOUS
  <2>1. Primaries(b) = PrimariesIn(roles, b) /\ Primaries(b)' = PrimariesIn(roles', b)
    BY DEF Primaries, PrimariesIn
  <2>2. CASE UNCHANGED roles
    BY <2>1, <2>2
  <2>3. ASSUME NEW c \in Callers, CommitTransaction(c) PROVE Primaries(b)' # {}
    <3> DEFINE call == calls[c]  n == call.row
    <3>0. /\ call \in Call /\ ShapedIn(call) /\ SeenIn(call, roles) /\ call.step = "commit"
          /\ roles \in [Roles -> Mark] /\ NewIn(calls, roles)
      BY <2>3, CallBefore, CallsRead DEF CommitTransaction, At, LeadInv, LeadTypeOK
    <3>1. roles' = [r \in Roles |-> IF InsertsIn(call) /\ r = n THEN IF call.primary THEN "primary" ELSE "plain"
                                   ELSE IF r \in call.sees THEN "plain" ELSE roles[r]]
      <4>1. \A r : HasInserted(c, r) <=> InsertsIn(call) /\ r = n
        BY <3>0 DEF HasInserted, InsertsIn, At
      <4> QED
        BY <2>3, <4>1 DEF CommitTransaction
    <3>2. InsertsIn(call) => n \in Roles /\ roles[n] = "absent"
      BY <3>0 DEF NewIn, HoldsIn, PastIn, ShapedIn
    <3>3. (call.primary => InsertsIn(call)) /\ (~call.primary => call.sees = {})
      BY <3>0 DEF ShapedIn, InsertsIn
    <3> HIDE DEF call, n
    <3>4. PICK r \in PrimariesIn(roles, b) : TRUE
      BY <2>1
    <3>5. r \in Roles /\ r[1] = b /\ roles[r] = "primary"
      BY <3>4 DEF PrimariesIn
    <3>6. CASE roles'[r] = "primary"
      BY <2>1, <3>5, <3>6 DEF PrimariesIn
    <3>7. CASE roles'[r] # "primary"
      <4>1. r \in call.sees /\ call.primary
        BY <3>1, <3>2, <3>3, <3>5, <3>7
      <4>2. n \in Roles /\ roles'[n] = "primary"
        BY <3>1, <3>2, <3>3, <4>1
      <4>3. n[1] = b
        BY <3>0, <3>5, <4>1 DEF SeenIn, n
      <4> QED
        BY <2>1, <4>2, <4>3 DEF PrimariesIn
    <3> QED
      BY <3>6, <3>7
  <2> QED
    BY <2>2, <2>3, RolesAlone
<1> QED
  BY <1>1, LeadInvariantCorrect, PTL DEF LeadSpec, PrimaryContactIsKept
=============================================================================
