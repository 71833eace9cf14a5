--------------------------- MODULE BillingProofs ---------------------------
(***************************************************************************)
(* Proofs about Billing, for every set of users, coupons, ids and requests *)
(* and every bound.                                                        *)
(***************************************************************************)
EXTENDS Billing, TLAPS

\* EventOf builds a subscription event when it is given no invoice ...
LEMMA SubEventOf ==
    ASSUME NEW n \in Nat, NEW sid \in SubIds, NEW s \in StripeSub,
           NEW type \in {"created", "updated", "deleted", "trial_will_end"}
    PROVE  EventOf(n, type, sid, s, None, None) \in SubEvent
  BY DEF EventOf, SubEvent, StripeSub

\* ... and a payment event when it is given one.
LEMMA PaymentEventOf ==
    ASSUME NEW n \in Nat, NEW sid \in SubIds, NEW s \in StripeSub,
           NEW type \in {"payment_succeeded", "payment_failed"},
           NEW inv \in InvoiceIds, NEW c \in Coupons \cup {None}
    PROVE  EventOf(n, type, sid, s, inv, c) \in PaymentEvent
  BY DEF EventOf, PaymentEvent, StripeSub

\* One event about a subscription keeps the types of what Emit changes.
LEMMA EmitType ==
    ASSUME TypeOK, NEW sid \in SubIds, NEW s \in StripeSub,
           NEW type \in {"created", "updated", "deleted", "trial_will_end"},
           Emit(type, sid, s)
    PROVE  /\ stripeSubs' \in [SubIds -> StripeSub \cup {NoSub}]
           /\ queue' \subseteq SubEvent \cup PaymentEvent
           /\ acked' \subseteq SubEvent \cup PaymentEvent
           /\ clock' \in Nat
  <1>1. EventOf(clock + 1, type, sid, s, None, None) \in SubEvent
    BY SubEventOf DEF TypeOK
  <1> QED  BY <1>1 DEF TypeOK, Emit

\* So do an event about a subscription and one about its invoice.
LEMMA EmitBothType ==
    ASSUME TypeOK, NEW sid \in SubIds, NEW s \in StripeSub,
           NEW inv \in InvoiceIds, NEW i \in StripeInvoice, NEW subFirst \in BOOLEAN,
           NEW subType \in {"created", "updated", "deleted", "trial_will_end"},
           NEW invType \in {"payment_succeeded", "payment_failed"},
           EmitBoth(subType, invType, sid, s, inv, i, subFirst)
    PROVE  /\ stripeSubs' \in [SubIds -> StripeSub \cup {NoSub}]
           /\ stripeInvoices' \in [InvoiceIds -> StripeInvoice \cup {NoInvoice}]
           /\ queue' \subseteq SubEvent \cup PaymentEvent
           /\ acked' \subseteq SubEvent \cup PaymentEvent
           /\ clock' \in Nat
  <1> DEFINE n1 == clock + (IF subFirst THEN 1 ELSE 2)
             n2 == clock + (IF subFirst THEN 2 ELSE 1)
  <1>1. n1 \in Nat /\ n2 \in Nat
    BY DEF TypeOK
  <1>2. i.coupon \in Coupons \cup {None}
    BY DEF StripeInvoice
  <1>3. EventOf(n1, subType, sid, s, None, None) \in SubEvent
    BY <1>1, SubEventOf
  <1>4. EventOf(n2, invType, sid, s, inv, i.coupon) \in PaymentEvent
    BY <1>1, <1>2, PaymentEventOf
  <1> QED  BY <1>3, <1>4 DEF TypeOK, EmitBoth

\* A subscription that has a status is not NoSub.
LEMMA KnownSub ==
    ASSUME TypeOK, NEW sid \in SubIds, stripeSubs[sid].status # "none"
    PROVE  stripeSubs[sid] \in StripeSub
  BY DEF TypeOK, NoSub

\* An update of rows by rows leaves rows.
LEMMA UpdateType ==
    ASSUME subs \subseteq SubRow, NEW sid, NEW to, UpdateSub(sid, to),
           \A row \in subs : to[row] \in SubRow
    PROVE  subs' \subseteq SubRow
  BY DEF UpdateSub

\* A request that is at work is a checkout or a toggle, by its pc.
LEMMA RequestKind ==
    ASSUME TypeOK, NEW r \in Requests
    PROVE  /\ req[r].pc \in {"discounts", "customer", "saveCustomer", "session"}
                => req[r] \in CheckoutRequest
           /\ req[r].pc \in {"toggleStripe", "toggleWrite"} => req[r] \in ToggleRequest
           /\ req[r].pc \in {"saveCustomer", "session"} => req[r].customer \in CustomerIds
  <1>1. req[r] \in {Idle} \cup CheckoutRequest \cup ToggleRequest
    BY DEF TypeOK
  <1>2. CASE req[r] \in CheckoutRequest
    BY <1>2 DEF CheckoutRequest
  <1>3. CASE req[r] \in ToggleRequest
    BY <1>3 DEF ToggleRequest
  <1> QED  BY <1>1, <1>2, <1>3 DEF Idle

\* How a checkout moves from one step to the next.
LEMMA CheckoutMoves ==
    ASSUME NEW q \in CheckoutRequest
    PROVE  /\ \A b \in BOOLEAN : [q EXCEPT !.pc = "customer", !.trial = b] \in CheckoutRequest
           /\ \A c \in CustomerIds :
                [q EXCEPT !.pc = "saveCustomer", !.customer = c] \in CheckoutRequest
           /\ q.customer \in CustomerIds => [q EXCEPT !.pc = "session"] \in CheckoutRequest
  BY DEF CheckoutRequest

LEMMA ToggleMoves ==
    ASSUME NEW q \in ToggleRequest
    PROVE  [q EXCEPT !.pc = "toggleWrite"] \in ToggleRequest
  BY DEF ToggleRequest

\* The rows the webhooks write are rows.
LEMMA UpdatedType ==
    ASSUME TypeOK, NEW e \in queue \cup acked, WriteUpdated(e)
    PROVE  subs' \subseteq SubRow
  <1> DEFINE to == [row \in subs |-> Updated(row, e)]
  <1>1. e \in SubEvent
    BY DEF TypeOK, WriteUpdated, SubEvent, PaymentEvent
  <1>2. e.status \in Status /\ e.period \in Periods /\ e.cancelAtEnd \in BOOLEAN
    BY <1>1 DEF SubEvent
  <1>3. \A row \in subs : Updated(row, e) \in SubRow
    BY <1>2 DEF TypeOK, SubRow, Updated
  <1>4. \A row \in subs : to[row] \in SubRow
    BY <1>3
  <1>5. UpdateSub(e.sid, to)
    BY DEF WriteUpdated
  <1> HIDE DEF to
  <1> QED  BY <1>4, <1>5, UpdateType DEF TypeOK

LEMMA CanceledType ==
    ASSUME TypeOK, NEW e \in queue \cup acked, WriteCanceled(e)
    PROVE  subs' \subseteq SubRow
  <1> DEFINE to == [row \in subs |-> [row EXCEPT !.status = "canceled"]]
  <1>1. \A row \in subs : to[row] \in SubRow
    BY DEF TypeOK, SubRow, Status
  <1>2. UpdateSub(e.sid, to)
    BY DEF WriteCanceled
  <1> HIDE DEF to
  <1> QED  BY <1>1, <1>2, UpdateType DEF TypeOK

LEMMA PastDueType ==
    ASSUME TypeOK, NEW h \in handlers, WritePastDue(h)
    PROVE  subs' \subseteq SubRow
  <1> DEFINE to == [row \in subs |-> [row EXCEPT !.status = "past_due"]]
  <1>1. \A row \in subs : to[row] \in SubRow
    BY DEF TypeOK, SubRow, Status
  <1>2. UpdateSub(h.ev.sid, to)
    BY DEF WritePastDue
  <1> HIDE DEF to
  <1> QED  BY <1>1, <1>2, UpdateType DEF TypeOK

\* Only payment events are torn.
LEMMA TearType ==
    ASSUME TypeOK, NEW ended \in SUBSET handlers, Tear(ended)
    PROVE  torn' \subseteq PaymentEvent
  BY DEF TypeOK, Tear, Handler
-----------------------------------------------------------------------------
LEMMA TypeInit == Init => TypeOK
  BY DEF Init, TypeOK

LEMMA TypeStep == TypeOK /\ [Next]_vars => TypeOK'
  <1> SUFFICES ASSUME TypeOK, [Next]_vars PROVE TypeOK'
    OBVIOUS
  <1>1. ASSUME NEW r \in Requests, NEW u \in Users, NEW p \in Periods,
               NEW c \in Coupons \cup {None}, CheckoutStart(r, u, p, c)
        PROVE  TypeOK'
    BY <1>1 DEF TypeOK, CheckoutStart, CheckoutRequest, Idle, dbVars, stripeVars, eventVars
  <1>2. ASSUME NEW r \in Requests, NEW u \in Users, ToggleRead(r, u)
        PROVE  TypeOK'
    <2>1. PICK row \in subs :
            req' = [req EXCEPT ![r] =
              [pc |-> "toggleStripe", user |-> u, customer |-> None, period |-> None,
               coupon |-> None, trial |-> FALSE, sid |-> row.sid,
               autoRenew |-> ~row.autoRenew]]
      BY <1>2 DEF ToggleRead
    <2>2. row.sid \in SubIds
      BY DEF TypeOK, SubRow
    <2>3. [pc |-> "toggleStripe", user |-> u, customer |-> None, period |-> None,
           coupon |-> None, trial |-> FALSE, sid |-> row.sid,
           autoRenew |-> ~row.autoRenew] \in ToggleRequest
      BY <2>2 DEF ToggleRequest
    <2> QED  BY <1>2, <2>1, <2>3 DEF TypeOK, ToggleRead, dbVars, stripeVars, eventVars
  <1>3. ASSUME NEW u \in Users, CancelNow(u)
        PROVE  TypeOK'
    <2>1. PICK row \in subs : /\ row.user = u
                              /\ Live(row.sid)
                              /\ Emit("deleted", row.sid, [stripeSubs[row.sid] EXCEPT !.status = "canceled"])
                              /\ UNCHANGED <<dbVars, serverVars, faults, stripeCustomers, stripeInvoices, sessions>>
      BY <1>3 DEF CancelNow
    <2>2. row.sid \in SubIds
      BY DEF TypeOK, SubRow
    <2>3. [stripeSubs[row.sid] EXCEPT !.status = "canceled"] \in StripeSub
      BY <2>1, <2>2, KnownSub DEF Live, StripeSub, Status
    <2> QED  BY <2>1, <2>2, <2>3, EmitType DEF TypeOK, dbVars, serverVars
  <1>4. ASSUME NEW r \in Requests, CheckoutDiscounts(r)
        PROVE  TypeOK'
    <2>1. req[r] \in CheckoutRequest
      BY <1>4, RequestKind DEF CheckoutDiscounts
    <2>2. IsFirstSubscription(req[r].user) \in BOOLEAN
      BY DEF IsFirstSubscription
    <2>3. [req[r] EXCEPT !.pc = "customer", !.trial = IsFirstSubscription(req[r].user)]
            \in CheckoutRequest
      BY <2>1, <2>2, CheckoutMoves
    <2> QED  BY <1>4, <2>3 DEF TypeOK, CheckoutDiscounts, Respond, dbVars, stripeVars, eventVars
  <1>5. ASSUME NEW r \in Requests, CheckoutCustomer(r)
        PROVE  TypeOK'
    <2>1. req[r] \in CheckoutRequest
      BY <1>5, RequestKind DEF CheckoutCustomer
    <2>2. req[r].user \in Users /\ req[r].customer \in CustomerIds \cup {None}
      BY <2>1 DEF CheckoutRequest
    <2>3. CASE /\ req' = [req EXCEPT ![r].pc = "session"]
               /\ req[r].customer # None
               /\ UNCHANGED stripeCustomers
      <3>1. [req[r] EXCEPT !.pc = "session"] \in CheckoutRequest
        BY <2>1, <2>2, <2>3, CheckoutMoves
      <3> QED  BY <1>5, <2>3, <3>1 DEF TypeOK, CheckoutCustomer, dbVars, eventVars
    <2>4. ASSUME NEW c \in CustomerIds,
                 stripeCustomers' = [stripeCustomers EXCEPT ![c] = req[r].user],
                 req' = [req EXCEPT ![r].pc = "saveCustomer", ![r].customer = c]
          PROVE  TypeOK'
      <3>1. [req[r] EXCEPT !.pc = "saveCustomer", !.customer = c] \in CheckoutRequest
        BY <2>1, CheckoutMoves
      <3>2. req' = [req EXCEPT ![r] = [req[r] EXCEPT !.pc = "saveCustomer", !.customer = c]]
        BY <2>1, <2>4 DEF TypeOK
      <3> QED  BY <1>5, <2>2, <2>4, <3>1, <3>2 DEF TypeOK, CheckoutCustomer, dbVars, eventVars
    <2> QED  BY <1>5, <2>3, <2>4 DEF CheckoutCustomer
  <1>6. ASSUME NEW r \in Requests, CheckoutSaveCustomer(r)
        PROVE  TypeOK'
    <2>1. req[r] \in CheckoutRequest /\ req[r].customer \in CustomerIds
      BY <1>6, RequestKind DEF CheckoutSaveCustomer
    <2>2. req[r].user \in Users
      BY <2>1 DEF CheckoutRequest
    <2> QED
      BY <1>6, <2>1, <2>2, CheckoutMoves
      DEF TypeOK, CheckoutSaveCustomer, stripeVars, eventVars
  <1>7. ASSUME NEW r \in Requests, CheckoutSession(r)
        PROVE  TypeOK'
    <2>1. req[r] \in CheckoutRequest /\ req[r].customer \in CustomerIds
      BY <1>7, RequestKind DEF CheckoutSession
    <2>2. [req |-> r, customer |-> req[r].customer, period |-> req[r].period,
           coupon |-> req[r].coupon, trial |-> req[r].trial] \in Session
      BY <2>1 DEF CheckoutRequest, Session
    <2> QED  BY <1>7, <2>2 DEF TypeOK, CheckoutSession, Respond, dbVars, eventVars
  <1>8. ASSUME NEW u \in Users, NEW p \in Periods, ChangePeriod(u, p)
        PROVE  TypeOK'
    <2>1. PICK row \in subs :
            /\ Live(row.sid)
            /\ Emit("updated", row.sid, [stripeSubs[row.sid] EXCEPT !.period = p])
            /\ UNCHANGED <<dbVars, serverVars, faults, stripeCustomers, stripeInvoices, sessions>>
      BY <1>8 DEF ChangePeriod
    <2>2. row.sid \in SubIds
      BY DEF TypeOK, SubRow
    <2>3. [stripeSubs[row.sid] EXCEPT !.period = p] \in StripeSub
      BY <2>1, <2>2, KnownSub DEF Live, StripeSub
    <2> QED  BY <2>1, <2>2, <2>3, EmitType DEF TypeOK, dbVars, serverVars
  <1>9. ASSUME NEW r \in Requests, ToggleStripe(r)
        PROVE  TypeOK'
    <2> DEFINE sid == req[r].sid
               s == [stripeSubs[sid] EXCEPT !.cancelAtEnd = ~req[r].autoRenew]
    <2>1. req[r] \in ToggleRequest
      BY <1>9, RequestKind DEF ToggleStripe
    <2>2. sid \in SubIds /\ (~req[r].autoRenew) \in BOOLEAN
      BY <2>1 DEF ToggleRequest
    <2>3. [req[r] EXCEPT !.pc = "toggleWrite"] \in ToggleRequest
      BY <2>1, ToggleMoves
    <2>4. CASE /\ Live(sid)
               /\ Emit("updated", sid, s)
               /\ req' = [req EXCEPT ![r].pc = "toggleWrite"]
      <3>1. s \in StripeSub
        BY <2>2, <2>4, KnownSub DEF Live, StripeSub
      <3> HIDE DEF s, sid
      <3> QED  BY <1>9, <2>2, <2>3, <2>4, <3>1, EmitType DEF TypeOK, ToggleStripe, dbVars, sid
    <2>5. CASE /\ req' = [req EXCEPT ![r].pc = "toggleWrite"]
               /\ UNCHANGED <<stripeSubs, eventVars>>
      BY <1>9, <2>3, <2>5 DEF TypeOK, ToggleStripe, dbVars, eventVars
    <2>6. CASE Respond(r) /\ UNCHANGED <<stripeSubs, eventVars>>
      BY <1>9, <2>6 DEF TypeOK, ToggleStripe, Respond, dbVars, eventVars
    <2> QED  BY <1>9, <2>4, <2>5, <2>6 DEF ToggleStripe
  <1>10. ASSUME NEW r \in Requests, ToggleWrite(r)
         PROVE  TypeOK'
    <2>1. req[r].autoRenew \in BOOLEAN
      BY <1>10, RequestKind DEF ToggleWrite, ToggleRequest
    <2>2. ASSUME NEW row \in SubRow
          PROVE  [row EXCEPT !.autoRenew = req[r].autoRenew,
                             !.cancelAtPeriodEnd = ~req[r].autoRenew] \in SubRow
      BY <2>1 DEF SubRow
    <2>3. subs' \subseteq SubRow
      BY <1>10, <2>2 DEF TypeOK, ToggleWrite
    <2> QED  BY <1>10, <2>3 DEF TypeOK, ToggleWrite, Respond, stripeVars, eventVars
  <1>11. ASSUME NEW e \in queue \cup acked, OnSubscriptionCreated(e)
         PROVE  TypeOK'
    <2>1. e \in SubEvent
      BY <1>11 DEF TypeOK, OnSubscriptionCreated, SubEvent, PaymentEvent
    <2>2. ASSUME NEW u \in Users
          PROVE  BuildSEntity(u, e) \in SubRow
      BY <2>1 DEF BuildSEntity, SubRow, SubEvent
    <2>3. subs' \subseteq SubRow
      BY <1>11, <2>2 DEF TypeOK, OnSubscriptionCreated, InsertSub
    <2> QED  BY <1>11, <2>3 DEF TypeOK, OnSubscriptionCreated, Ack, serverVars, stripeVars
  <1>12. ASSUME NEW e \in queue \cup acked, OnSubscriptionUpdated(e)
         PROVE  TypeOK'
    <2>1. subs' \subseteq SubRow
      BY <1>12, UpdatedType DEF OnSubscriptionUpdated
    <2> QED
      BY <1>12, <2>1
      DEF TypeOK, OnSubscriptionUpdated, WriteUpdated, Ack, serverVars, stripeVars
  <1>13. ASSUME NEW e \in queue \cup acked, OnSubscriptionDeleted(e)
         PROVE  TypeOK'
    <2>1. subs' \subseteq SubRow
      BY <1>13, CanceledType DEF OnSubscriptionDeleted
    <2> QED
      BY <1>13, <2>1
      DEF TypeOK, OnSubscriptionDeleted, WriteCanceled, Ack, serverVars, stripeVars
  <1>14. ASSUME NEW e \in queue \cup acked, OnTrialWillEnd(e) \/ OnPaymentUnresolved(e)
         PROVE  TypeOK'
    BY <1>14 DEF TypeOK, OnTrialWillEnd, OnPaymentUnresolved, Ack, dbVars, serverVars, stripeVars
  <1>15. ASSUME NEW e \in queue \cup acked, OnPayment(e)
         PROVE  TypeOK'
    <2>1. e \in PaymentEvent
      BY <1>15 DEF TypeOK, OnPayment, SubEvent, PaymentEvent
    <2>2. [ev |-> e, pc |-> "invoice"] \in Handler
      BY <2>1 DEF Handler
    <2> QED  BY <1>15, <2>2 DEF TypeOK, OnPayment, dbVars, stripeVars, eventVars
  <1>16. ASSUME NEW h \in handlers, PaymentInvoice(h)
         PROVE  TypeOK'
    <2>1. h \in Handler /\ h.ev \in PaymentEvent
      BY DEF TypeOK, Handler
    <2>2. BuildInvoiceEntity(h.ev) \in InvoiceRow
      BY <2>1 DEF BuildInvoiceEntity, InvoiceRow, PaymentEvent
    <2>3. invoices' \in Seq(InvoiceRow)
      BY <1>16, <2>2 DEF TypeOK, PaymentInvoice
    <2>4. [h EXCEPT !.pc = "cache"] \in Handler
      BY <2>1 DEF Handler
    <2>5. handlers' \subseteq Handler
      BY <1>16, <2>4 DEF TypeOK, PaymentInvoice
    <2> QED  BY <1>16, <2>3, <2>5 DEF TypeOK, PaymentInvoice, stripeVars, eventVars
  <1>28. ASSUME NEW h \in handlers, PaymentInvalidate(h)
         PROVE  TypeOK'
    <2>1. h \in Handler /\ h.ev \in PaymentEvent
      BY DEF TypeOK, Handler
    <2>4. [h EXCEPT !.pc = "redeem"] \in Handler /\ [h EXCEPT !.pc = "pastDue"] \in Handler
      BY <2>1 DEF Handler
    <2>5. handlers' \subseteq Handler
      BY <1>28, <2>4 DEF TypeOK, PaymentInvalidate
    <2>6. /\ queue' \subseteq SubEvent \cup PaymentEvent
          /\ acked' \subseteq SubEvent \cup PaymentEvent
          /\ clock' \in Nat
      BY <1>28, <2>1 DEF TypeOK, PaymentInvalidate, Ack, eventVars
    <2> QED  BY <1>28, <2>5, <2>6 DEF TypeOK, PaymentInvalidate, dbVars, stripeVars
  <1>17. ASSUME NEW h \in handlers, PaymentRedeem(h)
         PROVE  TypeOK'
    <2>1. h.ev \in PaymentEvent
      BY DEF TypeOK, Handler
    <2>2. redemptions' \subseteq RedemptionRow
      BY <1>17 DEF TypeOK, PaymentRedeem
    <2>3. /\ queue' \subseteq SubEvent \cup PaymentEvent
          /\ acked' \subseteq SubEvent \cup PaymentEvent
          /\ clock' \in Nat
      BY <1>17, <2>1 DEF TypeOK, PaymentRedeem, Ack, eventVars
    <2>4. torn' \subseteq PaymentEvent
      BY <1>17, <2>1 DEF TypeOK, PaymentRedeem
    <2> QED  BY <1>17, <2>2, <2>3, <2>4 DEF TypeOK, PaymentRedeem, stripeVars
  <1>18. ASSUME NEW h \in handlers, PaymentPastDue(h)
         PROVE  TypeOK'
    <2>1. h.ev \in PaymentEvent
      BY DEF TypeOK, Handler
    <2>2. subs' \subseteq SubRow
      BY <1>18, PastDueType DEF PaymentPastDue
    <2> QED  BY <1>18, <2>1, <2>2 DEF TypeOK, PaymentPastDue, WritePastDue, Ack, stripeVars
  <1>19. ASSUME NEW k \in sessions, NEW sid \in SubIds, NEW inv \in InvoiceIds,
                StripeCompletesCheckout(k, sid, inv)
         PROVE  TypeOK'
    <2> DEFINE s == [customer |-> k.customer,
                     status |-> IF k.trial THEN "trialing" ELSE "active",
                     period |-> k.period, cancelAtEnd |-> FALSE, coupon |-> k.coupon]
               i == [sid |-> sid, paid |-> TRUE, coupon |-> k.coupon]
    <2>1. k \in Session
      BY DEF TypeOK
    <2>2. s \in StripeSub /\ i \in StripeInvoice
      BY <2>1 DEF Session, StripeSub, StripeInvoice, Status
    <2>3. EmitBoth("created", "payment_succeeded", sid, s, inv, i, TRUE)
      BY <1>19 DEF StripeCompletesCheckout
    <2> HIDE DEF s, i
    <2> QED
      BY <1>19, <2>2, <2>3, EmitBothType
      DEF TypeOK, StripeCompletesCheckout, dbVars, serverVars
  <1>20. ASSUME NEW sid \in SubIds, NEW inv \in InvoiceIds, StripeRenews(sid, inv)
         PROVE  TypeOK'
    <2> DEFINE s == [stripeSubs[sid] EXCEPT !.status = "active"]
               i == [sid |-> sid, paid |-> TRUE, coupon |-> None]
    <2>1. s \in StripeSub /\ i \in StripeInvoice
      BY <1>20, KnownSub DEF StripeRenews, StripeSub, StripeInvoice, Status
    <2>2. EmitBoth("updated", "payment_succeeded", sid, s, inv, i, TRUE)
      BY <1>20 DEF StripeRenews
    <2> HIDE DEF s, i
    <2> QED  BY <1>20, <2>1, <2>2, EmitBothType DEF TypeOK, StripeRenews, dbVars, serverVars
  <1>21. ASSUME NEW sid \in SubIds, NEW inv \in InvoiceIds, StripeFailsToCollect(sid, inv)
         PROVE  TypeOK'
    <2> DEFINE s == [stripeSubs[sid] EXCEPT !.status = "past_due"]
               i == [sid |-> sid, paid |-> FALSE, coupon |-> None]
    <2>1. s \in StripeSub /\ i \in StripeInvoice
      BY <1>21, KnownSub DEF StripeFailsToCollect, StripeSub, StripeInvoice, Status
    <2>2. EmitBoth("updated", "payment_failed", sid, s, inv, i, FALSE)
      BY <1>21 DEF StripeFailsToCollect
    <2> HIDE DEF s, i
    <2> QED
      BY <1>21, <2>1, <2>2, EmitBothType
      DEF TypeOK, StripeFailsToCollect, dbVars, serverVars
  <1>22. ASSUME NEW sid \in SubIds, NEW inv \in InvoiceIds, StripeCollectsLate(sid, inv)
         PROVE  TypeOK'
    <2> DEFINE s == [stripeSubs[sid] EXCEPT !.status = "active"]
               i == [stripeInvoices[inv] EXCEPT !.paid = TRUE]
    <2>1. stripeInvoices[inv] \in StripeInvoice
      BY <1>22, BillingAssumption DEF StripeCollectsLate, TypeOK, BillingAssumption, NoInvoice
    <2>2. s \in StripeSub
      BY <1>22, KnownSub DEF StripeCollectsLate, StripeSub, Status
    <2>4. i \in StripeInvoice
      BY <2>1 DEF StripeInvoice
    <2>3. EmitBoth("updated", "payment_succeeded", sid, s, inv, i, TRUE)
      BY <1>22 DEF StripeCollectsLate
    <2> HIDE DEF s, i
    <2> QED
      BY <1>22, <2>2, <2>3, <2>4, EmitBothType
      DEF TypeOK, StripeCollectsLate, dbVars, serverVars
  <1>23. ASSUME NEW sid \in SubIds, StripeMarksUnpaid(sid)
         PROVE  TypeOK'
    <2>1. [stripeSubs[sid] EXCEPT !.status = "unpaid"] \in StripeSub
      BY <1>23, KnownSub DEF StripeMarksUnpaid, StripeSub, Status
    <2> QED
      BY <1>23, <2>1, EmitType DEF TypeOK, StripeMarksUnpaid, dbVars, serverVars
  <1>24. ASSUME NEW sid \in SubIds, StripeEnds(sid)
         PROVE  TypeOK'
    <2>1. [stripeSubs[sid] EXCEPT !.status = "canceled"] \in StripeSub
      BY <1>24, KnownSub DEF StripeEnds, Live, StripeSub, Status
    <2> QED  BY <1>24, <2>1, EmitType DEF TypeOK, StripeEnds, dbVars, serverVars
  <1>25. ASSUME NEW sid \in SubIds, StripeWarnsTrial(sid)
         PROVE  TypeOK'
    <2>1. stripeSubs[sid] \in StripeSub
      BY <1>25, KnownSub DEF StripeWarnsTrial
    <2> QED  BY <1>25, <2>1, EmitType DEF TypeOK, StripeWarnsTrial, dbVars, serverVars
  <1>26. ASSUME Fault
         PROVE  TypeOK'
    <2>1. ASSUME NEW r \in Requests, RequestFails(r) PROVE TypeOK'
      BY <2>1 DEF TypeOK, RequestFails, Respond, dbVars, stripeVars, eventVars
    <2>2. ASSUME NEW h \in handlers, HandlerFails(h) PROVE TypeOK'
      <3>1. torn' \subseteq PaymentEvent
        BY <2>2, TearType DEF HandlerFails
      <3> QED  BY <2>2, <3>1 DEF TypeOK, HandlerFails, dbVars, stripeVars, eventVars
    <2>3. CASE Crash
      <3>1. torn' \subseteq PaymentEvent
        BY <2>3, TearType DEF Crash
      <3> QED  BY <2>3, <3>1 DEF TypeOK, Crash, dbVars, stripeVars, eventVars
    <2>4. ASSUME NEW h \in handlers, PastDueUnread(h) PROVE TypeOK'
      <3>1. torn' \subseteq PaymentEvent /\ subs' \subseteq SubRow
        BY <2>4, TearType, PastDueType DEF PastDueUnread
      <3> QED
        BY <2>4, <3>1 DEF TypeOK, PastDueUnread, WritePastDue, stripeVars, eventVars
    <2>5. ASSUME NEW e \in queue \cup acked, UpdateUnread(e) PROVE TypeOK'
      <3>1. subs' \subseteq SubRow
        BY <2>5, UpdatedType, CanceledType DEF UpdateUnread
      <3> QED
        BY <2>5, <3>1
        DEF TypeOK, UpdateUnread, WriteUpdated, WriteCanceled, serverVars, stripeVars, eventVars
    <2> QED  BY <1>26, <2>1, <2>2, <2>3, <2>4, <2>5 DEF Fault
  <1>27. CASE UNCHANGED vars
    BY <1>27 DEF TypeOK, vars, dbVars, serverVars, stripeVars, eventVars
  <1> QED
    BY <1>1, <1>2, <1>3, <1>4, <1>5, <1>6, <1>7, <1>8, <1>9, <1>10, <1>11, <1>12, <1>13, <1>14,
       <1>15, <1>16, <1>17, <1>18, <1>19, <1>20, <1>21, <1>22, <1>23, <1>24, <1>25, <1>26, <1>27, <1>28
    DEF Next, ApiCall, RequestStep, Checkout, Webhook, HandlerStep, Stripe

\* Every value keeps its type: no request or webhook stores a row with a
\* missing column, and no handler runs on an event of another kind.
THEOREM TypeCorrect == Spec => []TypeOK
  BY TypeInit, TypeStep, PTL DEF Spec
-----------------------------------------------------------------------------
\* Which steps write the table of subscriptions: the webhooks, with and without the answer, and
\* a toggle.
LEMMA RowWriters ==
    ASSUME [Next]_vars
    PROVE  \/ \E e \in queue \cup acked : \/ OnSubscriptionCreated(e)
                                          \/ WriteUpdated(e)
                                          \/ WriteCanceled(e)
           \/ \E h \in handlers : WritePastDue(h)
           \/ \E r \in Requests : ToggleWrite(r)
           \/ subs' = subs
  <1>1. CASE Fault
    BY <1>1 DEF Fault, RequestFails, HandlerFails, PastDueUnread, UpdateUnread, Crash, dbVars
  <1>2. CASE ~Fault
    BY <1>2
    DEF Next, ApiCall, RequestStep, Checkout, Webhook, HandlerStep, Stripe, CheckoutStart,
           ToggleRead, CancelNow, ChangePeriod, CheckoutDiscounts, CheckoutCustomer,
           CheckoutSaveCustomer, CheckoutSession, ToggleStripe, OnTrialWillEnd,
           OnPaymentUnresolved, PaymentRedeem, StripeCompletesCheckout, StripeRenews,
           StripeFailsToCollect, StripeCollectsLate, StripeMarksUnpaid, StripeEnds,
           StripeWarnsTrial, vars,
        OnSubscriptionUpdated, OnSubscriptionDeleted, OnPayment, PaymentInvoice, PaymentInvalidate,
        PaymentPastDue, dbVars
  <1> QED  BY <1>1, <1>2

\* Which steps change the running handlers, other than by ending some.
LEMMA HandlerMovers ==
    ASSUME [Next]_vars
    PROVE  \/ \E e \in queue \cup acked : OnPayment(e)
           \/ \E h \in handlers : PaymentInvoice(h) \/ PaymentInvalidate(h)
           \/ handlers' \subseteq handlers
  <1>1. CASE Fault
    BY <1>1 DEF Fault, RequestFails, HandlerFails, PastDueUnread, UpdateUnread, Crash,
                WritePastDue, WriteUpdated, WriteCanceled, serverVars
  <1>2. CASE ~Fault
    BY <1>2
    DEF Next, ApiCall, RequestStep, Checkout, Webhook, HandlerStep, Stripe, CheckoutStart,
           ToggleRead, CancelNow, ChangePeriod, CheckoutDiscounts, CheckoutCustomer,
           CheckoutSaveCustomer, CheckoutSession, ToggleStripe, ToggleWrite, OnTrialWillEnd,
           OnPaymentUnresolved, PaymentRedeem, StripeCompletesCheckout, StripeRenews,
           StripeFailsToCollect, StripeCollectsLate, StripeMarksUnpaid, StripeEnds,
           StripeWarnsTrial, vars,
        OnSubscriptionCreated, OnSubscriptionUpdated, OnSubscriptionDeleted, PaymentPastDue,
        WriteUpdated, WriteCanceled, WritePastDue, serverVars
  <1> QED  BY <1>1, <1>2

\* A handler that moves keeps its event.
LEMMA HandlerMoves ==
    ASSUME TypeOK, NEW h \in handlers, PaymentInvoice(h) \/ PaymentInvalidate(h),
           NEW g \in handlers'
    PROVE  g \in handlers \/ g.ev = h.ev
  <1>1. h \in Handler
    BY DEF TypeOK
  <1>2. \A pc : [h EXCEPT !.pc = pc].ev = h.ev
    BY <1>1 DEF Handler
  <1> QED  BY <1>2 DEF PaymentInvoice, PaymentInvalidate
-----------------------------------------------------------------------------
(* A canceled row is canceled at Stripe.  The invariant that is inductive   *)
(* adds what makes it so: an event that can cancel a row is emitted by a    *)
(* subscription that has ended, and an ended subscription stays ended.      *)

\* Step changes subscription sid to s, which had not ended and keeps its
\* customer, and each new event is a snapshot of s.
Changes(sid, s) ==
    /\ stripeSubs' = [stripeSubs EXCEPT ![sid] = s]
    /\ s \in StripeSub
    /\ stripeSubs[sid].status # "canceled"
    /\ stripeSubs[sid] # NoSub => s.customer = stripeSubs[sid].customer
    /\ queue \cup acked \subseteq queue' \cup acked'
    /\ \A e \in (queue' \cup acked') \ (queue \cup acked) :
         /\ e.sid = sid
         /\ e.status = s.status
         /\ e.type = "deleted" => s.status = "canceled"

Quiet == UNCHANGED stripeSubs /\ queue' \cup acked' = queue \cup acked

LEMMA EmitChanges ==
    ASSUME TypeOK, NEW sid \in SubIds, NEW s \in StripeSub, NEW type,
           Emit(type, sid, s), Live(sid),
           s.customer = stripeSubs[sid].customer,
           type = "deleted" => s.status = "canceled"
    PROVE  Changes(sid, s)
  BY DEF Emit, EventOf, Changes, Live

LEMMA EmitBothChanges ==
    ASSUME TypeOK, NEW sid \in SubIds, NEW s \in StripeSub, NEW inv, NEW i,
           NEW subFirst \in BOOLEAN, NEW subType, NEW invType,
           EmitBoth(subType, invType, sid, s, inv, i, subFirst),
           stripeSubs[sid].status # "canceled",
           stripeSubs[sid] # NoSub => s.customer = stripeSubs[sid].customer,
           subType # "deleted", invType # "deleted"
    PROVE  Changes(sid, s)
  <1> DEFINE e1 == EventOf(clock + (IF subFirst THEN 1 ELSE 2), subType, sid, s, None, None)
             e2 == EventOf(clock + (IF subFirst THEN 2 ELSE 1), invType, sid, s, inv, i.coupon)
  <1>1. /\ queue' = queue \cup {e1, e2}
        /\ acked' = acked
        /\ stripeSubs' = [stripeSubs EXCEPT ![sid] = s]
    BY DEF EmitBoth
  <1>2. /\ e1.sid = sid /\ e1.status = s.status /\ e1.type # "deleted"
        /\ e2.sid = sid /\ e2.status = s.status /\ e2.type # "deleted"
    BY DEF EventOf
  <1> HIDE DEF e1, e2
  <1> QED  BY <1>1, <1>2 DEF Changes

\* Acknowledging an event that was delivered emits none.
LEMMA AckQuiet ==
    ASSUME NEW e \in queue \cup acked, Ack(e), UNCHANGED stripeSubs
    PROVE  Quiet
  BY DEF Ack, Quiet

\* The event of a running handler was emitted.
HandlersKnown == \A h \in handlers : h.ev \in queue \cup acked

\* Every step is quiet or changes one subscription.
LEMMA StripeStep ==
    ASSUME TypeOK, HandlersKnown, [Next]_vars
    PROVE  Quiet \/ \E sid \in SubIds, s \in StripeSub : Changes(sid, s)
  <1>1. ASSUME NEW u \in Users, CancelNow(u)
        PROVE  \E sid \in SubIds, s \in StripeSub : Changes(sid, s)
    <2>1. PICK row \in subs :
            /\ Live(row.sid)
            /\ Emit("deleted", row.sid, [stripeSubs[row.sid] EXCEPT !.status = "canceled"])
      BY <1>1 DEF CancelNow
    <2> DEFINE sid == row.sid
               s == [stripeSubs[sid] EXCEPT !.status = "canceled"]
    <2>2. sid \in SubIds
      BY DEF TypeOK, SubRow
    <2>3. s \in StripeSub /\ s.customer = stripeSubs[sid].customer /\ s.status = "canceled"
      BY <2>1, <2>2, KnownSub DEF Live, StripeSub, Status
    <2> HIDE DEF s
    <2> QED  BY <2>1, <2>2, <2>3, EmitChanges DEF s
  <1>2. ASSUME NEW u \in Users, NEW p \in Periods, ChangePeriod(u, p)
        PROVE  \E sid \in SubIds, s \in StripeSub : Changes(sid, s)
    <2>1. PICK row \in subs :
            /\ Live(row.sid)
            /\ Emit("updated", row.sid, [stripeSubs[row.sid] EXCEPT !.period = p])
      BY <1>2 DEF ChangePeriod
    <2> DEFINE sid == row.sid
               s == [stripeSubs[sid] EXCEPT !.period = p]
    <2>2. sid \in SubIds
      BY DEF TypeOK, SubRow
    <2>3. s \in StripeSub /\ s.customer = stripeSubs[sid].customer
      BY <2>1, <2>2, KnownSub DEF Live, StripeSub
    <2> HIDE DEF s
    <2> QED  BY <2>1, <2>2, <2>3, EmitChanges DEF s
  <1>3. ASSUME NEW r \in Requests, ToggleStripe(r)
        PROVE  Quiet \/ \E sid \in SubIds, s \in StripeSub : Changes(sid, s)
    <2> DEFINE sid == req[r].sid
               s == [stripeSubs[sid] EXCEPT !.cancelAtEnd = ~req[r].autoRenew]
    <2>1. CASE Live(sid) /\ Emit("updated", sid, s)
      <3>1. sid \in SubIds /\ (~req[r].autoRenew) \in BOOLEAN
        BY <1>3, RequestKind DEF ToggleStripe, ToggleRequest
      <3>2. s \in StripeSub /\ s.customer = stripeSubs[sid].customer
        BY <2>1, <3>1, KnownSub DEF Live, StripeSub
      <3> HIDE DEF s, sid
      <3> QED  BY <2>1, <3>1, <3>2, EmitChanges
    <2>2. CASE UNCHANGED <<stripeSubs, eventVars>>
      BY <2>2 DEF Quiet, eventVars
    <2> QED  BY <1>3, <2>1, <2>2 DEF ToggleStripe
  <1>4. ASSUME NEW k \in sessions, NEW sid \in SubIds, NEW inv \in InvoiceIds,
               StripeCompletesCheckout(k, sid, inv)
        PROVE  \E s \in StripeSub : Changes(sid, s)
    <2> DEFINE s == [customer |-> k.customer,
                     status |-> IF k.trial THEN "trialing" ELSE "active",
                     period |-> k.period, cancelAtEnd |-> FALSE, coupon |-> k.coupon]
               i == [sid |-> sid, paid |-> TRUE, coupon |-> k.coupon]
    <2>1. s \in StripeSub
      BY DEF TypeOK, Session, StripeSub, Status
    <2>2. EmitBoth("created", "payment_succeeded", sid, s, inv, i, TRUE)
      BY <1>4 DEF StripeCompletesCheckout
    <2>3. stripeSubs[sid] = NoSub /\ stripeSubs[sid].status # "canceled"
      BY <1>4 DEF StripeCompletesCheckout, NoSub
    <2> HIDE DEF s, i
    <2> QED  BY <2>1, <2>2, <2>3, EmitBothChanges
  <1>5. ASSUME NEW sid \in SubIds, NEW inv \in InvoiceIds,
               StripeRenews(sid, inv) \/ StripeCollectsLate(sid, inv)
        PROVE  \E s \in StripeSub : Changes(sid, s)
    <2> DEFINE s == [stripeSubs[sid] EXCEPT !.status = "active"]
    <2>1. stripeSubs[sid].status \notin {"none", "canceled"}
      BY <1>5 DEF StripeRenews, StripeCollectsLate
    <2>2. s \in StripeSub /\ s.customer = stripeSubs[sid].customer
      BY <2>1, KnownSub DEF StripeSub, Status
    <2>3. PICK i : EmitBoth("updated", "payment_succeeded", sid, s, inv, i, TRUE)
      BY <1>5 DEF StripeRenews, StripeCollectsLate
    <2> HIDE DEF s
    <2> QED  BY <2>1, <2>2, <2>3, EmitBothChanges
  <1>6. ASSUME NEW sid \in SubIds, NEW inv \in InvoiceIds, StripeFailsToCollect(sid, inv)
        PROVE  \E s \in StripeSub : Changes(sid, s)
    <2> DEFINE s == [stripeSubs[sid] EXCEPT !.status = "past_due"]
    <2>1. stripeSubs[sid].status \notin {"none", "canceled"}
      BY <1>6 DEF StripeFailsToCollect
    <2>2. s \in StripeSub /\ s.customer = stripeSubs[sid].customer
      BY <2>1, KnownSub DEF StripeSub, Status
    <2>3. PICK i : EmitBoth("updated", "payment_failed", sid, s, inv, i, FALSE)
      BY <1>6 DEF StripeFailsToCollect
    <2> HIDE DEF s
    <2> QED  BY <2>1, <2>2, <2>3, EmitBothChanges
  <1>7. ASSUME NEW sid \in SubIds, StripeMarksUnpaid(sid) \/ StripeEnds(sid) \/ StripeWarnsTrial(sid)
        PROVE  \E s \in StripeSub : Changes(sid, s)
    <2>1. Live(sid) /\ stripeSubs[sid] \in StripeSub
      BY <1>7, KnownSub DEF StripeMarksUnpaid, StripeEnds, StripeWarnsTrial, Live
    <2>2. CASE StripeMarksUnpaid(sid)
      <3> DEFINE s == [stripeSubs[sid] EXCEPT !.status = "unpaid"]
      <3>1. s \in StripeSub /\ s.customer = stripeSubs[sid].customer
        BY <2>1 DEF StripeSub, Status
      <3> QED  BY <2>1, <2>2, <3>1, EmitChanges DEF StripeMarksUnpaid
    <2>3. CASE StripeEnds(sid)
      <3> DEFINE s == [stripeSubs[sid] EXCEPT !.status = "canceled"]
      <3>1. s \in StripeSub /\ s.customer = stripeSubs[sid].customer /\ s.status = "canceled"
        BY <2>1 DEF StripeSub, Status
      <3> QED  BY <2>1, <2>3, <3>1, EmitChanges DEF StripeEnds
    <2>4. CASE StripeWarnsTrial(sid)
      BY <2>1, <2>4, EmitChanges DEF StripeWarnsTrial
    <2> QED  BY <1>7, <2>2, <2>3, <2>4
  <1>8. ASSUME NEW e \in queue \cup acked, Webhook(e)
        PROVE  Quiet
    BY <1>8, AckQuiet
    DEF Webhook, OnSubscriptionCreated, OnSubscriptionUpdated, OnSubscriptionDeleted,
        OnTrialWillEnd, OnPayment, OnPaymentUnresolved, Quiet, stripeVars, eventVars,
        WriteUpdated, WriteCanceled
  <1>9. ASSUME NEW h \in handlers, HandlerStep(h)
        PROVE  Quiet
    <2>1. h.ev \in queue \cup acked
      BY DEF HandlersKnown
    <2> QED
      BY <1>9, <2>1, AckQuiet
      DEF HandlerStep, PaymentInvoice, PaymentInvalidate, PaymentRedeem, PaymentPastDue, Quiet,
          stripeVars, eventVars, WritePastDue
  <1>10. ASSUME NEW r \in Requests, Checkout(r) \/ ToggleWrite(r)
         PROVE  Quiet
    BY <1>10
    DEF Checkout, CheckoutDiscounts, CheckoutCustomer, CheckoutSaveCustomer, CheckoutSession,
        ToggleWrite, Quiet, stripeVars, eventVars
  <1>11. ASSUME NEW r \in Requests, NEW u \in Users,
                ToggleRead(r, u) \/ \E p \in Periods, c \in Coupons \cup {None} : CheckoutStart(r, u, p, c)
         PROVE  Quiet
    BY <1>11 DEF ToggleRead, CheckoutStart, Quiet, stripeVars, eventVars
  <1>12. CASE Fault
    BY <1>12 DEF Fault, RequestFails, HandlerFails, PastDueUnread, UpdateUnread, Crash,
                 WriteUpdated, WriteCanceled, WritePastDue, Quiet, stripeVars, eventVars
  <1>13. CASE UNCHANGED vars
    BY <1>13 DEF vars, Quiet, stripeVars, eventVars
  <1> QED
    BY <1>1, <1>2, <1>3, <1>4, <1>5, <1>6, <1>7, <1>8, <1>9, <1>10, <1>11, <1>12, <1>13
    DEF Next, ApiCall, RequestStep, Stripe

\* An event that says a subscription ended comes from one that has.
EventsTruthful ==
    \A e \in queue \cup acked :
        e.status = "canceled" \/ e.type = "deleted" => stripeSubs[e.sid].status = "canceled"

CancelInv == TypeOK /\ HandlersKnown /\ EventsTruthful /\ CanceledIsFinal

\* Handlers keep running on known events.
LEMMA HandlersKnownStep ==
    ASSUME TypeOK, HandlersKnown, [Next]_vars
    PROVE  HandlersKnown'
  <1>1. queue \cup acked \subseteq queue' \cup acked'
    BY StripeStep DEF Quiet, Changes
  <1>2. ASSUME NEW e \in queue \cup acked, OnPayment(e)
        PROVE  HandlersKnown'
    BY <1>2 DEF OnPayment, HandlersKnown, eventVars
  <1>3. ASSUME NEW h \in handlers, PaymentInvoice(h) \/ PaymentInvalidate(h)
        PROVE  HandlersKnown'
    BY <1>1, <1>3, HandlerMoves DEF HandlersKnown
  <1>4. CASE handlers' \subseteq handlers
    BY <1>1, <1>4 DEF HandlersKnown
  <1> QED  BY <1>2, <1>3, <1>4, HandlerMovers

\* An ended subscription stays ended and events stay truthful.
LEMMA TruthStep ==
    ASSUME TypeOK, HandlersKnown, EventsTruthful, [Next]_vars
    PROVE  /\ EventsTruthful'
           /\ \A sid \in SubIds : stripeSubs[sid].status = "canceled"
                                    => stripeSubs'[sid].status = "canceled"
  <1>1. CASE Quiet
    BY <1>1 DEF Quiet, EventsTruthful
  <1>2. ASSUME NEW sid \in SubIds, NEW s \in StripeSub, Changes(sid, s)
        PROVE  /\ EventsTruthful'
               /\ \A x \in SubIds : stripeSubs[x].status = "canceled"
                                      => stripeSubs'[x].status = "canceled"
    <2>1. \A x \in SubIds : stripeSubs'[x] = IF x = sid THEN s ELSE stripeSubs[x]
      BY <1>2 DEF TypeOK, Changes
    <2>2. \A x \in SubIds : stripeSubs[x].status = "canceled" => stripeSubs'[x].status = "canceled"
      BY <1>2, <2>1 DEF Changes
    <2>3. ASSUME NEW e \in queue \cup acked
          PROVE  e.sid \in SubIds
      BY DEF TypeOK, SubEvent, PaymentEvent
    <2>4. EventsTruthful'
      BY <1>2, <2>1, <2>2, <2>3 DEF EventsTruthful, Changes
    <2> QED  BY <2>2, <2>4
  <1> QED  BY <1>1, <1>2, StripeStep

\* CanceledIsFinal for every instance: whatever is delayed, repeated, reordered
\* or lost to a crash, a row says canceled only if Stripe ended the subscription.
THEOREM CanceledSafe == Spec => []CanceledIsFinal
  <1>1. Init => CancelInv
    BY TypeInit DEF Init, CancelInv, HandlersKnown, EventsTruthful, CanceledIsFinal
  <1>2. CancelInv /\ [Next]_vars => CancelInv'
    <2> SUFFICES ASSUME CancelInv, [Next]_vars PROVE CancelInv'
      OBVIOUS
    <2>1. TypeOK /\ TypeOK'
      BY TypeStep DEF CancelInv
    <2>2. HandlersKnown'
      BY HandlersKnownStep DEF CancelInv
    <2>3. /\ EventsTruthful'
          /\ \A sid \in SubIds : stripeSubs[sid].status = "canceled"
                                   => stripeSubs'[sid].status = "canceled"
      BY TruthStep DEF CancelInv
    <2>4. \A row \in subs : row.sid \in SubIds
      BY <2>1 DEF TypeOK, SubRow
    <2>5. ASSUME NEW e \in queue \cup acked, OnSubscriptionCreated(e)
          PROVE  CanceledIsFinal'
      <3>1. PICK u \in Users : subs' = subs \cup {BuildSEntity(u, e)}
        BY <2>5 DEF OnSubscriptionCreated, InsertSub
      <3>2. /\ BuildSEntity(u, e).status = e.status
            /\ BuildSEntity(u, e).sid = e.sid
        BY DEF BuildSEntity
      <3>3. UNCHANGED stripeSubs
        BY <2>5 DEF OnSubscriptionCreated, stripeVars
      <3> QED
        BY <3>1, <3>2, <3>3 DEF CancelInv, EventsTruthful, CanceledIsFinal
    <2>6. ASSUME NEW e \in queue \cup acked, WriteUpdated(e)
          PROVE  CanceledIsFinal'
      <3>1. ASSUME NEW row \in subs', row.status = "canceled"
            PROVE  stripeSubs[row.sid].status = "canceled"
        <4>1. PICK old \in subs :
                row = IF old.sid = e.sid
                      THEN [old EXCEPT !.status = e.status, !.period = e.period,
                                       !.autoRenew = ~e.cancelAtEnd,
                                       !.cancelAtPeriodEnd = e.cancelAtEnd]
                      ELSE old
          BY <2>6 DEF WriteUpdated, UpdateSub, Updated
        <4>2. old \in SubRow
          BY <2>1 DEF TypeOK
        <4>3. row.sid = old.sid /\ row.status = IF old.sid = e.sid THEN e.status ELSE old.status
          BY <4>1, <4>2 DEF SubRow
        <4> QED  BY <3>1, <4>3 DEF CancelInv, EventsTruthful, CanceledIsFinal
      <3> QED  BY <2>6, <3>1 DEF CanceledIsFinal, WriteUpdated, stripeVars
    <2>7. ASSUME NEW e \in queue \cup acked, WriteCanceled(e)
          PROVE  CanceledIsFinal'
      <3>1. stripeSubs[e.sid].status = "canceled"
        BY <2>7 DEF CancelInv, EventsTruthful, WriteCanceled
      <3>2. ASSUME NEW row \in subs', row.status = "canceled"
            PROVE  stripeSubs[row.sid].status = "canceled"
        <4>1. PICK old \in subs :
                row = IF old.sid = e.sid THEN [old EXCEPT !.status = "canceled"] ELSE old
          BY <2>7 DEF WriteCanceled, UpdateSub
        <4>2. row.sid = old.sid
          BY <2>1, <4>1 DEF TypeOK, SubRow
        <4> QED  BY <3>1, <3>2, <4>1, <4>2 DEF CancelInv, CanceledIsFinal
      <3> QED  BY <2>7, <3>2 DEF CanceledIsFinal, WriteCanceled, stripeVars
    <2>8. ASSUME NEW h \in handlers, WritePastDue(h)
          PROVE  CanceledIsFinal'
      <3>1. ASSUME NEW row \in subs', row.status = "canceled"
            PROVE  row \in subs
        <4>1. PICK old \in subs :
                row = IF old.sid = h.ev.sid THEN [old EXCEPT !.status = "past_due"] ELSE old
          BY <2>8 DEF WritePastDue, UpdateSub
        <4>2. old \in SubRow
          BY <2>1 DEF TypeOK
        <4> QED  BY <3>1, <4>1, <4>2 DEF SubRow
      <3> QED  BY <2>8, <3>1 DEF CancelInv, CanceledIsFinal, WritePastDue, stripeVars
    <2>9. ASSUME NEW r \in Requests, ToggleWrite(r)
          PROVE  CanceledIsFinal'
      <3>1. ASSUME NEW row \in subs'
            PROVE  \E old \in subs : old.sid = row.sid /\ old.status = row.status
        <4>1. PICK old \in subs :
                row = IF old.sid = req[r].sid
                      THEN [old EXCEPT !.autoRenew = req[r].autoRenew,
                                       !.cancelAtPeriodEnd = ~req[r].autoRenew]
                      ELSE old
          BY <2>9 DEF ToggleWrite
        <4>2. old \in SubRow
          BY <2>1 DEF TypeOK
        <4> QED  BY <4>1, <4>2 DEF SubRow
      <3>2. UNCHANGED stripeSubs
        BY <2>9 DEF ToggleWrite, stripeVars
      <3> QED  BY <3>1, <3>2 DEF CancelInv, CanceledIsFinal
    <2>10. ASSUME subs' = subs
           PROVE  CanceledIsFinal'
      <3>1. ASSUME NEW row \in subs, row.status = "canceled"
            PROVE  stripeSubs'[row.sid].status = "canceled"
        BY <2>3, <2>4, <3>1 DEF CancelInv, CanceledIsFinal
      <3> QED  BY <2>10, <3>1 DEF CanceledIsFinal
    <2>12. CanceledIsFinal'
      BY <2>5, <2>6, <2>7, <2>8, <2>9, <2>10, RowWriters
    <2> QED  BY <2>1, <2>2, <2>3, <2>12 DEF CancelInv
  <1>3. CancelInv => CanceledIsFinal
    BY DEF CancelInv
  <1> QED  BY <1>1, <1>2, <1>3, PTL DEF Spec
-----------------------------------------------------------------------------
(* A row belongs to the user who pays.  The webhook finds the user by the    *)
(* customer id in users, so the invariant follows an id from the request     *)
(* that made the customer to users, and an event to a real subscription.     *)

\* The customer saved with a user was made for that user ...
CustomersKept ==
    \A u \in Users : customerOf[u] # None => stripeCustomers[customerOf[u]] = u

\* ... and so was the one a checkout carries.
RequestsOwn ==
    \A r \in Requests : req[r].customer # None => stripeCustomers[req[r].customer] = req[r].user

\* An event is about a subscription that was made.
EventsReal == \A e \in queue \cup acked : stripeSubs[e.sid] # NoSub

OwnerInv ==
    TypeOK /\ HandlersKnown /\ CustomersKept /\ RequestsOwn /\ EventsReal /\ RowOwner

\* A customer keeps the user it was made for.
LEMMA CustomerStep ==
    ASSUME TypeOK, [Next]_vars, NEW c \in CustomerIds, stripeCustomers[c] # None
    PROVE  stripeCustomers'[c] = stripeCustomers[c]
  <1>1. ASSUME NEW r \in Requests, CheckoutCustomer(r)
        PROVE  stripeCustomers'[c] = stripeCustomers[c]
    <2>1. CASE stripeCustomers' = stripeCustomers
      BY <2>1
    <2>2. ASSUME NEW d \in CustomerIds, stripeCustomers[d] = None,
                 stripeCustomers' = [stripeCustomers EXCEPT ![d] = req[r].user]
          PROVE  stripeCustomers'[c] = stripeCustomers[c]
      BY <2>2 DEF TypeOK
    <2> QED  BY <1>1, <2>1, <2>2 DEF CheckoutCustomer
  <1>2. \/ \E r \in Requests : CheckoutCustomer(r)
        \/ stripeCustomers' = stripeCustomers
    BY DEF Next, ApiCall, RequestStep, Checkout, Webhook, HandlerStep, Stripe, Fault,
           CheckoutStart, ToggleRead, CancelNow, ChangePeriod, CheckoutDiscounts,
           CheckoutSaveCustomer, CheckoutSession, ToggleStripe, ToggleWrite,
           OnSubscriptionCreated, OnSubscriptionUpdated, OnSubscriptionDeleted, OnTrialWillEnd,
           OnPayment, OnPaymentUnresolved, PaymentInvoice, PaymentInvalidate, PaymentRedeem,
           PaymentPastDue, StripeCompletesCheckout, StripeRenews, StripeFailsToCollect,
           StripeCollectsLate, StripeMarksUnpaid, StripeEnds, StripeWarnsTrial, RequestFails,
           HandlerFails, PastDueUnread, UpdateUnread, Crash, stripeVars, vars, WriteUpdated,
           WriteCanceled, WritePastDue
  <1> QED  BY <1>1, <1>2

\* A customer's id reaches users only through the request it was made for.
LEMMA OwnersStep ==
    ASSUME TypeOK, CustomersKept, RequestsOwn, [Next]_vars
    PROVE  CustomersKept' /\ RequestsOwn'
  <1>1. \A u \in Users : customerOf[u] # None => stripeCustomers'[customerOf[u]] = u
    BY CustomerStep, BillingAssumption DEF TypeOK, CustomersKept, BillingAssumption
  <1>2. ASSUME NEW r \in Requests, req[r].customer # None
        PROVE  stripeCustomers'[req[r].customer] = req[r].user
    <2>1. req[r].customer \in CustomerIds /\ req[r].user \in Users
      <3>1. req[r] \in {Idle} \cup CheckoutRequest \cup ToggleRequest
        BY DEF TypeOK
      <3>2. req[r] # Idle
        BY <1>2 DEF Idle
      <3>3. req[r] \notin ToggleRequest
        BY <1>2 DEF ToggleRequest
      <3>4. req[r] \in CheckoutRequest
        BY <3>1, <3>2, <3>3
      <3> QED  BY <1>2, <3>4 DEF CheckoutRequest
    <2> QED
      BY <1>2, <2>1, CustomerStep, BillingAssumption DEF RequestsOwn, BillingAssumption
  <1>3. ASSUME NEW r \in Requests, NEW u \in Users, NEW p \in Periods,
               NEW c \in Coupons \cup {None}, CheckoutStart(r, u, p, c)
        PROVE  CustomersKept' /\ RequestsOwn'
    <2> DEFINE q == [pc |-> "discounts", user |-> u, customer |-> customerOf[u], period |-> p,
                     coupon |-> c, trial |-> FALSE, sid |-> None, autoRenew |-> FALSE]
    <2>1. req' = [req EXCEPT ![r] = q] /\ customerOf' = customerOf
      BY <1>3 DEF CheckoutStart, dbVars
    <2>2. q.customer # None => stripeCustomers'[q.customer] = q.user
      BY <1>1
    <2> HIDE DEF q
    <2> QED  BY <1>1, <1>2, <2>1, <2>2 DEF TypeOK, CustomersKept, RequestsOwn
  <1>4. ASSUME NEW r \in Requests, CheckoutCustomer(r)
        PROVE  CustomersKept' /\ RequestsOwn'
    <2>1. req[r] \in CheckoutRequest /\ customerOf' = customerOf
      BY <1>4, RequestKind DEF CheckoutCustomer, dbVars
    <2>2. CASE req' = [req EXCEPT ![r].pc = "session"]
      <3>1. \A x \in Requests : req'[x].customer = req[x].customer /\ req'[x].user = req[x].user
        BY <2>1, <2>2 DEF TypeOK, CheckoutRequest
      <3> QED  BY <1>1, <1>2, <2>1, <3>1 DEF CustomersKept, RequestsOwn
    <2>3. ASSUME NEW c \in CustomerIds,
                 stripeCustomers' = [stripeCustomers EXCEPT ![c] = req[r].user],
                 req' = [req EXCEPT ![r].pc = "saveCustomer", ![r].customer = c]
          PROVE  CustomersKept' /\ RequestsOwn'
      <3>1. req'[r].customer = c /\ req'[r].user = req[r].user
        BY <2>1, <2>3 DEF TypeOK, CheckoutRequest
      <3>2. \A x \in Requests \ {r} : req'[x] = req[x]
        BY <2>3 DEF TypeOK
      <3>3. stripeCustomers'[c] = req[r].user
        BY <2>3 DEF TypeOK
      <3> QED  BY <1>1, <1>2, <2>1, <3>1, <3>2, <3>3 DEF CustomersKept, RequestsOwn
    <2> QED  BY <1>4, <2>2, <2>3 DEF CheckoutCustomer
  <1>5. ASSUME NEW r \in Requests, CheckoutSaveCustomer(r)
        PROVE  CustomersKept' /\ RequestsOwn'
    <2>1. req[r] \in CheckoutRequest /\ req[r].customer \in CustomerIds /\ req[r].user \in Users
      BY <1>5, RequestKind DEF CheckoutSaveCustomer, CheckoutRequest
    <2>2. \A x \in Requests : req'[x].customer = req[x].customer /\ req'[x].user = req[x].user
      BY <1>5, <2>1 DEF CheckoutSaveCustomer, TypeOK, CheckoutRequest
    <2>3. \A u \in Users : customerOf'[u] = IF u = req[r].user THEN req[r].customer
                                            ELSE customerOf[u]
      BY <1>5, <2>1 DEF CheckoutSaveCustomer, TypeOK
    <2>4. stripeCustomers'[req[r].customer] = req[r].user
      BY <1>2, <2>1, BillingAssumption DEF BillingAssumption
    <2> QED  BY <1>1, <1>2, <2>2, <2>3, <2>4 DEF CustomersKept, RequestsOwn
  <1>6. ASSUME NEW r \in Requests, CheckoutDiscounts(r) \/ ToggleStripe(r)
        PROVE  CustomersKept' /\ RequestsOwn'
    <2>1. req[r] \in CheckoutRequest \cup ToggleRequest
      BY <1>6, RequestKind DEF CheckoutDiscounts, ToggleStripe
    <2>2. \A x \in Requests : \/ req'[x].customer = None
                              \/ req'[x].customer = req[x].customer /\ req'[x].user = req[x].user
      <3>1. CASE \E pc, b : req' = [req EXCEPT ![r].pc = pc, ![r].trial = b]
        BY <2>1, <3>1 DEF TypeOK, CheckoutRequest, ToggleRequest
      <3>2. CASE req' = [req EXCEPT ![r].pc = "toggleWrite"]
        BY <2>1, <3>2 DEF TypeOK, CheckoutRequest, ToggleRequest
      <3>3. CASE Respond(r)
        BY <3>3 DEF TypeOK, Respond, Idle
      <3> QED  BY <1>6, <3>1, <3>2, <3>3 DEF CheckoutDiscounts, ToggleStripe
    <2>3. customerOf' = customerOf
      BY <1>6 DEF CheckoutDiscounts, ToggleStripe, dbVars
    <2> QED  BY <1>1, <1>2, <2>2, <2>3 DEF CustomersKept, RequestsOwn
  <1>7. ASSUME NEW r \in Requests, NEW u \in Users, ToggleRead(r, u)
        PROVE  CustomersKept' /\ RequestsOwn'
    <2>1. \A x \in Requests : req'[x] = req[x] \/ req'[x].customer = None
      BY <1>7 DEF ToggleRead, TypeOK
    <2>2. customerOf' = customerOf
      BY <1>7 DEF ToggleRead, dbVars
    <2> QED  BY <1>1, <1>2, <2>1, <2>2 DEF CustomersKept, RequestsOwn
  <1>8. ASSUME NEW r \in Requests, CheckoutSession(r) \/ ToggleWrite(r) \/ RequestFails(r)
        PROVE  CustomersKept' /\ RequestsOwn'
    <2>1. req' = [req EXCEPT ![r] = Idle]
      BY <1>8 DEF CheckoutSession, ToggleWrite, RequestFails, Respond
    <2>2. \A x \in Requests : req'[x] = req[x] \/ req'[x].customer = None
      BY <2>1 DEF Idle, TypeOK
    <2>3. customerOf' = customerOf
      BY <1>8 DEF CheckoutSession, ToggleWrite, RequestFails, dbVars
    <2> QED  BY <1>1, <1>2, <2>2, <2>3 DEF CustomersKept, RequestsOwn
  <1>9. CASE Crash
    BY <1>1, <1>9 DEF Crash, Idle, dbVars, CustomersKept, RequestsOwn
  <1>10. CASE UNCHANGED <<req, customerOf>>
    BY <1>1, <1>2, <1>10 DEF CustomersKept, RequestsOwn
  <1>11. \/ \E r \in Requests :
              \/ CheckoutDiscounts(r) \/ CheckoutCustomer(r) \/ CheckoutSaveCustomer(r)
              \/ CheckoutSession(r) \/ ToggleStripe(r) \/ ToggleWrite(r) \/ RequestFails(r)
              \/ \E u \in Users : \/ ToggleRead(r, u)
                                  \/ \E p \in Periods, c \in Coupons \cup {None} :
                                       CheckoutStart(r, u, p, c)
         \/ Crash
         \/ UNCHANGED <<req, customerOf>>
    BY DEF Next, ApiCall, RequestStep, Checkout, Webhook, HandlerStep, Stripe, Fault, CancelNow,
           ChangePeriod, OnSubscriptionCreated, OnSubscriptionUpdated, OnSubscriptionDeleted,
           OnTrialWillEnd, OnPayment, OnPaymentUnresolved, PaymentInvoice, PaymentInvalidate,
           PaymentRedeem, PaymentPastDue, StripeCompletesCheckout, StripeRenews,
           StripeFailsToCollect, StripeCollectsLate, StripeMarksUnpaid, StripeEnds,
           StripeWarnsTrial, HandlerFails, serverVars, dbVars, vars, PastDueUnread, UpdateUnread,
           WriteUpdated, WriteCanceled, WritePastDue
  <1> QED
    BY <1>3, <1>4, <1>5, <1>6, <1>7, <1>8, <1>9, <1>10, <1>11

\* A subscription that was made stays, with its customer, and is the only kind
\* Stripe tells of.
LEMMA RealStep ==
    ASSUME TypeOK, HandlersKnown, EventsReal, [Next]_vars
    PROVE  /\ EventsReal'
           /\ \A sid \in SubIds : stripeSubs[sid] # NoSub =>
                 stripeSubs'[sid] # NoSub /\ stripeSubs'[sid].customer = stripeSubs[sid].customer
  <1>1. CASE Quiet
    BY <1>1 DEF Quiet, EventsReal
  <1>2. ASSUME NEW sid \in SubIds, NEW s \in StripeSub, Changes(sid, s)
        PROVE  /\ EventsReal'
               /\ \A x \in SubIds : stripeSubs[x] # NoSub =>
                     stripeSubs'[x] # NoSub /\ stripeSubs'[x].customer = stripeSubs[x].customer
    <2>1. \A x \in SubIds : stripeSubs'[x] = IF x = sid THEN s ELSE stripeSubs[x]
      BY <1>2 DEF TypeOK, Changes
    <2>2. s # NoSub
      BY DEF StripeSub, NoSub, Status
    <2>3. \A x \in SubIds : stripeSubs[x] # NoSub =>
             stripeSubs'[x] # NoSub /\ stripeSubs'[x].customer = stripeSubs[x].customer
      BY <1>2, <2>1, <2>2 DEF Changes
    <2>4. ASSUME NEW e \in queue \cup acked
          PROVE  e.sid \in SubIds
      BY DEF TypeOK, SubEvent, PaymentEvent
    <2>5. ASSUME NEW e \in queue' \cup acked'
          PROVE  stripeSubs'[e.sid] # NoSub
      <3>1. CASE e \in queue \cup acked
        BY <2>3, <2>4, <3>1 DEF EventsReal
      <3>2. CASE e \notin queue \cup acked
        BY <1>2, <2>1, <2>2, <3>2 DEF Changes
      <3> QED  BY <3>1, <3>2
    <2> QED  BY <2>3, <2>5 DEF EventsReal
  <1> QED  BY <1>1, <1>2, StripeStep

\* Updates leave a row its subscription and its user.
LEMMA RowsKeep ==
    ASSUME TypeOK, [Next]_vars, NEW row \in subs'
    PROVE  \/ \E old \in subs : old.sid = row.sid /\ old.user = row.user
           \/ \E e \in queue \cup acked : OnSubscriptionCreated(e) /\ row \notin subs
  <1> DEFINE Kept == \E old \in subs : old.sid = row.sid /\ old.user = row.user
  <1>1. \A old \in subs : old \in SubRow
    BY DEF TypeOK
  <1>2. ASSUME NEW e \in queue \cup acked, WriteUpdated(e)
        PROVE  Kept
    <2>1. PICK old \in subs :
            row = IF old.sid = e.sid
                  THEN [old EXCEPT !.status = e.status, !.period = e.period,
                                   !.autoRenew = ~e.cancelAtEnd,
                                   !.cancelAtPeriodEnd = e.cancelAtEnd]
                  ELSE old
      BY <1>2 DEF WriteUpdated, UpdateSub, Updated
    <2> QED  BY <1>1, <2>1 DEF SubRow
  <1>3. ASSUME NEW e \in queue \cup acked, WriteCanceled(e)
        PROVE  Kept
    <2>1. PICK old \in subs :
            row = IF old.sid = e.sid THEN [old EXCEPT !.status = "canceled"] ELSE old
      BY <1>3 DEF WriteCanceled, UpdateSub
    <2> QED  BY <1>1, <2>1 DEF SubRow
  <1>4. ASSUME NEW h \in handlers, WritePastDue(h)
        PROVE  Kept
    <2>1. PICK old \in subs :
            row = IF old.sid = h.ev.sid THEN [old EXCEPT !.status = "past_due"] ELSE old
      BY <1>4 DEF WritePastDue, UpdateSub
    <2> QED  BY <1>1, <2>1 DEF SubRow
  <1>5. ASSUME NEW r \in Requests, ToggleWrite(r)
        PROVE  Kept
    <2>1. PICK old \in subs :
            row = IF old.sid = req[r].sid
                  THEN [old EXCEPT !.autoRenew = req[r].autoRenew,
                                   !.cancelAtPeriodEnd = ~req[r].autoRenew]
                  ELSE old
      BY <1>5 DEF ToggleWrite
    <2> QED  BY <1>1, <2>1 DEF SubRow
  <1>6. CASE row \in subs
    BY <1>6
  <1> QED  BY <1>2, <1>3, <1>4, <1>5, <1>6, RowWriters

\* No one has a customer and no row an owner at first ...
LEMMA OwnerInit == Init => OwnerInv
  BY TypeInit DEF Init, OwnerInv, HandlersKnown, CustomersKept, RequestsOwn, EventsReal, RowOwner, Idle

\* ... and every step keeps both right.
LEMMA OwnerStep == OwnerInv /\ [Next]_vars => OwnerInv'
  <1> SUFFICES ASSUME OwnerInv, [Next]_vars PROVE OwnerInv'
    OBVIOUS
  <1>1. TypeOK /\ TypeOK' /\ HandlersKnown'
    BY TypeStep, HandlersKnownStep DEF OwnerInv
  <1>2. CustomersKept' /\ RequestsOwn'
    BY OwnersStep DEF OwnerInv
  <1>3. /\ EventsReal'
        /\ \A sid \in SubIds : stripeSubs[sid] # NoSub =>
              stripeSubs'[sid] # NoSub /\ stripeSubs'[sid].customer = stripeSubs[sid].customer
    BY RealStep DEF OwnerInv
  <1>4. ASSUME NEW row \in subs'
        PROVE  /\ stripeSubs'[row.sid].customer \in CustomerIds
               /\ stripeCustomers'[stripeSubs'[row.sid].customer] = row.user
    <2>1. row.sid \in SubIds /\ row.user \in Users
      BY <1>1 DEF TypeOK, SubRow
    <2>2. ASSUME NEW old \in subs, old.sid = row.sid, old.user = row.user
          PROVE  /\ stripeSubs'[row.sid].customer \in CustomerIds
                 /\ stripeCustomers'[stripeSubs'[row.sid].customer] = row.user
      <3> DEFINE k == stripeSubs[row.sid].customer
      <3>1. k \in CustomerIds /\ stripeCustomers[k] = row.user
        BY <2>2 DEF OwnerInv, RowOwner
      <3>2. stripeSubs[row.sid] # NoSub
        BY <3>1, BillingAssumption DEF NoSub, BillingAssumption
      <3>3. stripeCustomers'[k] = stripeCustomers[k]
        BY <1>1, <2>1, <3>1, CustomerStep, BillingAssumption DEF BillingAssumption
      <3> QED  BY <1>3, <2>1, <3>1, <3>2, <3>3
    <2>3. ASSUME NEW e \in queue \cup acked, OnSubscriptionCreated(e), row \notin subs
          PROVE  /\ stripeSubs'[row.sid].customer \in CustomerIds
                 /\ stripeCustomers'[stripeSubs'[row.sid].customer] = row.user
      <3>1. PICK u \in Users : /\ customerOf[u] = stripeSubs[e.sid].customer
                               /\ subs' = subs \cup {BuildSEntity(u, e)}
        BY <2>3 DEF OnSubscriptionCreated, InsertSub
      <3>2. row.user = u /\ row.sid = e.sid
        BY <2>3, <3>1 DEF BuildSEntity
      <3>3. stripeSubs[e.sid] \in StripeSub
        BY <1>1, <2>1, <3>2 DEF OwnerInv, EventsReal, TypeOK
      <3>4. customerOf[u] \in CustomerIds
        BY <3>1, <3>3 DEF StripeSub
      <3>5. stripeCustomers[customerOf[u]] = u
        BY <3>4, BillingAssumption DEF OwnerInv, CustomersKept, BillingAssumption
      <3>6. stripeSubs' = stripeSubs /\ stripeCustomers' = stripeCustomers
        BY <2>3 DEF OnSubscriptionCreated, stripeVars
      <3> QED  BY <3>1, <3>2, <3>4, <3>5, <3>6
    <2> QED  BY <1>1, <2>2, <2>3, RowsKeep
  <1> QED  BY <1>1, <1>2, <1>3, <1>4 DEF OwnerInv, RowOwner

\* RowOwner for every instance: however checkouts of a user overlap, fail or
\* overwrite each other's customer, a row goes to the user who pays for it.
THEOREM OwnerSafe == Spec => []RowOwner
  <1>1. OwnerInv => RowOwner
    BY DEF OwnerInv
  <1> QED  BY <1>1, OwnerInit, OwnerStep, PTL DEF Spec

-----------------------------------------------------------------------------
(* What a row says of renewal.                                              *)

\* FlagsSafe: a row's two flags are written by buildSEntity, by the webhook of an update and by a
\* toggle, each by its own rule.  Whichever wrote last, they never contradict each other.
THEOREM FlagsSafe == Spec => []FlagsAgree
  <1>1. Init => FlagsAgree
    BY DEF Init, FlagsAgree
  <1>2. TypeOK /\ FlagsAgree /\ [Next]_vars => FlagsAgree'
    <2> SUFFICES ASSUME TypeOK, FlagsAgree, [Next]_vars PROVE FlagsAgree'
      OBVIOUS
    <2>1. \A old \in subs : old \in SubRow /\ old.autoRenew = ~old.cancelAtPeriodEnd
      BY DEF TypeOK, FlagsAgree
    <2>2. ASSUME NEW e \in queue \cup acked, OnSubscriptionCreated(e)
          PROVE  FlagsAgree'
      BY <2>1, <2>2 DEF OnSubscriptionCreated, InsertSub, BuildSEntity, FlagsAgree
    <2>3. ASSUME NEW e \in queue \cup acked, WriteUpdated(e)
          PROVE  FlagsAgree'
      <3>1. ASSUME NEW row \in subs' PROVE row.autoRenew = ~row.cancelAtPeriodEnd
        <4>1. PICK old \in subs :
                row = IF old.sid = e.sid
                      THEN [old EXCEPT !.status = e.status, !.period = e.period,
                                       !.autoRenew = ~e.cancelAtEnd,
                                       !.cancelAtPeriodEnd = e.cancelAtEnd]
                      ELSE old
          BY <2>3 DEF WriteUpdated, UpdateSub, Updated
        <4> QED  BY <2>1, <4>1 DEF SubRow
      <3> QED  BY <3>1 DEF FlagsAgree
    <2>4. ASSUME NEW e, WriteCanceled(e)
          PROVE  FlagsAgree'
      <3>1. ASSUME NEW row \in subs' PROVE row.autoRenew = ~row.cancelAtPeriodEnd
        <4>1. PICK old \in subs :
                row = IF old.sid = e.sid THEN [old EXCEPT !.status = "canceled"] ELSE old
          BY <2>4 DEF WriteCanceled, UpdateSub
        <4> QED  BY <2>1, <4>1 DEF SubRow
      <3> QED  BY <3>1 DEF FlagsAgree
    <2>5. ASSUME NEW h, WritePastDue(h)
          PROVE  FlagsAgree'
      <3>1. ASSUME NEW row \in subs' PROVE row.autoRenew = ~row.cancelAtPeriodEnd
        <4>1. PICK old \in subs :
                row = IF old.sid = h.ev.sid THEN [old EXCEPT !.status = "past_due"] ELSE old
          BY <2>5 DEF WritePastDue, UpdateSub
        <4> QED  BY <2>1, <4>1 DEF SubRow
      <3> QED  BY <3>1 DEF FlagsAgree
    <2>6. ASSUME NEW r \in Requests, ToggleWrite(r)
          PROVE  FlagsAgree'
      <3>1. req[r].autoRenew \in BOOLEAN
        BY <2>6, RequestKind DEF ToggleWrite, ToggleRequest
      <3>2. ASSUME NEW row \in subs' PROVE row.autoRenew = ~row.cancelAtPeriodEnd
        <4>1. PICK old \in subs :
                row = IF old.sid = req[r].sid
                      THEN [old EXCEPT !.autoRenew = req[r].autoRenew,
                                       !.cancelAtPeriodEnd = ~req[r].autoRenew]
                      ELSE old
          BY <2>6 DEF ToggleWrite
        <4> QED  BY <2>1, <3>1, <4>1 DEF SubRow
      <3> QED  BY <3>2 DEF FlagsAgree
    <2>7. CASE subs' = subs
      BY <2>7 DEF FlagsAgree
    <2> QED  BY <2>2, <2>3, <2>4, <2>5, <2>6, <2>7, RowWriters
  <1> QED  BY <1>1, <1>2, TypeInit, TypeStep, PTL DEF Spec

-----------------------------------------------------------------------------
(* What a row of subscription_invoices says of Stripe.                      *)

PaymentTypes == {"payment_succeeded", "payment_failed"}

\* What a step puts in the queue, or acknowledges out of nothing.
NewEvents == (queue' \ queue) \cup (acked' \ (queue \cup acked))

\* Step makes or collects invoice inv, which becomes i, and e is the one event about it.
Bills(inv, i, e) ==
    /\ stripeInvoices' = [stripeInvoices EXCEPT ![inv] = i]
    /\ i \in StripeInvoice
    /\ stripeInvoices[inv] # NoInvoice =>
         i.sid = stripeInvoices[inv].sid /\ i.coupon = stripeInvoices[inv].coupon
    /\ ~stripeInvoices[inv].paid
    /\ e.inv = inv /\ e.sid = i.sid /\ e.coupon = i.coupon
    /\ e.type \in PaymentTypes
    /\ e.type = "payment_succeeded" <=> i.paid
    /\ e \in queue'
    /\ \A f \in NewEvents : f = e \/ f.type \notin PaymentTypes

BillsNone == UNCHANGED stripeInvoices /\ \A f \in NewEvents : f.type \notin PaymentTypes

LEMMA EmitBills ==
    ASSUME NEW type \in {"updated", "deleted", "trial_will_end"}, NEW sid, NEW s, Emit(type, sid, s),
           UNCHANGED stripeInvoices
    PROVE  BillsNone
  BY DEF Emit, EventOf, BillsNone, NewEvents, PaymentTypes

LEMMA EmitBothBills ==
    ASSUME NEW sid \in SubIds, NEW s, NEW inv \in InvoiceIds, NEW i \in StripeInvoice,
           NEW subFirst \in BOOLEAN, NEW subType \in {"created", "updated"}, NEW invType \in PaymentTypes,
           EmitBoth(subType, invType, sid, s, inv, i, subFirst),
           i.sid = sid, ~stripeInvoices[inv].paid, invType = "payment_succeeded" <=> i.paid,
           stripeInvoices[inv] # NoInvoice =>
             sid = stripeInvoices[inv].sid /\ i.coupon = stripeInvoices[inv].coupon
    PROVE  \E e : Bills(inv, i, e)
  <1> DEFINE e1 == EventOf(clock + (IF subFirst THEN 1 ELSE 2), subType, sid, s, None, None)
             e2 == EventOf(clock + (IF subFirst THEN 2 ELSE 1), invType, sid, s, inv, i.coupon)
  <1>1. /\ queue' = queue \cup {e1, e2}
        /\ acked' = acked
        /\ stripeInvoices' = [stripeInvoices EXCEPT ![inv] = i]
    BY DEF EmitBoth
  <1>2. /\ e1.type \notin PaymentTypes
        /\ e2.inv = inv /\ e2.sid = sid /\ e2.coupon = i.coupon /\ e2.type = invType
    BY DEF EventOf, PaymentTypes
  <1> HIDE DEF e1, e2
  <1>3. Bills(inv, i, e2)
    BY <1>1, <1>2 DEF Bills, NewEvents
  <1> QED  BY <1>3

\* Every step bills one invoice or none.
LEMMA BillStep ==
    ASSUME TypeOK, HandlersKnown, [Next]_vars
    PROVE  BillsNone \/ \E inv \in InvoiceIds : \E i, e : Bills(inv, i, e)
  <1>1. ASSUME NEW k \in sessions, NEW sid \in SubIds, NEW inv \in InvoiceIds,
               StripeCompletesCheckout(k, sid, inv)
        PROVE  \E i, e : Bills(inv, i, e)
    <2> DEFINE s == [customer |-> k.customer,
                     status |-> IF k.trial THEN "trialing" ELSE "active",
                     period |-> k.period, cancelAtEnd |-> FALSE, coupon |-> k.coupon]
               i == [sid |-> sid, paid |-> TRUE, coupon |-> k.coupon]
    <2>1. i \in StripeInvoice /\ i.sid = sid /\ i.paid
      BY DEF TypeOK, Session, StripeInvoice
    <2>2. EmitBoth("created", "payment_succeeded", sid, s, inv, i, TRUE)
      BY <1>1 DEF StripeCompletesCheckout
    <2>3. stripeInvoices[inv] = NoInvoice /\ ~stripeInvoices[inv].paid
      BY <1>1 DEF StripeCompletesCheckout, NoInvoice
    <2> HIDE DEF s, i
    <2> QED  BY <2>1, <2>2, <2>3, EmitBothBills DEF PaymentTypes
  <1>2. ASSUME NEW sid \in SubIds, NEW inv \in InvoiceIds,
               StripeRenews(sid, inv) \/ StripeFailsToCollect(sid, inv)
        PROVE  \E i, e : Bills(inv, i, e)
    <2>0. stripeInvoices[inv] = NoInvoice
      BY <1>2 DEF StripeRenews, StripeFailsToCollect
    <2>1. stripeInvoices[inv] = NoInvoice /\ ~stripeInvoices[inv].paid
      BY <2>0 DEF NoInvoice
    <2>2. PICK s, i, type, invType, subFirst :
            /\ i = [sid |-> sid, paid |-> type, coupon |-> None]
            /\ type \in BOOLEAN /\ subFirst \in BOOLEAN
            /\ invType = IF type THEN "payment_succeeded" ELSE "payment_failed"
            /\ EmitBoth("updated", invType, sid, s, inv, i, subFirst)
      <3>1. CASE StripeRenews(sid, inv)
        BY <3>1 DEF StripeRenews
      <3>2. CASE StripeFailsToCollect(sid, inv)
        BY <3>2 DEF StripeFailsToCollect
      <3> QED  BY <1>2, <3>1, <3>2
    <2>3. i \in StripeInvoice /\ i.sid = sid /\ i.paid = type
      BY <2>2 DEF StripeInvoice
    <2>4. invType \in PaymentTypes /\ (invType = "payment_succeeded" <=> i.paid)
      BY <2>2, <2>3 DEF PaymentTypes
    <2> QED  BY <2>1, <2>2, <2>3, <2>4, EmitBothBills
  <1>3. ASSUME NEW sid \in SubIds, NEW inv \in InvoiceIds, StripeCollectsLate(sid, inv)
        PROVE  \E i, e : Bills(inv, i, e)
    <2>1. stripeInvoices[inv] \in StripeInvoice /\ stripeInvoices[inv].sid = sid
      BY <1>3, BillingAssumption DEF StripeCollectsLate, TypeOK, BillingAssumption, NoInvoice
    <2>2. PICK s, i : /\ i = [stripeInvoices[inv] EXCEPT !.paid = TRUE]
                      /\ EmitBoth("updated", "payment_succeeded", sid, s, inv, i, TRUE)
      BY <1>3 DEF StripeCollectsLate
    <2>3. i \in StripeInvoice /\ i.sid = sid /\ i.paid /\ i.coupon = stripeInvoices[inv].coupon
      BY <2>1, <2>2 DEF StripeInvoice
    <2>4. ~stripeInvoices[inv].paid
      BY <1>3 DEF StripeCollectsLate
    <2> QED  BY <2>1, <2>2, <2>3, <2>4, EmitBothBills DEF PaymentTypes
  <1>4. ASSUME NEW u \in Users, CancelNow(u) \/ \E p \in Periods : ChangePeriod(u, p)
        PROVE  BillsNone
    BY <1>4, EmitBills DEF CancelNow, ChangePeriod
  <1>5. ASSUME NEW sid \in SubIds, StripeMarksUnpaid(sid) \/ StripeEnds(sid) \/ StripeWarnsTrial(sid)
        PROVE  BillsNone
    BY <1>5, EmitBills DEF StripeMarksUnpaid, StripeEnds, StripeWarnsTrial
  <1>6. ASSUME NEW r \in Requests, ToggleStripe(r)
        PROVE  BillsNone
    <2>1. UNCHANGED stripeInvoices
      BY <1>6 DEF ToggleStripe
    <2>2. CASE UNCHANGED <<stripeSubs, eventVars>>
      BY <2>1, <2>2 DEF BillsNone, NewEvents, eventVars
    <2>3. CASE \E sid, s : Emit("updated", sid, s)
      BY <2>1, <2>3, EmitBills
    <2> QED  BY <1>6, <2>2, <2>3 DEF ToggleStripe
  <1>7. ASSUME NEW e \in queue \cup acked, Ack(e), UNCHANGED stripeInvoices
        PROVE  BillsNone
    BY <1>7 DEF Ack, BillsNone, NewEvents
  <1>8. ASSUME UNCHANGED <<stripeInvoices, queue, acked>>
        PROVE  BillsNone
    BY <1>8 DEF BillsNone, NewEvents
  <1>9. ASSUME NEW e \in queue \cup acked, Webhook(e)
        PROVE  BillsNone
    BY <1>7, <1>8, <1>9
    DEF Webhook, OnSubscriptionCreated, OnSubscriptionUpdated, OnSubscriptionDeleted,
        OnTrialWillEnd, OnPayment, OnPaymentUnresolved, stripeVars, eventVars, WriteUpdated,
        WriteCanceled
  <1>10. ASSUME NEW h \in handlers, HandlerStep(h)
         PROVE  BillsNone
    <2>1. h.ev \in queue \cup acked
      BY DEF HandlersKnown
    <2> QED
      BY <1>7, <1>8, <1>10, <2>1
      DEF HandlerStep, PaymentInvoice, PaymentInvalidate, PaymentRedeem, PaymentPastDue,
          stripeVars, eventVars, WritePastDue
  <1>11. ASSUME NEW r \in Requests, Checkout(r) \/ ToggleWrite(r)
         PROVE  BillsNone
    BY <1>8, <1>11
    DEF Checkout, CheckoutDiscounts, CheckoutCustomer, CheckoutSaveCustomer, CheckoutSession,
        ToggleWrite, stripeVars, eventVars
  <1>12. ASSUME NEW r \in Requests, NEW u \in Users,
                ToggleRead(r, u) \/ \E p \in Periods, c \in Coupons \cup {None} : CheckoutStart(r, u, p, c)
         PROVE  BillsNone
    BY <1>8, <1>12 DEF ToggleRead, CheckoutStart, stripeVars, eventVars
  <1>13. CASE Fault \/ UNCHANGED vars
    BY <1>8, <1>13 DEF Fault, RequestFails, HandlerFails, PastDueUnread, UpdateUnread, Crash,
                       WriteUpdated, WriteCanceled, WritePastDue, stripeVars, eventVars, vars
  <1> QED
    BY <1>1, <1>2, <1>3, <1>4, <1>5, <1>6, <1>9, <1>10, <1>11, <1>12, <1>13
    DEF Next, ApiCall, RequestStep, Stripe

\* A payment event tells of an invoice of its subscription, with its coupon, and of one that was paid
\* if it says so.
Backed(e) ==
    e.type \in PaymentTypes =>
        /\ stripeInvoices[e.inv].sid = e.sid
        /\ stripeInvoices[e.inv].coupon = e.coupon
        /\ e.type = "payment_succeeded" => stripeInvoices[e.inv].paid

EventsBacked == \A e \in queue \cup acked : Backed(e)

\* An invoice stays what it is, and stays paid.
InvoicesStay ==
    \A inv \in InvoiceIds : stripeInvoices[inv] # NoInvoice =>
        /\ stripeInvoices'[inv].sid = stripeInvoices[inv].sid
        /\ stripeInvoices'[inv].coupon = stripeInvoices[inv].coupon
        /\ stripeInvoices[inv].paid => stripeInvoices'[inv].paid

LEMMA BackedStep ==
    ASSUME TypeOK, HandlersKnown, EventsBacked, [Next]_vars
    PROVE  EventsBacked' /\ InvoicesStay
  <1>1. ASSUME NEW e \in queue \cup acked, e.type \in PaymentTypes
        PROVE  e.inv \in InvoiceIds /\ e.sid \in SubIds
    BY <1>1 DEF TypeOK, SubEvent, PaymentEvent, PaymentTypes
  <1>2. InvoicesStay
    <2>1. CASE BillsNone
      BY <2>1 DEF BillsNone, InvoicesStay
    <2>2. ASSUME NEW inv \in InvoiceIds, NEW i, NEW e, Bills(inv, i, e)
          PROVE  InvoicesStay
      BY <2>2 DEF Bills, InvoicesStay, TypeOK
    <2> QED  BY <2>1, <2>2, BillStep
  <1>3. ASSUME NEW e \in queue \cup acked
        PROVE  Backed(e)'
    <2>1. CASE e.type \in PaymentTypes
      <3>1. e.inv \in InvoiceIds /\ stripeInvoices[e.inv] # NoInvoice
        BY <1>1, <2>1, BillingAssumption DEF EventsBacked, Backed, NoInvoice
      <3> QED  BY <1>2, <3>1 DEF EventsBacked, Backed, InvoicesStay
    <2> QED  BY <2>1 DEF Backed
  <1>4. ASSUME NEW e \in NewEvents
        PROVE  Backed(e)'
    <2>1. CASE BillsNone
      BY <1>4, <2>1 DEF BillsNone, Backed
    <2>2. ASSUME NEW inv \in InvoiceIds, NEW i, NEW f, Bills(inv, i, f)
          PROVE  Backed(e)'
      <3>1. stripeInvoices'[inv] = i
        BY <2>2 DEF Bills, TypeOK
      <3> QED  BY <1>4, <2>2, <3>1 DEF Bills, Backed
    <2> QED  BY <2>1, <2>2, BillStep
  <1> QED  BY <1>2, <1>3, <1>4 DEF EventsBacked, NewEvents

\* A row stays: only its columns are written.
LEMMA RowsStay ==
    ASSUME TypeOK, [Next]_vars, NEW sid, HasRow(sid)
    PROVE  HasRow(sid)'
  <1>1. PICK old \in subs : old.sid = sid /\ old \in SubRow
    BY DEF HasRow, TypeOK
  <1>3. ASSUME NEW e, OnSubscriptionCreated(e)
        PROVE  HasRow(sid)'
    BY <1>1, <1>3 DEF OnSubscriptionCreated, InsertSub, HasRow
  <1>4. ASSUME NEW e, WriteUpdated(e)
        PROVE  HasRow(sid)'
    <2>1. PICK new : new = IF old.sid = e.sid
                           THEN [old EXCEPT !.status = e.status, !.period = e.period,
                                            !.autoRenew = ~e.cancelAtEnd,
                                            !.cancelAtPeriodEnd = e.cancelAtEnd]
                           ELSE old
      OBVIOUS
    <2>2. new \in subs'
      BY <1>1, <1>4, <2>1 DEF WriteUpdated, UpdateSub, Updated
    <2>3. new.sid = sid
      BY <1>1, <2>1 DEF SubRow
    <2> QED  BY <2>2, <2>3 DEF HasRow
  <1>5. ASSUME NEW e, WriteCanceled(e)
        PROVE  HasRow(sid)'
    <2>1. PICK new : new = IF old.sid = e.sid THEN [old EXCEPT !.status = "canceled"] ELSE old
      OBVIOUS
    <2>2. new \in subs'
      BY <1>1, <1>5, <2>1 DEF WriteCanceled, UpdateSub
    <2>3. new.sid = sid
      BY <1>1, <2>1 DEF SubRow
    <2> QED  BY <2>2, <2>3 DEF HasRow
  <1>6. ASSUME NEW h, WritePastDue(h)
        PROVE  HasRow(sid)'
    <2>1. PICK new : new = IF old.sid = h.ev.sid THEN [old EXCEPT !.status = "past_due"] ELSE old
      OBVIOUS
    <2>2. new \in subs'
      BY <1>1, <1>6, <2>1 DEF WritePastDue, UpdateSub
    <2>3. new.sid = sid
      BY <1>1, <2>1 DEF SubRow
    <2> QED  BY <2>2, <2>3 DEF HasRow
  <1>7. ASSUME NEW r, ToggleWrite(r)
        PROVE  HasRow(sid)'
    <2>1. PICK new : new = IF old.sid = req[r].sid
                           THEN [old EXCEPT !.autoRenew = req[r].autoRenew,
                                            !.cancelAtPeriodEnd = ~req[r].autoRenew]
                           ELSE old
      OBVIOUS
    <2>2. new \in subs'
      BY <1>1, <1>7, <2>1 DEF ToggleWrite
    <2>3. new.sid = sid
      BY <1>1, <2>1 DEF SubRow
    <2> QED  BY <2>2, <2>3 DEF HasRow
  <1>8. CASE subs' = subs
    BY <1>8 DEF HasRow
  <1> QED  BY <1>3, <1>4, <1>5, <1>6, <1>7, <1>8, RowWriters

\* The event of a handler stays; a new handler runs on an event that was delivered.
LEMMA HandlerOrigin ==
    ASSUME TypeOK, [Next]_vars, NEW h \in handlers'
    PROVE  \/ \E g \in handlers : g.ev = h.ev
           \/ \E e \in queue \cup acked : OnPayment(e) /\ h.ev = e
  <1>1. ASSUME NEW e \in queue \cup acked, OnPayment(e)
        PROVE  (\E g \in handlers : g.ev = h.ev) \/ h.ev = e
    BY <1>1 DEF OnPayment
  <1>2. ASSUME NEW g \in handlers, PaymentInvoice(g) \/ PaymentInvalidate(g)
        PROVE  \E x \in handlers : x.ev = h.ev
    BY <1>2, HandlerMoves
  <1>3. CASE handlers' \subseteq handlers
    BY <1>3
  <1> QED  BY <1>1, <1>2, <1>3, HandlerMovers

\* Which step adds a row to subscription_invoices.
LEMMA InvoiceWriter ==
    ASSUME [Next]_vars
    PROVE  invoices' = invoices \/ \E h \in handlers : PaymentInvoice(h)
  BY DEF Next, ApiCall, RequestStep, Checkout, Webhook, HandlerStep, Stripe, Fault, CheckoutStart,
         ToggleRead, CancelNow, ChangePeriod, CheckoutDiscounts, CheckoutCustomer,
         CheckoutSaveCustomer, CheckoutSession, ToggleStripe, ToggleWrite, OnSubscriptionCreated,
         OnSubscriptionUpdated, OnSubscriptionDeleted, OnTrialWillEnd, OnPayment,
         OnPaymentUnresolved, PaymentRedeem, PaymentPastDue, StripeCompletesCheckout,
         StripeRenews, StripeFailsToCollect, StripeCollectsLate, StripeMarksUnpaid, StripeEnds,
         StripeWarnsTrial, RequestFails, HandlerFails, PastDueUnread, UpdateUnread, Crash, dbVars,
         vars, WriteUpdated, WriteCanceled, WritePastDue, PaymentInvalidate

\* The rows of subscription_invoices after a step: those of before, and the one a handler adds.
LEMMA InvoiceRows ==
    ASSUME TypeOK, [Next]_vars, NEW n \in DOMAIN invoices'
    PROVE  \/ n \in DOMAIN invoices /\ invoices'[n] = invoices[n]
           \/ \E h \in handlers : /\ PaymentInvoice(h)
                                  /\ n = Len(invoices) + 1
                                  /\ invoices'[n] = BuildInvoiceEntity(h.ev)
  <1>1. CASE invoices' = invoices
    BY <1>1
  <1>2. ASSUME NEW h \in handlers, PaymentInvoice(h)
        PROVE  \/ n \in DOMAIN invoices /\ invoices'[n] = invoices[n]
               \/ n = Len(invoices) + 1 /\ invoices'[n] = BuildInvoiceEntity(h.ev)
    <2>1. PICK row : row = BuildInvoiceEntity(h.ev)
      OBVIOUS
    <2>2. invoices' = Append(invoices, row) /\ invoices \in Seq(InvoiceRow) /\ row \in InvoiceRow
      <3>1. h \in Handler /\ h.ev \in PaymentEvent
        BY DEF TypeOK, Handler
      <3> QED  BY <1>2, <2>1, <3>1 DEF PaymentInvoice, TypeOK, BuildInvoiceEntity, InvoiceRow, PaymentEvent
    <2>3. CASE n = Len(invoices) + 1
      BY <2>1, <2>2, <2>3
    <2>4. CASE n # Len(invoices) + 1
      BY <2>2, <2>4
    <2> QED  BY <2>3, <2>4
  <1> QED  BY <1>1, <1>2, InvoiceWriter

\* A handler that runs has resolved the row of its subscription.
HandlersResolved == \A h \in handlers : HasRow(h.ev.sid)

InvoiceInv == TypeOK /\ HandlersKnown /\ EventsBacked /\ HandlersResolved /\ InvoicesBacked

LEMMA InvoiceInit == Init => InvoiceInv
  <1> SUFFICES ASSUME Init PROVE InvoiceInv
    OBVIOUS
  <1>1. invoices = <<>> /\ handlers = {} /\ queue = {} /\ acked = {}
    BY DEF Init
  <1> QED  BY <1>1, TypeInit DEF InvoiceInv, HandlersKnown, EventsBacked, HandlersResolved, InvoicesBacked

LEMMA InvoiceStep == InvoiceInv /\ [Next]_vars => InvoiceInv'
  <1> SUFFICES ASSUME InvoiceInv, [Next]_vars PROVE InvoiceInv'
    OBVIOUS
  <1>1. TypeOK /\ TypeOK' /\ HandlersKnown'
    BY TypeStep, HandlersKnownStep DEF InvoiceInv
  <1>2. EventsBacked' /\ InvoicesStay
    BY BackedStep DEF InvoiceInv
  <1>3. ASSUME NEW h \in handlers'
        PROVE  HasRow(h.ev.sid)'
    <2>1. HasRow(h.ev.sid)
      BY <1>1, <1>3, HandlerOrigin DEF OnPayment, InvoiceInv, HandlersResolved
    <2>2. PICK sid : sid = h.ev.sid
      OBVIOUS
    <2>3. HasRow(sid)'
      BY <1>1, <2>1, <2>2, RowsStay
    <2> QED  BY <2>2, <2>3
  <1>4. ASSUME NEW n \in DOMAIN invoices'
        PROVE  (/\ HasRow(invoices[n].sid)
                /\ stripeInvoices[invoices[n].inv].sid = invoices[n].sid
                /\ invoices[n].status = "PAID" => stripeInvoices[invoices[n].inv].paid
                /\ invoices[n].coupon \in {None, stripeInvoices[invoices[n].inv].coupon})'
    <2>1. PICK row : row = invoices'[n]
      OBVIOUS
    <2>2. row \in InvoiceRow
      BY <1>1, <2>1 DEF TypeOK
    <2>3. /\ HasRow(row.sid)
          /\ stripeInvoices[row.inv].sid = row.sid
          /\ row.status = "PAID" => stripeInvoices[row.inv].paid
          /\ row.coupon \in {None, stripeInvoices[row.inv].coupon}
      <3>1. CASE n \in DOMAIN invoices /\ invoices'[n] = invoices[n]
        BY <2>1, <3>1 DEF InvoiceInv, InvoicesBacked
      <3>2. ASSUME NEW h \in handlers, row = BuildInvoiceEntity(h.ev)
            PROVE  /\ HasRow(row.sid)
                   /\ stripeInvoices[row.inv].sid = row.sid
                   /\ row.status = "PAID" => stripeInvoices[row.inv].paid
                   /\ row.coupon \in {None, stripeInvoices[row.inv].coupon}
        <4>1. h.ev \in PaymentEvent /\ Backed(h.ev) /\ HasRow(h.ev.sid)
          BY <1>1 DEF TypeOK, Handler, InvoiceInv, HandlersKnown, HandlersResolved, EventsBacked
        <4>2. h.ev.type \in PaymentTypes
          BY <4>1 DEF PaymentEvent, PaymentTypes
        <4>3. row.inv = h.ev.inv /\ row.sid = h.ev.sid /\ row.coupon \in {None, h.ev.coupon}
              /\ (row.status = "PAID" => h.ev.type = "payment_succeeded")
          BY <3>2 DEF BuildInvoiceEntity
        <4> QED  BY <4>1, <4>2, <4>3 DEF Backed
      <3> QED  BY <1>1, <2>1, <3>1, <3>2, InvoiceRows
    <2>4. row.inv \in InvoiceIds /\ row.sid \in SubIds
      BY <2>2 DEF InvoiceRow
    <2>5. stripeInvoices[row.inv] # NoInvoice
      BY <2>3, <2>4, BillingAssumption DEF NoInvoice
    <2>6. PICK sid : sid = row.sid
      OBVIOUS
    <2>7. HasRow(sid)'
      BY <1>1, <2>3, <2>6, RowsStay
    <2>8. HasRow(invoices[n].sid)'
      BY <2>1, <2>6, <2>7 DEF HasRow
    <2>9. /\ stripeInvoices'[row.inv].sid = row.sid
          /\ row.status = "PAID" => stripeInvoices'[row.inv].paid
          /\ row.coupon \in {None, stripeInvoices'[row.inv].coupon}
      BY <1>2, <2>3, <2>4, <2>5 DEF InvoicesStay
    <2> QED  BY <2>1, <2>8, <2>9
  <1> QED  BY <1>1, <1>2, <1>3, <1>4 DEF InvoiceInv, HandlersResolved, InvoicesBacked

\* InvoicesSafe: subscription_invoices is what income is counted from, and a handler writes it from an
\* event that may be old, repeated, or retried after half of it was done.  Whatever comes, a row is an
\* invoice of a subscription that has a row, PAID only if Stripe collected it, with no other coupon.
THEOREM InvoicesSafe == Spec => []InvoicesBacked
  <1>1. InvoiceInv => InvoicesBacked
    BY DEF InvoiceInv
  <1> QED  BY <1>1, InvoiceInit, InvoiceStep, PTL DEF Spec

-----------------------------------------------------------------------------
(* A payment is counted once.  Without redelivery an event is either in the *)
(* queue or acknowledged and it is handled by one call at a time.  A row is  *)
(* followed by its event, the only one that says the invoice was paid: its   *)
(* handler is still at work, or has acknowledged it, or broke off and left   *)
(* the row behind, which torn remembers.                                     *)

PaidEvents == {e \in queue \cup acked : e.type = "payment_succeeded"}

\* An invoice is paid once, and Stripe tells it once.
OneSuccess == \A e, f \in PaidEvents : e.inv = f.inv => e = f

AckedOnce == \A e \in PaidEvents : e \notin queue \cap acked

\* A handler runs on an event that waits, and no other handler does.
OneHandler ==
    /\ \A h \in handlers : h.ev \in queue
    /\ \A h, g \in handlers : h.ev = g.ev => h = g

\* A handler that has inserted its row and goes on.
Inserted == {h \in handlers : h.pc \in {"cache", "redeem"}}

\* What becomes of the event of a PAID row ...
Kept(e) == e \in acked \/ e \in torn \/ \E h \in Inserted : h.ev = e

\* ... and that the payment of invoice inv has such an event.
Followed(inv) == \E e \in PaidEvents : e.inv = inv /\ Kept(e)

RowsFollowed ==
    \A n \in DOMAIN invoices : invoices[n].status = "PAID" => Followed(invoices[n].inv)

PaidInv == InvoiceInv /\ OneSuccess /\ AckedOnce /\ OneHandler /\ RowsFollowed /\ PaidOnce

\* What a step does to the events that wait and to the handlers: it acknowledges one event, which no
\* handler has after it; or it acknowledges none, and ends handlers or begins one on an event that waits
\* and that none has.  The steps that move a handler on are left for cases of their own.
Acks(e) == Ack(e) /\ handlers' \subseteq handlers /\ \A h \in handlers' : h.ev # e

Begins(e) ==
    /\ \A h \in handlers : h.ev # e
    /\ handlers' = handlers \cup {[ev |-> e, pc |-> "invoice"]}
    /\ UNCHANGED <<queue, acked>>

AcksNone == queue \subseteq queue' /\ acked' = acked /\ handlers' \subseteq handlers

LEMMA EventMoves ==
    ASSUME OneHandler, ~Redeliver, [Next]_vars
    PROVE  \/ AcksNone
           \/ \E h \in handlers : PaymentInvoice(h) \/ PaymentInvalidate(h)
           \/ \E e \in queue : Acks(e) \/ Begins(e)
  <1>1. ASSUME NEW e \in queue \cup acked, Webhook(e)
        PROVE  e \in queue /\ (Acks(e) \/ Begins(e))
    <2>1. e \in queue /\ \A h \in handlers : h.ev # e
      BY <1>1 DEF Webhook, OnSubscriptionCreated, OnSubscriptionUpdated, OnSubscriptionDeleted,
                  OnTrialWillEnd, OnPayment, OnPaymentUnresolved, Deliverable, WriteUpdated,
                  WriteCanceled
    <2>2. CASE OnPayment(e)
      BY <2>1, <2>2 DEF OnPayment, Begins, eventVars
    <2>3. CASE ~OnPayment(e)
      <3>1. Ack(e) /\ handlers' = handlers
        BY <1>1, <2>3 DEF Webhook, OnSubscriptionCreated, OnSubscriptionUpdated,
                          OnSubscriptionDeleted, OnTrialWillEnd, OnPaymentUnresolved, serverVars,
                          WriteUpdated, WriteCanceled
      <3> QED  BY <2>1, <3>1 DEF Acks
    <2> QED  BY <2>1, <2>2, <2>3
  <1>2. ASSUME NEW h \in handlers, PaymentRedeem(h) \/ PaymentPastDue(h)
        PROVE  AcksNone \/ (h.ev \in queue /\ Acks(h.ev))
    <2>1. h.ev \in queue /\ handlers' = handlers \ {h}
      BY <1>2 DEF PaymentRedeem, PaymentPastDue, OneHandler, WritePastDue
    <2>2. Ack(h.ev) \/ UNCHANGED eventVars
      BY <1>2 DEF PaymentRedeem, PaymentPastDue, WritePastDue
    <2>3. \A g \in handlers' : g.ev # h.ev
      BY <2>1 DEF OneHandler
    <2> QED  BY <2>1, <2>2, <2>3 DEF Acks, AcksNone, eventVars
  <1>3. ASSUME UNCHANGED eventVars, handlers' \subseteq handlers
        PROVE  AcksNone
    BY <1>3 DEF AcksNone, eventVars
  <1>4. ASSUME NEW type, NEW sid, NEW s, Emit(type, sid, s), UNCHANGED handlers
        PROVE  AcksNone
    BY <1>4 DEF AcksNone, Emit
  <1>5. CASE ApiCall
    <2>1. ASSUME NEW r \in Requests, NEW u \in Users,
                 ToggleRead(r, u) \/ \E p \in Periods, c \in Coupons \cup {None} : CheckoutStart(r, u, p, c)
          PROVE  AcksNone
      BY <1>3, <2>1 DEF ToggleRead, CheckoutStart
    <2>2. ASSUME NEW u \in Users, CancelNow(u) \/ \E p \in Periods : ChangePeriod(u, p)
          PROVE  AcksNone
      BY <1>4, <2>2 DEF CancelNow, ChangePeriod, serverVars
    <2>3. ASSUME NEW r \in Requests, Checkout(r) \/ ToggleWrite(r)
          PROVE  AcksNone
      BY <1>3, <2>3 DEF Checkout, CheckoutDiscounts, CheckoutCustomer, CheckoutSaveCustomer,
                        CheckoutSession, ToggleWrite
    <2>4. ASSUME NEW r \in Requests, ToggleStripe(r)
          PROVE  AcksNone
      BY <1>3, <1>4, <2>4 DEF ToggleStripe
    <2> QED  BY <1>5, <2>1, <2>2, <2>3, <2>4 DEF ApiCall, RequestStep
  <1>6. CASE Stripe
    <2>1. ASSUME NEW sid \in SubIds, StripeMarksUnpaid(sid) \/ StripeEnds(sid) \/ StripeWarnsTrial(sid)
          PROVE  AcksNone
      BY <1>4, <2>1 DEF StripeMarksUnpaid, StripeEnds, StripeWarnsTrial, serverVars
    <2>2. ASSUME NEW sid \in SubIds, NEW inv \in InvoiceIds,
                 \/ StripeRenews(sid, inv) \/ StripeFailsToCollect(sid, inv) \/ StripeCollectsLate(sid, inv)
                 \/ \E k \in sessions : StripeCompletesCheckout(k, sid, inv)
          PROVE  AcksNone
      BY <2>2 DEF StripeRenews, StripeFailsToCollect, StripeCollectsLate, StripeCompletesCheckout,
                  EmitBoth, serverVars, AcksNone
    <2> QED  BY <1>6, <2>1, <2>2 DEF Stripe
  <1>7. CASE Fault \/ UNCHANGED vars
    BY <1>3, <1>7 DEF Fault, RequestFails, HandlerFails, PastDueUnread, UpdateUnread, Crash,
                      WriteUpdated, WriteCanceled, WritePastDue, vars, serverVars
  <1> QED  BY <1>1, <1>2, <1>5, <1>6, <1>7 DEF Next, HandlerStep

\* A handler that moves on acknowledges its event and ends, or keeps it.
LEMMA HandlerShifts ==
    ASSUME TypeOK, NEW h \in handlers, PaymentInvoice(h) \/ PaymentInvalidate(h)
    PROVE  \/ handlers' = handlers \ {h} /\ Ack(h.ev)
           \/ \E g : /\ g.ev = h.ev
                    /\ handlers' = (handlers \ {h}) \cup {g}
                    /\ UNCHANGED eventVars
  <1>1. \A pc : [h EXCEPT !.pc = pc].ev = h.ev
    BY DEF TypeOK, Handler
  <1> QED  BY <1>1 DEF PaymentInvoice, PaymentInvalidate

LEMMA OneHandlerStep ==
    ASSUME TypeOK, OneHandler, ~Redeliver, [Next]_vars
    PROVE  OneHandler'
  <1>1. CASE AcksNone
    BY <1>1 DEF AcksNone, OneHandler
  <1>2. ASSUME NEW e \in queue, Acks(e)
        PROVE  OneHandler'
    BY <1>2 DEF Acks, Ack, OneHandler
  <1>3. ASSUME NEW e \in queue, Begins(e)
        PROVE  OneHandler'
    BY <1>3 DEF Begins, OneHandler
  <1>4. ASSUME NEW h \in handlers, PaymentInvoice(h) \/ PaymentInvalidate(h)
        PROVE  OneHandler'
    <2>1. CASE handlers' = handlers \ {h} /\ Ack(h.ev)
      BY <2>1 DEF OneHandler, Ack
    <2>2. ASSUME NEW g, g.ev = h.ev, handlers' = (handlers \ {h}) \cup {g}, UNCHANGED eventVars
          PROVE  OneHandler'
      BY <2>2 DEF OneHandler, eventVars
    <2> QED  BY <1>4, <2>1, <2>2, HandlerShifts
  <1> QED  BY <1>1, <1>2, <1>3, <1>4, EventMoves

\* Acknowledged events stay so, and one that is acknowledged by the step leaves the queue.
LEMMA AckedStay ==
    ASSUME TypeOK, OneHandler, ~Redeliver, [Next]_vars
    PROVE  /\ acked \subseteq acked'
           /\ \A e \in acked' \ acked : e \in queue /\ e \notin queue'
  <1>1. ASSUME NEW h \in handlers, PaymentInvoice(h) \/ PaymentInvalidate(h)
        PROVE  UNCHANGED eventVars \/ \E e \in queue : Ack(e)
    BY <1>1, HandlerShifts DEF OneHandler
  <1> QED  BY <1>1, EventMoves DEF AcksNone, Acks, Begins, Ack, eventVars

\* A payment is told by an event the invoice did not have.
LEMMA SuccessStep ==
    ASSUME TypeOK, HandlersKnown, EventsBacked, OneSuccess, AckedOnce, OneHandler, ~Redeliver, [Next]_vars
    PROVE  OneSuccess' /\ AckedOnce'
  <1>1. ASSUME NEW e \in NewEvents, NEW f \in PaidEvents', e.type = "payment_succeeded", e.inv = f.inv
        PROVE  f \notin PaidEvents /\ f = e
    <2>0. PICK inv \in InvoiceIds : \E i, b : Bills(inv, i, b)
      BY <1>1, BillStep DEF BillsNone, PaymentTypes
    <2>1. PICK i, b : Bills(inv, i, b)
      BY <2>0
    <2>2. e = b /\ e.inv = inv /\ ~stripeInvoices[inv].paid
      BY <1>1, <2>1 DEF Bills, PaymentTypes
    <2>3. f \notin PaidEvents
      BY <1>1, <2>2 DEF EventsBacked, Backed, PaymentTypes, PaidEvents
    <2>4. f \in NewEvents
      BY <2>3 DEF PaidEvents, NewEvents
    <2>5. f = b
      BY <2>1, <2>4 DEF Bills, PaymentTypes, PaidEvents
    <2> QED  BY <2>2, <2>3, <2>5
  <1>2. ASSUME NEW e \in PaidEvents'
        PROVE  e \in PaidEvents \/ (e \in NewEvents /\ e.type = "payment_succeeded")
    BY DEF PaidEvents, NewEvents
  <1>3. OneSuccess'
    BY <1>1, <1>2 DEF OneSuccess
  <1>4. ASSUME NEW e \in PaidEvents', e \in queue', e \in acked'
        PROVE  FALSE
    <2>1. e \in acked
      BY <1>4, AckedStay
    <2>2. e \in PaidEvents
      BY <2>1 DEF PaidEvents
    <2>3. e \notin queue
      BY <2>1, <2>2 DEF AckedOnce
    <2>4. e \in NewEvents
      BY <1>4, <2>3 DEF NewEvents
    <2> QED  BY <1>1, <2>2, <2>4 DEF PaidEvents
  <1> QED  BY <1>3, <1>4 DEF AckedOnce

\* What is torn stays torn.
LEMMA TornStays ==
    ASSUME [Next]_vars
    PROVE  torn \subseteq torn'
  <1>1. CASE Fault
    BY <1>1 DEF Fault, RequestFails, HandlerFails, PastDueUnread, UpdateUnread, Crash, Tear,
                WriteUpdated, WriteCanceled, serverVars
  <1>2. CASE ~Fault
    BY <1>2
    DEF Next, ApiCall, RequestStep, Checkout, Webhook, HandlerStep, Stripe, CheckoutStart,
        ToggleRead, CancelNow, ChangePeriod, CheckoutDiscounts, CheckoutCustomer,
        CheckoutSaveCustomer, CheckoutSession, ToggleStripe, ToggleWrite, OnTrialWillEnd,
        OnSubscriptionCreated, OnSubscriptionUpdated, OnSubscriptionDeleted, WriteUpdated,
        WriteCanceled, OnPayment, OnPaymentUnresolved, PaymentInvoice, PaymentInvalidate,
        PaymentRedeem, PaymentPastDue, StripeCompletesCheckout, StripeRenews,
        StripeFailsToCollect, StripeCollectsLate, StripeMarksUnpaid, StripeEnds,
        StripeWarnsTrial, vars, serverVars
  <1> QED  BY <1>1, <1>2

\* Which steps end a handler or move it.
LEMMA HandlerEnders ==
    ASSUME [Next]_vars
    PROVE  \/ handlers \subseteq handlers'
           \/ Crash
           \/ \E h \in handlers : HandlerStep(h) \/ HandlerFails(h) \/ PastDueUnread(h)
  BY DEF Next, ApiCall, RequestStep, Checkout, Webhook, Stripe, Fault, CheckoutStart,
         ToggleRead, CancelNow, ChangePeriod, CheckoutDiscounts, CheckoutCustomer,
         CheckoutSaveCustomer, CheckoutSession, ToggleStripe, ToggleWrite, OnTrialWillEnd,
         OnSubscriptionCreated, OnSubscriptionUpdated, OnSubscriptionDeleted, WriteUpdated,
         WriteCanceled, OnPayment, OnPaymentUnresolved, StripeCompletesCheckout, StripeRenews,
         StripeFailsToCollect, StripeCollectsLate, StripeMarksUnpaid, StripeEnds,
         StripeWarnsTrial, RequestFails, UpdateUnread, vars, serverVars

\* A handler that has inserted the row of a payment goes on, or acknowledges its event, or leaves it
\* torn.
LEMMA InsertedStep ==
    ASSUME TypeOK, [Next]_vars, NEW h \in Inserted, h.ev.type = "payment_succeeded"
    PROVE  h.ev \in acked' \/ h.ev \in torn' \/ \E g \in Inserted' : g.ev = h.ev
  <1>1. h \in handlers /\ h.pc \in {"cache", "redeem"}
    BY DEF Inserted
  <1>2. CASE handlers \subseteq handlers'
    BY <1>1, <1>2 DEF Inserted
  <1>3. CASE Crash
    BY <1>1, <1>3 DEF Crash, Tear
  <1>4. ASSUME NEW g \in handlers, g # h, HandlerStep(g) \/ HandlerFails(g) \/ PastDueUnread(g)
        PROVE  h \in handlers'
    BY <1>1, <1>4 DEF HandlerStep, HandlerFails, PastDueUnread, WritePastDue, PaymentPastDue,
                      PaymentInvoice, PaymentInvalidate, PaymentRedeem
  <1>5. CASE HandlerFails(h)
    BY <1>1, <1>5 DEF HandlerFails, Tear
  <1>6. ~PaymentInvoice(h) /\ ~PaymentPastDue(h) /\ ~PastDueUnread(h)
    BY <1>1 DEF PaymentInvoice, PaymentPastDue, PastDueUnread, WritePastDue
  <1>7. CASE PaymentRedeem(h)
    BY <1>7 DEF PaymentRedeem, Ack
  <1>8. CASE PaymentInvalidate(h)
    <2>1. PICK g : g = [h EXCEPT !.pc = "redeem"]
      OBVIOUS
    <2>2. g.ev = h.ev /\ g.pc = "redeem"
      BY <1>1, <2>1 DEF TypeOK, Handler
    <2>3. Ack(h.ev) \/ g \in handlers'
      BY <1>8, <2>1 DEF PaymentInvalidate
    <2> QED  BY <2>2, <2>3 DEF Ack, Inserted
  <1>9. CASE h \in handlers'
    BY <1>1, <1>9 DEF Inserted
  <1> QED
    BY <1>1, <1>2, <1>3, <1>4, <1>5, <1>6, <1>7, <1>8, <1>9, HandlerEnders DEF HandlerStep

LEMMA PaidStep ==
    ASSUME PaidInv, ~Redeliver, [Next]_vars
    PROVE  PaidInv'
  <1>1. InvoiceInv' /\ TypeOK /\ HandlersKnown /\ EventsBacked
    BY InvoiceStep DEF PaidInv, InvoiceInv
  <1>2. OneHandler' /\ OneSuccess' /\ AckedOnce'
    BY <1>1, OneHandlerStep, SuccessStep DEF PaidInv
  <1>3. PaidEvents \subseteq PaidEvents' /\ acked \subseteq acked' /\ torn \subseteq torn'
    <2>1. queue \cup acked \subseteq queue' \cup acked'
      BY <1>1, StripeStep DEF Quiet, Changes
    <2> QED  BY <1>1, <2>1, AckedStay, TornStays DEF PaidInv, PaidEvents
  <1>4. ASSUME NEW inv, Followed(inv)
        PROVE  Followed(inv)'
    <2>1. PICK e \in PaidEvents : e.inv = inv /\ Kept(e)
      BY <1>4 DEF Followed
    <2>2. Kept(e)'
      BY <1>1, <1>3, <2>1, InsertedStep DEF PaidEvents, Kept
    <2> QED  BY <1>3, <2>1, <2>2 DEF Followed
  \* The row of a payment is followed by the handler that inserts it, and by no event before.
  <1>5. ASSUME NEW h \in handlers, PaymentInvoice(h), NEW row, row = BuildInvoiceEntity(h.ev),
               row.status = "PAID"
        PROVE  /\ h.ev \in PaidEvents /\ h.ev.inv = row.inv
               /\ h.ev \notin acked
               /\ \A g \in Inserted : g.ev # h.ev
               /\ Followed(row.inv)'
    <2>1. row.inv = h.ev.inv /\ h.ev.type = "payment_succeeded"
      BY <1>5 DEF BuildInvoiceEntity
    <2>2. h.ev \in queue
      BY DEF PaidInv, OneHandler
    <2>3. h.ev \in PaidEvents /\ h.ev \notin acked
      BY <2>1, <2>2 DEF PaidEvents, PaidInv, AckedOnce
    <2>4. \A g \in Inserted : g.ev # h.ev
      BY <1>5 DEF PaymentInvoice, Inserted, PaidInv, OneHandler
    <2>5. PICK g : g = [h EXCEPT !.pc = "cache"]
      OBVIOUS
    <2>6. g.ev = h.ev /\ g.pc = "cache"
      BY <1>1, <2>5 DEF TypeOK, Handler
    <2>7. g \in Inserted'
      BY <1>5, <2>5, <2>6 DEF PaymentInvoice, Inserted
    <2>9. Kept(h.ev)'
      BY <2>6, <2>7 DEF Kept
    <2>8. Followed(row.inv)'
      BY <1>3, <2>1, <2>3, <2>9 DEF Followed
    <2> QED  BY <2>1, <2>3, <2>4, <2>8
  <1>6. RowsFollowed'
    <2> SUFFICES ASSUME NEW n \in DOMAIN invoices', NEW row, row = invoices'[n], row.status = "PAID"
                 PROVE  Followed(row.inv)'
      BY DEF RowsFollowed, Followed, Kept, Inserted, PaidEvents
    <2>1. CASE n \in DOMAIN invoices /\ row = invoices[n]
      BY <1>4, <2>1 DEF PaidInv, RowsFollowed
    <2>2. CASE \E h \in handlers : PaymentInvoice(h) /\ row = BuildInvoiceEntity(h.ev)
      BY <1>5, <2>2
    <2> QED  BY <1>1, <2>1, <2>2, InvoiceRows
  <1>7. ASSUME NEW i \in DOMAIN invoices, NEW h \in handlers, PaymentInvoice(h),
               NEW old, old = invoices[i], NEW row, row = BuildInvoiceEntity(h.ev),
               old.status = "PAID", row.status = "PAID", old.inv = row.inv,
               \A e \in torn : e.type = "payment_succeeded" => e.inv # row.inv
        PROVE  FALSE
    <2>1. PICK e \in PaidEvents : e.inv = old.inv /\ Kept(e)
      BY <1>7 DEF PaidInv, RowsFollowed, Followed
    <2>2. h.ev \in PaidEvents /\ h.ev.inv = row.inv
      BY <1>5, <1>7
    <2>3. e = h.ev
      <3>1. OneSuccess
        BY DEF PaidInv
      <3>2. e.inv = h.ev.inv
        <4>1. old.inv = row.inv
          BY <1>7
        <4> QED  BY <2>1, <2>2, <4>1
      <3> QED  BY <2>1, <2>2, <3>1, <3>2 DEF OneSuccess
    <2>4. e \notin torn
      BY <1>7, <2>2, <2>3 DEF PaidEvents
    <2> QED  BY <1>5, <1>7, <2>1, <2>3, <2>4 DEF Kept
  <1>8. PaidOnce'
    <2> SUFFICES ASSUME NEW i \in DOMAIN invoices', NEW j \in DOMAIN invoices',
                        NEW a, a = invoices'[i], NEW b, b = invoices'[j],
                        a.inv = b.inv, a.status = "PAID", b.status = "PAID",
                        \A e \in torn' : e.type = "payment_succeeded" => e.inv # a.inv
                 PROVE  i = j
      BY DEF PaidOnce
    <2>0. \A e \in torn : e.type = "payment_succeeded" => e.inv # a.inv
      BY <1>3
    <2>1. CASE i \in DOMAIN invoices /\ a = invoices[i] /\ j \in DOMAIN invoices /\ b = invoices[j]
      BY <2>0, <2>1 DEF PaidInv, PaidOnce
    <2>2. ASSUME i \in DOMAIN invoices, a = invoices[i], NEW h \in handlers,
                 PaymentInvoice(h), b = BuildInvoiceEntity(h.ev)
          PROVE  FALSE
      BY <1>7, <2>0, <2>2
    <2>3. ASSUME j \in DOMAIN invoices, b = invoices[j], NEW h \in handlers,
                 PaymentInvoice(h), a = BuildInvoiceEntity(h.ev)
          PROVE  FALSE
      BY <1>7, <2>0, <2>3
    <2>4. \/ i \in DOMAIN invoices /\ a = invoices[i]
          \/ i = Len(invoices) + 1 /\ \E h \in handlers : PaymentInvoice(h) /\ a = BuildInvoiceEntity(h.ev)
      BY <1>1, InvoiceRows
    <2>5. \/ j \in DOMAIN invoices /\ b = invoices[j]
          \/ j = Len(invoices) + 1 /\ \E h \in handlers : PaymentInvoice(h) /\ b = BuildInvoiceEntity(h.ev)
      BY <1>1, InvoiceRows
    <2> QED  BY <2>1, <2>2, <2>3, <2>4, <2>5
  <1> QED  BY <1>1, <1>2, <1>6, <1>8 DEF PaidInv

\* PaidSafe: an invoice is counted as paid at most once, with and without a coupon, through crashes,
\* restarts, retries and failures of everything but the rest of its own handler: what that leaves out
\* is exactly a handler that broke off after its INSERT.
THEOREM PaidSafe ==
    ASSUME ~Redeliver
    PROVE  Spec => []PaidOnce
  <1>1. Init => PaidInv
    BY InvoiceInit
    DEF Init, PaidInv, OneSuccess, AckedOnce, OneHandler, RowsFollowed, PaidOnce, PaidEvents
  <1>2. PaidInv /\ [Next]_vars => PaidInv'
    BY PaidStep
  <1>3. PaidInv => PaidOnce
    BY DEF PaidInv
  <1> QED  BY <1>1, <1>2, <1>3, PTL DEF Spec

-----------------------------------------------------------------------------
(* The row follows Stripe.  Between two settled states a row may be far      *)
(* behind: what holds at every step is that the last event that waits to     *)
(* write it says what Stripe holds, and that it is acknowledged last.        *)

\* Two things a row follows: its status, and its terms (period and renewal).
Kinds == {"status", "terms"}

\* The events that write the row, what they say, what the row keeps and what Stripe holds.
Writers(kind) ==
    IF kind = "status" THEN {"created", "updated", "deleted", "payment_failed"}
                       ELSE {"created", "updated"}

Tells(kind, e) ==
    IF kind = "status"
    THEN IF e.type = "deleted" THEN "canceled"
         ELSE IF e.type = "payment_failed" THEN "past_due" ELSE e.status
    ELSE <<e.period, e.cancelAtEnd>>

Keeps(kind, row) ==
    IF kind = "status" THEN row.status ELSE <<row.period, row.cancelAtPeriodEnd>>

Holds(kind, s) == IF kind = "status" THEN s.status ELSE <<s.period, s.cancelAtEnd>>

Waiting(kind, sid) == {e \in queue : e.sid = sid /\ e.type \in Writers(kind)}

\* The last event that waits to write the row says what Stripe holds; if none waits the row does.
Follows(kind, sid) ==
    \/ \E e \in Waiting(kind, sid) :
         /\ Tells(kind, e) = Holds(kind, stripeSubs[sid])
         /\ \A f \in Waiting(kind, sid) : f.n <= e.n
    \/ /\ Waiting(kind, sid) = {}
       /\ \A row \in subs : row.sid = sid => Keeps(kind, row) = Holds(kind, stripeSubs[sid])

RowsFollow == \A kind \in Kinds : \A sid \in SubIds : Follows(kind, sid)

\* Events are numbered in the order they were emitted.
Numbered ==
    /\ \A e \in queue : e.n <= clock
    /\ \A e, f \in queue : e.n = f.n => e = f

\* A handler runs on the oldest event of its subscription that waits ...
HandlersFirst == \A h \in handlers : \A f \in queue : f.sid = h.ev.sid => h.ev.n <= f.n

\* ... and has come no further than its event takes it.
HandlersKind ==
    \A h \in handlers :
        /\ h.pc = "redeem" => h.ev.type = "payment_succeeded"
        /\ h.pc = "pastDue" => h.ev.type = "payment_failed"

\* A subscription is created once, and before it has a row.
CreatedOnce ==
    \A e \in queue : e.type = "created" =>
        /\ ~HasRow(e.sid)
        /\ \A f \in queue : f.type = "created" /\ f.sid = e.sid => f = e

\* What a toggle is about to write is what it told Stripe.
TogglesAgree ==
    \A r \in Requests : req[r].pc = "toggleWrite" =>
        stripeSubs[req[r].sid].cancelAtEnd = ~req[r].autoRenew

\* No two toggles of one subscription are in flight.
OneToggle ==
    \A r, s \in Requests : req[r].sid # None /\ req[r].sid = req[s].sid => r = s

\* What a subscription's events say of s when it becomes s: the last new one that writes the row says
\* what Stripe holds now, or there is none and Stripe holds what it held.
Told(kind, sid, s) ==
    LET new == {e \in queue' \ queue : e.type \in Writers(kind)}
    IN  \/ new = {} /\ Holds(kind, s) = Holds(kind, stripeSubs[sid])
        \/ \E e \in new : Tells(kind, e) = Holds(kind, s) /\ \A f \in new : f.n <= e.n

\* Stripe makes subscription sid s and emits the events that tell of it.
Emits(sid, s) ==
    /\ stripeSubs' = [stripeSubs EXCEPT ![sid] = s]
    /\ UNCHANGED <<subs, handlers>>
    /\ queue \subseteq queue'
    /\ clock < clock'
    /\ \A e \in queue' \ queue : e.sid = sid /\ clock < e.n /\ e.n <= clock'
    /\ \A e, f \in queue' \ queue : e.n = f.n => e = f
    /\ \A e \in queue' \ queue : e.type = "created" =>
         stripeSubs[sid] = NoSub /\ \A f \in queue' \ queue : f.type = "created" => f = e
    /\ \A kind \in Kinds : Told(kind, sid, s)

\* An event that waits has a number and a subscription.
LEMMA EventNumber ==
    ASSUME TypeOK, NEW e \in queue
    PROVE  e.n \in Nat /\ e.sid \in SubIds
  BY DEF TypeOK, SubEvent, PaymentEvent

\* One event about the subscription tells of it.
LEMMA EmitTells ==
    ASSUME TypeOK, Numbered, NEW sid \in SubIds, NEW s \in StripeSub,
           NEW type \in {"updated", "deleted", "trial_will_end"}, Emit(type, sid, s),
           UNCHANGED <<subs, handlers>>,
           type = "deleted" => s.status = "canceled",
           type # "updated" => Holds("terms", s) = Holds("terms", stripeSubs[sid]),
           type = "trial_will_end" => s.status = stripeSubs[sid].status
    PROVE  Emits(sid, s)
  <1> DEFINE e1 == EventOf(clock + 1, type, sid, s, None, None)
  <1>1. /\ queue' = queue \cup {e1}
        /\ clock' = clock + 1
        /\ stripeSubs' = [stripeSubs EXCEPT ![sid] = s]
    BY DEF Emit
  <1>2. /\ e1.n = clock + 1 /\ e1.sid = sid /\ e1.type = type /\ e1.status = s.status
        /\ e1.period = s.period /\ e1.cancelAtEnd = s.cancelAtEnd
    BY DEF EventOf
  <1> HIDE DEF e1
  <1>3. clock \in Nat /\ e1 \notin queue
    <2>1. clock \in Nat
      BY DEF TypeOK
    <2> QED  BY <1>2, <2>1 DEF Numbered
  <1>4. queue' \ queue = {e1}
    BY <1>1, <1>3
  <1>5. ASSUME NEW kind \in Kinds
        PROVE  Told(kind, sid, s)
    <2>1. CASE type \in Writers(kind)
      <3>1. Tells(kind, e1) = Holds(kind, s)
        BY <1>2, <2>1 DEF Tells, Holds, Kinds, Writers
      <3>2. e1.n <= e1.n
        BY <1>2, <1>3
      <3> QED  BY <1>2, <1>4, <2>1, <3>1, <3>2 DEF Told
    <2>2. CASE type \notin Writers(kind)
      <3>1. Holds(kind, s) = Holds(kind, stripeSubs[sid])
        BY <2>2 DEF Holds, Kinds, Writers
      <3> QED  BY <1>2, <1>4, <2>2, <3>1 DEF Told
    <2> QED  BY <2>1, <2>2
  <1>6. clock < clock' /\ clock < e1.n /\ e1.n <= clock'
    BY <1>1, <1>2, <1>3
  <1> QED  BY <1>1, <1>2, <1>4, <1>5, <1>6 DEF Emits

\* So do an event about it and one about its invoice: the one that fails comes first.
LEMMA EmitBothTells ==
    ASSUME TypeOK, Numbered, NEW sid \in SubIds, NEW s \in StripeSub, NEW inv, NEW i,
           NEW subFirst \in BOOLEAN, NEW subType \in {"created", "updated"}, NEW invType \in PaymentTypes,
           EmitBoth(subType, invType, sid, s, inv, i, subFirst),
           UNCHANGED <<subs, handlers>>,
           subType = "created" => stripeSubs[sid] = NoSub,
           invType = "payment_failed" => ~subFirst
    PROVE  Emits(sid, s)
  <1> DEFINE n1 == clock + (IF subFirst THEN 1 ELSE 2)
             n2 == clock + (IF subFirst THEN 2 ELSE 1)
             e1 == EventOf(n1, subType, sid, s, None, None)
             e2 == EventOf(n2, invType, sid, s, inv, i.coupon)
  <1>1. /\ queue' = queue \cup {e1, e2}
        /\ clock' = clock + 2
        /\ stripeSubs' = [stripeSubs EXCEPT ![sid] = s]
    BY DEF EmitBoth
  <1>2. /\ e1.n = n1 /\ e1.sid = sid /\ e1.type = subType /\ e1.status = s.status
        /\ e1.period = s.period /\ e1.cancelAtEnd = s.cancelAtEnd
        /\ e2.n = n2 /\ e2.sid = sid /\ e2.type = invType
    BY DEF EventOf
  <1>0. clock \in Nat
    BY DEF TypeOK
  <1>3. /\ n1 \in Nat /\ n2 \in Nat /\ n1 # n2 /\ clock < n1 /\ clock < n2 /\ n1 <= clock + 2 /\ n2 <= clock + 2
        /\ ~subFirst => n2 <= n1
    BY <1>0
  <1> HIDE DEF e1, e2, n1, n2
  <1>4. e1 \notin queue /\ e2 \notin queue
    BY <1>0, <1>2, <1>3 DEF Numbered
  <1>5. queue' \ queue = {e1, e2}
    BY <1>1, <1>4
  <1>6. ASSUME NEW kind \in Kinds
        PROVE  Told(kind, sid, s)
    <2>1. e1.type \in Writers(kind) /\ Tells(kind, e1) = Holds(kind, s)
      BY <1>2 DEF Tells, Holds, Kinds, Writers
    <2>2. e2.type \in Writers(kind) => e2.type = "payment_failed"
      BY <1>2 DEF Kinds, Writers, PaymentTypes
    <2>3. e2.type = "payment_failed" => e2.n <= e1.n
      BY <1>2, <1>3
    <2>4. e1.n <= e1.n
      BY <1>2, <1>3
    <2> QED  BY <1>5, <2>1, <2>2, <2>3, <2>4 DEF Told
  <1>7. clock < clock' /\ n1 <= clock' /\ n2 <= clock'
    BY <1>0, <1>1, <1>3
  <1>8. e2.type # "created"
    BY <1>2 DEF PaymentTypes
  <1>9. \A e \in queue' \ queue : e.sid = sid /\ clock < e.n /\ e.n <= clock'
    BY <1>2, <1>3, <1>5, <1>7
  <1>10. \A e, f \in queue' \ queue : e.n = f.n => e = f
    BY <1>2, <1>3, <1>5
  <1>11. \A e \in queue' \ queue : e.type = "created" =>
           stripeSubs[sid] = NoSub /\ \A f \in queue' \ queue : f.type = "created" => f = e
    BY <1>2, <1>5, <1>8
  <1> QED  BY <1>1, <1>6, <1>7, <1>9, <1>10, <1>11 DEF Emits

\* Every step leaves Stripe and the events alone but for those it acknowledges, or tells of what it changes.
LEMMA EmitStep ==
    ASSUME TypeOK, HandlersKnown, Numbered, [Next]_vars
    PROVE  \/ UNCHANGED <<stripeSubs, clock>> /\ queue' \subseteq queue
           \/ \E sid \in SubIds, s \in StripeSub : Emits(sid, s)
  <1> DEFINE Still == UNCHANGED <<stripeSubs, clock>> /\ queue' \subseteq queue
             Goal == \/ Still
                     \/ \E sid \in SubIds, s \in StripeSub : Emits(sid, s)
  <1>1. ASSUME NEW u \in Users, CancelNow(u)
        PROVE  Goal
    <2>1. PICK row \in subs :
            /\ Live(row.sid)
            /\ Emit("deleted", row.sid, [stripeSubs[row.sid] EXCEPT !.status = "canceled"])
            /\ UNCHANGED <<dbVars, serverVars>>
      BY <1>1 DEF CancelNow
    <2> DEFINE sid == row.sid
               s == [stripeSubs[sid] EXCEPT !.status = "canceled"]
    <2>2. sid \in SubIds
      BY DEF TypeOK, SubRow
    <2>3. s \in StripeSub /\ s.status = "canceled" /\ Holds("terms", s) = Holds("terms", stripeSubs[sid])
      BY <2>1, <2>2, KnownSub DEF Live, StripeSub, Status, Holds
    <2>4. UNCHANGED <<subs, handlers>>
      BY <2>1 DEF dbVars, serverVars
    <2> HIDE DEF s
    <2> QED  BY <2>1, <2>2, <2>3, <2>4, EmitTells DEF s
  <1>2. ASSUME NEW u \in Users, NEW p \in Periods, ChangePeriod(u, p)
        PROVE  Goal
    <2>1. PICK row \in subs :
            /\ Live(row.sid)
            /\ Emit("updated", row.sid, [stripeSubs[row.sid] EXCEPT !.period = p])
            /\ UNCHANGED <<dbVars, serverVars>>
      BY <1>2 DEF ChangePeriod
    <2> DEFINE sid == row.sid
               s == [stripeSubs[sid] EXCEPT !.period = p]
    <2>2. sid \in SubIds
      BY DEF TypeOK, SubRow
    <2>3. s \in StripeSub
      BY <2>1, <2>2, KnownSub DEF Live, StripeSub
    <2>4. UNCHANGED <<subs, handlers>>
      BY <2>1 DEF dbVars, serverVars
    <2> HIDE DEF s
    <2> QED  BY <2>1, <2>2, <2>3, <2>4, EmitTells DEF s
  <1>3. ASSUME NEW r \in Requests, ToggleStripe(r)
        PROVE  Goal
    <2> DEFINE sid == req[r].sid
               s == [stripeSubs[sid] EXCEPT !.cancelAtEnd = ~req[r].autoRenew]
    <2>1. CASE Live(sid) /\ Emit("updated", sid, s)
      <3>1. sid \in SubIds /\ (~req[r].autoRenew) \in BOOLEAN
        BY <1>3, RequestKind DEF ToggleStripe, ToggleRequest
      <3>2. s \in StripeSub
        BY <2>1, <3>1, KnownSub DEF Live, StripeSub
      <3>3. UNCHANGED <<subs, handlers>>
        BY <1>3 DEF ToggleStripe, dbVars
      <3> HIDE DEF s, sid
      <3> QED  BY <2>1, <3>1, <3>2, <3>3, EmitTells
    <2>2. CASE UNCHANGED <<stripeSubs, eventVars>>
      BY <2>2 DEF eventVars
    <2> QED  BY <1>3, <2>1, <2>2 DEF ToggleStripe
  <1>4. ASSUME NEW k \in sessions, NEW sid \in SubIds, NEW inv \in InvoiceIds,
               StripeCompletesCheckout(k, sid, inv)
        PROVE  Goal
    <2> DEFINE s == [customer |-> k.customer,
                     status |-> IF k.trial THEN "trialing" ELSE "active",
                     period |-> k.period, cancelAtEnd |-> FALSE, coupon |-> k.coupon]
               i == [sid |-> sid, paid |-> TRUE, coupon |-> k.coupon]
    <2>1. s \in StripeSub
      BY DEF TypeOK, Session, StripeSub, Status
    <2>2. EmitBoth("created", "payment_succeeded", sid, s, inv, i, TRUE) /\ stripeSubs[sid] = NoSub
      BY <1>4 DEF StripeCompletesCheckout
    <2>3. UNCHANGED <<subs, handlers>>
      BY <1>4 DEF StripeCompletesCheckout, dbVars, serverVars
    <2> HIDE DEF s, i
    <2> QED  BY <2>1, <2>2, <2>3, EmitBothTells DEF PaymentTypes
  <1>5. ASSUME NEW sid \in SubIds, NEW inv \in InvoiceIds,
               StripeRenews(sid, inv) \/ StripeCollectsLate(sid, inv)
        PROVE  Goal
    <2> DEFINE s == [stripeSubs[sid] EXCEPT !.status = "active"]
    <2>1. stripeSubs[sid].status \notin {"none", "canceled"}
      BY <1>5 DEF StripeRenews, StripeCollectsLate
    <2>2. s \in StripeSub
      BY <2>1, KnownSub DEF StripeSub, Status
    <2>3. PICK i : EmitBoth("updated", "payment_succeeded", sid, s, inv, i, TRUE)
      BY <1>5 DEF StripeRenews, StripeCollectsLate
    <2>4. UNCHANGED <<subs, handlers>>
      BY <1>5 DEF StripeRenews, StripeCollectsLate, dbVars, serverVars
    <2> HIDE DEF s
    <2> QED  BY <2>2, <2>3, <2>4, EmitBothTells DEF PaymentTypes
  <1>6. ASSUME NEW sid \in SubIds, NEW inv \in InvoiceIds, StripeFailsToCollect(sid, inv)
        PROVE  Goal
    <2> DEFINE s == [stripeSubs[sid] EXCEPT !.status = "past_due"]
    <2>1. stripeSubs[sid].status \notin {"none", "canceled"}
      BY <1>6 DEF StripeFailsToCollect
    <2>2. s \in StripeSub
      BY <2>1, KnownSub DEF StripeSub, Status
    <2>3. PICK i : EmitBoth("updated", "payment_failed", sid, s, inv, i, FALSE)
      BY <1>6 DEF StripeFailsToCollect
    <2>4. UNCHANGED <<subs, handlers>>
      BY <1>6 DEF StripeFailsToCollect, dbVars, serverVars
    <2> HIDE DEF s
    <2> QED  BY <2>2, <2>3, <2>4, EmitBothTells DEF PaymentTypes
  <1>7. ASSUME NEW sid \in SubIds, StripeMarksUnpaid(sid) \/ StripeEnds(sid) \/ StripeWarnsTrial(sid)
        PROVE  Goal
    <2>1. Live(sid) /\ stripeSubs[sid] \in StripeSub
      BY <1>7, KnownSub DEF StripeMarksUnpaid, StripeEnds, StripeWarnsTrial, Live
    <2>5. UNCHANGED <<subs, handlers>>
      BY <1>7 DEF StripeMarksUnpaid, StripeEnds, StripeWarnsTrial, dbVars, serverVars
    <2>2. CASE StripeMarksUnpaid(sid)
      <3> DEFINE s == [stripeSubs[sid] EXCEPT !.status = "unpaid"]
      <3>1. s \in StripeSub
        BY <2>1 DEF StripeSub, Status
      <3>2. Emit("updated", sid, s)
        BY <2>2 DEF StripeMarksUnpaid
      <3> HIDE DEF s
      <3> QED  BY <2>5, <3>1, <3>2, EmitTells
    <2>3. CASE StripeEnds(sid)
      <3> DEFINE s == [stripeSubs[sid] EXCEPT !.status = "canceled"]
      <3>1. s \in StripeSub /\ s.status = "canceled" /\ Holds("terms", s) = Holds("terms", stripeSubs[sid])
        BY <2>1 DEF StripeSub, Status, Holds
      <3>2. Emit("deleted", sid, s)
        BY <2>3 DEF StripeEnds
      <3> HIDE DEF s
      <3> QED  BY <2>5, <3>1, <3>2, EmitTells
    <2>4. CASE StripeWarnsTrial(sid)
      BY <2>1, <2>4, <2>5, EmitTells DEF StripeWarnsTrial
    <2> QED  BY <1>7, <2>2, <2>3, <2>4
  <1>8. ASSUME NEW e \in queue \cup acked, Webhook(e)
        PROVE  Still
    BY <1>8
    DEF Webhook, OnSubscriptionCreated, OnSubscriptionUpdated, OnSubscriptionDeleted,
        OnTrialWillEnd, OnPayment, OnPaymentUnresolved, Ack, stripeVars, eventVars, WriteUpdated,
        WriteCanceled
  <1>9. ASSUME NEW h \in handlers, HandlerStep(h)
        PROVE  Still
    BY <1>9
    DEF HandlerStep, PaymentInvoice, PaymentInvalidate, PaymentRedeem, PaymentPastDue, Ack,
        stripeVars, eventVars, WritePastDue
  <1>10. ASSUME NEW r \in Requests, Checkout(r) \/ ToggleWrite(r)
         PROVE  Still
    BY <1>10
    DEF Checkout, CheckoutDiscounts, CheckoutCustomer, CheckoutSaveCustomer, CheckoutSession,
        ToggleWrite, stripeVars, eventVars
  <1>11. ASSUME NEW r \in Requests, NEW u \in Users,
                ToggleRead(r, u) \/ \E p \in Periods, c \in Coupons \cup {None} : CheckoutStart(r, u, p, c)
         PROVE  Still
    BY <1>11 DEF ToggleRead, CheckoutStart, stripeVars, eventVars
  <1>12. CASE Fault \/ UNCHANGED vars
    BY <1>12 DEF Fault, RequestFails, HandlerFails, PastDueUnread, UpdateUnread, Crash,
                 WriteUpdated, WriteCanceled, WritePastDue, stripeVars, eventVars, vars
  <1> HIDE DEF Goal
  <1>13. Goal
    BY <1>1, <1>2, <1>3, <1>4, <1>5, <1>6, <1>7, <1>8, <1>9, <1>10, <1>11, <1>12
    DEF Next, ApiCall, RequestStep, Stripe, Goal
  <1> QED  BY <1>13 DEF Goal

\* The change Follows survives: the last waiting event stays the last, and what the rows keep changes
\* only to what Stripe holds.
LEMMA FollowsStay ==
    ASSUME NEW kind \in Kinds, NEW sid \in SubIds, Follows(kind, sid),
           Waiting(kind, sid)' = Waiting(kind, sid),
           Holds(kind, stripeSubs'[sid]) = Holds(kind, stripeSubs[sid]),
           (\A row \in subs : row.sid = sid => Keeps(kind, row) = Holds(kind, stripeSubs[sid]))
             => \A row \in subs' : row.sid = sid => Keeps(kind, row) = Holds(kind, stripeSubs[sid])
    PROVE  Follows(kind, sid)'
  <1> PICK now : now = Holds(kind, stripeSubs[sid])
    OBVIOUS
  <1>1. Holds(kind, stripeSubs[sid])' = now
    BY DEF Holds
  <1> QED  BY <1>1 DEF Follows, Tells, Keeps

\* Acknowledging the oldest event of its subscription keeps the rows behind the last one.
LEMMA AckFollows ==
    ASSUME TypeOK, Numbered, NEW kind \in Kinds, NEW sid \in SubIds, Follows(kind, sid),
           UNCHANGED stripeSubs, NEW e \in queue, queue' = queue \ {e},
           \A f \in queue : f.sid = e.sid => e.n <= f.n,
           \A row \in subs' : row.sid = sid =>
             IF e \in Waiting(kind, sid) THEN Keeps(kind, row) = Tells(kind, e)
             ELSE \E old \in subs : old.sid = sid /\ Keeps(kind, row) = Keeps(kind, old)
    PROVE  Follows(kind, sid)'
  <1>1. Waiting(kind, sid)' = Waiting(kind, sid) \ {e}
    BY DEF Waiting, Writers
  <1>2. CASE e \notin Waiting(kind, sid)
    <2>1. Waiting(kind, sid)' = Waiting(kind, sid)
      BY <1>1, <1>2
    <2>2. Holds(kind, stripeSubs'[sid]) = Holds(kind, stripeSubs[sid])
      OBVIOUS
    <2> QED  BY <1>2, <2>1, <2>2, FollowsStay
  <1>3. CASE e \in Waiting(kind, sid)
    <2>1. e.sid = sid
      BY <1>3 DEF Waiting
    <2>2. PICK w \in Waiting(kind, sid) : /\ Tells(kind, w) = Holds(kind, stripeSubs[sid])
                                          /\ \A f \in Waiting(kind, sid) : f.n <= w.n
      BY <1>3 DEF Follows
    <2>3. CASE w = e
      <3>1. ASSUME NEW f \in Waiting(kind, sid)
            PROVE  f = e
        <4>1. f \in queue /\ f.sid = e.sid
          BY <2>1 DEF Waiting
        <4>2. f.n <= e.n /\ e.n <= f.n
          BY <2>2, <2>3, <4>1
        <4>3. f.n = e.n
          BY <4>1, <4>2, EventNumber
        <4> QED  BY <4>1, <4>3 DEF Numbered
      <3>2. Waiting(kind, sid)' = {}
        BY <1>1, <3>1
      <3>3. \A row \in subs' : row.sid = sid => Keeps(kind, row) = Holds(kind, stripeSubs[sid])
        BY <1>3, <2>2, <2>3
      <3> QED  BY <3>2, <3>3 DEF Follows, Keeps, Holds
    <2>4. CASE w # e
      <3>1. w \in Waiting(kind, sid)' /\ \A f \in Waiting(kind, sid)' : f.n <= w.n
        BY <1>1, <2>2, <2>4
      <3> QED  BY <2>2, <3>1 DEF Follows, Tells, Holds
    <2> QED  BY <2>3, <2>4
  <1> QED  BY <1>2, <1>3

\* An event that Stripe tells of its change is the last that waits.
LEMMA EmitFollows ==
    ASSUME TypeOK, Numbered, NEW kind \in Kinds, NEW x \in SubIds, Follows(kind, x),
           TypeOK', NEW sid \in SubIds, NEW s \in StripeSub, Emits(sid, s)
    PROVE  Follows(kind, x)'
  <1> DEFINE new == {e \in queue' \ queue : e.type \in Writers(kind)}
  <1>1. \A y \in SubIds : stripeSubs'[y] = IF y = sid THEN s ELSE stripeSubs[y]
    BY DEF Emits, TypeOK
  <1>2. Waiting(kind, x)' = Waiting(kind, x) \cup {e \in new : x = sid}
    BY DEF Waiting, Emits, Writers
  <1>3. CASE x # sid \/ (new = {} /\ Holds(kind, s) = Holds(kind, stripeSubs[sid]))
    <2>1. Waiting(kind, x)' = Waiting(kind, x)
      BY <1>2, <1>3
    <2>2. Holds(kind, stripeSubs'[x]) = Holds(kind, stripeSubs[x])
      BY <1>1, <1>3
    <2>3. subs' = subs
      BY DEF Emits
    <2> QED  BY <2>1, <2>2, <2>3, FollowsStay
  <1>4. CASE x = sid /\ \E e \in new : Tells(kind, e) = Holds(kind, s) /\ \A f \in new : f.n <= e.n
    <2>1. PICK e \in new : Tells(kind, e) = Holds(kind, s) /\ \A f \in new : f.n <= e.n
      BY <1>4
    <2>2. Waiting(kind, x)' = Waiting(kind, x) \cup new
      BY <1>2, <1>4
    <2>3. ASSUME NEW f \in Waiting(kind, x)
          PROVE  f.n <= e.n
      <3>1. f \in queue /\ f.n <= clock /\ f.n \in Nat
        BY EventNumber DEF Waiting, Numbered
      <3>2. clock < e.n /\ e.n <= clock'
        BY DEF Emits
      <3>3. clock \in Nat
        BY DEF TypeOK
      <3>4. e.n \in Nat
        BY DEF TypeOK, SubEvent, PaymentEvent
      <3> QED  BY <3>1, <3>2, <3>3, <3>4
    <2>4. e \in Waiting(kind, x)' /\ \A f \in Waiting(kind, x)' : f.n <= e.n
      BY <2>1, <2>2, <2>3
    <2>5. Tells(kind, e) = Holds(kind, stripeSubs'[x])
      BY <1>1, <1>4, <2>1
    <2> QED  BY <2>4, <2>5 DEF Follows, Tells, Holds
  <1> QED  BY <1>3, <1>4 DEF Emits, Told

\* The rows follow, and what makes them.
SyncInv ==
    /\ OwnerInv /\ OneHandler
    /\ Numbered /\ HandlersFirst /\ HandlersKind /\ CreatedOnce /\ TogglesAgree
    /\ RowsFollow

\* What Stripe emits is younger than what waits.
LEMMA NumberedStep ==
    ASSUME TypeOK, HandlersKnown, Numbered, [Next]_vars
    PROVE  Numbered'
  <1>1. CASE UNCHANGED clock /\ queue' \subseteq queue
    BY <1>1 DEF Numbered
  <1>2. ASSUME NEW sid \in SubIds, NEW s \in StripeSub, Emits(sid, s)
        PROVE  Numbered'
    <2>1. clock < clock' /\ clock \in Nat /\ clock' \in Nat
      BY <1>2, TypeStep DEF Emits, TypeOK
    <2>2. \A e \in queue : e.n \in Nat /\ e.n <= clock
      BY EventNumber DEF Numbered
    <2>3. \A e \in queue' \ queue : clock < e.n /\ e.n <= clock'
      BY <1>2 DEF Emits
    <2>4. \A e \in queue' : e.n <= clock'
      BY <2>1, <2>2, <2>3
    <2>5. ASSUME NEW e \in queue', NEW f \in queue', e.n = f.n
          PROVE  e = f
      <3>1. CASE e \in queue /\ f \in queue
        BY <2>5, <3>1 DEF Numbered
      <3>2. CASE e \notin queue /\ f \notin queue
        BY <1>2, <2>5, <3>2 DEF Emits
      <3>3. CASE e \in queue /\ f \notin queue
        BY <2>1, <2>2, <2>3, <2>5, <3>3
      <3>4. CASE e \notin queue /\ f \in queue
        BY <2>1, <2>2, <2>3, <2>5, <3>4
      <3> QED  BY <3>1, <3>2, <3>3, <3>4
    <2> QED  BY <2>4, <2>5 DEF Numbered
  <1> QED  BY <1>1, <1>2, EmitStep

\* Nothing of its subscription is delivered past the event a handler runs on.
LEMMA FirstStep ==
    ASSUME TypeOK, HandlersKnown, OneHandler, Numbered, HandlersFirst, InOrder, ~Redeliver, [Next]_vars
    PROVE  HandlersFirst'
  <1>1. ASSUME NEW h \in handlers'
        PROVE  h.ev \in queue /\ \A f \in queue : f.sid = h.ev.sid => h.ev.n <= f.n
    <2>1. ASSUME NEW g \in handlers, g.ev = h.ev
          PROVE  h.ev \in queue /\ \A f \in queue : f.sid = h.ev.sid => h.ev.n <= f.n
      BY <2>1 DEF HandlersFirst, OneHandler
    <2>2. ASSUME NEW e, OnPayment(e), h.ev = e
          PROVE  h.ev \in queue /\ \A f \in queue : f.sid = h.ev.sid => h.ev.n <= f.n
      <3>1. ASSUME NEW f \in queue, f.sid = e.sid
            PROVE  e.n <= f.n
        <4>1. f.n >= e.n
          BY <2>2, <3>1 DEF OnPayment, Deliverable
        <4> QED  BY <4>1
      <3> QED  BY <2>2, <3>1 DEF OnPayment, Deliverable
    <2> QED  BY <2>1, <2>2, HandlerOrigin
  <1>2. ASSUME NEW e \in queue, NEW f \in queue' \ queue
        PROVE  e.n <= f.n
    <2>1. clock < f.n
      BY EmitStep DEF Emits
    <2>2. e.n <= clock /\ e.n \in Nat /\ clock \in Nat
      BY EventNumber DEF Numbered, TypeOK
    <2>3. f.n \in Nat
      BY TypeStep DEF TypeOK, SubEvent, PaymentEvent
    <2> QED  BY <2>1, <2>2, <2>3
  <1> QED  BY <1>1, <1>2 DEF HandlersFirst

\* createInvoice sends a handler on by the type of its event.
LEMMA KindStep ==
    ASSUME TypeOK, HandlersKind, [Next]_vars
    PROVE  HandlersKind'
  <1>1. ASSUME NEW e, OnPayment(e)
        PROVE  HandlersKind'
    BY <1>1 DEF OnPayment, HandlersKind
  <1>2. ASSUME NEW g \in handlers, PaymentInvoice(g)
        PROVE  HandlersKind'
    <2>1. PICK a : a = [g EXCEPT !.pc = "cache"]
      OBVIOUS
    <2>2. a.pc = "cache"
      BY <2>1 DEF TypeOK, Handler
    <2>3. handlers' = (handlers \ {g}) \cup {a}
      BY <1>2, <2>1 DEF PaymentInvoice
    <2> QED  BY <2>2, <2>3 DEF HandlersKind
  <1>3. ASSUME NEW g \in handlers, PaymentInvalidate(g)
        PROVE  HandlersKind'
    <2>1. g \in Handler
      BY DEF TypeOK
    <2>2. PICK a, b : a = [g EXCEPT !.pc = "redeem"] /\ b = [g EXCEPT !.pc = "pastDue"]
      OBVIOUS
    <2>3. a.ev = g.ev /\ a.pc = "redeem" /\ b.ev = g.ev /\ b.pc = "pastDue"
      BY <2>1, <2>2 DEF Handler
    <2>4. \/ handlers' = handlers \ {g}
          \/ handlers' = (handlers \ {g}) \cup {a} /\ g.ev.type = "payment_succeeded"
          \/ handlers' = (handlers \ {g}) \cup {b} /\ g.ev.type = "payment_failed"
      BY <1>3, <2>2 DEF PaymentInvalidate
    <2> QED  BY <2>3, <2>4 DEF HandlersKind
  <1>4. CASE handlers' \subseteq handlers
    BY <1>4 DEF HandlersKind
  <1> QED  BY <1>1, <1>2, <1>3, <1>4, HandlerMovers

\* A subscription that was not made has neither a row nor an event.
LEMMA CreatedStep ==
    ASSUME TypeOK, HandlersKnown, EventsReal, RowOwner, Numbered, CreatedOnce, ~Redeliver, [Next]_vars
    PROVE  CreatedOnce'
  <1>1. CASE UNCHANGED <<stripeSubs, clock>> /\ queue' \subseteq queue
    <2>1. ASSUME NEW e \in queue', e.type = "created", NEW row \in subs', row.sid = e.sid
          PROVE  FALSE
      <3>1. e \in queue /\ ~HasRow(e.sid)
        BY <1>1, <2>1 DEF CreatedOnce
      <3>2. PICK f \in queue \cup acked : OnSubscriptionCreated(f) /\ row \notin subs
        BY <2>1, <3>1, RowsKeep DEF HasRow
      <3>3. f \in queue /\ f \notin queue'
        BY <3>2 DEF OnSubscriptionCreated, Deliverable, Ack
      <3>4. row.sid = f.sid /\ f.type = "created"
        BY <3>2 DEF OnSubscriptionCreated, InsertSub, BuildSEntity
      <3>5. f = e
        BY <2>1, <3>1, <3>3, <3>4 DEF CreatedOnce
      <3> QED  BY <2>1, <3>3, <3>5
    <2> QED  BY <1>1, <2>1 DEF CreatedOnce, HasRow
  <1>2. ASSUME NEW sid \in SubIds, NEW s \in StripeSub, Emits(sid, s)
        PROVE  CreatedOnce'
    <2>1. subs' = subs /\ queue \subseteq queue'
      BY <1>2 DEF Emits
    <2>2. ASSUME stripeSubs[sid] = NoSub
          PROVE  ~HasRow(sid) /\ \A f \in queue : f.sid # sid
      <3>1. NoSub.customer \notin CustomerIds
        BY BillingAssumption DEF BillingAssumption, NoSub
      <3> QED  BY <2>2, <3>1 DEF HasRow, RowOwner, EventsReal
    <2>3. ASSUME NEW e \in queue' \ queue, e.type = "created"
          PROVE  /\ ~HasRow(e.sid)
                 /\ \A f \in queue : f.sid # e.sid
                 /\ \A f \in queue' \ queue : f.type = "created" => f = e
      BY <1>2, <2>2, <2>3 DEF Emits
    <2> QED  BY <2>1, <2>3 DEF CreatedOnce, HasRow
  <1> QED  BY <1>1, <1>2, EmitStep

\* Only the step of a toggle that calls Stripe changes what renewal is at Stripe, and sends a toggle on.
LEMMA RenewalStep ==
    ASSUME TypeOK, [Next]_vars
    PROVE  \/ \E r \in Requests : ToggleStripe(r)
           \/ /\ \A x \in SubIds : stripeSubs'[x].cancelAtEnd = stripeSubs[x].cancelAtEnd
              /\ \A q \in Requests : req'[q].pc = "toggleWrite" => req'[q] = req[q]
  <1> DEFINE Same == \A x \in SubIds : stripeSubs'[x].cancelAtEnd = stripeSubs[x].cancelAtEnd
             Known == \A q \in Requests : req'[q].pc = "toggleWrite" => req'[q] = req[q]
  <1>1. ASSUME NEW sid \in SubIds, NEW s, stripeSubs' = [stripeSubs EXCEPT ![sid] = s],
               s.cancelAtEnd = stripeSubs[sid].cancelAtEnd
        PROVE  Same
    BY <1>1 DEF TypeOK
  <1>2. ASSUME NEW sid \in SubIds, stripeSubs[sid].status # "none"
        PROVE  /\ \A v : [stripeSubs[sid] EXCEPT !.status = v].cancelAtEnd = stripeSubs[sid].cancelAtEnd
               /\ \A v : [stripeSubs[sid] EXCEPT !.period = v].cancelAtEnd = stripeSubs[sid].cancelAtEnd
    BY <1>2, KnownSub DEF StripeSub
  <1>3. ASSUME NEW u \in Users, CancelNow(u) \/ \E p \in Periods : ChangePeriod(u, p)
        PROVE  Same /\ Known
    <2>1. PICK row \in subs :
            /\ Live(row.sid)
            /\ \/ stripeSubs' = [stripeSubs EXCEPT ![row.sid] = [stripeSubs[row.sid] EXCEPT !.status = "canceled"]]
               \/ \E p \in Periods :
                    stripeSubs' = [stripeSubs EXCEPT ![row.sid] = [stripeSubs[row.sid] EXCEPT !.period = p]]
      BY <1>3 DEF CancelNow, ChangePeriod, Emit
    <2>2. row.sid \in SubIds /\ stripeSubs[row.sid].status # "none"
      BY <2>1 DEF TypeOK, SubRow, Live
    <2>3. ASSUME stripeSubs' = [stripeSubs EXCEPT ![row.sid] = [stripeSubs[row.sid] EXCEPT !.status = "canceled"]]
          PROVE  Same
      BY <1>1, <1>2, <2>2, <2>3
    <2>5. ASSUME NEW p \in Periods,
                 stripeSubs' = [stripeSubs EXCEPT ![row.sid] = [stripeSubs[row.sid] EXCEPT !.period = p]]
          PROVE  Same
      BY <1>1, <1>2, <2>2, <2>5
    <2>4. req' = req
      BY <1>3 DEF CancelNow, ChangePeriod, serverVars
    <2> QED  BY <2>1, <2>3, <2>4, <2>5
  <1>4. ASSUME NEW sid \in SubIds, NEW inv \in InvoiceIds,
               \/ StripeMarksUnpaid(sid) \/ StripeEnds(sid)
               \/ StripeRenews(sid, inv) \/ StripeFailsToCollect(sid, inv) \/ StripeCollectsLate(sid, inv)
        PROVE  Same /\ Known
    <2>1. stripeSubs[sid].status # "none"
      BY <1>4 DEF StripeMarksUnpaid, StripeEnds, StripeRenews, StripeFailsToCollect, StripeCollectsLate, Live
    <2>2. \E v : stripeSubs' = [stripeSubs EXCEPT ![sid] = [stripeSubs[sid] EXCEPT !.status = v]]
      BY <1>4 DEF StripeMarksUnpaid, StripeEnds, StripeRenews, StripeFailsToCollect, StripeCollectsLate,
                  Emit, EmitBoth
    <2>3. Same
      BY <1>1, <1>2, <2>1, <2>2
    <2>4. req' = req
      BY <1>4 DEF StripeMarksUnpaid, StripeEnds, StripeRenews, StripeFailsToCollect, StripeCollectsLate,
                  serverVars
    <2> QED  BY <2>3, <2>4
  <1>5. ASSUME NEW sid \in SubIds, StripeMarksUnpaid(sid) \/ StripeEnds(sid) \/ StripeWarnsTrial(sid)
        PROVE  Same /\ Known
    <2>1. stripeSubs[sid].status # "none"
      BY <1>5 DEF StripeMarksUnpaid, StripeEnds, StripeWarnsTrial, Live
    <2>2. \/ \E v : stripeSubs' = [stripeSubs EXCEPT ![sid] = [stripeSubs[sid] EXCEPT !.status = v]]
          \/ stripeSubs' = [stripeSubs EXCEPT ![sid] = stripeSubs[sid]]
      BY <1>5 DEF StripeMarksUnpaid, StripeEnds, StripeWarnsTrial, Emit
    <2>3. Same
      BY <1>1, <1>2, <2>1, <2>2
    <2>4. req' = req
      BY <1>5 DEF StripeMarksUnpaid, StripeEnds, StripeWarnsTrial, serverVars
    <2> QED  BY <2>3, <2>4
  <1>6. ASSUME NEW k \in sessions, NEW sid \in SubIds, NEW inv \in InvoiceIds,
               StripeCompletesCheckout(k, sid, inv)
        PROVE  Same /\ Known
    <2>1. PICK s : /\ s = [customer |-> k.customer, status |-> IF k.trial THEN "trialing" ELSE "active",
                           period |-> k.period, cancelAtEnd |-> FALSE, coupon |-> k.coupon]
                   /\ stripeSubs' = [stripeSubs EXCEPT ![sid] = s]
      BY <1>6 DEF StripeCompletesCheckout, EmitBoth
    <2>2. stripeSubs[sid] = NoSub
      BY <1>6 DEF StripeCompletesCheckout
    <2>3. s.cancelAtEnd = stripeSubs[sid].cancelAtEnd
      BY <2>1, <2>2 DEF NoSub
    <2>4. req' = req
      BY <1>6 DEF StripeCompletesCheckout, serverVars
    <2> QED  BY <1>1, <2>1, <2>3, <2>4
  <1>7. ASSUME stripeSubs' = stripeSubs, req' = req
        PROVE  Same /\ Known
    BY <1>7
  <1>8. ASSUME NEW e, Webhook(e)
        PROVE  Same /\ Known
    BY <1>7, <1>8
    DEF Webhook, OnSubscriptionCreated, OnSubscriptionUpdated, OnSubscriptionDeleted,
        OnTrialWillEnd, OnPayment, OnPaymentUnresolved, serverVars, stripeVars, WriteUpdated,
        WriteCanceled
  <1>9. ASSUME NEW h, HandlerStep(h)
        PROVE  Same /\ Known
    BY <1>7, <1>9 DEF HandlerStep, PaymentInvoice, PaymentInvalidate, PaymentRedeem,
                      PaymentPastDue, stripeVars, WritePastDue
  <1>10. ASSUME NEW r \in Requests, Checkout(r) \/ ToggleWrite(r) \/ RequestFails(r)
         PROVE  Same /\ Known
    <2>1. stripeSubs' = stripeSubs
      BY <1>10 DEF Checkout, CheckoutDiscounts, CheckoutCustomer, CheckoutSaveCustomer, CheckoutSession,
                   ToggleWrite, RequestFails, stripeVars
    <2>2. \A q \in Requests \ {r} : req'[q] = req[q]
      BY <1>10 DEF Checkout, CheckoutDiscounts, CheckoutCustomer, CheckoutSaveCustomer, CheckoutSession,
                   ToggleWrite, RequestFails, Respond, TypeOK
    <2>3. req'[r].pc # "toggleWrite"
      <3>1. CASE Respond(r)
        BY <3>1 DEF Respond, Idle, TypeOK
      <3>2. CASE CheckoutDiscounts(r) \/ CheckoutCustomer(r) \/ CheckoutSaveCustomer(r)
        <4>1. req[r] \in CheckoutRequest
          BY <3>2, RequestKind DEF CheckoutDiscounts, CheckoutCustomer, CheckoutSaveCustomer
        <4>2. CASE \E b : req' = [req EXCEPT ![r].pc = "customer", ![r].trial = b]
          BY <4>1, <4>2 DEF TypeOK, CheckoutRequest
        <4>3. CASE \E c : req' = [req EXCEPT ![r].pc = "saveCustomer", ![r].customer = c]
          BY <4>1, <4>3 DEF TypeOK, CheckoutRequest
        <4>4. CASE req' = [req EXCEPT ![r].pc = "session"]
          BY <4>1, <4>4 DEF TypeOK, CheckoutRequest
        <4> QED  BY <3>1, <3>2, <4>2, <4>3, <4>4 DEF CheckoutDiscounts, CheckoutCustomer, CheckoutSaveCustomer
      <3> QED  BY <1>10, <3>1, <3>2 DEF Checkout, CheckoutSession, ToggleWrite, RequestFails
    <2> QED  BY <2>1, <2>2, <2>3
  <1>11. ASSUME NEW r \in Requests, NEW u \in Users,
                ToggleRead(r, u) \/ \E p \in Periods, c \in Coupons \cup {None} : CheckoutStart(r, u, p, c)
         PROVE  Same /\ Known
    <2>1. stripeSubs' = stripeSubs
      BY <1>11 DEF ToggleRead, CheckoutStart, stripeVars
    <2>2. PICK q : q.pc # "toggleWrite" /\ req' = [req EXCEPT ![r] = q]
      BY <1>11 DEF ToggleRead, CheckoutStart
    <2> QED  BY <2>1, <2>2 DEF TypeOK
  <1>12. ASSUME NEW h, HandlerFails(h) \/ PastDueUnread(h)
         PROVE  Same /\ Known
    BY <1>7, <1>12 DEF HandlerFails, PastDueUnread, WritePastDue, stripeVars
  <1>19. ASSUME NEW e, UpdateUnread(e)
         PROVE  Same /\ Known
    BY <1>7, <1>19 DEF UpdateUnread, WriteUpdated, WriteCanceled, serverVars, stripeVars
  <1>13. ASSUME Crash
         PROVE  Same /\ Known
    BY <1>13 DEF Crash, Idle, stripeVars
  <1>14. ASSUME UNCHANGED vars
         PROVE  Same /\ Known
    BY <1>7, <1>14 DEF vars, serverVars, stripeVars
  <1> HIDE DEF Same, Known
  <1>15. ASSUME ApiCall
         PROVE  (Same /\ Known) \/ \E r \in Requests : ToggleStripe(r)
    BY <1>3, <1>10, <1>11, <1>15 DEF ApiCall, RequestStep
  <1>16. ASSUME Stripe
         PROVE  (Same /\ Known) \/ \E r \in Requests : ToggleStripe(r)
    BY <1>4, <1>5, <1>6, <1>16 DEF Stripe
  <1>17. ASSUME Fault
         PROVE  (Same /\ Known) \/ \E r \in Requests : ToggleStripe(r)
    BY <1>10, <1>12, <1>13, <1>17, <1>19 DEF Fault
  <1>18. (Same /\ Known) \/ \E r \in Requests : ToggleStripe(r)
    BY <1>8, <1>9, <1>14, <1>15, <1>16, <1>17 DEF Next
  <1> QED  BY <1>18 DEF Same, Known

\* What Stripe was told stays until it is written: no other toggle of the subscription runs.
LEMMA TogglesStep ==
    ASSUME TypeOK, TogglesAgree, OneToggle, [Next]_vars
    PROVE  TogglesAgree'
  <1>1. \A q \in Requests : req[q].pc = "toggleWrite" => req[q].sid \in SubIds
    BY RequestKind DEF ToggleRequest
  <1>2. CASE /\ \A x \in SubIds : stripeSubs'[x].cancelAtEnd = stripeSubs[x].cancelAtEnd
             /\ \A q \in Requests : req'[q].pc = "toggleWrite" => req'[q] = req[q]
    BY <1>1, <1>2 DEF TogglesAgree
  <1>3. ASSUME NEW r \in Requests, ToggleStripe(r)
        PROVE  TogglesAgree'
    <2> DEFINE sid == req[r].sid
               s == [stripeSubs[sid] EXCEPT !.cancelAtEnd = ~req[r].autoRenew]
    <2>1. req[r] \in ToggleRequest /\ sid \in SubIds /\ (~req[r].autoRenew) \in BOOLEAN
      BY <1>3, RequestKind DEF ToggleStripe, ToggleRequest
    <2>2. \A q \in Requests \ {r} : req[q].pc = "toggleWrite" => req[q].sid # sid
      BY <1>1, <2>1, BillingAssumption DEF OneToggle, BillingAssumption
    <2>3. CASE /\ Live(sid)
               /\ stripeSubs' = [stripeSubs EXCEPT ![sid] = s]
               /\ req' = [req EXCEPT ![r].pc = "toggleWrite"]
      <3>1. stripeSubs[sid] \in StripeSub
        BY <2>1, <2>3, KnownSub DEF Live
      <3>2. s.cancelAtEnd = ~req[r].autoRenew
        BY <3>1 DEF StripeSub
      <3>3. req'[r].sid = sid /\ req'[r].autoRenew = req[r].autoRenew
        BY <2>1, <2>3 DEF TypeOK, ToggleRequest
      <3>4. \A q \in Requests \ {r} : req'[q] = req[q]
        BY <2>3 DEF TypeOK
      <3>5. \A x \in SubIds : stripeSubs'[x] = IF x = sid THEN s ELSE stripeSubs[x]
        BY <2>1, <2>3 DEF TypeOK
      <3> HIDE DEF s, sid
      <3>6. ASSUME NEW q \in Requests, req'[q].pc = "toggleWrite"
            PROVE  stripeSubs'[req'[q].sid].cancelAtEnd = ~req'[q].autoRenew
        <4>1. CASE q = r
          BY <2>1, <3>2, <3>3, <3>5, <4>1
        <4>2. CASE q # r
          BY <1>1, <2>2, <3>4, <3>5, <3>6, <4>2 DEF TogglesAgree
        <4> QED  BY <4>1, <4>2
      <3> QED  BY <3>6 DEF TogglesAgree
    <2>4. CASE stripeSubs' = stripeSubs /\ req' = [req EXCEPT ![r] = Idle]
      BY <2>4 DEF TogglesAgree, Idle, TypeOK
    <2>5. CASE s = stripeSubs[sid] /\ stripeSubs' = stripeSubs
      <3>1. stripeSubs' = [stripeSubs EXCEPT ![sid] = s]
        BY <2>5 DEF TypeOK
      <3> HIDE DEF s, sid
      <3> QED  BY <1>3, <2>3, <2>4, <3>1 DEF ToggleStripe, Respond, Emit, s, sid
    <2> QED  BY <1>3, <2>3, <2>4, <2>5 DEF ToggleStripe, Respond, Emit
  <1> QED  BY <1>2, <1>3, RenewalStep

\* Which event a step acknowledges, and that it is the oldest of its subscription.
LEMMA AckStep ==
    ASSUME OneHandler, HandlersFirst, InOrder, ~Redeliver, [Next]_vars, queue' \subseteq queue
    PROVE  \/ queue' = queue
           \/ \E e \in queue : /\ queue' = queue \ {e}
                               /\ \A f \in queue : f.sid = e.sid => e.n <= f.n
                               /\ \/ Webhook(e)
                                  \/ \E h \in handlers : HandlerStep(h) /\ h.ev = e
  <1>1. ASSUME NEW e \in queue \cup acked, Webhook(e)
        PROVE  \/ queue' = queue
               \/ e \in queue /\ queue' = queue \ {e} /\ \A f \in queue : f.sid = e.sid => f.n >= e.n
    BY <1>1 DEF Webhook, OnSubscriptionCreated, OnSubscriptionUpdated, OnSubscriptionDeleted,
                OnTrialWillEnd, OnPayment, OnPaymentUnresolved, Deliverable, Ack, eventVars,
                WriteUpdated, WriteCanceled
  <1>2. ASSUME NEW h \in handlers, HandlerStep(h)
        PROVE  \/ queue' = queue
               \/ h.ev \in queue /\ queue' = queue \ {h.ev} /\ \A f \in queue : f.sid = h.ev.sid => h.ev.n <= f.n
    <2>1. h.ev \in queue /\ \A f \in queue : f.sid = h.ev.sid => h.ev.n <= f.n
      BY DEF OneHandler, HandlersFirst
    <2> QED
      BY <1>2, <2>1 DEF HandlerStep, PaymentInvoice, PaymentInvalidate, PaymentRedeem,
                        PaymentPastDue, Ack, eventVars, WritePastDue
  <1>4. CASE \E e \in queue \cup acked : Webhook(e)
    BY <1>1, <1>4
  <1>5. CASE \E h \in handlers : HandlerStep(h)
    BY <1>2, <1>5
  <1>6. CASE ApiCall \/ Stripe \/ Fault \/ UNCHANGED vars
    <2>1. ASSUME ApiCall
          PROVE  queue \subseteq queue'
      BY <2>1
      DEF ApiCall, RequestStep, Checkout, CheckoutStart, ToggleRead, CancelNow, ChangePeriod,
          CheckoutDiscounts, CheckoutCustomer, CheckoutSaveCustomer, CheckoutSession, ToggleStripe,
          ToggleWrite, Emit, eventVars
    <2>2. ASSUME Stripe
          PROVE  queue \subseteq queue'
      <3>1. ASSUME NEW sid \in SubIds, StripeMarksUnpaid(sid) \/ StripeEnds(sid) \/ StripeWarnsTrial(sid)
            PROVE  queue \subseteq queue'
        BY <3>1 DEF StripeMarksUnpaid, StripeEnds, StripeWarnsTrial, Emit
      <3>2. ASSUME NEW sid \in SubIds, NEW inv \in InvoiceIds,
                   \/ StripeRenews(sid, inv) \/ StripeFailsToCollect(sid, inv)
                   \/ StripeCollectsLate(sid, inv) \/ \E k \in sessions : StripeCompletesCheckout(k, sid, inv)
            PROVE  queue \subseteq queue'
        BY <3>2 DEF StripeRenews, StripeFailsToCollect, StripeCollectsLate, StripeCompletesCheckout, EmitBoth
      <3> QED  BY <2>2, <3>1, <3>2 DEF Stripe
    <2>3. ASSUME Fault \/ UNCHANGED vars
          PROVE  queue \subseteq queue'
      BY <2>3 DEF Fault, RequestFails, HandlerFails, PastDueUnread, UpdateUnread, Crash, eventVars, vars
    <2> QED  BY <1>6, <2>1, <2>2, <2>3
  <1> QED  BY <1>4, <1>5, <1>6 DEF Next

\* What a row keeps after a step that acknowledges e: what e says, if e writes it, or what it kept.
Written(e) ==
    \A kind \in Kinds : \A row \in subs' :
        IF e \in Waiting(kind, row.sid) THEN Keeps(kind, row) = Tells(kind, e)
        ELSE \E old \in subs : old.sid = row.sid /\ Keeps(kind, row) = Keeps(kind, old)

\* The UPDATE of a webhook writes what its event says, answered or not ...
LEMMA UpdateWrites ==
    ASSUME TypeOK, NEW e \in queue, WriteUpdated(e) \/ WriteCanceled(e)
    PROVE  Written(e)
  <1>0. \A row \in subs : row \in SubRow
    BY DEF TypeOK
  <1>2. CASE WriteUpdated(e)
    <2>1. e.type = "updated"
      BY <1>2 DEF WriteUpdated
    <2>2. ASSUME NEW kind \in Kinds, NEW row \in subs'
          PROVE  IF e \in Waiting(kind, row.sid) THEN Keeps(kind, row) = Tells(kind, e)
                 ELSE \E old \in subs : old.sid = row.sid /\ Keeps(kind, row) = Keeps(kind, old)
      <3>1. PICK old \in subs :
              row = IF old.sid = e.sid
                    THEN [old EXCEPT !.status = e.status, !.period = e.period,
                                     !.autoRenew = ~e.cancelAtEnd,
                                     !.cancelAtPeriodEnd = e.cancelAtEnd]
                    ELSE old
        BY <1>2 DEF WriteUpdated, UpdateSub, Updated
      <3>2. CASE old.sid = e.sid
        <4>1. /\ row.sid = e.sid /\ row.status = e.status /\ row.period = e.period
              /\ row.cancelAtPeriodEnd = e.cancelAtEnd
          BY <1>0, <3>1, <3>2 DEF SubRow
        <4> QED  BY <2>1, <4>1 DEF Keeps, Tells, Waiting, Writers, Kinds
      <3>3. CASE old.sid # e.sid
        BY <3>1, <3>3 DEF Waiting
      <3> QED  BY <3>2, <3>3
    <2> QED  BY <2>2 DEF Written
  <1>3. CASE WriteCanceled(e)
    <2>1. e.type = "deleted"
      BY <1>3 DEF WriteCanceled
    <2>2. ASSUME NEW kind \in Kinds, NEW row \in subs'
          PROVE  IF e \in Waiting(kind, row.sid) THEN Keeps(kind, row) = Tells(kind, e)
                 ELSE \E old \in subs : old.sid = row.sid /\ Keeps(kind, row) = Keeps(kind, old)
      <3>1. PICK old \in subs : row = IF old.sid = e.sid THEN [old EXCEPT !.status = "canceled"] ELSE old
        BY <1>3 DEF WriteCanceled, UpdateSub
      <3>2. CASE old.sid = e.sid
        <4>1. /\ row.sid = old.sid /\ row.status = "canceled" /\ row.period = old.period
              /\ row.cancelAtPeriodEnd = old.cancelAtPeriodEnd
          BY <1>0, <3>1, <3>2 DEF SubRow
        <4>2. CASE kind = "status"
          BY <2>1, <3>2, <4>1, <4>2 DEF Keeps, Tells, Waiting, Writers
        <4>3. CASE kind = "terms"
          BY <2>1, <3>2, <4>1, <4>3 DEF Keeps, Waiting, Writers
        <4> QED  BY <4>2, <4>3 DEF Kinds
      <3>3. CASE old.sid # e.sid
        BY <3>1, <3>3 DEF Waiting
      <3> QED  BY <3>2, <3>3
    <2> QED  BY <2>2 DEF Written
  <1> QED  BY <1>2, <1>3

\* ... and so does the last step of a failed payment.
LEMMA PastDueWrites ==
    ASSUME TypeOK, HandlersKind, NEW h \in handlers, WritePastDue(h), h.ev \in queue
    PROVE  Written(h.ev)
  <1> PICK e : e = h.ev
    OBVIOUS
  <1>1. e.type = "payment_failed"
    BY DEF WritePastDue, HandlersKind
  <1>2. ASSUME NEW kind \in Kinds, NEW row \in subs'
        PROVE  IF e \in Waiting(kind, row.sid) THEN Keeps(kind, row) = Tells(kind, e)
               ELSE \E old \in subs : old.sid = row.sid /\ Keeps(kind, row) = Keeps(kind, old)
    <2>1. PICK old \in subs : row = IF old.sid = e.sid THEN [old EXCEPT !.status = "past_due"] ELSE old
      BY DEF WritePastDue, UpdateSub
    <2>2. CASE old.sid = e.sid
      <3>1. old \in SubRow
        BY DEF TypeOK
      <3>2. /\ row.sid = old.sid /\ row.status = "past_due" /\ row.period = old.period
            /\ row.cancelAtPeriodEnd = old.cancelAtPeriodEnd
        BY <2>1, <2>2, <3>1 DEF SubRow
      <3>3. CASE kind = "status"
        BY <1>1, <2>2, <3>2, <3>3 DEF Keeps, Tells, Waiting, Writers
      <3>4. CASE kind = "terms"
        BY <1>1, <2>2, <3>2, <3>4 DEF Keeps, Waiting, Writers
      <3> QED  BY <3>3, <3>4 DEF Kinds
    <2>3. CASE old.sid # e.sid
      BY <2>1, <2>3 DEF Waiting
    <2> QED  BY <2>2, <2>3
  <1> QED  BY <1>2 DEF Written

\* A webhook that answers in one step has written what its event says.
LEMMA WebhookWrites ==
    ASSUME TypeOK, CreatedOnce, NEW e \in queue, Webhook(e), queue' = queue \ {e}
    PROVE  Written(e)
  <1>0. \A row \in subs : row \in SubRow
    BY DEF TypeOK
  <1>1. CASE OnSubscriptionCreated(e)
    <2>1. PICK u \in Users : subs' = subs \cup {BuildSEntity(u, e)}
      BY <1>1 DEF OnSubscriptionCreated, InsertSub
    <2>2. PICK new : new = BuildSEntity(u, e)
      OBVIOUS
    <2>3. /\ new.sid = e.sid /\ new.status = e.status /\ new.period = e.period
          /\ new.cancelAtPeriodEnd = e.cancelAtEnd
      BY <2>2 DEF BuildSEntity
    <2>4. e.type = "created" /\ \A row \in subs : row.sid # e.sid
      BY <1>1 DEF OnSubscriptionCreated, CreatedOnce, HasRow
    <2>5. ASSUME NEW kind \in Kinds
          PROVE  Keeps(kind, new) = Tells(kind, e) /\ e \in Waiting(kind, e.sid)
      BY <2>3, <2>4 DEF Keeps, Tells, Waiting, Writers, Kinds
    <2>6. ASSUME NEW kind \in Kinds, NEW row \in subs
          PROVE  e \notin Waiting(kind, row.sid)
      BY <2>4 DEF Waiting
    <2> QED  BY <2>1, <2>2, <2>3, <2>5, <2>6 DEF Written
  <1>2. CASE OnSubscriptionUpdated(e) \/ OnSubscriptionDeleted(e)
    BY <1>2, UpdateWrites DEF OnSubscriptionUpdated, OnSubscriptionDeleted
  <1>4. CASE OnTrialWillEnd(e)
    <2>1. e.type = "trial_will_end" /\ subs' = subs
      BY <1>4 DEF OnTrialWillEnd, dbVars
    <2>2. \A kind \in Kinds : e.type \notin Writers(kind)
      BY <2>1 DEF Kinds, Writers
    <2> QED  BY <2>1, <2>2 DEF Written, Waiting
  <1>5. CASE OnPaymentUnresolved(e)
    <2>1. subs' = subs /\ \A row \in subs : row.sid # e.sid
      BY <1>5 DEF OnPaymentUnresolved, dbVars, HasRow
    <2> QED  BY <2>1 DEF Written, Waiting
  <1>6. CASE OnPayment(e)
    BY <1>6 DEF OnPayment, eventVars
  <1> QED  BY <1>1, <1>2, <1>4, <1>5, <1>6 DEF Webhook

\* So has a handler of several steps when it answers.
LEMMA HandlerWrites ==
    ASSUME TypeOK, HandlersKind, NEW h \in handlers, HandlerStep(h), h.ev \in queue, queue' = queue \ {h.ev}
    PROVE  Written(h.ev)
  <1> PICK e : e = h.ev
    OBVIOUS
  <1>1. CASE PaymentPastDue(h)
    BY <1>1, PastDueWrites DEF PaymentPastDue
  <1>2. CASE PaymentInvoice(h) \/ PaymentInvalidate(h) \/ PaymentRedeem(h)
    <2>1. subs' = subs
      BY <1>2 DEF PaymentInvoice, PaymentInvalidate, PaymentRedeem, dbVars
    <2>2. e.type = "payment_succeeded"
      BY <1>2 DEF PaymentInvoice, PaymentRedeem, HandlersKind, eventVars, PaymentInvalidate
    <2>3. \A kind \in Kinds : e.type \notin Writers(kind)
      BY <2>2 DEF Kinds, Writers
    <2> QED  BY <2>1, <2>3 DEF Written, Waiting
  <1> QED  BY <1>1, <1>2 DEF HandlerStep

\* A toggle writes to the row what Stripe holds by then.
LEMMA ToggleWrites ==
    ASSUME TypeOK, TogglesAgree, NEW r \in Requests, ToggleWrite(r), NEW kind \in Kinds, NEW sid \in SubIds,
           \A row \in subs : row.sid = sid => Keeps(kind, row) = Holds(kind, stripeSubs[sid])
    PROVE  \A row \in subs' : row.sid = sid => Keeps(kind, row) = Holds(kind, stripeSubs[sid])
  <1> SUFFICES ASSUME NEW row \in subs', row.sid = sid
               PROVE  Keeps(kind, row) = Holds(kind, stripeSubs[sid])
    OBVIOUS
  <1>1. PICK old \in subs :
          row = IF old.sid = req[r].sid
                THEN [old EXCEPT !.autoRenew = req[r].autoRenew,
                                 !.cancelAtPeriodEnd = ~req[r].autoRenew]
                ELSE old
    BY DEF ToggleWrite
  <1>2. CASE old.sid # req[r].sid
    BY <1>1, <1>2
  <1>3. CASE old.sid = req[r].sid
    <2>1. old \in SubRow
      BY DEF TypeOK
    <2>2. /\ row.sid = old.sid /\ row.status = old.status /\ row.period = old.period
          /\ row.cancelAtPeriodEnd = ~req[r].autoRenew
      BY <1>1, <1>3, <2>1 DEF SubRow
    <2>3. row.cancelAtPeriodEnd = stripeSubs[sid].cancelAtEnd
      BY <1>3, <2>2 DEF TogglesAgree, ToggleWrite
    <2>4. Keeps(kind, old) = Holds(kind, stripeSubs[sid])
      BY <2>2
    <2>5. CASE kind = "status"
      BY <2>2, <2>4, <2>5 DEF Keeps, Holds
    <2>6. CASE kind = "terms"
      <3>1. old.period = stripeSubs[sid].period
        BY <2>4, <2>6 DEF Keeps, Holds
      <3> QED  BY <2>2, <2>3, <2>6, <3>1 DEF Keeps, Holds
    <2> QED  BY <2>5, <2>6 DEF Kinds
  <1> QED  BY <1>2, <1>3

\* Every step keeps the rows behind the last event.
LEMMA FollowStep ==
    ASSUME SyncInv, InOrder, ~Redeliver, [Next]_vars
    PROVE  RowsFollow'
  <1>0. /\ TypeOK /\ HandlersKnown /\ OneHandler /\ Numbered /\ HandlersFirst /\ HandlersKind
        /\ CreatedOnce /\ TogglesAgree
    BY DEF SyncInv, OwnerInv
  <1> SUFFICES ASSUME NEW kind \in Kinds, NEW sid \in SubIds
               PROVE  Follows(kind, sid)'
    BY DEF RowsFollow, Kinds
  <1>1. Follows(kind, sid)
    BY DEF SyncInv, RowsFollow
  <1>2. ASSUME NEW x \in SubIds, NEW s \in StripeSub, Emits(x, s)
        PROVE  Follows(kind, sid)'
    BY <1>0, <1>1, <1>2, TypeStep, EmitFollows
  <1>3. ASSUME UNCHANGED stripeSubs, NEW e \in queue, queue' = queue \ {e},
               \A f \in queue : f.sid = e.sid => e.n <= f.n, Written(e)
        PROVE  Follows(kind, sid)'
    <2>1. \A row \in subs' : row.sid = sid =>
            IF e \in Waiting(kind, sid) THEN Keeps(kind, row) = Tells(kind, e)
            ELSE \E old \in subs : old.sid = sid /\ Keeps(kind, row) = Keeps(kind, old)
      BY <1>3 DEF Written
    <2> QED  BY <1>0, <1>1, <1>3, <2>1, AckFollows
  <1>4. ASSUME UNCHANGED stripeSubs, queue' = queue
        PROVE  Follows(kind, sid)'
    <2>1. Waiting(kind, sid)' = Waiting(kind, sid)
      BY <1>4 DEF Waiting, Writers
    <2>2. Holds(kind, stripeSubs'[sid]) = Holds(kind, stripeSubs[sid])
      BY <1>4
    <2>3. CASE subs' = subs
      BY <1>1, <2>1, <2>2, <2>3, FollowsStay
    <2>4. ASSUME NEW r \in Requests, ToggleWrite(r)
          PROVE  Follows(kind, sid)'
      <3>1. (\A row \in subs : row.sid = sid => Keeps(kind, row) = Holds(kind, stripeSubs[sid]))
              => \A row \in subs' : row.sid = sid => Keeps(kind, row) = Holds(kind, stripeSubs[sid])
        BY <1>0, <2>4, ToggleWrites
      <3> QED  BY <1>1, <2>1, <2>2, <3>1, FollowsStay
    <2>5. ASSUME NEW e \in queue \cup acked, OnSubscriptionCreated(e)
          PROVE  FALSE
      BY <1>4, <2>5 DEF OnSubscriptionCreated, Deliverable, Ack
    \* A row is written and its event waits on: what waits last has not changed.
    <2>7. ASSUME NEW e \in queue, Written(e)
          PROVE  Follows(kind, sid)'
      <3>1. CASE e \in Waiting(kind, sid)
        BY <1>1, <2>1, <2>2, <3>1 DEF Follows, Tells
      <3>2. CASE e \notin Waiting(kind, sid)
        <4>1. \A row \in subs' : row.sid = sid =>
                \E old \in subs : old.sid = sid /\ Keeps(kind, row) = Keeps(kind, old)
          BY <2>7, <3>2 DEF Written
        <4> QED  BY <1>1, <2>1, <2>2, <4>1, FollowsStay
      <3> QED  BY <3>1, <3>2
    <2>6. ASSUME NEW h \in handlers, WritePastDue(h)
          PROVE  Follows(kind, sid)'
      <3>1. h.ev \in queue /\ Written(h.ev)
        BY <1>0, <2>6, PastDueWrites DEF OneHandler
      <3> QED  BY <2>7, <3>1
    <2>8. ASSUME NEW e \in queue \cup acked, WriteUpdated(e) \/ WriteCanceled(e)
          PROVE  Follows(kind, sid)'
      <3>1. e \in queue
        BY <2>8 DEF WriteUpdated, WriteCanceled, Deliverable
      <3> QED  BY <1>0, <2>7, <2>8, <3>1, UpdateWrites
    <2> QED  BY <2>3, <2>4, <2>5, <2>6, <2>8, RowWriters
  <1>5. CASE UNCHANGED <<stripeSubs, clock>> /\ queue' \subseteq queue
    <2>1. CASE queue' = queue
      BY <1>4, <1>5, <2>1
    <2>2. ASSUME NEW e \in queue, queue' = queue \ {e}, Webhook(e),
                 \A f \in queue : f.sid = e.sid => e.n <= f.n
          PROVE  Follows(kind, sid)'
      <3>1. Written(e)
        BY <1>0, <2>2, WebhookWrites
      <3> QED  BY <1>3, <1>5, <2>2, <3>1
    <2>3. ASSUME NEW h \in handlers, HandlerStep(h), NEW e \in queue, h.ev = e, queue' = queue \ {e},
                 \A f \in queue : f.sid = e.sid => e.n <= f.n
          PROVE  Follows(kind, sid)'
      <3>1. Written(e)
        BY <1>0, <2>3, HandlerWrites
      <3> QED  BY <1>3, <1>5, <2>3, <3>1
    <2> QED  BY <1>0, <1>5, <2>1, <2>2, <2>3, AckStep
  <1> QED  BY <1>0, <1>2, <1>5, EmitStep

\* The inductive invariant, one part at a time.
LEMMA SyncStep ==
    ASSUME SyncInv, OneToggle, InOrder, ~Redeliver, [Next]_vars
    PROVE  SyncInv'
  <1>1. /\ TypeOK /\ HandlersKnown /\ EventsReal /\ RowOwner /\ OneHandler /\ Numbered /\ HandlersFirst
        /\ HandlersKind /\ CreatedOnce /\ TogglesAgree
    BY DEF SyncInv, OwnerInv
  <1>2. OwnerInv'
    BY OwnerStep DEF SyncInv
  <1>3. OneHandler' /\ Numbered' /\ HandlersFirst'
    BY <1>1, OneHandlerStep, NumberedStep, FirstStep
  <1>4. HandlersKind' /\ CreatedOnce' /\ TogglesAgree'
    BY <1>1, KindStep, CreatedStep, TogglesStep
  <1>5. RowsFollow'
    BY FollowStep
  <1> QED  BY <1>2, <1>3, <1>4, <1>5 DEF SyncInv

\* InSyncSafe: six kinds of event and the toggle write a row, two of them without looking at what it
\* holds, over handlers that a fault may end and Stripe runs again.  Delivered in order and once, and
\* with one toggle of a subscription at a time, whatever else is in flight they leave the row equal to
\* Stripe's subscription whenever nothing about it is.
THEOREM InSyncSafe ==
    ASSUME InOrder, ~Redeliver
    PROVE  Spec /\ []OneToggle => []InSyncWhenSettled
  <1>1. Init => SyncInv
    <2> SUFFICES ASSUME Init PROVE SyncInv
      OBVIOUS
    <2>1. OwnerInv
      BY OwnerInit
    <2>2. /\ subs = {} /\ queue = {} /\ handlers = {}
          /\ \A r \in Requests : req[r].pc = "idle"
      BY DEF Init, Idle
    <2>3. RowsFollow
      BY <2>2 DEF RowsFollow, Follows, Waiting
    <2> QED
      BY <2>1, <2>2, <2>3
      DEF SyncInv, OneHandler, Numbered, HandlersFirst, HandlersKind, CreatedOnce, TogglesAgree
  <1>2. SyncInv /\ OneToggle /\ [Next]_vars => SyncInv'
    BY SyncStep
  <1>3. SyncInv => InSyncWhenSettled
    <2> SUFFICES ASSUME SyncInv, NEW row \in subs, Settled(row.sid)
                 PROVE  /\ row.status = stripeSubs[row.sid].status
                        /\ row.period = stripeSubs[row.sid].period
                        /\ row.cancelAtPeriodEnd = stripeSubs[row.sid].cancelAtEnd
      BY DEF InSyncWhenSettled
    <2>1. row.sid \in SubIds
      BY DEF SyncInv, OwnerInv, TypeOK, SubRow
    <2>2. \A kind \in Kinds : Waiting(kind, row.sid) = {}
      BY DEF Settled, Waiting
    <2>3. \A kind \in Kinds : Keeps(kind, row) = Holds(kind, stripeSubs[row.sid])
      BY <2>1, <2>2 DEF SyncInv, RowsFollow, Follows
    <2>4. row.status = stripeSubs[row.sid].status
      BY <2>3 DEF Kinds, Keeps, Holds
    <2>5. <<row.period, row.cancelAtPeriodEnd>>
            = <<stripeSubs[row.sid].period, stripeSubs[row.sid].cancelAtEnd>>
      BY <2>3 DEF Kinds, Keeps, Holds
    <2> QED  BY <2>4, <2>5
  <1> QED  BY <1>1, <1>2, <1>3, PTL DEF Spec
=============================================================================
