------------------------------ MODULE Billing ------------------------------
(***************************************************************************)
(* Subscription billing: the API of core/billings, its webhook handlers,   *)
(* the rows they keep (users.stripeCustomerId, subscriptions,              *)
(* subscription_invoices, coupon_redemptions) and, as an external          *)
(* environment, what the code relies on of Stripe.                         *)
(*                                                                         *)
(* A step is what the server does between two awaits that read or write    *)
(* state another request can see.  A webhook that throws answers 500 and   *)
(* leaves its event in the queue: before its first write it has changed    *)
(* nothing and has no action of its own, after it the failures at the end  *)
(* of the actions say what stays.                                          *)
(***************************************************************************)
EXTENDS Naturals, Sequences, FiniteSets

CONSTANTS
    Users,          \* rows of the users table
    Periods,        \* billing periods on offer: monthly, yearly
    Coupons,        \* PRICE_DISCOUNT codes that exist here and at Stripe
    CustomerIds,    \* pool of Stripe customer ids
    SubIds,         \* pool of Stripe subscription ids
    InvoiceIds,     \* pool of Stripe invoice ids
    Requests,       \* API requests that may be in flight at once
    None,           \* SQL NULL, undefined
    InOrder,        \* events of a subscription are delivered in order
    Redeliver,      \* an event that was answered 200 may be delivered again
    MaxEvents,      \* bound: events Stripe emits
    MaxRows,        \* bound: rows of subscription_invoices
    MaxFaults       \* bound: crashes and failed calls

ASSUME BillingAssumption ==
    /\ InOrder \in BOOLEAN
    /\ Redeliver \in BOOLEAN
    /\ MaxEvents \in Nat
    /\ MaxRows \in Nat
    /\ MaxFaults \in Nat
    /\ None \notin Users \cup Periods \cup Coupons \cup CustomerIds \cup SubIds \cup InvoiceIds

VARIABLES
    customerOf,     \* users.stripeCustomerId
    subs,           \* table subscriptions
    invoices,       \* table subscription_invoices, in insertion order
    redemptions,    \* table coupon_redemptions
    req,            \* API requests in flight
    handlers,       \* webhook calls between two of their writes
    torn,           \* history: payment events whose handler broke off after its INSERT
    faults,         \* crashes and failures so far
    stripeCustomers,\* Stripe: the user in a customer's metadata
    stripeSubs,     \* Stripe: subscriptions
    stripeInvoices, \* Stripe: invoices
    sessions,       \* Stripe: checkout sessions not yet completed
    queue,          \* events not yet answered 200
    acked,          \* events answered 200
    clock           \* number of events emitted

dbVars == <<customerOf, subs, invoices, redemptions>>
serverVars == <<req, handlers, torn>>
stripeVars == <<stripeCustomers, stripeSubs, stripeInvoices, sessions>>
eventVars == <<queue, acked, clock>>
vars == <<dbVars, serverVars, faults, stripeVars, eventVars>>

-----------------------------------------------------------------------------
(* Domains.  incomplete, incomplete_expired and paused are left out: a      *)
(* subscription made by a checkout session starts trialing or active, and   *)
(* no code in core/billings sets the other three.                           *)

Status == {"trialing", "active", "past_due", "unpaid", "canceled"}

SubRow == [user : Users, sid : SubIds, status : Status, period : Periods,
           autoRenew : BOOLEAN, cancelAtPeriodEnd : BOOLEAN]

InvoiceRow == [inv : InvoiceIds, sid : SubIds, status : {"PAID", "OPEN"},
               coupon : Coupons \cup {None}]

RedemptionRow == [user : Users, coupon : Coupons]

NoSub == [customer |-> None, status |-> "none", period |-> None,
          cancelAtEnd |-> FALSE, coupon |-> None]

StripeSub == [customer : CustomerIds, status : Status, period : Periods,
              cancelAtEnd : BOOLEAN, coupon : Coupons \cup {None}]

NoInvoice == [sid |-> None, paid |-> FALSE, coupon |-> None]

StripeInvoice == [sid : SubIds, paid : BOOLEAN, coupon : Coupons \cup {None}]

\* An event carries a snapshot of its subscription when it was emitted.
SubEvent == [n : Nat, type : {"created", "updated", "deleted", "trial_will_end"},
             sid : SubIds, status : Status, period : Periods, cancelAtEnd : BOOLEAN,
             inv : {None}, coupon : {None}]

PaymentEvent == [n : Nat, type : {"payment_succeeded", "payment_failed"},
                 sid : SubIds, status : Status, period : Periods, cancelAtEnd : BOOLEAN,
                 inv : InvoiceIds, coupon : Coupons \cup {None}]

Handler == [ev : PaymentEvent, pc : {"invoice", "cache", "redeem", "pastDue"}]

Idle == [pc |-> "idle", user |-> None, customer |-> None, period |-> None,
         coupon |-> None, trial |-> FALSE, sid |-> None, autoRenew |-> FALSE]

\* A checkout has its customer from getOrCreateStripeCustomer on.
CheckoutRequest ==
    [pc : {"discounts", "customer"}, user : Users, customer : CustomerIds \cup {None},
     period : Periods, coupon : Coupons \cup {None}, trial : BOOLEAN,
     sid : {None}, autoRenew : {FALSE}]
    \cup
    [pc : {"saveCustomer", "session"}, user : Users, customer : CustomerIds,
     period : Periods, coupon : Coupons \cup {None}, trial : BOOLEAN,
     sid : {None}, autoRenew : {FALSE}]

ToggleRequest ==
    [pc : {"toggleStripe", "toggleWrite"}, user : Users, customer : {None},
     period : {None}, coupon : {None}, trial : {FALSE},
     sid : SubIds, autoRenew : BOOLEAN]

Session == [req : Requests, customer : CustomerIds, period : Periods,
            coupon : Coupons \cup {None}, trial : BOOLEAN]

Init ==
    /\ customerOf = [u \in Users |-> None]
    /\ subs = {}
    /\ invoices = <<>>
    /\ redemptions = {}
    /\ req = [r \in Requests |-> Idle]
    /\ handlers = {}
    /\ torn = {}
    /\ faults = 0
    /\ stripeCustomers = [c \in CustomerIds |-> None]
    /\ stripeSubs = [s \in SubIds |-> NoSub]
    /\ stripeInvoices = [i \in InvoiceIds |-> NoInvoice]
    /\ sessions = {}
    /\ queue = {}
    /\ acked = {}
    /\ clock = 0

-----------------------------------------------------------------------------
(* Stripe, as the code uses it.                                            *)

\* The event of kind type that carries a snapshot of subscription sid.
EventOf(n, type, sid, s, inv, coupon) ==
    [n |-> n, type |-> type, sid |-> sid, status |-> s.status, period |-> s.period,
     cancelAtEnd |-> s.cancelAtEnd, inv |-> inv, coupon |-> coupon]

\* Subscription sid becomes s and Stripe emits one event about it.
Emit(type, sid, s) ==
    /\ clock + 1 <= MaxEvents
    /\ stripeSubs' = [stripeSubs EXCEPT ![sid] = s]
    /\ queue' = queue \cup {EventOf(clock + 1, type, sid, s, None, None)}
    /\ clock' = clock + 1
    /\ UNCHANGED acked

\* Subscription sid becomes s, its invoice inv becomes i, and Stripe emits an
\* event about the subscription and one about the invoice, in the order given.
EmitBoth(subType, invType, sid, s, inv, i, subFirst) ==
    /\ clock + 2 <= MaxEvents
    /\ stripeSubs' = [stripeSubs EXCEPT ![sid] = s]
    /\ stripeInvoices' = [stripeInvoices EXCEPT ![inv] = i]
    /\ queue' = queue \cup
         {EventOf(clock + (IF subFirst THEN 1 ELSE 2), subType, sid, s, None, None),
          EventOf(clock + (IF subFirst THEN 2 ELSE 1), invType, sid, s, inv, i.coupon)}
    /\ clock' = clock + 2
    /\ UNCHANGED acked

Live(sid) == stripeSubs[sid].status \in {"trialing", "active", "past_due", "unpaid"}

\* The user pays on the hosted page: a subscription and its first invoice.
StripeCompletesCheckout(k, sid, inv) ==
    /\ k \in sessions
    /\ stripeSubs[sid] = NoSub
    /\ stripeInvoices[inv] = NoInvoice
    /\ sessions' = sessions \ {k}
    /\ EmitBoth("created", "payment_succeeded", sid,
                [customer |-> k.customer, status |-> IF k.trial THEN "trialing" ELSE "active",
                 period |-> k.period, cancelAtEnd |-> FALSE, coupon |-> k.coupon],
                inv, [sid |-> sid, paid |-> TRUE, coupon |-> k.coupon], TRUE)
    /\ UNCHANGED <<dbVars, serverVars, faults, stripeCustomers>>

\* A renewal invoice is paid.  The coupon, of duration "once", is used up.
StripeRenews(sid, inv) ==
    /\ stripeSubs[sid].status \in {"trialing", "active"}
    /\ ~stripeSubs[sid].cancelAtEnd
    /\ stripeInvoices[inv] = NoInvoice
    /\ EmitBoth("updated", "payment_succeeded", sid,
                [stripeSubs[sid] EXCEPT !.status = "active"],
                inv, [sid |-> sid, paid |-> TRUE, coupon |-> None], TRUE)
    /\ UNCHANGED <<dbVars, serverVars, faults, stripeCustomers, sessions>>

\* A renewal invoice cannot be collected.
StripeFailsToCollect(sid, inv) ==
    /\ stripeSubs[sid].status \in {"trialing", "active"}
    /\ ~stripeSubs[sid].cancelAtEnd
    /\ stripeInvoices[inv] = NoInvoice
    /\ EmitBoth("updated", "payment_failed", sid,
                [stripeSubs[sid] EXCEPT !.status = "past_due"],
                inv, [sid |-> sid, paid |-> FALSE, coupon |-> None], FALSE)
    /\ UNCHANGED <<dbVars, serverVars, faults, stripeCustomers, sessions>>

\* Dunning succeeds: the open invoice is paid after all.
StripeCollectsLate(sid, inv) ==
    /\ stripeSubs[sid].status \in {"past_due", "unpaid"}
    /\ stripeInvoices[inv].sid = sid
    /\ ~stripeInvoices[inv].paid
    /\ EmitBoth("updated", "payment_succeeded", sid,
                [stripeSubs[sid] EXCEPT !.status = "active"],
                inv, [stripeInvoices[inv] EXCEPT !.paid = TRUE], TRUE)
    /\ UNCHANGED <<dbVars, serverVars, faults, stripeCustomers, sessions>>

\* Dunning ends: the subscription is marked unpaid.
StripeMarksUnpaid(sid) ==
    /\ stripeSubs[sid].status = "past_due"
    /\ Emit("updated", sid, [stripeSubs[sid] EXCEPT !.status = "unpaid"])
    /\ UNCHANGED <<dbVars, serverVars, faults, stripeCustomers, stripeInvoices, sessions>>

\* The period ends with cancel_at_period_end set, or dunning gives up.
StripeEnds(sid) ==
    /\ Live(sid)
    /\ stripeSubs[sid].cancelAtEnd \/ stripeSubs[sid].status \in {"past_due", "unpaid"}
    /\ Emit("deleted", sid, [stripeSubs[sid] EXCEPT !.status = "canceled"])
    /\ UNCHANGED <<dbVars, serverVars, faults, stripeCustomers, stripeInvoices, sessions>>

StripeWarnsTrial(sid) ==
    /\ stripeSubs[sid].status = "trialing"
    /\ Emit("trial_will_end", sid, stripeSubs[sid])
    /\ UNCHANGED <<dbVars, serverVars, faults, stripeCustomers, stripeInvoices, sessions>>

-----------------------------------------------------------------------------
(* The API.  r is the request, u the user in its token.                    *)

Respond(r) == req' = [req EXCEPT ![r] = Idle]

\* What blocks a new checkout.
ActiveStatus == {"active", "trialing", "past_due"}

\* createCheckout reads the user and the subscription row, and refuses a user
\* whose row is active.
CheckoutStart(r, u, p, c) ==
    /\ req[r].pc = "idle"
    /\ \A row \in subs : row.user = u => row.status \notin ActiveStatus
    /\ req' = [req EXCEPT ![r] =
         [pc |-> "discounts", user |-> u, customer |-> customerOf[u], period |-> p,
          coupon |-> c, trial |-> FALSE, sid |-> None, autoRenew |-> FALSE]]
    /\ UNCHANGED <<dbVars, handlers, torn, faults, stripeVars, eventVars>>

\* No invoice row is reached through the user's subscription row.
IsFirstSubscription(u) ==
    \A i \in DOMAIN invoices : \A row \in subs :
        invoices[i].sid = row.sid => row.user # u

\* resolveDiscounts: first-time users get the free trial; a coupon the user
\* has redeemed is refused and ends the request.
CheckoutDiscounts(r) ==
    /\ req[r].pc = "discounts"
    /\ IF req[r].coupon # None /\ [user |-> req[r].user, coupon |-> req[r].coupon] \in redemptions
       THEN Respond(r)
       ELSE req' = [req EXCEPT ![r].pc = "customer",
                               ![r].trial = IsFirstSubscription(req[r].user)]
    /\ UNCHANGED <<dbVars, handlers, torn, faults, stripeVars, eventVars>>

\* getOrCreateStripeCustomer: the customer id read with the user is used if
\* there was one; otherwise Stripe is asked for a new customer ...
CheckoutCustomer(r) ==
    /\ req[r].pc = "customer"
    /\ IF req[r].customer # None
       THEN /\ req' = [req EXCEPT ![r].pc = "session"]
            /\ UNCHANGED stripeCustomers
       ELSE \E c \in CustomerIds :
              /\ stripeCustomers[c] = None
              /\ stripeCustomers' = [stripeCustomers EXCEPT ![c] = req[r].user]
              /\ req' = [req EXCEPT ![r].pc = "saveCustomer", ![r].customer = c]
    /\ UNCHANGED <<dbVars, handlers, torn, faults, stripeSubs, stripeInvoices, sessions, eventVars>>

\* ... and its id saved in the user's row, whatever the row holds by now.
CheckoutSaveCustomer(r) ==
    /\ req[r].pc = "saveCustomer"
    /\ customerOf' = [customerOf EXCEPT ![req[r].user] = req[r].customer]
    /\ req' = [req EXCEPT ![r].pc = "session"]
    /\ UNCHANGED <<subs, invoices, redemptions, handlers, torn, faults, stripeVars, eventVars>>

\* createStripeSession, and the answer with its url.
CheckoutSession(r) ==
    /\ req[r].pc = "session"
    /\ sessions' = sessions \cup
         {[req |-> r, customer |-> req[r].customer, period |-> req[r].period,
           coupon |-> req[r].coupon, trial |-> req[r].trial]}
    /\ Respond(r)
    /\ UNCHANGED <<dbVars, handlers, torn, faults, stripeCustomers, stripeSubs, stripeInvoices, eventVars>>

\* cancelNow: the row names the subscription, Stripe ends it, the row waits for
\* the webhook.  Stripe refuses a subscription that has ended.
CancelNow(u) ==
    \E row \in subs :
        /\ row.user = u
        /\ Live(row.sid)
        /\ Emit("deleted", row.sid, [stripeSubs[row.sid] EXCEPT !.status = "canceled"])
        /\ UNCHANGED <<dbVars, serverVars, faults, stripeCustomers, stripeInvoices, sessions>>

\* changePeriod: refused on the period of the row; the row waits for the webhook.
ChangePeriod(u, p) ==
    \E row \in subs :
        /\ row.user = u
        /\ row.period # p
        /\ Live(row.sid)
        /\ Emit("updated", row.sid, [stripeSubs[row.sid] EXCEPT !.period = p])
        /\ UNCHANGED <<dbVars, serverVars, faults, stripeCustomers, stripeInvoices, sessions>>

\* toggleAutoRenew reads the row and negates what it read ...
ToggleRead(r, u) ==
    /\ req[r].pc = "idle"
    /\ \E row \in subs :
         /\ row.user = u
         /\ req' = [req EXCEPT ![r] =
              [pc |-> "toggleStripe", user |-> u, customer |-> None, period |-> None,
               coupon |-> None, trial |-> FALSE, sid |-> row.sid,
               autoRenew |-> ~row.autoRenew]]
    /\ UNCHANGED <<dbVars, handlers, torn, faults, stripeVars, eventVars>>

\* ... tells Stripe, which emits an event if that changes the subscription and
\* refuses one that has ended ...
ToggleStripe(r) ==
    /\ req[r].pc = "toggleStripe"
    /\ LET sid == req[r].sid
           s == [stripeSubs[sid] EXCEPT !.cancelAtEnd = ~req[r].autoRenew]
       IN  \/ /\ Live(sid)
              /\ s # stripeSubs[sid]
              /\ Emit("updated", sid, s)
              /\ req' = [req EXCEPT ![r].pc = "toggleWrite"]
           \/ /\ Live(sid)
              /\ s = stripeSubs[sid]
              /\ req' = [req EXCEPT ![r].pc = "toggleWrite"]
              /\ UNCHANGED <<stripeSubs, eventVars>>
           \/ /\ ~Live(sid)
              /\ Respond(r)
              /\ UNCHANGED <<stripeSubs, eventVars>>
    /\ UNCHANGED <<dbVars, handlers, torn, faults, stripeCustomers, stripeInvoices, sessions>>

\* ... and writes both flags to the row it read, by the row's id.
ToggleWrite(r) ==
    /\ req[r].pc = "toggleWrite"
    /\ subs' = {IF row.sid = req[r].sid
                THEN [row EXCEPT !.autoRenew = req[r].autoRenew,
                                 !.cancelAtPeriodEnd = ~req[r].autoRenew]
                ELSE row : row \in subs}
    /\ Respond(r)
    /\ UNCHANGED <<customerOf, invoices, redemptions, handlers, torn, faults, stripeVars, eventVars>>

-----------------------------------------------------------------------------
(* The webhook.                                                            *)

\* Stripe may deliver e now: it is not being handled and, if events arrive in
\* order, no older event of its subscription waits.
Deliverable(e) ==
    /\ e \in queue \/ (Redeliver /\ e \in acked)
    /\ \A h \in handlers : h.ev # e
    /\ InOrder => \A f \in queue : f.sid = e.sid => f.n >= e.n

\* The handler of e returns and the controller answers 200.
Ack(e) ==
    /\ queue' = queue \ {e}
    /\ acked' = acked \cup {e}
    /\ UNCHANGED clock

\* buildSEntity: the row of a subscription.
BuildSEntity(u, e) ==
    [user |-> u, sid |-> e.sid, status |-> e.status, period |-> e.period,
     autoRenew |-> ~e.cancelAtEnd, cancelAtPeriodEnd |-> e.cancelAtEnd]

\* INSERT into subscriptions.  userId is the join column of a one-to-one
\* relation, so the schema gives it a unique constraint.
InsertSub(row) ==
    /\ \A other \in subs : other.user # row.user
    /\ subs' = subs \cup {row}

\* The row of subscription sid, by its id, becomes to[row].
UpdateSub(sid, to) ==
    subs' = {IF row.sid = sid THEN to[row] ELSE row : row \in subs}

HasRow(sid) == \E row \in subs : row.sid = sid

\* Mutant: an undefined criterion, which the ORM ignores, finds any user.
OnSubscriptionCreated_anyUser(e) ==
    /\ e.type = "created"
    /\ Deliverable(e)
    /\ \E u \in Users : InsertSub(BuildSEntity(u, e))
    /\ Ack(e)
    /\ UNCHANGED <<customerOf, invoices, redemptions, serverVars, faults, stripeVars>>

OnSubscriptionCreated(e) ==
    /\ e.type = "created"
    /\ Deliverable(e)
    /\ \E u \in Users :
         /\ customerOf[u] = stripeSubs[e.sid].customer
         /\ InsertSub(BuildSEntity(u, e))
    /\ Ack(e)
    /\ UNCHANGED <<customerOf, invoices, redemptions, serverVars, faults, stripeVars>>

\* Mutant: the update forgets autoRenew.
Updated_oneFlag(row, e) ==
    [row EXCEPT !.status = e.status, !.period = e.period,
                !.cancelAtPeriodEnd = e.cancelAtEnd]

\* Mutant: the update forgets the status.
Updated_noStatus(row, e) ==
    [row EXCEPT !.period = e.period,
                !.autoRenew = ~e.cancelAtEnd, !.cancelAtPeriodEnd = e.cancelAtEnd]

\* The row after the UPDATE of onSubscriptionUpdated.
Updated(row, e) ==
    [row EXCEPT !.status = e.status, !.period = e.period,
                !.autoRenew = ~e.cancelAtEnd, !.cancelAtPeriodEnd = e.cancelAtEnd]

WriteUpdated(e) ==
    /\ e.type = "updated"
    /\ Deliverable(e)
    /\ HasRow(e.sid)
    /\ UpdateSub(e.sid, [row \in subs |-> Updated(row, e)])
    /\ UNCHANGED <<customerOf, invoices, redemptions, serverVars, stripeVars>>

OnSubscriptionUpdated(e) == WriteUpdated(e) /\ Ack(e) /\ UNCHANGED faults

WriteCanceled(e) ==
    /\ e.type = "deleted"
    /\ Deliverable(e)
    /\ HasRow(e.sid)
    /\ UpdateSub(e.sid, [row \in subs |-> [row EXCEPT !.status = "canceled"]])
    /\ UNCHANGED <<customerOf, invoices, redemptions, serverVars, stripeVars>>

\* Mutant: the deletion is only logged, as onTrialWillEnd does.
OnSubscriptionDeleted_logged(e) ==
    /\ e.type = "deleted"
    /\ Deliverable(e)
    /\ HasRow(e.sid)
    /\ Ack(e)
    /\ UNCHANGED <<dbVars, serverVars, faults, stripeVars>>

OnSubscriptionDeleted(e) == WriteCanceled(e) /\ Ack(e) /\ UNCHANGED faults

OnTrialWillEnd(e) ==
    /\ e.type = "trial_will_end"
    /\ Deliverable(e)
    /\ HasRow(e.sid)
    /\ Ack(e)
    /\ UNCHANGED <<dbVars, serverVars, faults, stripeVars>>

\* onPaymentSucceeded and onPaymentFailed begin with resolveSubscription: six
\* reads of the row over fifteen seconds, the first that finds it goes on ...
OnPayment(e) ==
    /\ e.type \in {"payment_succeeded", "payment_failed"}
    /\ Deliverable(e)
    /\ HasRow(e.sid)
    /\ Len(invoices) + Cardinality({h \in handlers : h.pc = "invoice"}) < MaxRows
    /\ handlers' = handlers \cup {[ev |-> e, pc |-> "invoice"]}
    /\ UNCHANGED <<dbVars, req, torn, faults, stripeVars, eventVars>>

\* ... and if none does the handler returns, which answers 200.
OnPaymentUnresolved(e) ==
    /\ e.type \in {"payment_succeeded", "payment_failed"}
    /\ Deliverable(e)
    /\ ~HasRow(e.sid)
    /\ Ack(e)
    /\ UNCHANGED <<dbVars, serverVars, faults, stripeVars>>

\* Mutant: every invoice is recorded as paid.
BuildInvoiceEntity_paid(e) ==
    [inv |-> e.inv, sid |-> e.sid, status |-> "PAID", coupon |-> e.coupon]

\* The row createInvoice inserts for e.
BuildInvoiceEntity(e) ==
    [inv |-> e.inv, sid |-> e.sid,
     status |-> IF e.type = "payment_succeeded" THEN "PAID" ELSE "OPEN",
     coupon |-> IF e.type = "payment_succeeded" THEN e.coupon ELSE None]

\* createInvoice: the INSERT ...
PaymentInvoice(h) ==
    /\ h \in handlers
    /\ h.pc = "invoice"
    /\ invoices' = Append(invoices, BuildInvoiceEntity(h.ev))
    /\ handlers' = (handlers \ {h}) \cup {[h EXCEPT !.pc = "cache"]}
    /\ UNCHANGED <<customerOf, subs, redemptions, req, torn, faults, stripeVars, eventVars>>

\* ... and invalidateInvoiceCache, which is awaited.  A discounted payment goes
\* on to the redemption, a failed one to the status, any other is answered.
PaymentInvalidate(h) ==
    /\ h \in handlers
    /\ h.pc = "cache"
    /\ \/ /\ h.ev.type = "payment_succeeded" /\ h.ev.coupon = None
          /\ handlers' = handlers \ {h}
          /\ Ack(h.ev)
       \/ /\ h.ev.type = "payment_succeeded" /\ h.ev.coupon # None
          /\ handlers' = (handlers \ {h}) \cup {[h EXCEPT !.pc = "redeem"]}
          /\ UNCHANGED eventVars
       \/ /\ h.ev.type = "payment_failed"
          /\ handlers' = (handlers \ {h}) \cup {[h EXCEPT !.pc = "pastDue"]}
          /\ UNCHANGED eventVars
    /\ UNCHANGED <<dbVars, req, torn, faults, stripeVars>>

\* buildCRedemptionEntity calls Object.assign(required, result): it copies the
\* empty entity into its argument and returns it as empty as it was.
BuildCRedemptionEntity(u, c) == [user |-> None, coupon |-> None]

\* createCRedemption: an existing row is returned, otherwise the built entity
\* is inserted.  userId and couponId are NOT NULL, so an INSERT without them
\* throws: 500, and the event stays in the queue.
PaymentRedeem(h) ==
    /\ h \in handlers
    /\ h.pc = "redeem"
    /\ \E row \in subs :
         /\ row.sid = h.ev.sid
         /\ LET link == [user |-> row.user, coupon |-> h.ev.coupon]
                entity == BuildCRedemptionEntity(row.user, h.ev.coupon)
            IN  IF link \in redemptions \/ entity \in RedemptionRow
                THEN /\ redemptions' = IF link \in redemptions THEN redemptions
                                       ELSE redemptions \cup {entity}
                     /\ Ack(h.ev)
                     /\ UNCHANGED torn
                ELSE /\ torn' = torn \cup {h.ev}
                     /\ UNCHANGED <<redemptions, eventVars>>
    /\ handlers' = handlers \ {h}
    /\ UNCHANGED <<customerOf, subs, invoices, req, faults, stripeVars>>

\* Mutant: a failed payment cancels the subscription.
WritePastDue_cancels(h) ==
    /\ h \in handlers
    /\ h.pc = "pastDue"
    /\ UpdateSub(h.ev.sid, [row \in subs |-> [row EXCEPT !.status = "canceled"]])
    /\ handlers' = handlers \ {h}
    /\ UNCHANGED <<customerOf, invoices, redemptions, req, stripeVars>>

\* onPaymentFailed ends by writing PAST_DUE, whatever the status is by then.
WritePastDue(h) ==
    /\ h \in handlers
    /\ h.pc = "pastDue"
    /\ UpdateSub(h.ev.sid, [row \in subs |-> [row EXCEPT !.status = "past_due"]])
    /\ handlers' = handlers \ {h}
    /\ UNCHANGED <<customerOf, invoices, redemptions, req, stripeVars>>

PaymentPastDue(h) == WritePastDue(h) /\ Ack(h.ev) /\ UNCHANGED <<torn, faults>>

-----------------------------------------------------------------------------
(* Failures.                                                               *)

\* A call to Stripe or to the database throws in the middle of a request.
RequestFails(r) ==
    /\ faults < MaxFaults
    /\ req[r].pc # "idle"
    /\ Respond(r)
    /\ faults' = faults + 1
    /\ UNCHANGED <<dbVars, handlers, torn, stripeVars, eventVars>>

\* The events of handlers that end without an answer: once its row is inserted,
\* a handler leaves the row behind.
Tear(ended) == torn' = torn \cup {h.ev : h \in {g \in ended : g.pc # "invoice"}}

\* The same in a webhook handler: 500, the event stays in the queue.
HandlerFails(h) ==
    /\ faults < MaxFaults
    /\ h \in handlers
    /\ handlers' = handlers \ {h}
    /\ Tear({h})
    /\ faults' = faults + 1
    /\ UNCHANGED <<dbVars, req, stripeVars, eventVars>>

\* The repository reads a row again after its UPDATE.  When that throws, the
\* webhook answers 500 with the row written.
UpdateUnread(e) ==
    /\ faults < MaxFaults
    /\ WriteUpdated(e) \/ WriteCanceled(e)
    /\ faults' = faults + 1
    /\ UNCHANGED eventVars

PastDueUnread(h) ==
    /\ faults < MaxFaults
    /\ WritePastDue(h)
    /\ Tear({h})
    /\ faults' = faults + 1
    /\ UNCHANGED eventVars

\* The server restarts: what only it knew is lost.
Crash ==
    /\ faults < MaxFaults
    /\ req' = [r \in Requests |-> Idle]
    /\ handlers' = {}
    /\ Tear(handlers)
    /\ faults' = faults + 1
    /\ UNCHANGED <<dbVars, stripeVars, eventVars>>

-----------------------------------------------------------------------------
Checkout(r) ==
    \/ CheckoutDiscounts(r)
    \/ CheckoutCustomer(r)
    \/ CheckoutSaveCustomer(r)
    \/ CheckoutSession(r)

RequestStep(r) == Checkout(r) \/ ToggleStripe(r) \/ ToggleWrite(r)

ApiCall ==
    \/ \E r \in Requests, u \in Users :
         \/ \E p \in Periods, c \in Coupons \cup {None} : CheckoutStart(r, u, p, c)
         \/ ToggleRead(r, u)
    \/ \E u \in Users : CancelNow(u) \/ \E p \in Periods : ChangePeriod(u, p)
    \/ \E r \in Requests : RequestStep(r)

Webhook(e) ==
    \/ OnSubscriptionCreated(e)
    \/ OnSubscriptionUpdated(e)
    \/ OnSubscriptionDeleted(e)
    \/ OnTrialWillEnd(e)
    \/ OnPayment(e)
    \/ OnPaymentUnresolved(e)

HandlerStep(h) ==
    PaymentInvoice(h) \/ PaymentInvalidate(h) \/ PaymentRedeem(h) \/ PaymentPastDue(h)

Stripe ==
    \/ \E sid \in SubIds :
         \/ StripeMarksUnpaid(sid)
         \/ StripeEnds(sid)
         \/ StripeWarnsTrial(sid)
         \/ \E inv \in InvoiceIds :
              \/ StripeRenews(sid, inv)
              \/ StripeFailsToCollect(sid, inv)
              \/ StripeCollectsLate(sid, inv)
              \/ \E k \in sessions : StripeCompletesCheckout(k, sid, inv)

Fault ==
    \/ \E r \in Requests : RequestFails(r)
    \/ \E h \in handlers : HandlerFails(h) \/ PastDueUnread(h)
    \/ \E e \in queue \cup acked : UpdateUnread(e)
    \/ Crash

Next ==
    \/ ApiCall
    \/ \E e \in queue \cup acked : Webhook(e)
    \/ \E h \in handlers : HandlerStep(h)
    \/ Stripe
    \/ Fault

Spec == Init /\ [][Next]_vars

\* The server runs what it has begun, and Stripe retries an event until it is
\* answered 200.  Users, payments and faults come when they like.
Fairness ==
    /\ \A r \in Requests : WF_vars(RequestStep(r))
    /\ WF_vars(\E h \in handlers : HandlerStep(h))
    /\ WF_vars(\E e \in queue : Webhook(e))

FairSpec == Spec /\ Fairness

-----------------------------------------------------------------------------
(* Properties.                                                             *)

TypeOK ==
    /\ customerOf \in [Users -> CustomerIds \cup {None}]
    /\ subs \subseteq SubRow
    /\ invoices \in Seq(InvoiceRow)
    /\ redemptions \subseteq RedemptionRow
    /\ req \in [Requests -> {Idle} \cup CheckoutRequest \cup ToggleRequest]
    /\ handlers \subseteq Handler
    /\ torn \subseteq PaymentEvent
    /\ faults \in Nat
    /\ stripeCustomers \in [CustomerIds -> Users \cup {None}]
    /\ stripeSubs \in [SubIds -> StripeSub \cup {NoSub}]
    /\ stripeInvoices \in [InvoiceIds -> StripeInvoice \cup {NoInvoice}]
    /\ sessions \subseteq Session
    /\ queue \subseteq SubEvent \cup PaymentEvent
    /\ acked \subseteq SubEvent \cup PaymentEvent
    /\ clock \in Nat

\* A subscription row belongs to the user whose Stripe customer pays for it,
\* however many customers the user's checkouts made and in whatever order
\* they overwrote users.stripeCustomerId (getOrCreateStripeCustomer).
RowOwner ==
    \A row \in subs :
        /\ stripeSubs[row.sid].customer \in CustomerIds
        /\ stripeCustomers[stripeSubs[row.sid].customer] = row.user

\* The two flags of a row never contradict each other, whichever of the
\* webhook and toggleAutoRenew wrote last.
FlagsAgree ==
    \A row \in subs : row.autoRenew = ~row.cancelAtPeriodEnd

\* A row says CANCELED only when Stripe has ended the subscription for good:
\* however events are delayed, repeated or reordered, no reader of the row
\* (createCheckout, SubscriptionGuard) takes a user who still pays for one who
\* left.
CanceledIsFinal ==
    \A row \in subs : row.status = "canceled" => stripeSubs[row.sid].status = "canceled"

\* Income is never invented: a row of subscription_invoices belongs to a known
\* subscription, is an invoice of that subscription, is PAID only if Stripe
\* collected it, and names a coupon only if Stripe applied it.
InvoicesBacked ==
    \A i \in DOMAIN invoices :
        /\ HasRow(invoices[i].sid)
        /\ stripeInvoices[invoices[i].inv].sid = invoices[i].sid
        /\ invoices[i].status = "PAID" => stripeInvoices[invoices[i].inv].paid
        /\ invoices[i].coupon \in {None, stripeInvoices[invoices[i].inv].coupon}

\* A payment is counted once, also when it failed first and was collected
\* later, through retries, restarts and failures of anything else: an invoice
\* has two PAID rows only if the handler of its payment broke off after the
\* INSERT, since no handler looks for the row the retried event inserts again.
PaidOnce ==
    \A i, j \in DOMAIN invoices :
        /\ invoices[i].inv = invoices[j].inv
        /\ invoices[i].status = "PAID" /\ invoices[j].status = "PAID"
        /\ \A e \in torn : e.type = "payment_succeeded" => e.inv # invoices[i].inv
        => i = j

\* No event about the subscription is waiting or being handled, and no toggle
\* is between its call to Stripe and its write.
Settled(sid) ==
    /\ \A e \in queue : e.sid # sid
    /\ \A h \in handlers : h.ev.sid # sid
    /\ \A r \in Requests : req[r].sid # sid

\* Delivered in order, the webhooks keep the row equal to Stripe's
\* subscription: once nothing is in flight, status, period and flags agree.
InSyncWhenSettled ==
    \A row \in subs :
        Settled(row.sid) =>
            /\ row.status = stripeSubs[row.sid].status
            /\ row.period = stripeSubs[row.sid].period
            /\ row.cancelAtPeriodEnd = stripeSubs[row.sid].cancelAtEnd

\* Delivered in order, the end of a subscription with a row reaches the row,
\* whatever fails or restarts on the way.
CancelReachesRow ==
    \A sid \in SubIds :
        (stripeSubs[sid].status = "canceled" /\ HasRow(sid))
            ~> (\E row \in subs : row.sid = sid /\ row.status = "canceled")

-----------------------------------------------------------------------------
(* What a comment of the code says and a run refutes.                      *)

\* onSubscriptionCreated "creates a corresponding subscription record in the
\* database" (s-webhook.service.ts:45): also for a user who comes back after a
\* subscription that was canceled.
ResubscriptionIsRecorded ==
    \A old, sid \in SubIds :
        /\ Live(sid)
        /\ \E row \in subs : row.sid = old /\ row.status = "canceled"
        ~> HasRow(sid)

=============================================================================
