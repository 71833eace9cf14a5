# lastes: formal models

TLA+ modules for the core logic of the lastes back end: a NestJS service (one Node process)
over Postgres (TypeORM), Redis (cache and BullMQ), Stripe, socket.io, a storage driver and a
mailer. Each module models one component of `src/src`; MC modules and `.cfg` files check it
with TLC on small instances; proof modules hold theorems that TLAPS checks for every value of
the constants.

Contents: 1 the system, 2 the plan, 3 conventions, 4 the modules, 5 the runs, 6 the proofs,
7 where the code and its own words differ, 8 what is not modelled.

## 1. The system

Requests reach controllers through guards (`common/guard`): the JWT strategy reads the session
an access token names, the permission guard compares permissions. Services read and write rows
with one query after another. There is **no transaction, no lock and no version column** in the
code below, so that between any two awaits of one request another may run: this is where most of
its hazards come from. Writes are of two kinds, and the models keep them apart: an UPDATE by id
of the columns it is given, and an UPDATE of a whole entity as it was read earlier.

| Component | State | Operations | Meets | Hard |
|---|---|---|---|---|
| Subscription billing (`core/billings`, `libs/stripe`) | `users.stripeCustomerId`, `subscriptions`, `subscription_invoices` | checkout, cancel, change period, toggle auto-renew, six webhook handlers | Stripe (calls and events), coupons, users | events late, repeated, out of order; a check on a row a later webhook creates; failure between the writes of a handler |
| User sessions (`core/user-session`, `common/guard/jwt.strategy.ts`) | `user_session` | log in, refresh, authenticate, revoke one, revoke all | login codes, every request | rows read before and written after other requests; lost answers |
| Login codes (`core/users`, user-code) | `users_code` | log in, resend, verify | mailer, sessions | counting in memory; deletion after comparison; the 24-hour wait |
| Newsletters (`core/newsletters`, `helpers/bull`) | `newsletter`, the BullMQ queue | create, update, delete, callback, job | queue, mailer, sockets, notifications | work left in `setImmediate`; a due job against an update; restarts |
| User accounts (`core/users`) | `users` | register, Google login, profile, status | sessions, codes, billing | check then insert |
| Password reset (`core/users`, reset-password-request) | `reset_password_request` | request, resend, reset | mailer | as login codes, and the count is never reset; the password is set before its link is taken away |
| Support chat (`core/supports`) | `support_conversations`, `support_messages`, `support_users_conversation` | create, send, open, scroll, mark as read, close; callbacks that emit list rows | sockets, notifications | closing against sending; the last message in a second statement; two read cursors; pages cut by a number given before the commit |
| Cache (`helpers/cache`) | Redis pages by key, each with a time to live | read, fill in the background, invalidate | every list | a background fill against an invalidation; pages that expire one by one |
| Coupons (`core/c-codes`) | coupons, redemptions | create, update, delete, redeem | Stripe, billing | two stores that drift apart |
| Sockets (`helpers/socket`) | connected clients and their rooms | connect, join, emit | sessions, chat, notifications | joined before checked; errors swallowed |
| Notifications (`core/notifications`) | notifications, receivers | send, mark read, clear | sockets | ids of one table used in another |
| Files (`core/files`, `libs/storage-driver`) | files, links, stored objects | upload, link, unlink, clean up | all content | links counted, then the file deleted, beside a new link; two clean-ups of one file; a callback that throws ends the process |
| Guides and advertisements (`core/guides`, `core/ads`, `helpers/base-stats`) | `guides`, `ads_entry`, a row of counters each | create, update, change the status, delete; count | files, cache | counters read, then written; the old status read before the write; the clean-up left to a callback |
| Modules (`core/modules`) | modules, pins | pin, unpin, edit | users | check then insert |
| Rental analyses (`core/r-analysis`, `core/a-builder`, `core/analysis`) | a tree of some twelve rows per analysis, usages, the usage count of a module | create, save the builder with its sections, use again, duplicate; answer a page and store what it was asked with; compare; grade | modules, properties | a dozen statements without a transaction; sections side by side in `Promise.all`; clean-up written by hand; the same figures worked out by several calculators |
| Other analyzers (`core/fix-flip`, `core/br-analyzer`, `core/i-strategy`, `core/wholesale`, sections in `core/a-builder`) | per section a row with a total and the costs it was made of | save a builder, section after section | modules, properties | each section orders delete, judge and write in its own way; a save that breaks off; two saves of one builder |
| Settings, calculators (`core/p-settings`, `core/m-calculator`, `core/creative-financing`, `core/r-calculator`, `core/dti-calculator`) | one row per user, none | edit, compute | analyses | arithmetic on floating-point numbers; the same loan worked out by several services |
| Reference data (datasets, groups, permissions, roles, media, categories, codes, plans) | one row each; the active batch of a dataset | create, edit, delete; import | files, cache | little, single-row writes; an import of a dataset switches the active batch in three statements |
| Pipeline and infrastructure | none | guards, interceptors, mail, hashing | all | I/O |

What makes each correct:

- **Billing**: a row belongs to the user who pays; the row follows Stripe; an ended subscription, and no other, is CANCELED; an invoice row names
  a real payment, and a second row names the same one only if the handler of the payment broke off.
- **Sessions**: revoked is for ever; a bounded number of live sessions; each rotation ends the
  tokens before it; the holder of the last tokens is never locked out.
- **Codes and reset links**: one session per code, one password per answered reset; the last code mailed
  works unless a later request broke off before its mail, and a link does for as long as its mail says; the throttle
  holds over every window.
- **Newsletters**: the queue agrees with the table; each version reaches its audience at most
  once, never before its date; a due newsletter does not wait for ever (as long as requests and due jobs
  do not meet and none breaks off).
- **Chat**: only who was let in while a chat was open posts in it, and nothing posted is lost; the
  last message shown is the last; unread counts follow what was marked; scrolling skips nothing; the
  list a viewer keeps by events ends up as the rows are.
- **Cache**: after the invalidation of a change no older page is served; a tranche whose first page is
  there has all of them; the cache answers as the database would.
- **Rental analyses**: no row hangs from one that is gone; an answered save has every section of its
  form; a duplicate equals its original; the usage count does not exceed the usages; a clean-up takes
  nothing away that another save has filled; a comparison repeats the figures of the page it follows; the
  loan is the same in every calculator, the mortgage calculator and creative financing among them; the summary
  and the tabs of the breakdown say the same of the years ahead; a better rent is never a worse grade.
- **Other analyzers**: a total belongs to the costs stored beside it: it is their sum as the code counts them, without
  the insurance of a holding cost, or NaN where the taxes were left out; an answered save has left the costs it was
  sent and the total made of them, whatever the save before it broke off.
- **Files and what shows them**: no clean-up takes a file away from who linked it in time; without a fault a file
  that has lost its last link goes, and, where the writes of a kind do not overlap, so does the link that a row
  showed and shows no more; the counters of a list are the numbers of its rows.

## 2. The plan

The most important behaviour first; all of it is done.

1. `Billing`, `BillingProofs`: money and access, an external party that reorders and repeats.
2. `UserSession`, `UserSessionProofs`: every request passes it.
3. `UserCode`: the other half of a login, and the reset of a password.
4. `Newsletter`: the one component with a queue, a worker and callbacks.
5. `ChatDesk`, `Supports`, `SupportsProofs`: what a support chat promises, and the conversations,
   messages, cursors and callbacks that implement it.
6. `CachePages`, with `DerivedProofs`: tranches, background fill, expiry, invalidation, under every cached list.
7. `RentalAnalysis`, `RentalAnalysisProofs`: the largest write of the service, a tree of rows saved,
   repaired and copied by chains of statements.
8. `DealFigures`, `MortgageFigures`, `Projections`, `RentalReports`, with `DerivedProofs`: what the pages of an
   analysis say, while it is saved and its parameters change.
9. `CostSections`, with `DerivedProofs`: the sections of the other four analyzers that keep a total beside its costs.
10. `Content`, `ContentProofs`: files, the links to them, and the guides and advertisements that show them.
11. `UserCodeProofs`: what the two mails that let a user in promise, for every user and limit.
12. `NewsletterProofs`: queue, table and deliveries, for every newsletter, request and date.

What was weighed and left out, and why, is in section 8. What would come next: a composition of
`UserCode` and `UserSession`, whose `OpenSession` is a login; coupons beside their Stripe copy; the import of a
dataset.

## 3. Conventions

- A **step** is what the server does between two awaits that read or write shared state. A
  handler with one write is one action; one with several has an action for each, and `pc` of its
  record in `req` (or `handlers`, `calls`, `work`) says where it stands. What a request read
  before it waited is kept in that record and used after it, as in the code.
- A **refused** request (a 4xx before any write) changes nothing and has no action. When the
  refusal comes after a first step, the action that reads ends the request.
- **Faults** are actions: a query or a call throws (`RequestFails`, `HandlerFails`), an answer is
  lost (`AnswerLost`), a callback or a job breaks off (`CallFails`, `WorkFails`), the process restarts (`Crash`), a
  delivery fails. `MaxFaults` bounds them.
- **Pools** of ids stand for generated keys, numbers for hashes and tokens, versions for contents.
- A constant named `Max...` that is a *bound* is marked so in the module and exists for TLC only.
  `MaxUserSession` and `MaxCount` are the code's own limits.
- A constant that switches an **assumption on the environment** (`InOrder`, `Redeliver`, `Serial`) is FALSE in the code's full generality; a run that sets it TRUE says what holds under it.
- Definitions named `Name_variant`, marked "Mutant", are plausible bugs in `Name`. No
  specification uses them; they show that each property can fail.
- Where a column cannot tell two properties apart (names, prices, dates of trials, labels) it is
  left out.

## 4. The modules

### Billing

| Code | Model |
|---|---|
| `users.stripeCustomerId` | `customerOf` |
| `subscriptions` (`userId`, its one-to-one join column, is unique; `stripeSubscriptionId` is not) | `subs` |
| `subscription_invoices` | `invoices`, a sequence: nothing prevents equal rows |
| `coupon_redemptions` | `redemptions` |
| `createCheckout` and what it awaits | `CheckoutStart`, `CheckoutDiscounts`, `CheckoutCustomer`, `CheckoutSaveCustomer`, `CheckoutSession` |
| `cancelNow`, `changePeriod` | `CancelNow`, `ChangePeriod`: a read and one call to Stripe; the row waits for the webhook |
| `toggleAutoRenew` | `ToggleRead`, `ToggleStripe`, `ToggleWrite` |
| `onSubscriptionCreated/Updated/Deleted`, `onTrialWillEnd` | one action each; `UpdateUnread` where the repository's read after the UPDATE throws |
| `onPaymentSucceeded/Failed` | `OnPayment` or `OnPaymentUnresolved` (six reads in fifteen seconds), then `PaymentInvoice` (the INSERT), `PaymentInvalidate` (the awaited invalidation of the cache), then the answer, `PaymentRedeem` or `PaymentPastDue` |

Stripe is external, modelled from how the code uses it: customers, subscriptions, invoices,
sessions, and a set of events, each a snapshot with a number. An event stays in `queue` until a
handler answers 200; one answered may come again if `Redeliver`; with `InOrder` the events of one
subscription come in the order they were emitted. A handler that throws answers 500 and its event
stays in the queue. Before its first write it leaves all as it was, and has no action for that; after it
`HandlerFails`, `UpdateUnread`, `PastDueUnread` and `Crash` leave what it wrote. `torn` is history: the payment events
whose handler broke off after its INSERT. The INSERT of a subscription and its 200 are one step: an event repeated after
that would only meet the unique `userId`. Three things are assumed of Stripe. Its API version still sends
`invoice.subscription`, which both payment handlers read. Its checkout starts a subscription
trialing or active, so that three of the eight statuses cannot occur. And its sessions take one payment.
`SubscriptionGuard` is registered for all routes, but it acts only where `RequireSubscription`
is set, which no route does: what a row says is read by `createCheckout`, the guard's rules decide
nothing today.

### UserSession

`sessions` is the table `user_session`, with `hash` the number of the refresh token whose hash the
row holds, and `ver` its `tokenVersion`; `answered` is what clients hold. `generateUserSession` is
`LoginCount`, `LoginOldest`, `LoginRevoke`, `LoginCreate`; `renewAccessToken` is `RefreshRead` and
`RefreshRenew` or `RefreshRevokeInactive`; `JwtStrategy.validate` is `Authenticate` and
`AuthActivity`, after which a handler runs: `revokeSession`, `revokeAllSessions` or another
component's (`HandleOther`). `SetStatus` is a super admin's update of a user. `Serial` excludes two
overlapping logins of one user and two overlapping refreshes of one session, nothing else. A day is
the unit of time; requests end on the day they began.

### UserCode

`codes` is the table `users_code`, which has no unique key. `loginUser` is `Login` then `FindCode`,
`InsertCode` or `AskNewCode`; `resendCode` is `Resend` then `AskNewCode`; `askNewCode`'s UPDATE of
the whole entity is `WriteCode`; `verifyUserCode` is `Verify`, `DeleteCode`, `OpenSession`. `mailed`
records each code sent, which is what users verify with. The mail is a step of its own: an INSERT hands it over at
once (`SendCode`), while after an UPDATE the repository and then `getUserCodeByUserId` read the row again
(`RereadCode`). A request that breaks off in between leaves its code in the row and in `unsent`, which is where
`LastMailedWorks` must look: the code mailed before it is refused. The mailer's own failures are only logged. A unit of
time is the six minutes a code or a link lives.

`resets` is the table `reset_password_request`, without a unique key either; its id is what the link
holds, so a link mailed again is the same link for six minutes more. `createResetPasswordRequest` is
`AskReset`, `FindReset` (refused while the delay lasts), `InsertReset` or `WriteReset`, and `SendLink` or
`RereadLink` in the same way; `registerAdmin` invites a new admin by the same function. `resetPassword` is `ResetPassword`, `SetPassword` and
`DeleteReset`, which takes every row of the user. `links` are the links mailed, `changed` the passwords they
set and whether the request that set one was answered: one that fails between the two writes leaves its link
in use. Unlike a login code's, neither count nor delay of a link is forgotten when the wait is over.

### Newsletter

`rows` is the table, `queue` the BullMQ job with id `newsletter-<id>`, `work` what the processor
does for it, `calls` the callbacks `handlePostSave` leaves. Create is one action (its row is new to
all); update is `UpdateNewsletter`, `UpdateWrite`, `UpdateReread`, `UpdateCancel`; delete is
`DeleteNewLetter`, `DeleteCancel`, `DeleteRow`. A callback sends, adds a job, or does nothing. A job
is found, sent, marked and cleaned up; the cleanup removes the very job that runs, which is locked,
so it always throws and the job ends failed with its newsletter SENT. Nothing handles a rejection in
a callback, so `Restart`: Node ends the process, its supervisor starts it again, BullMQ runs an active
job once more as stalled. A query or queue call may fail wherever one is made: `RequestFails` ends a request
with what it has done (the row written, the old job still there), `CallFails` ends a callback and the
process with it (the row there, its job not), `WorkFails` ends the job (its row still SCHEDULED); a failed
UPDATE to SENT is followed by the one to FAILED, as the `catch` of `sendNewsLetter` does. BullMQ and the process are external, modelled from the options the code
gives (`jobId`, `delay`, `attempts: 1`). `calm` is history: it is true as long as there was one request at
a time, none when a job was due, no query or queue call failed and no restart came from outside (a delivery may
fail); what holds only then says so. The super admin, without whom the processor throws, is taken to exist.

### ChatDesk and Supports

| Code | Model |
|---|---|
| `support_conversations` (owner, status, `lastMessage`, the owner's `lastReadMessage`) | `con` |
| `support_messages`, with `serialId` | `messages`, `serial` |
| `support_users_conversation` (an admin's cursor; no unique key) | `links` |
| `createConversation` | `CreateConversation`, `InsertMessage`, `CommitMessage`, `SetLastMessage`, `Announce` |
| `sendMessageByUser/Admin` | `SendMessage`, `ReadChat`, then as above |
| `markAsReadByUser`, `markAsReadyAdmin` | `MarkAsReadByUser`, `SaveRead`; `MarkAsReadByAdmin`, `UpdateLink` or `FindLink`, `AddLink` |
| `openConMessagesByUser/Admin`, `scrollMessage` | `OpenByUser`, `OpenByAdmin`, `FindLink`, `AddLink`, `OpenPage`; `ScrollBefore`, `ScrollAfter` |
| `closeChat` | `CloseChat`, `SaveClosed` |
| `emitConversationUpdate`, left by `setImmediate` | `jobs`, `TellOwner`, `TellAdmin` |

`ChatDesk` is the abstract specification: a chat opens and closes once, a permit is given while it is
open and used for one post. `Supports` implements it by the mapping of its `Desk` instance: a permit is a
request between the check that the chat is open and the COMMIT of its message. The INSERT takes its
`serialId` before others see the row, so the two are steps of their own. `announced`, `told`, `view`,
`marked` record what clients got; `late`, `beside`, `broken`, `overlapped` are history, for the exceptions
the properties name. Steps that wait for nothing shared are merged: the owner check with the read of the
chat, files and announcement, an owner's event with the read of the links after it, a page with its two
`hasMore` counts. A mark's two parallel reads change nothing between them. `createdAt` is taken to
follow `serialId`.

### CachePages

One cached list. `table` is what its query returns, `cache` the Redis keys by tranche and page, `newer` their
order of expiry: for each key, the pages of its tranche that were SET after it and, as all live equally long,
outlive it. `retrieveGenericPaginated` is `AskList`, `Look` (only page 1 of the
tranche is looked for), then `GetPage` for each page or `Fetch` of the tranche, and `Reply`, which leaves the
fill: `StorePage` once per page. A caller's insert or delete is `Insert` or `Delete`, and the
`deleteKeysByBase` after it `Scan`, `Unlink`, `Swept`. `StoreFails` is a SET whose error is logged,
`SweepFails` an invalidation that throws, `CacheRestart` the end of the process; Redis and the database go on.
The callers are those with an invalidation after a write (users, invoices, notifications, newsletters,
codes, coupons, properties, guides, analyses, advertisements); the model is of the list, not of one caller.
The fields `old` and `torn` of a page say whether its fill crossed a change or an invalidation: the code
does not know, and that is the point of the properties.

### RentalAnalysis

The rows of an analysis form a tree: analyzer, builder, property details and units, acquisition details and
items, repairs and their items, fixed expenses, parameters. `rows[a][p]` is the id a statement finds the
row by and the form last written into it; for units the id counts the batches stored. A request keeps what
it read first (`seen`) and what it read again or made (`own`).

| Code | Model |
|---|---|
| `getOrCreateRAnalyzerBuilder` and its catch | `Save`, `CreateRAnalyzer`, `FindBuilder`, `CreateABuilder`, `CleanUp` |
| property details and units | `DeletePDetailsUnits`, `CreatePDetailsUnits`, `UpdatePDetails`, `CreatePDetails`, `CleanUp` |
| acquisition details and items | `CreateADetails`, `DeleteAdItemized`, `UpdateADetails`, `UpdateAdItemized`, `CreateAdItemized` |
| repairs, their reconciliation and items (`Promise.all`) | `CreateRepairs`, `ReconcileRepairs`, `WriteRepairItem`, `FinishRepairs` |
| fixed expenses, answer | `UpsertFExpenses`, `Answer`, `Finish` |
| summary | `Summary`, `UpsertRParam` |
| create, use, duplicate | `CreateAnalysis`, `InsertAnalysis`, `CreateAUsage`, `UpdateUsageCount`; `SaveUsage`; `DuplicateAnalysis`, `CreateModuleEntity`, `GetExistingBuilder`, `CopyBuilder`, `ClonePart`, `Cloned` |

`Below` is what ON DELETE CASCADE takes along and `Blocked` the foreign key of the units, which has none.
A task that fails in a `Promise.all` sets `failed`; the others go on (`TaskFailed`). `Stumble` is a
statement that fails, `Restart` the end of the process. Only analyses with the rental label are modelled;
derived numbers are left out; reads next to a write are merged with it, the deletes of one reconciliation
and the units of one batch are one step each. `alone` is history: whether another request wrote the same
analysis meanwhile. Duplicating does not raise the usage count and leaves the parameters behind, as in the
code.

### DealFigures, MortgageFigures, Projections and RentalReports

`DealFigures` is the arithmetic: the loan (`computePI` and the three loops that walk it month by month), the
summary, the metrics, and the deal grade with its curves, pillars and caps. `MortgageFigures` is
the mortgage calculator (a breakdown by formulas, and a schedule that walks the loan month by month and sums it
by calendar year) and one column of creative financing. `Projections` is the summary page and the four tabs
of the full breakdown: tax deductions, paydown, appreciation, buy and hold. `RentalReports` is what runs
around them for one analysis.

| Code | Model |
|---|---|
| `upsertRaBuilderSections`, one UPDATE per section | `AskSave`, `SaveProperty`, `SaveAcquisition`, `SaveExpenses` |
| a page: `getAnalysis`, `getRABuilder`, `upsertRParam`, the settings and the calculator | `AskPage`, `ReadBuilder`, `UpsertParams`, `Answer` |
| `resolveSingleComparisonItem` | `AskComparison`, `Compare` |
| `computeSharedMCalculatorCore`, the amortization schedule and its years | `Breakdown`, `ScheduleBreakdown`, `YearlySummary` |
| a column of creative financing | `PurchaseSection`, `RefiSection`, `LoanMetrics`, `FiveYearReduction` |
| `getRentalSummary`, `getTaxDeductionSummary`, `getPaydownSummary`, `getAppreciationSummary`, `getBuyHoldProjections` | `RentalSummary`, `TaxDeductionSummary`, `PaydownSummary`, `AppreciationSummary`, `BuyHoldProjections` |

The code computes in floating-point numbers; the model in integers, rounded down once per operation, fine
enough (1/10000 of a ratio, a cent of a yearly amount) for one deal to be told from another. The
identities it checks are those that hold in both: a sum of twelve months, a rest, the same figure by two
ways; where the ways round differently, within two units a month (`Close`). `Views` are what a page
that looks ahead is asked with besides its form; `Pages` and `Outlooks` bound both as the DTOs do, percentages from 0
to 100. What is left of a loan is never below 0, as `computeLoanBalance` sees to. Left out of the projections: annual returns, which take
roots, other income, reserves, and utilities, which the tabs do not count. A builder is there from the start or never, since `RentalAnalysis` is the model of how it is made.
`shown` and `compared` are history: the page that wrote the parameters last and what it answered, and the
last comparison with the page it followed.

### CostSections

Seven sections of four analyzers keep a total and, in rows of their own, the costs it was made of. Each
handler is a sequence of steps, chosen by whether the section was there when the save read its builder.

| Code | Model |
|---|---|
| `upsert...BuilderSections` of each analyzer | `FFlip`, `BrAnalyzer`, `IStrategy`, `Wholesale`: which sections, in which order |
| `createHCoast`, `handleHCoastUpdate`, and those of `h-duration`, `r-duration` | `HCoastSteps` and its like: clear, check, row, items |
| `createCCoast`, `reconcileCCoastBeforeUpdate`, `updateCCoast` | `CCoastSteps`, `CCoastTotal` |
| `br-refinance`, `refinance`, `sale` | `BrRefiSteps`, `RefiSteps`, `SaleSteps`, with `BrRefiTotal`, `CreateSaleTotal`, `SaleTotal` |
| `HCoastItemizedDto`, `AdItemizedDto` and the columns of their tables | `CostType`, `Taxed`, `Columns`, `Revised` |
| `calculateItemizedHoldingCost`, `calculateItemizedAcquisitionCost` | `Counted`, `ItemSum` |
| the statements | `Check`, `WriteRow`, `DeleteItem`, `InsertItem`, `UpdateItem`, `ReadLabels`, `CreateRefiItems`, `AnswerSave` |

A cost is three numbers, as far as the sums tell its fields apart: `amount` stands for the required fields that are
counted, `insurance` for the one of a holding cost that is stored and not counted, `taxes` for the one that may be
left out: it is then stored as the column's default, 0, or left as it was by an update (`Revised`), while the sum adds
`undefined` and is `NaN`. `TotalIsSum` says that much of a total and no more (`Sums`).

`store` is the row of each section with its costs; `jobs` what a save has read (`seen`, once, at its start), the
costs its statements under way are about (`todo`) and whether one of a `Promise.all` has failed. Ids tell a
row that was deleted and made again from the one a save has seen. `mixed` and `alone` are history: saves
have overlapped and none has run alone to its answer since; no other save ran beside this one. `Stumble` is
a statement that throws, `Restart` the end of the process. One builder is modelled; making it, and the sections it
shares with the rental analyzer, is `RentalAnalysis`. Units of durations are left out, and amounts are
small numbers: a total is told from another sum, not computed with cents.

### Content

| Code | Model |
|---|---|
| `files`, with the object in the storage | `files`: none, object only, stored, gone |
| `file_links` | `links`, by id; a link ends deleted by a clean-up of its own or by the cascade of its file's row |
| `guides`, `ads_entry`; `guides_stats`, `ads_stats` | `rows`, `stats` |
| `createFileFromUpload` | `UploadObject`, `UploadRow` |
| `linkFileToEntity`, of a guide, an ad or a message | `FindFile`, `InsertLink` |
| `createGuide`, `createAds` | `Create`, the link, `Persist`, `ReadCounts`, `WriteCounts` |
| `updateGuide`, `updateAds`, `toggleAds` | `Update`, the link if the body names a file, `Apply`, `Reload`, the counters if the status changed |
| `deleteGuide` | `Delete`, `DeleteRow`, the counters |
| `unlinkAndCleanup`, in a `setImmediate` after the answer | `CleanFind`, `CleanUnlink`, `CleanCount`, `CleanObject`, `CleanRow` |

A foreign key without a rule refuses to delete a link that is shown and to show a link that is gone; the links of a
file cascade with its row. What throws in a callback is caught by nobody: `ProcessEnds`. `swept` and `late`
are history: a file whose links a clean-up counted as none, and a link made after that. `calm` says that so far
no two writes of a kind met and none broke off before its counter; `shown` keeps the links each row has shown. The storage keeps the object of every file
(section 7), so that `CleanObject` changes nothing. Uploads do not count among the requests made.

## 5. The runs

| Run | Question | Instance | States |
|---|---|---|---|
| `billing_reorder` | Which of the row's claims survive events in any order, repeated, and a fault? Does a row keep its owner? | 2 users, customers and subscriptions, 2 invoices, 1 coupon, 1 request; 4 events, 2 rows of invoices, 1 fault | 4,716,517 |
| `billing_in_order` | With events in order and one fault, does the row follow Stripe, is a payment counted once, does an end arrive? | 1 subscription, 2 periods, 2 invoices; 6 events | 1,678,006 |
| `billing_return` | Is the subscription of a user who comes back recorded? It is not. | 2 subscriptions of 1 user; 5 events | violation |
| `sessions` | Does a revoked session stay revoked; do the limit, the access of the last holder and the freshness of a rotation hold where logins and refreshes do not overlap? | 1 user, 3 sessions with limit 2, 2 requests, 3 tokens, 2 days, 1 fault | 2,130,610 |
| `code_serial` | Single use, last code and throttle of codes and of reset links, for one request at a time, with faults | 2 codes asked again or links, delay 2, 5 mails, 4 units of time, 1 fault | 5,008,713 |
| `newsletters` | Under a due job, failures and restarts, while calm: do queue and table agree, is each version sent once and as planned, and does no newsletter wait for ever? | 1 newsletter, 1 request at a time, 2 versions, 3 units of time, 1 fault | 331,798 |
| `support_chat` | Does a chat keep `ChatDesk`'s promise; do last message, unread counts, pages and list events hold up against overlap and failure? | 1 user, 1 admin, 1 chat, 2 requests, 3 messages, pages of 2, 4 requests made, 1 fault | 2,712,536 |
| `cache_pages` | Which page can be stale or missing, does the cache answer as the database, are all pages right at last? | 2 reads of two places, 1 change, 4 rows, tranches of 3, pages of 2, 1 fault | 1,408,278 |
| `rental` | Is an answered save or copy whole, does a saved trunk stay, the count backed, after any overlap and a failure anywhere? | 2 analyses, 2 requests, 2 kinds of repair, 3 forms, 3 requests made, 1 fault | 2,506,131 |
| `reports` | Does a comparison repeat the page before it, do the mortgage calculator, creative financing and the page agree on the loan, do summary and tabs tell one story of the years ahead, does the grade follow the rent, while pages, saves and comparisons overlap? | 2 requests, 3 made, 4 rents, 2 charges, 2 loans, 2 forms, 3 views, 1 fault | 542,146 |
| `cost_sections` | Do itemized totals stay the sums of their items, and does a save alone leave what it was sent, after saves that overlapped or broke off? | each of 4 analyzers, 2 kinds of cost, 6 bodies, 3 saves, 2 at once, 1 fault | 851,744 |
| `content` | Does a clean-up spare every file that was linked in time, does what is shown no more go without a fault, do the counters follow the rows, while writes, links and callbacks overlap and one thing fails? | 2 files, 3 links, a guide and an ad, 2 statuses, 2 requests, 4 made, 1 fault | 4,046,135 |

What each property is *about* stands before its definition.

**Why the bounds are enough.** Every handler holds one row at a time, and every race the code has is
between two requests (or a request and a webhook, a callback, a job) on one row, so two actors and
one or two rows reach each order of their steps. A third session is there because a limit of two must
be exceeded by one; a second invoice because a renewal differs from a first payment; a second period
because the row and Stripe must be able to disagree; four events because created, paid, updated and
deleted is the life of a subscription and each pair can swap; six in order because a renewal then
fits between. Five mails pass the throttle, its delay and the first code after it. Three units of time
put a date in the past, present and future. Three messages are two that swap and one after them, and more than
a page of two holds; four requests are two that write, one that reads and one that closes. A tranche of
three in pages of two has a full and a partial page, and a fourth row is a second tranche; one change with
its invalidation meets a fill at every step. One of the two analyses exists and the other is made or
copied; three requests are a save, another over it and a copy; the bound on ids is never reached. Of the loans, one carries interest and outlives four years, the other
has none and ends after two; rents lie apart and close together, so that a step of one stays within a
segment of a curve and a step of another leaves it; of the two forms, one gives the mortgage insurance and
equal fees, the other neither; of the views, one lets only the value rise, one only the rent, one everything. Two overlapping saves of one analyzer and one alone
after them (or one that fails, and two that repair) reach every state a section can be left in; the bodies
are all costs with taxes and insurance, a plain total, one cost of two without taxes, and one that only the sale
accepts, so that the first section may pass and the second fail, and the other way round. One newsletter request at a time is enough, since its claims are made while
calm; callbacks, the due job, failures and restarts overlap it. Three links are the one a clean-up
deletes, one that shows the same file beside it and one made after its count; two files are the old and the new
picture of an update. One fault at every place shows what one failure breaks; the
code does not remember failures, so a second adds nothing but length. Symmetry permutes pools of ids,
requests and users in runs that check no liveness.

**Deadlock.** A run that says `CHECK_DEADLOCK FALSE` may stop: its bounds on events, codes or versions
are spent and, with every request answered, there is nothing left to do (a cache may also be empty and
unasked). The session run needs no
such exemption, since a super admin may always change a status.

**Fairness.** `Billing`: a request that has begun, a handler that has begun, and some waiting event are
served (weak fairness): Node's event loop runs what is ready, and Stripe retries until it gets a 2xx.
Fairness is on *some* event, not on each: an event whose handler always throws is retried, and does not
go away. `Newsletter`: requests, callbacks, BullMQ jobs
and time go on. `CachePages`: a key's time to live passes (weak fairness on `Expire` for each tranche) and
nothing else, so that `TrueAtLast` rests on expiry alone: no read, fill or invalidation has to end. `UserSession`,
`UserCode`, `Content`, `Supports`, `RentalAnalysis`, `RentalReports` and `CostSections` promise nothing in time. No fairness is assumed of users, payments, administrators or faults.

**Violation.** `billing_return` checks the code's own words, quoted in the finding, and needs no exotic
schedule: subscribe, cancel, subscribe again.

## 6. The proofs

`BillingProofs`, for every set of users, ids, coupons and requests, every bound, and
both values of `InOrder` and `Redeliver`:

- `TypeCorrect`: `Spec => []TypeOK`. `TypeOK` is inductive alone. Each kind of step has a lemma
  (`EmitType`, `EmitBothType`, `UpdateType`, `CheckoutMoves`, `ToggleMoves`); `KnownSub` supplies the one fact types
  do not show, that an event about a live subscription is well typed.
- `CanceledSafe`: `Spec => []CanceledIsFinal`. It is not inductive: nothing in it says what a waiting
  event may carry. `CancelInv` adds `EventsTruthful` (an event, waiting or answered, says that a
  subscription ended only if it has) and `HandlersKnown` (a handler runs on an event that was emitted).
  Stripe never revives an ended subscription (`StripeStep`), so truths stay true; the only writes of
  CANCELED are from such events; and a late `PAST_DUE` or an older snapshot can only take CANCELED away.

- `OwnerSafe`: `Spec => []RowOwner`. A row is made by an event that names a customer, and its user is looked up by
  that customer, so the owner depends on what `users.stripeCustomerId` said while two checkouts of one user
  may overwrite it. `OwnerInv` adds `CustomersKept` (a customer of Stripe is saved at no other user than
  the one it was made for), `RequestsOwn` (a checkout in flight holds a customer of its own user) and
  `EventsReal` (an event is about a subscription that was made); with `HandlersKnown` they carry
  the owner through a handler that reads, waits and writes. The tables, the requests and the rows have a
  lemma each (`OwnersStep`, `CustomerStep`, `RealStep`, `RowsKeep`).
- `FlagsSafe`: `Spec => []FlagsAgree`. It is inductive with the types; `RowWriters` names the five steps that
  write the table, two of them negations of what was read.
- `InvoicesSafe`: `Spec => []InvoicesBacked`. A row is written from an event, maybe an old one, so `InvoiceInv` adds
  `EventsBacked` (a payment event tells of an invoice as Stripe has it, and of a paid one if it says so) and
  `HandlersResolved` (a handler runs for a subscription that has a row). `BillStep` shows that a step bills one
  invoice or none; `InvoicesStay` that what an invoice is stays true; `RowsStay` that no row goes.
- `PaidSafe`: `Spec => []PaidOnce` when no event comes twice, with and without coupons, in any order and with any
  number of faults. The row of a payment is stored before its event is answered, and between the two the handler may
  break off at the invalidation of the cache or at the redemption; the event then comes again and no handler looks for
  the row (section 7). `PaidOnce` says that nothing else makes a second PAID row. `PaidInv` says where a payment's one event
  is: `OneSuccess` (an invoice is told paid once), `AckedOnce` (its event does not wait when it was answered),
  `OneHandler` (one call at a time handles an event that waits) and `RowsFollowed` (the event of a PAID row was answered, or
  its handler runs on behind the INSERT, or it broke off there). `TornStays` and `HandlerEnders` carry the last of these
  through every step that ends a handler.
- `InSyncSafe`: `InOrder`, `~Redeliver` and `Spec /\ []OneToggle` imply `[]InSyncWhenSettled`. A row may be far behind
  Stripe while events wait, so what holds at every step is `Follows`, once for the status and once for the terms
  (period and renewal): the last event that waits to write the row says what Stripe holds, and if none waits the row
  does. Stripe's steps put such an event last (`EmitStep`); an acknowledged event was the oldest of its subscription
  (`AckStep`, from `HandlersFirst`: nothing is delivered past an event whose handler runs), so either a later one waits
  or it was the last (`AckFollows`). `CreatedOnce` keeps a second row of the subscription out, `TogglesAgree` says that
  a toggle writes what Stripe holds by then. That needs `OneToggle`, no two toggles of one subscription in flight: two
  may write in the other order than Stripe applied them (section 7).

`UserSessionProofs`, for every set of users, session ids and requests, and every
limit, lifetime and bound:

- `TypeCorrect`: `Spec => []TypeOK`, from `IndInv`, which adds `Present`: a session that a request names
  is a row. Types alone would let an UPDATE by id meet no row.
- `RevokedSafe`: `Spec => RevokedIsFinal`, with *no* assumption on overlap: each step leaves the table,
  revokes, renews, notes activity or fills an empty place (`TableSteps`), and none of these clears
  `revoked` of a row.
- `HolderKeeps`: `Spec => []HolderKeepsAccess`, again whatever overlaps. It is inductive with `IndInv`: the only
  steps that write a token into a row are those that also answer it (`KeySteps`), unless the answer is lost,
  which is a fault; two refreshes that race leave the row with the tokens of the one that wrote last.
- `RotationFresh`: `Serial` and `Spec` imply `RotationIsFresh`. A refresh writes the version it read plus one, so
  `RotationInv` carries `OneRefresh` (no two refreshes of a session are in flight), `ReadVersion` (what one read is
  still the version of the row) and `TokensBehind` (no token handed out is ahead of its row). Without `Serial`
  the second of two refreshes writes the version of the first.
- `LimitHolds`: `Serial`, a finite set of session ids, and `Spec` imply `[]SessionLimit`. The limit is
  counted by one step and used by a later one, so the invariant carries what the count knew: `OneLogin`
  (no two logins of a user overlap) and `Room` (a login about to insert has room now; one about to revoke
  has room but for the session it found). `Room` survives other requests because only a login adds to
  the live sessions of its user (`LiveShrinks`, `CreateAdds`). Without `Serial`, `OneLogin` fails and
  the limit with it (section 7).

`RentalAnalysisProofs`, for every set of analyses, requests and forms and every bound, whatever overlaps:

- `TypeCorrect`: `Spec => []TypeOK`, which says that no row hangs from one that is gone (proved only, no run
  repeats it); `CountSafe`:
  `Spec => []CountBacked`; `TrunkSafe`: `Spec => SavedStays`. One invariant carries these three, `IInv`:
  `RowsInv` (types, and `Rooted`: every row has its parent), `ReqInv` (each request is well formed, and one
  about to write the count read a count below the usages stored by now) and `CountInv`. `CountBacked` is
  not inductive because a request writes a count it read long ago: what saves it is that usages only grow
  and that the request has stored a usage of its own in between, which is what `RequestOK` carries. Each
  action has a lemma `...Safe`; the ways a step goes on (`OwnSafe`, `SeenTodoSafe`, `InsertGo`, ...) and the
  ways rows change (`PutSafe`, `RewriteSafe`, `RemoveSafe`) are lemmas stated once. `TrunkStays` is
  preserved because a `Remove` is blocked while units are there.
- `WholeAnswers`: `Spec => []AnswerWhole`; `CopiesMatch`: `Spec => []CopyMatches`. Both speak of the end of a chain of
  some ten statements, so `WholeInv` says at each of them what has been stored so far (`Stored`, by the last
  step reached: `PastPd`, `PastAd`, `PastItem`) or cloned (`Copied`). Nobody else may have taken a row away: that is
  `Apart` (no other request writes the analysis of one that is `alone`) and `Keeps` (a step touches no analysis but the
  one it writes, parameters apart). That a row updated by id is there follows from `Knows`: the branch that
  updates has seen an id. `SaveGoes`, `SaveCarries` and `CopyCarries` are a step of a save and of a copy,
  `EarlyCarries` and `DropsCarry` the steps that claim nothing, `TaskFailedCarry` the tasks of a `Promise.all` that go on
  after one failed: `failed` is then remembered, and the request ends without an answer. Each action then has a lemma `...Carry`.

- `SupportsProofs`, for every set of users, admins, chats and requests and every bound. `TypeCorrect` is not
  inductive as it stands: an UPDATE by an admin's request names a link it found before, a callback names a
  chat it read before. `IndInv` adds `Numbered`: the links are finitely many and their cursors existing
  numbers, jobs name chats that are there, stored messages have a number, only admins hold links. It is
  carried as `Store`, the tables, and `Served`, which says of each request in flight what the steps before
  it established (`Sound`); `BeginKeeps`, `GotoServed`, `RespondServed`, `RowWritten`, `LinksWritten` and
  `ToldKeeps` are the lemmas several actions share. `Implements` is the refinement: a permit of `ChatDesk` is
  a request that found the chat open and has not yet committed its message. `CreateConversation` is `Open`,
  `ReadChat` is `Admit`, `CommitMessage` is `Write`, `SaveClosed` is `Close`; a request that fails or a
  restart is a `Lapse` of permits, and every other step a stutter. `NothingLost` follows: no step takes back
  what was posted.
  - `LastCatchesUp` is `Spec => []LastMessageLags`. `LagInv` explains every message newer than the last one: its request
    broke off, or is about to name it (`OnItsWay`), or the last one's request saw it stored beside its own (`SeenBeside`).
  - `NoGapSafe` is `Spec => []NoGap`. A page is what was committed when it was read and messages are committed out of the
    order of their numbers, so `ViewInv` says of each reader's list, and of a page about to be shown, that it is `Whole`
    between its cursors but for the late ones. `BeforeWhole` and `AfterWhole`, the pages on either side, rest on the well-order of the numbers.
  - `UnreadSafe` is `Spec /\ []OwnersMark => []UnreadIsTrue`: `LinkInv` (what a request knows of links), `OneAtATime` (what
    not having overlapped means) and `CursorInv` (cursors are the marks made, and one link for an admin and a chat).
    `OwnersMark`, that who marks a chat as its user owns it, is what clients do; `markAsReadByUser` does not ask (section 7).
  - `ListTold` is `Spec => []ListFollows`: by `ListInv`, while nothing has overlapped or failed, whoever was not told of the
    last message has a request or a callback on the way that will tell it.

`DerivedProofs`, about three components that keep something beside the data it was made of.

`RentalReports`, for every set of requests, deals, forms and defaults and every bound:

- `ComparisonSafe` is `Spec => []ComparisonFollows`. The property speaks of a comparison that is over, so the
  invariant must say what makes the next one right: `Stands`, the stored row agrees with the form of the page shown
  last, field by field except where `updateRParam` differs, and that page's figures are those of its deal and form. It
  holds of the tables (`StoreInv`) and of what a comparison has read (`RequestOK`); a page about to answer is either the
  one shown last or no longer it. `KeptFigures` says which figures such a row cannot change, from `SameLoan`,
  `SameSummary` and `SameMetrics`. The arithmetic itself is never expanded.
- `GradeSafe` is `Spec => GradeFollows` when the two fees of every form leave something of the income: each of them is
  at most 100 % (`base-rental-analysis.dto.ts:12-16`), their sum need not be, and with more than that taken a higher
  rent is a higher loss. `SavesInv` says that what a save is about to write are sections of builders, so that the builder before
  and after a step are both of `Builders`, and `BetterImproves` that their deals differ as `Improved` says. The rest
  follows the code from the bottom: the payment is a number (`Growth` is never below 1, by `LoopRuns`), quotients
  rounded down keep their order, so each metric moves its way; each of the seven curves rises or falls over its
  whole range (`ScoreCurve` point by point), each cap lets go only upwards, and the weights of the pillars are
  not negative: `OverallRises`.
- `ProjectionsSafe` is `Spec => []ProjectionsAgree`, for every price, rent, rate and term and all percentages the forms may carry.
  Three loops of the code walk the loan: `computeLoanBalance`, `computePaydownYear` and `computeCumPrinc`. `Behind` says
  of a month what each has by then, and `OneBalance`, by induction over the months of the term, that the three are one
  balance. `FirstYears`, `FirstAdds` and `SharesAdd` turn twelve months into a year and years into their sum, `GainsAdd`
  the gains of the years into the value, and `FlowsRise` and `FirstAtMost` compare the yearly flows with the last one, which
  the projection multiplies. `OneStory` puts them together for one deal, form and view.

Both need an induction over numbers, which the library offers for an operator as parameter only. `Induction` states it
for a set of numbers, from the well-order (`WFMin`), and `LoopRuns` and `NumberLoop` derive from it what a function
that recurs on its predecessor returns; every loop of the calculators is one of these.

`CostSections`, for every set of costs, saves and bodies, with taxes and without, and every bound:

- `TotalsSafe` is `CostSpec => []TotalIsSum` and `AnswersSafe` is `CostSpec => []AnswerMatches`, for all four analyzers at once.
  One invariant, `SectionsInv`, carries both. A save writes a section in up to five steps in an order of the section's
  own, so `Undisturbed` says of a save that runs alone what it finds at each: `Matches`, the sections behind it are
  as its body says; `Before`, the one at work is as the steps so far have left it, all costs but those still `todo`;
  and those ahead are as it read them. `Placed` is where a save may be, `RowsStay` that the rows it has read or made
  are there (nobody deletes them), `OneItem` that a renewed section has one item at most, also among costs deleted and
  stored anew; `Solitary` ties `alone` and `mixed` to who is at work, so that of two saves neither claims anything.
  `TotalIsSum` needs all of it: an item may be stored beside a total only because an earlier step wrote that total from
  the same body; that the sum of a body then is the sum of what is stored, or NaN, is `RenewedTotal`. `Before` and `After` say what a step finds and leaves; that the one of each step is the other
  of the step before it is proved section by section, and the lemmas of the actions only cite it.

`CachePages`, for every number of reads and changes in flight, every size of pages and tranches, every query and every
bound:

- `StaleSafe` is `CacheSpec => []StaleOnlyCrossed`. While an invalidation runs, pages may be old, so `PagesTrue` says what
  holds at every step: a page is of the list there is, or known to be old, or `Condemned`, that is, some change has yet
  to scan for it or to delete it. `ReadsTrue` says the same of the rows that a read has fetched and will store.
- `NoHoleSafe` is `CacheSpec => []NoHole`. Page 1 stands for its tranche only because of the order in which pages are
  set and expire. `TranchesWhole`: while page 1 is there, each other page is there *and was set after page 1*, hence outlives
  it, or a fill that is not torn has yet to store it (`Complete`, `ToStore`). Two fills of one tranche may overlap: the later
  page 1 puts its own pages in question, and these its own fill will store again. `UntornApart` keeps fills that
  met no invalidation apart from every invalidation, which may take some pages of a tranche and leave others.
- `SlicesSafe` is `CacheSpec => []AnswerIsSlice`, also after failures, as a read that sees any is no longer quiet. `QuietReads`
  says what such a read has got so far (`Got`): the slice of its tranche from its first page up to the next one. It relies
  on a tranche that stands `Still`: every page there is the list's, and all are if page 1 is. `SliceOfSlice`,
  `PagesCover` and `RowsOfList` are the arithmetic of slices: that the pages asked for cover the rows asked for, and
  that cutting a tranche into pages and these again gives the rows of the list.

`ContentProofs`, for every set of files, guides, advertisements and requests and every bound:

- `LinksSafe` is `Spec => []LinksSurvive`, `FilesGo` is `Spec => []OldFilesGo`. One invariant, `Inv`,
  carries the first and, of the second, that files without a link go, whatever overlaps (`FilesFollow`). A clean-up deletes a file after it counted no link, and the links it takes along are those made since:
  `CountedFirst` (who deletes has counted) and `YoungLinks` (a live link of a file once counted without any is
  late) say so. Conversely the last link that goes leaves a clean-up behind it that will count none: that a
  clean-up is at work on the file of the link it was called for (`CleansOwn`), that a link names a stored file
  (`LinkedStored`) and that no upload stores a file again (`UploadsApart`) is what makes this true.
  `OneMoves` and `AllStop` are the lemmas of a step of one request and of the end of the process; each step then
  has a lemma `...Inv`.
  `OldLinksGo`, that the link a row showed goes too, holds only where writes do not overlap (section 7). It is a
  second invariant, `LinksInv`, which leans on `BooksInv` below: `Knows` tells that a write alone takes from its row
  the very link it has read, so that it owes (`Owes`) what the row no longer shows. `OwedStep` is the lemma of its
  steps, each of which has a lemma `...Owes`.
- `CountsSafe` is `Spec => []CountsTrue`, for any number of requests, failures and restarts. The counters of a kind are
  wrong while a write of it is under way, so its invariant, `BooksInv`, says what they count then: the table as it was
  `Before` the write, the row at work replaced by what the request read of it. `Booked` says so of each kind that is
  still `calm`, for the one request that may be at work on it, and `Knows` what that request may rely on at each step:
  until its write the row is as it was read, afterwards it is there with the status asked for or gone, and the counters
  it is about to write are the current ones. `CountsAgain` is the arithmetic: with one row more, one less or one of
  another status, what `CountsOf` computes counts the table again. `WorkStep`, `BeginBooks` and `StopBooks` are a step
  of the writer, its beginning and the end of the process; each step then has a lemma `...Books`. Why both conditions
  of `calm` are needed is in section 7.

`UserCodeProofs`, for every set of users and requests, every limit, delay and bound:

- `TypeCorrect`: `Spec => []TypeOK`, whatever requests overlap.
- `CodesGoodOnce` (`SingleUse`), `LastMailed` (`LastMailedWorks`) and `ThrottleHolds` (`Throttled`) are proved under
  `[]OnePerUser`: two requests of a *user* are never in flight together, while those of different users interleave,
  fail and overtake each other as they like. Without it none of the three holds (section 7), since neither table has a
  unique key. The run has one user and one request; the invariant was first checked by TLC with two of each.
  `CodeInv` and `LinkInv` say that a user has one row and a row is one user's, and, of every request in flight
  (`CodeRequest`, `ResetRequest`), what the queries behind it established: that the row it will write, delete or
  open a session for is still there, or gone with its code in no other row (`SessionsApart`). They speak of `Issued` and
  `IssuedLinks`, what was ever put into a row: mailed, on its way (`Waiting`), or never to be mailed; `IssuedGrows`,
  `IssuedStay` and `IssuedSent` are how a step changes them. `CodesIssued` is what `LastMailed` adds to the order of the
  codes: the code of a row was made for it.
- The throttle is a statement about every window of the past, and the code keeps only a count and a date.
  `CodesThrottled` and `LinksThrottled` say what those two stand for: without a delay, every window that
  reaches the present holds no more mails than the count allows; with one, no window of the row reaches
  beyond it. They differ as the code does: a code's count starts again when the delay has passed
  (`RefreshedCounts`), a link's never does. `WindowAdd`, `WindowLast` and `WindowsGrow` are the facts about one more
  mail. `ThrottleHolds` assumes a limit above one: a first link counts as one already, and with a limit of one the
  second would still be mailed. The code's limit is five.

`NewsletterProofs`, for every set of newsletters, requests and recipients and every bound:

- `TypeCorrect`: `Spec => []TypeOK`, with `WorkLocked` (the processor works for active jobs only), whatever meets, breaks off or
  restarts.
- `JobsSafe` (`JobsMatchRows`), `OnceSafe` (`DeliveredOnce`) and `PlannedSafe` (`SentAsPlanned`) speak of calm executions,
  as the run does: nothing met a request or a due job, no query or queue call failed, nobody restarted the server.
  Without calm they fail (section 7); deliveries may fail. Their invariant, `Inv`, is the types, `Versions` (no two rows
  carry one version; this needs no calm) and, while calm, `CalmInv`. The properties describe the moments when nothing is
  under way, so `CalmInv` must say what holds in between: row and job of each id agree (`InSync`) unless the one
  request or callback at work is between them (`Between`); what that one relies on still holds (`RequestKnows`,
  `CallKnows`, `WorkKnows`: the row it read is the row there is, the old job is gone); and a version that a job or a
  callback is still to deliver has not been (`Unsent`, `Fresh`). `Alone` says that at most one request or callback is
  at work and then no job is due: a calm arrival finds none, and time passes calmly only when all is done.
  `StepsOn`, `CallsOn` and `JobsOn` are a step of a request, a callback and a job; each action then has a lemma `...Calm`.

Assumptions: those named in the modules (`BillingAssumption`, `SessionAssumption`, `CodeAssumption`,
`NewsletterAssumption`, `ContentAssumption`, `ConstantsAssumption`, `SupportsAssumption`, `ReportsAssumption`,
`CacheAssumption`), which TLC evaluates on every
run, and the ones in a theorem's own `ASSUME`.

Only model-checked: of `RentalReports`, `PagesAgree`. It compares sums of rounded months with formulas rounded once. Its
bounds (`Close`, a schedule of the term or one month more, an extra payment that is never the dearer one) are those of
loans of the size checked: the code computes in floating-point numbers, and for every integer of the model they need not
hold, so that a theorem would have to say less. Of the temporal properties `CancelReachesRow`, `ScheduledGetsDone` and
`TrueAtLast`: liveness under fairness, with its `ENABLED`, is out of the prover's reach. All other properties of the
passing runs are theorems, for the conditions each states.

## 7. Where the code and its own words differ

With a run, in `findings`: `billing_return`.

Seen while modelling and kept as prose; most of them the models reproduce:

- An older `customer.subscription.updated` delivered after a newer one overwrites the row
  (`s-webhook.service.ts:71`, which promises "the latest Stripe data"); hence `InSyncWhenSettled` is
  checked with events in order.
- A payment event delivered again inserts its invoice again: no handler looks for the invoice first. Stripe
  repeats an event that was answered 500, and after the INSERT the handler still awaits the invalidation of a cache
  (`s-invoice.service.ts:302-303`; a stream that ends with an error rejects, `cache.service.ts:294-297`): one failure
  there and the payment is counted twice. Hence `PaidOnce` is checked without redelivery and names the payments whose
  handler broke off after the INSERT.
- `buildCRedemptionEntity` calls `Object.assign(required, result)` with its arguments swapped
  (`c-redemption.service.ts:23`): the redemption is never stored, its event is retried, and each retry
  inserts an invoice. Every discounted payment is such a payment.
- Two checkouts of one user can both be paid (`subscription.service.ts:296`), and of two toggles the
  first to reach Stripe may be the last to reach the row (`billings.service.ts:258`).
- Two overlapping logins exceed the limit of sessions (`pre-user-session.service.ts:207`); hence `SessionLimit`
  is checked, and proved, for logins that do not overlap.
- Two refreshes with one token write the same version (`user-session.service.ts:133`), so the access
  token of the first stays valid; `RotationIsFresh` is checked for serial refreshes. A lost answer of a
  refresh locks its client out; `HolderKeepsAccess` is checked without faults. `renewSession` leaves
  `expiredAt` alone, though its comment says "setting a new expiration date" (`:125`). Suspending a user
  leaves the sessions live.
- Two overlapping verifications of one code open two sessions (`users.service.ts:281`): the code is deleted
  after it is compared.
- A code is in the row before it is mailed, and the mail waits for two more queries (`abstract.repository.ts:83`,
  `user-code.service.ts:109`): if one of them fails, the last code mailed is refused and the row's is known to nobody.
  `LastMailedWorks` names that exception; asking again helps. A link stays the same link, so there nothing is lost.
- Overlapping requests for codes are counted once (`user-code.service.ts:107`), and a repeated login
  forgets its `rememberMe` (`:127`).
- Newsletters: a job is lost when the process ends between the row and the queue
  (`newsletters.service.ts:149`), or when the cache or the queue rejects in the callback (`:150`, `:159`), which
  ends the process by itself; an update that fails after its UPDATE (the read at `:265`, the queue at `:269`)
  leaves the old job, which delivers the new row on the old date, even one kept for a manual dispatch; a delete that
  fails at `:285` leaves a row without its job; a query that fails at `newsletter.processor.ts:25` or `:33` ends the
  one attempt, with the row SCHEDULED for good; overlapping updates combine into a row neither asked for (`:251`), one
  that neither validation admits, and may deliver one version twice; a due job delivers the new content
  before its new date (`newsletter.processor.ts:25`); a job is added without its custom list (`:161`), which the processor
  expects; PREMIUM_USERS are all active users (`pre-newsletters.service.ts:383`); one failed immediate
  delivery ends the process (`:518`); a scheduled newsletter without recipients stays SCHEDULED; an
  immediate one is stored SENT before it is sent; no input reaches PENDING; "job will retry"
  (`newsletter.processor.ts:37`) meets `attempts: 1`.
- Support chat: a message whose request passed the check is stored after the close, as `ChatDesk` admits,
  and `createConversation` never asks; a failed notification answers 500 for a stored message
  (`supports.service.ts`); two overlapping marks leave two links, each counted as unread, and can move a
  cursor back; a message committed after a newer one is skipped by every cursor; pages of one message
  (`limit=1`) repeat their cursor when scrolling back; `closeChat`'s comment promises an owner check that
  its admin route has not; `markAsReadByUser` and `openConMessagesByUser` do not ask who owns the chat (the
  run has one user); a reply may name a message of another chat; `findFirstUnreadMessage` returns the newest.
- Cache: a fill beside an invalidation can leave holes or stale pages until they expire; rows asked for
  beyond the end of a tranche are not answered; `pipeline.exec` is not awaited; invoices put status and
  search term under one key name (`billings.service.ts:112`), so different queries share pages;
  unread notifications that were cleared still count; lists ordered by `updatedAt` alone may repeat rows.
- Rental analyses: the comment of `repairs.service.ts:97` says "Reconciles (cleans up) sub-entities not
  present in the DTO.", but `:81` deletes those the DTO carries, so that a second save of the same items
  deletes them and answers 500; `getOrCreateRAnalyzerBuilder` deletes the analyzer even after a read
  that failed, unless units block it; overlapping first saves delete each other's rows, overlapping
  later ones double the units or answer 201 without acquisition details; units are deleted before the
  403 for single-family properties; duplicates of analyses with another label answer 404 after their
  first rows; `upsertRParam` stores the maintenance escrow as the management fee
  (`r-analysis-params`, line 110); a copy loses the parameters.
- Pages: one that answers 404 for its settings has already stored its parameters; of two first pages one answers
  500 at the unique column; the summary shows no mortgage insurance where a comparison shows the stored one;
  rows of further income or expenses do not reach the metrics.
- Calculators: `getAppreciationSummary` passes pay-down, tax deduction and rate in
  the places of cash flow, debt pay-down and tax savings; `computeYearlyInterestPaid` (and the paydown on it) walks on after the end of
  the loan, unlike `computeLoanBalance`, and `computeCumPrinc`, "Equivalent to Excel CUMPRINC", does so without interest: the
  five-year tables of a two-year loan pay back more than was lent. Hence `ProjectionsAgree` is stated within the term.
  Buy and hold takes the maintenance percentage as dollars a month (`r-analysis.service.ts:386`), and multiplies the
  cash flow of its last year by the years (`r-full-breakdown-calculator.service.ts:417`), which overstates the
  profit when the rent rises; `computeCumulativeProjection` adds a share of the cash to an amount
  (`r-summary-calculator.service.ts:400`). A deal
  with no rent may grade better than one with a little, since `computeMetrics` then sets break-even to 100 % and no
  cap applies; hence `GradeFollows` starts from a positive rent. With fees that add up to more than the income, which
  the form allows, more rent means more loss; `GradeSafe` leaves such forms out. The low-cash rule of the deal grade drops the cap of 40 of its
  efficiency pillar; the total of fixed expenses is NaN on a first save. `getFFlipBuilder` with an undefined
  id matches any builder (`f-flip.service.ts:42`); `updateHCItemized` writes to another table's repository.
- Mortgage calculator: a new one stores the down payment of the body beside a loan worked out from the
  percentage (`pre-m-calculator.service.ts:150`, `:193`); an update that sends only the amount has no effect and
  the credit score is never updated (`:231`, `:288`); the breakdown of a saved BASIC calculator answers an
  error, as what was stored null is not undefined (`:78`); a rate of zero gives NaN
  (`m-calculator-equations.service.ts:36`).
- Creative financing: the principal paid down takes the payment of a loan over the months held
  (`c-financing-calculator.service.ts:44`), hence always the whole loan, also after five years of a longer one
  (`:283`); hence `PagesAgree` leaves its columns of longer loans out.
- DTI book and support codes: `errors.length > 0` on a record never refuses a duplicate label or address
  (`dti-property.service.ts:59`, `dti-e-income.service.ts:46`, `dti-other-income.service.ts:47`,
  `dti-other-debts.service.ts:49`, `s-codes.service.ts:170`).
- Password reset: count and delay are kept when the wait is over (`reset-password-request.service.ts:97`), so that
  each further link is followed by a wait, unlike a login code.
- Files: `uploadFile` returns a URL (`aws.service.ts:59`, `minio.service.ts:62`) which is stored as the file's `path`;
  `deleteFile` cuts it at ".com/" (`aws.service.ts:78`) or takes it as the name (`minio.service.ts:74`), so that the object
  is never the one deleted, although `file-links.service.ts:75-77` says that the file goes from the storage.
  `medias.service.ts:124-153` and `m-export.service.ts:206` hand ids of files to `unlinkAndCleanup`, which takes ids of
  links, and `modules.service.ts:199` an undefined one; a replaced avatar is never unlinked (`pre-user.service.ts:390`).
- Guides and advertisements: creating a guide in a category that is not there answers 404 and leaves the link
  (`pre-guide.service.ts:262-281`); of two overlapping updates of one guide both take away the link they had read
  (`guides.service.ts:263-274`), so that the one shown in between stays with its file for ever, and so does the new
  link of an update beside a delete; hence `OldLinksGo` is stated where writes do not overlap; two overlapping updates
  count a status twice, since both read the same old one, and the counters are never made up for a write that fails
  between the row and `base-stats.service.ts:71`; nothing sets an advertisement EXPIRED, so that `reuseExpiredAd`
  (`ads.service.ts:242`) always refuses; the dates of an update are checked with an undefined type
  (`pre-ads.service.ts:436-445`); a reaction is found by its user alone (`user-guide-like.service.ts:29`). Two
  overlapping imports leave a dataset two active batches (`datasets.service.ts:464-518`).
- Sums of costs: the comment of `calculateItemizedHoldingCost` promises "a reliable total"
  (`h-coast-itemized.service.ts:20`), but the insurance a body must give is stored and not added (`:23-30`), and
  property taxes, which a body may leave out, are then `undefined`, pass `!Number.isNaN(value)` and make the total NaN
  (`:32-35`), which a `decimal` column keeps; so do renovation times and sales (`ad-itemized.service.ts:38-41`). Hence
  `TotalIsSum` leaves the insurance out and admits NaN beside a cost without taxes.
- Sections with costs: an update of carrying costs that sends items keeps the total there was
  (`c-coast.service.ts:221`), though the message at `:36` says it is calculated from them, and its update judges no
  body; a sale whose row had no item keeps its old total (`pre-f-flip.service.ts:169`); hence
  `AnswerMatches` leaves these two totals out. Costs are deleted before the body that replaces them is judged
  (`h-coast.service.ts:148`), so that a 400 has already taken them; renovation time is made from weeks
  (`r-duration.service.ts:108`) and updated as years (`:183`); the agent's commission is never updated (`sale.service.ts:93`).

## 8. What is not modelled

- Within modelled components: lists, searches, statistics and translations (they only read); payment
  methods and invoice downloads (passed on to Stripe); e-mail texts; `rememberMe` beyond the lifetime it
  chooses; dates of trials and amounts of money; files and replies of chat messages; totals of cached lists.
- **The other analyzers**: their loans, purchase and repair sections and clean-ups repeat `RentalAnalysis`: find,
  insert or update, clean up in a catch; the sections that differ are `CostSections`. Their
  **calculators** (half of the code) are long sums over one request in floating-point numbers, with no order of
  steps to get wrong; of the rental analyzer's, loan, metrics and grade are in `DealFigures`, summary and tabs in
  `Projections`; the stress tests and annual returns are not.
- **Saved mortgages, the rental calculator, the DTI book**: rows of one user, edited one at a time; the figures of
  the first are in `MortgageFigures`. The builder of **creative financing** is saved as the first steps of
  `RentalAnalysis` are; cash flow, taxes and appreciation of its columns, and the DTI ratios, are sums of one request.
- **Sockets and notifications**: delivery is fire and forget, each request one statement over one user. What
  the chat emits is in `Supports`.
- **Files and what shows them**: views and reactions, which are counters written as `stats` is; the dates of an
  advertisement and the check that they do not overlap another's; media, which hand over the wrong id (section 7).
- **Pins, registration, coupons**: a check and then one insert, the race `Billing` and `Supports` have with their
  links and customers. A redemption is in `Billing`; the Stripe copy of a coupon is written by one administrator.
- **Reference data** (groups, permissions, roles, media, categories, plans) is edited one row
  at a time by administrators; the invalidation after it is `CachePages`. The import of a dataset is rows of one file
  written in batches, by one administrator.
- Database, mailer, hashing, logging and configuration are I/O or libraries. `orders` is a tracing demonstration.
