# RR_Net: models, checks and proofs

RR_Net is a multi-tenant back office for internet service providers: a Go
backend (`src/BE`), a Next.js front end (`src/fe`) and a WhatsApp gateway
(`src/wa-gateway`). It bills subscribers, authenticates hotspot vouchers for
FreeRADIUS, provisions MikroTik routers and sends WhatsApp campaigns.

This directory holds TLA+ modules translated from that code, TLC configurations
that check them on small instances, and theorems checked by TLAPS for every
value of the constants. `PROJECT.json` maps each definition to the lines it
models and lists the runs, the hazards and the theorems.

To check an instance or the proofs of a module:

    tlc -config InvoicePayments.cfg MCInvoicePayments.tla
    tlapm InvoicePaymentsProofs.tla

## 1. Inventory

The backend is a set of services over PostgreSQL. Every HTTP request runs in
its own goroutine; repositories issue single statements, each committed by
itself, and almost nothing uses a transaction or a row lock. Background
goroutines (invoice scheduler, client clean-up) and Asynq workers (campaigns)
write the same tables. Routers, the WhatsApp gateway and the browser are reached
by calls that can fail after the database has changed. So the hard behaviours
are nearly always the same: what happens *between* the statements of one
operation.

| Component | State | Operations | Interacts with | Hard behaviour | What makes it correct |
|---|---|---|---|---|---|
| Payments and settlement (`billing_service.go`, `payment_repository.go`, `invoice_repository.go`) | `invoices.status, paid_amount, paid_at`; rows of `payments` | RecordPayment (read, insert, sum, settle, update), CancelInvoice | HTTP handler, front-end retry | five statements interleave with those of other payers; failure after the insert; negative totals | paid means covered; enough money settles; shown amounts are backed; closed invoices take no money |
| Due dates and periods (`billing_service.go`) | none | computeClientDueDate, isDueTomorrow, period of a date | scheduler, generator | ends of months, `AddDate` overflow | the next due day, never a past one |
| Daily scheduler (`billing_invoice_scheduler.go`) | timer, the clients of the current job | run at startup, at 00:05; per client: check and generate | invoice generation | restart on the same day, a job that passes midnight, failures of single clients, manual invoices | a client that was handled has its invoice in time |
| Invoice creation (`GenerateMonthlyInvoice`, `CreateInvoice`) | rows of `invoices`, `UNIQUE(tenant_id, invoice_number)` | check, number (COUNT+1), insert | scheduler, handlers, clean-up | check-then-insert by several callers | dense numbers, losers lose to a winner, no orphan, no second invoice by a request that begins when the period is billed |
| Client clean-up (`client_cleanup_scheduler.go`) | soft-deleted clients | weekly hard delete | invoices (cascade) | a purge while an invoice is generated | no invoice without a client |
| RADIUS accounting (`radius_handler.go`, `radius_repository.go`) | `radius_sessions` | upsert for Start, Interim-Update, Stop | NAS, voucher authentication | duplicated, lost, reordered reports | a stopped row is of a session that has ended and says all it transferred; a session whose reports came in order ends stopped |
| Voucher authentication (`radius_handler.go`, `voucher_service.go`, `voucher_repository.go`) | `vouchers.status, expires_at` | validate, check password, consume; toggle; delete | accounting, operator | validate-then-consume, stale whole-row writes, the clock | closed and expired vouchers admit nobody; an expired mark is true |
| Voucher isolation (`voucher_service.go`, `mikrotik/hotspot_user.go`) | `isolated` flag, router users | isolate, release, delete, kick | routers, goroutines | database first, router later, in any order | router ends up agreeing with the table |
| WhatsApp campaigns (`wa_campaign_service.go`, `wa_campaign_worker.go`, `wa_campaign_repository.go`) | campaign status and counters, recipient rows, Asynq queue | Create, send task, mark sent / failed, RetryFailed | Redis, gateway | at-least-once delivery, three-statement marks, reset racing a mark, a list shorter than the reset | a completed campaign has results, a campaign completes, one message per recipient, nobody left pending - but for the recipients a failure or an overlap of retries has hit |
| WhatsApp gateway (`sessionManager.ts`, `server.ts`) | a map of sessions, sockets, credentials, timers | ensure, reconnect, reset, connect, send in bulk | WhatsApp, backend | awaits between look-up and use; events of replaced sockets | one timer a session, every request answered |
| Clients, plans and limits (`client_service.go`, `limit_resolver.go`) | `clients` rows, plan quota | Create, Update, ChangeStatus, Delete | billing, clean-up | quota and status checked on an earlier read | quota kept, terminated is final |
| PPPoE, routers, maps, catalogue, roles, technicians (server) | records; router secrets; status of nodes | create, read, update, delete | routers, web client | partial failure towards devices | the device agrees with the table |
| Web client: session (`apiClient.ts`, `authStore.ts`) | tokens, refresh queue, circuit breaker, CSRF token | request, refresh, retry, logout | every page, backend | one refresh shared by the requests that got a 401; retries of writes | one owner of a refresh, no lost wake-up, no write sent more than twice |
| Web client: navigation (`Sidebar.tsx`, guards, `dashboardStore`, `tenantStore`) | role, features, what each store holds | login, logout, switch of role, links, reload | session | stores that outlive a login | a menu never leads to a refusal |
| Web client: collector, settlement | assignments and marks in the browser, deposits | visit, mark, deposit, submit, decide | billing store | merges of what was read before an await | decisions are final; sums are of what was recorded |
| Web client: billing, clients, packages, vouchers, secrets, routers, WhatsApp, administration, technicians | one store or component per page: lists, an item, flags, dialogs | load, filter, page, open, fill, submit, delete | backend | answers in any order; one flag for several requests; pages left while requests are under way | what is shown and sent is of the item and the filter on the screen; nothing is sent twice; no spinner without a request |
| Rate limiter (`rate_limit.go`) | counters in Redis | INCR, EXPIRE | all requests | expiry renewed by each request | a window ends |

The component list of `PROJECT.json` names the sources of each, its status and
why it is left out when it is.

### How the modelled components fit together

`POST /billing/payments` works on invoices that the scheduler or an operator
generated; generation reads the client row that the clean-up may remove. The
scheduler decides *which* clients to generate for with one calendar computation
(`isDueTomorrow`) and the generator decides *which month* with another
(`computeClientDueDate`); the two have to agree. `POST /radius/auth` decides with
the voucher row and the table of sessions; the latter is written only by
`POST /radius/acct`, after the user is in.

The web client reaches the backend through one axios instance (`ApiClient`);
its pages (the modules of `MCWebPages`) share stores, and a store outlives the
page that filled it. The gateway (`WAGateway`) is called by the campaign's
workers (`WACampaign`, which takes its answer as sent, not sent or lost) and by
the device tab (`WAPanels`, which polls its status).

## 2. Modules

| Module | Models |
|---|---|
| `InvoiceAccount` | the abstract specification: what readers of the billing tables may rely on |
| `InvoicePayments` | RecordPayment and CancelInvoice, one database statement a step; refines `InvoiceAccount` |
| `DueDates` | Go's calendar as `time.Date` and `AddDate` normalise it, the program's due-date functions, and a reference definition |
| `InvoiceScheduler` | the scheduler goroutine over days, with restarts, failures and manual generation; extends `DueDates` |
| `InvoiceGeneration` | concurrent generators and the form, one statement a step, beside deletion of clients |
| `RadiusAccounting` | the NAS, its reports under way, and the table of sessions |
| `VoucherAuth` | login requests, toggle, deletion and the clock, composed with `RadiusAccounting` |
| `WACampaign` | creation and retry of a campaign, the queue, the workers and the counters |
| `ApiClient` | the HTTP session of the web client: interceptors, refresh and its waiters, retries, circuit breaker, CSRF, login and logout |
| `WAGateway` | the sessions of one tenant: sockets and their events, timers, reset, the requests that connect and send |
| `WebNavigation` | menu, guards, switch of role and the stores they read |
| `CollectorVisits`, `CollectorRound` | the collector's visit to a client; his round, deposits and payments of a month |
| `Settlement` | submissions, settlements, their verdicts, finance's deposits |
| `BillingDesk`, `BillingViews` | lists, invoice and payment over the billing store; matrix, templates and reports with state of their own |
| `ClientForm`, `ClientDesk` | the form of a client; the list with filters and pages, a client's page |
| `AccessDesk`, `ServiceSetup` | vouchers and PPPoE secrets; packages, discounts and groups |
| `RouterSetup`, `RouterDesk` | the three steps of a router's form and the firewall card; the lists and pages of routers and profiles |
| `WADesk`, `WAPanels` | single messages and campaigns; device, log and templates |
| `AdminDesk`, `PlanForm` | the administrator's dashboard, lists, items, forms and dialogs; limits and features of a plan |
| `TechnicianTasks`, `TechnicianOwn` | tasks and their log, with the server's status machine of a task; a technician's own requests, proposals, payslips and attendance |
| `MC*` | instances for TLC; `MCWebPages` composes the pages' modules |
| `*Proofs` | theorems and their proofs (`WebPagesProofs`: of all the pages, over `MCWebPages`) |

### InvoicePayments

| Code | Action |
|---|---|
| the request arrives (`invoice` and `amount` of the body, amount positive) | `Arrive` |
| `GetByID` and the status checks | `ReadInvoice` |
| `paymentRepo.Create` | `InsertPayment` |
| `GetTotalByInvoice` | `SumPayments` |
| `UpdateStatus(paid)` when the sum covers the total | `SettleInvoice` |
| `UpdatePaidAmount` with `paid_at` or NULL | `UpdatePaidAmount` |
| `CancelInvoice` | `CancelInvoice` |
| any statement fails, the context is cancelled, the server dies | `Abort` |

`ledger` is the SUM of an invoice's payment rows: nothing deletes or changes
one. `late` is a history variable, the requests that arrived at an invoice that
was closed already.

### DueDates and InvoiceScheduler

A date is a year, a month and a day; `Normalised` carries an excess of days into
the following month, as `time.Date` does. `ComputeClientDueDate` is the
program's function; `NextDueDate` is the reference, the first day from today
on that is the due day of its month (clamped to the month's length).

In the scheduler a day is cut at 00:05 (`early`): the timer is set to the next
00:05 after the job has *ended*, so a job run at startup that begins before
midnight may end on another day than it began. One invoice is generated in one
step here, since what happens between its statements is `InvoiceGeneration`'s
subject. `examined` is a history variable: the last "tomorrow" a job handled the
client for, `Never` (a date before all others) until the first.

### InvoiceGeneration

Requests are of three kinds: the scheduler's (`job`, which checks for its
period before it calls the generator), `POST /billing/invoices/generate/{id}`
(`hand`) and `POST /billing/invoices` (`form`, which has no check). Each
statement is an action; the unique constraint and the foreign key are in
`InsertInvoice`. The table is one tenant's, of one calendar month, because
numbers start again with each month. `late` is a history variable: the requests
to generate that began when their client had an invoice of their period
(`NoRegeneration`); the two that begin before either inserts are
`OneInvoicePerPeriod`'s, which fails.

### RadiusAccounting and VoucherAuth

A session's reports under way are a set (no two of them are alike); `Acct`
handles any of them, and `Answered` removes it or leaves it for a second time (a
NAS repeats what is not answered). Nothing in the code puts the reports of a
session in order, so nothing does here. `overtaken` is a history variable: the
sessions whose Stop was handled while another report was under way.
`VoucherAuth` extends it: a session is named after the login request that led to
it, `Connect` is the access server letting the user in, and `Account` takes the
steps of accounting. The duration of a package is a number of ticks; an error
when the package is read gives no expiry, as in the code, which ignores it.

### WACampaign

| Code | Action |
|---|---|
| `CreateCampaign`, `InsertRecipients` | `CreateCampaign`, `InsertRecipients` |
| `GetCampaign`, `ListFailedRecipients` | `ListFailed` |
| `ResetFailedRecipients` (one transaction) | `ResetFailed` |
| each `asynqClient.Enqueue` of the loops | `Enqueue` |
| a request ends early | `AbortCall` |
| Asynq starts `handleSend`, the tenant's slot is acquired | `Take` |
| `wa.Send` | `Send`: sent and told so, not sent, or sent and the answer lost |
| the three statements of `MarkRecipientSent` / `MarkRecipientFailed` | `MarkRecipient`, `Count`, `Complete` |
| one of them fails, which the handler ignores | `FailStatement` |
| the process dies or the 30 s are over, Asynq retries | `LoseHandler` |

`TenantLimiter(1)` makes a worker process a single handler of the tenant, so
concurrency is between processes. `ListFailed` lists at most `ListLimit`
recipients, as the query does (5000), while `ResetFailed` resets all.

What reached a recipient is the history variable `delivered`. The others say what
happened to whom, so that a property can leave out just those it cannot hold
of: `hit`, whose own task or request met a failure of the system; `again`, whom
a retry has listed and another one has reset before it; `missed`, whom a
reset took along without their being listed; `early`, whose failure was reset before it
was counted. Retries may overlap in all runs and theorems.

### ApiClient

A process is a call of the axios instance: each page request, the user's login
and logout, and `POST /auth/refresh`, which passes through the same interceptors
as the others. An action is the code between two awaits that something can come
in between of. `job[p].pc` is where a call is; the waiters of a refresh are
`refreshSubscribers`. A token is a number, dead or alive on the server.

### WAGateway

One tenant, since tenants share nothing but the map. `sockets` are all the
sockets that were made, the current one and those it has replaced; each goes on
to show codes, open and close by itself, and its close sets the timer of the
session *in the map*. `reconnectAttempts` is left out: a reconnection makes a
new session, whose count starts at 0, so the delay is 2 s each time. What
`createSession` does after its last await is one step.

### The pages of the web client

JavaScript runs one handler at a time, so an action is what a handler does up to
its first await, or what happens when an answer arrives. All page modules are
built alike:

| Code | Model |
|---|---|
| state of a store or a component, as far as a property needs it | a variable, named after it |
| flags (`loading`, `saving`, ...) | variables of their own: which button is disabled by which flag is what many properties are about |
| requests under way | a set or bag of calls, each with what it was asked *with*; an answer may come in any order |
| a list of handlers' awaits (save, then reload) | `steps` of a call |
| the server | what it keeps of the item (`...Kept`, `network`, `stored`), changed when a request is handled; a request may fail |
| leaving a page, or a spinner or an error in the place of a component | the component's state is gone, the store's stays, the requests go on |

In `RouterDesk` the tables lose their dialog and the state of their buttons where
the page takes them away (`Lost`, `Keeping`): on the page of both kinds while
a list is loaded, on that of one while an error is held. `lostAt` tells a
handler whose table is still there from one that goes on without it. In
`RouterSetup` the form is open from `OpenForm` to `LeaveForm`, which nothing holds
back, or until its save ends; a request of an earlier form changes nothing of a
later one (`Mine`), and on the page of an edition a save takes the form away.

The user may click whatever is enabled. A dialog covers the page under it. The
content of lists is reduced to what tells two of them apart: their filter, their
page, the ids of their items.

`MCWebPages` puts the page modules side by side: `area` says which one the user
is in, and `OnlyIn` keeps the others at rest. They share no variable, so that
their interleavings would show nothing that the areas alone do not.

`TechnicianTasks` is the only page module that models the code behind it as
well (`technician_service.go`): `CanStart`, `CanComplete`, `IsAssigned`,
`Permitted` and `TaskStatusAfter` are the server's. The other resources of the
technician (`/technician/reimbursements`, `time-off`, `payslips`, `attendance`)
have no handler in the backend; `TechnicianOwn` takes them as the page expects
them.

## 3. Runs

| Run | Instance | Shows |
|---|---|---|
| `payments` | 2 invoices (totals 2 and -1), 3 requests of amount 1, any cancellations and failures | `PaidIsCovered`, `PaidAmountIsBacked`, `CoveredIsSettled`, `CoveredEventuallySettled`, refinement of `InvoiceAccount` |
| `scheduler` | 4 clients (due days 1, 2, 3, 31; one of them billed by template), 5 turns of a month, one fault, one manual invoice | `ComputesNextDueDate`, `NotOverdueWhenMade`, `InvoicedBeforeDueDay` |
| `generation` | 2 clients, 2 periods, 4 requests of all kinds | `NumbersAreDense`, `NoRegeneration`, `ConflictHasWinner` |
| `accounting` | 2 sessions, 2 updates each, 2 duplicates, 1 loss, reports handled in any order | `StoppedIsTrue`, `SettledIsFinal`, `EndedIsStopped` |
| `auth_safety` | 3 logins (any of them with a wrong password), 1 toggle, 5 ticks of which a login is given 3 | `ClosedUntilToggled`, `OverIsOver`, `ExpiredIsOver` |
| `campaign` | 2 recipients, 2 worker processes, up to 2 retries, which list one recipient at most, 1 redelivery of a task | `CompletedIsDone`, `SentOnce`, `NobodyIsStranded`, `CampaignCompletes` |
| `session` | a read and a write, a user who may log in or out, 2 access tokens that may die | `RefreshHasOneOwner`, `WaitersHaveAWaker`, `TokensAgree`, `WriteAtMostTwice` |
| `session_settles` | a dashboard read and a write while tokens die | `SettlesUnlessStuck`: every call ends, unless the refresh waits for itself |
| `gateway` | a request to connect, one to send 2 messages, 2 closings of sockets | `OneTimerPerSession`, `RequestsAreAnswered` |
| `web_pages` | 19 areas of pages, each on an instance of its own (`WebPages.cfg`) | eleven properties, below |
| `scheduler_day_one` | January 30 to February 3, 2028 | violated: on January 31 the client due on the 1st gets March's invoice |
| `admin_dashboard` | the dashboard as it is opened | violated: the first of three requests raises the flag that makes the store skip the other two |

The properties of `web_pages`, by area:

| Property | Area | Says |
|---|---|---|
| `MenuKeepsItsWord` | navigation | a link of the menu is not refused by the page it leads to, for each role, also one an admin works in |
| `PartialIsBacked` | collector's round | a partial payment shown was recorded by the server |
| `DecisionsAreFinal` | settlement | a deposit or settlement that was decided stays so, whatever handlers were started before (on a tab that is not left; quick approvals are outside it) |
| `MatrixIsCurrent` | billing views | the matrix is of the year selected, however fast years are turned |
| `ChosenPackageIsOffered` | client form | the package chosen is among those offered for the category |
| `PagesOfferedExist` | clients | the page numbers offered exist |
| `DialogNamesItsItem` | routers | while its table is there, the dialog of a deletion names what is being deleted |
| `SentLimitsAreListed`, `UnseenLimitsSurvive` | plan | no limit is sent that the form would hide, and those it does not show survive any number of edits |
| `OneRequestAtATime` | billing, access, services, firewall, routers, WhatsApp, own | the handlers that are held back by a flag do not overlap (ten parts); deletions, check-ins and files are not held back |
| `SpinnersEnd` | administrator, tasks | the flag that replaces a page by a spinner is up only while a request that will lower it is under way |

### Why the bounds are enough

- `payments`: a lost update needs two writers, a third makes the middle one's
  value stale twice over. With a total of 2, three payments of 1 fall short of,
  meet and exceed it. A total below zero is reachable (a discount above the
  subtotal) and is the other side of the comparison. Requests are used once, so
  the run needs no further bound.
- `scheduler`: the windows are the turn of a month to a shorter one (January
  and March), to a longer one (February, with 28 and with 29 days) and of the
  year; due days 1 and 31 lie at both ends, 2 and 3 on
  the days the overflow of `AddDate` lands on. One fault may be a crash or a
  failing client at any point; the behaviours without one are included.
- `generation`: two generators meet on each client; a gap in the numbers needs
  two creators, one of which aborts.
- `accounting`: two updates and a Stop can be handled in any order, one or two
  of them twice; one loss tells the session that is excused from the other.
- `auth_safety`: a stale row matters when one login's expiry is read, another
  prolongs it and a third writes the old row back: three logins, and a duration
  of 3 in 5 ticks, the least for which the old expiry has passed and the new one
  has not. Interim updates, repeated and lost reports are `accounting`'s.

- `campaign`: a lost count needs two processes that mark at once, a lost
  recipient one that fails while a retry runs or is beyond the limit of its list
  (1 of 2), a double send two retries.
  `MaxTrouble` bounds retries and failures of statements, answers and handlers
  together by two; messages that the gateway refuses are not bounded. The code's
  `MaxRetry(3)` is 1 here: the second delivery of a task meets what it repeats,
  a third would do the same again.

- `session`: a waiter needs somebody who refreshes, so two page requests; two
  tokens let a request carry the one before the refresh.
- `gateway`: a socket that was replaced and one that was not, hence two closings;
  a bulk request of two messages spans a replacement.
- `web_pages`: an overlap needs two requests, an overtaking two of one kind; the
  bounds `Max...Asked` count requests (of the user or under way) and allow two to
  four. Lists of clients are empty or have seven pages, where the window of page
  numbers is at the beginning, in the middle and at the end; any other length
  is the theorem's. Where a property fails only with more, the table of counterexamples
  names the bound. Two items distinguish the page's own from another's.

No action of these runs is left unfired.

### Fairness

`payments` assumes weak fairness of each request's next statement: a goroutine
that can run is run by Go's scheduler, and a statement returns or fails. Nothing
is assumed of arrivals, cancellations and failures. `accounting` assumes
that reports under way are handled (FreeRADIUS passes it on and the server's
goroutine runs), not that users log out or that reports are not lost.

`campaign` assumes that an accepted request goes on and that Asynq gives waiting
tasks to idle workers, whose handlers go on; not that anybody retries, nor that
anything fails or succeeds.

`session_settles` assumes that a call goes on: requests are answered or time
out, promises that are resolved run. Nothing is assumed of users, of tokens or
of what an answer says. `gateway` assumes that creations of a session end and
that a request's next step is taken, its waits being timers; not that sockets
open, nor that WhatsApp answers. `web_pages` has no fairness and states safety
only.

### Deadlock

The runs of the web client and of the gateway turn the check off: a user may do
nothing more, and the bounds count what he asked. The others keep it. Where a model ends because its
bounds are used up, an action says so: `AllDone`, `WindowOver`, `TimeOver`,
`AcctOver`. `InvoicePayments` can always cancel.

### Statements that the code does not keep

Two of them are runs, listed with their quotation under `findings`. The others
are definitions of the modules, each with a comment that says why it fails. TLC
finds the counterexample when the definition is put in the place of those of the
run's configuration. Five need an instance of their own: for
`PaymentsDoNotExceedTotal` one invoice of total 1 and two requests of 1
(`MCOne`, `MCExactTotal`); for `OneInvoicePerPeriod` the requests `job` and
`hand` for the ordinary client (`MCOrdinary`); for `FormIsItsItem`
`Existing = {"r1", "r2"}` and
`MaxNetworkAsked = 4`; for `EveryCallSettles`
`ApiClient_settles.cfg`; for `CommitIsKept` `VoucherAuth_commit.cfg`, which is
kept beside the runs. A page's module may also be checked by itself: as the root
module, with its own specification and the constants it declares; a larger bound
is given where one is needed.

| Module | Definition | Why it fails |
|---|---|---|
| `InvoicePayments` | `PaymentsDoNotExceedTotal` (`data_consistency.go`) | two payers pass the check together |
| | `CoveredIsMarkedPaid` (`data_consistency.go:207`) | a request fails after its insert |
| | `PaidHasPaidAt` (`database_consistency_test.go:81`) | a smaller sum is written last, with `paid_at` NULL |
| | `CancelledIsNeverPaid` (`billing_service.go:157`) | the invoice is cancelled after the check |
| `InvoiceGeneration` | `OneInvoicePerPeriod` | two generators check before either inserts |
| `InvoiceScheduler` | `RunsDaily` (`billing_invoice_scheduler.go:37`) | a job run at startup ends after 00:05 of the next day |
| `RadiusAccounting` | `StoppedIsFinal` (`plan_build_1.2.md:135`) | an Interim-Update is handled after the Stop |
| `VoucherAuth` | `CommitIsKept` (`radius_handler.go:141`) | a stale row is written back over an accepted login's |
| | `OneUserAtATime` (`voucher_service.go:803`) | two logins validate before either's Start is handled |
| | `UsedIsNotToggled` (`voucher_service.go:567`) | a login between the toggle's read and write |
| `WACampaign` | `ResetIsQueued` (`CampaignsTab.tsx`) | a recipient that fails between the list and the reset, or is beyond the list's limit, is reset and not enqueued |
| | `CompletedMeansDone` | a handler dies after its count: the task is counted again, and the campaign completes with another recipient pending |
| | `NobodyTwice` | two retries list a recipient before either resets it |
| `ApiClient` | `EveryCallSettles` | the refresh itself gets a 401 and waits for itself |
| | `LogoutSticks` | the answer of a refresh comes after the logout |
| `WAGateway` | `OneSocketLives`, `SendsOnCurrent` | two requests create a session each; a bulk request keeps its socket |
| | `ResetOnlyUnconnected` (`server.ts:43`) | the reset is decided on the status of before the wait |
| | `KeepsTrying` (`sessionManager.ts:149`) | the session is deleted before the new one is made |
| `WebNavigation` | `FeaturesAreTheTenants`, `TenantShownIsMine`, `LoginStartsInOwnRole` | stores, and the role in localStorage, outlive a logout |
| | `AdminsEnterAnyPage` (`RoleGuard.tsx:26`: "Admin can access any page even when switched") | the guard's strict mode (lines 47-48) counts the role worked in only |
| `CollectorVisits` | `MarksStay`, `PhaseIsCurrent` | the merge takes the assignments of before its requests; the page keeps a copy |
| `CollectorRound` | `MarksExclude`, `DepositIsComplete`, `MonthIsShown` | a client is marked while his partial payment is being recorded; prices come late; an answer for another month comes last |
| `Settlement` | `VerdictIsItsOwn`, `SubmittedOnce`, `TodayIsListed` | handlers use the state they were started in; the default range ends at midnight UTC |
| `BillingDesk` | `RowsAnswerQuery`, `PageShowsItsInvoice`, `FailureIsFailure` (`MaxDeskAsked = 1`), `DashboardIsComplete` | a list is skipped while anything loads; a reload that fails is reported as a payment that did |
| `BillingViews` | `OneSaveAtATime` | the save of a template has no flag |
| `ClientForm` | `PackageFitsCategory`, `EditKeepsDueDay` | the category is submitted before its packages are there; the day of the edit is sent as due day |
| `ClientDesk` | `NextPageExists`, `RowsAnswerFilters`, `ClientShownIsIts` (`MaxClientAsked = 1`) | the list has become shorter than the page one is on; a skipped list; an earlier client's answer |
| `AccessDesk` | `ChosenBundleIsListed`, `SecretsAreTheRouters`, `OneCreationAtATime`, `ToggleKeepsItsWord` (`MaxDeliveries = 2`) | the choice outlives its package; loads for two routers cross; a toggle is relative |
| `ServiceSetup` | `SaveClosesItsOwn`, `SetupIsCurrent` | a save closes the dialog opened meanwhile; reloads cross |
| `RouterSetup` | `VerifiedIsWhatIsSaved`, `VerifiedMeansTried` (`RouterForm.tsx:306`), `OneRouterSaveAtATime`, `OneRouterPerSetup` (`RouterForm.tsx:93`), `FirewallShownIsThere` | fields change after the test; a form that opens with an address counts as tested; the enter key submits in the first step, also twice; the submit does not say which router was provisioned |
| `RouterDesk` | `FormIsItsItem`, `DeletedStaysOut`, `OneDeletionPerItem` (`MaxNetworkAsked = 4`) | an answer for an earlier page; a list read before a deletion; a table that a reload takes away forgets that it deletes |
| `WADesk` | `MessageIsToItsClient`, `DetailIsOfTheChosen` | the number of the client before stays; an earlier campaign's detail comes last |
| `WAPanels` | `QrOnlyWhenNeeded`, `RowsAreOneQuery`, `TypedTextStays` | a slow refresh; "load more" across a change of filter; a reload fills the form |
| `AdminDesk` | `SaveIsOfItsItem` (`AdminIds = {1, 2}`, `MaxAdminAsked = 6`), `OneRemovalAtATime`, `DialogIsAnswered` | the item of a page that was left; a confirmation without a flag; the page goes with its dialog |
| `PlanForm` | `ClearedIsCleared`, `UntickedIsDropped`, `ComparisonIsTrue` | what is empty is taken from the plan; a feature is only ever added; an absent limit is 0 to the server |
| `TechnicianTasks` | `TechnicianSeesHisOwn`, `TaskShownIsThePages` (`MaxTaskAsked = 6`), `ListIsAskedFor`, `TypedLogStays` | the list is asked for again without the technician's name; one flag for every request of the store |
| `TechnicianOwn` | `CheckedInOnce`, `OwnListIsWhole`, `OneFileAtATime` (`OwnItems = {1, 2}`, `MaxOwnAsked = 5`) | another answer enables the button again; lists cross |

## 4. Proofs

Each theorem holds for every value of the constants: any number of invoices,
clients, requests, tokens, sockets and items, any totals, due days and dates.
Every invariant and every action property that a passing run checks is stated by
a theorem; what is left to TLC alone is liveness. Some theorems state what no
run repeats: the types of five modules, `ClosedTakesNoMoney`, `NoOrphans` and
`BoundedSends`, which a proof for all instances makes superfluous there.

### The backend

| Module | Theorems | Argument |
|---|---|---|
| `InvoicePaymentsProofs` | `TypeCorrect`, `PaidInvoicesAreCovered`, `DisplayedAmountsAreBacked` | `PaidIsCovered` is not inductive: what a request is about to do depends on a sum it read earlier. The strengthening `SumsAreBacked` says that a sum that was read is at most the ledger and that a request at "settle" has read one that covers its invoice; the ledger only grows |
| | `CoveredInvoicesAreSettled` | inductive with the types: an insertion leaves its request unsettled, and a request stops being unsettled only by reading a sum that does not cover the invoice or by settling it |
| | `ClosedInvoicesTakeNoMoney` | `LateIsOut`: a late request's invoice is still closed and the request is before its check, refused or failed |
| | `Refinement` | initial states and steps of `InvoicePayments` map to `InvoiceAccount`; what is displayed is a sum that was read, hence backed |
| `InvoiceSchedulerProofs` | `InvoicesAreMadeInTime` | lemmas about the calendar (`NormalisedType`, `NextMonthIsLater`, `ClampedInType`) give `DueDateIsNotOver`: what `computeClientDueDate` returns is not before today, also where it skips a month; `GeneratePreserves` uses it for both ways to generate |
| | `NextDueDatesAreComputed` | each month has one day that a due day falls on (`OneDueDayAMonth`); where `AddDate` does not overflow, next month's is later than this month's, so the first of the two that is not over is the next one (`ComputesTheNext`). For every date, not for the days of a window |
| | `InvoicesPrecedeTheirDueDay` | two calendar computations have to agree: `isDueTomorrow` picks the client today, `computeClientDueDate` picks the month. `DueOnTheDay` shows that seen from a due day, or from the day before, the date computed is that day. `DayInv`: a job that has not ended is about the day after today (or about today, when it began before midnight), its list is of clients due then, invoices lie on due days, and a client it handled has its invoice: `GenerateMakesIt` if one was made, `OneDueDayAMonth` if one of that period was there |
| `InvoiceGenerationProofs` | `TypeCorrect`, `InvoiceNumbersAreDense`, `InvoicesHaveClients` | `Dense`: the numbers are 1..k, and a number a request has counted but not inserted is at most k + 1, so that it is either refused or the next |
| | `LosersHaveAWinner` | `RowsHaveRequests`: without a purge every row was inserted by a request that ended so under the number it had counted; who meets the unique constraint meets such a row |
| `VoucherAuthProofs` | `ExpiredVouchersAreOver`, `OverVouchersStayOver`, `ClosedVouchersStayClosed` | `StaleIsOver`: the row a request is about to write back as expired was over when it was read; time does not go back |
| | `StoppedRowsTellTheTruth`, `SettledRowsAreFinal` | `TellsTheTruth`, of one session: a Stop under way, or a stopped row, says what the NAS counted in the end; the session is over then, and the NAS counts no more. It needs no order of the reports. Where only copies of the Stop are left, handling one writes what the row says already |
| | `AccountingIsPart`, `AccountingHolds` | every step of authentication is a step of `RadiusAccounting` or leaves its variables alone, so both hold with the vouchers as well (`StoppedIsTrue`, `SettledIsFinal`) |
| `WACampaignProofs` | `TypeCorrect`, `MessagesAreSentOnce` | `Tasks`, of one recipient: in the list of one request, in the queue or in the hands of one worker, and pending meanwhile (`OneTask`, `Pending`); who got the message is marked or about to be (`Delivery`). It is kept for each recipient that is in neither `hit` nor `again`, whatever happens to the others: those two sets only grow (`MishapsGrow`) |
| | `PendingRecipientsHaveTasks` | `Held`: what a reset makes pending is in the list of its request, unless it is in `missed` |
| | `CompletedCampaignsAreDone` | `Counters`: the counters and the marks that are not counted yet are as many as the recipients with each result. When the sum reaches the total, all recipients have one (`AllHaveResults`), and completion is undone by the reset that takes one back |

### The web client and the gateway

| Module | Theorems | Argument |
|---|---|---|
| `ApiClientProofs` | `TypeCorrect`, `OneRefreshAtATime`, `NoLostWakeUp` | `CallInv`: each call's record is well formed (`JobOK`, a predicate of one record, so that a step on one call is checked apart from the others), the flag is up exactly while one call owns the refresh, which is never the refresh itself (`OneOwner`), and who waits finds the flag up. The owner lowers it in the same step as it wakes them |
| | `WritesAreBounded`, `SendsAreBounded` | `JobOK` relates the counters to the marks the interceptors leave on a request (sent again with the store's token, been through a refresh, retried): a further send needs a mark that is not set yet |
| | `TokensAgreeAlways` | `TokenInv`: the three copies change in one step each time |
| `WAGatewayProofs` | `GatewayTypes`, `SessionsHaveOneTimer` | `TimerOK`, of one socket: a close arms a timer only where none is, and a request refers only to sockets that exist. It holds for each of any number of sockets, current or replaced |
| `WebPagesProofs` | all eleven properties of `web_pages` | area by area, below |

`OneAreaMoves` shows that a step of `WebNext` is a step of one area that leaves
the variables of the others alone, and `AreasHold` that `WebSpec` therefore
implies each area's own specification. Each area then has an inductive
invariant of what it keeps:

| Theorems | Invariant | Why it is needed |
|---|---|---|
| `MenuAgreesWithGuards` | `NavInv`: what is stored is something a login or a switch stored | the two tables (menu, guards) are compared entry by entry, for each role and set of features (`OfficeKeepsWord`, `StaffKeepsWord`, `OthersKeepWord`, `LinksOK`) |
| `PartialMarksAreBacked` | `RoundInv`: an amount under way is less than the bill | the mark is set by the answer, after the form has changed |
| `DecisionsStand` | `SettleInv`: a decision under way is of a settlement that is pending, and there is one; a confirmation's list has everything that was confirmed | two handlers that both started from an older list would undo each other |
| `MatrixIsOfItsQuery` | `MatrixInv`: a request not cancelled is for the query on the screen | the effect's clean-up is what makes a late answer harmless |
| `ChosenPackagesAreOffered` | `PackageInv`: the same of the package list and the category | |
| `OfferedPagesExist` | `ClientListInv`; `OfferedPages` goes through the branches of `getPageNumbers` for any number of pages | |
| `DialogsNameTheirItems` | `RoutersInv`: a deletion that a table began and has not lost since (its number is above `lostAt`) is the only one of its kind, of the item the dialog names, and holds the button | a table that was taken away and shown again may delete the same item once more, while the first deletion is under way |
| `RequestsDoNotOverlap` | `PaymentInv`, `HandlerInv`, `SaveInv`, `InstallInv`, `RoutersInv`, `SendInv`, `CreateInv`, `PanelInv`, `SubmitInv`: a request under way keeps its flag up, there is one at most, and a flag is lowered only by the request that raised it | without the second half the flag of one visit would be lowered by a request of another |
| `SpinnersAlwaysEnd` | `FlagInv`, `SpinnerInv`: a flag that is up has a request whose answer lowers it | requests that share the flag lower it early, which is allowed; none leaves it up |
| `SentLimitsAreAllListed`, `UnseenLimitsAreKept` | `PlanInv`: of the plan that is being saved, the limits are ones it lists, and what the form does not show is as the server has it | a save is answered after further edits |

### Assumptions

Those the modules name: `TotalAssumption`, `AmountAssumption`,
`ClientAssumption`, `DayAssumption`, `RequestAssumption`, `VoucherAssumption`,
`BoundAssumption`, `CampaignAssumption`, `ApiAssumption`, `GatewayAssumption`
and those of the pages. They state that bounds are numbers and that special
values ("none", ...) are not among the items; TLC evaluates them on every run.
`InvoiceNumbersAreDense` needs the set of numbers to be finite, which is a part
of the invariant.

No theorem assumes an order of events that the code does not enforce. What a
property leaves out is a history variable in its own formula: `losses` and
`overtaken` (`EndedIsStopped`), `hit`, `again`, `missed` and `early` (campaigns),
`purged` (`NumbersAreDense`, `ConflictHasWinner`, `NoRegeneration`).

### Only model-checked

- `CoveredEventuallySettled`, `EndedIsStopped`, `CampaignCompletes`,
  `SettlesUnlessStuck` and `RequestsAreAnswered`: liveness under fairness, which
  the prover does not reach (nor `ENABLED`). The safety part of each is proved:
  what waits has somebody who will wake it (`NoLostWakeUp`), a covered invoice
  has a request that will settle it (`CoveredInvoicesAreSettled`), a pending
  recipient has a task (`PendingRecipientsHaveTasks`).
- `TemplateStartsAtCreation`, `OnlyAcceptedBurn` and
  `NoPageTwice` are definitions that hold on the instances of their modules but
  belong to no run and no theorem; put one in a configuration to check it.

## 5. What is abstracted, and what is not modelled

- One tenant: every query of the modelled code carries the tenant's id.
- Amounts are integers as in the database (`int64` cents or rupiah); the bounds
  of 64 bits are not reached by sums of invoices.
- Prices, items, tax, names, methods of payment and notes are data no property
  depends on.
- `MarkInvoiceAsOverdue` has no caller, and nothing writes the status `draft`.
- The scheduler's list of clients is read in one step; the code pages through it
  100 at a time, so that a client added or removed meanwhile may shift a page's
  border; the model's list is that of one moment. Clients and tenants are active.
- The `weekly` timetable of the clean-up is not modelled; its effect on invoices
  is `HardDelete`.
- Which router a request comes from, and the repair of NAS addresses, are left
  out of authentication and accounting.
- The web client is modelled page by page, not together with the backend: an
  answer succeeds or fails, and what the server keeps is as much of it as the
  page shows. Two users of one tenant are two processes of the backend's modules
  and never of a page's.
- Presentation is left out: formatting, toasts, charts, columns, responsive
  layout, debounce (a filter's change is its effect). Validation of fields is
  kept where a button or a request depends on it.
- Downloads, printing and the browser's own history are left out; a link, the
  sidebar and an address typed in are how pages are reached.

### Not modelled

| Part | Why |
|---|---|
| Clients (server), plans, limits and features, service catalogue | records read and written one at a time; the limit of clients and the uniqueness of their codes are checked on an earlier read, which the component's note says |
| Voucher packages and generation | random codes inserted one by one under a unique constraint |
| Voucher isolation, PPPoE secrets, networks and routers (server), NAS resolution | the table first and a device after it, with failures only logged: the program never learns the device's state, so nothing relates the two |
| Payment matrix (server) | a read-only report |
| Maps and outages | topology rows and their drawing; the status of the nodes below an outage is written one by one with errors ignored, and no text says what it should be under two outages |
| WhatsApp log and templates (server) | a row written and updated by its own sender |
| Authentication and roles, HTTP middleware | tables of capabilities; a counter per window in Redis |
| Staff and human resources pages | lists and forms of the shape of `AdminDesk` over endpoints of their own |
| Tables, inputs and types of the web client | presentation and declarations; `DataTable`, `ConfirmModal` and `TabLayout` are mapped where a page's behaviour depends on them |
| Validation and test harness, metrics and health | readers of the tables |

## 6. Plan

What is written, in order: payments and their abstract account; due dates,
scheduler and generation; accounting and vouchers; campaigns; the web client's
session; the gateway; the pages. What would come next:

1. Proofs: `NoPageTwice` and `OnlyAcceptedBurn`; the types of the page modules;
   `EndedIsStopped` and `CoveredEventuallySettled` as safety under a bound on the
   steps of a request.
2. The client's status and quota (`ClientLifecycle`), beside
   `InvoiceGeneration`'s purge.
3. `ApiClient` composed with `InvoicePayments`: a payment that is posted again
   when its answer is lost.
4. An abstract campaign in which each recipient is sent to, counted and finished
   once, refined where nothing is repeated.
