# ReclaimR in TLA+

A verification development for ReclaimR, a service that finds a member's
subscriptions and bills in their bank data, cancels or renegotiates them through
a concierge, and charges a fee on what a negotiation saves. The modules here are
written from the TypeScript sources (`apps/`, `packages/`); paths below are
relative to the repository root. `PROJECT.json` ties each definition to the lines
it models and lists runs, properties, mutants, findings, hazards and theorems.

## 1. The system

Fastify API (`apps/api`) over PostgreSQL through Prisma; a BullMQ worker
(`apps/worker`) over Redis that runs the *same* service classes; a Next.js client
(`apps/web`); pure rules in `packages/core`; job names and retry defaults in
`packages/queue`. Outside: a bank data aggregator (Plaid), a billing provider
(Stripe), a language model, an object store.

Three facts decide what can go wrong:

1. **Handlers are read, check, write.** A service loads a row, checks it in
   memory and then issues `update({ where: { id } })`. PostgreSQL runs READ
   COMMITTED, nothing is locked and no version is compared. Two requests for one
   row may interleave between the read and the write, and the second write is
   *blind*.
2. **Only unique indexes really exclude.** `savings_events(sourceType,
   sourceId)`, `stripe_events.id`, `transactions.externalId`,
   `premium_subscriptions.userId`, `plaid_items.externalItemId`,
   `connected_accounts(plaidItemId, externalAccountId)`,
   `merchants.normalizedKey` and a few more. "One open case per bill", "one row
   per merchant", "at most so many documents" and "one unread alert per key" are
   checks by query only.
3. **Work is repeated.** Jobs run up to five times with backoff, stalled jobs are
   run again, the daily sweep and a member's button enqueue the same sync, and
   the billing provider delivers events at least once in any order.

### Components

| Component | State | Operations | What makes it correct | Module |
|---|---|---|---|---|
| Case rules (`packages/core/src/cases`, `money`) | none | transition tables, timelines, fee of a settlement | members alone turn an offer into a success; fees are the nearest cent and never exceed the saving | `CaseRules`, `Settlement` |
| Negotiation service | `negotiation_cases` | create, withdraw, approve, reject, concierge advance | a case is settled once, on an offer that was published, and its history is legal | `Negotiation` |
| Savings ledger | `savings_events` | record; summary and list | one credit per case, never changed; what is read of it while it grows misses nothing | `CreditOnce`, refined by both case modules; `Reclaimed` |
| Cancellation service | `cancellation_cases`, the status of `subscriptions` | create, withdraw, concierge advance | saving = a year of the snapshot, booked with the retirement of the row; flag and case agree | `Cancellation` |
| Subscription service | `subscriptions` | create, update, remove | does not pull a row from under a case | `Cancellation`, `Detection`, `Advice` |
| Subscription detection | `subscriptions`, `alerts` | recognise series, find or create, refresh, draft alerts | one row per merchant, every new row and new price announced | `Recurrence`, `SeriesWalk`, `Detection` |
| Bill detection, bills | `bills` | recognise, find or create; create, edit, archive or delete by the member | cases keep their bill | `Bills` |
| Alerts | `alerts` | evaluate, record | one unread alert per key; nothing that should be announced is missed within the days looked back | `Detection`, `Bills`, `Watch` |
| Calendar and reminders | none | due dates of a bill over a window, next due date | exactly the clamped days of the cadence | `Calendar` |
| Billing webhooks, premium, entitlement | `premium_subscriptions`, `stripe_events` | handle, upgrade, cancel, resume, requirePremium | events count once, access follows what was paid | `Billing` |
| Transaction sync | `plaid_items`, `connected_accounts`, `transactions` | syncItem, sweep, member's sync, relink | the table catches up with the bank whatever is cut short | `TransactionSync` |
| Job pipeline | five queues | serve, follow up, retry, inline chain | what is stored reaches every stage | `Pipeline` |
| Bank adapters (`adapters/plaid`) | a cursor, names of institutions | getAccounts, syncTransactions, institution names | a sync that caught up has every entry once; a name is not asked for again and again | `BankAdapters` |
| Plaid linking | `plaid_items`, `connected_accounts` | exchange | a bank item has one member | `Linking` |
| Authentication, deletion of accounts | `refresh_tokens`, `users` | register, login, refresh, logout, schedule deletion | a token is used once; no session outlives its revocation, requests in flight apart | `Sessions` |
| Negotiation statements | `negotiation_documents`, object store | upload | the cap, rows and bytes agree | `Statements` |
| AI advice | `ai_suggestions` | generate, enqueue, delete with the subscription | what is stored is cheaper than what was paid | `Advice` |
| One-time codes of staff | none | login with TOTP | skew and typing time within the tolerance sign in, more do not | `SecondFactor` |
| Staff console, audit, merchants | `admin_users`, `merchants`, `audit_log` | create, update, upsert, record | a demotion bites; the trail explains the row | `Staff` |
| HTTP shell (`app.ts`, routes, plugins) | access tokens, rights | route, guard, answer or fail | who is let in, however late the request is served | `Gateway` |
| Savings, rot score | none | monthly equivalents, spend, score, tiers, portfolio, the figures of each page | totals, tiers and pages agree with each other | `Money` |
| Web client | browser storage, tabs | guards, sign-in and -out, onboarding wizard | the stored wizard is a place its member can be | `Device` |
| Dashboard | what each tab shows, requests under way | load, cancel, reactivate, add | what the member was told is so; one row per reported success | `Dashboard` |
| UI kit with state (`packages/ui`) | scroll lock, focus, toasts, theme | dialogs, toasts, theme toggle | the page is given back; the theme shown is the theme stored | `Widgets` |
| Seed (`prisma/seed.ts`) | the demo rows | one run of the script | a run that reported success left both members whole | `Seed` |

### How they meet

- Negotiation and cancellation both write the **ledger** inside a transaction of
  theirs; the ledger catches a unique violation in the caller's transaction.
- Cancellation, the subscription service and **detection** all write
  `subscriptions.status`. Detection runs in the worker at any time.
- A sync job enqueues detection, detection enqueues alerts and advice; every
  stage retries on its own. Sync, linking and the sweep share
  `plaid_items.status`.
- **Entitlement** is read from the mirror alone, which webhooks and the member's
  cancel and resume both write. Concierge routes stand behind it.
- A bill and its negotiation cases meet in a foreign key that refuses the
  deletion, and an upload and its case in the status the upload reads first.
- `merchants` rows are written by staff and upserted by every sync.
- Every request passes the **gateway**'s guards before its service, and what the
  guards read (token, membership, role) may change before the service writes.
- The **dashboard** gives a request up after two seconds; the API may carry it
  out nevertheless.

## 2. Modules

Convention: an HTTP request, a job or a tab is a *slot* (`Requests`, `Handlers`,
`Jobs`, `Runs`, `Calls`, `Tabs`...) holding what it has read. `Begin...` is the
read with every check and early return, as guards; `Commit...` is the statement
or transaction that writes. A request refused by its checks changes nothing and
is no step. `Drop`, `Crash`, `Die` is a process that dies, or whose transaction
is rolled back, in between. Wording and dates that no check reads are left out.
Operators named `Bug...` are wrong variants of the definition after them: each
property has one that breaks it, listed under "mutants". Constants that bound a
behaviour are marked BOUND.

### Cases and money

**`CaseRules`** - `state-machine.ts` as sets of triples, the fee of
`settleNegotiation`, rounding of non-negative cents (half up).
**`Settlement`** raises a saving cent by cent at every fee of the 35..60 band,
with the choices and the preview of the dialog that asks for the fee.

**`Negotiation`** - one row per case: status, offered, confirmed, fee, response
and resolution marks, timeline. `CommitApprove` is the transaction: the row, then
the credit; if the unique index refuses the credit the whole transaction is
undone (PostgreSQL has aborted it) although the handler answers success.
`published` is a history variable: the offers ever made for a case.
**`NegotiationModes`** chooses at the start of a behaviour between any requests
on one case and one request at a time on all cases, which is what the promises of
the comments hold for.

**`Cancellation`** - cases, subscriptions and ledger. `Patch` and `Remove` are
the member's edits (`Remove` meets the RESTRICT foreign key), `BeginDetect` and
`CommitDetect` a detection run that found a series for the row. `disturbed` is a
history variable: subscriptions on which two requests were in flight at once, or
that an edit or a detection run wrote.

**`CreditOnce`** - the abstract specification of the ledger: figures are tabled,
a source is credited once with a tabled figure, nothing changes afterwards.
`Negotiation` and `Cancellation` implement it (`Book`, property
`ImplementsCreditOnce`); the mapping reads the first ledger entry of each case.

**`Money`** - monthly equivalents, spend, estimates and the rot score as
operators, walked over prices, cadences and hours; beside them what the client
reckons itself: the cards of the overview, the bills page, the banner over the
subscriptions and the card of one, the savings page. It puts itself together with
`Settlement`, with which it shares the rounding of cents (`RoundingSpec`).

**`Reclaimed`** - the ledger as it grows, the summary's three reads that come
back in any order, the list's pages by offset with the count read apart.

### Premium

**`Billing`** - the provider's subscriptions (external: `Complete`, `Renew`,
`Dun`, `End`, `FinalInvoiceFails`, `Tick`) emit events; `Receive` claims one and
does the handler's reads, `Apply` its write. Any emitted event may be received
next: loss, delay and reordering are in the order chosen, and a redelivery of a
claimed event is a no-op. `MetaKept` says whether later events still carry the
metadata that names member and price. `now` counts billing periods. `orderly`
remembers that events were handled in order and one at a time, `crossed` that a
checkout or a final invoice met another living subscription of the member.

### From the bank to alerts

**`TransactionSync`** - the aggregator is a log; a cursor is a position in it.
A job goes through `Begin` (the item with its cursor, the accounts asked for),
`Upsert` account by account, `LoadAccounts`, `Fetch`, then `Look` and `Insert`,
`Modify`, `DeleteRemoved`, `SaveCursor`, `Finish`, `FinishAccounts`; a sync that
throws goes through its handler, `RecordSyncError`, `RecordAccountErrors` and, for a
member who must log in again, `RecordAlert`. Each is one statement or call.
`CallFails` fails any call of the sync itself; a write of the handler fails by
`SwallowRecord`, and the handler goes on as the code does. `Crash` kills the process
(a queued job is run again, an inline one is gone). `Expire` makes the bank refuse
until the member logs in there again: `Relink`, then `RelinkItem`, `Upsert` account
by account and `EnqueueLinked`, which `RelinkFails` breaks off anywhere. `cut`
remembers that a sync or a relink died, that a relink failed half way, or that the
handler lost a write, until a sync or a relink runs to its end.

**`Pipeline`** - how many jobs of each stage wait or run, and at which follow-up
each stands; what a stage did is the version of the data it saw. `FailJob` fails
any attempt at any point, after some of its follow-ups were enqueued or all.
Without a queue `BeginInline`, `RunInline`, `FailInline` are the chain of
`SyncPipeline`, where any stage may fail alone.

**`Stats`, `Recurrence`, `SeriesWalk`** - the detection engine over the charges of
one merchant: gaps, bands, medians (doubled, so that they stay integers), spread,
prices, grace; a history grows charge by charge and day by day. A merchant found
over some charges stays found when the next is on time (`OnTimeStaysFound`): the
median moves towards the new gap, and where the mean fits the band as the gap does,
they are two tolerances apart at most, which is below the 35% of the cadence that the
spread may reach.

**`Detection`** - a run of subscription detection and its alerts, one statement
at a time, with another run, a crash and a retry anywhere, and the member's edits
and deletion. `met` and `cut` remember that two runs were in flight and that a
run died after writing a row.

**`Bills`** - bill detection, `BillService`, reminders and the negotiation cases
opened on bills, in the same way; `CreateBill` makes a bill with or without the payee,
`EditBill` archives, restores, or moves one to another payee. `byHand` is a history
mark on a row: the member made it, restored it or moved it. **`Calendar`** -
`clampedDueDate`, `billOccurrences`, `nextDueDate`, the windows of the reminder and of
the calendar route, and the charge dates a subscription's page lists, for a clock that
goes day by day. **`Watch`** - low balances and large purchases over the days:
purchases are stored late, evaluations are lost, and each looks back seven days.
**`Days`** puts both together: what the days bring a member.

**`BankAdapters`** - the built-in bank: `Built` plans a history in the order in which
the code pushes its entries, `Made` keeps those that the clock has reached, `Sorted`
is their order by day, `BuildHistory` the history of a day with its entries numbered
as they are made; `SyncTransactions` reads from a cursor that counts entries; `AskName` and `KeepName` are the HTTP adapter's memo of names.

**`Linking`** - exchanges of public tokens by several members, and the accounts
a sync refreshes meanwhile.

### Accounts, documents, staff, client

**`Sessions`** - users, the token table and calls in flight. `Rotate` is the
update that revokes and links, `Issue` the insert; `Break` fails a call between
them. **`Statements`** - uploads against the cap, `Put` before `InsertRow`, and
`Cleanup` after a failed insert. **`Advice`** - generation jobs around the model
call, beside edits and deletions. **`Staff`** - tokens, capabilities, merchant
edits with their audit entries, detection's upserts. **`SecondFactor`** - one
sign-in with a code, by two clocks. **`Device`** - the browser's
storage and the tabs that read it: guards, sign-in and sign-out, the onboarding
wizard and its connections that answer late. **`Dashboard`** - two tabs of the
subscriptions pages: what they show, the presses, requests that are answered,
refused or given up, and other writers.

**`Gateway`** - every route as its file, its guard and whether it writes; one request
goes from `RequestArrives` through its guards to `AnswerRequest`, and between any two
steps tokens age, the membership ends, the account is scheduled for deletion or a
member of staff is demoted. `ReadAccount` is the check of the services that turn a
closing account away, the profile with 403 and the others with 400. A sign-in is two
steps, `CheckAccount` and, after what is awaited, `IssueToken`; `overtaken` remembers
that the account began to close between them. Requests do not meet at the gateway
(each reads what it needs and decides for itself), so one slot shows all there is.
**`Widgets`** - dialogs (`Lock`, `GiveBack`: the effect and its clean-up; `Rerender`:
all clean-ups and then all effects of the open dialogs that a render reaches), toasts
with timers, the theme of several tabs over one stored value. **`Seed`** - the script
as a sequence of statements, run by several seeders.

**`MC*`** - model values, symmetry, and the composition of parts that share no
state: a behaviour of `MCRules`, `MCDetection` or `MCServices` is one of a single
part, so that their states add up and do not multiply.

## 3. Runs

Passing runs:

| Run | Instance | What it shows |
|---|---|---|
| `negotiation` | 2 requests on 1 case, or 1 request at a time on 2 cases of one bill; 2 offers, timelines to 8 | whatever interleaves: one credit, fee and credit from one published offer, legal timelines, `CreditOnce` implemented. One at a time (`SerialRows`, `SerialWrites`): resolved stays resolved, timelines append-only, one open case, credits explained, columns consistent, approvals take effect |
| `rules` | savings 0..300 at fees 35..60; 130 days over a year's end and a leap day; prices 0..24 and hours 0..24; histories of 5 charges; 4 days with 2 purchases and 2 lost evaluations; one change through the pipeline with one fault; one request among tokens of one tick; 2 dialogs, 3 toasts, 2 tabs; a built-in bank of 9 days in months of 4; 2 seeds; 4 events read in pages of 2; codes typed up to 65 seconds late | parts that share no state: fees are the nearest cent, a cancellation books a year of what the row costs monthly, the rot score is the wasted share of the price, and pages that reckon apart agree (`RoundingIsSound`); due dates are exactly the clamped days, and standing alerts miss and repeat nothing (`DaysAreKept`); a merchant that charges on time stays found, at the edges of the bands too; drained queues mean that everything was evaluated, and new data reaches the alerts (liveness); who is let in and what they can still write when rights end; the page, the focus and the theme are given back; a sync that caught up with the built-in bank has every entry once; seeds that overlap and die leave no half member behind a success; summaries and lists of a growing ledger miss nothing; codes within the drift sign in |
| `cancellation_races` | 2 requests, 2 cases, 1 subscription, prices 0 and 10 | credits are snapshots booked with the retirement; undisturbed subscriptions keep every promise on money and on status; `CreditOnce` implemented |
| `billing_races` | 2 handlers, 1 member, 2 subscriptions, 7 events (4 once things go out of order), 2 periods, metadata kept or stripped | no event written twice; stale access never exceeds a paid period; the mirror is exact once all is handled in order |
| `transaction_sync` | 2 jobs, 1 transaction, 2 changes, page and page limit 1, 2 attempts, 2 faults (of calls, of the handler's writes, of relinks, of processes) | one sync at a time always catches up; overlapping ones never lose a transaction; statuses agree once nothing of a failure or a relink was lost; a connected item settles (liveness) |
| `detection` | 2 runs over 5 months, 2 prices, 2 rows, 1 edit; 2 workers, 2 bills, 4 charges, 2 periods, 2 moves; 2 desks, 2 merchants, 3 changes of rights | alone, runs and evaluations never duplicate a row or an alert; overlapping or crashing ones still announce every row and price; of bills that members make and move as well, detection's own stay single; a bill with a case is not deleted; the trail explains the merchant and a demotion bites |
| `services` | 2 slots in each of six services | one live token per chain, and sessions after a deletion only from calls already past their read; the cap plus the uploads in flight; rows and objects agree; advice is cheaper than the price it was made for; an item and its accounts have one member; the stored wizard is sound; what the dashboard told the member is so, unless presses overlapped, an answer was given up or others wrote |

Runs that find a disagreement between code and comments, each a shortest trace:

| Run | Claim | What happens |
|---|---|---|
| `negotiation_reopened` | "a resolved case can never be reopened" (state-machine.ts:9-10) | a write from a stale read moves a resolved case on |
| `negotiation_wedged` | losing the ledger race is reported, not thrown (savings-ledger.ts:19-20) | the caught violation leaves an aborted transaction: an approval of a case that was credited and re-opened never takes effect |
| `cancellation_twice_booked` | two open cases "could book the saving twice", so one is enforced (cancellations/service.ts:99-101) | two creates at once, two cases, two credits |
| `billing_paid_out` | "Members keep everything they paid for until the period closes" (premium.service.ts:95-96) | with two memberships the end of one overwrites the row of the other |
| `transaction_sync_overlap` | "Every step is idempotent", "re-applied pages are no-ops" (transaction-sync.service.ts:32-36) | a sync that saw a transaction missing inserts it after another removed it, and the saved cursor is past the removal |

### Why the bounds are enough

Two requests, handlers, jobs or tabs are the fewest that race; one row is what
they race for, and two appear where a property relates two. Two offers tell a
settlement of a stale offer from one of the current offer. A timeline of 8 allows
two rounds of offer and answer after a re-opening. Prices 0 and 10 cover the
guard that skips an empty credit. Seven billing events cover checkout, its
snapshot, a failed charge with its snapshot and a deletion, and then a second
checkout with its snapshot; four are enough for events that go out of order to
overwrite each other, and `MaxMuddle` stops there. Two periods let one lapse and
be renewed or not. A log of two changes at page size and page limit 1
makes every page end in a saved cursor and every sync stop at the limit with work
left; two faults allow a failure in the retry of a failure, so attempts run out.
`transaction_sync` leaves the first account of the item, which posts nothing, out
of the instance; the one in it may be exposed at any time, so that a sync meets
an account it does not know.

Five months are three charges that make a series, one at a new price and one after a
silence; two rows are the fewest that duplicate. The gaps of 6, 8, 28 and 33 days of
`rules` are the edges of the weekly and the monthly band, those of 24, 38 and 45 lie
outside of both and have medians and means within; five charges have medians of odd
and even numbers of gaps, and 60 days of silence outlast the grace of a month. The
walk of 130 days from 20 November 2027 meets short months, a year's end and 29
February 2028 with due days 1, 28, 29, 30 and 31. Three tokens allow a chain that is
rotated twice or a second chain beside one rotation; a cap of 2 is reached by two
uploads.

Two purchases, five days apart, and two lost evaluations reach the seven days from
both sides; balances of 4999 and 5000 and purchases of 25000 and 25001 cents are
the thresholds. Three toasts, two dialogs and two tabs are the fewest that close
or change in another order than they opened. Months of four days put a page
boundary, a month's end and a clamped day within a week, and nine days reach the
month after; every token of three numbers below three, repeated, is tried. Typing times
to 65 seconds with a drift tolerance of one step of 30 pass both of its edges.
Two seeds of twenty statements meet, repeat and die at every statement.

Deadlock checking is off where ids, events, prices or visits run out by design,
each time with a comment in the cfg.

### Fairness

Most modules state safety only. `TransactionSync` assumes weak fairness of each
job's own steps - BullMQ runs what it holds, and a live process goes on - and of
the daily sweep, a cron repeat registered at worker start. `Pipeline` assumes
weak fairness of the workers of each stage (`index.ts` starts one per queue) and
of the sweep, and of nothing without a queue. Nothing is assumed of members, the bank, or of any
failure: faults are bounded and need not happen. `HealthyItemSettles` excuses an
item that does not stay connected, because the sweep (`maintenance.processor.ts:20`
reads connected items only) really leaves those alone. `NewDataIsEvaluated` needs
no such excuse: a job that used up its attempts is made good by the next sweep.

### History variables and excuses

Some promises hold only when requests do not meet, and the runs above show the
trace when they do. They are stated as such: `SerialRows`, `UndisturbedMoney`,
`UndisturbedStatus`, `UndisturbedCatchesUp`, `SoloRunsNeverDuplicate`,
`BillsAreSound`, `SessionsAreSound`, `DashboardIsHonest` and `MirrorFollowsProvider` name the
history they need (`disturbed`, `overlapped`, `orderly`, `met`, `cut`, `byHand`,
`late`, `overtaken`, `muddled`, `crossed`, `parted`...).
`lost` in `TransactionSync` holds transactions with a change the code leaves out
on purpose or by accident: an account not in the map (line 161), an update whose
error was swallowed (line 198).

## 4. Proofs

Eight modules hold theorems; all are about every value of the constants (any number
of requests, rows, events, documents), where the runs look at two of each.

| Module | Theorems | About |
|---|---|---|
| `NegotiationProofs` | `FeeWithinSaving`, `OnlyMemberSucceeds` | the fee of `settleNegotiation` lies between zero and the saving; only the member turns an offer into a success |
| | `Invariance`, `TypeCorrect`, `LegalTimelines`, `SettlementAgrees`, `RefinesCreditOnce` | types, legal histories, settlements of one published offer, refinement of `CreditOnce` |
| | `SerialRowsHold`, `SerialWritesHold` | one request at a time: one open case per bill, credits explained, columns consistent; resolved stays resolved, timelines grow, approvals take effect (an action property) |
| `CancellationProofs` | `CancellationTypes`, `CreditIsSnapshot`, `CreditRetires`, `CaseKeeps`, `CancellationRefinesCreditOnce` | credits are a year of the snapshot, booked with the retirement; a case keeps its subscription; refinement of `CreditOnce` |
| | `UndisturbedMoneyHolds`, `UndisturbedStatusHolds` | subscriptions over which no two writers met keep the promises on money and on status |
| `BillingProofs` | `BillingTypes`, `AtMostOnce`, `AccessIsBounded` | no event is written twice; access never exceeds a period that was paid |
| | `MirrorIsExact` | handled in order, the mirror is what the provider has |
| `TransactionSyncProofs` | `StatusIsShown` | accounts show the status of their item, and a member who must log in again was told, unless writes of a handler or of a relink were lost |
| | `NothingIsMissing`, `UndisturbedSyncCatchesUp` | the saved cursor passes nothing that is not stored, however syncs meet; with one sync at a time the rows catch up with the bank, for every log and page size |
| `DetectionProofs` | `RerunsAreIdempotent`, `RowsAreAnnounced`, `BillsStaySound`, `StaffAnswersForMerchants` | detection alone duplicates nothing, overlapping it announces everything; bills with a case are not gone, and of one payee's active bills one at most is detection's own; trail and rights of staff |
| | `DueSubscriptionsLast` | the engine gives up no subscription before its next charge is due, whatever the charges |
| `ServicesProofs` | `OneMember`, `StatementsHold`, `SessionsHold`, `WizardHolds`, `DashboardHolds`, `AdviceHolds` | links, statements, token chains, the wizard in many tabs, what the dashboard tells, advice for any answer of the model |
| `RulesProofs` | `AdmissionHolds`, `NothingOwed`, `DriftIsTolerated`, `SeedHolds` | who is let in, for tokens of any lifetime; drained queues; codes for every drift; any number of runs of the seed |
| | `LedgerReadsHold`, `PageComesBack` | what is read of a ledger of any length while it grows; any number of dialogs give the page back, while no render reaches two |
| | `DaysHold` | due dates are exact on every day of the calendar, for every cadence and horizon; standing alerts for any purchases, delays and lost evaluations |
| | `RoundingHolds` | fees are the nearest cent at every saving; what the pages reckon apart agrees for every price, cadence and use |
| | `BankAdaptersHold` | a sync that caught up with the built-in bank has every entry once, for every token, month and page; names are not asked for again |
| `Induction` | lemmas only | induction and recursion over numbers, from least elements |

**Assumptions.** The named ones on constants (`DataAssumption`, `BillingBounds`,
`StaffAssumption`, `SeedAssumption` and the like) say that amounts, fees and bounds
are natural numbers, that sets of ids hold what they should, and that values which
stand for "nobody" or "none" are not members of the sets they are compared with. Sets
are assumed finite where the proof counts them (`SessionsAssumption`,
`DashboardAssumption`, `StaffAssumption`, `BankAdaptersAssumption`).
`SettlementAgrees` assumes in addition `OffersPay`: every offer leaves the member
something after the fee. The ledger books nothing for a saving of zero, so without it
a settled case may have no credit at all. `RefinesCreditOnce` needs no such
assumption. Nor does the cancellation side: a credit of zero is no entry there and
maps to none.

**Why the invariants are stronger than the properties.** The writes are blind, so
a statement about rows is not inductive: it must also say what each request in
flight has read, and how far that may have aged. This is the pattern of nearly
every invariant below. Where the property excuses requests that met, the invariant
says that a request *alone* has read what is still so; where it excuses nothing,
that what was read was true once.

**Negotiation.** `RequestsSound` says that a snapshot was once the row: its
timeline is legal and its offer was published. Writing it back therefore keeps the
timeline legal (`ExtendIsLegal`) and the money that of one published offer
(`Money`). The refinement maps an approval that books to `Credit`, the publication
of an offer to `Table`, and every other step to a stutter. `SerialInv` adds, for
one request at a time, that its snapshot *is* the row and its checks still hold
(`FreshRead`).

**Cancellation.** `IInv` is `TypeOK`, `CaseKeepsSubscription`, `CreditHasCase`,
`CreditIsSnapshotOnce` and `CreditRetiresSubscription`. That a subscription with a
case is never deleted (`SubsKept`) rests on the foreign key, and the credit on the
unique index; neither rests on the checks of the handler, which is why they hold
however requests interleave. `UInv` is about undisturbed subscriptions: one request
at most is about it, what that checked is still so (`Fresh`), and row, cases and
credits agree (`Agree`).

**Billing.** `IInv` is `TypeOK` with `ProviderSound`, `EventsSound`,
`MirrorSound`, `RequestsSound` and `WrittenOnce`. The provider only ever extends
what was paid; so a date in an event, a row or a write under way, however old, is
covered by some subscription of its member (`Covered`), and an event that is
handled out of order cannot bring more than that. A dateless `checkout_completed`
is written only over a row, whose date it keeps. An event in a handler is claimed
and not written, and has that one handler. For the exactness of the mirror,
`OrderInv` says that one request is under way and events are claimed in order, and
`FollowInv` that a living subscription has been told of: the last event about its
status tells all there is to tell, and every later one leaves that alone. The last
events handled then decide the row.

**TransactionSync.** `StatusInv`: an account is known once it was exposed (`Known`),
one sync runs while none overlapped (`Alone`), and an attempt that reached its last
write to the accounts left the item connected (`Ending`), one in its handler has
written of the failure what its point says (`Failing`). While nothing of that was
lost, a member who must log in again was told (`Told`), and between syncs item and
accounts agree (`Agreed`). `FlowInv` adds the rows. Of the log: a transaction is added
before it is changed and removed last (`LogSound`), so one row stands after each
prefix (`Stands`), and replaying from a cursor what *any* later prefix leaves ends
where the bank is (`CatchUp`, an induction over the log). Of the jobs: what is left of
a page are its last writes, in the order they are made, with all removals behind them
(`PageSound`). `Held` needs no luck with other jobs: what the saved cursor, a job's
cursor or its page has passed is stored, left out, removed at the bank or still to be
written by that job. `Solo` holds while no syncs overlapped: each row is the one of
some prefix behind the saved cursor, and what follows in the page is still to be
written. A retry that reads a page again moves rows along these prefixes or leaves
them, which is why it is a no-op in the end.

**Detection, Bills, Staff.** `DInv`: a run that is alone found the row that is
there, or none if there is none (`Foreseen`), and drafts what nobody was told
(`SoloInv`); a run that read an alert as recorded read one that was, and what was
not told is in somebody's drafts (`ToldInv`). `BInv` says the same of bills and
reminders (`AloneInv`); that a bill keeps its cases rests on the foreign key.
`TrailInv`: the one desk that changes a merchant has read what the row is, or owes
the entry that leads from the last one to the row; `GraceInv` counts requests
past the guard as if they had written already. *The engine*: every rank of a list
has its value, so twice the median is a whole number, and a cadence band makes it
positive; the next charge is predicted one median later, and the engine waits one and
a half (`DueSubscriptionsLast`).

**Services.** *Linking* and *Statements* tie what a request read to the table: an
exchange that found no row may only insert, and the insert is unique; an upload
past the count has reserved one of the places beyond the cap. *Sessions*: a chain
has one token that is not revoked or one call that replaces it, and neither after a
logout (`ChainSound`); sessions on their way count as given (`Counted`). *Device*:
what one tab shows is what is stored (`OwnPlace`), and one connection answers to
the banks its tab lists (`OneConnection`). *Dashboard*: a press alone on its row
was told nothing yet and, once served, saved what it asked for (`Lonely`); rows
that a form made are answered, about to be, or among those it is not sure of
(`RowsCounted`). *Advice*: what is built of an answer is good after each of its picks
(by induction over the answer), and once a subscription that no job had read is gone,
no job has anything to write.

**Rules.** *Gateway*: what a guard found may have ended when the service answers, so
the invariant remembers it: a member's request past its guard was let in while the
newest token lived (`InTime`), and no token is signed after the account began to close
(`Closing`), which bounds the admission by the token's life - but for a sign-in that
was checked before and signs after (`overtaken`), from whose signature the bound then
counts; a paid-for route was passed by somebody entitled within the request
(`VisitEntitled`). `RoutesAreSound` is the table's part: a concierge route that writes
is paid for, and only routes that write are. *Pipeline*: a stage that has not seen the
data of the last sync has a job before it that will still come to run it (`QueueOwes`,
and `ChainOwes` without a queue). *Seed*: a run that came so far has written all that
comes before for accounts that are its own (`WrittenFor`), and from the first case on
they are, because a case in the table keeps every other run from deleting the members
(`HasWritten`). *Widgets*: while dialogs close in the order opposite to their opening
and no render reaches two of them, the first of them found the page free, each other
one found it locked, and each was opened from a button, which gets the focus back.
*Reclaimed*: each sum over the first events only grows with them, and those of one
kind or one month are part of the whole; a list reader has seen every event of its
beginning that stood before its page, because recording moves events only further
back.

*Calendar*: the steps of the walk are easy once a day is tied to its month. Days are
counted as the code's epoch days are, so a year and a month are quotients with
corrections for leap days (lemmas on the eras, centuries and years of four that
`Month` divides by), and each day lies between the opening of its month and the next
one's. Due days are then four weeks apart at least, and what a window of months
enumerates is what a test of each day finds. *Watch*: a large purchase that may still
be announced waits no longer than evaluations were lost (`LargeInv`), which is within
the seven days looked back exactly if its delay and the losses are; what was raised is
raised once. *Money*: a rounded quotient is within half its divisor of the whole
(`RoundedIs`), and what is shown apart differs by the halves that it was rounded at;
the score's square root is kept as the inequality that defines it, and an average by
price lies between what it averages. All this holds of any price, cadence and use, so
the walks need no more invariant than their types.

*Bank adapters*: while no purchase is ahead, every day of a month has one plan
(`BuiltSame`), of which a later day has made more; ranks by day move nothing that was
made before (`RankStays`), so a position in yesterday's history holds what it held.
What was delivered lies before the cursor in the history of some day since the first
page (`OnlyRead`), and everything before the cursor was delivered (`AllRead`). Entries are
numbered anew every day, and a number only grows: an entry of a later place is
therefore none that was delivered already (`EntriesDiffer`), even where two have one day
and one description. Of the names: while one is unknown, all who asked for it still wait
(`NamesIn`). That purchases may be ahead, or the month may end, is excused because the
property fails then: the numbers behind a purchase that was ahead shift, and the
history drops its oldest month.

**Induction over data.** The theorems of the library about induction take an
operator as a parameter, which the provers cannot instantiate. `Induction` states the
two facts that are needed about sets and functions instead, from the least element of
a set of numbers: a set that holds 0 and each successor holds every number up to a
bound (`Climb`), and a function is defined by its first value and its step
(`Recursion`). The models therefore define what walks over data as a recursive
function of how much of it was looked at (`BuildContent`, `SumOf`, `Filtered`,
`Replay`, `SumSeq`), and an order by ranks (`NewestFirst`, `Ranked`, `Sorted`), where a
fold or a sort of the community modules would leave nothing to reason from.

**Model-checked only.** Liveness and fairness are out of the prover's reach
(`HealthyItemSettles`, `NewDataIsEvaluated`): both stay with TLC, over the inputs §3
names. So does `OnTimeStaysFound`, which compares sums and medians of gaps over all
histories; `DueSubscriptionsLast` proves that no silence before the predicted charge
ends a series. Every other property of a passing run is stated by a theorem.
The violations of §3 are traces, and nothing is proved of them.

## 5. Hazards

`PROJECT.json` lists them at their lines. One has no property: changes that sync
gives up at a single statement, which are built into its model as `lost`.

## 6. Disagreements noticed without a run

Cases and money:

- `timeline.ts` calls timelines append-only; a blind write drops the events
  recorded since its read. Two concurrent creates open two cases for a bill. A
  credited case may end as canceled or failed. All three are traces of the same
  blind write as `negotiation_reopened`.
- Detection sets `cancel_requested` back to active although a case is open,
  while `cancellations/service.ts:144-145` says the member never sees a case
  "without the subscription reflecting that it is being canceled".
- A negotiation may be created for a bill that is no longer active; `create`
  does not look.
- A manual saving that is retried is booked twice: its `sourceId` is null, which
  the unique index lets pass. The savings summary adds up three reads that see
  three moments, so this month's part may exceed the total; a page of the list by
  offset may repeat events.
- The overview sums up the last amounts of all bills "per month"
  (`dashboard/page.tsx:119`), whatever their cadence; the bills page counts the
  monthly ones only.
- The rot tiers: `rot/index.ts:46` and `:66` document 70, line 76 compares with 60.
- The web client's monthly equivalents (52/12 weeks) differ from the engine's
  (30.4375/7).

Premium:

- `webhook.service.ts:27` says "Exactly once"; a crash after the claim makes it
  at most once. `AppliedAtMostOnce` and `StaleAccessIsBounded` state what is left.
- A first `checkout_completed` carries no price and is "unmatched", while the
  adapter's comment speaks of granting access at once.
- The console's `isPremium` (`console.service.ts:112`) ignores the end of the
  period, though its comment says "matching what the member experiences".
- Two checkouts before the first webhook both get a trial (`premium.service.ts:60-62`).
- "a canceled membership failing a final invoice is still canceled"
  (`webhook.service.ts:197-198`): the row is looked up by subscription and, if there
  is none, by customer, so the final invoice of an old membership makes the row of
  the new one past due. `MirrorFollowsProvider` therefore excuses `crossed`.

Bank data, detection and alerts:

- `syncItem` never returns `requiresReauth: true` (it throws), so that branch of
  `plaid-sync.processor.ts:18` never decides anything.
- `recordSyncError` swallows what its own writes throw, and a relink writes the item
  before its accounts: either leaves an item and its accounts in different statuses
  until the next sync that succeeds.
- Bill detection refreshes whichever active bill of a payee its query returns; nothing
  looks when a member makes a bill for a payee or moves one there, which may have two.
- A charge after `canceled` does not surface, though
  `subscription-detection.service.ts:144-145` says it should "surface as active".
- An archived bill is created again by the next detection, which looks for active
  rows only.
- Nothing sets `readAt`: alerts stay unread, and `priceChangedAt` is never
  cleared, so the unread alert of a first price rise silences later ones. A price
  that falls is announced as "increased".
- `findUpcomingBills` says "including overdue ones", which its next due date
  never is; it ignores the cadence, too.
- `schedule.ts:49` promises "every due date"; cadences of days and quarters are
  anchored in the first month of the window that is asked for, so two windows
  disagree about one day.
- The catalog's comment keeps bills and subscriptions apart ("bills, never
  subscriptions"), but a hint of the aggregator makes a charge of a bill category
  both.
- `normalize-merchant.ts` gives "netflix re" as an example of a key while "re" is
  one of its noise tokens.

- A purchase stored more than seven days after it was made is never announced; a
  pending one is announced again when its posted one replaces it; a balance that
  falls again to the same cent is not.
- The mock's cursor counts entries of a window that moves: when the month rolls,
  new entries are skipped (`mock-adapter.ts:461`), and a lost cursor delivers
  entries again under other ids although its comment says "(idempotent)".
- Overlapping look-ups of a name may overwrite it with null (http adapter).

Accounts, documents, client:

- Two refreshes of one token at the same time both get a session, against
  `auth/service.ts:98-103`. The staff `me` route issues a token of full length
  again, so a session lasts as long as it is used.
- An insert whose answer is lost is cleaned up although its row is there
  (`document.service.ts:119-121`).
- Advice that a job writes after its subscription was deleted stays; so does
  advice when nothing is cheaper any more.
- "Skip for now" in the wizard leads to a scan that has no way on; a connection
  that overlaps another drops a bank; a wizard in another tab writes its state
  back after a sign-out, while the toast says "Your demo data was cleared". The
  client's Cancel patches the status to canceled and opens no case, although its
  text promises the concierge. The dialog to negotiate simulates its submission,
  although the API has the endpoint.
- `apiFetch` sends no Authorization header, so what the dashboard calls live
  presumes an API that does without; and it says "The API rejected" the change
  also when it gave the answer up, and the change was made.
- Shift+Tab leaves a dialog that "traps Tab focus" (`modal.tsx:32`), from its
  panel. Escape closes all open dialogs, and if their effects are undone in the
  order of their opening the page stays locked. So it does after a render that
  reaches two open dialogs (`onClose` is a new function each time): all clean-ups run
  before the effects, and the first dialog then keeps as its own find what the last one
  gave back, a locked page; "locks page scroll, restores focus on close" says the
  same comment.
- The theme's first effect applies the default before the stored theme.
- The page of a canceled subscription lists its next billing date as charged
  (`[id]/page.tsx:66`).
- "Idempotent. Re-running replaces demo data" (`prisma/seed.ts:11`): a negotiation or
  cancellation case holds its bill or subscription (ON DELETE RESTRICT), so a
  second run fails at the deletion, as does a run after one that died behind its
  first case.

## 7. Not modelled, and why

Validation schemas (what a schema refuses is no input of an action) and wiring;
layout, icons and the public and design pages of the client (presentation
without state of their own); the contents of demo data; the requests to the real
aggregator and payment provider and the mapping of their answers, the payment
mock; the rewriting of bank descriptors into merchant keys (text that no
property tells apart); what the language model answers beyond which option it
picks; passwords, signatures, encryption, and codes of different counters that
happen to be equal; mappers from rows to responses and the console's read-only
views; the `legacy` prototype, which nothing in the workspace calls.
`PROJECT.json` has each component with its note.

## 8. Plan

What is left, in the order of what it adds:

1. Liveness of the case services under the concierge's scheduling, should a
   schedule ever be part of the code; today nothing obliges it to act.
2. The rewriting of descriptors into merchant keys, should two keys of one
   merchant ever matter to a property.
