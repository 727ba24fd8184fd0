# Telga: a verification development

Telga lets a shop sell airtime, data and utility tokens against a prepaid
balance. Three kinds of process share one SQLite file: the merchant POS server,
one or more recovery workers, and the operations console. The value of a sale is
held before the provider is asked, and is settled or given back when the answer
is known, which may be much later and in another process. This directory holds
TLA+ models of the parts of that system where the order of things matters, the
TLC runs that check them, and the theorems TLAPS proves about them.

`PROJECT.json` names, for every definition that models code, the file and lines
it stands for.

## 1. Inventory

Paths are relative to the repository root. "UoW" is one `driver.transaction`,
which is `BEGIN IMMEDIATE` (`packages/persistence/src/sqlite/driver.ts:200`).

| Component | State | Operations | What makes it correct | Here |
|---|---|---|---|---|
| Sale lifecycle: `createSale`, `recoverInFlight`, `resolvePending`, `reversal`, `operations.ts` | `transactions`, `balance_reservations`, `ledger_entries`, `idempotency_records`, `pending_resolutions`, `support_cases`, `recovery_claims`, `commission_entries` | sell, sweep, poll, require and complete a reversal, credit a settled sale, complain | the ledger and the reservation agree; money follows the goods; one sale per key; nothing stays in limbo | `SaleLifecycle`, `MerchantFloat` |
| Recovery worker: loop, CLI, backoff, shutdown | loop status, failures, stop reason, leases, id counter | start, sweep, back off, stop, die, restart | a stop ends it, a fatal error is final, no lease is stranded, a restart does not break anything | `RecoveryWorker` |
| Monthly software fee | `platform_fee_settings`, `software_fee_charges`, balance | first run, charge, retry arrears, waive, edit policy, suspend | a month is taken once, only finished months, debts are collected | `SoftwareFee` |
| Transfers between shops and of profit | `shop_transfers`, ledger postings | ask, post, approve, refuse, move profit | a row says settled exactly when it was posted once; the daily limit holds | `ShopFunds` |
| Deposits (Chapa, bank) and card payments | `topup_orders`, `funding_submissions`, the gateway's checkouts | order, cancel, webhook, record, approve | one credit per payment; an order reads PAID with its submission; a payment taken is credited | `TopUps`; card payments are a simulation without state |
| Voucher orders, PIN, unlock | `pending_orders`, `auth_attempts`, PIN | open, authorise, cancel, expire, unlock, change PIN | each voucher paid once however often the order is authorised | `VoucherOrders` |
| Reversal adjustments, complaints | `reversal_requests`, `complaint_reviews` | file, approve, refuse, settle, decide | a sale is given back once, a decision stands | `ShopFunds`; what they do to the sale's own rows is in `SaleLifecycle` |
| Commission | rates, entries, policy row | split, record, reverse | the parts add up to the commission | partly (`SaleLifecycle`, `SoftwareFee`); arithmetic not modelled |
| Sessions, secrets, authorisation | sessions, attempts, codes | log in, step up, lock, expire | lock and expiry are honoured by every request | attempts and lockout of the PIN in `VoucherOrders` |
| Applications, provisioning, credentials | applications, tenant registry, shops, devices, enrolments, operators | apply, review, provision, issue, suspend, stop, activate | never half registered; what was handed over works until it is withdrawn | `Onboarding`; the document vault is not modelled |
| Backup and restore | files, manifest | back up, verify, restore | a restore never leaves a half-written database | not modelled: file input and output, started by hand |
| HTTP API, read model | rate limits | parse, authorise, project | projections agree with the rows | not modelled: it translates |
| POS server, console, mobile shell, view models, localisation, design system | screens | render | — | screens are not modelled; the routes that write are modelled with the component written to |
| Persistence engine, migrations | the database | UoW, triggers | atomicity, append-only tables | assumed; the console's single connection is in `Onboarding` |
| Provider adapters, notifications | — | submit, getStatus, send | — | external; any answer, late or never. The gateway's verification is in `TopUps` |
| Build, deployment, vendored skills | — | — | — | not modelled; stop and kill by the supervisor are in `RecoveryWorker` |

**How they meet.** The POS process runs `createSale` (from
`http/handlers.ts` and `application/voucherOrders.ts`). It commits twice before
it awaits the provider: once with the sale `RESERVED`, once with it
`PROCESSING`; and once after. Anything can commit in between. A worker sweeps
rows that have not moved for `recoveryAgeMs`, under a lease per row, and awaits
`getStatus` under that lease. After each sweep, even a failed one, the worker
runs the monthly fee. The console credits, approves, suspends, waives, provisions
and edits the policy in the same file from its own process, which has one
connection for all its requests. A till's voucher order becomes a batch of sales
when the operator's PIN is confirmed. Value comes in through the gateway's
webhook, which the POS server verifies with the gateway, or through the desk.

**What is hard.** Two commits of one call with another process between them;
copies of a row kept across an `await` and then written; leases that outlive
their process and processes that outlive their lease; a provider that answers
late or never; retries with the same key; restarts that reuse names; lists read
once and worked through while others change what they list; a transaction held
open across an await on a connection that others use; decisions made in one
transaction and posted in another. `PROJECT.json`
("hazards") has each at the line where it bites, with the property that would
notice.

## 2. Plan

Done, in this order, because a sale is what the system is for:

1. `MerchantFloat` — the promise: value is held once against a float that covers
   it, then settled once or returned once, and refunded at most once after it was
   settled.
2. `SaleLifecycle` — everything that happens to a sale; implements the former.
   `SaleLifecycleMC` gives it instances; `SaleLifecycleProofs` has the theorems
   about its ledger and those about rows, keys and replies.
3. `RecoveryWorker` — the process around the sweep. It abstracts a sale to
   young, stuck or decided; `SaleLifecycle` abstracts the process to "sweeps,
   may stop at a safe boundary, may die". `RecoveryWorkerProofs` has its theorems.
4. `SoftwareFee`, `SoftwareFeeProofs` — the other half of a worker's sweep.

5. `TopUps` — how value comes in: gateway, webhook and desk racing to credit one
   payment.
6. `ShopFunds` — what else moves a shop's balance: transfers, profit, training
   deposits, reversals of settled sales, complaints, the fee.
7. `VoucherOrders` — an order, its PIN and its batch of sales.
8. `Onboarding` — application, provisioning, credentials, and the console's
   shared connection.
   Each of 5 to 8 has its `...Proofs`; `ShopFundsMC` and `OnboardingMC` declare
   the symmetry of an instance.

9. `SumTheorems` — what the proofs need to know of a sum over a finite set.

Left:

10. `CommissionSplit` as pure operators against a reference definition.
11. Sessions (lock counters, expiry, step-up); the order of a restore's steps.

## 3. The modules

### SaleLifecycle

An action is one unit of work: what a process does between two awaits, or
between two points where another process may commit.

| Code | Actions |
|---|---|
| `createSale`, refusals before a row exists | `RefuseRequest`, `FindExisting`, `ProviderUnhealthy` |
| first UoW (reserve, row, key) | `AskHealth`, `ReserveSale`, `ReserveRolledBack` |
| second UoW and `provider.submit()` | `SubmitToProvider` |
| third UoW, by answer | `SubmitConfirmed`, `SubmitRefused`, `SubmitSilent`, `SubmitRolledBack` |
| `recoverInFlight` | `Scan`, `Claim`, `SkipCandidate`, `ReadUnderClaim`, `ReleaseNeverSubmitted`, `RecoverSuccessful`, `RecoverFailed`, `HoldPending`, `EscalateUnderReview`, `FindResolved`, `RecoveryRolledBack`, `ReleaseClaim`, `StopEarly` |
| `resolvePending` | `AskStatus`, `ResolveSuccessful`, `ResolveFailed`, `ResolveEscalated`, `ResolveUnchanged` |
| `reversal.ts` | `ReadForReversal`, `RequireReversal`, `CompleteReversal` |
| the console's `POST /reversals/:id/approve`, on the sale | `ReadForCredit`, `CreditReversal`, `DropCredit` |
| the till's `POST /complaint` | `ReadForComplaint`, `FileComplaint`, `DropComplaint` |
| the provider, time, crashes | `ProviderDecides`, `RowAges`, `DeadlinePasses`, `LeaseExpires`, `ServerCrash`, `WorkerCrash` |

`Reserve`, `Release`, `FinalizeSuccess`, `MoveToUnderReview` and
`ReleaseFromUnderReview` are the functions of `operations.ts`; all but the first
go through `MoveReservation`, the compare-and-set on the reservation's status
with its posting. `postReversalAdjustment` is the posting in `CreditReversal`,
which looks at no reservation. Balances are sums over `posted`, never stored.

Abstractions. Time is three facts that become true by waiting: a row is old
enough, a deadline has passed, a lease has run out. All validation refusals
write nothing and are one action. The await for an answer is merged with the UoW
that applies it (the claim, and everybody else's steps, lie between the question
and that). `SubmitToProvider` merges the commit of `PROCESSING` and the call:
the row is not yet old, and nobody else touches a row that is not. Inside a
batch the order is free where the code takes the oldest first. There is one
merchant. Two branches are left out because no run of the program reaches them:
`RESERVED` with a provider reference (`recoverInFlight.ts:360`; the reference is
set with `PROCESSING`), and the live-mode exit after the reservation
(`createSale.ts:325`; every mode but TRAINING is refused at line 135).
`resolvePending` and the reversal services have no caller in the repository but
tests; they are modelled as services anyone may call. The console's credit
stands here for any approved request: the requests, which of them are open and
who decides are in `ShopFunds`, and a sale is credited once because its row is
read as SUCCESSFUL first, not because the requests are single.

A sale has at most one case from an escalation, whose reference is the sale's
own and unique (`TG-...`), and at most one from a complaint, since the complaint
looks for any case first and the POS runs one such handler at a time.
`findSupportCaseByTransaction` has no order, so with two cases either may be the
one it finds (`ApproveSupportCase`).

Two constants are assumptions about time that the code does not enforce.
`PromptSubmit`: a call that has reserved is not suspended for `recoveryAgeMs`
(60 s) before it submits and hears back (the default provider timeout is 5 s).
`AtomicReversal`: nobody commits between the read and the write of
`requireReversal`. `sales` and `liveness` assume both, so what the code does
without them, a late answer written over a decided row and a reversal of a row
that has moved on, is outside these two runs; section 6 says what happens then.
`tight_float` assumes neither. Of the theorems, those that need them say so
(`Calm`), and the others are stated without.

### MerchantFloat

A sale's value is `new`, `held`, `settled`, `returned` or `refunded`. `Hold`
requires the float to cover it; `Refund` follows `Settle` only, once.
`SaleLifecycle!Phase` is the mapping: it reads the reservation and, to tell a
refunded sale from a settled one, what the ledger has posted;
`PostedMatchesReservation` ties the two.

### RecoveryWorker

A process lives once: a restart is another process, with the same worker id or
not (`Id`). Each row id is a prefix, the worker id and a counter starting at zero
(`defaultIdFactory`), so `used` remembers the keys written and an insert that
meets its own key throws. `Start`, `BeginSweep`, `Claim`, `Skip`, `Answer`,
`RecordFailure`, `EndBatch`, `FinishSweep`, `Wake`, `Stop` follow
`workerLifecycle.ts`, `recoveryWorker.ts` and the part of `recoverInFlight` that
takes and releases leases; `SweepThrows`, `ClaimThrows`, `AnswerThrows`,
`StopThrows` are its failures, `Crash` a kill, `RequestStop` a signal, which the
single-threaded process can only notice at an await.

Abstractions. A sale is young, stuck or decided, and any answer that is applied
takes it out of the swept set; which ids the unit of work draws is kept
(`UnitKeys`). A claim and its audit events are one action when they all succeed.
The fee run draws `FeeIds` ids. Delays, health levels, metrics and the
overlap guard of `runOnce` are left out. A supervisor never runs two live
processes under one id.

### SoftwareFee

`Charge` is `chargeSoftwareFee`, one transaction. `BeginRun`, `ChargeDue`,
`ListArrears`, `Retry`, `EndRun` are one `runDueSoftwareFees`, interleaved with
everybody else between its transactions. `BeginFirst` and `RecordFirst` are the
first run ever, which writes the whole policy row back as it read it;
`OpenForm` and `SaveForm` are the console's `POST /fees`, which does the same.
`Abandon` is a run that throws or dies. `Trade` is every other movement of the
balance, `Waive` is `waiveCharge`, `SetActive` a suspension or reinstatement,
`MonthEnds` the calendar.

Abstractions. A month is a number. The first period, the policy and the list of
active shops are read in one step where the code reads them one after the other.
The order of shops within a month is free: their charges touch different rows. A
month does not end between the read and the write of one
`writePlatformFeeSettings`, which are microseconds apart in one synchronous
function; a run may straddle a month's end.

### TopUps

| Code | Actions |
|---|---|
| `bankDeposit.ts` | `OrderBankDeposit`, `CancelBankDeposit` (cancels the newest live order, whatever its method) |
| `startChapaDeposit`, before and after the gateway | `StartChapaDeposit`, then `ChapaStarted` or `ChapaUnavailable` |
| `POST /webhooks/chapa` and `settleChapaDeposit` | `ReceiveWebhook`; the awaited verification `Verified` or `Unreachable`; then `RefuseChapa`, `LoseClaim`, `SettleChapaDeposit` or `SettlementThrows` |
| `POST /deposits` and its approval | `RecordDeposit`, `ApproveDeposit` |
| the gateway, the clock, crashes | `Outcome`, `WindowPasses`, `Crash` |

The gateway is external: a checkout is open, paid in full, or failed; it delivers
an event until it is acknowledged, as often as it likes and also after that.
`IndexAllows` is the partial unique index on credited bank references, the last
thing that stands between two rows and two credits. Amounts are "in full" or
"not", since `decideChapaCredit` compares for equality; a bank payment is small
or above the cap that asks for a second administrator. An order's row is one
record; `live` is what its expiry time says.

### ShopFunds

| Code | Actions |
|---|---|
| `settleShopTransfer` | `RequestTransfer` (decides), then `PostTransfer` or `LoseTransfer` in a second transaction |
| the console's decision on a transfer | `ApproveTransfer`, `RefuseTransfer` |
| `transferProfit`, `depositTrainingFunds` | `TransferProfit`, `DepositTrainingFunds` |
| `POST /reverse`, `decideReversal` | `ReadForReversal`, `DecideToFile`, `FileReversal`, `DropReversal` |
| the console's decision on a reversal | `ApproveReversal`, `RefuseReversal`; then `SettleReversal` or `LeaveApproved` |
| complaints | `ReportComplaint`, `DecideComplaint` |
| sales and the fee, as they move the balance | `Sell`, `Deliver`, `Fail`, `ChargeFee` |

Balances are sums over the postings (`Available`, `ProfitAvailable`). A handler
awaits nothing after it has its form, so two handlers of one process never
interleave (`ServerIsFree`, `settling`); another process may commit between two
transactions of one handler, or between two statements of one that has no
transaction, and that is where the actions are cut: `POST /reverse` reads the
sale, looks up open requests and inserts its own in three statements. Whether a
shop is active is an input. A sale keeps only what reversal and balance tell
apart; how it gets there is `SaleLifecycle`.

### VoucherOrders

| Code | Actions |
|---|---|
| open, read (which expires a late order), cancel an order | `CreatePendingOrder`, `GetOrder`, `CancelOrder` |
| `authorizeOrder` | `BeginAuthorize` (checks, lockout, rate limit), the awaited derivation, `WrongPin` or `AuthorizeOrder`, one `CreateSale` per voucher, `FinishOrder` |
| `unlockWithPin`, `changePin` | `BeginUnlock`, `Unlock`; `BeginChangePin`, `DeriveNewPin`, `UpdatePin` |
| an interrupted request; the rest of the shop; a sale's later failure | `Abandon`; `Spend`; `SaleFails` |

`Since` counts attempts in a window of the clock, whose ticks stand for the
lockout and expiry times. A voucher's request id is derived from the order
(`batchRequestId`), which is why a second authorisation finds the first's sales
(`IsDuplicate`); what the sale then does is `SaleLifecycle`.

### Onboarding

| Code | Actions |
|---|---|
| `POST /register`, `POST /applications`, pick-up, decide | `Apply`, `RegisterShop`, `PickUp`, `TurnDown`, `Approve` |
| `provisionMerchant`, statement by statement | `ClaimRegistryRow`, `WriteMerchantRecord`, `SetTenantActive`, `LinkApplication`, `ProvisioningThrows` |
| `POST /merchants/:id/credentials` | `OpenIssue`, `AskWhichToRetire`, `BeginIssue` or `BeginThrows`, then `CommitIssue`, `IssueThrows` or `SaveAlone` |
| other routes of the console | `Suspend`, `Reinstate`, `StopDevice`, `ReinstateDevice`, `IssueEnrollmentToken`, `ApproveMoney` |
| the till's `POST /activate` | `RedeemToken`, `EnrolDevice`, `DropRedemption` |
| other processes, crashes | `Apply`, `OtherProcessWrites`, `Crash` |

`db` is what the console's connection sees, `saved` what is committed, `tx` the
state of the connection. `Write` is a statement: committed at once, or part of
whatever transaction is open; `Begin`, `Commit`, `Rollback` act on that one
transaction whoever asked for it. `Elsewhere` is a commit of another process,
after which a deferred transaction that has only read can no longer write.
`key` is a device's enrolment: `ISSUED` with the key that was handed over, `CODE`
while an activation code waits to be redeemed, `PAIRED` with the key it was
redeemed for, `REVOKED` by a remote stop. A stop withdraws it with the device, a
reinstatement brings back the device alone. Audit rows, sessions, the expiry of a
code, names and contact data are left out; a shop's application, registry
row and merchant have one name (`merchantIdFor`).

## 4. Runs

| Run | Instance | States | Question |
|---|---|---|---|
| `sales` | 2 calls with one key and different payloads, 2 workers, 1 crash, 2 lookups at most, both kinds of reversal and complaints possible; prompt adapters, atomic `requireReversal` | 2,409,397 | Do ledger, row, job, cases and commission of a sale agree, whoever resolves it, complains about it or credits it back? Are leases respected and only legal moves persisted? Is there one sale per key, does the record follow it, does what the till was told stay true? |
| `tight_float` | 2 sales that do not both fit, one of them reversible, no timing assumption | 953,684 | Is `MerchantFloat` implemented, even by rows that went wrong? |
| `liveness` | 2 sales, 1 worker, batch limit 1, 2 lookups at most, 1 crash, fair | 459,021 | Is every sale in flight decided? |
| `worker_pair` | a supervised and a one-shot process over 2 sales, 1 database error, 1 kill | 87,466 | Do leases keep them apart, and do stops and fatal errors end the work? |
| `worker_restart` | two supervised processes under one id, one after the other, fair | 106,263 | Is nothing left leased, is the stuck sale decided although ids collide, does a stop end? |
| `software_fee` | 2 workers, 1 shop, months 2–4, fees 1–2, balance 0–2, fair | 298,920 | Is a month taken once, only when finished, never after a waiver, and is a debt collected? |
| `top_ups` | 1 order, 2 webhook requests at once, 2 bank payments (one large), 2 administrators, 2 recorded deposits, 1 crash, fair | 503,654 | Is a payment credited once and an order PAID only with its submission? Is a payment the gateway took credited? |
| `shop_funds` | 2 shops, 2 transfers, 1 sale with 2 requests and a complaint, 2 days | 1,585,292 | Do rows and ledger agree, is a sale given back once, do decisions stand, does the daily limit hold, and what may take a balance below zero? |
| `voucher_orders` | 1 order of up to 2 vouchers, 2 requests at once, 2 PINs, 3 entries, fair | 591,484 | Is a voucher paid once, does AUTHORIZED mean sold, do closed orders stay, how many wrong PINs fit into a window, is every request answered? |
| `onboarding` | 2 shops, 2 requests for credentials, 2 device numbers, one of which may be stopped or given a code | 3,926,092 | Is a shop registered consistently whatever was the last statement? Is what was handed over committed whole, and does it work until it is withdrawn, and never after? Do decisions stand? |

Two more runs state something the repository says of the program and find that
the program does not do it:

| Run | What the repository says | What happens |
|---|---|---|
| `cancelled_sold_nothing` | a race between authorise and cancel resolves to one outcome (`pendingOrders.ts:4`) | an order cancelled while the PIN is derived reads CANCELLED, and its vouchers are sold |
| `issued_is_handed_over` | credentials are saved in one transaction, so a shop is never left holding some it cannot use (console `server.ts:1934`, `2024`) | a deposit approval's failed `BEGIN` rolls that transaction back during its await; the rows are then saved one by one and the key is never shown |

**Bounds.** Two callers of one key are enough for every race on a key: the
second of any two finds the first's record or does not. Two workers and one row
show every contest for a lease; a third adds no new kind of holder. One
chargeable month has nothing older than it, so two are needed; two amounts let
the policy change between a row and its retry; shops do not share rows, so one
is enough for all but the order between shops. `MaxIds` is large enough for the
ids of the predecessor to be exhausted, so that recovery after the collisions is
reached; ids above it count as unused. In `TopUps` two requests show every race
of a webhook with another delivery and with the desk; `MaxRows` lets the desk
record one payment twice. In `ShopFunds` two transfers are enough for one to be
decided while another waits, two requests for a second to be filed after a
refusal, or behind a settlement by a server that had read the sale before it; the
policy constants are small numbers in the
order of the shipped ones except `Threshold`, which the shipped policy sets as
high as the limit. In `VoucherOrders` two requests make the smallest race, three
entries let a lock form and lapse. `Onboarding` sets `MaxLiveSets` to 1 where the
code has 2, so that the retirement of a device is reached with few devices;
`MaxNumber` bounds the ids given out, and
`Withdrawable` names the devices that are stopped or given a code: one is, one
is not. `Disputed` and `Reversible` name the sales somebody may complain about or
reverse. In `liveness` a lookup may leave a sale pending once before it is put
before a person. `MaxFaults`, `MaxCrashes`, `MaxRestarts`,
`LastMonth`, `LastDay`, `LastTick`, `MaxTries`, `MaxFees`, `Amounts`, `Fees`,
`MaxBalance` are the other bounds. The theorems hold for every value of all of
them, the windows of days, ticks and months included.

**Deadlock** is checked in `onboarding`, where the console can always do
something. In the other runs it is not: when all sales are decided, all processes
have ended, or clock and ids are used up, the system is at rest. That work does
not get stuck is what the liveness properties say.

**Fairness.** `SaleLifecycle`: a submitted call is answered or throws (the
adapter has a timeout); a row grows old and a lease runs out; a worker keeps
sweeping, since it is supervised. Nobody has to poll or reverse, no provider has
to decide, nobody has to crash. `RecoveryWorker`: a live process runs on, its
lookup is answered or throws, a supervisor starts what it was told to start,
time passes. Nothing obliges anyone to stop a worker. `SoftwareFee`: a worker
keeps sweeping and a run goes on unless it is abandoned; `DebtIsCollected`
assumes that runs are not cut short for ever, and that from some moment on the
shop is active, the fee is on, and the balance covers the highest fee an
administrator may set. (With a balance that covers only the amount in its row a
debt of the due month can be missed for as long as the fee is higher; TLC shows
it.) `TopUps`: the server works a request to its end unless it dies; the gateway
delivers an unacknowledged event again, as the route's comment relies on; and its
verification is not unreachable for ever (strong fairness: requests keep trying).
`VoucherOrders`: a request that was begun goes on. `ShopFunds` and `Onboarding`
assume nothing: people decide when they like.

Every property was also tried against a small, plausible mistake in one mapped
definition, which it must refute. The mistaken forms stand next to the right ones
in the modules and no action uses them.

## 5. Proofs

All for any constants that satisfy the assumption of the module: any number of
sales, keys, workers, shops, orders, requests, months and any amounts. Where
something is summed or counted the tables are finite (`RequestsAssumption`,
`TablesAssumption`, `HandlersAssumption`), as a table's rows and a server's open
requests are. Each module first proves type correctness, with one step per action; the inductive
invariant is stated with TypeOK as its first part.

`SumTheorems`

- The sums of the models are the library's `SumFunctionOnSet`, a fold that takes
  out one element after the other, in an order the library leaves open. The
  lemmas say that it is a sum: it does not depend on the order (`SumRemove`,
  `SumAdd`), it follows one value that changes (`SumUpdate`), values outside the
  part that is summed do not matter (`SumCongruence`, `SumPadded`), and a part of
  some naturals, or smaller ones, add up to no more (`SumMonotone`,
  `SumPointwise`).
- The fold is defined by a function that calls itself on smaller sets.
  `SumsExist` shows that there is such a function for the subsets of any finite
  set, by induction on their size; `SumIsLocal` that it does not matter of which
  set they are subsets; `SumRemove` then goes by a smallest set for which the
  order would matter. The library's induction theorems take a predicate, which
  no prover here can fill in, so the induction is over sets: `NatInduction1` and
  `SmallestSet` take the set of those numbers, or those sets, for which the claim
  holds, and rest on the library's facts that the orders are well-founded.

`SaleLifecycleProofs`, the ledger

- `TypeCorrect`: `TypeOK`. The operations of `operations.ts` have their own lemma.
- `LedgerMatchesReservations`: `PostedMatchesReservation`. Five of the six
  operations that post do so under a compare-and-set on the reservation. The
  sixth, the console's credit, looks at none, so the invariant (`Ledger`) adds
  what makes it safe: a credit is begun for a row that reads SUCCESSFUL, such a
  row's sale is settled and not yet credited, and the credit takes the row out of
  SUCCESSFUL (`CreditFollowsRow`). Nothing brings it back there, since a row is
  written SUCCESSFUL only with the settlement of value that is held, and settled
  value stays settled (`SettledWithRow`, `SettledRests`). No assumption about
  timing is needed: a late writer may spoil a row, but not into SUCCESSFUL.
- `FloatIsImplemented`: `ImplementsFloat`. The initial state maps to the initial
  state; each operation maps to `Hold`, `Settle`, `Return`, `Refund` or a stutter.
  `Hold`
  needs that what the ledger shows as available is what the abstract float
  leaves: a lemma rewrites the sum over postings into one over phases, by
  `LedgerMatchesReservations`.
- `FloatIsNeverOverdrawn`: `NoOverdraft`, for any timing. It is a property of the
  promise: a step of `MerchantFloat` changes one sale's share of the float, and
  holds only what is left (`FloatStaysCovered`). Each step of a sale is a step of
  the promise, and the lemma above carries the result back to the ledger.

`SaleLifecycleProofs`, rows, keys and replies

- For any timing: `OneSaleForAKey` (`OneSalePerKey`), from `KeyNamesSale`: only
  the unit of work that makes a sale gives the key away, and it takes a free key
  only. `CommissionFollowsLedger` (`CommissionIsPosted`), inductive with `TypeOK`:
  a step that posts a profit leg is the confirmation in `createSale`, which also
  writes the entry, and it finds the value held, hence no entry yet.
  `ClaimsAreRespected` (`ClaimIsRespected`), from `TypeOK`.
- When `Calm`, that is `PromptSubmit` and `AtomicReversal`: `RowsMatchValue`
  (`StateMatchesReservation`), `MoneyFollowsGoods` (`MoneyFollowsDelivery`),
  `NobodyIsForgotten` (`UncertainSaleIsTracked`), `RepliesStand` (`ReplyHolds`),
  `OnlyLegalMoves` (`MovesAreLegal`), `ResultsAreFinal` (`RecordedResultIsFinal`).
  Without either assumption TLC refutes them (section 6), so it stands in the
  theorem.
- The invariant is `OneStory`: for each state of a row, which reservation, job,
  case, provider and call go with it (`Story`); that a row old enough to be swept
  is in no call's hands (`Left`, which is where `PromptSubmit` enters); what was
  replied (`Said`); and what a worker keeps from its read across the lookup
  (`Worked`). A step concerns one sale and tells its story on (`OneAtATime`), so
  each action is checked on one row. A REVERSED row goes with a released
  reservation, or with a settled one that was credited; which of the two is read
  off the ledger by `CreditFollowsRow`, so a story speaks of reservations only. A
  row in somebody's hands goes with an escalation's case or a merchant's, nobody
  having approved either. `RowMoves` then says that a step moves no row, opens
  one, moves one legally and records the result when it is terminal, or is the
  console's credit, which records none.

`RecoveryWorkerProofs`

- `TypeCorrect`, `ClaimsAreGivenBack` (`NothingIsLeftHeld`),
  `LookupsAreNotInterrupted` (`WorkIsNotInterrupted`), `StopsAreHonoured`
  (`StopIsHonoured`), `FatalErrorsAreFinal` (`FatalIsFinal`).
- `StepsAreWalks` reduces every step to one process that begins, works on or ends
  and says what it may do to claims. The invariant is `Orderly`: at most one live
  process of an id (`Alone`), behind every claim somebody alive or dead over it
  (`ClaimHasOwner`), and a failed process on its way out (`OnItsWayOut`).

`SoftwareFeeProofs`

- `TypeCorrect`, `NobodyIsChargedTwice` (`ChargedOnce`), `OnlyFinishedMonths`
  (`ChargedForFinishedMonths`) and `SettledStays` (`SettledIsFinal`).
- `ChargedForFinishedMonths` is not inductive. `InRange` adds what a run holds in
  hand: the due month of a run that charges, the months in its list, the first
  period in the row, and the one a console request is about to write back. A run
  about to record the first period must still be in the month it read, which is
  the assumption in `MonthEnds`.
- `SettledIsFinal` rests on one lemma, `ChargeEffect`: a charge changes one row,
  and only from `NONE` or `ARREARS`.

`TopUpsProofs`

- `NobodyIsCreditedTwice` (`CreditedOnce`), `PaidOrdersAreBacked`
  (`PaidIsBacked`), `CheckoutsArePaid` (`NothingForNothing`), `AnswersStay`
  (`AnswerIsFinal`).
- The invariant is `Settled`. `CreditedOnce` alone says nothing of the rows, and
  it is the rows the index looks at: `Counted` ties them, a payment's credits
  being 1 exactly when a credited row names it. `RowsHold` says what a row may
  name, and `AnswersHold` that a request which was told of a payment was told
  something that lasts. Only three actions credit (`Loud`); all others leave rows
  and credits alone (`Quiet`), which is proved once.

`ShopFundsProofs`

- `LedgerFollowsRows` (`RowsMatchLedger`), `NothingIsReversedTwice`
  (`ReversedOnce`), `DecisionsStand` (`DecisionIsFinal`).
- The invariant is `Books`. `Pursuit` is what it needs: the request the console is
  settling is approved, and every request is for a sale. That at most one request
  of a sale is open is not needed and would not do: a second one may be filed
  behind a settlement, and even be approved. What stops it is the second look at
  the sale (`CanBeSettled`), which is the definition the proof of the settlement
  rests on. Transfers and reversals touch different variables and are proved
  apart.
- `LimitsAreKept` (`DailyLimit`). The decision adds up the rows that are settled
  or wait; the limit speaks of all that are not refused. They differ by a transfer
  that is decided and not posted, and a server that decides has none in hand
  (`ServerIsFree`), so the decision sees all that counts (`RequestIsCounted`).
  Every later step of a row keeps its amount and its day or takes the row out of
  the count (`LimitIsFreed`). So the limit is inductive with `TypeOK`.
- `DebitsAreCovered` (`SpendingIsCovered`) and `TransfersAreExact`
  (`TransferIsExact`). Both come from what each action does to the
  sums in `Available`: one row that enters, leaves or is posted.
- `OverdraftIsBounded` (`OverdraftIsSent`): `NoOverdraft` fails (section 6), and
  this says by how much it can fail. Inductive with `Books`: a posting takes from
  the balance what it adds to the transfers sent, any other step leaves that sum
  alone and takes only what is there.
- `ProfitIsNeverOverdrawn` (`ProfitIsCovered`), with `EarnedWhenDelivered`: a sale
  that has earned never begins anew, so what a shop has earned only grows.

`VoucherOrdersProofs`

- `NoVoucherIsPaidTwice` (`VoucherPaidOnce`), `AuthorizedOrdersWereSold`
  (`AuthorizedHasItsSale`), `ClosedOrdersStay` (`ClosedStaysClosed`).
- The invariant is `Batch`. `SoldIsHeld` carries across the awaits what a request
  remembers of the first voucher of its batch.
- `GuessesAreLimited` (`WrongPinsAreBounded`). The count alone is not inductive:
  a request was let in on a count that others have since raised. `Bounded` adds to
  the failures in the window the requests that were let in and may still fail
  (`Guessing`): together they are at most the limit and one for each further
  handler. A request is let in only below the limit, and then at most the others
  are guessing; a failure recorded moves from the one to the other; a tick drops
  what is too old. No failure is dated ahead of the clock, nor is a request.

`OnboardingProofs`

- `ShopsAreRegistered` (`ShopIsRegistered`), `HandedOverWorks` (`HandoverWorks`),
  `DecisionsStand` (`DecisionStands`).
- The invariant is `Register`. The properties speak of `saved`, but a commit
  copies `db` over it, so both must be registered and hold what was handed over
  (`Handed`), and unless its snapshot is behind, `db` must be a legal continuation
  of `saved` (`Follows`: the console's own statements only withdraw keys). Across
  processes a step of `saved` may also save a redeemed key (`Stands`); it never
  follows a key that still is the one handed over, because whoever redeems has
  seen a code (`Pairing`). `Provisioning`
  records what each step of `provisionMerchant` has established. The connection's
  operations (`Write`, `Begin`, `Commit`, `Rollback`, `Elsewhere`) are proved once,
  and each action cites one of them.

`NoOverdraft` of `SaleLifecycle`, `TransferIsExact`, `OverdraftIsSent` and
`ProfitIsCovered` of `ShopFunds` are in no configuration, since the theorems leave
nothing for a small instance to find; TLC confirmed the last three on
`ShopFunds.cfg` and the first on `TightFloat.cfg`, and so they can be tried again.

Only model-checked: the liveness properties `InFlightIsDecided`, `StuckIsDecided`,
`StopEnds`, `DebtIsCollected`, `PaymentIsCredited` and `EveryRequestIsAnswered`,
since no prover here handles fairness or `ENABLED`. Every safety property of a
passing run is a theorem.

## 6. Disagreements met and not run

Definitions that state a line of the repository and that TLC refutes; no run
keeps the counterexample.

- `SaleLifecycle!ReleasedIsNotSubmitted`, with `PromptSubmit = FALSE`. "`RESERVED`
  is proof the provider was never called" (`recoverInFlight.ts:18`). A call that is
  suspended for `recoveryAgeMs` between its two commits is swept, failed and
  released; when it resumes it writes `PROCESSING` from memory and submits
  (`createSale.ts:283`). The ledger survives it (`tight_float`); the row stays
  `PENDING` with nothing held, every sweep takes it up and rolls back, and under a
  batch limit it can keep others waiting.
- `SaleLifecycle!ValueIsInItsBucket`. "`VALUE_DISPOSITION` assigns every state
  exactly one bucket" (`states.ts:11`). `requireReversal` from `PENDING` leaves the
  value in the reserved bucket (`reversal.ts:97`), and a sale the console reversed
  keeps its settled reservation under a row that says REVERSED (console
  `server.ts:3777`). `StateMatchesReservation` states what does hold.
- `SaleLifecycle!EverySaleEarnsCommission`. "all telga shops owner the some amount
  of commission from each sales" (Commission and Fees, line 70). A sale settled by
  recovery or polling earns none (`recoverInFlight.ts:436`).
- `RecoveryWorker!RestartIsSafe`. "A restart is safe at any point" (Worker
  Operations Runbook, line 97). Two one-shot sweeps under one `--worker-id`: the
  second draws the row ids of the first (`recoveryWorker.ts:60`), its first insert
  collides, and it reports success.
- `SoftwareFee!OldestFirst`. "Oldest first" (`softwareFeeRun.ts:22`). The due month
  is charged before the arrears are read (line 91).
- `TopUps!SlipIsClosed`. The approval is said to close the slip the deposit quoted
  (console `server.ts:2670`, and `2520` for the direct credit). It looks the order
  up by the bank's reference instead (line 2671), so it closes none.
- `TopUps!PaidIsNotCancelled`. The newest live order is cancelled whatever its
  method (`bankDeposit.ts:159`), also while the gateway has its payment; the webhook
  then refuses the payment and a person has to find it.
- `ShopFunds!NoOverdraft`. `decideTransfer` refuses what the balance does not cover
  (`transfer.ts:161`). The decision and the posting are two transactions, and an
  approval posts hours later without reading the balance again (console
  `server.ts:2800`). Under the shipped policy nothing waits for an approval, since
  the threshold is the limit per transfer.
- `ShopFunds!ApprovedIsSettled`. The console says a shop told "approved" is not left
  with a balance that never moves (`server.ts:3724`). The decision commits before the
  adjustment is posted; if that fails the request stays `APPROVED`, and nothing takes
  it up again.

Behaviours of the models, or plain from the lines named:

- `VALID_TRANSITIONS` offers no move out of SUCCESSFUL, and its comment says that
  the state of a reversed sale moves as part of the correction (`states.ts:62-78`);
  the console updates the row by a statement of its own (`server.ts:3777`), while
  `domain/reversal.ts:13` still speaks of a transition that was added for it.
  `MovesAreLegal` allows that one move, in the step that posts the credit.
- After that reversal the recorded result of the key still says SUCCESSFUL, since
  nothing calls `recordIdempotencyResult`; the reservation stays settled and the
  shop keeps its commission. Nothing in the repository reads `result_state`, so no
  retry is told so today.
- "One open case per sale" (POS `server.ts:3730`) is what the complaint looks for.
  `resolvePending` inserts its case without looking (`resolvePending.ts:260`), and a
  worker may escalate between the complaint's look and its insertion: both leave
  two cases.
- A reversal request may be filed, and approved, for a sale that an older request
  has reversed: the sale is read before the open requests are
  (POS `server.ts:3616`, `3626`). It is never settled (`ReversedOnce`), and stays
  `APPROVED`.
- An activation that has found its code good saves the new key without looking
  again (`redeemEnrollment.ts:85`, `sessions.ts:641`): a device stopped meanwhile is
  enrolled again, though `redeemEnrollment.ts:88` says a withdrawn enrolment must
  stay withdrawn.
- "Its old key stays revoked" (console `server.ts:2255`) is said of every device that
  is reinstated; one that was retired to make room for another (line 1925) was
  never revoked, and its old key works again.
- An activation code is shown at once; if it was written inside an issue's open
  transaction that rolls back, it will not be accepted.
- An application returned for correction stays DRAFT for good: the table allows
  DRAFT to SUBMITTED (`applications.ts:46-53`), and no route resubmits one.
  `DecisionStands`, which counts DRAFT among the final states, holds because of that
  dead end and would have to change with it.
- A refused transfer to an unknown shop or to oneself is "recorded even when refused"
  (`shopTransfer.ts:124`), but its row breaks a constraint of migration 019.
- No process calls `expireTopupOrders`: an order past its window stays `OPEN`, and is
  taken as not live by those who look at the time.
- An approved application whose provisioning was cut short by a crash stays
  `APPROVED`: the only caller of `provisionMerchant` is the decision, which is refused
  from that state, though `provisioning.ts:109` describes a resumption.
- A failed issue says "Nothing was changed." (console `server.ts:2041`), but the
  device that was to make room was stopped before `BEGIN`.
- Reinstating a shop that was suspended while `ONBOARDING` makes it `ACTIVE` with no
  credentials (`server.ts:2085`).
- Two requests may both find room for one more set of credentials (`server.ts:1877`).
- A suspension, a review or a device's reinstatement that runs during an issue is
  answered at once and lost if the issue rolls back.
- A commit of another process during the derivations makes the issue fail
  (SQLITE_BUSY_SNAPSHOT, `driver.ts:186`).
- A late answer writes `PENDING` over a state recovery has meanwhile reached, a
  terminal one included (`createSale.ts:461`; `states.ts:34`). It needs a call
  slower than `recoveryAgeMs`: `Sales.cfg` with `PromptSubmit = FALSE` shows it
  as a violation of `MovesAreLegal`.
- `requireReversal` decides on a row read before its transaction
  (`reversal.ts:58`): the same run with `AtomicReversal = FALSE`.
- `WorkerLifecycle.start()` awaits the sweep before it shuts down, so
  `gracefulShutdownTimeoutMs` (`workerLifecycle.ts:357`) has nothing left to
  bound.
- The first retries come sooner than a healthy sweep: the backoff starts at 1 s,
  the interval is 30 s (`backoff.ts:56`, `workerConfig.ts:69`).
- The worker's CLI exits 0 after a failed or fatal sweep.
- `scripts/deploy/railway-start.mjs:270` starts the worker without a name, so its
  id is derived from its pid (`cli.ts:102`), which may recur in a later
  deployment, which is the situation of `RestartIsSafe` above.
- Only the month just past is ever charged: a worker that is down for a whole
  month leaves the month before it uncharged for good, though the comment at
  `softwareFeeRun.ts:164` says the run recovers on its own. A shop suspended
  through the month after is likewise never charged for the month before.
- A suspended shop is "not charged" (`softwareFeeRun.ts:15`), but its arrears are
  retried.
- A due month already in arrears is retried with the amount in force now, while
  its row keeps the old amount (migration 024 makes it immutable): the ledger and
  the row then differ.
- A month in which the fee was off is charged if it is on again when the month is
  due (`softwareFeeRun.ts:82` says it was not owed).
- The first run writes the whole policy row back as it read it, outside a
  transaction: an administrator who switches the fee off in between has it
  switched on again (`repositories/commission.ts:103`).

## 7. Not modelled

Screens, documents and style sheets of the POS and the console, the read model,
localisation and the design system: they render or parse what the operations
modelled here produce. `.github/skills` is vendored tooling. Between them these
are by far most of the repository's lines, which is why the map covers a small
share of it: what is left out changes no state. Sessions and one-time codes are
single rows with an expiry around hash functions; the
commission split is integer arithmetic on one row; backup and restore copy files,
and what makes them hard is inside the file system and SQLite's own log. Card
payments run against a simulated reader and processor and store nothing
(`cardPurchase.ts`), and nothing calls `settleCardSale`.
