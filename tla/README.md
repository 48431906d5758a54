# A formal model of the Outline VPN bot

This directory holds TLA+ models of the Telegram bot under `src/bot/`: wallets, orders and refunds,
provisioning, background jobs, administrators, free trials and their upgrades, rewards, and
maintenance. TLC checks the models on small instances; TLAPS checks proofs of their invariants and
action properties for all sizes. Line numbers below refer to the files under `src/bot/app/services/` where
only a file name is given.

## 1. The system

The bot sells VPN keys on Outline servers. A customer picks a package, confirms a checkout, pays from
a wallet or by a manually reviewed transfer, and receives a key; free trials, promo codes, missions
and referrals bring customers in; administrators review payments, refund, adjust wallets and run
servers. The program is one Python process (python-telegram-bot, SQLAlchemy, APScheduler) over
PostgreSQL in production and SQLite in development. Several processes may share a database: the
background job table is made for that, and the service tests call services concurrently with
`gather()`.

What the models take from the platform:

* **Transactions.** `DatabaseManager.session()` (`database/connection.py:270-289`) commits when the
  block is left normally, *also when it is left by `return Failure(...)`*, and rolls back on an
  exception. The ORM writes only the columns whose value changed.
* **Locks.** `SELECT ... FOR UPDATE` locks rows on PostgreSQL, and the models assume it does. A row
  that is read without it may change before it is written.
* **Handlers.** The Telegram application is built without concurrent updates, so the handlers of one
  process run one at a time. Background jobs run next to them: APScheduler calls the dispatcher every
  five seconds (`run_once`, one instance), and each `await` may switch between the two.

### Inventory

| component | state | operations | what makes it correct |
|---|---|---|---|
| wallet accounting | `wallets.balance`, the ledger `transactions` | credit, debit, freeze, unfreeze | balance = sum of the ledger; never negative; one row per idempotency key and per source; one currency; a frozen wallet does not move |
| orders and payments | `orders.status`, `payment_status`, `total_amount`, link to submission, key; `payment_submissions` | create, pay, submit, approve, reject, settle, refund, cancel, expire, sweep | money comes in once per payment; paid means covered; no more is given back than came in; a submission under review can be decided; refunded is the end; unpaid orders close |
| provider refunds | durable intents (jobs), `metadata_json["refund"]` | refund, reconcile | money went back for the request of a recorded refund |
| background jobs | `background_jobs`: status, lease, attempts | enqueue, acquire, mark_running, complete, fail, recover_stale | one worker per attempt; bounded attempts; an ended job stays ended; every job ends |
| promo redemption | promo codes with usage counts, redemptions | reserve, discount, grant, complete, fail, retry | a code stays within its limits; a redemption says what it gave |
| VPN provisioning | provisioning operations, server reservations, keys, remote keys | provision, reserve, compensate, clean up | one key per order; no slot promised twice; a reservation ends; a remote key can be found from the database |
| servers, selection, setup | servers, capacity, health | discover, install, sync, select | selection respects capacity and quota |
| VPN lifecycle and expiry | `vpn_keys.status`, expiry, data limit | extend, limit, expire, clean up | an expired key is cleaned up remotely; an extension is not lost |
| recovery and reconciliation | none of their own | scans and reports | read only |
| free trial | claims, entitlements, reservations, upgrades | claim, route, cancel, provision, upgrade, fulfil | uses add up; the quota holds; a cancelled claim frees its slot; an upgrade is applied once and in full |
| referrals, missions, growth | referrals, progress, rewards | qualify, build, review, claim | a reward is earned, granted once, and not paid while it is held |
| administrator authorization | principals, grants, sessions, challenges | change role and status, grant, confirm, open session | an active owner remains; a challenge confirms once and only those who may |
| callback references | references, rate counters | issue, consume, invalidate | single use |
| maintenance and incidents | windows, incidents | plan, start, activate, end, cancel | an outage stays closed; gates answer by the windows |
| health and alerts | alerts | raise, link, resolve | an outage is logged; its alert does not outlive it |
| backup | backup records | request, run, verify, restore test | only verified backups count |
| settings, preferences, users | rows with a cache | get, set | the cache does not outlive the row |
| catalogue, checkout, accounts | packages, accounts | edit, confirm | a checkout token makes one order |
| scheduler, lifecycle, cache, events | application state | start, stop, run | start and stop in order |
| handlers, keyboards, integrations | conversation data | messages, network, SSH | outside the models |

### How they interact

    handler --> checkout --> orders.create                 (unique checkout token)
    handler --> wallet payment --> wallet.debit + order    (one transaction, order row locked)
    handler --> submission --> order                       (order row NOT locked)
    admin   --> review / settlement --> submission + order (both rows locked)
    admin   --> refund --> provider or wallet, order       (several transactions)
    handler --> promo --> reward ledger or order.total     (several transactions)
    handler --> provisioning --> server, remote key, order (many transactions)
    handler --> callback reference --> trial claim --> reservation --> provisioning
    event ORDER_PAID --> upgrade --> key, remote key       (a transaction per part)
    event, mission, referral --> reward ledger --> wallet  (grant in one transaction)
    admin   --> confirmation challenge --> critical action (three transactions)
    scheduler -> background_jobs --> dispatcher --> sweep, expiry, reconciliation, recovery
    scheduler -> health check --> alert --> incident --> window --> gate of every service

The hard parts are where two of these lines meet on one row: a read without a lock that is written
back later, a clock read before a lock, a call made of several transactions that may die between any
two of them, and a periodic job that runs beside a handler.

## 2. The modules

| module | models | state and actions |
|---|---|---|
| `MoneyBook` | what a ledger promises | `balance`, `book`; `Post` enters a movement once per key and never overdraws |
| `WalletLedger` | `wallet_accounting_service.py` | the wallet rows, the ledger rows, one open call per caller; each query of `_mutate_once` between which another transaction may commit is a step |
| `OrderPayments` | orders, submissions, payments, refunds, sweep | the order and submission rows, the clock against `expires_at`, the open call of each caller with what it read; the wallets are an instance of `MoneyBook` |
| `JobLeases` | what the job table promises | `state` (the phase of a job, its number of attempts), `grip` (the attempt each worker took); `Take`, `Settle`, `Lapse`, `Forget` |
| `BackgroundJobs` | `background_job_service.py`, `background_job_dispatcher.py` | the job rows, what each dispatcher holds, crashes |
| `Provisioning` | `vpn_provisioning_service.py`, `server_reservation_service.py`, the key creation of `outline_provider.py` | the operation, reservation, order and key rows, the keys on the servers, the open call of each caller with its stage; each transaction and each remote call is a step |
| `AdminAuthorization` | `admin_authorization_service.py` | principals, grants, sessions, challenges; `task` is what each caller is doing. An operation authorizes its actor in one transaction and acts in a second; a second transaction that takes two locks is two steps, so that a lock is held across a step of another caller. What `credit` or a payment method does after the confirmation is `Perform` |
| `CallbackReferences` | `callback_security_service.py` | references and rate counters; each call is one transaction on a locked row |
| `FreeTrials` | `free_trial_claim_service.py`, `trial_server_routing_service.py`, `free_trial_provisioning_service.py`, entitlements of `growth_service.py` | claims, their reservations, entitlement uses; acceptance, routing, release, cancellation are one transaction each, provisioning is three steps around the saga |
| `TrialEntry` | the button of `handlers/customer_keys.py` | composes the two: `press` is what the handler of each press is doing |
| `TrialUpgrades` | `free_trial_upgrade_service.py`, the parts of `vpn_data_limit_service.py` and `vpn_lifecycle_service.py` it uses, `tasks/vpn_expiration.py` | order, upgrade, key row and remote key, the days; a call of `fulfill_paid_upgrade` is one step for each of its transactions |
| `ProviderRefunds` | `payment_refund_service.py` | intents, what the provider executed and the wallet was credited for (by request and order), the record on the order, the stage of each call |
| `PaidUpgrades` | | composes the two on the order row: a refund may start or be recorded while the upgrade is being fulfilled |
| `MaintenanceWindows` | `maintenance_service.py`, `handlers/admin_maintenance.py` | windows; `clerk` and `admin` are the scheduler's pass and the menu between looking and writing |
| `OutageAlerts` | `operational_alert_service.py`, the health job of `scheduler/base.py` | composes `MaintenanceWindows` with the alert, its incident and the job's stage |
| `RewardLedger` | the rows of `referral_reward_service.py` that every kind of reward shares | `reward` by idempotency key, and how often each was paid |
| `ReferralRewards` | `referral_qualification_service.py`, `referral_reward_service.py` | referrals, blocks, the stage of each build; over `RewardLedger` |
| `PromoRedemptions` | `promo_redemption_service.py` | code counters, redemptions, orders that can be discounted and the discount they carry, the stage of each request; over `RewardLedger` |
| `MissionRewards` | `mission_progress_service.py` | progress, counted events, the stage of each delivery or claim; over `RewardLedger` |
| `GrowthRewards` | | composes the last two on one reward ledger |
| `Markers` | | the values for "no row" and "no call", which several of these modules share |
| `Sums` | | lemmas about sums over finite sets |
| `*Proofs` | | theorems about the modules they extend: `TrialsProofs` about `TrialEntry` (with `FreeTrials` and `CallbackReferences`) and `PaidUpgrades`, `OperationsProofs` about `BackgroundJobs` and `OutageAlerts`, `RewardsProofs` about `ReferralRewards` and `GrowthRewards`. The two systems of one of these modules share no variable |
| `MC*` | | the constants of the runs |

**How they compose.** `OrderPayments` uses the wallets by `MoneyBook`, and `WalletLedger` is shown (by
TLC and by proof) to implement `MoneyBook`. In the same way `BackgroundJobs` implements `JobLeases`.
`OrderPayments` and `Provisioning` meet on the order row:
the first has the saga as three steps (`ProvisionStart`, `ProvisionCommit`, `ProvisionFail`), the
second sees an order from `paid` on, with the refund as the only other writer. `FreeTrials` sees the
saga by what it has come to (`saga`: not run, a key, failed). `PaidUpgrades`, `TrialEntry`,
`OutageAlerts` and `GrowthRewards` are compositions in the literal sense: their steps are the steps of
their parts, on shared variables.

**One step or several.** A service call that locks its row first and commits at its end is one step:
no other transaction can be seen in between. A call that reads without a lock, samples the clock
before it asks for the lock, or uses several transactions is split there, and what it saw stays in
the record of the open call. Submitting a payment is three steps (it reads the order, then the
submissions, then writes), paying is two (clock; lock and commit), refunding by the manual path is two
transactions and through a provider four, cancelling is an unlocked read and a write by key.
`SubmitCommit` writes only the columns whose new value differs from the one read, as the ORM does.

**Callers.** `Callers` (`Workers`, `Fulfillers`, `Refunders`, `Provisioners`) is the number of service
calls that may be open at once. `SweepOverlaps` says whether the expiry sweep, a background job, may
run while a call on an order is open. `Provisioning!Asked` says which operations each caller takes up;
calls overlap on the operations that several of them take up (`Shared`), and calls for other
operations wait for each other, as the handlers of one process do.

**Operators marked `Faulty`** are wrong variants of the definition that follows them: the bug the
property is there to catch. No specification uses them; putting one in place of the right definition
makes TLC report the property violated, which shows the property can fail.

## 3. What the runs check

| run | instance | what it shows |
|---|---|---|
| `wallet` | 2 users, 2 callers, 7 requests chosen to collide on key, source, currency and balance | the ledger never overdraws, keeps balance and rows in step, and implements `MoneyBook` |
| `orders_sweep` | 2 orders of 2 customers, 2 proofs for each and 3 in all, 2 refund requests, 2 prices, one handler at a time and the sweep beside it | each payment is captured once; a customer is given back no more money than came in for his orders and is not what a paid one stands on; pending submissions can be decided; whoever holds a key has paid; the status follows the transition table, except out of refunded and where the sweep writes what it read earlier; a paid order stays paid until refunded |
| `orders_overlap` | 1 order, 2 proofs, 2 refund requests, 2 callers at once and the sweep beside them | whatever overlaps, an order counts as paid only on a payment that came in and was not given back, and is refunded at most once per payment (counting payments, not amounts); overdue orders close |
| `orders_revived` | 1 order, one handler | *violated*: a refunded order does not stay refunded |
| `provisioning` | two operations for 1 order, one of them taken up by 2 overlapping calls, 1 server with one slot, death anywhere, refunds, lapsing reservations | one operation gives the order its key however often provisioning dies and is tried again; a remote key the bot was told of can be found from the database; the last slot is not promised twice; a slot is booked for good only for a key that exists; a settled operation stays as it is; every reservation ends |
| `jobs` | 3 jobs (two priorities, one without a handler), 2 dispatchers, 2 attempts, 1 crash | the table works as a book of numbered and bounded attempts (`JobLeases`); nobody settles an attempt that is not his own; every job ends |
| `admin` | 2 administrators in the allowlist, one also in the old role column, 2 callers of which one changes administrators, 1 challenge, 1 session, 2 critical actions, 2 changes | a confirmation is given once, and to nobody who lost the permission meanwhile; a session that validates has the rights it was opened with; an owner remains |
| `trials` | 2 presses of 2 references by one user with a daily trial and an entitlement of 2 uses, 1 server that gives one trial a day, lapsing reservations | uses add up across cancellations and claims the policy refuses; the quota holds unless a provisioner outlives its reservation; one claim per reference; a cancelled claim stays cancelled and its slot comes back |
| `upgrades` | an upgrade of data and time and a conversion, both paid through a provider or both by hand (`Ways`; one of each is left to the theorem); one listener, one recovery job, one refunder with 2 request ids, each of which may be used for both orders; the key may expire | nothing is applied twice; a completed upgrade gave all it sold; a recorded refund is backed: its intent was written and money went back for its request |
| `operations` | the outage's window, a global window that needs approval and a degraded one that ends by itself, the health job, the scheduler's pass, one administrator | an outage keeps provisioning closed; it is logged with an incident; its alert is resolved |
| `rewards` | a code for a reward, a code that gives nothing, two codes that discount the same order, one of them with one place and a second request without an order; a mission with a reward and one without, with target 2, and 5 events worth 0, 1, 1, 2 and 2; crashes anywhere | codes stay within limits; a redemption that says completed gave what its code promises, and the order carries the discount of a completed one; a mission is over only when its events are worth its target, and is paid once if it has a reward |
| `referrals` | 2 referrals, a reward for every second, 2 calls at once, review and block | a reward belongs to a referral that qualified in a cycle that was reached; a held reward is paid only after its release |

**Bounds.** Every hazard listed needs at most two actors and one or two objects: two calls on a wallet, a
call and the sweep on an order, two dispatchers on a job, a change of an administrator and a confirmation.
Two proofs are enough for a second submission while the first is pending or rejected, and three in all
(`MCFewProofs`, a `CONSTRAINT` of `orders_sweep`) leave one for the other order; two refund requests for a
second refund of an order that was paid again; two orders for a request id used across orders, of two
customers in `orders_sweep` and of one in `upgrades`. The opening balance (3) covers one payment at full
price (2), or a full and a discounted one, so that a second payment may be refused for lack of funds. Two
operations are enough for a retry of an order under another key and for a contended slot. Two attempts
distinguish "retry" from "give up". One challenge and one session are enough because each is bound to one
administrator and two of them interact only through that principal; two changes are needed for "demote,
then promote again". Of the events of the paying mission, one is worth nothing, two are steps and one
reaches the target at once, so that there are events before, at and after completion; `MCBound` (3, by the
`CONSTRAINT` `MCFewRequests` of `rewards`) is the number of redemptions and events that happen in one
behaviour, any of the ten: enough for two discounts of one order and an event, or a completion in two
steps and an event after it. The quota, the limits of codes and the limit of rewards are one, so that the
second use is the one too many. `MaxCrashes`, `MaxChanges` and `MaxTime` are the bounds that stop a model
where the program would go on; in `admin` a change that reaches `MaxChanges` is refused. Symmetry (proofs,
request ids, referrals, actions) is used only in runs without liveness. `CHECK_DEADLOCK FALSE` stands
where the system may really stop: all operations have settled, all jobs have ended, all presses are over,
all upgrades are fulfilled, all windows have ended, all redemptions have ended.

**Fairness.** `OrderPayments!FairSpec` assumes only that the sweep keeps going, which holds because
the scheduler enqueues it periodically and a failed run is retried; no customer or administrator has
to do anything. `Provisioning!FairSpec` and `TrialEntry!FairEntrySpec` assume the clean-up of reservations,
a periodic job, and the clock; no saga and no handler has to go on, since none is resumed after its
process died. `BackgroundJobs!FairSpec` assumes that each dispatcher keeps being called (every five
seconds), that handlers return or raise, and that the clock advances past `available_at` and
`lease_expires_at`; enqueueing, crashing and the administrator's button are not fair.
`OutageAlerts!FairOutageSpec` assumes that the
health job keeps running and dies only finitely often; the scheduler's other passes and the
administrators are not fair.

### Disagreement the runs show

* **Refunded orders come back** (`orders_revived`). `order_service.py:75` lists no way out of
  `refunded`; `PaymentSubmissionService.submit` refuses four closed states but not that one
  (`payment_submission_service.py:78-81`).

### Disagreements met while modelling, without a run

These are places where the code does something a doc, a comment or its own rules do not foresee. Each
is reachable in a model, or is left out of a property by an exception named there.

**Orders and payments**

* A submission overwrites a payment: the comment at `wallet_payment_service.py:136` says the order lock
  serializes payment transitions, but `submit` (`payment_submission_service.py:129`) writes without
  one. `PaidUntilRefunded` therefore holds with one handler at a time and fails with two.
* A discount while a submission is under review changes the total, and from then on both approve and
  reject answer `amount_or_currency_mismatch` (`payment_review_service.py:121`): nobody can decide
  that submission. `PendingCanBeDecided` leaves this case out.
* With overlapping processes a key can be bound to an order refunded meanwhile: payment is checked
  before the remote call (`vpn_provisioning_service.py:219-229`) and not at the end (`:247-265`).
  `KeyIsPaidFor` holds in `orders_sweep` and fails with two callers.
* The sweep writes `expired` over an order that was paid after it was listed
  (`order_service.py:268-279`): the payment status stays `paid`, so `PaidUntilRefunded` holds, but
  such an order can no longer be refunded or provisioned. `FollowsTable` makes the exception `Stale`.
* A wallet payment attempted on an overdue order that is refunded or awaits approval sets it to
  `expired` (`wallet_payment_service.py:155-160`); a submission that was pending can then only be
  rejected. A discount is accepted on a refunded order (`promo_redemption_service.py:103-124`).
* A refund may give back more than came in: the amount is read in a first transaction
  (`payment_refund_service.py:85`) and credited in a second (`:225-230`), which looks at the status of
  the order only. When refund A has read the price 2, refund B gives back 2, the order is discounted to
  1 and paid again, and A goes on, then 3 came in and 4 went out. `PaidIsCovered` counts payments and
  holds; `ReturnsAreCovered` counts money, holds with one handler at a time, and fails with two callers.
* Refunds through a provider: two request ids for one order send the money twice, although the docstring
  at `payment_refund_service.py:39` says "exactly once"; when the order changed meanwhile ("Order changed
  before refund commit", `:151`) the money is sent and nothing records it.
* A request id is not tied to an order: the job's key (`:96`), the provider's key (`:124`) and the
  ledger's (`:230`) are made of the id alone. Used for a second manually paid order of one customer, it
  finds the credit of the first and the second order is recorded as refunded without money of its own
  (the currencies have to agree; amounts are not compared). For another customer's order the ledger
  refuses. A provider is taken to answer with its old refund, which names the other payment and is not
  accepted; a provider that answers otherwise is external. `RecordIsBacked` says exactly this: money
  went back for the request that is on record, by the provider for this order, or to the wallet for
  this or, with a reused id, another order whose record has the same request.
* Nothing registers a handler for the reconciliation job (`main.py`), so such a job ends as `failed` at
  its first attempt; the dispatcher treats a handler that returns `Failure` as a success.

**Background jobs**

* A handler is entered without its lease: `docs/phase-73.md:17` against
  `background_job_dispatcher.py:51-52`, which ignores the answer of `mark_running`. What it may not do
  is settle the attempt of another worker (`OwnAttemptOnly`). A process that restarts under the same
  worker id while its old handler lives on may (`background_job_service.py:139`): ids are taken to be distinct.

**Provisioning**

* Keys cannot be saved: `docs/phase41_delivery_report.md:13` says `VPNKeyORM` binds the provider, the
  order, the operation, the source and the time. The class (`database/models/vpn_key.py`) maps none of
  these columns; `vpn_provisioning_service.py:256` passes them, which raises, and the saga deletes the
  key again. The columns of the key's expiry are missing too, so the lifecycle service and
  `tasks/vpn_expiration.py` raise on every key they look at. The constant `KeyColumnsMapped` says
  whether the columns exist. The runs take it as `TRUE` and the proofs leave it open: since saving may
  fail in any case (`DatabaseMayFail`), all behaviours of the code as it is are among those checked,
  and so are those of the code as soon as the columns are mapped. `TrialUpgrades` models the key's row
  as the services use it.
* An operation that is still `pending` is taken up again by a second call with the same idempotency
  key (`vpn_provisioning_service.py:60-69` refuses only operations in flight or settled). Two
  overlapping calls both make a remote key; the operation names the last one only, and one may settle
  the operation the other has settled. `KeyIsTraceable`, `OneKeyPerOrder` and `SettledIsFinal` make an
  exception of such operations (`Shared`); two overlapping operations of one order would break
  `OneKeyPerOrder` as well.
* An error of the key creation that is not a timeout ends the operation as `failed`
  (`integrations/outline_provider.py:74`) although the server may have made the key, which nobody finds
  again; `KeyIsTraceable` leaves keys whose creation was never answered out. A timeout ends in
  `unknown`, without the key's id.
* No code writes `servers.current_users`. A reservation that is committed no longer counts
  (`server_reservation_repository.py:10`), so `max_users` bounds the provisionings under way and not the
  keys on a server. `NeverOverReserved` is about the former.
* A reservation lapses after 600 seconds while its saga may still be going on; the failure of the
  commit is ignored (`vpn_provisioning_service.py:185`). A process that dies leaves its operation in
  flight for good, and retries under its key are refused.

**Administrators**

* The message at `admin_authorization_service.py:624` says at least one active owner is required, but
  `_active_owner_count` (`:829`) locks no other owner: two requests that each demote the other's owner
  both pass. `OwnerRemains` holds with one request that changes administrators at a time
  (`Managers`), and fails with two.
* `ensure_bootstrap_admin` (`:302-309`) makes a configured owner who was demoted an owner again at the
  next message, without raising the session version: the comment says it "may repair only the legacy
  role mirror". `SessionKeepsRights` makes this exception.
* `consume_challenge` locks the challenge and then the principal, `change_role` the principal and then
  the challenges: a deadlock the database has to break (`Abandon`). `change_role` and `change_status`
  do not compare the target's rank. A process that dies after the confirmation has spent the challenge
  without the action. Only `consume_challenge` and `ensure_bootstrap_admin` are called outside the tests.

**Free trials and upgrades**

* A cancellation after the claim was provisioned gives the use back although the key was delivered
  (`free_trial_claim_service.py:114`, against `docs/phase53_delivery_report.md`).
* Accepting a claim takes a use of the entitlement (`free_trial_claim_service.py:73`) before it looks at
  the policy; `policy_invalid` (`:78-79`) returns without an exception, so the use is committed and lost
  without a claim, at every press again. `AcceptInvalid` is that step, and `UsesAddUp` counts such uses
  as forfeited: they are the only ones that are lost.
* A provisioner that comes back after its reservation lapsed and was swept books it all the same
  (`_finalize`), so that the quota of a server may be exceeded; `QuotaHolds` leaves such bookings
  (`late`) out. Two provisioners of one claim can bring a cancelled claim back.
* Routing a claim again after its reservation was released or lapsed raises, since `claim_id` is unique
  in the reservations. The scheduled clean-up ends a reservation without its claim, which stays
  `server_reserved`. A cancelled daily claim still occupies its place in the unique index on user, day
  and source. A use that is given back cannot be used, because the entitlement stays `redeemed`. A
  reference is spent when the handler dies before the claim is accepted.
* A process that dies between the commit of a payment and the event `ORDER_PAID` leaves the upgrade at
  `payment_pending`, where no recovery finds it (`docs/phase-56.md`). Two upgrades that fix their target
  at the same limit lose one. `_complete_upgrade` sets the order to completed although it was refunded
  meanwhile, and a refund during fulfilment leaves the parts that were applied.
* No pending upgrade can count on the recovery, so the project claims no liveness for it:
  `recover_pending_fulfillment` takes the 50 oldest pending rows (`free_trial_upgrade_service.py:187`);
  the rows of orders that were refunded stay pending for good and may keep newer ones out; an exception
  at one row ends the loop for the rest (`:189-191`); and extending a key raises in any case while the
  key's expiry is not mapped (see Provisioning). In the model the recovery takes up any pending upgrade,
  or none: what the safety properties say holds for every choice of rows.
* `extend_key_to` makes an expired key active whose remote key is already deleted; with clean-up
  completed, nothing sweeps it again. `apply_for_key` notes `pending` before it computes its baseline, so
  that a retry resets the usage.

**Maintenance and alerts**

* The docstring at `maintenance_service.py:597-599` says windows that require approval remain active;
  `:625` sets them to `ending`. The menu's "end" can never end a maintenance or emergency window, since
  its recovery check reads the state the window itself causes.
* An active window is looked for without a lock: two of one scope are reachable, and every later look
  raises (`scalar_one_or_none`). The scheduler may write over a window that was ended or cancelled after
  it listed it.
* Nobody ends the window of an outage (`scheduler/base.py:132-145`), against `docs/phase-72.md`, "ends
  the scoped maintenance window". An alert that opens again keeps its resolved incident; a job that dies
  between an incident and its link leaves it open for good.

**Rewards**

* The limits of a user's rewards are counted without a lock on the user
  (`referral_reward_service.py:232`): two rewards of a user may both pass. Every qualified referral from
  the n-th on is rewarded in its cycle, and with a threshold of one a referral that is evaluated again
  is rewarded again in the next (`docs/phase-62.md:11`).
* A failed reward is never retried. `evaluate` runs on attribution only, so a referral that waits is not
  looked at again; a later evaluation undoes an administrator's approval.
* A second code used on an order overwrites the first one's discount
  (`promo_redemption_service.py:119`): `evaluate_eligibility` (`promo_service.py:144-170`) does not look
  at the discounts an order has, and the first redemption remains `completed`. `RedemptionGave` says that
  each completed redemption discounted its order once, and that the order carries the discount of one
  of them; that it carries all of them does not hold. A code of type `none` completes with nothing
  given (`:49-50`).
* Promo codes: a redemption that failed keeps its place; a process that dies after the grant and comes
  back under maintenance marks the redemption failed although the reward was given.
  `handlers/customer_promo.py:61` names no order, so discount codes always fail there.
* A mission whose claim fails late writes `reward_pending` over `reward_granted`. An event counts for
  what it is worth (`mission_condition_service.py:84-96`): nothing, one step, or an amount that may
  reach the target at once.
  `MissionPaidWhenDone` says what holds of the payment itself.

## 4. What is proved

| theorem | says | argument |
|---|---|---|
| `WalletLedgerProofs!TypeCorrect` | the type invariant | one step per action |
| `WalletLedgerProofs!Overdraft` | no wallet is ever negative | a debit is accepted under the row lock against the locked balance |
| `WalletLedgerProofs!MoneyAddsUp` | `BalanceIsLedgerSum`: a balance is the sum of its rows | `SumInv`: the ledger is finite and each balance is the sum of one function, the amount of a row, over the user's rows. A posting adds one row that was not there, because its key is new (`SumWithOneMore`), and its amount in the same step |
| `WalletLedgerProofs!OneCurrency` | every ledger row has its wallet's currency | with the type invariant: rows are written by the locked step that compares currencies, and a wallet never changes its own |
| `WalletLedgerProofs!Frozen` | a frozen balance does not move | the only writer of a balance looks at the lock's copy of the status |
| `WalletLedgerProofs!Refinement` | `WalletLedger` implements `MoneyBook` | initial states and each step map to a posting or to no change; the key is new in every posting because keys are unique in the table |
| `OrderPaymentsProofs!TypeCorrect` | the type invariant | one step per action, with lemmas for the calls' records |
| `OrderPaymentsProofs!Coverage` | `PaidIsCovered`: the number of approved submissions and wallet debits is at least that of the refunds, plus one if paid | `TypeOK /\ PaidIsCovered` is inductive; the lemmas say how each action moves the number of approved submissions (finite-set cardinality) and whether the key is spent |
| `OrderPaymentsProofs!OneCapture`, `Decidable`, `KeysPaidFor`, `Table`, `PaymentStands` | `OneCapturePerPayment`, `PendingCanBeDecided`, `KeyIsPaidFor`, `FollowsTable`, `PaidUntilRefunded`, when at most one caller is there (`Callers \subseteq {m}`), with the sweep beside it | one invariant for the five, `AloneInv`: what an order's row says of its submissions (`RowsAgree`), that what came in is what was refunded and one payment more if it is paid (`Balanced`), and what the open call read that the sweep cannot make untrue (`CallAgrees`). The sweep only ever holds overdue orders, and what it writes leaves payment status and submissions alone |
| `OrderPaymentsProofs!AmountsCovered` | `ReturnsAreCovered` with one handler at a time: no more money is given back than came in and is not what paid orders stand on | `MoneyInv` adds to `AloneInv` that the ledger is finite and that an open refund read the price the order still has: nobody but the sweep works beside it, and the sweep changes no price. What an order received beyond what it stands on (`Spare`) is a sum over approved submissions less a ledger row; a refund of a paid order makes its price spare and credits at most that much (`SumMoved`) |
| `ProvisioningProofs!TypeCorrect` | the type invariant | one step per action |
| `ProvisioningProofs!SlotsSuffice` | `NeverOverReserved` on servers of any size | the set of active reservations of a server grows only in `Reserve`, by one, under the server's lock and after the count; everything else shrinks it (`FewerActive`, finite-set cardinality) |
| `ProvisioningProofs!KeysCommitted` | `CommittedHasKey` for any number of overlapping calls | the inductive invariant `KeyInv` adds what an open call knows of its key by its stage (`CallKnows`) and that an operation whose key exists is never `pending` again (`NotFresh`): only so is the key of a call its own. The lemma `CallStep` says what a step of one call may do without disturbing the others |
| `ProvisioningProofs!KeysTraceable`, `SettledForGood` | `KeyIsTraceable`, `SettledIsFinal` for operations that no two calls work on, whatever else overlaps | `TraceInv` says, by the stage of a call that is alone with its operation, which status the row has and that the call's key is the only one the operation has on a server (`AloneKnows`). `OwnStep` reduces every step of a call to what becomes of its own operation and key |
| `ProvisioningProofs!OneKey` | `OneKeyPerOrder`, when calls for one order overlap under one operation only (`OneSharedPerOrder`) | `OrderInv`: a call that is still on its way to a key works for an order without one, or for an operation that is shared |
| `OperationsProofs!TypeCorrect`, `Attempts`, `Final`, `OwnAttempt` | types, `AttemptsBounded`, `EndedIsFinal`, `OwnAttemptOnly` | the inductive invariants add: a job that waits has an attempt left, and a dispatcher keeps its attempt until it lets go of it (`TaskStep`) |
| `OperationsProofs!Numbered` | `BackgroundJobs` implements `JobLeases` | the phase of a job is read off its status, the grip of a worker off its task. The rows say who holds them but not at which attempt; `GripRight` and `OwnAttemptOnly` together say that a held row is a worker's exactly if its attempt is the row's, so that comparing worker ids is as good as comparing attempts |
| `AdminAuthorizationProofs!TypeCorrect` | the types, and that a locked row exists and has one holder | one step per action; `TaskStep` says what replacing one caller's task needs |
| `AdminAuthorizationProofs!Confirmation`, `Once` | `ConfirmedWithPermission`, `ConfirmsOnce`, also when every caller may change administrators | `ConfirmInv` adds `Permitted`: as long as a challenge is open and the caller's own, the permission read in the first transaction still holds, and a locked challenge is open and the caller's own. A change of the administrator either invalidates the challenge or waits for its lock (`Invalidated`); the repair of an owner takes no permission away |
| `AdminAuthorizationProofs!Performance` | `PerformedWasConfirmed`: what was carried out has a used challenge for that action | `BackedInv` adds that what a caller confirms is what the challenge was made for; a challenge never changes its action (`ActionStays`) and stays used (`UsedStays`) |
| `AdminAuthorizationProofs!Rightful` | `SessionKeepsRights`: a session that validates has the administrator's present rights, repaired owners excepted | `SessionInv` says of every session and every call that is opening one that the version it read is not ahead of the row, and that an equal version means equal rights (`Current`); every change but the repair raises the version |
| `AdminAuthorizationProofs!Owners` | `OwnerRemains`, assuming that at most one caller changes administrators at a time | `OwnerInv`: a change that has passed its check and takes an owner out of office leaves another one (`Replaced`). Nothing but a commit makes the set of owners smaller (`OwnersGrow`), and only the one caller commits |
| `TrialsProofs!RefundsAreBacked` | `RecordIsBacked` for any upgrades and overlapping refunds, with request ids used for any orders | `RefundInv`: the types of the refund's variables and, by the stage of a call, what it knows of the intent and of what the provider executed (`CallKnows`); the steps of the upgrade change neither |
| `TrialsProofs!NothingTwice`, `InFull`, `UpgradesTyped` | `NeverTwice`, `FulfilledInFull` and the types, for any upgrades of a key and any number of listeners and recoveries | `UpgradeInv`: a target that was fixed gives no more than all upgrades begun so far (`TargetFits`), nothing is applied before its target is fixed, a call's `todo` lacks only what the row has (`WorkKnows`), and while only one upgrade was begun the key holds the trial or the trial and that upgrade (`AloneGives`). The allowances are sums over the upgrades begun |
| `TrialsProofs!TrialsTyped`, `WithinQuota`, `OnePress` | the types, `QuotaHolds`, `OneClaimPerReference`, for any claims, servers, provisioners and presses | `EntryInv`: the quota as a bound on the cardinality of the reservations that count, the claim a provisioner works on is there (`WorkFound`), and a press that was served used up its reference, which no other press has (`ReferencesApart`) |
| `TrialsProofs!UsesBalance`, `GivenUp` | `UsesAddUp` (with forfeited uses counted), `CancelledIsFinal`, as long as no two calls of `provision_claim` work on one claim (`[]OneCallPerClaim`) | `AloneInv` adds that the claim of a call under way is `provisioning` (`WorkAlone`): only so does the end of one saga count once |
| `OperationsProofs!AlertsTyped`, `Outages` | the types; `OutageStaysClosed` for any windows and plans | `ClosedInv`: the outage's window is absent or exactly `Closing`; an administrator who picked it is told "not recovered" because of that window itself, and the scheduler never has it in hand, since it is neither planned nor given an end |
| `RewardsProofs!TypeCorrect` | the types; the cycle a build names is within reach | with arithmetic on quotients (`Quotients`) and finite-set cardinality (`Reached`) |
| `RewardsProofs!Earnings`, `PaidOnce`, `Releases` | `RewardIsEarned`, `PaidAsGranted`, `HeldUntilReleased` for any referrals, calls and limits | `RewardInv` adds the lock on the key (`Sole`: one call settles a key, and its row is unanswered meanwhile) and that a reward in the making is earned already (`InHand`); what was earned stays earned because no referral leaves `qualified` |
| `RewardsProofs!GrowthTyped`, `CodesLimited` | the types; `PromoLimit` for any codes, limits and redemptions | `GrowthInv`: the counters of a code are the cardinalities of its redemptions by status, and every redemption knows by the stage of its call what it may have given (`Knows`) |
| `RewardsProofs!RedemptionsGive` | `RedemptionGave` | from `Knows`: a redemption is `completed` only with its reward paid or its discount applied, or with a code that gives nothing; and from `CarriesOne`: what an order carries is the discount of a redemption that was applied to it |
| `RewardsProofs!MissionsPaid` | `MissionPaidWhenDone` | `MissionHolds` and `CallHolds`: progress is never ahead of what the counted events are worth together (a sum, see below), and a mission that says it is done, or is being paid, is done |

The assumptions are the named `ASSUME`s of the modules; each run evaluates them.

**Hypotheses.** A theorem has one only where the property fails without it, and §3 says how the code gets
there: two handlers on one order (`OneCapture` to `PaymentStands`, `AmountsCovered`), two operations of
one order at once (`OneKey`), two provisioners of one claim (`UsesBalance`, `GivenUp`), two callers that
change administrators (`Owners`). The hypotheses on operations and claims leave any overlap of calls on
other operations and claims open.

**Sums.** A ledger, an allowance, what an order received and what events are worth are sums over sets that
grow. The community modules define such a sum by a fold in an unspecified order. `Sums` proves the facts
needed (the empty sum, one element more, equal functions, integers, zeros) from that definition. Where one
would use induction on the size of the set, `Sums` takes a least counterexample (`LeastNatural`,
`MinimalSubset`), which is first-order.

**Only model-checked** is liveness: `OverdueCloses`, `ReservationEnds`, `EveryJobEnds`,
`CancelledSlotReturns`, `OutageIsLogged`, `AlertIsResolved`. Fairness is a
statement about `ENABLED`, which is beyond the prover. Every invariant and every action property of the
runs is proved.

## 5. What is abstracted

* **Orders.** Amounts are a full and a discounted price; a proof stands for its idempotency key.
  `submitted_at <= expires_at` always holds; method availability and currencies of submissions are left
  out. The refusals of `pay` for frozen wallets and other currencies change nothing in the order and are
  in `WalletLedger`. Idempotency keys a caller chooses for `pay` itself are left out; the default key
  names the order. `OrderPayments` has the refund by the manual path, `ProviderRefunds` both.
  `expire_order`, `freeze` and `unfreeze` are modelled although no handler calls them, since they are the
  services' interface.
* **Provisioning.** Which server the ranking prefers, and why a server became unusable, are open choices;
  names, URLs and limits of keys are left out. A remote key is named by its operation and the caller that
  made it, which `ProvisioningProofs!CallKnows` shows to be unambiguous. A free trial is an operation
  without an order (`NoOrder`): the proofs cover it, the run has none. The reservations of trials are
  counted by day in `FreeTrials` and not again here. Administrators change no server capacity while the
  model runs. The statuses `persisting_local_key` and `cancelled`, which nothing writes, are left out.
* Two first calls with one idempotency key at the same instant: one breaks the unique key and fails
  without an effect, so `Enter` has no step for it. The same holds for claims, redemptions and rewards.
* **Jobs.** Payloads, results and error texts; `heartbeat`, which nothing calls; the statuses `cancelled`
  and `skipped` and the payment statuses `pending`, `failed` and `cancelled`, which nothing writes.
* **Administrators.** `suspended` and `locked` differ from `revoked` by name only. The chat policy and the
  audit rows are left out; of the permissions, those that an operation of the service or a caller of
  `consume_challenge` asks for are kept.
* **Trials.** One day. The data cap, the maintenance gate, the abuse gate, `max_users` and the roll-over
  of the day are left out. Nothing calls routing, provisioning and cancellation of claims yet; they are
  modelled as the services' interface.
* **Upgrades.** Usage synchronisation, permission checks, offers and abuse checks are left out; so is the
  revocation of a key before its expiry, which has no effect in the code. Times are days.
* **Maintenance.** A degraded window of `vpn_provisioning` stands for what an administrator may plan
  beside the outage's. Rate limits, idempotency rows and notices are left out; so is `recover_component`,
  which only tests call.
* **Rewards.** The cycle and the limits are as in mode `every_n`. Edits of missions and of promo policy,
  the state `exhausted`, which is unreachable, and the unique index on promo, user and key are left out.
  Promo requests have the default idempotency key, which names code, user and order. Which worth an event
  has for a mission is a constant (`Worth`). The locks on idempotency keys are those of one process
  (`asyncio`), as the bot runs.

## 6. Not modelled

* **Recovery and reconciliation** (`vpn_recovery_service.py`, `vpn_reconciliation_service.py`): they
  report rows that need attention and change nothing.
* **Backup**: records around file and process I/O. One call makes and finishes a record; nothing competes
  for it.
* **Settings, preferences, users, profiles; history, notifications, support, navigation**: single-row
  reads and writes with a cache, queries, and message texts.
* **Server selection and set-up**: the ranking is a pure function of configuration and measurements whose
  answer any property here has to accept; set-up is SSH and HTTP I/O.
* **Lifecycle, cache, events, hooks, registry, start-up**: state of one process that is changed in one
  place and in order. What a lost event does is in `TrialUpgrades`.
* **Handlers, keyboards, middlewares, locales, catalogue administration**: most of the program's lines.
  They format messages, walk through menus and call one service each; the few that do more are listed
  under their components. `src/MentalGamingFreeOutlinebot-main/` is an older copy of the program and is
  left aside.
* **Migrations and seed data.**

The map therefore covers the services whose state can go wrong and a small share of all lines.

## 7. Plan

1. Abstract specifications: "a key is delivered at most once per payment" for orders with
   provisioning; "a reward is posted once" as a specification of `RewardLedger` that both its users
   implement; a confirmation as a token that is spent.
2. Referral attribution and tokens, the roll-over of the day for trials, updates to incidents.
3. `FreeTrials` and `Provisioning` on the same reservation rows.
4. The steps of the liveness arguments that are invariants or action properties: what each fair step
   brings nearer, and that no other step takes it back.
