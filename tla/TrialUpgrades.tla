---------------------------- MODULE TrialUpgrades ----------------------------
(***************************************************************************)
(* Paid upgrades of one free trial key: orders for more data or more time, *)
(* their fulfilment after payment, and the sweep that ends keys which are  *)
(* due.  Fulfilment takes a transaction to fix its targets and one for     *)
(* each part and each mark.  A call holds the key's row while it talks to  *)
(* the server, may die anywhere, and is run again by the recovery job.     *)
(* A time is a number of days; amounts of data are numbers.                *)
(***************************************************************************)
EXTENDS Integers, FiniteSets, Functions, Markers

CONSTANTS
    Upgrades,       \* free_trial_upgrades rows, each with its order
    Parts,          \* Parts[u], what upgrade u is made of; {} is a conversion
    Data, Days,     \* Data[u] and Days[u], the snapshots of the offer
    MaxPurchases,   \* max_purchases_per_trial
    Listeners,      \* calls of fulfill_paid_upgrade that ORDER_PAID may start
    Recoverers,     \* ... and that the recovery job may start, at once
    TrialData, TrialDays,   \* limit and expiry of the trial
    MaxTime         \* bound of the model

ASSUME UpgradeAssumption ==
    /\ Parts \in [Upgrades -> SUBSET {"data", "days"}]
    /\ Data \in [Upgrades -> Nat] /\ Days \in [Upgrades -> Nat]
    /\ IsFiniteSet(Upgrades)
    /\ {MaxPurchases, TrialData, TrialDays, MaxTime} \subseteq Nat

Fulfillers == Listeners \cup Recoverers

VARIABLES
    order,          \* status and payment_status of the order of an upgrade
    upgrade,        \* free_trial_upgrades
    key,            \* the vpn_keys row
    server,         \* the key on the server: its limit, and whether it is there
    work,           \* what each call of fulfill_paid_upgrade is doing
    now

upgradeVars == <<upgrade, key, server, work, now>>

Exists(u) == upgrade[u] # None
Status(u, status) == Exists(u) /\ upgrade[u].status = status
PaymentOf(u, payment) == Exists(u) /\ order[u].payment = payment

UpgradeInit ==
    /\ order = [u \in Upgrades |-> None]
    /\ upgrade = [u \in Upgrades |-> None]
    /\ key = [kind |-> "free_trial", limit |-> TrialData, applied |-> TRUE,
              expires |-> TrialDays, status |-> "active", cleanup |-> "not_required"]
    /\ server = [limit |-> TrialData, there |-> TRUE]
    /\ work = [w \in Fulfillers |-> [stage |-> Idle]]
    /\ now = 0

-----------------------------------------------------------------------------
\* create_upgrade_order counts the purchases that are fulfilled.
Create(u) ==
    /\ ~Exists(u)
    /\ key.kind = "free_trial" /\ key.status = "active"
    /\ Cardinality({v \in Upgrades : Status(v, "fulfilled")}) < MaxPurchases
    /\ order' = [order EXCEPT ![u] = [status |-> "waiting_payment", payment |-> "unpaid"]]
    /\ upgrade' = [upgrade EXCEPT ![u] = [status |-> "payment_pending", target |-> None, applied |-> {}]]
    /\ UNCHANGED <<key, server, work, now>>

At(w, stage) == work[w].stage = stage
Turn(w, to) == work' = [work EXCEPT ![w] = to]
Starts(w, u) == At(w, Idle) /\ Turn(w, [stage |-> "begin", upgrade |-> u])

\* A payment service settles the order and then emits ORDER_PAID, whose
\* listener is a call of fulfill_paid_upgrade.
Pay(w, u) ==
    /\ Exists(u) /\ order[u].status = "waiting_payment"
    /\ order' = [order EXCEPT ![u] = [status |-> "paid", payment |-> "paid"]]
    /\ Starts(w, u)
    /\ UNCHANGED <<upgrade, key, server, now>>

\* The order is cancelled, or expires, before it is paid.
GiveUp(u) ==
    /\ Exists(u) /\ order[u].status = "waiting_payment"
    /\ order' = [order EXCEPT ![u].status = "expired"]
    /\ UNCHANGED upgradeVars

\* recover_pending_fulfillment, for one of the rows it found.
Recover(w, u) ==
    /\ Status(u, "fulfillment_pending")
    /\ Starts(w, u)
    /\ UNCHANGED <<order, upgrade, key, server, now>>

-----------------------------------------------------------------------------
\* Faulty: time is not applied.
StageOfData(todo) == IF "data" \in todo THEN "data" ELSE "complete"

Stage(todo) ==
    IF "data" \in todo THEN "data" ELSE IF "days" \in todo THEN "days" ELSE "complete"

AppliedStage == [data |-> "data applied", days |-> "days applied"]

Working(w, u, todo) == [stage |-> Stage(todo), upgrade |-> u, todo |-> todo]

\* Faulty: the targets are worked out in every call.
TargetFresh(u) == [data |-> key.limit + Data[u], days |-> key.expires + Days[u]]

\* Targets are fixed by the first call and are absolute.
TargetOf(u) ==
    IF upgrade[u].target # None THEN upgrade[u].target
    ELSE [data |-> key.limit + Data[u], days |-> key.expires + Days[u]]

\* fulfill_paid_upgrade, first transaction, for an order that is paid.
Begin(w) ==
    /\ At(w, "begin")
    /\ LET u == work[w].upgrade IN
         /\ ~Status(u, "fulfilled") /\ PaymentOf(u, "paid")
         /\ upgrade' = [upgrade EXCEPT ![u].status = "fulfillment_pending",
                                       ![u].target = TargetOf(u)]
         /\ Turn(w, Working(w, u, Parts[u] \ upgrade[u].applied))
    /\ UNCHANGED <<order, key, server, now>>

\* ... and for one that is fulfilled, or not paid any more.
NothingToDo(w) ==
    /\ At(w, "begin")
    /\ LET u == work[w].upgrade IN Status(u, "fulfilled") \/ ~PaymentOf(u, "paid")
    /\ Turn(w, [stage |-> Idle])
    /\ UNCHANGED <<order, upgrade, key, server, now>>

Aim(w) == upgrade[work[w].upgrade].target
HasLimit(w) == key.applied /\ key.limit = Aim(w).data

\* apply_for_key; a limit that is applied already is not sent again.
ApplyData(w) ==
    /\ At(w, "data")
    /\ \/ HasLimit(w) /\ UNCHANGED <<key, server>>
       \/ /\ ~HasLimit(w) /\ server.there
          /\ server' = [server EXCEPT !.limit = Aim(w).data]
          /\ key' = [key EXCEPT !.limit = Aim(w).data, !.applied = TRUE]
    /\ Turn(w, [work[w] EXCEPT !.stage = "data applied"])
    /\ UNCHANGED <<order, upgrade, now>>

\* The server does not answer or does not know the key; it may have taken
\* the limit all the same.
DataFails(w) ==
    /\ At(w, "data")
    /\ ~HasLimit(w)
    /\ key' = [key EXCEPT !.applied = FALSE]
    /\ server' \in {server, [server EXCEPT !.limit = IF server.there THEN Aim(w).data ELSE @]}
    /\ Turn(w, [work[w] EXCEPT !.stage = "failed"])
    /\ UNCHANGED <<order, upgrade, now>>

\* The process dies after the server took the limit.
DataLost(w) ==
    /\ At(w, "data")
    /\ ~HasLimit(w) /\ server.there
    /\ server' = [server EXCEPT !.limit = Aim(w).data]
    /\ Turn(w, [stage |-> Idle])
    /\ UNCHANGED <<order, upgrade, key, now>>

\* The expiry is never moved back, and a key that had expired is active again.
Extended(w) ==
    IF key.expires >= Aim(w).days THEN key
    ELSE [key EXCEPT !.expires = Aim(w).days, !.status = "active"]

\* extend_key_to
ExtendKey(w) ==
    /\ At(w, "days")
    /\ key' = Extended(w)
    /\ Turn(w, [work[w] EXCEPT !.stage = "days applied"])
    /\ UNCHANGED <<order, upgrade, server, now>>

\* Maintenance is on.
ExtendRefused(w) ==
    /\ At(w, "days")
    /\ Turn(w, [work[w] EXCEPT !.stage = "failed"])
    /\ UNCHANGED <<order, upgrade, key, server, now>>

\* _mark_component
Mark(w, part) ==
    /\ At(w, AppliedStage[part])
    /\ upgrade' = [upgrade EXCEPT ![work[w].upgrade].applied = @ \cup {part}]
    /\ Turn(w, Working(w, work[w].upgrade, work[w].todo \ {part}))
    /\ UNCHANGED <<order, key, server, now>>

\* _mark_pending_failure, whatever has become of the row.
MarkFailure(w) ==
    /\ At(w, "failed")
    /\ upgrade' = [upgrade EXCEPT ![work[w].upgrade].status = "fulfillment_pending"]
    /\ Turn(w, [stage |-> Idle])
    /\ UNCHANGED <<order, key, server, now>>

\* _complete_upgrade does not look at the payment again.
Complete(w) ==
    /\ At(w, "complete")
    /\ LET u == work[w].upgrade IN
         /\ upgrade' = [upgrade EXCEPT ![u].status = "fulfilled"]
         /\ order' = [order EXCEPT ![u].status = "completed"]
         /\ key' = IF Parts[u] = {} THEN [key EXCEPT !.kind = "paid"] ELSE key
    /\ Turn(w, [stage |-> Idle])
    /\ UNCHANGED <<server, now>>

Abandon(w) ==
    /\ ~At(w, Idle)
    /\ Turn(w, [stage |-> Idle])
    /\ UNCHANGED <<order, upgrade, key, server, now>>

-----------------------------------------------------------------------------
Tick ==
    /\ now < MaxTime
    /\ now' = now + 1
    /\ UNCHANGED <<order, upgrade, key, server, work>>

\* The sweep picks active keys that are due and not cleaned up.
Due == key.status = "active" /\ key.expires <= now /\ key.cleanup # "completed"

\* expire_due_key: the server deletes the key ...
Expire ==
    /\ Due
    /\ key' = [key EXCEPT !.status = "expired", !.cleanup = "completed"]
    /\ server' = [server EXCEPT !.there = FALSE]
    /\ UNCHANGED <<order, upgrade, work, now>>

\* ... or does not answer, and the key is expired all the same ...
ExpireUncleaned ==
    /\ Due
    /\ key' = [key EXCEPT !.status = "expired", !.cleanup = "failed"]
    /\ server' \in {server, [server EXCEPT !.there = FALSE]}
    /\ UNCHANGED <<order, upgrade, work, now>>

\* ... or the process dies once it is deleted.
ExpireLost ==
    /\ Due /\ server.there
    /\ server' = [server EXCEPT !.there = FALSE]
    /\ UNCHANGED <<order, upgrade, key, work, now>>

-----------------------------------------------------------------------------
Fulfil(w) ==
    \/ Begin(w) \/ NothingToDo(w)
    \/ ApplyData(w) \/ DataFails(w) \/ DataLost(w)
    \/ ExtendKey(w) \/ ExtendRefused(w)
    \/ \E part \in {"data", "days"} : Mark(w, part)
    \/ MarkFailure(w) \/ Complete(w) \/ Abandon(w)

UpgradeStep ==
    \/ \E u \in Upgrades :
         \/ Create(u) \/ GiveUp(u)
         \/ \E w \in Listeners : Pay(w, u)
         \/ \E w \in Recoverers : Recover(w, u)
    \/ \E w \in Fulfillers : Fulfil(w)
    \/ Tick \/ Expire \/ ExpireUncleaned \/ ExpireLost

-----------------------------------------------------------------------------
UpgradeRow == [status : {"payment_pending", "fulfillment_pending", "fulfilled"},
               target : [data : Nat, days : Nat] \cup {None},
               applied : SUBSET {"data", "days"}]

OrderRow == [status : {"waiting_payment", "paid", "expired", "completed", "refunded"},
             payment : {"unpaid", "paid", "refunded"}]

\* The markers are none of the values they stand apart from.
ASSUME MarkersAssumption ==
    /\ None \notin UpgradeRow \cup [data : Nat, days : Nat]
    /\ Idle \notin {"begin", "data", "data applied", "days", "days applied", "failed", "complete"}

UpgradeTypeOK ==
    /\ order \in [Upgrades -> OrderRow \cup {None}]
    /\ upgrade \in [Upgrades -> UpgradeRow \cup {None}]
    /\ key \in [kind : {"free_trial", "paid"}, limit : Nat, applied : BOOLEAN,
                expires : Nat, status : {"active", "expired"},
                cleanup : {"not_required", "completed", "failed"}]
    /\ server \in [limit : Nat, there : BOOLEAN]
    /\ work \in [Fulfillers -> [stage : {Idle}] \cup [stage : {"begin"}, upgrade : Upgrades]
                   \cup [stage : {"data", "data applied", "days", "days applied",
                                  "failed", "complete"},
                         upgrade : Upgrades, todo : SUBSET {"data", "days"}]]
    /\ now \in Nat

Begun == {u \in Upgrades : Exists(u) /\ upgrade[u].target # None}

\* No part of an upgrade is given twice: the key has no more data and no more
\* time than the trial and the upgrades that were paid for add up to, however
\* often fulfilment is retried and wherever it died.
NeverTwice ==
    /\ key.limit <= TrialData + SumFunctionOnSet(Data, Begun)
    /\ key.expires <= TrialDays + SumFunctionOnSet(Days, Begun)

\* An upgrade that is fulfilled was given in full, if no other upgrade of the
\* key was under way or done.
FulfilledInFull ==
    \A u \in Upgrades : Status(u, "fulfilled") /\ Begun = {u} =>
        /\ "data" \in Parts[u] => key.limit = TrialData + Data[u]
        /\ "days" \in Parts[u] => key.expires = TrialDays + Days[u]
=============================================================================
