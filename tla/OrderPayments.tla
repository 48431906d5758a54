--------------------------- MODULE OrderPayments ---------------------------
(***************************************************************************)
(* One order's way through payment, with everything that writes its row:   *)
(* wallet payment, manual payment submission and its review, provider      *)
(* settlement, refund, cancellation, the expiry sweep, promo discounts and *)
(* the provisioning that completes it.                                     *)
(*                                                                         *)
(* A service call that locks the order row first and commits at the end is *)
(* one step.  A call that reads the row without a lock, or samples the     *)
(* clock before it asks for the lock, or works in two transactions, is two *)
(* steps with what it saw kept in `call`; other transactions may commit    *)
(* between them.  Callers are the service calls that may be open at the    *)
(* same time: one for a bot process, whose updates are handled one by one, *)
(* more for several processes.  The expiry sweep is a background job and   *)
(* runs next to the handlers when SweepOverlaps.                           *)
(***************************************************************************)
EXTENDS Integers, FiniteSets, Functions

CONSTANTS
    Orders,             \* an order is named by its unique checkout token
    Users,
    Owner,              \* Owner[o]: the customer of order o
    Proofs,             \* payment proofs; a proof makes the idempotency key
    RefundRequests,     \* refund request ids
    Callers,
    SweepOverlaps,
    KeyColumnsMapped,   \* VPNKeyORM has the columns that _persist passes to it
    FullPrice, LowPrice, \* total_amount before and after a promo discount
    Opening,            \* opening wallet balance
    NoProof,            \* payment_submission_id IS NULL
    Idle                \* no open call

ASSUME OrdersAssumption ==
    /\ Owner \in [Orders -> Users]
    /\ FullPrice \in Nat /\ LowPrice \in Nat /\ Opening \in Nat
    /\ IsFiniteSet(Orders) /\ IsFiniteSet(Proofs) /\ NoProof \notin Proofs
    /\ SweepOverlaps \in BOOLEAN /\ KeyColumnsMapped \in BOOLEAN

VARIABLES
    order,          \* the orders rows
    submission,     \* the payment_submissions rows, by order and proof
    overdue,        \* overdue[o]: the clock has passed expires_at
    balance, book,  \* the wallets, as MoneyBook promises them
    refunds,        \* how often order o was set to refunded (history)
    call,           \* the open call of each caller
    sweeping        \* the orders the running sweep has read as expirable

vars == <<order, submission, overdue, balance, book, refunds, call, sweeping>>
money == <<balance, book>>

Statuses == {"absent", "pending", "waiting_payment", "awaiting_approval", "paid",
             "completed", "cancelled", "expired", "refunded"}
PaymentStatuses == {"unpaid", "under_review", "paid", "refunded"}
Totals == {FullPrice, LowPrice}

OrderRow == [status : Statuses, payment : PaymentStatuses, total : Totals,
             linked : Proofs \cup {NoProof}, provisioned : BOOLEAN]

SubmissionRow == [state : {"none", "pending_review", "approved", "rejected"},
                  amount : Totals]

\* OrderService._ALLOWED_TRANSITIONS.
Allowed == {
    <<"pending", "waiting_payment">>, <<"pending", "cancelled">>,
    <<"pending", "expired">>,
    <<"waiting_payment", "awaiting_approval">>, <<"waiting_payment", "paid">>,
    <<"waiting_payment", "cancelled">>, <<"waiting_payment", "expired">>,
    <<"awaiting_approval", "waiting_payment">>, <<"awaiting_approval", "paid">>,
    <<"awaiting_approval", "expired">>,
    <<"paid", "completed">>, <<"paid", "refunded">> }

\* Faulty: the key does not name the order.
PayKeyOfNone(o) == <<"wallet-payment">>

PayKey(o) == <<"wallet-payment", o>>
RefundKey(r) == <<"refund", r>>
Keys == {PayKey(o) : o \in Orders} \cup {RefundKey(r) : r \in RefundRequests}

BookRow == [key : Keys, user : Users, amount : Int]

Book == INSTANCE MoneyBook WITH Moves <- Totals \cup {-t : t \in Totals}

Exists(o) == order[o].status # "absent"
Pending(o) == {p \in Proofs : submission[o][p].state = "pending_review"}
Approved(o) == {p \in Proofs : submission[o][p].state = "approved"}

\* A handler may start: its caller has nothing open.
Ready(c) == call[c] = Idle /\ (SweepOverlaps \/ sweeping = {})
InCall(c, op) == call[c] # Idle /\ call[c].op = op
Open(c, rec) == call' = [call EXCEPT ![c] = rec]
Return(c) == call' = [call EXCEPT ![c] = Idle]

-----------------------------------------------------------------------------
Init ==
    /\ order = [o \in Orders |->
                  [status |-> "absent", payment |-> "unpaid", total |-> FullPrice,
                   linked |-> NoProof, provisioned |-> FALSE]]
    /\ submission = [o \in Orders |->
                       [p \in Proofs |-> [state |-> "none", amount |-> FullPrice]]]
    /\ overdue = [o \in Orders |-> FALSE]
    /\ balance = [u \in Users |-> Opening]
    /\ book = {}
    /\ refunds = [o \in Orders |-> 0]
    /\ call = [c \in Callers |-> Idle]
    /\ sweeping = {}

\* The checkout token is unique: a second confirmation returns the first order.
CreatePendingOrder(c, o) ==
    /\ Ready(c)
    /\ ~Exists(o)
    /\ order' = [order EXCEPT ![o].status = "waiting_payment"]
    /\ UNCHANGED <<submission, overdue, money, refunds, call, sweeping>>

\* The clock passes expires_at.
TimePasses(o) ==
    /\ Exists(o) /\ ~overdue[o]
    /\ overdue' = [overdue EXCEPT ![o] = TRUE]
    /\ UNCHANGED <<order, submission, money, refunds, call, sweeping>>

-----------------------------------------------------------------------------
\* WalletPaymentService.pay samples the clock before it asks for the row lock.
PayStart(c, o) ==
    /\ Ready(c) /\ Exists(o)
    /\ Open(c, [op |-> "pay", order |-> o, late |-> overdue[o]])
    /\ UNCHANGED <<order, submission, overdue, money, refunds, sweeping>>

\* A payment already made answers with its receipt before anything else.
AlreadyPaid(o) == Book!Spent(PayKey(o)) \/ order[o].payment = "paid"

\* _validate_order: too late counts before payment status and open status do.
Lapsed(o, late) ==
    /\ ~AlreadyPaid(o)
    /\ order[o].status \notin {"cancelled", "completed"}
    /\ order[o].status = "expired" \/ late

Payable(o, late) ==
    /\ ~AlreadyPaid(o)
    /\ ~late
    /\ order[o].payment # "refunded"
    /\ order[o].status \in {"pending", "waiting_payment"}
    /\ order[o].total > 0
    /\ balance[Owner[o]] >= order[o].total

\* Debit, ledger row and paid order commit together.
PayCommit(c) ==
    /\ InCall(c, "pay")
    /\ LET o == call[c].order IN
         /\ Payable(o, call[c].late)
         /\ Book!Post(PayKey(o), Owner[o], -order[o].total)
         /\ order' = [order EXCEPT ![o] =
                      [@ EXCEPT !.status = "paid", !.payment = "paid"]]
    /\ Return(c)
    /\ UNCHANGED <<submission, overdue, refunds, sweeping>>

\* order_expired is the one refusal that writes: status and expires_at.
PayLapse(c) ==
    /\ InCall(c, "pay")
    /\ LET o == call[c].order IN
         /\ Lapsed(o, call[c].late)
         /\ order' = [order EXCEPT ![o].status = "expired"]
         /\ overdue' = [overdue EXCEPT ![o] = TRUE]
    /\ Return(c)
    /\ UNCHANGED <<submission, money, refunds, sweeping>>

PayRefuse(c) ==
    /\ InCall(c, "pay")
    /\ LET o == call[c].order IN
         ~Payable(o, call[c].late) /\ ~Lapsed(o, call[c].late)
    /\ Return(c)
    /\ UNCHANGED <<order, submission, overdue, money, refunds, sweeping>>

-----------------------------------------------------------------------------
\* PaymentSubmissionService.submit reads the order without a lock ...
SubmitStart(c, o, p) ==
    /\ Ready(c) /\ Exists(o)
    /\ order[o].status \notin {"paid", "completed", "cancelled", "expired"}
    /\ order[o].payment # "paid"
    /\ ~overdue[o]
    /\ Open(c, [op |-> "look", order |-> o, proof |-> p, status |-> order[o].status,
                payment |-> order[o].payment, total |-> order[o].total])
    /\ UNCHANGED <<order, submission, overdue, money, refunds, sweeping>>

\* ... then its submissions: the proof must be new and none under review ...
SubmitCheck(c) ==
    /\ InCall(c, "look")
    /\ submission[call[c].order][call[c].proof].state = "none"
    /\ Pending(call[c].order) = {}
    /\ Open(c, [call[c] EXCEPT !.op = "submit"])
    /\ UNCHANGED <<order, submission, overdue, money, refunds, sweeping>>

\* ... or the call answers review_pending or the duplicate's receipt.
SubmitRefuse(c) ==
    /\ InCall(c, "look")
    /\ \/ submission[call[c].order][call[c].proof].state # "none"
       \/ Pending(call[c].order) # {}
    /\ Return(c)
    /\ UNCHANGED <<order, submission, overdue, money, refunds, sweeping>>

\* At the end it writes the columns whose new value differs from the one read.
SubmitCommit(c) ==
    /\ InCall(c, "submit")
    /\ LET o == call[c].order
           p == call[c].proof
           status == IF call[c].status = "awaiting_approval"
                     THEN order[o].status ELSE "awaiting_approval"
           payment == IF call[c].payment = "under_review"
                      THEN order[o].payment ELSE "under_review"
       IN
         /\ submission[o][p].state = "none"
         /\ submission' = [submission EXCEPT ![o][p] =
                             [state |-> "pending_review", amount |-> call[c].total]]
         /\ order' = [order EXCEPT ![o] =
                        [@ EXCEPT !.status = status, !.payment = payment, !.linked = p]]
    /\ Return(c)
    /\ UNCHANGED <<overdue, money, refunds, sweeping>>

\* The same proof was inserted meanwhile: the unique key rolls this one back.
SubmitConflict(c) ==
    /\ InCall(c, "submit")
    /\ submission[call[c].order][call[c].proof].state # "none"
    /\ Return(c)
    /\ UNCHANGED <<order, submission, overdue, money, refunds, sweeping>>

-----------------------------------------------------------------------------
\* Faulty: an expired order's submission cannot be decided any more.
ReviewableUnlessExpired(o, p) ==
    /\ submission[o][p].state = "pending_review"
    /\ order[o].linked \in {NoProof, p}
    /\ order[o].status = "awaiting_approval"
    /\ order[o].total = submission[o][p].amount

\* PaymentReviewService._decide, up to the choice of the order's new status.
Reviewable(o, p) ==
    /\ submission[o][p].state = "pending_review"
    /\ order[o].linked \in {NoProof, p}
    /\ order[o].status \notin {"paid", "completed", "cancelled", "refunded"}
    /\ order[o].total = submission[o][p].amount

Approve(c, o, p) ==
    /\ Ready(c)
    /\ Reviewable(o, p)
    /\ <<order[o].status, "paid">> \in Allowed
    /\ submission' = [submission EXCEPT ![o][p].state = "approved"]
    /\ order' = [order EXCEPT ![o] =
                   [@ EXCEPT !.status = "paid", !.payment = "paid", !.linked = p]]
    /\ UNCHANGED <<overdue, money, refunds, call, sweeping>>

Reject(c, o, p) ==
    /\ Ready(c)
    /\ Reviewable(o, p)
    /\ overdue[o] \/ <<order[o].status, "waiting_payment">> \in Allowed
    /\ submission' = [submission EXCEPT ![o][p].state = "rejected"]
    /\ order' = [order EXCEPT ![o] =
                   [@ EXCEPT !.status = IF overdue[o] THEN "expired"
                                                      ELSE "waiting_payment",
                             !.payment = "unpaid",
                             !.linked = p]]
    /\ UNCHANGED <<overdue, money, refunds, call, sweeping>>

\* PaymentSettlementService.settle, once the provider has verified a payment.
Settle(c, o, p) ==
    /\ Ready(c)
    /\ submission[o][p].state \in {"pending_review", "rejected"}
    /\ order[o].linked \in {NoProof, p}
    /\ order[o].total = submission[o][p].amount
    /\ order[o].total > 0
    /\ order[o].payment \in {"unpaid", "under_review"}
    /\ order[o].status \in {"pending", "waiting_payment", "awaiting_approval"}
    /\ <<order[o].status, "paid">> \in Allowed
    /\ submission' = [submission EXCEPT ![o][p].state = "approved"]
    /\ order' = [order EXCEPT ![o] =
                   [@ EXCEPT !.status = "paid", !.payment = "paid", !.linked = p]]
    /\ UNCHANGED <<overdue, money, refunds, call, sweeping>>

-----------------------------------------------------------------------------
\* Faulty: anything but unpaid counts as paid.
RefundableUnlessUnpaid(o) == order[o].payment # "unpaid"

Refundable(o) == order[o].status = "paid" /\ order[o].payment = "paid"

\* PaymentRefundService.refund: a first transaction fixes the amount ...
RefundStart(c, o, r) ==
    /\ Ready(c)
    /\ Refundable(o)
    /\ Open(c, [op |-> "refund", order |-> o, request |-> r,
                total |-> order[o].total])
    /\ UNCHANGED <<order, submission, overdue, money, refunds, sweeping>>

\* Faulty: gives back the price before the discount.
RefundAmountFull(c) == FullPrice

RefundAmount(c) == call[c].total

\* ... and the manual commit credits it.  A request id whose key was spent for
\* the same customer replays the earlier receipt instead of a second credit.
RefundCommit(c) ==
    /\ InCall(c, "refund")
    /\ LET o == call[c].order
           k == RefundKey(call[c].request)
       IN
         /\ Refundable(o)
         /\ RefundAmount(c) > 0
         /\ IF Book!Spent(k)
            THEN /\ \E e \in book : e.key = k /\ e.user = Owner[o]
                 /\ UNCHANGED money
            ELSE Book!Post(k, Owner[o], RefundAmount(c))
         /\ order' = [order EXCEPT ![o] =
                      [@ EXCEPT !.status = "refunded", !.payment = "refunded"]]
         /\ refunds' = [refunds EXCEPT ![o] = @ + 1]
    /\ Return(c)
    /\ UNCHANGED <<submission, overdue, sweeping>>

\* The order changed, the amount is not positive, or the key is another
\* customer's.
RefundFail(c) ==
    /\ InCall(c, "refund")
    /\ LET o == call[c].order IN
         \/ ~Refundable(o)
         \/ RefundAmount(c) = 0
         \/ \E e \in book : e.key = RefundKey(call[c].request) /\ e.user # Owner[o]
    /\ Return(c)
    /\ UNCHANGED <<order, submission, overdue, money, refunds, sweeping>>

-----------------------------------------------------------------------------
\* Faulty: any order that is still open or paid may be closed.
ClosableUnlessClosed(o, target) == order[o].status \notin {"absent", "cancelled", "expired"}

\* validate_transition
Closable(o, target) == <<order[o].status, target>> \in Allowed

\* OrderService.cancel_order and .expire_order: an unlocked read, validated ...
CloseStart(c, o, target) ==
    /\ Ready(c)
    /\ target \in {"cancelled", "expired"}
    /\ Closable(o, target)
    /\ Open(c, [op |-> "close", order |-> o, target |-> target])
    /\ UNCHANGED <<order, submission, overdue, money, refunds, sweeping>>

\* ... then a write by primary key.
CloseCommit(c) ==
    /\ InCall(c, "close")
    /\ LET o == call[c].order IN
         /\ order' = [order EXCEPT ![o].status = call[c].target]
         /\ overdue' = [overdue EXCEPT ![o] = @ \/ call[c].target = "expired"]
    /\ Return(c)
    /\ UNCHANGED <<submission, money, refunds, sweeping>>

\* Faulty: forgets the orders that wait for payment.
ExpirableWhenPending == {o \in Orders : order[o].status = "pending" /\ overdue[o]}

\* OrderService.expire_pending_orders: list_expirable takes no lock ...
Expirable == {o \in Orders : /\ order[o].status \in {"pending", "waiting_payment"}
                             /\ overdue[o]}

SweepStart ==
    /\ sweeping = {}
    /\ Expirable # {}
    /\ SweepOverlaps \/ \A c \in Callers : call[c] = Idle
    /\ sweeping' = Expirable
    /\ UNCHANGED <<order, submission, overdue, money, refunds, call>>

\* Faulty: also takes the payment status back.
SweepResetsPayment ==
    /\ sweeping # {}
    /\ order' = [o \in Orders |->
                   IF o \in sweeping
                   THEN [order[o] EXCEPT !.status = "expired", !.payment = "unpaid"]
                   ELSE order[o]]
    /\ sweeping' = {}
    /\ UNCHANGED <<submission, overdue, money, refunds, call>>

\* ... and every row that was listed is written.
SweepCommit ==
    /\ sweeping # {}
    /\ order' = [o \in Orders |-> IF o \in sweeping
                                  THEN [order[o] EXCEPT !.status = "expired"]
                                  ELSE order[o]]
    /\ sweeping' = {}
    /\ UNCHANGED <<submission, overdue, money, refunds, call>>

-----------------------------------------------------------------------------
\* PromoRedemptionService._apply_discount.
ApplyDiscount(c, o) ==
    /\ Ready(c) /\ Exists(o)
    /\ order[o].payment # "paid"
    /\ order[o].status \notin {"cancelled", "expired", "completed"}
    /\ order[o].total # LowPrice
    /\ order' = [order EXCEPT ![o].total = LowPrice]
    /\ UNCHANGED <<submission, overdue, money, refunds, call, sweeping>>

\* VPNProvisioningService: _paid_order decides before the remote call ...
ProvisionStart(c, o) ==
    /\ Ready(c)
    /\ Refundable(o) /\ ~order[o].provisioned
    /\ Open(c, [op |-> "provision", order |-> o])
    /\ UNCHANGED <<order, submission, overdue, money, refunds, sweeping>>

\* ... _persist looks only at vpn_key_id after it ...
ProvisionCommit(c) ==
    /\ InCall(c, "provision")
    /\ KeyColumnsMapped
    /\ LET o == call[c].order IN
         order' = IF order[o].provisioned THEN order
                  ELSE [order EXCEPT ![o] =
                          [@ EXCEPT !.provisioned = TRUE, !.status = "completed"]]
    /\ Return(c)
    /\ UNCHANGED <<submission, overdue, money, refunds, sweeping>>

\* ... unless the saga fails, as it does when the key's row cannot be built.
ProvisionFail(c) ==
    /\ InCall(c, "provision")
    /\ Return(c)
    /\ UNCHANGED <<order, submission, overdue, money, refunds, sweeping>>

-----------------------------------------------------------------------------
Customer(c, o) ==
    \/ CreatePendingOrder(c, o)
    \/ PayStart(c, o)
    \/ ApplyDiscount(c, o)
    \/ \E p \in Proofs : SubmitStart(c, o, p)
    \/ \E target \in {"cancelled", "expired"} : CloseStart(c, o, target)

Staff(c, o) ==
    \/ \E p \in Proofs : Approve(c, o, p) \/ Reject(c, o, p) \/ Settle(c, o, p)
    \/ \E r \in RefundRequests : RefundStart(c, o, r)
    \/ ProvisionStart(c, o)

Finish(c) ==
    \/ PayCommit(c) \/ PayLapse(c) \/ PayRefuse(c)
    \/ SubmitCheck(c) \/ SubmitRefuse(c) \/ SubmitCommit(c) \/ SubmitConflict(c)
    \/ RefundCommit(c) \/ RefundFail(c)
    \/ CloseCommit(c)
    \/ ProvisionCommit(c) \/ ProvisionFail(c)

Sweep == SweepStart \/ SweepCommit

Next ==
    \/ \E c \in Callers, o \in Orders : Customer(c, o) \/ Staff(c, o)
    \/ \E c \in Callers : Finish(c)
    \/ \E o \in Orders : TimePasses(o)
    \/ Sweep

Spec == Init /\ [][Next]_vars

\* The scheduler keeps enqueueing the sweep; nothing else has to happen.
FairSpec == Spec /\ WF_vars(Sweep)

-----------------------------------------------------------------------------
OpenCall ==
    [op : {"pay"}, order : Orders, late : BOOLEAN]
    \cup [op : {"look", "submit"}, order : Orders, proof : Proofs, status : Statuses,
          payment : PaymentStatuses, total : Totals]
    \cup [op : {"refund"}, order : Orders, request : RefundRequests, total : Totals]
    \cup [op : {"close"}, order : Orders, target : {"cancelled", "expired"}]
    \cup [op : {"provision"}, order : Orders]

\* The values the variables take.
TypeOK ==
    /\ order \in [Orders -> OrderRow]
    /\ submission \in [Orders -> [Proofs -> SubmissionRow]]
    /\ overdue \in [Orders -> BOOLEAN]
    /\ balance \in [Users -> Int]
    /\ book \subseteq BookRow
    /\ refunds \in [Orders -> Nat]
    /\ call \in [Callers -> OpenCall \cup {Idle}]
    /\ sweeping \subseteq Orders

\* How often the money for o came in: by wallet debit, by approved submission.
Captured(o) ==
    Cardinality(Approved(o)) + (IF Book!Spent(PayKey(o)) THEN 1 ELSE 0)

Covered(o) ==
    Captured(o) >= refunds[o] + (IF order[o].payment = "paid" THEN 1 ELSE 0)

\* However calls overlap, an order is paid only on a payment that came in and was
\* not given back, and it is refunded at most once per payment.  Payments are
\* counted here, not their amounts: those are ReturnsAreCovered's.
PaidIsCovered == \A o \in Orders : Covered(o)

\* With one handler at a time the money for an order comes in exactly once per
\* payment: no double charge by two payment methods, none left behind when a
\* submission is rejected or the order lapses.
OneCapturePerPayment ==
    \A o \in Orders :
        Captured(o) = refunds[o] + (IF order[o].payment = "paid" THEN 1 ELSE 0)

\* The money that came in for order o, what a paid order stands on, and the rest.
Received(o) ==
    SumFunctionOnSet([p \in Proofs |-> submission[o][p].amount], Approved(o))
      - SumFunctionOnSet([e \in book |-> e.amount], {e \in book : e.key = PayKey(o)})
Held(o) == IF order[o].payment = "paid" THEN order[o].total ELSE 0
Spare(o) == Received(o) - Held(o)

\* The money given back to user u.
Returned(u) ==
    SumFunctionOnSet([e \in book |-> e.amount],
        {e \in book : e.user = u /\ \E r \in RefundRequests : e.key = RefundKey(r)})

\* With one handler at a time a customer is given back no more money than came in
\* for his orders and is not what a paid order stands on, through discounts,
\* resubmissions and request ids used again.
ReturnsAreCovered ==
    \A u \in Users :
        Returned(u) <= SumFunctionOnSet([o \in Orders |-> Spare(o)],
                                        {o \in Orders : Owner[o] = u})

\* A submission that waits for review can still be decided, whatever became of
\* the order: approved, or at least rejected.  (A discount that changed the
\* total since is the exception: see README.)
PendingCanBeDecided ==
    \A o \in Orders : \A p \in Pending(o) :
        order[o].total = submission[o][p].amount =>
            /\ Reviewable(o, p)
            /\ \/ overdue[o]
               \/ <<order[o].status, "waiting_payment">> \in Allowed

\* Whoever holds a VPN key for an order has paid and was not refunded.
KeyIsPaidFor ==
    \A o \in Orders : order[o].provisioned => Captured(o) > refunds[o]

\* payment_status leaves "paid" only for "refunded".
PaidUntilRefunded ==
    [][\A o \in Orders : order[o].payment = "paid" =>
           order'[o].payment \in {"paid", "refunded"}]_vars

\* What the sweep, writing from an old list, and a handler, writing after the
\* sweep what it read before, may do against the table.
Stale == {"paid", "cancelled", "completed"} \X {"expired"}
           \cup {"expired"} \X {"cancelled", "awaiting_approval", "completed"}

\* Every other change of status is one the transition table of
\* order_service.py:54 allows, save for what becomes of a refunded order.
FollowsTable ==
    [][\A o \in Orders :
          LET was == order[o].status
              now == order'[o].status
          IN  was \in {now, "absent", "refunded"} \/ <<was, now>> \in Allowed \cup Stale]_vars

\* order_service.py:75 lists no way out of "refunded".
RefundedIsFinal ==
    [][\A o \in Orders : order[o].status = "refunded" =>
           order'[o].status = "refunded"]_vars

\* An unpaid order whose time is over does not stay open.
OverdueCloses ==
    \A o \in Orders :
        (overdue[o] /\ order[o].status = "waiting_payment")
            ~> order[o].status # "waiting_payment"
=============================================================================
