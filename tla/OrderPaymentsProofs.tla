------------------------ MODULE OrderPaymentsProofs ------------------------
(***************************************************************************)
(* Proofs about OrderPayments, for any orders, proofs, refund requests,    *)
(* callers and prices, and for any overlap of calls and sweeps.            *)
(***************************************************************************)
EXTENDS OrderPayments, Sums

-----------------------------------------------------------------------------
LEMMA TotalsAreNat == Totals \subseteq Nat
  BY OrdersAssumption DEF Totals

\* Writing the columns the operations write keeps the orders well typed.
LEMMA OrderWrites ==
    ASSUME order \in [Orders -> OrderRow], NEW o \in Orders, NEW s \in Statuses,
           NEW pay \in PaymentStatuses, NEW l \in Proofs \cup {NoProof}
    PROVE  /\ [order EXCEPT ![o].status = s] \in [Orders -> OrderRow]
           /\ [order EXCEPT ![o] = [@ EXCEPT !.status = s, !.payment = pay]]
                  \in [Orders -> OrderRow]
           /\ [order EXCEPT ![o] =
                  [@ EXCEPT !.status = s, !.payment = pay, !.linked = l]]
                  \in [Orders -> OrderRow]
           /\ [order EXCEPT ![o] = [@ EXCEPT !.provisioned = TRUE, !.status = s]]
                  \in [Orders -> OrderRow]
<1>1. ASSUME NEW r \in OrderRow
      PROVE  /\ [r EXCEPT !.status = s] \in OrderRow
             /\ [r EXCEPT !.status = s, !.payment = pay] \in OrderRow
             /\ [r EXCEPT !.status = s, !.payment = pay, !.linked = l] \in OrderRow
             /\ [r EXCEPT !.provisioned = TRUE, !.status = s] \in OrderRow
  BY DEF OrderRow
<1>2. QED BY <1>1

LEMMA SubmissionInsert ==
    ASSUME submission \in [Orders -> [Proofs -> SubmissionRow]],
           NEW o \in Orders, NEW p \in Proofs, NEW row \in SubmissionRow
    PROVE  [submission EXCEPT ![o][p] = row] \in [Orders -> [Proofs -> SubmissionRow]]
  OBVIOUS

LEMMA SubmissionUpdate ==
    ASSUME submission \in [Orders -> [Proofs -> SubmissionRow]],
           NEW o \in Orders, NEW p \in Proofs, NEW s \in {"approved", "rejected"}
    PROVE  [submission EXCEPT ![o][p].state = s] \in [Orders -> [Proofs -> SubmissionRow]]
<1>1. [submission[o][p] EXCEPT !.state = s] \in SubmissionRow
  BY DEF SubmissionRow
<1>2. QED BY <1>1

\* The values the operations write.
LEMMA Written ==
    /\ {"waiting_payment", "awaiting_approval", "paid", "completed", "cancelled",
        "expired", "refunded"} \subseteq Statuses
    /\ {"unpaid", "under_review", "paid", "refunded"} \subseteq PaymentStatuses
  BY DEF Statuses, PaymentStatuses

\* What an open call carries, by the operation it belongs to.
LEMMA OpenCallShape ==
    ASSUME TypeOK, NEW c \in Callers, call[c] # Idle
    PROVE  /\ call[c].order \in Orders
           /\ InCall(c, "submit") => /\ call[c].proof \in Proofs
                                     /\ call[c].total \in Totals
           /\ InCall(c, "refund") => /\ call[c].request \in RefundRequests
                                     /\ call[c].total \in Totals
           /\ InCall(c, "close") => call[c].target \in {"cancelled", "expired"}
<1>1. call[c] \in OpenCall
  BY DEF TypeOK
<1>2. QED BY <1>1 DEF OpenCall, InCall

LEMMA LookIsOpen ==
    ASSUME TypeOK, NEW c \in Callers, InCall(c, "look")
    PROVE  [call[c] EXCEPT !.op = "submit"] \in OpenCall
<1>1. call[c] \in OpenCall
  BY DEF TypeOK, InCall
<1>2. QED BY <1>1 DEF OpenCall, InCall

\* Posting keeps the money well typed.
LEMMA PostType ==
    ASSUME TypeOK, NEW k \in Keys, NEW u \in Users, NEW d \in Int,
           Book!Post(k, u, d)
    PROVE  balance' \in [Users -> Int] /\ book' \subseteq BookRow
  BY DEF TypeOK, Book!Post, BookRow

\* Closing a call keeps the calls well typed.
LEMMA ReturnType ==
    ASSUME TypeOK, NEW c \in Callers, Return(c)
    PROVE  call' \in [Callers -> OpenCall \cup {Idle}]
  BY DEF TypeOK, Return

LEMMA CustomerType ==
    ASSUME TypeOK, NEW c \in Callers, NEW o \in Orders, Customer(c, o)
    PROVE  TypeOK'
<1> USE DEF TypeOK
<1>1. CASE CreatePendingOrder(c, o)
  <2>1. order' \in [Orders -> OrderRow]
    <3>1. order' = [order EXCEPT ![o].status = "waiting_payment"]
      BY <1>1 DEF CreatePendingOrder
    <3>2. QED BY <3>1, OrderWrites, Written DEF TypeOK
  <2>2. QED BY <1>1, <2>1 DEF CreatePendingOrder, OrderRow, SubmissionRow, BookRow, money
<1>2. CASE PayStart(c, o)
  <2>1. [op |-> "pay", order |-> o, late |-> overdue[o]] \in OpenCall
    BY DEF OpenCall, OrderRow
  <2>2. QED BY <1>2, <2>1 DEF PayStart, Open, OrderRow, SubmissionRow, BookRow, money
<1>3. CASE ApplyDiscount(c, o)
  <2>1. order' \in [Orders -> OrderRow]
    BY <1>3 DEF ApplyDiscount, OrderRow, Totals
  <2>2. QED BY <1>3, <2>1 DEF ApplyDiscount, OrderRow, SubmissionRow, BookRow, money
<1>4. ASSUME NEW p \in Proofs, SubmitStart(c, o, p)
      PROVE  TypeOK'
  <2>1. [op |-> "look", order |-> o, proof |-> p, status |-> order[o].status,
         payment |-> order[o].payment, total |-> order[o].total] \in OpenCall
    BY DEF OpenCall, OrderRow
  <2>2. QED BY <1>4, <2>1 DEF SubmitStart, Open, OrderRow, SubmissionRow, BookRow, money
<1>5. ASSUME NEW target \in {"cancelled", "expired"}, CloseStart(c, o, target)
      PROVE  TypeOK'
  <2>1. [op |-> "close", order |-> o, target |-> target] \in OpenCall
    BY DEF OpenCall, OrderRow
  <2>2. QED BY <1>5, <2>1 DEF CloseStart, Open, OrderRow, SubmissionRow, BookRow, money
<1>6. QED BY <1>1, <1>2, <1>3, <1>4, <1>5 DEF Customer

LEMMA StaffType ==
    ASSUME TypeOK, NEW c \in Callers, NEW o \in Orders, Staff(c, o)
    PROVE  TypeOK'
<1> USE DEF TypeOK
<1>1. ASSUME NEW p \in Proofs, Approve(c, o, p) \/ Settle(c, o, p)
      PROVE  TypeOK'
  <2>1. order' \in [Orders -> OrderRow]
    <3>1. order' = [order EXCEPT ![o] =
                     [@ EXCEPT !.status = "paid", !.payment = "paid", !.linked = p]]
      BY <1>1 DEF Approve, Settle
    <3>2. QED BY <3>1, OrderWrites, Written DEF TypeOK
  <2>2. submission' \in [Orders -> [Proofs -> SubmissionRow]]
    <3>1. submission' = [submission EXCEPT ![o][p].state = "approved"]
      BY <1>1 DEF Approve, Settle
    <3>2. QED BY <3>1, SubmissionUpdate
  <2>3. QED BY <1>1, <2>1, <2>2 DEF Approve, Settle, OrderRow, SubmissionRow, BookRow, money
<1>2. ASSUME NEW p \in Proofs, Reject(c, o, p)
      PROVE  TypeOK'
  <2> DEFINE s == IF overdue[o] THEN "expired" ELSE "waiting_payment"
  <2>1. order' \in [Orders -> OrderRow]
    <3>1. order' = [order EXCEPT ![o] =
                     [@ EXCEPT !.status = s, !.payment = "unpaid", !.linked = p]]
      BY <1>2 DEF Reject
    <3>2. s \in Statuses
      BY Written
    <3> HIDE DEF s
    <3>3. QED BY <3>1, <3>2, OrderWrites, Written DEF TypeOK
  <2>2. submission' \in [Orders -> [Proofs -> SubmissionRow]]
    <3>1. submission' = [submission EXCEPT ![o][p].state = "rejected"]
      BY <1>2 DEF Reject
    <3>2. QED BY <3>1, SubmissionUpdate
  <2>3. QED BY <1>2, <2>1, <2>2 DEF Reject, OrderRow, SubmissionRow, BookRow, money
<1>3. ASSUME NEW r \in RefundRequests, RefundStart(c, o, r)
      PROVE  TypeOK'
  <2>1. [op |-> "refund", order |-> o, request |-> r, total |-> order[o].total]
            \in OpenCall
    BY DEF OpenCall, OrderRow
  <2>2. QED BY <1>3, <2>1 DEF RefundStart, Open, OrderRow, SubmissionRow, BookRow, money
<1>4. CASE ProvisionStart(c, o)
  <2>1. [op |-> "provision", order |-> o] \in OpenCall
    BY DEF OpenCall, OrderRow
  <2>2. QED BY <1>4, <2>1 DEF ProvisionStart, Open, OrderRow, SubmissionRow, BookRow, money
<1>5. QED BY <1>1, <1>2, <1>3, <1>4 DEF Staff

LEMMA FinishType ==
    ASSUME TypeOK, NEW c \in Callers, Finish(c)
    PROVE  TypeOK'
<1> DEFINE o == call[c].order
<1>0. call[c] # Idle /\ (SubmitCheck(c) \/ Return(c))
  BY DEF Finish, InCall, PayCommit, PayLapse, PayRefuse, SubmitCheck, SubmitRefuse,
         SubmitCommit, SubmitConflict, RefundCommit, RefundFail, CloseCommit,
         ProvisionCommit, ProvisionFail
<1>1. o \in Orders /\ Owner[o] \in Users /\ call' \in [Callers -> OpenCall \cup {Idle}]
  <2>1. SubmitCheck(c) => call' \in [Callers -> OpenCall \cup {Idle}]
    BY LookIsOpen DEF SubmitCheck, Open, TypeOK
  <2>2. QED BY <1>0, <2>1, OpenCallShape, ReturnType, OrdersAssumption
<1>2. CASE PayCommit(c)
  <2>1. order' \in [Orders -> OrderRow]
    <3>1. order' = [order EXCEPT ![o] =
                     [@ EXCEPT !.status = "paid", !.payment = "paid"]]
      BY <1>2 DEF PayCommit
    <3>2. QED BY <3>1, <1>1, OrderWrites, Written DEF TypeOK
  <2>2. PayKey(o) \in Keys /\ -order[o].total \in Int
    BY <1>1, TotalsAreNat DEF Keys, TypeOK, OrderRow
  <2>3. balance' \in [Users -> Int] /\ book' \subseteq BookRow
    BY <1>2, <1>1, <2>2, PostType DEF PayCommit
  <2>4. QED BY <1>1, <1>2, <2>1, <2>3 DEF PayCommit, TypeOK, OrderRow, SubmissionRow, BookRow
<1>3. CASE PayLapse(c)
  <2>1. order' \in [Orders -> OrderRow]
    <3>1. order' = [order EXCEPT ![o].status = "expired"]
      BY <1>3 DEF PayLapse
    <3>2. QED BY <3>1, <1>1, OrderWrites, Written DEF TypeOK
  <2>2. overdue' \in [Orders -> BOOLEAN]
    BY <1>3 DEF PayLapse, TypeOK
  <2>3. QED BY <1>1, <1>3, <2>1, <2>2 DEF PayLapse, TypeOK, OrderRow, SubmissionRow, BookRow, money
<1>4. CASE \/ PayRefuse(c) \/ SubmitCheck(c) \/ SubmitRefuse(c) \/ SubmitConflict(c)
           \/ RefundFail(c) \/ ProvisionFail(c)
  <2>1. UNCHANGED <<order, submission, overdue, balance, book, refunds, sweeping>>
    BY <1>4 DEF PayRefuse, SubmitCheck, SubmitRefuse, SubmitConflict, RefundFail,
                ProvisionFail, money
  <2>2. QED BY <1>1, <2>1 DEF TypeOK, OrderRow, SubmissionRow, BookRow
<1>5. CASE SubmitCommit(c)
  <2>1. call[c].proof \in Proofs /\ call[c].total \in Totals
    BY <1>5, <1>0, OpenCallShape DEF SubmitCommit
  <2>2. order' \in [Orders -> OrderRow]
    <3> DEFINE s == IF call[c].status = "awaiting_approval" THEN order[o].status
                                                            ELSE "awaiting_approval"
               pay == IF call[c].payment = "under_review" THEN order[o].payment
                                                          ELSE "under_review"
               l == call[c].proof
    <3>1. order' = [order EXCEPT ![o] =
                     [@ EXCEPT !.status = s, !.payment = pay, !.linked = l]]
      BY <1>5 DEF SubmitCommit
    <3>2. s \in Statuses /\ pay \in PaymentStatuses /\ l \in Proofs \cup {NoProof}
      BY <1>1, <2>1, Written DEF TypeOK, OrderRow
    <3> HIDE DEF s, pay, l
    <3>3. QED BY <3>1, <3>2, <1>1, OrderWrites, Written DEF TypeOK
  <2>3. submission' \in [Orders -> [Proofs -> SubmissionRow]]
    <3>1. [state |-> "pending_review", amount |-> call[c].total] \in SubmissionRow
      BY <2>1 DEF SubmissionRow
    <3>2. submission' = [submission EXCEPT ![o][call[c].proof] =
                           [state |-> "pending_review", amount |-> call[c].total]]
      BY <1>5 DEF SubmitCommit
    <3>3. QED BY <1>1, <2>1, <3>1, <3>2, SubmissionInsert DEF TypeOK
  <2>4. QED BY <1>1, <1>5, <2>2, <2>3
            DEF SubmitCommit, TypeOK, OrderRow, SubmissionRow, BookRow, money
<1>6. CASE RefundCommit(c)
  <2>1. call[c].request \in RefundRequests /\ call[c].total \in Int
    BY <1>6, <1>0, OpenCallShape, TotalsAreNat DEF RefundCommit
  <2>2. order' \in [Orders -> OrderRow]
    <3>1. order' = [order EXCEPT ![o] =
                     [@ EXCEPT !.status = "refunded", !.payment = "refunded"]]
      BY <1>6 DEF RefundCommit
    <3>2. QED BY <3>1, <1>1, OrderWrites, Written DEF TypeOK
  <2>3. RefundKey(call[c].request) \in Keys
    BY <2>1 DEF Keys
  <2>4. balance' \in [Users -> Int] /\ book' \subseteq BookRow
    BY <1>6, <1>1, <2>1, <2>3, PostType DEF RefundCommit, RefundAmount, TypeOK, BookRow, money
  <2>5. refunds' \in [Orders -> Nat]
    BY <1>6, <1>1 DEF RefundCommit, TypeOK
  <2>6. QED BY <1>1, <1>6, <2>2, <2>4, <2>5 DEF RefundCommit, TypeOK, OrderRow, SubmissionRow,
               BookRow
<1>7. CASE CloseCommit(c)
  <2>1. call[c].target \in {"cancelled", "expired"}
    BY <1>7, <1>0, OpenCallShape DEF CloseCommit
  <2>2. order' \in [Orders -> OrderRow]
    <3>1. order' = [order EXCEPT ![o].status = call[c].target]
      BY <1>7 DEF CloseCommit
    <3>2. QED BY <3>1, <1>1, <2>1, OrderWrites, Written DEF TypeOK
  <2>3. overdue' \in [Orders -> BOOLEAN]
    BY <1>7, <1>1 DEF CloseCommit, TypeOK
  <2>4. QED BY <1>1, <1>7, <2>2, <2>3 DEF CloseCommit, TypeOK, OrderRow, SubmissionRow,
               BookRow, money
<1>8. CASE ProvisionCommit(c)
  <2>1. order' \in [Orders -> OrderRow]
    <3>1. CASE order[o].provisioned
      BY <1>8, <3>1 DEF ProvisionCommit, TypeOK
    <3>2. CASE ~order[o].provisioned
      <4>1. order' = [order EXCEPT ![o] =
                       [@ EXCEPT !.provisioned = TRUE, !.status = "completed"]]
        BY <1>8, <3>2 DEF ProvisionCommit
      <4>2. QED BY <4>1, <1>1, OrderWrites, Written DEF TypeOK
    <3>3. QED BY <3>1, <3>2
  <2>2. QED BY <1>1, <1>8, <2>1 DEF ProvisionCommit, TypeOK, OrderRow, SubmissionRow, BookRow, money
<1>9. QED BY <1>2, <1>3, <1>4, <1>5, <1>6, <1>7, <1>8 DEF Finish

LEMMA TypeStep == TypeOK /\ [Next]_vars => TypeOK'
<1> SUFFICES ASSUME TypeOK, [Next]_vars
             PROVE  TypeOK'
    OBVIOUS
<1>1. ASSUME NEW o \in Orders, TimePasses(o)
      PROVE  TypeOK'
  BY <1>1 DEF TimePasses, TypeOK, OrderRow, SubmissionRow, BookRow, money
<1>2. ASSUME SweepStart
      PROVE  TypeOK'
  BY <1>2 DEF SweepStart, Expirable, TypeOK, OrderRow, SubmissionRow, BookRow, money
<1>3. ASSUME SweepCommit
      PROVE  TypeOK'
  <2>1. order' \in [Orders -> OrderRow]
    <3>1. ASSUME NEW o \in Orders
          PROVE  [order[o] EXCEPT !.status = "expired"] \in OrderRow
      BY Written DEF TypeOK, OrderRow
    <3>2. QED BY <1>3, <3>1 DEF SweepCommit, TypeOK
  <2>2. QED BY <1>3, <2>1 DEF SweepCommit, TypeOK, OrderRow, SubmissionRow, BookRow, money
<1>4. ASSUME UNCHANGED vars
      PROVE  TypeOK'
  BY <1>4 DEF vars, TypeOK, OrderRow, SubmissionRow, BookRow
<1>5. QED
  BY <1>1, <1>2, <1>3, <1>4, CustomerType, StaffType, FinishType DEF Next, Sweep

LEMMA InitType == Init => TypeOK
  BY OrdersAssumption DEF Init, TypeOK, OrderRow, SubmissionRow, BookRow, Statuses,
                          PaymentStatuses, Totals

\* Type correctness of the order and payment services, whatever calls overlap.
THEOREM TypeCorrect == Spec => []TypeOK
  BY InitType, TypeStep, PTL DEF Spec

-----------------------------------------------------------------------------
LEMMA Counted ==
    ASSUME TypeOK, NEW o \in Orders
    PROVE  /\ IsFiniteSet(Approved(o))
           /\ Cardinality(Approved(o)) \in Nat
           /\ refunds[o] \in Nat
<1>1. IsFiniteSet(Approved(o))
  BY OrdersAssumption, FS_Subset DEF Approved
<1>2. QED BY <1>1, FS_CardinalityType DEF TypeOK

\* An order stays covered when no money leaves it and it is not newly paid ...
LEMMA StaysCovered ==
    ASSUME TypeOK, PaidIsCovered, NEW o \in Orders,
           Approved(o)' = Approved(o),
           Book!Spent(PayKey(o)) => Book!Spent(PayKey(o))',
           refunds'[o] = refunds[o],
           order'[o].payment = "paid" => order[o].payment = "paid"
    PROVE  Covered(o)'
<1>1. Covered(o) /\ Cardinality(Approved(o)) \in Nat /\ refunds[o] \in Nat
  BY Counted DEF PaidIsCovered
<1>2. Cardinality(Approved(o))' = Cardinality(Approved(o))
  OBVIOUS
<1>3. QED BY <1>1, <1>2 DEF Covered, Captured

\* ... and when it is paid by a submission approved in the same step.
LEMMA ApprovalCovers ==
    ASSUME TypeOK, PaidIsCovered, NEW o \in Orders, NEW p \in Proofs,
           p \notin Approved(o),
           Approved(o)' = Approved(o) \cup {p},
           UNCHANGED <<book, refunds>>
    PROVE  Covered(o)'
<1>1. /\ Covered(o) /\ Cardinality(Approved(o)) \in Nat /\ refunds[o] \in Nat
      /\ IsFiniteSet(Approved(o))
  BY Counted DEF PaidIsCovered
<1>2. Cardinality(Approved(o))' = Cardinality(Approved(o)) + 1
  BY <1>1, FS_AddElement
<1>3. Book!Spent(PayKey(o))' = Book!Spent(PayKey(o))
  BY DEF Book!Spent
<1>4. QED BY <1>1, <1>2, <1>3 DEF Covered, Captured

\* A posting under another key does not change whether o's payment key is spent.
LEMMA PostSpends ==
    ASSUME NEW k, NEW u, NEW d, Book!Post(k, u, d), NEW o
    PROVE  /\ Book!Spent(PayKey(o)) => Book!Spent(PayKey(o))'
           /\ k = PayKey(o) => Book!Spent(PayKey(o))'
<1>1. book \subseteq book'
  BY DEF Book!Post
<1>2. [key |-> k, user |-> u, amount |-> d] \in book'
  BY DEF Book!Post
<1>3. [key |-> k, user |-> u, amount |-> d].key = k
  OBVIOUS
<1>4. \E e \in book' : e.key = k
  BY <1>2, <1>3
<1>5. QED BY <1>1, <1>4 DEF Book!Spent, PayKey

LEMMA StaffCovers ==
    ASSUME TypeOK, PaidIsCovered, NEW c \in Callers, NEW o \in Orders, Staff(c, o),
           NEW q \in Orders
    PROVE  Covered(q)'
<1>1. ASSUME NEW p \in Proofs, Approve(c, o, p) \/ Settle(c, o, p)
      PROVE  Covered(q)'
  <2>1. CASE q = o
    <3>1. p \notin Approved(q) /\ Approved(q)' = Approved(q) \cup {p}
      BY <1>1, <2>1 DEF Approve, Settle, Reviewable, Approved, TypeOK, SubmissionRow
    <3>2. QED BY <1>1, <3>1, ApprovalCovers DEF Approve, Settle, money
  <2>2. CASE q # o
    <3>1. Approved(q)' = Approved(q) /\ order'[q] = order[q]
      BY <1>1, <2>2 DEF Approve, Settle, Approved, TypeOK
    <3>2. QED BY <1>1, <3>1, StaysCovered DEF Approve, Settle, Book!Spent, money
  <2>3. QED BY <2>1, <2>2
<1>2. ASSUME NEW p \in Proofs, Reject(c, o, p)
      PROVE  Covered(q)'
  <2>1. Approved(q)' = Approved(q)
    BY <1>2 DEF Reject, Reviewable, Approved, TypeOK, SubmissionRow
  <2>2. order'[q].payment = "paid" => order[q].payment = "paid"
    BY <1>2 DEF Reject, TypeOK, OrderRow
  <2>3. QED BY <1>2, <2>1, <2>2, StaysCovered DEF Reject, Book!Spent, money
<1>3. ASSUME NEW r \in RefundRequests, RefundStart(c, o, r)
      PROVE  Covered(q)'
  BY <1>3, StaysCovered DEF RefundStart, Approved, Book!Spent, money
<1>4. CASE ProvisionStart(c, o)
  BY <1>4, StaysCovered DEF ProvisionStart, Approved, Book!Spent, money
<1>5. QED BY <1>1, <1>2, <1>3, <1>4 DEF Staff

LEMMA CustomerCovers ==
    ASSUME TypeOK, PaidIsCovered, NEW c \in Callers, NEW o \in Orders,
           Customer(c, o), NEW q \in Orders
    PROVE  Covered(q)'
<1>1. /\ UNCHANGED <<submission, book, refunds>>
      /\ order'[q].payment = order[q].payment
  <2>1. CASE CreatePendingOrder(c, o)
    BY <2>1 DEF CreatePendingOrder, TypeOK, OrderRow, money
  <2>2. CASE ApplyDiscount(c, o)
    BY <2>2 DEF ApplyDiscount, TypeOK, OrderRow, money
  <2>3. ASSUME \/ PayStart(c, o)
               \/ \E p \in Proofs : SubmitStart(c, o, p)
               \/ \E target \in {"cancelled", "expired"} : CloseStart(c, o, target)
        PROVE  UNCHANGED <<order, submission, book, refunds>>
    BY <2>3 DEF PayStart, SubmitStart, CloseStart, money
  <2>4. QED BY <2>1, <2>2, <2>3 DEF Customer
<1>2. QED BY <1>1, StaysCovered DEF Approved, Book!Spent

LEMMA FinishCovers ==
    ASSUME TypeOK, PaidIsCovered, NEW c \in Callers, Finish(c), NEW q \in Orders
    PROVE  Covered(q)'
<1> DEFINE o == call[c].order
<1>0. call[c] # Idle
  BY DEF Finish, InCall, PayCommit, PayLapse, PayRefuse, SubmitCheck, SubmitRefuse,
         SubmitCommit, SubmitConflict, RefundCommit, RefundFail, CloseCommit,
         ProvisionCommit, ProvisionFail
<1>1. o \in Orders
  BY <1>0, OpenCallShape
<1>2. CASE PayCommit(c)
  <2>1. UNCHANGED <<submission, refunds>> /\ Approved(q)' = Approved(q)
    BY <1>2 DEF PayCommit, Approved
  <2>2. Book!Post(PayKey(o), Owner[o], -order[o].total) /\ ~Book!Spent(PayKey(o))
    BY <1>2 DEF PayCommit, Book!Post
  <2>3. CASE q = o
    <3>1. order[q].payment # "paid" /\ ~Book!Spent(PayKey(q)) /\ Book!Spent(PayKey(q))'
      BY <1>2, <2>2, <2>3, PostSpends DEF PayCommit, Payable, AlreadyPaid
    <3>2. Covered(q) /\ Cardinality(Approved(q)) \in Nat /\ refunds[q] \in Nat
      BY Counted DEF PaidIsCovered
    <3>3. Cardinality(Approved(q))' = Cardinality(Approved(q))
      BY <2>1
    <3>4. QED BY <2>1, <3>1, <3>2, <3>3 DEF Covered, Captured
  <2>4. CASE q # o
    <3>1. order'[q] = order[q]
      BY <1>2, <2>4 DEF PayCommit, TypeOK
    <3>2. Book!Spent(PayKey(q)) => Book!Spent(PayKey(q))'
      BY <2>2, PostSpends
    <3>3. QED BY <2>1, <3>1, <3>2, StaysCovered
  <2>5. QED BY <2>3, <2>4
<1>3. CASE RefundCommit(c)
  <2>1. UNCHANGED submission /\ Approved(q)' = Approved(q)
    BY <1>3 DEF RefundCommit, Approved
  <2>2. Book!Spent(PayKey(q)) => Book!Spent(PayKey(q))'
    BY <1>3 DEF RefundCommit, Book!Spent, Book!Post, money
  <2>3. CASE q = o
    <3>1. order[q].payment = "paid" /\ order'[q].payment = "refunded"
      BY <1>1, <1>3, <2>3 DEF RefundCommit, Refundable, TypeOK, OrderRow
    <3>2. refunds'[q] = refunds[q] + 1
      BY <1>1, <1>3, <2>3 DEF RefundCommit, TypeOK
    <3>3. Covered(q) /\ Cardinality(Approved(q)) \in Nat /\ refunds[q] \in Nat
      BY Counted DEF PaidIsCovered
    <3>4. Cardinality(Approved(q))' = Cardinality(Approved(q))
      BY <2>1
    <3>5. QED BY <2>2, <3>1, <3>2, <3>3, <3>4 DEF Covered, Captured
  <2>4. CASE q # o
    <3>1. order'[q] = order[q] /\ refunds'[q] = refunds[q]
      BY <1>3, <2>4 DEF RefundCommit, TypeOK
    <3>2. QED BY <2>1, <2>2, <3>1, StaysCovered
  <2>5. QED BY <2>3, <2>4
<1>4. CASE SubmitCommit(c)
  <2>1. Approved(q)' = Approved(q)
    BY <1>4, <1>1 DEF SubmitCommit, Approved, TypeOK
  <2>2. order'[q].payment = "paid" => order[q].payment = "paid"
    BY <1>4, <1>1 DEF SubmitCommit, TypeOK, OrderRow
  <2>3. QED BY <1>4, <2>1, <2>2, StaysCovered DEF SubmitCommit, Book!Spent, money
<1>5. CASE PayLapse(c) \/ CloseCommit(c) \/ ProvisionCommit(c)
  <2>1. UNCHANGED <<submission, book, refunds>>
    BY <1>5 DEF PayLapse, CloseCommit, ProvisionCommit, money
  <2>2. order'[q].payment = order[q].payment
    <3>1. CASE PayLapse(c)
      BY <3>1, <1>1 DEF PayLapse, TypeOK, OrderRow
    <3>2. CASE CloseCommit(c)
      BY <3>2, <1>1 DEF CloseCommit, TypeOK, OrderRow
    <3>3. CASE ProvisionCommit(c)
      BY <3>3, <1>1 DEF ProvisionCommit, TypeOK, OrderRow
    <3>4. QED BY <1>5, <3>1, <3>2, <3>3
  <2>3. QED BY <2>1, <2>2, StaysCovered DEF Approved, Book!Spent
<1>6. CASE \/ PayRefuse(c) \/ SubmitCheck(c) \/ SubmitRefuse(c) \/ SubmitConflict(c)
           \/ RefundFail(c) \/ ProvisionFail(c)
  <2>1. UNCHANGED <<order, submission, book, refunds>>
    BY <1>6 DEF PayRefuse, SubmitCheck, SubmitRefuse, SubmitConflict, RefundFail,
                ProvisionFail, money
  <2>2. QED BY <2>1, StaysCovered DEF Approved, Book!Spent
<1>7. QED BY <1>2, <1>3, <1>4, <1>5, <1>6 DEF Finish

\* However calls and sweeps overlap, an order counts as paid only on a payment that
\* came in and was not given back, and is refunded at most once per payment.  It
\* counts payments; for their amounts see AmountsCovered.
THEOREM Coverage == Spec => []PaidIsCovered
<1> DEFINE IInv == TypeOK /\ PaidIsCovered
<1>1. Init => IInv
  <2> SUFFICES ASSUME Init
               PROVE  IInv
    OBVIOUS
  <2>1. TypeOK
    BY InitType
  <2>2. ASSUME NEW o \in Orders
        PROVE  Covered(o)
    <3>1. Cardinality(Approved(o)) \in Nat
      BY <2>1, Counted
    <3>2. refunds[o] = 0 /\ order[o].payment = "unpaid" /\ ~Book!Spent(PayKey(o))
      BY DEF Init, Book!Spent
    <3>3. QED BY <3>1, <3>2 DEF Covered, Captured
  <2>3. QED BY <2>1, <2>2 DEF PaidIsCovered
<1>2. IInv /\ [Next]_vars => IInv'
  <2> SUFFICES ASSUME TypeOK, PaidIsCovered, [Next]_vars
               PROVE  TypeOK' /\ PaidIsCovered'
    OBVIOUS
  <2>1. TypeOK'
    BY TypeStep
  <2>2. ASSUME NEW q \in Orders
        PROVE  Covered(q)'
    <3>1. ASSUME (\E o \in Orders : TimePasses(o)) \/ SweepStart \/ UNCHANGED vars
          PROVE  Covered(q)'
      <4>1. UNCHANGED <<order, submission, book, refunds>>
        BY <3>1 DEF TimePasses, SweepStart, vars, money
      <4>2. QED BY <4>1, StaysCovered DEF Approved, Book!Spent
    <3>2. CASE SweepCommit
      <4>1. UNCHANGED <<submission, book, refunds>>
        BY <3>2 DEF SweepCommit, money
      <4>2. order'[q].payment = order[q].payment
        BY <3>2 DEF SweepCommit, TypeOK, OrderRow
      <4>3. QED BY <4>1, <4>2, StaysCovered DEF Approved, Book!Spent
    <3>3. QED
      BY <3>1, <3>2, CustomerCovers, StaffCovers, FinishCovers DEF Next, Sweep
  <2>3. QED BY <2>1, <2>2 DEF PaidIsCovered
<1>3. QED BY <1>1, <1>2, PTL DEF Spec

-----------------------------------------------------------------------------
\* The rows of an order, as they are between the transactions of one handler:
\* payment and status agree, and a submission under review is the linked one of
\* an order that waits for the review or has expired meanwhile.
RowsAgree(o) ==
    LET r == order[o] IN
      /\ r.payment = "paid" => r.status \in {"paid", "completed", "expired"}
      /\ r.status \in {"paid", "completed"} => r.payment = "paid"
      /\ r.status = "expired" => overdue[o]
      /\ r.status # "pending"
      /\ r.provisioned => r.payment = "paid" /\ r.status # "paid"
      /\ \A p \in Pending(o) :
            /\ r.status \in {"awaiting_approval", "expired"}
            /\ r.payment = "under_review"
            /\ r.linked = p

\* What an open call has read still holds, but for what the sweep writes.
CallAgrees(c) ==
    LET o == call[c].order IN
      /\ InCall(c, "look") \/ InCall(c, "submit") =>
            /\ order[o].payment = call[c].payment /\ call[c].payment # "paid"
            /\ order[o].status \in {call[c].status, "expired"}
            /\ call[c].status \notin {"paid", "completed", "cancelled", "expired"}
      /\ InCall(c, "submit") => Pending(o) = {}
      /\ InCall(c, "close") =>
            /\ order[o].payment # "paid"
            /\ order[o].status \in {"waiting_payment", "awaiting_approval", "expired"}
            /\ call[c].target = "cancelled" =>
                  Pending(o) = {} /\ order[o].status # "awaiting_approval"
      /\ InCall(c, "provision") =>
            /\ order[o].payment = "paid" /\ order[o].status \in {"paid", "expired"}
            /\ ~order[o].provisioned

Balanced(o) ==
    Captured(o) = refunds[o] + (IF order[o].payment = "paid" THEN 1 ELSE 0)

AloneInv ==
    /\ TypeOK
    /\ \A o \in Orders : RowsAgree(o) /\ Balanced(o)
    /\ \A c \in Callers : CallAgrees(c)
    /\ \A o \in sweeping : overdue[o]

\* What a step may do to one order.
Follows(o) ==
    LET was == order[o].status
        now == order'[o].status
    IN  was \in {now, "absent", "refunded"} \/ <<was, now>> \in Allowed \cup Stale

StaysPaid(o) == order[o].payment = "paid" => order'[o].payment \in {"paid", "refunded"}

OrderStep(o) == RowsAgree(o)' /\ Balanced(o)' /\ Follows(o) /\ StaysPaid(o)

\* With one handler at most, the calls agree when the call of it ends ...
LEMMA ReturnAgrees ==
    ASSUME NEW m, Callers \subseteq {m}, TypeOK, NEW c \in Callers, Return(c)
    PROVE  \A d \in Callers : CallAgrees(d)'
<1>1. \A d \in Callers : call'[d] = Idle
  BY DEF Return, TypeOK
<1>2. QED BY <1>1 DEF CallAgrees, InCall

\* ... and while it has none open.
LEMMA ReadyAgrees ==
    ASSUME NEW m, Callers \subseteq {m}, TypeOK, NEW c \in Callers, Ready(c), call' = call
    PROVE  \A d \in Callers : CallAgrees(d)'
<1>1. \A d \in Callers : call'[d] = Idle
  BY DEF Ready
<1>2. QED BY <1>1 DEF CallAgrees, InCall

\* An order whose money and payment status stay is balanced as before.
LEMMA StaysBalanced ==
    ASSUME TypeOK, NEW o \in Orders, Balanced(o),
           Approved(o)' = Approved(o),
           Book!Spent(PayKey(o))' <=> Book!Spent(PayKey(o)),
           refunds'[o] = refunds[o],
           order'[o].payment = "paid" <=> order[o].payment = "paid"
    PROVE  Balanced(o)'
<1>1. Cardinality(Approved(o))' = Cardinality(Approved(o))
  OBVIOUS
<1>2. QED BY <1>1 DEF Balanced, Captured

\* So is one that is paid by a submission approved in the same step.
LEMMA ApprovalBalances ==
    ASSUME TypeOK, NEW o \in Orders, Balanced(o), NEW p \in Proofs,
           p \notin Approved(o),
           Approved(o)' = Approved(o) \cup {p},
           UNCHANGED <<book, refunds>>,
           order[o].payment # "paid", order'[o].payment = "paid"
    PROVE  Balanced(o)'
<1>1. /\ Cardinality(Approved(o)) \in Nat /\ refunds[o] \in Nat
      /\ IsFiniteSet(Approved(o))
  BY Counted
<1>2. Cardinality(Approved(o))' = Cardinality(Approved(o)) + 1
  BY <1>1, FS_AddElement
<1>3. Book!Spent(PayKey(o))' = Book!Spent(PayKey(o))
  BY DEF Book!Spent
<1>4. QED BY <1>1, <1>2, <1>3 DEF Balanced, Captured

\* A step that leaves an order's rows alone.
LEMMA Untouched ==
    ASSUME TypeOK, NEW o \in Orders, RowsAgree(o), Balanced(o),
           order'[o] = order[o], submission'[o] = submission[o],
           overdue[o] => overdue'[o], refunds'[o] = refunds[o],
           Book!Spent(PayKey(o))' <=> Book!Spent(PayKey(o))
    PROVE  OrderStep(o)
<1>1. RowsAgree(o)'
  BY DEF RowsAgree, Pending
<1>2. Balanced(o)'
  BY StaysBalanced DEF Approved
<1>3. QED BY <1>1, <1>2 DEF OrderStep, Follows, StaysPaid

\* A step that writes the status only, or what is of no account here.
LEMMA StatusWritten ==
    ASSUME TypeOK, NEW o \in Orders, RowsAgree(o)', Follows(o), Balanced(o),
           order'[o].payment = order[o].payment, submission' = submission,
           UNCHANGED <<book, refunds>>
    PROVE  OrderStep(o)
<1>1. Balanced(o)'
  BY StaysBalanced DEF Approved, Book!Spent
<1>2. QED BY <1>1 DEF OrderStep, StaysPaid, TypeOK, OrderRow

\* A step that only opens the call of the one handler.
LEMMA OpensAlone ==
    ASSUME NEW m, Callers \subseteq {m}, AloneInv, NEW c \in Callers, NEW rec,
           call' = [call EXCEPT ![c] = rec],
           UNCHANGED <<order, submission, overdue, balance, book, refunds, sweeping>>,
           call'[c] = rec => CallAgrees(c)'
    PROVE  /\ \A q \in Orders : OrderStep(q)
           /\ \A d \in Callers : CallAgrees(d)'
           /\ \A q \in sweeping' : overdue'[q]
<1>1. \A q \in Orders : OrderStep(q)
  BY Untouched DEF AloneInv, Book!Spent
<1>2. \A d \in Callers : d = c
  OBVIOUS
<1>3. CallAgrees(c)'
  BY DEF AloneInv, TypeOK
<1>4. QED BY <1>1, <1>2, <1>3 DEF AloneInv

LEMMA CustomerAlone ==
    ASSUME NEW m, Callers \subseteq {m}, AloneInv,
           NEW c \in Callers, NEW o \in Orders, Customer(c, o)
    PROVE  /\ \A q \in Orders : OrderStep(q)
           /\ \A d \in Callers : CallAgrees(d)'
           /\ \A q \in sweeping' : overdue'[q]
<1>0. TypeOK /\ order[o] \in OrderRow /\ RowsAgree(o) /\ Balanced(o)
  BY DEF AloneInv, TypeOK
<1>1. CASE CreatePendingOrder(c, o)
  <2>1. /\ order' = [order EXCEPT ![o].status = "waiting_payment"]
        /\ order[o].status = "absent"
        /\ UNCHANGED <<submission, overdue, balance, book, refunds, call, sweeping>>
    BY <1>1 DEF CreatePendingOrder, Exists, money
  <2>2. OrderStep(o)
    <3>1. RowsAgree(o)'
      BY <1>0, <2>1 DEF TypeOK, OrderRow, RowsAgree, Pending
    <3>2. Follows(o) /\ order'[o].payment = order[o].payment
      BY <1>0, <2>1 DEF Follows, TypeOK, OrderRow
    <3>3. QED BY <1>0, <2>1, <3>1, <3>2, StatusWritten
  <2>3. ASSUME NEW q \in Orders, q # o
        PROVE  OrderStep(q)
    BY <1>0, <2>1, <2>3, Untouched DEF AloneInv, TypeOK, Book!Spent
  <2>4. QED BY <1>1, <2>1, <2>2, <2>3, <1>0, ReadyAgrees DEF CreatePendingOrder, AloneInv
<1>2. CASE ApplyDiscount(c, o)
  <2>1. /\ order' = [order EXCEPT ![o].total = LowPrice]
        /\ UNCHANGED <<submission, overdue, balance, book, refunds, call, sweeping>>
    BY <1>2 DEF ApplyDiscount, money
  <2>2. OrderStep(o)
    <3>1. RowsAgree(o)'
      BY <1>0, <2>1 DEF TypeOK, OrderRow, RowsAgree, Pending
    <3>2. Follows(o) /\ order'[o].payment = order[o].payment
      BY <1>0, <2>1 DEF Follows, TypeOK, OrderRow
    <3>3. QED BY <1>0, <2>1, <3>1, <3>2, StatusWritten
  <2>3. ASSUME NEW q \in Orders, q # o
        PROVE  OrderStep(q)
    BY <1>0, <2>1, <2>3, Untouched DEF AloneInv, TypeOK, Book!Spent
  <2>4. QED BY <1>2, <2>1, <2>2, <2>3, <1>0, ReadyAgrees DEF ApplyDiscount, AloneInv
<1>4. CASE PayStart(c, o)
  <2> DEFINE rec == [op |-> "pay", order |-> o, late |-> overdue[o]]
  <2>1. /\ call' = [call EXCEPT ![c] = rec]
        /\ UNCHANGED <<order, submission, overdue, balance, book, refunds, sweeping>>
    BY <1>4 DEF PayStart, Open, money
  <2>2. call'[c] = rec => CallAgrees(c)'
    BY DEF CallAgrees, InCall
  <2> HIDE DEF rec
  <2>3. QED BY <2>1, <2>2, OpensAlone
<1>5. ASSUME NEW p \in Proofs, SubmitStart(c, o, p)
      PROVE  /\ \A q \in Orders : OrderStep(q)
             /\ \A d \in Callers : CallAgrees(d)'
             /\ \A q \in sweeping' : overdue'[q]
  <2> DEFINE rec == [op |-> "look", order |-> o, proof |-> p, status |-> order[o].status,
                     payment |-> order[o].payment, total |-> order[o].total]
  <2>1. /\ call' = [call EXCEPT ![c] = rec]
        /\ UNCHANGED <<order, submission, overdue, balance, book, refunds, sweeping>>
        /\ order[o].status \notin {"paid", "completed", "cancelled", "expired"}
        /\ order[o].payment # "paid"
    BY <1>5 DEF SubmitStart, Open, money
  <2>2. call'[c] = rec => CallAgrees(c)'
    BY <2>1 DEF CallAgrees, InCall
  <2> HIDE DEF rec
  <2>3. QED BY <2>1, <2>2, OpensAlone
<1>6. ASSUME NEW target \in {"cancelled", "expired"}, CloseStart(c, o, target)
      PROVE  /\ \A q \in Orders : OrderStep(q)
             /\ \A d \in Callers : CallAgrees(d)'
             /\ \A q \in sweeping' : overdue'[q]
  <2> DEFINE rec == [op |-> "close", order |-> o, target |-> target]
  <2>1. /\ call' = [call EXCEPT ![c] = rec]
        /\ UNCHANGED <<order, submission, overdue, balance, book, refunds, sweeping>>
    BY <1>6 DEF CloseStart, Open, money
  <2>2. /\ order[o].status \in {"waiting_payment", "awaiting_approval"}
        /\ target = "cancelled" => order[o].status = "waiting_payment"
    <3>1. <<order[o].status, target>> \in Allowed /\ order[o].status # "pending"
      BY <1>0, <1>6 DEF CloseStart, Closable, RowsAgree
    <3>2. QED BY <3>1 DEF Allowed
  <2>3. order[o].payment # "paid" /\ (target = "cancelled" => Pending(o) = {})
    BY <1>0, <2>2 DEF RowsAgree
  <2>4. call'[c] = rec => CallAgrees(c)'
    BY <2>1, <2>2, <2>3 DEF CallAgrees, InCall, Pending
  <2> HIDE DEF rec
  <2>5. QED BY <2>1, <2>4, OpensAlone
<1>7. QED BY <1>1, <1>2, <1>4, <1>5, <1>6 DEF Customer

LEMMA StaffAlone ==
    ASSUME NEW m, Callers \subseteq {m}, AloneInv,
           NEW c \in Callers, NEW o \in Orders, Staff(c, o)
    PROVE  /\ \A q \in Orders : OrderStep(q)
           /\ \A d \in Callers : CallAgrees(d)'
           /\ \A q \in sweeping' : overdue'[q]
<1>0. TypeOK /\ order[o] \in OrderRow /\ RowsAgree(o) /\ Balanced(o)
  BY DEF AloneInv, TypeOK
<1>1. ASSUME NEW p \in Proofs, Approve(c, o, p) \/ Settle(c, o, p)
      PROVE  /\ \A q \in Orders : OrderStep(q)
             /\ \A d \in Callers : CallAgrees(d)'
             /\ \A q \in sweeping' : overdue'[q]
  <2>1. /\ submission' = [submission EXCEPT ![o][p].state = "approved"]
        /\ order' = [order EXCEPT ![o] =
                       [@ EXCEPT !.status = "paid", !.payment = "paid", !.linked = p]]
        /\ UNCHANGED <<overdue, balance, book, refunds, call, sweeping>>
        /\ submission[o][p].state # "approved"
        /\ order[o].payment # "paid"
        /\ <<order[o].status, "paid">> \in Allowed
        /\ order[o].linked \in {NoProof, p}
    BY <1>0, <1>1 DEF Approve, Settle, Reviewable, RowsAgree, Pending, money
  <2>2. OrderStep(o)
    <3>1. /\ order'[o].status = "paid" /\ order'[o].payment = "paid"
          /\ order'[o].provisioned = order[o].provisioned
      BY <1>0, <2>1 DEF TypeOK, OrderRow
    <3>2. Pending(o)' = Pending(o) \ {p}
      BY <1>0, <2>1 DEF TypeOK, SubmissionRow, Pending
    <3>3. Pending(o)' = {}
      BY <1>0, <2>1, <3>2, OrdersAssumption DEF RowsAgree, Pending
    <3>4. RowsAgree(o)'
      BY <1>0, <2>1, <3>1, <3>3 DEF RowsAgree
    <3>5. p \notin Approved(o) /\ Approved(o)' = Approved(o) \cup {p}
      BY <1>0, <2>1 DEF Approved, TypeOK, SubmissionRow
    <3>6. Balanced(o)'
      BY <1>0, <2>1, <3>1, <3>5, ApprovalBalances
    <3>7. Follows(o) /\ StaysPaid(o)
      BY <2>1, <3>1 DEF Follows, StaysPaid
    <3>8. QED BY <3>4, <3>6, <3>7 DEF OrderStep
  <2>3. ASSUME NEW q \in Orders, q # o
        PROVE  OrderStep(q)
    BY <1>0, <2>1, <2>3, Untouched DEF AloneInv, TypeOK, Book!Spent
  <2>4. QED BY <1>1, <2>1, <2>2, <2>3, <1>0, ReadyAgrees DEF Approve, Settle, AloneInv
<1>2. ASSUME NEW p \in Proofs, Reject(c, o, p)
      PROVE  /\ \A q \in Orders : OrderStep(q)
             /\ \A d \in Callers : CallAgrees(d)'
             /\ \A q \in sweeping' : overdue'[q]
  <2> DEFINE s == IF overdue[o] THEN "expired" ELSE "waiting_payment"
  <2>1. /\ submission' = [submission EXCEPT ![o][p].state = "rejected"]
        /\ order' = [order EXCEPT ![o] =
                       [@ EXCEPT !.status = s, !.payment = "unpaid", !.linked = p]]
        /\ UNCHANGED <<overdue, balance, book, refunds, call, sweeping>>
        /\ p \in Pending(o)
        /\ overdue[o] \/ <<order[o].status, "waiting_payment">> \in Allowed
    BY <1>2 DEF Reject, Reviewable, Pending, money
  <2>2. OrderStep(o)
    <3>1. /\ order'[o].status = s /\ order'[o].payment = "unpaid"
          /\ order'[o].provisioned = order[o].provisioned
      BY <1>0, <2>1 DEF TypeOK, OrderRow
    <3>2. /\ order[o].payment = "under_review" /\ order[o].linked = p
          /\ order[o].status \in {"awaiting_approval", "expired"}
      BY <1>0, <2>1 DEF RowsAgree
    <3>3. Pending(o)' = Pending(o) \ {p}
      BY <1>0, <2>1 DEF TypeOK, SubmissionRow, Pending
    <3>4. Pending(o)' = {}
      BY <1>0, <3>2, <3>3 DEF RowsAgree, Pending
    <3>5. RowsAgree(o)'
      BY <1>0, <2>1, <3>1, <3>2, <3>4 DEF RowsAgree
    <3>6. Approved(o)' = Approved(o)
      BY <1>0, <2>1 DEF Approved, Pending, TypeOK, SubmissionRow
    <3>7. Balanced(o)'
      BY <1>0, <2>1, <3>1, <3>2, <3>6, StaysBalanced DEF Book!Spent
    <3>8. Follows(o) /\ StaysPaid(o)
      BY <2>1, <3>1, <3>2 DEF Follows, StaysPaid, Allowed
    <3>9. QED BY <3>5, <3>7, <3>8 DEF OrderStep
  <2>3. ASSUME NEW q \in Orders, q # o
        PROVE  OrderStep(q)
    BY <1>0, <2>1, <2>3, Untouched DEF AloneInv, TypeOK, Book!Spent
  <2>4. QED BY <1>2, <2>1, <2>2, <2>3, <1>0, ReadyAgrees DEF Reject, AloneInv
<1>3. ASSUME NEW r \in RefundRequests, RefundStart(c, o, r)
      PROVE  /\ \A q \in Orders : OrderStep(q)
             /\ \A d \in Callers : CallAgrees(d)'
             /\ \A q \in sweeping' : overdue'[q]
  <2> DEFINE rec == [op |-> "refund", order |-> o, request |-> r, total |-> order[o].total]
  <2>1. /\ call' = [call EXCEPT ![c] = rec]
        /\ UNCHANGED <<order, submission, overdue, balance, book, refunds, sweeping>>
    BY <1>3 DEF RefundStart, Open, money
  <2>2. call'[c] = rec => CallAgrees(c)'
    BY DEF CallAgrees, InCall
  <2> HIDE DEF rec
  <2>3. QED BY <2>1, <2>2, OpensAlone
<1>4. CASE ProvisionStart(c, o)
  <2> DEFINE rec == [op |-> "provision", order |-> o]
  <2>1. /\ call' = [call EXCEPT ![c] = rec]
        /\ UNCHANGED <<order, submission, overdue, balance, book, refunds, sweeping>>
        /\ order[o].status = "paid" /\ order[o].payment = "paid" /\ ~order[o].provisioned
    BY <1>4 DEF ProvisionStart, Refundable, Open, money
  <2>2. call'[c] = rec => CallAgrees(c)'
    BY <2>1 DEF CallAgrees, InCall
  <2> HIDE DEF rec
  <2>3. QED BY <2>1, <2>2, OpensAlone
<1>5. QED BY <1>1, <1>2, <1>3, <1>4 DEF Staff

LEMMA FinishAlone ==
    ASSUME NEW m, Callers \subseteq {m}, AloneInv, NEW c \in Callers, Finish(c)
    PROVE  /\ \A q \in Orders : OrderStep(q)
           /\ \A d \in Callers : CallAgrees(d)'
           /\ \A q \in sweeping' : overdue'[q]
<1>0. /\ call[c] # Idle /\ TypeOK /\ CallAgrees(c)
      /\ SubmitCheck(c) \/ Return(c)
      /\ UNCHANGED sweeping
  BY DEF Finish, InCall, PayCommit, PayLapse, PayRefuse, SubmitCheck, SubmitRefuse,
         SubmitCommit, SubmitConflict, RefundCommit, RefundFail, CloseCommit,
         ProvisionCommit, ProvisionFail, AloneInv
<1>1. PICK o \in Orders : /\ o = call[c].order /\ order[o] \in OrderRow
                          /\ RowsAgree(o) /\ Balanced(o)
  BY <1>0, OpenCallShape DEF AloneInv, TypeOK
<1>2. Return(c) => \A d \in Callers : CallAgrees(d)'
  BY <1>0, ReturnAgrees
<1>3. ASSUME OrderStep(o),
             \A q \in Orders : q # o =>
                /\ order'[q] = order[q] /\ submission'[q] = submission[q]
                /\ overdue'[q] = overdue[q] /\ refunds'[q] = refunds[q]
                /\ Book!Spent(PayKey(q))' <=> Book!Spent(PayKey(q)),
             overdue[o] => overdue'[o],
             Return(c)
      PROVE  /\ \A q \in Orders : OrderStep(q)
             /\ \A d \in Callers : CallAgrees(d)'
             /\ \A q \in sweeping' : overdue'[q]
  <2>1. ASSUME NEW q \in Orders, q # o
        PROVE  OrderStep(q)
    BY <1>0, <1>3, <2>1, Untouched DEF AloneInv
  <2>2. \A q \in sweeping' : overdue'[q]
    BY <1>0, <1>3 DEF AloneInv, TypeOK
  <2>3. QED BY <1>2, <1>3, <2>1, <2>2
<1>4. CASE PayCommit(c)
  <2>1. /\ Book!Post(PayKey(o), Owner[o], -order[o].total)
        /\ order' = [order EXCEPT ![o] = [@ EXCEPT !.status = "paid", !.payment = "paid"]]
        /\ UNCHANGED <<submission, overdue, refunds, sweeping>>
        /\ Return(c)
        /\ order[o].payment # "paid" /\ ~Book!Spent(PayKey(o))
        /\ order[o].status \in {"pending", "waiting_payment"}
    BY <1>1, <1>4 DEF PayCommit, Payable, AlreadyPaid
  <2>2. ASSUME NEW q \in Orders, q # o
        PROVE  /\ order'[q] = order[q]
               /\ Book!Spent(PayKey(q))' <=> Book!Spent(PayKey(q))
    BY <1>0, <2>1, <2>2 DEF TypeOK, Book!Post, Book!Spent, PayKey
  <2>3. OrderStep(o)
    <3>1. /\ order'[o].status = "paid" /\ order'[o].payment = "paid"
          /\ order'[o].provisioned = order[o].provisioned
      BY <1>0, <1>1, <2>1 DEF TypeOK, OrderRow
    <3>2. RowsAgree(o)'
      BY <1>1, <2>1, <3>1 DEF RowsAgree, Pending
    <3>3. Balanced(o)'
      <4>1. Book!Spent(PayKey(o))'
        BY <2>1, PostSpends
      <4>2. Cardinality(Approved(o)) \in Nat /\ refunds[o] \in Nat
        BY <1>0, <1>1, Counted
      <4>3. Cardinality(Approved(o))' = Cardinality(Approved(o))
        BY <2>1 DEF Approved
      <4>4. QED BY <1>1, <2>1, <3>1, <4>1, <4>2, <4>3 DEF Balanced, Captured
    <3>4. Follows(o) /\ StaysPaid(o)
      BY <1>1, <2>1, <3>1 DEF RowsAgree, Follows, StaysPaid, Allowed
    <3>5. QED BY <3>2, <3>3, <3>4 DEF OrderStep
  <2>4. QED BY <1>3, <2>1, <2>2, <2>3
<1>5. CASE PayLapse(c)
  <2>1. /\ order' = [order EXCEPT ![o].status = "expired"]
        /\ overdue' = [overdue EXCEPT ![o] = TRUE]
        /\ UNCHANGED <<submission, balance, book, refunds, sweeping>>
        /\ Return(c)
        /\ order[o].payment # "paid"
        /\ order[o].status \notin {"cancelled", "completed"}
    BY <1>1, <1>5 DEF PayLapse, Lapsed, AlreadyPaid, money
  <2>2. OrderStep(o)
    <3>1. /\ order'[o].status = "expired" /\ overdue'[o]
          /\ order'[o].payment = order[o].payment
          /\ order'[o].provisioned = order[o].provisioned
          /\ order'[o].linked = order[o].linked
      BY <1>0, <1>1, <2>1 DEF TypeOK, OrderRow
    <3>2. RowsAgree(o)'
      BY <1>1, <2>1, <3>1 DEF RowsAgree, Pending
    <3>3. Follows(o)
      BY <1>1, <2>1, <3>1 DEF RowsAgree, Follows, Allowed, OrderRow, Statuses
    <3>4. QED BY <1>0, <1>1, <2>1, <3>1, <3>2, <3>3, StatusWritten
  <2>3. ASSUME NEW q \in Orders, q # o
        PROVE  order'[q] = order[q] /\ overdue'[q] = overdue[q]
    BY <1>0, <2>1, <2>3 DEF TypeOK
  <2>4. overdue[o] => overdue'[o]
    BY <1>0, <1>1, <2>1 DEF TypeOK
  <2>5. QED BY <1>3, <2>1, <2>2, <2>3, <2>4 DEF Book!Spent
<1>6. CASE \/ PayRefuse(c) \/ SubmitRefuse(c) \/ SubmitConflict(c)
           \/ RefundFail(c) \/ ProvisionFail(c)
  <2>1. /\ UNCHANGED <<order, submission, overdue, balance, book, refunds, sweeping>>
        /\ Return(c)
    BY <1>1, <1>6 DEF PayRefuse, SubmitRefuse, SubmitConflict, RefundFail, ProvisionFail, money
  <2>2. OrderStep(o)
    BY <1>0, <1>1, <2>1, Untouched DEF Book!Spent
  <2>3. QED BY <1>3, <2>1, <2>2 DEF Book!Spent
<1>7. CASE SubmitCheck(c)
  <2> DEFINE rec == [call[c] EXCEPT !.op = "submit"]
  <2>1. /\ call' = [call EXCEPT ![c] = rec]
        /\ UNCHANGED <<order, submission, overdue, balance, book, refunds, sweeping>>
        /\ InCall(c, "look") /\ Pending(o) = {}
    BY <1>1, <1>7 DEF SubmitCheck, Open, money
  <2>2. call[c] \in OpenCall
    BY <1>0 DEF TypeOK
  <2>3. /\ rec.op = "submit" /\ rec.order = o
        /\ rec.status = call[c].status /\ rec.payment = call[c].payment
    BY <1>1, <2>1, <2>2 DEF OpenCall, InCall
  <2> HIDE DEF rec
  <2>4. call'[c] = rec => CallAgrees(c)'
    BY <1>0, <1>1, <2>1, <2>3 DEF CallAgrees, InCall, Pending
  <2>5. QED BY <2>1, <2>4, OpensAlone
<1>8. CASE SubmitCommit(c)
  <2> DEFINE p == call[c].proof
             status == IF call[c].status = "awaiting_approval"
                       THEN order[o].status ELSE "awaiting_approval"
             payment == IF call[c].payment = "under_review"
                        THEN order[o].payment ELSE "under_review"
  <2>1. /\ submission[o][p].state = "none"
        /\ submission' = [submission EXCEPT ![o][p] =
                            [state |-> "pending_review", amount |-> call[c].total]]
        /\ order' = [order EXCEPT ![o] =
                       [@ EXCEPT !.status = status, !.payment = payment, !.linked = p]]
        /\ UNCHANGED <<overdue, balance, book, refunds, sweeping>>
        /\ Return(c) /\ InCall(c, "submit")
    BY <1>1, <1>8 DEF SubmitCommit, money
  <2>2. p \in Proofs /\ call[c].total \in Totals
    BY <1>0, <2>1, OpenCallShape
  <2>3. /\ order[o].payment = call[c].payment /\ order[o].payment # "paid"
        /\ order[o].status \in {call[c].status, "expired"}
        /\ call[c].status \notin {"paid", "completed", "cancelled", "expired"}
        /\ Pending(o) = {}
    BY <1>0, <1>1, <2>1 DEF CallAgrees
  <2>4. payment = "under_review" /\ status \in {"awaiting_approval", "expired"}
    BY <2>3
  <2>5. /\ order'[o].status = status /\ order'[o].payment = payment
        /\ order'[o].linked = p /\ order'[o].provisioned = order[o].provisioned
    <3> HIDE DEF status, payment
    <3>1. QED BY <1>0, <1>1, <2>1 DEF TypeOK, OrderRow
  <2>6. OrderStep(o)
    <3>1. Pending(o)' = {p}
      BY <1>0, <1>1, <2>1, <2>2, <2>3 DEF TypeOK, SubmissionRow, Pending
    <3>2. status = "expired" => order[o].status = "expired"
      OBVIOUS
    <3>3. order[o].payment # "paid"
      BY <2>3
    <3>4. status = order[o].status \/ status = "awaiting_approval"
      OBVIOUS
    <3>5. order[o].status \in {status, "waiting_payment", "absent", "refunded", "expired"}
      <4>1. order[o].status \in Statuses /\ order[o].status \notin {"paid", "completed",
                                                          "cancelled", "pending"}
        BY <1>1, <2>3 DEF RowsAgree, OrderRow
      <4>2. QED BY <4>1, <3>4 DEF Statuses
    <3> HIDE DEF status, payment
    <3>6. RowsAgree(o)'
      BY <1>1, <2>1, <2>4, <2>5, <3>1, <3>2, <3>3 DEF RowsAgree
    <3>7. Approved(o)' = Approved(o)
      BY <1>0, <1>1, <2>1, <2>2 DEF TypeOK, SubmissionRow, Approved
    <3>8. Balanced(o)'
      BY <1>0, <1>1, <2>1, <2>4, <2>5, <3>3, <3>7, StaysBalanced DEF Book!Spent
    <3>9. Follows(o) /\ StaysPaid(o)
      BY <2>4, <2>5, <3>3, <3>5 DEF Follows, StaysPaid, Allowed, Stale
    <3>10. QED BY <3>6, <3>8, <3>9 DEF OrderStep
  <2> HIDE DEF status, payment, p
  <2>7. ASSUME NEW q \in Orders, q # o
        PROVE  order'[q] = order[q] /\ submission'[q] = submission[q]
    BY <1>0, <2>1, <2>7 DEF TypeOK
  <2>8. QED BY <1>3, <2>1, <2>6, <2>7 DEF Book!Spent
<1>9. CASE RefundCommit(c)
  <2> DEFINE k == RefundKey(call[c].request)
  <2>1. /\ Refundable(o)
        /\ IF Book!Spent(k) THEN UNCHANGED money ELSE Book!Post(k, Owner[o], call[c].total)
        /\ order' = [order EXCEPT ![o] =
                       [@ EXCEPT !.status = "refunded", !.payment = "refunded"]]
        /\ refunds' = [refunds EXCEPT ![o] = @ + 1]
        /\ UNCHANGED <<submission, overdue, sweeping>>
        /\ Return(c)
    BY <1>1, <1>9 DEF RefundCommit, RefundAmount
  <2>2. ASSUME NEW q \in Orders
        PROVE  Book!Spent(PayKey(q))' <=> Book!Spent(PayKey(q))
    <3>1. k # PayKey(q)
      BY DEF RefundKey, PayKey
    <3> HIDE DEF k
    <3>2. CASE UNCHANGED money
      BY <3>2 DEF money, Book!Spent
    <3>3. CASE Book!Post(k, Owner[o], call[c].total)
      <4>1. book' = book \cup {[key |-> k, user |-> Owner[o], amount |-> call[c].total]}
        BY <3>3 DEF Book!Post
      <4>2. QED BY <3>1, <4>1 DEF Book!Spent
    <3>4. QED BY <2>1, <3>2, <3>3
  <2>3. OrderStep(o)
    <3>1. /\ order'[o].status = "refunded" /\ order'[o].payment = "refunded"
          /\ order'[o].provisioned = order[o].provisioned
          /\ order[o].status = "paid" /\ order[o].payment = "paid"
      BY <1>0, <1>1, <2>1 DEF TypeOK, OrderRow, Refundable
    <3>2. RowsAgree(o)'
      BY <1>1, <2>1, <3>1 DEF RowsAgree, Pending
    <3>3. Balanced(o)'
      <4>1. Cardinality(Approved(o))' = Cardinality(Approved(o))
        BY <2>1 DEF Approved
      <4>2. refunds'[o] = refunds[o] + 1 /\ refunds[o] \in Nat
        BY <1>0, <1>1, <2>1 DEF TypeOK
      <4>3. Cardinality(Approved(o)) \in Nat
        BY <1>0, <1>1, Counted
      <4>4. QED BY <1>1, <2>2, <3>1, <4>1, <4>2, <4>3 DEF Balanced, Captured
    <3>4. Follows(o) /\ StaysPaid(o)
      BY <3>1 DEF Follows, StaysPaid, Allowed
    <3>5. QED BY <3>2, <3>3, <3>4 DEF OrderStep
  <2>4. ASSUME NEW q \in Orders, q # o
        PROVE  order'[q] = order[q] /\ refunds'[q] = refunds[q]
    BY <1>0, <2>1, <2>4 DEF TypeOK
  <2>5. QED BY <1>3, <2>1, <2>2, <2>3, <2>4
<1>10. CASE CloseCommit(c)
  <2> DEFINE target == call[c].target
  <2>1. /\ order' = [order EXCEPT ![o].status = target]
        /\ overdue' = [overdue EXCEPT ![o] = @ \/ target = "expired"]
        /\ UNCHANGED <<submission, balance, book, refunds, sweeping>>
        /\ Return(c) /\ InCall(c, "close")
    BY <1>1, <1>10 DEF CloseCommit, money
  <2>2. /\ target \in {"cancelled", "expired"}
        /\ order[o].payment # "paid"
        /\ order[o].status \in {"waiting_payment", "awaiting_approval", "expired"}
        /\ target = "cancelled" => Pending(o) = {} /\ order[o].status # "awaiting_approval"
    BY <1>0, <1>1, <2>1, OpenCallShape DEF CallAgrees
  <2> HIDE DEF target
  <2>3. OrderStep(o)
    <3>1. /\ order'[o].status = target /\ (target = "expired" => overdue'[o])
          /\ order'[o].payment = order[o].payment
          /\ order'[o].provisioned = order[o].provisioned
          /\ order'[o].linked = order[o].linked
      BY <1>0, <1>1, <2>1 DEF TypeOK, OrderRow
    <3>2. RowsAgree(o)'
      BY <1>1, <2>1, <2>2, <3>1 DEF RowsAgree, Pending
    <3>3. Follows(o)
      BY <2>2, <3>1 DEF Follows, Allowed, Stale
    <3>4. QED BY <1>0, <1>1, <2>1, <3>1, <3>2, <3>3, StatusWritten
  <2>4. ASSUME NEW q \in Orders, q # o
        PROVE  order'[q] = order[q] /\ overdue'[q] = overdue[q]
    BY <1>0, <2>1, <2>4 DEF TypeOK
  <2>5. overdue[o] => overdue'[o]
    BY <1>0, <1>1, <2>1 DEF TypeOK
  <2>6. QED BY <1>3, <2>1, <2>3, <2>4, <2>5 DEF Book!Spent
<1>11. CASE ProvisionCommit(c)
  <2>1. /\ order[o].payment = "paid" /\ order[o].status \in {"paid", "expired"}
        /\ ~order[o].provisioned
    BY <1>0, <1>11, <1>1 DEF ProvisionCommit, CallAgrees
  <2>2. /\ order' = [order EXCEPT ![o] =
                       [@ EXCEPT !.provisioned = TRUE, !.status = "completed"]]
        /\ UNCHANGED <<submission, overdue, balance, book, refunds, sweeping>>
        /\ Return(c)
    BY <1>1, <1>11, <2>1 DEF ProvisionCommit, money
  <2>3. OrderStep(o)
    <3>1. order'[o].status = "completed" /\ order'[o].payment = order[o].payment
      BY <1>0, <1>1, <2>2 DEF TypeOK, OrderRow
    <3>2. RowsAgree(o)'
      BY <1>1, <2>1, <2>2, <3>1 DEF RowsAgree, Pending
    <3>3. Follows(o)
      BY <2>1, <3>1 DEF Follows, Allowed, Stale
    <3>4. QED BY <1>0, <1>1, <2>2, <3>1, <3>2, <3>3, StatusWritten
  <2>4. ASSUME NEW q \in Orders, q # o
        PROVE  order'[q] = order[q]
    BY <1>0, <2>2, <2>4 DEF TypeOK
  <2>5. QED BY <1>3, <2>2, <2>3, <2>4 DEF Book!Spent
<1>12. QED
  BY <1>4, <1>5, <1>6, <1>7, <1>8, <1>9, <1>10, <1>11 DEF Finish

\* The clock and the sweep, which takes no notice of what the handler does.
LEMMA SweepAlone ==
    ASSUME NEW m, Callers \subseteq {m}, AloneInv,
           (\E o \in Orders : TimePasses(o)) \/ Sweep
    PROVE  /\ \A q \in Orders : OrderStep(q)
           /\ \A d \in Callers : CallAgrees(d)'
           /\ \A q \in sweeping' : overdue'[q]
<1>0. TypeOK
  BY DEF AloneInv
<1>1. ASSUME NEW o \in Orders, TimePasses(o)
      PROVE  /\ \A q \in Orders : OrderStep(q)
             /\ \A d \in Callers : CallAgrees(d)'
             /\ \A q \in sweeping' : overdue'[q]
  <2>1. /\ overdue' = [overdue EXCEPT ![o] = TRUE]
        /\ UNCHANGED <<order, submission, balance, book, refunds, call, sweeping>>
    BY <1>1 DEF TimePasses, money
  <2>2. \A q \in Orders : overdue[q] => overdue'[q]
    BY <1>0, <2>1 DEF TypeOK
  <2>3. \A q \in Orders : OrderStep(q)
    BY <1>0, <2>1, <2>2, Untouched DEF AloneInv, Book!Spent
  <2>4. \A d \in Callers : CallAgrees(d)'
    BY <2>1 DEF AloneInv, CallAgrees, InCall, Pending
  <2>5. QED BY <1>0, <2>1, <2>2, <2>3, <2>4 DEF AloneInv, TypeOK
<1>2. CASE SweepStart
  <2>1. /\ sweeping' \subseteq {o \in Orders : overdue[o]}
        /\ UNCHANGED <<order, submission, overdue, balance, book, refunds, call>>
    BY <1>2 DEF SweepStart, Expirable, money
  <2>2. \A q \in Orders : OrderStep(q)
    BY <1>0, <2>1, Untouched DEF AloneInv, Book!Spent
  <2>3. \A d \in Callers : CallAgrees(d)'
    BY <2>1 DEF AloneInv, CallAgrees, InCall, Pending
  <2>4. QED BY <2>1, <2>2, <2>3
<1>3. CASE SweepCommit
  <2>1. /\ sweeping' = {}
        /\ UNCHANGED <<submission, overdue, balance, book, refunds, call>>
    BY <1>3 DEF SweepCommit, money
  <2>2. ASSUME NEW q \in Orders
        PROVE  \/ order'[q] = order[q]
               \/ order'[q] = [order[q] EXCEPT !.status = "expired"] /\ overdue[q]
    BY <1>3 DEF SweepCommit, AloneInv
  <2>3. ASSUME NEW q \in Orders
        PROVE  /\ order'[q].payment = order[q].payment
               /\ order'[q].provisioned = order[q].provisioned
               /\ order'[q].linked = order[q].linked
               /\ \/ order'[q].status = order[q].status
                  \/ order'[q].status = "expired" /\ overdue[q]
    <3>1. order[q] \in OrderRow
      BY <1>0 DEF TypeOK
    <3>2. CASE order'[q] = order[q]
      BY <3>2
    <3>3. CASE order'[q] = [order[q] EXCEPT !.status = "expired"] /\ overdue[q]
      BY <3>1, <3>3 DEF OrderRow
    <3>4. QED BY <2>2, <3>2, <3>3
  <2>4. ASSUME NEW q \in Orders
        PROVE  OrderStep(q)
    <3>0. order[q] \in OrderRow /\ RowsAgree(q) /\ Balanced(q)
      BY <1>0 DEF AloneInv, TypeOK
    <3>1. RowsAgree(q)'
      BY <2>1, <2>3, <3>0 DEF RowsAgree, Pending
    <3>2. Follows(q)
      BY <2>3, <3>0 DEF RowsAgree, Follows, Allowed, Stale, OrderRow, Statuses
    <3>3. QED BY <1>0, <2>1, <2>3, <3>0, <3>1, <3>2, StatusWritten
  <2>5. ASSUME NEW d \in Callers
        PROVE  CallAgrees(d)'
    <3>1. call[d] # Idle => call[d].order \in Orders
      BY <1>0, OpenCallShape
    <3>2. CallAgrees(d)
      BY DEF AloneInv
    <3>3. QED BY <2>1, <2>3, <3>1, <3>2 DEF CallAgrees, InCall, Pending
  <2>6. QED BY <2>1, <2>4, <2>5
<1>4. QED BY <1>1, <1>2, <1>3 DEF Sweep

LEMMA AloneStep ==
    ASSUME NEW m, Callers \subseteq {m}
    PROVE  AloneInv /\ [Next]_vars =>
              AloneInv' /\ \A o \in Orders : Follows(o) /\ StaysPaid(o)
<1> SUFFICES ASSUME AloneInv, [Next]_vars
             PROVE  AloneInv' /\ \A o \in Orders : Follows(o) /\ StaysPaid(o)
    OBVIOUS
<1>1. TypeOK'
  BY TypeStep DEF AloneInv
<1>2. CASE UNCHANGED vars
  <2>1. \A q \in Orders : OrderStep(q)
    BY <1>2, Untouched DEF AloneInv, vars, Book!Spent
  <2>2. \A d \in Callers : CallAgrees(d)'
    BY <1>2 DEF AloneInv, CallAgrees, InCall, Pending, vars
  <2>3. QED BY <1>1, <1>2, <2>1, <2>2 DEF AloneInv, OrderStep, vars
<1>3. CASE Next
  <2>1. /\ \A q \in Orders : OrderStep(q)
        /\ \A d \in Callers : CallAgrees(d)'
        /\ \A q \in sweeping' : overdue'[q]
    BY <1>3, CustomerAlone, StaffAlone, FinishAlone, SweepAlone DEF Next
  <2>2. QED BY <1>1, <2>1 DEF AloneInv, OrderStep
<1>4. QED BY <1>2, <1>3

LEMMA Alone ==
    ASSUME NEW m, Callers \subseteq {m}
    PROVE  Spec => []AloneInv
<1>1. Init => AloneInv
  <2> SUFFICES ASSUME Init
               PROVE  AloneInv
    OBVIOUS
  <2>1. TypeOK
    BY InitType
  <2>2. ASSUME NEW o \in Orders
        PROVE  RowsAgree(o) /\ Balanced(o)
    <3>1. Pending(o) = {} /\ Approved(o) = {}
      BY DEF Init, Pending, Approved
    <3>2. /\ order[o].status = "absent" /\ order[o].payment = "unpaid"
          /\ ~order[o].provisioned /\ refunds[o] = 0 /\ ~Book!Spent(PayKey(o))
      BY DEF Init, Book!Spent
    <3>3. Captured(o) = 0
      BY <3>1, <3>2, FS_EmptySet DEF Captured
    <3>4. QED BY <3>1, <3>2, <3>3 DEF RowsAgree, Balanced
  <2>3. \A c \in Callers : CallAgrees(c)
    BY DEF Init, CallAgrees, InCall
  <2>4. QED BY <2>1, <2>2, <2>3 DEF AloneInv, Init
<1>2. AloneInv /\ [Next]_vars => AloneInv'
  BY AloneStep
<1>3. QED BY <1>1, <1>2, PTL DEF Spec

\* With one handler at most, next to the sweep, the money for an order comes in
\* exactly once per payment, whatever way it is paid, refunded and paid again.
THEOREM OneCapture ==
    ASSUME NEW m, Callers \subseteq {m}
    PROVE  Spec => []OneCapturePerPayment
<1>1. AloneInv => OneCapturePerPayment
  BY DEF AloneInv, Balanced, OneCapturePerPayment
<1>2. QED BY <1>1, Alone, PTL

\* Then a submission under review can be decided, also when the sweep has expired
\* its order between the customer's call and the review.
THEOREM Decidable ==
    ASSUME NEW m, Callers \subseteq {m}
    PROVE  Spec => []PendingCanBeDecided
<1>1. AloneInv => PendingCanBeDecided
  BY DEF AloneInv, RowsAgree, Pending, PendingCanBeDecided, Reviewable, Allowed
<1>2. QED BY <1>1, Alone, PTL

\* Then a key is only held for an order that is paid and was not refunded, though
\* the remote call leaves time for both.
THEOREM KeysPaidFor ==
    ASSUME NEW m, Callers \subseteq {m}
    PROVE  Spec => []KeyIsPaidFor
<1>1. AloneInv => KeyIsPaidFor
  <2> SUFFICES ASSUME AloneInv, NEW o \in Orders, order[o].provisioned
               PROVE  Captured(o) > refunds[o]
    BY DEF KeyIsPaidFor
  <2>1. order[o].payment = "paid" /\ Balanced(o) /\ refunds[o] \in Nat
    BY DEF AloneInv, RowsAgree, TypeOK
  <2>2. QED BY <2>1 DEF Balanced
<1>2. QED BY <1>1, Alone, PTL

\* Then an order changes its status as the transition table says, but for what the
\* sweep and the calls it overtakes write.
THEOREM Table ==
    ASSUME NEW m, Callers \subseteq {m}
    PROVE  Spec => FollowsTable
<1>1. AloneInv /\ [Next]_vars =>
        \A o \in Orders :
          LET was == order[o].status
              now == order'[o].status
          IN  was \in {now, "absent", "refunded"} \/ <<was, now>> \in Allowed \cup Stale
  BY AloneStep DEF Follows
<1>2. QED BY <1>1, Alone, PTL DEF Spec, FollowsTable

\* Then nothing but a refund ends that an order is paid: no late submission,
\* rejection or expiry.
THEOREM PaymentStands ==
    ASSUME NEW m, Callers \subseteq {m}
    PROVE  Spec => PaidUntilRefunded
<1>1. AloneInv /\ [Next]_vars =>
        \A o \in Orders : order[o].payment = "paid" =>
           order'[o].payment \in {"paid", "refunded"}
  BY AloneStep DEF StaysPaid
<1>2. QED BY <1>1, Alone, PTL DEF Spec, PaidUntilRefunded
-----------------------------------------------------------------------------
\* The sums are taken with one function for all rows of the book.
AmountOf == [e \in BookRow |-> e.amount]

DebitsOf(o) == {e \in book : e.key = PayKey(o)}
ReturnsTo(u) == {e \in book : e.user = u /\ \E r \in RefundRequests : e.key = RefundKey(r)}
OrdersOf(u) == {o \in Orders : Owner[o] = u}

\* What ReturnsAreCovered rests on besides AloneInv: a refund that is open gives
\* back what the order costs now.
MoneyInv ==
    /\ IsFiniteSet(book)
    /\ \A c \in Callers : InCall(c, "refund") => call[c].total = order[call[c].order].total
    /\ ReturnsAreCovered

LEMMA BookSum ==
    ASSUME NEW B, B \subseteq BookRow, IsFiniteSet(B), NEW S, S \subseteq B
    PROVE  /\ IsFiniteSet(S)
           /\ SumFunctionOnSet([e \in B |-> e.amount], S) = SumFunctionOnSet(AmountOf, S)
           /\ SumFunctionOnSet(AmountOf, S) \in Int
<1> DEFINE f == [e \in B |-> e.amount]
<1>1. IsFiniteSet(S)
  BY FS_Subset
<1>2. \A e \in S : AmountOf[e] \in Int /\ f[e] = AmountOf[e]
  BY DEF AmountOf, BookRow
<1> HIDE DEF f
<1>3. SumFunctionOnSet(f, S) = SumFunctionOnSet(AmountOf, S)
  BY <1>1, <1>2, SumOfSame
<1>4. SumFunctionOnSet(AmountOf, S) \in Int
  BY <1>1, <1>2, SumIsInt
<1>5. QED BY <1>1, <1>3, <1>4 DEF f

\* A sum whose terms change at one place only.
LEMMA SumMoved ==
    ASSUME NEW S, IsFiniteSet(S), NEW x \in S, NEW f, NEW e,
           \A y \in S : f[y] \in Int /\ e[y] \in Int,
           \A y \in S \ {x} : e[y] = f[y]
    PROVE  /\ SumFunctionOnSet(f, S) \in Int
           /\ SumFunctionOnSet(e, S) = SumFunctionOnSet(f, S) + (e[x] - f[x])
<1> DEFINE R == S \ {x}
<1>1. IsFiniteSet(R) /\ x \notin R /\ S = R \cup {x}
  BY FS_Subset
<1>2. \A y \in R : f[y] \in Int /\ e[y] = f[y]
  OBVIOUS
<1>3. \A y \in R \cup {x} : f[y] \in Int /\ e[y] \in Int
  BY <1>1
<1> HIDE DEF R
<1>4. SumFunctionOnSet(e, R) = SumFunctionOnSet(f, R)
  BY <1>1, <1>2, SumOfSame
<1>5. SumFunctionOnSet(f, R) \in Int
  BY <1>1, <1>2, SumIsInt
<1>6. SumFunctionOnSet(f, R \cup {x}) = SumFunctionOnSet(f, R) + f[x]
  BY <1>1, <1>3, SumWithOneMore
<1>7. SumFunctionOnSet(e, R \cup {x}) = SumFunctionOnSet(e, R) + e[x]
  BY <1>1, <1>3, SumWithOneMore
<1>8. f[x] \in Int /\ e[x] \in Int
  BY <1>3
<1>9. QED BY <1>1, <1>4, <1>5, <1>6, <1>7, <1>8

ApprovedSum(o) == SumFunctionOnSet([p \in Proofs |-> submission[o][p].amount], Approved(o))
DebitSum(o) == SumFunctionOnSet([e \in book |-> e.amount], DebitsOf(o))

LEMMA ReceivedIs == \A o : Received(o) = ApprovedSum(o) - DebitSum(o)
  BY DEF Received, ApprovedSum, DebitSum, DebitsOf

LEMMA AmountsAreInt ==
    ASSUME TypeOK, NEW o \in Orders, NEW p \in Proofs
    PROVE  submission[o][p].amount \in Int
<1>1. submission[o][p] \in SubmissionRow
  BY DEF TypeOK
<1>2. submission[o][p].amount \in Totals
  BY <1>1 DEF SubmissionRow
<1>3. QED BY <1>2, OrdersAssumption DEF Totals

LEMMA SumsAreInt ==
    ASSUME TypeOK, IsFiniteSet(book), NEW o \in Orders
    PROVE  /\ ApprovedSum(o) \in Int /\ DebitSum(o) \in Int
           /\ Received(o) \in Int /\ Held(o) \in Nat /\ Spare(o) \in Int
<1> DEFINE f == [p \in Proofs |-> submission[o][p].amount]
<1>1. ApprovedSum(o) \in Int
  <2>1. IsFiniteSet(Approved(o))
    BY Counted
  <2>2. \A p \in Approved(o) : f[p] \in Int
    BY AmountsAreInt DEF Approved
  <2> HIDE DEF f
  <2>3. SumFunctionOnSet(f, Approved(o)) \in Int
    BY <2>1, <2>2, SumIsInt
  <2>4. QED BY <2>3 DEF f, ApprovedSum
<1>2. DebitSum(o) \in Int
  <2>1. DebitsOf(o) \subseteq book
    BY DEF DebitsOf
  <2>2. QED BY <2>1, BookSum DEF TypeOK, DebitSum
<1>3. Held(o) \in Nat
  BY TotalsAreNat DEF TypeOK, OrderRow, Held
<1>4. QED BY <1>1, <1>2, <1>3, ReceivedIs DEF Spare

\* What an order's payments bring in does not change unless one is approved or debited.
LEMMA ApprovedStays ==
    ASSUME TypeOK, NEW o \in Orders, Approved(o)' = Approved(o),
           \A p \in Approved(o) : submission'[o][p].amount = submission[o][p].amount
    PROVE  ApprovedSum(o)' = ApprovedSum(o)
<1> DEFINE f == [p \in Proofs |-> submission[o][p].amount]
           g == [p \in Proofs |-> submission'[o][p].amount]
<1>1. IsFiniteSet(Approved(o))
  BY Counted
<1>2. \A p \in Approved(o) : f[p] \in Int /\ g[p] = f[p]
  BY AmountsAreInt DEF Approved
<1> HIDE DEF f, g
<1>3. SumFunctionOnSet(g, Approved(o)) = SumFunctionOnSet(f, Approved(o))
  BY <1>1, <1>2, SumOfSame
<1>4. QED BY <1>3 DEF f, g, ApprovedSum

LEMMA DebitStays ==
    ASSUME TypeOK, TypeOK', IsFiniteSet(book), IsFiniteSet(book'), NEW o \in Orders,
           DebitsOf(o)' = DebitsOf(o)
    PROVE  DebitSum(o)' = DebitSum(o)
<1>1. DebitsOf(o) \subseteq book /\ DebitsOf(o) \subseteq book'
  BY DEF DebitsOf
<1>2. book \subseteq BookRow /\ book' \subseteq BookRow
  BY DEF TypeOK, BookRow
<1>3. SumFunctionOnSet([e \in book |-> e.amount], DebitsOf(o))
        = SumFunctionOnSet([e \in book' |-> e.amount], DebitsOf(o))
  BY <1>1, <1>2, BookSum
<1>4. QED BY <1>3 DEF DebitSum

LEMMA SpareStays ==
    ASSUME TypeOK, TypeOK', IsFiniteSet(book), IsFiniteSet(book'), NEW o \in Orders,
           Approved(o)' = Approved(o), DebitsOf(o)' = DebitsOf(o),
           \A p \in Approved(o) : submission'[o][p].amount = submission[o][p].amount,
           Held(o)' = Held(o)
    PROVE  Spare(o)' = Spare(o)
<1>1. ApprovedSum(o)' = ApprovedSum(o)
  BY ApprovedStays
<1>2. DebitSum(o)' = DebitSum(o)
  BY DebitStays
<1>3. QED BY <1>1, <1>2, ReceivedIs DEF Spare, Received, ApprovedSum, DebitSum, DebitsOf
-----------------------------------------------------------------------------
\* What a step that is no refund does about the money: nothing is given back, and
\* an order that gets paid is paid what it holds.
Keeps ==
    /\ IsFiniteSet(book')
    /\ \A o \in Orders : Spare(o)' = Spare(o)
    /\ \A u \in Users : Returned(u)' = Returned(u)

LEMMA ReturnsStay ==
    ASSUME TypeOK, TypeOK', IsFiniteSet(book), IsFiniteSet(book'), NEW u \in Users,
           ReturnsTo(u)' = ReturnsTo(u)
    PROVE  Returned(u)' = Returned(u)
<1>1. ReturnsTo(u) \subseteq book /\ ReturnsTo(u) \subseteq book'
  BY DEF ReturnsTo
<1>2. book \subseteq BookRow /\ book' \subseteq BookRow
  BY DEF TypeOK, BookRow
<1>3. SumFunctionOnSet([e \in book |-> e.amount], ReturnsTo(u))
        = SumFunctionOnSet([e \in book' |-> e.amount], ReturnsTo(u))
  BY <1>1, <1>2, BookSum
<1>4. QED BY <1>3 DEF Returned, ReturnsTo

\* An order's rows that change nothing of its money.
SameMoney(o) ==
    /\ Approved(o)' = Approved(o)
    /\ \A p \in Approved(o) : submission'[o][p].amount = submission[o][p].amount
    /\ Held(o)' = Held(o)

LEMMA KeepsWhenSame ==
    ASSUME TypeOK, TypeOK', IsFiniteSet(book), book' = book,
           \A o \in Orders : SameMoney(o)
    PROVE  Keeps
<1>1. ASSUME NEW o \in Orders
      PROVE  Spare(o)' = Spare(o)
  <2>1. DebitsOf(o)' = DebitsOf(o) /\ SameMoney(o)
    BY DEF DebitsOf
  <2>2. QED BY <2>1, SpareStays DEF SameMoney
<1>2. ASSUME NEW u \in Users
      PROVE  Returned(u)' = Returned(u)
  <2>1. ReturnsTo(u)' = ReturnsTo(u)
    BY DEF ReturnsTo
  <2>2. QED BY <2>1, ReturnsStay
<1>3. QED BY <1>1, <1>2 DEF Keeps

\* Untouched rows, and rows whose payment and total stay.
LEMMA SameRows ==
    ASSUME TypeOK, TypeOK', NEW o \in Orders, submission'[o] = submission[o],
           \/ order'[o] = order[o]
           \/ order'[o].payment = order[o].payment /\ order'[o].total = order[o].total
           \/ order[o].payment # "paid" /\ order'[o].payment # "paid"
    PROVE  SameMoney(o)
  BY DEF SameMoney, Approved, Held

LEMMA CustomerKeeps ==
    ASSUME TypeOK, TypeOK', IsFiniteSet(book), NEW c \in Callers, NEW o \in Orders,
           Customer(c, o)
    PROVE  Keeps
<1>1. CASE CreatePendingOrder(c, o)
  <2>1. UNCHANGED <<submission, book>>
    BY <1>1 DEF CreatePendingOrder, money
  <2>2. ASSUME NEW q \in Orders
        PROVE  order'[q].payment = order[q].payment /\ order'[q].total = order[q].total
    BY <1>1 DEF CreatePendingOrder, TypeOK, OrderRow
  <2>3. QED BY <2>1, <2>2, SameRows, KeepsWhenSame
<1>2. CASE ApplyDiscount(c, o)
  <2>1. UNCHANGED <<submission, book>> /\ order[o].payment # "paid"
    BY <1>2 DEF ApplyDiscount, money
  <2>2. order'[o].payment = order[o].payment
    BY <1>2 DEF ApplyDiscount, TypeOK, OrderRow
  <2>3. ASSUME NEW q \in Orders, q # o
        PROVE  order'[q] = order[q]
    BY <1>2, <2>3 DEF ApplyDiscount, TypeOK
  <2>4. ASSUME NEW q \in Orders
        PROVE  SameMoney(q)
    <3>1. CASE q = o
      BY <2>1, <2>2, <3>1, SameRows
    <3>2. CASE q # o
      BY <2>1, <2>3, <3>2, SameRows
    <3>3. QED BY <3>1, <3>2
  <2>5. QED BY <2>1, <2>4, KeepsWhenSame
<1>3. ASSUME \/ PayStart(c, o)
             \/ \E p \in Proofs : SubmitStart(c, o, p)
             \/ \E target \in {"cancelled", "expired"} : CloseStart(c, o, target)
      PROVE  Keeps
  <2>1. UNCHANGED <<order, submission, book>>
    BY <1>3 DEF PayStart, SubmitStart, CloseStart, money
  <2>2. QED BY <2>1, SameRows, KeepsWhenSame
<1>4. QED BY <1>1, <1>2, <1>3 DEF Customer
\* An approval brings in what the order then holds.
LEMMA ApprovalKeeps ==
    ASSUME TypeOK, TypeOK', IsFiniteSet(book), NEW o \in Orders, NEW p \in Proofs,
           submission' = [submission EXCEPT ![o][p].state = "approved"],
           p \notin Approved(o), submission[o][p].amount = order[o].total,
           book' = book, order[o].payment # "paid",
           order'[o].payment = "paid", order'[o].total = order[o].total,
           \A q \in Orders : q # o => order'[q] = order[q]
    PROVE  Keeps
<1>1. ASSUME NEW q \in Orders, q # o
      PROVE  Spare(q)' = Spare(q)
  <2>1. submission'[q] = submission[q] /\ order'[q] = order[q]
    BY <1>1 DEF TypeOK
  <2>2. SameMoney(q) /\ DebitsOf(q)' = DebitsOf(q)
    BY <2>1, SameRows DEF DebitsOf
  <2>3. QED BY <2>2, SpareStays DEF SameMoney
<1>2. Spare(o)' = Spare(o)
  <2> DEFINE f == [r \in Proofs |-> submission[o][r].amount]
             g == [r \in Proofs |-> submission'[o][r].amount]
             A == Approved(o)
  <2>1. A \cup {p} = Approved(o)' /\ IsFiniteSet(A) /\ p \notin A
    <3>1. A \cup {p} = Approved(o)'
      BY DEF TypeOK, SubmissionRow, Approved
    <3>2. QED BY <3>1, Counted
  <2>2. \A r \in A \cup {p} : submission[o][r].amount \in Int /\ r \in Proofs
    BY AmountsAreInt DEF Approved
  <2>3. \A r \in Proofs : submission'[o][r].amount = submission[o][r].amount
    <3>1. ASSUME NEW r \in Proofs
          PROVE  submission'[o][r].amount = submission[o][r].amount
      <4>1. submission[o][r] \in SubmissionRow
        BY DEF TypeOK
      <4>2. QED BY <4>1 DEF TypeOK, SubmissionRow
    <3>2. QED BY <3>1
  <2>4. \A r \in A \cup {p} : f[r] \in Int /\ g[r] \in Int /\ g[r] = f[r]
    BY <2>2, <2>3
  <2>5. f[p] = order[o].total /\ g[p] = order[o].total
    BY <2>3
  <2> HIDE DEF f, g, A
  <2>6. SumFunctionOnSet(g, A) = SumFunctionOnSet(f, A)
    BY <2>1, <2>4, SumOfSame
  <2>7. SumFunctionOnSet(g, A \cup {p}) = SumFunctionOnSet(g, A) + g[p]
    <3>1. \A r \in A \cup {p} : g[r] \in Int
      BY <2>4
    <3>2. QED BY <2>1, <3>1, SumWithOneMore
  <2>8. ApprovedSum(o) = SumFunctionOnSet(f, A)
    BY DEF ApprovedSum, f, A
  <2>9. ApprovedSum(o)' = SumFunctionOnSet(g, A \cup {p})
    BY <2>1 DEF ApprovedSum, g
  <2>10. ApprovedSum(o)' = ApprovedSum(o) + order[o].total
    BY <2>5, <2>6, <2>7, <2>8, <2>9
  <2>11. DebitSum(o)' = DebitSum(o)
    BY DebitStays DEF DebitsOf
  <2>12. Held(o) = 0 /\ Held(o)' = order[o].total
    BY DEF Held
  <2>13. ApprovedSum(o) \in Int /\ DebitSum(o) \in Int /\ order[o].total \in Int
    BY SumsAreInt, OrdersAssumption DEF TypeOK, OrderRow, Totals
  <2>14. Spare(o) = ApprovedSum(o) - DebitSum(o) - Held(o)
    BY ReceivedIs DEF Spare
  <2>15. Spare(o)' = ApprovedSum(o)' - DebitSum(o)' - Held(o)'
    BY DEF Spare, Received, ApprovedSum, DebitSum, DebitsOf
  <2>16. QED BY <2>10, <2>11, <2>12, <2>13, <2>14, <2>15
<1>3. ASSUME NEW u \in Users
      PROVE  Returned(u)' = Returned(u)
  <2>1. ReturnsTo(u)' = ReturnsTo(u)
    BY DEF ReturnsTo
  <2>2. QED BY <2>1, ReturnsStay
<1>4. QED BY <1>1, <1>2, <1>3 DEF Keeps

LEMMA StaffKeeps ==
    ASSUME AloneInv, TypeOK', IsFiniteSet(book), NEW c \in Callers, NEW o \in Orders,
           Staff(c, o)
    PROVE  Keeps
<1>0. TypeOK /\ order[o] \in OrderRow /\ RowsAgree(o)
  BY DEF AloneInv, TypeOK
<1>1. ASSUME NEW p \in Proofs, Approve(c, o, p) \/ Settle(c, o, p)
      PROVE  Keeps
  <2>1. /\ submission' = [submission EXCEPT ![o][p].state = "approved"]
        /\ order' = [order EXCEPT ![o] =
                       [@ EXCEPT !.status = "paid", !.payment = "paid", !.linked = p]]
        /\ book' = book
        /\ submission[o][p].state # "approved"
        /\ submission[o][p].amount = order[o].total
        /\ order[o].payment # "paid"
    BY <1>0, <1>1 DEF Approve, Settle, Reviewable, RowsAgree, Pending, money
  <2>2. order'[o].payment = "paid" /\ order'[o].total = order[o].total
    BY <1>0, <2>1 DEF TypeOK, OrderRow
  <2>3. \A q \in Orders : q # o => order'[q] = order[q]
    BY <1>0, <2>1 DEF TypeOK
  <2>4. p \notin Approved(o)
    BY <2>1 DEF Approved
  <2>5. QED BY <1>0, <2>1, <2>2, <2>3, <2>4, ApprovalKeeps
<1>2. ASSUME NEW p \in Proofs, Reject(c, o, p)
      PROVE  Keeps
  <2>1. /\ submission' = [submission EXCEPT ![o][p].state = "rejected"]
        /\ book' = book /\ p \in Pending(o)
    BY <1>2 DEF Reject, Reviewable, Pending, money
  <2>2. order[o].payment = "under_review" /\ order'[o].payment = "unpaid"
    BY <1>0, <1>2, <2>1 DEF Reject, TypeOK, OrderRow, RowsAgree
  <2>3. \A q \in Orders : q # o => order'[q] = order[q] /\ submission'[q] = submission[q]
    BY <1>0, <1>2 DEF Reject, TypeOK
  <2>4. SameMoney(o)
    <3>1. Approved(o)' = Approved(o)
      BY <1>0, <2>1 DEF Approved, Pending, TypeOK, SubmissionRow
    <3>2. \A r \in Approved(o) : submission'[o][r] = submission[o][r]
      BY <1>0, <2>1 DEF Approved, Pending, TypeOK
    <3>3. Held(o)' = Held(o)
      BY <2>2 DEF Held
    <3>4. QED BY <3>1, <3>2, <3>3 DEF SameMoney
  <2>5. ASSUME NEW q \in Orders
        PROVE  SameMoney(q)
    <3>1. CASE q # o
      BY <1>0, <2>3, <3>1, SameRows
    <3>2. QED BY <2>4, <3>1
  <2>6. QED BY <1>0, <2>1, <2>5, KeepsWhenSame
<1>3. ASSUME (\E r \in RefundRequests : RefundStart(c, o, r)) \/ ProvisionStart(c, o)
      PROVE  Keeps
  <2>1. UNCHANGED <<order, submission, book>>
    BY <1>3 DEF RefundStart, ProvisionStart, money
  <2>2. QED BY <1>0, <2>1, SameRows, KeepsWhenSame
<1>4. QED BY <1>1, <1>2, <1>3 DEF Staff

\* The clock and the sweep.
LEMMA SweepKeeps ==
    ASSUME TypeOK, TypeOK', IsFiniteSet(book),
           (\E o \in Orders : TimePasses(o)) \/ Sweep \/ UNCHANGED vars
    PROVE  Keeps /\ call' = call /\ \A o \in Orders : order'[o].total = order[o].total
<1>1. UNCHANGED <<submission, book, call>>
  BY DEF TimePasses, Sweep, SweepStart, SweepCommit, vars, money
<1>2. ASSUME NEW q \in Orders
      PROVE  order'[q].payment = order[q].payment /\ order'[q].total = order[q].total
  <2>1. CASE SweepCommit
    BY <2>1 DEF SweepCommit, TypeOK, OrderRow
  <2>2. CASE order' = order
    BY <2>2
  <2>3. QED BY <2>1, <2>2 DEF TimePasses, Sweep, SweepStart, vars
<1>3. QED BY <1>1, <1>2, SameRows, KeepsWhenSame
LEMMA FinishKeeps ==
    ASSUME AloneInv, TypeOK', IsFiniteSet(book), NEW c \in Callers,
           Finish(c), ~RefundCommit(c)
    PROVE  Keeps
<1>0. call[c] # Idle /\ TypeOK /\ CallAgrees(c)
  BY DEF Finish, InCall, PayCommit, PayLapse, PayRefuse, SubmitCheck, SubmitRefuse,
         SubmitCommit, SubmitConflict, RefundFail, CloseCommit,
         ProvisionCommit, ProvisionFail, AloneInv
<1>1. PICK o \in Orders : /\ o = call[c].order /\ order[o] \in OrderRow
                          /\ RowsAgree(o) /\ Owner[o] \in Users
  BY <1>0, OpenCallShape, OrdersAssumption DEF AloneInv, TypeOK
<1>2. CASE PayCommit(c)
  <2> DEFINE d == [key |-> PayKey(o), user |-> Owner[o], amount |-> -order[o].total]
  <2>1. /\ book' = book \cup {d}
        /\ order' = [order EXCEPT ![o] = [@ EXCEPT !.status = "paid", !.payment = "paid"]]
        /\ submission' = submission
        /\ order[o].payment # "paid" /\ ~Book!Spent(PayKey(o))
    BY <1>1, <1>2 DEF PayCommit, Payable, AlreadyPaid, Book!Post
  <2>2. /\ d.key = PayKey(o) /\ d.amount = -order[o].total /\ d \in book' /\ d \notin book
        /\ \A q \in Orders : q # o => d.key # PayKey(q)
        /\ \A r \in RefundRequests : d.key # RefundKey(r)
    BY <2>1 DEF Book!Spent, PayKey, RefundKey
  <2>3. IsFiniteSet(book') /\ book \subseteq BookRow /\ book' \subseteq BookRow
    <3>1. IsFiniteSet(book \cup {d})
      BY FS_AddElement
    <3>2. QED BY <1>0, <2>1, <3>1 DEF TypeOK, BookRow
  <2>4. order[o].total \in Int
    BY <1>1, OrdersAssumption DEF OrderRow, Totals
  <2> HIDE DEF d
  <2>5. ASSUME NEW q \in Orders, q # o
        PROVE  Spare(q)' = Spare(q)
    <3>1. order'[q] = order[q]
      BY <1>0, <2>1, <2>5 DEF TypeOK
    <3>2. SameMoney(q)
      BY <1>0, <2>1, <3>1, SameRows
    <3>3. DebitsOf(q)' = DebitsOf(q)
      BY <2>1, <2>2, <2>5 DEF DebitsOf
    <3>4. QED BY <1>0, <2>3, <3>2, <3>3, SpareStays DEF SameMoney
  <2>6. Spare(o)' = Spare(o)
    <3>1. DebitsOf(o) = {} /\ DebitsOf(o)' = {d}
      BY <2>1, <2>2 DEF DebitsOf, Book!Spent
    <3>2. AmountOf[d] = -order[o].total
      BY <2>2, <2>3 DEF AmountOf
    <3>3. DebitSum(o) = 0
      BY <3>1, SumOfNone DEF DebitSum
    <3>4. DebitSum(o)' = SumFunctionOnSet(AmountOf, {d})
      <4>1. SumFunctionOnSet([e \in book' |-> e.amount], {d}) = SumFunctionOnSet(AmountOf, {d})
        <5>1. {d} \subseteq book'
          BY <2>2
        <5>2. QED BY <2>3, <5>1, BookSum
      <4>2. QED BY <3>1, <4>1 DEF DebitSum
    <3>5. SumFunctionOnSet(AmountOf, {d}) = -order[o].total
      <4>1. SumFunctionOnSet(AmountOf, {} \cup {d}) = SumFunctionOnSet(AmountOf, {}) + AmountOf[d]
        <5>1. IsFiniteSet({}) /\ d \notin {} /\ \A y \in {} \cup {d} : AmountOf[y] \in Int
          BY <2>4, <3>2, FS_EmptySet
        <5>2. QED BY <5>1, SumWithOneMore
      <4>2. {} \cup {d} = {d}
        OBVIOUS
      <4>3. QED BY <2>4, <3>2, <4>1, <4>2, SumOfNone
    <3>6. ApprovedSum(o)' = ApprovedSum(o)
      BY <2>1 DEF ApprovedSum, Approved
    <3>7. Held(o) = 0 /\ Held(o)' = order[o].total
      BY <1>1, <2>1, <1>0 DEF Held, TypeOK, OrderRow
    <3>8. ApprovedSum(o) \in Int
      BY <1>0, SumsAreInt
    <3>9. Spare(o) = ApprovedSum(o) - DebitSum(o) - Held(o)
      BY ReceivedIs DEF Spare
    <3>10. Spare(o)' = ApprovedSum(o)' - DebitSum(o)' - Held(o)'
      BY DEF Spare, Received, ApprovedSum, DebitSum, DebitsOf
    <3>11. QED BY <2>4, <3>3, <3>4, <3>5, <3>6, <3>7, <3>8, <3>9, <3>10
  <2>7. ASSUME NEW u \in Users
        PROVE  Returned(u)' = Returned(u)
    <3>1. ReturnsTo(u)' = ReturnsTo(u)
      BY <2>1, <2>2 DEF ReturnsTo
    <3>2. QED BY <1>0, <2>3, <3>1, ReturnsStay
  <2>8. QED BY <2>3, <2>5, <2>6, <2>7 DEF Keeps
<1>3. CASE SubmitCommit(c)
  <2> DEFINE p == call[c].proof
  <2>1. /\ submission[o][p].state = "none" /\ p \in Proofs
        /\ submission' = [submission EXCEPT ![o][p] =
                            [state |-> "pending_review", amount |-> call[c].total]]
        /\ book' = book
    BY <1>0, <1>1, <1>3, OpenCallShape DEF SubmitCommit, money
  <2>2. \A q \in Orders : q # o => order'[q] = order[q] /\ submission'[q] = submission[q]
    BY <1>0, <1>1, <1>3 DEF SubmitCommit, TypeOK
  <2>3. order[o].payment # "paid" /\ order'[o].payment # "paid"
    BY <1>0, <1>1, <1>3 DEF SubmitCommit, CallAgrees, TypeOK, OrderRow
  <2>4. SameMoney(o)
    <3>1. Approved(o)' = Approved(o)
      BY <1>0, <2>1 DEF Approved, TypeOK, SubmissionRow
    <3>2. \A r \in Approved(o) : submission'[o][r] = submission[o][r]
      BY <1>0, <2>1 DEF Approved, TypeOK
    <3>3. Held(o)' = Held(o)
      BY <2>3 DEF Held
    <3>4. QED BY <3>1, <3>2, <3>3 DEF SameMoney
  <2>5. ASSUME NEW q \in Orders
        PROVE  SameMoney(q)
    <3>1. CASE q # o
      BY <1>0, <2>2, <3>1, SameRows
    <3>2. QED BY <2>4, <3>1
  <2>6. QED BY <1>0, <2>1, <2>5, KeepsWhenSame
<1>4. CASE PayLapse(c) \/ CloseCommit(c) \/ ProvisionCommit(c)
  <2>1. UNCHANGED <<submission, book>>
    BY <1>4 DEF PayLapse, CloseCommit, ProvisionCommit, money
  <2>2. ASSUME NEW q \in Orders
        PROVE  order'[q].payment = order[q].payment /\ order'[q].total = order[q].total
    <3>0. order[q] \in OrderRow
      BY <1>0 DEF TypeOK
    <3>1. CASE PayLapse(c)
      BY <3>0, <3>1, <1>0 DEF PayLapse, TypeOK, OrderRow
    <3>2. CASE CloseCommit(c)
      BY <3>0, <3>2, <1>0 DEF CloseCommit, TypeOK, OrderRow
    <3>3. CASE ProvisionCommit(c)
      BY <3>0, <3>3, <1>0 DEF ProvisionCommit, TypeOK, OrderRow
    <3>4. QED BY <1>4, <3>1, <3>2, <3>3
  <2>3. QED BY <1>0, <2>1, <2>2, SameRows, KeepsWhenSame
<1>5. CASE \/ PayRefuse(c) \/ SubmitCheck(c) \/ SubmitRefuse(c) \/ SubmitConflict(c)
           \/ RefundFail(c) \/ ProvisionFail(c)
  <2>1. UNCHANGED <<order, submission, book>>
    BY <1>5 DEF PayRefuse, SubmitCheck, SubmitRefuse, SubmitConflict, RefundFail,
                ProvisionFail, money
  <2>2. QED BY <1>0, <2>1, SameRows, KeepsWhenSame
<1>6. QED BY <1>2, <1>3, <1>4, <1>5 DEF Finish
\* A refund takes the order's price out of what the order holds, and gives it to
\* its customer once per request id.
LEMMA RefundMoves ==
    ASSUME AloneInv, MoneyInv, TypeOK', NEW c \in Callers, RefundCommit(c)
    PROVE  IsFiniteSet(book') /\ ReturnsAreCovered'
<1>0. call[c] # Idle /\ TypeOK /\ InCall(c, "refund") /\ IsFiniteSet(book)
  BY DEF RefundCommit, InCall, AloneInv, MoneyInv
<1>1. PICK o \in Orders : /\ o = call[c].order /\ order[o] \in OrderRow
                          /\ Owner[o] \in Users
  BY <1>0, OpenCallShape, OrdersAssumption DEF TypeOK
<1> DEFINE t == order[o].total
           r == call[c].request
           d == [key |-> RefundKey(r), user |-> Owner[o], amount |-> t]
<1>2. /\ r \in RefundRequests /\ t \in Int /\ t >= 0 /\ call[c].total = t
      /\ submission' = submission /\ order[o].payment = "paid"
      /\ order' = [order EXCEPT ![o] =
                     [@ EXCEPT !.status = "refunded", !.payment = "refunded"]]
      /\ \/ book' = book
         \/ book' = book \cup {d} /\ ~Book!Spent(RefundKey(r))
  <2>1. r \in RefundRequests /\ call[c].total = t
    BY <1>0, <1>1, OpenCallShape DEF MoneyInv
  <2>2. t \in Int /\ t >= 0
    BY <1>1, OrdersAssumption DEF OrderRow, Totals
  <2>3. QED BY <1>1, <2>1, <2>2 DEF RefundCommit, RefundAmount, Refundable, Book!Post, money
<1>3. /\ d.key = RefundKey(r) /\ d.amount = t /\ d.user = Owner[o]
      /\ \A q \in Orders : d.key # PayKey(q)
  BY DEF RefundKey, PayKey
<1>4. IsFiniteSet(book') /\ book \subseteq BookRow /\ book' \subseteq BookRow
  <2>1. IsFiniteSet(book \cup {d})
    BY <1>0, FS_AddElement
  <2>2. QED BY <1>0, <1>2, <2>1 DEF TypeOK, BookRow
<1> HIDE DEF d, t
<1>5. ASSUME NEW q \in Orders
      PROVE  DebitsOf(q)' = DebitsOf(q)
  BY <1>2, <1>3 DEF DebitsOf
<1>6. ASSUME NEW q \in Orders, q # o
      PROVE  Spare(q)' = Spare(q)
  <2>1. order'[q] = order[q]
    BY <1>0, <1>2, <1>6 DEF TypeOK
  <2>2. SameMoney(q)
    BY <1>0, <1>2, <2>1, SameRows
  <2>3. QED BY <1>0, <1>4, <1>5, <2>2, SpareStays DEF SameMoney
<1>7. Spare(o)' = Spare(o) + t
  <2>1. ApprovedSum(o)' = ApprovedSum(o)
    BY <1>2 DEF ApprovedSum, Approved
  <2>2. DebitSum(o)' = DebitSum(o)
    BY <1>0, <1>4, <1>5, DebitStays
  <2>3. Held(o) = t /\ Held(o)' = 0
    BY <1>0, <1>1, <1>2 DEF Held, TypeOK, OrderRow, t
  <2>4. ApprovedSum(o) \in Int /\ DebitSum(o) \in Int
    BY <1>0, SumsAreInt
  <2>5. Spare(o) = ApprovedSum(o) - DebitSum(o) - Held(o)
    BY ReceivedIs DEF Spare
  <2>6. Spare(o)' = ApprovedSum(o)' - DebitSum(o)' - Held(o)'
    BY DEF Spare, Received, ApprovedSum, DebitSum, DebitsOf
  <2>7. QED BY <1>2, <2>1, <2>2, <2>3, <2>4, <2>5, <2>6
<1>8. ASSUME NEW u \in Users
      PROVE  Returned(u)' <= SumFunctionOnSet([q \in Orders |-> Spare(q)], OrdersOf(u))'
  <2> DEFINE f == [q \in Orders |-> Spare(q)]
             g == [q \in Orders |-> Spare(q)']
             S == OrdersOf(u)
  <2>1. IsFiniteSet(S) /\ S \subseteq Orders
    BY FS_Subset, OrdersAssumption DEF OrdersOf
  <2>2. \A q \in S : f[q] \in Int /\ g[q] \in Int /\ (q # o => g[q] = f[q])
    BY <1>0, <1>2, <1>6, <1>7, <2>1, SumsAreInt
  <2>3. /\ f[o] = Spare(o) /\ g[o] = Spare(o) + t
        /\ f[o] \in Int
    BY <1>0, <1>7, SumsAreInt
  <2>4. Returned(u) <= SumFunctionOnSet(f, S)
    BY DEF MoneyInv, ReturnsAreCovered, OrdersOf
  <2>5. SumFunctionOnSet(f, S) \in Int /\ Returned(u) \in Int
    <3>1. ReturnsTo(u) \subseteq book
      BY DEF ReturnsTo
    <3>2. Returned(u) = SumFunctionOnSet(AmountOf, ReturnsTo(u))
      BY <1>0, <1>4, <3>1, BookSum DEF Returned, ReturnsTo
    <3>3. Returned(u) \in Int
      BY <1>0, <1>4, <3>1, <3>2, BookSum
    <3> HIDE DEF f
    <3>4. SumFunctionOnSet(f, S) \in Int
      BY <2>1, <2>2, SumIsInt
    <3>5. QED BY <3>3, <3>4
  <2>6. SumFunctionOnSet([q \in Orders |-> Spare(q)], OrdersOf(u))' = SumFunctionOnSet(g, S)
    BY DEF OrdersOf
  <2>7. CASE Owner[o] = u
    <3>1. o \in S
      BY <2>7 DEF OrdersOf
    <3>2. SumFunctionOnSet(g, S) = SumFunctionOnSet(f, S) + t
      <4> HIDE DEF f, g, S
      <4>1. SumFunctionOnSet(g, S) = SumFunctionOnSet(f, S) + (g[o] - f[o])
        BY <2>1, <2>2, <3>1, SumMoved
      <4>2. QED BY <1>2, <2>3, <2>5, <4>1
    <3>3. Returned(u)' = Returned(u) \/ Returned(u)' = Returned(u) + t
      <4>1. CASE book' = book
        BY <4>1 DEF Returned
      <4>2. CASE book' = book \cup {d} /\ ~Book!Spent(RefundKey(r))
        <5>1. ReturnsTo(u)' = ReturnsTo(u) \cup {d} /\ d \notin ReturnsTo(u)
          BY <1>2, <1>3, <2>7, <4>2 DEF ReturnsTo, Book!Spent
        <5>2. ReturnsTo(u) \subseteq book /\ ReturnsTo(u) \cup {d} \subseteq book'
          BY <4>2 DEF ReturnsTo
        <5>3. /\ Returned(u) = SumFunctionOnSet(AmountOf, ReturnsTo(u))
              /\ IsFiniteSet(ReturnsTo(u))
          BY <1>0, <1>4, <5>2, BookSum DEF Returned, ReturnsTo
        <5>4. Returned(u)' = SumFunctionOnSet(AmountOf, ReturnsTo(u) \cup {d})
          <6>1. SumFunctionOnSet([e \in book' |-> e.amount], ReturnsTo(u) \cup {d})
                  = SumFunctionOnSet(AmountOf, ReturnsTo(u) \cup {d})
            BY <1>4, <5>2, BookSum
          <6>2. QED BY <5>1, <6>1 DEF Returned, ReturnsTo
        <5>5. \A e \in ReturnsTo(u) \cup {d} : AmountOf[e] \in Int
          BY <1>4, <5>2 DEF AmountOf, BookRow
        <5>6. AmountOf[d] = t
          BY <1>3, <1>4, <5>2 DEF AmountOf
        <5>7. QED BY <5>1, <5>3, <5>4, <5>5, <5>6, SumWithOneMore
      <4>3. QED BY <1>2, <4>1, <4>2
    <3>4. QED BY <1>2, <2>4, <2>5, <2>6, <3>2, <3>3
  <2>8. CASE Owner[o] # u
    <3>1. o \notin S
      BY <2>8 DEF OrdersOf
    <3>2. SumFunctionOnSet(g, S) = SumFunctionOnSet(f, S)
      <4>1. \A q \in S : f[q] \in Int /\ g[q] = f[q]
        BY <2>2, <3>1
      <4> HIDE DEF f, g, S
      <4>2. QED BY <2>1, <4>1, SumOfSame
    <3>3. ReturnsTo(u)' = ReturnsTo(u)
      BY <1>2, <1>3, <2>8 DEF ReturnsTo
    <3>4. Returned(u)' = Returned(u)
      BY <1>0, <1>4, <3>3, ReturnsStay
    <3>5. QED BY <2>4, <2>6, <3>2, <3>4
  <2>9. QED BY <2>7, <2>8
<1>9. QED BY <1>4, <1>8 DEF ReturnsAreCovered, OrdersOf

\* Where every order's money is kept, so is the sum.
LEMMA KeptIsCovered ==
    ASSUME ReturnsAreCovered, Keeps
    PROVE  ReturnsAreCovered'
<1> SUFFICES ASSUME NEW u \in Users
             PROVE  Returned(u)' <= SumFunctionOnSet([o \in Orders |-> Spare(o)],
                                        {o \in Orders : Owner[o] = u})'
  BY DEF ReturnsAreCovered
<1>1. [o \in Orders |-> Spare(o)]' = [o \in Orders |-> Spare(o)]
  BY DEF Keeps
<1>2. Returned(u)' = Returned(u)
  BY DEF Keeps
<1>3. QED BY <1>1, <1>2 DEF ReturnsAreCovered

\* An open refund's amount stays the price of its order.
LEMMA RefundCalls ==
    ASSUME NEW m, Callers \subseteq {m}, AloneInv, MoneyInv, TypeOK', [Next]_vars,
           NEW d \in Callers, InCall(d, "refund")'
    PROVE  call'[d].total = order'[call'[d].order].total
<1>0. TypeOK
  BY DEF AloneInv
<1>1. ASSUME NEW c \in Callers, NEW o \in Orders, NEW r \in RefundRequests, RefundStart(c, o, r)
      PROVE  call'[d].total = order'[call'[d].order].total
  <2>1. d = c
    OBVIOUS
  <2>2. call'[c] = [op |-> "refund", order |-> o, request |-> r, total |-> order[o].total]
    BY <1>0, <1>1 DEF RefundStart, Open, TypeOK
  <2>3. QED BY <1>1, <2>1, <2>2 DEF RefundStart
<1>2. ASSUME (\E o \in Orders : TimePasses(o)) \/ Sweep \/ UNCHANGED vars
      PROVE  call'[d].total = order'[call'[d].order].total
  <2>1. call' = call /\ \A o \in Orders : order'[o].total = order[o].total
    BY <1>0, <1>2, SweepKeeps DEF MoneyInv
  <2>2. InCall(d, "refund") /\ call[d].order \in Orders
    BY <1>0, <2>1, OpenCallShape DEF InCall
  <2>3. QED BY <2>1, <2>2 DEF MoneyInv
<1>3. ASSUME NEW c \in Callers, NEW o \in Orders, Customer(c, o)
      PROVE  ~InCall(d, "refund")'
  <2>1. d = c
    OBVIOUS
  <2>2. CASE CreatePendingOrder(c, o) \/ ApplyDiscount(c, o)
    BY <2>1, <2>2 DEF CreatePendingOrder, ApplyDiscount, Ready, InCall
  <2>3. CASE PayStart(c, o)
    BY <1>0, <2>1, <2>3 DEF PayStart, Open, InCall, TypeOK
  <2>4. ASSUME NEW p \in Proofs, SubmitStart(c, o, p)
        PROVE  ~InCall(d, "refund")'
    BY <1>0, <2>1, <2>4 DEF SubmitStart, Open, InCall, TypeOK
  <2>5. ASSUME NEW target \in {"cancelled", "expired"}, CloseStart(c, o, target)
        PROVE  ~InCall(d, "refund")'
    BY <1>0, <2>1, <2>5 DEF CloseStart, Open, InCall, TypeOK
  <2>6. QED BY <1>3, <2>2, <2>3, <2>4, <2>5 DEF Customer
<1>4. ASSUME NEW c \in Callers, NEW o \in Orders, NEW p \in Proofs,
             Approve(c, o, p) \/ Reject(c, o, p) \/ Settle(c, o, p)
      PROVE  ~InCall(d, "refund")'
  BY <1>4 DEF Approve, Reject, Settle, Ready, InCall
<1>5. ASSUME NEW c \in Callers, NEW o \in Orders, ProvisionStart(c, o)
      PROVE  ~InCall(d, "refund")'
  BY <1>0, <1>5 DEF ProvisionStart, Open, InCall, TypeOK
<1>6. ASSUME NEW c \in Callers, Finish(c)
      PROVE  ~InCall(d, "refund")'
  <2>1. d = c
    OBVIOUS
  <2>2. CASE SubmitCheck(c)
    <3>1. call[c] \in OpenCall /\ call'[c] = [call[c] EXCEPT !.op = "submit"]
      BY <1>0, <2>2 DEF SubmitCheck, Open, InCall, TypeOK
    <3>2. QED BY <2>1, <2>2, <3>1 DEF OpenCall, SubmitCheck, InCall
  <2>3. CASE Return(c)
    BY <1>0, <2>1, <2>3 DEF Return, InCall, TypeOK
  <2>4. SubmitCheck(c) \/ Return(c)
    BY <1>6 DEF Finish, PayCommit, PayLapse, PayRefuse, SubmitCheck, SubmitRefuse,
         SubmitCommit, SubmitConflict, RefundCommit, RefundFail, CloseCommit,
         ProvisionCommit, ProvisionFail
  <2>5. QED BY <2>2, <2>3, <2>4
<1>7. QED BY <1>1, <1>2, <1>3, <1>4, <1>5, <1>6 DEF Next, Staff

LEMMA MoneyStep ==
    ASSUME NEW m, Callers \subseteq {m}, AloneInv, MoneyInv, [Next]_vars
    PROVE  MoneyInv'
<1>1. TypeOK /\ TypeOK'
  BY TypeStep DEF AloneInv
<1>2. IsFiniteSet(book') /\ ReturnsAreCovered'
  <2>1. CASE \E c \in Callers : RefundCommit(c)
    BY <1>1, <2>1, RefundMoves
  <2>2. CASE ~\E c \in Callers : RefundCommit(c)
    <3>1. Keeps
      BY <1>1, <2>2, CustomerKeeps, StaffKeeps, FinishKeeps, SweepKeeps DEF Next, AloneInv, MoneyInv
    <3>2. QED BY <3>1, KeptIsCovered DEF MoneyInv, Keeps
  <2>3. QED BY <2>1, <2>2
<1>3. QED BY <1>1, <1>2, RefundCalls DEF MoneyInv

\* Then, counted in money: a customer is given back no more than came in for his
\* orders beyond what the paid ones stand on, whatever is discounted, paid again or
\* asked for twice (payment_refund_service.py: the amount is read in one transaction
\* and credited in the next).
THEOREM AmountsCovered ==
    ASSUME NEW m, Callers \subseteq {m}
    PROVE  Spec => []ReturnsAreCovered
<1>1. Init => MoneyInv
  <2> SUFFICES ASSUME Init
               PROVE  MoneyInv
    OBVIOUS
  <2>1. IsFiniteSet(book)
    BY FS_EmptySet DEF Init
  <2>2. \A c \in Callers : ~InCall(c, "refund")
    BY DEF Init, InCall
  <2>3. ASSUME NEW o \in Orders
        PROVE  Spare(o) = 0
    <3>1. Approved(o) = {} /\ {e \in book : e.key = PayKey(o)} = {} /\ Held(o) = 0
      BY DEF Init, Approved, Held
    <3>2. ApprovedSum(o) = 0
      BY <3>1, SumOfNone DEF ApprovedSum
    <3>3. DebitSum(o) = 0
      BY <3>1, SumOfNone DEF DebitSum, DebitsOf
    <3>4. QED BY <3>1, <3>2, <3>3, ReceivedIs DEF Spare
  <2>4. ASSUME NEW u \in Users
        PROVE  Returned(u) <= SumFunctionOnSet([o \in Orders |-> Spare(o)],
                                               {o \in Orders : Owner[o] = u})
    <3> DEFINE S == {o \in Orders : Owner[o] = u}
               f == [o \in Orders |-> Spare(o)]
    <3>1. Returned(u) = 0
      <4>1. {e \in book : e.user = u /\ \E r \in RefundRequests : e.key = RefundKey(r)} = {}
        BY DEF Init
      <4>2. QED BY <4>1, SumOfNone DEF Returned
    <3>2. IsFiniteSet(S) /\ \A o \in S : f[o] = 0
      BY <2>3, FS_Subset, OrdersAssumption
    <3> HIDE DEF S, f
    <3>3. SumFunctionOnSet(f, S) = 0
      BY <3>2, SumOfZeros
    <3>4. QED BY <3>1, <3>3 DEF S, f
  <2>5. QED BY <2>1, <2>2, <2>4 DEF MoneyInv, ReturnsAreCovered
<1>2. AloneInv /\ MoneyInv /\ [Next]_vars => MoneyInv'
  BY MoneyStep
<1>3. MoneyInv => ReturnsAreCovered
  BY DEF MoneyInv
<1>4. QED BY <1>1, <1>2, <1>3, Alone, PTL DEF Spec
=============================================================================
