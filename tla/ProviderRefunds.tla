--------------------------- MODULE ProviderRefunds ---------------------------
(***************************************************************************)
(* Refunds of paid orders.  A call checks the order and lets go of its     *)
(* lock, writes a durable intent, has the payment provider send the money  *)
(* back and locks the order again to record it.  A refund without a        *)
(* provider credits the wallet in the transaction that records it.  A call *)
(* may die between any two of these steps, and the intent may be run again.*)
(***************************************************************************)
CONSTANTS
    Orders,
    Ways,           \* sets of orders that may have been paid without a provider
    Requests,       \* refund request ids; nothing ties an id to one order
    Refunders,      \* calls of refund that may be under way at once
    None, Idle

VARIABLES
    order,          \* status and payment_status of an order, or None
    intents,        \* <<request, order>> of the reconciliation jobs
    sent,           \* <<request, order>> the provider has executed
    credited,       \* <<request, order>> the wallet was credited for
    record,         \* metadata_json["refund"], the request of the record
    manual,         \* orders that were not paid through a provider; it is settled
                    \* before any refund
    call            \* what each call of refund is doing

refundVars == <<intents, sent, credited, record, manual, call>>

Paid(o) == order[o] # None /\ order[o] = [status |-> "paid", payment |-> "paid"]

Init ==
    /\ intents = {} /\ sent = {} /\ credited = {}
    /\ record = [o \in Orders |-> None]
    /\ manual \in Ways
    /\ call = [k \in Refunders |-> [stage |-> Idle]]

At(k, stage) == call[k].stage = stage
Request(k) == call[k].request
Target(k) == call[k].order
Pair(k) == <<Request(k), Target(k)>>
Goes(k, stage) == call' = [call EXCEPT ![k].stage = stage]
Ends(k) == call' = [call EXCEPT ![k] = [stage |-> Idle]]

\* The job's logical_key, the provider's idempotency key and the ledger's are made of
\* the request alone: its first use is kept, whatever order a later one is about.
UsedFor(pairs, r) == {o \in Orders : <<r, o>> \in pairs}
Keyed(pairs, k) == IF UsedFor(pairs, Request(k)) = {} THEN pairs \cup {Pair(k)} ELSE pairs

\* refund, also as reconcile_job, up to the end of the first transaction.  A
\* call on an order that is not paid ends there.
Ask(k, r, o) ==
    /\ At(k, Idle)
    /\ Paid(o)
    /\ call' = [call EXCEPT ![k] = [stage |-> "checked", request |-> r, order |-> o]]
    /\ UNCHANGED <<order, intents, sent, credited, record>>

Enqueue(k) ==
    /\ At(k, "checked")
    /\ intents' = Keyed(intents, k)
    /\ Goes(k, IF Target(k) \in manual THEN "crediting" ELSE "sending")
    /\ UNCHANGED <<order, sent, credited, record>>

Recorded(k) ==
    /\ order' = [order EXCEPT ![Target(k)] = [status |-> "refunded", payment |-> "refunded"]]
    /\ record' = [record EXCEPT ![Target(k)] = Request(k)]

StillPaid(k) == Paid(Target(k))

\* _commit_manual_refund.  For a key it has, the ledger answers with the old credit,
\* the orders being one customer's, and the order is refunded all the same.
Credit(k) ==
    /\ At(k, "crediting")
    /\ IF StillPaid(k)
       THEN Recorded(k) /\ credited' = Keyed(credited, k)
       ELSE UNCHANGED <<order, record, credited>>
    /\ Ends(k)
    /\ UNCHANGED <<intents, sent>>

\* The provider confirms a refund that fits: for a key it has, it answers with the
\* old refund, which names the payment of its own order ...
Send(k) ==
    /\ At(k, "sending")
    /\ UsedFor(sent, Request(k)) \subseteq {Target(k)}
    /\ sent' = sent \cup {Pair(k)}
    /\ Goes(k, "sent")
    /\ UNCHANGED <<order, intents, credited, record>>

\* Faulty: what the provider answers is taken for a confirmation.
SendTrusted(k) ==
    /\ At(k, "sending")
    /\ sent' \in {sent, Keyed(sent, k)}
    /\ Goes(k, "sent")
    /\ UNCHANGED <<order, intents, credited, record>>

\* ... or does not, though it may have sent the money.
SendFails(k) ==
    /\ At(k, "sending")
    /\ sent' \in {sent, Keyed(sent, k)}
    /\ Ends(k)
    /\ UNCHANGED <<order, intents, credited, record>>

\* The last transaction of refund.
Commit(k) ==
    /\ At(k, "sent")
    /\ IF StillPaid(k) THEN Recorded(k) ELSE UNCHANGED <<order, record>>
    /\ Ends(k)
    /\ UNCHANGED <<intents, sent, credited>>

Drop(k) ==
    /\ ~At(k, Idle)
    /\ Ends(k)
    /\ UNCHANGED <<order, intents, sent, credited, record>>

Next ==
    \E k \in Refunders :
        /\ \/ \E r \in Requests, o \in Orders : Ask(k, r, o)
           \/ Enqueue(k) \/ Credit(k) \/ Send(k) \/ SendFails(k) \/ Commit(k) \/ Drop(k)
        /\ UNCHANGED manual

-----------------------------------------------------------------------------
TypeOK ==
    /\ \A pairs \in {intents, sent, credited} : pairs \subseteq Requests \X Orders
    /\ record \in [Orders -> Requests \cup {None}]
    /\ manual \subseteq Orders
    /\ call \in [Refunders -> [stage : {Idle}]
                   \cup [stage : {"checked", "crediting", "sending", "sent"},
                         request : Requests, order : Orders]]

\* The record of a refund names a request whose intent outlives a crash and whose
\* money went back: by the provider, for this very order; or to the wallet, for this
\* order or, when the request id was used again, for the manual order that used it
\* first, however calls and retries overlap and wherever they die.
RecordIsBacked ==
    \A o \in Orders : record[o] # None =>
        /\ UsedFor(intents, record[o]) # {}
        /\ IF o \in manual
           THEN \E p \in manual \cap UsedFor(credited, record[o]) : record[p] = record[o]
           ELSE o \in UsedFor(sent, record[o])
=============================================================================
