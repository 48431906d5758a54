------------------------------ MODULE MoneyBook ------------------------------
(***************************************************************************)
(* What wallet accounting promises its callers, without rows, locks or     *)
(* transactions: a balance per user and a book of postings.  A posting     *)
(* names an idempotency key, moves one balance by its signed amount in the *)
(* same step that records it, and never takes a balance below zero.  A key *)
(* that is in the book is spent for good.                                  *)
(*                                                                         *)
(* WalletLedger (wallet_accounting_service.py) is shown to implement this  *)
(* specification.  OrderPayments moves money only through Post, so it      *)
(* relies on the promise and not on how it is kept.                        *)
(***************************************************************************)
EXTENDS Integers

CONSTANTS
    Users,      \* the owners of wallets
    Keys,       \* the idempotency keys
    Moves       \* the signed amounts a posting may carry

VARIABLES
    balance,    \* balance[u]: the money of user u
    book        \* the set of postings made so far

Spent(k) == \E e \in book : e.key = k

\* The posting that one key stands for: both variables move together.
Post(k, u, d) ==
    /\ ~Spent(k)
    /\ balance[u] + d >= 0
    /\ balance' = [balance EXCEPT ![u] = @ + d]
    /\ book' = book \cup {[key |-> k, user |-> u, amount |-> d]}

Init ==
    /\ balance \in [Users -> Nat]     \* opening balances
    /\ book = {}

Next == \E k \in Keys, u \in Users, d \in Moves : Post(k, u, d)

Spec == Init /\ [][Next]_<<balance, book>>
=============================================================================
