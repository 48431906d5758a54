---------------------------- MODULE WalletLedger ----------------------------
(***************************************************************************)
(* Wallet accounting: WalletAccountingService.credit and .debit, with the  *)
(* rows of `wallets` and `transactions` they write, run by callers whose   *)
(* database transactions overlap.                                          *)
(*                                                                         *)
(* One call is up to three steps, cut where another transaction can come   *)
(* between: the look-up of the idempotency key (no lock is held), the read *)
(* of the wallet row FOR UPDATE, and the writes with the commit.  When the *)
(* wallet row exists its lock covers the second and the third, so they are *)
(* one step here; when a credit finds no row there is nothing to lock and  *)
(* the insert is a step of its own.                                        *)
(***************************************************************************)
EXTENDS Integers, Functions

CONSTANTS
    Users, Callers, Keys, Sources,
    Currencies,
    NoCurrency,     \* stands in `currency` for "this user has no wallet row"
    Amounts,        \* the positive amounts a request may carry
    Requests,       \* the requests callers may send
    Idle            \* the state of a caller with no open transaction

Request == [direction : {"credit", "debit"}, user : Users, amount : Amounts,
            currency : Currencies, key : Keys, source : Sources]

ASSUME RequestsAssumption ==
    /\ Amounts \subseteq {n \in Nat : n > 0}
    /\ Requests \subseteq Request

ASSUME MarkersAssumption ==
    /\ NoCurrency \notin Currencies
    /\ Idle \notin [stage : {"checked", "creating"}, request : Request]

VARIABLES
    balance,    \* wallets.balance
    currency,   \* wallets.currency, NoCurrency before the row exists
    frozen,     \* wallets.is_frozen
    ledger,     \* the rows of transactions
    call        \* the open transaction of each caller

wallets == <<balance, currency, frozen>>
vars == <<balance, currency, frozen, ledger, call>>

Row == [key : Keys, source : Sources, user : Users, currency : Currencies,
        amount : Int]

Signed(r) == IF r.direction = "credit" THEN r.amount ELSE -r.amount

\* Faulty: the amount loses its sign.
RowUnsigned(r) == [key |-> r.key, source |-> r.source, user |-> r.user,
                   currency |-> r.currency, amount |-> r.amount]

RowFor(r) == [key |-> r.key, source |-> r.source, user |-> r.user,
              currency |-> r.currency, amount |-> Signed(r)]

HasWallet(u) == currency[u] # NoCurrency

\* Faulty: only the source is unique.
UniqueSource(r) == \A row \in ledger : row.source # r.source

\* The unique indexes on idempotency_key and (provider, provider_reference).
UniqueRow(r) == \A row \in ledger : row.key # r.key /\ row.source # r.source

\* Faulty: relies on the balance that was read earlier.
AcceptsAnyBalance(r) == currency[r.user] = r.currency /\ ~frozen[r.user]

\* The checks made under the wallet's row lock, and the WHERE clause of the
\* conditional UPDATE.
Accepts(r) ==
    /\ currency[r.user] = r.currency
    /\ ~frozen[r.user]
    /\ r.direction = "debit" => balance[r.user] >= r.amount

InStage(c, s) == call[c] # Idle /\ call[c].stage = s

Return(c) == call' = [call EXCEPT ![c] = Idle]

-----------------------------------------------------------------------------
Init ==
    /\ balance = [u \in Users |-> 0]
    /\ currency = [u \in Users |-> NoCurrency]
    /\ frozen = [u \in Users |-> FALSE]
    /\ ledger = {}
    /\ call = [c \in Callers |-> Idle]

\* The key is new, so the call goes on.  (A key that is already in the ledger
\* makes it return the earlier receipt, or idempotency_conflict for another
\* user's key: it writes nothing.)
CheckKey(c, r) ==
    /\ call[c] = Idle
    /\ \A row \in ledger : row.key # r.key
    /\ call' = [call EXCEPT ![c] = [stage |-> "checked", request |-> r]]
    /\ UNCHANGED <<wallets, ledger>>

\* wallet_not_found, currency_mismatch, wallet_frozen, insufficient_balance.
Refuse(c) ==
    /\ InStage(c, "checked")
    /\ LET r == call[c].request IN
         IF HasWallet(r.user) THEN ~Accepts(r) ELSE r.direction = "debit"
    /\ Return(c)
    /\ UNCHANGED <<wallets, ledger>>

\* The balance and its ledger row, in one transaction.
Apply(c) ==
    /\ InStage(c, "checked")
    /\ LET r == call[c].request IN
         /\ HasWallet(r.user)
         /\ Accepts(r)
         /\ UniqueRow(r)
         /\ balance' = [balance EXCEPT ![r.user] = @ + Signed(r)]
         /\ ledger' = ledger \cup {RowFor(r)}
    /\ Return(c)
    /\ UNCHANGED <<currency, frozen>>

\* A credit that found no wallet row, and so holds no lock.
MissWallet(c) ==
    /\ InStage(c, "checked")
    /\ ~HasWallet(call[c].request.user)
    /\ call[c].request.direction = "credit"
    /\ call' = [call EXCEPT ![c].stage = "creating"]
    /\ UNCHANGED <<wallets, ledger>>

\* It inserts the wallet, adds the amount and writes the ledger row.
CreateAndApply(c) ==
    /\ InStage(c, "creating")
    /\ LET r == call[c].request IN
         /\ ~HasWallet(r.user)
         /\ UniqueRow(r)
         /\ currency' = [currency EXCEPT ![r.user] = r.currency]
         /\ balance' = [balance EXCEPT ![r.user] = r.amount]
         /\ ledger' = ledger \cup {RowFor(r)}
    /\ Return(c)
    /\ UNCHANGED frozen

\* IntegrityError: the key, the source or the wallet row was inserted by
\* another transaction since it was looked up.  Everything is rolled back.
Conflict(c) ==
    /\ call[c] # Idle
    /\ LET r == call[c].request IN
         \/ InStage(c, "checked") /\ HasWallet(r.user) /\ Accepts(r) /\ ~UniqueRow(r)
         \/ InStage(c, "creating") /\ (HasWallet(r.user) \/ ~UniqueRow(r))
    /\ Return(c)
    /\ UNCHANGED <<wallets, ledger>>

\* WalletService.get_or_create_wallet: an empty wallet when there is none.
OpenWallet(u, cur) ==
    /\ ~HasWallet(u)
    /\ currency' = [currency EXCEPT ![u] = cur]
    /\ UNCHANGED <<balance, frozen, ledger, call>>

\* WalletRepository.freeze and .unfreeze.
SetFrozen(u) ==
    /\ HasWallet(u)
    /\ frozen' = [frozen EXCEPT ![u] = ~@]
    /\ UNCHANGED <<balance, currency, ledger, call>>

Next ==
    \/ \E c \in Callers :
         \/ \E r \in Requests : CheckKey(c, r)
         \/ Refuse(c)
         \/ Apply(c)
         \/ MissWallet(c)
         \/ CreateAndApply(c)
         \/ Conflict(c)
    \/ \E u \in Users :
         \/ \E cur \in Currencies : OpenWallet(u, cur)
         \/ SetFrozen(u)

Spec == Init /\ [][Next]_vars

-----------------------------------------------------------------------------
\* The values the variables take.
TypeOK ==
    /\ balance \in [Users -> Int]
    /\ currency \in [Users -> Currencies \cup {NoCurrency}]
    /\ frozen \in [Users -> BOOLEAN]
    /\ ledger \subseteq Row
    /\ call \in [Callers -> [stage : {"checked", "creating"}, request : Requests]
                              \cup {Idle}]

\* No interleaving of debits that were each checked against the balance takes
\* a wallet below zero (the conditional UPDATE, not the earlier read, decides).
NeverOverdrawn == \A u \in Users : balance[u] >= 0

\* Every ledger row is in the currency of the wallet it belongs to, also when
\* two credits in different currencies race to create that wallet.
LedgerInWalletCurrency == \A row \in ledger : currency[row.user] = row.currency

\* wallets.balance is always the sum of the wallet's ledger rows
\* (database/models/transaction.py:5): no lost update, no row without its
\* balance change, no balance change without its row.
RowsOf(u) == {row \in ledger : row.user = u}
BalanceIsLedgerSum ==
    \A u \in Users : balance[u] = SumFunction([row \in RowsOf(u) |-> row.amount])

\* A frozen wallet keeps its balance, whatever calls were already under way
\* when it was frozen.
FrozenBalanceHolds ==
    [][\A u \in Users : frozen[u] => balance'[u] = balance[u]]_vars

\* The ledger as MoneyBook sees it.
Entry(row) == [key |-> row.key, user |-> row.user, amount |-> row.amount]

Book == INSTANCE MoneyBook WITH
            Moves <- {Signed(r) : r \in Requests},
            book <- {Entry(row) : row \in ledger}

\* Wallet accounting implements the money book: every change of a balance is
\* one new posting under a key that was never used before, and of its amount.
PostsLikeTheBook == Book!Spec
=============================================================================
