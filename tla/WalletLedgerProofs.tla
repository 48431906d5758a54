------------------------- MODULE WalletLedgerProofs -------------------------
(***************************************************************************)
(* Proofs about WalletLedger, for every set of users, callers, keys and    *)
(* requests: its type invariant, its safety invariants, and that it        *)
(* implements MoneyBook.                                                   *)
(***************************************************************************)
EXTENDS WalletLedger, Sums

\* A user without a wallet row owns nothing and is not frozen: what an insert
\* starts from.
EmptyBeforeCreated ==
    \A u \in Users : ~HasWallet(u) => balance[u] = 0 /\ ~frozen[u]

\* The conjuncts that are about money.
Sound == NeverOverdrawn /\ EmptyBeforeCreated /\ LedgerInWalletCurrency

\* Only a credit goes on when it finds no wallet.
OnlyCreditsCreate ==
    \A c \in Callers :
        InStage(c, "creating") => call[c].request.direction = "credit"

\* The inductive invariant: the three invariants need each other, and each
\* needs EmptyBeforeCreated at the step that creates a wallet.
IInv == TypeOK /\ OnlyCreditsCreate /\ Sound

-----------------------------------------------------------------------------
\* A request moves money by a positive amount, in a direction and a currency
\* that exist (what _validate establishes before a call does anything).
LEMMA RequestShape ==
    ASSUME NEW r \in Requests
    PROVE  /\ r \in Request
           /\ r.user \in Users
           /\ r.amount \in Nat /\ r.amount > 0
           /\ r.currency \in Currencies
           /\ r.direction \in {"credit", "debit"}
           /\ Signed(r) \in Int
           /\ RowFor(r) \in Row
<1>1. r \in Request
  BY RequestsAssumption
<1>2. /\ r.user \in Users /\ r.amount \in Amounts /\ r.key \in Keys
      /\ r.currency \in Currencies /\ r.source \in Sources
      /\ r.direction \in {"credit", "debit"}
  BY <1>1 DEF Request
<1>3. r.amount \in Nat /\ r.amount > 0
  BY <1>2, RequestsAssumption
<1>4. Signed(r) \in Int
  BY <1>3 DEF Signed
<1>5. RowFor(r) \in Row
  BY <1>2, <1>4 DEF RowFor, Row
<1>6. QED BY <1>1, <1>2, <1>3, <1>4, <1>5

\* An open call carries a request.
LEMMA OpenCall ==
    ASSUME TypeOK, NEW c \in Callers, call[c] # Idle
    PROVE  /\ call[c].request \in Requests
           /\ call[c].stage \in {"checked", "creating"}
  BY DEF TypeOK

\* The type invariant is inductive on its own.
LEMMA TypeStep == TypeOK /\ [Next]_vars => TypeOK'
<1> SUFFICES ASSUME TypeOK, [Next]_vars
             PROVE  TypeOK'
    OBVIOUS
<1> USE DEF TypeOK
<1>1. ASSUME NEW c \in Callers, NEW r \in Requests, CheckKey(c, r)
      PROVE  TypeOK'
  BY <1>1 DEF CheckKey, wallets
<1>2. ASSUME NEW c \in Callers, Refuse(c)
      PROVE  TypeOK'
  BY <1>2 DEF Refuse, Return, wallets
<1>3. ASSUME NEW c \in Callers, Apply(c)
      PROVE  TypeOK'
  <2> DEFINE r == call[c].request
  <2>1. call[c] # Idle
    BY <1>3 DEF Apply, InStage
  <2>2. r \in Requests
    BY <2>1, OpenCall
  <2>3. Signed(r) \in Int /\ RowFor(r) \in Row /\ r.user \in Users
    BY <2>2, RequestShape
  <2>4. balance' \in [Users -> Int] /\ ledger' \subseteq Row
    BY <1>3, <2>3 DEF Apply
  <2>5. QED BY <1>3, <2>4 DEF Apply, Return
<1>4. ASSUME NEW c \in Callers, MissWallet(c)
      PROVE  TypeOK'
  <2>1. call[c] # Idle /\ call'[c] = [call[c] EXCEPT !.stage = "creating"]
    BY <1>4 DEF MissWallet, InStage
  <2>2. call'[c] \in [stage : {"checked", "creating"}, request : Requests]
    BY <2>1
  <2>3. QED BY <1>4, <2>2 DEF MissWallet, wallets
<1>5. ASSUME NEW c \in Callers, CreateAndApply(c)
      PROVE  TypeOK'
  <2> DEFINE r == call[c].request
  <2>1. call[c] # Idle
    BY <1>5 DEF CreateAndApply, InStage
  <2>2. r \in Requests
    BY <2>1, OpenCall
  <2>3. /\ r.amount \in Nat /\ r.currency \in Currencies
        /\ RowFor(r) \in Row /\ r.user \in Users
    BY <2>2, RequestShape
  <2>4. /\ balance' \in [Users -> Int]
        /\ currency' \in [Users -> Currencies \cup {NoCurrency}]
        /\ ledger' \subseteq Row
    BY <1>5, <2>3 DEF CreateAndApply
  <2>5. QED BY <1>5, <2>4 DEF CreateAndApply, Return
<1>6. ASSUME NEW c \in Callers, Conflict(c)
      PROVE  TypeOK'
  BY <1>6 DEF Conflict, Return, wallets
<1>7. ASSUME NEW u \in Users, NEW cur \in Currencies, OpenWallet(u, cur)
      PROVE  TypeOK'
  BY <1>7 DEF OpenWallet
<1>8. ASSUME NEW u \in Users, SetFrozen(u)
      PROVE  TypeOK'
  BY <1>8 DEF SetFrozen
<1>9. ASSUME UNCHANGED vars
      PROVE  TypeOK'
  BY <1>9 DEF vars
<1>10. QED
  BY <1>1, <1>2, <1>3, <1>4, <1>5, <1>6, <1>7, <1>8, <1>9 DEF Next

\* Type correctness of wallet accounting (credit, debit and the two wallet
\* repository writes), for every value of the constants.
THEOREM TypeCorrect == Spec => []TypeOK
<1>1. Init => TypeOK
  BY DEF Init, TypeOK
<1>2. QED BY <1>1, TypeStep, PTL DEF Spec

-----------------------------------------------------------------------------
\* What an accepted posting leaves behind: Accepts and the type of a request
\* are all that a step adds to the other conjuncts.
LEMMA ApplyStep ==
    ASSUME IInv, NEW c \in Callers, Apply(c)
    PROVE  Sound'
<1> DEFINE r == call[c].request
<1>1. call[c] # Idle
  BY DEF Apply, InStage
<1>2. r \in Requests
  BY <1>1, OpenCall DEF IInv
<1>3. /\ r.user \in Users /\ r.amount \in Nat
      /\ r.direction \in {"credit", "debit"}
  BY <1>2, RequestShape
<1>4. balance[r.user] \in Int /\ balance[r.user] >= 0
  BY <1>3 DEF IInv, Sound, TypeOK, NeverOverdrawn
<1>5. balance[r.user] + Signed(r) >= 0
  BY <1>3, <1>4 DEF Apply, Accepts, Signed
<1>6. NeverOverdrawn'
  BY <1>3, <1>5 DEF Apply, IInv, Sound, TypeOK, NeverOverdrawn
<1>7. EmptyBeforeCreated'
  BY <1>3 DEF Apply, IInv, Sound, TypeOK, EmptyBeforeCreated, HasWallet
<1>8. LedgerInWalletCurrency'
  BY DEF Apply, Accepts, RowFor, IInv, Sound, LedgerInWalletCurrency
<1>9. QED BY <1>6, <1>7, <1>8 DEF Sound

\* The step that creates a wallet: no row can belong to a user without one,
\* because its currency would be NoCurrency.
LEMMA CreateStep ==
    ASSUME IInv, NEW c \in Callers, CreateAndApply(c)
    PROVE  Sound'
<1> DEFINE r == call[c].request
<1>1. call[c] # Idle
  BY DEF CreateAndApply, InStage
<1>2. r \in Requests
  BY <1>1, OpenCall DEF IInv
<1>3. r.user \in Users /\ r.amount \in Nat /\ r.currency \in Currencies
  BY <1>2, RequestShape
<1>4. /\ balance' = [balance EXCEPT ![r.user] = r.amount]
      /\ currency' = [currency EXCEPT ![r.user] = r.currency]
      /\ ledger' = ledger \cup {RowFor(r)}
      /\ currency[r.user] = NoCurrency
      /\ frozen' = frozen
  BY DEF CreateAndApply, HasWallet
<1>5. NeverOverdrawn'
  BY <1>3, <1>4 DEF IInv, Sound, TypeOK, NeverOverdrawn
<1>6. EmptyBeforeCreated'
  BY <1>3, <1>4, MarkersAssumption
     DEF IInv, Sound, TypeOK, EmptyBeforeCreated, HasWallet
<1>7. LedgerInWalletCurrency'
  <2> SUFFICES ASSUME NEW row \in ledger'
               PROVE  currency'[row.user] = row.currency
      BY DEF LedgerInWalletCurrency
  <2>1. CASE row = RowFor(r)
    BY <2>1, <1>3, <1>4 DEF RowFor, IInv, Sound, TypeOK
  <2>2. CASE row \in ledger
    <3>1. /\ row.user \in Users /\ row.currency \in Currencies
          /\ currency[row.user] = row.currency
      BY <2>2 DEF IInv, Sound, TypeOK, Row, LedgerInWalletCurrency
    <3>2. row.user # r.user
      BY <3>1, <1>4, MarkersAssumption
    <3>3. QED BY <3>1, <3>2, <1>4 DEF IInv, Sound, TypeOK
  <2>3. QED BY <2>1, <2>2, <1>4
<1>8. QED BY <1>5, <1>6, <1>7 DEF Sound

\* A wallet opened by a look-up is empty and has no rows.
LEMMA OpenStep ==
    ASSUME IInv, NEW u \in Users, NEW cur \in Currencies, OpenWallet(u, cur)
    PROVE  Sound'
<1>1. NeverOverdrawn'
  BY DEF OpenWallet, IInv, Sound, NeverOverdrawn
<1>2. EmptyBeforeCreated'
  BY MarkersAssumption DEF OpenWallet, IInv, Sound, TypeOK, EmptyBeforeCreated, HasWallet
<1>3. LedgerInWalletCurrency'
  <2> SUFFICES ASSUME NEW row \in ledger
               PROVE  currency'[row.user] = row.currency
      BY DEF LedgerInWalletCurrency, OpenWallet
  <2>1. /\ row.user \in Users /\ row.currency \in Currencies
        /\ currency[row.user] = row.currency
    BY DEF IInv, Sound, TypeOK, Row, LedgerInWalletCurrency
  <2>2. row.user # u
    BY <2>1, MarkersAssumption DEF OpenWallet, HasWallet
  <2>3. QED BY <2>1, <2>2 DEF OpenWallet, IInv, Sound, TypeOK
<1>4. QED BY <1>1, <1>2, <1>3 DEF Sound

LEMMA CreditStep == TypeOK /\ OnlyCreditsCreate /\ [Next]_vars => OnlyCreditsCreate'
<1> SUFFICES ASSUME TypeOK, OnlyCreditsCreate, [Next]_vars,
                    NEW d \in Callers, InStage(d, "creating")'
             PROVE  (call[d].request.direction = "credit")'
    BY DEF OnlyCreditsCreate
<1>1. CASE call'[d] = call[d]
  BY <1>1 DEF OnlyCreditsCreate, InStage
<1>2. CASE call'[d] # call[d]
  <2>1. PICK c \in Callers : \/ \E r \in Requests : CheckKey(c, r)
                             \/ Refuse(c) \/ Apply(c) \/ MissWallet(c)
                             \/ CreateAndApply(c) \/ Conflict(c)
    BY <1>2 DEF Next, OpenWallet, SetFrozen, vars
  <2>2. CASE \E r \in Requests : CheckKey(c, r)
    BY <2>2, <1>2 DEF CheckKey, InStage, TypeOK
  <2>3. CASE MissWallet(c)
    BY <2>3, <1>2 DEF MissWallet, InStage, TypeOK
  <2>4. CASE Refuse(c) \/ Apply(c) \/ CreateAndApply(c) \/ Conflict(c)
    BY <2>4, <1>2 DEF Refuse, Apply, CreateAndApply, Conflict, Return, InStage, TypeOK
  <2>5. QED BY <2>1, <2>2, <2>3, <2>4
<1>3. QED BY <1>1, <1>2

LEMMA SafetyStep == IInv /\ [Next]_vars => IInv'
<1> SUFFICES ASSUME IInv, [Next]_vars
             PROVE  IInv'
    OBVIOUS
<1>1. TypeOK'
  BY TypeStep DEF IInv
<1>2. ASSUME UNCHANGED <<wallets, ledger>>
      PROVE  Sound'
  BY <1>2 DEF wallets, IInv, Sound, NeverOverdrawn, EmptyBeforeCreated,
              HasWallet, LedgerInWalletCurrency
<1>3. ASSUME NEW c \in Callers, NEW r \in Requests, CheckKey(c, r)
      PROVE  Sound'
  BY <1>2, <1>3 DEF CheckKey
<1>4. ASSUME NEW c \in Callers, Refuse(c) \/ MissWallet(c) \/ Conflict(c)
      PROVE  Sound'
  BY <1>2, <1>4 DEF Refuse, MissWallet, Conflict
<1>5. ASSUME NEW c \in Callers, Apply(c) \/ CreateAndApply(c)
      PROVE  Sound'
  BY <1>5, ApplyStep, CreateStep
<1>6. ASSUME NEW u \in Users, NEW cur \in Currencies, OpenWallet(u, cur)
      PROVE  Sound'
  BY <1>6, OpenStep
<1>7. ASSUME NEW u \in Users, SetFrozen(u)
      PROVE  Sound'
  BY <1>7 DEF SetFrozen, IInv, Sound, TypeOK, NeverOverdrawn,
              EmptyBeforeCreated, HasWallet, LedgerInWalletCurrency
<1>8. ASSUME UNCHANGED vars
      PROVE  Sound'
  BY <1>2, <1>8 DEF vars, wallets
<1>9. Sound'
  BY <1>3, <1>4, <1>5, <1>6, <1>7, <1>8 DEF Next
<1>10. QED BY <1>1, <1>9, CreditStep DEF IInv

LEMMA Inductive == Spec => []IInv
<1>1. Init => IInv
  BY DEF Init, IInv, Sound, TypeOK, OnlyCreditsCreate, InStage, NeverOverdrawn,
     EmptyBeforeCreated, HasWallet,
         LedgerInWalletCurrency
<1>2. QED BY <1>1, SafetyStep, PTL DEF Spec

\* Concurrent debits never take a wallet below zero.
THEOREM Overdraft == Spec => []NeverOverdrawn
<1>1. IInv => NeverOverdrawn
  BY DEF IInv, Sound
<1>2. QED BY <1>1, Inductive, PTL

\* Racing credits never book an amount in a currency the wallet is not in.
THEOREM OneCurrency == Spec => []LedgerInWalletCurrency
<1>1. IInv => LedgerInWalletCurrency
  BY DEF IInv, Sound
<1>2. QED BY <1>1, Inductive, PTL

-----------------------------------------------------------------------------
\* Freezing a wallet stops the calls that were admitted before the freeze:
\* the frozen flag is read again under the row lock.
THEOREM Frozen == Spec => FrozenBalanceHolds
<1> DEFINE Holds == \A u \in Users : frozen[u] => balance'[u] = balance[u]
<1>1. ASSUME IInv, Next
      PROVE  Holds
  <2>1. ASSUME NEW c \in Callers, Apply(c)
        PROVE  Holds
    <3>1. ~frozen[call[c].request.user]
      BY <2>1 DEF Apply, Accepts
    <3>2. balance' = [balance EXCEPT ![call[c].request.user] =
                                        @ + Signed(call[c].request)]
      BY <2>1 DEF Apply
    <3>3. QED BY <3>1, <3>2, <1>1 DEF IInv, Sound, TypeOK
  <2>2. ASSUME NEW c \in Callers, CreateAndApply(c)
        PROVE  Holds
    <3>1. ~frozen[call[c].request.user] \/ call[c].request.user \notin Users
      BY <2>2, <1>1 DEF CreateAndApply, IInv, Sound, EmptyBeforeCreated
    <3>2. balance' = [balance EXCEPT ![call[c].request.user] =
                                        call[c].request.amount]
      BY <2>2 DEF CreateAndApply
    <3>3. QED BY <3>1, <3>2, <1>1 DEF IInv, TypeOK
  <2>3. QED BY <1>1, <2>1, <2>2 DEF Next, CheckKey, Refuse, MissWallet, Conflict,
                                    OpenWallet, SetFrozen, wallets
<1>2. IInv /\ [Next]_vars => [Holds]_vars
  BY <1>1
<1>3. QED BY <1>2, Inductive, PTL DEF Spec, FrozenBalanceHolds

-----------------------------------------------------------------------------
\* What a call that posts writes: a new row, and its amount on the balance.
LEMMA Posting ==
    ASSUME IInv, NEW c \in Callers, Apply(c) \/ CreateAndApply(c)
    PROVE  LET r == call[c].request
           IN  /\ r \in Requests
               /\ ledger' = ledger \cup {RowFor(r)} /\ UniqueRow(r)
               /\ balance[r.user] + Signed(r) >= 0
               /\ balance' = [balance EXCEPT ![r.user] = @ + Signed(r)]
<1> DEFINE r == call[c].request
<1>1. call[c] # Idle
  BY DEF Apply, CreateAndApply, InStage
<1>2. r \in Requests
  BY <1>1, OpenCall DEF IInv
<1>3. /\ r.user \in Users /\ r.amount \in Nat
      /\ r.direction \in {"credit", "debit"} /\ Signed(r) \in Int
  BY <1>2, RequestShape
<1>4. ledger' = ledger \cup {RowFor(r)} /\ UniqueRow(r)
  BY DEF Apply, CreateAndApply
<1>5. balance[r.user] \in Int /\ balance[r.user] >= 0
  BY <1>3 DEF IInv, Sound, TypeOK, NeverOverdrawn
<1>6. CASE Apply(c)
  BY <1>2, <1>3, <1>4, <1>5, <1>6 DEF Apply, Accepts, Signed
<1>7. CASE CreateAndApply(c)
  <2>1. r.direction = "credit"
    BY <1>7 DEF CreateAndApply, IInv, OnlyCreditsCreate
  <2>2. balance[r.user] = 0
    BY <1>3, <1>7 DEF CreateAndApply, IInv, Sound, EmptyBeforeCreated
  <2>3. balance[r.user] + Signed(r) = r.amount
    BY <1>3, <2>1, <2>2 DEF Signed
  <2>4. balance' = [balance EXCEPT ![r.user] = r.amount]
    BY <1>7 DEF CreateAndApply
  <2>5. balance[r.user] + Signed(r) >= 0
    BY <1>3, <2>3
  <2>6. balance' = [balance EXCEPT ![r.user] = @ + Signed(r)]
    BY <2>3, <2>4, Zenon
  <2>7. QED BY <1>2, <1>4, <2>5, <2>6
<1>8. QED BY <1>6, <1>7

-----------------------------------------------------------------------------
\* The ledger is finite, and the sum over the rows of a user is taken with one
\* function for all of them.
AmountOf == [row \in Row |-> row.amount]

SumInv ==
    /\ IsFiniteSet(ledger)
    /\ \A u \in Users : balance[u] = SumFunctionOnSet(AmountOf, RowsOf(u))

LEMMA SumInvSuffices == TypeOK /\ SumInv => BalanceIsLedgerSum
<1> SUFFICES ASSUME TypeOK, SumInv, NEW u \in Users
             PROVE  balance[u] = SumFunction([row \in RowsOf(u) |-> row.amount])
    BY DEF BalanceIsLedgerSum
<1>1. IsFiniteSet(RowsOf(u))
  BY FS_Subset DEF SumInv, RowsOf
<1> DEFINE e == [row \in RowsOf(u) |-> row.amount]
<1>2. \A row \in RowsOf(u) : AmountOf[row] \in Int /\ e[row] = AmountOf[row]
  BY DEF TypeOK, RowsOf, AmountOf, Row
<1>3. SumFunctionOnSet(e, RowsOf(u)) = SumFunctionOnSet(AmountOf, RowsOf(u))
  <2> HIDE DEF e
  <2>1. QED BY <1>1, <1>2, SumOfSame
<1>4. SumFunction(e) = SumFunctionOnSet(e, RowsOf(u))
  BY DEF SumFunction
<1>5. QED BY <1>3, <1>4 DEF SumInv

\* A posting adds its amount on both sides, and only for its user.
LEMMA SumPosting ==
    ASSUME TypeOK, SumInv, NEW r \in Requests,
           ledger' = ledger \cup {RowFor(r)}, UniqueRow(r),
           balance' = [balance EXCEPT ![r.user] = @ + Signed(r)]
    PROVE  SumInv'
<1>1. r.user \in Users /\ RowFor(r) \in Row /\ Signed(r) \in Int
  BY RequestShape
<1>2. RowFor(r) \notin ledger /\ RowFor(r).user = r.user /\ RowFor(r).amount = Signed(r)
  BY DEF UniqueRow, RowFor
<1>3. IsFiniteSet(ledger')
  BY FS_AddElement DEF SumInv
<1>4. ASSUME NEW u \in Users
      PROVE  balance'[u] = SumFunctionOnSet(AmountOf, RowsOf(u)')
  <2>1. CASE u = r.user
    <3> DEFINE R == RowsOf(u)
    <3>1. RowsOf(u)' = R \cup {RowFor(r)} /\ RowFor(r) \notin R
      BY <1>2, <2>1 DEF RowsOf
    <3>2. IsFiniteSet(R)
      BY FS_Subset DEF SumInv, RowsOf
    <3>3. /\ \A row \in R \cup {RowFor(r)} : AmountOf[row] \in Int
          /\ AmountOf[RowFor(r)] = Signed(r)
      BY <1>1, <1>2 DEF TypeOK, RowsOf, AmountOf, Row
    <3>4. SumFunctionOnSet(AmountOf, R \cup {RowFor(r)})
            = SumFunctionOnSet(AmountOf, R) + Signed(r)
      <4> HIDE DEF R
      <4>1. QED BY <3>1, <3>2, <3>3, SumWithOneMore
    <3>5. balance'[u] = balance[u] + Signed(r)
      BY <1>1, <2>1 DEF TypeOK
    <3>6. balance[u] = SumFunctionOnSet(AmountOf, R)
      BY DEF SumInv
    <3>7. QED BY <3>1, <3>4, <3>5, <3>6
  <2>2. CASE u # r.user
    <3>1. RowsOf(u)' = RowsOf(u)
      BY <1>2, <2>2 DEF RowsOf
    <3>2. balance'[u] = balance[u]
      BY <1>1, <2>2 DEF TypeOK
    <3>3. QED BY <3>1, <3>2 DEF SumInv
  <2>3. QED BY <2>1, <2>2
<1>5. QED BY <1>3, <1>4 DEF SumInv

\* Money is neither made nor lost: whatever calls overlap, on any number of wallets,
\* a balance is the sum of its rows (wallet_accounting_service.py: the conditional
\* UPDATE and the row are one transaction, the keys are unique).
THEOREM MoneyAddsUp == Spec => []BalanceIsLedgerSum
<1>1. Init => SumInv
  <2> SUFFICES ASSUME Init
               PROVE  SumInv
      OBVIOUS
  <2>1. \A u \in Users : RowsOf(u) = {} /\ balance[u] = 0
    BY DEF Init, RowsOf
  <2>2. IsFiniteSet(ledger)
    BY FS_EmptySet DEF Init
  <2>3. QED BY <2>1, <2>2, SumOfNone DEF SumInv
<1>2. IInv /\ SumInv /\ [Next]_vars => SumInv'
  <2> SUFFICES ASSUME IInv, SumInv, [Next]_vars
               PROVE  SumInv'
      OBVIOUS
  <2>1. ASSUME NEW c \in Callers, Apply(c) \/ CreateAndApply(c)
        PROVE  SumInv'
    BY <2>1, Posting, SumPosting DEF IInv
  <2>2. CASE \A c \in Callers : ~Apply(c) /\ ~CreateAndApply(c)
    <3>1. UNCHANGED <<balance, ledger>>
      BY <2>2 DEF Next, CheckKey, Refuse, MissWallet, Conflict, OpenWallet, SetFrozen,
                  wallets, vars
    <3>2. \A u \in Users : RowsOf(u)' = RowsOf(u)
      BY <3>1 DEF RowsOf
    <3>3. QED BY <3>1, <3>2 DEF SumInv
  <2>3. QED BY <2>1, <2>2
<1>3. IInv /\ SumInv => BalanceIsLedgerSum
  BY SumInvSuffices DEF IInv
<1>4. QED BY <1>1, <1>2, <1>3, Inductive, PTL DEF Spec

-----------------------------------------------------------------------------
\* One call that posts is one Post of the money book.
LEMMA ApplyPosts ==
    ASSUME IInv, NEW c \in Callers, Apply(c) \/ CreateAndApply(c)
    PROVE  Book!Next
<1> DEFINE r == call[c].request
<1>1. /\ r \in Requests
      /\ ledger' = ledger \cup {RowFor(r)} /\ UniqueRow(r)
      /\ balance[r.user] + Signed(r) >= 0
      /\ balance' = [balance EXCEPT ![r.user] = @ + Signed(r)]
  BY Posting
<1>2. r.user \in Users /\ r.key \in Keys
  BY <1>1, RequestShape DEF Request
<1>3. ~Book!Spent(r.key)
  BY <1>1 DEF Book!Spent, UniqueRow, Entry
<1>4. /\ {Entry(row) : row \in ledger'} =
             {Entry(row) : row \in ledger} \cup {Entry(RowFor(r))}
      /\ Entry(RowFor(r)) = [key |-> r.key, user |-> r.user, amount |-> Signed(r)]
  BY <1>1 DEF Entry, RowFor
<1>5. Book!Post(r.key, r.user, Signed(r))
  BY <1>1, <1>3, <1>4 DEF Book!Post
<1>6. Signed(r) \in {Signed(q) : q \in Requests}
  BY <1>1
<1>7. QED BY <1>2, <1>5, <1>6 DEF Book!Next

\* Wallet accounting implements the money book: whatever calls overlap, each
\* balance change is one fresh posting of exactly its amount.
THEOREM Refinement == Spec => PostsLikeTheBook
<1>1. Init => Book!Init
  BY DEF Init, Book!Init
<1>2. IInv /\ [Next]_vars =>
          [Book!Next]_<<balance, {Entry(row) : row \in ledger}>>
  <2> SUFFICES ASSUME IInv, [Next]_vars, ~Book!Next
               PROVE  UNCHANGED <<balance, ledger>>
      OBVIOUS
  <2>1. \A c \in Callers : ~Apply(c) /\ ~CreateAndApply(c)
    BY ApplyPosts
  <2>2. QED
    BY <2>1 DEF Next, CheckKey, Refuse, MissWallet, Conflict, OpenWallet, SetFrozen,
                wallets, vars
<1>3. QED BY <1>1, <1>2, Inductive, PTL DEF Spec, Book!Spec, PostsLikeTheBook
=============================================================================
