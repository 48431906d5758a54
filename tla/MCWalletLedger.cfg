SPECIFICATION Spec
CONSTANTS
    alice = alice
    bob = bob
    mmk = mmk
    usd = usd
    k1 = k1
    k2 = k2
    k3 = k3
    s1 = s1
    s2 = s2
    s3 = s3
    NoCurrency = NoCurrency
    Idle = Idle
    Users = {alice, bob}
    Callers = {c1, c2}
    Keys = {k1, k2, k3}
    Sources = {s1, s2, s3}
    Currencies = {mmk, usd}
    Amounts = {1, 2}
    Requests <- MCRequests
INVARIANTS NeverOverdrawn BalanceIsLedgerSum
PROPERTIES PostsLikeTheBook
