--------------------------- MODULE MCWalletLedger ---------------------------
(***************************************************************************)
(* WalletLedger on a small instance: two overlapping callers, two users,   *)
(* and requests chosen to collide on a key, on a source, on a balance that *)
(* covers one debit only, and on the currency of a wallet to be created.   *)
(***************************************************************************)
EXTENDS WalletLedger

CONSTANTS alice, bob, mmk, usd, k1, k2, k3, s1, s2, s3

Credit(u, n, cur, k, s) == [direction |-> "credit", user |-> u, amount |-> n,
                            currency |-> cur, key |-> k, source |-> s]
Debit(u, n, cur, k, s) == [direction |-> "debit", user |-> u, amount |-> n,
                           currency |-> cur, key |-> k, source |-> s]

MCRequests == {
    Credit(alice, 2, mmk, k1, s1),
    Credit(alice, 2, usd, k2, s2),  \* another currency for the same wallet
    Credit(bob, 1, mmk, k1, s1),    \* another user's key
    Credit(bob, 1, mmk, k3, s2),    \* a new key for a source already booked
    Debit(alice, 2, mmk, k2, s2),   \* the same key for the opposite direction
    Debit(alice, 1, mmk, k3, s3),
    Debit(alice, 2, mmk, k3, s1) }
=============================================================================
