--------------------------- MODULE MCOrderPayments ---------------------------
(***************************************************************************)
(* OrderPayments on small instances.  A wallet covers one payment at full  *)
(* price, or a full and a discounted one, but not two at full price.       *)
(***************************************************************************)
EXTENDS OrderPayments, TLC

\* All orders belong to one customer ...
MCOwner == [o \in Orders |-> CHOOSE u \in Users : TRUE]

\* ... or each order to a customer of its own.
MCOwners ==
    CHOOSE f \in [Orders -> Users] : \A o, p \in Orders : f[o] = f[p] => o = p

\* The payment proofs are interchangeable, and so are the refund requests, and the
\* orders together with their customers.
MCSwap(p) ==
    [x \in Orders \cup Users |->
        IF x \in Orders THEN p[x] ELSE Owner[p[CHOOSE o \in Orders : Owner[o] = x]]]
MCSymmetry == Permutations(Proofs) \cup Permutations(RefundRequests)
                \cup {MCSwap(p) : p \in Permutations(Orders)}

\* At most three payment proofs in all.
MCBound == 3
MCFewProofs ==
    Cardinality({x \in Orders \X Proofs : submission[x[1]][x[2]].state # "none"}) <= MCBound
=============================================================================
