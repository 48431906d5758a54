--------------------------- MODULE MCGrowthRewards --------------------------
(***************************************************************************)
(* GrowthRewards with a code that gives a reward, one that gives nothing,  *)
(* and two that discount the same order; one of them can be redeemed once  *)
(* and is also asked for without an order.  One mission pays a reward, one *)
(* has none; events are worth nothing, a step, or the whole target.        *)
(***************************************************************************)
EXTENDS GrowthRewards, TLC

CONSTANTS Gift, Sale, Coupon, Badge, gift, sale, again, coupon, badge, order,
          paying, free, nothing, step, other, whole, last

MCCodeOf ==
    [d \in Redemptions |-> CASE d = gift -> Gift [] d = coupon -> Coupon [] d = badge -> Badge
                              [] d \in {sale, again} -> Sale]
MCUserOf == [d \in Redemptions |-> IF d = again THEN again ELSE gift]
MCOrderOf == [d \in Redemptions |-> IF d \in {sale, coupon} THEN order ELSE None]
MCOne == [c \in Codes |-> 1]
MCMissionOf == [e \in Events |-> IF e = last THEN free ELSE paying]
MCWorth == [e \in Events |-> CASE e = nothing -> 0 [] e \in {whole, last} -> 2 [] OTHER -> 1]

\* At most three redemptions and events in all, any of them.
MCBound == 3
MCFewRequests ==
    Cardinality({d \in Redemptions : redemption[d] # "none"}) + Cardinality(counted) <= MCBound
=============================================================================
