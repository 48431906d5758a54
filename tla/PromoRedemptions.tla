-------------------------- MODULE PromoRedemptions --------------------------
(***************************************************************************)
(* Redemption of promo codes: a place on the code is taken first, then the *)
(* reward is granted or the order discounted, then the redemption ends.    *)
(* Each step is a transaction and the process may die in between; the same *)
(* request again goes on where it stopped.  One call at a time serves a    *)
(* redemption, because redeem holds a lock on its idempotency key.         *)
(* Several codes may be used on one order: it carries the discount of the  *)
(* one that was applied last.                                              *)
(***************************************************************************)
EXTENDS Naturals, FiniteSets

CONSTANTS
    Rewards,        \* of RewardLedger; a redemption names its reward
    Redemptions,    \* the idempotency keys of the requests
    Codes,
    CodeOf,         \* CodeOf[d], the code redemption d asks for
    UserOf,         \* UserOf[d], who asks
    Discounts,      \* the codes that give a discount
    Empty,          \* those that give nothing; the others give a reward
    Orders,
    OrderOf,        \* OrderOf[d], the order the request names, or None
    Limit,          \* Limit[c], max_redemptions
    PerUser,        \* PerUser[c], max_redemptions_per_user
    Idle, None

VARIABLES
    code,           \* reserved_count and completed_count of promo_codes
    redemption,     \* promo_redemptions, the status
    due,            \* the orders that can be discounted
    carries,        \* the redemption whose discount an order has, or None
    discounted,     \* how often each redemption discounted its order
    redeeming,      \* what the call that serves a redemption is doing
    reward, payments    \* of RewardLedger

Ledger == INSTANCE RewardLedger

Rows(c) == {d \in Redemptions : CodeOf[d] = c /\ redemption[d] # "none"}
Completed(c) == {d \in Rows(c) : redemption[d] = "completed"}
RowsOf(c, u) == {d \in Rows(c) : UserOf[d] = u}

Init ==
    /\ code = [c \in Codes |-> [reserved |-> 0, completed |-> 0]]
    /\ redemption = [d \in Redemptions |-> "none"]
    /\ due = Orders
    /\ carries = [o \in Orders |-> None]
    /\ discounted = [d \in Redemptions |-> 0]
    /\ redeeming = [d \in Redemptions |-> Idle]

Stage(d, stage) == redeeming[d] = stage
Turns(d, stage) == redeeming' = [redeeming EXCEPT ![d] = stage]
Becomes(d, status) == redemption' = [redemption EXCEPT ![d] = status]
Discounted(d) == CodeOf[d] \in Discounts
GivesNothing(d) == CodeOf[d] \in Empty
Ordered(d) == OrderOf[d] # None

\* Faulty: only the redemptions that were completed are counted.
AvailableUntilCompleted(c, u) ==
    /\ Cardinality(RowsOf(c, u)) < PerUser[c]
    /\ code[c].completed < Limit[c]

\* Every row counts, also one that failed for good.
Available(c, u) ==
    /\ Cardinality(RowsOf(c, u)) < PerUser[c]
    /\ code[c].reserved < Limit[c]

\* _reserve, for a new request; a code is used once on an order ...
Reserve(d) ==
    /\ Stage(d, Idle)
    /\ redemption[d] = "none"
    /\ Available(CodeOf[d], UserOf[d])
    /\ \A x \in RowsOf(CodeOf[d], UserOf[d]) : OrderOf[x] # OrderOf[d]
    /\ code' = [code EXCEPT ![CodeOf[d]].reserved = @ + 1]
    /\ Becomes(d, "reserved")
    /\ Turns(d, "reserved")
    /\ UNCHANGED <<due, carries, discounted, reward, payments>>

\* Faulty: a redemption that is over can be taken up again.
OpenOnceMore(d) == redemption[d] # "none"

\* A completed redemption answers by itself.
ToBeContinued(d) == redemption[d] \notin {"none", "completed"}

\* ... and for one that was not brought to its end.
Resume(d) ==
    /\ Stage(d, Idle)
    /\ ToBeContinued(d)
    /\ Becomes(d, IF redemption[d] \in {"failed", "completed"} THEN "retrying" ELSE redemption[d])
    /\ Turns(d, "reserved")
    /\ UNCHANGED <<code, due, carries, discounted, reward, payments>>

\* _set_status
SetGranting(d) ==
    /\ Stage(d, "reserved") /\ ~Discounted(d)
    /\ Becomes(d, "granting")
    /\ Turns(d, "granting")
    /\ UNCHANGED <<code, due, carries, discounted, reward, payments>>

\* grant_reward
AskReward(d) ==
    /\ Stage(d, "granting") /\ ~GivesNothing(d)
    /\ \E answer \in Ledger!Statuses :
         /\ Ledger!Grant(d, answer)
         /\ Turns(d, IF answer = "granted" THEN "granted" ELSE "refused")
    /\ UNCHANGED <<code, redemption, due, carries, discounted>>

\* _complete, once the reward was granted or when there is none to ask for
Complete(d) ==
    /\ \/ Stage(d, "granted")
       \/ Stage(d, "granting") /\ GivesNothing(d)
    /\ Becomes(d, "completed")
    /\ code' = [code EXCEPT ![CodeOf[d]].completed = @ + 1]
    /\ Turns(d, Idle)
    /\ UNCHANGED <<due, carries, discounted, reward, payments>>

\* _fail; a discount without an order fails like a refused reward.
Fail(d) ==
    /\ \/ Stage(d, "refused")
       \/ Stage(d, "reserved") /\ Discounted(d) /\ ~Ordered(d)
    /\ Becomes(d, "failed")
    /\ Turns(d, Idle)
    /\ UNCHANGED <<code, due, carries, discounted, reward, payments>>

\* _apply_discount: the order's discount is set, whatever it was.
ApplyDiscount(d) ==
    /\ Stage(d, "reserved") /\ Discounted(d) /\ Ordered(d)
    /\ IF OrderOf[d] \in due
       THEN /\ Becomes(d, "completed")
            /\ code' = [code EXCEPT ![CodeOf[d]].completed = @ + 1]
            /\ carries' = [carries EXCEPT ![OrderOf[d]] = d]
            /\ discounted' = [discounted EXCEPT ![d] = @ + 1]
       ELSE Becomes(d, "failed") /\ UNCHANGED <<code, carries, discounted>>
    /\ Turns(d, Idle)
    /\ UNCHANGED <<due, reward, payments>>

\* The order is paid, cancelled or expired ...
OrderEnds(o) ==
    /\ o \in due
    /\ due' = due \ {o}
    /\ UNCHANGED <<code, redemption, carries, discounted, redeeming, reward, payments>>

\* ... or refunded, which makes it one that can be discounted again.
OrderReturns(o) ==
    /\ o \notin due
    /\ due' = due \cup {o}
    /\ UNCHANGED <<code, redemption, carries, discounted, redeeming, reward, payments>>

\* The process dies, or the transaction fails; what was committed stays.
Die(d) ==
    /\ ~Stage(d, Idle)
    /\ Turns(d, Idle)
    /\ UNCHANGED <<code, redemption, due, carries, discounted, reward, payments>>

Next ==
    \/ \E d \in Redemptions :
        \/ Reserve(d) \/ Resume(d) \/ SetGranting(d) \/ AskReward(d)
        \/ Complete(d) \/ Fail(d) \/ ApplyDiscount(d) \/ Die(d)
    \/ \E o \in Orders : OrderEnds(o) \/ OrderReturns(o)

-----------------------------------------------------------------------------
TypeOK ==
    /\ code \in [Codes -> [reserved : Nat, completed : Nat]]
    /\ redemption \in [Redemptions ->
                         {"none", "reserved", "granting", "completed", "failed", "retrying"}]
    /\ due \subseteq Orders
    /\ carries \in [Orders -> Redemptions \cup {None}]
    /\ discounted \in [Redemptions -> Nat]
    /\ redeeming \in [Redemptions -> {Idle, "reserved", "granting", "granted", "refused"}]

\* A code is given out no more often than it may be, to a user and in all, and
\* its counters tell how often it was asked for and redeemed, though calls die
\* between their steps and are repeated.
PromoLimit ==
    \A c \in Codes :
        /\ code[c].reserved = Cardinality(Rows(c)) /\ code[c].reserved <= Limit[c]
        /\ code[c].completed = Cardinality(Completed(c))
        /\ \A d \in Rows(c) : Cardinality(RowsOf(c, UserOf[d])) <= PerUser[c]

\* What completed redemptions of an order promise it.
Applied(o) == {d \in Redemptions : discounted[d] = 1 /\ OrderOf[d] = o}

\* A redemption that says completed gave what its code promises, once - a reward,
\* or a discount on its order, or nothing where the code gives nothing - and none
\* gives more, though calls die after giving and are repeated.  An order carries
\* the discount of a redemption that is completed and was asked for it, and has
\* one as soon as any of its redemptions is completed; which one, if there are
\* several, is decided by who came last.
RedemptionGave ==
    /\ \A d \in Redemptions :
         /\ discounted[d] + payments[d] <= (IF GivesNothing(d) THEN 0 ELSE 1)
         /\ redemption[d] = "completed" /\ ~GivesNothing(d) =>
              IF Discounted(d) THEN discounted[d] = 1 ELSE payments[d] = 1
         /\ discounted[d] = 1 => redemption[d] = "completed"
    /\ \A o \in Orders :
         IF Applied(o) = {} THEN carries[o] = None ELSE carries[o] \in Applied(o)
=============================================================================
