---------------------------- MODULE RewardLedger ----------------------------
(***************************************************************************)
(* The rewards of referrals, missions and promo codes.  A reward is named  *)
(* by its idempotency key, has one row, and is paid as an entitlement or a *)
(* wallet credit in the transaction that marks its row granted.  The       *)
(* statuses pending and granting are overwritten in that transaction and   *)
(* never seen by others.                                                   *)
(***************************************************************************)
EXTENDS Naturals

CONSTANTS Rewards       \* the idempotency keys

VARIABLES
    reward,             \* referral_rewards
    payments            \* how often each reward was paid

Statuses == {"none", "granted", "failed", "limit_reached", "review_required"}

Init ==
    /\ reward = [k \in Rewards |-> "none"]
    /\ payments = [k \in Rewards |-> 0]

\* Faulty: a reward that is held can be asked for again.
AnsweredUnlessHeld(k) == reward[k] \notin {"none", "failed", "review_required"}

\* A row that did not fail answers for every later call.
Answered(k) == reward[k] \notin {"none", "failed"}

Record(k, status) ==
    /\ reward' = [reward EXCEPT ![k] = status]
    /\ payments' = IF status = "granted" THEN [payments EXCEPT ![k] = @ + 1] ELSE payments

\* grant_reward for a mission or a promo code: no limits apply.  The answer is
\* "failed" without a row when rewards are under maintenance or an exception
\* rolls the transaction back.
Grant(k, answer) ==
    \/ /\ Answered(k)
       /\ answer = reward[k]
       /\ UNCHANGED <<reward, payments>>
    \/ /\ ~Answered(k)
       /\ answer \in {"granted", "failed"}
       /\ Record(k, answer)
    \/ /\ answer = "failed"
       /\ UNCHANGED <<reward, payments>>

TypeOK ==
    /\ reward \in [Rewards -> Statuses]
    /\ payments \in [Rewards -> Nat]

\* A reward is paid when its row says granted, once, and never otherwise.
PaidAsGranted ==
    \A k \in Rewards : payments[k] = IF reward[k] = "granted" THEN 1 ELSE 0
=============================================================================
