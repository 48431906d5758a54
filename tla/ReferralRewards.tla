-------------------------- MODULE ReferralRewards ---------------------------
(***************************************************************************)
(* Referrals by one referrer and the rewards they build.  A referral that  *)
(* qualifies builds a reward for the referrer and one for the referred     *)
(* user, in the cycle that the number of qualified referrals has reached.  *)
(* Evaluation builds twice: the event it emits is answered by a build, and *)
(* it builds once more itself.                                             *)
(*                                                                         *)
(* A grant reads the limits and the block before it pays; the lock on its  *)
(* key keeps other grants of the same reward out, and nothing keeps out    *)
(* grants of the same user's other rewards.                                *)
(***************************************************************************)
EXTENDS Naturals, FiniteSets, Markers

CONSTANTS
    Referrals,      \* named by the referred user
    Referrer,
    Required,       \* referral_required_qualified_count, mode every_n
    Limit,          \* rewards a user may be granted in the period modelled
    Workers         \* calls under way at once

ASSUME ReferralAssumption ==
    /\ IsFiniteSet(Referrals)
    /\ Referrer \notin Referrals
    /\ Required \in Nat \ {0}
    /\ Limit \in Nat
    /\ Idle \notin {"build", "look", "settle"}

VARIABLES
    referral,       \* referrals, the status
    qualified,      \* the referrals that have ever qualified
    blocked,        \* users whose referral rewards are blocked
    work,           \* what each call is doing
    reward, payments    \* RewardLedger

vars == <<referral, qualified, blocked, work, reward, payments>>

Users == Referrals \cup {Referrer}
Cycles == 1..(Cardinality(Referrals) \div Required)

\* The idempotency key: the referral, who benefits, and the cycle.
Rewards ==
    {k \in [referral : Referrals, user : Users, cycle : Cycles] : k.user \in {Referrer, k.referral}}

Ledger == INSTANCE RewardLedger

Init ==
    /\ referral = [r \in Referrals |-> "pending"]
    /\ qualified = {}
    /\ blocked = {}
    /\ work = [w \in Workers |-> [stage |-> Idle]]
    /\ Ledger!Init

At(w, stage) == work[w].stage = stage
Goes(w, x) == work' = [work EXCEPT ![w] = x]
Ends(w) == Goes(w, [stage |-> Idle])
Builds(r, left) == IF left = 0 THEN [stage |-> Idle]
                   ELSE [stage |-> "build", referral |-> r, left |-> left]

Qualify(r) ==
    /\ referral' = [referral EXCEPT ![r] = "qualified"]
    /\ qualified' = qualified \cup {r}

\* evaluate: the requirements are not met, or no longer; or the referral is
\* held for review; or it qualifies, maybe once more.
Evaluate(w, r) ==
    /\ At(w, Idle)
    /\ referral[r] # "invalid"
    /\ \/ /\ referral' = [referral EXCEPT ![r] = "pending"]
          /\ UNCHANGED <<qualified, work>>
       \/ Qualify(r) /\ Goes(w, Builds(r, 2))
    /\ UNCHANGED <<blocked, reward, payments>>

\* review: the approval is an event like a qualification.
Approve(w, r) ==
    /\ At(w, Idle)
    /\ Qualify(r)
    /\ Goes(w, Builds(r, 1))
    /\ UNCHANGED <<blocked, reward, payments>>

\* review and invalidate
Reject(r) ==
    /\ referral[r] # "invalid"
    /\ referral' = [referral EXCEPT ![r] = "invalid"]
    /\ UNCHANGED <<qualified, blocked, work, reward, payments>>

\* Faulty: referrals that wait to qualify count as well.
CountingAll == Cardinality({r \in Referrals : referral[r] # "invalid"})

\* The referrals of the referrer that are qualified now.
Counting == Cardinality({r \in Referrals : referral[r] = "qualified"})

\* build_rewards, first transaction.
Build(w) ==
    /\ At(w, "build")
    /\ LET r == work[w].referral
           n == Counting \div Required
       IN  IF referral[r] = "qualified" /\ n > 0
           THEN Goes(w, [stage |-> "look", left |-> work[w].left, limits |-> TRUE,
                         key |-> [referral |-> r, user |-> Referrer, cycle |-> n]])
           ELSE Goes(w, Builds(r, work[w].left - 1))
    /\ UNCHANGED <<referral, qualified, blocked, reward, payments>>

\* After the referrer's reward comes the referred user's, then the next build.
NextOf(w) ==
    LET x == work[w]
        k == x.key
    IN  IF x.left > 0 /\ k.user = Referrer
        THEN [stage |-> "look", left |-> x.left, limits |-> TRUE,
              key |-> [k EXCEPT !.user = k.referral]]
        ELSE Builds(k.referral, IF x.left = 0 THEN 0 ELSE x.left - 1)

GrantedTo(u) == {k \in Rewards : k.user = u /\ reward[k] = "granted"}
Locked(k) == \E w \in Workers : At(w, "settle") /\ work[w].key = k

\* A reward that is blocked is held, and one over the limit is refused for good.
Verdict(k, limits) ==
    IF k.user \in blocked THEN "review_required"
    ELSE IF limits /\ Cardinality(GrantedTo(k.user)) >= Limit THEN "limit_reached"
    ELSE "granted"

\* _create_and_grant: what is read of the row, the block and the limits ...
Look(w) ==
    /\ At(w, "look")
    /\ LET k == work[w].key IN
         /\ ~Locked(k)
         /\ IF Ledger!Answered(k)
            THEN Goes(w, NextOf(w))
            ELSE Goes(w, [stage |-> "settle", left |-> work[w].left, key |-> k,
                          verdict |-> Verdict(k, work[w].limits)])
    /\ UNCHANGED <<referral, qualified, blocked, reward, payments>>

\* ... and what is written; a payment that fails leaves the row failed.
Settle(w) ==
    /\ At(w, "settle")
    /\ \E status \in {work[w].verdict, "failed"} :
         /\ status = "failed" => work[w].verdict = "granted"
         /\ Ledger!Record(work[w].key, status)
    /\ Goes(w, NextOf(w))
    /\ UNCHANGED <<referral, qualified, blocked>>

\* release_held_reward marks the row failed and grants it without limits.
Release(w, k) ==
    /\ At(w, Idle)
    /\ reward[k] = "review_required"
    /\ Ledger!Record(k, "failed")
    /\ Goes(w, [stage |-> "look", left |-> 0, key |-> k, limits |-> FALSE])
    /\ UNCHANGED <<referral, qualified, blocked>>

\* A risk review blocks or unblocks a user.
Block(u) ==
    /\ \E rest \in {blocked \cup {u}, blocked \ {u}} :
         rest # blocked /\ blocked' = rest
    /\ UNCHANGED <<referral, qualified, work, reward, payments>>

\* The process dies or a transaction fails.
Die(w) ==
    /\ ~At(w, Idle)
    /\ Ends(w)
    /\ UNCHANGED <<referral, qualified, blocked, reward, payments>>

Next ==
    \/ \E w \in Workers :
         \/ \E r \in Referrals : Evaluate(w, r) \/ Approve(w, r)
         \/ Build(w) \/ Look(w) \/ Settle(w) \/ Die(w)
         \/ \E k \in Rewards : Release(w, k)
    \/ \E r \in Referrals : Reject(r)
    \/ \E u \in Users : Block(u)

Spec == Init /\ [][Next]_vars

-----------------------------------------------------------------------------
Work ==
    [stage : {Idle}]
      \cup [stage : {"build"}, referral : Referrals, left : 1..2]
      \cup [stage : {"look"}, left : 0..2, key : Rewards, limits : BOOLEAN]
      \cup [stage : {"settle"}, left : 0..2, key : Rewards, verdict : Ledger!Statuses]

TypeOK ==
    /\ referral \in [Referrals -> {"pending", "qualified", "invalid"}]
    /\ qualified \subseteq Referrals
    /\ blocked \subseteq Users
    /\ work \in [Workers -> Work]
    /\ Ledger!TypeOK

\* However often referrals are evaluated, and calls die and are repeated, a
\* reward is paid when its row says so, and no more than once.
PaidAsGranted == Ledger!PaidAsGranted

\* A reward is made only for a referral that has qualified, in a cycle that
\* enough qualified referrals have reached.
RewardIsEarned ==
    \A k \in Rewards : reward[k] # "none" =>
        /\ k.referral \in qualified
        /\ k.cycle * Required <= Cardinality(qualified)

\* A reward that is held is let go by a release and by nothing else, though
\* the referral may be evaluated again and the user be unblocked meanwhile.
HeldUntilReleased ==
    [][\A k \in Rewards : reward[k] = "review_required" =>
          \/ reward'[k] = reward[k]
          \/ \E w \in Workers : Release(w, k)]_vars
=============================================================================
