---------------------------- MODULE RewardsProofs ----------------------------
(***************************************************************************)
(* Proofs about rewards: ReferralRewards, for any number of referrals,     *)
(* calls under way and rewards, and for any limit; and GrowthRewards, for  *)
(* any promo codes, limits, redemptions, missions and events.  The rewards *)
(* of the two have different keys: they share no row of the ledger, and    *)
(* each has its theorems.                                                  *)
(***************************************************************************)
EXTENDS ReferralRewards, GrowthRewards, Sums

\* Referrals.
USE DEF At, Goes, Ends

\* The lock: a key that is being settled is settled by one call, and its row has
\* not been answered for since that call looked.
Sole ==
    /\ \A w, v \in Workers :
         At(w, "settle") /\ At(v, "settle") /\ work[w].key = work[v].key => w = v
    /\ \A w \in Workers : At(w, "settle") => reward[work[w].key] \in {"none", "failed"}

\* A key for which a reward may be made.
Earned(k) ==
    /\ k.referral \in qualified
    /\ k.cycle * Required <= Cardinality(qualified)

\* Rewards in the making are earned, as those that are there.
InHand == \A w \in Workers : work[w].stage \in {"look", "settle"} => Earned(work[w].key)

\* What counts towards a cycle has qualified.
Counted == \A r \in Referrals : referral[r] = "qualified" => r \in qualified

RewardInv ==
    /\ TypeOK
    /\ PaidAsGranted
    /\ Sole
    /\ RewardIsEarned
    /\ InHand
    /\ Counted

Kept == \A k \in Rewards : reward[k] = "review_required" =>
            reward'[k] = reward[k] \/ \E w \in Workers : Release(w, k)

-----------------------------------------------------------------------------
\* How many qualify.
LEMMA Numbers ==
    ASSUME qualified \subseteq Referrals
    PROVE  /\ IsFiniteSet(qualified) /\ Cardinality(qualified) \in Nat
           /\ Cardinality(qualified) <= Cardinality(Referrals)
           /\ Cardinality(Referrals) \in Nat
  BY FS_Subset, FS_CardinalityType, ReferralAssumption

\* A whole number of cycles takes no more referrals than there are.
LEMMA Quotients ==
    ASSUME NEW x \in Nat, NEW y \in Nat, x <= y
    PROVE  /\ x \div Required \in Nat /\ (x \div Required) * Required <= x
           /\ x \div Required <= y \div Required
<1> DEFINE d == Required
           p == x \div d
           q == y \div d
<1>1. d \in Nat \ {0}
  BY ReferralAssumption
<1>2. p \in Nat /\ p * d <= x /\ q \in Nat /\ y < q * d + d
  BY <1>1
<1> HIDE DEF p, q, d
<1>3. p * d < (q + 1) * d
  BY <1>1, <1>2
<1>4. p < q + 1
  BY <1>1, <1>2, <1>3
<1>5. QED BY <1>2, <1>4 DEF p, q, d

\* The cycle that a build names has been reached.
LEMMA Reached ==
    ASSUME RewardInv, NEW r \in Referrals, referral[r] = "qualified",
           Counting \div Required > 0
    PROVE  /\ \A u \in {Referrer, r} :
                [referral |-> r, user |-> u, cycle |-> Counting \div Required] \in Rewards
           /\ r \in qualified
           /\ (Counting \div Required) * Required <= Cardinality(qualified)
<1> DEFINE C == {s \in Referrals : referral[s] = "qualified"}
<1>1. C \subseteq qualified /\ qualified \subseteq Referrals /\ r \in qualified
  BY DEF RewardInv, Counted, TypeOK
<1>2. /\ Counting \in Nat /\ Counting <= Cardinality(qualified)
      /\ Cardinality(qualified) <= Cardinality(Referrals)
      /\ Cardinality(qualified) \in Nat /\ Cardinality(Referrals) \in Nat
  BY <1>1, Numbers, FS_Subset, FS_CardinalityType DEF Counting
<1>3. /\ Counting \div Required \in Nat
      /\ (Counting \div Required) * Required <= Counting
      /\ Counting \div Required <= Cardinality(Referrals) \div Required
  BY <1>2, Quotients
<1>4. Cardinality(Referrals) \div Required \in Nat
  BY <1>2, Quotients
<1>5. Counting \div Required \in Cycles
  BY <1>3, <1>4 DEF Cycles
<1>6. Required \in Nat
  BY ReferralAssumption
<1>7. QED BY <1>1, <1>2, <1>3, <1>5, <1>6 DEF Rewards, Users

\* What was earned stays earned.
LEMMA EarnedStays ==
    ASSUME qualified \subseteq qualified', qualified' \subseteq Referrals,
           NEW k \in Rewards, Earned(k)
    PROVE  Earned(k)'
<1>1. qualified \subseteq Referrals
  OBVIOUS
<1>2. IsFiniteSet(qualified')
  BY FS_Subset, ReferralAssumption
<1>3. /\ Cardinality(qualified) \in Nat /\ Cardinality(qualified') \in Nat
      /\ Cardinality(qualified) <= Cardinality(qualified')
  BY <1>1, <1>2, FS_Subset, FS_CardinalityType, Numbers
<1>4. Cardinality(Referrals) \div Required \in Nat
  BY Numbers, Quotients, <1>1
<1>5. k.cycle * Required \in Nat
  BY <1>4, ReferralAssumption DEF Rewards, Cycles
<1>6. QED BY <1>3, <1>5 DEF Earned

-----------------------------------------------------------------------------
\* A step that writes no reward, and after which a call that settles settled before
\* or has just found its row free.
LEMMA WorkTurns ==
    ASSUME RewardInv, TypeOK', UNCHANGED <<reward, payments>>,
           qualified \subseteq qualified', Counted',
           NEW w \in Workers, NEW x, work' = [work EXCEPT ![w] = x],
           x.stage \in {"look", "settle"} => Earned(x.key),
           x.stage = "settle" => ~Locked(x.key) /\ reward[x.key] \in {"none", "failed"}
    PROVE  RewardInv'
<1>1. PaidAsGranted'
  BY DEF RewardInv, PaidAsGranted, Ledger!PaidAsGranted
<1>2. \A k \in Rewards : Earned(k) => Earned(k)'
  BY EarnedStays DEF TypeOK
<1>3. RewardIsEarned'
  BY <1>2 DEF RewardInv, RewardIsEarned, Earned
<1>4. work \in [Workers -> Work]
  BY DEF RewardInv, TypeOK
<1>5. Sole'
  BY <1>4 DEF RewardInv, Sole, Locked
<1>6. \A v \in Workers : work'[v].stage \in {"look", "settle"} => work'[v].key \in Rewards
  <2>1. work' \in [Workers -> Work]
    BY DEF TypeOK
  <2>2. QED BY <2>1, ReferralAssumption DEF Work
<1>7. InHand'
  BY <1>2, <1>4, <1>6 DEF RewardInv, InHand
<1>8. QED BY <1>1, <1>3, <1>5, <1>7 DEF RewardInv

\* Where a call goes after a build, and after a reward.
LEMMA NextTyped ==
    /\ \A r \in Referrals : Builds(r, 0) \in Work /\ Builds(r, 1) \in Work /\ Builds(r, 2) \in Work
    /\ \A r \in Referrals, left \in Nat : Builds(r, left).stage \notin {"look", "settle"}
  BY ReferralAssumption DEF Builds, Work

LEMMA NextEarned ==
    ASSUME RewardInv, NEW w \in Workers, work[w].stage \in {"look", "settle"}
    PROVE  /\ NextOf(w) \in Work
           /\ NextOf(w).stage # "settle"
           /\ NextOf(w).stage = "look" => Earned(NextOf(w).key)
<1> DEFINE k == work[w].key
<1>1. /\ k \in Rewards /\ work[w].left \in 0..2
  <2>1. work[w] \in Work
    BY DEF RewardInv, TypeOK
  <2>2. QED BY <2>1, ReferralAssumption DEF Work
<1>2. Earned(k)
  BY DEF RewardInv, InHand
<1>3. [k EXCEPT !.user = k.referral] \in Rewards
  BY <1>1 DEF Rewards, Users
<1>4. Earned([k EXCEPT !.user = k.referral])
  BY <1>1, <1>2 DEF Earned, Rewards
<1>5. CASE work[w].left > 0 /\ k.user = Referrer
  <2>1. NextOf(w) = [stage |-> "look", left |-> work[w].left, limits |-> TRUE,
                     key |-> [k EXCEPT !.user = k.referral]]
    BY <1>5 DEF NextOf
  <2> HIDE DEF k
  <2>2. NextOf(w) \in Work
    BY <2>1, <1>1, <1>3 DEF Work
  <2>3. QED BY <2>1, <2>2, <1>4
<1>6. CASE ~(work[w].left > 0 /\ k.user = Referrer)
  <2>1. \E left \in {0, 1} : NextOf(w) = Builds(k.referral, left)
    BY <1>1, <1>6 DEF NextOf
  <2>2. k.referral \in Referrals
    BY <1>1 DEF Rewards
  <2>3. QED BY <2>1, <2>2, NextTyped
<1>7. QED BY <1>5, <1>6

\* A step that writes neither rewards nor work.
LEMMA StillRewards ==
    ASSUME RewardInv, TypeOK', UNCHANGED <<work, reward, payments>>, Counted',
           qualified \subseteq qualified'
    PROVE  RewardInv'
<1>1. \A k \in Rewards : Earned(k) => Earned(k)'
  BY EarnedStays DEF TypeOK
<1>2. RewardIsEarned'
  BY <1>1 DEF RewardInv, RewardIsEarned, Earned
<1>3. \A w \in Workers : work[w].stage \in {"look", "settle"} => work[w].key \in Rewards
  <2>1. work \in [Workers -> Work]
    BY DEF RewardInv, TypeOK
  <2>2. QED BY <2>1, ReferralAssumption DEF Work
<1>4. InHand'
  BY <1>1, <1>3 DEF RewardInv, InHand
<1>5. QED
  BY <1>2, <1>4 DEF RewardInv, PaidAsGranted, Ledger!PaidAsGranted, Sole

\* A step that writes the row of a key.
LEMMA RewardTurns ==
    ASSUME RewardInv, TypeOK', UNCHANGED <<referral, qualified>>,
           NEW w \in Workers, NEW x, work' = [work EXCEPT ![w] = x], x.stage # "settle",
           NEW k \in Rewards, NEW status, Ledger!Record(k, status), Earned(k),
           x.stage = "look" => Earned(x.key),
           reward[k] # "granted",
           \A v \in Workers \ {w} : At(v, "settle") => work[v].key # k
    PROVE  RewardInv'
<1>1. /\ reward \in [Rewards -> Ledger!Statuses] /\ payments \in [Rewards -> Nat]
      /\ work \in [Workers -> Work]
  BY DEF RewardInv, TypeOK, Ledger!TypeOK
<1>2. /\ reward' = [reward EXCEPT ![k] = status]
      /\ payments' = IF status = "granted" THEN [payments EXCEPT ![k] = @ + 1] ELSE payments
  BY DEF Ledger!Record
<1>3. \A j \in Rewards : payments[j] = IF reward[j] = "granted" THEN 1 ELSE 0
  BY DEF RewardInv, PaidAsGranted, Ledger!PaidAsGranted
<1>4. PaidAsGranted'
  BY <1>1, <1>2, <1>3 DEF PaidAsGranted, Ledger!PaidAsGranted
<1>5. \A j : Earned(j)' = Earned(j)
  BY DEF Earned
<1>6. RewardIsEarned'
  BY <1>1, <1>2, <1>5 DEF RewardInv, RewardIsEarned, Earned
<1>7. Sole'
  BY <1>1, <1>2 DEF RewardInv, Sole
<1>8. InHand'
  BY <1>1, <1>5 DEF RewardInv, InHand
<1>9. Counted'
  BY DEF RewardInv, Counted
<1>10. QED BY <1>4, <1>6, <1>7, <1>8, <1>9 DEF RewardInv

LEMMA RecordTyped ==
    ASSUME Ledger!TypeOK, NEW k \in Rewards, NEW status \in Ledger!Statuses,
           Ledger!Record(k, status)
    PROVE  Ledger!TypeOK'
  BY DEF Ledger!TypeOK, Ledger!Record

LEMMA RewardStep ==
    RewardInv /\ TypeOK' /\ [Next]_vars => RewardInv' /\ Kept
<1> SUFFICES ASSUME RewardInv, TypeOK', [Next]_vars
             PROVE  RewardInv' /\ Kept
    OBVIOUS
<1> USE DEF Kept
<1>0. /\ referral \in [Referrals -> {"pending", "qualified", "invalid"}]
      /\ qualified \subseteq Referrals /\ work \in [Workers -> Work]
      /\ Counted /\ TypeOK
  BY DEF RewardInv, TypeOK
<1>1. ASSUME NEW w \in Workers, NEW r \in Referrals, Evaluate(w, r) \/ Approve(w, r)
      PROVE  RewardInv' /\ Kept
  <2>1. /\ UNCHANGED <<reward, payments>>
        /\ work' = work \/ \E left \in {1, 2} : work' = [work EXCEPT ![w] = Builds(r, left)]
        /\ \/ qualified' = qualified /\ referral' = [referral EXCEPT ![r] = "pending"]
           \/ Qualify(r)
    BY <1>1 DEF Evaluate, Approve
  <2>2. qualified \subseteq qualified' /\ Counted'
    BY <1>0, <2>1 DEF Qualify, Counted
  <2>3. CASE work' = work
    BY <2>1, <2>2, <2>3, StillRewards
  <2>4. ASSUME NEW left \in {1, 2}, work' = [work EXCEPT ![w] = Builds(r, left)]
        PROVE  RewardInv'
    <3>1. Builds(r, left).stage \notin {"look", "settle"}
      BY NextTyped
    <3>2. QED BY <2>1, <2>2, <2>4, <3>1, WorkTurns
  <2>5. QED BY <2>1, <2>3, <2>4
<1>2. ASSUME NEW w \in Workers, Build(w)
      PROVE  RewardInv' /\ Kept
  <2> DEFINE r == work[w].referral
             n == Counting \div Required
             x == [stage |-> "look", left |-> work[w].left, limits |-> TRUE,
                   key |-> [referral |-> r, user |-> Referrer, cycle |-> n]]
  <2>1. /\ r \in Referrals /\ work[w].left \in 1..2
        /\ UNCHANGED <<referral, qualified, blocked, reward, payments>>
    <3>1. work[w] \in Work /\ work[w].stage = "build"
      BY <1>0, <1>2 DEF Build
    <3>2. QED BY <1>2, <3>1, ReferralAssumption DEF Build, Work
  <2>2. Counted' /\ qualified \subseteq qualified'
    BY <1>0, <2>1 DEF Counted
  <2>3. CASE referral[r] = "qualified" /\ n > 0
    <3>1. work' = [work EXCEPT ![w] = x]
      BY <1>2, <2>3 DEF Build
    <3>2. Earned([referral |-> r, user |-> Referrer, cycle |-> n])
      BY <2>1, <2>3, Reached DEF Earned
    <3>3. x.stage = "look" /\ Earned(x.key)
      BY <3>2
    <3> HIDE DEF x
    <3>4. QED BY <2>1, <2>2, <3>1, <3>3, WorkTurns
  <2>4. CASE ~(referral[r] = "qualified" /\ n > 0)
    <3>1. \E left \in {0, 1} : work' = [work EXCEPT ![w] = Builds(r, left)]
      BY <1>2, <2>1, <2>4 DEF Build
    <3>2. PICK left \in {0, 1} : work' = [work EXCEPT ![w] = Builds(r, left)]
      BY <3>1
    <3>3. Builds(r, left).stage \notin {"look", "settle"}
      BY <2>1, NextTyped
    <3>4. QED BY <2>1, <2>2, <3>2, <3>3, WorkTurns
  <2>5. QED BY <2>3, <2>4
<1>3. ASSUME NEW w \in Workers, Look(w)
      PROVE  RewardInv' /\ Kept
  <2> DEFINE k == work[w].key
             x == [stage |-> "settle", left |-> work[w].left, key |-> k,
                   verdict |-> Verdict(k, work[w].limits)]
  <2>1. /\ work[w].stage = "look" /\ ~Locked(k)
        /\ UNCHANGED <<referral, qualified, blocked, reward, payments>>
    BY <1>3 DEF Look
  <2>2. Counted' /\ qualified \subseteq qualified'
    BY <1>0, <2>1 DEF Counted
  <2>3. CASE Ledger!Answered(k)
    <3>1. work' = [work EXCEPT ![w] = NextOf(w)]
      BY <1>3, <2>3 DEF Look
    <3>2. QED BY <2>1, <2>2, <3>1, NextEarned, WorkTurns
  <2>4. CASE ~Ledger!Answered(k)
    <3>1. work' = [work EXCEPT ![w] = x]
      BY <1>3, <2>4 DEF Look
    <3>2. x.stage = "settle" /\ x.key = k
      OBVIOUS
    <3>3. reward[k] \in {"none", "failed"} /\ Earned(k)
      BY <2>1, <2>4 DEF Ledger!Answered, RewardInv, InHand
    <3> HIDE DEF x
    <3>4. QED BY <2>1, <2>2, <3>1, <3>2, <3>3, WorkTurns
  <2>5. QED BY <2>3, <2>4
<1>4. ASSUME NEW w \in Workers, Settle(w)
      PROVE  RewardInv' /\ Kept
  <2> DEFINE k == work[w].key
  <2>1. /\ work[w].stage = "settle" /\ UNCHANGED <<referral, qualified, blocked>>
        /\ work' = [work EXCEPT ![w] = NextOf(w)]
    BY <1>4 DEF Settle
  <2>2. PICK status : Ledger!Record(k, status)
    BY <1>4 DEF Settle
  <2>3. /\ k \in Rewards /\ reward[k] \in {"none", "failed"} /\ Earned(k)
        /\ \A v \in Workers \ {w} : At(v, "settle") => work[v].key # k
    <3>1. work[w] \in Work
      BY <1>0
    <3>2. k \in Rewards
      BY <2>1, <3>1, ReferralAssumption DEF Work
    <3>3. QED BY <2>1, <3>2 DEF RewardInv, Sole, InHand
  <2>4. NextOf(w).stage # "settle" /\ (NextOf(w).stage = "look" => Earned(NextOf(w).key))
    BY <2>1, NextEarned
  <2>5. RewardInv'
    BY <2>1, <2>2, <2>3, <2>4, RewardTurns
  <2>6. Kept
    BY <1>0, <2>2, <2>3 DEF Ledger!Record, TypeOK, Ledger!TypeOK
  <2>7. QED BY <2>5, <2>6
<1>5. ASSUME NEW w \in Workers, NEW k \in Rewards, Release(w, k)
      PROVE  RewardInv' /\ Kept
  <2> DEFINE x == [stage |-> "look", left |-> 0, key |-> k, limits |-> FALSE]
  <2>1. /\ UNCHANGED <<referral, qualified, blocked>>
        /\ work' = [work EXCEPT ![w] = x]
        /\ reward[k] = "review_required" /\ Ledger!Record(k, "failed")
    BY <1>5 DEF Release
  <2>2. x.stage = "look" /\ x.key = k
    OBVIOUS
  <2>3. Earned(k)
    BY <2>1 DEF RewardInv, RewardIsEarned, Earned
  <2>4. \A v \in Workers : At(v, "settle") => work[v].key # k
    BY <2>1 DEF RewardInv, Sole
  <2> HIDE DEF x
  <2>5. RewardInv'
    BY <2>1, <2>2, <2>3, <2>4, RewardTurns
  <2>6. Kept
    BY <1>0, <1>5, <2>1 DEF Ledger!Record, TypeOK, Ledger!TypeOK
  <2>7. QED BY <2>5, <2>6
<1>6. ASSUME NEW r \in Referrals, Reject(r)
      PROVE  RewardInv' /\ Kept
  <2>1. Counted' /\ UNCHANGED <<qualified, work, reward, payments>>
    BY <1>0, <1>6 DEF Reject, Counted
  <2>2. RewardInv'
    BY <2>1, StillRewards
  <2>3. QED BY <2>1, <2>2
<1>7. ASSUME NEW w \in Workers, Die(w)
      PROVE  RewardInv' /\ Kept
  <2>1. /\ work' = [work EXCEPT ![w] = [stage |-> Idle]]
        /\ UNCHANGED <<referral, qualified, blocked, reward, payments>>
    BY <1>7 DEF Die
  <2>2. Counted'
    BY <1>0, <2>1 DEF Counted
  <2>3. RewardInv'
    BY <2>1, <2>2, WorkTurns, ReferralAssumption
  <2>4. QED BY <2>1, <2>3
<1>8. CASE (\E u \in Users : Block(u)) \/ UNCHANGED vars
  <2>1. UNCHANGED <<referral, qualified, work, reward, payments>>
    BY <1>8 DEF Block, vars
  <2>2. Counted'
    BY <1>0, <2>1 DEF Counted
  <2>3. QED BY <2>1, <2>2, StillRewards
<1>9. QED
  BY <1>1, <1>2, <1>3, <1>4, <1>5, <1>6, <1>7, <1>8 DEF Next

LEMMA TypeStep == RewardInv /\ [Next]_vars => TypeOK'
<1> SUFFICES ASSUME RewardInv, [Next]_vars
             PROVE  TypeOK'
    OBVIOUS
<1>0. /\ referral \in [Referrals -> {"pending", "qualified", "invalid"}]
      /\ qualified \subseteq Referrals /\ blocked \subseteq Users
      /\ work \in [Workers -> Work] /\ Ledger!TypeOK
  BY DEF RewardInv, TypeOK
<1> DEFINE Elsewhere ==
      /\ referral' \in [Referrals -> {"pending", "qualified", "invalid"}]
      /\ qualified' \subseteq Referrals /\ blocked' \subseteq Users
<1>1. ASSUME NEW w \in Workers, NEW r \in Referrals, Evaluate(w, r) \/ Approve(w, r)
      PROVE  TypeOK'
  <2>1. Elsewhere /\ UNCHANGED <<reward, payments>>
    BY <1>0, <1>1 DEF Evaluate, Approve, Qualify
  <2>2. work' = work \/ \E left \in {1, 2} : work' = [work EXCEPT ![w] = Builds(r, left)]
    BY <1>1 DEF Evaluate, Approve
  <2>3. work' \in [Workers -> Work]
    BY <1>0, <2>2, NextTyped
  <2>4. QED BY <1>0, <2>1, <2>3 DEF TypeOK, Ledger!TypeOK
<1>2. ASSUME NEW w \in Workers, Build(w)
      PROVE  TypeOK'
  <2> DEFINE r == work[w].referral
             n == Counting \div Required
  <2>1. r \in Referrals /\ work[w].left \in 1..2
    <3>1. work[w] \in Work /\ work[w].stage = "build"
      BY <1>0, <1>2 DEF Build
    <3>2. QED BY <3>1, ReferralAssumption DEF Work
  <2>2. UNCHANGED <<referral, qualified, blocked, reward, payments>>
    BY <1>2 DEF Build
  <2>3. work' \in [Workers -> Work]
    <3>1. CASE referral[r] = "qualified" /\ n > 0
      <4>1. [referral |-> r, user |-> Referrer, cycle |-> n] \in Rewards
        BY <2>1, <3>1, Reached
      <4>2. [stage |-> "look", left |-> work[w].left, limits |-> TRUE,
             key |-> [referral |-> r, user |-> Referrer, cycle |-> n]] \in Work
        BY <2>1, <4>1 DEF Work
      <4>3. QED BY <1>0, <1>2, <3>1, <4>2 DEF Build
    <3>2. CASE ~(referral[r] = "qualified" /\ n > 0)
      <4>1. \E left \in {0, 1} : work' = [work EXCEPT ![w] = Builds(r, left)]
        BY <1>2, <2>1, <3>2 DEF Build
      <4>2. QED BY <1>0, <2>1, <4>1, NextTyped
    <3>3. QED BY <3>1, <3>2
  <2>4. QED BY <1>0, <2>2, <2>3 DEF TypeOK, Ledger!TypeOK
<1>3. ASSUME NEW w \in Workers, Look(w)
      PROVE  TypeOK'
  <2> DEFINE k == work[w].key
             x == [stage |-> "settle", left |-> work[w].left, key |-> k,
                   verdict |-> Verdict(k, work[w].limits)]
  <2>1. k \in Rewards /\ work[w].left \in 0..2 /\ work[w].stage = "look"
    <3>1. work[w] \in Work /\ work[w].stage = "look"
      BY <1>0, <1>3 DEF Look
    <3>2. QED BY <3>1, ReferralAssumption DEF Work
  <2>2. UNCHANGED <<referral, qualified, blocked, reward, payments>>
    BY <1>3 DEF Look
  <2>3. Verdict(k, work[w].limits) \in Ledger!Statuses
    BY DEF Verdict, Ledger!Statuses
  <2>4. x \in Work
    BY <2>1, <2>3 DEF Work
  <2>5. NextOf(w) \in Work
    BY <2>1, NextEarned
  <2>6. \/ work' = [work EXCEPT ![w] = NextOf(w)]
        \/ work' = [work EXCEPT ![w] = x]
    BY <1>3 DEF Look
  <2> HIDE DEF x
  <2>7. work' \in [Workers -> Work]
    BY <1>0, <2>4, <2>5, <2>6
  <2>8. QED BY <1>0, <2>2, <2>7 DEF TypeOK, Ledger!TypeOK
<1>4. ASSUME NEW w \in Workers, Settle(w)
      PROVE  TypeOK'
  <2>1. /\ work[w].stage = "settle" /\ UNCHANGED <<referral, qualified, blocked>>
        /\ work' = [work EXCEPT ![w] = NextOf(w)]
    BY <1>4 DEF Settle
  <2>2. work[w].key \in Rewards /\ work[w].verdict \in Ledger!Statuses
    <3>1. work[w] \in Work
      BY <1>0
    <3>2. QED BY <2>1, <3>1, ReferralAssumption DEF Work
  <2>3. PICK status \in Ledger!Statuses : Ledger!Record(work[w].key, status)
    BY <1>4, <2>2 DEF Settle, Ledger!Statuses
  <2>4. Ledger!TypeOK'
    BY <1>0, <2>2, <2>3, RecordTyped
  <2>5. work' \in [Workers -> Work]
    BY <1>0, <2>1, NextEarned
  <2>6. QED BY <1>0, <2>1, <2>4, <2>5 DEF TypeOK
<1>5. ASSUME NEW w \in Workers, NEW k \in Rewards, Release(w, k)
      PROVE  TypeOK'
  <2>1. Ledger!TypeOK'
    BY <1>0, <1>5, RecordTyped DEF Release, Ledger!Statuses
  <2>2. [stage |-> "look", left |-> 0, key |-> k, limits |-> FALSE] \in Work
    BY DEF Work
  <2>3. work' \in [Workers -> Work] /\ UNCHANGED <<referral, qualified, blocked>>
    BY <1>0, <1>5, <2>2 DEF Release
  <2>4. QED BY <1>0, <2>1, <2>3 DEF TypeOK
<1>6. ASSUME NEW r \in Referrals, Reject(r)
      PROVE  TypeOK'
  BY <1>0, <1>6 DEF Reject, TypeOK, Ledger!TypeOK
<1>7. ASSUME NEW w \in Workers, Die(w)
      PROVE  TypeOK'
  <2>1. [stage |-> Idle] \in Work
    BY DEF Work
  <2>2. work' \in [Workers -> Work]
    BY <1>0, <1>7, <2>1 DEF Die
  <2>3. QED BY <1>0, <1>7, <2>2 DEF Die, TypeOK, Ledger!TypeOK
<1>8. ASSUME NEW u \in Users, Block(u)
      PROVE  TypeOK'
  BY <1>0, <1>8 DEF Block, TypeOK, Ledger!TypeOK
<1>9. CASE UNCHANGED vars
  BY <1>0, <1>9 DEF vars, TypeOK, Ledger!TypeOK
<1>10. QED
  BY <1>1, <1>2, <1>3, <1>4, <1>5, <1>6, <1>7, <1>8, <1>9 DEF Next

LEMMA RewardInvariant == Spec => []RewardInv
<1>1. Init => RewardInv
  <2> SUFFICES ASSUME Init PROVE RewardInv
      OBVIOUS
  <2>1. TypeOK /\ PaidAsGranted /\ RewardIsEarned
    BY DEF Init, Ledger!Init, TypeOK, Ledger!TypeOK, Ledger!Statuses, Work, PaidAsGranted,
           Ledger!PaidAsGranted, RewardIsEarned
  <2>2. Sole /\ InHand /\ Counted
    BY ReferralAssumption DEF Init, Sole, InHand, Counted
  <2>3. QED BY <2>1, <2>2 DEF RewardInv
<1>2. RewardInv /\ [Next]_vars => RewardInv'
  BY TypeStep, RewardStep
<1>3. QED BY <1>1, <1>2, PTL DEF Spec

\* The variables of the module keep their types.
THEOREM TypeCorrect == Spec => []TypeOK
<1>1. RewardInv => TypeOK
  BY DEF RewardInv
<1>2. QED BY <1>1, RewardInvariant, PTL

\* No reward is made for a referral that has not qualified, or in a cycle that
\* has not been reached, however referrals come and go and calls overlap.
THEOREM Earnings == Spec => []RewardIsEarned
<1>1. RewardInv => RewardIsEarned
  BY DEF RewardInv
<1>2. QED BY <1>1, RewardInvariant, PTL

\* A reward is paid when its row is marked granted, and only once, whatever
\* calls overlap, die and are repeated.
THEOREM PaidOnce == Spec => []PaidAsGranted
<1>1. RewardInv => PaidAsGranted
  BY DEF RewardInv
<1>2. QED BY <1>1, RewardInvariant, PTL

\* A reward that is held stays held until an administrator releases it.
THEOREM Releases == Spec => HeldUntilReleased
<1>1. RewardInv /\ [Next]_vars =>
        \A k \in Rewards : reward[k] = "review_required" =>
            \/ reward'[k] = reward[k]
            \/ \E w \in Workers : Release(w, k)
  BY TypeStep, RewardStep DEF Kept
<1>2. QED BY <1>1, RewardInvariant, PTL DEF Spec, HeldUntilReleased

-----------------------------------------------------------------------------
\* Promo codes and missions.
LEMMA GrowthGiven ==
    /\ IsFiniteSet(Redemptions) /\ IsFiniteSet(Events)
    /\ CodeOf \in [Redemptions -> Codes] /\ Discounts \cap Empty = {}
    /\ OrderOf \in [Redemptions -> Orders \cup {None}]
    /\ None \notin Orders /\ None \notin Redemptions
    /\ Places \in [Codes -> Nat] /\ PerUser \in [Codes -> Nat]
    /\ MissionOf \in [Events -> Missions] /\ Target \in Nat \ {0} /\ Worth \in [Events -> Nat]
    /\ Events \cap Missions = {} /\ Redemptions \cap Missions = {}
    /\ Idle \notin {"reserved", "granting", "granted", "refused", "fulfil", "asking"}
  BY GrowthAssumption

\* The instances have their own names for what their modules take from FiniteSets.
LEMMA SameCounts ==
    ASSUME NEW S
    PROVE  Promo!Cardinality(S) = Cardinality(S) /\ Mission!Cardinality(S) = Cardinality(S)
<1>1. Promo!Cardinality(S) = Cardinality(S)
  BY DEF Promo!Cardinality, Promo!IsFiniteSet, Cardinality, IsFiniteSet
<1>2. Mission!Cardinality(S) = Cardinality(S)
  BY DEF Mission!Cardinality, Mission!IsFiniteSet, Cardinality, IsFiniteSet
<1>3. QED BY <1>1, <1>2

LEMMA SameSums ==
    ASSUME NEW f, NEW S
    PROVE  Mission!SumFunctionOnSet(f, S) = SumFunctionOnSet(f, S)
<1>1. Mission!SumFunctionOnSet(f, S) = Fold(f, S)[S]
  BY DEF Mission!SumFunctionOnSet, Mission!FoldFunctionOnSet, Mission!MapThenFoldSet,
         Fold, FoldStep, Pick
<1>2. QED BY <1>1, SumIsFold

LEMMA SameGrants ==
    ASSUME NEW k, NEW answer, Promo!Ledger!Grant(k, answer) \/ Mission!Ledger!Grant(k, answer)
    PROVE  Shared!Grant(k, answer)
  BY DEF Promo!Ledger!Grant, Promo!Ledger!Answered, Promo!Ledger!Record,
         Mission!Ledger!Grant, Mission!Ledger!Answered, Mission!Ledger!Record,
         Shared!Grant, Shared!Answered, Shared!Record

\* Each reward is paid when its row says so, and once.
SharedInv == Shared!TypeOK /\ Shared!PaidAsGranted

LEMMA PaidIs ==
    ASSUME SharedInv, NEW k \in Paying
    PROVE  paid[k] \in {0, 1} /\ (paid[k] = 1 <=> grant[k] = "granted")
  BY DEF SharedInv, Shared!PaidAsGranted

\* What one request for a reward may change.
Given(k, answer) ==
    /\ SharedInv'
    /\ \A j \in Paying \ {k} : paid'[j] = paid[j]
    /\ paid[k] = 1 => paid'[k] = 1
    /\ answer = "granted" => paid'[k] = 1

LEMMA GrantGives ==
    ASSUME SharedInv, NEW k \in Paying, NEW answer, Shared!Grant(k, answer)
    PROVE  Given(k, answer)
<1>1. CASE UNCHANGED <<grant, paid>> /\ answer \in {grant[k], "failed"}
  <2>1. SharedInv'
    BY <1>1 DEF SharedInv, Shared!TypeOK, Shared!PaidAsGranted
  <2>2. QED BY <1>1, <2>1, PaidIs DEF Given
<1>2. CASE ~Shared!Answered(k) /\ answer \in {"granted", "failed"} /\ Shared!Record(k, answer)
  <2>1. paid[k] = 0
    BY <1>2, PaidIs DEF Shared!Answered
  <2>2. /\ grant' = [grant EXCEPT ![k] = answer] /\ answer \in Shared!Statuses
        /\ paid' = IF answer = "granted" THEN [paid EXCEPT ![k] = 1] ELSE paid
    BY <1>2, <2>1 DEF Shared!Record, Shared!Statuses
  <2>3. /\ grant' \in [Paying -> Shared!Statuses] /\ paid' \in [Paying -> Nat]
        /\ grant'[k] = answer /\ paid'[k] = IF answer = "granted" THEN 1 ELSE 0
        /\ \A j \in Paying \ {k} : grant'[j] = grant[j] /\ paid'[j] = paid[j]
    BY <2>1, <2>2 DEF SharedInv, Shared!TypeOK
  <2>4. SharedInv'
    BY <2>3 DEF SharedInv, Shared!TypeOK, Shared!PaidAsGranted
  <2>5. QED BY <2>1, <2>3, <2>4 DEF Given
<1>3. QED BY <1>1, <1>2 DEF Shared!Grant

LEMMA SharedStays ==
    ASSUME SharedInv, UNCHANGED <<grant, paid>>
    PROVE  SharedInv'
  BY DEF SharedInv, Shared!TypeOK, Shared!PaidAsGranted

-----------------------------------------------------------------------------
\* What the call that serves a redemption knows of it, by its stage, and what the
\* redemption's status says of what it gave.
Knows(d) ==
    /\ redeeming[d] # Idle => redemption[d] \notin {"none", "completed"}
    /\ redeeming[d] \in {"granting", "granted", "refused"} => ~Promo!Discounted(d)
    /\ redeeming[d] = "granted" => paid[d] = 1
    /\ paid[d] = 1 => ~Promo!Discounted(d) /\ ~Promo!GivesNothing(d)
    /\ discounted[d] \in {0, 1}
    /\ discounted[d] = 1 => redemption[d] = "completed" /\ Promo!Discounted(d)
    /\ redemption[d] = "completed" =>
         IF Promo!Discounted(d) THEN discounted[d] = 1
         ELSE Promo!GivesNothing(d) \/ paid[d] = 1

\* The redemptions that discounted an order; it carries the discount of one of them.
AppliedTo(o) == {d \in Redemptions : discounted[d] = 1 /\ OrderOf[d] = o}
CarriesOne(o) == IF AppliedTo(o) = {} THEN carries[o] = None ELSE carries[o] \in AppliedTo(o)

PromoInv ==
    /\ Promo!TypeOK
    /\ \A d \in Redemptions : Knows(d)
    /\ \A o \in Orders : CarriesOne(o)
    /\ Promo!PromoLimit

\* What a step of redemptions keeps.
PromoKeeps ==
    /\ SharedInv' /\ PromoInv'
    /\ \A m \in Missions : paid'[m] = paid[m]

LEMMA PromoTyped ==
    ASSUME PromoInv
    PROVE  /\ code \in [Codes -> [reserved : Nat, completed : Nat]]
           /\ redemption \in [Redemptions ->
                    {"none", "reserved", "granting", "completed", "failed", "retrying"}]
           /\ due \subseteq Orders /\ discounted \in [Redemptions -> Nat]
           /\ carries \in [Orders -> Redemptions \cup {None}]
           /\ redeeming \in [Redemptions -> {Idle, "reserved", "granting", "granted", "refused"}]
  BY DEF PromoInv, Promo!TypeOK

\* The redemptions but d know what they knew.
LEMMA OthersKnew ==
    ASSUME PromoInv, NEW d, Knows(d)',
           \A e \in Redemptions \ {d} : /\ redeeming'[e] = redeeming[e]
                                        /\ redemption'[e] = redemption[e]
                                        /\ discounted'[e] = discounted[e]
                                        /\ paid'[e] = paid[e]
    PROVE  \A e \in Redemptions : Knows(e)'
<1> SUFFICES ASSUME NEW e \in Redemptions \ {d}
             PROVE  Knows(e)'
    OBVIOUS
<1>1. Knows(e)
  BY DEF PromoInv
<1>2. QED BY <1>1 DEF Knows, Promo!Discounted, Promo!GivesNothing

\* No order is discounted.
LEMMA OrdersStay ==
    ASSUME PromoInv, UNCHANGED <<carries, discounted>>
    PROVE  \A o \in Orders : CarriesOne(o)'
<1>1. \A o : AppliedTo(o)' = AppliedTo(o)
  BY DEF AppliedTo
<1>2. QED BY <1>1 DEF PromoInv, CarriesOne

\* The rows of a code, those that are completed, and those of one user.
Taken(c) == {d \in Redemptions : CodeOf[d] = c /\ redemption[d] # "none"}
Ended(c) == {d \in Redemptions : CodeOf[d] = c /\ redemption[d] = "completed"}
TakenBy(c, u) == {d \in Redemptions : CodeOf[d] = c /\ redemption[d] # "none" /\ UserOf[d] = u}

LimitOf(c) ==
    /\ code[c].reserved = Cardinality(Taken(c)) /\ code[c].reserved <= Places[c]
    /\ code[c].completed = Cardinality(Ended(c))
    /\ \A d \in Taken(c) : Cardinality(TakenBy(c, UserOf[d])) <= PerUser[c]

LEMMA RowsAre ==
    ASSUME NEW c
    PROVE  /\ Promo!Rows(c) = Taken(c) /\ Promo!Completed(c) = Ended(c)
           /\ \A u : Promo!RowsOf(c, u) = TakenBy(c, u)
  BY DEF Promo!Rows, Promo!Completed, Promo!RowsOf, Taken, Ended, TakenBy

LEMMA LimitIs == Promo!PromoLimit <=> \A c \in Codes : LimitOf(c)
  BY RowsAre, SameCounts DEF Promo!PromoLimit, LimitOf

LEMMA CountsAre ==
    ASSUME NEW c, NEW u
    PROVE  /\ IsFiniteSet(Taken(c)) /\ Cardinality(Taken(c)) \in Nat
           /\ IsFiniteSet(Ended(c)) /\ Cardinality(Ended(c)) \in Nat
           /\ IsFiniteSet(TakenBy(c, u)) /\ Cardinality(TakenBy(c, u)) \in Nat
<1>1. /\ Taken(c) \subseteq Redemptions /\ Ended(c) \subseteq Redemptions
      /\ TakenBy(c, u) \subseteq Redemptions
  BY DEF Taken, Ended, TakenBy
<1>2. QED BY <1>1, GrowthGiven, FS_Subset, FS_CardinalityType

LEMMA LimitNext ==
    ASSUME \A c \in Codes : LimitOf(c)'
    PROVE  Promo!PromoLimit'
<1>1. \A c : /\ Promo!Rows(c)' = Taken(c)' /\ Promo!Completed(c)' = Ended(c)'
             /\ \A u : Promo!RowsOf(c, u)' = TakenBy(c, u)'
  BY DEF Promo!Rows, Promo!Completed, Promo!RowsOf, Taken, Ended, TakenBy
<1>2. QED BY <1>1, SameCounts DEF Promo!PromoLimit, LimitOf

\* A redemption goes on without being taken up or completed.
LEMMA LimitStays ==
    ASSUME PromoInv, code' = code,
           \A d \in Redemptions : /\ redemption'[d] = "none" <=> redemption[d] = "none"
                                  /\ redemption'[d] = "completed" <=> redemption[d] = "completed"
    PROVE  Promo!PromoLimit'
<1>1. \A c \in Codes : LimitOf(c)
  BY LimitIs DEF PromoInv
<1>2. \A c : /\ Taken(c)' = Taken(c) /\ Ended(c)' = Ended(c)
             /\ \A u : TakenBy(c, u)' = TakenBy(c, u)
  BY DEF Taken, Ended, TakenBy
<1>3. \A c \in Codes : LimitOf(c)'
  BY <1>1, <1>2 DEF LimitOf
<1>4. QED BY <1>3, LimitNext

\* A redemption is completed: its code's counter goes up with it.
LEMMA LimitCompletes ==
    ASSUME PromoInv, NEW d \in Redemptions, redemption[d] \notin {"none", "completed"},
           redemption' = [redemption EXCEPT ![d] = "completed"],
           code' = [code EXCEPT ![CodeOf[d]].completed = @ + 1]
    PROVE  /\ code' \in [Codes -> [reserved : Nat, completed : Nat]]
           /\ Promo!PromoLimit'
<1> DEFINE b == CodeOf[d]
<1>1. b \in Codes /\ code[b] \in [reserved : Nat, completed : Nat]
  BY GrowthGiven, PromoTyped
<1>2. PICK row \in [reserved : Nat, completed : Nat] :
        row = [code[b] EXCEPT !.completed = @ + 1]
  BY <1>1
<1>3. /\ code' = [code EXCEPT ![b] = row]
      /\ row.reserved = code[b].reserved /\ row.completed = code[b].completed + 1
  BY <1>1, <1>2
<1>4. /\ code' \in [Codes -> [reserved : Nat, completed : Nat]]
      /\ code'[b] = row /\ \A c \in Codes \ {b} : code'[c] = code[c]
  BY <1>1, <1>3, PromoTyped
<1>5. /\ redemption'[d] = "completed"
      /\ \A e \in Redemptions \ {d} : redemption'[e] = redemption[e]
  BY PromoTyped
<1>6. ASSUME NEW c \in Codes
      PROVE  LimitOf(c)'
  <2>1. /\ Taken(c)' = Taken(c) /\ \A u : TakenBy(c, u)' = TakenBy(c, u)
        /\ Ended(c)' = IF c = b THEN Ended(c) \cup {d} ELSE Ended(c)
        /\ d \notin Ended(c)
    BY <1>5 DEF Taken, Ended, TakenBy
  <2>2. LimitOf(c)
    BY LimitIs DEF PromoInv
  <2>3. c = b => Cardinality(Ended(c)') = Cardinality(Ended(c)) + 1
    BY <2>1, CountsAre, FS_AddElement
  <2>4. QED BY <1>3, <1>4, <2>1, <2>2, <2>3 DEF LimitOf
<1>7. QED BY <1>4, <1>6, LimitNext

\* A place is taken, for a code and a user with places left.
LEMMA ReserveKeeps ==
    ASSUME SharedInv, PromoInv, NEW d \in Redemptions, Promo!Reserve(d)
    PROVE  PromoKeeps
<1> USE DEF Promo!Stage, Promo!Turns, Promo!Becomes
<1> DEFINE b == CodeOf[d]
           v == UserOf[d]
<1>1. /\ redeeming[d] = Idle /\ redemption[d] = "none"
      /\ code' = [code EXCEPT ![b].reserved = @ + 1]
      /\ redemption' = [redemption EXCEPT ![d] = "reserved"]
      /\ redeeming' = [redeeming EXCEPT ![d] = "reserved"]
      /\ UNCHANGED <<due, carries, discounted, grant, paid>>
  BY DEF Promo!Reserve
<1>2. Cardinality(TakenBy(b, v)) < PerUser[b] /\ code[b].reserved < Places[b]
  BY RowsAre, SameCounts DEF Promo!Reserve, Promo!Available
<1>3. b \in Codes /\ code[b] \in [reserved : Nat, completed : Nat]
  BY GrowthGiven, PromoTyped
<1>4. PICK row \in [reserved : Nat, completed : Nat] :
        row = [code[b] EXCEPT !.reserved = @ + 1]
  <2>1. [code[b] EXCEPT !.reserved = @ + 1] \in [reserved : Nat, completed : Nat]
    BY <1>3
  <2>2. QED BY <2>1
<1>5. /\ code' = [code EXCEPT ![b] = row]
      /\ row.reserved = code[b].reserved + 1 /\ row.completed = code[b].completed
  BY <1>1, <1>3, <1>4
<1>6. /\ code' \in [Codes -> [reserved : Nat, completed : Nat]]
      /\ code'[b] = row /\ \A c \in Codes \ {b} : code'[c] = code[c]
  BY <1>3, <1>5, PromoTyped
<1>7. /\ redemption'[d] = "reserved" /\ redeeming'[d] = "reserved"
      /\ \A e \in Redemptions \ {d} : redemption'[e] = redemption[e] /\ redeeming'[e] = redeeming[e]
  BY <1>1, PromoTyped
<1>8. Promo!TypeOK'
  BY <1>1, <1>6, PromoTyped DEF Promo!TypeOK
<1>9. ASSUME NEW c \in Codes
      PROVE  LimitOf(c)'
  <2>1. /\ Ended(c)' = Ended(c) /\ d \notin Taken(c)
        /\ Taken(c)' = IF c = b THEN Taken(c) \cup {d} ELSE Taken(c)
        /\ \A u : /\ d \notin TakenBy(c, u)
                  /\ TakenBy(c, u)' = IF c = b /\ u = v THEN TakenBy(c, u) \cup {d}
                                      ELSE TakenBy(c, u)
    BY <1>1, <1>7 DEF Taken, Ended, TakenBy
  <2>2. LimitOf(c)
    BY LimitIs DEF PromoInv
  <2>3. CASE c = b
    <3>1. Cardinality(Taken(c)') = Cardinality(Taken(c)) + 1
      BY <2>1, <2>3, CountsAre, FS_AddElement
    <3>2. /\ code'[c].reserved = Cardinality(Taken(c)') /\ code'[c].reserved <= Places[c]
          /\ code'[c].completed = Cardinality(Ended(c)')
      BY <1>2, <1>3, <1>5, <1>6, <2>1, <2>2, <2>3, <3>1, GrowthGiven DEF LimitOf
    <3>3. Cardinality(TakenBy(c, v)') <= PerUser[c]
      <4>1. Cardinality(TakenBy(c, v)') = Cardinality(TakenBy(c, v)) + 1
        BY <2>1, <2>3, CountsAre, FS_AddElement
      <4>2. Cardinality(TakenBy(c, v)) \in Nat /\ PerUser[c] \in Nat
        BY CountsAre, GrowthGiven
      <4>3. QED BY <1>2, <2>3, <4>1, <4>2
    <3>4. ASSUME NEW e \in Taken(c)'
          PROVE  Cardinality(TakenBy(c, UserOf[e])') <= PerUser[c]
      <4>1. CASE UserOf[e] = v
        BY <3>3, <4>1
      <4>2. CASE UserOf[e] # v
        <5>1. e \in Taken(c) /\ TakenBy(c, UserOf[e])' = TakenBy(c, UserOf[e])
          BY <2>1, <2>3, <3>4, <4>2
        <5>2. QED BY <2>2, <5>1 DEF LimitOf
      <4>3. QED BY <4>1, <4>2
    <3>5. QED BY <3>2, <3>4 DEF LimitOf
  <2>4. CASE c # b
    BY <1>6, <2>1, <2>2, <2>4 DEF LimitOf
  <2>5. QED BY <2>3, <2>4
<1>10. Knows(d)'
  <2>1. Knows(d) /\ paid'[d] = paid[d] /\ discounted'[d] = discounted[d]
    BY <1>1 DEF PromoInv
  <2>2. QED BY <1>1, <1>7, <2>1, GrowthGiven DEF Knows, Promo!Discounted, Promo!GivesNothing
<1>11. \A e \in Redemptions : Knows(e)'
  BY <1>1, <1>7, <1>10, OthersKnew
<1>12. SharedInv'
  BY <1>1, SharedStays
<1>13. QED BY <1>1, <1>8, <1>9, <1>11, <1>12, LimitNext, OrdersStay DEF PromoKeeps, PromoInv

\* The call of a redemption that is under way goes on and pays nothing.
LEMMA GoesOnKeeps ==
    ASSUME SharedInv, PromoInv, NEW d \in Redemptions,
           NEW status \in {"reserved", "granting", "completed", "failed", "retrying"},
           NEW stage \in {Idle, "reserved", "granting", "granted", "refused"},
           redemption' = [redemption EXCEPT ![d] = status],
           redeeming' = [redeeming EXCEPT ![d] = stage],
           redemption[d] # "none",
           status = "completed" <=> redemption[d] = "completed",
           stage # Idle => status # "completed",
           stage \in {"granting", "granted", "refused"} => ~Promo!Discounted(d),
           stage = "granted" => paid[d] = 1,
           UNCHANGED <<code, due, carries, discounted, grant, paid>>
    PROVE  PromoKeeps
<1>1. /\ redemption'[d] = status /\ redeeming'[d] = stage
      /\ \A e \in Redemptions \ {d} : redemption'[e] = redemption[e] /\ redeeming'[e] = redeeming[e]
  BY PromoTyped
<1>2. Promo!TypeOK'
  BY PromoTyped DEF Promo!TypeOK
<1>3. Promo!PromoLimit'
  BY <1>1, LimitStays
<1>4. Knows(d)'
  <2>1. Knows(d)
    BY DEF PromoInv
  <2>2. QED BY <1>1, <2>1 DEF Knows, Promo!Discounted, Promo!GivesNothing
<1>5. \A e \in Redemptions : Knows(e)'
  BY <1>1, <1>4, OthersKnew
<1>6. QED BY <1>2, <1>3, <1>5, SharedStays, OrdersStay DEF PromoKeeps, PromoInv

\* The redemption is completed: its reward is paid, its order is discounted now, or there
\* was nothing to give.
LEMMA CompletesKeeps ==
    ASSUME SharedInv, PromoInv, NEW d \in Redemptions, redeeming[d] # Idle,
           redemption' = [redemption EXCEPT ![d] = "completed"],
           code' = [code EXCEPT ![CodeOf[d]].completed = @ + 1],
           redeeming' = [redeeming EXCEPT ![d] = Idle],
           \/ /\ ~Promo!Discounted(d) /\ (redeeming[d] = "granted" \/ Promo!GivesNothing(d))
              /\ UNCHANGED <<carries, discounted>>
           \/ /\ Promo!Discounted(d) /\ OrderOf[d] \in Orders
              /\ discounted' = [discounted EXCEPT ![d] = @ + 1]
              /\ carries' = [carries EXCEPT ![OrderOf[d]] = d],
           UNCHANGED <<due, grant, paid>>
    PROVE  PromoKeeps
<1>1. Knows(d) /\ discounted[d] \in Nat
  BY PromoTyped DEF PromoInv
<1>2. redemption[d] \notin {"none", "completed"} /\ discounted[d] = 0
  BY <1>1 DEF Knows
<1>3. code' \in [Codes -> [reserved : Nat, completed : Nat]] /\ Promo!PromoLimit'
  BY <1>2, LimitCompletes
<1>4. /\ redemption'[d] = "completed" /\ redeeming'[d] = Idle
      /\ \A e \in Redemptions \ {d} : /\ redemption'[e] = redemption[e]
                                      /\ redeeming'[e] = redeeming[e]
                                      /\ discounted'[e] = discounted[e]
      /\ discounted' \in [Redemptions -> Nat]
      /\ discounted'[d] = IF Promo!Discounted(d) THEN 1 ELSE 0
  BY <1>2, PromoTyped
<1>5. Promo!TypeOK'
  <2>1. carries' \in [Orders -> Redemptions \cup {None}]
    BY PromoTyped
  <2>2. QED BY <1>3, <1>4, <2>1, PromoTyped DEF Promo!TypeOK
<1>6. paid[d] \in {0, 1}
  BY PaidIs DEF Paying
<1>7. Knows(d)'
  BY <1>1, <1>4, <1>6, GrowthGiven DEF Knows, Promo!Discounted, Promo!GivesNothing
<1>8. \A e \in Redemptions : Knows(e)'
  BY <1>4, <1>7, OthersKnew
<1>9. \A o \in Orders : CarriesOne(o)'
  <2>1. CASE UNCHANGED <<carries, discounted>>
    BY <2>1, OrdersStay
  <2>2. CASE /\ Promo!Discounted(d) /\ OrderOf[d] \in Orders
             /\ carries' = [carries EXCEPT ![OrderOf[d]] = d]
    <3>1. \A o : AppliedTo(o)' = IF o = OrderOf[d] THEN AppliedTo(o) \cup {d} ELSE AppliedTo(o)
      BY <1>2, <1>4, <2>2 DEF AppliedTo
    <3>2. \A o \in Orders : carries'[o] = IF o = OrderOf[d] THEN d ELSE carries[o]
      BY <2>2, PromoTyped
    <3>3. QED BY <3>1, <3>2 DEF CarriesOne, PromoInv
  <2>3. QED BY <2>1, <2>2
<1>10. QED BY <1>3, <1>5, <1>8, <1>9, SharedStays DEF PromoKeeps, PromoInv

\* The reward is asked for.
LEMMA AskKeeps ==
    ASSUME SharedInv, PromoInv, NEW d \in Redemptions, Promo!AskReward(d)
    PROVE  PromoKeeps
<1> USE DEF Promo!Stage, Promo!Turns
<1>1. PICK answer : /\ Promo!Ledger!Grant(d, answer)
                    /\ redeeming' = [redeeming EXCEPT
                         ![d] = IF answer = "granted" THEN "granted" ELSE "refused"]
  BY DEF Promo!AskReward
<1>2. redeeming[d] = "granting" /\ UNCHANGED <<code, redemption, due, carries, discounted>>
  BY DEF Promo!AskReward
<1>3. Given(d, answer)
  BY <1>1, SameGrants, GrantGives DEF Paying
<1>4. /\ redeeming'[d] = IF answer = "granted" THEN "granted" ELSE "refused"
      /\ \A e \in Redemptions \ {d} : redeeming'[e] = redeeming[e]
  BY <1>1, PromoTyped
<1>5. Promo!TypeOK'
  BY <1>1, <1>2, PromoTyped DEF Promo!TypeOK
<1>6. Promo!PromoLimit'
  BY <1>2, LimitStays
<1>7. Knows(d)'
  <2>1. Knows(d) /\ ~Promo!Discounted(d) /\ ~Promo!GivesNothing(d)
    BY <1>2, GrowthGiven DEF PromoInv, Knows, Promo!AskReward
  <2>2. /\ redemption'[d] = redemption[d] /\ redemption[d] \notin {"none", "completed"}
        /\ discounted'[d] = discounted[d]
        /\ redeeming'[d] = "granted" => paid'[d] = 1
    BY <1>2, <1>3, <1>4, <2>1, GrowthGiven DEF Knows, Given
  <2>3. QED BY <2>1, <2>2 DEF Knows, Promo!Discounted, Promo!GivesNothing
<1>8. \A e \in Redemptions : Knows(e)'
  BY <1>2, <1>3, <1>4, <1>7, OthersKnew DEF Given, Paying
<1>9. \A m \in Missions : paid'[m] = paid[m]
  BY <1>3, GrowthGiven DEF Given, Paying
<1>10. \A o \in Orders : CarriesOne(o)'
  BY <1>2, OrdersStay
<1>11. QED BY <1>3, <1>5, <1>6, <1>8, <1>9, <1>10 DEF PromoKeeps, PromoInv, Given

LEMMA PromoStep ==
    ASSUME SharedInv, PromoInv, Promo!Next
    PROVE  PromoKeeps
<1> USE DEF Promo!Stage, Promo!Turns, Promo!Becomes
<1>0. ASSUME NEW o \in Orders, Promo!OrderEnds(o) \/ Promo!OrderReturns(o)
      PROVE  PromoKeeps
  <2>1. /\ due' \subseteq Orders
        /\ UNCHANGED <<code, redemption, carries, discounted, redeeming, grant, paid>>
    BY <1>0, PromoTyped DEF Promo!OrderEnds, Promo!OrderReturns
  <2>2. Promo!TypeOK' /\ Promo!PromoLimit'
    BY <2>1, PromoTyped, LimitStays DEF Promo!TypeOK
  <2>3. \A e \in Redemptions : Knows(e)'
    BY <2>1 DEF PromoInv, Knows, Promo!Discounted, Promo!GivesNothing
  <2>4. QED BY <2>1, <2>2, <2>3, SharedStays, OrdersStay DEF PromoKeeps, PromoInv
<1>1. SUFFICES ASSUME NEW d \in Redemptions,
                      \/ Promo!Reserve(d) \/ Promo!Resume(d) \/ Promo!SetGranting(d)
                      \/ Promo!AskReward(d) \/ Promo!Complete(d) \/ Promo!Fail(d)
                      \/ Promo!ApplyDiscount(d) \/ Promo!Die(d)
               PROVE  PromoKeeps
  BY <1>0 DEF Promo!Next
<1>2. Knows(d)
  BY DEF PromoInv
<1>3. CASE Promo!Reserve(d)
  BY <1>3, ReserveKeeps
<1>4. CASE Promo!Resume(d)
  <2>1. PICK status \in {"reserved", "granting", "completed", "failed", "retrying"} :
          /\ status = IF redemption[d] \in {"failed", "completed"} THEN "retrying"
                      ELSE redemption[d]
          /\ redemption' = [redemption EXCEPT ![d] = status]
          /\ redemption[d] \notin {"none", "completed"}
    BY <1>4, PromoTyped DEF Promo!Resume, Promo!ToBeContinued
  <2>2. /\ redeeming' = [redeeming EXCEPT ![d] = "reserved"]
        /\ UNCHANGED <<code, due, carries, discounted, grant, paid>>
    BY <1>4 DEF Promo!Resume
  <2>3. QED BY <2>1, <2>2, GoesOnKeeps
<1>5. CASE Promo!SetGranting(d)
  <2>1. /\ redemption[d] \notin {"none", "completed"} /\ ~Promo!Discounted(d)
        /\ redemption' = [redemption EXCEPT ![d] = "granting"]
        /\ redeeming' = [redeeming EXCEPT ![d] = "granting"]
        /\ UNCHANGED <<code, due, carries, discounted, grant, paid>>
    BY <1>2, <1>5, GrowthGiven DEF Promo!SetGranting, Knows
  <2>2. QED BY <2>1, GoesOnKeeps
<1>6. CASE Promo!AskReward(d)
  BY <1>6, AskKeeps
<1>7. CASE Promo!Complete(d)
  <2>1. ~Promo!Discounted(d)
    BY <1>2, <1>7 DEF Promo!Complete, Knows
  <2>2. QED BY <1>7, <2>1, GrowthGiven, CompletesKeeps DEF Promo!Complete
<1>8. CASE Promo!Fail(d) \/ (Promo!ApplyDiscount(d) /\ OrderOf[d] \notin due)
  <2>1. /\ redemption[d] \notin {"none", "completed"}
        /\ redemption' = [redemption EXCEPT ![d] = "failed"]
        /\ redeeming' = [redeeming EXCEPT ![d] = Idle]
        /\ UNCHANGED <<code, due, carries, discounted, grant, paid>>
    BY <1>2, <1>8, GrowthGiven DEF Promo!Fail, Promo!ApplyDiscount, Knows
  <2>2. QED BY <2>1, GrowthGiven, GoesOnKeeps
<1>9. CASE Promo!ApplyDiscount(d) /\ OrderOf[d] \in due
  <2>1. OrderOf[d] \in Orders
    BY <1>9, PromoTyped
  <2>2. QED BY <1>9, <2>1, GrowthGiven, CompletesKeeps DEF Promo!ApplyDiscount
<1>10. CASE Promo!Die(d)
  <2>1. PICK status \in {"reserved", "granting", "completed", "failed", "retrying"} :
          status = redemption[d] /\ redemption' = [redemption EXCEPT ![d] = status]
    BY <1>2, <1>10, PromoTyped DEF Promo!Die, Knows
  <2>2. /\ redeeming' = [redeeming EXCEPT ![d] = Idle]
        /\ redemption[d] # "none" /\ UNCHANGED <<code, due, carries, discounted, grant, paid>>
    BY <1>2, <1>10 DEF Promo!Die, Knows
  <2>3. QED BY <2>1, <2>2, GrowthGiven, GoesOnKeeps
<1>11. QED BY <1>1, <1>3, <1>4, <1>5, <1>6, <1>7, <1>8, <1>9, <1>10

-----------------------------------------------------------------------------
\* The events that have counted for a mission, what they are worth, and whether that is
\* enough.
CountedFor(m) == {e \in counted : MissionOf[e] = m}
Gained(m) == SumFunctionOnSet(Worth, CountedFor(m))
Done(m) == Gained(m) >= Target

\* A mission's progress is no more than what has counted for it; whatever says that it
\* is done, or that its reward was granted, is right.
MissionHolds(m) ==
    /\ progress[m].value <= Gained(m)
    /\ progress[m].status \in {"completed", "reward_pending", "reward_granted"} => Done(m)
    /\ progress[m].status = "reward_granted" => paid[m] = 1 \/ m \in Unrewarded
    /\ paid[m] = 1 => Done(m) /\ m \notin Unrewarded

\* So is a call for its reward.
CallHolds(i) ==
    /\ serving[i] # Idle => Done(Mission!About(i))
    /\ serving[i] = "asking" => Mission!About(i) \notin Unrewarded
    /\ serving[i] = "granted" => paid[Mission!About(i)] = 1

MissionInv ==
    /\ Mission!TypeOK
    /\ \A m \in Missions : MissionHolds(m)
    /\ \A i \in Mission!Calls : CallHolds(i)

MissionKeeps ==
    /\ SharedInv' /\ MissionInv'
    /\ \A d \in Redemptions : paid'[d] = paid[d]

ProgressRow == [value : 0..Target,
                status : {"not_started", "in_progress", "completed",
                          "reward_pending", "reward_granted"}]

LEMMA MissionTyped ==
    ASSUME MissionInv
    PROVE  /\ progress \in [Missions -> ProgressRow] /\ counted \subseteq Events
           /\ serving \in [Mission!Calls -> {Idle, "fulfil", "asking", "granted", "refused"}]
           /\ \A i \in Mission!Calls : Mission!About(i) \in Missions
           /\ \A m \in Missions : m \in Mission!Calls /\ Mission!About(m) = m
           /\ \A e \in Events : e \in Mission!Calls /\ Mission!About(e) = MissionOf[e]
  BY GrowthGiven DEF MissionInv, Mission!TypeOK, ProgressRow, Mission!About, Mission!Calls

LEMMA CountedForIs ==
    ASSUME counted \subseteq Events, NEW m
    PROVE  IsFiniteSet(CountedFor(m)) /\ CountedFor(m) \subseteq Events /\ Gained(m) \in Int
<1>1. CountedFor(m) \subseteq Events
  BY DEF CountedFor
<1>2. IsFiniteSet(CountedFor(m)) /\ \A e \in CountedFor(m) : Worth[e] \in Int
  BY <1>1, GrowthGiven, FS_Subset
<1>3. QED BY <1>1, <1>2, SumIsInt DEF Gained

\* A step that counts no event.
LEMMA MissionStays ==
    ASSUME MissionInv, SharedInv', counted' = counted, Mission!TypeOK',
           \A d \in Redemptions : paid'[d] = paid[d],
           \A m \in Missions :
               /\ progress'[m].value = progress[m].value
               /\ \/ progress'[m].status = progress[m].status
                  \/ progress'[m].status \in {"reward_pending", "reward_granted"} /\ Done(m)
               /\ progress'[m].status = "reward_granted" => paid'[m] = 1 \/ m \in Unrewarded
               /\ paid'[m] = 1 => Done(m) /\ m \notin Unrewarded,
           \A i \in Mission!Calls :
               /\ serving'[i] # Idle => Done(Mission!About(i))
               /\ serving'[i] = "asking" => Mission!About(i) \notin Unrewarded
               /\ serving'[i] = "granted" => paid'[Mission!About(i)] = 1
    PROVE  MissionKeeps
<1>1. \A m : CountedFor(m)' = CountedFor(m) /\ Gained(m)' = Gained(m) /\ (Done(m)' <=> Done(m))
  BY DEF CountedFor, Gained, Done
<1>2. \A m \in Missions : MissionHolds(m)'
  BY <1>1 DEF MissionInv, MissionHolds
<1>3. \A i \in Mission!Calls : CallHolds(i)'
  BY <1>1 DEF CallHolds, Mission!About, Mission!Calls
<1>4. QED BY <1>2, <1>3 DEF MissionKeeps, MissionInv, Mission!Calls

\* An event counts.
LEMMA ApplyKeeps ==
    ASSUME SharedInv, MissionInv, NEW e \in Events, Mission!Apply(e)
    PROVE  MissionKeeps
<1> DEFINE b == MissionOf[e]
           row == Mission!Advanced(b, Worth[e])
           n == progress[b].value + Worth[e]
<1>1. /\ e \notin counted /\ counted' = counted \cup {e} /\ progress[b].status # "reward_granted"
      /\ progress' = [progress EXCEPT ![b] = row] /\ UNCHANGED <<grant, paid>>
      /\ serving' = IF row.status = "completed" THEN [serving EXCEPT ![e] = "fulfil"] ELSE serving
  BY DEF Mission!Apply, Mission!Fresh, Mission!Closed, Mission!Moves
<1>2. /\ b \in Missions /\ progress[b].value \in 0..Target /\ Worth[e] \in Nat
      /\ e \in Mission!Calls /\ Mission!About(e) = b
  BY MissionTyped, GrowthGiven DEF ProgressRow
<1>3. /\ row \in ProgressRow
      /\ row.value <= n /\ row.status # "reward_granted"
      /\ row.status \in {"completed", "reward_pending"} => n >= Target
  <2>1. row = [value |-> IF n >= Target THEN Target ELSE n,
               status |-> IF ~(n >= Target) THEN "in_progress"
                          ELSE IF b \in AutoGrant THEN "completed" ELSE "reward_pending"]
    BY DEF Mission!Advanced
  <2>2. CASE n >= Target
    BY <1>2, <2>1, <2>2, GrowthGiven DEF ProgressRow
  <2>3. CASE ~(n >= Target)
    BY <1>2, <2>1, <2>3, GrowthGiven DEF ProgressRow
  <2>4. QED BY <2>2, <2>3
<1>4. progress'[b] = row /\ \A m \in Missions \ {b} : progress'[m] = progress[m]
  BY <1>1, <1>2, MissionTyped
<1>5. /\ \A m : m # b => CountedFor(m)' = CountedFor(m)
      /\ CountedFor(b)' = CountedFor(b) \cup {e} /\ e \notin CountedFor(b)
  BY <1>1 DEF CountedFor
<1>6. Gained(b)' = Gained(b) + Worth[e] /\ Gained(b) \in Int
  <2>1. /\ IsFiniteSet(CountedFor(b)) /\ Gained(b) \in Int
        /\ \A y \in CountedFor(b) \cup {e} : Worth[y] \in Int
    BY MissionTyped, CountedForIs, GrowthGiven
  <2>2. SumFunctionOnSet(Worth, CountedFor(b) \cup {e}) =
          SumFunctionOnSet(Worth, CountedFor(b)) + Worth[e]
    BY <1>5, <2>1, SumWithOneMore
  <2>3. QED BY <1>5, <2>1, <2>2 DEF Gained
<1>7. Gained(b)' >= n
  BY <1>2, <1>6 DEF MissionInv, MissionHolds
<1>8. \A m : Done(m) => Done(m)'
  <2>1. Done(b) => Done(b)'
    BY <1>2, <1>6, GrowthGiven DEF Done
  <2>2. \A m : m # b => (Done(m)' <=> Done(m))
    BY <1>5 DEF Done, Gained
  <2>3. QED BY <2>1, <2>2
<1>9. row.status \in {"completed", "reward_pending"} => Done(b)'
  BY <1>2, <1>3, <1>6, <1>7, GrowthGiven DEF Done
<1>10. \A m \in Missions : MissionHolds(m)'
  <2>1. ASSUME NEW m \in Missions \ {b}
        PROVE  MissionHolds(m)'
    <3>1. MissionHolds(m)
      BY DEF MissionInv
    <3>2. Gained(m)' = Gained(m)
      BY <1>5 DEF Gained
    <3>3. QED BY <1>1, <1>4, <1>8, <3>1, <3>2 DEF MissionHolds
  <2>2. MissionHolds(b)'
    <3>1. MissionHolds(b)
      BY <1>2 DEF MissionInv
    <3>2. row.value <= Gained(b)'
      BY <1>2, <1>3, <1>6, <1>7 DEF ProgressRow
    <3>3. QED BY <1>1, <1>3, <1>4, <1>8, <1>9, <3>1, <3>2 DEF MissionHolds
  <2>3. QED BY <2>1, <2>2
<1>11. \A i \in Mission!Calls : CallHolds(i)'
  <2> SUFFICES ASSUME NEW i \in Mission!Calls
               PROVE  CallHolds(i)'
      BY DEF Mission!Calls
  <2>1. CallHolds(i)
    BY DEF MissionInv
  <2>2. CASE serving'[i] = serving[i]
    BY <1>1, <1>8, <2>1, <2>2 DEF CallHolds, Mission!About
  <2>3. CASE serving'[i] # serving[i]
    <3>1. i = e /\ serving'[i] = "fulfil" /\ row.status = "completed"
      BY <1>1, <1>2, <2>3, MissionTyped
    <3>2. Done(b)' /\ Mission!About(i)' = b
      BY <1>2, <1>9, <3>1 DEF Mission!About
    <3>3. QED BY <3>1, <3>2 DEF CallHolds
  <2>4. QED BY <2>2, <2>3
<1>12. Mission!TypeOK'
  <2>1. progress' \in [Missions -> ProgressRow] /\ counted' \subseteq Events
    BY <1>1, <1>2, <1>3, MissionTyped
  <2>2. serving' \in [Mission!Calls -> {Idle, "fulfil", "asking", "granted", "refused"}]
    BY <1>1, MissionTyped
  <2>3. QED BY <2>1, <2>2 DEF Mission!TypeOK, ProgressRow, Mission!Calls
<1>13. QED BY <1>1, <1>10, <1>11, <1>12, SharedStays DEF MissionKeeps, MissionInv

\* A call for the reward of a mission goes on and neither counts nor pays.
LEMMA CallGoesOn ==
    ASSUME SharedInv, MissionInv, NEW i \in Mission!Calls,
           NEW stage \in {Idle, "fulfil", "asking"}, Done(Mission!About(i)),
           stage = "asking" => Mission!About(i) \notin Unrewarded,
           serving' = [serving EXCEPT ![i] = stage], UNCHANGED <<progress, counted, grant, paid>>
    PROVE  MissionKeeps
<1>1. Mission!TypeOK'
  BY DEF MissionInv, Mission!TypeOK
<1>2. serving'[i] = stage /\ \A j \in Mission!Calls \ {i} : serving'[j] = serving[j]
  BY MissionTyped
<1>3. ASSUME NEW j \in Mission!Calls
      PROVE  /\ serving'[j] # Idle => Done(Mission!About(j))
             /\ serving'[j] = "asking" => Mission!About(j) \notin Unrewarded
             /\ serving'[j] = "granted" => paid'[Mission!About(j)] = 1
  BY <1>2, GrowthGiven DEF MissionInv, CallHolds
<1>4. ASSUME NEW m \in Missions
      PROVE  /\ progress'[m] = progress[m]
             /\ progress'[m].status = "reward_granted" => paid'[m] = 1 \/ m \in Unrewarded
             /\ paid'[m] = 1 => Done(m) /\ m \notin Unrewarded
  BY DEF MissionInv, MissionHolds
<1>5. QED BY <1>1, <1>3, <1>4, SharedStays, MissionStays

LEMMA MissionAskKeeps ==
    ASSUME SharedInv, MissionInv, NEW i \in Mission!Calls, Mission!AskReward(i)
    PROVE  MissionKeeps
<1> DEFINE b == Mission!About(i)
<1>1. PICK answer : /\ Mission!Ledger!Grant(b, answer)
                    /\ serving' = [serving EXCEPT
                         ![i] = IF answer = "granted" THEN "granted" ELSE "refused"]
  BY DEF Mission!AskReward, Mission!Moves
<1>2. serving[i] = "asking" /\ UNCHANGED <<progress, counted>>
  BY DEF Mission!AskReward, Mission!Serves
<1>3. b \in Missions /\ Done(b) /\ b \notin Unrewarded
  BY <1>2, MissionTyped, GrowthGiven DEF MissionInv, CallHolds
<1>4. Given(b, answer)
  BY <1>1, <1>3, SameGrants, GrantGives DEF Paying
<1>5. Mission!TypeOK'
  BY <1>1, <1>2 DEF MissionInv, Mission!TypeOK
<1>6. /\ serving'[i] = IF answer = "granted" THEN "granted" ELSE "refused"
      /\ \A j \in Mission!Calls \ {i} : serving'[j] = serving[j]
  BY <1>1, MissionTyped
<1>7. \A m \in Missions : (paid[m] = 1 => paid'[m] = 1) /\ (m # b => paid'[m] = paid[m])
  BY <1>4 DEF Given, Paying
<1>8. ASSUME NEW j \in Mission!Calls
      PROVE  /\ serving'[j] # Idle => Done(Mission!About(j))
             /\ serving'[j] = "asking" => Mission!About(j) \notin Unrewarded
             /\ serving'[j] = "granted" => paid'[Mission!About(j)] = 1
  <2>1. CASE j = i
    BY <1>3, <1>4, <1>6, <2>1, GrowthGiven DEF Given
  <2>2. CASE j # i
    <3>1. CallHolds(j) /\ Mission!About(j) \in Missions
      BY MissionTyped DEF MissionInv
    <3>2. QED BY <1>6, <1>7, <2>2, <3>1 DEF CallHolds
  <2>3. QED BY <2>1, <2>2
<1>9. ASSUME NEW m \in Missions
      PROVE  /\ progress'[m] = progress[m]
             /\ progress'[m].status = "reward_granted" => paid'[m] = 1 \/ m \in Unrewarded
             /\ paid'[m] = 1 => Done(m) /\ m \notin Unrewarded
  <2>1. MissionHolds(m)
    BY DEF MissionInv
  <2>2. QED BY <1>2, <1>3, <1>7, <2>1 DEF MissionHolds
<1>10. SharedInv' /\ \A d \in Redemptions : paid'[d] = paid[d]
  BY <1>3, <1>4, GrowthGiven DEF Given, Paying
<1>11. QED BY <1>2, <1>5, <1>8, <1>9, <1>10, MissionStays

\* A call ends and writes the status of its mission.
LEMMA ConcludeKeeps ==
    ASSUME SharedInv, MissionInv, NEW i \in Mission!Calls,
           Mission!Conclude(i) \/ Mission!CloseUnrewarded(i)
    PROVE  MissionKeeps
<1> DEFINE b == Mission!About(i)
<1>1. PICK status \in {"reward_granted", "reward_pending"} :
        /\ status = "reward_granted" => serving[i] = "granted" \/ b \in Unrewarded
        /\ progress' = [progress EXCEPT ![b].status = status]
  BY DEF Mission!Conclude, Mission!CloseUnrewarded, Mission!Note, Mission!Becomes,
     Mission!Serves
<1>2. /\ serving[i] \in {"granted", "refused", "fulfil"} /\ serving' = [serving EXCEPT ![i] = Idle]
      /\ UNCHANGED <<counted, grant, paid>>
  BY DEF Mission!Conclude, Mission!CloseUnrewarded, Mission!Serves, Mission!Moves
<1>3. /\ b \in Missions /\ Done(b) /\ progress[b] \in ProgressRow
      /\ status = "reward_granted" => paid[b] = 1 \/ b \in Unrewarded
  BY <1>1, <1>2, MissionTyped, GrowthGiven DEF MissionInv, CallHolds
<1>4. PICK row \in ProgressRow : row = [progress[b] EXCEPT !.status = status]
  BY <1>3 DEF ProgressRow
<1>5. /\ progress' = [progress EXCEPT ![b] = row]
      /\ row.status = status /\ row.value = progress[b].value
  BY <1>1, <1>3, <1>4 DEF ProgressRow
<1>6. /\ progress' \in [Missions -> ProgressRow]
      /\ progress'[b] = row /\ \A m \in Missions \ {b} : progress'[m] = progress[m]
  BY <1>3, <1>5, MissionTyped
<1>7. Mission!TypeOK'
  BY <1>2, <1>6 DEF MissionInv, Mission!TypeOK, ProgressRow
<1>8. ASSUME NEW j \in Mission!Calls
      PROVE  /\ serving'[j] # Idle => Done(Mission!About(j))
             /\ serving'[j] = "asking" => Mission!About(j) \notin Unrewarded
             /\ serving'[j] = "granted" => paid'[Mission!About(j)] = 1
  <2>1. CallHolds(j)
    BY DEF MissionInv
  <2>2. serving'[j] \in {Idle, serving[j]}
    BY <1>2, MissionTyped
  <2>3. QED BY <1>2, <2>1, <2>2, GrowthGiven DEF CallHolds
<1>9. ASSUME NEW m \in Missions
      PROVE  /\ progress'[m].value = progress[m].value
             /\ \/ progress'[m].status = progress[m].status
                \/ progress'[m].status \in {"reward_pending", "reward_granted"} /\ Done(m)
             /\ progress'[m].status = "reward_granted" => paid'[m] = 1 \/ m \in Unrewarded
             /\ paid'[m] = 1 => Done(m) /\ m \notin Unrewarded
  <2>1. MissionHolds(m)
    BY DEF MissionInv
  <2>2. QED BY <1>2, <1>3, <1>5, <1>6, <2>1 DEF MissionHolds
<1>10. QED BY <1>2, <1>7, <1>8, <1>9, SharedStays, MissionStays

LEMMA MissionStep ==
    ASSUME SharedInv, MissionInv, Mission!Next
    PROVE  MissionKeeps
<1> USE DEF Mission!Serves, Mission!Moves
<1>1. ASSUME NEW e \in Events, Mission!Apply(e)
      PROVE  MissionKeeps
  BY <1>1, ApplyKeeps
<1>2. ASSUME NEW m \in Missions, Mission!Claim(m)
      PROVE  MissionKeeps
  <2>1. Done(Mission!About(m)) /\ m \in Mission!Calls
    BY <1>2, MissionTyped DEF MissionInv, MissionHolds, Mission!Claim
  <2>2. QED BY <1>2, <2>1, CallGoesOn DEF Mission!Claim
<1>3. ASSUME NEW i \in Mission!Calls,
             Mission!AlreadyGranted(i) \/ Mission!Fulfil(i) \/ Mission!Die(i)
      PROVE  MissionKeeps
  <2>1. Done(Mission!About(i)) /\ (Mission!Fulfil(i) => Mission!About(i) \notin Unrewarded)
    BY <1>3, GrowthGiven DEF MissionInv, CallHolds, Mission!AlreadyGranted, Mission!Fulfil,
       Mission!Die
  <2>2. CASE Mission!Fulfil(i)
    BY <2>1, <2>2, CallGoesOn DEF Mission!Fulfil
  <2>3. CASE Mission!AlreadyGranted(i) \/ Mission!Die(i)
    <3>1. /\ serving' = [serving EXCEPT ![i] = Idle] /\ UNCHANGED <<progress, counted, grant, paid>>
      BY <2>3 DEF Mission!AlreadyGranted, Mission!Die
    <3>2. QED BY <2>1, <3>1, GrowthGiven, CallGoesOn
  <2>4. QED BY <1>3, <2>2, <2>3
<1>4. ASSUME NEW i \in Mission!Calls,
             Mission!AskReward(i) \/ Mission!Conclude(i) \/ Mission!CloseUnrewarded(i)
      PROVE  MissionKeeps
  BY <1>4, MissionAskKeeps, ConcludeKeeps
<1>5. QED BY <1>1, <1>2, <1>3, <1>4 DEF Mission!Next

-----------------------------------------------------------------------------
GrowthInv == SharedInv /\ PromoInv /\ MissionInv

LEMMA PromoStands ==
    ASSUME PromoInv, UNCHANGED promoVars, \A d \in Redemptions : paid'[d] = paid[d]
    PROVE  PromoInv'
<1>1. UNCHANGED <<code, redemption, due, carries, discounted, redeeming>>
  BY DEF promoVars
<1>2. Promo!TypeOK' /\ Promo!PromoLimit'
  BY <1>1, LimitStays DEF PromoInv, Promo!TypeOK
<1>3. \A d \in Redemptions : Knows(d)'
  BY <1>1 DEF PromoInv, Knows, Promo!Discounted, Promo!GivesNothing
<1>4. QED BY <1>1, <1>2, <1>3, OrdersStay DEF PromoInv

LEMMA MissionStands ==
    ASSUME MissionInv, UNCHANGED missionVars, \A m \in Missions : paid'[m] = paid[m]
    PROVE  MissionInv'
<1>1. UNCHANGED <<progress, counted, serving>>
  BY DEF missionVars
<1>2. Mission!TypeOK'
  BY <1>1 DEF MissionInv, Mission!TypeOK
<1>3. \A m : Gained(m)' = Gained(m) /\ (Done(m)' <=> Done(m))
  BY <1>1 DEF CountedFor, Gained, Done
<1>4. \A m \in Missions : MissionHolds(m)'
  BY <1>1, <1>3 DEF MissionInv, MissionHolds
<1>5. \A i \in Mission!Calls : CallHolds(i)'
  <2> SUFFICES ASSUME NEW i \in Mission!Calls
               PROVE  CallHolds(i)'
      BY DEF Mission!Calls
  <2>1. CallHolds(i) /\ Mission!About(i) \in Missions /\ Mission!About(i)' = Mission!About(i)
    BY MissionTyped DEF MissionInv, Mission!About
  <2>2. QED BY <1>1, <1>3, <2>1 DEF CallHolds
<1>6. QED BY <1>2, <1>4, <1>5 DEF MissionInv, Mission!Calls

LEMMA GrowthStep == GrowthInv /\ [GrowthNext]_growthVars => GrowthInv'
<1> SUFFICES ASSUME GrowthInv, [GrowthNext]_growthVars
             PROVE  GrowthInv'
    OBVIOUS
<1>1. CASE Promo!Next /\ UNCHANGED missionVars
  BY <1>1, PromoStep, MissionStands DEF GrowthInv, PromoKeeps
<1>2. CASE Mission!Next /\ UNCHANGED promoVars
  BY <1>2, MissionStep, PromoStands DEF GrowthInv, MissionKeeps
<1>3. CASE UNCHANGED growthVars
  BY <1>3, PromoStands, MissionStands, SharedStays DEF GrowthInv, growthVars
<1>4. QED BY <1>1, <1>2, <1>3 DEF GrowthNext

LEMMA GrowthStart == GrowthInit => GrowthInv
<1> SUFFICES ASSUME GrowthInit
             PROVE  GrowthInv
    OBVIOUS
<1>1. SharedInv
  BY DEF GrowthInit, Shared!Init, SharedInv, Shared!TypeOK, Shared!PaidAsGranted, Shared!Statuses
<1>2. PromoInv
  <2>1. Promo!TypeOK
    BY DEF GrowthInit, Promo!Init, Promo!TypeOK
  <2>2. \A d \in Redemptions : Knows(d)
    BY GrowthGiven DEF GrowthInit, Promo!Init, Shared!Init, Knows, Paying
  <2>3. \A c \in Codes : LimitOf(c)
    <3>1. \A c : Taken(c) = {} /\ Ended(c) = {}
      BY DEF GrowthInit, Promo!Init, Taken, Ended
    <3>2. \A c \in Codes : code[c].reserved = 0 /\ code[c].completed = 0 /\ 0 <= Places[c]
      BY GrowthGiven DEF GrowthInit, Promo!Init
    <3>3. Cardinality({}) = 0
      BY FS_EmptySet
    <3>4. QED BY <3>1, <3>2, <3>3 DEF LimitOf
  <2>4. \A o \in Orders : CarriesOne(o)
    BY DEF GrowthInit, Promo!Init, CarriesOne, AppliedTo
  <2>5. QED BY <2>1, <2>2, <2>3, <2>4, LimitIs DEF PromoInv
<1>3. MissionInv
  <2>1. 0 \in 0..Target
    BY GrowthGiven
  <2>2. Mission!TypeOK
    BY <2>1 DEF GrowthInit, Mission!Init, Mission!TypeOK
  <2>3. ASSUME NEW m \in Missions
        PROVE  MissionHolds(m)
    <3>1. Gained(m) = 0
      BY SumOfNone DEF GrowthInit, Mission!Init, CountedFor, Gained
    <3>2. QED BY <3>1 DEF GrowthInit, Mission!Init, Shared!Init, MissionHolds, Paying
  <2>4. \A i \in Mission!Calls : CallHolds(i)
    BY GrowthGiven DEF GrowthInit, Mission!Init, CallHolds
  <2>5. QED BY <2>2, <2>3, <2>4 DEF MissionInv
<1>4. QED BY <1>1, <1>2, <1>3 DEF GrowthInv

LEMMA GrowthInvariant == GrowthSpec => []GrowthInv
  BY GrowthStart, GrowthStep, PTL DEF GrowthSpec

\* The variables of promo codes, missions and the ledger they share keep their types.
THEOREM GrowthTyped == GrowthSpec => []GrowthTypeOK
<1>1. GrowthInv => GrowthTypeOK
  BY DEF GrowthInv, SharedInv, PromoInv, MissionInv, GrowthTypeOK
<1>2. QED BY <1>1, GrowthInvariant, PTL

\* A code is given out no more often than it may be, to a user and in all, and its
\* counters tell the truth, for any codes, limits and redemptions, though calls die and
\* are repeated (promo_redemption_service.py, _reserve, _complete, _apply_discount).
THEOREM CodesLimited == GrowthSpec => []PromoLimit
<1>1. GrowthInv => PromoLimit
  BY DEF GrowthInv, PromoInv, PromoLimit
<1>2. QED BY <1>1, GrowthInvariant, PTL

\* A redemption that says completed gave what its code promises, once - a reward, a
\* discount, or nothing where the code gives nothing - and none gives more; an order with
\* completed redemptions carries the discount of one of them
\* (promo_redemption_service.py, _redeem_locked, _apply_discount).
THEOREM RedemptionsGive == GrowthSpec => []RedemptionGave
<1>1. GrowthInv => RedemptionGave
  <2> SUFFICES ASSUME GrowthInv
               PROVE  RedemptionGave
      OBVIOUS
  <2>1. ASSUME NEW d \in Redemptions
        PROVE  /\ discounted[d] + paid[d] <= (IF Promo!GivesNothing(d) THEN 0 ELSE 1)
               /\ redemption[d] = "completed" /\ ~Promo!GivesNothing(d) =>
                    IF Promo!Discounted(d) THEN discounted[d] = 1 ELSE paid[d] = 1
               /\ discounted[d] = 1 => redemption[d] = "completed"
    <3>1. Knows(d) /\ paid[d] \in {0, 1}
      BY PaidIs DEF GrowthInv, PromoInv, Paying
    <3>2. ~(Promo!Discounted(d) /\ Promo!GivesNothing(d))
      BY GrowthGiven DEF Promo!Discounted, Promo!GivesNothing
    <3>3. QED BY <3>1, <3>2 DEF Knows
  <2>2. ASSUME NEW o \in Orders
        PROVE  IF Promo!Applied(o) = {} THEN carries[o] = None ELSE carries[o] \in Promo!Applied(o)
    BY DEF GrowthInv, PromoInv, CarriesOne, AppliedTo, Promo!Applied
  <2>3. QED BY <2>1, <2>2 DEF RedemptionGave, Promo!RedemptionGave
<1>2. QED BY <1>1, GrowthInvariant, PTL

\* A mission is over only when the different events that counted for it are worth its
\* target together; one with a reward is paid at most once and says granted only if it
\* was paid, one without is never paid (mission_progress_service.py, _apply_one,
\* _fulfill_reward, claim_reward; mission_condition_service.py, delta_for_event).
THEOREM MissionsPaid == GrowthSpec => []MissionPaidWhenDone
<1>1. GrowthInv => MissionPaidWhenDone
  <2> SUFFICES ASSUME GrowthInv, NEW m \in Missions
               PROVE  /\ paid[m] > 0 \/ progress[m].status = "reward_granted" => Done(m)
                      /\ paid[m] <= (IF m \in Unrewarded THEN 0 ELSE 1)
                      /\ progress[m].status = "reward_granted" /\ m \notin Unrewarded =>
                           paid[m] = 1
      BY SameSums DEF MissionPaidWhenDone, Mission!MissionPaidWhenDone, Mission!Closed,
         Mission!CountedFor, Done, Gained, CountedFor
  <2>1. MissionHolds(m) /\ paid[m] \in {0, 1}
    BY PaidIs DEF GrowthInv, MissionInv, Paying
  <2>2. QED BY <2>1 DEF MissionHolds
<1>2. QED BY <1>1, GrowthInvariant, PTL
=============================================================================
