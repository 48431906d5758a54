----------------------------- MODULE FreeTrials -----------------------------
(***************************************************************************)
(* Free trials: the claim that uses up the daily allowance or one use of an *)
(* entitlement, its reservation against the daily quota of a server, its   *)
(* provisioning through the saga, and its cancellation.  The time modelled *)
(* is one day: one period of the allowance and of the quota.               *)
(*                                                                         *)
(* Every operation but provisioning is one transaction that holds the lock *)
(* of the claim (acceptance: of the user).  Provisioning writes the claim  *)
(* before and after the saga and may die in between.                       *)
(***************************************************************************)
EXTENDS Integers, FiniteSets, Markers

CONSTANTS
    Claims,         \* a claim is named by its idempotency key
    Users,
    UserOf,         \* UserOf[c], the user who asks for claim c
    Servers,
    Quota,          \* Quota[s], trials a server gives in a day
    Uses,           \* Uses[u], uses of the entitlement a user was granted
    NormalLimit,    \* free_trial_normal_claims_per_period
    Provisioners    \* calls of provision_claim that may be under way at once

ASSUME TrialAssumption ==
    /\ IsFiniteSet(Claims)
    /\ UserOf \in [Claims -> Users]
    /\ Quota \in [Servers -> Nat]
    /\ Uses \in [Users -> Nat]
    /\ NormalLimit \in Nat

VARIABLES
    claim,          \* free_trial_claims
    reservation,    \* server_capacity_reservations, by claim_id (unique); "late"
                    \* remembers that it was booked when it was not pending
    entitlement,    \* free_trial_entitlements; "forfeited" counts the uses that were
                    \* taken for a claim the policy then refused (history)
    redeemed,       \* uses spent through free_trial_entitlement_redemptions
    saga,           \* what the provisioning operation of a claim has come to
    provisioning    \* what each call of provision_claim is doing

trialVars == <<claim, reservation, entitlement, redeemed, saga, provisioning>>

Claimed(c) == claim[c] # None
ClaimIs(c, statuses) == Claimed(c) /\ claim[c].status \in statuses
Held(c, statuses) == reservation[c] # None /\ reservation[c].status \in statuses
Of(u, source) == {c \in Claims : Claimed(c) /\ UserOf[c] = u /\ claim[c].source = source}

\* Claims that count against the daily allowance.
Used(u) == {c \in Of(u, "daily_free") : claim[c].status # "cancelled"}

\* Faulty: what was booked is not counted against the quota any more.
PendingOn(s) ==
    {c \in Claims : Held(c, {"pending"}) /\ reservation[c].server = s}

\* Reservations that count against the quota of a server.
TakenOn(s) ==
    {c \in Claims : Held(c, {"pending", "committed"}) /\ reservation[c].server = s}

TrialInit ==
    /\ claim = [c \in Claims |-> None]
    /\ reservation = [c \in Claims |-> None]
    /\ entitlement = [u \in Users |->
                        [remaining |-> Uses[u], status |-> "active", lapsed |-> FALSE,
                         forfeited |-> 0]]
    /\ redeemed = [u \in Users |-> 0]
    /\ saga = [c \in Claims |-> "open"]
    /\ provisioning = [p \in Provisioners |-> [stage |-> Idle]]

-----------------------------------------------------------------------------
Accepted(c, source) ==
    claim' = [claim EXCEPT ![c] = [status |-> "accepted", source |-> source, key |-> FALSE]]

\* The daily allowance is open to the user of c.  A cancelled claim does not
\* count, but its row still occupies the user's place for the day.
WithinAllowance(c) ==
    /\ ~Claimed(c)
    /\ Cardinality(Used(UserOf[c])) < NormalLimit
    /\ Of(UserOf[c], "daily_free") = {}

EntitlementUsable(u) ==
    /\ entitlement[u].status = "active" /\ ~entitlement[u].lapsed
    /\ entitlement[u].remaining > 0

\* The allowance is used and the entitlement is not: a use is taken from it.
TakesUse(c) ==
    /\ ~Claimed(c)
    /\ Cardinality(Used(UserOf[c])) >= NormalLimit
    /\ EntitlementUsable(UserOf[c])

\* One such claim a day: when its insert fails on the unique key, the use taken is
\* rolled back with it.
WithEntitlement(c) == TakesUse(c) /\ Of(UserOf[c], "extra_entitlement") = {}

\* accept_claim
AcceptDaily(c) ==
    /\ WithinAllowance(c)
    /\ Accepted(c, "daily_free")
    /\ UNCHANGED <<reservation, entitlement, redeemed, saga, provisioning>>

AcceptExtra(c) ==
    /\ WithEntitlement(c)
    /\ Accepted(c, "extra_entitlement")
    /\ entitlement' = [entitlement EXCEPT ![UserOf[c]].remaining = @ - 1]
    /\ UNCHANGED <<reservation, redeemed, saga, provisioning>>

\* The use is taken, then the data or the duration the policy sets turns out not to
\* be positive: accept_claim answers policy_invalid and the session commits.
AcceptInvalid(c) ==
    /\ TakesUse(c)
    /\ entitlement' = [entitlement EXCEPT ![UserOf[c]].remaining = @ - 1,
                                          ![UserOf[c]].forfeited = @ + 1]
    /\ UNCHANGED <<claim, reservation, redeemed, saga, provisioning>>

\* Faulty: a claim can be cancelled while its key is being made.
CancellableUntilProvisioned(c) == ClaimIs(c, {"accepted", "server_reserved", "provisioning"})

\* cancel_claim refuses "provisioning" and "active"; a claim that has its key
\* is in neither of them.
Cancellable(c) == ClaimIs(c, {"accepted", "server_reserved", "provisioned"})

\* Faulty: gives back a use whatever the claim was paid with.
RefundedAlways(c) ==
    [entitlement EXCEPT ![UserOf[c]].remaining = @ + 1]

\* A use taken by the claim is given back; the entitlement's status is not.
Refunded(c) ==
    IF claim[c].source = "extra_entitlement"
    THEN [entitlement EXCEPT ![UserOf[c]].remaining = @ + 1]
    ELSE entitlement

Cancel(c) ==
    /\ Cancellable(c)
    /\ claim' = [claim EXCEPT ![c].status = "cancelled"]
    /\ entitlement' = Refunded(c)
    /\ UNCHANGED <<reservation, redeemed, saga, provisioning>>

\* consume_entitlement spends a use outside of claims.
ConsumeUse(u) ==
    /\ EntitlementUsable(u)
    /\ entitlement' = [entitlement EXCEPT
                         ![u].remaining = @ - 1,
                         ![u].status = IF entitlement[u].remaining = 1 THEN "redeemed"
                                       ELSE "active"]
    /\ redeemed' = [redeemed EXCEPT ![u] = @ + 1]
    /\ UNCHANGED <<claim, reservation, saga, provisioning>>

EntitlementLapses(u) ==
    /\ ~entitlement[u].lapsed
    /\ entitlement' = [entitlement EXCEPT ![u].lapsed = TRUE]
    /\ UNCHANGED <<claim, reservation, redeemed, saga, provisioning>>

\* consume_entitlement and the growth reconciliation mark what has lapsed.
ExpireEntitlement(u) ==
    /\ entitlement[u].status = "active" /\ entitlement[u].lapsed
    /\ entitlement' = [entitlement EXCEPT ![u].status = "expired"]
    /\ UNCHANGED <<claim, reservation, redeemed, saga, provisioning>>

-----------------------------------------------------------------------------
\* route_claim; a claim that had a reservation before cannot get another one,
\* because the row of the old one keeps its claim_id.
Route(c, s) ==
    /\ ClaimIs(c, {"accepted"})
    /\ reservation[c] = None
    /\ Cardinality(TakenOn(s)) < Quota[s]
    /\ reservation' = [reservation EXCEPT ![c] =
                         [server |-> s, status |-> "pending", lapsed |-> FALSE, late |-> FALSE]]
    /\ claim' = [claim EXCEPT ![c].status = "server_reserved"]
    /\ UNCHANGED <<entitlement, redeemed, saga, provisioning>>

\* The claims of the reservations C, which have ended, can be routed again.
Unreserved(C) ==
    [c \in Claims |-> IF c \in C /\ ClaimIs(c, {"server_reserved"})
                      THEN [claim[c] EXCEPT !.status = "accepted"] ELSE claim[c]]

\* release_reservation
Release(c) ==
    /\ Held(c, {"pending"})
    /\ reservation' = [reservation EXCEPT ![c].status = "released"]
    /\ claim' = Unreserved({c})
    /\ UNCHANGED <<entitlement, redeemed, saga, provisioning>>

Lapse(c) ==
    /\ Held(c, {"pending"}) /\ ~reservation[c].lapsed
    /\ reservation' = [reservation EXCEPT ![c].lapsed = TRUE]
    /\ UNCHANGED <<claim, entitlement, redeemed, saga, provisioning>>

Lapsed == {c \in Claims : Held(c, {"pending"}) /\ reservation[c].lapsed}

\* Faulty: claims that were given up keep their reservations.
ExpiredWithClaim ==
    [c \in Claims |-> IF c \in Lapsed /\ ~ClaimIs(c, {"cancelled"})
                      THEN [reservation[c] EXCEPT !.status = "expired"]
                      ELSE reservation[c]]

Expired ==
    [c \in Claims |-> IF c \in Lapsed THEN [reservation[c] EXCEPT !.status = "expired"]
                      ELSE reservation[c]]

\* TrialServerRoutingService.expire_reservations
ExpireTrials ==
    /\ Lapsed # {}
    /\ reservation' = Expired
    /\ claim' = Unreserved(Lapsed)
    /\ UNCHANGED <<entitlement, redeemed, saga, provisioning>>

\* ServerReservationService.expire_reservations, the one that is scheduled:
\* it knows nothing of claims.
ExpireReservations ==
    /\ Lapsed # {}
    /\ reservation' = Expired
    /\ UNCHANGED <<claim, entitlement, redeemed, saga, provisioning>>

-----------------------------------------------------------------------------
Busy(p, stage) == provisioning[p].stage = stage
Proceeds(p, w) == provisioning' = [provisioning EXCEPT ![p] = w]

\* provision_claim, first transaction; the reservation may have lapsed.
StartSaga(p, c) ==
    /\ Busy(p, Idle)
    /\ ClaimIs(c, {"server_reserved", "provisioning"})
    /\ ~claim[c].key
    /\ Held(c, {"pending"})
    /\ claim' = [claim EXCEPT ![c].status = "provisioning"]
    /\ Proceeds(p, [stage |-> "saga", claim |-> c])
    /\ UNCHANGED <<reservation, entitlement, redeemed, saga>>

\* The saga has made the key, now or in an earlier call.
SagaSucceeds(p) ==
    /\ Busy(p, "saga")
    /\ saga[provisioning[p].claim] \in {"open", "made"}
    /\ saga' = [saga EXCEPT ![provisioning[p].claim] = "made"]
    /\ Proceeds(p, [provisioning[p] EXCEPT !.stage = "finishing"])
    /\ UNCHANGED <<claim, reservation, entitlement, redeemed>>

\* It fails for good, or for now; once failed it fails again.
SagaFails(p) ==
    /\ Busy(p, "saga")
    /\ saga[provisioning[p].claim] \in {"open", "failed"}
    /\ \E outcome \in {saga[provisioning[p].claim], "failed"} :
         saga' = [saga EXCEPT ![provisioning[p].claim] = outcome]
    /\ Proceeds(p, [provisioning[p] EXCEPT !.stage = "restoring"])
    /\ UNCHANGED <<claim, reservation, entitlement, redeemed>>

\* _restore_claim_after_failure
Restore(p) ==
    /\ Busy(p, "restoring")
    /\ claim' = IF ClaimIs(provisioning[p].claim, {"provisioning"})
                THEN [claim EXCEPT ![provisioning[p].claim].status = "server_reserved"]
                ELSE claim
    /\ Proceeds(p, [stage |-> Idle])
    /\ UNCHANGED <<reservation, entitlement, redeemed, saga>>

\* The reservation is booked in whatever state it is found.
Booked(c) ==
    [reservation EXCEPT ![c].status = "committed",
                        ![c].late = @ \/ reservation[c].status # "pending"]

\* _finalize_claim, after the data limit and the activation.
Finalize(p) ==
    /\ Busy(p, "finishing")
    /\ LET c == provisioning[p].claim IN
         /\ claim' = [claim EXCEPT ![c].key = TRUE, ![c].status = "provisioned"]
         /\ reservation' = Booked(c)
    /\ Proceeds(p, [stage |-> Idle])
    /\ UNCHANGED <<entitlement, redeemed, saga>>

\* The data limit or the activation fails, or the process dies.
BreakOff(p) ==
    /\ ~Busy(p, Idle)
    /\ Proceeds(p, [stage |-> Idle])
    /\ UNCHANGED <<claim, reservation, entitlement, redeemed, saga>>

-----------------------------------------------------------------------------
\* Everything but the acceptance of claims.
TrialStep ==
    \/ \E c \in Claims :
         \/ Cancel(c) \/ Release(c) \/ Lapse(c)
         \/ \E s \in Servers : Route(c, s)
         \/ \E p \in Provisioners : StartSaga(p, c)
    \/ \E u \in Users : ConsumeUse(u) \/ EntitlementLapses(u) \/ ExpireEntitlement(u)
    \/ ExpireTrials
    \/ ExpireReservations
    \/ \E p \in Provisioners :
         \/ SagaSucceeds(p) \/ SagaFails(p) \/ Restore(p) \/ Finalize(p) \/ BreakOff(p)

-----------------------------------------------------------------------------
ClaimRow == [status : {"accepted", "server_reserved", "provisioning", "provisioned", "cancelled"},
             source : {"daily_free", "extra_entitlement"}, key : BOOLEAN]

ReservationRow == [server : Servers, status : {"pending", "committed", "released", "expired"},
                   lapsed : BOOLEAN, late : BOOLEAN]

\* The markers are none of the values they stand apart from.
ASSUME TrialMarkers ==
    /\ None \notin ClaimRow \cup ReservationRow
    /\ Idle \notin {"saga", "finishing", "restoring"}

TrialTypeOK ==
    /\ claim \in [Claims -> ClaimRow \cup {None}]
    /\ reservation \in [Claims -> ReservationRow \cup {None}]
    /\ entitlement \in [Users -> [remaining : Nat, lapsed : BOOLEAN, forfeited : Nat,
                                  status : {"active", "redeemed", "expired"}]]
    /\ redeemed \in [Users -> Nat]
    /\ saga \in [Claims -> {"open", "made", "failed"}]
    /\ provisioning \in [Provisioners -> [stage : {Idle}]
                   \cup [stage : {"saga", "finishing", "restoring"}, claim : Claims]]

\* However claims, redemptions and cancellations mix, no use of an entitlement is
\* made, and none is lost but to a policy that refuses the claim after it was taken:
\* what remains, what was redeemed, what claims hold and what was forfeited in that
\* one way add up to what was granted.
UsesAddUp ==
    \A u \in Users :
        entitlement[u].remaining + entitlement[u].forfeited + redeemed[u]
          + Cardinality({c \in Of(u, "extra_entitlement") : claim[c].status # "cancelled"})
        = Uses[u]

\* A server gives no more trials in a day than its quota, but for those whose
\* reservation had ended before their key was bound.
QuotaHolds ==
    \A s \in Servers :
        Cardinality({c \in Claims : /\ Held(c, {"pending", "committed"})
                                    /\ reservation[c].server = s
                                    /\ ~reservation[c].late}) <= Quota[s]

\* A claim that was given up before it had a key stays so: no provisioning
\* that was under way brings it back.
CancelledIsFinal ==
    [][\A c \in Claims : ClaimIs(c, {"cancelled"}) => claim'[c] = claim[c]]_trialVars

\* The slot of a cancelled claim is given back, though cancelling leaves it alone.
CancelledSlotReturns ==
    \A c \in Claims :
        ClaimIs(c, {"cancelled"}) /\ Held(c, {"pending"}) ~> ~Held(c, {"pending"})
=============================================================================
