---------------------------- MODULE PaidUpgrades -----------------------------
(***************************************************************************)
(* Upgrades and the refunds of their orders, which meet in the order: a    *)
(* refund may start, or be recorded, while its upgrade is being fulfilled. *)
(***************************************************************************)
EXTENDS TrialUpgrades

CONSTANTS Ways, Requests, Refunders

ASSUME RefundAssumption ==
    /\ Ways \subseteq SUBSET Upgrades
    /\ None \notin Requests
    /\ Idle \notin {"checked", "crediting", "sending", "sent"}

VARIABLES intents, sent, credited, record, manual, call   \* of ProviderRefunds

refundVars == <<intents, sent, credited, record, manual, call>>
vars == <<order, upgradeVars, refundVars>>

Refund == INSTANCE ProviderRefunds WITH Orders <- Upgrades

Init == UpgradeInit /\ Refund!Init

Next ==
    \/ UpgradeStep /\ UNCHANGED refundVars
    \/ Refund!Next /\ UNCHANGED upgradeVars

Spec == Init /\ [][Next]_vars

TypeOK == UpgradeTypeOK /\ Refund!TypeOK

\* A refund is on record only after money went back for the request it names: the
\* provider's for this order, or the wallet's for the first order of that request.
RecordIsBacked == Refund!RecordIsBacked
=============================================================================
