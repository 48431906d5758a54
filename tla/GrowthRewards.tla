--------------------------- MODULE GrowthRewards ----------------------------
(***************************************************************************)
(* Promo redemptions and missions over the reward ledger they share.       *)
(***************************************************************************)
EXTENDS Naturals, FiniteSets, Markers

CONSTANTS
    Redemptions, Codes, CodeOf, UserOf, Discounts, Empty, Orders, OrderOf, PerUser,
    Places,         \* Limit of PromoRedemptions
    Missions, AutoGrant, Unrewarded, Target, Events, MissionOf, Worth

ASSUME GrowthAssumption ==
    /\ IsFiniteSet(Redemptions) /\ IsFiniteSet(Events)
    /\ CodeOf \in [Redemptions -> Codes]
    /\ Discounts \cap Empty = {}
    /\ OrderOf \in [Redemptions -> Orders \cup {None}] /\ None \notin Orders \cup Redemptions
    /\ Places \in [Codes -> Nat] /\ PerUser \in [Codes -> Nat]
    /\ MissionOf \in [Events -> Missions]
    /\ Target \in Nat \ {0} /\ Worth \in [Events -> Nat]
    /\ Events \cap Missions = {} /\ Redemptions \cap Missions = {}
    /\ Idle \notin {"reserved", "granting", "granted", "refused", "fulfil", "asking"}

VARIABLES
    code, redemption, due, carries, discounted, redeeming,  \* of PromoRedemptions
    progress, counted, serving,                             \* of MissionRewards
    grant, paid     \* reward and payments of RewardLedger

Paying == Redemptions \cup Missions

Promo == INSTANCE PromoRedemptions WITH
             Rewards <- Paying, Limit <- Places, reward <- grant, payments <- paid
Mission == INSTANCE MissionRewards WITH
               Rewards <- Paying, reward <- grant, payments <- paid
Shared == INSTANCE RewardLedger WITH Rewards <- Paying, reward <- grant, payments <- paid

promoVars == <<code, redemption, due, carries, discounted, redeeming>>
missionVars == <<progress, counted, serving>>
growthVars == <<promoVars, missionVars, grant, paid>>

GrowthInit == Promo!Init /\ Mission!Init /\ Shared!Init

GrowthNext ==
    \/ Promo!Next /\ UNCHANGED missionVars
    \/ Mission!Next /\ UNCHANGED promoVars

GrowthSpec == GrowthInit /\ [][GrowthNext]_growthVars

-----------------------------------------------------------------------------
GrowthTypeOK == Promo!TypeOK /\ Mission!TypeOK /\ Shared!TypeOK

\* The promo code's limits and counters: see PromoRedemptions.
PromoLimit == Promo!PromoLimit

\* Redemptions end as what they gave: see PromoRedemptions.
RedemptionGave == Promo!RedemptionGave

\* Missions are paid when they are done: see MissionRewards.
MissionPaidWhenDone == Mission!MissionPaidWhenDone
=============================================================================
