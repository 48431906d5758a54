------------------------- MODULE MCReferralRewards --------------------------
(***************************************************************************)
(* Two referrals, of which both make a cycle, and two overlapping calls.   *)
(***************************************************************************)
EXTENDS ReferralRewards, TLC
MCSymmetry == Permutations(Referrals) \cup Permutations(Workers)
=============================================================================
