--------------------------- MODULE MCPaidUpgrades ----------------------------
(***************************************************************************)
(* PaidUpgrades with an upgrade of data and time and a conversion, both    *)
(* paid through a provider or both without, and two refund request ids.    *)
(***************************************************************************)
EXTENDS PaidUpgrades, TLC

CONSTANTS u1, u2, r1, r2

MCParts == (u1 :> {"data", "days"}) @@ (u2 :> {})
MCData == (u1 :> 1) @@ (u2 :> 0)
MCDays == (u1 :> 1) @@ (u2 :> 0)
MCSymmetry == Permutations({r1, r2})
=============================================================================
