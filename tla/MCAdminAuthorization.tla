------------------------ MODULE MCAdminAuthorization ------------------------
(***************************************************************************)
(* AdminAuthorization with two administrators, both in the allowlist; one  *)
(* of them may be found in the old role column first.                      *)
(***************************************************************************)
EXTENDS AdminAuthorization, TLC

\* The actions differ by their payload only.
MCSymmetry == Permutations(Actions)
=============================================================================
