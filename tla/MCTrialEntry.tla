---------------------------- MODULE MCTrialEntry ----------------------------
(***************************************************************************)
(* TrialEntry with one user, who has a daily trial and one more use, on a  *)
(* server that gives one trial a day.                                      *)
(***************************************************************************)
EXTENDS TrialEntry, TLC

MCUserOf == [c \in Claims |-> CHOOSE u \in Users : TRUE]
MCQuota == [s \in Servers |-> 1]
MCUses == [u \in Users |-> 2]
=============================================================================
