-------------------------- MODULE MCBackgroundJobs --------------------------
(***************************************************************************)
(* BackgroundJobs with jobs of different priority, one of a type that has  *)
(* no handler.                                                             *)
(***************************************************************************)
EXTENDS BackgroundJobs

CONSTANTS urgent, plain, orphan

MCPriority == [j \in Jobs |-> IF j = urgent THEN 2 ELSE 1]
=============================================================================
