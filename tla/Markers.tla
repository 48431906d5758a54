------------------------------- MODULE Markers -------------------------------
(***************************************************************************)
(* Values that stand for the absence of one, shared by the modules whose   *)
(* theorems are proved together.  Each module assumes what it needs of     *)
(* them.                                                                   *)
(***************************************************************************)
CONSTANTS
    None,           \* NULL, or a row that is not there
    Idle            \* the stage of a call that is not under way
=============================================================================
