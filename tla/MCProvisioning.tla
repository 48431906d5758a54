--------------------------- MODULE MCProvisioning ---------------------------
(***************************************************************************)
(* Provisioning of one order, by operations that compete for the last slot *)
(* of each server.                                                         *)
(***************************************************************************)
EXTENDS Provisioning

CONSTANTS
    Second,     \* a second caller, ...
    Twice       \* ... who takes up this operation while the first is at it

MCOrderOf == [op \in Ops |-> CHOOSE o \in Orders : TRUE]

MCAsked == [c \in Callers |-> IF c = Second THEN {Twice} ELSE Ops]

MCSlots == [s \in Servers |-> 1]
=============================================================================
