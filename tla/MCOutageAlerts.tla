--------------------------- MODULE MCOutageAlerts ----------------------------
(***************************************************************************)
(* OutageAlerts with two windows of administrators beside the outage's.    *)
(***************************************************************************)
EXTENDS OutageAlerts, TLC

MCPlans ==
    {[scope |-> "global", state |-> "maintenance", ends |-> "approval"],
     [scope |-> "vpn_provisioning", state |-> "degraded", ends |-> "auto"]}
=============================================================================
