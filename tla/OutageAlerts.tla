---------------------------- MODULE OutageAlerts -----------------------------
(***************************************************************************)
(* The health job: it checks the VPN provider, opens or resolves the alert *)
(* of an outage with its incident, and closes provisioning by a window of  *)
(* MaintenanceWindows.  Each step is a transaction of its own, and the job *)
(* may die between any two of them.  Notices to administrators are left    *)
(* out.                                                                    *)
(***************************************************************************)
EXTENDS MaintenanceWindows

VARIABLES
    up,             \* the provider answers
    alert,          \* operational_alerts, and the incident the alert is linked to
    evaluation      \* what evaluate_component is doing

outageVars == <<up, alert, evaluation>>
alertVars == <<windowVars, outageVars>>

OutageInit ==
    /\ WindowInit
    /\ up = TRUE
    /\ alert = [status |-> "none", incident |-> "none"]
    /\ evaluation = [stage |-> Idle]

Evaluates(stage) == evaluation.stage = stage
Goes(stage) == evaluation' = [stage |-> stage]

Fails == up /\ up' = FALSE /\ UNCHANGED <<windowVars, alert, evaluation>>
Recovers == ~up /\ up' = TRUE /\ UNCHANGED <<windowVars, alert, evaluation>>

\* check_system
Check ==
    /\ Evaluates(Idle)
    /\ Goes(IF up THEN "healthy" ELSE "unhealthy")
    /\ UNCHANGED <<windowVars, up, alert>>

-----------------------------------------------------------------------------
\* evaluate_component when the provider is down, first transaction.  An alert
\* that had been resolved is opened again and keeps its incident.
Open ==
    /\ Evaluates("unhealthy")
    /\ alert' = [alert EXCEPT !.status = "open"]
    /\ Goes(IF alert.incident = "none" THEN "opened" ELSE "linked")
    /\ UNCHANGED <<windowVars, up>>

\* An incident that is not linked before the job dies is never resolved.
CreateIncident ==
    /\ Evaluates("opened")
    /\ Goes("incident")
    /\ UNCHANGED <<windowVars, up, alert>>

\* Faulty: the link is forgotten.
LinkNothing ==
    /\ Evaluates("incident")
    /\ Goes("linked")
    /\ UNCHANGED <<windowVars, up, alert>>

LinkIncident ==
    /\ Evaluates("incident")
    /\ alert' = [alert EXCEPT !.incident = "open"]
    /\ Goes("linked")
    /\ UNCHANGED <<windowVars, up>>

\* schedule_maintenance for vpn_provisioning: the look, which ends the job
\* when it raises ...
LookForWindow ==
    /\ Evaluates("linked")
    /\ \/ \E free \in BOOLEAN :
            Looked("vpn_provisioning", free) /\ Goes(IF free THEN "closing" ELSE Idle)
       \/ Cardinality(Active("vpn_provisioning")) > 1 /\ Goes(Idle)
    /\ UNCHANGED <<windowVars, up, alert>>

\* ... and the new window.
CloseProvisioning ==
    /\ Evaluates("closing")
    /\ New(Outage, "vpn_provisioning", "maintenance", "active", "open")
    /\ Goes(Idle)
    /\ UNCHANGED <<clerk, admin, up, alert>>

\* Faulty: an alert whose incident was not linked is left open.
ResolveUnlinked ==
    /\ Evaluates("healthy")
    /\ IF alert.status = "open" /\ alert.incident # "none"
       THEN alert' = [alert EXCEPT !.status = "resolved"] /\ Goes("resolved")
       ELSE Goes(Idle) /\ UNCHANGED alert
    /\ UNCHANGED <<windowVars, up>>

\* evaluate_component when the provider is up, first transaction.
Resolve ==
    /\ Evaluates("healthy")
    /\ IF alert.status = "open"
       THEN alert' = [alert EXCEPT !.status = "resolved"] /\ Goes("resolved")
       ELSE Goes(Idle) /\ UNCHANGED alert
    /\ UNCHANGED <<windowVars, up>>

\* _resolve_incident_by_id
ResolveIncident ==
    /\ Evaluates("resolved")
    /\ alert' = [alert EXCEPT !.incident = IF @ = "none" THEN @ ELSE "resolved"]
    /\ Goes(Idle)
    /\ UNCHANGED <<windowVars, up>>

Die == ~Evaluates(Idle) /\ Goes(Idle) /\ UNCHANGED <<windowVars, up, alert>>

Evaluate ==
    \/ Check \/ Open \/ CreateIncident \/ LinkIncident \/ LookForWindow \/ CloseProvisioning
    \/ Resolve \/ ResolveIncident

\* Dying where the evaluation was about to end anyway does no harm.
Mishap == Die /\ ~Evaluate

OutageNext ==
    \/ WindowStep /\ UNCHANGED outageVars
    \/ Fails \/ Recovers
    \/ Evaluate \/ Die

OutageSpec == OutageInit /\ [][OutageNext]_alertVars

\* The job runs periodically, and in the end it does not die.
FairOutageSpec ==
    /\ OutageSpec
    /\ WF_alertVars(Evaluate)
    /\ <>[][~Mishap]_alertVars

-----------------------------------------------------------------------------
OutageTypeOK ==
    /\ WindowTypeOK
    /\ up \in BOOLEAN
    /\ alert \in [status : {"none", "open", "resolved"}, incident : {"none", "open", "resolved"}]
    /\ evaluation \in [stage : {Idle, "healthy", "unhealthy", "opened", "incident", "linked",
                                "closing", "resolved"}]

\* While the provider stays down, the window that closes provisioning for it
\* stays active: no administrator and no run of the scheduler opens it again.
OutageStaysClosed ==
    [][~up /\ Status(Outage, "active") => Status(Outage, "active")']_alertVars

\* An outage that lasts has an open alert that is linked to an incident.
OutageIsLogged == ~up ~> up \/ (alert.status = "open" /\ alert.incident # "none")

\* The alert does not outlive the outage.
AlertIsResolved == up ~> ~up \/ alert.status # "open"

=============================================================================
