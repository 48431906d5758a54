------------------------- MODULE MaintenanceWindows --------------------------
(***************************************************************************)
(* Maintenance windows, which close the scopes of the program to its       *)
(* customers: opened and planned by administrators, opened for an outage   *)
(* by the health job (OutageAlerts), activated and ended by the scheduler. *)
(*                                                                         *)
(* A window that is opened or activated is preceded by a look, without a   *)
(* lock, for an active one of its scope, and the scheduler also picks the  *)
(* windows it ends without a lock: looking and writing are two steps.  The *)
(* rows of one run of the scheduler are handled one at a time.             *)
(***************************************************************************)
EXTENDS FiniteSets, Naturals

CONSTANTS
    Planned,        \* windows of administrators
    Outage,         \* the window of the health job
    Plans,          \* what administrators plan: scope, state and how it ends
    None, Idle

VARIABLES
    window,         \* maintenance_windows
    clerk,          \* what process_due_windows is doing
    admin           \* what the maintenance menu is doing

windowVars == <<window, clerk, admin>>

WindowRow == [scope : {"global", "vpn_provisioning"},
              state : {"degraded", "maintenance", "emergency"},
              status : {"scheduled", "active", "ending", "completed", "cancelled"},
              ends : {"open", "auto", "approval"}, due : BOOLEAN, over : BOOLEAN]

ASSUME WindowAssumption ==
    /\ Outage \notin Planned
    /\ None \notin WindowRow
    /\ Idle \notin {"starting", "picked", "checked", "activating", "ending"}
    /\ Plans \subseteq [scope : {"global", "vpn_provisioning"}, state : {"degraded", "maintenance"},
                      ends : {"auto", "approval"}]

Windows == Planned \cup {Outage}

WindowInit ==
    /\ window = [w \in Windows |-> None]
    /\ clerk = [stage |-> Idle]
    /\ admin = [stage |-> Idle]

Status(w, status) == window[w] # None /\ window[w].status = status
Active(scope) == {w \in Windows : Status(w, "active") /\ window[w].scope = scope}

\* get_effective_state, for the windows that count in a scope.
Effective(scope) == Active("global") \cup Active(scope)

\* is_operation_allowed refuses a change to customers under any window.
Blocked(scope) == Effective(scope) # {}

New(w, scope, state, status, ends) ==
    /\ window[w] = None
    /\ window' = [window EXCEPT ![w] =
                    [scope |-> scope, state |-> state, status |-> status, ends |-> ends,
                     due |-> FALSE, over |-> FALSE]]

Becomes(w, status) == window' = [window EXCEPT ![w].status = status]

\* Looking for an active window of a scope: scalar_one_or_none raises when
\* there are two.
Looked(scope, free) ==
    /\ Cardinality(Active(scope)) <= 1
    /\ free = (Active(scope) = {})

-----------------------------------------------------------------------------
AdminAt(stage) == admin.stage = stage
AdminDone == admin' = [stage |-> Idle]

\* start_global, up to the look for an active window.
StartGlobal ==
    /\ AdminAt(Idle)
    /\ \E free \in BOOLEAN :
         /\ Looked("global", free)
         /\ admin' = IF free THEN [stage |-> "starting"] ELSE [stage |-> Idle]
    /\ UNCHANGED <<window, clerk>>

InsertGlobal(w) ==
    /\ AdminAt("starting")
    /\ New(w, "global", "emergency", "active", "open")
    /\ AdminDone
    /\ UNCHANGED clerk

\* schedule_maintenance for a later time.
Plan(w, plan) ==
    /\ AdminAt(Idle)
    /\ New(w, plan.scope, plan.state, "scheduled", plan.ends)
    /\ UNCHANGED <<clerk, admin>>

\* cancel_scheduled_maintenance
Cancel(w) ==
    /\ AdminAt(Idle)
    /\ Status(w, "scheduled")
    /\ Becomes(w, "cancelled")
    /\ UNCHANGED <<clerk, admin>>

\* end, up to the choice of a window; the code takes the one that started last.
EndPick(w) ==
    /\ AdminAt(Idle)
    /\ Status(w, "active")
    /\ admin' = [stage |-> "picked", window |-> w]
    /\ UNCHANGED <<window, clerk>>

\* Faulty: the windows of other scopes are not asked about.
RecoveredInScope(scope) ==
    \A w \in Active("global") : window[w].state = "degraded"

\* recovery_check without word of the provider: no window, the one to be ended
\* included, does more than degrade the scope.
Recovered(scope) == \A w \in Effective(scope) : window[w].state = "degraded"

EndCheck ==
    /\ AdminAt("picked")
    /\ admin' = [stage |-> "checked", window |-> admin.window,
                 ok |-> Recovered(window[admin.window].scope)]
    /\ UNCHANGED <<window, clerk>>

\* end_maintenance
End ==
    /\ AdminAt("checked")
    /\ IF admin.ok /\ Status(admin.window, "active")
       THEN Becomes(admin.window, "completed") ELSE UNCHANGED window
    /\ AdminDone
    /\ UNCHANGED clerk

-----------------------------------------------------------------------------
\* starts_at and expected_ends_at pass.
ComesDue(w) ==
    /\ Status(w, "scheduled") /\ ~window[w].due
    /\ window' = [window EXCEPT ![w].due = TRUE]
    /\ UNCHANGED <<clerk, admin>>

RunsOver(w) ==
    /\ Status(w, "active") /\ window[w].ends # "open" /\ ~window[w].over
    /\ window' = [window EXCEPT ![w].over = TRUE]
    /\ UNCHANGED <<clerk, admin>>

ClerkAt(stage) == clerk.stage = stage
ClerkDone == clerk' = [stage |-> Idle]

\* activate_due_windows: a window that is due, and whether its scope is taken.
FindDue(w) ==
    /\ ClerkAt(Idle)
    /\ Status(w, "scheduled") /\ window[w].due
    /\ \E free \in BOOLEAN :
         /\ Looked(window[w].scope, free)
         /\ clerk' = [stage |-> "activating", window |-> w, free |-> free]
    /\ UNCHANGED <<window, admin>>

\* What was found is written, whatever has become of the row.
Activate ==
    /\ ClerkAt("activating")
    /\ Becomes(clerk.window, IF clerk.free THEN "active" ELSE "cancelled")
    /\ ClerkDone
    /\ UNCHANGED admin

\* process_due_windows, after the activation.
FindOver(w) ==
    /\ ClerkAt(Idle)
    /\ Status(w, "active") /\ window[w].over
    /\ clerk' = [stage |-> "ending", window |-> w]
    /\ UNCHANGED <<window, admin>>

\* A window that needs approval is left to an administrator as "ending",
\* which closes nothing any more and which end_maintenance refuses.
EndDue ==
    /\ ClerkAt("ending")
    /\ Becomes(clerk.window, IF window[clerk.window].ends = "auto" THEN "completed" ELSE "ending")
    /\ ClerkDone
    /\ UNCHANGED admin

WindowStep ==
    \/ StartGlobal \/ EndCheck \/ End
    \/ \E w \in Planned :
         \/ InsertGlobal(w) \/ Cancel(w)
         \/ \E plan \in Plans : Plan(w, plan)
    \/ \E w \in Windows :
         EndPick(w) \/ ComesDue(w) \/ RunsOver(w) \/ FindDue(w) \/ FindOver(w)
    \/ Activate \/ EndDue

WindowTypeOK ==
    /\ window \in [Windows -> WindowRow \cup {None}]
    /\ clerk \in [stage : {Idle}]
         \cup [stage : {"activating"}, window : Windows, free : BOOLEAN]
         \cup [stage : {"ending"}, window : Windows]
    /\ admin \in [stage : {Idle, "starting"}]
         \cup [stage : {"picked"}, window : Windows]
         \cup [stage : {"checked"}, window : Windows, ok : BOOLEAN]
=============================================================================
