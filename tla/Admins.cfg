SPECIFICATION Spec
CONSTANTS
    None = None
    Idle = Idle
    Admins = {boss, helper}
    Configured = {boss, helper}
    Legacy = {helper}
    Actions = {credit, debit}
    Challenges = {k1}
    Sessions = {s1}
    Callers = {c1, c2}
    Managers = {c1}
    NewRoles = {"owner", "super_admin"}
    MaxChanges = 2
SYMMETRY MCSymmetry
INVARIANTS SessionKeepsRights
PROPERTIES ConfirmedWithPermission ConfirmsOnce OwnerRemains
