------------------------ MODULE AdminAuthorization ------------------------
(***************************************************************************)
(* Administrators: principals with role, status and session version,      *)
(* permission grants, admin sessions, and the one-time challenges that    *)
(* confirm a critical action.                                              *)
(*                                                                         *)
(* Every operation authorizes its actor in a transaction of its own and   *)
(* acts in a second one.  The second transaction of a change locks the    *)
(* target's principal and then updates its challenges; that of a          *)
(* confirmation locks the challenge and then the principal.  Both are two *)
(* steps here, so that the locks are held across a step of another caller. *)
(***************************************************************************)
EXTENDS Integers, FiniteSets

CONSTANTS
    Admins,         \* Telegram users that are or may become administrators
    Configured,     \* the ids in the allowlist of the configuration
    Legacy,         \* users whose old role column says admin
    Actions,        \* critical actions, each with its payload
    Challenges,
    Sessions,
    Callers,        \* requests that may be under way at the same time
    Managers,       \* the callers that change administrators
    NewRoles,       \* roles somebody may ask for
    MaxChanges,     \* bound on committed changes of administrators
    None,           \* no such row
    Idle

ChallengeRow == [by : Admins, action : Actions,
                 state : {"open", "lapsed", "used", "invalidated"}]

ASSUME AdminAssumption ==
    /\ IsFiniteSet(Admins)
    /\ Configured \subseteq Admins
    /\ Legacy \subseteq Admins
    /\ Managers \subseteq Callers
    /\ MaxChanges \in Nat
    /\ Idle \notin {"repairing", "authorized", "changing", "opening", "asking",
                   "answering", "confirming", "confirmed"}
    /\ None \notin ChallengeRow

VARIABLES
    principal,      \* admin_principals
    grant,          \* admin_permission_grants
    challenge,      \* privileged_action_challenges
    session,        \* admin_sessions; "rights" remembers what the actor could do
    performed,      \* the actions carried out after their confirmation
    task,           \* what each caller is doing
    changes

vars == <<principal, grant, challenge, session, performed, task, changes>>
rows == <<principal, grant, challenge, session, performed, changes>>

\* suspended and locked differ from revoked by their name only.
Statuses == {"active", "revoked"}

Rank == [owner |-> 60, super_admin |-> 50, admin |-> 40, finance |-> 30]
Roles == DOMAIN Rank

PrincipalRow == [status : Statuses, role : Roles, version : Nat,
                 source : {"config_bootstrap", "legacy_role_migration"}]

ASSUME RolesAssumption == NewRoles \subseteq Roles /\ None \notin PrincipalRow

\* The permissions that an operation of this service or a caller of
\* consume_challenge asks for, by role.
Permissions == {"manage_admins", "manage_permissions", "adjust_wallet"}
Policy == [owner       |-> Permissions,
           super_admin |-> {"manage_admins", "adjust_wallet"},
           admin       |-> {},
           finance     |-> {"adjust_wallet"}]

\* What a role gives, and the grants and denials made for one administrator.
Rights(a) ==
    {p \in Permissions : \/ grant[a][p] = "granted"
                         \/ grant[a][p] = "none" /\ p \in Policy[principal[a].role]}

Active(a) == principal[a] # None /\ principal[a].status = "active"

\* authorize, with and without a permission.
Holds(a, p) == Active(a) /\ p \in Rights(a)

ActiveOwners == {a \in Admins : Active(a) /\ principal[a].role = "owner"}

At(c, stage) == task[c].stage = stage
Go(c, t) == task' = [task EXCEPT ![c] = t]
Free == [stage |-> Idle]

\* Row locks: a change holds its target, a confirmation its challenge.
TargetLocked(a) == \E c \in Callers : At(c, "changing") /\ task[c].target = a
ChallengeLocked(k) == \E c \in Callers : At(c, "confirming") /\ task[c].challenge = k

-----------------------------------------------------------------------------
Init ==
    /\ principal = [a \in Admins |-> None]
    /\ grant = [a \in Admins |-> [p \in Permissions |-> "none"]]
    /\ challenge = [k \in Challenges |-> None]
    /\ session = [s \in Sessions |-> None]
    /\ performed = {}
    /\ task = [c \in Callers |-> Free]
    /\ changes = 0

NewPrincipal(role, source) ==
    [status |-> "active", role |-> role, version |-> 1, source |-> source]

\* ensure_bootstrap_admin for an id without a principal.
Bootstrap(a) ==
    /\ a \in Configured
    /\ principal[a] = None
    /\ principal' = [principal EXCEPT ![a] = NewPrincipal("owner", "config_bootstrap")]
    /\ UNCHANGED <<grant, challenge, session, performed, task, changes>>

\* resolve_principal for an administrator of the old role column.
MigrateLegacy(a) ==
    /\ a \in Legacy
    /\ principal[a] = None
    /\ principal' = [principal EXCEPT ![a] = NewPrincipal("admin", "legacy_role_migration")]
    /\ UNCHANGED <<grant, challenge, session, performed, task, changes>>

\* ensure_bootstrap_admin reads, without a lock, an active principal of its
\* own making that is no longer an owner ...
StartRepair(c, a) ==
    /\ At(c, Idle)
    /\ a \in Configured
    /\ Active(a)
    /\ principal[a].role # "owner"
    /\ principal[a].source = "config_bootstrap"
    /\ Go(c, [stage |-> "repairing", actor |-> a])
    /\ UNCHANGED rows

\* ... and makes it one again: the update waits for a lock on the row.
Repair(c) ==
    /\ At(c, "repairing")
    /\ ~TargetLocked(task[c].actor)
    /\ principal' = [principal EXCEPT ![task[c].actor].role = "owner"]
    /\ Go(c, Free)
    /\ UNCHANGED <<grant, challenge, session, performed, changes>>

-----------------------------------------------------------------------------
\* A change of an administrator: a role, a status, or a grant of permission p.
\* Each operation authorizes the actor and refuses what it may not ask for.
StartChange(c, a, b, change) ==
    /\ At(c, Idle)
    /\ Go(c, [stage |-> "authorized", actor |-> a, target |-> b, change |-> change])
    /\ UNCHANGED rows

StartRole(c, a, b, role) ==
    /\ Holds(a, "manage_admins")
    /\ a # b
    /\ Rank[role] < Rank[principal[a].role]
    /\ StartChange(c, a, b, [field |-> "role", to |-> role])

StartStatus(c, a, b, status) ==
    /\ Holds(a, "manage_admins")
    /\ StartChange(c, a, b, [field |-> "status", to |-> status])

StartGrant(c, a, b, p, granted) ==
    /\ Holds(a, "manage_permissions")
    /\ a # b
    /\ StartChange(c, a, b, [field |-> p, to |-> granted])

\* The change takes an owner out of office.
Dethrones(b, change) ==
    /\ principal[b].role = "owner"
    /\ \/ change.field = "role" /\ change.to # "owner"
       \/ change.field = "status" /\ change.to # "active"

\* Faulty: an owner always counts as replaceable.
AdmissibleOnceTwo(a, b, change) ==
    /\ Dethrones(b, change) => ActiveOwners # {}
    /\ ~(a = b /\ change.field = "status" /\ change.to # "active")

\* The last-owner and self-lockout checks.
Admissible(a, b, change) ==
    /\ Dethrones(b, change) => Cardinality(ActiveOwners) > 1
    /\ ~(a = b /\ change.field = "status" /\ change.to # "active")

\* The second transaction: the target is locked, the other owners are not.
LockTarget(c) ==
    /\ At(c, "authorized")
    /\ LET t == task[c] IN
         /\ principal[t.target] # None
         /\ ~TargetLocked(t.target)
         /\ changes < MaxChanges
         /\ Admissible(t.actor, t.target, t.change)
         /\ Go(c, [t EXCEPT !.stage = "changing"])
    /\ UNCHANGED rows

RefuseChange(c) ==
    /\ At(c, "authorized")
    /\ \/ principal[task[c].target] = None
       \/ changes = MaxChanges
       \/ /\ principal[task[c].target] # None
          /\ ~TargetLocked(task[c].target)
          /\ ~Admissible(task[c].actor, task[c].target, task[c].change)
    /\ Go(c, Free)
    /\ UNCHANGED rows

\* Faulty: a grant leaves the sessions alone.
BumpedUnlessGrant(row, change) ==
    CASE change.field = "role"   -> [row EXCEPT !.role = change.to, !.version = @ + 1]
      [] change.field = "status" -> [row EXCEPT !.status = change.to, !.version = @ + 1]
      [] OTHER                   -> row

\* The principal after a change: every kind raises the session version.
Bumped(row, change) ==
    CASE change.field = "role"   -> [row EXCEPT !.role = change.to, !.version = @ + 1]
      [] change.field = "status" -> [row EXCEPT !.status = change.to, !.version = @ + 1]
      [] OTHER                   -> [row EXCEPT !.version = @ + 1]

\* Faulty: a change leaves the challenges open.
InvalidatedNone(b) == challenge

\* _invalidate_challenges: the open ones of b, lapsed or not.
Invalidated(b) ==
    [k \in Challenges |->
        IF challenge[k] # None /\ challenge[k].by = b /\ challenge[k].state \in {"open", "lapsed"}
        THEN [challenge[k] EXCEPT !.state = "invalidated"]
        ELSE challenge[k]]

\* The update of the challenges waits for those a confirmation has locked.
CommitChange(c) ==
    /\ At(c, "changing")
    /\ LET b == task[c].target
           change == task[c].change IN
         /\ \A k \in Challenges :
              ChallengeLocked(k) => challenge[k].by # b
         /\ principal' = [principal EXCEPT ![b] = Bumped(principal[b], change)]
         /\ grant' = IF change.field \in Permissions
                     THEN [grant EXCEPT ![b][change.field] = change.to]
                     ELSE grant
         /\ challenge' = Invalidated(b)
    /\ changes' = changes + 1
    /\ Go(c, Free)
    /\ UNCHANGED <<session, performed>>

-----------------------------------------------------------------------------
\* open_session authorizes and then inserts, with the version it read.
StartSession(c, a) ==
    /\ At(c, Idle)
    /\ Active(a)
    /\ Go(c, [stage |-> "opening", actor |-> a,
              version |-> principal[a].version, rights |-> Rights(a)])
    /\ UNCHANGED rows

OpenSession(c, s) ==
    /\ At(c, "opening")
    /\ session[s] = None
    /\ session' = [session EXCEPT ![s] =
                     [by |-> task[c].actor, version |-> task[c].version,
                      rights |-> task[c].rights, ended |-> FALSE]]
    /\ Go(c, Free)
    /\ UNCHANGED <<principal, grant, challenge, performed, changes>>

\* revoke_session, or the session's time is up.
EndSession(s) ==
    /\ session[s] # None /\ ~session[s].ended
    /\ session' = [session EXCEPT ![s].ended = TRUE]
    /\ UNCHANGED <<principal, grant, challenge, performed, task, changes>>

\* validate_session; all it writes is last_seen_at.
Validates(s) ==
    /\ session[s] # None /\ ~session[s].ended
    /\ Active(session[s].by)
    /\ session[s].version = principal[session[s].by].version

-----------------------------------------------------------------------------
\* create_challenge authorizes ...
StartChallenge(c, a, act) ==
    /\ At(c, Idle)
    /\ Holds(a, "adjust_wallet")
    /\ Go(c, [stage |-> "asking", actor |-> a, action |-> act])
    /\ UNCHANGED rows

\* ... and inserts.
CreateChallenge(c, k) ==
    /\ At(c, "asking")
    /\ challenge[k] = None
    /\ challenge' = [challenge EXCEPT ![k] =
                       [by |-> task[c].actor, action |-> task[c].action, state |-> "open"]]
    /\ Go(c, Free)
    /\ UNCHANGED <<principal, grant, session, performed, changes>>

ChallengeLapses(k) ==
    /\ challenge[k] # None /\ challenge[k].state = "open"
    /\ ~ChallengeLocked(k)
    /\ challenge' = [challenge EXCEPT ![k].state = "lapsed"]
    /\ UNCHANGED <<principal, grant, session, performed, task, changes>>

\* consume_challenge authorizes ...
StartConfirm(c, a, k, act) ==
    /\ At(c, Idle)
    /\ challenge[k] # None          \* its id is known to nobody before
    /\ Holds(a, "adjust_wallet")
    /\ Go(c, [stage |-> "answering", actor |-> a, challenge |-> k, action |-> act])
    /\ UNCHANGED rows

\* Faulty: whether it was used is not asked.
BoundAndUsable(t) ==
    /\ challenge[t.challenge].by = t.actor
    /\ challenge[t.challenge].action = t.action
    /\ challenge[t.challenge].state \in {"open", "used"}

\* The challenge is the actor's, for this action, unused, valid and in time.
Confirms(t) ==
    /\ challenge[t.challenge].by = t.actor
    /\ challenge[t.challenge].action = t.action
    /\ challenge[t.challenge].state = "open"

\* ... locks the challenge and checks it ...
LockChallenge(c) ==
    /\ At(c, "answering")
    /\ ~ChallengeLocked(task[c].challenge)
    /\ Go(c, IF Confirms(task[c]) THEN [task[c] EXCEPT !.stage = "confirming"] ELSE Free)
    /\ UNCHANGED rows

\* ... and the principal.  The challenge is spent in either case.
Confirm(c) ==
    /\ At(c, "confirming")
    /\ ~TargetLocked(task[c].actor)
    /\ challenge' = [challenge EXCEPT ![task[c].challenge].state = "used"]
    /\ Go(c, IF Active(task[c].actor) THEN [task[c] EXCEPT !.stage = "confirmed"] ELSE Free)
    /\ UNCHANGED <<principal, grant, session, performed, changes>>

\* The caller goes on to the action, in a transaction of its own: the credit
\* or debit under the request's key, or the new payment methods.
Perform(c) ==
    /\ At(c, "confirmed")
    /\ performed' = performed \cup {task[c].action}
    /\ Go(c, Free)
    /\ UNCHANGED <<principal, grant, challenge, session, changes>>

\* The process dies, or the database breaks a deadlock of locks taken in
\* opposite order: the transaction is rolled back.
Abandon(c) ==
    /\ ~At(c, Idle)
    /\ Go(c, Free)
    /\ UNCHANGED rows

-----------------------------------------------------------------------------
Manage(c) ==
    \/ \E a, b \in Admins :
         \/ \E r \in NewRoles : StartRole(c, a, b, r)
         \/ \E s \in Statuses : StartStatus(c, a, b, s)
         \/ \E g \in {"granted", "denied"} : StartGrant(c, a, b, "adjust_wallet", g)
    \/ LockTarget(c)
    \/ RefuseChange(c)
    \/ CommitChange(c)

Use(c) ==
    \/ \E a \in Admins :
         \/ StartRepair(c, a)
         \/ StartSession(c, a)
         \/ \E act \in Actions :
              \/ StartChallenge(c, a, act)
              \/ \E k \in Challenges : StartConfirm(c, a, k, act)
    \/ Repair(c)
    \/ \E s \in Sessions : OpenSession(c, s)
    \/ \E k \in Challenges : CreateChallenge(c, k)
    \/ LockChallenge(c)
    \/ Confirm(c)
    \/ Perform(c)
    \/ Abandon(c)

Next ==
    \/ \E a \in Admins : Bootstrap(a) \/ MigrateLegacy(a)
    \/ \E c \in Managers : Manage(c)
    \/ \E c \in Callers : Use(c)
    \/ \E s \in Sessions : EndSession(s)
    \/ \E k \in Challenges : ChallengeLapses(k)

Spec == Init /\ [][Next]_vars

-----------------------------------------------------------------------------
ChangeOf == [field : {"role"}, to : Roles] \cup [field : {"status"}, to : Statuses]
              \cup [field : Permissions, to : {"granted", "denied"}]

TaskOf ==
    [stage : {Idle}]
      \cup [stage : {"repairing"}, actor : Admins]
      \cup [stage : {"authorized", "changing"}, actor : Admins, target : Admins,
            change : ChangeOf]
      \cup [stage : {"opening"}, actor : Admins, version : Nat, rights : SUBSET Permissions]
      \cup [stage : {"asking"}, actor : Admins, action : Actions]
      \cup [stage : {"answering", "confirming", "confirmed"}, actor : Admins,
            challenge : Challenges, action : Actions]

\* The types, and: a caller holds rows that exist, one holder for each.
TypeOK ==
    /\ principal \in [Admins -> PrincipalRow \cup {None}]
    /\ grant \in [Admins -> [Permissions -> {"none", "granted", "denied"}]]
    /\ challenge \in [Challenges -> ChallengeRow \cup {None}]
    /\ session \in [Sessions ->
                      [by : Admins, version : Nat, rights : SUBSET Permissions,
                       ended : BOOLEAN] \cup {None}]
    /\ performed \subseteq Actions
    /\ task \in [Callers -> TaskOf]
    /\ changes \in Nat
    /\ \A c \in Callers :
         /\ At(c, "changing") => principal[task[c].target] \in PrincipalRow
         /\ At(c, "repairing") => principal[task[c].actor] \in PrincipalRow
         /\ At(c, "answering") \/ At(c, "confirming") =>
              challenge[task[c].challenge] \in ChallengeRow
    /\ \A c, d \in Callers : c # d =>
         /\ ~(At(c, "changing") /\ At(d, "changing") /\ task[c].target = task[d].target)
         /\ ~(At(c, "confirming") /\ At(d, "confirming") /\ task[c].challenge = task[d].challenge)

\* Nobody confirms a critical action who does not hold its permission at that
\* moment, although the permission was read in an earlier transaction: a
\* change of the administrator has spent the challenge or waits for it.
ConfirmedWithPermission ==
    [][\A c \in Callers :
         ~At(c, "confirmed") /\ task'[c].stage = "confirmed"
           => Holds(task[c].actor, "adjust_wallet")]_vars

\* A challenge confirms once: when it is used it stays used, and no caller
\* gets a second confirmation from it.
ConfirmsOnce ==
    [][\A k \in Challenges :
         challenge[k] # None /\ challenge[k].state = "used" =>
           /\ challenge'[k] = challenge[k]
           /\ \A c \in Callers :
                task'[c].stage = "confirmed" /\ task'[c].challenge = k
                  => At(c, "confirmed")]_vars

\* What was carried out had been confirmed, for exactly that payload.
PerformedWasConfirmed ==
    \A act \in performed :
        \E k \in Challenges : /\ challenge[k] # None
                              /\ challenge[k].action = act
                              /\ challenge[k].state = "used"

\* A session that validates was opened with the rights its administrator has
\* now; the one way they may have grown unseen is the repair of a configured
\* owner, which leaves the version alone.
SessionKeepsRights ==
    \A s \in Sessions : Validates(s) =>
        LET a == session[s].by IN
          \/ session[s].rights = Rights(a)
          \/ /\ principal[a].source = "config_bootstrap" /\ principal[a].role = "owner"
             /\ session[s].rights \subseteq Rights(a)

\* Once there is an active owner, there is always one.
OwnerRemains == [][ActiveOwners # {} => ActiveOwners' # {}]_vars
=============================================================================
