----------------------- MODULE AdminAuthorizationProofs -----------------------
(***************************************************************************)
(* Proofs about AdminAuthorization, for any administrators, challenges,    *)
(* sessions and callers, all of which may change administrators.           *)
(***************************************************************************)
EXTENDS AdminAuthorization, FiniteSetTheorems, TLAPS

USE DEF At, Go, Free

\* What a caller has in hand, by its stage.
LEMMA TaskShape ==
    ASSUME TypeOK, NEW c \in Callers
    PROVE  /\ At(c, "repairing") => task[c].actor \in Admins
           /\ At(c, "authorized") \/ At(c, "changing") =>
                task[c] \in [stage : {"authorized", "changing"}, actor : Admins,
                             target : Admins, change : ChangeOf]
           /\ At(c, "opening") => task[c] \in [stage : {"opening"}, actor : Admins, version : Nat,
                                               rights : SUBSET Permissions]
           /\ At(c, "asking") => task[c] \in [stage : {"asking"}, actor : Admins, action : Actions]
           /\ At(c, "answering") \/ At(c, "confirming") \/ At(c, "confirmed") =>
                task[c] \in [stage : {"answering", "confirming", "confirmed"}, actor : Admins,
                             challenge : Challenges, action : Actions]
<1>1. task[c] \in TaskOf
  BY DEF TypeOK
<1>2. QED BY <1>1, AdminAssumption DEF TaskOf

\* No principal and no challenge goes away.
Kept == /\ principal' \in [Admins -> PrincipalRow \cup {None}]
        /\ \A a \in Admins : principal[a] \in PrincipalRow => principal'[a] \in PrincipalRow
        /\ challenge' \in [Challenges -> ChallengeRow \cup {None}]
        /\ \A k \in Challenges : challenge[k] \in ChallengeRow => challenge'[k] \in ChallengeRow

\* The rows a task is about exist.
Founded(t) ==
    /\ t.stage = "changing" => principal[t.target] \in PrincipalRow
    /\ t.stage = "repairing" => principal[t.actor] \in PrincipalRow
    /\ t.stage \in {"answering", "confirming"} => challenge[t.challenge] \in ChallengeRow

\* What TypeOK says of the callers.
Tasks ==
    /\ task \in [Callers -> TaskOf]
    /\ \A c \in Callers : Founded(task[c])
    /\ \A c, d \in Callers : c # d =>
         /\ ~(At(c, "changing") /\ At(d, "changing") /\ task[c].target = task[d].target)
         /\ ~(At(c, "confirming") /\ At(d, "confirming") /\ task[c].challenge = task[d].challenge)

LEMMA TasksAreTyped == TypeOK => Tasks
  BY DEF TypeOK, Tasks, Founded

\* One caller's task is replaced, and takes no lock that another holds.
LEMMA TaskStep ==
    ASSUME TypeOK, Kept, NEW c \in Callers, NEW t \in TaskOf,
           task' = [task EXCEPT ![c] = t],
           Founded(t),
           t.stage = "changing" => ~TargetLocked(t.target),
           t.stage = "confirming" => ~ChallengeLocked(t.challenge)
    PROVE  Tasks'
<1>1. task' \in [Callers -> TaskOf] /\ task'[c] = t
      /\ \A d \in Callers \ {c} : task'[d] = task[d]
  BY DEF TypeOK
<1>2. \A d \in Callers : Founded(task[d])
  BY TasksAreTyped DEF Tasks
<1>3. ASSUME NEW d \in Callers
      PROVE  /\ task'[d].stage = "changing" => principal'[task'[d].target] \in PrincipalRow
             /\ task'[d].stage = "repairing" => principal'[task'[d].actor] \in PrincipalRow
             /\ task'[d].stage \in {"answering", "confirming"} =>
                  challenge'[task'[d].challenge] \in ChallengeRow
  <2>1. Founded(task'[d]) /\ task'[d] \in TaskOf
    BY <1>1, <1>2
  <2>2. /\ task'[d].stage = "changing" => task'[d].target \in Admins
        /\ task'[d].stage = "repairing" => task'[d].actor \in Admins
        /\ task'[d].stage \in {"answering", "confirming"} => task'[d].challenge \in Challenges
    BY <2>1, AdminAssumption DEF TaskOf
  <2>3. QED BY <2>1, <2>2 DEF Founded, Kept
<1>4. ASSUME NEW d \in Callers, NEW e \in Callers, d # e
      PROVE  /\ ~(At(d, "changing")' /\ At(e, "changing")' /\ task'[d].target = task'[e].target)
             /\ ~(At(d, "confirming")' /\ At(e, "confirming")'
                    /\ task'[d].challenge = task'[e].challenge)
  BY <1>1, <1>4 DEF TypeOK, TargetLocked, ChallengeLocked
<1>5. QED BY <1>1, <1>3, <1>4 DEF Tasks, Founded

LEMMA StillTasks == TypeOK /\ Kept /\ UNCHANGED task => Tasks'
<1> SUFFICES ASSUME TypeOK, Kept, UNCHANGED task
             PROVE  Tasks'
    OBVIOUS
<1>1. ASSUME NEW c \in Callers
      PROVE  /\ task'[c].stage = "changing" => principal'[task'[c].target] \in PrincipalRow
             /\ task'[c].stage = "repairing" => principal'[task'[c].actor] \in PrincipalRow
             /\ task'[c].stage \in {"answering", "confirming"} =>
                  challenge'[task'[c].challenge] \in ChallengeRow
  <2>1. Founded(task[c]) /\ task[c] \in TaskOf
    BY TasksAreTyped DEF Tasks
  <2>2. /\ task[c].stage = "changing" => task[c].target \in Admins
        /\ task[c].stage = "repairing" => task[c].actor \in Admins
        /\ task[c].stage \in {"answering", "confirming"} => task[c].challenge \in Challenges
    BY <2>1, AdminAssumption DEF TaskOf
  <2>3. QED BY <2>1, <2>2 DEF Founded, Kept
<1>2. QED BY <1>1, TasksAreTyped DEF Tasks, Founded

LEMMA VersionSet ==
    ASSUME NEW row \in PrincipalRow, NEW v \in Nat
    PROVE  [row EXCEPT !.version = v] \in PrincipalRow
  BY DEF PrincipalRow

LEMMA FreeTask == [stage |-> Idle] \in TaskOf
                  /\ Idle \notin {"changing", "repairing", "answering", "confirming"}
                  /\ Founded([stage |-> Idle])
  BY AdminAssumption DEF TaskOf, Founded

LEMMA TypeStep == TypeOK /\ [Next]_vars => TypeOK'
<1> SUFFICES ASSUME TypeOK, [Next]_vars
             PROVE  TypeOK'
    OBVIOUS
<1>1. ASSUME NEW a \in Admins, Bootstrap(a) \/ MigrateLegacy(a)
      PROVE  TypeOK'
  <2>1. \A source \in {"config_bootstrap", "legacy_role_migration"} :
           NewPrincipal("owner", source) \in PrincipalRow /\ NewPrincipal("admin", source) \in PrincipalRow
    BY DEF NewPrincipal, PrincipalRow, Statuses, Roles, Rank
  <2>2. Kept
    BY <1>1, <2>1 DEF TypeOK, Kept, Bootstrap, MigrateLegacy
  <2>3. Tasks'
    BY <1>1, <2>2, StillTasks DEF Bootstrap, MigrateLegacy
  <2>4. QED BY <1>1, <2>2, <2>3 DEF TypeOK, Tasks, Founded, Kept, Bootstrap, MigrateLegacy
<1>2. ASSUME NEW c \in Callers, Manage(c)
      PROVE  TypeOK'
  <2>1. ASSUME NEW a \in Admins, NEW b \in Admins,
               NEW change \in ChangeOf,
               StartChange(c, a, b, change)
        PROVE  TypeOK'
    <3>1. [stage |-> "authorized", actor |-> a, target |-> b, change |-> change] \in TaskOf
          /\ Founded([stage |-> "authorized", actor |-> a, target |-> b, change |-> change])
      BY DEF TaskOf, Founded
    <3>2. Tasks'
      BY <2>1, <3>1, TaskStep DEF StartChange, rows, TypeOK, Kept
    <3>3. QED BY <2>1, <3>2 DEF StartChange, rows, TypeOK, Tasks, Founded
  <2>2. ASSUME NEW a \in Admins, NEW b \in Admins, NEW r \in NewRoles, StartRole(c, a, b, r)
        PROVE  TypeOK'
    BY <2>2, <2>1, RolesAssumption DEF StartRole, ChangeOf
  <2>3. ASSUME NEW a \in Admins, NEW b \in Admins, NEW s \in Statuses, StartStatus(c, a, b, s)
        PROVE  TypeOK'
    BY <2>3, <2>1 DEF StartStatus, ChangeOf
  <2>4. ASSUME NEW a \in Admins, NEW b \in Admins, NEW g \in {"granted", "denied"},
               StartGrant(c, a, b, "adjust_wallet", g)
        PROVE  TypeOK'
    BY <2>4, <2>1 DEF StartGrant, ChangeOf, Permissions
  <2>5. CASE LockTarget(c)
    <3> DEFINE t == [task[c] EXCEPT !.stage = "changing"]
    <3>1. task' = [task EXCEPT ![c] = t] /\ UNCHANGED rows /\ At(c, "authorized")
          /\ ~TargetLocked(task[c].target)
      BY <2>5 DEF LockTarget
    <3>2. t \in TaskOf /\ t.target = task[c].target /\ t.stage = "changing"
      <4>1. t = [stage |-> "changing", actor |-> task[c].actor,
                 target |-> task[c].target, change |-> task[c].change]
        <5>1. task[c] \in [stage : {"authorized", "changing"}, actor : Admins,
                           target : Admins, change : ChangeOf]
          BY <3>1, TaskShape
        <5>2. QED BY <5>1
      <4>2. QED BY <3>1, <4>1, TaskShape DEF TaskOf
    <3> HIDE DEF t
    <3>3. Founded(t)
      <4>1. principal[task[c].target] \in PrincipalRow
        BY <2>5, <3>1, TaskShape DEF LockTarget, TypeOK
      <4>2. QED BY <3>2, <4>1 DEF Founded
    <3>4. Tasks'
      BY <3>1, <3>2, <3>3, TaskStep DEF rows, TypeOK, Kept
    <3>5. QED BY <3>1, <3>4 DEF TypeOK, rows, Tasks, Founded
  <2>6. CASE RefuseChange(c)
    <3>1. Tasks'
      BY <2>6, FreeTask, TaskStep DEF RefuseChange, rows, TypeOK, Kept
    <3>2. QED BY <2>6, <3>1 DEF RefuseChange, rows, TypeOK, Tasks, Founded
  <2>7. CASE CommitChange(c)
    <3> DEFINE b == task[c].target
               change == task[c].change
    <3>1. b \in Admins /\ change \in ChangeOf
      BY <2>7, TaskShape DEF CommitChange
    <3>2. /\ principal' = [principal EXCEPT ![b] = Bumped(principal[b], change)]
          /\ grant' = IF change.field \in Permissions
                      THEN [grant EXCEPT ![b][change.field] = change.to] ELSE grant
          /\ challenge' = Invalidated(b)
          /\ changes' = changes + 1
          /\ task' = [task EXCEPT ![c] = [stage |-> Idle]]
          /\ UNCHANGED <<session, performed>>
      BY <2>7 DEF CommitChange
    <3> HIDE DEF b, change
    <3>3. principal[b] \in PrincipalRow
      BY <2>7 DEF CommitChange, TypeOK, b
    <3>4. Kept
      <4>1. Bumped(principal[b], change) \in PrincipalRow
        <5>1. /\ change.field = "role" => change.to \in Roles
              /\ change.field = "status" => change.to \in Statuses
          BY <3>1 DEF ChangeOf, Permissions
        <5>2. CASE change.field = "role"
          <6>1. [principal[b] EXCEPT !.role = change.to] \in PrincipalRow
            BY <3>3, <5>1, <5>2 DEF PrincipalRow
          <6>2. Bumped(principal[b], change)
                  = [[principal[b] EXCEPT !.role = change.to] EXCEPT !.version = principal[b].version + 1]
            BY <5>2 DEF Bumped
          <6>3. principal[b].version + 1 \in Nat
            BY <3>3 DEF PrincipalRow
          <6>4. QED BY <6>1, <6>2, <6>3, VersionSet
        <5>3. CASE change.field = "status"
          <6>1. [principal[b] EXCEPT !.status = change.to] \in PrincipalRow
            BY <3>3, <5>1, <5>3 DEF PrincipalRow
          <6>2. Bumped(principal[b], change)
                  = [[principal[b] EXCEPT !.status = change.to] EXCEPT !.version = principal[b].version + 1]
            BY <5>3 DEF Bumped
          <6>3. principal[b].version + 1 \in Nat
            BY <3>3 DEF PrincipalRow
          <6>4. QED BY <6>1, <6>2, <6>3, VersionSet
        <5>4. CASE change.field \notin {"role", "status"}
          BY <3>3, <5>4 DEF Bumped, PrincipalRow
        <5>5. QED BY <5>2, <5>3, <5>4
      <4>2. /\ challenge' \in [Challenges -> ChallengeRow \cup {None}]
            /\ \A k \in Challenges : challenge[k] \in ChallengeRow => challenge'[k] \in ChallengeRow
        BY <3>2 DEF TypeOK, Invalidated, ChallengeRow
      <4>3. QED BY <3>1, <3>2, <4>1, <4>2 DEF TypeOK, Kept
    <3>5. grant' \in [Admins -> [Permissions -> {"none", "granted", "denied"}]]
      BY <3>1, <3>2 DEF TypeOK, ChangeOf, Permissions
    <3>6. Tasks'
      BY <3>2, <3>4, FreeTask, TaskStep
    <3>7. QED BY <3>2, <3>4, <3>5, <3>6 DEF TypeOK, Tasks, Founded, Kept
  <2>8. QED BY <1>2, <2>2, <2>3, <2>4, <2>5, <2>6, <2>7 DEF Manage
<1>3. ASSUME NEW c \in Callers, Use(c)
      PROVE  TypeOK'
  <2>1. ASSUME NEW t \in TaskOf, task' = [task EXCEPT ![c] = t], UNCHANGED rows, Founded(t),
               t.stage # "changing",
               t.stage = "confirming" => ~ChallengeLocked(t.challenge)
        PROVE  TypeOK'
    <3>1. Tasks'
      BY <2>1, TaskStep DEF rows, TypeOK, Kept
    <3>2. QED BY <2>1, <3>1 DEF rows, TypeOK, Tasks, Founded
  <2>2. ASSUME NEW a \in Admins,
               \/ StartRepair(c, a) \/ StartSession(c, a)
               \/ \E act \in Actions : \/ StartChallenge(c, a, act)
                                       \/ \E k \in Challenges : StartConfirm(c, a, k, act)
        PROVE  TypeOK'
    <3>1. CASE StartRepair(c, a)
      <4>1. principal[a] \in PrincipalRow
        BY <3>1 DEF StartRepair, Active, TypeOK
      <4>2. [stage |-> "repairing", actor |-> a] \in TaskOf
            /\ Founded([stage |-> "repairing", actor |-> a])
        BY <4>1 DEF TaskOf, Founded
      <4>3. QED BY <2>1, <3>1, <4>2 DEF StartRepair
    <3>2. CASE StartSession(c, a)
      <4> DEFINE t == [stage |-> "opening", actor |-> a, version |-> principal[a].version,
                       rights |-> Rights(a)]
      <4>1. principal[a].version \in Nat
        BY <3>2 DEF StartSession, Active, TypeOK, PrincipalRow
      <4>2. Rights(a) \in SUBSET Permissions
        BY DEF Rights
      <4>3. t \in TaskOf /\ Founded(t)
        BY <4>1, <4>2 DEF TaskOf, Founded
      <4>4. QED BY <2>1, <3>2, <4>3 DEF StartSession
    <3>3. ASSUME NEW act \in Actions, StartChallenge(c, a, act)
          PROVE  TypeOK'
      <4>1. [stage |-> "asking", actor |-> a, action |-> act] \in TaskOf
            /\ Founded([stage |-> "asking", actor |-> a, action |-> act])
        BY DEF TaskOf, Founded
      <4>2. QED BY <2>1, <3>3, <4>1 DEF StartChallenge
    <3>4. ASSUME NEW act \in Actions, NEW k \in Challenges, StartConfirm(c, a, k, act)
          PROVE  TypeOK'
      <4> DEFINE t == [stage |-> "answering", actor |-> a, challenge |-> k, action |-> act]
      <4>1. t \in TaskOf /\ Founded(t)
        BY <3>4 DEF TaskOf, Founded, StartConfirm, TypeOK
      <4>2. QED BY <2>1, <3>4, <4>1 DEF StartConfirm
    <3>5. QED BY <2>2, <3>1, <3>2, <3>3, <3>4
  <2>3. CASE Repair(c)
    <3>1. task[c].actor \in Admins /\ principal[task[c].actor] \in PrincipalRow
      BY <2>3, TaskShape DEF Repair, TypeOK
    <3>2. Kept
      <4>1. \A row \in PrincipalRow : [row EXCEPT !.role = "owner"] \in PrincipalRow
        BY DEF PrincipalRow, Roles, Rank
      <4>2. QED BY <2>3, <3>1, <4>1 DEF Repair, TypeOK, Kept
    <3>3. Tasks'
      BY <2>3, <3>2, FreeTask, TaskStep DEF Repair
    <3>4. QED BY <2>3, <3>2, <3>3 DEF Repair, TypeOK, Tasks, Founded, Kept
  <2>4. ASSUME NEW s \in Sessions, OpenSession(c, s)
        PROVE  TypeOK'
    <3>1. [by |-> task[c].actor, version |-> task[c].version, rights |-> task[c].rights,
           ended |-> FALSE]
            \in [by : Admins, version : Nat, rights : SUBSET Permissions, ended : BOOLEAN]
      BY <2>4, TaskShape DEF OpenSession
    <3>2. Tasks'
      BY <2>4, FreeTask, TaskStep DEF OpenSession, TypeOK, Kept
    <3>3. QED BY <2>4, <3>1, <3>2 DEF OpenSession, TypeOK, Tasks, Founded
  <2>5. ASSUME NEW k \in Challenges, CreateChallenge(c, k)
        PROVE  TypeOK'
    <3>1. [by |-> task[c].actor, action |-> task[c].action, state |-> "open"] \in ChallengeRow
      BY <2>5, TaskShape DEF CreateChallenge, ChallengeRow
    <3>2. Kept
      BY <2>5, <3>1 DEF CreateChallenge, TypeOK, Kept
    <3>3. Tasks'
      BY <2>5, <3>2, FreeTask, TaskStep DEF CreateChallenge
    <3>4. QED BY <2>5, <3>2, <3>3 DEF CreateChallenge, TypeOK, Tasks, Founded, Kept
  <2>6. CASE LockChallenge(c)
    <3> DEFINE t == [task[c] EXCEPT !.stage = "confirming"]
    <3>1. At(c, "answering") /\ ~ChallengeLocked(task[c].challenge) /\ UNCHANGED rows
          /\ (task' = [task EXCEPT ![c] = t] \/ task' = [task EXCEPT ![c] = Free])
      BY <2>6 DEF LockChallenge
    <3>2. task[c] \in [stage : {"answering", "confirming", "confirmed"}, actor : Admins,
                       challenge : Challenges, action : Actions]
      BY <3>1, TaskShape
    <3>3. t \in TaskOf /\ t.stage = "confirming" /\ t.challenge = task[c].challenge
      BY <3>2 DEF TaskOf
    <3> HIDE DEF t
    <3>4. Founded(t)
      BY <3>1, <3>3 DEF Founded, TypeOK
    <3>5. QED BY <2>1, <3>1, <3>3, <3>4, FreeTask
  <2>7. CASE Confirm(c)
    <3> DEFINE t == IF Active(task[c].actor) THEN [task[c] EXCEPT !.stage = "confirmed"] ELSE Free
    <3>1. task[c] \in [stage : {"answering", "confirming", "confirmed"}, actor : Admins,
                       challenge : Challenges, action : Actions]
      BY <2>7, TaskShape DEF Confirm
    <3>2. t \in TaskOf /\ t.stage \in {Idle, "confirmed"}
      BY <3>1, FreeTask DEF TaskOf
    <3>3. task' = [task EXCEPT ![c] = t]
      BY <2>7 DEF Confirm
    <3> HIDE DEF t
    <3>4. Founded(t)
      BY <3>2, FreeTask DEF Founded
    <3>5. Kept
      <4>1. \A row \in ChallengeRow : [row EXCEPT !.state = "used"] \in ChallengeRow
        BY DEF ChallengeRow
      <4>2. QED BY <2>7, <3>1, <4>1 DEF Confirm, TypeOK, Kept
    <3>6. Tasks'
      BY <3>2, <3>3, <3>4, <3>5, FreeTask, TaskStep
    <3>7. QED BY <2>7, <3>5, <3>6 DEF Confirm, TypeOK, Tasks, Founded, Kept
  <2>8. CASE Perform(c)
    <3>1. task[c].action \in Actions
      BY <2>8, TaskShape DEF Perform
    <3>2. Tasks'
      BY <2>8, FreeTask, TaskStep DEF Perform, TypeOK, Kept
    <3>3. QED BY <2>8, <3>1, <3>2 DEF Perform, TypeOK, Tasks, Founded
  <2>9. CASE Abandon(c)
    BY <2>9, <2>1, FreeTask DEF Abandon
  <2>10. QED
    BY <1>3, <2>2, <2>3, <2>4, <2>5, <2>6, <2>7, <2>8, <2>9 DEF Use
<1>4. ASSUME NEW s \in Sessions, EndSession(s)
      PROVE  TypeOK'
  <2>1. Tasks'
    BY <1>4, StillTasks DEF EndSession, TypeOK, Kept
  <2>2. QED BY <1>4, <2>1 DEF EndSession, TypeOK, Tasks, Founded
<1>5. ASSUME NEW k \in Challenges, ChallengeLapses(k)
      PROVE  TypeOK'
  <2>1. \A row \in ChallengeRow : [row EXCEPT !.state = "lapsed"] \in ChallengeRow
    BY DEF ChallengeRow
  <2>2. Kept
    BY <1>5, <2>1 DEF ChallengeLapses, TypeOK, Kept
  <2>3. Tasks'
    BY <1>5, <2>2, StillTasks DEF ChallengeLapses
  <2>4. QED BY <1>5, <2>2, <2>3 DEF ChallengeLapses, TypeOK, Tasks, Founded, Kept
<1>6. CASE UNCHANGED vars
  <2>1. Tasks'
    BY <1>6, StillTasks DEF vars, TypeOK, Kept
  <2>2. QED BY <1>6, <2>1 DEF vars, TypeOK, Tasks, Founded
<1>7. QED
  BY <1>1, <1>2, <1>3, <1>4, <1>5, <1>6, AdminAssumption DEF Next

\* The variables of the module keep their types.
THEOREM TypeCorrect == Spec => []TypeOK
<1>1. Init => TypeOK
  BY FreeTask DEF Init, TypeOK
<1>2. QED BY <1>1, TypeStep, PTL DEF Spec

-----------------------------------------------------------------------------
\* What holds of a caller that is about to confirm: as long as its challenge is
\* open and its own, the permission it read is still the actor's; and when it has
\* locked the challenge, the challenge is open and its own.
Permitted(c) ==
    /\ /\ At(c, "answering")
       /\ challenge[task[c].challenge].state = "open"
       /\ challenge[task[c].challenge].by = task[c].actor
       => Holds(task[c].actor, "adjust_wallet")
    /\ At(c, "confirming") =>
         /\ challenge[task[c].challenge].state = "open"
         /\ challenge[task[c].challenge].by = task[c].actor
         /\ Holds(task[c].actor, "adjust_wallet")

ConfirmInv == TypeOK /\ \A c \in Callers : Permitted(c)

\* The permission of an administrator whose rows stay does.
LEMMA SameRights ==
    ASSUME NEW a, principal'[a] = principal[a], grant'[a] = grant[a]
    PROVE  Holds(a, "adjust_wallet") => Holds(a, "adjust_wallet")'
  BY DEF Holds, Active, Rights, Permissions

\* No new principal and no repair takes the permission from anybody.
LEMMA NewKeepsRights ==
    ASSUME TypeOK, NEW b \in Admins, Bootstrap(b) \/ MigrateLegacy(b), NEW a \in Admins
    PROVE  Holds(a, "adjust_wallet") => Holds(a, "adjust_wallet")'
<1>1. CASE principal[a] = None
  BY <1>1 DEF Holds, Active
<1>2. CASE principal[a] # None
  <2>1. principal'[a] = principal[a] /\ grant'[a] = grant[a]
    BY <1>2 DEF TypeOK, Bootstrap, MigrateLegacy
  <2>2. QED BY <2>1, SameRights
<1>3. QED BY <1>1, <1>2

LEMMA RepairKeepsRights ==
    ASSUME TypeOK, NEW c \in Callers, Repair(c), NEW a \in Admins
    PROVE  Holds(a, "adjust_wallet") => Holds(a, "adjust_wallet")'
<1>1. CASE a # task[c].actor
  <2>1. principal'[a] = principal[a] /\ grant'[a] = grant[a]
    BY <1>1 DEF TypeOK, Repair
  <2>2. QED BY <2>1, SameRights
<1>2. CASE a = task[c].actor
  <2>1. /\ principal[a] \in PrincipalRow
        /\ principal'[a] = [principal[a] EXCEPT !.role = "owner"]
        /\ grant' = grant
    BY <1>2 DEF TypeOK, Repair
  <2>2. /\ principal'[a] # None /\ principal'[a].status = principal[a].status
        /\ principal'[a].role = "owner"
    <3>1. principal'[a] \in PrincipalRow
      BY <2>1 DEF PrincipalRow, Roles, Rank
    <3>2. None \notin PrincipalRow
      BY RolesAssumption
    <3>3. QED BY <2>1, <3>1, <3>2 DEF PrincipalRow
  <2>3. QED BY <2>1, <2>2 DEF Holds, Active, Rights, Policy, Permissions
<1>3. QED BY <1>1, <1>2

\* A caller whose task stays is permitted as before, if its challenge stays or is
\* closed, and its actor's rights are kept.
LEMMA StillPermitted ==
    ASSUME NEW d \in Callers, Permitted(d), task'[d] = task[d],
           NEW a, a = task[d].actor, NEW k, k = task[d].challenge,
           At(d, "confirming") => challenge'[k] = challenge[k],
           At(d, "answering") => challenge'[k] = challenge[k] \/ challenge'[k].state # "open",
           /\ At(d, "answering") \/ At(d, "confirming")
           /\ challenge'[k] = challenge[k]
           /\ challenge[k].state = "open" /\ challenge[k].by = a
           /\ Holds(a, "adjust_wallet")
           => Holds(a, "adjust_wallet")'
    PROVE  Permitted(d)'
  BY DEF Permitted, Holds, Active, Rights

\* The challenges stay, and nobody loses the permission: everybody is permitted
\* as before who goes on with the same task.
LEMMA RowsStay ==
    ASSUME ConfirmInv, UNCHANGED challenge, NEW d \in Callers, task'[d] = task[d],
           \A a \in Admins : Holds(a, "adjust_wallet") => Holds(a, "adjust_wallet")'
    PROVE  Permitted(d)'
<1>1. At(d, "answering") \/ At(d, "confirming") => task[d].actor \in Admins
  BY TaskShape DEF ConfirmInv
<1> DEFINE a == task[d].actor
           k == task[d].challenge
<1>2. Permitted(d)
  BY DEF ConfirmInv
<1>3. \A b \in Admins : b = a => (Holds(b, "adjust_wallet") => Holds(b, "adjust_wallet")')
  OBVIOUS
<1>4. QED BY <1>1, <1>2, <1>3, StillPermitted

\* A caller without a challenge in hand is permitted.
LEMMA NothingInHand ==
    ASSUME NEW c, task'[c].stage \notin {"answering", "confirming"}
    PROVE  Permitted(c)'
  BY DEF Permitted

LEMMA ConfirmStep == ConfirmInv /\ [Next]_vars => ConfirmInv'
<1> SUFFICES ASSUME ConfirmInv, [Next]_vars
             PROVE  \A d \in Callers : Permitted(d)'
    BY TypeStep DEF ConfirmInv
<1> USE DEF ConfirmInv
<1>1. ASSUME UNCHANGED rows, NEW c \in Callers,
             \A d \in Callers \ {c} : task'[d] = task[d],
             Permitted(c)'
      PROVE  \A d \in Callers : Permitted(d)'
  <2>1. \A a \in Admins : Holds(a, "adjust_wallet") => Holds(a, "adjust_wallet")'
    BY <1>1, SameRights DEF rows
  <2>2. ASSUME NEW d \in Callers \ {c}
        PROVE  Permitted(d)'
    BY <1>1, <2>1, RowsStay DEF rows
  <2>3. QED BY <1>1, <2>2
<1>2. ASSUME NEW b \in Admins, Bootstrap(b) \/ MigrateLegacy(b)
      PROVE  \A d \in Callers : Permitted(d)'
  <2>1. UNCHANGED challenge /\ UNCHANGED task
    BY <1>2 DEF Bootstrap, MigrateLegacy
  <2>2. \A a \in Admins : Holds(a, "adjust_wallet") => Holds(a, "adjust_wallet")'
    BY <1>2, NewKeepsRights
  <2>3. QED BY <2>1, <2>2, RowsStay
<1>3. ASSUME NEW c \in Callers, Manage(c)
      PROVE  \A d \in Callers : Permitted(d)'
  <2>1. CASE CommitChange(c)
    <3> DEFINE b == task[c].target
    <3>1. /\ b \in Admins
          /\ task' = [task EXCEPT ![c] = Free]
          /\ challenge' = Invalidated(b)
          /\ \A k \in Challenges : ChallengeLocked(k) => challenge[k].by # b
          /\ \A a \in Admins \ {b} : principal'[a] = principal[a] /\ grant'[a] = grant[a]
      BY <2>1, TaskShape DEF CommitChange, TypeOK
    <3>2. Permitted(c)'
      BY <3>1, FreeTask, NothingInHand DEF TypeOK
    <3>3. ASSUME NEW d \in Callers \ {c}
          PROVE  Permitted(d)'
      <4> DEFINE a == task[d].actor
                 k == task[d].challenge
      <4>1. task'[d] = task[d]
        BY <3>1 DEF TypeOK
      <4>2. At(d, "answering") \/ At(d, "confirming") =>
              a \in Admins /\ k \in Challenges /\ challenge[k] \in ChallengeRow
        BY TaskShape DEF TypeOK
      <4>3. At(d, "confirming") => ChallengeLocked(k) /\ challenge[k].by = a /\ a # b
        BY <3>1, <4>2 DEF ChallengeLocked, Permitted
      <4>4. At(d, "confirming") => challenge'[k] = challenge[k]
        BY <3>1, <4>2, <4>3 DEF Invalidated
      <4>5. At(d, "answering") => challenge'[k] = challenge[k] \/ challenge'[k].state # "open"
        BY <3>1, <4>2 DEF Invalidated, ChallengeRow
      <4>6. /\ At(d, "answering") \/ At(d, "confirming")
            /\ challenge'[k] = challenge[k]
            /\ challenge[k].state = "open" /\ challenge[k].by = a
            => a # b
        <5> SUFFICES ASSUME At(d, "answering") \/ At(d, "confirming"), a = b,
                            challenge[k].state = "open", challenge[k].by = b
                     PROVE  challenge'[k] # challenge[k]
          OBVIOUS
        <5>1. challenge[k] # None
          BY <4>2, AdminAssumption
        <5>2. challenge'[k] = [challenge[k] EXCEPT !.state = "invalidated"]
          BY <3>1, <4>2, <5>1 DEF Invalidated
        <5>3. challenge'[k].state = "invalidated"
          BY <4>2, <5>2 DEF ChallengeRow
        <5>4. QED BY <5>3
      <4>7. \A e \in Admins \ {b} : Holds(e, "adjust_wallet") => Holds(e, "adjust_wallet")'
        BY <3>1, SameRights
      <4>8. QED BY <4>1, <4>2, <4>4, <4>5, <4>6, <4>7, StillPermitted
    <3>4. QED BY <3>2, <3>3
  <2>2. CASE ~CommitChange(c)
    <3>1. UNCHANGED rows /\ \A d \in Callers \ {c} : task'[d] = task[d]
      BY <1>3, <2>2 DEF Manage, StartRole, StartStatus, StartGrant, StartChange, LockTarget,
                        RefuseChange, TypeOK
    <3>2. task'[c].stage \in {"authorized", "changing", Idle}
      <4>1. CASE LockTarget(c)
        <5>1. task[c] \in [stage : {"authorized", "changing"}, actor : Admins,
                           target : Admins, change : ChangeOf]
          BY <4>1, TaskShape DEF LockTarget
        <5>2. QED BY <4>1, <5>1 DEF LockTarget, TypeOK
      <4>2. CASE ~LockTarget(c)
        BY <1>3, <2>2, <4>2 DEF Manage, StartRole, StartStatus, StartGrant, StartChange,
                                RefuseChange, TypeOK
      <4>3. QED BY <4>1, <4>2
    <3>3. Permitted(c)'
      BY <3>2, FreeTask, NothingInHand
    <3>4. QED BY <1>1, <3>1, <3>3
  <2>3. QED BY <2>1, <2>2
<1>4. ASSUME NEW c \in Callers, Use(c)
      PROVE  \A d \in Callers : Permitted(d)'
  <2>1. ASSUME NEW t, task' = [task EXCEPT ![c] = t], t.stage \notin {"answering", "confirming"},
               UNCHANGED challenge,
               \A a \in Admins : Holds(a, "adjust_wallet") => Holds(a, "adjust_wallet")'
        PROVE  \A d \in Callers : Permitted(d)'
    <3>1. task'[c] = t /\ \A d \in Callers \ {c} : task'[d] = task[d]
      BY <2>1 DEF TypeOK
    <3>2. Permitted(c)'
      BY <2>1, <3>1, NothingInHand
    <3>3. ASSUME NEW d \in Callers \ {c}
          PROVE  Permitted(d)'
      BY <2>1, <3>1, RowsStay
    <3>4. QED BY <3>2, <3>3
  <2>2. UNCHANGED <<principal, grant>> =>
          \A a \in Admins : Holds(a, "adjust_wallet") => Holds(a, "adjust_wallet")'
    BY SameRights
  <2>3. ASSUME NEW a \in Admins, StartRepair(c, a) \/ StartSession(c, a)
        PROVE  \A d \in Callers : Permitted(d)'
    BY <2>1, <2>2, <2>3 DEF StartRepair, StartSession, rows
  <2>4. ASSUME NEW a \in Admins, NEW act \in Actions, StartChallenge(c, a, act)
        PROVE  \A d \in Callers : Permitted(d)'
    BY <2>1, <2>2, <2>4 DEF StartChallenge, rows
  <2>5. ASSUME NEW a \in Admins, NEW act \in Actions, NEW k \in Challenges,
               StartConfirm(c, a, k, act)
        PROVE  \A d \in Callers : Permitted(d)'
    <3>1. /\ UNCHANGED rows
          /\ task'[c] = [stage |-> "answering", actor |-> a, challenge |-> k, action |-> act]
          /\ \A d \in Callers \ {c} : task'[d] = task[d]
          /\ Holds(a, "adjust_wallet")
      BY <2>5 DEF StartConfirm, TypeOK
    <3>2. Permitted(c)'
      BY <3>1 DEF Permitted, rows, Holds, Active, Rights
    <3>3. QED BY <1>1, <3>1, <3>2
  <2>6. CASE Repair(c)
    BY <2>1, <2>6, RepairKeepsRights, FreeTask DEF Repair
  <2>7. ASSUME NEW s \in Sessions, OpenSession(c, s)
        PROVE  \A d \in Callers : Permitted(d)'
    BY <2>1, <2>2, <2>7, FreeTask DEF OpenSession
  <2>8. ASSUME NEW k \in Challenges, CreateChallenge(c, k)
        PROVE  \A d \in Callers : Permitted(d)'
    <3>1. /\ challenge[k] = None /\ UNCHANGED <<principal, grant>>
          /\ task'[c] = Free
          /\ \A d \in Callers \ {c} : task'[d] = task[d]
          /\ \A j \in Challenges \ {k} : challenge'[j] = challenge[j]
      BY <2>8 DEF CreateChallenge, TypeOK
    <3>2. Permitted(c)'
      BY <3>1, FreeTask, NothingInHand
    <3>3. ASSUME NEW d \in Callers \ {c}
          PROVE  Permitted(d)'
      <4>1. At(d, "answering") \/ At(d, "confirming") =>
              /\ task[d].actor \in Admins
              /\ task[d].challenge \in Challenges \ {k}
        BY <3>1, TaskShape, AdminAssumption DEF TypeOK
      <4>2. QED BY <2>2, <3>1, <4>1, StillPermitted
    <3>4. QED BY <3>2, <3>3
  <2>9. CASE LockChallenge(c)
    <3>1. /\ UNCHANGED rows
          /\ \A d \in Callers \ {c} : task'[d] = task[d]
          /\ At(c, "answering")
          /\ task'[c] = IF Confirms(task[c]) THEN [task[c] EXCEPT !.stage = "confirming"] ELSE Free
      BY <2>9 DEF LockChallenge, TypeOK
    <3>2. CASE Confirms(task[c])
      <4>1. /\ challenge[task[c].challenge].state = "open"
            /\ challenge[task[c].challenge].by = task[c].actor
            /\ Holds(task[c].actor, "adjust_wallet")
        BY <3>1, <3>2 DEF Confirms, Permitted
      <4>2. /\ task'[c].actor = task[c].actor /\ task'[c].challenge = task[c].challenge
            /\ task'[c].stage = "confirming"
        BY <3>1, <3>2, TaskShape
      <4>3. Permitted(c)'
        BY <3>1, <4>1, <4>2 DEF Permitted, rows, Holds, Active, Rights
      <4>4. QED BY <1>1, <3>1, <4>3
    <3>3. CASE ~Confirms(task[c])
      BY <1>1, <3>1, <3>3, FreeTask, NothingInHand
    <3>4. QED BY <3>2, <3>3
  <2>10. CASE Confirm(c)
    <3> DEFINE k == task[c].challenge
    <3>1. /\ At(c, "confirming") /\ UNCHANGED <<principal, grant>>
          /\ challenge' = [challenge EXCEPT ![k].state = "used"]
          /\ task'[c] = IF Active(task[c].actor) THEN [task[c] EXCEPT !.stage = "confirmed"] ELSE Free
          /\ \A d \in Callers \ {c} : task'[d] = task[d]
      BY <2>10 DEF Confirm, TypeOK
    <3>2. Permitted(c)'
      <4>1. task'[c].stage \in {Idle, "confirmed"}
        BY <3>1, TaskShape
      <4>2. QED BY <4>1, FreeTask, NothingInHand
    <3>3. k \in Challenges /\ challenge[k] \in ChallengeRow
      BY <3>1, TaskShape DEF TypeOK
    <3>4. challenge'[k].state = "used" /\ \A j \in Challenges \ {k} : challenge'[j] = challenge[j]
      BY <3>1, <3>3 DEF TypeOK, ChallengeRow
    <3>5. ASSUME NEW d \in Callers \ {c}
          PROVE  Permitted(d)'
      <4>1. At(d, "answering") \/ At(d, "confirming") =>
              task[d].actor \in Admins /\ task[d].challenge \in Challenges
        BY TaskShape
      <4>2. At(d, "confirming") => task[d].challenge # k
        BY <3>1 DEF TypeOK
      <4>3. QED BY <2>2, <3>1, <3>4, <4>1, <4>2, StillPermitted
    <3>6. QED BY <3>2, <3>5
  <2>11. CASE Perform(c)
    BY <2>1, <2>2, <2>11, FreeTask DEF Perform
  <2>12. CASE Abandon(c)
    BY <2>1, <2>2, <2>12, FreeTask DEF Abandon, rows
  <2>13. QED
    BY <1>4, <2>3, <2>4, <2>5, <2>6, <2>7, <2>8, <2>9, <2>10, <2>11, <2>12 DEF Use
<1>5. ASSUME NEW s \in Sessions, EndSession(s)
      PROVE  \A d \in Callers : Permitted(d)'
  <2>1. \A a \in Admins : Holds(a, "adjust_wallet") => Holds(a, "adjust_wallet")'
    BY <1>5, SameRights DEF EndSession
  <2>2. QED BY <1>5, <2>1, RowsStay DEF EndSession
<1>6. ASSUME NEW k \in Challenges, ChallengeLapses(k)
      PROVE  \A d \in Callers : Permitted(d)'
  <2>1. /\ UNCHANGED <<principal, grant, task>> /\ ~ChallengeLocked(k)
        /\ challenge[k] \in ChallengeRow
        /\ challenge' = [challenge EXCEPT ![k].state = "lapsed"]
    BY <1>6 DEF ChallengeLapses, TypeOK
  <2>2. challenge'[k].state = "lapsed" /\ \A j \in Challenges \ {k} : challenge'[j] = challenge[j]
    BY <2>1 DEF TypeOK, ChallengeRow
  <2>3. ASSUME NEW d \in Callers
        PROVE  Permitted(d)'
    <3>1. At(d, "answering") \/ At(d, "confirming") =>
            task[d].actor \in Admins /\ task[d].challenge \in Challenges
      BY TaskShape
    <3>2. At(d, "confirming") => task[d].challenge # k
      BY <2>1 DEF ChallengeLocked
    <3>3. \A a \in Admins : Holds(a, "adjust_wallet") => Holds(a, "adjust_wallet")'
      BY <2>1, SameRights
    <3>4. QED BY <2>1, <2>2, <3>1, <3>2, <3>3, StillPermitted
  <2>4. QED BY <2>3
<1>7. CASE UNCHANGED vars
  <2>1. \A a \in Admins : Holds(a, "adjust_wallet") => Holds(a, "adjust_wallet")'
    BY <1>7, SameRights DEF vars
  <2>2. QED BY <1>7, <2>1, RowsStay DEF vars
<1>8. QED
  BY <1>2, <1>3, <1>4, <1>5, <1>6, <1>7, AdminAssumption DEF Next

LEMMA ConfirmStart == Init => ConfirmInv
<1>1. Init => TypeOK
  BY FreeTask DEF Init, TypeOK
<1>2. Init => \A c \in Callers : Permitted(c)
  BY FreeTask DEF Init, Permitted
<1>3. QED BY <1>1, <1>2 DEF ConfirmInv

LEMMA ConfirmInvariant == Spec => []ConfirmInv
  BY ConfirmStart, ConfirmStep, PTL DEF Spec

-----------------------------------------------------------------------------
\* Nothing but Confirm takes a caller to "confirmed".
LEMMA OnlyConfirm ==
    ASSUME TypeOK, [Next]_vars, NEW c \in Callers,
           ~At(c, "confirmed"), task'[c].stage = "confirmed"
    PROVE  Confirm(c) /\ task'[c].challenge = task[c].challenge
<1>1. task'[c] # task[c]
  OBVIOUS
<1>2. PICK d \in Callers : Manage(d) \/ Use(d)
  <2>1. UNCHANGED vars => task' = task
    BY DEF vars
  <2>2. \A a \in Admins : Bootstrap(a) \/ MigrateLegacy(a) => task' = task
    BY DEF Bootstrap, MigrateLegacy
  <2>3. \A s \in Sessions : EndSession(s) => task' = task
    BY DEF EndSession
  <2>4. \A k \in Challenges : ChallengeLapses(k) => task' = task
    BY DEF ChallengeLapses
  <2>5. QED BY <1>1, <2>1, <2>2, <2>3, <2>4, AdminAssumption DEF Next
<1>3. ASSUME Manage(d)
      PROVE  FALSE
  <2>1. CASE LockTarget(d)
    <3>1. task[d] \in [stage : {"authorized", "changing"}, actor : Admins,
                       target : Admins, change : ChangeOf]
      BY <2>1, TaskShape DEF LockTarget
    <3>2. QED BY <1>1, <2>1, <3>1 DEF LockTarget, TypeOK
  <2>2. CASE ~LockTarget(d)
    BY <1>1, <1>3, <2>2, AdminAssumption DEF Manage, StartRole, StartStatus, StartGrant,
       StartChange, RefuseChange, CommitChange, TypeOK
  <2>3. QED BY <2>1, <2>2
<1>4. ASSUME Use(d), ~Confirm(d)
      PROVE  FALSE
  <2>1. CASE LockChallenge(d)
    <3>1. task[d] \in [stage : {"answering", "confirming", "confirmed"}, actor : Admins,
                       challenge : Challenges, action : Actions]
      BY <2>1, TaskShape DEF LockChallenge
    <3>2. QED BY <1>1, <2>1, <3>1, AdminAssumption DEF LockChallenge, TypeOK
  <2>2. CASE ~LockChallenge(d)
    BY <1>1, <1>4, <2>2, AdminAssumption DEF Use, StartRepair, StartSession, StartChallenge,
       StartConfirm, Repair, OpenSession, CreateChallenge, Perform, Abandon, TypeOK
  <2>3. QED BY <2>1, <2>2
<1>5. Confirm(d)
  BY <1>2, <1>3, <1>4
<1>6. d = c
  BY <1>1, <1>5 DEF Confirm, TypeOK
<1>7. task[c] \in [stage : {"answering", "confirming", "confirmed"}, actor : Admins,
                   challenge : Challenges, action : Actions]
  BY <1>5, <1>6, TaskShape DEF Confirm
<1>8. QED BY <1>5, <1>6, <1>7, AdminAssumption DEF Confirm, TypeOK

\* Whoever confirms a critical action holds its permission at that moment: what
\* consume_challenge read in its first transaction is still true in its last.
THEOREM Confirmation == Spec => ConfirmedWithPermission
<1>1. ConfirmInv /\ [Next]_vars =>
        \A c \in Callers : ~At(c, "confirmed") /\ task'[c].stage = "confirmed"
                             => Holds(task[c].actor, "adjust_wallet")
  <2> SUFFICES ASSUME ConfirmInv, [Next]_vars, NEW c \in Callers,
                      ~At(c, "confirmed"), task'[c].stage = "confirmed"
               PROVE  Holds(task[c].actor, "adjust_wallet")
      OBVIOUS
  <2>1. At(c, "confirming")
    BY OnlyConfirm DEF ConfirmInv, Confirm
  <2>2. QED BY <2>1 DEF ConfirmInv, Permitted
<1>2. QED BY <1>1, ConfirmInvariant, PTL DEF Spec, ConfirmedWithPermission

\* A challenge that is used stays as it is.
LEMMA UsedStays ==
    ASSUME ConfirmInv, [Next]_vars, NEW k \in Challenges,
           challenge[k] # None, challenge[k].state = "used"
    PROVE  challenge'[k] = challenge[k]
<1> USE DEF ConfirmInv
<1>1. challenge[k] \in ChallengeRow
  BY DEF TypeOK
<1>2. ASSUME NEW c \in Callers, CommitChange(c)
      PROVE  challenge'[k] = challenge[k]
  BY <1>2 DEF CommitChange, Invalidated
<1>3. ASSUME NEW c \in Callers, NEW j \in Challenges, CreateChallenge(c, j)
      PROVE  challenge'[k] = challenge[k]
  BY <1>3 DEF CreateChallenge, TypeOK
<1>4. ASSUME NEW c \in Callers, Confirm(c)
      PROVE  challenge'[k] = challenge[k]
  <2>1. task[c].challenge # k
    BY <1>4 DEF Confirm, Permitted
  <2>2. QED BY <1>4, <2>1 DEF Confirm, TypeOK
<1>5. ASSUME NEW j \in Challenges, ChallengeLapses(j)
      PROVE  challenge'[k] = challenge[k]
  BY <1>5 DEF ChallengeLapses, TypeOK
<1>6. ASSUME NEW c \in Callers, Manage(c), ~CommitChange(c)
      PROVE  challenge' = challenge
  BY <1>6 DEF Manage, StartRole, StartStatus, StartGrant, StartChange, LockTarget,
              RefuseChange, rows
<1>7. ASSUME NEW c \in Callers, Use(c), ~Confirm(c),
             \A j \in Challenges : ~CreateChallenge(c, j)
      PROVE  challenge' = challenge
  BY <1>7 DEF Use, StartRepair, StartSession, StartChallenge, StartConfirm, Repair,
              OpenSession, LockChallenge, Perform, Abandon, rows
<1>8. \A a \in Admins : Bootstrap(a) \/ MigrateLegacy(a) => challenge' = challenge
  BY DEF Bootstrap, MigrateLegacy
<1>9. \A s \in Sessions : EndSession(s) => challenge' = challenge
  BY DEF EndSession
<1>10. UNCHANGED vars => challenge' = challenge
  BY DEF vars
<1>11. QED
  BY <1>2, <1>3, <1>4, <1>5, <1>6, <1>7, <1>8, <1>9, <1>10, AdminAssumption DEF Next

\* A challenge confirms once, however many callers answer it and whatever changes
\* are made to their administrators meanwhile.
THEOREM Once == Spec => ConfirmsOnce
<1>1. ConfirmInv /\ [Next]_vars =>
        \A k \in Challenges :
          challenge[k] # None /\ challenge[k].state = "used" =>
            /\ challenge'[k] = challenge[k]
            /\ \A c \in Callers :
                 task'[c].stage = "confirmed" /\ task'[c].challenge = k
                   => At(c, "confirmed")
  <2> SUFFICES ASSUME ConfirmInv, [Next]_vars, NEW k \in Challenges,
                      challenge[k] # None, challenge[k].state = "used"
               PROVE  /\ challenge'[k] = challenge[k]
                      /\ \A c \in Callers :
                           task'[c].stage = "confirmed" /\ task'[c].challenge = k
                             => At(c, "confirmed")
      OBVIOUS
  <2>1. ASSUME NEW c \in Callers, task'[c].stage = "confirmed", task'[c].challenge = k,
               ~At(c, "confirmed")
        PROVE  FALSE
    BY <2>1, OnlyConfirm DEF ConfirmInv, Confirm, Permitted
  <2>2. QED BY <2>1, UsedStays
<1>2. QED BY <1>1, ConfirmInvariant, PTL DEF Spec, ConfirmsOnce

-----------------------------------------------------------------------------
\* What a caller confirms, or has confirmed, is what the challenge was made for.
Backed(c) ==
    /\ At(c, "confirming") => challenge[task[c].challenge].action = task[c].action
    /\ At(c, "confirmed") =>
         /\ challenge[task[c].challenge] # None
         /\ challenge[task[c].challenge].state = "used"
         /\ challenge[task[c].challenge].action = task[c].action

BackedInv ==
    /\ ConfirmInv
    /\ \A c \in Callers : Backed(c)
    /\ PerformedWasConfirmed

\* Nothing but LockChallenge takes a caller to "confirming".
LEMMA OnlyLock ==
    ASSUME TypeOK, [Next]_vars, NEW c \in Callers,
           task'[c] # task[c], task'[c].stage = "confirming"
    PROVE  LockChallenge(c)
<1>1. PICK d \in Callers : Manage(d) \/ Use(d)
  <2>1. UNCHANGED vars => task' = task
    BY DEF vars
  <2>2. \A a \in Admins : Bootstrap(a) \/ MigrateLegacy(a) => task' = task
    BY DEF Bootstrap, MigrateLegacy
  <2>3. \A s \in Sessions : EndSession(s) => task' = task
    BY DEF EndSession
  <2>4. \A k \in Challenges : ChallengeLapses(k) => task' = task
    BY DEF ChallengeLapses
  <2>5. QED BY <2>1, <2>2, <2>3, <2>4, AdminAssumption DEF Next
<1>2. ASSUME Manage(d)
      PROVE  FALSE
  <2>1. CASE LockTarget(d)
    <3>1. task[d] \in [stage : {"authorized", "changing"}, actor : Admins,
                       target : Admins, change : ChangeOf]
      BY <2>1, TaskShape DEF LockTarget
    <3>2. QED BY <2>1, <3>1 DEF LockTarget, TypeOK
  <2>2. CASE ~LockTarget(d)
    BY <1>2, <2>2, AdminAssumption DEF Manage, StartRole, StartStatus, StartGrant,
       StartChange, RefuseChange, CommitChange, TypeOK
  <2>3. QED BY <2>1, <2>2
<1>3. ASSUME Use(d), ~LockChallenge(d)
      PROVE  FALSE
  <2>1. CASE Confirm(d)
    <3>1. task[d] \in [stage : {"answering", "confirming", "confirmed"}, actor : Admins,
                       challenge : Challenges, action : Actions]
      BY <2>1, TaskShape DEF Confirm
    <3>2. QED BY <2>1, <3>1, AdminAssumption DEF Confirm, TypeOK
  <2>2. CASE ~Confirm(d)
    BY <1>3, <2>2, AdminAssumption DEF Use, StartRepair, StartSession, StartChallenge,
       StartConfirm, Repair, OpenSession, CreateChallenge, Perform, Abandon, TypeOK
  <2>3. QED BY <2>1, <2>2
<1>4. QED
  BY <1>1, <1>2, <1>3 DEF LockChallenge, TypeOK

\* A caller that has confirmed does so once, and then leaves.
LEMMA OnceConfirmed ==
    ASSUME TypeOK, [Next]_vars, NEW c \in Callers,
           At(c, "confirmed"), task'[c].stage = "confirmed"
    PROVE  task'[c] = task[c]
<1> SUFFICES ASSUME task'[c] # task[c]
             PROVE  FALSE
    OBVIOUS
<1>1. PICK d \in Callers : Manage(d) \/ Use(d)
  <2>1. UNCHANGED vars => task' = task
    BY DEF vars
  <2>2. \A a \in Admins : Bootstrap(a) \/ MigrateLegacy(a) => task' = task
    BY DEF Bootstrap, MigrateLegacy
  <2>3. \A s \in Sessions : EndSession(s) => task' = task
    BY DEF EndSession
  <2>4. \A k \in Challenges : ChallengeLapses(k) => task' = task
    BY DEF ChallengeLapses
  <2>5. QED BY <2>1, <2>2, <2>3, <2>4, AdminAssumption DEF Next
<1>2. \A e \in Callers \ {d} : task'[e] = task[e]
  BY <1>1 DEF Manage, StartRole, StartStatus, StartGrant, StartChange, LockTarget, RefuseChange,
       CommitChange, Use, StartRepair, StartSession, StartChallenge, StartConfirm, Repair,
       OpenSession, CreateChallenge, LockChallenge, Confirm, Perform, Abandon, TypeOK
<1>3. d = c
  BY <1>2
<1>4. ~Manage(c)
  BY <1>3, AdminAssumption DEF Manage, StartRole, StartStatus, StartGrant, StartChange, LockTarget,
       RefuseChange, CommitChange
<1>5. Perform(c) \/ Abandon(c)
  BY <1>1, <1>3, <1>4, AdminAssumption DEF Use, StartRepair, StartSession, StartChallenge,
       StartConfirm, Repair, OpenSession, CreateChallenge, LockChallenge, Confirm
<1>6. QED BY <1>5, AdminAssumption DEF Perform, Abandon, TypeOK

\* A challenge keeps the action it was made for.
LEMMA ActionStays ==
    ASSUME TypeOK, [Next]_vars, NEW k \in Challenges, challenge[k] \in ChallengeRow
    PROVE  challenge'[k].action = challenge[k].action
<1>1. ASSUME NEW c \in Callers, CommitChange(c)
      PROVE  challenge'[k].action = challenge[k].action
  <2>1. challenge'[k] \in {challenge[k], [challenge[k] EXCEPT !.state = "invalidated"]}
    BY <1>1 DEF CommitChange, Invalidated
  <2>2. QED BY <2>1 DEF ChallengeRow
<1>2. ASSUME NEW c \in Callers, NEW j \in Challenges, CreateChallenge(c, j)
      PROVE  challenge'[k].action = challenge[k].action
  BY <1>2, AdminAssumption DEF CreateChallenge, TypeOK
<1>3. ASSUME NEW c \in Callers, Confirm(c)
      PROVE  challenge'[k].action = challenge[k].action
  BY <1>3 DEF Confirm, TypeOK, ChallengeRow
<1>4. ASSUME NEW j \in Challenges, ChallengeLapses(j)
      PROVE  challenge'[k].action = challenge[k].action
  BY <1>4 DEF ChallengeLapses, TypeOK, ChallengeRow
<1>5. ASSUME NEW c \in Callers, Manage(c), ~CommitChange(c)
      PROVE  challenge' = challenge
  BY <1>5 DEF Manage, StartRole, StartStatus, StartGrant, StartChange, LockTarget,
              RefuseChange, rows
<1>6. ASSUME NEW c \in Callers, Use(c), ~Confirm(c),
             \A j \in Challenges : ~CreateChallenge(c, j)
      PROVE  challenge' = challenge
  BY <1>6 DEF Use, StartRepair, StartSession, StartChallenge, StartConfirm, Repair,
              OpenSession, LockChallenge, Perform, Abandon, rows
<1>7. \A a \in Admins : Bootstrap(a) \/ MigrateLegacy(a) => challenge' = challenge
  BY DEF Bootstrap, MigrateLegacy
<1>8. \A s \in Sessions : EndSession(s) => challenge' = challenge
  BY DEF EndSession
<1>9. UNCHANGED vars => challenge' = challenge
  BY DEF vars
<1>10. QED
  BY <1>1, <1>2, <1>3, <1>4, <1>5, <1>6, <1>7, <1>8, <1>9, AdminAssumption DEF Next

LEMMA BackedStep == BackedInv /\ [Next]_vars => BackedInv'
<1> SUFFICES ASSUME BackedInv, [Next]_vars
             PROVE  BackedInv'
    OBVIOUS
<1>1. ConfirmInv /\ ConfirmInv' /\ TypeOK /\ TypeOK'
  BY ConfirmStep DEF BackedInv, ConfirmInv
<1>2. ASSUME NEW c \in Callers
      PROVE  Backed(c)'
  <2> DEFINE k == task[c].challenge
  <2>1. CASE task'[c] = task[c] /\ At(c, "confirming")
    <3>1. k \in Challenges /\ challenge[k] \in ChallengeRow
      BY <1>1, <2>1, TaskShape DEF TypeOK
    <3>2. QED BY <1>1, <2>1, <3>1, ActionStays DEF BackedInv, Backed
  <2>2. CASE task'[c] = task[c] /\ At(c, "confirmed")
    <3>1. k \in Challenges
      BY <1>1, <2>2, TaskShape
    <3>2. QED BY <1>1, <2>2, <3>1, UsedStays DEF BackedInv, Backed
  <2>3. CASE task'[c] # task[c] /\ task'[c].stage = "confirming"
    <3>1. LockChallenge(c)
      BY <1>1, <2>3, OnlyLock
    <3>2. task[c] \in [stage : {"answering", "confirming", "confirmed"}, actor : Admins,
                       challenge : Challenges, action : Actions]
      BY <1>1, <3>1, TaskShape DEF LockChallenge
    <3>3. /\ task'[c].challenge = k /\ task'[c].action = task[c].action
          /\ challenge' = challenge /\ challenge[k].action = task[c].action
      BY <1>1, <2>3, <3>1, <3>2, AdminAssumption DEF LockChallenge, Confirms, TypeOK, rows
    <3>4. QED BY <2>3, <3>3 DEF Backed
  <2>4. CASE task'[c] # task[c] /\ task'[c].stage = "confirmed"
    <3>1. ~At(c, "confirmed")
      BY <1>1, <2>4, OnceConfirmed
    <3>2. Confirm(c) /\ task'[c].challenge = k
      BY <1>1, <2>4, <3>1, OnlyConfirm
    <3>3. /\ task[c] \in [stage : {"answering", "confirming", "confirmed"}, actor : Admins,
                          challenge : Challenges, action : Actions]
          /\ challenge[k] \in ChallengeRow
      BY <1>1, <3>2, TaskShape DEF Confirm, TypeOK
    <3>4. task'[c].action = task[c].action
      BY <1>1, <2>4, <3>2, <3>3, AdminAssumption DEF Confirm, TypeOK
    <3>5. challenge'[k] = [challenge[k] EXCEPT !.state = "used"]
      BY <1>1, <3>2, <3>3 DEF Confirm, TypeOK
    <3>6. challenge[k].action = task[c].action
      BY <3>2 DEF Confirm, BackedInv, Backed
    <3>7. challenge'[k].state = "used" /\ challenge'[k].action = task[c].action
      BY <3>3, <3>5, <3>6 DEF ChallengeRow
    <3>8. challenge'[k] # None
      <4>1. challenge'[k] \in ChallengeRow
        BY <3>3, <3>5 DEF ChallengeRow
      <4>2. QED BY <4>1, AdminAssumption
    <3>9. QED BY <2>4, <3>2, <3>4, <3>7, <3>8 DEF Backed
  <2>5. QED BY <2>1, <2>2, <2>3, <2>4 DEF Backed
<1>3. PerformedWasConfirmed'
  <2>1. ASSUME NEW act \in performed
        PROVE  \E k \in Challenges : /\ challenge'[k] # None
                                     /\ challenge'[k].action = act
                                     /\ challenge'[k].state = "used"
    BY <1>1, UsedStays DEF BackedInv, PerformedWasConfirmed
  <2>2. ASSUME NEW c \in Callers, Perform(c)
        PROVE  \E k \in Challenges : /\ challenge'[k] # None
                                     /\ challenge'[k].action = task[c].action
                                     /\ challenge'[k].state = "used"
    BY <1>1, <2>2, TaskShape DEF Perform, BackedInv, Backed
  <2>3. performed' = performed \/ \E c \in Callers : Perform(c)
    BY AdminAssumption DEF Next, vars, rows, Bootstrap, MigrateLegacy, EndSession, ChallengeLapses,
       Manage, StartRole, StartStatus, StartGrant, StartChange, LockTarget, RefuseChange,
       CommitChange, Use, StartRepair, StartSession, StartChallenge, StartConfirm, Repair,
       OpenSession, CreateChallenge, LockChallenge, Confirm, Abandon
  <2>4. QED BY <2>1, <2>2, <2>3 DEF Perform, PerformedWasConfirmed
<1>4. QED BY <1>1, <1>2, <1>3 DEF BackedInv

\* Whatever was carried out has a challenge that was made for exactly that action
\* and was used up, however callers overlap and die.
THEOREM Performance == Spec => []PerformedWasConfirmed
<1>1. Init => PerformedWasConfirmed /\ \A c \in Callers : Backed(c)
  BY FreeTask, AdminAssumption DEF Init, PerformedWasConfirmed, Backed
<1>2. Init => BackedInv
  BY <1>1, ConfirmStart DEF BackedInv
<1>3. BackedInv => PerformedWasConfirmed
  BY DEF BackedInv
<1>4. QED BY <1>2, <1>3, BackedStep, PTL DEF Spec

-----------------------------------------------------------------------------
\* Version v of an administrator's rights, as somebody read it: it is not ahead of
\* the row, and unless it is behind, the rights are still the same or those of a
\* configured owner who was repaired.
Current(a, v, rights) ==
    /\ principal[a] \in PrincipalRow
    /\ v <= principal[a].version
    /\ v = principal[a].version =>
         \/ rights = Rights(a)
         \/ /\ principal[a].source = "config_bootstrap" /\ principal[a].role = "owner"
            /\ rights \subseteq Rights(a)

SessionInv ==
    /\ TypeOK
    /\ \A c \in Callers : At(c, "opening") =>
         Current(task[c].actor, task[c].version, task[c].rights)
    /\ \A c \in Callers : At(c, "repairing") =>
         principal[task[c].actor].source = "config_bootstrap"
    /\ \A s \in Sessions : session[s] # None =>
         Current(session[s].by, session[s].version, session[s].rights)

\* What may become of a principal and its grants.
LEMMA RowChanges ==
    ASSUME TypeOK, [Next]_vars, NEW a \in Admins, principal[a] \in PrincipalRow
    PROVE  \/ principal'[a] = principal[a] /\ grant'[a] = grant[a]
           \/ /\ principal'[a] \in PrincipalRow
              /\ principal'[a].source = principal[a].source
              /\ principal'[a].version = principal[a].version + 1
           \/ /\ grant'[a] = grant[a]
              /\ principal'[a] = [principal[a] EXCEPT !.role = "owner"]
              /\ \E c \in Callers : At(c, "repairing") /\ task[c].actor = a
<1>1. ASSUME NEW b \in Admins, Bootstrap(b) \/ MigrateLegacy(b)
      PROVE  principal'[a] = principal[a] /\ grant'[a] = grant[a]
  BY <1>1, RolesAssumption DEF Bootstrap, MigrateLegacy, TypeOK
<1>2. ASSUME NEW c \in Callers, CommitChange(c)
      PROVE  \/ principal'[a] = principal[a] /\ grant'[a] = grant[a]
             \/ /\ principal'[a] \in PrincipalRow
                /\ principal'[a].source = principal[a].source
                /\ principal'[a].version = principal[a].version + 1
  <2> DEFINE b == task[c].target
             change == task[c].change
  <2>1. /\ principal' = [principal EXCEPT ![b] = Bumped(principal[b], change)]
        /\ grant' = IF change.field \in Permissions
                    THEN [grant EXCEPT ![b][change.field] = change.to] ELSE grant
    BY <1>2 DEF CommitChange
  <2>2. b \in Admins /\ change \in ChangeOf
    BY <1>2, TaskShape DEF CommitChange
  <2> HIDE DEF b, change
  <2>3. CASE a # b
    BY <2>1, <2>2, <2>3 DEF TypeOK
  <2>4. CASE a = b
    <3>1. principal'[a] = Bumped(principal[a], change)
      BY <2>1, <2>4 DEF TypeOK
    <3>2. /\ change.field = "role" => change.to \in Roles
          /\ change.field = "status" => change.to \in Statuses
      BY <2>2 DEF ChangeOf, Permissions
    <3>3. /\ Bumped(principal[a], change) \in PrincipalRow
          /\ Bumped(principal[a], change).source = principal[a].source
          /\ Bumped(principal[a], change).version = principal[a].version + 1
      <4>1. CASE change.field = "role"
        <5> DEFINE row == [principal[a] EXCEPT !.role = change.to]
        <5>1. row \in PrincipalRow /\ row.source = principal[a].source
          BY <3>2, <4>1 DEF PrincipalRow
        <5>2. Bumped(principal[a], change) = [row EXCEPT !.version = principal[a].version + 1]
          BY <4>1 DEF Bumped
        <5> HIDE DEF row
        <5>3. principal[a].version + 1 \in Nat
          BY DEF PrincipalRow
        <5>4. QED BY <5>1, <5>2, <5>3 DEF PrincipalRow
      <4>2. CASE change.field = "status"
        <5> DEFINE row == [principal[a] EXCEPT !.status = change.to]
        <5>1. row \in PrincipalRow /\ row.source = principal[a].source
          BY <3>2, <4>2 DEF PrincipalRow
        <5>2. Bumped(principal[a], change) = [row EXCEPT !.version = principal[a].version + 1]
          BY <4>2 DEF Bumped
        <5> HIDE DEF row
        <5>3. principal[a].version + 1 \in Nat
          BY DEF PrincipalRow
        <5>4. QED BY <5>1, <5>2, <5>3 DEF PrincipalRow
      <4>3. CASE change.field \notin {"role", "status"}
        BY <4>3 DEF Bumped, PrincipalRow
      <4>4. QED BY <4>1, <4>2, <4>3
    <3>4. QED BY <3>1, <3>3
  <2>5. QED BY <2>3, <2>4
<1>3. ASSUME NEW c \in Callers, Repair(c)
      PROVE  \/ principal'[a] = principal[a] /\ grant'[a] = grant[a]
             \/ /\ grant'[a] = grant[a]
                /\ principal'[a] = [principal[a] EXCEPT !.role = "owner"]
                /\ At(c, "repairing") /\ task[c].actor = a
  BY <1>3 DEF Repair, TypeOK
<1>4. ASSUME NEW c \in Callers, Manage(c), ~CommitChange(c)
      PROVE  UNCHANGED <<principal, grant>>
  BY <1>4 DEF Manage, StartRole, StartStatus, StartGrant, StartChange, LockTarget,
              RefuseChange, rows
<1>5. ASSUME NEW c \in Callers, Use(c), ~Repair(c)
      PROVE  UNCHANGED <<principal, grant>>
  BY <1>5 DEF Use, StartRepair, StartSession, StartChallenge, StartConfirm, OpenSession,
              CreateChallenge, LockChallenge, Confirm, Perform, Abandon, rows
<1>6. (\E s \in Sessions : EndSession(s)) \/ (\E k \in Challenges : ChallengeLapses(k))
        \/ UNCHANGED vars => UNCHANGED <<principal, grant>>
  BY DEF EndSession, ChallengeLapses, vars
<1>7. QED
  BY <1>1, <1>2, <1>3, <1>4, <1>5, <1>6, AdminAssumption DEF Next

LEMMA CurrentStays ==
    ASSUME SessionInv, [Next]_vars, NEW a \in Admins, NEW v \in Nat,
           NEW rights \in SUBSET Permissions, Current(a, v, rights)
    PROVE  Current(a, v, rights)'
<1>1. principal[a] \in PrincipalRow /\ principal[a].version \in Nat
  BY DEF Current, PrincipalRow
<1>2. CASE principal'[a] = principal[a] /\ grant'[a] = grant[a]
  BY <1>2 DEF Current, Rights
<1>3. CASE /\ principal'[a] \in PrincipalRow
           /\ principal'[a].version = principal[a].version + 1
  BY <1>1, <1>3 DEF Current
<1>4. CASE /\ grant'[a] = grant[a]
           /\ principal'[a] = [principal[a] EXCEPT !.role = "owner"]
           /\ \E c \in Callers : At(c, "repairing") /\ task[c].actor = a
  <2>1. principal[a].source = "config_bootstrap"
    BY <1>4 DEF SessionInv
  <2>2. /\ principal'[a] \in PrincipalRow /\ principal'[a].role = "owner"
        /\ principal'[a].version = principal[a].version
        /\ principal'[a].source = "config_bootstrap"
    BY <1>1, <1>4, <2>1 DEF PrincipalRow, Roles, Rank
  <2>3. Rights(a) \subseteq Rights(a)'
    BY <1>4, <2>2 DEF Rights, Policy, Permissions
  <2>4. QED BY <2>2, <2>3 DEF Current
<1>5. QED BY <1>1, <1>2, <1>3, <1>4, RowChanges DEF SessionInv

\* Callers come to open a session, or to repair, by their first transaction.
LEMMA OnlyStart ==
    ASSUME TypeOK, [Next]_vars, NEW c \in Callers, task'[c] # task[c]
    PROVE  /\ task'[c].stage = "opening" => \E a \in Admins : StartSession(c, a)
           /\ task'[c].stage = "repairing" => \E a \in Admins : StartRepair(c, a)
<1>1. PICK d \in Callers : Manage(d) \/ Use(d)
  <2>1. UNCHANGED vars => task' = task
    BY DEF vars
  <2>2. \A a \in Admins : Bootstrap(a) \/ MigrateLegacy(a) => task' = task
    BY DEF Bootstrap, MigrateLegacy
  <2>3. \A s \in Sessions : EndSession(s) => task' = task
    BY DEF EndSession
  <2>4. \A k \in Challenges : ChallengeLapses(k) => task' = task
    BY DEF ChallengeLapses
  <2>5. QED BY <2>1, <2>2, <2>3, <2>4, AdminAssumption DEF Next
<1>2. d = c
  BY <1>1 DEF Manage, StartRole, StartStatus, StartGrant, StartChange, LockTarget, RefuseChange,
       CommitChange, Use, StartRepair, StartSession, StartChallenge, StartConfirm, Repair,
       OpenSession, CreateChallenge, LockChallenge, Confirm, Perform, Abandon, TypeOK
<1>3. CASE LockTarget(c)
  <2>1. task[c] \in [stage : {"authorized", "changing"}, actor : Admins,
                     target : Admins, change : ChangeOf]
    BY <1>3, TaskShape DEF LockTarget
  <2>2. QED BY <1>3, <2>1 DEF LockTarget, TypeOK
<1>4. CASE Manage(c) /\ ~LockTarget(c)
  BY <1>4, AdminAssumption DEF Manage, StartRole, StartStatus, StartGrant, StartChange,
                               RefuseChange, CommitChange, TypeOK
<1>5. CASE LockChallenge(c) \/ Confirm(c)
  <2>1. task[c] \in [stage : {"answering", "confirming", "confirmed"}, actor : Admins,
                     challenge : Challenges, action : Actions]
    BY <1>5, TaskShape DEF LockChallenge, Confirm
  <2>2. QED BY <1>5, <2>1, AdminAssumption DEF LockChallenge, Confirm, TypeOK
<1>6. CASE Use(c) /\ ~LockChallenge(c) /\ ~Confirm(c)
  BY <1>6, AdminAssumption DEF Use, StartRepair, StartSession, StartChallenge, StartConfirm,
       Repair, OpenSession, CreateChallenge, Perform, Abandon, TypeOK
<1>7. QED BY <1>1, <1>2, <1>3, <1>4, <1>5, <1>6

LEMMA SessionStep == SessionInv /\ [Next]_vars => SessionInv'
<1> SUFFICES ASSUME SessionInv, [Next]_vars
             PROVE  SessionInv'
    OBVIOUS
<1>1. TypeOK /\ TypeOK'
  BY TypeStep DEF SessionInv
<1>2. ASSUME NEW c \in Callers, At(c, "opening")'
      PROVE  Current(task[c].actor, task[c].version, task[c].rights)'
  <2>1. CASE task'[c] = task[c]
    <3>1. /\ task[c].actor \in Admins /\ task[c].version \in Nat
          /\ task[c].rights \in SUBSET Permissions
      BY <1>1, <1>2, <2>1, TaskShape
    <3>2. Current(task[c].actor, task[c].version, task[c].rights)
      BY <1>2, <2>1 DEF SessionInv
    <3>3. QED BY <2>1, <3>1, <3>2, CurrentStays DEF Current, Rights
  <2>2. CASE task'[c] # task[c]
    <3>1. PICK a \in Admins : StartSession(c, a)
      BY <1>1, <1>2, <2>2, OnlyStart
    <3>2. /\ UNCHANGED <<principal, grant>>
          /\ task'[c] = [stage |-> "opening", actor |-> a,
                         version |-> principal[a].version, rights |-> Rights(a)]
          /\ principal[a] \in PrincipalRow
      BY <1>1, <3>1 DEF StartSession, Active, TypeOK, rows
    <3>3. principal[a].version \in Nat
      BY <3>2 DEF PrincipalRow
    <3>4. Current(a, principal[a].version, Rights(a))
      BY <3>2, <3>3 DEF Current
    <3>5. QED BY <3>2, <3>4 DEF Current, Rights
  <2>3. QED BY <2>1, <2>2
<1>3. ASSUME NEW c \in Callers, At(c, "repairing")'
      PROVE  principal'[task'[c].actor].source = "config_bootstrap"
  <2>1. CASE task'[c] = task[c]
    <3> DEFINE a == task[c].actor
    <3>1. a \in Admins /\ principal[a] \in PrincipalRow
      BY <1>1, <1>3, <2>1, TaskShape DEF TypeOK
    <3>2. principal[a].source = "config_bootstrap"
      BY <1>3, <2>1 DEF SessionInv
    <3> HIDE DEF a
    <3>3. principal'[a].source = principal[a].source
      BY <1>1, <3>1, RowChanges DEF PrincipalRow
    <3>4. QED BY <2>1, <3>2, <3>3 DEF a
  <2>2. CASE task'[c] # task[c]
    <3>1. PICK a \in Admins : StartRepair(c, a)
      BY <1>1, <1>3, <2>2, OnlyStart
    <3>2. QED BY <1>1, <3>1 DEF StartRepair, rows, TypeOK
  <2>3. QED BY <2>1, <2>2
<1>4. ASSUME NEW s \in Sessions, session'[s] # None
      PROVE  Current(session[s].by, session[s].version, session[s].rights)'
  <2>1. CASE /\ session[s] # None
             /\ session'[s].by = session[s].by /\ session'[s].version = session[s].version
             /\ session'[s].rights = session[s].rights
    <3>1. /\ session[s].by \in Admins /\ session[s].version \in Nat
          /\ session[s].rights \in SUBSET Permissions
      BY <1>1, <2>1 DEF TypeOK
    <3>2. Current(session[s].by, session[s].version, session[s].rights)
      BY <2>1 DEF SessionInv
    <3>3. QED BY <2>1, <3>1, <3>2, CurrentStays DEF Current, Rights
  <2>2. ASSUME NEW c \in Callers, OpenSession(c, s)
        PROVE  Current(session[s].by, session[s].version, session[s].rights)'
    <3>1. Current(task[c].actor, task[c].version, task[c].rights)
      BY <2>2 DEF OpenSession, SessionInv
    <3>2. /\ UNCHANGED <<principal, grant>>
          /\ session'[s] = [by |-> task[c].actor, version |-> task[c].version,
                            rights |-> task[c].rights, ended |-> FALSE]
      BY <1>1, <2>2 DEF OpenSession, TypeOK
    <3>3. QED BY <3>1, <3>2 DEF Current, Rights
  <2>3. \/ session'[s] = session[s]
        \/ EndSession(s)
        \/ \E c \in Callers : OpenSession(c, s)
    <3>1. ASSUME NEW t \in Sessions, EndSession(t)
          PROVE  session'[s] = session[s] \/ EndSession(s)
      BY <1>1, <3>1 DEF EndSession, TypeOK
    <3>2. ASSUME NEW c \in Callers, NEW t \in Sessions, OpenSession(c, t)
          PROVE  session'[s] = session[s] \/ OpenSession(c, s)
      BY <1>1, <3>2 DEF OpenSession, TypeOK
    <3>3. ASSUME NEW c \in Callers, Manage(c)
          PROVE  session' = session
      BY <3>3 DEF Manage, StartRole, StartStatus, StartGrant, StartChange, LockTarget,
                  RefuseChange, CommitChange, rows
    <3>4. ASSUME NEW c \in Callers, Use(c), \A t \in Sessions : ~OpenSession(c, t)
          PROVE  session' = session
      BY <3>4 DEF Use, StartRepair, StartSession, StartChallenge, StartConfirm, Repair,
                  CreateChallenge, LockChallenge, Confirm, Perform, Abandon, rows
    <3>5. \A a \in Admins : Bootstrap(a) \/ MigrateLegacy(a) => session' = session
      BY DEF Bootstrap, MigrateLegacy
    <3>6. (\E k \in Challenges : ChallengeLapses(k)) \/ UNCHANGED vars => session' = session
      BY DEF ChallengeLapses, vars
    <3>7. QED BY <3>1, <3>2, <3>3, <3>4, <3>5, <3>6, AdminAssumption DEF Next
  <2>4. EndSession(s) => /\ session[s] # None
                         /\ session'[s].by = session[s].by
                         /\ session'[s].version = session[s].version
                         /\ session'[s].rights = session[s].rights
    BY <1>1 DEF EndSession, TypeOK
  <2>5. QED BY <1>4, <2>1, <2>2, <2>3, <2>4
<1>5. QED BY <1>1, <1>2, <1>3, <1>4 DEF SessionInv

\* A session is valid only with the rights its administrator has now, whatever
\* changes overlap with its opening; but a configured owner is repaired unseen.
THEOREM Rightful == Spec => []SessionKeepsRights
<1>1. Init => SessionInv
  <2>1. Init => TypeOK
    BY FreeTask DEF Init, TypeOK
  <2>2. QED BY <2>1, AdminAssumption DEF Init, SessionInv
<1>2. SessionInv => SessionKeepsRights
  BY DEF SessionInv, SessionKeepsRights, Validates, Current
<1>3. QED BY <1>1, <1>2, SessionStep, PTL DEF Spec

-----------------------------------------------------------------------------
\* A change under way that takes an owner out of office leaves another one.
Replaced(c) ==
    At(c, "changing") /\ Dethrones(task[c].target, task[c].change) =>
        \E o \in ActiveOwners : o # task[c].target

OwnerInv ==
    /\ TypeOK
    /\ \A c \in Callers : task[c].stage \in {"authorized", "changing"} => c \in Managers
    /\ \A c \in Callers : Replaced(c)

\* Nothing but the commit of a change takes an owner out of office, or touches
\* the principal that a change has locked.
LEMMA OwnersGrow ==
    ASSUME TypeOK, [Next]_vars, \A c \in Managers : ~CommitChange(c)
    PROVE  /\ ActiveOwners \subseteq ActiveOwners'
           /\ \A a \in Admins : principal[a] # None /\ TargetLocked(a) =>
                principal'[a] = principal[a]
<1>1. ASSUME NEW a \in Admins, Bootstrap(a) \/ MigrateLegacy(a)
      PROVE  \A b \in Admins : principal[b] # None => principal'[b] = principal[b]
  BY <1>1 DEF Bootstrap, MigrateLegacy, TypeOK
<1>2. ASSUME NEW c \in Callers, Repair(c)
      PROVE  \A b \in Admins : principal[b] # None =>
                \/ principal'[b] = principal[b]
                \/ /\ ~TargetLocked(b) /\ principal[b] \in PrincipalRow
                   /\ principal'[b] = [principal[b] EXCEPT !.role = "owner"]
  BY <1>2, TaskShape DEF Repair, TypeOK
<1>3. ASSUME NEW c \in Managers, Manage(c)
      PROVE  principal' = principal
  BY <1>3 DEF Manage, StartRole, StartStatus, StartGrant, StartChange, LockTarget,
              RefuseChange, rows
<1>4. ASSUME NEW c \in Callers, Use(c), ~Repair(c)
      PROVE  principal' = principal
  BY <1>4 DEF Use, StartRepair, StartSession, StartChallenge, StartConfirm, OpenSession,
              CreateChallenge, LockChallenge, Confirm, Perform, Abandon, rows
<1>5. (\E s \in Sessions : EndSession(s)) \/ (\E k \in Challenges : ChallengeLapses(k))
        \/ UNCHANGED vars => principal' = principal
  BY DEF EndSession, ChallengeLapses, vars
<1>6. \A b \in Admins : principal[b] # None =>
         \/ principal'[b] = principal[b]
         \/ /\ ~TargetLocked(b) /\ principal[b] \in PrincipalRow
            /\ principal'[b] = [principal[b] EXCEPT !.role = "owner"]
  BY <1>1, <1>2, <1>3, <1>4, <1>5 DEF Next
<1>7. \A row \in PrincipalRow :
         /\ [row EXCEPT !.role = "owner"] \in PrincipalRow
         /\ [row EXCEPT !.role = "owner"].role = "owner"
         /\ [row EXCEPT !.role = "owner"].status = row.status
  BY DEF PrincipalRow, Roles, Rank
<1>8. ASSUME NEW b \in ActiveOwners
      PROVE  b \in ActiveOwners'
  <2>1. /\ b \in Admins /\ principal[b] # None
        /\ principal[b].status = "active" /\ principal[b].role = "owner"
    BY DEF ActiveOwners, Active
  <2>2. /\ principal'[b] # None
        /\ principal'[b].status = "active" /\ principal'[b].role = "owner"
    <3>1. CASE principal'[b] = principal[b]
      BY <2>1, <3>1
    <3>2. CASE /\ principal[b] \in PrincipalRow
               /\ principal'[b] = [principal[b] EXCEPT !.role = "owner"]
      <4>1. principal'[b] \in PrincipalRow
        BY <1>7, <3>2
      <4>2. principal'[b] # None
        BY <4>1, RolesAssumption
      <4>3. QED BY <1>7, <2>1, <3>2, <4>2
    <3>3. QED BY <1>6, <2>1, <3>1, <3>2
  <2>3. QED BY <2>1, <2>2 DEF ActiveOwners, Active
<1>9. QED BY <1>6, <1>8 DEF ActiveOwners

\* A commit that takes no owner out of office keeps all of them.
LEMMA OthersKeep ==
    ASSUME TypeOK, NEW c \in Callers, CommitChange(c),
           NEW o \in ActiveOwners,
           o = task[c].target => ~Dethrones(task[c].target, task[c].change)
    PROVE  o \in ActiveOwners'
<1> DEFINE b == task[c].target
           change == task[c].change
<1>1. /\ b \in Admins /\ change \in ChangeOf /\ o \in Admins
      /\ principal' = [principal EXCEPT ![b] = Bumped(principal[b], change)]
  BY TaskShape DEF CommitChange, ActiveOwners
<1>2. /\ principal[o] \in PrincipalRow
      /\ principal[o].status = "active" /\ principal[o].role = "owner"
  BY <1>1 DEF ActiveOwners, Active, TypeOK
<1>3. CASE o # b
  BY <1>1, <1>3 DEF ActiveOwners, Active, TypeOK
<1>4. CASE o = b
  <2>1. /\ change.field = "role" => change.to = "owner"
        /\ change.field = "status" => change.to = "active"
    BY <1>2, <1>4 DEF Dethrones
  <2> HIDE DEF b, change
  <2>2. principal'[o] = Bumped(principal[o], change)
    BY <1>1, <1>4 DEF TypeOK
  <2>5. LET row == [principal[o] EXCEPT !.version = principal[o].version + 1]
        IN  row \in PrincipalRow /\ row.status = "active" /\ row.role = "owner"
    BY <1>2 DEF PrincipalRow
  <2>3. /\ Bumped(principal[o], change) \in PrincipalRow
        /\ Bumped(principal[o], change).status = "active"
        /\ Bumped(principal[o], change).role = "owner"
    <3>1. CASE change.field = "role"
      <4>1. [principal[o] EXCEPT !.role = change.to] = principal[o]
        BY <1>2, <2>1, <3>1 DEF PrincipalRow
      <4>2. Bumped(principal[o], change)
              = [[principal[o] EXCEPT !.role = change.to] EXCEPT !.version = principal[o].version + 1]
        BY <3>1 DEF Bumped
      <4>3. QED BY <1>2, <2>5, <4>1, <4>2
    <3>2. CASE change.field = "status"
      <4>1. [principal[o] EXCEPT !.status = change.to] = principal[o]
        BY <1>2, <2>1, <3>2 DEF PrincipalRow
      <4>2. Bumped(principal[o], change)
              = [[principal[o] EXCEPT !.status = change.to] EXCEPT !.version = principal[o].version + 1]
        BY <3>2 DEF Bumped
      <4>3. QED BY <1>2, <2>5, <4>1, <4>2
    <3>3. CASE change.field \notin {"role", "status"}
      BY <1>2, <3>3 DEF Bumped, PrincipalRow
    <3>4. QED BY <3>1, <3>2, <3>3
  <2>4. QED BY <1>1, <2>2, <2>3, RolesAssumption DEF ActiveOwners, Active
<1>5. QED BY <1>3, <1>4

\* Callers come to a change by Manage, and to its locks by LockTarget.
LEMMA OnlyManage ==
    ASSUME TypeOK, [Next]_vars, NEW c \in Callers, task'[c] # task[c],
           task'[c].stage \in {"authorized", "changing"}
    PROVE  c \in Managers /\ (task'[c].stage = "changing" => LockTarget(c))
<1>1. PICK d \in Callers : (d \in Managers /\ Manage(d)) \/ Use(d)
  <2>1. UNCHANGED vars => task' = task
    BY DEF vars
  <2>2. \A a \in Admins : Bootstrap(a) \/ MigrateLegacy(a) => task' = task
    BY DEF Bootstrap, MigrateLegacy
  <2>3. \A s \in Sessions : EndSession(s) => task' = task
    BY DEF EndSession
  <2>4. \A k \in Challenges : ChallengeLapses(k) => task' = task
    BY DEF ChallengeLapses
  <2>5. QED BY <2>1, <2>2, <2>3, <2>4, AdminAssumption DEF Next
<1>2. d = c
  BY <1>1 DEF Manage, StartRole, StartStatus, StartGrant, StartChange, LockTarget, RefuseChange,
       CommitChange, Use, StartRepair, StartSession, StartChallenge, StartConfirm, Repair,
       OpenSession, CreateChallenge, LockChallenge, Confirm, Perform, Abandon, TypeOK
<1>3. CASE LockChallenge(c) \/ Confirm(c)
  <2>1. task[c] \in [stage : {"answering", "confirming", "confirmed"}, actor : Admins,
                     challenge : Challenges, action : Actions]
    BY <1>3, TaskShape DEF LockChallenge, Confirm
  <2>2. QED BY <1>3, <2>1, AdminAssumption DEF LockChallenge, Confirm, TypeOK
<1>4. ASSUME Use(c), ~LockChallenge(c), ~Confirm(c)
      PROVE  FALSE
  BY <1>4, AdminAssumption DEF Use, StartRepair, StartSession, StartChallenge, StartConfirm,
       Repair, OpenSession, CreateChallenge, Perform, Abandon, TypeOK
<1>5. Manage(c) => (task'[c].stage = "changing" => LockTarget(c))
  BY AdminAssumption DEF Manage, StartRole, StartStatus, StartGrant, StartChange,
       RefuseChange, CommitChange, TypeOK
<1>6. QED BY <1>1, <1>2, <1>3, <1>4, <1>5

\* With one caller that changes administrators, nobody but itself can undo what it
\* has counted.
LEMMA OwnerStep ==
    ASSUME NEW m, Managers \subseteq {m}
    PROVE  OwnerInv /\ [Next]_vars => OwnerInv' /\ (ActiveOwners # {} => ActiveOwners' # {})
<1> SUFFICES ASSUME OwnerInv, [Next]_vars
             PROVE  OwnerInv' /\ (ActiveOwners # {} => ActiveOwners' # {})
    OBVIOUS
<1>1. TypeOK /\ TypeOK'
  BY TypeStep DEF OwnerInv
<1>5. ASSUME NEW c \in Callers, task'[c].stage \in {"authorized", "changing"}
      PROVE  c \in Managers
  BY <1>1, <1>5, OnlyManage DEF OwnerInv
<1>2. CASE \E c \in Managers : CommitChange(c)
  <2>1. PICK c \in Managers : CommitChange(c)
    BY <1>2
  <2>2. c \in Callers /\ At(c, "changing")
    BY <2>1, AdminAssumption DEF CommitChange
  <2>3. ActiveOwners # {} => ActiveOwners' # {}
    <3>1. CASE Dethrones(task[c].target, task[c].change)
      BY <1>1, <2>1, <2>2, <3>1, OthersKeep DEF OwnerInv, Replaced
    <3>2. CASE ~Dethrones(task[c].target, task[c].change)
      BY <1>1, <2>1, <2>2, <3>2, OthersKeep
    <3>3. QED BY <3>1, <3>2
  <2>4. ASSUME NEW d \in Callers
        PROVE  ~At(d, "changing")'
    <3>1. task'[c] = Free /\ \A e \in Callers \ {c} : task'[e] = task[e]
      BY <1>1, <2>1, <2>2 DEF CommitChange, TypeOK
    <3>2. d # c => ~At(d, "changing")
      BY <2>1, <3>1, <1>5
    <3>3. QED BY <3>1, <3>2, AdminAssumption
  <2>5. QED BY <1>1, <1>5, <2>3, <2>4 DEF OwnerInv, Replaced
<1>3. CASE ~\E c \in Managers : CommitChange(c)
  <2>1. ActiveOwners \subseteq ActiveOwners'
    BY <1>1, <1>3, OwnersGrow
  <2>2. ASSUME NEW c \in Callers, At(c, "changing")',
               Dethrones(task[c].target, task[c].change)'
        PROVE  \E o \in ActiveOwners' : o # task'[c].target
    <3>1. CASE task'[c] = task[c]
      <4> DEFINE b == task[c].target
      <4>1. At(c, "changing") /\ b \in Admins /\ principal[b] # None /\ TargetLocked(b)
        BY <1>1, <2>2, <3>1, TaskShape, RolesAssumption DEF TypeOK, TargetLocked
      <4>2. principal'[b] = principal[b]
        BY <1>1, <1>3, <4>1, OwnersGrow
      <4>3. Dethrones(b, task[c].change)
        BY <2>2, <3>1, <4>2 DEF Dethrones
      <4>4. QED BY <2>1, <3>1, <4>1, <4>3 DEF OwnerInv, Replaced
    <3>2. CASE task'[c] # task[c]
      <4>1. LockTarget(c)
        BY <1>1, <2>2, <3>2, OnlyManage
      <4>2. /\ task'[c].target = task[c].target /\ task'[c].change = task[c].change
            /\ task[c].target \in Admins
        <5>1. task[c] \in [stage : {"authorized", "changing"}, actor : Admins,
                           target : Admins, change : ChangeOf]
          BY <1>1, <4>1, TaskShape DEF LockTarget
        <5>2. QED BY <1>1, <4>1, <5>1 DEF LockTarget, TypeOK
      <4>3. Dethrones(task[c].target, task[c].change)
        BY <2>2, <4>1, <4>2 DEF Dethrones, LockTarget, rows
      <4>4. Cardinality(ActiveOwners) > 1
        BY <4>1, <4>3 DEF LockTarget, Admissible
      <4>5. \E o \in ActiveOwners : o # task[c].target
        <5>1. SUFFICES ASSUME ActiveOwners \subseteq {task[c].target}
                       PROVE  FALSE
          OBVIOUS
        <5>2. ActiveOwners = {} \/ ActiveOwners = {task[c].target}
          BY <5>1
        <5>3. Cardinality(ActiveOwners) \in {0, 1}
          <6>1. Cardinality({}) = 0
            BY FS_EmptySet
          <6>2. Cardinality({task[c].target}) = 1
            BY FS_Singleton
          <6>3. QED BY <5>2, <6>1, <6>2
        <5>4. QED BY <4>4, <5>3
      <4>6. QED BY <2>1, <4>2, <4>5
    <3>3. QED BY <3>1, <3>2
  <2>3. QED BY <1>1, <1>5, <2>1, <2>2 DEF OwnerInv, Replaced
<1>4. QED BY <1>2, <1>3

\* As long as one caller at most changes administrators at a time, an owner remains
\* for good: whoever else is repaired, signs in or confirms meanwhile, and however
\* often that caller dies.  Two such callers can each count the other's owner.
THEOREM Owners ==
    ASSUME NEW m, Managers \subseteq {m}
    PROVE  Spec => OwnerRemains
<1>1. Init => OwnerInv
  <2>1. Init => TypeOK
    BY FreeTask DEF Init, TypeOK
  <2>2. QED BY <2>1, AdminAssumption DEF Init, OwnerInv, Replaced
<1>2. OwnerInv /\ [Next]_vars => OwnerInv'
  BY OwnerStep
<1>3. OwnerInv /\ [Next]_vars => (ActiveOwners # {} => ActiveOwners' # {})
  BY OwnerStep
<1>4. QED BY <1>1, <1>2, <1>3, PTL DEF Spec, OwnerRemains
=============================================================================
