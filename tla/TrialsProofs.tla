---------------------------- MODULE TrialsProofs ----------------------------
(***************************************************************************)
(* Proofs about free trials and what is sold for them: TrialEntry, for any *)
(* claims, users, servers, quotas, references and calls of provision_claim,*)
(* and PaidUpgrades, for any upgrades, requests and calls.  The modules    *)
(* share no state, and each has its theorems.                              *)
(***************************************************************************)
EXTENDS PaidUpgrades, TrialEntry, Sums, TLAPS

\* Types, as far as the steps need them: a row has its order, and a call under way
\* has its row.
Typed ==
    /\ UpgradeTypeOK
    /\ \A u \in Upgrades : Exists(u) => order[u] \in OrderRow
    /\ \A w \in Fulfillers : ~At(w, Idle) /\ ~At(w, "begin") => work[w].upgrade \in Begun

\* What a call is doing, by its stage.
Stages == {"data", "data applied", "days", "days applied", "failed", "complete"}

Turns == [stage : {Idle}] \cup [stage : {"begin"}, upgrade : Upgrades]
           \cup [stage : Stages, upgrade : Upgrades, todo : SUBSET {"data", "days"}]

KeyRow == [kind : {"free_trial", "paid"}, limit : Nat, applied : BOOLEAN, expires : Nat,
           status : {"active", "expired"}, cleanup : {"not_required", "completed", "failed"}]

LEMMA AtWork ==
    ASSUME Typed, NEW w \in Fulfillers, ~At(w, Idle)
    PROVE  /\ work[w].upgrade \in Upgrades
           /\ ~At(w, "begin") =>
                /\ work[w] \in [stage : Stages, upgrade : Upgrades, todo : SUBSET {"data", "days"}]
                /\ work[w].upgrade \in Begun
                /\ upgrade[work[w].upgrade] \in UpgradeRow
                /\ Aim(w) \in [data : Nat, days : Nat]
<1>1. work[w] \in Turns
  BY DEF Typed, UpgradeTypeOK, Turns, Stages
<1>2. work[w].upgrade \in Upgrades
  BY <1>1 DEF Turns, At
<1>3. ASSUME ~At(w, "begin")
      PROVE  /\ work[w].upgrade \in Begun /\ upgrade[work[w].upgrade] \in UpgradeRow
             /\ Aim(w) \in [data : Nat, days : Nat]
  <2>1. work[w].upgrade \in Begun
    BY <1>3 DEF Typed
  <2>2. upgrade[work[w].upgrade] \in UpgradeRow /\ upgrade[work[w].upgrade].target # None
    BY <1>2, <2>1 DEF Begun, Exists, Typed, UpgradeTypeOK
  <2>3. QED BY <2>1, <2>2 DEF UpgradeRow, Aim
<1>4. QED BY <1>1, <1>2, <1>3 DEF Turns, At

\* A step that changes the row of one upgrade and what one call is doing.
LEMMA TypesOfStep ==
    ASSUME Typed, NEW w \in Fulfillers, NEW turn \in Turns, NEW row \in UpgradeRow,
           NEW u \in Upgrades, Exists(u), row.target # None,
           turn.stage \in {Idle, "begin"} \/ turn.upgrade = u,
           Turn(w, turn),
           upgrade' = [upgrade EXCEPT ![u] = row],
           order' = order \/ order' = [order EXCEPT ![u].status = "completed"],
           key' \in KeyRow,
           server' \in [limit : Nat, there : BOOLEAN],
           now' = now
    PROVE  Typed'
<1>1. /\ upgrade' \in [Upgrades -> UpgradeRow \cup {None}]
      /\ \A v \in Upgrades : Exists(v) <=> Exists(v)'
      /\ Begun \subseteq Begun' /\ u \in Begun'
  <2>1. row # None
    BY MarkersAssumption
  <2>2. upgrade \in [Upgrades -> UpgradeRow \cup {None}]
    BY DEF Typed, UpgradeTypeOK
  <2>3. QED BY <2>1, <2>2 DEF Exists, Begun
<1>2. /\ order' \in [Upgrades -> OrderRow \cup {None}]
      /\ \A v \in Upgrades : Exists(v) => order'[v] \in OrderRow
  <2>1. order \in [Upgrades -> OrderRow \cup {None}] /\ order[u] \in OrderRow
    BY DEF Typed, UpgradeTypeOK
  <2>2. CASE order' = [order EXCEPT ![u].status = "completed"]
    <3>1. [order[u] EXCEPT !.status = "completed"] \in OrderRow
      BY <2>1 DEF OrderRow
    <3>2. order' = [order EXCEPT ![u] = [order[u] EXCEPT !.status = "completed"]]
      BY <2>2
    <3>3. QED BY <2>1, <3>1, <3>2 DEF Typed
  <2>3. QED BY <2>1, <2>2 DEF Typed
<1>3. /\ work' \in [Fulfillers -> Turns]
      /\ work'[w] = turn
      /\ \A x \in Fulfillers \ {w} : work'[x] = work[x]
  BY DEF Typed, UpgradeTypeOK, Turn, Turns, Stages
<1>4. UpgradeTypeOK'
  BY <1>1, <1>2, <1>3 DEF Typed, UpgradeTypeOK, Turns, Stages, KeyRow
<1>5. ASSUME NEW x \in Fulfillers, ~At(x, Idle)', ~At(x, "begin")'
      PROVE  (work[x].upgrade \in Begun)'
  <2>1. CASE x = w
    BY <1>1, <1>3, <1>5, <2>1 DEF At
  <2>2. CASE x # w
    BY <1>1, <1>3, <1>5, <2>2 DEF At, Typed
  <2>3. QED BY <2>1, <2>2
<1>6. QED BY <1>1, <1>2, <1>4, <1>5 DEF Typed

\* ... and one that starts or ends a call.
LEMMA StopTypes ==
    ASSUME Typed, NEW w \in Fulfillers,
           \/ Turn(w, [stage |-> Idle])
           \/ \E u \in Upgrades : Turn(w, [stage |-> "begin", upgrade |-> u]),
           UNCHANGED <<upgrade, key, now>>,
           order' \in [Upgrades -> OrderRow \cup {None}],
           \A u \in Upgrades : order[u] \in OrderRow => order'[u] \in OrderRow,
           server' \in [limit : Nat, there : BOOLEAN]
    PROVE  Typed'
<1>1. /\ work' \in [Fulfillers -> Turns]
      /\ At(w, Idle)' \/ At(w, "begin")'
      /\ \A x \in Fulfillers \ {w} : work'[x] = work[x]
  <2>1. PICK turn \in Turns : Turn(w, turn) /\ turn.stage \in {Idle, "begin"}
    <3>1. [stage |-> Idle] \in Turns
      BY DEF Turns
    <3>2. ASSUME NEW u \in Upgrades
          PROVE  [stage |-> "begin", upgrade |-> u] \in Turns
      BY DEF Turns
    <3>3. QED BY <3>1, <3>2
  <2>2. work \in [Fulfillers -> Turns]
    BY DEF Typed, UpgradeTypeOK, Turns, Stages
  <2>3. QED BY <2>1, <2>2 DEF Turn, At
<1>2. UpgradeTypeOK'
  BY <1>1 DEF Typed, UpgradeTypeOK, Turns, Stages
<1>3. Begun' = Begun
  BY DEF Begun, Exists
<1>4. QED BY <1>1, <1>2, <1>3 DEF Typed, Exists, At

\* The targets that Begin fixes are numbers.
LEMMA TargetType ==
    ASSUME Typed, NEW u \in Upgrades, Exists(u)
    PROVE  TargetOf(u) \in [data : Nat, days : Nat]
<1>1. upgrade[u] \in UpgradeRow /\ key.limit \in Nat /\ key.expires \in Nat
  BY DEF Typed, UpgradeTypeOK, Exists
<1>2. upgrade[u].target \in [data : Nat, days : Nat] \cup {None}
  BY <1>1 DEF UpgradeRow
<1>3. QED BY <1>1, <1>2, UpgradeAssumption DEF TargetOf

LEMMA WorkingType ==
    ASSUME NEW w, NEW u \in Upgrades, NEW todo \in SUBSET {"data", "days"}
    PROVE  /\ Working(w, u, todo) \in Turns
           /\ Working(w, u, todo) = [stage |-> Stage(todo), upgrade |-> u, todo |-> todo]
           /\ Stage(todo) \in {"data", "days", "complete"}
           /\ Stage(todo) = "complete" => todo = {}
  BY DEF Working, Stage, Turns, Stages

LEMMA FulfilTypes ==
    ASSUME Typed, NEW w \in Fulfillers, Fulfil(w)
    PROVE  Typed'
<1>1. /\ key \in KeyRow /\ server \in [limit : Nat, there : BOOLEAN]
      /\ work \in [Fulfillers -> Turns] /\ upgrade \in [Upgrades -> UpgradeRow \cup {None}]
  BY DEF Typed, UpgradeTypeOK, Turns, Stages, KeyRow
<1>2. CASE Begin(w)
  <2>1. PICK u \in Upgrades : u = work[w].upgrade
    BY <1>2, AtWork, MarkersAssumption DEF Begin, At
  <2>2. /\ upgrade' = [upgrade EXCEPT ![u].status = "fulfillment_pending",
                                      ![u].target = TargetOf(u)]
        /\ Turn(w, Working(w, u, Parts[u] \ upgrade[u].applied))
        /\ Exists(u)
        /\ UNCHANGED <<order, key, server, now>>
    BY <1>2, <2>1 DEF Begin, PaymentOf
  <2>3. PICK row \in UpgradeRow : row = [upgrade[u] EXCEPT !.status = "fulfillment_pending",
                                                           !.target = TargetOf(u)]
    <3>1. upgrade[u] \in UpgradeRow /\ TargetOf(u) \in [data : Nat, days : Nat]
      BY <1>1, <2>2, TargetType DEF Exists
    <3>2. QED BY <3>1 DEF UpgradeRow
  <2>4. upgrade' = [upgrade EXCEPT ![u] = row] /\ row.target # None
    <3>1. TargetOf(u) # None
      BY <2>2, TargetType, MarkersAssumption
    <3>2. upgrade[u] \in UpgradeRow
      BY <1>1, <2>2 DEF Exists
    <3>3. QED BY <1>1, <2>2, <2>3, <3>1, <3>2 DEF UpgradeRow
  <2>5. PICK turn \in Turns : turn = Working(w, u, Parts[u] \ upgrade[u].applied)
    <3>1. Parts[u] \ upgrade[u].applied \in SUBSET {"data", "days"}
      BY UpgradeAssumption
    <3>2. QED BY <3>1, WorkingType
  <2>6. turn.upgrade = u
    BY <2>5 DEF Working
  <2>7. QED BY <1>1, <2>2, <2>4, <2>5, <2>6, TypesOfStep
<1>3. ASSUME NEW part \in {"data", "days"}, Mark(w, part)
      PROVE  Typed'
  <2>1. ~At(w, Idle) /\ ~At(w, "begin")
    <3>1. At(w, "data applied") \/ At(w, "days applied")
      <4>1. CASE part = "data"
        BY <1>3, <4>1 DEF Mark, AppliedStage
      <4>2. CASE part = "days"
        BY <1>3, <4>2 DEF Mark, AppliedStage
      <4>3. QED BY <4>1, <4>2
    <3>2. QED BY <3>1, MarkersAssumption DEF At
  <2>2. PICK u \in Upgrades : u = work[w].upgrade
    BY <2>1, AtWork
  <2>3. /\ upgrade' = [upgrade EXCEPT ![u].applied = @ \cup {part}]
        /\ Turn(w, Working(w, u, work[w].todo \ {part}))
        /\ UNCHANGED <<order, key, server, now>>
    BY <1>3, <2>2 DEF Mark
  <2>4. upgrade[u] \in UpgradeRow /\ Exists(u) /\ upgrade[u].target # None
        /\ work[w].todo \in SUBSET {"data", "days"}
    BY <2>1, <2>2, AtWork DEF Begun
  <2>5. PICK row \in UpgradeRow : row = [upgrade[u] EXCEPT !.applied = @ \cup {part}]
    BY <2>4 DEF UpgradeRow
  <2>6. upgrade' = [upgrade EXCEPT ![u] = row] /\ row.target # None
    BY <1>1, <2>3, <2>4, <2>5 DEF UpgradeRow
  <2>7. PICK turn \in Turns : turn = Working(w, u, work[w].todo \ {part})
    BY <2>4, WorkingType
  <2>8. turn.upgrade = u
    BY <2>7 DEF Working
  <2>9. QED BY <1>1, <2>3, <2>4, <2>6, <2>7, <2>8, TypesOfStep
<1>4. ASSUME MarkFailure(w) \/ Complete(w)
      PROVE  Typed'
  <2>1. ~At(w, Idle) /\ ~At(w, "begin")
    BY <1>4, MarkersAssumption DEF MarkFailure, Complete, At
  <2>2. PICK u \in Upgrades : u = work[w].upgrade
    BY <2>1, AtWork
  <2>3. upgrade[u] \in UpgradeRow /\ Exists(u) /\ upgrade[u].target # None
    BY <2>1, <2>2, AtWork DEF Begun
  <2>4. PICK status \in {"fulfillment_pending", "fulfilled"} :
                upgrade' = [upgrade EXCEPT ![u].status = status]
    BY <1>4, <2>2 DEF MarkFailure, Complete
  <2>5. PICK row \in UpgradeRow : row = [upgrade[u] EXCEPT !.status = status]
    BY <2>3 DEF UpgradeRow
  <2>6. upgrade' = [upgrade EXCEPT ![u] = row] /\ row.target # None
    BY <1>1, <2>3, <2>4, <2>5 DEF UpgradeRow
  <2>7. /\ order' = order \/ order' = [order EXCEPT ![u].status = "completed"]
        /\ key' = key \/ key' = [key EXCEPT !.kind = "paid"]
        /\ UNCHANGED <<server, now>>
        /\ Turn(w, [stage |-> Idle])
    BY <1>4, <2>2 DEF MarkFailure, Complete
  <2>8. key' \in KeyRow
    BY <1>1, <2>7 DEF KeyRow
  <2>9. PICK turn \in Turns : turn = [stage |-> Idle]
    BY DEF Turns
  <2>10. QED BY <1>1, <2>3, <2>6, <2>7, <2>8, <2>9, TypesOfStep
<1>5. ASSUME ApplyData(w) \/ ExtendKey(w) \/ DataFails(w) \/ ExtendRefused(w)
      PROVE  Typed'
  <2>1. ~At(w, Idle) /\ ~At(w, "begin")
    BY <1>5, MarkersAssumption DEF ApplyData, ExtendKey, DataFails, ExtendRefused, At
  <2>2. PICK u \in Upgrades : u = work[w].upgrade
    BY <2>1, AtWork
  <2>3. PICK row \in UpgradeRow : row = upgrade[u] /\ Exists(u) /\ row.target # None
    BY <2>1, <2>2, AtWork DEF Begun
  <2>4. PICK stage \in {"data applied", "days applied", "failed"} :
             Turn(w, [work[w] EXCEPT !.stage = stage])
    BY <1>5 DEF ApplyData, ExtendKey, DataFails, ExtendRefused
  <2>5. PICK turn \in Turns : turn = [work[w] EXCEPT !.stage = stage] /\ turn.upgrade = u
    <3>1. work[w] \in [stage : Stages, upgrade : Upgrades, todo : SUBSET {"data", "days"}]
      BY <2>1, AtWork
    <3>2. [work[w] EXCEPT !.stage = stage]
             \in [stage : Stages, upgrade : Upgrades, todo : SUBSET {"data", "days"}]
      BY <3>1 DEF Stages
    <3>3. [work[w] EXCEPT !.stage = stage].upgrade = u
      BY <2>2, <3>1
    <3>4. QED BY <3>2, <3>3 DEF Turns
  <2>6. UNCHANGED <<order, now>> /\ upgrade' = [upgrade EXCEPT ![u] = row]
    BY <1>1, <1>5, <2>3 DEF ApplyData, ExtendKey, DataFails, ExtendRefused
  <2>7. Aim(w).data \in Nat /\ Aim(w).days \in Nat
    BY <2>1, AtWork
  <2>8. key' \in KeyRow
    BY <1>1, <1>5, <2>7 DEF ApplyData, ExtendKey, Extended, DataFails, ExtendRefused, KeyRow
  <2>9. server' \in [limit : Nat, there : BOOLEAN]
    BY <1>1, <1>5, <2>7 DEF ApplyData, ExtendKey, DataFails, ExtendRefused
  <2>10. QED BY <2>3, <2>4, <2>5, <2>6, <2>8, <2>9, TypesOfStep
<1>6. ASSUME NothingToDo(w) \/ DataLost(w) \/ Abandon(w)
      PROVE  Typed'
  <2>1. Turn(w, [stage |-> Idle]) /\ UNCHANGED <<order, upgrade, key, now>>
    BY <1>6 DEF NothingToDo, DataLost, Abandon
  <2>2. server' \in [limit : Nat, there : BOOLEAN]
    <3>1. CASE DataLost(w)
      <4>1. Aim(w).data \in Nat
        BY <3>1, AtWork, MarkersAssumption DEF DataLost, At
      <4>2. QED BY <1>1, <3>1, <4>1 DEF DataLost
    <3>2. QED BY <1>1, <1>6, <3>1 DEF NothingToDo, Abandon
  <2>3. order' \in [Upgrades -> OrderRow \cup {None}]
    BY <2>1 DEF Typed, UpgradeTypeOK
  <2>4. QED BY <2>1, <2>2, <2>3, StopTypes
<1>7. QED BY <1>2, <1>3, <1>4, <1>5, <1>6 DEF Fulfil

\* A step that writes the order of an upgrade and nothing of the upgrades.
LEMMA Stay ==
    ASSUME Typed, UNCHANGED upgradeVars,
           UNCHANGED order \/ \E line \in OrderRow : \E o : order' = [order EXCEPT ![o] = line]
    PROVE  Typed'
<1>1. /\ order' \in [Upgrades -> OrderRow \cup {None}]
      /\ \A u \in Upgrades : order[u] \in OrderRow => order'[u] \in OrderRow
  <2>1. order \in [Upgrades -> OrderRow \cup {None}]
    BY DEF Typed, UpgradeTypeOK
  <2>2. ASSUME NEW line \in OrderRow, NEW o, order' = [order EXCEPT ![o] = line]
        PROVE  /\ order' \in [Upgrades -> OrderRow \cup {None}]
               /\ \A u \in Upgrades : order[u] \in OrderRow => order'[u] \in OrderRow
    BY <2>1, <2>2
  <2>3. QED BY <2>1, <2>2
<1>2. UpgradeTypeOK' /\ Begun' = Begun
  BY <1>1 DEF Typed, UpgradeTypeOK, upgradeVars, Begun, Exists
<1>3. QED BY <1>1, <1>2 DEF Typed, upgradeVars, Exists, At

LEMMA TypesStep == Typed /\ [Next]_vars => Typed'
<1> SUFFICES ASSUME Typed, [Next]_vars
             PROVE  Typed'
    OBVIOUS
<1>0. UpgradeTypeOK /\ upgrade \in [Upgrades -> UpgradeRow \cup {None}]
  BY DEF Typed, UpgradeTypeOK
<1>1. ASSUME NEW u \in Upgrades, Create(u)
      PROVE  Typed'
  <2>1. [status |-> "payment_pending", target |-> None, applied |-> {}] \in UpgradeRow
    BY DEF UpgradeRow
  <2>2. PICK row \in UpgradeRow : row.target = None /\ upgrade' = [upgrade EXCEPT ![u] = row]
    BY <1>1, <2>1 DEF Create
  <2>3. PICK line \in OrderRow : order' = [order EXCEPT ![u] = line]
    BY <1>1 DEF Create, OrderRow
  <2>4. UpgradeTypeOK'
    <3>1. order \in [Upgrades -> OrderRow \cup {None}]
      BY <1>0 DEF UpgradeTypeOK
    <3>2. /\ order' \in [Upgrades -> OrderRow \cup {None}]
          /\ upgrade' \in [Upgrades -> UpgradeRow \cup {None}]
      BY <1>0, <2>2, <2>3, <3>1
    <3>3. QED BY <1>0, <1>1, <3>2 DEF Create, UpgradeTypeOK
  <2>5. \A v \in Upgrades : Exists(v)' => order'[v] \in OrderRow
    BY <1>0, <2>2, <2>3 DEF Typed, UpgradeTypeOK, Exists
  <2>6. Begun \subseteq Begun' /\ work' = work
    BY <1>0, <1>1, <2>2 DEF Create, Begun, Exists
  <2>7. QED BY <2>4, <2>5, <2>6 DEF Typed, At
<1>2. ASSUME NEW u \in Upgrades, GiveUp(u)
      PROVE  Typed'
  <2>1. order[u] \in OrderRow
    BY <1>2 DEF GiveUp, Typed
  <2>2. PICK line \in OrderRow : line = [order[u] EXCEPT !.status = "expired"]
    BY <2>1 DEF OrderRow
  <2>3. order' = [order EXCEPT ![u] = line] /\ UNCHANGED upgradeVars
    BY <1>2, <2>2 DEF GiveUp
  <2>4. QED BY <2>2, <2>3, Stay
<1>3. ASSUME NEW u \in Upgrades, NEW w \in Listeners, Pay(w, u)
      PROVE  Typed'
  <2>1. /\ order' = [order EXCEPT ![u] = [status |-> "paid", payment |-> "paid"]]
        /\ Turn(w, [stage |-> "begin", upgrade |-> u])
        /\ UNCHANGED <<upgrade, key, server, now>>
        /\ w \in Fulfillers
    BY <1>3 DEF Pay, Starts, Fulfillers
  <2>2. PICK line \in OrderRow : order' = [order EXCEPT ![u] = line]
    BY <2>1 DEF OrderRow
  <2>3. /\ order' \in [Upgrades -> OrderRow \cup {None}]
        /\ \A v \in Upgrades : order[v] \in OrderRow => order'[v] \in OrderRow
        /\ server' \in [limit : Nat, there : BOOLEAN]
    <3>1. order \in [Upgrades -> OrderRow \cup {None}]
      BY <1>0 DEF UpgradeTypeOK
    <3>2. server' \in [limit : Nat, there : BOOLEAN]
      BY <1>0, <2>1 DEF UpgradeTypeOK
    <3>3. QED BY <2>2, <3>1, <3>2
  <2>4. QED BY <2>1, <2>3, StopTypes
<1>4. ASSUME NEW u \in Upgrades, NEW w \in Recoverers, Recover(w, u)
      PROVE  Typed'
  <2>1. /\ Turn(w, [stage |-> "begin", upgrade |-> u])
        /\ UNCHANGED <<order, upgrade, key, server, now>>
        /\ w \in Fulfillers
    BY <1>4 DEF Recover, Starts, Fulfillers
  <2>2. /\ order' \in [Upgrades -> OrderRow \cup {None}]
        /\ server' \in [limit : Nat, there : BOOLEAN]
    BY <1>0, <2>1 DEF UpgradeTypeOK
  <2>3. QED BY <2>1, <2>2, StopTypes
<1>5. ASSUME Tick \/ Expire \/ ExpireUncleaned \/ ExpireLost
      PROVE  Typed'
  <2>1. UNCHANGED <<order, upgrade, work>>
    BY <1>5 DEF Tick, Expire, ExpireUncleaned, ExpireLost
  <2>2. /\ key' \in KeyRow
        /\ server' \in [limit : Nat, there : BOOLEAN]
        /\ now' \in Nat
    <3>1. key \in KeyRow /\ server \in [limit : Nat, there : BOOLEAN] /\ now \in Nat
      BY <1>0 DEF UpgradeTypeOK, KeyRow
    <3>2. CASE Tick
      BY <3>1, <3>2 DEF Tick
    <3>3. CASE Expire
      BY <3>1, <3>3 DEF Expire, KeyRow
    <3>4. CASE ExpireUncleaned
      BY <3>1, <3>4 DEF ExpireUncleaned, KeyRow
    <3>5. CASE ExpireLost
      BY <3>1, <3>5 DEF ExpireLost
    <3>6. QED BY <1>5, <3>2, <3>3, <3>4, <3>5
  <2>3. UpgradeTypeOK'
    BY <1>0, <2>1, <2>2 DEF UpgradeTypeOK, KeyRow
  <2>4. QED BY <2>1, <2>3 DEF Typed, Exists, Begun, At
<1>6. ASSUME UNCHANGED vars \/ (Refund!Next /\ UNCHANGED upgradeVars)
      PROVE  Typed'
  <2>1. UNCHANGED order \/ \E line \in OrderRow : \E o : order' = [order EXCEPT ![o] = line]
    <3>1. [status |-> "refunded", payment |-> "refunded"] \in OrderRow
      BY DEF OrderRow
    <3>2. UNCHANGED order \/ \E o : order' = [order EXCEPT ![o] =
                                              [status |-> "refunded", payment |-> "refunded"]]
      BY <1>6 DEF vars, Refund!Next, Refund!Ask, Refund!Enqueue, Refund!Send, Refund!SendFails,
                  Refund!Drop, Refund!Credit, Refund!Commit, Refund!Recorded
    <3>3. QED BY <3>1, <3>2
  <2>2. UNCHANGED upgradeVars
    BY <1>6 DEF vars
  <2>3. QED BY <2>1, <2>2, Stay
<1>7. QED
  BY <1>1, <1>2, <1>3, <1>4, <1>5, <1>6, FulfilTypes DEF Next, UpgradeStep, vars

-----------------------------------------------------------------------------
TotalData == TrialData + SumFunctionOnSet(Data, Begun)
TotalDays == TrialDays + SumFunctionOnSet(Days, Begun)

\* What a row keeps: nothing is applied before its targets are fixed, and it is
\* fulfilled once all its parts are applied.
RowKeeps(u) ==
    /\ upgrade[u].target = None => upgrade[u].applied = {}
    /\ upgrade[u].status = "fulfilled" => Parts[u] \subseteq upgrade[u].applied

\* A target gives no more than all upgrades whose fulfilment was begun.
TargetFits(u) ==
    /\ upgrade[u].target.data <= TotalData
    /\ upgrade[u].target.days <= TotalDays

\* What a call knows of its upgrade: the parts that it has not to do any more are
\* applied.
WorkKnows(w) ==
    ~At(w, Idle) /\ ~At(w, "begin") =>
        /\ Parts[work[w].upgrade] \ work[w].todo \subseteq upgrade[work[w].upgrade].applied
        /\ At(w, "complete") => work[w].todo = {}

\* The key while no upgrade, or upgrade u alone, was begun.
Untouched ==
    Begun = {} => key.limit = TrialData /\ key.expires = TrialDays

DataGiven(u) == key.limit = TrialData + Data[u]
DaysGiven(u) == key.expires = TrialDays + Days[u]

AloneGives(u) ==
    Begun = {u} =>
        /\ upgrade[u].target = [data |-> TrialData + Data[u], days |-> TrialDays + Days[u]]
        /\ key.limit = TrialData \/ DataGiven(u)
        /\ key.expires = TrialDays \/ DaysGiven(u)
        /\ "data" \in upgrade[u].applied => DataGiven(u)
        /\ "days" \in upgrade[u].applied => DaysGiven(u)

WorkGave(w) ==
    /\ At(w, "data applied") /\ Begun = {work[w].upgrade} => DataGiven(work[w].upgrade)
    /\ At(w, "days applied") /\ Begun = {work[w].upgrade} => DaysGiven(work[w].upgrade)

UpgradeInv ==
    /\ Typed
    /\ \A u \in Upgrades : Exists(u) => RowKeeps(u)
    /\ \A u \in Begun : TargetFits(u)
    /\ NeverTwice
    /\ Untouched
    /\ \A u \in Upgrades : AloneGives(u)
    /\ \A w \in Fulfillers : WorkKnows(w) /\ WorkGave(w)


LEMMA TotalsAreInts ==
    ASSUME Typed
    PROVE  /\ Begun \subseteq Upgrades /\ IsFiniteSet(Begun)
           /\ TotalData \in Int /\ TotalDays \in Int
<1>1. Begun \subseteq Upgrades /\ IsFiniteSet(Begun)
  BY UpgradeAssumption, FS_Subset DEF Begun
<1>2. (\A u \in Begun : Data[u] \in Int) /\ (\A u \in Begun : Days[u] \in Int)
  BY <1>1, UpgradeAssumption
<1>3. SumFunctionOnSet(Data, Begun) \in Int /\ SumFunctionOnSet(Days, Begun) \in Int
  BY <1>1, <1>2, SumIsInt
<1>4. QED BY <1>1, <1>3, UpgradeAssumption DEF TotalData, TotalDays

\* One more upgrade that is begun adds its data and its time.
LEMMA TotalsWithOneMore ==
    ASSUME Typed, NEW u \in Upgrades, u \notin Begun, Begun' = Begun \cup {u}
    PROVE  TotalData' = TotalData + Data[u] /\ TotalDays' = TotalDays + Days[u]
<1>1. Begun \subseteq Upgrades /\ IsFiniteSet(Begun) /\ TotalData \in Int /\ TotalDays \in Int
  BY TotalsAreInts
<1>2. (\A v \in Begun \cup {u} : Data[v] \in Int) /\ (\A v \in Begun \cup {u} : Days[v] \in Int)
  BY <1>1, UpgradeAssumption
<1>3. /\ SumFunctionOnSet(Data, Begun \cup {u}) = SumFunctionOnSet(Data, Begun) + Data[u]
      /\ SumFunctionOnSet(Days, Begun \cup {u}) = SumFunctionOnSet(Days, Begun) + Days[u]
  BY <1>1, <1>2, SumWithOneMore
<1>4. SumFunctionOnSet(Data, Begun) \in Int /\ SumFunctionOnSet(Days, Begun) \in Int
  BY <1>1, <1>2, SumIsInt
<1>5. QED BY <1>3, <1>4, UpgradeAssumption DEF TotalData, TotalDays

LEMMA Values ==
    ASSUME Typed
    PROVE  /\ key.limit \in Nat /\ key.expires \in Nat /\ TrialData \in Nat /\ TrialDays \in Nat
           /\ \A u \in Upgrades : Data[u] \in Nat /\ Days[u] \in Nat
           /\ \A u \in Begun : /\ upgrade[u] \in UpgradeRow
                               /\ upgrade[u].target \in [data : Nat, days : Nat]
<1>1. \A u \in Begun : upgrade[u] \in UpgradeRow /\ upgrade[u].target # None
  BY DEF Typed, UpgradeTypeOK, Begun, Exists
<1>2. QED BY <1>1, UpgradeAssumption DEF Typed, UpgradeTypeOK, UpgradeRow

\* A step that begins no upgrade, and writes the key by the target of one at most.
LEMMA Advance ==
    ASSUME UpgradeInv, Typed', Begun' = Begun,
           \A u \in Begun : /\ upgrade'[u].target = upgrade[u].target
                            /\ upgrade[u].applied \subseteq upgrade'[u].applied,
           \A u \in Upgrades : Exists(u)' => RowKeeps(u)',
           key'.limit = key.limit \/ \E u \in Begun : key'.limit = upgrade[u].target.data,
           key'.expires = key.expires \/ \E u \in Begun : key'.expires = upgrade[u].target.days,
           \A u \in Upgrades : Begun = {u} =>
               /\ "data" \in upgrade'[u].applied \ upgrade[u].applied => DataGiven(u)
               /\ "days" \in upgrade'[u].applied \ upgrade[u].applied => DaysGiven(u),
           \A w \in Fulfillers : work'[w] = work[w] \/ (WorkKnows(w)' /\ WorkGave(w)')
    PROVE  UpgradeInv'
<1>1. TotalData' = TotalData /\ TotalDays' = TotalDays
  BY DEF TotalData, TotalDays
<1>2. \A u \in Begun' : TargetFits(u)'
  BY <1>1 DEF UpgradeInv, TargetFits
<1>3. NeverTwice'
  BY <1>1 DEF UpgradeInv, NeverTwice, TargetFits, TotalData, TotalDays
<1>4. Untouched'
  BY DEF UpgradeInv, Untouched
<1>5. ASSUME NEW u \in Upgrades, Begun = {u}
      PROVE  /\ DataGiven(u) => DataGiven(u)'
             /\ DaysGiven(u) => DaysGiven(u)'
             /\ key.limit = TrialData => key'.limit = TrialData \/ DataGiven(u)'
             /\ key.expires = TrialDays => key'.expires = TrialDays \/ DaysGiven(u)'
  <2>1. /\ upgrade[u].target.data = TrialData + Data[u]
        /\ upgrade[u].target.days = TrialDays + Days[u]
    <3>1. AloneGives(u)
      BY DEF UpgradeInv
    <3>2. upgrade[u].target = [data |-> TrialData + Data[u], days |-> TrialDays + Days[u]]
      BY <1>5, <3>1 DEF AloneGives
    <3>3. QED BY <3>2
  <2>2. key'.limit \in {key.limit, upgrade[u].target.data}
    BY <1>5
  <2>3. key'.expires \in {key.expires, upgrade[u].target.days}
    BY <1>5
  <2>4. QED BY <2>1, <2>2, <2>3 DEF DataGiven, DaysGiven
<1>6. \A u \in Upgrades : AloneGives(u)'
  BY <1>5 DEF UpgradeInv, AloneGives
<1>7. ASSUME NEW w \in Fulfillers
      PROVE  WorkKnows(w)' /\ WorkGave(w)'
  <2>1. CASE work'[w] = work[w]
    <3>1. ~At(w, Idle) /\ ~At(w, "begin") => work[w].upgrade \in Begun
      BY DEF UpgradeInv, Typed
    <3>2. WorkKnows(w)'
      BY <2>1, <3>1 DEF UpgradeInv, WorkKnows, At
    <3>3. WorkGave(w)'
      BY <1>5, <2>1, <3>1, TotalsAreInts DEF UpgradeInv, WorkGave, At
    <3>4. QED BY <3>2, <3>3
  <2>2. QED BY <2>1
<1>8. QED BY <1>2, <1>3, <1>4, <1>6, <1>7 DEF UpgradeInv

\* A step that writes the row of an upgrade but not its targets.
LEMMA RowWritten ==
    ASSUME Typed, NEW u \in Upgrades, Exists(u), NEW row \in UpgradeRow,
           row.target = upgrade[u].target, upgrade' = [upgrade EXCEPT ![u] = row]
    PROVE  /\ Begun' = Begun
           /\ upgrade'[u] = row
           /\ \A v \in Upgrades \ {u} : upgrade'[v] = upgrade[v]
           /\ \A v \in Upgrades : Exists(v)' <=> Exists(v)
<1>1. upgrade \in [Upgrades -> UpgradeRow \cup {None}] /\ row # None
  BY MarkersAssumption DEF Typed, UpgradeTypeOK
<1>2. QED BY <1>1 DEF Begun, Exists

\* The first call that fixes the targets of an upgrade.
LEMMA FirstBegin ==
    ASSUME UpgradeInv, Typed', NEW w \in Fulfillers, NEW u \in Upgrades, Begin(w),
           u = work[w].upgrade, u \notin Begun
    PROVE  UpgradeInv'
<1>1. /\ Exists(u) /\ upgrade[u].target = None /\ upgrade[u].status # "fulfilled"
      /\ upgrade' = [upgrade EXCEPT ![u].status = "fulfillment_pending", ![u].target = TargetOf(u)]
      /\ work' = [work EXCEPT ![w] = Working(w, u, Parts[u] \ upgrade[u].applied)]
      /\ UNCHANGED <<order, key, server, now>>
  BY DEF Begin, PaymentOf, Status, Begun, Turn
<1>2. /\ upgrade \in [Upgrades -> UpgradeRow \cup {None}] /\ upgrade[u] \in UpgradeRow
      /\ work \in [Fulfillers -> Turns]
  BY <1>1 DEF UpgradeInv, Typed, UpgradeTypeOK, Exists, Turns, Stages
<1>3. /\ TargetOf(u) = [data |-> key.limit + Data[u], days |-> key.expires + Days[u]]
      /\ TargetOf(u) # None
  BY <1>1, TargetType, MarkersAssumption DEF TargetOf, UpgradeInv
<1>4. PICK row \in UpgradeRow : /\ row.status = "fulfillment_pending" /\ row.target = TargetOf(u)
                                /\ row.applied = {} /\ upgrade' = [upgrade EXCEPT ![u] = row]
  <2>1. upgrade[u].applied = {}
    BY <1>1 DEF UpgradeInv, RowKeeps
  <2>2. PICK row : row = [upgrade[u] EXCEPT !.status = "fulfillment_pending",
                                            !.target = TargetOf(u)]
    OBVIOUS
  <2>3. row \in UpgradeRow
    BY <1>1, <1>2, <2>2, TargetType DEF UpgradeRow, UpgradeInv
  <2>4. QED BY <1>1, <1>2, <2>1, <2>2, <2>3 DEF UpgradeRow
<1>5. /\ Begun' = Begun \cup {u}
      /\ upgrade'[u] = row /\ \A v \in Upgrades \ {u} : upgrade'[v] = upgrade[v]
  BY <1>2, <1>3, <1>4, MarkersAssumption DEF Begun, Exists
<1>6. /\ key.limit \in Nat /\ key.expires \in Nat /\ TrialData \in Nat /\ TrialDays \in Nat
      /\ Data[u] \in Nat /\ Days[u] \in Nat
      /\ TotalData \in Int /\ TotalDays \in Int
      /\ TotalData' = TotalData + Data[u] /\ TotalDays' = TotalDays + Days[u]
      /\ key.limit <= TotalData /\ key.expires <= TotalDays
  BY <1>5, Values, TotalsAreInts, TotalsWithOneMore
     DEF UpgradeInv, NeverTwice, TotalData, TotalDays
<1>7. \A v \in Upgrades : Exists(v)' => RowKeeps(v)'
  BY <1>4, <1>5 DEF UpgradeInv, Exists, RowKeeps
<1>8. ASSUME NEW v \in Begun'
      PROVE  TargetFits(v)'
  <2>1. CASE v = u
    BY <1>3, <1>4, <1>5, <1>6, <2>1 DEF TargetFits
  <2>2. CASE v # u
    <3>1. v \in Begun /\ upgrade'[v] = upgrade[v]
      BY <1>5, <1>8, <2>2 DEF Begun
    <3>2. upgrade[v].target.data \in Nat /\ upgrade[v].target.days \in Nat
      BY <3>1, Values DEF UpgradeInv
    <3>3. upgrade[v].target.data <= TotalData /\ upgrade[v].target.days <= TotalDays
      BY <3>1 DEF UpgradeInv, TargetFits
    <3>4. upgrade[v].target.data <= TotalData' /\ upgrade[v].target.days <= TotalDays'
      BY <1>6, <3>2, <3>3
    <3>5. QED BY <3>1, <3>4 DEF TargetFits
  <2>3. QED BY <2>1, <2>2
<1>9. NeverTwice'
  <2>1. key.limit <= TotalData' /\ key.expires <= TotalDays'
    BY <1>6
  <2>2. QED BY <1>1, <2>1 DEF NeverTwice, TotalData, TotalDays
<1>10. Untouched'
  BY <1>5 DEF Untouched
<1>11. ASSUME NEW v \in Upgrades, Begun' = {v}
       PROVE  v = u /\ Begun = {}
  BY <1>5, <1>11
<1>12. ASSUME NEW v \in Upgrades
       PROVE  AloneGives(v)'
  <2>1. SUFFICES ASSUME Begun' = {v}
                 PROVE  AloneGives(v)'
    BY DEF AloneGives
  <2>2. v = u /\ key.limit = TrialData /\ key.expires = TrialDays
    BY <1>11, <2>1 DEF UpgradeInv, Untouched
  <2>3. QED BY <1>1, <1>3, <1>4, <1>5, <2>2 DEF AloneGives
<1>13. /\ work'[w] = [stage |-> Stage(Parts[u] \ {}), upgrade |-> u, todo |-> Parts[u] \ {}]
       /\ Stage(Parts[u] \ {}) \in {"data", "days", "complete"}
       /\ Stage(Parts[u] \ {}) = "complete" => Parts[u] = {}
       /\ \A x \in Fulfillers \ {w} : work'[x] = work[x]
  <2>1. upgrade[u].applied = {}
    BY <1>1 DEF UpgradeInv, RowKeeps
  <2>2. Parts[u] \in SUBSET {"data", "days"}
    BY UpgradeAssumption
  <2>3. QED BY <1>1, <1>2, <2>1, <2>2, WorkingType
<1>14. WorkKnows(w)' /\ WorkGave(w)'
  <2>1. /\ work'[w].upgrade = u /\ work'[w].todo = Parts[u]
        /\ work'[w].stage \in {"data", "days", "complete"}
    BY <1>13
  <2>2. work'[w].stage = "complete" => work'[w].todo = {}
    BY <1>13
  <2>3. WorkKnows(w)'
    BY <2>1, <2>2 DEF WorkKnows, At
  <2>4. WorkGave(w)'
    BY <2>1 DEF WorkGave, At
  <2>5. QED BY <2>3, <2>4
<1>15. ASSUME NEW x \in Fulfillers \ {w}
       PROVE  WorkKnows(x)' /\ WorkGave(x)'
  <2>1. ~At(x, Idle) /\ ~At(x, "begin") => work[x].upgrade \in Begun /\ work[x].upgrade # u
    BY DEF UpgradeInv, Typed
  <2>2. ~At(x, Idle) /\ ~At(x, "begin") => upgrade'[work[x].upgrade] = upgrade[work[x].upgrade]
    BY <1>5, <2>1 DEF Begun
  <2>3. WorkKnows(x)'
    BY <1>13, <2>2 DEF UpgradeInv, WorkKnows, At
  <2>4. WorkGave(x)'
    BY <1>5, <1>13, <2>1, MarkersAssumption DEF WorkGave, At
  <2>5. QED BY <2>3, <2>4
<1>16. QED
  BY <1>7, <1>8, <1>9, <1>10, <1>12, <1>14, <1>15 DEF UpgradeInv

\* A step that writes no row: it may write the key by the target of one upgrade, and
\* move one call on.
LEMMA AdvanceKey ==
    ASSUME UpgradeInv, Typed', upgrade' = upgrade,
           key'.limit = key.limit \/ \E u \in Begun : key'.limit = upgrade[u].target.data,
           key'.expires = key.expires \/ \E u \in Begun : key'.expires = upgrade[u].target.days,
           \A w \in Fulfillers : work'[w] = work[w] \/ (WorkKnows(w)' /\ WorkGave(w)')
    PROVE  UpgradeInv'
<1>1. Begun' = Begun
  BY DEF Begun, Exists
<1>2. \A u \in Upgrades : Exists(u)' => RowKeeps(u)'
  BY DEF UpgradeInv, Exists, RowKeeps
<1>3. QED BY <1>1, <1>2, Advance

\* A step that writes one row, and moves one call on.
LEMMA AdvanceRow ==
    ASSUME UpgradeInv, Typed', NEW u \in Upgrades, Exists(u), NEW row \in UpgradeRow,
           upgrade' = [upgrade EXCEPT ![u] = row],
           row.target = upgrade[u].target, upgrade[u].applied \subseteq row.applied,
           row.target = None => row.applied = {},
           row.status = "fulfilled" => Parts[u] \subseteq row.applied,
           key'.limit = key.limit, key'.expires = key.expires,
           "data" \in row.applied \ upgrade[u].applied /\ Begun = {u} => DataGiven(u),
           "days" \in row.applied \ upgrade[u].applied /\ Begun = {u} => DaysGiven(u),
           \A w \in Fulfillers : work'[w] = work[w] \/ (WorkKnows(w)' /\ WorkGave(w)')
    PROVE  UpgradeInv'
<1>1. /\ Begun' = Begun
      /\ upgrade'[u] = row
      /\ \A v \in Upgrades \ {u} : upgrade'[v] = upgrade[v]
      /\ \A v \in Upgrades : Exists(v)' <=> Exists(v)
  BY RowWritten DEF UpgradeInv
<1>2. \A v \in Upgrades : Exists(v)' => RowKeeps(v)'
  BY <1>1 DEF UpgradeInv, RowKeeps
<1>3. \A v \in Begun : /\ upgrade'[v].target = upgrade[v].target
                       /\ upgrade[v].applied \subseteq upgrade'[v].applied
  BY <1>1 DEF Begun
<1>4. \A v \in Upgrades : Begun = {v} =>
          /\ "data" \in upgrade'[v].applied \ upgrade[v].applied => DataGiven(v)
          /\ "days" \in upgrade'[v].applied \ upgrade[v].applied => DaysGiven(v)
  BY <1>1
<1>5. QED BY <1>1, <1>2, <1>3, <1>4, Advance

\* A call that ended, or has just begun, knows nothing.
LEMMA KnowsNothing ==
    ASSUME NEW w \in Fulfillers, At(w, Idle) \/ At(w, "begin")
    PROVE  WorkKnows(w) /\ WorkGave(w)
  BY MarkersAssumption DEF WorkKnows, WorkGave, At

LEMMA FulfilStep ==
    ASSUME UpgradeInv, Typed', NEW w \in Fulfillers, Fulfil(w)
    PROVE  UpgradeInv'
<1>1. /\ work \in [Fulfillers -> Turns] /\ upgrade \in [Upgrades -> UpgradeRow \cup {None}]
      /\ Typed
  BY DEF UpgradeInv, Typed, UpgradeTypeOK, Turns, Stages
<1>2. ASSUME NEW turn, Turn(w, turn)
      PROVE  work'[w] = turn /\ \A x \in Fulfillers \ {w} : work'[x] = work[x]
  BY <1>1, <1>2 DEF Turn
<1>3. ASSUME Turn(w, [stage |-> Idle])
      PROVE  /\ \A x \in Fulfillers \ {w} : work'[x] = work[x]
             /\ WorkKnows(w)' /\ WorkGave(w)'
  <2>1. /\ work'[w] = [stage |-> Idle]
        /\ \A x \in Fulfillers \ {w} : work'[x] = work[x]
    BY <1>2, <1>3
  <2>2. Idle # "data applied" /\ Idle # "days applied"
    BY MarkersAssumption
  <2>3. work'[w].stage = Idle
    BY <2>1
  <2>4. WorkKnows(w)' /\ WorkGave(w)'
    BY <2>2, <2>3 DEF WorkKnows, WorkGave, At
  <2>5. QED BY <2>1, <2>4
<1>4. CASE Begin(w)
  <2>1. PICK u \in Upgrades : u = work[w].upgrade
    BY <1>1, <1>4, AtWork, MarkersAssumption DEF Begin, At
  <2>2. CASE u \notin Begun
    BY <1>4, <2>1, <2>2, FirstBegin
  <2>3. CASE u \in Begun
    <3>1. /\ Exists(u) /\ upgrade[u].target # None /\ upgrade[u] \in UpgradeRow
          /\ upgrade[u].status # "fulfilled"
      BY <1>1, <1>4, <2>1, <2>3 DEF Begun, Begin, Status, Exists
    <3>2. PICK row \in UpgradeRow : row = [upgrade[u] EXCEPT !.status = "fulfillment_pending"]
      BY <3>1 DEF UpgradeRow
    <3>3. /\ upgrade' = [upgrade EXCEPT ![u].status = "fulfillment_pending",
                                        ![u].target = TargetOf(u)]
          /\ Turn(w, Working(w, u, Parts[u] \ upgrade[u].applied))
          /\ UNCHANGED key
      BY <1>4, <2>1 DEF Begin
    <3>4. TargetOf(u) = upgrade[u].target
      BY <3>1 DEF TargetOf
    <3>5. upgrade' = [upgrade EXCEPT ![u] = row]
      BY <1>1, <3>1, <3>2, <3>3, <3>4 DEF UpgradeRow
    <3>6. /\ row.target = upgrade[u].target /\ row.applied = upgrade[u].applied
          /\ row.status = "fulfillment_pending"
      BY <3>1, <3>2 DEF UpgradeRow
    <3>7. PICK todo \in SUBSET {"data", "days"} : todo = Parts[u] \ upgrade[u].applied
      BY UpgradeAssumption
    <3>8. /\ work'[w].stage = Stage(todo) /\ work'[w].upgrade = u /\ work'[w].todo = todo
          /\ Stage(todo) \in {"data", "days", "complete"}
          /\ Stage(todo) = "complete" => todo = {}
          /\ \A x \in Fulfillers \ {w} : work'[x] = work[x]
      BY <1>2, <3>3, <3>7, WorkingType
    <3>9. upgrade'[u] = row
      BY <1>1, <3>5
    <3>10. WorkKnows(w)'
      BY <3>6, <3>7, <3>8, <3>9 DEF WorkKnows, At
    <3>11. WorkGave(w)'
      BY <3>8 DEF WorkGave, At
    <3>12. \A x \in Fulfillers : work'[x] = work[x] \/ (WorkKnows(x)' /\ WorkGave(x)')
      BY <3>8, <3>10, <3>11
    <3>13. row.target # None /\ row.status # "fulfilled" /\ row.applied \ upgrade[u].applied = {}
           /\ key'.limit = key.limit /\ key'.expires = key.expires
           /\ upgrade[u].applied \subseteq row.applied
      BY <3>1, <3>3, <3>6
    <3>14. QED BY <3>1, <3>5, <3>6, <3>12, <3>13, AdvanceRow
  <2>4. QED BY <2>2, <2>3
<1>5. CASE ApplyData(w)
  <2>1. ~At(w, Idle) /\ ~At(w, "begin") /\ ~At(w, "complete")
    BY <1>5, MarkersAssumption DEF ApplyData, At
  <2>2. PICK u \in Upgrades : u = work[w].upgrade /\ u \in Begun
    BY <1>1, <2>1, AtWork
  <2>3. /\ key'.limit = upgrade[u].target.data /\ key'.expires = key.expires
        /\ UNCHANGED upgrade
    <3>1. key \in KeyRow
      BY <1>1 DEF Typed, UpgradeTypeOK, KeyRow
    <3>2. QED BY <1>5, <2>2, <3>1 DEF ApplyData, HasLimit, Aim, KeyRow
  <2>4. /\ work'[w].stage = "data applied" /\ work'[w].upgrade = u /\ work'[w].todo = work[w].todo
        /\ \A x \in Fulfillers \ {w} : work'[x] = work[x]
    <3>1. work[w] \in [stage : Stages, upgrade : Upgrades, todo : SUBSET {"data", "days"}]
      BY <1>1, <2>1, AtWork
    <3>2. Turn(w, [work[w] EXCEPT !.stage = "data applied"])
      BY <1>5 DEF ApplyData
    <3>3. /\ work'[w] = [work[w] EXCEPT !.stage = "data applied"]
          /\ \A x \in Fulfillers \ {w} : work'[x] = work[x]
      BY <1>2, <3>2
    <3>4. /\ work'[w].stage = "data applied" /\ work'[w].upgrade = work[w].upgrade
          /\ work'[w].todo = work[w].todo
      BY <3>1, <3>3
    <3>5. QED BY <2>2, <3>3, <3>4
  <2>5. Parts[u] \ work[w].todo \subseteq upgrade[u].applied
    BY <2>1, <2>2 DEF UpgradeInv, WorkKnows
  <2>6. WorkKnows(w)'
    BY <2>3, <2>4, <2>5 DEF WorkKnows, At
  <2>7. Begun' = Begun
    BY <2>3 DEF Begun, Exists
  <2>8. Begun = {u} => key'.limit = TrialData + Data[u]
    <3>1. AloneGives(u)
      BY DEF UpgradeInv
    <3>2. Begun = {u}
          => upgrade[u].target = [data |-> TrialData + Data[u], days |-> TrialDays + Days[u]]
      BY <3>1 DEF AloneGives
    <3>3. QED BY <2>3, <3>2
  <2>9. WorkGave(w)'
    BY <2>4, <2>7, <2>8 DEF WorkGave, At, DataGiven
  <2>10. \A x \in Fulfillers : work'[x] = work[x] \/ (WorkKnows(x)' /\ WorkGave(x)')
    BY <2>4, <2>6, <2>9
  <2>11. QED BY <2>2, <2>3, <2>10, AdvanceKey DEF UpgradeInv
<1>6. CASE ExtendKey(w)
  <2>1. ~At(w, Idle) /\ ~At(w, "begin") /\ ~At(w, "complete")
    BY <1>6, MarkersAssumption DEF ExtendKey, At
  <2>2. PICK u \in Upgrades : u = work[w].upgrade /\ u \in Begun
    BY <1>1, <2>1, AtWork
  <2>3. /\ key'.limit = key.limit
        /\ key'.expires = IF key.expires >= upgrade[u].target.days THEN key.expires
                          ELSE upgrade[u].target.days
        /\ UNCHANGED upgrade
    <3>1. key \in KeyRow
      BY <1>1 DEF Typed, UpgradeTypeOK, KeyRow
    <3>2. QED BY <1>6, <2>2, <3>1 DEF ExtendKey, Extended, Aim, KeyRow
  <2>4. /\ work'[w].stage = "days applied" /\ work'[w].upgrade = u /\ work'[w].todo = work[w].todo
        /\ \A x \in Fulfillers \ {w} : work'[x] = work[x]
    <3>1. work[w] \in [stage : Stages, upgrade : Upgrades, todo : SUBSET {"data", "days"}]
      BY <1>1, <2>1, AtWork
    <3>2. Turn(w, [work[w] EXCEPT !.stage = "days applied"])
      BY <1>6 DEF ExtendKey
    <3>3. /\ work'[w] = [work[w] EXCEPT !.stage = "days applied"]
          /\ \A x \in Fulfillers \ {w} : work'[x] = work[x]
      BY <1>2, <3>2
    <3>4. /\ work'[w].stage = "days applied" /\ work'[w].upgrade = work[w].upgrade
          /\ work'[w].todo = work[w].todo
      BY <3>1, <3>3
    <3>5. QED BY <2>2, <3>3, <3>4
  <2>5. Parts[u] \ work[w].todo \subseteq upgrade[u].applied
    BY <2>1, <2>2 DEF UpgradeInv, WorkKnows
  <2>6. WorkKnows(w)'
    BY <2>3, <2>4, <2>5 DEF WorkKnows, At
  <2>7. Begun' = Begun
    BY <2>3 DEF Begun, Exists
  <2>8. Begun = {u} => key'.expires = TrialDays + Days[u]
    <3>1. AloneGives(u) /\ TrialDays \in Nat /\ Days[u] \in Nat /\ key.expires \in Nat
      BY <1>1, Values DEF UpgradeInv
    <3>2. Begun = {u} =>
            /\ upgrade[u].target = [data |-> TrialData + Data[u], days |-> TrialDays + Days[u]]
            /\ key.expires = TrialDays \/ key.expires = TrialDays + Days[u]
      BY <3>1 DEF AloneGives, DaysGiven
    <3>3. Begun = {u} => upgrade[u].target.days = TrialDays + Days[u]
      BY <3>2
    <3>4. QED BY <2>3, <3>1, <3>2, <3>3
  <2>9. WorkGave(w)'
    BY <2>4, <2>7, <2>8 DEF WorkGave, At, DaysGiven
  <2>10. \A x \in Fulfillers : work'[x] = work[x] \/ (WorkKnows(x)' /\ WorkGave(x)')
    BY <2>4, <2>6, <2>9
  <2>11. QED BY <2>2, <2>3, <2>10, AdvanceKey DEF UpgradeInv
<1>7. ASSUME NEW part \in {"data", "days"}, Mark(w, part)
      PROVE  UpgradeInv'
  <2>1. At(w, IF part = "data" THEN "data applied" ELSE "days applied")
    <3>1. CASE part = "data"
      BY <1>7, <3>1 DEF Mark, AppliedStage
    <3>2. CASE part = "days"
      BY <1>7, <3>2 DEF Mark, AppliedStage
    <3>3. QED BY <3>1, <3>2
  <2>2. ~At(w, Idle) /\ ~At(w, "begin")
    BY <2>1, MarkersAssumption DEF At
  <2>3. PICK u \in Upgrades : u = work[w].upgrade /\ u \in Begun
    BY <1>1, <2>2, AtWork
  <2>4. /\ upgrade' = [upgrade EXCEPT ![u].applied = @ \cup {part}]
        /\ Turn(w, Working(w, u, work[w].todo \ {part}))
        /\ UNCHANGED key
    BY <1>7, <2>3 DEF Mark
  <2>5. Exists(u) /\ upgrade[u] \in UpgradeRow /\ work[w].todo \in SUBSET {"data", "days"}
    BY <1>1, <2>2, <2>3, AtWork DEF Begun
  <2>6. PICK row \in UpgradeRow : row = [upgrade[u] EXCEPT !.applied = @ \cup {part}]
    BY <2>5 DEF UpgradeRow
  <2>7. /\ upgrade' = [upgrade EXCEPT ![u] = row]
        /\ row.target = upgrade[u].target /\ row.target # None
        /\ row.applied = upgrade[u].applied \cup {part}
        /\ row.status = upgrade[u].status
    BY <1>1, <2>3, <2>4, <2>5, <2>6 DEF UpgradeRow, Begun
  <2>8. PICK todo \in SUBSET {"data", "days"} : todo = work[w].todo \ {part}
    BY <2>5
  <2>9. /\ work'[w].stage = Stage(todo) /\ work'[w].upgrade = u /\ work'[w].todo = todo
        /\ Stage(todo) \in {"data", "days", "complete"}
        /\ Stage(todo) = "complete" => todo = {}
        /\ \A x \in Fulfillers \ {w} : work'[x] = work[x]
    BY <1>2, <2>4, <2>8, WorkingType
  <2>10. upgrade'[u] = row
    BY <1>1, <2>7
  <2>11. Parts[u] \ work[w].todo \subseteq upgrade[u].applied
    BY <2>2, <2>3 DEF UpgradeInv, WorkKnows
  <2>12. WorkKnows(w)'
    BY <2>7, <2>8, <2>9, <2>10, <2>11 DEF WorkKnows, At
  <2>13. WorkGave(w)'
    BY <2>9 DEF WorkGave, At
  <2>14. /\ "data" \in row.applied \ upgrade[u].applied /\ Begun = {u} => DataGiven(u)
         /\ "days" \in row.applied \ upgrade[u].applied /\ Begun = {u} => DaysGiven(u)
    <3>1. WorkGave(w)
      BY DEF UpgradeInv
    <3>2. QED BY <2>1, <2>3, <2>7, <3>1 DEF WorkGave
  <2>15. row.status = "fulfilled" => Parts[u] \subseteq row.applied
    BY <2>5, <2>7 DEF UpgradeInv, RowKeeps
  <2>16. \A x \in Fulfillers : work'[x] = work[x] \/ (WorkKnows(x)' /\ WorkGave(x)')
    BY <2>9, <2>12, <2>13
  <2>17. key'.limit = key.limit /\ key'.expires = key.expires
         /\ upgrade[u].applied \subseteq row.applied
    BY <2>4, <2>7
  <2>18. QED BY <2>5, <2>7, <2>14, <2>15, <2>16, <2>17, AdvanceRow
<1>8. ASSUME Complete(w) \/ MarkFailure(w)
      PROVE  UpgradeInv'
  <2>1. ~At(w, Idle) /\ ~At(w, "begin")
    BY <1>8, MarkersAssumption DEF Complete, MarkFailure, At
  <2>2. PICK u \in Upgrades : u = work[w].upgrade /\ u \in Begun
    BY <1>1, <2>1, AtWork
  <2>3. PICK status \in {"fulfillment_pending", "fulfilled"} :
             /\ upgrade' = [upgrade EXCEPT ![u].status = status]
             /\ status = "fulfilled" => At(w, "complete")
    BY <1>8, <2>2 DEF Complete, MarkFailure
  <2>4. Turn(w, [stage |-> Idle])
    BY <1>8 DEF Complete, MarkFailure
  <2>5. key'.limit = key.limit /\ key'.expires = key.expires
    <3>1. key \in KeyRow
      BY <1>1 DEF Typed, UpgradeTypeOK, KeyRow
    <3>2. QED BY <1>8, <3>1 DEF Complete, MarkFailure, KeyRow
  <2>6. Exists(u) /\ upgrade[u] \in UpgradeRow /\ upgrade[u].target # None
    BY <1>1, <2>1, <2>2, AtWork DEF Begun
  <2>7. PICK row \in UpgradeRow : row = [upgrade[u] EXCEPT !.status = status]
    BY <2>6 DEF UpgradeRow
  <2>8. /\ upgrade' = [upgrade EXCEPT ![u] = row]
        /\ row.target = upgrade[u].target /\ row.target # None
        /\ row.applied = upgrade[u].applied
        /\ row.status = status
    BY <1>1, <2>3, <2>6, <2>7 DEF UpgradeRow
  <2>9. status = "fulfilled" => Parts[u] \subseteq row.applied
    BY <2>1, <2>2, <2>3, <2>8 DEF UpgradeInv, WorkKnows
  <2>10. \A x \in Fulfillers : work'[x] = work[x] \/ (WorkKnows(x)' /\ WorkGave(x)')
    BY <1>3, <2>4
  <2>11. row.applied \ upgrade[u].applied = {} /\ upgrade[u].applied \subseteq row.applied
    BY <2>8
  <2>12. QED BY <2>5, <2>6, <2>8, <2>9, <2>10, <2>11, AdvanceRow
<1>9. CASE DataFails(w) \/ ExtendRefused(w)
  <2>1. ~At(w, Idle) /\ ~At(w, "begin")
    BY <1>9, MarkersAssumption DEF DataFails, ExtendRefused, At
  <2>2. Turn(w, [work[w] EXCEPT !.stage = "failed"]) /\ UNCHANGED upgrade
    BY <1>9 DEF DataFails, ExtendRefused
  <2>3. key'.limit = key.limit /\ key'.expires = key.expires
    <3>1. key \in KeyRow
      BY <1>1 DEF Typed, UpgradeTypeOK, KeyRow
    <3>2. QED BY <1>9, <3>1 DEF DataFails, ExtendRefused, KeyRow
  <2>4. work[w] \in [stage : Stages, upgrade : Upgrades, todo : SUBSET {"data", "days"}]
    BY <1>1, <2>1, AtWork
  <2>5. /\ work'[w].stage = "failed" /\ work'[w].upgrade = work[w].upgrade
        /\ work'[w].todo = work[w].todo
        /\ \A x \in Fulfillers \ {w} : work'[x] = work[x]
    BY <1>2, <2>2, <2>4
  <2>6. WorkKnows(w)' /\ WorkGave(w)'
    <3>1. Parts[work[w].upgrade] \ work[w].todo \subseteq upgrade[work[w].upgrade].applied
      BY <2>1 DEF UpgradeInv, WorkKnows
    <3>2. WorkKnows(w)'
      BY <2>2, <2>5, <3>1 DEF WorkKnows, At
    <3>3. WorkGave(w)'
      BY <2>5 DEF WorkGave, At
    <3>4. QED BY <3>2, <3>3
  <2>7. \A x \in Fulfillers : work'[x] = work[x] \/ (WorkKnows(x)' /\ WorkGave(x)')
    BY <2>5, <2>6
  <2>8. QED BY <2>2, <2>3, <2>7, AdvanceKey
<1>10. CASE NothingToDo(w) \/ DataLost(w) \/ Abandon(w)
  <2>1. Turn(w, [stage |-> Idle]) /\ UNCHANGED <<upgrade, key>>
    BY <1>10 DEF NothingToDo, DataLost, Abandon
  <2>2. QED BY <1>3, <2>1, AdvanceKey
<1>11. QED
  BY <1>4, <1>5, <1>6, <1>7, <1>8, <1>9, <1>10 DEF Fulfil

LEMMA UpgradeInvStep == UpgradeInv /\ [Next]_vars => UpgradeInv'
<1> SUFFICES ASSUME UpgradeInv, [Next]_vars
             PROVE  UpgradeInv'
    OBVIOUS
<1>0. /\ Typed /\ Typed'
      /\ work \in [Fulfillers -> Turns] /\ upgrade \in [Upgrades -> UpgradeRow \cup {None}]
  BY TypesStep DEF UpgradeInv, Typed, UpgradeTypeOK, Turns, Stages
<1>1. ASSUME NEW u \in Upgrades, Create(u)
      PROVE  UpgradeInv'
  <2>1. /\ ~Exists(u) /\ UNCHANGED <<key, work>>
        /\ upgrade' = [upgrade EXCEPT
                           ![u] = [status |-> "payment_pending", target |-> None, applied |-> {}]]
    BY <1>1 DEF Create
  <2>2. /\ upgrade'[u].target = None /\ upgrade'[u].applied = {}
        /\ upgrade'[u].status = "payment_pending"
        /\ \A v \in Upgrades \ {u} : upgrade'[v] = upgrade[v]
    BY <1>0, <2>1
  <2>3. Begun' = Begun /\ u \notin Begun
    BY <2>1, <2>2 DEF Begun, Exists
  <2>4. \A v \in Upgrades : Exists(v)' => RowKeeps(v)'
    BY <2>2 DEF UpgradeInv, Exists, RowKeeps
  <2>5. \A v \in Begun : /\ upgrade'[v].target = upgrade[v].target
                         /\ upgrade[v].applied \subseteq upgrade'[v].applied
    BY <2>2, <2>3 DEF Begun
  <2>6. \A v \in Upgrades : Begun = {v} => upgrade'[v].applied \ upgrade[v].applied = {}
    BY <2>2, <2>3
  <2>7. QED BY <1>0, <2>1, <2>3, <2>4, <2>5, <2>6, Advance
<1>2. ASSUME NEW u \in Upgrades, NEW w \in Fulfillers,
             Turn(w, [stage |-> "begin", upgrade |-> u]), UNCHANGED <<upgrade, key>>
      PROVE  UpgradeInv'
  <2>1. /\ work'[w].stage = "begin"
        /\ \A x \in Fulfillers \ {w} : work'[x] = work[x]
    BY <1>0, <1>2 DEF Turn
  <2>2. WorkKnows(w)' /\ WorkGave(w)'
    BY <2>1 DEF WorkKnows, WorkGave, At
  <2>3. \A x \in Fulfillers : work'[x] = work[x] \/ (WorkKnows(x)' /\ WorkGave(x)')
    BY <2>1, <2>2
  <2>4. QED BY <1>0, <1>2, <2>3, AdvanceKey
<1>3. ASSUME NEW u \in Upgrades, NEW w \in Listeners, Pay(w, u)
      PROVE  UpgradeInv'
  BY <1>2, <1>3 DEF Pay, Starts, Fulfillers
<1>4. ASSUME NEW u \in Upgrades, NEW w \in Recoverers, Recover(w, u)
      PROVE  UpgradeInv'
  BY <1>2, <1>4 DEF Recover, Starts, Fulfillers
<1>5. ASSUME UNCHANGED <<upgrade, work>>, key'.limit = key.limit, key'.expires = key.expires
      PROVE  UpgradeInv'
  BY <1>0, <1>5, AdvanceKey
<1>6. ASSUME Tick \/ Expire \/ ExpireUncleaned \/ ExpireLost
      PROVE  UpgradeInv'
  <2>1. key \in KeyRow
    BY <1>0 DEF Typed, UpgradeTypeOK, KeyRow
  <2>2. UNCHANGED <<upgrade, work>> /\ key'.limit = key.limit /\ key'.expires = key.expires
    BY <1>6, <2>1 DEF Tick, Expire, ExpireUncleaned, ExpireLost, KeyRow
  <2>3. QED BY <1>5, <2>2
<1>7. ASSUME NEW u \in Upgrades, GiveUp(u)
      PROVE  UpgradeInv'
  BY <1>5, <1>7 DEF GiveUp, upgradeVars
<1>8. ASSUME UNCHANGED upgradeVars
      PROVE  UpgradeInv'
  BY <1>5, <1>8 DEF upgradeVars
<1>9. QED
  BY <1>0, <1>1, <1>3, <1>4, <1>6, <1>7, <1>8, FulfilStep DEF Next, UpgradeStep, vars, upgradeVars

LEMMA UpgradeInvInit == Init => UpgradeInv
<1> SUFFICES ASSUME Init
             PROVE  UpgradeInv
    OBVIOUS
<1>1. UpgradeInit
  BY DEF Init
<1>2. UpgradeTypeOK
  BY <1>1, UpgradeAssumption DEF UpgradeInit, UpgradeTypeOK
<1>3. /\ Begun = {} /\ \A u \in Upgrades : ~Exists(u)
      /\ \A w \in Fulfillers : At(w, Idle)
      /\ key.limit = TrialData /\ key.expires = TrialDays
  BY <1>1 DEF UpgradeInit, Begun, Exists, At
<1>4. Typed
  BY <1>2, <1>3 DEF Typed
<1>5. NeverTwice
  BY <1>3, SumOfNone, UpgradeAssumption DEF NeverTwice
<1>6. \A w \in Fulfillers : WorkKnows(w) /\ WorkGave(w)
  BY <1>3, KnowsNothing
<1>7. Untouched /\ \A u \in Upgrades : AloneGives(u)
  BY <1>3 DEF Untouched, AloneGives
<1>8. QED BY <1>3, <1>4, <1>5, <1>6, <1>7 DEF UpgradeInv

\* No part of an upgrade is given twice: whatever calls of fulfilment overlap, wherever
\* they die and however often they are run again, a key holds no more data and no more
\* time than the trial and the upgrades that were begun add up to.
THEOREM NothingTwice == Spec => []NeverTwice
<1>1. UpgradeInv => NeverTwice
  BY DEF UpgradeInv
<1>2. QED BY <1>1, UpgradeInvInit, UpgradeInvStep, PTL DEF Spec

\* An upgrade that is marked fulfilled was given in full, both its parts, if it is the
\* only one of its key that was begun.
THEOREM InFull == Spec => []FulfilledInFull
<1>1. ASSUME UpgradeInv, NEW u \in Upgrades, Status(u, "fulfilled"), Begun = {u}
      PROVE  /\ "data" \in Parts[u] => key.limit = TrialData + Data[u]
             /\ "days" \in Parts[u] => key.expires = TrialDays + Days[u]
  <2>1. Parts[u] \subseteq upgrade[u].applied
    BY <1>1 DEF UpgradeInv, RowKeeps, Status
  <2>2. AloneGives(u)
    BY <1>1 DEF UpgradeInv
  <2>3. QED BY <1>1, <2>1, <2>2 DEF AloneGives, DataGiven, DaysGiven
<1>2. UpgradeInv => FulfilledInFull
  BY <1>1 DEF FulfilledInFull
<1>3. QED BY <1>2, UpgradeInvInit, UpgradeInvStep, PTL DEF Spec

-----------------------------------------------------------------------------
\* The refunds of the orders.  What is kept of an order: its upgrade is there, once a
\* refund is on its record it is not paid for again, and a credit is on its record.
Settled(o) == order[o].payment = "refunded" /\ order[o].status # "waiting_payment"

OrdersKeep ==
    \A o \in Upgrades :
        /\ order[o] # None => Exists(o)
        /\ record[o] # None => Exists(o) /\ Settled(o)
        /\ \A r \in Requests : <<r, o>> \in credited => o \in manual /\ record[o] = r

\* What a call of refund knows of its request, by its stage: the intent is written, the
\* way the money goes, and that the provider has executed it once it answered.
CallKnows(k) ==
    /\ call[k].stage \in {"crediting", "sending", "sent"} =>
         Refund!UsedFor(intents, call[k].request) # {}
    /\ call[k].stage = "crediting" => call[k].order \in manual
    /\ call[k].stage \in {"sending", "sent"} => call[k].order \notin manual
    /\ call[k].stage = "sent" => <<call[k].request, call[k].order>> \in sent

RefundInv ==
    /\ Refund!TypeOK
    /\ \A k \in Refunders : CallKnows(k)
    /\ OrdersKeep
    /\ RecordIsBacked

\* Nothing is taken from what was written, sent and credited.
Grows ==
    /\ intents \subseteq intents' /\ sent \subseteq sent' /\ credited \subseteq credited'
    /\ manual' = manual

LEMMA OthersKnow ==
    ASSUME NEW k \in Refunders, CallKnows(k), call'[k] = call[k], Grows
    PROVE  CallKnows(k)'
  BY DEF CallKnows, Grows, Refund!UsedFor

LEMMA RecordStays ==
    ASSUME RecordIsBacked, record' = record, Grows
    PROVE  RecordIsBacked'
<1>1. \A r : /\ Refund!UsedFor(intents, r) \subseteq Refund!UsedFor(intents', r)
             /\ Refund!UsedFor(sent, r) \subseteq Refund!UsedFor(sent', r)
             /\ Refund!UsedFor(credited, r) \subseteq Refund!UsedFor(credited', r)
  BY DEF Grows, Refund!UsedFor
<1>2. \A r : /\ Refund!UsedFor(intents, r)' = Refund!UsedFor(intents', r)
             /\ Refund!UsedFor(sent, r)' = Refund!UsedFor(sent', r)
             /\ Refund!UsedFor(credited, r)' = Refund!UsedFor(credited', r)
  BY DEF Refund!UsedFor
<1>3. QED BY <1>1, <1>2 DEF RecordIsBacked, Refund!RecordIsBacked, Grows

\* Writing the record of a request whose money went back, for an order without one.
LEMMA RecordBacked ==
    ASSUME RefundInv, NEW r \in Requests, NEW o \in Upgrades, record[o] = None,
           record' = [record EXCEPT ![o] = r], Grows,
           Refund!UsedFor(intents, r) # {},
           IF o \in manual
           THEN \E p \in manual \cap Refund!UsedFor(credited', r) : record'[p] = r
           ELSE <<r, o>> \in sent'
    PROVE  RecordIsBacked'
<1>1. record \in [Upgrades -> Requests \cup {None}]
  BY DEF RefundInv, Refund!TypeOK
<1>2. record'[o] = r /\ \A q \in Upgrades \ {o} : record'[q] = record[q]
  BY <1>1
<1>3. ASSUME NEW q \in Upgrades, record'[q] # None
      PROVE  /\ Refund!UsedFor(intents', record'[q]) # {}
             /\ IF q \in manual'
                THEN \E p \in manual' \cap Refund!UsedFor(credited', record'[q]) :
                       record'[p] = record'[q]
                ELSE q \in Refund!UsedFor(sent', record'[q])
  <2>1. CASE q = o
    BY <1>2, <2>1 DEF Grows, Refund!UsedFor
  <2>2. CASE q # o
    <3>1. /\ record'[q] = record[q] /\ Refund!UsedFor(intents, record[q]) # {}
          /\ IF q \in manual
             THEN \E p \in manual \cap Refund!UsedFor(credited, record[q]) :
                    record[p] = record[q]
             ELSE q \in Refund!UsedFor(sent, record[q])
      BY <1>2, <1>3, <2>2 DEF RefundInv, RecordIsBacked, Refund!RecordIsBacked
    <3>2. CASE q \in manual
      <4>1. PICK p \in manual \cap Refund!UsedFor(credited, record[q]) : record[p] = record[q]
        BY <3>1, <3>2
      <4>2. p \in Upgrades /\ p # o
        BY <1>2, <1>3, <3>1, <4>1 DEF Refund!UsedFor
      <4>3. record'[p] = record'[q] /\ p \in manual' \cap Refund!UsedFor(credited', record'[q])
        BY <1>2, <3>1, <4>1, <4>2 DEF Grows, Refund!UsedFor
      <4>4. QED BY <3>1, <3>2, <4>3 DEF Grows, Refund!UsedFor
    <3>3. CASE q \notin manual
      BY <3>1, <3>3 DEF Grows, Refund!UsedFor
    <3>4. QED BY <3>2, <3>3
  <2>3. QED BY <2>1, <2>2
<1>4. QED BY <1>3 DEF RecordIsBacked, Refund!RecordIsBacked

\* A step of the upgrades leaves a settled order settled.
LEMMA UpgradeLeavesOrders ==
    ASSUME Typed, OrdersKeep, UpgradeStep, UNCHANGED <<record, credited, manual>>
    PROVE  OrdersKeep'
<1>0. /\ upgrade \in [Upgrades -> UpgradeRow \cup {None}]
      /\ order \in [Upgrades -> OrderRow \cup {None}]
      /\ None \notin UpgradeRow
  BY MarkersAssumption DEF Typed, UpgradeTypeOK
<1>1. ASSUME NEW u \in Upgrades, Create(u)
      PROVE  OrdersKeep'
  <2>1. PICK row \in UpgradeRow : upgrade' = [upgrade EXCEPT ![u] = row]
    BY <1>1 DEF Create, UpgradeRow
  <2>2. ~Exists(u) /\ \A o \in Upgrades \ {u} : order'[o] = order[o]
    BY <1>0, <1>1 DEF Create
  <2>3. QED BY <1>0, <2>1, <2>2 DEF OrdersKeep, Exists, Settled
<1>2. ASSUME NEW u \in Upgrades, NEW w, GiveUp(u) \/ Pay(w, u)
      PROVE  OrdersKeep'
  <2>1. /\ Exists(u) /\ ~Settled(u) /\ upgrade' = upgrade
        /\ \A o \in Upgrades \ {u} : order'[o] = order[o]
    BY <1>0, <1>2 DEF GiveUp, Pay, Settled, upgradeVars
  <2>2. QED BY <2>1 DEF OrdersKeep, Exists, Settled
<1>3. ASSUME order' = order, \A o \in Upgrades : Exists(o) => Exists(o)'
      PROVE  OrdersKeep'
  BY <1>3 DEF OrdersKeep, Settled
<1>4. ASSUME (\E u \in Upgrades : \E w \in Recoverers : Recover(w, u))
               \/ Tick \/ Expire \/ ExpireUncleaned \/ ExpireLost
      PROVE  OrdersKeep'
  BY <1>3, <1>4 DEF Recover, Tick, Expire, ExpireUncleaned, ExpireLost, Exists
<1>5. ASSUME NEW w \in Fulfillers,
             \/ NothingToDo(w) \/ ApplyData(w) \/ DataFails(w) \/ DataLost(w)
             \/ ExtendKey(w) \/ ExtendRefused(w) \/ Abandon(w)
      PROVE  OrdersKeep'
  BY <1>3, <1>5 DEF NothingToDo, ApplyData, DataFails, DataLost, ExtendKey, ExtendRefused,
                    Abandon, Exists
<1>6. ASSUME NEW w \in Fulfillers,
             Begin(w) \/ MarkFailure(w) \/ \E part \in {"data", "days"} : Mark(w, part)
      PROVE  OrdersKeep'
  <2>1. order' = order
    BY <1>6 DEF Begin, MarkFailure, Mark
  <2>2. PICK u : \E row : upgrade' = [upgrade EXCEPT ![u] = row] /\ row # None
    <3>1. \/ Begin(w) /\ At(w, "begin")
          \/ At(w, "failed") \/ At(w, "data applied") \/ At(w, "days applied")
      <4>1. ASSUME Mark(w, "data") \/ Mark(w, "days")
            PROVE  At(w, "data applied") \/ At(w, "days applied")
        BY <4>1 DEF Mark, AppliedStage
      <4>2. QED BY <1>6, <4>1 DEF Begin, MarkFailure
    <3>2. ~At(w, Idle)
      BY <3>1, MarkersAssumption DEF At
    <3>3. PICK u \in Upgrades : u = work[w].upgrade
      BY <3>2, AtWork
    <3>4. upgrade[u] \in UpgradeRow
      <4>1. CASE Begin(w)
        BY <1>0, <3>3, <4>1 DEF Begin, PaymentOf, Exists
      <4>2. CASE ~At(w, "begin")
        BY <3>2, <3>3, <4>2, AtWork
      <4>3. QED BY <3>1, <4>1, <4>2 DEF At
    <3>5. CASE Begin(w)
      <4>1. upgrade' = [upgrade EXCEPT ![u] = [upgrade[u] EXCEPT
                          !.status = "fulfillment_pending", !.target = TargetOf(u)]]
        BY <1>0, <3>3, <3>5 DEF Begin
      <4>2. [upgrade[u] EXCEPT !.status = "fulfillment_pending",
                               !.target = TargetOf(u)].target = TargetOf(u)
        BY <3>4 DEF UpgradeRow
      <4>3. TargetOf(u) \in [data : Nat, days : Nat]
        BY <1>0, <3>4, TargetType DEF Exists
      <4>4. [upgrade[u] EXCEPT !.status = "fulfillment_pending",
                               !.target = TargetOf(u)] \in UpgradeRow
        BY <3>4, <4>3 DEF UpgradeRow
      <4>5. QED BY <1>0, <4>1, <4>4
    <3>6. CASE MarkFailure(w)
      <4>1. [upgrade[u] EXCEPT !.status = "fulfillment_pending"] \in UpgradeRow
        BY <3>4 DEF UpgradeRow
      <4>2. QED BY <1>0, <3>3, <3>6, <4>1 DEF MarkFailure
    <3>7. ASSUME NEW part \in {"data", "days"}, Mark(w, part)
          PROVE  \E row : upgrade' = [upgrade EXCEPT ![u] = row] /\ row # None
      <4>1. [upgrade[u] EXCEPT !.applied = @ \cup {part}] \in UpgradeRow
        BY <3>4 DEF UpgradeRow
      <4>2. QED BY <1>0, <3>3, <3>7, <4>1 DEF Mark
    <3>8. QED BY <1>6, <3>5, <3>6, <3>7
  <2>3. \A o \in Upgrades : Exists(o) => Exists(o)'
    BY <1>0, <2>2 DEF Exists
  <2>4. QED BY <1>3, <2>1, <2>3
<1>7. ASSUME NEW w \in Fulfillers, Complete(w)
      PROVE  OrdersKeep'
  <2>1. /\ ~At(w, Idle) /\ ~At(w, "begin")
    BY <1>7, MarkersAssumption DEF Complete, At
  <2>2. PICK u \in Upgrades : u = work[w].upgrade /\ upgrade[u] \in UpgradeRow /\ Exists(u)
    BY <1>0, <2>1, AtWork DEF Exists
  <2>3. order[u] \in OrderRow
    BY <2>2 DEF Typed
  <2>4. PICK line \in OrderRow : line = [order[u] EXCEPT !.status = "completed"]
    BY <2>3 DEF OrderRow
  <2>5. line.payment = order[u].payment /\ line.status = "completed"
    BY <2>3, <2>4 DEF OrderRow
  <2>6. PICK row \in UpgradeRow : row = [upgrade[u] EXCEPT !.status = "fulfilled"]
    BY <2>2 DEF UpgradeRow
  <2>7. /\ order' = [order EXCEPT ![u] = line]
        /\ upgrade' = [upgrade EXCEPT ![u] = row]
    BY <1>0, <1>7, <2>2, <2>4, <2>6 DEF Complete
  <2>8. /\ \A o \in Upgrades : Exists(o) => Exists(o)'
        /\ \A o \in Upgrades \ {u} : order'[o] = order[o]
        /\ order'[u] = line
    BY <1>0, <2>7 DEF Exists
  <2>9. Settled(u) => Settled(u)'
    BY <2>5, <2>8 DEF Settled
  <2>10. QED BY <2>2, <2>8, <2>9 DEF OrdersKeep, Settled
<1>8. QED
  BY <1>1, <1>2, <1>4, <1>5, <1>6, <1>7 DEF UpgradeStep, Fulfil

\* A call moves on, or ends, and nothing else changes but what it wrote.
LEMMA CallMoves ==
    ASSUME RefundInv, NEW k \in Refunders, call'[k].stage = Idle \/ CallKnows(k)',
           \A l \in Refunders \ {k} : call'[l] = call[l],
           Grows, Refund!TypeOK', OrdersKeep', RecordIsBacked'
    PROVE  RefundInv'
<1>1. CallKnows(k)'
  BY RefundAssumption DEF CallKnows
<1>2. ASSUME NEW l \in Refunders \ {k}
      PROVE  CallKnows(l)'
  BY OthersKnow DEF RefundInv
<1>3. QED BY <1>1, <1>2 DEF RefundInv

LEMMA KeyedIs ==
    ASSUME Refund!TypeOK, NEW k \in Refunders, call[k].request \in Requests,
           call[k].order \in Upgrades, NEW pairs \in {intents, sent, credited}
    PROVE  /\ Refund!Keyed(pairs, k) \subseteq Requests \X Upgrades
           /\ pairs \subseteq Refund!Keyed(pairs, k)
           /\ Refund!UsedFor(Refund!Keyed(pairs, k), call[k].request) # {}
<1>1. pairs \subseteq Requests \X Upgrades
  BY DEF Refund!TypeOK
<1>2. CASE Refund!UsedFor(pairs, call[k].request) = {}
  <2>1. Refund!Keyed(pairs, k) = pairs \cup {<<call[k].request, call[k].order>>}
    BY <1>2 DEF Refund!Keyed, Refund!Pair, Refund!Request, Refund!Target
  <2>2. call[k].order \in Refund!UsedFor(Refund!Keyed(pairs, k), call[k].request)
    BY <2>1 DEF Refund!UsedFor
  <2>3. QED BY <1>1, <2>1, <2>2
<1>3. CASE Refund!UsedFor(pairs, call[k].request) # {}
  <2>1. Refund!Keyed(pairs, k) = pairs
    BY <1>3 DEF Refund!Keyed, Refund!Request
  <2>2. QED BY <1>1, <1>3, <2>1
<1>4. QED BY <1>2, <1>3

LEMMA RefundMoves ==
    ASSUME RefundInv, Typed, Refund!Next, UNCHANGED upgradeVars
    PROVE  RefundInv'
<1> USE DEF Refund!At, Refund!Request, Refund!Target, Refund!Goes, Refund!Ends
<1>1. manual' = manual /\ \A o \in Upgrades : Exists(o)' <=> Exists(o)
  BY DEF Refund!Next, upgradeVars, Exists
<1>2. ASSUME UNCHANGED <<order, record, credited>>
      PROVE  OrdersKeep'
  BY <1>1, <1>2 DEF RefundInv, OrdersKeep, Settled
<1>3. ASSUME NEW k \in Refunders, call[k].stage # Idle
      PROVE  /\ call[k] \in [stage : {"checked", "crediting", "sending", "sent"},
                             request : Requests, order : Upgrades]
             /\ call[k].request \in Requests /\ call[k].order \in Upgrades
  BY <1>3 DEF RefundInv, Refund!TypeOK
<1>4. ASSUME NEW k \in Refunders, NEW r \in Requests, NEW o \in Upgrades, Refund!Ask(k, r, o)
      PROVE  RefundInv'
  <2>1. /\ call' = [call EXCEPT ![k] = [stage |-> "checked", request |-> r, order |-> o]]
        /\ UNCHANGED <<order, intents, sent, credited, record>>
    BY <1>4 DEF Refund!Ask
  <2>2. Refund!TypeOK'
    BY <1>1, <2>1 DEF RefundInv, Refund!TypeOK
  <2>3. CallKnows(k)' /\ \A l \in Refunders \ {k} : call'[l] = call[l]
    BY <2>1 DEF RefundInv, Refund!TypeOK, CallKnows
  <2>4. Grows
    BY <1>1, <2>1 DEF Grows
  <2>5. QED BY <1>2, <2>1, <2>2, <2>3, <2>4, RecordStays, CallMoves DEF RefundInv
<1>5. ASSUME NEW k \in Refunders, Refund!Enqueue(k)
      PROVE  RefundInv'
  <2>1. PICK stage \in {"crediting", "sending"} :
          /\ stage = IF call[k].order \in manual THEN "crediting" ELSE "sending"
          /\ call' = [call EXCEPT ![k].stage = stage]
    BY <1>5 DEF Refund!Enqueue
  <2>2. /\ call[k].stage = "checked" /\ intents' = Refund!Keyed(intents, k)
        /\ UNCHANGED <<order, sent, credited, record>>
    BY <1>5 DEF Refund!Enqueue
  <2>3. call[k].stage # Idle
    BY <2>2, RefundAssumption
  <2>4. /\ call' \in [Refunders -> [stage : {Idle}]
                       \cup [stage : {"checked", "crediting", "sending", "sent"},
                             request : Requests, order : Upgrades]]
        /\ call'[k].stage = stage /\ call'[k].request = call[k].request
        /\ call'[k].order = call[k].order
        /\ \A l \in Refunders \ {k} : call'[l] = call[l]
    BY <1>3, <2>1, <2>3 DEF RefundInv, Refund!TypeOK
  <2>5. /\ intents' \subseteq Requests \X Upgrades /\ intents \subseteq intents'
        /\ Refund!UsedFor(intents', call[k].request) # {}
    BY <1>3, <2>2, <2>3, KeyedIs DEF RefundInv
  <2>6. Refund!TypeOK'
    BY <1>1, <2>2, <2>4, <2>5 DEF RefundInv, Refund!TypeOK
  <2>7. CallKnows(k)'
    BY <1>1, <2>1, <2>4, <2>5 DEF CallKnows
  <2>8. Grows
    BY <1>1, <2>2, <2>5 DEF Grows
  <2>9. QED BY <1>2, <2>2, <2>4, <2>6, <2>7, <2>8, RecordStays, CallMoves DEF RefundInv
<1>6. ASSUME NEW k \in Refunders, Refund!Send(k)
      PROVE  RefundInv'
  <2>1. /\ call[k].stage = "sending"
        /\ sent' = sent \cup {<<call[k].request, call[k].order>>}
        /\ call' = [call EXCEPT ![k].stage = "sent"]
        /\ UNCHANGED <<order, intents, credited, record>>
    BY <1>6 DEF Refund!Send, Refund!Pair
  <2>2. call[k].stage # Idle
    BY <2>1, RefundAssumption
  <2>3. /\ call' \in [Refunders -> [stage : {Idle}]
                       \cup [stage : {"checked", "crediting", "sending", "sent"},
                             request : Requests, order : Upgrades]]
        /\ call'[k].stage = "sent" /\ call'[k].request = call[k].request
        /\ call'[k].order = call[k].order
        /\ \A l \in Refunders \ {k} : call'[l] = call[l]
    BY <1>3, <2>1, <2>2 DEF RefundInv, Refund!TypeOK
  <2>4. Refund!TypeOK'
    BY <1>1, <1>3, <2>1, <2>2, <2>3 DEF RefundInv, Refund!TypeOK
  <2>5. CallKnows(k)'
    <3>1. /\ Refund!UsedFor(intents, call[k].request) # {}
          /\ call[k].order \notin manual
      BY <2>1 DEF RefundInv, CallKnows
    <3>2. Refund!UsedFor(intents', call'[k].request) # {}
      BY <2>1, <2>3, <3>1
    <3>3. QED BY <1>1, <2>1, <2>3, <3>1, <3>2 DEF CallKnows
  <2>6. Grows
    BY <1>1, <2>1 DEF Grows
  <2>7. QED BY <1>2, <2>1, <2>3, <2>4, <2>5, <2>6, RecordStays, CallMoves DEF RefundInv
<1>7. ASSUME NEW k \in Refunders, Refund!SendFails(k) \/ Refund!Drop(k)
      PROVE  RefundInv'
  <2>1. /\ call[k].stage # Idle
        /\ sent' \in {sent, Refund!Keyed(sent, k)}
        /\ call' = [call EXCEPT ![k] = [stage |-> Idle]]
        /\ UNCHANGED <<order, intents, credited, record>>
    BY <1>7, RefundAssumption DEF Refund!SendFails, Refund!Drop
  <2>2. sent' \subseteq Requests \X Upgrades /\ sent \subseteq sent'
    BY <1>3, <2>1, KeyedIs DEF RefundInv, Refund!TypeOK
  <2>3. Refund!TypeOK'
    BY <1>1, <2>1, <2>2 DEF RefundInv, Refund!TypeOK
  <2>4. call'[k].stage = Idle /\ \A l \in Refunders \ {k} : call'[l] = call[l]
    BY <2>1 DEF RefundInv, Refund!TypeOK
  <2>5. Grows
    BY <1>1, <2>1, <2>2 DEF Grows
  <2>6. QED BY <1>2, <2>1, <2>3, <2>4, <2>5, RecordStays, CallMoves DEF RefundInv
<1>8. ASSUME NEW k \in Refunders, Refund!Credit(k) \/ Refund!Commit(k)
      PROVE  RefundInv'
  <2> DEFINE r == call[k].request
             o == call[k].order
  <2>1. /\ call[k].stage # Idle
        /\ call' = [call EXCEPT ![k] = [stage |-> Idle]]
        /\ UNCHANGED <<intents, sent>>
    BY <1>8, RefundAssumption DEF Refund!Credit, Refund!Commit
  <2>2. r \in Requests /\ o \in Upgrades
    BY <1>3, <2>1
  <2>3. call'[k].stage = Idle /\ \A l \in Refunders \ {k} : call'[l] = call[l]
    BY <2>1 DEF RefundInv, Refund!TypeOK
  <2>4. CASE UNCHANGED <<order, record, credited>>
    <3>1. Refund!TypeOK'
      BY <1>1, <2>1, <2>4 DEF RefundInv, Refund!TypeOK
    <3>2. Grows
      BY <1>1, <2>1, <2>4 DEF Grows
    <3>3. QED BY <1>2, <2>3, <2>4, <3>1, <3>2, RecordStays, CallMoves DEF RefundInv
  <2>5. CASE ~UNCHANGED <<order, record, credited>>
    <3>1. /\ Refund!Paid(o)
          /\ order' = [order EXCEPT ![o] = [status |-> "refunded", payment |-> "refunded"]]
          /\ record' = [record EXCEPT ![o] = r]
          /\ \/ call[k].stage = "crediting" /\ credited' = Refund!Keyed(credited, k)
             \/ call[k].stage = "sent" /\ credited' = credited
      BY <1>8, <2>5 DEF Refund!Credit, Refund!Commit, Refund!StillPaid, Refund!Recorded
    <3>2. record[o] = None /\ Exists(o)
      BY <2>2, <3>1 DEF RefundInv, OrdersKeep, Settled, Refund!Paid
    <3>3. /\ credited' \subseteq Requests \X Upgrades /\ credited \subseteq credited'
          /\ call[k].stage = "crediting" => Refund!UsedFor(credited', r) # {}
      BY <2>2, <3>1, KeyedIs DEF RefundInv, Refund!TypeOK
    <3>4. Grows
      BY <1>1, <2>1, <3>3 DEF Grows
    <3>5. /\ record' \in [Upgrades -> Requests \cup {None}]
          /\ record'[o] = r /\ \A q \in Upgrades \ {o} : record'[q] = record[q]
      BY <2>2, <3>1 DEF RefundInv, Refund!TypeOK
    <3>6. Refund!TypeOK'
      BY <1>1, <2>1, <3>3, <3>5 DEF RefundInv, Refund!TypeOK
    <3>7. OrdersKeep'
      <4>1. /\ order'[o] = [status |-> "refunded", payment |-> "refunded"]
            /\ \A q \in Upgrades \ {o} : order'[q] = order[q]
        BY <2>2, <3>1 DEF Typed, UpgradeTypeOK
      <4>2. [status |-> "refunded", payment |-> "refunded"] \in OrderRow
        BY DEF OrderRow
      <4>3. ASSUME NEW q \in Upgrades
            PROVE  /\ order'[q] # None => Exists(q)'
                   /\ record'[q] # None => Exists(q)' /\ Settled(q)'
        <5>1. CASE q = o
          <6>1. Exists(q)
            BY <3>2, <5>1
          <6>2. Exists(q)'
            BY <1>1, <6>1
          <6>3. order'[q] = [status |-> "refunded", payment |-> "refunded"]
            BY <4>1, <5>1
          <6>4. Settled(q)'
            BY <6>3 DEF Settled
          <6>5. QED BY <6>2, <6>4
        <5>2. CASE q # o
          <6>1. /\ order[q] # None => Exists(q)
                /\ record[q] # None => Exists(q) /\ Settled(q)
            BY DEF RefundInv, OrdersKeep
          <6>2. order'[q] = order[q] /\ record'[q] = record[q]
            BY <3>5, <4>1, <5>2
          <6>3. QED BY <1>1, <6>1, <6>2 DEF Settled
        <5>3. QED BY <5>1, <5>2
      <4>4. ASSUME NEW q \in Upgrades, NEW x \in Requests, <<x, q>> \in credited'
            PROVE  q \in manual' /\ record'[q] = x
        <5>1. CASE <<x, q>> \in credited
          <6>1. q \in Upgrades /\ q \in manual /\ record[q] = x
            BY <4>4, <5>1 DEF RefundInv, OrdersKeep
          <6>2. q # o
            BY <3>2, <4>4, <6>1, RefundAssumption
          <6>3. QED BY <1>1, <3>5, <6>1, <6>2
        <5>2. CASE <<x, q>> \notin credited
          <6>1. call[k].stage = "crediting" /\ x = r /\ q = o
            BY <3>1, <4>4, <5>2 DEF Refund!Keyed, Refund!Pair
          <6>2. o \in manual
            BY <6>1 DEF RefundInv, CallKnows
          <6>3. QED BY <1>1, <3>5, <6>1, <6>2
        <5>3. QED BY <5>1, <5>2
      <4>5. QED BY <4>3, <4>4 DEF OrdersKeep
    <3>8. RecordIsBacked'
      <4>1. Refund!UsedFor(intents, r) # {}
        BY <3>1 DEF RefundInv, CallKnows
      <4>2. CASE call[k].stage = "crediting"
        <5>1. o \in manual /\ credited' = Refund!Keyed(credited, k)
          BY <3>1, <4>2 DEF RefundInv, CallKnows
        <5>2. PICK p \in Upgrades : <<r, p>> \in credited' /\ (p = o \/ <<r, p>> \in credited)
          BY <2>2, <5>1 DEF Refund!Keyed, Refund!UsedFor, Refund!Pair
        <5>3. p \in manual /\ record'[p] = r
          BY <2>2, <3>2, <3>5, <5>1, <5>2 DEF RefundInv, OrdersKeep
        <5>4. QED BY <2>2, <3>1, <3>2, <3>4, <4>1, <5>1, <5>2, <5>3, RecordBacked DEF Refund!UsedFor
      <4>3. CASE call[k].stage = "sent"
        <5>1. o \notin manual /\ <<r, o>> \in sent'
          BY <2>1, <4>3 DEF RefundInv, CallKnows
        <5>2. QED BY <2>2, <3>1, <3>2, <3>4, <4>1, <5>1, RecordBacked
      <4>4. QED BY <3>1, <4>2, <4>3
    <3>9. QED BY <2>3, <3>4, <3>6, <3>7, <3>8, CallMoves
  <2>6. QED BY <2>4, <2>5
<1>9. QED
  BY <1>4, <1>5, <1>6, <1>7, <1>8 DEF Refund!Next

LEMMA RefundStep == RefundInv /\ Typed /\ [Next]_vars => RefundInv'
<1> SUFFICES ASSUME RefundInv, Typed, [Next]_vars
             PROVE  RefundInv'
    OBVIOUS
<1>1. ASSUME UNCHANGED refundVars, OrdersKeep'
      PROVE  RefundInv'
  <2>1. Refund!TypeOK' /\ Grows
    BY <1>1 DEF RefundInv, Refund!TypeOK, refundVars, Grows
  <2>2. \A k \in Refunders : CallKnows(k)'
    BY <1>1, <2>1, OthersKnow DEF RefundInv, refundVars
  <2>3. QED BY <1>1, <2>1, <2>2, RecordStays DEF RefundInv, refundVars
<1>2. CASE UNCHANGED vars
  <2>1. OrdersKeep'
    BY <1>2 DEF RefundInv, OrdersKeep, Settled, Exists, vars, upgradeVars, refundVars
  <2>2. QED BY <1>1, <1>2, <2>1 DEF vars
<1>3. CASE UpgradeStep /\ UNCHANGED refundVars
  BY <1>1, <1>3, UpgradeLeavesOrders DEF RefundInv, refundVars
<1>4. CASE Refund!Next /\ UNCHANGED upgradeVars
  BY <1>4, RefundMoves
<1>5. QED BY <1>2, <1>3, <1>4 DEF Next

LEMMA RefundInit == Init => RefundInv
<1>1. SUFFICES ASSUME Init
               PROVE  RefundInv
  OBVIOUS
<1>2. Refund!TypeOK /\ \A k \in Refunders : CallKnows(k)
  BY <1>1, RefundAssumption DEF Init, Refund!Init, Refund!TypeOK, CallKnows
<1>3. OrdersKeep /\ RecordIsBacked
  BY <1>1 DEF Init, Refund!Init, UpgradeInit, OrdersKeep, RecordIsBacked, Refund!RecordIsBacked
<1>4. QED BY <1>2, <1>3 DEF RefundInv

\* A refund stands on the record of an order only if its intent was written and money
\* went back for its request - by the provider for this order, to the wallet for this
\* order or for the manual order that used the request id first - however many calls
\* and retries overlap, wherever they die, and whatever fulfilment does to the order
\* meanwhile.
THEOREM RefundsAreBacked == Spec => []RecordIsBacked
<1>1. RefundInv => RecordIsBacked
  BY DEF RefundInv
<1>2. UpgradeInv => Typed
  BY DEF UpgradeInv
<1>3. QED BY <1>1, <1>2, RefundInit, RefundStep, UpgradeInvInit, UpgradeInvStep, PTL DEF Spec

\* The rows, the key, the server and the calls keep their types, and a request of refund
\* too.
THEOREM UpgradesTyped == Spec => []TypeOK
<1>1. UpgradeInv => UpgradeTypeOK
  BY DEF UpgradeInv, Typed
<1>2. /\ RefundInv => Refund!TypeOK
      /\ UpgradeInv => Typed
  BY DEF RefundInv, UpgradeInv
<1>3. QED BY <1>1, <1>2, RefundInit, RefundStep, UpgradeInvInit, UpgradeInvStep, PTL DEF Spec,
             TypeOK

-----------------------------------------------------------------------------
\* Free trials.

\* A claim that holds a use of its user's entitlement, and one that counts against
\* the quota of a server.
Spends(c) ==
    Claimed(c) /\ claim[c].source = "extra_entitlement" /\ claim[c].status # "cancelled"

Counts(c, s) ==
    /\ Held(c, {"pending", "committed"})
    /\ reservation[c].server = s /\ ~reservation[c].late

Cancelled(c) == ClaimIs(c, {"cancelled"})
UnderWay(c) == ClaimIs(c, {"provisioning"})

\* The claim and the reservation a call of provision_claim works on are there, ...
WorkFound ==
    \A p \in Provisioners : ~Busy(p, Idle) =>
        Claimed(provisioning[p].claim) /\ reservation[provisioning[p].claim] # None

\* ... and no other call takes the claim out of provisioning, if no two calls work on
\* one claim.
OneCallPerClaim ==
    \A p, q \in Provisioners :
        ~Busy(p, Idle) /\ ~Busy(q, Idle) /\ provisioning[p].claim = provisioning[q].claim => p = q

WorkAlone == \A p \in Provisioners : ~Busy(p, Idle) => UnderWay(provisioning[p].claim)

TrialInv == TrialTypeOK /\ WorkFound /\ QuotaHolds

AloneInv == TrialInv /\ WorkAlone /\ UsesAddUp

LEMMA Given ==
    /\ IsFiniteSet(Claims) /\ UserOf \in [Claims -> Users]
    /\ Quota \in [Servers -> Nat] /\ Uses \in [Users -> Nat] /\ NormalLimit \in Nat
    /\ None \notin ClaimRow /\ None \notin ReservationRow
    /\ Idle \notin {"saga", "finishing", "restoring"}
    /\ Limit \in Nat \ {0} /\ Idle \notin {"pressed", "confirmed", "over"}
<1>1. None \notin ClaimRow /\ None \notin ReservationRow
      /\ Idle \notin {"saga", "finishing", "restoring"}
  BY TrialMarkers
<1>2. Limit \in Nat \ {0} /\ Idle \notin {"pressed", "confirmed", "over"}
  BY EntryAssumption
<1>3. QED BY <1>1, <1>2, TrialAssumption

-----------------------------------------------------------------------------
\* What a step keeps of the claims, but for those of a set that may leave
\* provisioning ...
ClaimsKeep(leaving) ==
    /\ claim' \in [Claims -> ClaimRow \cup {None}]
    /\ \A c \in Claims :
         /\ Claimed(c) => Claimed(c)'
         /\ Spends(c)' <=> Spends(c)
         /\ Cancelled(c) => claim'[c] = claim[c]
         /\ c \notin leaving /\ UnderWay(c) => UnderWay(c)'

\* ... of the reservations, which count no more than before ...
ReservationsKeep ==
    /\ reservation' \in [Claims -> ReservationRow \cup {None}]
    /\ \A c \in Claims :
         /\ reservation[c] # None => reservation'[c] # None
         /\ \A s \in Servers : Counts(c, s)' => Counts(c, s)

\* ... and of the uses.
UsesKeep ==
    /\ entitlement' \in [Users -> [remaining : Nat, lapsed : BOOLEAN, forfeited : Nat,
                                   status : {"active", "redeemed", "expired"}]]
    /\ redeemed' = redeemed
    /\ \A u \in Users : /\ entitlement'[u].remaining = entitlement[u].remaining
                         /\ entitlement'[u].forfeited = entitlement[u].forfeited

LEMMA ClaimWritten ==
    ASSUME TrialInv, NEW c \in Claims, Claimed(c), ~Cancelled(c),
           NEW row \in ClaimRow, row.source = claim[c].source, row.status # "cancelled",
           claim' = [claim EXCEPT ![c] = row]
    PROVE  /\ ClaimsKeep({c})
           /\ row.status = "provisioning" => ClaimsKeep({}) /\ UnderWay(c)'
<1>1. claim \in [Claims -> ClaimRow \cup {None}] /\ row # None
  BY Given DEF TrialInv, TrialTypeOK
<1>2. claim'[c] = row /\ \A d \in Claims \ {c} : claim'[d] = claim[d]
  BY <1>1
<1>3. claim' \in [Claims -> ClaimRow \cup {None}]
  BY <1>1
<1>4. QED BY <1>1, <1>2, <1>3 DEF ClaimsKeep, Claimed, Spends, Cancelled, UnderWay, ClaimIs

\* A claim whose status is set.
LEMMA StatusWritten ==
    ASSUME TrialInv, NEW c \in Claims, Claimed(c), ~Cancelled(c),
           NEW status \in {"accepted", "server_reserved", "provisioning", "provisioned"},
           claim' = [claim EXCEPT ![c].status = status]
    PROVE  /\ ClaimsKeep({c})
           /\ status = "provisioning" => ClaimsKeep({}) /\ UnderWay(c)'
<1>1. claim[c] \in ClaimRow /\ claim \in [Claims -> ClaimRow \cup {None}]
  BY DEF TrialInv, TrialTypeOK, Claimed
<1>2. PICK row \in ClaimRow : row = [claim[c] EXCEPT !.status = status]
  BY <1>1 DEF ClaimRow
<1>3. row.source = claim[c].source /\ row.status = status /\ row.status # "cancelled"
  BY <1>1, <1>2 DEF ClaimRow
<1>4. claim' = [claim EXCEPT ![c] = row]
  BY <1>1, <1>2
<1>5. QED BY <1>3, <1>4, ClaimWritten

LEMMA ClaimsStay ==
    ASSUME TrialInv, claim' = claim
    PROVE  ClaimsKeep({})
  BY DEF ClaimsKeep, TrialInv, TrialTypeOK, Claimed, Spends, Cancelled, UnderWay, ClaimIs

LEMMA UnreservedKeeps ==
    ASSUME TrialInv, NEW C, claim' = Unreserved(C)
    PROVE  ClaimsKeep({})
<1>1. claim \in [Claims -> ClaimRow \cup {None}]
  BY DEF TrialInv, TrialTypeOK
<1>2. ASSUME NEW c \in Claims, claim'[c] # claim[c]
      PROVE  /\ claim[c] \in ClaimRow /\ claim[c].status = "server_reserved"
             /\ claim'[c] = [claim[c] EXCEPT !.status = "accepted"]
  BY <1>1, <1>2 DEF Unreserved, ClaimIs, Claimed
<1>3. ASSUME NEW c \in Claims, claim'[c] # claim[c]
      PROVE  /\ claim'[c] \in ClaimRow /\ claim'[c] # None
             /\ claim'[c].source = claim[c].source /\ claim'[c].status = "accepted"
  <2>1. claim'[c] \in ClaimRow /\ claim'[c].source = claim[c].source
        /\ claim'[c].status = "accepted"
    BY <1>2, <1>3 DEF ClaimRow
  <2>2. QED BY <2>1, Given DEF TrialInv
<1>4. claim' \in [Claims -> ClaimRow \cup {None}]
  <2>1. DOMAIN claim' = Claims /\ claim' = [c \in Claims |-> claim'[c]]
    BY DEF Unreserved
  <2>2. QED BY <1>1, <1>3, <2>1
<1>5. QED
  <2>1. ASSUME NEW c \in Claims
        PROVE  /\ Claimed(c) => Claimed(c)'
               /\ Spends(c)' <=> Spends(c)
               /\ Cancelled(c) => claim'[c] = claim[c]
               /\ UnderWay(c) => UnderWay(c)'
    <3>1. CASE claim'[c] = claim[c]
      BY <3>1 DEF Claimed, Spends, UnderWay, ClaimIs
    <3>2. CASE claim'[c] # claim[c]
      <4>1. Claimed(c) /\ Claimed(c)'
        BY <1>1, <1>2, <1>3, <3>2, Given DEF Claimed, TrialInv
      <4>2. QED BY <1>2, <1>3, <3>2, <4>1 DEF Claimed, Spends, Cancelled, UnderWay, ClaimIs
    <3>3. QED BY <3>1, <3>2
  <2>2. QED BY <1>4, <2>1 DEF ClaimsKeep

LEMMA ReservationsStay ==
    ASSUME TrialInv, reservation' = reservation
    PROVE  ReservationsKeep
  BY DEF ReservationsKeep, TrialInv, TrialTypeOK, Counts, Held

\* A reservation that is written counts only if it did.
LEMMA ReservationWritten ==
    ASSUME TrialInv, NEW c \in Claims, reservation[c] # None, NEW row \in ReservationRow,
           reservation' = [reservation EXCEPT ![c] = row],
           row.server = reservation[c].server,
           row.status \in {"pending", "committed"} /\ ~row.late =>
               reservation[c].status \in {"pending", "committed"} /\ ~reservation[c].late
    PROVE  ReservationsKeep
<1>1. reservation \in [Claims -> ReservationRow \cup {None}] /\ row # None
  BY Given DEF TrialInv, TrialTypeOK
<1>2. /\ reservation'[c] = row /\ \A d \in Claims \ {c} : reservation'[d] = reservation[d]
      /\ reservation' \in [Claims -> ReservationRow \cup {None}]
  BY <1>1
<1>3. QED BY <1>1, <1>2 DEF ReservationsKeep, Counts, Held

LEMMA ExpiredKeeps ==
    ASSUME TrialInv, reservation' = Expired
    PROVE  ReservationsKeep
<1>1. reservation \in [Claims -> ReservationRow \cup {None}]
  BY DEF TrialInv, TrialTypeOK
<1>2. ASSUME NEW c \in Claims, reservation'[c] # reservation[c]
      PROVE  /\ reservation'[c] \in ReservationRow /\ reservation'[c] # None
             /\ reservation'[c].status = "expired"
  <2>1. /\ reservation[c] \in ReservationRow
        /\ reservation'[c] = [reservation[c] EXCEPT !.status = "expired"]
    BY <1>1, <1>2 DEF Expired, Lapsed, Held
  <2>2. reservation'[c] \in ReservationRow /\ reservation'[c].status = "expired"
    BY <2>1 DEF ReservationRow
  <2>3. QED BY <2>2, Given DEF TrialInv
<1>3. reservation' \in [Claims -> ReservationRow \cup {None}]
  <2>1. reservation' = [c \in Claims |-> reservation'[c]]
    BY DEF Expired
  <2>2. QED BY <1>1, <1>2, <2>1
<1>4. QED BY <1>2, <1>3 DEF ReservationsKeep, Counts, Held

LEMMA UsesStay ==
    ASSUME TrialInv, UNCHANGED <<entitlement, redeemed>>
    PROVE  UsesKeep
  BY DEF UsesKeep, TrialInv, TrialTypeOK

\* The claims that count against the quota of a server.
Counted(s) == {c \in Claims : Counts(c, s)}

LEMMA CountedIs ==
    \A s : Counted(s) = {c \in Claims : /\ Held(c, {"pending", "committed"})
                                       /\ reservation[c].server = s
                                       /\ ~reservation[c].late}
<1>1. ASSUME NEW s, NEW c \in Claims
      PROVE  Counts(c, s) <=> /\ Held(c, {"pending", "committed"})
                              /\ reservation[c].server = s
                              /\ ~reservation[c].late
  BY DEF Counts
<1>2. QED BY <1>1 DEF Counted

LEMMA QuotaKept ==
    ASSUME TrialInv, ReservationsKeep
    PROVE  QuotaHolds'
<1> SUFFICES ASSUME NEW s \in Servers
             PROVE  Cardinality(Counted(s)') <= Quota[s]
    BY CountedIs DEF QuotaHolds, Counted, Counts
<1>1. IsFiniteSet(Counted(s))
  BY FS_Subset, Given DEF TrialInv, Counted
<1>2. Counted(s)' \subseteq Counted(s)
  BY DEF ReservationsKeep, Counted
<1>3. IsFiniteSet(Counted(s)') /\ Cardinality(Counted(s)') <= Cardinality(Counted(s))
  BY <1>1, <1>2, FS_Subset
<1>4. Cardinality(Counted(s)) <= Quota[s]
  BY CountedIs DEF TrialInv, QuotaHolds
<1>5. /\ Cardinality(Counted(s)) \in Nat
      /\ Cardinality(Counted(s)') \in Nat
      /\ Quota[s] \in Nat
  BY <1>1, <1>3, FS_CardinalityType, Given DEF TrialInv
<1>6. QED BY <1>3, <1>4, <1>5

\* The claims of a user that hold a use.
Holding(u) == {c \in Claims : UserOf[c] = u /\ Spends(c)}

LEMMA HoldingIs ==
    ASSUME NEW u \in Users
    PROVE  Holding(u) = {c \in Of(u, "extra_entitlement") : claim[c].status # "cancelled"}
  BY DEF Holding, Spends, Of

LEMMA HoldingCounts ==
    ASSUME NEW u
    PROVE  IsFiniteSet(Holding(u)) /\ Cardinality(Holding(u)) \in Nat
  BY FS_Subset, FS_CardinalityType, Given DEF Holding

LEMMA UsesKept ==
    ASSUME TrialInv, UsesAddUp, UsesKeep, \A c \in Claims : Spends(c)' <=> Spends(c)
    PROVE  UsesAddUp'
<1> SUFFICES ASSUME NEW u \in Users
             PROVE  entitlement'[u].remaining + entitlement'[u].forfeited + redeemed'[u]
                      + Cardinality(Holding(u)') = Uses[u]
    BY HoldingIs DEF UsesAddUp, Holding, Spends, Of
<1>1. Holding(u)' = Holding(u)
  BY DEF Holding
<1>2. entitlement[u].remaining + entitlement[u].forfeited + redeemed[u]
      + Cardinality(Holding(u)) = Uses[u]
  BY HoldingIs DEF UsesAddUp
<1>3. QED BY <1>1, <1>2 DEF UsesKeep

-----------------------------------------------------------------------------
\* The invariant that holds however calls overlap: types, what calls work on, and the
\* quota.
EntitlementRow == [remaining : Nat, lapsed : BOOLEAN, forfeited : Nat,
                   status : {"active", "redeemed", "expired"}]

WorkRow == [stage : {Idle}] \cup [stage : {"saga", "finishing", "restoring"}, claim : Claims]

ClaimsFound ==
    /\ claim' \in [Claims -> ClaimRow \cup {None}]
    /\ \A c \in Claims : Claimed(c) => Claimed(c)'

SagaTyped == saga' \in [Claims -> {"open", "made", "failed"}]

UsesTyped ==
    entitlement' \in [Users -> EntitlementRow] /\ redeemed' \in [Users -> Nat]

\* The calls go on as they were, but for one that ends or works on a claim that is there.
WorkMoves ==
    \/ UNCHANGED provisioning
    \/ \E p \in Provisioners, w \in WorkRow :
         /\ Proceeds(p, w)
         /\ w.stage # Idle => Claimed(w.claim) /\ reservation[w.claim] # None

LEMMA Typing ==
    ASSUME TrialInv
    PROVE  /\ claim \in [Claims -> ClaimRow \cup {None}]
           /\ reservation \in [Claims -> ReservationRow \cup {None}]
           /\ entitlement \in [Users -> EntitlementRow] /\ redeemed \in [Users -> Nat]
           /\ saga \in [Claims -> {"open", "made", "failed"}]
           /\ provisioning \in [Provisioners -> WorkRow]
           /\ \A c \in Claims : UserOf[c] \in Users
  BY Given DEF TrialInv, TrialTypeOK, EntitlementRow, WorkRow

LEMMA WorkAt ==
    ASSUME TrialInv, NEW p \in Provisioners, ~Busy(p, Idle)
    PROVE  /\ provisioning[p] \in [stage : {"saga", "finishing", "restoring"}, claim : Claims]
           /\ provisioning[p].claim \in Claims /\ Claimed(provisioning[p].claim)
           /\ reservation[provisioning[p].claim] # None
  BY Typing DEF WorkRow, Busy, TrialInv, WorkFound

LEMMA InvKept ==
    ASSUME TrialInv, ClaimsFound, ReservationsKeep, UsesTyped, SagaTyped, WorkMoves
    PROVE  TrialInv'
<1>1. /\ provisioning' \in [Provisioners -> WorkRow]
      /\ \A p \in Provisioners : provisioning'[p].stage # Idle =>
           provisioning'[p].claim \in Claims /\ Claimed(provisioning'[p].claim)
           /\ reservation[provisioning'[p].claim] # None
  <2>1. CASE UNCHANGED provisioning
    BY <2>1, Typing, WorkAt DEF Busy
  <2>2. ASSUME NEW p \in Provisioners, NEW w \in WorkRow, Proceeds(p, w),
               w.stage # Idle => Claimed(w.claim) /\ reservation[w.claim] # None
        PROVE  /\ provisioning' \in [Provisioners -> WorkRow]
               /\ \A q \in Provisioners : provisioning'[q].stage # Idle =>
                    /\ provisioning'[q].claim \in Claims /\ Claimed(provisioning'[q].claim)
                    /\ reservation[provisioning'[q].claim] # None
    <3>1. /\ provisioning' \in [Provisioners -> WorkRow]
          /\ provisioning'[p] = w
          /\ \A q \in Provisioners \ {p} : provisioning'[q] = provisioning[q]
      BY <2>2, Typing DEF Proceeds
    <3>2. w.stage # Idle => w.claim \in Claims
      BY DEF WorkRow
    <3>3. QED BY <2>2, <3>1, <3>2, WorkAt DEF Busy
  <2>3. QED BY <2>1, <2>2 DEF WorkMoves
<1>2. WorkFound'
  BY <1>1 DEF WorkFound, Busy, ClaimsFound, ReservationsKeep
<1>3. TrialTypeOK'
  BY <1>1 DEF TrialTypeOK, ClaimsFound, ReservationsKeep, UsesTyped, SagaTyped, EntitlementRow,
     WorkRow
<1>4. QED BY <1>2, <1>3, QuotaKept DEF TrialInv

\* What a step also keeps as long as no two calls work on one claim.
AloneKeeps ==
    /\ \A c \in Claims : Cancelled(c) => claim'[c] = claim[c]
    /\ AloneInv'

LEMMA FoundIfKept ==
    ASSUME NEW leaving, ClaimsKeep(leaving)
    PROVE  ClaimsFound
  BY DEF ClaimsKeep, ClaimsFound

LEMMA TypedIfKept ==
    ASSUME TrialInv, UsesKeep
    PROVE  UsesTyped
  BY Typing DEF UsesKeep, UsesTyped, EntitlementRow

\* A step of no call, or of one that ends: it may take its own claim out of provisioning.
LEMMA AloneKept ==
    ASSUME AloneInv, TrialInv', UsesAddUp', NEW leaving, ClaimsKeep(leaving),
           \A p \in Provisioners : ~Busy(p, Idle)' =>
               \/ UnderWay(provisioning[p].claim)'
               \/ /\ ~Busy(p, Idle) /\ provisioning'[p].claim = provisioning[p].claim
                  /\ provisioning[p].claim \notin leaving
    PROVE  AloneKeeps
<1>1. \A p \in Provisioners : ~Busy(p, Idle)
      => provisioning[p].claim \in Claims /\ UnderWay(provisioning[p].claim)
  BY WorkAt DEF AloneInv, WorkAlone
<1>2. WorkAlone'
  BY <1>1 DEF WorkAlone, ClaimsKeep
<1>3. QED BY <1>2 DEF AloneKeeps, AloneInv, ClaimsKeep

\* A step that moves no call and keeps claims and uses.
LEMMA NobodyMoves ==
    ASSUME TrialInv, ClaimsKeep({}), ReservationsKeep, UsesKeep, UNCHANGED <<saga, provisioning>>
    PROVE  TrialInv' /\ (AloneInv => AloneKeeps)
<1>1. TrialInv'
  BY FoundIfKept, TypedIfKept, InvKept, Typing DEF SagaTyped, WorkMoves
<1>2. ASSUME AloneInv PROVE AloneKeeps
  <2>1. UsesAddUp'
    BY <1>2, UsesKept DEF AloneInv, ClaimsKeep
  <2>2. \A p \in Provisioners : ~Busy(p, Idle)' =>
            ~Busy(p, Idle) /\ provisioning'[p].claim = provisioning[p].claim
            /\ provisioning[p].claim \notin {}
    BY DEF Busy
  <2>3. QED BY <1>1, <1>2, <2>1, <2>2, AloneKept
<1>3. QED BY <1>1, <1>2

\* A step of a call that keeps claims, and works on the claim it worked on or on none.
LEMMA OneMoves ==
    ASSUME TrialInv, ClaimsKeep({}), ReservationsKeep, UsesKeep, SagaTyped,
           NEW p \in Provisioners, NEW w \in WorkRow, Proceeds(p, w),
           w.stage # Idle => ~Busy(p, Idle) /\ w.claim = provisioning[p].claim
    PROVE  TrialInv' /\ (AloneInv => AloneKeeps)
<1>1. w.stage # Idle => Claimed(w.claim) /\ reservation[w.claim] # None
  BY WorkAt
<1>2. TrialInv'
  BY <1>1, FoundIfKept, TypedIfKept, InvKept DEF WorkMoves
<1>3. ASSUME AloneInv PROVE AloneKeeps
  <2>1. UsesAddUp'
    BY <1>3, UsesKept DEF AloneInv, ClaimsKeep
  <2>2. /\ provisioning'[p] = w
        /\ \A q \in Provisioners \ {p} : provisioning'[q] = provisioning[q]
    BY Typing DEF Proceeds
  <2>3. \A q \in Provisioners : ~Busy(q, Idle)' =>
            ~Busy(q, Idle) /\ provisioning'[q].claim = provisioning[q].claim
            /\ provisioning[q].claim \notin {}
    BY <2>2 DEF Busy
  <2>4. QED BY <1>2, <1>3, <2>1, <2>3, AloneKept
<1>4. QED BY <1>2, <1>3

\* A cancellation takes the use back that its claim held.
LEMMA CancelKeeps ==
    ASSUME TrialInv, NEW c \in Claims, Cancel(c)
    PROVE  TrialInv' /\ (AloneInv => AloneKeeps)
<1>1. /\ claim[c] \in ClaimRow /\ Claimed(c) /\ ~Cancelled(c) /\ ~UnderWay(c)
      /\ UserOf[c] \in Users
  BY Typing DEF Cancel, Cancellable, ClaimIs, Claimed, Cancelled, UnderWay
<1>2. PICK row \in ClaimRow : row = [claim[c] EXCEPT !.status = "cancelled"]
  BY <1>1 DEF ClaimRow
<1>3. row # None /\ row.status = "cancelled" /\ row.source = claim[c].source
  BY <1>1, <1>2, Given DEF TrialInv, ClaimRow
<1>4. /\ claim' = [claim EXCEPT ![c] = row]
      /\ UNCHANGED <<reservation, redeemed, saga, provisioning>>
      /\ entitlement' = Refunded(c)
  BY <1>1, <1>2, Typing DEF Cancel
<1>5. /\ claim' \in [Claims -> ClaimRow \cup {None}]
      /\ claim'[c] = row /\ \A d \in Claims \ {c} : claim'[d] = claim[d]
  BY <1>4, Typing
<1>6. ClaimsFound
  BY <1>3, <1>5 DEF ClaimsFound, Claimed
<1>7. PICK given \in Nat :
        /\ given = IF claim[c].source = "extra_entitlement" THEN 1 ELSE 0
        /\ entitlement' \in [Users -> EntitlementRow]
        /\ entitlement'[UserOf[c]].remaining = entitlement[UserOf[c]].remaining + given
        /\ entitlement'[UserOf[c]].forfeited = entitlement[UserOf[c]].forfeited
        /\ \A u \in Users \ {UserOf[c]} : entitlement'[u] = entitlement[u]
  <2>1. CASE claim[c].source = "extra_entitlement"
    <3>1. [entitlement[UserOf[c]] EXCEPT !.remaining = @ + 1] \in EntitlementRow
      BY <1>1, Typing DEF EntitlementRow
    <3>2. entitlement' = [entitlement EXCEPT ![UserOf[c]] =
                             [entitlement[UserOf[c]] EXCEPT !.remaining = @ + 1]]
      BY <1>4, <2>1 DEF Refunded
    <3>3. LET left == [entitlement[UserOf[c]] EXCEPT !.remaining = @ + 1] IN
            /\ left.remaining = entitlement[UserOf[c]].remaining + 1
            /\ left.forfeited = entitlement[UserOf[c]].forfeited
      BY <1>1, Typing DEF EntitlementRow
    <3>4. QED BY <1>1, <2>1, <3>1, <3>2, <3>3, Typing
  <2>2. CASE claim[c].source # "extra_entitlement"
    <3>1. entitlement' = entitlement
      BY <1>4, <2>2 DEF Refunded
    <3>2. entitlement[UserOf[c]].remaining \in Nat
      BY <1>1, Typing DEF EntitlementRow
    <3>3. QED BY <2>2, <3>1, <3>2, Typing
  <2>3. QED BY <2>1, <2>2
<1>8. TrialInv'
  BY <1>4, <1>6, <1>7, Typing, ReservationsStay, InvKept DEF UsesTyped, SagaTyped, WorkMoves
<1>9. ASSUME AloneInv PROVE AloneKeeps
  <2>1. \A d \in Claims : Spends(d)' <=> Spends(d) /\ d # c
    BY <1>3, <1>5 DEF Spends, Claimed
  <2>2. Spends(c) <=> claim[c].source = "extra_entitlement"
    BY <1>1 DEF Spends, Cancelled, ClaimIs
  <2>3. ASSUME NEW u \in Users
        PROVE  entitlement'[u].remaining + entitlement'[u].forfeited + redeemed'[u]
                 + Cardinality(Holding(u)') = Uses[u]
    <3>1. entitlement[u].remaining + entitlement[u].forfeited + redeemed[u]
          + Cardinality(Holding(u)) = Uses[u]
      BY <1>9, HoldingIs DEF AloneInv, UsesAddUp
    <3>2. /\ entitlement[u].remaining \in Nat /\ entitlement[u].forfeited \in Nat
          /\ redeemed[u] \in Nat
          /\ IsFiniteSet(Holding(u)) /\ Cardinality(Holding(u)) \in Nat
      BY Typing, HoldingCounts DEF EntitlementRow, TrialInv
    <3>3. CASE u = UserOf[c] /\ claim[c].source = "extra_entitlement"
      <4>1. Holding(u)' = Holding(u) \ {c} /\ c \in Holding(u)
        BY <2>1, <2>2, <3>3 DEF Holding
      <4>2. Cardinality(Holding(u)') = Cardinality(Holding(u)) - 1
        BY <3>2, <4>1, FS_RemoveElement
      <4>3. entitlement'[u].forfeited = entitlement[u].forfeited
        BY <1>7, <3>3
      <4>4. QED BY <1>4, <1>7, <3>1, <3>2, <3>3, <4>2, <4>3
    <3>4. CASE ~(u = UserOf[c] /\ claim[c].source = "extra_entitlement")
      <4>1. Holding(u)' = Holding(u)
        BY <2>1, <2>2, <3>4 DEF Holding
      <4>2. /\ entitlement'[u].remaining = entitlement[u].remaining
            /\ entitlement'[u].forfeited = entitlement[u].forfeited
        BY <1>7, <3>2, <3>4
      <4>3. QED BY <1>4, <3>1, <4>1, <4>2
    <3>5. QED BY <3>3, <3>4
  <2>4. UsesAddUp'
    BY <2>3, HoldingIs DEF UsesAddUp, Holding, Spends, Of
  <2>5. WorkAlone'
    <3>1. \A p \in Provisioners : ~Busy(p, Idle) =>
             /\ provisioning[p].claim \in Claims /\ provisioning[p].claim # c
                /\ UnderWay(provisioning[p].claim)
      BY <1>1, <1>9, WorkAt DEF AloneInv, WorkAlone
    <3>2. QED BY <1>4, <1>5, <3>1 DEF WorkAlone, Busy, UnderWay, ClaimIs, Claimed
  <2>6. \A d \in Claims : Cancelled(d) => claim'[d] = claim[d]
    BY <1>1, <1>5
  <2>7. QED BY <1>8, <2>4, <2>5, <2>6 DEF AloneKeeps, AloneInv
<1>10. QED BY <1>8, <1>9

\* A use that is redeemed outside of claims.
LEMMA ConsumeKeeps ==
    ASSUME TrialInv, NEW v \in Users, ConsumeUse(v)
    PROVE  TrialInv' /\ (AloneInv => AloneKeeps)
<1>1. /\ UNCHANGED <<claim, reservation, saga, provisioning>>
      /\ entitlement[v].remaining > 0 /\ entitlement[v] \in EntitlementRow
      /\ redeemed[v] \in Nat
  BY Typing DEF ConsumeUse, EntitlementUsable
<1>2. PICK row \in EntitlementRow :
        /\ row.remaining = entitlement[v].remaining - 1
        /\ row.forfeited = entitlement[v].forfeited
        /\ entitlement' = [entitlement EXCEPT ![v] = row]
  <2>1. PICK status \in {"active", "redeemed"} :
          status = IF entitlement[v].remaining = 1 THEN "redeemed" ELSE "active"
    OBVIOUS
  <2>2. PICK left \in Nat : left = entitlement[v].remaining - 1
    BY <1>1 DEF EntitlementRow
  <2>3. [entitlement[v] EXCEPT !.remaining = left, !.status = status] \in EntitlementRow
    BY <1>1 DEF EntitlementRow
  <2>4. LET spent == [entitlement[v] EXCEPT !.remaining = left, !.status = status] IN
          spent.remaining = left /\ spent.forfeited = entitlement[v].forfeited
    BY <1>1 DEF EntitlementRow
  <2>5. entitlement' = [entitlement EXCEPT ![v] =
                          [entitlement[v] EXCEPT !.remaining = left, !.status = status]]
    BY <2>1, <2>2, Typing DEF ConsumeUse
  <2>6. QED BY <2>2, <2>3, <2>4, <2>5
<1>3. redeemed' = [redeemed EXCEPT ![v] = redeemed[v] + 1]
  BY DEF ConsumeUse
<1>4. /\ entitlement' \in [Users -> EntitlementRow] /\ redeemed' \in [Users -> Nat]
      /\ entitlement'[v] = row /\ redeemed'[v] = redeemed[v] + 1
      /\ \A u \in Users \ {v} : entitlement'[u] = entitlement[u] /\ redeemed'[u] = redeemed[u]
  BY <1>1, <1>2, <1>3, Typing
<1>5. ClaimsKeep({}) /\ ReservationsKeep
  BY <1>1, ClaimsStay, ReservationsStay
<1>6. TrialInv'
  BY <1>1, <1>4, <1>5, FoundIfKept, InvKept, Typing DEF UsesTyped, SagaTyped, WorkMoves
<1>7. ASSUME AloneInv PROVE AloneKeeps
  <2>1. ASSUME NEW u \in Users
        PROVE  entitlement'[u].remaining + entitlement'[u].forfeited + redeemed'[u]
                 + Cardinality(Holding(u)') = Uses[u]
    <3>1. Holding(u)' = Holding(u)
      BY <1>1 DEF Holding, Spends, Claimed
    <3>2. /\ entitlement[u].remaining + entitlement[u].forfeited + redeemed[u]
             + Cardinality(Holding(u)) = Uses[u]
          /\ Cardinality(Holding(u)) \in Nat
          /\ entitlement[u].remaining \in Nat /\ entitlement[u].forfeited \in Nat
          /\ redeemed[u] \in Nat
      BY <1>7, HoldingIs, HoldingCounts, Typing DEF AloneInv, TrialInv, UsesAddUp, EntitlementRow
    <3>3. CASE u = v
      BY <1>2, <1>4, <3>1, <3>2, <3>3
    <3>4. CASE u # v
      BY <1>4, <3>1, <3>2, <3>4
    <3>5. QED BY <3>3, <3>4
  <2>2. UsesAddUp'
    BY <2>1, HoldingIs DEF UsesAddUp, Holding, Spends, Of
  <2>3. \A p \in Provisioners : ~Busy(p, Idle)' =>
            ~Busy(p, Idle) /\ provisioning'[p].claim = provisioning[p].claim
            /\ provisioning[p].claim \notin {}
    BY <1>1 DEF Busy
  <2>4. QED BY <1>5, <1>6, <1>7, <2>2, <2>3, AloneKept
<1>8. QED BY <1>6, <1>7

\* A reservation is made only while the quota has room for it.
LEMMA RouteKeeps ==
    ASSUME TrialInv, NEW c \in Claims, NEW s \in Servers, Route(c, s)
    PROVE  TrialInv' /\ (AloneInv => AloneKeeps)
<1>1. /\ Claimed(c) /\ ~Cancelled(c) /\ ~UnderWay(c) /\ reservation[c] = None
      /\ claim' = [claim EXCEPT ![c].status = "server_reserved"]
      /\ UNCHANGED <<entitlement, redeemed, saga, provisioning>>
  BY DEF Route, ClaimIs, Cancelled, UnderWay
<1>2. ClaimsKeep({c}) /\ UsesKeep
  BY <1>1, StatusWritten, UsesStay
<1>3. ClaimsKeep({})
  BY <1>1, <1>2 DEF ClaimsKeep
<1>4. PICK row \in ReservationRow : row.server = s /\ reservation' = [reservation EXCEPT ![c] = row]
  <2>1. [server |-> s, status |-> "pending", lapsed |-> FALSE, late |-> FALSE] \in ReservationRow
    BY DEF ReservationRow
  <2>2. QED BY <2>1 DEF Route
<1>5. /\ reservation' \in [Claims -> ReservationRow \cup {None}]
      /\ reservation'[c] = row /\ row # None
      /\ \A d \in Claims \ {c} : reservation'[d] = reservation[d]
  BY <1>4, Given, Typing DEF TrialInv
<1>6. \A t \in Servers \ {s} : \A d \in Claims : Counts(d, t)' => Counts(d, t)
  BY <1>4, <1>5 DEF Counts, Held
<1>7. \A d \in Claims \ {c} : Counts(d, s)' => d \in TakenOn(s)
  BY <1>5 DEF Counts, Held, TakenOn
<1>8. Cardinality(Counted(s)') <= Quota[s]
  <2>1. Counted(s)' \subseteq TakenOn(s) \cup {c} /\ c \notin TakenOn(s)
        /\ TakenOn(s) \subseteq Claims
    BY <1>1, <1>7 DEF Counted, TakenOn, Held
  <2>2. IsFiniteSet(TakenOn(s)) /\ Cardinality(TakenOn(s)) \in Nat
    BY <2>1, Given, FS_Subset, FS_CardinalityType DEF TrialInv
  <2>3. /\ IsFiniteSet(TakenOn(s) \cup {c})
        /\ Cardinality(TakenOn(s) \cup {c}) = Cardinality(TakenOn(s)) + 1
    BY <2>1, <2>2, FS_AddElement
  <2>4. /\ Cardinality(Counted(s)') <= Cardinality(TakenOn(s) \cup {c})
        /\ Cardinality(Counted(s)') \in Nat
    BY <2>1, <2>3, FS_Subset, FS_CardinalityType
  <2>5. Cardinality(TakenOn(s)) < Quota[s] /\ Quota[s] \in Nat
    BY Given DEF Route, TrialInv
  <2>6. QED BY <2>2, <2>3, <2>4, <2>5
<1>9. QuotaHolds'
  <2>1. ASSUME NEW t \in Servers
        PROVE  Cardinality(Counted(t)') <= Quota[t]
    <3>1. CASE t = s
      BY <1>8, <3>1
    <3>2. CASE t # s
      <4>1. Counted(t)' \subseteq Counted(t)
        BY <1>6, <3>2 DEF Counted
      <4>2. IsFiniteSet(Counted(t)) /\ Cardinality(Counted(t)) \in Nat
        BY Given, FS_Subset, FS_CardinalityType DEF TrialInv, Counted
      <4>3. Cardinality(Counted(t)') <= Cardinality(Counted(t)) /\ Cardinality(Counted(t)') \in Nat
        BY <4>1, <4>2, FS_Subset, FS_CardinalityType
      <4>4. Cardinality(Counted(t)) <= Quota[t] /\ Quota[t] \in Nat
        BY CountedIs, Given DEF TrialInv, QuotaHolds
      <4>5. QED BY <4>2, <4>3, <4>4
    <3>3. QED BY <3>1, <3>2
  <2>2. QED BY <2>1, CountedIs DEF QuotaHolds, Counted, Counts
<1>10. TrialInv'
  <2>1. TrialTypeOK'
    BY <1>1, <1>3, <1>5, Typing DEF TrialTypeOK, ClaimsKeep, EntitlementRow, WorkRow
  <2>2. WorkFound'
    BY <1>1, <1>3, <1>5, WorkAt DEF WorkFound, Busy, ClaimsKeep
  <2>3. QED BY <1>9, <2>1, <2>2 DEF TrialInv
<1>11. ASSUME AloneInv PROVE AloneKeeps
  <2>1. UsesAddUp'
    BY <1>2, <1>3, <1>11, UsesKept DEF AloneInv, ClaimsKeep
  <2>2. \A p \in Provisioners : ~Busy(p, Idle)' =>
            ~Busy(p, Idle) /\ provisioning'[p].claim = provisioning[p].claim
            /\ provisioning[p].claim \notin {}
    BY <1>1 DEF Busy
  <2>3. QED BY <1>3, <1>10, <1>11, <2>1, <2>2, AloneKept
<1>12. QED BY <1>10, <1>11

LEMMA LapseOfEntitlementKeeps ==
    ASSUME TrialInv, NEW v \in Users, EntitlementLapses(v) \/ ExpireEntitlement(v)
    PROVE  TrialInv' /\ (AloneInv => AloneKeeps)
<1>1. PICK row \in EntitlementRow :
        /\ row.remaining = entitlement[v].remaining
        /\ row.forfeited = entitlement[v].forfeited
        /\ entitlement' = [entitlement EXCEPT ![v] = row]
  <2>1. entitlement[v] \in EntitlementRow
    BY Typing
  <2>2. CASE EntitlementLapses(v)
    <3>1. [entitlement[v] EXCEPT !.lapsed = TRUE] \in EntitlementRow
      BY <2>1 DEF EntitlementRow
    <3>2. LET row == [entitlement[v] EXCEPT !.lapsed = TRUE] IN
            /\ row.remaining = entitlement[v].remaining
            /\ row.forfeited = entitlement[v].forfeited
      BY <2>1 DEF EntitlementRow
    <3>3. QED BY <2>2, <3>1, <3>2 DEF EntitlementLapses
  <2>3. CASE ExpireEntitlement(v)
    <3>1. [entitlement[v] EXCEPT !.status = "expired"] \in EntitlementRow
      BY <2>1 DEF EntitlementRow
    <3>2. LET row == [entitlement[v] EXCEPT !.status = "expired"] IN
            /\ row.remaining = entitlement[v].remaining
            /\ row.forfeited = entitlement[v].forfeited
      BY <2>1 DEF EntitlementRow
    <3>3. QED BY <2>3, <3>1, <3>2 DEF ExpireEntitlement
  <2>4. QED BY <2>2, <2>3
<1>2. UNCHANGED <<claim, reservation, redeemed, saga, provisioning>>
  BY DEF EntitlementLapses, ExpireEntitlement
<1>3. UsesKeep
  BY <1>1, <1>2, Typing DEF UsesKeep, EntitlementRow
<1>4. QED BY <1>2, <1>3, ClaimsStay, ReservationsStay, NobodyMoves

LEMMA ReleaseKeeps ==
    ASSUME TrialInv, NEW c \in Claims, Release(c)
    PROVE  TrialInv' /\ (AloneInv => AloneKeeps)
<1>1. /\ claim' = Unreserved({c}) /\ Held(c, {"pending"})
      /\ UNCHANGED <<entitlement, redeemed, saga, provisioning>>
  BY DEF Release
<1>2. reservation[c] \in ReservationRow
  BY <1>1, Typing DEF Held
<1>3. PICK row \in ReservationRow : row = [reservation[c] EXCEPT !.status = "released"]
  BY <1>2 DEF ReservationRow
<1>4. row.server = reservation[c].server /\ row.status = "released"
  BY <1>2, <1>3 DEF ReservationRow
<1>5. reservation' = [reservation EXCEPT ![c] = row]
  BY <1>3 DEF Release
<1>6. ReservationsKeep
  BY <1>1, <1>4, <1>5, ReservationWritten DEF Held
<1>7. QED BY <1>1, <1>6, UnreservedKeeps, UsesStay, NobodyMoves

LEMMA LapseKeeps ==
    ASSUME TrialInv, NEW c \in Claims, Lapse(c)
    PROVE  TrialInv' /\ (AloneInv => AloneKeeps)
<1>1. /\ Held(c, {"pending"})
      /\ UNCHANGED <<claim, entitlement, redeemed, saga, provisioning>>
  BY DEF Lapse
<1>2. reservation[c] \in ReservationRow
  BY <1>1, Typing DEF Held
<1>3. PICK row \in ReservationRow : row = [reservation[c] EXCEPT !.lapsed = TRUE]
  BY <1>2 DEF ReservationRow
<1>4. /\ row.server = reservation[c].server /\ row.status = reservation[c].status
      /\ row.late = reservation[c].late
  BY <1>2, <1>3 DEF ReservationRow
<1>5. reservation' = [reservation EXCEPT ![c] = row]
  BY <1>3 DEF Lapse
<1>6. ReservationsKeep
  BY <1>1, <1>4, <1>5, ReservationWritten DEF Held
<1>7. QED BY <1>1, <1>6, ClaimsStay, UsesStay, NobodyMoves

LEMMA SweepsKeep ==
    ASSUME TrialInv, ExpireTrials \/ ExpireReservations
    PROVE  TrialInv' /\ (AloneInv => AloneKeeps)
<1>1. reservation' = Expired /\ UNCHANGED <<entitlement, redeemed, saga, provisioning>>
  BY DEF ExpireTrials, ExpireReservations
<1>2. ClaimsKeep({})
  BY ClaimsStay, UnreservedKeeps DEF ExpireTrials, ExpireReservations
<1>3. QED BY <1>1, <1>2, ExpiredKeeps, UsesStay, NobodyMoves

LEMMA BeginKeeps ==
    ASSUME TrialInv, NEW p \in Provisioners, NEW c \in Claims, StartSaga(p, c)
    PROVE  TrialInv' /\ (AloneInv => AloneKeeps)
<1>1. /\ Claimed(c) /\ ~Cancelled(c) /\ reservation[c] # None
      /\ claim' = [claim EXCEPT ![c].status = "provisioning"]
      /\ UNCHANGED <<reservation, entitlement, redeemed, saga>>
  BY DEF StartSaga, ClaimIs, Cancelled, Held
<1>2. ClaimsKeep({}) /\ UnderWay(c)'
  BY <1>1, StatusWritten
<1>3. PICK w \in WorkRow : w = [stage |-> "saga", claim |-> c]
  BY DEF WorkRow
<1>4. Proceeds(p, w) /\ w.claim = c
  BY <1>3 DEF StartSaga
<1>5. TrialInv'
  BY <1>1, <1>2, <1>4, FoundIfKept, ReservationsStay, UsesStay, TypedIfKept, InvKept, Typing
     DEF SagaTyped, WorkMoves
<1>6. ASSUME AloneInv PROVE AloneKeeps
  <2>1. UsesAddUp'
    BY <1>1, <1>2, <1>6, UsesStay, UsesKept DEF AloneInv, ClaimsKeep
  <2>2. provisioning'[p].claim = c
        /\ \A q \in Provisioners \ {p} : provisioning'[q] = provisioning[q]
    BY <1>4, Typing DEF Proceeds
  <2>3. ASSUME NEW q \in Provisioners, ~Busy(q, Idle)'
        PROVE  \/ UnderWay(provisioning[q].claim)'
               \/ ~Busy(q, Idle) /\ provisioning'[q].claim = provisioning[q].claim
                  /\ provisioning[q].claim \notin {}
    <3>1. CASE q # p
      BY <2>2, <2>3, <3>1 DEF Busy
    <3>2. CASE q = p
      BY <1>2, <2>2, <3>2 DEF UnderWay, ClaimIs, Claimed
    <3>3. QED BY <3>1, <3>2
  <2>4. QED BY <1>2, <1>5, <1>6, <2>1, <2>3, AloneKept
<1>7. QED BY <1>5, <1>6

\* The saga's answer, and a call that dies.
LEMMA SagaKeeps ==
    ASSUME TrialInv, NEW p \in Provisioners, SagaSucceeds(p) \/ SagaFails(p) \/ BreakOff(p)
    PROVE  TrialInv' /\ (AloneInv => AloneKeeps)
<1>1. /\ ~Busy(p, Idle)
      /\ UNCHANGED <<claim, reservation, entitlement, redeemed>>
  <2>1. Idle # "saga"
    BY Given DEF TrialInv
  <2>2. QED BY <2>1 DEF SagaSucceeds, SagaFails, BreakOff, Busy
<1>2. SagaTyped
  <2>1. CASE SagaSucceeds(p)
    BY <2>1, Typing DEF SagaTyped, SagaSucceeds
  <2>2. CASE SagaFails(p)
    BY <2>2, Typing DEF SagaTyped, SagaFails
  <2>3. CASE BreakOff(p)
    BY <2>3, Typing DEF SagaTyped, BreakOff
  <2>4. QED BY <2>1, <2>2, <2>3
<1>3. PICK w \in WorkRow : Proceeds(p, w) /\ (w.stage # Idle => w.claim = provisioning[p].claim)
  <2>1. provisioning[p] \in [stage : {"saga", "finishing", "restoring"}, claim : Claims]
    BY <1>1, WorkAt
  <2>2. CASE BreakOff(p)
    <3>1. [stage |-> Idle] \in WorkRow
      BY DEF WorkRow
    <3>2. QED BY <2>2, <3>1 DEF BreakOff
  <2>3. CASE SagaSucceeds(p)
    <3>1. [provisioning[p] EXCEPT !.stage = "finishing"] \in WorkRow
      BY <2>1 DEF WorkRow
    <3>2. [provisioning[p] EXCEPT !.stage = "finishing"].claim = provisioning[p].claim
      BY <2>1
    <3>3. QED BY <2>3, <3>1, <3>2 DEF SagaSucceeds
  <2>4. CASE SagaFails(p)
    <3>1. [provisioning[p] EXCEPT !.stage = "restoring"] \in WorkRow
      BY <2>1 DEF WorkRow
    <3>2. [provisioning[p] EXCEPT !.stage = "restoring"].claim = provisioning[p].claim
      BY <2>1
    <3>3. QED BY <2>4, <3>1, <3>2 DEF SagaFails
  <2>5. QED BY <2>2, <2>3, <2>4
<1>4. QED BY <1>1, <1>2, <1>3, ClaimsStay, ReservationsStay, UsesStay, OneMoves

\* The call that is through with its claim: nobody else works on it, so that it may
\* leave provisioning.
LEMMA EndKeeps ==
    ASSUME TrialInv, TrialInv', NEW p \in Provisioners, ~Busy(p, Idle),
           ClaimsKeep({provisioning[p].claim}), UsesKeep, Proceeds(p, [stage |-> Idle]),
           AloneInv, OneCallPerClaim
    PROVE  AloneKeeps
<1>1. UsesAddUp'
  BY UsesKept DEF AloneInv, ClaimsKeep
<1>2. provisioning'[p] = [stage |-> Idle]
      /\ \A q \in Provisioners \ {p} : provisioning'[q] = provisioning[q]
  BY Typing DEF Proceeds
<1>3. ASSUME NEW q \in Provisioners, ~Busy(q, Idle)'
      PROVE  ~Busy(q, Idle) /\ provisioning'[q].claim = provisioning[q].claim
             /\ provisioning[q].claim \notin {provisioning[p].claim}
  <2>1. q # p
    BY <1>2, <1>3 DEF Busy
  <2>2. provisioning'[q] = provisioning[q] /\ ~Busy(q, Idle)
    BY <1>2, <1>3, <2>1 DEF Busy
  <2>3. QED BY <2>1, <2>2 DEF OneCallPerClaim
<1>4. QED BY <1>1, <1>3, AloneKept

LEMMA RestoreKeeps ==
    ASSUME TrialInv, NEW p \in Provisioners, Restore(p)
    PROVE  TrialInv' /\ (AloneInv /\ OneCallPerClaim => AloneKeeps)
<1>1. ~Busy(p, Idle) /\ UNCHANGED <<reservation, entitlement, redeemed, saga>>
  BY Given DEF Restore, Busy, TrialInv
<1>2. provisioning[p].claim \in Claims /\ Claimed(provisioning[p].claim)
  BY <1>1, WorkAt
<1>3. ClaimsKeep({provisioning[p].claim})
  <2>1. CASE UnderWay(provisioning[p].claim)
    <3>1. claim' = [claim EXCEPT ![provisioning[p].claim].status = "server_reserved"]
      BY <2>1 DEF Restore, UnderWay
    <3>2. ~Cancelled(provisioning[p].claim)
      BY <2>1 DEF UnderWay, Cancelled, ClaimIs
    <3>3. QED BY <1>2, <3>1, <3>2, StatusWritten
  <2>2. CASE ~UnderWay(provisioning[p].claim)
    <3>1. claim' = claim
      BY <2>2 DEF Restore, UnderWay
    <3>2. QED BY <3>1, ClaimsStay DEF ClaimsKeep
  <2>3. QED BY <2>1, <2>2
<1>4. PICK w \in WorkRow : w = [stage |-> Idle]
  BY DEF WorkRow
<1>5. Proceeds(p, w) /\ w.stage = Idle
  BY <1>4 DEF Restore
<1>6. TrialInv'
  BY <1>1, <1>3, <1>5, FoundIfKept, ReservationsStay, UsesStay, TypedIfKept, InvKept, Typing
     DEF SagaTyped, WorkMoves
<1>7. QED BY <1>1, <1>3, <1>4, <1>5, <1>6, UsesStay, EndKeeps

LEMMA FinalizeKeeps ==
    ASSUME TrialInv, NEW p \in Provisioners, Finalize(p)
    PROVE  TrialInv' /\ (AloneInv /\ OneCallPerClaim => AloneKeeps)
<1>1. ~Busy(p, Idle) /\ UNCHANGED <<entitlement, redeemed, saga>>
  BY Given DEF Finalize, Busy, TrialInv
<1>2. PICK c \in Claims : c = provisioning[p].claim
  BY <1>1, WorkAt
<1>3. /\ Claimed(c) /\ claim[c] \in ClaimRow
      /\ reservation[c] # None /\ reservation[c] \in ReservationRow
  BY <1>1, <1>2, WorkAt, Typing DEF Claimed
<1>4. PICK row \in ClaimRow : row = [claim[c] EXCEPT !.key = TRUE, !.status = "provisioned"]
  BY <1>3 DEF ClaimRow
<1>5. row.source = claim[c].source /\ row.status = "provisioned" /\ row # None
  BY <1>3, <1>4, Given DEF ClaimRow, TrialInv
<1>6. claim' = [claim EXCEPT ![c] = row]
  BY <1>2, <1>4, Typing DEF Finalize
<1>7. ReservationsKeep
  <2>1. PICK late \in BOOLEAN : late = (reservation[c].late \/ reservation[c].status # "pending")
    BY <1>3 DEF ReservationRow
  <2>2. PICK booked \in ReservationRow :
          booked = [reservation[c] EXCEPT !.status = "committed", !.late = late]
    BY <1>3 DEF ReservationRow
  <2>3. /\ booked.server = reservation[c].server
        /\ booked.late = late
    BY <1>3, <2>2 DEF ReservationRow
  <2>4. reservation' = [reservation EXCEPT ![c] = booked]
    BY <1>2, <2>1, <2>2, Typing DEF Finalize, Booked
  <2>5. ~booked.late => reservation[c].status \in {"pending", "committed"} /\ ~reservation[c].late
    BY <2>1, <2>3
  <2>6. QED BY <1>3, <2>3, <2>4, <2>5, ReservationWritten
<1>8. PICK w \in WorkRow : w = [stage |-> Idle]
  BY DEF WorkRow
<1>9. Proceeds(p, w) /\ w.stage = Idle
  BY <1>8 DEF Finalize
<1>10. ClaimsFound
  <2>1. /\ claim' \in [Claims -> ClaimRow \cup {None}]
        /\ claim'[c] = row /\ \A d \in Claims \ {c} : claim'[d] = claim[d]
    BY <1>6, Typing
  <2>2. QED BY <1>5, <2>1 DEF ClaimsFound, Claimed
<1>11. TrialInv'
  BY <1>1, <1>7, <1>9, <1>10, UsesStay, TypedIfKept, InvKept, Typing DEF SagaTyped, WorkMoves
<1>12. ASSUME AloneInv, OneCallPerClaim PROVE AloneKeeps
  <2>1. ~Cancelled(c)
    BY <1>1, <1>2, <1>12 DEF AloneInv, WorkAlone, UnderWay, Cancelled, ClaimIs
  <2>2. ClaimsKeep({c})
    BY <1>3, <1>5, <1>6, <2>1, ClaimWritten
  <2>3. QED BY <1>1, <1>2, <1>8, <1>9, <1>11, <1>12, <2>2, UsesStay, EndKeeps
<1>13. QED BY <1>11, <1>12

\* A claim that is accepted takes no use, or the use it pays with.
LEMMA AcceptedWrites ==
    ASSUME TrialInv, NEW c \in Claims, ~Claimed(c),
           NEW source \in {"daily_free", "extra_entitlement"}, Accepted(c, source)
    PROVE  /\ claim' \in [Claims -> ClaimRow \cup {None}] /\ ClaimsFound
           /\ claim'[c].source = source /\ claim'[c].status = "accepted" /\ Claimed(c)'
           /\ \A d \in Claims \ {c} : claim'[d] = claim[d]
<1>1. PICK row \in ClaimRow : row = [status |-> "accepted", source |-> source, key |-> FALSE]
  BY DEF ClaimRow
<1>2. row.source = source /\ row.status = "accepted" /\ row # None
  BY <1>1, Given DEF TrialInv
<1>3. claim' = [claim EXCEPT ![c] = row]
  BY <1>1 DEF Accepted
<1>4. /\ claim' \in [Claims -> ClaimRow \cup {None}] /\ claim'[c] = row
      /\ \A d \in Claims \ {c} : claim'[d] = claim[d]
  BY <1>3, Typing
<1>5. QED BY <1>2, <1>4 DEF Claimed, ClaimsFound

LEMMA AcceptDailyKeeps ==
    ASSUME TrialInv, NEW c \in Claims, AcceptDaily(c)
    PROVE  TrialInv' /\ (AloneInv => AloneKeeps)
<1>1. /\ ~Claimed(c) /\ Accepted(c, "daily_free")
      /\ UNCHANGED <<reservation, entitlement, redeemed, saga, provisioning>>
  BY DEF AcceptDaily, WithinAllowance
<1>2. ClaimsKeep({})
  BY <1>1, AcceptedWrites DEF ClaimsKeep, ClaimsFound, Claimed, Spends, Cancelled, UnderWay, ClaimIs
<1>3. QED BY <1>1, <1>2, ReservationsStay, UsesStay, NobodyMoves

LEMMA AcceptExtraKeeps ==
    ASSUME TrialInv, NEW c \in Claims, AcceptExtra(c)
    PROVE  TrialInv' /\ (AloneInv => AloneKeeps)
<1>1. /\ ~Claimed(c) /\ Accepted(c, "extra_entitlement") /\ EntitlementUsable(UserOf[c])
      /\ UNCHANGED <<reservation, redeemed, saga, provisioning>>
  BY DEF AcceptExtra, WithEntitlement, TakesUse
<1>2. PICK v \in Users : v = UserOf[c]
  BY Typing
<1>3. PICK left \in Nat : left = entitlement[v].remaining - 1
  BY <1>1, <1>2, Typing DEF EntitlementUsable, EntitlementRow
<1>4. PICK row \in EntitlementRow : row = [entitlement[v] EXCEPT !.remaining = left]
  BY Typing DEF EntitlementRow
<1>5. row.remaining = left /\ row.forfeited = entitlement[v].forfeited
  BY <1>4, Typing DEF EntitlementRow
<1>6. entitlement' = [entitlement EXCEPT ![v] = row]
  BY <1>2, <1>3, <1>4, Typing DEF AcceptExtra
<1>7. /\ entitlement' \in [Users -> EntitlementRow] /\ entitlement'[v] = row
      /\ \A u \in Users \ {v} : entitlement'[u] = entitlement[u]
  BY <1>6, Typing
<1>8. /\ ClaimsFound /\ Claimed(c)'
      /\ claim'[c].source = "extra_entitlement" /\ claim'[c].status = "accepted"
      /\ \A d \in Claims \ {c} : claim'[d] = claim[d]
  BY <1>1, AcceptedWrites
<1>9. TrialInv'
  BY <1>1, <1>7, <1>8, ReservationsStay, InvKept, Typing DEF UsesTyped, SagaTyped, WorkMoves
<1>10. ASSUME AloneInv PROVE AloneKeeps
  <2>1. \A d \in Claims : Spends(d)' <=> Spends(d) \/ d = c
    BY <1>8 DEF Spends, Claimed
  <2>2. ASSUME NEW u \in Users
        PROVE  entitlement'[u].remaining + entitlement'[u].forfeited + redeemed'[u]
                 + Cardinality(Holding(u)') = Uses[u]
    <3>1. entitlement[u].remaining + entitlement[u].forfeited + redeemed[u]
          + Cardinality(Holding(u)) = Uses[u]
      BY <1>10, HoldingIs DEF AloneInv, UsesAddUp
    <3>2. /\ entitlement[u].remaining \in Nat /\ entitlement[u].forfeited \in Nat
          /\ redeemed[u] \in Nat
          /\ IsFiniteSet(Holding(u)) /\ Cardinality(Holding(u)) \in Nat
      BY Typing, HoldingCounts DEF EntitlementRow, TrialInv
    <3>3. CASE u = v
      <4>1. Holding(u)' = Holding(u) \cup {c} /\ c \notin Holding(u)
        BY <1>1, <1>2, <2>1, <3>3 DEF Holding, Spends
      <4>2. Cardinality(Holding(u)') = Cardinality(Holding(u)) + 1
        BY <3>2, <4>1, FS_AddElement
      <4>3. /\ entitlement'[u].remaining = entitlement[u].remaining - 1
            /\ entitlement'[u].forfeited = entitlement[u].forfeited
        BY <1>3, <1>5, <1>7, <3>3
      <4>4. redeemed'[u] = redeemed[u]
        BY <1>1
      <4>5. QED BY <3>1, <3>2, <4>2, <4>3, <4>4
    <3>4. CASE u # v
      <4>1. Holding(u)' = Holding(u)
        BY <1>2, <2>1, <3>4 DEF Holding
      <4>2. /\ entitlement'[u].remaining = entitlement[u].remaining
            /\ entitlement'[u].forfeited = entitlement[u].forfeited
        BY <1>7, <3>4
      <4>3. QED BY <1>1, <3>1, <4>1, <4>2
    <3>5. QED BY <3>3, <3>4
  <2>3. UsesAddUp'
    BY <2>2, HoldingIs DEF UsesAddUp, Holding, Spends, Of
  <2>4. WorkAlone'
    <3>1. \A p \in Provisioners : ~Busy(p, Idle) =>
             /\ provisioning[p].claim \in Claims /\ provisioning[p].claim # c
                /\ UnderWay(provisioning[p].claim)
      BY <1>1, <1>10, WorkAt DEF AloneInv, WorkAlone
    <3>2. QED BY <1>1, <1>8, <3>1 DEF WorkAlone, Busy, UnderWay, ClaimIs, Claimed
  <2>5. \A d \in Claims : Cancelled(d) => claim'[d] = claim[d]
    BY <1>1, <1>8 DEF Cancelled, ClaimIs
  <2>6. QED BY <1>9, <2>3, <2>4, <2>5 DEF AloneKeeps, AloneInv
<1>11. QED BY <1>9, <1>10

\* A use that is taken for a claim the policy then refuses is forfeited.
LEMMA AcceptInvalidKeeps ==
    ASSUME TrialInv, NEW c \in Claims, AcceptInvalid(c)
    PROVE  TrialInv' /\ (AloneInv => AloneKeeps)
<1>1. /\ UNCHANGED <<claim, reservation, redeemed, saga, provisioning>>
      /\ EntitlementUsable(UserOf[c])
  BY DEF AcceptInvalid, TakesUse
<1>2. PICK v \in Users : v = UserOf[c]
  BY Typing
<1>3. entitlement[v] \in EntitlementRow /\ entitlement[v].remaining > 0
  BY <1>1, <1>2, Typing DEF EntitlementUsable
<1>4. PICK left \in Nat, gone \in Nat :
        left = entitlement[v].remaining - 1 /\ gone = entitlement[v].forfeited + 1
  <2>1. entitlement[v].remaining \in Nat /\ entitlement[v].forfeited \in Nat
    BY <1>3 DEF EntitlementRow
  <2>2. entitlement[v].remaining - 1 \in Nat /\ entitlement[v].forfeited + 1 \in Nat
    BY <1>3, <2>1
  <2>3. QED BY <2>2
<1>5. PICK row \in EntitlementRow :
        row = [entitlement[v] EXCEPT !.remaining = left, !.forfeited = gone]
  BY <1>3 DEF EntitlementRow
<1>6. row.remaining = left /\ row.forfeited = gone
  BY <1>3, <1>5 DEF EntitlementRow
<1>7. entitlement' = [entitlement EXCEPT ![v] = row]
  BY <1>2, <1>3, <1>4, <1>5, Typing DEF AcceptInvalid, EntitlementRow
<1>8. /\ entitlement' \in [Users -> EntitlementRow] /\ entitlement'[v] = row
      /\ \A u \in Users \ {v} : entitlement'[u] = entitlement[u]
  BY <1>7, Typing
<1>9. ClaimsKeep({}) /\ ReservationsKeep
  BY <1>1, ClaimsStay, ReservationsStay
<1>10. TrialInv'
  BY <1>1, <1>8, <1>9, FoundIfKept, InvKept, Typing DEF UsesTyped, SagaTyped, WorkMoves
<1>11. ASSUME AloneInv PROVE AloneKeeps
  <2>1. ASSUME NEW u \in Users
        PROVE  entitlement'[u].remaining + entitlement'[u].forfeited + redeemed'[u]
                 + Cardinality(Holding(u)') = Uses[u]
    <3>1. Holding(u)' = Holding(u)
      BY <1>1 DEF Holding, Spends, Claimed
    <3>2. /\ entitlement[u].remaining + entitlement[u].forfeited + redeemed[u]
               + Cardinality(Holding(u)) = Uses[u]
          /\ Cardinality(Holding(u)) \in Nat
          /\ entitlement[u].remaining \in Nat /\ entitlement[u].forfeited \in Nat
          /\ redeemed[u] \in Nat
      BY <1>11, HoldingIs, HoldingCounts, Typing DEF AloneInv, TrialInv, UsesAddUp, EntitlementRow
    <3>3. CASE u = v
      BY <1>1, <1>4, <1>6, <1>8, <3>1, <3>2, <3>3
    <3>4. CASE u # v
      BY <1>1, <1>8, <3>1, <3>2, <3>4
    <3>5. QED BY <3>3, <3>4
  <2>2. UsesAddUp'
    BY <2>1, HoldingIs DEF UsesAddUp, Holding, Spends, Of
  <2>3. \A p \in Provisioners : ~Busy(p, Idle)' =>
            ~Busy(p, Idle) /\ provisioning'[p].claim = provisioning[p].claim
            /\ provisioning[p].claim \notin {}
    BY <1>1 DEF Busy
  <2>4. QED BY <1>9, <1>10, <1>11, <2>2, <2>3, AloneKept
<1>12. QED BY <1>10, <1>11

LEMMA StillKeeps ==
    ASSUME TrialInv, UNCHANGED trialVars
    PROVE  TrialInv' /\ (AloneInv => AloneKeeps)
  BY ClaimsStay, ReservationsStay, UsesStay, NobodyMoves DEF trialVars

LEMMA TrialKeeps ==
    ASSUME TrialInv, TrialStep
    PROVE  TrialInv' /\ (AloneInv /\ OneCallPerClaim => AloneKeeps)
<1>1. CASE \E c \in Claims :
              \/ Cancel(c) \/ Release(c) \/ Lapse(c)
              \/ \E s \in Servers : Route(c, s)
              \/ \E p \in Provisioners : StartSaga(p, c)
  BY <1>1, CancelKeeps, ReleaseKeeps, LapseKeeps, RouteKeeps, BeginKeeps
<1>2. CASE \E u \in Users : ConsumeUse(u) \/ EntitlementLapses(u) \/ ExpireEntitlement(u)
  BY <1>2, ConsumeKeeps, LapseOfEntitlementKeeps
<1>3. CASE ExpireTrials \/ ExpireReservations
  BY <1>3, SweepsKeep
<1>4. CASE \E p \in Provisioners :
              SagaSucceeds(p) \/ SagaFails(p) \/ Restore(p) \/ Finalize(p) \/ BreakOff(p)
  BY <1>4, SagaKeeps, RestoreKeeps, FinalizeKeeps
<1>5. QED BY <1>1, <1>2, <1>3, <1>4 DEF TrialStep

LEMMA TrialStart ==
    ASSUME TrialInit
    PROVE  AloneInv
<1>1. TrialTypeOK
  <2>1. [p \in Provisioners |-> [stage |-> Idle]] \in [Provisioners -> [stage : {Idle}]]
    OBVIOUS
  <2>2. \A u \in Users : Uses[u] \in Nat
    BY Given
  <2>3. QED BY <2>1, <2>2 DEF TrialInit, TrialTypeOK
<1>2. WorkFound /\ WorkAlone
  BY DEF TrialInit, WorkFound, WorkAlone, Busy
<1>3. \A s \in Servers : Counted(s) = {}
  BY DEF TrialInit, Counted, Counts, Held
<1>4. QuotaHolds
  <2>1. ASSUME NEW s \in Servers
        PROVE  Cardinality(Counted(s)) <= Quota[s]
    <3>1. Cardinality(Counted(s)) = 0
      BY <1>3, FS_EmptySet
    <3>2. Quota[s] \in Nat
      BY Given
    <3>3. QED BY <3>1, <3>2
  <2>2. QED BY <2>1, CountedIs DEF QuotaHolds
<1>5. \A u \in Users : Holding(u) = {}
  BY DEF TrialInit, Holding, Spends, Claimed
<1>6. UsesAddUp
  <2>1. ASSUME NEW u \in Users
        PROVE  entitlement[u].remaining + entitlement[u].forfeited + redeemed[u]
                 + Cardinality(Holding(u)) = Uses[u]
    <3>1. Cardinality(Holding(u)) = 0
      BY <1>5, FS_EmptySet
    <3>2. /\ entitlement[u].remaining = Uses[u] /\ entitlement[u].forfeited = 0
          /\ redeemed[u] = 0 /\ Uses[u] \in Nat
      BY Given DEF TrialInit
    <3>3. QED BY <3>1, <3>2
  <2>2. QED BY <2>1, HoldingIs DEF UsesAddUp
<1>7. QED BY <1>1, <1>2, <1>4, <1>6 DEF AloneInv, TrialInv

\* What is not a claim becomes one only through a press.
LEMMA NothingAccepted ==
    ASSUME TrialInv, TrialStep, NEW c \in Claims, ~Claimed(c)
    PROVE  ~Claimed(c)'
<1>1. CASE \E d \in Claims :
              \/ Cancel(d) \/ Release(d) \/ Lapse(d)
              \/ \E s \in Servers : Route(d, s)
              \/ \E p \in Provisioners : StartSaga(p, d)
  <2>1. PICK d \in Claims :
              \/ Cancel(d) \/ Release(d) \/ Lapse(d)
              \/ \E s \in Servers : Route(d, s)
              \/ \E p \in Provisioners : StartSaga(p, d)
    BY <1>1
  <2>2. CASE Cancel(d)
    BY <2>2, Typing DEF Cancel, Cancellable, ClaimIs, Claimed
  <2>3. CASE Release(d) \/ Lapse(d)
    BY <2>3, Typing DEF Release, Lapse, Unreserved, ClaimIs, Claimed
  <2>4. CASE \E s \in Servers : Route(d, s)
    BY <2>4, Typing DEF Route, ClaimIs, Claimed
  <2>5. CASE \E p \in Provisioners : StartSaga(p, d)
    BY <2>5, Typing DEF StartSaga, ClaimIs, Claimed
  <2>6. QED BY <2>1, <2>2, <2>3, <2>4, <2>5
<1>2. CASE \E u \in Users : ConsumeUse(u) \/ EntitlementLapses(u) \/ ExpireEntitlement(u)
  BY <1>2 DEF ConsumeUse, EntitlementLapses, ExpireEntitlement, Claimed
<1>3. CASE ExpireTrials \/ ExpireReservations
  BY <1>3 DEF ExpireTrials, ExpireReservations, Unreserved, ClaimIs, Claimed
<1>4. CASE \E p \in Provisioners :
              SagaSucceeds(p) \/ SagaFails(p) \/ Restore(p) \/ Finalize(p) \/ BreakOff(p)
  <2>1. PICK p \in Provisioners :
              SagaSucceeds(p) \/ SagaFails(p) \/ Restore(p) \/ Finalize(p) \/ BreakOff(p)
    BY <1>4
  <2>2. CASE SagaSucceeds(p) \/ SagaFails(p) \/ BreakOff(p)
    BY <2>2 DEF SagaSucceeds, SagaFails, BreakOff, Claimed
  <2>3. CASE Restore(p)
    BY <2>3, Typing DEF Restore, ClaimIs, Claimed
  <2>4. CASE Finalize(p)
    <3>1. Claimed(provisioning[p].claim) /\ provisioning[p].claim \in Claims
      BY <2>4, WorkAt, Given DEF Finalize, Busy, TrialInv
    <3>2. provisioning[p].claim # c
      BY <3>1
    <3>3. claim'[c] = claim[c]
      BY <2>4, <3>1, <3>2, Typing DEF Finalize
    <3>4. QED BY <3>3 DEF Claimed
  <2>5. QED BY <2>1, <2>2, <2>3, <2>4
<1>5. QED BY <1>1, <1>2, <1>3, <1>4 DEF TrialStep

-----------------------------------------------------------------------------
\* The button.  A press that was confirmed, or has become a claim, has a reference that
\* is used up, and no two of them have the same.
Served(c) == Pressing(c, "confirmed") \/ Claimed(c)

PressRow == [stage : {Idle}] \cup [stage : {"pressed", "confirmed", "over"}, ref : Refs]

ButtonTyped ==
    /\ ref \in [Refs -> {"new", "open", "lapsed", "consumed", "void"}]
    /\ rate \in [Users -> [count : 0..Limit, over : BOOLEAN]]
    /\ press \in [Claims -> PressRow]

ReferencesApart ==
    \A c \in Claims : Served(c) =>
        /\ Claimed(c) => Pressing(c, "over")
        /\ ref[press[c].ref] = "consumed"
        /\ \A d \in Claims \ {c} : Served(d) => press[d].ref # press[c].ref

EntryInv == TrialInv /\ ButtonTyped /\ ReferencesApart

LEMMA PressAt ==
    ASSUME EntryInv, NEW c \in Claims, NEW stage \in {"pressed", "confirmed", "over"},
           Pressing(c, stage)
    PROVE  press[c] \in [stage : {"pressed", "confirmed", "over"}, ref : Refs]
           /\ press[c].ref \in Refs
  BY Given DEF EntryInv, TrialInv, ButtonTyped, PressRow, Pressing

\* A step that serves nobody new and takes nothing back.
LEMMA ApartKept ==
    ASSUME EntryInv, ButtonTyped',
           \A c \in Claims : Served(c)' => Served(c) /\ press'[c].ref = press[c].ref,
           \A c \in Claims : Claimed(c)' => Pressing(c, "over")',
           \A r \in Refs : ref[r] = "consumed" => ref'[r] = "consumed"
    PROVE  ReferencesApart'
<1>1. \A c \in Claims : Served(c) => press[c].ref \in Refs
  BY PressAt DEF EntryInv, ReferencesApart, Served
<1>2. ASSUME NEW c \in Claims, Served(c)'
      PROVE  /\ ref'[press'[c].ref] = "consumed"
             /\ \A d \in Claims \ {c} : Served(d)' => press'[d].ref # press'[c].ref
  <2>1. Served(c) /\ press'[c].ref = press[c].ref /\ press[c].ref \in Refs
    BY <1>1, <1>2
  <2>2. /\ ref[press[c].ref] = "consumed"
        /\ \A d \in Claims \ {c} : Served(d) => press[d].ref # press[c].ref
    BY <2>1 DEF EntryInv, ReferencesApart
  <2>3. QED BY <2>1, <2>2
<1>3. QED BY <1>2 DEF ReferencesApart, Served

\* The press goes on to another stage with the reference it has.
LEMMA PressTurns ==
    ASSUME EntryInv, NEW c \in Claims, NEW r \in Refs,
           NEW stage \in {"pressed", "confirmed", "over"},
           PressMoves(c, [stage |-> stage, ref |-> r])
    PROVE  /\ press' \in [Claims -> PressRow]
           /\ press'[c].stage = stage /\ press'[c].ref = r
           /\ \A d \in Claims \ {c} : press'[d] = press[d]
<1>1. PICK row \in PressRow : row = [stage |-> stage, ref |-> r]
  BY DEF PressRow
<1>2. press' = [press EXCEPT ![c] = row]
  BY <1>1 DEF PressMoves
<1>3. press \in [Claims -> PressRow]
  BY DEF EntryInv, ButtonTyped
<1>4. press' \in [Claims -> PressRow] /\ press'[c] = row
      /\ \A d \in Claims \ {c} : press'[d] = press[d]
  BY <1>2, <1>3
<1>5. QED BY <1>1, <1>4

LEMMA PressApart ==
    ASSUME EntryInv, NEW c \in Claims, NEW r \in Refs, Press(c, r)
    PROVE  ButtonTyped' /\ ReferencesApart'
<1>1. /\ ref' = ref /\ claim' = claim /\ Pressing(c, Idle)
      /\ PressMoves(c, [stage |-> "pressed", ref |-> r])
  BY DEF Press, Callback!Permit, trialVars
<1>2. /\ press' \in [Claims -> PressRow] /\ press'[c].stage = "pressed"
      /\ \A d \in Claims \ {c} : press'[d] = press[d]
  BY <1>1, PressTurns
<1>3. rate' \in [Users -> [count : 0..Limit, over : BOOLEAN]]
  <2>1. PICK u \in Users : u = UserOf[c]
    BY Typing DEF EntryInv
  <2>2. PICK n \in 0..Limit : n = IF rate[u].over THEN 1 ELSE rate[u].count + 1
    <3>1. rate[u].count \in 0..Limit /\ Limit \in Nat \ {0}
      BY Given DEF EntryInv, ButtonTyped, TrialInv
    <3>2. rate[u].over \/ rate[u].count < Limit
      BY <2>1 DEF Press, Callback!Permit
    <3>3. QED BY <3>1, <3>2
  <2>3. rate' = [rate EXCEPT ![u] = [count |-> n, over |-> FALSE]]
    BY <2>1, <2>2 DEF Press, Callback!Permit
  <2>4. QED BY <2>3 DEF EntryInv, ButtonTyped
<1>4. ButtonTyped'
  BY <1>1, <1>2, <1>3 DEF EntryInv, ButtonTyped
<1>5. ~Served(c) /\ ~Served(c)'
  BY <1>1, <1>2, Given DEF Served, Pressing, Claimed, EntryInv, TrialInv, ReferencesApart
<1>6. \A d \in Claims \ {c} : (Served(d)' <=> Served(d)) /\ (Claimed(d)' <=> Claimed(d))
  BY <1>1, <1>2 DEF Served, Pressing, Claimed
<1>7. \A d \in Claims : Claimed(d)' => Pressing(d, "over")'
  BY <1>1, <1>2, <1>5, <1>6 DEF Served, Pressing, EntryInv, ReferencesApart
<1>8. QED BY <1>1, <1>2, <1>4, <1>5, <1>6, <1>7, ApartKept

\* A reference that can be used is nobody's yet.
LEMMA ConfirmApart ==
    ASSUME EntryInv, NEW c \in Claims, Confirm(c)
    PROVE  ButtonTyped' /\ ReferencesApart'
<1>1. /\ rate' = rate /\ claim' = claim /\ Pressing(c, "pressed")
      /\ PressMoves(c, [stage |-> "confirmed", ref |-> press[c].ref])
  BY DEF Confirm, Callback!Consume, trialVars
<1>2. PICK r \in Refs : r = press[c].ref
  BY <1>1, PressAt
<1>3. ref[r] = "open" /\ ref' = [ref EXCEPT ![r] = "consumed"]
  BY <1>2 DEF Confirm, Callback!Consume, Callback!Usable
<1>4. /\ press' \in [Claims -> PressRow]
      /\ press'[c].stage = "confirmed" /\ press'[c].ref = r
      /\ \A d \in Claims \ {c} : press'[d] = press[d]
  BY <1>1, <1>2, PressTurns
<1>5. ButtonTyped'
  BY <1>1, <1>3, <1>4 DEF EntryInv, ButtonTyped
<1>6. /\ ref'[r] = "consumed"
      /\ \A x \in Refs : ref[x] = "consumed" => ref'[x] = "consumed"
  BY <1>3 DEF EntryInv, ButtonTyped
<1>7. ~Claimed(c) /\ ~Claimed(c)'
  BY <1>1 DEF EntryInv, ReferencesApart, Served, Pressing, Claimed
<1>8. \A d \in Claims \ {c} : (Served(d)' <=> Served(d)) /\ (Claimed(d)' <=> Claimed(d))
  BY <1>1, <1>4 DEF Served, Pressing, Claimed
<1>9. ASSUME NEW d \in Claims \ {c}, Served(d)
      PROVE  /\ press[d].ref \in Refs /\ ref[press[d].ref] = "consumed" /\ press[d].ref # r
             /\ Claimed(d) => Pressing(d, "over")
             /\ \A e \in Claims \ {d} : Served(e) => press[e].ref # press[d].ref
  <2>1. /\ ref[press[d].ref] = "consumed" /\ (Claimed(d) => Pressing(d, "over"))
        /\ \A e \in Claims \ {d} : Served(e) => press[e].ref # press[d].ref
    BY <1>9 DEF EntryInv, ReferencesApart
  <2>2. press[d].ref \in Refs
    BY <1>9, <2>1, PressAt DEF Served
  <2>3. QED BY <1>3, <2>1, <2>2
<1>10. ASSUME NEW d \in Claims, Served(d)'
       PROVE  /\ Claimed(d)' => Pressing(d, "over")'
              /\ ref'[press'[d].ref] = "consumed"
              /\ \A e \in Claims \ {d} : Served(e)' => press'[e].ref # press'[d].ref
  <2>1. CASE d = c
    BY <1>4, <1>6, <1>7, <1>8, <1>9, <2>1
  <2>2. CASE d # c
    <3>1. Served(d)
      BY <1>8, <1>10, <2>2
    <3>2. /\ Claimed(d)' => Pressing(d, "over")'
          /\ ref'[press'[d].ref] = "consumed" /\ press'[d].ref # press'[c].ref
      BY <1>4, <1>6, <1>8, <1>9, <2>2, <3>1 DEF Pressing
    <3>3. \A e \in Claims \ {d, c} : Served(e)' => press'[e].ref # press'[d].ref
      BY <1>4, <1>8, <1>9, <2>2, <3>1
    <3>4. QED BY <3>2, <3>3
  <2>3. QED BY <2>1, <2>2
<1>11. QED BY <1>5, <1>10 DEF ReferencesApart

LEMMA RefuseApart ==
    ASSUME EntryInv, NEW c \in Claims, Refuse(c)
    PROVE  ButtonTyped' /\ ReferencesApart'
<1>1. /\ rate' = rate /\ claim' = claim /\ Pressing(c, "pressed")
      /\ PressMoves(c, [stage |-> "over", ref |-> press[c].ref])
  BY DEF Refuse, Callback!Decline, trialVars
<1>2. PICK r \in Refs : r = press[c].ref
  BY <1>1, PressAt
<1>3. /\ ref' \in [Refs -> {"new", "open", "lapsed", "consumed", "void"}]
      /\ \A x \in Refs : ref[x] = "consumed" => ref'[x] = "consumed"
  BY <1>2 DEF Refuse, Callback!Decline, EntryInv, ButtonTyped
<1>4. /\ press' \in [Claims -> PressRow]
      /\ press'[c].stage = "over" /\ press'[c].ref = r
      /\ \A d \in Claims \ {c} : press'[d] = press[d]
  BY <1>1, <1>2, PressTurns
<1>5. ButtonTyped'
  BY <1>1, <1>3, <1>4 DEF EntryInv, ButtonTyped
<1>6. \A d \in Claims : /\ Served(d)' => Served(d) /\ press'[d].ref = press[d].ref
                        /\ Claimed(d)' => Pressing(d, "over")'
  BY <1>1, <1>2, <1>4 DEF Served, Pressing, Claimed, EntryInv, ReferencesApart
<1>7. QED BY <1>3, <1>5, <1>6, ApartKept

\* The answer of accept_claim, or none.
LEMMA AnswerApart ==
    ASSUME EntryInv, NEW c \in Claims, Accept(c) \/ Drop(c)
    PROVE  /\ ButtonTyped' /\ ReferencesApart'
           /\ TrialInv' /\ (AloneInv => AloneKeeps)
<1>1. /\ UNCHANGED <<ref, rate>> /\ (Pressing(c, "pressed") \/ Pressing(c, "confirmed"))
      /\ PressMoves(c, [stage |-> "over", ref |-> press[c].ref])
  BY DEF Accept, Drop
<1>2. PICK r \in Refs : r = press[c].ref
  BY <1>1, PressAt
<1>3. /\ press' \in [Claims -> PressRow]
      /\ press'[c].stage = "over" /\ press'[c].ref = r
      /\ \A d \in Claims \ {c} : press'[d] = press[d]
  BY <1>1, <1>2, PressTurns
<1>4. ButtonTyped'
  BY <1>1, <1>3 DEF EntryInv, ButtonTyped
<1>5. /\ Claimed(c)' => Claimed(c) \/ Pressing(c, "confirmed")
      /\ \A d \in Claims \ {c} : claim'[d] = claim[d]
      /\ TrialInv' /\ (AloneInv => AloneKeeps)
  <2>1. CASE UNCHANGED trialVars
    BY <2>1, StillKeeps DEF EntryInv, trialVars, Claimed
  <2>2. CASE Pressing(c, "confirmed") /\ AcceptDaily(c)
    <3>1. \A d \in Claims \ {c} : claim'[d] = claim[d]
      BY <2>2, AcceptedWrites DEF EntryInv, AcceptDaily, WithinAllowance
    <3>2. QED BY <2>2, <3>1, AcceptDailyKeeps DEF EntryInv
  <2>3. CASE Pressing(c, "confirmed") /\ AcceptExtra(c)
    <3>1. \A d \in Claims \ {c} : claim'[d] = claim[d]
      BY <2>3, AcceptedWrites DEF EntryInv, AcceptExtra, WithEntitlement, TakesUse
    <3>2. QED BY <2>3, <3>1, AcceptExtraKeeps DEF EntryInv
  <2>4. CASE Pressing(c, "confirmed") /\ AcceptInvalid(c)
    <3>1. claim' = claim
      BY <2>4 DEF AcceptInvalid
    <3>2. QED BY <2>4, <3>1, AcceptInvalidKeeps DEF EntryInv, Claimed
  <2>5. QED BY <2>1, <2>2, <2>3, <2>4 DEF Accept, Drop
<1>6. \A d \in Claims : Served(d)' => Served(d) /\ press'[d].ref = press[d].ref
  BY <1>2, <1>3, <1>5 DEF Served, Pressing, Claimed
<1>7. \A d \in Claims : Claimed(d)' => Pressing(d, "over")'
  BY <1>3, <1>5 DEF EntryInv, ReferencesApart, Served, Pressing, Claimed
<1>8. QED BY <1>1, <1>4, <1>5, <1>6, <1>7, ApartKept

LEMMA TrialApart ==
    ASSUME EntryInv, TrialStep, UNCHANGED <<ref, rate, press>>
    PROVE  ButtonTyped' /\ ReferencesApart'
<1>1. ButtonTyped'
  BY DEF EntryInv, ButtonTyped
<1>2. \A c \in Claims : Claimed(c)' => Claimed(c)
  BY NothingAccepted DEF EntryInv
<1>3. /\ \A c \in Claims : Served(c)' => Served(c) /\ press'[c].ref = press[c].ref
      /\ \A c \in Claims : Claimed(c)' => Pressing(c, "over")'
  BY <1>2 DEF Served, Pressing, EntryInv, ReferencesApart
<1>4. QED BY <1>1, <1>3, ApartKept

LEMMA CallbackApart ==
    ASSUME EntryInv,
           \/ \E r \in Refs : Callback!Issue(r) \/ Callback!Lapse(r) \/ Callback!Invalidate(r)
           \/ \E u \in Users : Callback!WindowPasses(u),
           UNCHANGED <<trialVars, press>>
    PROVE  ButtonTyped' /\ ReferencesApart'
<1>1. /\ ref' \in [Refs -> {"new", "open", "lapsed", "consumed", "void"}]
      /\ \A r \in Refs : ref[r] = "consumed" => ref'[r] = "consumed"
  BY DEF Callback!Issue, Callback!Lapse, Callback!Invalidate, Callback!Moves,
         Callback!WindowPasses, EntryInv, ButtonTyped
<1>2. rate' \in [Users -> [count : 0..Limit, over : BOOLEAN]]
  <2>1. CASE rate' = rate
    BY <2>1 DEF EntryInv, ButtonTyped
  <2>2. ASSUME NEW u \in Users, Callback!WindowPasses(u)
        PROVE  rate' \in [Users -> [count : 0..Limit, over : BOOLEAN]]
    <3>1. [rate[u] EXCEPT !.over = TRUE] \in [count : 0..Limit, over : BOOLEAN]
      BY DEF EntryInv, ButtonTyped
    <3>2. QED BY <2>2, <3>1 DEF Callback!WindowPasses, EntryInv, ButtonTyped
  <2>3. QED BY <2>1, <2>2 DEF Callback!Issue, Callback!Lapse, Callback!Invalidate, Callback!Moves
<1>3. ButtonTyped'
  BY <1>1, <1>2 DEF EntryInv, ButtonTyped
<1>4. /\ \A c \in Claims : Served(c)' => Served(c) /\ press'[c].ref = press[c].ref
      /\ \A c \in Claims : Claimed(c)' => Pressing(c, "over")'
  BY DEF trialVars, Served, Claimed, Pressing, EntryInv, ReferencesApart
<1>5. QED BY <1>1, <1>3, <1>4, ApartKept

LEMMA EntryStart ==
    ASSUME EntryInit
    PROVE  EntryInv /\ AloneInv
<1>1. TrialInv /\ AloneInv
  BY TrialStart DEF EntryInit, AloneInv
<1>2. ButtonTyped
  <2>1. rate = [u \in Users |-> [count |-> 0, over |-> FALSE]] /\ 0 \in 0..Limit
    BY Given DEF EntryInit, Callback!Init
  <2>2. [count |-> 0, over |-> FALSE] \in [count : 0..Limit, over : BOOLEAN]
    BY <2>1
  <2>3. [stage |-> Idle] \in PressRow
    BY DEF PressRow
  <2>4. QED BY <2>1, <2>2, <2>3 DEF EntryInit, Callback!Init, ButtonTyped
<1>3. ReferencesApart
  BY Given DEF EntryInit, TrialInit, ReferencesApart, Served, Pressing, Claimed
<1>4. QED BY <1>1, <1>2, <1>3 DEF EntryInv

LEMMA EntryKept ==
    ASSUME EntryInv, [EntryNext]_entryVars
    PROVE  EntryInv' /\ (AloneInv /\ OneCallPerClaim => AloneKeeps)
<1>1. CASE \E c \in Claims :
              (\E r \in Refs : Press(c, r)) \/ Confirm(c) \/ Refuse(c)
  <2>1. UNCHANGED trialVars
    BY <1>1 DEF Press, Confirm, Refuse
  <2>2. ButtonTyped' /\ ReferencesApart'
    BY <1>1, PressApart, ConfirmApart, RefuseApart
  <2>3. QED BY <2>1, <2>2, StillKeeps DEF EntryInv
<1>2. CASE \E c \in Claims : Accept(c) \/ Drop(c)
  BY <1>2, AnswerApart DEF EntryInv
<1>3. CASE TrialStep /\ UNCHANGED <<ref, rate, press>>
  BY <1>3, TrialApart, TrialKeeps DEF EntryInv
<1>4. CASE /\ \/ \E r \in Refs : Callback!Issue(r) \/ Callback!Lapse(r) \/ Callback!Invalidate(r)
              \/ \E u \in Users : Callback!WindowPasses(u)
           /\ UNCHANGED <<trialVars, press>>
  BY <1>4, CallbackApart, StillKeeps DEF EntryInv
<1>5. CASE UNCHANGED entryVars
  <2>1. UNCHANGED trialVars /\ UNCHANGED <<ref, rate, press>>
    BY <1>5 DEF entryVars
  <2>2. ButtonTyped' /\ ReferencesApart'
    BY <2>1 DEF trialVars, EntryInv, ButtonTyped, ReferencesApart, Served, Claimed, Pressing
  <2>3. QED BY <2>1, <2>2, StillKeeps DEF EntryInv
<1>6. QED BY <1>1, <1>2, <1>3, <1>4, <1>5 DEF EntryNext

\* The states of free trials and of the button stay in their types.
THEOREM TrialsTyped ==
    EntrySpec => []EntryTypeOK
<1>1. EntryInit => EntryInv
  BY EntryStart
<1>2. EntryInv /\ [EntryNext]_entryVars => EntryInv'
  BY EntryKept
<1>3. EntryInv => EntryTypeOK
  BY DEF EntryInv, TrialInv, ButtonTyped, PressRow, EntryTypeOK
<1>4. QED BY <1>1, <1>2, <1>3, PTL DEF EntrySpec

\* A server gives no more trials in a day than its quota, but for those whose
\* reservation had ended before their key was bound, however many provisionings of
\* however many claims overlap (route_claim, _finalize_claim, the two sweeps).
THEOREM WithinQuota ==
    EntrySpec => []QuotaHolds
<1>1. EntryInit => EntryInv
  BY EntryStart
<1>2. EntryInv /\ [EntryNext]_entryVars => EntryInv'
  BY EntryKept
<1>3. EntryInv => QuotaHolds
  BY DEF EntryInv, TrialInv
<1>4. QED BY <1>1, <1>2, <1>3, PTL DEF EntrySpec

\* Every claim has a reference that was used up for it and for no other claim, however
\* often a button is pressed.
THEOREM OnePress ==
    EntrySpec => []OneClaimPerReference
<1>1. EntryInit => EntryInv
  BY EntryStart
<1>2. EntryInv /\ [EntryNext]_entryVars => EntryInv'
  BY EntryKept
<1>3. EntryInv => OneClaimPerReference
  BY DEF EntryInv, ReferencesApart, Served, OneClaimPerReference
<1>4. QED BY <1>1, <1>2, <1>3, PTL DEF EntrySpec

\* Every use of an entitlement is left, redeemed, held by a claim or was forfeited to an
\* invalid policy, as claims, redemptions and cancellations mix, unless two calls of
\* provision_claim work on one claim at once.
THEOREM UsesBalance ==
    EntrySpec /\ []OneCallPerClaim => []UsesAddUp
<1>1. EntryInit => EntryInv /\ AloneInv
  BY EntryStart
<1>2. EntryInv /\ AloneInv /\ OneCallPerClaim /\ [EntryNext]_entryVars => EntryInv' /\ AloneInv'
  BY EntryKept DEF AloneKeeps
<1>3. AloneInv => UsesAddUp
  BY DEF AloneInv
<1>4. QED BY <1>1, <1>2, <1>3, PTL DEF EntrySpec

\* A claim that was given up before it had a key stays so: no provisioning that was
\* under way brings it back, unless two calls work on one claim at once.
THEOREM GivenUp ==
    EntrySpec /\ []OneCallPerClaim => CancelledIsFinal
<1>1. EntryInit => EntryInv /\ AloneInv
  BY EntryStart
<1>2. EntryInv /\ AloneInv /\ OneCallPerClaim /\ [EntryNext]_entryVars => EntryInv' /\ AloneInv'
  BY EntryKept DEF AloneKeeps
<1>3. EntryInv /\ AloneInv /\ OneCallPerClaim /\ [EntryNext]_entryVars
         => [\A c \in Claims : ClaimIs(c, {"cancelled"}) => claim'[c] = claim[c]]_trialVars
  BY EntryKept DEF AloneKeeps, Cancelled
<1>4. QED BY <1>1, <1>2, <1>3, PTL DEF EntrySpec, CancelledIsFinal
=============================================================================
