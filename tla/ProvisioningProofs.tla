------------------------- MODULE ProvisioningProofs -------------------------
(***************************************************************************)
(* Proofs about Provisioning, for any orders, operations, servers and      *)
(* callers, whatever columns the class maps and whether the database fails *)
(* or not.                                                                 *)
(***************************************************************************)
EXTENDS Provisioning, FiniteSetTheorems, TLAPS

Finals == {"pending", "failed", "unknown", "compensation_required"}

-----------------------------------------------------------------------------
\* An open call is well typed, and has its server from "reserving" on.
LEMMA CallShape ==
    ASSUME TypeOK, NEW c \in Callers, call[c] # Idle
    PROVE  /\ call[c] \in OpenCall
           /\ Op(c) \in Ops
           /\ Key(c) \in Keys
           /\ call[c].final \in Finals
           /\ call[c].stage \in Stages \ {"settling"} => call[c].server \in Servers
<1>1. call[c] \in OpenCall
  BY DEF TypeOK
<1>2. Op(c) \in Ops
  BY <1>1 DEF OpenCall, Op
<1>3. Key(c) \in Keys
  BY <1>2 DEF Key, Keys
<1>4. call[c].final \in Finals
  BY <1>1 DEF OpenCall, Finals
<1>5. call[c].stage \in Stages \ {"settling"} => call[c].server \in Servers
  BY <1>1 DEF OpenCall, Stages
<1>6. QED BY <1>1, <1>2, <1>3, <1>4, <1>5

\* The ways a call goes on leave the calls well typed.
LEMMA ReturnType ==
    ASSUME TypeOK, NEW c \in Callers, Return(c)
    PROVE  call' \in [Callers -> OpenCall \cup {Idle}]
  BY DEF TypeOK, Return

LEMMA GoOnType ==
    ASSUME TypeOK, NEW c \in Callers, call[c] # Idle,
           call[c].stage \in Stages \ {"settling"}, NEW s \in Stages, GoOn(c, s)
    PROVE  call' \in [Callers -> OpenCall \cup {Idle}]
<1>1. call[c] \in OpenCall /\ call[c].server \in Servers
  BY CallShape
<1>2. [call[c] EXCEPT !.stage = s] \in OpenCall
  BY <1>1 DEF OpenCall, Stages
<1>3. QED BY <1>2 DEF TypeOK, GoOn

LEMMA EndType ==
    ASSUME TypeOK, NEW c \in Callers, call[c] # Idle,
           call[c].stage \in Stages \ {"settling"},
           NEW s \in Stages, NEW f \in Finals, End(c, s, f)
    PROVE  call' \in [Callers -> OpenCall \cup {Idle}]
<1>1. call[c] \in OpenCall /\ call[c].server \in Servers
  BY CallShape
<1>2. [call[c] EXCEPT !.stage = s, !.final = f] \in OpenCall
  BY <1>1 DEF OpenCall, Stages, Finals
<1>3. QED BY <1>2 DEF TypeOK, End

LEMMA SetType ==
    ASSUME TypeOK, NEW c \in Callers, Op(c) \in Ops,
           NEW s \in InFlight \cup Settled \cup {"pending"}, Set(c, s)
    PROVE  operation' \in [Ops -> OperationRow]
  BY DEF TypeOK, Set, OperationRow

LEMMA SetWithKeyType ==
    ASSUME TypeOK, NEW c \in Callers, Op(c) \in Ops,
           NEW s \in InFlight \cup Settled, SetWithKey(c, s)
    PROVE  operation' \in [Ops -> OperationRow]
  BY DEF TypeOK, SetWithKey, OperationRow, Key, Keys

LEMMA TransitionType ==
    ASSUME TypeOK, NEW op \in Ops, NEW s \in {"committed", "released"},
           Transition(op, s)
    PROVE  reservation' \in [Ops -> ReservationRow]
  BY DEF TypeOK, Transition, ReservationRow

-----------------------------------------------------------------------------
LEMMA ForwardType ==
    ASSUME TypeOK, NEW c \in Callers, Forward(c)
    PROVE  TypeOK'
<1> DEFINE CallsOK == call' \in [Callers -> OpenCall \cup {Idle}]
           OpsOK == operation' \in [Ops -> OperationRow]
           OthersKept == UNCHANGED <<reservation, order, rows, remote, silent>>
<1>0. ASSUME CallsOK, OpsOK, OthersKept
      PROVE  TypeOK'
  BY <1>0 DEF TypeOK
<1>1. ASSUME NEW op \in Ops, Enter(c, op)
      PROVE  TypeOK'
  <2>1. OpsOK
    BY <1>1 DEF Enter, TypeOK, OperationRow
  <2>2. [stage |-> "checking", op |-> op, server |-> NoServer,
         final |-> "pending"] \in OpenCall
    BY DEF OpenCall
  <2>3. CallsOK
    BY <1>1, <2>2 DEF Enter, TypeOK
  <2>4. QED BY <1>0, <1>1, <2>1, <2>3 DEF Enter
<1>2. CASE Check(c) \/ SelectNone(c)
  <2>1. call[c] \in OpenCall /\ call[c].stage \in {"checking", "selecting"}
    BY <1>2, CallShape DEF Check, SelectNone, At
  <2>2. /\ [call[c] EXCEPT !.stage = "selecting"] \in OpenCall
        /\ [call[c] EXCEPT !.stage = "settling", !.final = "failed"] \in OpenCall
    BY <2>1 DEF OpenCall, Stages
  <2>3. CallsOK
    BY <1>2, <2>2 DEF Check, SelectNone, GoOn, End, TypeOK
  <2>4. QED BY <1>2, <2>3 DEF Check, SelectNone, TypeOK
<1>3. ASSUME NEW s \in Servers, Select(c, s)
      PROVE  TypeOK'
  <2>1. call[c] \in OpenCall /\ Op(c) \in Ops
    BY <1>3, CallShape DEF Select, At
  <2>2. [call[c] EXCEPT !.stage = AfterSelection(Op(c)), !.server = s] \in OpenCall
    BY <2>1 DEF OpenCall, Stages, AfterSelection
  <2>3. CallsOK
    BY <1>3, <2>2 DEF Select, TypeOK
  <2>4. OpsOK
    BY <1>3, <2>1, SetType DEF Select, InFlight
  <2>5. QED BY <1>0, <1>3, <2>3, <2>4 DEF Select
<1>4. CASE Reserve(c)
  <2>1. Op(c) \in Ops /\ call[c].server \in Servers /\ call[c] # Idle
          /\ call[c].stage \in Stages \ {"settling"}
    BY <1>4, CallShape DEF Reserve, At, Stages
  <2>2. CallsOK
    BY <1>4, <2>1, GoOnType, EndType DEF Reserve, Stages, Finals
  <2>3. reservation' \in [Ops -> ReservationRow]
    <3>1. [status |-> "pending", server |-> call[c].server, overdue |-> FALSE]
             \in ReservationRow
      BY <2>1 DEF ReservationRow
    <3>2. QED BY <1>4, <3>1 DEF Reserve, TypeOK
  <2>4. QED BY <1>4, <2>2, <2>3 DEF Reserve, TypeOK
<1>5. CASE ReserveShared(c) \/ ReserveAgain(c) \/ Unusable(c) \/ PersistFails(c)
  <2>1. call[c] # Idle /\ call[c].stage \in Stages \ {"settling"}
    BY <1>5 DEF ReserveShared, ReserveAgain, Unusable, PersistFails, At, Stages
  <2>2. CallsOK
    BY <1>5, <2>1, GoOnType, EndType, ReturnType
    DEF ReserveShared, ReserveAgain, Unusable, PersistFails, Stages, Finals
  <2>3. QED BY <1>5, <2>2
             DEF ReserveShared, ReserveAgain, Unusable, PersistFails, TypeOK
<1>6. CASE MarkReserved(c) \/ Revalidate(c) \/ Record(c) \/ Complete(c)
  <2>1. Op(c) \in Ops /\ call[c] # Idle /\ call[c].stage \in Stages \ {"settling"}
    BY <1>6, CallShape DEF MarkReserved, Revalidate, Record, Complete, At, Stages
  <2>2. CallsOK
    BY <1>6, <2>1, GoOnType DEF MarkReserved, Revalidate, Record, Complete, Stages
  <2>3. OpsOK
    BY <1>6, <2>1, SetType, SetWithKeyType
    DEF MarkReserved, Revalidate, Record, Complete, InFlight, Settled
  <2>4. QED BY <1>0, <1>6, <2>2, <2>3 DEF MarkReserved, Revalidate, Record, Complete
<1>7. CASE CreateKey(c)
  <2>1. Key(c) \in Keys /\ call[c] # Idle /\ call[c].stage \in Stages \ {"settling"}
    BY <1>7, CallShape DEF CreateKey, At, Stages
  <2>2. CallsOK
    BY <1>7, <2>1, GoOnType DEF CreateKey, Stages
  <2>3. QED BY <1>7, <2>1, <2>2 DEF CreateKey, TypeOK
<1>8. ASSUME NEW final \in {"failed", "unknown"}, NEW made \in BOOLEAN,
             CreateFails(c, final, made)
      PROVE  TypeOK'
  <2>1. Key(c) \in Keys /\ call[c] # Idle /\ call[c].stage \in Stages \ {"settling"}
    BY <1>8, CallShape DEF CreateFails, At, Stages
  <2>2. CallsOK
    BY <1>8, <2>1, EndType DEF CreateFails, Stages, Finals
  <2>3. QED BY <1>8, <2>1, <2>2 DEF CreateFails, TypeOK
<1>9. CASE Persist(c)
  <2>1. /\ Op(c) \in Ops /\ Key(c) \in Keys
        /\ call[c] # Idle /\ call[c].stage \in Stages \ {"settling"}
    BY <1>9, CallShape DEF Persist, At, Stages
  <2>2. CallsOK
    BY <1>9, <2>1, GoOnType DEF Persist, Stages
  <2>3. order' \in [Orders -> OrderRow]
    BY <1>9, <2>1, ProvisioningAssumption DEF Persist, TypeOK, OrderRow
  <2>4. QED BY <1>9, <2>1, <2>2, <2>3 DEF Persist, TypeOK
<1>10. CASE Commit(c)
  <2>1. Op(c) \in Ops
    BY <1>10, CallShape DEF Commit, At
  <2>2. CallsOK
    BY <1>10, ReturnType DEF Commit
  <2>3. reservation' \in [Ops -> ReservationRow]
    BY <1>10, <2>1, TransitionType DEF Commit
  <2>4. QED BY <1>10, <2>2, <2>3 DEF Commit, TypeOK
<1>11. QED BY <1>1, <1>2, <1>3, <1>4, <1>5, <1>6, <1>7, <1>8, <1>9, <1>10 DEF Forward

LEMMA BackwardType ==
    ASSUME TypeOK, NEW c \in Callers, Backward(c)
    PROVE  TypeOK'
<1> DEFINE CallsOK == call' \in [Callers -> OpenCall \cup {Idle}]
<1>1. CASE Compensate(c)
  <2>1. call[c] # Idle /\ call[c].stage \in Stages \ {"settling"}
    BY <1>1 DEF Compensate, At, Stages
  <2>2. CallsOK
    BY <1>1, <2>1, EndType DEF Compensate, Stages, Finals
  <2>3. QED BY <1>1, <2>2 DEF Compensate, TypeOK
<1>2. ASSUME NEW deleted \in BOOLEAN, CompensationFails(c, deleted)
      PROVE  TypeOK'
  <2>1. call[c] # Idle /\ call[c].stage \in Stages \ {"settling"}
    BY <1>2 DEF CompensationFails, At, Stages
  <2>2. CallsOK
    BY <1>2, <2>1, EndType DEF CompensationFails, Stages, Finals
  <2>3. QED BY <1>2, <2>2 DEF CompensationFails, TypeOK
<1>3. CASE GiveUp(c)
  <2>1. Op(c) \in Ops /\ call[c] # Idle /\ call[c].stage \in Stages \ {"settling"}
    BY <1>3, CallShape DEF GiveUp, At, Stages
  <2>2. CallsOK
    BY <1>3, <2>1, GoOnType DEF GiveUp, Stages
  <2>3. operation' \in [Ops -> OperationRow]
    BY <1>3, <2>1, SetWithKeyType DEF GiveUp, Settled
  <2>4. QED BY <1>3, <2>2, <2>3 DEF GiveUp, TypeOK
<1>4. CASE Release(c)
  <2>1. Op(c) \in Ops /\ call[c] # Idle /\ call[c].stage \in Stages \ {"settling"}
    BY <1>4, CallShape DEF Release, At, Stages
  <2>2. CallsOK
    BY <1>4, <2>1, GoOnType, ReturnType DEF Release, Stages
  <2>3. reservation' \in [Ops -> ReservationRow]
    BY <1>4, <2>1, TransitionType DEF Release
  <2>4. QED BY <1>4, <2>2, <2>3 DEF Release, TypeOK
<1>5. CASE Settle(c)
  <2>1. Op(c) \in Ops /\ call[c].final \in Settled \cup {"pending"}
    BY <1>5, CallShape DEF Settle, At, Finals, Settled
  <2>2. CallsOK
    BY <1>5, ReturnType DEF Settle
  <2>3. operation' \in [Ops -> OperationRow]
    BY <1>5, <2>1, SetType DEF Settle
  <2>4. QED BY <1>5, <2>2, <2>3 DEF Settle, TypeOK
<1>6. QED BY <1>1, <1>2, <1>3, <1>4, <1>5 DEF Backward

LEMMA TypeStep == TypeOK /\ [Next]_vars => TypeOK'
<1> SUFFICES ASSUME TypeOK, [Next]_vars
             PROVE  TypeOK'
    OBVIOUS
<1>1. ASSUME NEW c \in Callers, Crash(c)
      PROVE  TypeOK'
  BY <1>1, ReturnType DEF Crash, TypeOK
<1>2. ASSUME NEW o \in Orders, Refund(o)
      PROVE  TypeOK'
  BY <1>2 DEF Refund, TypeOK, OrderRow
<1>3. ASSUME NEW op \in Ops, TimePasses(op)
      PROVE  TypeOK'
  BY <1>3 DEF TimePasses, TypeOK, ReservationRow
<1>4. CASE ExpireReservations
  BY <1>4 DEF ExpireReservations, TypeOK, ReservationRow
<1>5. CASE UNCHANGED vars
  BY <1>5 DEF vars, TypeOK
<1>6. QED BY <1>1, <1>2, <1>3, <1>4, <1>5, ForwardType, BackwardType DEF Next

\* The variables of the provisioning saga keep their types.
THEOREM TypeCorrect == Spec => []TypeOK
<1>1. Init => TypeOK
  BY DEF Init, TypeOK, OperationRow, ReservationRow, OrderRow
<1>2. QED BY <1>1, TypeStep, PTL DEF Spec
-----------------------------------------------------------------------------
\* A step that starts no reservation and takes none up again frees slots or
\* leaves them.
LEMMA FewerActive ==
    ASSUME TypeOK, TypeOK', NeverOverReserved,
           \A op \in Ops : \/ reservation'[op] = reservation[op]
                          \/ reservation'[op].status # "pending"
                          \/ reservation'[op].overdue
    PROVE  NeverOverReserved'
<1> SUFFICES ASSUME NEW s \in Servers
             PROVE  Cardinality(Active(s)') <= Slots[s]
    BY DEF NeverOverReserved
<1>1. Active(s)' \subseteq Active(s)
  BY DEF Active
<1>2. IsFiniteSet(Active(s))
  BY ProvisioningAssumption, FS_Subset DEF Active
<1>3. /\ Cardinality(Active(s)') <= Cardinality(Active(s))
      /\ Cardinality(Active(s)') \in Nat /\ Cardinality(Active(s)) \in Nat
  BY <1>1, <1>2, FS_Subset, FS_CardinalityType
<1>4. Cardinality(Active(s)) <= Slots[s] /\ Slots[s] \in Nat
  BY ProvisioningAssumption DEF NeverOverReserved
<1>5. QED BY <1>3, <1>4

\* A new reservation takes one slot, where there was one.
LEMMA ReserveFits ==
    ASSUME TypeOK, NeverOverReserved, NEW c \in Callers, Reserve(c)
    PROVE  NeverOverReserved'
<1>1. Op(c) \in Ops
  BY CallShape DEF Reserve, At
<1> SUFFICES ASSUME NEW s \in Servers
             PROVE  Cardinality(Active(s)') <= Slots[s]
    BY DEF NeverOverReserved
<1>2. /\ IsFiniteSet(Active(s)) /\ Cardinality(Active(s)) \in Nat
      /\ Cardinality(Active(s)) <= Slots[s] /\ Slots[s] \in Nat
  BY ProvisioningAssumption, FS_Subset, FS_CardinalityType
  DEF Active, NeverOverReserved
<1>3. CASE HasRoom(call[c].server) /\ call[c].server = s
  <2>1. Active(s)' = Active(s) \cup {Op(c)}
    BY <1>1, <1>3 DEF Reserve, Active, TypeOK
  <2>2. Op(c) \notin Active(s)
    BY DEF Reserve, Active
  <2>3. Cardinality(Active(s)') = Cardinality(Active(s)) + 1
    BY <1>2, <2>1, <2>2, FS_AddElement
  <2>4. Cardinality(Active(s)) < Slots[s]
    BY <1>3 DEF HasRoom
  <2>5. QED BY <1>2, <2>3, <2>4
<1>4. CASE HasRoom(call[c].server) /\ call[c].server # s
  <2>1. Active(s)' = Active(s)
    BY <1>1, <1>4 DEF Reserve, Active, TypeOK
  <2>2. QED BY <1>2, <2>1
<1>5. CASE ~HasRoom(call[c].server)
  <2>1. Active(s)' = Active(s)
    BY <1>5 DEF Reserve, Active
  <2>2. QED BY <1>2, <2>1
<1>6. QED BY <1>3, <1>4, <1>5

LEMMA SlotsStep ==
    TypeOK /\ TypeOK' /\ NeverOverReserved /\ [Next]_vars => NeverOverReserved'
<1> SUFFICES ASSUME TypeOK, TypeOK', NeverOverReserved, [Next]_vars
             PROVE  NeverOverReserved'
    OBVIOUS
<1> DEFINE NoneTaken ==
             \A op \in Ops : \/ reservation'[op] = reservation[op]
                            \/ reservation'[op].status # "pending"
                            \/ reservation'[op].overdue
<1>1. ASSUME NEW c \in Callers, Forward(c)
      PROVE  NeverOverReserved'
  <2>1. CASE Reserve(c)
    BY <2>1, ReserveFits
  <2>2. CASE Commit(c)
    <3>1. NoneTaken
      BY <2>2 DEF Commit, Transition, TypeOK
    <3>2. QED BY <3>1, FewerActive
  <2>3. CASE ~Reserve(c) /\ ~Commit(c)
    <3>1. UNCHANGED reservation
      BY <1>1, <2>3 DEF Forward, Enter, Check, Select, SelectNone, ReserveShared,
           ReserveAgain, MarkReserved, Revalidate, Unusable, CreateKey, CreateFails,
           Record, Persist, PersistFails, Complete
    <3>2. QED BY <3>1, FewerActive
  <2>4. QED BY <2>1, <2>2, <2>3
<1>2. ASSUME NEW c \in Callers, Backward(c) \/ Crash(c)
      PROVE  NeverOverReserved'
  <2>1. CASE Release(c)
    <3>1. NoneTaken
      BY <2>1 DEF Release, Transition, TypeOK
    <3>2. QED BY <3>1, FewerActive
  <2>2. CASE ~Release(c)
    <3>1. UNCHANGED reservation
      BY <1>2, <2>2 DEF Backward, Crash, Compensate, CompensationFails, GiveUp, Settle
    <3>2. QED BY <3>1, FewerActive
  <2>3. QED BY <2>1, <2>2
<1>3. CASE \/ \E o \in Orders : Refund(o)
           \/ \E op \in Ops : TimePasses(op)
           \/ ExpireReservations
           \/ UNCHANGED vars
  <2>1. NoneTaken
    BY <1>3 DEF Refund, TimePasses, ExpireReservations, TypeOK, ReservationRow, vars
  <2>2. QED BY <2>1, FewerActive
<1>4. QED BY <1>1, <1>2, <1>3 DEF Next

\* On any number of servers of any size, no slot is promised twice
\* (server_reservation_service.py: the count is taken under the server's lock).
THEOREM SlotsSuffice == Spec => []NeverOverReserved
<1>1. Init => TypeOK /\ NeverOverReserved
  <2>1. ASSUME Init, NEW s \in Servers
        PROVE  Cardinality(Active(s)) <= Slots[s]
    <3>1. Active(s) = {}
      BY <2>1 DEF Init, Active
    <3>2. QED BY <3>1, FS_EmptySet, ProvisioningAssumption
  <2>2. QED BY <2>1 DEF Init, TypeOK, NeverOverReserved, OperationRow,
                 ReservationRow, OrderRow
<1>2. TypeOK /\ NeverOverReserved /\ [Next]_vars => (TypeOK /\ NeverOverReserved)'
  BY TypeStep, SlotsStep
<1>3. QED BY <1>1, <1>2, PTL DEF Spec
-----------------------------------------------------------------------------
Fresh == {"absent", "pending"}
Early == {"checking", "selecting", "reserving", "reserved", "revalidating", "creating"}

\* What an open call knows of its key and its operation, by its stage.
CallKnows(c) ==
    ~Ready(c) =>
        /\ call[c].stage \in Early => Key(c) \notin rows \cup remote
        /\ call[c].stage \in {"recording", "persisting", "compensating"} =>
               Key(c) \notin rows
        /\ call[c].stage \in {"recording", "persisting", "completing", "committing"} =>
               Key(c) \in remote
        /\ call[c].stage \in {"completing", "committing"} => Key(c) \in rows
        /\ call[c].stage \notin {"checking", "selecting", "settling"} =>
               operation[Op(c)].status \notin Fresh
        /\ call[c].stage \in {"giving_up", "releasing", "settling"} =>
               call[c].final \in Settled

\* An operation with a key is not taken up again.
NotFresh == \A k \in rows \cup remote : operation[k[1]].status \notin Fresh

KeyInv ==
    /\ \A c \in Callers : CallKnows(c)
    /\ NotFresh
    /\ CommittedHasKey

\* What a step of one call of op may do without disturbing the rest.
LEMMA CallStep ==
    ASSUME TypeOK, KeyInv, NEW c \in Callers, NEW o \in Ops,
           \A d \in Callers \ {c} : call'[d] = call[d],
           rows \subseteq rows', rows' \subseteq rows \cup {<<o, c>>},
           remote \ {<<o, c>>} \subseteq remote', remote' \subseteq remote \cup {<<o, c>>},
           <<o, c>> \in rows \cap remote => <<o, c>> \in remote',
           \A op \in Ops : operation[op].status \notin Fresh =>
                               operation'[op].status \notin Fresh,
           \/ rows' \cup remote' \subseteq rows \cup remote
           \/ operation'[o].status \notin Fresh,
           \A op \in Ops : reservation'[op].status = "committed" =>
               \/ reservation[op].status = "committed"
               \/ op = o /\ <<o, c>> \in rows \cap remote,
           CallKnows(c)'
    PROVE  KeyInv'
<1>1. ASSUME NEW d \in Callers, d # c
      PROVE  CallKnows(d)'
  <2>1. Ready(d)' = Ready(d) /\ Op(d)' = Op(d) /\ Key(d)' = Key(d)
          /\ call'[d] = call[d]
    BY <1>1 DEF Ready, Op, Key
  <2>2. Key(d) # <<o, c>>
    BY <1>1 DEF Key
  <2>3. CallKnows(d)
    BY DEF KeyInv
  <2>4. ~Ready(d) => Op(d) \in Ops
    BY CallShape DEF Ready
  <2>5. /\ Key(d) \in rows' <=> Key(d) \in rows
        /\ Key(d) \in remote' <=> Key(d) \in remote
    BY <2>2
  <2>6. QED BY <2>1, <2>3, <2>4, <2>5 DEF CallKnows
<1>2. NotFresh'
  <2> SUFFICES ASSUME NEW k \in rows' \cup remote'
               PROVE  operation'[k[1]].status \notin Fresh
      BY DEF NotFresh
  <2>1. CASE k \in rows \cup remote
    <3>1. k[1] \in Ops
      BY <2>1 DEF TypeOK, Keys
    <3>2. QED BY <2>1, <3>1 DEF KeyInv, NotFresh
  <2>2. CASE k \notin rows \cup remote
    <3>1. k = <<o, c>> /\ k[1] = o
      BY <2>2
    <3>2. QED BY <2>2, <3>1
  <2>3. QED BY <2>1, <2>2
<1>3. CommittedHasKey'
  <2> SUFFICES ASSUME NEW op \in Ops, reservation'[op].status = "committed"
               PROVE  \E d \in Callers : <<op, d>> \in rows' \cap remote'
      BY DEF CommittedHasKey
  <2>1. PICK d \in Callers : <<op, d>> \in rows \cap remote
    BY DEF KeyInv, CommittedHasKey
  <2>2. <<op, d>> \in rows' \cap remote'
    BY <2>1
  <2>3. QED BY <2>2
<1>4. QED BY <1>1, <1>2, <1>3 DEF KeyInv

\* A step that only touches the open call, its operation and its reservation.
LEMMA CallRowsStep ==
    ASSUME TypeOK, KeyInv, NEW c \in Callers, NEW o \in Ops,
           \A d \in Callers \ {c} : call'[d] = call[d],
           UNCHANGED <<rows, remote>>,
           \A op \in Ops : operation[op].status \notin Fresh =>
                               operation'[op].status \notin Fresh,
           \A op \in Ops : reservation'[op].status = "committed" =>
               \/ reservation[op].status = "committed"
               \/ op = o /\ <<o, c>> \in rows \cap remote,
           CallKnows(c)'
    PROVE  KeyInv'
  BY CallStep

LEMMA GoOnEffect ==
    ASSUME TypeOK, NEW c \in Callers, call[c] # Idle, NEW s, GoOn(c, s)
    PROVE  /\ call'[c].stage = s /\ call'[c].final = call[c].final
           /\ Op(c)' = Op(c) /\ Key(c)' = Key(c)
           /\ \A d \in Callers \ {c} : call'[d] = call[d]
<1>1. call[c] \in OpenCall
  BY CallShape
<1>2. call' = [call EXCEPT ![c] = [call[c] EXCEPT !.stage = s]]
  BY DEF GoOn
<1>3. call'[c] = [call[c] EXCEPT !.stage = s]
  BY <1>2 DEF TypeOK
<1>4. call'[c].stage = s /\ call'[c].final = call[c].final /\ call'[c].op = call[c].op
  BY <1>1, <1>3 DEF OpenCall
<1>5. \A d \in Callers \ {c} : call'[d] = call[d]
  BY <1>2 DEF TypeOK
<1>6. QED BY <1>4, <1>5 DEF Op, Key

LEMMA EndEffect ==
    ASSUME TypeOK, NEW c \in Callers, call[c] # Idle, NEW s, NEW f, End(c, s, f)
    PROVE  /\ call'[c].stage = s /\ call'[c].final = f
           /\ Op(c)' = Op(c) /\ Key(c)' = Key(c)
           /\ \A d \in Callers \ {c} : call'[d] = call[d]
<1>1. call[c] \in OpenCall
  BY CallShape
<1>2. call' = [call EXCEPT ![c] = [call[c] EXCEPT !.stage = s, !.final = f]]
  BY DEF End
<1>3. call'[c] = [call[c] EXCEPT !.stage = s, !.final = f]
  BY <1>2 DEF TypeOK
<1>4. call'[c].stage = s /\ call'[c].final = f /\ call'[c].op = call[c].op
  BY <1>1, <1>3 DEF OpenCall
<1>5. \A d \in Callers \ {c} : call'[d] = call[d]
  BY <1>2 DEF TypeOK
<1>6. QED BY <1>4, <1>5 DEF Op, Key

LEMMA ReturnEffect ==
    ASSUME TypeOK, NEW c \in Callers, Return(c)
    PROVE  CallKnows(c)' /\ \A d \in Callers \ {c} : call'[d] = call[d]
  BY DEF TypeOK, Return, CallKnows, Ready

\* A settled operation, or one in flight, is never Fresh again.
LEMMA SetEffect ==
    ASSUME TypeOK, NEW c \in Callers, Op(c) \in Ops, NEW st, st \notin Fresh,
           Set(c, st) \/ SetWithKey(c, st)
    PROVE  /\ operation'[Op(c)].status \notin Fresh
           /\ \A op \in Ops : operation[op].status \notin Fresh =>
                                  operation'[op].status \notin Fresh
  BY DEF TypeOK, Set, SetWithKey, OperationRow

\* No transition but the commit books a slot.
LEMMA TransitionEffect ==
    ASSUME TypeOK, NEW o \in Ops, NEW st, Transition(o, st)
    PROVE  \A op \in Ops : reservation'[op].status = "committed" =>
               reservation[op].status = "committed" \/ (op = o /\ st = "committed")
  BY DEF TypeOK, Transition, ReservationRow

LEMMA EnterKeeps ==
    ASSUME TypeOK, KeyInv, NEW c \in Callers, NEW op \in Ops, Enter(c, op)
    PROVE  KeyInv'
<1>1. operation[op].status \in Fresh
  BY DEF Enter, Fresh
<1>2. <<op, c>> \notin rows \cup remote
  <2>1. \A k \in rows \cup remote : operation[k[1]].status \notin Fresh
    BY DEF KeyInv, NotFresh
  <2>2. QED BY <1>1, <2>1
<1>3. call'[c] = [stage |-> "checking", op |-> op, server |-> NoServer, final |-> "pending"]
  BY DEF Enter, TypeOK
<1>4. call'[c].stage = "checking" /\ Key(c)' = <<op, c>>
  BY <1>3 DEF Key, Op
<1>5. CallKnows(c)'
  BY <1>2, <1>4 DEF CallKnows, Enter
<1>6. \A d \in Callers \ {c} : call'[d] = call[d]
  BY DEF Enter, TypeOK
<1>7. \A o \in Ops : operation[o].status \notin Fresh => operation'[o].status \notin Fresh
  BY <1>1 DEF Enter, TypeOK
<1>8. UNCHANGED <<rows, remote, reservation>>
  BY DEF Enter
<1>9. QED BY <1>5, <1>6, <1>7, <1>8, CallRowsStep

LEMMA ForwardKeeps ==
    ASSUME TypeOK, KeyInv, NEW c \in Callers, Forward(c)
    PROVE  KeyInv'
<1> USE DEF At
<1>0. ASSUME call[c] # Idle
      PROVE  Op(c) \in Ops /\ CallKnows(c) /\ Key(c) = <<Op(c), c>>
  BY <1>0, CallShape DEF KeyInv, Key
<1>1. ASSUME NEW op \in Ops, Enter(c, op)
      PROVE  KeyInv'
  BY <1>1, EnterKeeps
<1>2. CASE Check(c)
  <2>1. UNCHANGED <<rows, remote, operation, reservation>>
    BY <1>2 DEF Check
  <2>2. CASE GoOn(c, "selecting")
    <3>1. CallKnows(c)'
      BY <1>2, <1>0, <2>1, <2>2, GoOnEffect DEF Check, CallKnows, Early, Ready
    <3>2. QED BY <1>2, <1>0, <2>1, <2>2, <3>1, GoOnEffect, CallRowsStep DEF Check
  <2>3. CASE End(c, "settling", "failed")
    <3>1. CallKnows(c)'
      BY <1>2, <1>0, <2>1, <2>3, EndEffect DEF Check, CallKnows, Early, Ready, Settled
    <3>2. QED BY <1>2, <1>0, <2>1, <2>3, <3>1, EndEffect, CallRowsStep DEF Check
  <2>4. QED BY <1>2, <2>2, <2>3 DEF Check
<1>3. ASSUME NEW s \in Servers, Select(c, s)
      PROVE  KeyInv'
  <2>1. UNCHANGED <<rows, remote, reservation>> /\ Set(c, "selecting_server")
    BY <1>3 DEF Select
  <2>2. call[c] \in OpenCall
    BY <1>3, CallShape DEF Select
  <2>3. call'[c] = [call[c] EXCEPT !.stage = AfterSelection(Op(c)), !.server = s]
    BY <1>3 DEF Select, TypeOK
  <2>4. call'[c].stage \in {"reserving", "revalidating"} /\ call'[c].op = call[c].op
    BY <2>2, <2>3 DEF OpenCall, AfterSelection
  <2>5. Op(c)' = Op(c) /\ Key(c)' = Key(c)
    BY <2>4 DEF Op, Key
  <2>6. \A d \in Callers \ {c} : call'[d] = call[d]
    BY <1>3 DEF Select, TypeOK
  <2>7. /\ operation'[Op(c)].status \notin Fresh
        /\ \A op \in Ops : operation[op].status \notin Fresh =>
                               operation'[op].status \notin Fresh
    BY <1>3, <1>0, <2>1, SetEffect DEF Select, Fresh
  <2>8. CallKnows(c)'
    BY <1>3, <1>0, <2>1, <2>4, <2>5, <2>7 DEF Select, CallKnows, Early, Ready
  <2>9. QED BY <1>3, <1>0, <2>1, <2>6, <2>7, <2>8, CallRowsStep DEF Select
<1>4. CASE SelectNone(c)
  <2>1. CallKnows(c)'
    BY <1>4, <1>0, EndEffect DEF SelectNone, CallKnows, Early, Ready, Settled
  <2>2. QED BY <1>4, <1>0, <2>1, EndEffect, CallRowsStep DEF SelectNone
<1>5. CASE Reserve(c)
  <2>1. UNCHANGED <<rows, remote, operation>>
    BY <1>5 DEF Reserve
  <2>2. \A op \in Ops : reservation'[op].status = "committed" =>
                            reservation[op].status = "committed"
    BY <1>5 DEF Reserve, TypeOK
  <2>3. CASE GoOn(c, "reserved")
    <3>1. CallKnows(c)'
      BY <1>5, <1>0, <2>1, <2>3, GoOnEffect DEF Reserve, CallKnows, Early, Ready
    <3>2. QED BY <1>5, <1>0, <2>1, <2>2, <2>3, <3>1, GoOnEffect, CallRowsStep DEF Reserve
  <2>4. CASE End(c, "settling", "failed")
    <3>1. CallKnows(c)'
      BY <1>5, <1>0, <2>1, <2>4, EndEffect
         DEF Reserve, CallKnows, Early, Ready, Settled
    <3>2. QED BY <1>5, <1>0, <2>1, <2>2, <2>4, <3>1, EndEffect, CallRowsStep DEF Reserve
  <2>5. QED BY <1>5, <2>3, <2>4 DEF Reserve
<1>6. CASE ReserveShared(c)
  <2>1. CallKnows(c)'
    BY <1>6, <1>0, GoOnEffect DEF ReserveShared, CallKnows, Early, Ready
  <2>2. QED BY <1>6, <1>0, <2>1, GoOnEffect, CallRowsStep DEF ReserveShared
<1>7. CASE ReserveAgain(c)
  <2>1. UNCHANGED <<rows, remote, operation, reservation>>
    BY <1>7 DEF ReserveAgain
  <2>2. CASE Return(c)
    BY <1>7, <1>0, <2>1, <2>2, ReturnEffect, CallRowsStep DEF ReserveAgain
  <2>3. CASE End(c, "settling", "failed")
    <3>1. CallKnows(c)'
      BY <1>7, <1>0, <2>1, <2>3, EndEffect
         DEF ReserveAgain, CallKnows, Early, Ready, Settled
    <3>2. QED BY <1>7, <1>0, <2>1, <2>3, <3>1, EndEffect, CallRowsStep DEF ReserveAgain
  <2>4. QED BY <1>7, <2>2, <2>3 DEF ReserveAgain
<1>8. CASE MarkReserved(c)
  <2>1. /\ operation'[Op(c)].status \notin Fresh
        /\ \A op \in Ops : operation[op].status \notin Fresh =>
                               operation'[op].status \notin Fresh
    BY <1>8, <1>0, SetEffect DEF MarkReserved, Fresh
  <2>2. CallKnows(c)'
    BY <1>8, <1>0, <2>1, GoOnEffect DEF MarkReserved, CallKnows, Early, Ready
  <2>3. QED BY <1>8, <1>0, <2>1, <2>2, GoOnEffect, CallRowsStep DEF MarkReserved
<1>9. CASE Revalidate(c)
  <2>1. /\ operation'[Op(c)].status \notin Fresh
        /\ \A op \in Ops : operation[op].status \notin Fresh =>
                               operation'[op].status \notin Fresh
    BY <1>9, <1>0, SetEffect DEF Revalidate, Fresh
  <2>2. CallKnows(c)'
    BY <1>9, <1>0, <2>1, GoOnEffect DEF Revalidate, CallKnows, Early, Ready
  <2>3. QED BY <1>9, <1>0, <2>1, <2>2, GoOnEffect, CallRowsStep DEF Revalidate
<1>10. CASE Unusable(c)
  <2>1. CallKnows(c)'
    BY <1>10, <1>0, EndEffect DEF Unusable, CallKnows, Early, Ready, Settled
  <2>2. QED BY <1>10, <1>0, <2>1, EndEffect, CallRowsStep DEF Unusable
<1>11. CASE CreateKey(c)
  <2>1. operation[Op(c)].status \notin Fresh /\ Key(c) \notin rows
    BY <1>11, <1>0 DEF CreateKey, CallKnows, Early, Ready
  <2>2. UNCHANGED <<operation, reservation, rows>> /\ remote' = remote \cup {Key(c)}
    BY <1>11 DEF CreateKey
  <2>3. CallKnows(c)'
    BY <1>11, <1>0, <2>1, <2>2, GoOnEffect DEF CreateKey, CallKnows, Early, Ready
  <2>4. QED BY <1>11, <1>0, <2>1, <2>2, <2>3, GoOnEffect, CallStep DEF CreateKey
<1>12. ASSUME NEW final \in {"failed", "unknown"}, NEW made \in BOOLEAN,
              CreateFails(c, final, made)
       PROVE  KeyInv'
  <2>1. operation[Op(c)].status \notin Fresh
    BY <1>12, <1>0 DEF CreateFails, CallKnows, Early, Ready
  <2>2. /\ UNCHANGED <<operation, reservation, rows>>
        /\ remote \subseteq remote' /\ remote' \subseteq remote \cup {Key(c)}
    BY <1>12 DEF CreateFails
  <2>3. CallKnows(c)'
    BY <1>12, <1>0, <2>1, <2>2, EndEffect DEF CreateFails, CallKnows, Early, Ready, Settled
  <2>4. QED BY <1>12, <1>0, <2>1, <2>2, <2>3, EndEffect, CallStep DEF CreateFails
<1>13. CASE Record(c)
  <2>1. /\ operation'[Op(c)].status \notin Fresh
        /\ \A op \in Ops : operation[op].status \notin Fresh =>
                               operation'[op].status \notin Fresh
    BY <1>13, <1>0, SetEffect DEF Record, Fresh
  <2>2. CallKnows(c)'
    BY <1>13, <1>0, <2>1, GoOnEffect DEF Record, CallKnows, Early, Ready
  <2>3. QED BY <1>13, <1>0, <2>1, <2>2, GoOnEffect, CallRowsStep DEF Record
<1>14. CASE Persist(c)
  <2>1. operation[Op(c)].status \notin Fresh /\ Key(c) \in remote
    BY <1>14, <1>0 DEF Persist, CallKnows, Ready
  <2>2. UNCHANGED <<operation, reservation, remote>> /\ rows' = rows \cup {Key(c)}
    BY <1>14 DEF Persist
  <2>3. CallKnows(c)'
    BY <1>14, <1>0, <2>1, <2>2, GoOnEffect DEF Persist, CallKnows, Early, Ready
  <2>4. GoOn(c, "completing") /\ call[c] # Idle
    BY <1>14 DEF Persist
  <2>5. QED BY <1>0, <2>1, <2>2, <2>3, <2>4, GoOnEffect, CallStep
<1>15. CASE PersistFails(c)
  <2>1. CallKnows(c)'
    BY <1>15, <1>0, GoOnEffect DEF PersistFails, CallKnows, Early, Ready
  <2>2. QED BY <1>15, <1>0, <2>1, GoOnEffect, CallRowsStep DEF PersistFails
<1>16. CASE Complete(c)
  <2>1. /\ operation'[Op(c)].status \notin Fresh
        /\ \A op \in Ops : operation[op].status \notin Fresh =>
                               operation'[op].status \notin Fresh
    BY <1>16, <1>0, SetEffect DEF Complete, Fresh
  <2>2. CallKnows(c)'
    BY <1>16, <1>0, <2>1, GoOnEffect DEF Complete, CallKnows, Early, Ready
  <2>3. QED BY <1>16, <1>0, <2>1, <2>2, GoOnEffect, CallRowsStep DEF Complete
<1>17. CASE Commit(c)
  <2>1. Key(c) \in rows \cap remote
    BY <1>17, <1>0 DEF Commit, CallKnows, Ready
  <2>2. \A op \in Ops : reservation'[op].status = "committed" =>
            reservation[op].status = "committed" \/ op = Op(c)
    BY <1>17, <1>0, TransitionEffect DEF Commit
  <2>3. UNCHANGED <<rows, remote, operation>>
    BY <1>17 DEF Commit
  <2>4. CallKnows(c)' /\ \A d \in Callers \ {c} : call'[d] = call[d]
    BY <1>17, ReturnEffect DEF Commit
  <2>5. QED BY <1>17, <1>0, <2>1, <2>2, <2>3, <2>4, CallRowsStep DEF Commit
<1>18. QED
  BY <1>1, <1>2, <1>3, <1>4, <1>5, <1>6, <1>7, <1>8, <1>9, <1>10, <1>11, <1>12,
     <1>13, <1>14, <1>15, <1>16, <1>17 DEF Forward

LEMMA BackwardKeeps ==
    ASSUME TypeOK, KeyInv, NEW c \in Callers, Backward(c)
    PROVE  KeyInv'
<1> USE DEF At
<1>0. ASSUME call[c] # Idle
      PROVE  Op(c) \in Ops /\ CallKnows(c) /\ Key(c) = <<Op(c), c>>
  BY <1>0, CallShape DEF KeyInv, Key
<1>1. ASSUME NEW deleted \in BOOLEAN, Compensate(c) \/ CompensationFails(c, deleted)
      PROVE  KeyInv'
  <2>1. operation[Op(c)].status \notin Fresh /\ Key(c) \notin rows /\ call[c] # Idle
    BY <1>1, <1>0 DEF Compensate, CompensationFails, CallKnows, Ready
  <2>2. /\ UNCHANGED <<operation, reservation, rows>>
        /\ remote' \subseteq remote /\ remote \ {Key(c)} \subseteq remote'
    BY <1>1 DEF Compensate, CompensationFails
  <2>3. End(c, "releasing", "failed") \/ End(c, "giving_up", "compensation_required")
    BY <1>1 DEF Compensate, CompensationFails
  <2>4. CallKnows(c)'
    BY <1>0, <2>1, <2>2, <2>3, EndEffect DEF CallKnows, Early, Ready, Settled
  <2>5. \A d \in Callers \ {c} : call'[d] = call[d]
    BY <2>1, <2>3, EndEffect
  <2>6. QED BY <1>0, <2>1, <2>2, <2>4, <2>5, CallStep
<1>2. CASE GiveUp(c)
  <2>1. /\ operation'[Op(c)].status \notin Fresh
        /\ \A op \in Ops : operation[op].status \notin Fresh =>
                               operation'[op].status \notin Fresh
    BY <1>2, <1>0, SetEffect DEF GiveUp, Fresh
  <2>2. CallKnows(c)'
    BY <1>2, <1>0, <2>1, GoOnEffect DEF GiveUp, CallKnows, Early, Ready
  <2>3. QED BY <1>2, <1>0, <2>1, <2>2, GoOnEffect, CallRowsStep DEF GiveUp
<1>3. CASE Release(c)
  <2>1. \A op \in Ops : reservation'[op].status = "committed" =>
                            reservation[op].status = "committed"
    BY <1>3, <1>0, TransitionEffect DEF Release
  <2>2. UNCHANGED <<rows, remote, operation>>
    BY <1>3 DEF Release
  <2>3. CASE Return(c)
    BY <1>3, <1>0, <2>1, <2>2, <2>3, ReturnEffect, CallRowsStep DEF Release
  <2>4. CASE GoOn(c, "settling")
    <3>1. CallKnows(c)'
      BY <1>3, <1>0, <2>2, <2>4, GoOnEffect DEF Release, CallKnows, Early, Ready
    <3>2. QED BY <1>3, <1>0, <2>1, <2>2, <2>4, <3>1, GoOnEffect, CallRowsStep DEF Release
  <2>5. QED BY <1>3, <2>3, <2>4 DEF Release
<1>4. CASE Settle(c)
  <2>1. call[c].final \in Settled
    BY <1>4, <1>0 DEF Settle, CallKnows, Ready
  <2>2. \A op \in Ops : operation[op].status \notin Fresh =>
                            operation'[op].status \notin Fresh
    BY <1>4, <1>0, <2>1, SetEffect DEF Settle, Fresh, Settled
  <2>3. CallKnows(c)' /\ \A d \in Callers \ {c} : call'[d] = call[d]
    BY <1>4, ReturnEffect DEF Settle
  <2>4. QED BY <1>4, <1>0, <2>2, <2>3, CallRowsStep DEF Settle
<1>5. QED BY <1>1, <1>2, <1>3, <1>4 DEF Backward

LEMMA KeyStep == TypeOK /\ KeyInv /\ [Next]_vars => (TypeOK /\ KeyInv)'
<1> SUFFICES ASSUME TypeOK, KeyInv, [Next]_vars
             PROVE  KeyInv'
    BY TypeStep
<1>1. ASSUME NEW c \in Callers, Crash(c)
      PROVE  KeyInv'
  <2>1. CallKnows(c)' /\ \A d \in Callers \ {c} : call'[d] = call[d]
    BY <1>1, ReturnEffect DEF Crash
  <2>2. \A d \in Callers : CallKnows(d)'
    BY <1>1, <2>1 DEF Crash, KeyInv, CallKnows, Ready, Op, Key
  <2>3. QED BY <1>1, <2>2 DEF Crash, KeyInv, NotFresh, CommittedHasKey
<1>2. ASSUME NEW o \in Orders, Refund(o)
      PROVE  KeyInv'
  BY <1>2 DEF Refund, KeyInv, CallKnows, NotFresh, CommittedHasKey, Ready, Op, Key
<1>3. ASSUME NEW op \in Ops, TimePasses(op)
      PROVE  KeyInv'
  <2>1. \A o \in Ops : reservation'[o].status = "committed" =>
                           reservation[o].status = "committed"
    BY <1>3 DEF TimePasses, TypeOK, ReservationRow
  <2>2. QED
    BY <1>3, <2>1
       DEF TimePasses, KeyInv, CallKnows, NotFresh, CommittedHasKey, Ready, Op, Key
<1>4. CASE ExpireReservations
  <2>1. \A o \in Ops : reservation'[o].status = "committed" =>
                           reservation[o].status = "committed"
    BY <1>4 DEF ExpireReservations, TypeOK, ReservationRow
  <2>2. QED
    BY <1>4, <2>1
       DEF ExpireReservations, KeyInv, CallKnows, NotFresh, CommittedHasKey, Ready, Op, Key
<1>5. CASE UNCHANGED vars
  BY <1>5 DEF vars, KeyInv, CallKnows, NotFresh, CommittedHasKey, Ready, Op, Key
<1>6. QED BY <1>1, <1>2, <1>3, <1>4, <1>5, ForwardKeeps, BackwardKeeps DEF Next

LEMMA KeyInvariant == Spec => [](TypeOK /\ KeyInv)
<1>1. Init => TypeOK /\ KeyInv
  BY DEF Init, TypeOK, KeyInv, CallKnows, NotFresh, CommittedHasKey, Ready,
         OperationRow, ReservationRow, OrderRow
<1>2. QED BY <1>1, KeyStep, PTL DEF Spec

\* Whoever else works on the operation, dies, or cleans up: a slot is booked for
\* good only for an operation whose key exists and has its row
\* (vpn_provisioning_service.py: the commit comes after _persist, and only a key
\* without a row is deleted again).
THEOREM KeysCommitted == Spec => []CommittedHasKey
<1>1. KeyInv => CommittedHasKey
  BY DEF KeyInv
<1>2. QED BY <1>1, KeyInvariant, PTL

-----------------------------------------------------------------------------
\* Calls that are open at the same time are for operations that may be shared.
Apart ==
    \A c, d \in Callers : c # d /\ ~Ready(c) /\ ~Ready(d) => {Op(c), Op(d)} \subseteq Shared

\* The operation of a call that is alone with it, by the stage of the call.
StatusAt(c) ==
    LET row == operation[Op(c)]
        s == call[c].stage
        toBeRemoved == call[c].final = "compensation_required"
    IN
      /\ s \in {"checking", "selecting"} => row.status = "pending"
      /\ s \in {"reserving", "reserved"} => row.status = "selecting_server"
      /\ s = "revalidating" => row.status \in {"selecting_server", "reserved"}
      /\ s \in {"creating", "recording"} => row.status = "creating_remote_key"
      /\ s \in {"persisting", "compensating", "completing", "giving_up"} =>
            row.status = "remote_key_created" /\ row.key = Key(c)
      /\ s = "committing" => row.status = "completed"
      /\ s = "giving_up" => toBeRemoved
      /\ s = "releasing" /\ toBeRemoved =>
            row.status = "compensation_required" /\ row.key = Key(c)
      /\ s = "settling" \/ (s = "releasing" /\ ~toBeRemoved) =>
            row.status \notin Settled /\ Key(c) \notin remote \ silent

AloneKnows(c) ==
    ~Ready(c) /\ Op(c) \notin Shared =>
        /\ StatusAt(c)
        /\ \A k \in remote : k[1] = Op(c) => k = Key(c)

Traceable(k) ==
    \/ k \in rows
    \/ operation[k[1]].status = "creating_remote_key"
    \/ /\ operation[k[1]].status \in {"remote_key_created", "compensation_required"}
       /\ operation[k[1]].key = k

TraceInv ==
    /\ Apart
    /\ \A c \in Callers : AloneKnows(c)
    /\ KeyIsTraceable

SettledStays(op) == operation[op].status \in Settled => operation'[op] = operation[op]

TraceStep == TraceInv' /\ \A op \in Ops \ Shared : SettledStays(op)

\* A step of an open call has to say what becomes of its own operation and key, if
\* they are not shared.
LEMMA OwnStep ==
    ASSUME TypeOK, TypeOK', TraceInv, NEW c \in Callers, call[c] # Idle,
           NEW o \in Ops, o = Op(c),
           \A d \in Callers \ {c} : call'[d] = call[d],
           call'[c] = Idle \/ Op(c)' = o,
           \A op \in Ops : op # o => operation'[op] = operation[op],
           rows \subseteq rows', silent \subseteq silent',
           remote' \subseteq remote \cup {<<o, c>>},
           o \notin Shared => /\ call'[c] # Idle => StatusAt(c)'
                              /\ <<o, c>> \in remote' \ silent' => Traceable(<<o, c>>)'
                              /\ SettledStays(o)
    PROVE  TraceStep
<1>1. Apart'
  BY DEF TraceInv, Apart, Ready, Op
<1>2. ASSUME NEW d \in Callers, d # c
      PROVE  AloneKnows(d)'
  <2>1. call[d] # Idle => Op(d) \in Shared
    BY <1>2 DEF TraceInv, Apart, Ready
  <2>2. QED BY <1>2, <2>1 DEF AloneKnows, Ready, Op
<1>3. o \notin Shared => \A k \in remote : k[1] = o => k = <<o, c>>
  BY DEF TraceInv, AloneKnows, Ready, Key
<1>4. AloneKnows(c)'
  <2> SUFFICES ASSUME call'[c] # Idle, o \notin Shared
               PROVE  StatusAt(c)' /\ \A k \in remote' : k[1] = o => k = Key(c)'
    BY DEF AloneKnows, Ready
  <2>1. Key(c)' = <<o, c>>
    BY DEF Key, Op
  <2>2. QED BY <1>3, <2>1
<1>5. KeyIsTraceable'
  <2> SUFFICES ASSUME NEW k \in remote' \ silent', k[1] \notin Shared
               PROVE  Traceable(k)'
    BY DEF KeyIsTraceable, Traceable
  <2>1. k[1] \in Ops
    BY DEF TypeOK, Keys
  <2>2. CASE k = <<o, c>>
    BY <2>2
  <2>3. CASE k # <<o, c>>
    <3>1. k \in remote \ silent /\ k[1] # o
      BY <1>3, <2>3
    <3>2. Traceable(k)
      BY <3>1 DEF TraceInv, KeyIsTraceable, Traceable
    <3>3. QED BY <2>1, <3>1, <3>2 DEF Traceable
  <2>4. QED BY <2>2, <2>3
<1>6. QED BY <1>1, <1>2, <1>4, <1>5 DEF TraceStep, TraceInv, SettledStays

\* A step of an open call that leaves operations and keys alone.
LEMMA OwnQuietStep ==
    ASSUME TypeOK, TypeOK', TraceInv, NEW c \in Callers, call[c] # Idle,
           \A d \in Callers \ {c} : call'[d] = call[d],
           call'[c] = Idle \/ Op(c)' = Op(c),
           UNCHANGED <<operation, rows, remote, silent>>,
           Op(c) \notin Shared /\ call'[c] # Idle => StatusAt(c)'
    PROVE  TraceStep
<1>1. PICK o \in Ops : o = Op(c)
  BY CallShape
<1>2. o \notin Shared /\ <<o, c>> \in remote' \ silent' => Traceable(<<o, c>>)'
  BY DEF TraceInv, KeyIsTraceable, Traceable
<1>3. SettledStays(o)
  BY DEF SettledStays
<1>4. call'[c] = Idle \/ Op(c)' = o
  BY <1>1
<1>5. QED BY <1>1, <1>2, <1>3, <1>4, OwnStep

\* What an update writes.
LEMMA SetWrites ==
    ASSUME TypeOK, NEW c \in Callers, NEW o \in Ops, o = Op(c), NEW st
    PROVE  /\ Set(c, st) => /\ operation'[o].status = st /\ operation'[o].key = operation[o].key
                            /\ \A op \in Ops : op # o => operation'[op] = operation[op]
           /\ SetWithKey(c, st) => /\ operation'[o].status = st /\ operation'[o].key = <<o, c>>
                                   /\ \A op \in Ops : op # o => operation'[op] = operation[op]
<1>1. operation \in [Ops -> OperationRow] /\ operation[o] \in OperationRow
  BY DEF TypeOK
<1>2. Set(c, st) => /\ operation'[o].status = st /\ operation'[o].key = operation[o].key
                    /\ \A op \in Ops : op # o => operation'[op] = operation[op]
  BY <1>1 DEF Set, OperationRow
<1>3. SetWithKey(c, st) => /\ operation'[o].status = st /\ operation'[o].key = <<o, c>>
                           /\ \A op \in Ops : op # o => operation'[op] = operation[op]
  BY <1>1 DEF SetWithKey, Key
<1>4. QED BY <1>2, <1>3

\* A new call is apart from the others and finds no key of its operation.
LEMMA EnterTraces ==
    ASSUME TypeOK, KeyInv, TraceInv, NEW c \in Callers, NEW o \in Ops, Enter(c, o)
    PROVE  TraceStep
<1>1. call'[c] = [stage |-> "checking", op |-> o, server |-> NoServer, final |-> "pending"]
  BY DEF Enter, TypeOK
<1>2. call'[c].stage = "checking" /\ Op(c)' = o
  BY <1>1 DEF Op
<1>3. \A d \in Callers \ {c} : call'[d] = call[d]
  BY DEF Enter, TypeOK
<1>4. /\ operation'[o].status = "pending"
      /\ \A op \in Ops : op # o => operation'[op] = operation[op]
  BY DEF Enter, TypeOK, OperationRow
<1>5. UNCHANGED <<rows, remote, silent>> /\ operation[o].status \in Fresh
  BY DEF Enter, Fresh
<1>6. \A k \in rows \cup remote : k[1] # o
  BY <1>5 DEF KeyInv, NotFresh
<1>7. \A d \in Callers \ {c} : call[d] # Idle => {o, Op(d)} \subseteq Shared
  BY DEF Enter, MayStart, Ready
<1>8. Apart'
  <2> SUFFICES ASSUME NEW a \in Callers, NEW b \in Callers, a # b,
                      call'[a] # Idle, call'[b] # Idle
               PROVE  {Op(a)', Op(b)'} \subseteq Shared
    BY DEF Apart, Ready
  <2>1. CASE a # c /\ b # c
    BY <1>3, <2>1 DEF TraceInv, Apart, Ready, Op
  <2>2. CASE a = c
    BY <1>2, <1>3, <1>7, <2>2 DEF Op
  <2>3. CASE b = c
    BY <1>2, <1>3, <1>7, <2>3 DEF Op
  <2>4. QED BY <2>1, <2>2, <2>3
<1>9. AloneKnows(c)'
  BY <1>2, <1>4, <1>5, <1>6 DEF AloneKnows, StatusAt
<1>10. ASSUME NEW d \in Callers, d # c
       PROVE  AloneKnows(d)'
  BY <1>3, <1>7, <1>10 DEF AloneKnows, Ready, Op
<1>11. KeyIsTraceable'
  <2> SUFFICES ASSUME NEW k \in remote \ silent, k[1] \notin Shared
               PROVE  Traceable(k)'
    BY <1>5 DEF KeyIsTraceable, Traceable
  <2>1. k[1] \in Ops /\ k[1] # o /\ Traceable(k)
    BY <1>6 DEF TypeOK, Keys, TraceInv, KeyIsTraceable, Traceable
  <2>2. QED BY <1>4, <1>5, <2>1 DEF Traceable
<1>12. \A op \in Ops : SettledStays(op)
  BY <1>4, <1>5 DEF SettledStays, Fresh, Settled
<1>13. QED BY <1>8, <1>9, <1>10, <1>11, <1>12 DEF TraceStep, TraceInv

\* Every other step of a call, by what it writes.
LEMMA OwnTraces ==
    ASSUME TypeOK, TypeOK', KeyInv, TraceInv, NEW c \in Callers, call[c] # Idle,
           Forward(c) \/ Backward(c) \/ Crash(c)
    PROVE  TraceStep
<1> USE DEF At
<1>0. PICK o \in Ops : o = Op(c)
  BY CallShape
<1>1. /\ Key(c) = <<o, c>> /\ CallKnows(c)
      /\ o \notin Shared => StatusAt(c)
      /\ <<o, c>> \in remote \ silent /\ o \notin Shared => Traceable(<<o, c>>)
  BY <1>0 DEF Key, KeyInv, TraceInv, AloneKnows, Ready, KeyIsTraceable, Traceable
<1>2. ASSUME NEW op \in Ops, Enter(c, op)
      PROVE  TraceStep
  BY <1>2 DEF Enter, MayStart, Ready
<1>3. CASE Return(c) /\ UNCHANGED <<operation, rows, remote, silent>>
  <2>1. call'[c] = Idle
    BY <1>3 DEF Return, TypeOK
  <2>2. QED BY <1>3, <2>1, ReturnEffect, OwnQuietStep
<1>4. CASE Check(c) \/ SelectNone(c)
  <2>1. GoOn(c, "selecting") \/ End(c, "settling", "failed")
    BY <1>4 DEF Check, SelectNone
  <2>2. call[c].stage \in {"checking", "selecting"}
    BY <1>4 DEF Check, SelectNone
  <2>3. UNCHANGED <<operation, rows, remote, silent>>
    BY <1>4 DEF Check, SelectNone
  <2>4. <<o, c>> \notin remote
    BY <1>1, <2>2 DEF CallKnows, Early, Ready
  <2>5. o \notin Shared => StatusAt(c)'
    BY <1>0, <1>1, <2>1, <2>2, <2>3, <2>4, GoOnEffect, EndEffect DEF StatusAt, Settled
  <2>6. QED BY <1>0, <2>1, <2>3, <2>5, GoOnEffect, EndEffect, OwnQuietStep
<1>5. ASSUME NEW s \in Servers, Select(c, s)
      PROVE  TraceStep
  <2>1. call[c] \in OpenCall
    BY CallShape
  <2>2. call'[c] = [call[c] EXCEPT !.stage = AfterSelection(Op(c)), !.server = s]
    BY <1>5 DEF Select, TypeOK
  <2>3. call'[c].stage \in {"reserving", "revalidating"} /\ call'[c].op = call[c].op
    BY <2>1, <2>2 DEF OpenCall, AfterSelection
  <2>4. Op(c)' = o
    BY <1>0, <2>3 DEF Op
  <2>5. \A d \in Callers \ {c} : call'[d] = call[d]
    BY <1>5 DEF Select, TypeOK
  <2>6. /\ operation'[o].status = "selecting_server"
        /\ \A op \in Ops : op # o => operation'[op] = operation[op]
    BY <1>0, <1>5, SetWrites DEF Select
  <2>7. UNCHANGED <<rows, remote, silent>> /\ call[c].stage = "selecting"
    BY <1>5 DEF Select
  <2>8. StatusAt(c)'
    BY <2>3, <2>4, <2>6 DEF StatusAt
  <2>9. <<o, c>> \notin remote
    BY <1>1, <2>7 DEF CallKnows, Early, Ready
  <2>10. o \notin Shared => SettledStays(o)
    BY <1>0, <1>1, <2>7 DEF StatusAt, SettledStays, Settled
  <2>11. QED BY <1>0, <2>4, <2>5, <2>6, <2>7, <2>8, <2>9, <2>10, OwnStep
<1>6. CASE Reserve(c) \/ ReserveShared(c) \/ ReserveAgain(c)
  <2>1. GoOn(c, "reserved") \/ End(c, "settling", "failed") \/ Return(c)
    BY <1>6 DEF Reserve, ReserveShared, ReserveAgain
  <2>2. call[c].stage = "reserving" /\ UNCHANGED <<operation, rows, remote, silent>>
    BY <1>6 DEF Reserve, ReserveShared, ReserveAgain
  <2>3. <<o, c>> \notin remote
    BY <1>1, <2>2 DEF CallKnows, Early, Ready
  <2>4. CASE ~Return(c)
    <3>1. o \notin Shared => StatusAt(c)'
      BY <1>0, <1>1, <2>1, <2>2, <2>3, <2>4, GoOnEffect, EndEffect DEF StatusAt, Settled
    <3>2. QED BY <1>0, <2>1, <2>2, <2>4, <3>1, GoOnEffect, EndEffect, OwnQuietStep
  <2>5. QED BY <1>3, <2>2, <2>4
<1>7. CASE MarkReserved(c) \/ Revalidate(c)
  <2>1. PICK s \in {"reserved", "creating_remote_key"}, t \in {"revalidating", "creating"} :
            /\ Set(c, s) /\ GoOn(c, t)
            /\ t = "creating" <=> s = "creating_remote_key"
    BY <1>7 DEF MarkReserved, Revalidate
  <2>2. call[c].stage \in {"reserved", "revalidating"} /\ UNCHANGED <<rows, remote, silent>>
    BY <1>7 DEF MarkReserved, Revalidate
  <2>3. operation'[o].status = s /\ \A op \in Ops : op # o => operation'[op] = operation[op]
    BY <1>0, <2>1, SetWrites
  <2>4. /\ call'[c].stage = t /\ Op(c)' = o
        /\ \A d \in Callers \ {c} : call'[d] = call[d]
    BY <1>0, <2>1, GoOnEffect
  <2>5. StatusAt(c)'
    BY <2>1, <2>3, <2>4 DEF StatusAt
  <2>6. <<o, c>> \notin remote
    BY <1>1, <2>2 DEF CallKnows, Early, Ready
  <2>7. o \notin Shared => SettledStays(o)
    BY <1>0, <1>1, <2>2 DEF StatusAt, SettledStays, Settled
  <2>8. QED BY <1>0, <2>2, <2>3, <2>4, <2>5, <2>6, <2>7, OwnStep
<1>8. CASE Unusable(c)
  <2>1. /\ call[c].stage = "revalidating" /\ End(c, "releasing", "failed")
        /\ UNCHANGED <<operation, rows, remote, silent>>
    BY <1>8 DEF Unusable
  <2>2. <<o, c>> \notin remote
    BY <1>1, <2>1 DEF CallKnows, Early, Ready
  <2>3. o \notin Shared => StatusAt(c)'
    BY <1>0, <1>1, <2>1, <2>2, EndEffect DEF StatusAt, Settled
  <2>4. QED BY <1>0, <2>1, <2>3, EndEffect, OwnQuietStep
<1>9. CASE CreateKey(c)
  <2>1. /\ call[c].stage = "creating" /\ GoOn(c, "recording")
        /\ UNCHANGED <<operation, rows, silent>> /\ remote' = remote \cup {<<o, c>>}
    BY <1>1, <1>9 DEF CreateKey
  <2>2. o \notin Shared => operation[o].status = "creating_remote_key"
    BY <1>0, <1>1, <2>1 DEF StatusAt
  <2>3. o \notin Shared => StatusAt(c)'
    BY <1>0, <2>1, <2>2, GoOnEffect DEF StatusAt
  <2>4. o \notin Shared => Traceable(<<o, c>>)'
    BY <2>1, <2>2 DEF Traceable
  <2>5. SettledStays(o)
    BY <2>1 DEF SettledStays
  <2>6. QED BY <1>0, <2>1, <2>3, <2>4, <2>5, GoOnEffect, OwnStep
<1>10. ASSUME NEW final \in {"failed", "unknown"}, NEW made \in BOOLEAN,
              CreateFails(c, final, made)
       PROVE  TraceStep
  <2>1. /\ call[c].stage = "creating" /\ End(c, "releasing", final)
        /\ UNCHANGED <<operation, rows>>
        /\ silent \subseteq silent' /\ remote' \subseteq remote \cup {<<o, c>>}
    BY <1>1, <1>10 DEF CreateFails
  <2>2. <<o, c>> \notin remote
    BY <1>1, <2>1 DEF CallKnows, Early, Ready
  <2>3. <<o, c>> \notin remote' \ silent'
    BY <1>1, <1>10, <2>2 DEF CreateFails
  <2>4. o \notin Shared => StatusAt(c)'
    BY <1>0, <1>1, <2>1, <2>3, EndEffect DEF StatusAt, Settled
  <2>5. SettledStays(o)
    BY <2>1 DEF SettledStays
  <2>6. QED BY <1>0, <2>1, <2>3, <2>4, <2>5, EndEffect, OwnStep
<1>11. CASE Record(c) \/ GiveUp(c)
  <2>1. PICK s \in {"remote_key_created", "compensation_required"},
             t \in {"persisting", "releasing"} :
            /\ SetWithKey(c, s) /\ GoOn(c, t)
            /\ t = "persisting" <=> s = "remote_key_created"
            /\ t = "releasing" <=> call[c].stage = "giving_up"
    BY <1>11 DEF Record, GiveUp
  <2>2. call[c].stage \in {"recording", "giving_up"} /\ UNCHANGED <<rows, remote, silent>>
    BY <1>11 DEF Record, GiveUp
  <2>3. /\ operation'[o].status = s /\ operation'[o].key = <<o, c>>
        /\ \A op \in Ops : op # o => operation'[op] = operation[op]
    BY <1>0, <2>1, SetWrites
  <2>4. /\ call'[c].stage = t /\ call'[c].final = call[c].final
        /\ Op(c)' = o /\ Key(c)' = <<o, c>>
        /\ \A d \in Callers \ {c} : call'[d] = call[d]
    BY <1>0, <1>1, <2>1, GoOnEffect
  <2>5. o \notin Shared => StatusAt(c)'
    BY <1>0, <1>1, <2>1, <2>3, <2>4 DEF StatusAt
  <2>6. Traceable(<<o, c>>)'
    BY <2>3 DEF Traceable
  <2>7. o \notin Shared => SettledStays(o)
    BY <1>0, <1>1, <2>2 DEF StatusAt, SettledStays, Settled
  <2>8. QED BY <1>0, <2>2, <2>3, <2>4, <2>5, <2>6, <2>7, OwnStep
<1>12. CASE Persist(c)
  <2>1. /\ call[c].stage = "persisting" /\ GoOn(c, "completing")
        /\ UNCHANGED <<operation, remote, silent>> /\ rows' = rows \cup {<<o, c>>}
    BY <1>1, <1>12 DEF Persist
  <2>2. o \notin Shared => StatusAt(c)'
    BY <1>0, <1>1, <2>1, GoOnEffect DEF StatusAt
  <2>3. Traceable(<<o, c>>)'
    BY <2>1 DEF Traceable
  <2>4. SettledStays(o)
    BY <2>1 DEF SettledStays
  <2>5. QED BY <1>0, <2>1, <2>2, <2>3, <2>4, GoOnEffect, OwnStep
<1>13. CASE PersistFails(c)
  <2>1. /\ call[c].stage = "persisting" /\ GoOn(c, "compensating")
        /\ UNCHANGED <<operation, rows, remote, silent>>
    BY <1>13 DEF PersistFails
  <2>2. o \notin Shared => StatusAt(c)'
    BY <1>0, <1>1, <2>1, GoOnEffect DEF StatusAt
  <2>3. QED BY <1>0, <2>1, <2>2, GoOnEffect, OwnQuietStep
<1>14. CASE Complete(c)
  <2>1. /\ call[c].stage = "completing" /\ GoOn(c, "committing")
        /\ SetWithKey(c, "completed") /\ UNCHANGED <<rows, remote, silent>>
    BY <1>14 DEF Complete
  <2>2. /\ operation'[o].status = "completed"
        /\ \A op \in Ops : op # o => operation'[op] = operation[op]
    BY <1>0, <2>1, SetWrites
  <2>3. StatusAt(c)'
    BY <1>0, <2>1, <2>2, GoOnEffect DEF StatusAt
  <2>4. Traceable(<<o, c>>)'
    BY <1>1, <2>1 DEF Traceable, CallKnows, Ready
  <2>5. o \notin Shared => SettledStays(o)
    BY <1>0, <1>1, <2>1 DEF StatusAt, SettledStays, Settled
  <2>6. QED BY <1>0, <2>1, <2>2, <2>3, <2>4, <2>5, GoOnEffect, OwnStep
<1>15. CASE Compensate(c)
  <2>1. /\ call[c].stage = "compensating" /\ End(c, "releasing", "failed")
        /\ UNCHANGED <<operation, rows, silent>> /\ remote' = remote \ {<<o, c>>}
    BY <1>1, <1>15 DEF Compensate
  <2>2. o \notin Shared => StatusAt(c)'
    BY <1>0, <1>1, <2>1, EndEffect DEF StatusAt, Settled
  <2>3. SettledStays(o)
    BY <2>1 DEF SettledStays
  <2>4. QED BY <1>0, <2>1, <2>2, <2>3, EndEffect, OwnStep
<1>16. ASSUME NEW deleted \in BOOLEAN, CompensationFails(c, deleted)
       PROVE  TraceStep
  <2>1. /\ call[c].stage = "compensating" /\ End(c, "giving_up", "compensation_required")
        /\ UNCHANGED <<operation, rows, silent>> /\ remote' \subseteq remote
    BY <1>1, <1>16 DEF CompensationFails
  <2>2. o \notin Shared => StatusAt(c)'
    BY <1>0, <1>1, <2>1, EndEffect DEF StatusAt
  <2>3. SettledStays(o)
    BY <2>1 DEF SettledStays
  <2>4. o \notin Shared /\ <<o, c>> \in remote' \ silent' => Traceable(<<o, c>>)'
    BY <1>1, <2>1 DEF Traceable
  <2>5. QED BY <1>0, <2>1, <2>2, <2>3, <2>4, EndEffect, OwnStep
<1>17. CASE Release(c)
  <2>1. call[c].stage = "releasing" /\ UNCHANGED <<operation, rows, remote, silent>>
    BY <1>17 DEF Release
  <2>2. CASE call[c].final = "compensation_required"
    BY <1>3, <1>17, <2>1, <2>2 DEF Release
  <2>3. CASE call[c].final # "compensation_required"
    <3>1. GoOn(c, "settling")
      BY <1>17, <2>3 DEF Release
    <3>2. o \notin Shared => StatusAt(c)'
      BY <1>0, <1>1, <2>1, <2>3, <3>1, GoOnEffect DEF StatusAt
    <3>3. QED BY <1>0, <2>1, <3>1, <3>2, GoOnEffect, OwnQuietStep
  <2>4. QED BY <2>2, <2>3
<1>18. CASE Settle(c)
  <2>1. call[c].stage = "settling" /\ UNCHANGED <<rows, remote, silent>>
    BY <1>18 DEF Settle
  <2>2. \A op \in Ops : op # o => operation'[op] = operation[op]
    BY <1>0, <1>18, SetWrites DEF Settle
  <2>3. call'[c] = Idle /\ \A d \in Callers \ {c} : call'[d] = call[d]
    BY <1>18 DEF Settle, Return, TypeOK
  <2>4. o \notin Shared => <<o, c>> \notin remote \ silent /\ SettledStays(o)
    BY <1>0, <1>1, <2>1 DEF StatusAt, SettledStays
  <2>5. QED BY <1>0, <2>1, <2>2, <2>3, <2>4, OwnStep
<1>19. QED
  BY <1>2, <1>3, <1>4, <1>5, <1>6, <1>7, <1>8, <1>9, <1>10, <1>11, <1>12, <1>13, <1>14,
     <1>15, <1>16, <1>17, <1>18
  DEF Forward, Backward, Crash, Commit

LEMMA TraceNext ==
    ASSUME TypeOK, TypeOK', KeyInv, TraceInv, [Next]_vars
    PROVE  TraceStep
<1>1. ASSUME NEW c \in Callers, Forward(c) \/ Backward(c) \/ Crash(c)
      PROVE  TraceStep
  <2>1. CASE call[c] # Idle
    BY <1>1, <2>1, OwnTraces
  <2>2. CASE call[c] = Idle
    <3>1. PICK op \in Ops : Enter(c, op)
      BY <1>1, <2>2
      DEF Forward, Backward, Crash, Ready, At, Check, Select, SelectNone, Reserve,
          ReserveShared, ReserveAgain, MarkReserved, Revalidate, Unusable, CreateKey,
          CreateFails, Record, Persist, PersistFails, Complete, Commit, Compensate,
          CompensationFails, GiveUp, Release, Settle
    <3>2. QED BY <3>1, EnterTraces
  <2>3. QED BY <2>1, <2>2
<1>2. CASE \/ \E o \in Orders : Refund(o)
           \/ \E op \in Ops : TimePasses(op)
           \/ ExpireReservations
           \/ UNCHANGED vars
  <2>1. UNCHANGED <<operation, rows, remote, silent, call>>
    BY <1>2 DEF Refund, TimePasses, ExpireReservations, vars
  <2>2. Apart' /\ KeyIsTraceable'
    BY <2>1 DEF TraceInv, Apart, KeyIsTraceable, Ready, Op
  <2>3. ASSUME NEW c \in Callers
        PROVE  AloneKnows(c)'
    BY <2>1 DEF TraceInv, AloneKnows, StatusAt, Ready, Op, Key
  <2>4. QED BY <2>1, <2>2, <2>3 DEF TraceStep, TraceInv, SettledStays
<1>3. QED BY <1>1, <1>2 DEF Next

LEMMA TraceInvariant == Spec => [](TypeOK /\ KeyInv /\ TraceInv)
<1>1. Init => TraceInv
  BY DEF Init, TraceInv, Apart, AloneKnows, KeyIsTraceable, Ready
<1>2. TypeOK /\ TypeOK' /\ KeyInv /\ TraceInv /\ [Next]_vars => TraceInv'
  BY TraceNext DEF TraceStep
<1>3. QED BY <1>1, <1>2, KeyInvariant, PTL DEF Spec

\* For any operations, callers and servers, whether the process dies, a call raises
\* or the database fails, in any stage: a key that exists on a server and was
\* reported is in vpn_keys, or its operation says that it was made or is being made,
\* unless calls for its operation overlapped (vpn_provisioning_service.py: provision,
\* the order of _set, _persist and the compensation).
THEOREM KeysTraceable == Spec => []KeyIsTraceable
<1>1. TraceInv => KeyIsTraceable
  BY DEF TraceInv
<1>2. QED BY <1>1, TraceInvariant, PTL

\* An operation that no two callers take up stays as it ended
\* (vpn_provisioning_service.py: _get_operation refuses a settled one, and the stage
\* a call has reached says that its own was not settled).
THEOREM SettledForGood == Spec => SettledIsFinal
<1>1. TypeOK /\ TypeOK' /\ KeyInv /\ TraceInv /\ [Next]_vars
        => [\A op \in Ops \ Shared :
               operation[op].status \in Settled => operation'[op] = operation[op]]_vars
  BY TraceNext DEF TraceStep, SettledStays
<1>2. QED BY <1>1, TraceInvariant, PTL DEF Spec, SettledIsFinal

-----------------------------------------------------------------------------
\* Calls for one order overlap only if they are for one operation.
OneSharedPerOrder ==
    \A a, b \in Shared : OrderOf[a] = OrderOf[b] /\ OrderOf[a] # NoOrder => a = b

\* The stages in which a call still believes that its order has no key.
Booking == {"selecting", "reserving", "reserved", "revalidating", "creating",
            "recording", "persisting"}

OrderKnows(c) ==
    LET o == OrderOf[Op(c)]
    IN  ~Ready(c) /\ call[c].stage \in Booking /\ o # NoOrder =>
            \/ order[o].key = NoKey
            \/ Op(c) \in Shared /\ order[o].key[1] = Op(c)

OrderInv == OneKeyPerOrder /\ \A c \in Callers : OrderKnows(c)

\* A step that leaves the rows and the keys of orders alone, and takes its call into
\* none of these stages from outside.
LEMMA OrderQuiet ==
    ASSUME TypeOK, OrderInv, UNCHANGED rows,
           \A o \in Orders : order'[o].key = order[o].key,
           NEW c \in Callers, \A d \in Callers \ {c} : call'[d] = call[d],
           OrderKnows(c)'
    PROVE  OrderInv'
<1>1. ASSUME NEW d \in Callers, d # c
      PROVE  OrderKnows(d)'
  <2>1. OrderKnows(d) /\ call'[d] = call[d]
    BY <1>1 DEF OrderInv
  <2>2. call[d] # Idle => Op(d) \in Ops
    BY CallShape
  <2>3. OrderOf[Op(d)] # NoOrder /\ call[d] # Idle => OrderOf[Op(d)] \in Orders
    BY <2>2, ProvisioningAssumption
  <2>4. QED BY <2>1, <2>3 DEF OrderKnows, Ready, Op
<1>2. OneKeyPerOrder'
  BY DEF OrderInv, OneKeyPerOrder
<1>3. QED BY <1>1, <1>2 DEF OrderInv

LEMMA OrderQuietAll ==
    ASSUME TypeOK, OrderInv, UNCHANGED <<rows, call>>,
           \A o \in Orders : order'[o].key = order[o].key
    PROVE  OrderInv'
<1>1. ASSUME NEW d \in Callers
      PROVE  OrderKnows(d)'
  <2>1. call[d] # Idle => Op(d) \in Ops
    BY CallShape
  <2>2. OrderOf[Op(d)] # NoOrder /\ call[d] # Idle => OrderOf[Op(d)] \in Orders
    BY <2>1, ProvisioningAssumption
  <2>3. OrderKnows(d)
    BY DEF OrderInv
  <2>4. QED BY <2>2, <2>3 DEF OrderKnows, Ready, Op
<1>2. OneKeyPerOrder'
  BY DEF OrderInv, OneKeyPerOrder
<1>3. QED BY <1>1, <1>2 DEF OrderInv

LEMMA OrderOwnStep ==
    ASSUME TypeOK, OrderInv, UNCHANGED <<rows, order>>,
           NEW c \in Callers, \A d \in Callers \ {c} : call'[d] = call[d],
           \/ call'[c] = Idle
           \/ call'[c].stage \notin Booking
           \/ call[c] # Idle /\ call[c].stage \in Booking /\ Op(c)' = Op(c)
    PROVE  OrderInv'
<1>1. OrderKnows(c)'
  BY DEF OrderInv, OrderKnows, Ready
<1>2. QED BY <1>1, OrderQuiet

\* What the steps do to the stage of their call.
LEMMA NotBooking ==
    ASSUME TypeOK, OrderInv, NEW c \in Callers, UNCHANGED <<rows, order>>,
           \/ Return(c)
           \/ \E s \in Stages \ Booking : \/ call[c] # Idle /\ GoOn(c, s)
                                          \/ call[c] # Idle /\ \E f \in Finals : End(c, s, f)
           \/ At(c, call[c].stage) /\ call[c].stage \in Booking /\ \E s : GoOn(c, s)
    PROVE  OrderInv'
<1>1. CASE Return(c)
  BY <1>1, OrderOwnStep DEF Return, TypeOK
<1>2. ASSUME NEW s \in Stages \ Booking, call[c] # Idle, GoOn(c, s)
      PROVE  OrderInv'
  BY <1>2, GoOnEffect, OrderOwnStep
<1>3. ASSUME NEW s \in Stages \ Booking, NEW f \in Finals, call[c] # Idle, End(c, s, f)
      PROVE  OrderInv'
  BY <1>3, EndEffect, OrderOwnStep
<1>4. ASSUME NEW s, call[c] # Idle, call[c].stage \in Booking, GoOn(c, s)
      PROVE  OrderInv'
  BY <1>4, GoOnEffect, OrderOwnStep
<1>5. QED BY <1>1, <1>2, <1>3, <1>4 DEF At

\* The one step that gives an order its key.
LEMMA PersistOrder ==
    ASSUME TypeOK, TypeOK', TraceInv, OrderInv, OneSharedPerOrder,
           NEW c \in Callers, Persist(c)
    PROVE  OrderInv'
<1>1. PICK p \in Ops : p = Op(c)
  BY CallShape DEF Persist, At
<1>2. PICK o \in Orders \cup {NoOrder} : o = OrderOf[p]
  BY ProvisioningAssumption
<1>3. /\ call[c] # Idle /\ call[c].stage = "persisting" /\ GoOn(c, "completing")
      /\ rows' = rows \cup {<<p, c>>} /\ Key(c) = <<p, c>>
  BY <1>1 DEF Persist, At, Key
<1>4. \A d \in Callers \ {c} : call'[d] = call[d]
  BY <1>3, GoOnEffect
<1>5. call'[c].stage \notin Booking
  BY <1>3, GoOnEffect DEF Booking
<1>6. OrderKnows(c)'
  BY <1>5 DEF OrderKnows
<1>7. order' = IF o = NoOrder \/ order[o].key # NoKey THEN order
               ELSE [order EXCEPT ![o] = [status |-> "completed", key |-> <<p, c>>]]
  BY <1>1, <1>2, <1>3 DEF Persist
<1>8. <<p, c>> # NoKey
  BY ProvisioningAssumption
<1>9. CASE o = NoOrder
  <2>1. UNCHANGED order
    BY <1>7, <1>9
  <2>2. \A x \in Orders : x # OrderOf[p]
    BY <1>2, <1>9, ProvisioningAssumption
  <2>3. OneKeyPerOrder'
    BY <1>3, <2>1, <2>2 DEF OrderInv, OneKeyPerOrder
  <2>4. ASSUME NEW d \in Callers, d # c
        PROVE  OrderKnows(d)'
    BY <1>4, <2>1, <2>4 DEF OrderInv, OrderKnows, Ready, Op
  <2>5. QED BY <1>6, <2>3, <2>4 DEF OrderInv
<1>10. CASE o # NoOrder /\ order[o].key # NoKey
  <2>1. UNCHANGED order
    BY <1>7, <1>10
  <2>2. p \in Shared /\ order[o].key[1] = p
    BY <1>1, <1>2, <1>3, <1>10 DEF OrderInv, OrderKnows, Ready, Booking
  <2>3. OneKeyPerOrder'
    BY <1>2, <1>3, <1>10, <2>1, <2>2 DEF OrderInv, OneKeyPerOrder
  <2>4. ASSUME NEW d \in Callers, d # c
        PROVE  OrderKnows(d)'
    BY <1>4, <2>1, <2>4 DEF OrderInv, OrderKnows, Ready, Op
  <2>5. QED BY <1>6, <2>3, <2>4 DEF OrderInv
<1>11. CASE o # NoOrder /\ order[o].key = NoKey
  <2>1. order' = [order EXCEPT ![o] = [status |-> "completed", key |-> <<p, c>>]]
    BY <1>7, <1>11
  <2>2. order'[o].key = <<p, c>> /\ \A x \in Orders \ {o} : order'[x] = order[x]
    BY <2>1, <1>11 DEF TypeOK
  <2>3. \A k \in rows : OrderOf[k[1]] # o
    BY <1>11 DEF OrderInv, OneKeyPerOrder
  <2>4. OneKeyPerOrder'
    <3> SUFFICES ASSUME NEW x \in Orders, NEW k \in rows', OrderOf[k[1]] = x
                 PROVE  /\ order'[x].key # NoKey /\ k[1] = order'[x].key[1]
                        /\ k = order'[x].key \/ k[1] \in Shared
      BY DEF OneKeyPerOrder
    <3>1. CASE x = o
      <4>1. k = <<p, c>>
        BY <1>3, <2>3, <3>1
      <4>2. QED BY <1>8, <2>2, <3>1, <4>1
    <3>2. CASE x # o
      <4>1. k \in rows
        BY <1>2, <1>3, <3>2
      <4>2. QED BY <2>2, <3>2, <4>1 DEF OrderInv, OneKeyPerOrder
    <3>3. QED BY <3>1, <3>2
  <2>5. ASSUME NEW d \in Callers, d # c, call[d] # Idle
        PROVE  OrderKnows(d)'
    <3>1. Op(d) \in Ops /\ Op(d)' = Op(d) /\ call'[d] = call[d]
      BY <1>4, <2>5, CallShape DEF Op
    <3>2. PICK q \in Ops : q = Op(d)
      BY <3>1
    <3>3. {p, q} \subseteq Shared
      BY <1>1, <1>3, <2>5, <3>2 DEF TraceInv, Apart, Ready
    <3>4. CASE OrderOf[q] = o
      <4>1. q = p
        BY <1>2, <1>11, <3>3, <3>4 DEF OneSharedPerOrder
      <4>2. QED BY <2>2, <3>1, <3>2, <3>3, <3>4, <4>1 DEF OrderKnows
    <3>5. CASE OrderOf[q] # o
      <4>1. OrderOf[q] # NoOrder => order'[OrderOf[q]] = order[OrderOf[q]]
        BY <2>2, <3>5, ProvisioningAssumption
      <4>2. OrderKnows(d)
        BY DEF OrderInv
      <4>3. QED BY <3>1, <3>2, <4>1, <4>2 DEF OrderKnows, Ready
    <3>6. QED BY <3>4, <3>5
  <2>6. ASSUME NEW d \in Callers, d # c, call[d] = Idle
        PROVE  OrderKnows(d)'
    BY <1>4, <2>6 DEF OrderKnows, Ready
  <2>7. QED BY <1>6, <2>4, <2>5, <2>6 DEF OrderInv
<1>12. QED BY <1>9, <1>10, <1>11

LEMMA OrderStep ==
    ASSUME TypeOK, TypeOK', TraceInv, OrderInv, OneSharedPerOrder, [Next]_vars
    PROVE  OrderInv'
<1> USE DEF At
<1>1. ASSUME NEW c \in Callers, NEW op \in Ops, Enter(c, op)
      PROVE  OrderInv'
  <2>1. call'[c] = [stage |-> "checking", op |-> op, server |-> NoServer, final |-> "pending"]
    BY <1>1 DEF Enter, TypeOK
  <2>2. call'[c].stage \notin Booking
    BY <2>1 DEF Booking
  <2>3. QED BY <1>1, <2>2, OrderOwnStep DEF Enter, TypeOK
<1>2. ASSUME NEW c \in Callers, Check(c)
      PROVE  OrderInv'
  <2>1. call[c] # Idle /\ UNCHANGED <<rows, order>>
    BY <1>2 DEF Check
  <2>2. CASE GoOn(c, "selecting") /\ Provisionable(Op(c))
    <3>1. OrderKnows(c)'
      BY <2>1, <2>2, GoOnEffect DEF Provisionable, OrderKnows
    <3>2. QED BY <2>1, <2>2, <3>1, GoOnEffect, OrderQuiet
  <2>3. CASE End(c, "settling", "failed")
    BY <2>1, <2>3, EndEffect, OrderOwnStep DEF Booking
  <2>4. QED BY <1>2, <2>2, <2>3 DEF Check
<1>3. ASSUME NEW c \in Callers, NEW s \in Servers, Select(c, s)
      PROVE  OrderInv'
  <2>1. call[c] \in OpenCall
    BY <1>3, CallShape DEF Select
  <2>2. call'[c] = [call[c] EXCEPT !.stage = AfterSelection(Op(c)), !.server = s]
    BY <1>3 DEF Select, TypeOK
  <2>3. call'[c].op = call[c].op
    BY <2>1, <2>2 DEF OpenCall
  <2>4. \A d \in Callers \ {c} : call'[d] = call[d]
    BY <1>3 DEF Select, TypeOK
  <2>5. QED BY <1>3, <2>3, <2>4, OrderOwnStep DEF Select, Booking, Op
<1>4. ASSUME NEW c \in Callers,
             SelectNone(c) \/ Reserve(c) \/ ReserveShared(c) \/ ReserveAgain(c) \/ Unusable(c)
      PROVE  OrderInv'
  BY <1>4, NotBooking
  DEF SelectNone, Reserve, ReserveShared, ReserveAgain, Unusable, Booking, Stages, Finals
<1>5. ASSUME NEW c \in Callers,
             MarkReserved(c) \/ Revalidate(c) \/ CreateKey(c) \/ Record(c) \/ PersistFails(c)
      PROVE  OrderInv'
  BY <1>5, NotBooking
  DEF MarkReserved, Revalidate, CreateKey, Record, PersistFails, Booking
<1>6. ASSUME NEW c \in Callers, NEW final \in {"failed", "unknown"}, NEW made \in BOOLEAN,
             CreateFails(c, final, made)
      PROVE  OrderInv'
  BY <1>6, NotBooking DEF CreateFails, Booking, Stages, Finals
<1>7. ASSUME NEW c \in Callers, Persist(c)
      PROVE  OrderInv'
  BY <1>7, PersistOrder
<1>8. ASSUME NEW c \in Callers, Complete(c) \/ Commit(c) \/ Crash(c)
      PROVE  OrderInv'
  BY <1>8, NotBooking DEF Complete, Commit, Crash, Booking, Stages
<1>9. ASSUME NEW c \in Callers, Backward(c)
      PROVE  OrderInv'
  BY <1>9, NotBooking
  DEF Backward, Compensate, CompensationFails, GiveUp, Release, Settle, Booking, Stages, Finals
<1>10. ASSUME NEW o \in Orders, Refund(o)
       PROVE  OrderInv'
  <2>1. \A x \in Orders : order'[x].key = order[x].key
    BY <1>10 DEF Refund, TypeOK, OrderRow
  <2>2. UNCHANGED <<rows, call>>
    BY <1>10 DEF Refund
  <2>3. QED BY <2>1, <2>2, OrderQuietAll
<1>11. CASE \/ \E op \in Ops : TimePasses(op)
            \/ ExpireReservations
            \/ UNCHANGED vars
  <2>1. UNCHANGED <<rows, order, call>>
    BY <1>11 DEF TimePasses, ExpireReservations, vars
  <2>2. QED BY <2>1, OrderQuietAll
<1>12. QED
  BY <1>1, <1>2, <1>3, <1>4, <1>5, <1>6, <1>7, <1>8, <1>9, <1>10, <1>11 DEF Next, Forward

\* Crashes, retries and repeated requests give an order no second key, as long as
\* calls for it overlap only under one operation
\* (vpn_provisioning_service.py: _paid_order reads the order, _persist names the key).
THEOREM OneKey ==
    ASSUME OneSharedPerOrder
    PROVE  Spec => []OneKeyPerOrder
<1>1. Init => OrderInv
  BY DEF Init, OrderInv, OneKeyPerOrder, OrderKnows, Ready
<1>2. TypeOK /\ TypeOK' /\ TraceInv /\ OrderInv /\ [Next]_vars => OrderInv'
  BY OrderStep
<1>3. OrderInv => OneKeyPerOrder
  BY DEF OrderInv
<1>4. QED BY <1>1, <1>2, <1>3, TraceInvariant, PTL DEF Spec
=============================================================================
