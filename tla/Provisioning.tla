---------------------------- MODULE Provisioning ----------------------------
(***************************************************************************)
(* The provisioning saga: from a paid order, or a free trial, to a VPN key *)
(* on a remote server, through many transactions on the operation, its     *)
(* capacity reservation, the key's row and the order, and two remote       *)
(* calls.                                                                  *)
(*                                                                         *)
(* Every transaction and every remote call is a step; before each of them  *)
(* the process may die, the call may raise, and other calls and the        *)
(* clean-up of reservations may run.  An order enters as paid and may be   *)
(* refunded; the rest of its life is in OrderPayments.                     *)
(***************************************************************************)
EXTENDS Integers, FiniteSets

CONSTANTS
    Orders,
    Ops,                \* operations, named by their unique idempotency key
    OrderOf,            \* OrderOf[op]: the order it is to provision, or NoOrder for
                        \* a free trial, which reserves no capacity here
    Servers,
    Slots,              \* Slots[s]: max_users - current_users, 0 when unknown
    Callers,
    Asked,              \* Asked[c]: the operations that c takes up
    KeyColumnsMapped,   \* VPNKeyORM has the columns that _persist passes to it
    DatabaseMayFail,
    NoKey, NoServer, NoOrder,   \* NULL
    Idle                \* no open call

ASSUME ProvisioningAssumption ==
    /\ IsFiniteSet(Ops) /\ Asked \in [Callers -> SUBSET Ops]
    /\ OrderOf \in [Ops -> Orders \cup {NoOrder}] /\ NoOrder \notin Orders
    /\ Slots \in [Servers -> Nat]
    /\ NoServer \notin Servers /\ NoKey \notin Ops \X Callers
    /\ KeyColumnsMapped \in BOOLEAN /\ DatabaseMayFail \in BOOLEAN

VARIABLES
    operation,      \* the vpn_provisioning_operations rows
    reservation,    \* the server_capacity_reservations rows, by owner_reference
    order,          \* the orders rows
    rows,           \* the vpn_keys rows
    remote,         \* the keys that exist on the servers
    silent,         \* the keys whose creation was never answered (history)
    call            \* the open call of each caller

vars == <<operation, reservation, order, rows, remote, silent, call>>

\* A call makes at most one remote key, and no caller reaches that point twice
\* for one operation, so the two of them name the key.
Keys == Ops \X Callers

InFlight == {"selecting_server", "reserved", "creating_remote_key",
             "remote_key_created"}
Settled == {"completed", "failed", "compensation_required", "unknown"}

Ready(c) == call[c] = Idle
At(c, stage) == call[c] # Idle /\ call[c].stage = stage
Op(c) == call[c].op
Key(c) == <<Op(c), c>>
GoOn(c, stage) == call' = [call EXCEPT ![c].stage = stage]
End(c, stage, final) ==
    call' = [call EXCEPT ![c] = [@ EXCEPT !.stage = stage, !.final = final]]
Return(c) == call' = [call EXCEPT ![c] = Idle]

\* Which calls may overlap is a parameter of the instance, no rule of the code: those
\* for the operations that several callers take up.
Shared == {op \in Ops : \E c, d \in Callers : c # d /\ op \in Asked[c] \cap Asked[d]}

MayStart(c, op) ==
    /\ Ready(c) /\ op \in Asked[c]
    /\ \A d \in Callers \ {c} : ~Ready(d) => {op, Op(d)} \subseteq Shared

\* ServerReservationService._transition writes pending reservations only; a trial
\* has none.
Transition(op, status) ==
    reservation' = IF reservation[op].status = "pending"
                   THEN [reservation EXCEPT ![op].status = status] ELSE reservation

\* VPNProvisioningService._set, in a transaction of its own.
Set(c, status) == operation' = [operation EXCEPT ![Op(c)].status = status]
SetWithKey(c, status) ==
    operation' = [operation EXCEPT ![Op(c)] = [status |-> status, key |-> Key(c)]]

-----------------------------------------------------------------------------
Init ==
    /\ operation = [op \in Ops |-> [status |-> "absent", key |-> NoKey]]
    /\ reservation = [op \in Ops |-> [status |-> "none", server |-> NoServer,
                                      overdue |-> FALSE]]
    /\ order = [o \in Orders |-> [status |-> "paid", key |-> NoKey]]
    /\ rows = {} /\ remote = {} /\ silent = {}
    /\ call = [c \in Callers |-> Idle]

\* Faulty: a failed operation may be tried again under its key.
EnterFailed(c, op) ==
    /\ MayStart(c, op)
    /\ operation[op].status \in {"absent", "pending", "failed"}
    /\ operation' = [operation EXCEPT ![op].status = "pending"]
    /\ call' = [call EXCEPT ![c] = [stage |-> "checking", op |-> op,
                                    server |-> NoServer, final |-> "pending"]]
    /\ UNCHANGED <<reservation, order, rows, remote, silent>>

\* _get_operation creates the row or finds it.  One that is still pending is
\* taken up again; in flight or settled, it is refused without a write.
Enter(c, op) ==
    /\ MayStart(c, op)
    /\ operation[op].status \in {"absent", "pending"}
    /\ operation' = [operation EXCEPT ![op].status = "pending"]
    /\ call' = [call EXCEPT ![c] = [stage |-> "checking", op |-> op,
                                    server |-> NoServer, final |-> "pending"]]
    /\ UNCHANGED <<reservation, order, rows, remote, silent>>

\* Faulty: payment_status alone, which a completed order keeps.
ProvisionableWhilePaid(op) ==
    OrderOf[op] # NoOrder => order[OrderOf[op]].status \in {"paid", "completed"}

Provisionable(op) ==
    OrderOf[op] # NoOrder => /\ order[OrderOf[op]].status = "paid"
                             /\ order[OrderOf[op]].key = NoKey

\* _paid_order, without a lock.
Check(c) ==
    /\ At(c, "checking")
    /\ IF Provisionable(Op(c)) THEN GoOn(c, "selecting")
                               ELSE End(c, "settling", "failed")
    /\ UNCHANGED <<operation, reservation, order, rows, remote, silent>>

\* Capacity is reserved unless the request says otherwise (reserve_capacity).
AfterSelection(op) == IF OrderOf[op] = NoOrder THEN "revalidating" ELSE "reserving"

\* Which server the ranking prefers is left open.
Select(c, s) ==
    /\ At(c, "selecting")
    /\ Set(c, "selecting_server")
    /\ call' = [call EXCEPT ![c] = [@ EXCEPT !.stage = AfterSelection(Op(c)),
                                             !.server = s]]
    /\ UNCHANGED <<reservation, order, rows, remote, silent>>

SelectNone(c) ==
    /\ At(c, "selecting")
    /\ End(c, "settling", "failed")
    /\ UNCHANGED <<operation, reservation, order, rows, remote, silent>>

-----------------------------------------------------------------------------
\* active_count: the reservations of s that still hold a slot.
Active(s) == {op \in Ops : /\ reservation[op].status = "pending"
                           /\ ~reservation[op].overdue
                           /\ reservation[op].server = s}

\* Faulty: lets the last slot be reserved once more.
RoomForOneMore(s) == Cardinality(Active(s)) <= Slots[s]

HasRoom(s) == Cardinality(Active(s)) < Slots[s]

\* ServerReservationService.reserve, with the server's row locked.
Reserve(c) ==
    /\ At(c, "reserving")
    /\ reservation[Op(c)].status = "none"
    /\ IF HasRoom(call[c].server)
       THEN /\ reservation' =
                 [reservation EXCEPT ![Op(c)] =
                    [status |-> "pending", server |-> call[c].server,
                     overdue |-> FALSE]]
            /\ GoOn(c, "reserved")
       ELSE /\ UNCHANGED reservation
            /\ End(c, "settling", "failed")
    /\ UNCHANGED <<operation, order, rows, remote, silent>>

\* The operation has a reservation already: another call works on it.
ReserveShared(c) ==
    /\ At(c, "reserving")
    /\ reservation[Op(c)].status \in {"pending", "committed"}
    /\ GoOn(c, "reserved")
    /\ UNCHANGED <<operation, reservation, order, rows, remote, silent>>

\* ... or had one: without room the call fails as ever, with room the insert
\* breaks the unique owner_reference and the exception ends the call.
ReserveAgain(c) ==
    /\ At(c, "reserving")
    /\ reservation[Op(c)].status \in {"released", "expired"}
    /\ IF HasRoom(call[c].server) THEN Return(c) ELSE End(c, "settling", "failed")
    /\ UNCHANGED <<operation, reservation, order, rows, remote, silent>>

\* The token is written to the operation.
MarkReserved(c) ==
    /\ At(c, "reserved")
    /\ Set(c, "reserved")
    /\ GoOn(c, "revalidating")
    /\ UNCHANGED <<reservation, order, rows, remote, silent>>

\* The server is looked at again and its credential decrypted ...
Revalidate(c) ==
    /\ At(c, "revalidating")
    /\ Set(c, "creating_remote_key")
    /\ GoOn(c, "creating")
    /\ UNCHANGED <<reservation, order, rows, remote, silent>>

\* ... or has become unusable.
Unusable(c) ==
    /\ At(c, "revalidating")
    /\ End(c, "releasing", "failed")
    /\ UNCHANGED <<operation, reservation, order, rows, remote, silent>>

-----------------------------------------------------------------------------
\* The remote call.  A process that dies in it is as good as one that dies just
\* before or just after it.
CreateKey(c) ==
    /\ At(c, "creating")
    /\ remote' = remote \cup {Key(c)}
    /\ GoOn(c, "recording")
    /\ UNCHANGED <<operation, reservation, order, rows, silent>>

\* A timeout ends in unknown, any other error in failed; in both cases the
\* server may have made the key and the answer was lost.
CreateFails(c, final, made) ==
    /\ At(c, "creating")
    /\ remote' = IF made THEN remote \cup {Key(c)} ELSE remote
    /\ silent' = IF made THEN silent \cup {Key(c)} ELSE silent
    /\ End(c, "releasing", final)
    /\ UNCHANGED <<operation, reservation, order, rows>>

\* Faulty: books the slot before the key has its row.
RecordAndCommit(c) ==
    /\ At(c, "recording")
    /\ SetWithKey(c, "remote_key_created")
    /\ Transition(Op(c), "committed")
    /\ GoOn(c, "persisting")
    /\ UNCHANGED <<order, rows, remote, silent>>

Record(c) ==
    /\ At(c, "recording")
    /\ SetWithKey(c, "remote_key_created")
    /\ GoOn(c, "persisting")
    /\ UNCHANGED <<reservation, order, rows, remote, silent>>

\* _persist: the key's row, and the order if it has no key yet.
Persist(c) ==
    /\ At(c, "persisting")
    /\ KeyColumnsMapped
    /\ rows' = rows \cup {Key(c)}
    /\ LET o == OrderOf[Op(c)] IN
         order' = IF o = NoOrder \/ order[o].key # NoKey THEN order
                  ELSE [order EXCEPT ![o] = [status |-> "completed", key |-> Key(c)]]
    /\ GoOn(c, "completing")
    /\ UNCHANGED <<operation, reservation, remote, silent>>

\* VPNKeyORM(...) raises on a column it does not map; the database may fail too.
PersistFails(c) ==
    /\ At(c, "persisting")
    /\ DatabaseMayFail \/ ~KeyColumnsMapped
    /\ GoOn(c, "compensating")
    /\ UNCHANGED <<operation, reservation, order, rows, remote, silent>>

Complete(c) ==
    /\ At(c, "completing")
    /\ SetWithKey(c, "completed")
    /\ GoOn(c, "committing")
    /\ UNCHANGED <<reservation, order, rows, remote, silent>>

\* Its answer is not looked at.
Commit(c) ==
    /\ At(c, "committing")
    /\ Transition(Op(c), "committed")
    /\ Return(c)
    /\ UNCHANGED <<operation, order, rows, remote, silent>>

-----------------------------------------------------------------------------
\* The remote key of a key row that could not be saved is deleted again ...
Compensate(c) ==
    /\ At(c, "compensating")
    /\ remote' = remote \ {Key(c)}
    /\ End(c, "releasing", "failed")
    /\ UNCHANGED <<operation, reservation, order, rows, silent>>

\* Faulty: reports every saga that was not finished as failed.
GiveUpAsFailed(c, deleted) ==
    /\ At(c, "compensating")
    /\ remote' = IF deleted THEN remote \ {Key(c)} ELSE remote
    /\ End(c, "releasing", "failed")
    /\ UNCHANGED <<operation, reservation, order, rows, silent>>

\* ... or the attempt fails, possibly after the server did delete it.
CompensationFails(c, deleted) ==
    /\ At(c, "compensating")
    /\ remote' = IF deleted THEN remote \ {Key(c)} ELSE remote
    /\ End(c, "giving_up", "compensation_required")
    /\ UNCHANGED <<operation, reservation, order, rows, silent>>

\* An administrator has to look at it.
GiveUp(c) ==
    /\ At(c, "giving_up")
    /\ SetWithKey(c, "compensation_required")
    /\ GoOn(c, "releasing")
    /\ UNCHANGED <<reservation, order, rows, remote, silent>>

\* The slot is given back before the operation is settled.
Release(c) ==
    /\ At(c, "releasing")
    /\ Transition(Op(c), "released")
    /\ IF call[c].final = "compensation_required" THEN Return(c)
                                                  ELSE GoOn(c, "settling")
    /\ UNCHANGED <<operation, order, rows, remote, silent>>

\* _fail, or _set to unknown.
Settle(c) ==
    /\ At(c, "settling")
    /\ Set(c, call[c].final)
    /\ Return(c)
    /\ UNCHANGED <<reservation, order, rows, remote, silent>>

-----------------------------------------------------------------------------
\* The process dies or the call raises: nothing resumes it.
Crash(c) ==
    /\ ~Ready(c)
    /\ Return(c)
    /\ UNCHANGED <<operation, reservation, order, rows, remote, silent>>

\* A refund, as OrderPayments has it.
Refund(o) ==
    /\ order[o].status = "paid"
    /\ order' = [order EXCEPT ![o].status = "refunded"]
    /\ UNCHANGED <<operation, reservation, rows, remote, silent, call>>

TimePasses(op) ==
    /\ reservation[op].status = "pending" /\ ~reservation[op].overdue
    /\ reservation' = [reservation EXCEPT ![op].overdue = TRUE]
    /\ UNCHANGED <<operation, order, rows, remote, silent, call>>

\* Faulty: leaves the reservations of operations that are in flight alone.
OverdueAndSettled ==
    {op \in Ops : /\ reservation[op].status = "pending" /\ reservation[op].overdue
                  /\ operation[op].status \in Settled}

Overdue == {op \in Ops : reservation[op].status = "pending" /\ reservation[op].overdue}

\* The server_reservation_cleanup job.
ExpireReservations ==
    /\ Overdue # {}
    /\ reservation' = [op \in Ops |-> IF op \in Overdue
                                      THEN [reservation[op] EXCEPT !.status = "expired"]
                                      ELSE reservation[op]]
    /\ UNCHANGED <<operation, order, rows, remote, silent, call>>

-----------------------------------------------------------------------------
Forward(c) ==
    \/ \E op \in Ops : Enter(c, op)
    \/ Check(c)
    \/ \E s \in Servers : Select(c, s)
    \/ SelectNone(c)
    \/ Reserve(c) \/ ReserveShared(c) \/ ReserveAgain(c)
    \/ MarkReserved(c) \/ Revalidate(c) \/ Unusable(c)
    \/ CreateKey(c)
    \/ \E final \in {"failed", "unknown"}, made \in BOOLEAN : CreateFails(c, final, made)
    \/ Record(c) \/ Persist(c) \/ PersistFails(c)
    \/ Complete(c) \/ Commit(c)

Backward(c) ==
    \/ Compensate(c)
    \/ \E deleted \in BOOLEAN : CompensationFails(c, deleted)
    \/ GiveUp(c) \/ Release(c) \/ Settle(c)

Next ==
    \/ \E c \in Callers : Forward(c) \/ Backward(c) \/ Crash(c)
    \/ \E o \in Orders : Refund(o)
    \/ \E op \in Ops : TimePasses(op)
    \/ ExpireReservations

Spec == Init /\ [][Next]_vars

\* The scheduler keeps enqueueing the clean-up, and the clock goes on.  No call
\* has to go on.
FairSpec ==
    /\ Spec
    /\ WF_vars(ExpireReservations)
    /\ \A op \in Ops : WF_vars(TimePasses(op))

-----------------------------------------------------------------------------
OperationRow == [status : {"absent", "pending"} \cup InFlight \cup Settled,
                 key : Keys \cup {NoKey}]

ReservationRow == [status : {"none", "pending", "committed", "released", "expired"},
                   server : Servers \cup {NoServer}, overdue : BOOLEAN]

OrderRow == [status : {"paid", "completed", "refunded"}, key : Keys \cup {NoKey}]

Stages == {"reserving", "reserved", "revalidating", "creating", "recording",
           "persisting", "completing", "committing", "compensating", "giving_up",
           "releasing", "settling"}

\* Before and after a server is chosen.
OpenCall ==
    [stage : {"checking", "selecting", "settling"}, op : Ops,
     server : {NoServer}, final : {"pending", "failed"}]
    \cup
    [stage : Stages, op : Ops, server : Servers,
     final : {"pending", "failed", "unknown", "compensation_required"}]

\* The values the variables take.
TypeOK ==
    /\ operation \in [Ops -> OperationRow]
    /\ reservation \in [Ops -> ReservationRow]
    /\ order \in [Orders -> OrderRow]
    /\ rows \subseteq Keys /\ remote \subseteq Keys /\ silent \subseteq Keys
    /\ call \in [Callers -> OpenCall \cup {Idle}]

\* The slots of a server are never promised twice, whatever lapses, is cleaned
\* up, released or committed while others reserve.
NeverOverReserved == \A s \in Servers : Cardinality(Active(s)) <= Slots[s]

\* A key that exists on a server and was reported to the bot can be found from
\* the database: it has a row, or its operation is in flight, or says that an
\* administrator has to remove it.  (This, the next one and SettledIsFinal make an
\* exception of operations that two calls work on at once: see README.)
KeyIsTraceable ==
    \A k \in remote \ silent :
        \/ k[1] \in Shared
        \/ k \in rows
        \/ operation[k[1]].status = "creating_remote_key"
        \/ /\ operation[k[1]].status \in {"remote_key_created",
                                           "compensation_required"}
           /\ operation[k[1]].key = k

\* Crashes and retries under other keys give an order no second key: all its keys
\* come from the operation whose key it names, and there is one unless calls for
\* that operation overlapped.
OneKeyPerOrder ==
    \A o \in Orders :
        \A k \in {k \in rows : OrderOf[k[1]] = o} :
            /\ order[o].key # NoKey /\ k[1] = order[o].key[1]
            /\ k = order[o].key \/ k[1] \in Shared

\* A slot is booked for good only for an operation whose key exists and has
\* its row.
CommittedHasKey ==
    \A op \in Ops :
        reservation[op].status = "committed" =>
            \E c \in Callers : <<op, c>> \in rows \cap remote

\* An operation that has ended stays as it ended, however often it is asked for
\* again and whatever its reservation does.
SettledIsFinal ==
    [][\A op \in Ops \ Shared :
          operation[op].status \in Settled => operation'[op] = operation[op]]_vars

\* A slot that was reserved is given back or booked, also when the process died.
ReservationEnds ==
    \A op \in Ops :
        reservation[op].status = "pending" ~> reservation[op].status # "pending"

=============================================================================
