--------------------------- MODULE BackgroundJobs ---------------------------
(***************************************************************************)
(* Durable background jobs: the rows of background_jobs, the service calls *)
(* that change them (enqueue, acquire, mark_running, complete, fail,       *)
(* recover_stale) and the dispatchers that make those calls, one in every  *)
(* process.  Every service call is one transaction on a locked row.  Only  *)
(* acquire can be overtaken between choosing its row and locking it, so it *)
(* is two steps.  A process may die at any point and come back under the   *)
(* same worker id.                                                         *)
(***************************************************************************)
EXTENDS Integers

CONSTANTS
    Jobs,           \* a job is named by its unique logical key
    Workers,        \* dispatchers, by worker_id
    Priority,       \* Priority[j], higher first
    Unhandled,      \* the jobs whose type no handler is registered for
    MaxAttempts,
    MaxCrashes,     \* bound on process deaths
    Nobody          \* lease_owner IS NULL

ASSUME JobsAssumption ==
    /\ Priority \in [Jobs -> Nat]
    /\ Unhandled \subseteq Jobs
    /\ MaxAttempts \in Nat \ {0}        \* enqueue clamps it to at least 1
    /\ MaxCrashes \in Nat
    /\ Nobody \notin Workers

VARIABLES
    job,            \* the background_jobs rows
    task,           \* what each dispatcher is doing, and with which lease
    crashes

vars == <<job, task, crashes>>

Waiting == {"pending", "ready", "retry_wait"}
Held == {"leased", "running"}
Ended == {"succeeded", "failed", "dead_letter"}

\* A dispatcher with no lease in hand.
Free == [stage |-> "free"]

Due(j) == job[j].status \in Waiting /\ job[j].due
\* Faulty: forgets leases whose handler was not entered.
LapsedWhileRunning(j) == job[j].status = "running" /\ job[j].lapsed

Lapsed(j) == job[j].status \in Held /\ job[j].lapsed

\* Faulty: whoever asks owns a job that is held.
OwnedByAnyone(w, j) == job[j].status \in Held

\* _owned_row: the worker still holds the lease.  No attempt number is checked.
Owned(w, j) == job[j].owner = w /\ job[j].status \in Held

\* The row of j without a lease.
Released(j, status, due) ==
    [status |-> status, owner |-> Nobody, attempts |-> job[j].attempts,
     due |-> due, lapsed |-> FALSE]

\* A transaction of w that writes the row of j if w still owns it.
Settle(w, j, status) ==
    job' = IF Owned(w, j) THEN [job EXCEPT ![j] = Released(j, status, FALSE)] ELSE job

At(w, stage) == task[w].stage = stage
Go(w, t) == task' = [task EXCEPT ![w] = t]

-----------------------------------------------------------------------------
Init ==
    /\ job = [j \in Jobs |-> [status |-> "absent", owner |-> Nobody, attempts |-> 0,
                              due |-> FALSE, lapsed |-> FALSE]]
    /\ task = [w \in Workers |-> Free]
    /\ crashes = 0

\* A second enqueue of the same logical key finds the row and writes nothing.
Enqueue(j, now) ==
    /\ job[j].status = "absent"
    /\ job' = [job EXCEPT ![j] =
                 Released(j, IF now THEN "ready" ELSE "pending", now)]
    /\ UNCHANGED <<task, crashes>>

\* available_at passes, or the lease does.
TimePasses(j) ==
    /\ \/ /\ job[j].status \in Waiting /\ ~job[j].due
          /\ job' = [job EXCEPT ![j].due = TRUE]
       \/ /\ job[j].status \in Held /\ ~job[j].lapsed
          /\ job' = [job EXCEPT ![j].lapsed = TRUE]
    /\ UNCHANGED <<task, crashes>>

-----------------------------------------------------------------------------
\* acquire: the first due row by priority, not locked yet.
Choose(w, j) ==
    /\ At(w, "free")
    /\ Due(j)
    /\ \A k \in Jobs : Due(k) => Priority[k] <= Priority[j]
    /\ Go(w, [stage |-> "locking", job |-> j])
    /\ UNCHANGED <<job, crashes>>

\* The row is locked and still qualifies.
Lease(w) ==
    /\ At(w, "locking")
    /\ LET j == task[w].job IN
         /\ Due(j)
         /\ job' = [job EXCEPT ![j] =
                      [status |-> "leased", owner |-> w,
                       attempts |-> job[j].attempts + 1,
                       due |-> FALSE, lapsed |-> FALSE]]
         /\ Go(w, [stage |-> "leased", job |-> j, attempt |-> job[j].attempts + 1])
    /\ UNCHANGED crashes

\* Another dispatcher leased it first: LIMIT 1 leaves nothing else to return.
Overtaken(w) ==
    /\ At(w, "locking")
    /\ ~Due(task[w].job)
    /\ Go(w, [stage |-> "recovering"])
    /\ UNCHANGED <<job, crashes>>

\* run_once found nothing to lease.
FindNothing(w) ==
    /\ At(w, "free")
    /\ \A j \in Jobs : ~Due(j)
    /\ \E j \in Jobs : Lapsed(j)        \* otherwise the pass changes nothing
    /\ Go(w, [stage |-> "recovering"])
    /\ UNCHANGED <<job, crashes>>

\* recover_stale requeues every lapsed lease, or gives the job up.
RecoverStale ==
    job' = [j \in Jobs |->
              IF ~Lapsed(j) THEN job[j]
              ELSE IF job[j].attempts >= MaxAttempts
                   THEN Released(j, "dead_letter", FALSE)
                   ELSE Released(j, "retry_wait", TRUE)]

Recover(w) ==
    /\ At(w, "recovering")
    /\ RecoverStale
    /\ Go(w, Free)
    /\ UNCHANGED crashes

\* The administrator's button (handlers/admin_jobs.py).
AdminRecover ==
    /\ \E j \in Jobs : Lapsed(j)
    /\ RecoverStale
    /\ UNCHANGED <<task, crashes>>

-----------------------------------------------------------------------------
\* _execute without a handler: fail(retryable=False).
FailUnhandled(w) ==
    /\ At(w, "leased")
    /\ LET j == task[w].job IN
         /\ j \in Unhandled
         /\ Settle(w, j, "failed")
    /\ Go(w, Free)
    /\ UNCHANGED crashes

\* mark_running, whose answer _execute ignores, and the handler is entered.
EnterHandler(w) ==
    /\ At(w, "leased")
    /\ LET j == task[w].job IN
         /\ j \notin Unhandled
         /\ job' = IF job[j].owner = w /\ job[j].status = "leased"
                   THEN [job EXCEPT ![j].status = "running"] ELSE job
    /\ Go(w, [task[w] EXCEPT !.stage = "handling"])
    /\ UNCHANGED crashes

\* The handler returned, whatever it returned.
Complete(w) ==
    /\ At(w, "handling")
    /\ Settle(w, task[w].job, "succeeded")
    /\ Go(w, Free)
    /\ UNCHANGED crashes

\* Faulty: allows one attempt too many.
FailOneLate(w) ==
    /\ At(w, "handling")
    /\ LET j == task[w].job IN
         Settle(w, j, IF job[j].attempts > MaxAttempts THEN "dead_letter"
                                                       ELSE "retry_wait")
    /\ Go(w, Free)
    /\ UNCHANGED crashes

\* The handler raised: retry after a delay, or give up.
Fail(w) ==
    /\ At(w, "handling")
    /\ LET j == task[w].job IN
         Settle(w, j, IF job[j].attempts >= MaxAttempts THEN "dead_letter"
                                                        ELSE "retry_wait")
    /\ Go(w, Free)
    /\ UNCHANGED crashes

\* The process dies, or is cancelled, with the lease in the table.
Crash(w) ==
    /\ crashes < MaxCrashes
    /\ ~At(w, "free")
    /\ crashes' = crashes + 1
    /\ Go(w, Free)
    /\ UNCHANGED job

-----------------------------------------------------------------------------
Dispatch(w) ==
    \/ \E j \in Jobs : Choose(w, j)
    \/ Lease(w) \/ Overtaken(w)
    \/ FindNothing(w) \/ Recover(w)
    \/ FailUnhandled(w) \/ EnterHandler(w)
    \/ Complete(w) \/ Fail(w)

Next ==
    \/ \E j \in Jobs, now \in BOOLEAN : Enqueue(j, now)
    \/ \E j \in Jobs : TimePasses(j)
    \/ \E w \in Workers : Dispatch(w) \/ Crash(w)
    \/ AdminRecover

Spec == Init /\ [][Next]_vars

\* The scheduler runs every dispatcher again and again, handlers return or
\* raise, and the clock goes on.
FairSpec ==
    /\ Spec
    /\ \A w \in Workers : WF_vars(Dispatch(w))
    /\ \A j \in Jobs : WF_vars(TimePasses(j))

-----------------------------------------------------------------------------
JobRow == [status : {"absent"} \cup Waiting \cup Held \cup Ended,
           owner : Workers \cup {Nobody}, attempts : Nat,
           due : BOOLEAN, lapsed : BOOLEAN]

Task == {Free, [stage |-> "recovering"]}
        \cup [stage : {"locking"}, job : Jobs]
        \cup [stage : {"leased", "handling"}, job : Jobs, attempt : Nat]

\* The values the variables take.
TypeOK ==
    /\ job \in [Jobs -> JobRow]
    /\ task \in [Workers -> Task]
    /\ crashes \in Nat

\* Retries are bounded although acquire never looks at max_attempts: a job that
\* has used its attempts is not waiting any more.
AttemptsBounded == \A j \in Jobs : job[j].attempts <= MaxAttempts

\* A worker that comes back late cannot settle a newer attempt than its own,
\* although complete and fail compare the worker id only.
OwnAttemptOnly ==
    \A w \in Workers :
        At(w, "leased") \/ At(w, "handling") =>
            (Owned(w, task[w].job) => task[w].attempt = job[task[w].job].attempts)

\* A job that has succeeded, failed or died stays so: no late worker and no
\* recovery pass takes it up again.
EndedIsFinal ==
    [][\A j \in Jobs : job[j].status \in Ended => job'[j] = job[j]]_vars

\* The jobs as JobLeases sees them, and the attempt a worker believes to be its own.
Phase(status) ==
    CASE status = "absent" -> "absent"
      [] status \in Waiting -> "open"
      [] status \in Held -> "taken"
      [] status \in Ended -> "over"

GripOf(w) ==
    IF At(w, "leased") \/ At(w, "handling") THEN <<task[w].job, task[w].attempt>> ELSE <<>>

Leases == INSTANCE JobLeases WITH
             state <- [j \in Jobs |-> [phase |-> Phase(job[j].status),
                                       number |-> job[j].attempts]],
             grip <- [w \in Workers |-> GripOf(w)]

\* The table works as a book of numbered attempts, of which the worker that took one
\* may settle it, and no late worker another, though complete and fail compare worker
\* ids only, acquire never compares attempts, and recovery passes run anywhere.
WorksLikeLeases == Leases!Spec

\* Whatever crashes and lapses, every job is settled in the end.
EveryJobEnds ==
    \A j \in Jobs : job[j].status # "absent" ~> job[j].status \in Ended
=============================================================================
