-------------------------- MODULE OperationsProofs ---------------------------
(***************************************************************************)
(* Proofs about the machinery that operates the program: BackgroundJobs,   *)
(* for any jobs, dispatchers and priorities and any number of attempts and *)
(* crashes; and OutageAlerts, for any windows that administrators plan.    *)
(* The health job of OutageAlerts is not a row of background_jobs: the two *)
(* share no state, and each has its theorems.                              *)
(***************************************************************************)
EXTENDS BackgroundJobs, OutageAlerts, TLAPS

\* A job that waits has an attempt left.
AttemptLeft ==
    \A j \in Jobs : job[j].status \in Waiting \cup {"absent"} =>
                        job[j].attempts < MaxAttempts

-----------------------------------------------------------------------------
\* What a dispatcher has in hand, by its stage.
LEMMA TaskShape ==
    ASSUME TypeOK, NEW w \in Workers
    PROVE  /\ At(w, "locking") => task[w].job \in Jobs
           /\ At(w, "leased") \/ At(w, "handling") =>
                  task[w].job \in Jobs /\ task[w].attempt \in Nat
<1>1. task[w] \in Task
  BY DEF TypeOK
<1>2. QED BY <1>1 DEF Task, Free, At

\* A row without a lease is well typed.
LEMMA ReleasedType ==
    ASSUME TypeOK, NEW j \in Jobs, NEW b \in BOOLEAN,
           NEW s \in Waiting \cup Ended
    PROVE  Released(j, s, b) \in JobRow
  BY DEF Released, TypeOK, JobRow

\* Settling writes no row but j's, ends no lease but w's, and starts none.
LEMMA SettleEffect ==
    ASSUME TypeOK, NEW w \in Workers, NEW j \in Jobs,
           NEW s \in Waiting \cup Ended, Settle(w, j, s)
    PROVE  /\ job' \in [Jobs -> JobRow]
           /\ \A k \in Jobs :
                 \/ job'[k] = job[k]
                 \/ k = j /\ Owned(w, k) /\ job'[k] = Released(k, s, FALSE)
  BY ReleasedType DEF Settle, TypeOK

LEMMA RecoverEffect ==
    ASSUME TypeOK, RecoverStale
    PROVE  /\ job' \in [Jobs -> JobRow]
           /\ \A k \in Jobs :
                 \/ job'[k] = job[k]
                 \/ /\ job[k].status \in Held
                    /\ \/ /\ job[k].attempts >= MaxAttempts
                          /\ job'[k] = Released(k, "dead_letter", FALSE)
                       \/ /\ ~(job[k].attempts >= MaxAttempts)
                          /\ job'[k] = Released(k, "retry_wait", TRUE)
  BY ReleasedType DEF RecoverStale, Lapsed, TypeOK, Waiting, Ended

-----------------------------------------------------------------------------
LEMMA TypeStep == TypeOK /\ [Next]_vars => TypeOK'
<1> SUFFICES ASSUME TypeOK, [Next]_vars
             PROVE  TypeOK'
    OBVIOUS
<1>1. ASSUME NEW j \in Jobs, NEW now \in BOOLEAN, Enqueue(j, now)
      PROVE  TypeOK'
  <2> DEFINE s == IF now THEN "ready" ELSE "pending"
  <2>1. s \in Waiting
    BY DEF Waiting
  <2>2. job' = [job EXCEPT ![j] = Released(j, s, now)] /\ UNCHANGED <<task, crashes>>
    BY <1>1 DEF Enqueue
  <2> HIDE DEF s
  <2>3. Released(j, s, now) \in JobRow
    BY <2>1, ReleasedType
  <2>4. job' \in [Jobs -> JobRow]
    BY <2>2, <2>3 DEF TypeOK
  <2>5. QED BY <2>2, <2>4 DEF TypeOK, JobRow, Task, Free
<1>2. ASSUME NEW j \in Jobs, TimePasses(j)
      PROVE  TypeOK'
  <2>1. [job[j] EXCEPT !.due = TRUE] \in JobRow /\ [job[j] EXCEPT !.lapsed = TRUE] \in JobRow
    BY DEF TypeOK, JobRow
  <2>2. job' \in [Jobs -> JobRow] /\ UNCHANGED <<task, crashes>>
    BY <1>2, <2>1 DEF TimePasses, TypeOK
  <2>3. QED BY <2>2 DEF TypeOK, JobRow, Task, Free
<1>3. ASSUME NEW w \in Workers, Dispatch(w)
      PROVE  TypeOK'
  <2>1. ASSUME NEW j \in Jobs, Choose(w, j)
        PROVE  TypeOK'
    BY <2>1 DEF Choose, Go, TypeOK, JobRow, Task, Free
  <2>2. CASE Lease(w)
    <3>1. task[w].job \in Jobs
      BY <2>2, TaskShape DEF Lease
    <3>2. job[task[w].job].attempts \in Nat
      BY <3>1 DEF TypeOK, JobRow
    <3>3. [status |-> "leased", owner |-> w, attempts |-> job[task[w].job].attempts + 1,
           due |-> FALSE, lapsed |-> FALSE] \in JobRow
      BY <3>2 DEF JobRow, Held
    <3>4. [stage |-> "leased", job |-> task[w].job,
           attempt |-> job[task[w].job].attempts + 1] \in Task
      BY <3>1, <3>2 DEF Task
    <3>5. QED BY <2>2, <3>1, <3>3, <3>4 DEF Lease, Go, TypeOK, JobRow, Task, Free
  <2>3. CASE Overtaken(w) \/ FindNothing(w)
    BY <2>3 DEF Overtaken, FindNothing, Go, TypeOK, JobRow, Task, Free
  <2>4. CASE Recover(w)
    BY <2>4, RecoverEffect DEF Recover, Go, TypeOK, JobRow, Task, Free
  <2>5. CASE FailUnhandled(w)
    <3>1. task[w].job \in Jobs
      BY <2>5, TaskShape DEF FailUnhandled
    <3>2. job' \in [Jobs -> JobRow]
      BY <2>5, <3>1, SettleEffect DEF FailUnhandled, Ended
    <3>3. QED BY <2>5, <3>2 DEF FailUnhandled, Go, TypeOK, JobRow, Task, Free
  <2>6. CASE EnterHandler(w)
    <3>1. task[w].job \in Jobs /\ task[w].attempt \in Nat
      BY <2>6, TaskShape DEF EnterHandler
    <3>2. [job[task[w].job] EXCEPT !.status = "running"] \in JobRow
      BY <3>1 DEF TypeOK, JobRow, Held
    <3>3. job' \in [Jobs -> JobRow]
      BY <2>6, <3>1, <3>2 DEF EnterHandler, TypeOK
    <3>4. [task[w] EXCEPT !.stage = "handling"] \in Task
      <4>1. task[w] \in [stage : {"leased", "handling"}, job : Jobs, attempt : Nat]
        BY <2>6 DEF EnterHandler, At, TypeOK, Task, Free
      <4>2. QED BY <4>1 DEF Task
    <3>5. QED BY <2>6, <3>3, <3>4 DEF EnterHandler, Go, TypeOK, JobRow, Task, Free
  <2>7. CASE Complete(w)
    <3>1. task[w].job \in Jobs
      BY <2>7, TaskShape DEF Complete
    <3>2. job' \in [Jobs -> JobRow]
      BY <2>7, <3>1, SettleEffect DEF Complete, Ended
    <3>3. QED BY <2>7, <3>2 DEF Complete, Go, TypeOK, JobRow, Task, Free
  <2>8. CASE Fail(w)
    <3>1. task[w].job \in Jobs
      BY <2>8, TaskShape DEF Fail
    <3>2. job' \in [Jobs -> JobRow]
      BY <2>8, <3>1, SettleEffect DEF Fail, Ended, Waiting
    <3>3. QED BY <2>8, <3>2 DEF Fail, Go, TypeOK, JobRow, Task, Free
  <2>9. QED
    BY <1>3, <2>1, <2>2, <2>3, <2>4, <2>5, <2>6, <2>7, <2>8 DEF Dispatch
<1>4. ASSUME NEW w \in Workers, Crash(w)
      PROVE  TypeOK'
  BY <1>4, JobsAssumption DEF Crash, Go, TypeOK, JobRow, Task, Free
<1>5. CASE AdminRecover
  BY <1>5, RecoverEffect DEF AdminRecover, TypeOK, JobRow, Task
<1>6. CASE UNCHANGED vars
  BY <1>6 DEF vars, TypeOK, JobRow, Task
<1>7. QED BY <1>1, <1>2, <1>3, <1>4, <1>5, <1>6 DEF Next

LEMMA InitType == Init => TypeOK
  BY JobsAssumption DEF Init, TypeOK, JobRow, Task, Free

\* Type correctness of the job rows and the dispatchers.
THEOREM TypeCorrect == Spec => []TypeOK
  BY InitType, TypeStep, PTL DEF Spec
-----------------------------------------------------------------------------
\* How one step changes one job: the cases every safety argument below needs.
LEMMA JobStep ==
    ASSUME TypeOK, [Next]_vars, NEW j \in Jobs
    PROVE  \/ job'[j] = job[j]
           \* it is enqueued, it comes due, its lease lapses, its handler is entered
           \/ /\ job'[j].attempts = job[j].attempts
              /\ \/ job[j].status \in Waiting \cup {"absent"}
                    /\ job'[j].status \in Waiting
                 \/ job[j].status \in Held /\ job'[j].status \in Held
                    /\ job'[j].owner = job[j].owner
           \* it is leased
           \/ /\ job[j].status \in Waiting
              /\ job'[j].status = "leased"
              /\ job'[j].attempts = job[j].attempts + 1
              /\ \E w \in Workers :
                    /\ job'[j].owner = w
                    /\ task'[w] = [stage |-> "leased", job |-> j,
                                   attempt |-> job[j].attempts + 1]
           \* its lease ends
           \/ /\ job[j].status \in Held
              /\ job'[j].attempts = job[j].attempts
              /\ job'[j].owner = Nobody
              /\ \/ job'[j].status \in Ended
                 \/ job'[j].status = "retry_wait" /\ ~(job[j].attempts >= MaxAttempts)
<1>1. ASSUME NEW k \in Jobs, NEW now \in BOOLEAN, Enqueue(k, now)
      PROVE  \/ job'[j] = job[j]
             \/ /\ job'[j].attempts = job[j].attempts
                /\ job'[j].owner = Nobody
                /\ job[j].status = "absent"
                /\ job'[j].status \in Waiting
  BY <1>1 DEF Enqueue, Released, TypeOK, Waiting
<1>2. ASSUME NEW k \in Jobs, TimePasses(k)
      PROVE  /\ job'[j].attempts = job[j].attempts
             /\ job'[j].owner = job[j].owner
             /\ job'[j].status = job[j].status
             /\ job'[j] = job[j] \/ job[j].status \in Waiting \cup Held
  BY <1>2 DEF TimePasses, TypeOK, JobRow
<1>3. ASSUME NEW w \in Workers, Lease(w)
      PROVE  \/ job'[j] = job[j]
             \/ /\ job[j].status \in Waiting
                /\ job'[j].status = "leased"
                /\ job'[j].attempts = job[j].attempts + 1
                /\ job'[j].owner = w
                /\ task'[w] = [stage |-> "leased", job |-> j,
                               attempt |-> job[j].attempts + 1]
  BY <1>3 DEF Lease, Due, Go, TypeOK
<1>4. ASSUME NEW w \in Workers, NEW s \in Ended \cup {"retry_wait"},
             At(w, "leased") \/ At(w, "handling"),
             Settle(w, task[w].job, s),
             s = "retry_wait" => ~(job[task[w].job].attempts >= MaxAttempts)
      PROVE  \/ job'[j] = job[j]
             \/ /\ job[j].status \in Held
                /\ job'[j].attempts = job[j].attempts
                /\ job'[j].owner = Nobody
                /\ \/ job'[j].status \in Ended
                   \/ /\ job'[j].status = "retry_wait"
                      /\ ~(job[j].attempts >= MaxAttempts)
  <2>1. task[w].job \in Jobs
    BY <1>4, TaskShape
  <2>2. \/ job'[j] = job[j]
        \/ j = task[w].job /\ Owned(w, j) /\ job'[j] = Released(j, s, FALSE)
    BY <1>4, <2>1 DEF Settle, TypeOK
  <2>3. QED BY <1>4, <2>2 DEF Released, Owned
<1>5. ASSUME NEW w \in Workers, FailUnhandled(w) \/ Complete(w) \/ Fail(w)
      PROVE  \E s \in Ended \cup {"retry_wait"} :
                /\ At(w, "leased") \/ At(w, "handling")
                /\ Settle(w, task[w].job, s)
                /\ s = "retry_wait" => ~(job[task[w].job].attempts >= MaxAttempts)
  BY <1>5 DEF FailUnhandled, Complete, Fail, Ended
<1>6. ASSUME NEW w \in Workers, EnterHandler(w)
      PROVE  \/ job'[j] = job[j]
             \/ /\ job'[j].attempts = job[j].attempts
                /\ job'[j].owner = job[j].owner
                /\ job[j].status \in Held
                /\ job'[j].status \in Held
  BY <1>6 DEF EnterHandler, TypeOK, JobRow, Held
<1>7. ASSUME RecoverStale
      PROVE  \/ job'[j] = job[j]
             \/ /\ job[j].status \in Held
                /\ job'[j].attempts = job[j].attempts
                /\ job'[j].owner = Nobody
                /\ \/ job'[j].status \in Ended
                   \/ /\ job'[j].status = "retry_wait"
                      /\ ~(job[j].attempts >= MaxAttempts)
  BY <1>7, RecoverEffect DEF Released, Ended
<1>8. ASSUME NEW w \in Workers,
             \/ \E k \in Jobs : Choose(w, k)
             \/ Overtaken(w) \/ FindNothing(w) \/ Crash(w)
      PROVE  job'[j] = job[j]
  BY <1>8 DEF Choose, Overtaken, FindNothing, Crash
<1>9. CASE UNCHANGED vars
  BY <1>9 DEF vars
<1>10. CASE \E k \in Jobs, now \in BOOLEAN : Enqueue(k, now)
  BY <1>10, <1>1
<1>11. CASE \E k \in Jobs : TimePasses(k)
  BY <1>11, <1>2
<1>12. CASE AdminRecover
  BY <1>12, <1>7 DEF AdminRecover
<1>13. CASE \E w \in Workers : Dispatch(w) \/ Crash(w)
  <2>1. PICK w \in Workers : Dispatch(w) \/ Crash(w)
    BY <1>13
  <2>2. CASE Lease(w)
    BY <2>2, <1>3
  <2>3. CASE FailUnhandled(w) \/ Complete(w) \/ Fail(w)
    BY <2>3, <1>4, <1>5
  <2>4. CASE EnterHandler(w)
    BY <2>4, <1>6
  <2>5. CASE Recover(w)
    BY <2>5, <1>7 DEF Recover
  <2>6. QED BY <2>1, <2>2, <2>3, <2>4, <2>5, <1>8 DEF Dispatch
<1>14. QED BY <1>9, <1>10, <1>11, <1>12, <1>13 DEF Next

\* The attempts are bounded because a job that waits has one left.
LEMMA AttemptsKept == Spec => [](AttemptsBounded /\ AttemptLeft)
<1> DEFINE Inv == TypeOK /\ AttemptsBounded /\ AttemptLeft
<1>1. Init => Inv
  BY InitType, JobsAssumption DEF Init, AttemptsBounded, AttemptLeft, Waiting
<1>2. Inv /\ [Next]_vars => Inv'
  <2> SUFFICES ASSUME TypeOK, AttemptsBounded, AttemptLeft, [Next]_vars
               PROVE  Inv'
    OBVIOUS
  <2>1. TypeOK'
    BY TypeStep
  <2>2. ASSUME NEW j \in Jobs
        PROVE  /\ job'[j].attempts <= MaxAttempts
               /\ job'[j].status \in Waiting \cup {"absent"} =>
                      job'[j].attempts < MaxAttempts
    <3>1. /\ job[j].attempts \in Nat
          /\ job[j].attempts <= MaxAttempts
          /\ job[j].status \in Waiting \cup {"absent"} => job[j].attempts < MaxAttempts
      BY DEF TypeOK, JobRow, AttemptsBounded, AttemptLeft
    <3>2. /\ Waiting \cap Held = {} /\ Waiting \cap Ended = {}
          /\ "absent" \notin Held \cup Ended /\ "leased" \notin Waiting
      BY DEF Waiting, Held, Ended
    <3>3. \/ job'[j] = job[j]
          \/ /\ job'[j].attempts = job[j].attempts
             /\ \/ job[j].status \in Waiting \cup {"absent"}
                \/ job'[j].status \in Held
          \/ /\ job[j].status \in Waiting
             /\ job'[j].status = "leased"
             /\ job'[j].attempts = job[j].attempts + 1
          \/ /\ job'[j].attempts = job[j].attempts
             /\ job'[j].status \in Ended \/ ~(job[j].attempts >= MaxAttempts)
      BY JobStep
    <3>4. "absent" \notin Held /\ "absent" \notin Ended /\ "leased" # "absent"
      BY <3>2
    <3>5. CASE job'[j] = job[j]
      BY <3>1, <3>5
    <3>6. CASE job'[j].attempts = job[j].attempts + 1
      BY <3>1, <3>2, <3>3, <3>4, JobsAssumption
    <3>7. QED BY <3>1, <3>2, <3>3, <3>4, <3>5, <3>6, JobsAssumption
  <2>3. QED BY <2>1, <2>2 DEF AttemptsBounded, AttemptLeft
<1>3. QED BY <1>1, <1>2, PTL DEF Spec

\* A job is not attempted more often than it may be, although acquire does not
\* look at max_attempts.
THEOREM Attempts == Spec => []AttemptsBounded
  BY AttemptsKept, PTL

\* A settled job is never touched again.
THEOREM Final == Spec => EndedIsFinal
<1>1. ASSUME TypeOK, [Next]_vars, NEW j \in Jobs, job[j].status \in Ended
      PROVE  job'[j] = job[j]
  <2>1. Ended \cap (Waiting \cup Held \cup {"absent"}) = {}
    BY DEF Waiting, Held, Ended
  <2>2. QED BY <1>1, <2>1, JobStep
<1>2. TypeOK /\ [Next]_vars =>
          [\A j \in Jobs : job[j].status \in Ended => job'[j] = job[j]]_vars
  BY <1>1
<1>3. QED BY <1>2, TypeCorrect, PTL DEF Spec, EndedIsFinal
\* A dispatcher holds the lease it took until it lets go of it.
LEMMA TaskStep ==
    ASSUME TypeOK, [Next]_vars, NEW w \in Workers,
           task'[w].stage \in {"leased", "handling"}
    PROVE  \/ /\ task[w].stage \in {"leased", "handling"}
              /\ task[w].job = task'[w].job
              /\ task[w].attempt = task'[w].attempt
           \/ Lease(w)
<1>1. ASSUME task'[w] = task[w]
      PROVE  /\ task[w].stage \in {"leased", "handling"}
             /\ task[w].job = task'[w].job
             /\ task[w].attempt = task'[w].attempt
  BY <1>1
<1>2. ASSUME NEW v \in Workers, v # w, Dispatch(v) \/ Crash(v)
      PROVE  task'[w] = task[w]
  BY <1>2 DEF Dispatch, Crash, Go, Choose, Lease, Overtaken, FindNothing, Recover,
              FailUnhandled, EnterHandler, Complete, Fail, TypeOK
<1>3. ASSUME \/ \E j \in Jobs : Choose(w, j)
             \/ Overtaken(w) \/ FindNothing(w) \/ Recover(w)
             \/ FailUnhandled(w) \/ Complete(w) \/ Fail(w) \/ Crash(w)
      PROVE  FALSE
  BY <1>3 DEF Choose, Overtaken, FindNothing, Recover, FailUnhandled, Complete, Fail,
              Crash, Go, Free, TypeOK
<1>4. ASSUME EnterHandler(w)
      PROVE  /\ task[w].stage \in {"leased", "handling"}
             /\ task[w].job = task'[w].job
             /\ task[w].attempt = task'[w].attempt
  <2>1. task[w] \in [stage : {"leased", "handling"}, job : Jobs, attempt : Nat]
    BY <1>4 DEF EnterHandler, At, TypeOK, Task, Free
  <2>2. task'[w] = [task[w] EXCEPT !.stage = "handling"]
    BY <1>4 DEF EnterHandler, Go, TypeOK
  <2>3. QED BY <2>1, <2>2
<1>5. ASSUME \/ \E j \in Jobs, now \in BOOLEAN : Enqueue(j, now)
             \/ \E j \in Jobs : TimePasses(j)
             \/ AdminRecover \/ UNCHANGED vars
      PROVE  task'[w] = task[w]
  BY <1>5 DEF Enqueue, TimePasses, AdminRecover, vars
<1>6. QED BY <1>1, <1>2, <1>3, <1>4, <1>5 DEF Next, Dispatch

\* A worker can settle only its own attempt, though only worker ids are compared.
THEOREM OwnAttempt == Spec => []OwnAttemptOnly
<1> DEFINE Inv == TypeOK /\ OwnAttemptOnly
<1>1. Init => Inv
  BY InitType DEF Init, OwnAttemptOnly, At, Free
<1>2. Inv /\ [Next]_vars => Inv'
  <2> SUFFICES ASSUME TypeOK, OwnAttemptOnly, [Next]_vars
               PROVE  Inv'
    OBVIOUS
  <2>1. TypeOK'
    BY TypeStep
  <2>2. ASSUME NEW w \in Workers,
               task'[w].stage \in {"leased", "handling"},
               job'[task'[w].job].owner = w,
               job'[task'[w].job].status \in Held
        PROVE  task'[w].attempt = job'[task'[w].job].attempts
    <3> DEFINE j == task'[w].job
    <3>1. j \in Jobs
      BY <2>1, <2>2 DEF TypeOK, Task, Free
    <3>2. w # Nobody /\ Waiting \cap Held = {}
      BY JobsAssumption DEF Waiting, Held
    <3>3. \/ job'[j].owner = job[j].owner /\ job[j].status \in Held
                 /\ job'[j].attempts = job[j].attempts
          \/ task'[w] = [stage |-> "leased", job |-> j, attempt |-> job[j].attempts + 1]
                 /\ job'[j].attempts = job[j].attempts + 1
      BY <2>2, <3>1, <3>2, JobStep
    <3>4. \/ /\ task[w].stage \in {"leased", "handling"}
             /\ task[w].job = j
             /\ task[w].attempt = task'[w].attempt
          \/ Lease(w)
      <4>1. task[w] \in Task
        BY DEF TypeOK
      <4>2. QED BY <2>2, <4>1, TaskStep
    <3>5. CASE Lease(w)
      BY <3>5, <3>1 DEF Lease, Go, TypeOK
    <3>6. CASE ~Lease(w)
      BY <2>2, <3>1, <3>3, <3>4, <3>6 DEF OwnAttemptOnly, At, Owned
    <3>7. QED BY <3>5, <3>6
  <2>3. QED BY <2>1, <2>2 DEF OwnAttemptOnly, At, Owned
<1>3. QED BY <1>1, <1>2, PTL DEF Spec

\* An attempt a dispatcher took is never ahead of the row's, and as long as it is the
\* row's and not taken away, so is the dispatcher its owner.
GripRight ==
    \A w \in Workers :
        At(w, "leased") \/ At(w, "handling") =>
            LET row == job[task[w].job]
            IN  /\ task[w].attempt <= row.attempts
                /\ task[w].attempt = row.attempts /\ row.status \in Held => row.owner = w

LEMMA GripsKept == Spec => []GripRight
<1> DEFINE Inv == TypeOK /\ GripRight
<1>1. Init => Inv
  BY InitType DEF Init, GripRight, At, Free
<1>2. Inv /\ [Next]_vars => Inv'
  <2> SUFFICES ASSUME TypeOK, GripRight, [Next]_vars
               PROVE  Inv'
    OBVIOUS
  <2>1. TypeOK'
    BY TypeStep
  <2>2. ASSUME NEW w \in Workers,
               task'[w].stage \in {"leased", "handling"}
        PROVE  LET row == job'[task'[w].job]
               IN  /\ task'[w].attempt <= row.attempts
                   /\ task'[w].attempt = row.attempts /\ row.status \in Held => row.owner = w
    <3> DEFINE j == task'[w].job
               n == task'[w].attempt
    <3>1. j \in Jobs /\ n \in Nat
      BY <2>1, <2>2 DEF TypeOK, Task, Free
    <3>2. Waiting \cap Held = {} /\ Ended \cap Held = {} /\ job[j].attempts \in Nat
      BY <3>1 DEF Waiting, Held, Ended, TypeOK, JobRow
    <3>3. \/ task[w].stage \in {"leased", "handling"} /\ task[w].job = j /\ task[w].attempt = n
          \/ Lease(w)
      BY <2>2, TaskStep
    <3>4. CASE Lease(w)
      BY <3>4, <3>1, <3>2 DEF Lease, Go, TypeOK
    <3>5. CASE ~Lease(w)
      <4>1. n <= job[j].attempts /\ (n = job[j].attempts /\ job[j].status \in Held
                                        => job[j].owner = w)
        BY <3>3, <3>5 DEF GripRight, At
      <4>2. \/ job'[j] = job[j]
            \/ /\ job'[j].attempts = job[j].attempts
               /\ job'[j].status \in Held =>
                     job[j].status \in Held /\ job'[j].owner = job[j].owner
            \/ job'[j].attempts = job[j].attempts + 1
        BY <3>1, <3>2, JobStep DEF Held
      <4>3. QED BY <3>1, <3>2, <4>1, <4>2
    <3>6. QED BY <3>4, <3>5
  <2>3. QED BY <2>1, <2>2 DEF GripRight, At
<1>3. QED BY <1>1, <1>2, PTL DEF Spec

-----------------------------------------------------------------------------
\* Jobs as a book of numbered attempts.
View == [j \in Jobs |-> [phase |-> Phase(job[j].status), number |-> job[j].attempts]]
Grips == [w \in Workers |-> GripOf(w)]

LEMMA Phases ==
    /\ Phase("absent") = "absent"
    /\ \A s \in Waiting : Phase(s) = "open"
    /\ \A s \in Held : Phase(s) = "taken"
    /\ \A s \in Ended : Phase(s) = "over"
<1>1. /\ Waiting \cap Held = {} /\ Waiting \cap Ended = {} /\ Held \cap Ended = {}
      /\ "absent" \notin Waiting \cup Held \cup Ended
  BY DEF Waiting, Held, Ended
<1>2. QED BY <1>1 DEF Phase

\* A job is in the phase of its status.
LEMMA PhaseIs ==
    ASSUME TypeOK, NEW j \in Jobs
    PROVE  /\ Leases!InPhase(j, "absent") <=> job[j].status = "absent"
           /\ Leases!InPhase(j, "open") <=> job[j].status \in Waiting
           /\ Leases!InPhase(j, "taken") <=> job[j].status \in Held
<1>1. job[j].status \in {"absent"} \cup Waiting \cup Held \cup Ended
  BY DEF TypeOK, JobRow
<1>2. Leases!InPhase(j, "absent") <=> Phase(job[j].status) = "absent"
  BY DEF Leases!InPhase
<1>3. Leases!InPhase(j, "open") <=> Phase(job[j].status) = "open"
  BY DEF Leases!InPhase
<1>4. Leases!InPhase(j, "taken") <=> Phase(job[j].status) = "taken"
  BY DEF Leases!InPhase
<1>5. /\ Waiting \cap Held = {} /\ Waiting \cap Ended = {} /\ Held \cap Ended = {}
      /\ "absent" \notin Waiting \cup Held \cup Ended
  BY DEF Waiting, Held, Ended
<1>6. QED BY <1>1, <1>2, <1>3, <1>4, <1>5, Phases

LEMMA TurnsTo ==
    ASSUME NEW j \in Jobs, NEW phase
    PROVE  Leases!Turns(j, phase) = [phase |-> phase, number |-> job[j].attempts]
<1>1. View[j] = [phase |-> Phase(job[j].status), number |-> job[j].attempts]
  BY DEF View
<1>2. Leases!Turns(j, phase) = [View[j] EXCEPT !.phase = phase]
  BY DEF Leases!Turns, View
<1>3. QED BY <1>1, <1>2

\* A step that moves no job to another phase or attempt cannot be seen in the view.
LEMMA ViewStays ==
    ASSUME \A j \in Jobs : /\ Phase(job'[j].status) = Phase(job[j].status)
                           /\ job'[j].attempts = job[j].attempts
    PROVE  UNCHANGED View
  BY DEF View

\* A step that moves one job ...
LEMMA ViewMoves ==
    ASSUME NEW k \in Jobs, \A j \in Jobs \ {k} : job'[j] = job[j]
    PROVE  View' = [View EXCEPT ![k] = [phase |-> Phase(job'[k].status),
                                        number |-> job'[k].attempts]]
  BY DEF View

\* ... and one worker.
LEMMA GripsStay ==
    ASSUME NEW w \in Workers, TypeOK, NEW t, Go(w, t),
           GripOf(w)' = GripOf(w)
    PROVE  UNCHANGED Grips
<1>1. \A v \in Workers \ {w} : task'[v] = task[v]
  BY DEF Go, TypeOK
<1>2. \A v \in Workers : GripOf(v)' = GripOf(v)
  BY <1>1 DEF GripOf, At
<1>3. QED BY <1>2 DEF Grips

LEMMA GripMoves ==
    ASSUME NEW w \in Workers, TypeOK, NEW t, Go(w, t)
    PROVE  Grips' = [Grips EXCEPT ![w] = GripOf(w)']
<1>1. \A v \in Workers \ {w} : task'[v] = task[v]
  BY DEF Go, TypeOK
<1>2. \A v \in Workers \ {w} : GripOf(v)' = GripOf(v)
  BY <1>1 DEF GripOf, At
<1>3. QED BY <1>2 DEF Grips

\* A job that is enqueued is submitted.
LEMMA EnqueueSubmits ==
    ASSUME TypeOK, NEW j \in Jobs, NEW now \in BOOLEAN, Enqueue(j, now)
    PROVE  Leases!Submit(j)
<1>1. job'[j].status \in Waiting /\ job'[j].attempts = job[j].attempts
  BY DEF Enqueue, Released, TypeOK, Waiting
<1>2. \A k \in Jobs \ {j} : job'[k] = job[k]
  BY DEF Enqueue, TypeOK
<1>3. View' = [View EXCEPT ![j] = [phase |-> "open", number |-> job[j].attempts]]
  BY <1>1, <1>2, ViewMoves, Phases
<1>4. View' = [View EXCEPT ![j].phase = "open"]
  BY <1>3 DEF View
<1>5. UNCHANGED Grips
  BY DEF Enqueue, Grips, GripOf, At
<1>6. Leases!InPhase(j, "absent")
  BY PhaseIs DEF Enqueue
<1>7. QED BY <1>4, <1>5, <1>6 DEF Leases!Submit, View, Grips

\* A lease is an attempt that is taken.
LEMMA LeaseTakes ==
    ASSUME TypeOK, AttemptLeft, NEW w \in Workers, Lease(w),
           NEW j \in Jobs, j = task[w].job
    PROVE  Leases!Take(w, j)
<1> DEFINE n == job[j].attempts + 1
<1>1. j \in Jobs /\ job[j].status \in Waiting
  BY TaskShape DEF Lease, Due
<1>2. \A k \in Jobs \ {j} : job'[k] = job[k]
  BY <1>1 DEF Lease, TypeOK
<1>3. job'[j].status \in Held /\ job'[j].attempts = n
  BY <1>1 DEF Lease, TypeOK, Held
<1>4. View' = [View EXCEPT ![j] = [phase |-> "taken", number |-> n]]
  BY <1>1, <1>2, <1>3, ViewMoves, Phases
<1>5. GripOf(w) = Leases!Nothing
  BY DEF Lease, GripOf, At, Leases!Nothing
<1>6. /\ Go(w, [stage |-> "leased", job |-> j, attempt |-> n])
      /\ GripOf(w)' = <<j, n>>
  BY DEF Lease, Go, GripOf, At, TypeOK
<1>7. Grips' = [Grips EXCEPT ![w] = <<j, n>>]
  BY <1>6, GripMoves
<1>8. Leases!InPhase(j, "open") /\ job[j].attempts < MaxAttempts
  BY <1>1, PhaseIs DEF AttemptLeft
<1>9. View[j].number = job[j].attempts /\ Grips[w] = GripOf(w)
  BY <1>1 DEF View, Grips
<1>10. /\ View' = [View EXCEPT ![j] = [phase |-> "taken", number |-> View[j].number + 1]]
       /\ Grips' = [Grips EXCEPT ![w] = <<j, View[j].number + 1>>]
       /\ Grips[w] = Leases!Nothing
       /\ View[j].number < MaxAttempts
  BY <1>4, <1>5, <1>7, <1>8, <1>9
<1>11. QED BY <1>8, <1>10, Zenon DEF Leases!Take, View, Grips

\* What a recovery pass takes away are attempts that lapsed.
LEMMA RecoveryLapses ==
    ASSUME TypeOK, RecoverStale, UNCHANGED Grips
    PROVE  Leases!Lapse
<1> DEFINE stale == {j \in Jobs : Lapsed(j)}
<1>1. stale \in SUBSET {j \in Jobs : Leases!InPhase(j, "taken")}
  BY PhaseIs DEF Lapsed
<1>2. ASSUME NEW j \in Jobs
      PROVE  View'[j] = IF j \in stale THEN Leases!Reopened(j) ELSE View[j]
  <2>1. View'[j] = [phase |-> Phase(job'[j].status), number |-> job'[j].attempts]
        /\ View[j] = [phase |-> Phase(job[j].status), number |-> job[j].attempts]
    BY DEF View
  <2>2. CASE ~Lapsed(j)
    BY <2>1, <2>2 DEF RecoverStale
  <2>3. CASE Lapsed(j) /\ job[j].attempts >= MaxAttempts
    <3>1. job'[j].status \in Ended /\ job'[j].attempts = job[j].attempts
      BY <2>3 DEF RecoverStale, Released, Ended
    <3>2. ~(job[j].attempts < MaxAttempts)
      BY <2>3, JobsAssumption DEF TypeOK, JobRow
    <3>3. Leases!Reopened(j) = [phase |-> "over", number |-> job[j].attempts]
      BY <3>2 DEF Leases!Reopened, Leases!Turns
    <3>4. QED BY <2>1, <2>3, <3>1, <3>3, Phases
  <2>4. CASE Lapsed(j) /\ ~(job[j].attempts >= MaxAttempts)
    <3>1. job'[j].status \in Waiting /\ job'[j].attempts = job[j].attempts
      BY <2>4 DEF RecoverStale, Released, Waiting
    <3>2. job[j].attempts < MaxAttempts
      BY <2>4, JobsAssumption DEF TypeOK, JobRow
    <3>3. Leases!Reopened(j) = [phase |-> "open", number |-> job[j].attempts]
      BY <3>2 DEF Leases!Reopened, Leases!Turns
    <3>4. QED BY <2>1, <2>4, <3>1, <3>3, Phases
  <2>5. QED BY <2>2, <2>3, <2>4
<1>3. View' = [j \in Jobs |-> IF j \in stale THEN Leases!Reopened(j) ELSE View[j]]
  BY <1>2 DEF View
<1> HIDE DEF stale
<1>4. QED BY <1>1, <1>3 DEF Leases!Lapse, View, Grips

\* Whoever settles a job settles the attempt it took, or nothing: that the row is
\* its own means that the attempt is.
LEMMA SettleSettles ==
    ASSUME TypeOK, GripRight, OwnAttemptOnly, NEW w \in Workers,
           At(w, "leased") \/ At(w, "handling"), Go(w, Free),
           NEW s \in Ended \cup {"retry_wait"}, Settle(w, task[w].job, s),
           s = "retry_wait" => ~(job[task[w].job].attempts >= MaxAttempts)
    PROVE  Leases!Settle(w)
<1> DEFINE j == task[w].job
<1>1. j \in Jobs /\ task[w].attempt \in Nat
  BY TaskShape
<1>2. GripOf(w) = <<j, task[w].attempt>> /\ GripOf(w)' = Leases!Nothing
  BY DEF Go, GripOf, At, Free, TypeOK, Leases!Nothing
<1>3. Grips[w] = <<j, task[w].attempt>> /\ Grips' = [Grips EXCEPT ![w] = Leases!Nothing]
  BY <1>2, GripMoves DEF Grips
<1>4. /\ View[j].number = job[j].attempts
      /\ Leases!InPhase(j, "taken") <=> job[j].status \in Held
  BY <1>1, PhaseIs DEF View
<1>5. CASE Owned(w, j)
  <2>1. Leases!InPhase(j, "taken") /\ task[w].attempt = job[j].attempts
    BY <1>1, <1>4, <1>5 DEF OwnAttemptOnly, Owned
  <2>2. job' = [job EXCEPT ![j] = Released(j, s, FALSE)]
    BY <1>5 DEF Settle
  <2>3. job'[j].status = s /\ job'[j].attempts = job[j].attempts
        /\ \A k \in Jobs \ {j} : job'[k] = job[k]
    BY <1>1, <2>2 DEF TypeOK, Released
  <2>4. View' = [View EXCEPT ![j] = [phase |-> Phase(s), number |-> job[j].attempts]]
    BY <1>1, <2>3, ViewMoves
  <2>5. \A phase : Leases!Turns(j, phase) = [phase |-> phase, number |-> job[j].attempts]
    BY <1>1, TurnsTo
  <2>6. [phase |-> Phase(s), number |-> job[j].attempts]
            \in {Leases!Turns(j, "over"), Leases!Reopened(j)}
    <3>1. CASE s \in Ended
      BY <3>1, <2>5, Phases
    <3>2. CASE s = "retry_wait"
      <4>1. job[j].attempts < MaxAttempts
        BY <1>1, <3>2, JobsAssumption DEF TypeOK, JobRow
      <4>2. Leases!Reopened(j) = Leases!Turns(j, "open")
        BY <1>1, <1>4, <4>1 DEF Leases!Reopened, View
      <4>3. s \in Waiting
        BY <3>2 DEF Waiting
      <4>4. QED BY <2>5, <4>2, <4>3, Phases
    <3>3. QED BY <3>1, <3>2
  <2>7. /\ Grips[w] # Leases!Nothing /\ Grips[w][1] = j
        /\ Grips[w][2] = View[Grips[w][1]].number
    BY <1>3, <1>4, <2>1 DEF Leases!Nothing
  <2>8. \E result \in {Leases!Turns(Grips[w][1], "over"), Leases!Reopened(Grips[w][1])} :
            View' = [View EXCEPT ![Grips[w][1]] = result]
    BY <2>4, <2>6, <2>7
  <2>9. Leases!InPhase(Grips[w][1], "taken")
    BY <2>1, <2>7
  <2>10. QED BY <1>3, <2>7, <2>8, <2>9, Zenon DEF Leases!Settle, View, Grips
<1>6. CASE ~Owned(w, j)
  <2>1. UNCHANGED job
    BY <1>6 DEF Settle
  <2>2. UNCHANGED View
    BY <2>1 DEF View
  <2>3. /\ Grips[w] # Leases!Nothing
        /\ ~(Leases!InPhase(Grips[w][1], "taken") /\ Grips[w][2] = View[Grips[w][1]].number)
    BY <1>1, <1>3, <1>4, <1>6 DEF GripRight, Owned, Leases!Nothing
  <2>4. QED BY <1>3, <2>2, <2>3, Zenon DEF Leases!Settle, View, Grips
<1>7. QED BY <1>5, <1>6

\* Every step of the table is one of the book, or none.
LEMMA LeaseStep ==
    ASSUME TypeOK, AttemptLeft, OwnAttemptOnly, GripRight, [Next]_vars
    PROVE  Leases!Next \/ UNCHANGED <<View, Grips>>
<1>1. ASSUME NEW j \in Jobs, NEW now \in BOOLEAN, Enqueue(j, now)
      PROVE  Leases!Next
  BY <1>1, EnqueueSubmits DEF Leases!Next
<1>2. ASSUME NEW j \in Jobs, TimePasses(j)
      PROVE  UNCHANGED <<View, Grips>>
  <2>1. \A k \in Jobs : job'[k].status = job[k].status /\ job'[k].attempts = job[k].attempts
    BY <1>2 DEF TimePasses, TypeOK, JobRow
  <2>2. UNCHANGED View
    BY <2>1, ViewStays
  <2>3. QED BY <1>2, <2>2 DEF TimePasses, Grips, GripOf, At
<1>3. ASSUME NEW w \in Workers, Dispatch(w)
      PROVE  Leases!Next \/ UNCHANGED <<View, Grips>>
  <2>1. ASSUME NEW j \in Jobs, Choose(w, j)
        PROVE  UNCHANGED <<View, Grips>>
    <3>1. GripOf(w)' = GripOf(w) /\ Go(w, [stage |-> "locking", job |-> j])
      BY <2>1 DEF Choose, Go, GripOf, At, TypeOK
    <3>2. QED BY <2>1, <3>1, GripsStay DEF Choose, View
  <2>2. CASE Lease(w)
    <3>1. PICK j \in Jobs : j = task[w].job
      BY <2>2, TaskShape DEF Lease
    <3>2. Leases!Take(w, j)
      BY <2>2, <3>1, LeaseTakes
    <3>3. QED BY <3>2 DEF Leases!Next
  <2>3. CASE Overtaken(w) \/ FindNothing(w)
    <3>1. GripOf(w)' = GripOf(w) /\ Go(w, [stage |-> "recovering"])
      BY <2>3 DEF Overtaken, FindNothing, Go, GripOf, At, TypeOK
    <3>2. QED BY <2>3, <3>1, GripsStay DEF Overtaken, FindNothing, View
  <2>4. CASE Recover(w)
    <3>1. GripOf(w)' = GripOf(w) /\ Go(w, Free) /\ RecoverStale
      BY <2>4 DEF Recover, Go, GripOf, At, Free, TypeOK
    <3>2. QED BY <3>1, GripsStay, RecoveryLapses DEF Leases!Next
  <2>5. CASE FailUnhandled(w) \/ Complete(w) \/ Fail(w)
    <3>1. /\ At(w, "leased") \/ At(w, "handling")
          /\ Go(w, Free)
          /\ \E s \in Ended \cup {"retry_wait"} :
                /\ Settle(w, task[w].job, s)
                /\ s = "retry_wait" => ~(job[task[w].job].attempts >= MaxAttempts)
      BY <2>5 DEF FailUnhandled, Complete, Fail, Ended
    <3>2. Leases!Settle(w)
      BY <3>1, SettleSettles
    <3>3. QED BY <3>2 DEF Leases!Next
  <2>6. CASE EnterHandler(w)
    <3>1. /\ task[w].job \in Jobs
          /\ task[w] \in [stage : {"leased", "handling"}, job : Jobs, attempt : Nat]
      BY <2>6 DEF EnterHandler, At, TypeOK, Task, Free
    <3>2. \A k \in Jobs : /\ job'[k].attempts = job[k].attempts
                         /\ \/ job'[k].status = job[k].status
                            \/ job[k].status \in Held /\ job'[k].status \in Held
      BY <2>6, <3>1 DEF EnterHandler, TypeOK, JobRow, Held
    <3>3. UNCHANGED View
      BY <3>2, ViewStays, Phases
    <3>4. GripOf(w)' = GripOf(w) /\ Go(w, [task[w] EXCEPT !.stage = "handling"])
      BY <2>6, <3>1 DEF EnterHandler, Go, GripOf, At, TypeOK
    <3>5. QED BY <3>3, <3>4, GripsStay
  <2>7. QED BY <1>3, <2>1, <2>2, <2>3, <2>4, <2>5, <2>6 DEF Dispatch
<1>4. ASSUME NEW w \in Workers, Crash(w)
      PROVE  Leases!Next
  <2>1. Go(w, Free) /\ GripOf(w)' = Leases!Nothing /\ UNCHANGED View
    BY <1>4 DEF Crash, Go, GripOf, At, Free, TypeOK, View, Leases!Nothing
  <2>2. Grips' = [Grips EXCEPT ![w] = Leases!Nothing]
    BY <2>1, GripMoves
  <2>3. Leases!Forget(w)
    BY <2>1, <2>2, Zenon DEF Leases!Forget, View, Grips
  <2>4. QED BY <2>3 DEF Leases!Next
<1>5. CASE AdminRecover
  <2>1. UNCHANGED Grips
    BY <1>5 DEF AdminRecover, Grips, GripOf, At
  <2>2. QED BY <1>5, <2>1, RecoveryLapses DEF AdminRecover, Leases!Next
<1>6. CASE UNCHANGED vars
  BY <1>6 DEF vars, View, Grips, GripOf, At
<1>7. QED BY <1>1, <1>2, <1>3, <1>4, <1>5, <1>6 DEF Next

\* Background jobs implement the book of numbered attempts, for any jobs, dispatchers,
\* attempts and crashes: although complete and fail compare the worker only, nobody
\* settles an attempt but who took it, and none that was taken away.
THEOREM Numbered == Spec => WorksLikeLeases
<1>1. Init => Leases!Init
  <2> SUFFICES ASSUME Init PROVE Leases!Init
    OBVIOUS
  <2>1. View = [j \in Jobs |-> [phase |-> "absent", number |-> 0]]
    BY Phases DEF Init, View
  <2>2. Grips = [w \in Workers |-> Leases!Nothing]
    BY DEF Init, Grips, GripOf, At, Free, Leases!Nothing
  <2>3. QED BY <2>1, <2>2, Zenon DEF Leases!Init, View, Grips
<1>2. TypeOK /\ AttemptLeft /\ OwnAttemptOnly /\ GripRight /\ [Next]_vars
          => [Leases!Next]_<<View, Grips>>
  BY LeaseStep
<1>3. QED
  BY <1>1, <1>2, TypeCorrect, AttemptsKept, OwnAttempt, GripsKept, PTL
     DEF Spec, WorksLikeLeases, Leases!Spec, View, Grips

-----------------------------------------------------------------------------
\* Outages.
USE DEF AdminAt, ClerkAt, AdminDone, ClerkDone, Status, Becomes

\* The window of the outage, once it is there.
Closing == [scope |-> "vpn_provisioning", state |-> "maintenance", status |-> "active",
            ends |-> "open", due |-> FALSE, over |-> FALSE]

\* The outage's window is there or not, and never anything else: an administrator
\* who has picked it is told that its scope has not recovered, because of itself;
\* the scheduler has it neither to activate nor to end.
Closed ==
    /\ window[Outage] \in {None, Closing}
    /\ admin.stage \in {"picked", "checked"} /\ admin.window = Outage =>
         window[Outage] = Closing
    /\ admin.stage = "checked" /\ admin.window = Outage => ~admin.ok
    /\ clerk.stage \in {"activating", "ending"} => clerk.window # Outage

\* The scheduler works on windows that exist; none is ever deleted.
Found == clerk.stage \in {"activating", "ending"} => window[clerk.window] # None

ClosedInv == OutageTypeOK /\ Found /\ Closed

\* What a step keeps, and that it leaves the outage's window there.
Safe == /\ WindowTypeOK' /\ Found' /\ Closed'
        /\ window[Outage] = Closing => window'[Outage] = Closing

\* What a window becomes is a window.
LEMMA RowSet ==
    ASSUME NEW row \in WindowRow,
           NEW status \in {"scheduled", "active", "ending", "completed", "cancelled"}
    PROVE  /\ [row EXCEPT !.status = status] \in WindowRow
           /\ [row EXCEPT !.due = TRUE] \in WindowRow
           /\ [row EXCEPT !.over = TRUE] \in WindowRow
  BY DEF WindowRow

LEMMA NewTyped ==
    ASSUME WindowTypeOK, NEW w \in Windows, NEW scope, NEW state, NEW status,
           NEW ends,
           [scope |-> scope, state |-> state, status |-> status, ends |-> ends,
            due |-> FALSE, over |-> FALSE] \in WindowRow,
           New(w, scope, state, status, ends)
    PROVE  window' \in [Windows -> WindowRow \cup {None}]
  BY DEF WindowTypeOK, New

LEMMA BecomesTyped ==
    ASSUME WindowTypeOK, NEW w \in Windows, window[w] # None,
           NEW status \in {"scheduled", "active", "ending", "completed", "cancelled"},
           Becomes(w, status)
    PROVE  window' \in [Windows -> WindowRow \cup {None}]
<1>1. window[w] \in WindowRow
  BY DEF WindowTypeOK
<1>2. [window[w] EXCEPT !.status = status] \in WindowRow
  BY <1>1, RowSet
<1>3. QED BY <1>2 DEF WindowTypeOK

LEMMA ClosingRow == Closing \in WindowRow /\ Closing # None
<1>1. Closing \in WindowRow
  BY DEF Closing, WindowRow
<1>2. QED BY <1>1, WindowAssumption

\* What is known of the constants.
LEMMA Marks ==
    /\ Outage \notin Planned
    /\ None \notin WindowRow
    /\ Idle \notin {"starting", "picked", "checked", "activating", "ending"}
    /\ Plans \subseteq [scope : {"global", "vpn_provisioning"},
                      state : {"degraded", "maintenance"}, ends : {"auto", "approval"}]
    /\ Closing \in WindowRow /\ Closing # None
  BY ClosingRow, WindowAssumption

\* A step that writes no window and is none of the administrator's or the scheduler's.
LEMMA WindowsStay ==
    ASSUME ClosedInv, UNCHANGED windowVars
    PROVE  Safe
  BY DEF Safe, ClosedInv, OutageTypeOK, WindowTypeOK, Found, Closed, windowVars

\* A step of the administrator that writes no window.
LEMMA AdminTurns ==
    ASSUME ClosedInv, UNCHANGED <<window, clerk>>,
           admin' \in [stage : {Idle, "starting"}]
           \cup [stage : {"picked"}, window : Windows]
                        \cup [stage : {"checked"}, window : Windows, ok : BOOLEAN],
           admin'.stage \in {"picked", "checked"} /\ admin'.window = Outage =>
             window[Outage] = Closing,
           admin'.stage = "checked" /\ admin'.window = Outage => ~admin'.ok
    PROVE  Safe
  BY DEF Safe, ClosedInv, OutageTypeOK, WindowTypeOK, Found, Closed

\* A step of the scheduler that writes no window.
LEMMA ClerkTurns ==
    ASSUME ClosedInv, UNCHANGED <<window, admin>>, NEW w \in Windows,
           w # Outage, window[w] # None,
           \/ clerk' = [stage |-> "ending", window |-> w]
           \/ \E free \in BOOLEAN : clerk' = [stage |-> "activating", window |-> w, free |-> free]
    PROVE  Safe
  BY DEF Safe, ClosedInv, OutageTypeOK, WindowTypeOK, Found, Closed

\* A step that writes a window other than the outage's, and after which the
\* administrator and the scheduler are where they were or have nothing in hand.
LEMMA WindowTurns ==
    ASSUME ClosedInv, NEW w \in Windows, w # Outage,
           NEW row \in WindowRow, window' = [window EXCEPT ![w] = row],
           admin' \in {admin, [stage |-> Idle]}, clerk' \in {clerk, [stage |-> Idle]}
    PROVE  Safe
<1>1. /\ window' \in [Windows -> WindowRow \cup {None}]
      /\ window'[Outage] = window[Outage]
      /\ \A v \in Windows : window[v] # None => window'[v] # None
  BY Marks DEF ClosedInv, OutageTypeOK, WindowTypeOK, Windows
<1>2. WindowTypeOK'
  BY <1>1 DEF ClosedInv, OutageTypeOK, WindowTypeOK
<1>3. Found'
  BY <1>1, Marks DEF ClosedInv, OutageTypeOK, WindowTypeOK, Found
<1>4. Closed'
  BY <1>1, Marks DEF ClosedInv, Closed
<1>5. QED BY <1>1, <1>2, <1>3, <1>4 DEF Safe

LEMMA WindowStepKeeps == ClosedInv /\ WindowStep => Safe
<1> SUFFICES ASSUME ClosedInv, WindowStep
             PROVE  Safe
    OBVIOUS
<1>0. /\ window \in [Windows -> WindowRow \cup {None}]
      /\ clerk.stage = "activating" => clerk.window \in Windows /\ clerk.free \in BOOLEAN
      /\ clerk.stage = "ending" => clerk.window \in Windows
      /\ admin.stage \in {"picked", "checked"} => admin.window \in Windows
  BY Marks DEF ClosedInv, OutageTypeOK, WindowTypeOK
<1>1. CASE StartGlobal
  BY <1>1, AdminTurns, Marks DEF StartGlobal
<1>2. ASSUME NEW w \in Planned, InsertGlobal(w)
      PROVE  Safe
  BY <1>2, WindowTurns, Marks DEF InsertGlobal, New, WindowRow, Windows
<1>3. ASSUME NEW w \in Planned, NEW plan \in Plans, Plan(w, plan)
      PROVE  Safe
  BY <1>3, WindowTurns, Marks DEF Plan, New, WindowRow, Windows
<1>4. ASSUME NEW w \in Planned, Cancel(w)
      PROVE  Safe
  <2>1. w \in Windows /\ w # Outage /\ window[w] \in WindowRow
    BY <1>0, <1>4, Marks DEF Cancel, Windows
  <2>2. window' = [window EXCEPT ![w] = [window[w] EXCEPT !.status = "cancelled"]]
    BY <1>4 DEF Cancel
  <2>3. QED BY <1>4, <2>1, <2>2, RowSet, WindowTurns DEF Cancel
<1>5. ASSUME NEW w \in Windows, EndPick(w)
      PROVE  Safe
  BY <1>5, AdminTurns DEF EndPick, ClosedInv, Closed
<1>6. CASE EndCheck
  <2>1. /\ admin' = [stage |-> "checked", window |-> admin.window,
                     ok |-> Recovered(window[admin.window].scope)]
        /\ admin.stage = "picked" /\ admin.window \in Windows /\ UNCHANGED <<window, clerk>>
    BY <1>0, <1>6 DEF EndCheck
  <2>2. Recovered(window[admin.window].scope) \in BOOLEAN
    BY DEF Recovered
  <2>3. ASSUME admin.window = Outage
        PROVE  window[Outage] = Closing /\ ~Recovered(window[admin.window].scope)
    <3>1. window[Outage] = Closing
      BY <2>1, <2>3 DEF ClosedInv, Closed
    <3>2. Outage \in Effective(window[Outage].scope)
      <4>1. window[Outage] # None
        BY <3>1, Marks
      <4>2. QED BY <3>1, <4>1 DEF Effective, Active, Windows, Closing
    <3>3. QED BY <2>3, <3>1, <3>2 DEF Recovered, Closing
  <2> HIDE DEF Closed
  <2>4. QED BY <2>1, <2>2, <2>3, AdminTurns
<1>7. CASE End
  <2>1. CASE UNCHANGED window
    BY <1>7, <2>1, AdminTurns, Marks DEF End
  <2>2. CASE ~UNCHANGED window
    <3> DEFINE w == admin.window
    <3>1. /\ w \in Windows /\ w # Outage /\ window[w] \in WindowRow
          /\ window' = [window EXCEPT ![w] = [window[w] EXCEPT !.status = "completed"]]
          /\ admin' = [stage |-> Idle] /\ UNCHANGED clerk
      BY <1>0, <1>7, <2>2 DEF End, ClosedInv, Closed
    <3>2. QED BY <3>1, RowSet, WindowTurns
  <2>3. QED BY <2>1, <2>2
<1>8. ASSUME NEW w \in Windows, ComesDue(w) \/ RunsOver(w)
      PROVE  Safe
  <2>1. w # Outage
    BY <1>8, Marks DEF ComesDue, RunsOver, ClosedInv, Closed, Closing
  <2>2. window[w] \in WindowRow
    BY <1>0, <1>8 DEF ComesDue, RunsOver
  <2>3. \/ window' = [window EXCEPT ![w] = [window[w] EXCEPT !.due = TRUE]]
        \/ window' = [window EXCEPT ![w] = [window[w] EXCEPT !.over = TRUE]]
    BY <1>8 DEF ComesDue, RunsOver
  <2>4. QED BY <1>8, <2>1, <2>2, <2>3, RowSet, WindowTurns DEF ComesDue, RunsOver
<1>9. ASSUME NEW w \in Windows, FindDue(w) \/ FindOver(w)
      PROVE  Safe
  <2>1. w # Outage /\ window[w] # None
    BY <1>9, Marks DEF FindDue, FindOver, ClosedInv, Closed, Closing
  <2>2. QED BY <1>9, <2>1, ClerkTurns DEF FindDue, FindOver
<1>10. CASE Activate \/ EndDue
  <2> DEFINE w == clerk.window
  <2>1. w \in Windows /\ w # Outage /\ window[w] \in WindowRow
    BY <1>0, <1>10 DEF Activate, EndDue, ClosedInv, Found, Closed
  <2>2. PICK status \in {"active", "cancelled", "completed", "ending"} :
          window' = [window EXCEPT ![w] = [window[w] EXCEPT !.status = status]]
    BY <1>10 DEF Activate, EndDue
  <2>3. clerk' = [stage |-> Idle] /\ UNCHANGED admin
    BY <1>10 DEF Activate, EndDue
  <2>4. QED BY <2>1, <2>2, <2>3, RowSet, WindowTurns
<1>11. QED
  BY <1>1, <1>2, <1>3, <1>4, <1>5, <1>6, <1>7, <1>8, <1>9, <1>10 DEF WindowStep

-----------------------------------------------------------------------------
LEMMA ClosedStep ==
    ClosedInv /\ [OutageNext]_alertVars =>
        ClosedInv' /\ (window[Outage] = Closing => window'[Outage] = Closing)
<1> SUFFICES ASSUME ClosedInv, [OutageNext]_alertVars
             PROVE  ClosedInv' /\ (window[Outage] = Closing => window'[Outage] = Closing)
    OBVIOUS
<1> DEFINE Rest ==
      /\ up \in BOOLEAN
      /\ alert \in [status : {"none", "open", "resolved"}, incident : {"none", "open", "resolved"}]
      /\ evaluation \in [stage : {Idle, "healthy", "unhealthy", "opened", "incident", "linked",
                           "closing", "resolved"}]
<1>1. Rest
  BY DEF ClosedInv, OutageTypeOK
<1>2. CASE WindowStep /\ UNCHANGED outageVars
  <2>1. Safe
    BY <1>2, WindowStepKeeps
  <2>2. Rest'
    BY <1>1, <1>2 DEF outageVars
  <2>3. QED BY <2>1, <2>2 DEF Safe, ClosedInv, OutageTypeOK
<1>3. CASE CloseProvisioning
  <2>1. /\ window[Outage] = None
        /\ window' = [window EXCEPT ![Outage] = Closing]
        /\ UNCHANGED <<clerk, admin>>
    BY <1>3 DEF CloseProvisioning, New, Closing
  <2>2. Closing \in WindowRow /\ Closing # None
    BY Marks
  <2>3. WindowTypeOK'
    BY <2>1, <2>2 DEF ClosedInv, OutageTypeOK, WindowTypeOK
  <2>4. window'[Outage] = Closing /\ \A w \in Windows \ {Outage} : window'[w] = window[w]
    BY <2>1 DEF ClosedInv, OutageTypeOK, WindowTypeOK, Windows
  <2>5. Found'
    BY <2>1, <2>4, Marks DEF ClosedInv, OutageTypeOK, WindowTypeOK, Found, Closed
  <2>6. Closed'
    BY <2>1, <2>4 DEF ClosedInv, Closed
  <2>7. Rest'
    BY <1>1, <1>3 DEF CloseProvisioning, Goes
  <2>8. QED BY <2>4, <2>3, <2>5, <2>6, <2>7 DEF ClosedInv, OutageTypeOK
<1>4. CASE \/ Fails \/ Recovers \/ Check \/ Open
           \/ CreateIncident \/ LinkIncident
           \/ LookForWindow \/ Resolve \/ ResolveIncident \/ Die
           \/ UNCHANGED alertVars
  <2>1. UNCHANGED windowVars
    BY <1>4 DEF Fails, Recovers, Check, Open, CreateIncident, LinkIncident,
                LookForWindow, Resolve, ResolveIncident, Die, alertVars
  <2>2. Safe
    BY <2>1, WindowsStay
  <2>3. Rest'
    <3>1. CASE Fails \/ Recovers
      BY <1>1, <3>1 DEF Fails, Recovers
    <3> DEFINE Stages == {Idle, "healthy", "unhealthy", "incident", "closing"}
    <3>7. CASE Check \/ CreateIncident \/ LookForWindow \/ Die
      <4>1. \E stage \in Stages : evaluation' = [stage |-> stage]
        BY <3>7 DEF Check, CreateIncident, LookForWindow, Die, Goes
      <4>2. UNCHANGED <<up, alert>>
        BY <3>7 DEF Check, CreateIncident, LookForWindow, Die
      <4>3. QED BY <1>1, <4>1, <4>2
    <3>2. CASE Open
      BY <1>1, <3>2 DEF Open, Goes
    <3>3. CASE LinkIncident
      BY <1>1, <3>3 DEF LinkIncident, Goes
    <3>4. CASE Resolve
      BY <1>1, <3>4 DEF Resolve, Goes
    <3>5. CASE ResolveIncident
      BY <1>1, <3>5 DEF ResolveIncident, Goes
    <3>6. CASE UNCHANGED alertVars
      BY <1>1, <3>6 DEF alertVars, outageVars
    <3>8. QED BY <1>4, <3>1, <3>2, <3>3, <3>4, <3>5, <3>6, <3>7
  <2>4. QED BY <2>2, <2>3 DEF Safe, ClosedInv, OutageTypeOK
<1>5. QED BY <1>2, <1>3, <1>4 DEF OutageNext, Evaluate

LEMMA ClosedInvariant == OutageSpec => []ClosedInv
<1>1. OutageInit => ClosedInv
  <2> SUFFICES ASSUME OutageInit PROVE ClosedInv
      OBVIOUS
  <2>1. WindowTypeOK
    BY DEF OutageInit, WindowInit, WindowTypeOK
  <2>2. up \in BOOLEAN /\ evaluation.stage = Idle
    BY DEF OutageInit
  <2>3. OutageTypeOK
    BY <2>1, <2>2 DEF OutageInit, OutageTypeOK
  <2>4. Found /\ Closed
    BY WindowAssumption DEF OutageInit, WindowInit, Found, Closed, Windows
  <2>5. QED BY <2>3, <2>4 DEF ClosedInv
<1>2. QED BY <1>1, ClosedStep, PTL DEF OutageSpec

\* The variables of the module keep their types.
THEOREM AlertsTyped == OutageSpec => []OutageTypeOK
<1>1. ClosedInv => OutageTypeOK
  BY DEF ClosedInv
<1>2. QED BY <1>1, ClosedInvariant, PTL

\* While the provider is down, nobody ends the window that closes provisioning,
\* whatever other windows there are and however their steps overlap.
THEOREM Outages == OutageSpec => OutageStaysClosed
<1>1. ClosedInv /\ [OutageNext]_alertVars =>
        (~up /\ Status(Outage, "active") => Status(Outage, "active")')
  <2> SUFFICES ASSUME ClosedInv, [OutageNext]_alertVars, window[Outage] # None
               PROVE  window'[Outage] # None /\ window'[Outage].status = "active"
      OBVIOUS
  <2>1. window[Outage] = Closing
    BY DEF ClosedInv, Closed
  <2>2. window'[Outage] = Closing
    BY <2>1, ClosedStep
  <2>3. QED BY <2>1, <2>2 DEF Closing
<1>2. QED BY <1>1, ClosedInvariant, PTL DEF OutageSpec, OutageStaysClosed
=============================================================================
