----------------------------- MODULE JobLeases ------------------------------
(***************************************************************************)
(* What the background jobs promise, without owners, clocks or statuses of *)
(* the table: the attempts at a job are numbered, one is under way at a    *)
(* time, and there are no more than MaxAttempts of them.  An attempt is    *)
(* settled by whoever took it, if it was not taken away before: whoever    *)
(* comes late settles nothing.  A job that is over stays over.             *)
(*                                                                         *)
(* BackgroundJobs (background_job_service.py) is shown to implement this   *)
(* specification, although its rows do not say which attempt a worker took.*)
(***************************************************************************)
EXTENDS Naturals

CONSTANTS Jobs, Workers, MaxAttempts

VARIABLES
    state,      \* state[j]: the number of attempts at job j, and its phase
    grip        \* grip[w]: the attempt that worker w took, or Nothing

Nothing == <<>>

InPhase(j, phase) == state[j].phase = phase
Turns(j, phase) == [state[j] EXCEPT !.phase = phase]

Init ==
    /\ state = [j \in Jobs |-> [phase |-> "absent", number |-> 0]]
    /\ grip = [w \in Workers |-> Nothing]

Submit(j) ==
    /\ InPhase(j, "absent")
    /\ state' = [state EXCEPT ![j].phase = "open"]
    /\ UNCHANGED grip

Take(w, j) ==
    /\ grip[w] = Nothing
    /\ InPhase(j, "open") /\ state[j].number < MaxAttempts
    /\ state' = [state EXCEPT ![j] = [phase |-> "taken", number |-> @.number + 1]]
    /\ grip' = [grip EXCEPT ![w] = <<j, state[j].number + 1>>]

\* What becomes of a job when an attempt at it ends without success.
Reopened(j) == Turns(j, IF state[j].number < MaxAttempts THEN "open" ELSE "over")

Settle(w) ==
    /\ grip[w] # Nothing
    /\ LET j == grip[w][1]
       IN  IF InPhase(j, "taken") /\ grip[w][2] = state[j].number
           THEN \E result \in {Turns(j, "over"), Reopened(j)} :
                    state' = [state EXCEPT ![j] = result]
           ELSE UNCHANGED state
    /\ grip' = [grip EXCEPT ![w] = Nothing]

\* The attempts at some jobs are taken away; those who took them do not know.
Lapse ==
    /\ \E lapsed \in SUBSET {j \in Jobs : InPhase(j, "taken")} :
          state' = [j \in Jobs |-> IF j \in lapsed THEN Reopened(j) ELSE state[j]]
    /\ UNCHANGED grip

\* The process of w dies, and nobody else learns of it.
Forget(w) ==
    /\ grip' = [grip EXCEPT ![w] = Nothing]
    /\ UNCHANGED state

Next ==
    \/ \E j \in Jobs : Submit(j)
    \/ \E w \in Workers, j \in Jobs : Take(w, j)
    \/ \E w \in Workers : Settle(w) \/ Forget(w)
    \/ Lapse

Spec == Init /\ [][Next]_<<state, grip>>
=============================================================================
