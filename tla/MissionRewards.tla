--------------------------- MODULE MissionRewards ---------------------------
(***************************************************************************)
(* Mission progress and its reward.  Events move the progress forward and  *)
(* may be delivered again; the event that completes an auto-granted mission*)
(* pays its reward, and so does a claim by the user.  The reward is asked  *)
(* for between two transactions on the progress.  An event moves it by     *)
(* what it is worth, which can be nothing, or an amount that reaches the   *)
(* target at once.                                                         *)
(***************************************************************************)
EXTENDS Integers, FiniteSets, Functions

CONSTANTS
    Rewards,        \* of RewardLedger; a mission names its reward
    Missions,       \* user_mission_progress rows: a mission, a user and a period
    AutoGrant,      \* the missions that pay without a claim
    Unrewarded,     \* the missions without a reward
    Target,         \* progress_target
    Events,         \* source events
    MissionOf,      \* MissionOf[e], the mission event e counts for
    Worth,          \* Worth[e], delta_for_event
    Idle

VARIABLES
    progress,       \* user_mission_progress
    counted,        \* mission_progress_events
    serving,        \* the deliveries of events and the claims under way
    reward, payments    \* of RewardLedger

Ledger == INSTANCE RewardLedger

\* A call is named by what it holds the lock of: its event, or the mission it claims.
Calls == Events \cup Missions
About(i) == IF i \in Events THEN MissionOf[i] ELSE i

Init ==
    /\ progress = [m \in Missions |-> [value |-> 0, status |-> "not_started"]]
    /\ counted = {}
    /\ serving = [i \in Calls |-> Idle]

Serves(i, stage) == serving[i] = stage
Moves(i, stage) == serving' = [serving EXCEPT ![i] = stage]
Becomes(m, status) == progress' = [progress EXCEPT ![m].status = status]
Closed(m) == progress[m].status = "reward_granted"

\* Faulty: an event that was delivered before counts again.
FreshAlways(e) == TRUE

Fresh(e) == e \notin counted

Advanced(m, worth) ==
    LET reached == progress[m].value + worth >= Target
    IN  [value |-> IF reached THEN Target ELSE progress[m].value + worth,
         status |-> IF ~reached THEN "in_progress"
                    ELSE IF m \in AutoGrant THEN "completed" ELSE "reward_pending"]

\* _apply_one; an event after completion completes the mission again.
Apply(e) ==
    /\ Serves(e, Idle)
    /\ Fresh(e) /\ ~Closed(MissionOf[e])
    /\ LET m == MissionOf[e]
           next == Advanced(m, Worth[e]) IN
         /\ progress' = [progress EXCEPT ![m] = next]
         /\ IF next.status = "completed" THEN Moves(e, "fulfil") ELSE UNCHANGED serving
    /\ counted' = counted \cup {e}
    /\ UNCHANGED <<reward, payments>>

\* claim_reward
Claim(m) ==
    /\ Serves(m, Idle)
    /\ progress[m].status \in {"reward_pending", "completed"}
    /\ Moves(m, "fulfil")
    /\ UNCHANGED <<progress, counted, reward, payments>>

\* _fulfill_reward: it was granted in the meantime ...
AlreadyGranted(i) ==
    /\ Serves(i, "fulfil")
    /\ Closed(About(i))
    /\ Moves(i, Idle)
    /\ UNCHANGED <<progress, counted, reward, payments>>

\* ... or the mission has no reward and is closed at once ...
CloseUnrewarded(i) ==
    /\ Serves(i, "fulfil")
    /\ ~Closed(About(i)) /\ About(i) \in Unrewarded
    /\ Becomes(About(i), "reward_granted")
    /\ Moves(i, Idle)
    /\ UNCHANGED <<counted, reward, payments>>

\* ... or it is asked for, after the first transaction ...
Fulfil(i) ==
    /\ Serves(i, "fulfil")
    /\ ~Closed(About(i)) /\ About(i) \notin Unrewarded
    /\ Moves(i, "asking")
    /\ UNCHANGED <<progress, counted, reward, payments>>

AskReward(i) ==
    /\ Serves(i, "asking")
    /\ \E answer \in Ledger!Statuses :
         /\ Ledger!Grant(About(i), answer)
         /\ Moves(i, IF answer = "granted" THEN "granted" ELSE "refused")
    /\ UNCHANGED <<progress, counted>>

Note(i) == Becomes(About(i), IF Serves(i, "granted") THEN "reward_granted" ELSE "reward_pending")

\* ... and the second transaction notes the answer, also over an answer that
\* another call has noted since.
Conclude(i) ==
    /\ Serves(i, "granted") \/ Serves(i, "refused")
    /\ Note(i)
    /\ Moves(i, Idle)
    /\ UNCHANGED <<counted, reward, payments>>

Die(i) ==
    /\ ~Serves(i, Idle)
    /\ Moves(i, Idle)
    /\ UNCHANGED <<progress, counted, reward, payments>>

Next ==
    \/ \E e \in Events : Apply(e)
    \/ \E m \in Missions : Claim(m)
    \/ \E i \in Calls :
        \/ AlreadyGranted(i) \/ CloseUnrewarded(i) \/ Fulfil(i)
        \/ AskReward(i) \/ Conclude(i) \/ Die(i)

-----------------------------------------------------------------------------
TypeOK ==
    /\ progress \in [Missions -> [value : 0..Target,
                       status : {"not_started", "in_progress", "completed",
                                 "reward_pending", "reward_granted"}]]
    /\ counted \subseteq Events
    /\ serving \in [Calls -> {Idle, "fulfil", "asking", "granted", "refused"}]

CountedFor(m) == {e \in counted : MissionOf[e] = m}

\* A mission is over only when the different events that counted for it are worth
\* its target together, however often they were delivered.  One with a reward says
\* granted only if it was paid, and is paid at most once; one without is never paid.
MissionPaidWhenDone ==
    \A m \in Missions :
        /\ payments[m] > 0 \/ Closed(m) => SumFunctionOnSet(Worth, CountedFor(m)) >= Target
        /\ payments[m] <= (IF m \in Unrewarded THEN 0 ELSE 1)
        /\ Closed(m) /\ m \notin Unrewarded => payments[m] = 1
=============================================================================
