----------------------------- MODULE TrialEntry -----------------------------
(***************************************************************************)
(* The button for a free trial: FreeTrials behind CallbackReferences.  The *)
(* handler counts the attempt, uses up the reference and then accepts a    *)
(* claim under a key of its own press, so that nothing but the reference   *)
(* tells a second press from a first.                                      *)
(***************************************************************************)
EXTENDS FreeTrials

CONSTANTS Refs, Limit   \* of CallbackReferences

ASSUME EntryAssumption ==
    /\ Limit \in Nat \ {0}
    /\ Idle \notin {"pressed", "confirmed", "over"}

VARIABLES
    ref, rate,      \* of CallbackReferences
    press           \* what the handler of each press (a claim key) is doing

entryVars == <<trialVars, ref, rate, press>>

Callback == INSTANCE CallbackReferences WITH Scopes <- Users

Pressing(c, stage) == press[c].stage = stage
PressMoves(c, p) == press' = [press EXCEPT ![c] = p]

EntryInit ==
    /\ TrialInit
    /\ Callback!Init
    /\ press = [c \in Claims |-> [stage |-> Idle]]

\* check_rate_limit lets the press pass.
Press(c, r) ==
    /\ Pressing(c, Idle)
    /\ ref[r] # "new"
    /\ Callback!Permit(UserOf[c])
    /\ PressMoves(c, [stage |-> "pressed", ref |-> r])
    /\ UNCHANGED trialVars

\* consume succeeds ...
Confirm(c) ==
    /\ Pressing(c, "pressed")
    /\ Callback!Consume(press[c].ref)
    /\ PressMoves(c, [stage |-> "confirmed", ref |-> press[c].ref])
    /\ UNCHANGED trialVars

\* ... or refuses, and the press is over.
Refuse(c) ==
    /\ Pressing(c, "pressed")
    /\ Callback!Decline(press[c].ref)
    /\ PressMoves(c, [stage |-> "over", ref |-> press[c].ref])
    /\ UNCHANGED trialVars

\* accept_claim answers with a claim, or refuses: the user, the switches, the package
\* or the data cap may stand against any claim.
Accept(c) ==
    /\ Pressing(c, "confirmed")
    /\ \/ AcceptDaily(c)
       \/ AcceptExtra(c)
       \/ AcceptInvalid(c)
       \/ UNCHANGED trialVars
    /\ PressMoves(c, [stage |-> "over", ref |-> press[c].ref])
    /\ UNCHANGED <<ref, rate>>

\* The process dies between two calls of the handler: the reference may be
\* used up and no claim made.
Drop(c) ==
    /\ Pressing(c, "pressed") \/ Pressing(c, "confirmed")
    /\ PressMoves(c, [stage |-> "over", ref |-> press[c].ref])
    /\ UNCHANGED <<trialVars, ref, rate>>

EntryNext ==
    \/ \E c \in Claims :
         \/ \E r \in Refs : Press(c, r)
         \/ Confirm(c) \/ Refuse(c) \/ Accept(c) \/ Drop(c)
    \/ TrialStep /\ UNCHANGED <<ref, rate, press>>
    \/ /\ \/ \E r \in Refs : Callback!Issue(r) \/ Callback!Lapse(r) \/ Callback!Invalidate(r)
          \/ \E u \in Users : Callback!WindowPasses(u)
       /\ UNCHANGED <<trialVars, press>>

EntrySpec == EntryInit /\ [][EntryNext]_entryVars

\* Reservations lapse, and the scheduler runs the sweep.
FairEntrySpec ==
    /\ EntrySpec
    /\ \A c \in Claims : WF_entryVars(Lapse(c) /\ UNCHANGED <<ref, rate, press>>)
    /\ WF_entryVars(ExpireReservations /\ UNCHANGED <<ref, rate, press>>)

-----------------------------------------------------------------------------
EntryTypeOK ==
    /\ TrialTypeOK
    /\ ref \in [Refs -> {"new", "open", "lapsed", "consumed", "void"}]
    /\ rate \in [Users -> [count : 0..Limit, over : BOOLEAN]]
    /\ press \in [Claims -> [stage : {Idle}]
                    \cup [stage : {"pressed", "confirmed", "over"}, ref : Refs]]

\* Every claim has a reference that was used up for it and for no other claim,
\* although each press makes a claim key of its own.
OneClaimPerReference ==
    \A c \in Claims : Claimed(c) =>
        /\ ref[press[c].ref] = "consumed"
        /\ \A d \in Claims \ {c} : Claimed(d) => press[d].ref # press[c].ref
=============================================================================
