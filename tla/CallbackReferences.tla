------------------------- MODULE CallbackReferences -------------------------
(***************************************************************************)
(* References behind inline buttons.  A reference can be used once and for *)
(* a limited time, and how often a user may try an action is counted in a  *)
(* window.  Each call is one transaction on a locked row.  A call that is  *)
(* refused because the reference belongs to another user, chat, action or  *)
(* resource writes nothing and is no step here.                            *)
(***************************************************************************)
EXTENDS Naturals

CONSTANTS
    Refs,           \* callback_actions rows, by public_id
    Scopes,         \* rate limit scopes: a user, a chat and an action
    Limit           \* attempts in one window

VARIABLES
    ref,            \* callback_actions
    rate            \* callback_rate_limits

Init ==
    /\ ref = [r \in Refs |-> "new"]
    /\ rate = [s \in Scopes |-> [count |-> 0, over |-> FALSE]]

Moves(r, from, to) ==
    /\ ref[r] = from
    /\ ref' = [ref EXCEPT ![r] = to]
    /\ UNCHANGED rate

Issue(r) == Moves(r, "new", "open")

\* expires_at passes.  For a reference that was used, or is void, it makes no
\* difference any more.
Lapse(r) == Moves(r, "open", "lapsed")

Invalidate(r) == Moves(r, "open", "void") \/ Moves(r, "lapsed", "void")

\* Faulty: whether it was used is not asked.
UsableInTime(r) == ref[r] \in {"open", "consumed"}

Usable(r) == ref[r] = "open"

\* consume answers with success.
Consume(r) ==
    /\ Usable(r)
    /\ ref' = [ref EXCEPT ![r] = "consumed"]
    /\ UNCHANGED rate

\* consume refuses a lapsed reference and marks it, and leaves others alone.
Decline(r) ==
    /\ ~Usable(r)
    /\ ref' = [ref EXCEPT ![r] = IF @ = "lapsed" THEN "void" ELSE @]
    /\ UNCHANGED rate

\* The window of a scope has passed since it was opened.
WindowPasses(s) ==
    /\ rate[s].count > 0 /\ ~rate[s].over
    /\ rate' = [rate EXCEPT ![s].over = TRUE]
    /\ UNCHANGED ref

\* check_rate_limit opens a window or counts within the open one.
Permit(s) ==
    /\ rate[s].over \/ rate[s].count < Limit
    /\ rate' = [rate EXCEPT ![s] = [count |-> IF rate[s].over THEN 1 ELSE rate[s].count + 1,
                                    over |-> FALSE]]
    /\ UNCHANGED ref
=============================================================================
