-------------------------------- MODULE Ticket --------------------------------
(* What the manager promises of a one-time ticket: it is issued once, and         *)
(* redeemed at most once, only while it is live; whatever else ends it, it does   *)
(* not come back.                                                                *)
EXTENDS Naturals

CONSTANT Tickets

VARIABLES
    state,   \* of each ticket: "unissued", "live" or "over"
    uses     \* of each ticket: how often it was redeemed

Init ==
    /\ state = [t \in Tickets |-> "unissued"]
    /\ uses = [t \in Tickets |-> 0]

Issue(t) ==
    /\ state[t] = "unissued"
    /\ state' = [state EXCEPT ![t] = "live"]
    /\ UNCHANGED uses

Redeem(t) ==
    /\ state[t] = "live"
    /\ state' = [state EXCEPT ![t] = "over"]
    /\ uses' = [uses EXCEPT ![t] = @ + 1]

\* Time passes, or the process that kept the tickets ends.
Lapse(T) ==
    /\ \A t \in T : state[t] = "live"
    /\ state' = [t \in Tickets |-> IF t \in T THEN "over" ELSE state[t]]
    /\ UNCHANGED uses

Next ==
    \/ \E t \in Tickets : Issue(t) \/ Redeem(t)
    \/ \E T \in SUBSET Tickets : Lapse(T)

Spec == Init /\ [][Next]_<<state, uses>>
=============================================================================
