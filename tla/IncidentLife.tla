----------------------------- MODULE IncidentLife -----------------------------
(***************************************************************************)
(* What an operator may expect of the incidents: each alert has at most    *)
(* one, which is raised, acknowledged and escalated once each, and cleared *)
(* only after its alert was seen to recover.                               *)
(***************************************************************************)
CONSTANT Alerts

VARIABLE life   \* the incident of each alert

Quiet == [open |-> FALSE, acked |-> FALSE, escalated |-> FALSE, recovering |-> FALSE]

Init == life = [a \in Alerts |-> Quiet]

Raise(a) == ~life[a].open /\ life' = [life EXCEPT ![a] = [Quiet EXCEPT !.open = TRUE]]

Acknowledge(a) == life[a].open /\ ~life[a].acked /\ life' = [life EXCEPT ![a].acked = TRUE]

Escalate(a) == life[a].open /\ ~life[a].escalated /\ life' = [life EXCEPT ![a].escalated = TRUE]

SeeRecovery(a) == life[a].open /\ life' = [life EXCEPT ![a].recovering = TRUE]

Clear(a) == life[a].recovering /\ life' = [life EXCEPT ![a] = Quiet]

\* A crash forgets every recovery that was seen and not yet recorded.
Forget == life' = [a \in Alerts |-> [life[a] EXCEPT !.recovering = FALSE]]

Next ==
    \/ \E a \in Alerts :
         Raise(a) \/ Acknowledge(a) \/ Escalate(a) \/ SeeRecovery(a) \/ Clear(a)
    \/ Forget

Spec == Init /\ [][Next]_life
=============================================================================
