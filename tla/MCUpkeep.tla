-------------------------------- MODULE MCUpkeep --------------------------------
(* What the manager keeps for itself: its operators' accounts and sessions, the       *)
(* history of a server, its own program and the files of the desktop app.  The parts  *)
(* share no state; focus chooses one.                                                *)
EXTENDS Access, History, Update, Startup, TLC

VARIABLE focus

vars == <<accessVars, historyVars, updateVars, startupVars, focus>>

\* A part that is not looked at starts in one state only.
Init ==
    /\ focus \in {"access", "history", "update", "startup"}
    /\ AccessInit /\ HistoryInit /\ UpdateInit /\ StartupInit
    /\ focus # "access" => setups = 0
    /\ focus # "update" => ~onWindows /\ released = CHOOSE t \in Tags : TRUE

Next ==
    \/ /\ focus = "access" /\ AccessNext
       /\ UNCHANGED <<historyVars, updateVars, startupVars, focus>>
    \/ /\ focus = "history" /\ HistoryNext
       /\ UNCHANGED <<accessVars, updateVars, startupVars, focus>>
    \/ /\ focus = "update" /\ UpdateNext
       /\ UNCHANGED <<accessVars, historyVars, startupVars, focus>>
    \/ /\ focus = "startup" /\ StartupNext
       /\ UNCHANGED <<accessVars, historyVars, updateVars, focus>>

Spec == Init /\ [][Next]_vars

TypeOK == AccessTypeOK /\ HistoryTypeOK /\ UpdateTypeOK /\ StartupTypeOK

\* Requests, updates and launches of the app share their names.
Symmetry == Permutations(Admins) \cup Permutations(Sessions) \cup Permutations(Apps)
=============================================================================
