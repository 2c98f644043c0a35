---------------------------- MODULE WorkflowSlot ----------------------------
(***************************************************************************)
(* What one user is promised about fetch-and-score workflows, whatever the  *)
(* store and the service do to keep it: there is one slot, a workflow takes *)
(* it only while it is free, gives it back, and never holds it again.       *)
(***************************************************************************)
CONSTANTS Workflows, None

VARIABLES holder,  \* the workflow that holds the user's slot, or None
          served   \* the workflows that held it before

slotVars == <<holder, served>>

Init == holder = None /\ served = {}

Take(w) ==
    /\ holder = None
    /\ w \notin served
    /\ holder' = w
    /\ UNCHANGED served

GiveBack ==
    /\ holder # None
    /\ holder' = None
    /\ served' = served \cup {holder}

Next == GiveBack \/ \E w \in Workflows : Take(w)

Spec == Init /\ [][Next]_slotVars

\* The slot always comes free again.
FairSpec == Spec /\ WF_slotVars(GiveBack)

=============================================================================
