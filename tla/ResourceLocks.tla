--------------------------- MODULE ResourceLocks ---------------------------
(***************************************************************************)
(* What SW_FW_SYNC is for: every agent, the drivers of the ports and the   *)
(* firmware, takes the resources it needs all at once, and only where none *)
(* of them is with another agent.                                          *)
(***************************************************************************)
CONSTANTS Agents, Resources

VARIABLE holds   \* agent -> the resources it has

Init == holds = [a \in Agents |-> {}]

Take(a, m) ==
    /\ \A b \in Agents : holds[b] \cap m = {}
    /\ holds' = [holds EXCEPT ![a] = @ \cup m]

Drop(a, m) == holds' = [holds EXCEPT ![a] = @ \ m]

Next == \E a \in Agents, m \in SUBSET Resources : Take(a, m) \/ Drop(a, m)

Spec == Init /\ [][Next]_holds
=============================================================================
