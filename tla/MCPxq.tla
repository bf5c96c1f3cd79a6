------------------------------- MODULE MCPxq -------------------------------
(* The ring of an adapter and the board around it, side by side: a behaviour *)
(* is one of PxqStream or one of PxqCard, the other module stays at its      *)
(* first state.                                                              *)
EXTENDS PxqStream, PxqCard

VARIABLE part

Init == PsInit /\ PcInit /\ part \in {"ring", "board"}
        /\ (part = "board" => driver = "cdev")
Next == \/ part = "ring" /\ PsNext /\ UNCHANGED <<pcVars, part>>
        \/ part = "board" /\ PcNext /\ UNCHANGED <<psVars, part>>
Spec == Init /\ [][Next]_<<psVars, pcVars, part>>
=============================================================================
