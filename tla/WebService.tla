----------------------------- MODULE WebService ------------------------------
(***************************************************************************)
(* What the life cycle of the plugin promises to a browser, whatever the   *)
(* threads behind it do: instances of the interface come up one at a time, *)
(* an instance that went down, or never managed to come up, stays down.    *)
(***************************************************************************)
CONSTANT Instances

VARIABLE phase      \* "waiting", "up" or "over", for each instance

Init == phase = [i \in Instances |-> "waiting"]

\* An instance comes up when no other is up.
ComeUp(i) ==
    /\ phase[i] = "waiting"
    /\ \A j \in Instances : phase[j] # "up"
    /\ phase' = [phase EXCEPT ![i] = "up"]

\* An instance goes down, or gives up before it has come up.
Finish(i) ==
    /\ phase[i] \in {"waiting", "up"}
    /\ phase' = [phase EXCEPT ![i] = "over"]

Next == \E i \in Instances : ComeUp(i) \/ Finish(i)

Spec == Init /\ [][Next]_phase
=============================================================================
