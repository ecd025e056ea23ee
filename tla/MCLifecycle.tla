----------------------------- MODULE MCLifecycle -----------------------------
(* Small instances of Lifecycle for TLC. *)
EXTENDS Lifecycle, TLC

CONSTANTS h1, h2, i1, i2, i3

OneHost == <<h1>>
TwoHosts == <<h1, h2>>

\* Instances are interchangeable, and so are the reload threads.
Symmetry == Permutations(Instances) \cup Permutations(Reloads)

\* In their stead, where liveness is checked and symmetry is not sound: instances
\* are created in one order, since any is as good as another.
InOrder ==
    /\ thread[i1] = "unborn" => thread[i2] = "unborn"
    /\ thread[i2] = "unborn" => thread[i3] = "unborn"
=============================================================================
