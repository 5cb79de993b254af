--------------------------- MODULE MCDeploymentPlan ---------------------------
(***************************************************************************)
(* An instance of DeploymentPlan for TLC: three indexes, of which a table  *)
(* may have two; one may change its key, two share an attribute.           *)
(***************************************************************************)
EXTENDS DeploymentPlan

CONSTANTS i1, i2, i3, x, y

MCIndex == {i1, i2, i3}
MCIndexKeys == i1 :> {{x}, {x, y}} @@ i2 :> {{x}} @@ i3 :> {{y}}

\* When every table is dropped, what the new one is like makes no difference.
MCInit == Init /\ (rebuild => next = current)
MCSpec == MCInit /\ [][Next]_vars
=============================================================================
