---------------------------- MODULE MCLvmUpdate ----------------------------
(* Instances of LvmUpdate for TLC. *)
EXTENDS LvmUpdate, TLC

CONSTANTS v1, v2, b1

\* One group with logical volumes, one without.
OneWithVolumes == (v1 :> {TRUE}) @@ (v2 :> {FALSE})
AnyVolumes     == [v \in VGs |-> BOOLEAN]

\* Every name has a path of its own, or both have the same.
OwnPaths == [v \in VGs |-> v]
OnePath  == [v \in VGs |-> v1]

\* Both groups exist and the device is in the first: two changes move it.
MoveInit == /\ Init
            /\ vgs = VGs
            /\ pvs[v1] = Blocks
MoveSpec == MoveInit /\ [][Next]_vars
=============================================================================
