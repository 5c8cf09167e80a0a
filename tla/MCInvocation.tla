---------------------------- MODULE MCInvocation ----------------------------
(* Instances of Invocation for TLC. *)
EXTENDS Invocation, TLC

CONSTANTS c1, c2, k1, k2, k3

TwoClients == (k1 :> c1) @@ (k2 :> c1) @@ (k3 :> c2)
OneEach    == (k1 :> c1) @@ (k2 :> c2)
=============================================================================
