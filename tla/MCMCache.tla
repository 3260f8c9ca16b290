------------------------------ MODULE MCMCache ------------------------------
(* An instance of MCache for TLC: a control plane and a data plane, whose two
   workers share its L1 and its mutex. *)
EXTENDS MCache, TLC

CONSTANTS cp, dp, c1, c2

OneNode == (c1 :> dp) @@ (c2 :> dp)
LastDeletes == {MaxVersion}
=============================================================================
