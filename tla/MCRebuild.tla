----------------------------- MODULE MCRebuild -----------------------------
(* An instance of Rebuild for TLC: a gateway and a control plane, where rows
   are edited too, and two runs of the job that may overlap.  Gateway and the
   members of Nodes and Jobs are model values of the configuration. *)
EXTENDS Rebuild
=============================================================================
