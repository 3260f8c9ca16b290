---------------------------- MODULE MCLifecycle ----------------------------
(* Instances of Lifecycle and of Migrations for TLC.  Lifecycle begins where
   the check of Migrations has passed, and they share no variables: whatever is
   said of one of them holds of their composition if it holds of the one alone.
   A behaviour therefore is of one of them, and the other stays as it is.

   A node has two handlers that compete for a place in the queue of request
   logs, one flusher, one server, one job. *)
EXTENDS Lifecycle, Migrations

VARIABLE part           \* what the behaviour is of: "database" or "node"

allVars == <<vars, dbVars, part>>

MCInit == Init /\ DBInit /\ part \in {"database", "node"}

MCNext ==
    /\ \/ part = "database" /\ DBNext /\ UNCHANGED vars
       \/ part = "node" /\ Next /\ UNCHANGED dbVars
    /\ UNCHANGED part

MCSpec == MCInit /\ [][MCNext]_allVars /\ Fairness
=============================================================================
