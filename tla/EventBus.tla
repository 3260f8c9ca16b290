------------------------------ MODULE EventBus ------------------------------
(***************************************************************************)
(* How the nodes learn that a row has changed.  Every statement of the DAO *)
(* that changes a row starts a goroutine, which publishes a "crud" message *)
(* to the subscribers of its own node and sends it to the other nodes with *)
(* NOTIFY.  The bus of a node skips the notifications of that node, and    *)
(* hands the others to the same subscribers.                               *)
(*                                                                         *)
(* There is one row; its content is the number of the update that made it. *)
(* What a node does with a message is up to the modules that extend this   *)
(* one: MCache and Rebuild.                                                *)
(***************************************************************************)
EXTENDS Integers, FiniteSets

CONSTANTS
    Nodes,
    MaxVersion,         \* bound on the updates of the row
    MaxFaults           \* bound on what fails, is lost or crashes

ASSUME EventBusAssumption ==
    /\ MaxVersion \in Nat
    /\ MaxFaults \in Nat

VARIABLES
    version,            \* the row as committed
    inTx,               \* a transaction has updated it and is not committed
    outbox,             \* node -> its goroutines that have not published yet
    inbox,              \* node -> messages for its subscribers
    faults

bus == <<version, inTx, outbox, inbox, faults>>

BusInit ==
    /\ version = 0 /\ inTx = FALSE
    /\ outbox = [n \in Nodes |-> 0]
    /\ inbox = [n \in Nodes |-> 0]
    /\ faults = MaxFaults

Fault == faults > 0 /\ faults' = faults - 1

\* A statement of its own: committed, then propagated.
Update(n) ==
    /\ ~inTx /\ version < MaxVersion
    /\ version' = version + 1
    /\ outbox' = [outbox EXCEPT ![n] = @ + 1]
    /\ UNCHANGED <<inTx, inbox, faults>>

\* A statement of a transaction: propagated, whether it commits or not.
UpdateInTx(n) ==
    /\ ~inTx /\ version < MaxVersion
    /\ inTx' = TRUE
    /\ outbox' = [outbox EXCEPT ![n] = @ + 1]
    /\ UNCHANGED <<version, inbox, faults>>

CommitTx ==
    /\ inTx /\ inTx' = FALSE
    /\ version' = version + 1
    /\ UNCHANGED <<outbox, inbox, faults>>

RollbackTx ==
    /\ inTx /\ inTx' = FALSE
    /\ Fault
    /\ UNCHANGED <<version, outbox, inbox>>

\* The goroutine: its own node's subscribers first, then NOTIFY.
ClusteringBroadcast(n) ==
    /\ outbox[n] > 0 /\ outbox' = [outbox EXCEPT ![n] = @ - 1]
    /\ inbox' = [m \in Nodes |-> inbox[m] + 1]
    /\ UNCHANGED <<version, inTx, faults>>

\* NOTIFY fails (its payload is the whole row): only the own node is told.
NotifyFails(n) ==
    /\ outbox[n] > 0 /\ outbox' = [outbox EXCEPT ![n] = @ - 1]
    /\ inbox' = [inbox EXCEPT ![n] = @ + 1]
    /\ Fault
    /\ UNCHANGED <<version, inTx>>

\* The message comes while the listener is not connected.
LoseMessage(n) ==
    /\ inbox[n] > 0 /\ inbox' = [inbox EXCEPT ![n] = @ - 1]
    /\ Fault
    /\ UNCHANGED <<version, inTx, outbox>>

\* The process ends, what it had to publish and to handle with it.  A listener
\* that reconnects does this too: the library then sends a nil notification,
\* which listenClusterLoop dereferences.
BusCrash(n) ==
    /\ outbox' = [outbox EXCEPT ![n] = 0]
    /\ inbox' = [inbox EXCEPT ![n] = 0]
    /\ Fault
    /\ UNCHANGED <<version, inTx>>

\* A subscriber takes a message.
Receive(n) ==
    /\ inbox[n] > 0 /\ inbox' = [inbox EXCEPT ![n] = @ - 1]
    /\ UNCHANGED <<version, inTx, outbox>>

\* A message about the row may still reach node n.
Pending(n) == inbox[n] > 0 \/ \E m \in Nodes : outbox[m] > 0

\* The types of the variables; a transaction has room for its version.
BusTypeOK ==
    /\ version \in 0 .. MaxVersion
    /\ inTx \in BOOLEAN /\ (inTx => version < MaxVersion)
    /\ outbox \in [Nodes -> Nat]
    /\ inbox \in [Nodes -> Nat]
    /\ faults \in 0 .. MaxFaults
=============================================================================
