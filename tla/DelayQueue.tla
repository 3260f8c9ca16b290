----------------------------- MODULE DelayQueue -----------------------------
(***************************************************************************)
(* What the task queue promises its users (pkg/taskqueue: the TaskQueue    *)
(* interface and its Redis implementation), with the clock left out.       *)
(*                                                                         *)
(* A queue holds, for every task id, an entry of the sorted set and a      *)
(* payload of the data hash.  They are written and removed by two separate *)
(* commands of a pipeline, so either may be there without the other.  An   *)
(* entry is "future" until its score is reached and "due" from then on; a  *)
(* Get makes the due entries it hands out "leased", until the end of the   *)
(* visibility timeout makes them due again.                                *)
(*                                                                         *)
(* Module TaskQueue has the scores and the clock, and implements this one. *)
(***************************************************************************)
CONSTANT Tasks          \* task ids; a task has the id of its attempt

VARIABLES
    entry,              \* id -> where it stands in the sorted set
    payload             \* the ids that have a payload (the hash)

qvars == <<entry, payload>>

EntryStates == {"absent", "future", "due", "leased"}
Placed == {"future", "due"}     \* what a client can write

QInit ==
    /\ entry = [t \in Tasks |-> "absent"]
    /\ payload = {}

\* HSET, the first half of Add.
PutData(S) ==
    /\ payload' = payload \cup S
    /\ UNCHANGED entry

\* ZADD, the second half of Add, and the whole of Schedule: unconditional, the
\* entry is created when it is not there.
PutEntry(S, at) ==
    /\ entry' = [t \in Tasks |-> IF t \in S THEN at[t] ELSE entry[t]]
    /\ UNCHANGED payload

\* Get: due entries are handed out and stay in the queue, leased.
Lease(S) ==
    /\ \A t \in S : entry[t] = "due"
    /\ entry' = [t \in Tasks |-> IF t \in S THEN "leased" ELSE entry[t]]
    /\ UNCHANGED payload

\* Time passes: a scheduled time, or the end of a lease, is reached.
Elapse(S) ==
    /\ \A t \in S : entry[t] \in {"future", "leased"}
    /\ entry' = [t \in Tasks |-> IF t \in S THEN "due" ELSE entry[t]]
    /\ UNCHANGED payload

\* HDEL, the first half of Delete.
DropData(S) ==
    /\ payload' = payload \ S
    /\ UNCHANGED entry

\* ZREM, the second half of Delete.
DropEntry(S) ==
    /\ entry' = [t \in Tasks |-> IF t \in S THEN "absent" ELSE entry[t]]
    /\ UNCHANGED payload

QNext ==
    \E S \in SUBSET Tasks :
        \/ PutData(S)
        \/ \E at \in [S -> Placed] : PutEntry(S, at)
        \/ Lease(S)
        \/ Elapse(S)
        \/ DropData(S)
        \/ DropEntry(S)

QSpec == QInit /\ [][QNext]_qvars

QTypeOK ==
    /\ entry \in [Tasks -> EntryStates]
    /\ payload \subseteq Tasks
=============================================================================
