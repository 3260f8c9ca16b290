------------------------------ MODULE TaskQueue ------------------------------
(***************************************************************************)
(* The Redis task queue (pkg/taskqueue/redis.go): a sorted set of task ids *)
(* scored by the time they are scheduled for, and a hash of their data.    *)
(*                                                                         *)
(* Redis runs one command, or one script, at a time.  Add and Delete send  *)
(* two commands in a plain pipeline: commands of other clients run between *)
(* them, and a connection that breaks there leaves the first without the   *)
(* second.  Get is a script, so its whole body is one step.                *)
(*                                                                         *)
(* Times are ticks of the Redis clock.  The scores that clients choose are *)
(* read from their own clocks, so they may be in the past or the future.   *)
(***************************************************************************)
EXTENDS Integers, FiniteSets

CONSTANTS
    Tasks,              \* task ids
    Clients,            \* connections that may have a pipeline under way
    VisibilityTimeout,  \* ticks a task handed out stays invisible
    GetCount,           \* GetOptions.Count: most tasks one Get hands out
    MaxTime             \* bound on the clock and on the scores clients choose

ASSUME QueueAssumption ==
    /\ VisibilityTimeout \in Nat \ {0}
    /\ GetCount \in Nat \ {0}
    /\ MaxTime \in Nat

VARIABLES
    now,                \* the clock of the Redis server (TIME)
    score,              \* id -> its score in the sorted set, or NoScore
    data,               \* the ids that have a field in the hash
    pipe,               \* client -> the second command of its pipeline
    leasedAt            \* history: id -> when Get last handed it out, NoScore
                        \* once a client has set or removed its score since

vars == <<now, score, data, pipe, leasedAt>>

NoScore == -1           \* not a member; the script only reads scores from 0
Times == 0 .. MaxTime

\* A pipeline under way: the command that is still to run and its arguments.
Nowhere == [t \in Tasks |-> NoScore]
NoPipe == [op |-> "none", ids |-> {}, at |-> Nowhere]
Pipes == [op : {"none", "ZADD", "ZREM"}, ids : SUBSET Tasks,
          at : [Tasks -> Times \cup {NoScore}]]

Init ==
    /\ now = 0
    /\ score = Nowhere
    /\ data = {}
    /\ pipe = [c \in Clients |-> NoPipe]
    /\ leasedAt = Nowhere

\* ZADD (at a time) and ZREM (at NoScore) of the members S.
SetScores(S, at) ==
    /\ score' = [t \in Tasks |-> IF t \in S THEN at[t] ELSE score[t]]
    /\ leasedAt' = [t \in Tasks |-> IF t \in S THEN NoScore ELSE leasedAt[t]]

-----------------------------------------------------------------------------
\* Add, first command: HSET of every task of the batch.
AddHSet(c, S, at) ==
    /\ pipe[c] = NoPipe
    /\ S # {}
    /\ data' = data \cup S
    /\ pipe' = [pipe EXCEPT ![c] = [op |-> "ZADD", ids |-> S, at |-> at]]
    /\ UNCHANGED <<now, score, leasedAt>>

\* Add, second command: ZADD of every task of the batch.
AddZAdd(c) ==
    /\ pipe[c].op = "ZADD"
    /\ SetScores(pipe[c].ids, pipe[c].at)
    /\ pipe' = [pipe EXCEPT ![c] = NoPipe]
    /\ UNCHANGED <<now, data>>

\* Schedule: one ZADD, whether or not the task is still in the queue.
Schedule(c, t, at) ==
    /\ pipe[c] = NoPipe
    /\ SetScores({t}, [u \in Tasks |-> at])
    /\ UNCHANGED <<now, data, pipe>>

\* Mutant: a script that looks one tick ahead of the clock.
DueTooEarly == {t \in Tasks : score[t] \in 0 .. now + 1}

\* The members whose score has been reached.
Due == {t \in Tasks : score[t] \in 0 .. now}

\* The batch of a Get: as many due tasks as there are, up to GetCount, and none
\* left behind with a lower score than one of the batch (ZRANGE BYSCORE LIMIT).
Batch(S) ==
    /\ S \subseteq Due
    /\ Cardinality(S) <= GetCount
    /\ Cardinality(S) < GetCount => S = Due
    /\ \A t \in S, u \in Due \ S : score[t] <= score[u]

\* Mutant: the script reads the due tasks without moving them.
LeaseEndNow == now

\* Mutant: the visibility timeout is subtracted.
LeaseEndBackwards == now - VisibilityTimeout

\* The score a task has while the one it was handed out to works on it.
LeaseEnd == now + VisibilityTimeout

\* Get: the script hands out the batch and moves it to the end of the lease.
Get(S) ==
    /\ S # {}
    /\ Batch(S)
    /\ score' = [t \in Tasks |-> IF t \in S THEN LeaseEnd ELSE score[t]]
    /\ leasedAt' = [t \in Tasks |-> IF t \in S THEN now ELSE leasedAt[t]]
    /\ UNCHANGED <<now, data, pipe>>

\* Delete, first command: HDEL.
DeleteHDel(c, S) ==
    /\ pipe[c] = NoPipe
    /\ data' = data \ S
    /\ pipe' = [pipe EXCEPT ![c] = [op |-> "ZREM", ids |-> S, at |-> Nowhere]]
    /\ UNCHANGED <<now, score, leasedAt>>

\* Delete, second command: ZREM.
DeleteZRem(c) ==
    /\ pipe[c].op = "ZREM"
    /\ SetScores(pipe[c].ids, pipe[c].at)
    /\ pipe' = [pipe EXCEPT ![c] = NoPipe]
    /\ UNCHANGED <<now, data>>

\* The connection breaks between the two commands of a pipeline.
Disconnect(c) ==
    /\ pipe[c] # NoPipe
    /\ pipe' = [pipe EXCEPT ![c] = NoPipe]
    /\ UNCHANGED <<now, score, data, leasedAt>>

Tick ==
    /\ now < MaxTime
    /\ now' = now + 1
    /\ UNCHANGED <<score, data, pipe, leasedAt>>

Next ==
    \/ \E c \in Clients :
        \/ \E at \in [Tasks -> Times \cup {NoScore}] : 
                AddHSet(c, {t \in Tasks : at[t] # NoScore}, at)
        \/ AddZAdd(c)
        \/ \E t \in Tasks, at \in Times : Schedule(c, t, at)
        \/ \E S \in SUBSET Tasks : S # {} /\ DeleteHDel(c, S)
        \/ DeleteZRem(c)
        \/ Disconnect(c)
    \/ \E S \in SUBSET Tasks : Get(S)
    \/ Tick

Spec == Init /\ [][Next]_vars

-----------------------------------------------------------------------------
(* Properties *)

TypeOK ==
    /\ now \in Times
    /\ score \in [Tasks -> Nat \cup {NoScore}]
    /\ data \subseteq Tasks
    /\ pipe \in [Clients -> Pipes]
    /\ leasedAt \in [Tasks -> Times \cup {NoScore}]

\* Two consumers never hold the same task within one visibility timeout unless
\* somebody added, rescheduled or deleted it in between: a Get that hands out a
\* task leased before (leasedAt moves) comes when that lease is over.
ExclusiveLease ==
    [][\A t \in Tasks :
          leasedAt[t] # NoScore /\ leasedAt'[t] # NoScore
          /\ leasedAt'[t] # leasedAt[t]
             => leasedAt'[t] >= leasedAt[t] + VisibilityTimeout]_vars

\* The queue with scores and a clock is a DelayQueue: a task is handed out only
\* when its score has been reached, it becomes due again only because time
\* passes or a client says so, and no command touches more than its half of a
\* task.
EntryOf(t) ==
    CASE score[t] = NoScore -> "absent"
      [] score[t] \in 0 .. now -> "due"
      [] score[t] > now /\ leasedAt[t] # NoScore -> "leased"
      [] OTHER -> "future"

Queue == INSTANCE DelayQueue WITH
    entry <- [t \in Tasks |-> EntryOf(t)],
    payload <- data

ImplementsDelayQueue == Queue!QSpec

-----------------------------------------------------------------------------
(* The inductive invariant *)

\* A task that Get has handed out, and whose score no client has touched since,
\* waits at the very end of its lease.
LeaseHolds ==
    \A t \in Tasks :
        leasedAt[t] # NoScore => score[t] = leasedAt[t] + VisibilityTimeout

\* The second command of a pipeline has the arguments of the first.
PipesAreWellFormed ==
    \A c \in Clients : \A t \in pipe[c].ids :
        /\ pipe[c].op = "ZADD" => pipe[c].at[t] \in Times
        /\ pipe[c].op = "ZREM" => pipe[c].at[t] = NoScore

IndInv == TypeOK /\ LeaseHolds /\ PipesAreWellFormed
=============================================================================
