------------------------------ MODULE Delivery ------------------------------
(***************************************************************************)
(* The life of a delivery attempt, from the row that Dispatch inserts to   *)
(* the delivery that settles it: the attempts table, the task queue, and   *)
(* every process that moves an attempt between them.                       *)
(*                                                                         *)
(*   Producers  the gateway (dispatch, then ScheduleAttempts) and the      *)
(*              handler of the event.fanout message                        *)
(*   Requeuers  the worker.requeue job (loadPending), one per node         *)
(*   Holders    a task in the memory of a worker: fetched by run, waiting  *)
(*              in the pool's channel, or in the hands of a pool consumer  *)
(*              that executes runTask                                      *)
(*                                                                         *)
(* A process is a program counter; a step is one call to PostgreSQL, to    *)
(* Redis or to the endpoint, which is where nodes interleave and where one *)
(* may stop.  The queue is a DelayQueue.  Times are left out: an attempt   *)
(* is far (scheduled beyond the pre-schedule window) or not, an entry of   *)
(* the queue is due or not, and anything may take any time.                *)
(*                                                                         *)
(* Notify and the one second ticker only decide how soon run looks at the  *)
(* queue, so Fetch may happen whenever a task is due.  The lock of the     *)
(* fanout handler expires after eight seconds whatever its owner does, so  *)
(* it excludes no interleaving and is left out.                            *)
(***************************************************************************)
EXTENDS DelayQueue, Integers, FiniteSets

CONSTANTS
    Producers, Requeuers, Holders,
    NoTask,             \* no task: not in Tasks
    RetryLengths,       \* the lengths len(endpoint.Retry.Config.Attempts) takes
    RequeueJobBatch,    \* Options.RequeueJobBatch: LIMIT of one requeue
    PoolSize,           \* Options.PoolSize: capacity of the pool's channel
    PoolConcurrency,    \* Options.PoolConcurrency: consumers of the pool
    MaxFaults           \* bound on calls that fail and processes that stop

ASSUME DeliveryAssumption ==
    /\ Producers \cap Requeuers = {}
    /\ Producers \cap Holders = {}
    /\ Requeuers \cap Holders = {}
    /\ NoTask \notin Tasks
    /\ RetryLengths \subseteq Nat \ {0} /\ RetryLengths # {}
    /\ RequeueJobBatch \in Nat \ {0}
    /\ PoolSize \in Nat
    /\ PoolConcurrency \in Nat
    /\ MaxFaults \in Nat

VARIABLES
    \* the attempts table
    status,             \* id -> attempts.status; "none": not inserted yet,
                        \* "purged": deleted by the retention job
    number,             \* id -> attempts.attempt_number, also in the payload
    exhausted,          \* the ids with attempts.exhausted set
    far,                \* the ids scheduled beyond the pre-schedule window
    \* the processes
    pc,                 \* what each process does next
    work,               \* the attempts its ScheduleAttempts call is about
    gone,               \* requeuer -> rows it cancels: their event is gone
    job,                \* holder -> the task it holds
    hollow,             \* the holders whose task came without a payload
    result,             \* holder -> what the endpoint answered
    faults,             \* faults that may still happen
    \* history
    added,              \* ids that were put in the queue by an Add
    sends,              \* id -> requests sent to the endpoint: 0, 1 or more
    overlap,            \* ids that were handed out again while in use, or added twice
    lost,               \* ids whose request was sent by a holder that then stopped
    retried             \* ids whose next attempt was inserted

rows  == <<status, number, exhausted, far>>
procs == <<pc, work, gone, job, hollow, result>>
hist  == <<added, sends, overlap, lost, retried>>
vars  == <<qvars, rows, procs, faults, hist>>

Procs == Producers \cup Requeuers \cup Holders

Terminal == {"SUCCESSFUL", "FAILED", "CANCELED"}
Statuses == {"none", "INIT", "QUEUED", "purged"} \cup Terminal

\* The program counters of ScheduleAttempts and of the three kinds of process.
SchedulePCs == {"hset", "zadd", "mark"}
RequeuePCs  == {"commit", "commitq"}
HolderPCs   == {"fetched", "pooled", "load", "cancel", "defer", "send",
                "record", "insert", "hdel", "zrem"}
PCs == {"idle"} \cup SchedulePCs \cup RequeuePCs \cup HolderPCs

\* What UpdateDelivery stores of an answer (AttemptResult).
Results  == [status : {"none", "SUCCESSFUL", "FAILED"}, exhausted : BOOLEAN]
NoResult == [status |-> "none", exhausted |-> FALSE]

Settled(t) == status[t] \in Terminal \cup {"purged"}
Pending(t) == status[t] \in {"INIT", "QUEUED"}
Fresh == {t \in Tasks : status[t] = "none"}

Holding(t) == {h \in Holders : job[h] = t}
At(label) == {h \in Holders : pc[h] = label}
Running == {h \in Holders : pc[h] \notin {"idle", "fetched", "pooled"}}

\* Rows that an open transaction of a requeuer has selected FOR UPDATE: other
\* updates of them wait for it.
Locked == UNION {work[q] \cup gone[q] : q \in Requeuers}

Init ==
    /\ QInit
    /\ status = [t \in Tasks |-> "none"]
    /\ number = [t \in Tasks |-> 0]
    /\ exhausted = {} /\ far = {}
    /\ pc = [p \in Procs |-> "idle"]
    /\ work = [p \in Procs |-> {}]
    /\ gone = [q \in Requeuers |-> {}]
    /\ job = [h \in Holders |-> NoTask]
    /\ hollow = {}
    /\ result = [h \in Holders |-> NoResult]
    /\ faults = MaxFaults
    /\ added = {} /\ overlap = {} /\ lost = {} /\ retried = {}
    /\ sends = [t \in Tasks |-> 0]

-----------------------------------------------------------------------------
(* Inserting attempts *)

\* Attempts S are inserted in state INIT, with attempt number n; those in F are
\* scheduled beyond the pre-schedule window.
InsertRows(S, F, n) ==
    /\ status' = [t \in Tasks |-> IF t \in S THEN "INIT" ELSE status[t]]
    /\ number' = [t \in Tasks |-> IF t \in S THEN n ELSE number[t]]
    /\ far' = far \cup F
    /\ UNCHANGED exhausted

\* ScheduleAttempts(S) is called by p: attempts beyond the window are left for
\* the requeuer, and nothing is done when no other is left.
Call(p, S, otherwise) ==
    /\ work' = [work EXCEPT ![p] = S]
    /\ pc' = [pc EXCEPT ![p] = IF S = {} THEN otherwise ELSE "hset"]

\* The gateway: Dispatch inserts the attempts of an event in one transaction;
\* ScheduleAttempts follows.
Dispatch(p) ==
    /\ pc[p] = "idle"
    /\ \E S \in SUBSET Fresh, F \in SUBSET Fresh :
        /\ S # {} /\ F \subseteq S
        /\ InsertRows(S, F, 1)
        /\ Call(p, S \ F, "idle")
    /\ UNCHANGED <<qvars, gone, job, hollow, result, faults, hist>>

\* The admin API, on creating or retrying an event, inserts the attempts and
\* broadcasts their ids.
CreateEvent ==
    /\ \E S \in SUBSET Fresh, F \in SUBSET Fresh :
        /\ S # {} /\ F \subseteq S
        /\ InsertRows(S, F, 1)
    /\ UNCHANGED <<qvars, procs, faults, hist>>

\* A worker handles event.fanout: it lists the attempts that are still INIT and
\* schedules them.  The message may be late, repeated on every node or lost.
Fanout(p) ==
    /\ pc[p] = "idle"
    /\ \E S \in SUBSET {t \in Tasks : status[t] = "INIT"} :
        /\ S # {}
        /\ Call(p, S \ far, "idle")
    /\ UNCHANGED <<qvars, rows, gone, job, hollow, result, faults, hist>>

-----------------------------------------------------------------------------
(* ScheduleAttempts: Add (HSET, ZADD), then UpdateStatusToQueued *)

\* Where the caller goes on when ScheduleAttempts returns.
Return(p) ==
    /\ pc' = [pc EXCEPT ![p] = CASE p \in Requeuers -> "commit"
                                 [] p \in Holders -> "hdel"
                                 [] OTHER -> "idle"]
    /\ work' = IF p \in Requeuers THEN work ELSE [work EXCEPT ![p] = {}]

\* Mutant: the pipeline runs ZADD before HSET.
AddEntryFirst(p) ==
    /\ pc[p] = "hset"
    /\ \E at \in [work[p] -> Placed] : PutEntry(work[p], at)
    /\ pc' = [pc EXCEPT ![p] = "zadd"]
    /\ UNCHANGED <<rows, work, gone, job, hollow, result, faults, hist>>

AddData(p) ==
    /\ pc[p] = "hset"
    /\ PutData(work[p])
    /\ pc' = [pc EXCEPT ![p] = "zadd"]
    /\ UNCHANGED <<rows, work, gone, job, hollow, result, faults, hist>>

AddEntry(p) ==
    /\ pc[p] = "zadd"
    /\ \E at \in [work[p] -> Placed] : PutEntry(work[p], at)
    /\ added' = added \cup work[p]
    /\ overlap' = overlap \cup (work[p] \cap added)
    /\ pc' = [pc EXCEPT ![p] = "mark"]
    /\ UNCHANGED <<rows, work, gone, job, hollow, result, faults, sends, lost,
                   retried>>

\* Mutant: the update does not ask for status = INIT.
MarkAnyRow(S) ==
    status' = [t \in Tasks |-> IF t \in S THEN "QUEUED" ELSE status[t]]

\* UPDATE attempts SET status = QUEUED WHERE id IN ids AND status = INIT.
MarkRows(S) ==
    status' = [t \in Tasks |->
                 IF t \in S /\ status[t] = "INIT" THEN "QUEUED" ELSE status[t]]

UpdateStatusToQueued(p) ==
    /\ pc[p] = "mark" /\ p \notin Requeuers
    /\ work[p] \cap Locked = {}
    /\ MarkRows(work[p])
    /\ Return(p)
    /\ UNCHANGED <<qvars, number, exhausted, far, gone, job, hollow, result,
                   faults, hist>>

\* Mutant: ScheduleAttempts does not return when Add fails.
MarkAfterFailure(p) ==
    /\ pc[p] \in SchedulePCs
    /\ faults > 0 /\ faults' = faults - 1
    /\ IF p \in Requeuers THEN UNCHANGED status ELSE MarkRows(work[p])
    /\ Return(p)
    /\ UNCHANGED <<qvars, number, exhausted, far, gone, job, hollow, result, hist>>

\* A call to Redis or PostgreSQL fails, before or after it took effect: the
\* error is logged and ScheduleAttempts returns.  A producer that stops here
\* leaves the same state.  A requeuer whose ZADD took effect and whose Add fails
\* goes on to commit; one whose update fails has its transaction aborted: see
\* Rollback.
ScheduleFails(p) ==
    /\ pc[p] \in SchedulePCs
    /\ faults > 0 /\ faults' = faults - 1
    /\ Return(p)
    /\ UNCHANGED <<qvars, rows, gone, job, hollow, result, hist>>

-----------------------------------------------------------------------------
(* loadPending, the requeue job *)

\* One round: SELECT ... FOR UPDATE SKIP LOCKED of rows that are INIT and in the
\* window (and at least 30 seconds old: any subset may be), then the events are
\* looked up.  Rows whose event is gone (G) are cancelled, the others scheduled.
LoadPending(q) ==
    /\ pc[q] = "idle"
    /\ \E S \in SUBSET {t \in Tasks : status[t] = "INIT" /\ t \notin far \cup Locked} :
        /\ S # {} /\ Cardinality(S) <= RequeueJobBatch
        /\ \E G \in SUBSET S :
            /\ gone' = [gone EXCEPT ![q] = G]
            /\ Call(q, S \ G, "commit")
    /\ UNCHANGED <<qvars, rows, job, hollow, result, faults, hist>>

\* UpdateStatusToQueued inside the transaction: seen by others at the commit.
MarkInTransaction(q) ==
    /\ pc[q] = "mark"
    /\ pc' = [pc EXCEPT ![q] = "commitq"]
    /\ UNCHANGED <<qvars, rows, work, gone, job, hollow, result, faults, hist>>

Release(q) ==
    /\ pc' = [pc EXCEPT ![q] = "idle"]
    /\ work' = [work EXCEPT ![q] = {}]
    /\ gone' = [gone EXCEPT ![q] = {}]

Commit(q) ==
    /\ pc[q] \in RequeuePCs
    /\ status' = [t \in Tasks |->
                    CASE t \in gone[q] -> "CANCELED"
                      [] t \in work[q] /\ pc[q] = "commitq" -> "QUEUED"
                      [] OTHER -> status[t]]
    /\ Release(q)
    /\ UNCHANGED <<qvars, number, exhausted, far, job, hollow, result, faults,
                   hist>>

\* A statement fails, be it the update that ScheduleAttempts only logs, the
\* commit fails or the node stops: the rows are as before, what was added to
\* Redis stays there.
Rollback(q) ==
    /\ pc[q] # "idle"
    /\ faults > 0 /\ faults' = faults - 1
    /\ Release(q)
    /\ UNCHANGED <<qvars, rows, job, hollow, result, hist>>

-----------------------------------------------------------------------------
(* The worker: run, the pool, runTask and handleTask *)

\* Mutants: a Get that does not move the task it hands out, and one that takes
\* it out of the queue.
FetchNoLease(h, t) ==
    /\ pc[h] = "idle"
    /\ entry[t] = "due"
    /\ job' = [job EXCEPT ![h] = t]
    /\ hollow' = IF t \in payload THEN hollow ELSE hollow \cup {h}
    /\ pc' = [pc EXCEPT ![h] = "fetched"]
    /\ UNCHANGED <<qvars, rows, work, gone, result, faults, hist>>

FetchPop(h, t) ==
    /\ pc[h] = "idle"
    /\ entry[t] = "due"
    /\ DropEntry({t})
    /\ job' = [job EXCEPT ![h] = t]
    /\ hollow' = IF t \in payload THEN hollow ELSE hollow \cup {h}
    /\ pc' = [pc EXCEPT ![h] = "fetched"]
    /\ UNCHANGED <<rows, work, gone, result, faults, hist>>

\* run: Get hands out a due task.  (A Get takes up to 20 at once; each is its
\* own step here, which adds interleavings and loses none.)
Fetch(h, t) ==
    /\ pc[h] = "idle"
    /\ entry[t] = "due"
    /\ Lease({t})
    /\ job' = [job EXCEPT ![h] = t]
    /\ hollow' = IF t \in payload THEN hollow ELSE hollow \cup {h}
    /\ pc' = [pc EXCEPT ![h] = "fetched"]
    /\ UNCHANGED <<rows, work, gone, result, faults, hist>>

\* Mutant: a holder that is done keeps its task.
FinishKeepsJob(h) ==
    /\ pc' = [pc EXCEPT ![h] = "idle"]
    /\ work' = [work EXCEPT ![h] = {}]
    /\ hollow' = hollow \ {h}
    /\ result' = [result EXCEPT ![h] = NoResult]
    /\ UNCHANGED <<gone, job>>

Finish(h) ==
    /\ pc' = [pc EXCEPT ![h] = "idle"]
    /\ work' = [work EXCEPT ![h] = {}]
    /\ job' = [job EXCEPT ![h] = NoTask]
    /\ hollow' = hollow \ {h}
    /\ result' = [result EXCEPT ![h] = NoResult]
    /\ UNCHANGED gone

Goto(h, label) ==
    /\ pc' = [pc EXCEPT ![h] = label]
    /\ UNCHANGED <<work, gone, job, hollow>>

Submit(h) ==
    /\ pc[h] = "fetched" /\ Cardinality(At("pooled")) < PoolSize
    /\ Goto(h, "pooled")
    /\ UNCHANGED <<qvars, rows, result, faults, hist>>

\* The channel stays full for a second: the task is put back at the time it was
\* scheduled for, which has passed.
SubmitTimeout(h) ==
    /\ pc[h] = "fetched" /\ Cardinality(At("pooled")) >= PoolSize
    /\ PutEntry({job[h]}, [t \in {job[h]} |-> "due"])
    /\ Finish(h)
    /\ UNCHANGED <<rows, faults, hist>>

\* The pool is shutting down with its node: the task is put back likewise.
SubmitTerminated(h) ==
    /\ pc[h] = "fetched"
    /\ faults > 0 /\ faults' = faults - 1
    /\ PutEntry({job[h]}, [t \in {job[h]} |-> "due"])
    /\ Finish(h)
    /\ UNCHANGED <<rows, hist>>

\* A consumer takes the task: without a payload it does not unmarshal, and is
\* deleted.
Consume(h) ==
    /\ pc[h] = "pooled" /\ Cardinality(Running) < PoolConcurrency
    /\ Goto(h, IF h \in hollow THEN "hdel" ELSE "load")
    /\ UNCHANGED <<qvars, rows, result, faults, hist>>

\* handleTask: the endpoint is gone or disabled, or gives no request.
RejectEndpoint(h) ==
    /\ pc[h] = "load"
    /\ Goto(h, "cancel")
    /\ UNCHANGED <<qvars, rows, result, faults, hist>>

UpdateErrorCode(h) ==
    /\ pc[h] = "cancel" /\ job[h] \notin Locked
    /\ status' = [status EXCEPT ![job[h]] = IF @ = "purged" THEN @ ELSE "CANCELED"]
    /\ Goto(h, "hdel")
    /\ UNCHANGED <<qvars, number, exhausted, far, result, faults, hist>>

\* The rate limiter says no: the task is scheduled a period from now.
RateLimited(h) ==
    /\ pc[h] = "load"
    /\ Goto(h, "defer")
    /\ UNCHANGED <<qvars, rows, result, faults, hist>>

ScheduleTask(h) ==
    /\ pc[h] = "defer"
    /\ PutEntry({job[h]}, [t \in {job[h]} |-> "future"])
    /\ Finish(h)
    /\ UNCHANGED <<rows, faults, hist>>

\* The endpoint is there, enabled and within its quota; the plugins have run.
Admit(h) ==
    /\ pc[h] = "load"
    /\ Goto(h, "send")
    /\ UNCHANGED <<qvars, rows, result, faults, hist>>

\* Mutant: off by one in the comparison with the number of retry delays.
IsExhaustedLate(n, len) == n > len

\* Attempt n was the last one of an endpoint with len retry delays.
IsExhausted(n, len) == n >= len

\* What attempt n may come to.  The endpoint's configuration is read when the
\* task is handled; a request the ACL denies fails and is not tried again.
Answers(n) ==
    [status : {"SUCCESSFUL", "FAILED"},
     exhausted : {IsExhausted(n, len) : len \in RetryLengths}]
    \cup {[status |-> "FAILED", exhausted |-> TRUE]}

Send(h) ==
    /\ pc[h] = "send"
    /\ \E a \in Answers(number[job[h]]) : result' = [result EXCEPT ![h] = a]
    /\ sends' = [sends EXCEPT ![job[h]] = IF @ < 2 THEN @ + 1 ELSE @]
    /\ Goto(h, "record")
    /\ UNCHANGED <<qvars, rows, faults, added, overlap, lost, retried>>

\* The attempt is to be followed by another one.
Retries(r) == r.status = "FAILED" /\ ~r.exhausted

\* UpdateDelivery, by id only: where there is no row, nothing is updated.
UpdateDelivery(h) ==
    /\ pc[h] = "record" /\ job[h] \notin Locked
    /\ status' = [status EXCEPT ![job[h]] =
                    IF @ = "purged" THEN @ ELSE result[h].status]
    /\ exhausted' = IF result[h].exhausted
                      THEN exhausted \cup {job[h]} ELSE exhausted \ {job[h]}
    /\ Goto(h, IF Retries(result[h]) THEN "insert" ELSE "hdel")
    /\ UNCHANGED <<qvars, number, far, result, faults, hist>>

\* The next attempt is inserted and scheduled, by the holder itself.
InsertNext(h) ==
    /\ pc[h] = "insert"
    /\ \E n \in Fresh, F \in SUBSET Fresh :
        /\ F \subseteq {n}
        /\ InsertRows({n}, F, number[job[h]] + 1)
        /\ Call(h, {n} \ F, "hdel")
    /\ retried' = retried \cup {job[h]}
    /\ UNCHANGED <<qvars, gone, job, hollow, result, faults, added, sends,
                   overlap, lost>>

\* Mutant: runTask deletes the task when handleTask returns an error.
InsertFailsDeletes(h) ==
    /\ pc[h] = "insert" /\ Fresh = {}
    /\ DropEntry({job[h]})
    /\ Finish(h)
    /\ lost' = lost \cup {job[h]}
    /\ UNCHANGED <<rows, faults, added, sends, overlap, retried>>

\* The insert fails for good where the model has no id left (a bound): like any
\* other error, it leaves the task to be handed out again.
InsertFails(h) ==
    /\ pc[h] = "insert" /\ Fresh = {}
    /\ Finish(h)
    /\ lost' = lost \cup {job[h]}
    /\ UNCHANGED <<qvars, rows, faults, added, sends, overlap, retried>>

DeleteData(h) ==
    /\ pc[h] = "hdel"
    /\ DropData({job[h]})
    /\ Goto(h, "zrem")
    /\ UNCHANGED <<rows, result, faults, hist>>

DeleteEntry(h) ==
    /\ pc[h] = "zrem"
    /\ DropEntry({job[h]})
    /\ Finish(h)
    /\ UNCHANGED <<rows, faults, hist>>

\* The holder lets go of its task and leaves it in the queue: its node stops, a
\* plugin or a call fails and handleTask returns the error, the reply of the Get
\* or of the Delete is lost, or the pool shuts down with the task in its channel.
Abandon(h) ==
    /\ pc[h] # "idle"
    /\ faults > 0 /\ faults' = faults - 1
    /\ Finish(h)
    /\ lost' = IF result[h] # NoResult THEN lost \cup {job[h]} ELSE lost
    /\ UNCHANGED <<qvars, rows, added, sends, overlap, retried>>

-----------------------------------------------------------------------------
(* Time, and the retention job *)

\* An entry becomes due: its time has come or its lease ends, in use or not.
TimeOut(t) ==
    /\ Elapse({t})
    /\ overlap' = IF Holding(t) = {} THEN overlap ELSE overlap \cup {t}
    /\ UNCHANGED <<rows, procs, faults, added, sends, lost, retried>>

\* An attempt scheduled far ahead comes within the pre-schedule window.
Approach(t) ==
    /\ t \in far
    /\ far' = far \ {t}
    /\ UNCHANGED <<qvars, status, number, exhausted, procs, faults, hist>>

\* The retention job deletes attempts by age alone, whatever their status.
DeleteTTL(t) ==
    /\ status[t] \notin {"none", "purged"} /\ t \notin Locked
    /\ status' = [status EXCEPT ![t] = "purged"]
    /\ UNCHANGED <<qvars, number, exhausted, far, procs, faults, hist>>

-----------------------------------------------------------------------------
HolderStep(h) ==
    \/ Submit(h) \/ SubmitTimeout(h) \/ Consume(h)
    \/ RejectEndpoint(h) \/ UpdateErrorCode(h)
    \/ RateLimited(h) \/ ScheduleTask(h)
    \/ Admit(h) \/ Send(h) \/ UpdateDelivery(h) \/ InsertNext(h)
    \/ InsertFails(h)
    \/ DeleteData(h) \/ DeleteEntry(h)

ScheduleStep(p) == AddData(p) \/ AddEntry(p) \/ UpdateStatusToQueued(p)

Next ==
    \/ \E p \in Producers : Dispatch(p) \/ Fanout(p)
    \/ CreateEvent
    \/ \E p \in Procs : ScheduleStep(p) \/ ScheduleFails(p)
    \/ \E q \in Requeuers :
        LoadPending(q) \/ MarkInTransaction(q) \/ Commit(q) \/ Rollback(q)
    \/ \E h \in Holders :
        HolderStep(h) \/ SubmitTerminated(h) \/ Abandon(h)
        \/ \E t \in Tasks : Fetch(h, t)
    \/ \E t \in Tasks : TimeOut(t) \/ Approach(t) \/ DeleteTTL(t)

Spec == Init /\ [][Next]_vars

\* Processes go on, time passes, the requeue job gets to every row (it loops
\* until a round is not full), Get gets to every due task (lowest score first)
\* and the rate limiter lets every task through at some try (its bucket fills).
\* Nothing is assumed of new events, faults and the retention job.
SelectPending(t) == \E q \in Requeuers : LoadPending(q) /\ t \in work'[q] \cup gone'[q]
FetchTask(t) == \E h \in Holders : Fetch(h, t)
AdmitTask(t) == \E h \in Holders : job[h] = t /\ (Admit(h) \/ RejectEndpoint(h))

Fairness ==
    /\ \A p \in Procs : WF_vars(ScheduleStep(p))
    /\ \A q \in Requeuers : WF_vars(MarkInTransaction(q) \/ Commit(q))
    /\ \A h \in Holders : WF_vars(HolderStep(h))
    /\ \A t \in Tasks :
        /\ WF_vars(TimeOut(t)) /\ WF_vars(Approach(t))
        /\ SF_vars(SelectPending(t)) /\ SF_vars(FetchTask(t)) /\ SF_vars(AdmitTask(t))

FairSpec == Spec /\ Fairness

-----------------------------------------------------------------------------
(* Properties *)

TypeOK ==
    /\ QTypeOK
    /\ status \in [Tasks -> Statuses]
    /\ number \in [Tasks -> Nat]
    /\ exhausted \subseteq Tasks
    /\ far \subseteq Tasks
    /\ pc \in [Procs -> PCs]
    /\ \A p \in Producers : pc[p] \in {"idle"} \cup SchedulePCs
    /\ \A q \in Requeuers : pc[q] \in {"idle"} \cup SchedulePCs \cup RequeuePCs
    /\ \A h \in Holders : pc[h] \in {"idle"} \cup SchedulePCs \cup HolderPCs
    /\ work \in [Procs -> SUBSET Tasks]
    /\ gone \in [Requeuers -> SUBSET Tasks]
    /\ job \in [Holders -> Tasks \cup {NoTask}]
    /\ \A h \in Holders : pc[h] = "idle" <=> job[h] = NoTask
    /\ hollow \subseteq Holders
    /\ result \in [Holders -> Results]
    /\ faults \in 0 .. MaxFaults
    /\ added \subseteq Tasks
    /\ sends \in [Tasks -> 0 .. 2]
    /\ overlap \subseteq Tasks
    /\ lost \subseteq Tasks
    /\ retried \subseteq Tasks

\* Nothing looks for an attempt that is QUEUED except the queue: loadPending
\* only selects INIT rows.  So an attempt whose status is QUEUED has its entry
\* and its payload in the queue, through every order of the two pipelines, the
\* status update, the requeue transaction and the deletions by other holders.
QueuedIsRecoverable ==
    \A t \in Tasks : status[t] = "QUEUED" => entry[t] # "absent" /\ t \in payload

\* runTask deletes a task that comes without a payload, and nobody else looks at
\* it.  So an entry is without its payload only once the attempt is settled.
PayloadlessIsSettled ==
    \A t \in Tasks : entry[t] # "absent" /\ t \notin payload => Settled(t)

\* A settled attempt is never INIT or QUEUED again: late writers (a gateway that
\* was slow between the ZADD and its update, a requeue transaction that commits)
\* do not put it back to work.
SettledStaysSettled ==
    [][\A t \in Tasks : Settled(t) => Settled(t)']_vars

\* A retry is never dropped: the row of a failed attempt that is not exhausted
\* has a next attempt, or its task is still in the queue to be tried again,
\* whatever call failed or holder stopped, as long as the task was not handed
\* out while another holder was at it.
RetryChainUnbroken ==
    \A t \in Tasks \ overlap :
        status[t] = "FAILED" /\ t \notin exhausted /\ t \notin retried
            => entry[t] # "absent" /\ t \in payload

\* An endpoint gets a request twice for one attempt only for a reason: a holder
\* stopped after sending it, its lease ran out while the task was in use, or
\* the attempt was added to the queue twice.
DuplicateHasCause ==
    \A t \in Tasks : sends[t] > 1 => t \in overlap \cup lost

\* The chain of retries ends: no attempt has a number beyond the longest retry
\* configuration the endpoint has had.
ChainIsBounded ==
    \A t \in Tasks : status[t] # "none" => \E len \in RetryLengths : number[t] <= len

\* Every attempt comes to an end: delivered, failed, cancelled or purged, however
\* many nodes work on it, once calls stop failing.  It takes the requeue job to
\* find attempts nobody scheduled and the lease to hand out abandoned tasks.
EveryAttemptSettles ==
    \A t \in Tasks : Pending(t) ~> Settled(t)

-----------------------------------------------------------------------------
(* The inductive invariant: what each process knows at each of its steps. *)

\* Past these points handleTask has settled the attempt it was called for.
DonePCs == SchedulePCs \cup {"insert", "hdel", "zrem"}

HolderKnows ==
    \A h \in Holders :
        /\ pc[h] = "idle" => h \notin hollow
        /\ pc[h] # "idle" => job[h] \in payload \/ Settled(job[h])
        /\ pc[h] # "idle" /\ (h \in hollow \/ pc[h] \in DonePCs) => Settled(job[h])
        /\ pc[h] = "record" => result[h].status # "none"

SchedulerKnows ==
    \A p \in Procs : \A t \in work[p] :
        /\ pc[p] = "zadd" => t \in payload \/ Settled(t)
        /\ pc[p] \in {"mark", "commitq"} =>
            (t \in payload /\ entry[t] # "absent") \/ Settled(t)

RowLocks ==
    \A q \in Requeuers :
        /\ \A t \in work[q] \cup gone[q] : status[t] = "INIT"
        /\ \A r \in Requeuers \ {q} :
            (work[q] \cup gone[q]) \cap (work[r] \cup gone[r]) = {}

IndInv ==
    /\ TypeOK
    /\ QueuedIsRecoverable
    /\ PayloadlessIsSettled
    /\ HolderKnows
    /\ SchedulerKnows
    /\ RowLocks

\* The second one, about retries and duplicates, needs to know more of a task
\* that was never handed out while in use: its holder is alone, and the lease
\* stands for as long as it holds the task.
Broken(t) == status[t] = "FAILED" /\ t \notin exhausted /\ t \notin retried

SoleHolder ==
    \A t \in Tasks \ overlap :
        /\ entry[t] # "absent" => t \in added
        /\ \A h \in Holding(t) :
            /\ entry[t] = "leased"
            /\ Holding(t) = {h}
            /\ h \notin hollow /\ pc[h] # "zrem" => t \in payload
            /\ h \in hollow \/ pc[h] \in DonePCs \ {"insert"} => ~Broken(t)

\* Before the request is sent there is no result; without a payload no request
\* is sent.
UnsentPCs == {"idle", "fetched", "pooled", "load", "cancel", "defer", "send"}
ResultIsFresh ==
    \A h \in Holders :
        /\ pc[h] \in UnsentPCs => result[h] = NoResult
        /\ pc[h] \in {"record", "insert"} => result[h] # NoResult
        /\ h \in hollow => pc[h] \in {"fetched", "pooled", "hdel", "zrem"}

SentOnce ==
    \A t \in Tasks \ (overlap \cup lost) :
        /\ sends[t] <= 1
        /\ sends[t] = 1 =>
            /\ t \in added
            /\ entry[t] = "absent" \/ \E h \in Holding(t) : result[h] # NoResult

\* An id that no row has is nowhere in use; a holder about to insert the next
\* attempt has a retry delay left for it.
FreshIsUnused ==
    \A t \in Fresh :
        /\ entry[t] = "absent" /\ Holding(t) = {}
        /\ \A p \in Procs : t \notin work[p]

ChainKnows ==
    \A h \in Holders :
        pc[h] = "insert" \/ (pc[h] = "record" /\ Retries(result[h])) =>
            \E len \in RetryLengths : number[job[h]] < len

RetryInv ==
    /\ RetryChainUnbroken
    /\ DuplicateHasCause
    /\ ChainIsBounded
    /\ SoleHolder
    /\ ResultIsFresh
    /\ SentOnce
    /\ FreshIsUnused
    /\ ChainKnows
=============================================================================
