----------------------------- MODULE Lifecycle -----------------------------
(***************************************************************************)
(* A node from the check of its database to the end of its shutdown: the   *)
(* services that Start starts one by one, what runs while the node serves  *)
(* (requests of its HTTP servers, the worker's fetch loop, its pool, the   *)
(* queue of request logs, the circuit breakers, jobs of cron, goroutines   *)
(* that nobody waits for), and stop, which stops them in its order under a *)
(* context of 30 seconds.  Migrations has what comes before the check.     *)
(***************************************************************************)
EXTENDS Integers, Sequences, FiniteSets, Functions

CONSTANTS
    Servers,            \* HTTP servers, of "proxy", "admin" and "status"
    Handlers,           \* goroutines of the worker's pool
    Flushers,           \* goroutines that write request logs
    Jobs,               \* tasks of cron
    PoolSize, LogSize, BatchSize,
    MaxInflight,        \* bound on the requests a server serves at a time
    MaxBackground,      \* bound on the kinds of goroutines in the background
    MaxTasks            \* bound on the tasks fetched

ASSUME LifecycleAssumption ==
    /\ {PoolSize, LogSize, BatchSize, MaxInflight} \subseteq Nat \ {0}
    /\ {MaxBackground, MaxTasks} \subseteq Nat

VARIABLES
    main,               \* stage of the main goroutine
    started,            \* services started
    db,                 \* the pool of connections
    expired,            \* contexts of stop that are over: "http" and "all"
    inflight,           \* server -> requests being served
    loop,               \* the bus: "off", "waiting", "busy" or "ended"
    background,         \* kinds of goroutines that nobody waits for, of which some run
    fetching,           \* the fetch loop is submitting a task
    pool, tasks,        \* tasks in the pool's channel, and still to fetch
    handler,            \* handler -> its step
    handed,             \* details handed over to the queue of request logs, by number
    logs, buffer,       \* those in the channel, and in the buffer of a flusher
    breaker,            \* circuit breakers: "off", "running", "flushing" or "done"
    fresh, old,         \* unflushed results of this second, and of earlier ones
    job,                \* task of cron -> is it running
    \* history
    written, failed,    \* details whose batch was inserted, and failed to be
    flushFailed         \* the last flush of the circuit breakers failed

worker == <<fetching, pool, tasks, handler>>
log == <<handed, logs, buffer, written, failed>>
breakers == <<breaker, fresh, old, flushFailed>>
vars == <<main, started, db, expired, inflight, loop, background, worker, log, breakers, job>>

\* Stages of main, in the order of Start and of stop.
ServiceOrder == <<"eventbus", "metrics", "admin", "worker", "proxy", "status", "schedule", "retention">>
Stopping == <<"http", "bus", "pool", "logs", "breaker", "metrics", "cron", "close", "exited">>

Ended == {"failed", "crashed", "exited"}

Started(s) == \E i \in 1 .. started : ServiceOrder[i] = s

After == [s \in Range(Stopping) |->
             {Stopping[k] : k \in {n \in 1 .. Len(Stopping) : \E i \in 1 .. n : Stopping[i] = s}}]

\* The stage that main has reached is s or a later one.
Reached(s) == main \in After[s]

Init ==
    /\ main = "starting" /\ started = 0 /\ db = "open"
    /\ expired = {}
    /\ inflight = [s \in Servers |-> 0]
    /\ loop = "off" /\ background = {}
    /\ fetching = FALSE /\ pool = 0 /\ tasks = MaxTasks
    /\ handler = [h \in Handlers |-> "off"]
    /\ handed = 0 /\ logs = {} /\ buffer = [f \in Flushers |-> {}]
    /\ written = {} /\ failed = {}
    /\ breaker = "off" /\ fresh = FALSE /\ old = FALSE /\ flushFailed = FALSE
    /\ job = [j \in Jobs |-> FALSE]

-----------------------------------------------------------------------------
(* Start *)

StartService ==
    /\ main = "starting" /\ started < Len(ServiceOrder) /\ started' = started + 1
    /\ LET s == ServiceOrder[started']
       IN  /\ loop' = IF s = "eventbus" THEN "waiting" ELSE loop
           /\ handler' = IF s = "worker" THEN [h \in Handlers |-> "idle"] ELSE handler
           /\ breaker' = IF s = "worker" THEN "running" ELSE breaker
    /\ main' = IF started' = Len(ServiceOrder) THEN "running" ELSE main
    /\ UNCHANGED <<db, expired, inflight, background, fetching, pool, tasks, log, fresh, old, flushFailed, job>>

\* An error of Start, or of a server that cannot listen: the process ends, and
\* what has been started is not stopped.
StartFails ==
    /\ main = "starting" /\ main' = "failed"
    /\ UNCHANGED <<db, started, expired, inflight, loop, background, worker, log, breakers, job>>

Alive == main \notin Ended

-----------------------------------------------------------------------------
(* What a node does while it runs *)

Listening(s) == Alive /\ Started(s) /\ ~Reached("http")

Accept(s) ==
    /\ Listening(s) /\ inflight[s] < MaxInflight
    /\ inflight' = [inflight EXCEPT ![s] = @ + 1]
    /\ UNCHANGED <<db, main, started, expired, loop, background, worker, log, breakers, job>>

Answer(s) ==
    /\ Alive /\ inflight[s] > 0
    /\ inflight' = [inflight EXCEPT ![s] = @ - 1]
    /\ UNCHANGED <<db, main, started, expired, loop, background, worker, log, breakers, job>>

\* The loop of the bus handles a message or a ping, and waits again.
BusTurn ==
    /\ Alive
    /\ \/ loop = "waiting" /\ ~Reached("bus") /\ loop' = "busy"
       \/ loop = "busy" /\ loop' = IF Reached("pool") THEN "ended" ELSE "waiting"
    /\ UNCHANGED <<db, main, started, expired, inflight, background, worker, log, breakers, job>>

\* Stop has cancelled the loop and closed its channel: both cases of select are
\* ready, and the one that receives nil dereferences it.
BusPanics ==
    /\ Alive /\ loop = "busy" /\ Reached("pool")
    /\ main' = "crashed"
    /\ UNCHANGED <<db, started, expired, inflight, loop, background, worker, log, breakers, job>>

\* Goroutines that stop does not wait for: a listener of the stream that handles
\* messages, the handler of a fan-out, and the propagation of a change.
Background == {"listener", "fanout", "propagation"}

\* Listeners run until stop cancels them.  Requests of the admin API and messages
\* of the bus cause fan-outs, and such requests and jobs write rows.
Caused(g) ==
    \/ g = "listener" /\ Started("proxy") /\ ~Reached("http")
    \/ g \in {"fanout", "propagation"} /\ \E s \in Servers : s = "admin" /\ inflight[s] > 0
    \/ g = "fanout" /\ loop = "busy"
    \/ g = "propagation" /\ \E j \in Jobs : job[j]

Launch(g) ==
    /\ Alive /\ g \notin background /\ Cardinality(background) < MaxBackground
    /\ Caused(g)
    /\ background' = background \cup {g}
    /\ UNCHANGED <<db, main, started, expired, inflight, loop, worker, log, breakers, job>>

Finish(g) ==
    /\ Alive /\ g \in background /\ background' = background \ {g}
    /\ UNCHANGED <<db, main, started, expired, inflight, loop, worker, log, breakers, job>>

Stopped == Reached("pool")      \* the worker's contexts are cancelled

\* The fetch loop: Submit looks at the context of the pool first.
Fetch ==
    /\ Alive /\ Started("worker") /\ ~Stopped
    /\ ~fetching /\ tasks > 0 /\ fetching' = TRUE /\ tasks' = tasks - 1
    /\ UNCHANGED <<db, main, started, expired, inflight, loop, background, pool, handler, log, breakers, job>>

\* It enters the channel, also of a pool that is closed by now, or is refused.
Submit ==
    /\ Alive /\ fetching /\ fetching' = FALSE
    /\ \/ pool < PoolSize /\ pool' = pool + 1
       \/ pool' = pool
    /\ UNCHANGED <<db, main, started, expired, inflight, loop, background, tasks, handler, log, breakers, job>>

Goto(h, label) == handler' = [handler EXCEPT ![h] = label]

\* consume: a closed pool may still hand out tasks.
Take(h) ==
    /\ Alive /\ handler[h] = "idle" /\ pool > 0 /\ pool' = pool - 1
    /\ Goto(h, "deliver")
    /\ UNCHANGED <<db, main, started, expired, inflight, loop, background, fetching, tasks, log, breakers, job>>

Quit(h) ==
    /\ Alive /\ handler[h] = "idle" /\ Stopped /\ Goto(h, "off")
    /\ UNCHANGED <<db, main, started, expired, inflight, loop, background, fetching, pool, tasks, log, breakers, job>>

\* handleTask: the request is sent and its result recorded, or an error returned.
Deliver(h) ==
    /\ Alive /\ handler[h] = "deliver"
    /\ \/ Goto(h, "add") /\ fresh' = TRUE
       \/ Goto(h, "idle") /\ UNCHANGED fresh
    /\ UNCHANGED <<db, main, started, expired, inflight, loop, background, fetching, pool, tasks, log, breaker, old, flushFailed, job>>

\* The detail goes to the queue of request logs: Add blocks while it is full.
Add(h) ==
    /\ Alive /\ handler[h] = "add" /\ Cardinality(logs) < LogSize
    /\ handed' = handed + 1 /\ logs' = logs \cup {handed'}
    /\ Goto(h, "retry")
    /\ UNCHANGED <<db, main, started, expired, inflight, loop, background, fetching, pool, tasks, buffer,
                   written, failed, breakers, job>>

\* The next attempt is inserted.
Retry(h) ==
    /\ Alive /\ handler[h] = "retry" /\ Goto(h, "idle")
    /\ UNCHANGED <<db, main, started, expired, inflight, loop, background, fetching, pool, tasks, log, breakers, job>>

\* consumeQueue inserts a batch; an error is logged, and the buffer is cleared
\* all the same.
Insert(f, batch) ==
    /\ buffer' = [buffer EXCEPT ![f] = {}]
    /\ \/ written' = written \cup batch /\ UNCHANGED failed
       \/ failed' = failed \cup batch /\ UNCHANGED written

\* Mutant: the flushers end with the context of the worker.
FlushUntilStopped(f) ==
    /\ Alive /\ ~Stopped
    /\ \/ \E d \in logs :
             /\ \A e \in logs : d <= e
             /\ logs' = logs \ {d}
             /\ IF Cardinality(buffer[f]) + 1 < BatchSize
                THEN /\ buffer' = [buffer EXCEPT ![f] = @ \cup {d}]
                     /\ UNCHANGED <<written, failed>>
                ELSE Insert(f, buffer[f] \cup {d})
       \/ buffer[f] # {} /\ Insert(f, buffer[f]) /\ UNCHANGED logs
    /\ UNCHANGED <<db, main, started, expired, inflight, loop, background, worker, handed, breakers, job>>

\* A flusher takes details, and inserts them when its buffer is full, on its
\* timer, and when the channel is closed and empty.
Flush(f) ==
    /\ Alive
    /\ \/ \E d \in logs :
             /\ \A e \in logs : d <= e
             /\ logs' = logs \ {d}
             /\ IF Cardinality(buffer[f]) + 1 < BatchSize
                THEN /\ buffer' = [buffer EXCEPT ![f] = @ \cup {d}]
                     /\ UNCHANGED <<written, failed>>
                ELSE Insert(f, buffer[f] \cup {d})
       \/ buffer[f] # {} /\ Insert(f, buffer[f]) /\ UNCHANGED logs
    /\ UNCHANGED <<db, main, started, expired, inflight, loop, background, worker, handed, breakers, job>>

\* A second passes; after the last flush that makes no difference.
NextSecond ==
    /\ Alive /\ ~Reached("metrics") /\ fresh /\ fresh' = FALSE /\ old' = TRUE
    /\ UNCHANGED <<db, main, started, expired, inflight, loop, background, worker, log, breaker, flushFailed, job>>

\* Flush of the circuit breakers, on a timer: the seconds before this one.  What
\* an error leaves out is for the next one.
BreakerTurn ==
    /\ Alive
    /\ \/ breaker = "running" /\ ~Reached("breaker") /\ breaker' = "flushing" /\ UNCHANGED old
       \/ breaker = "flushing" /\ breaker' = "running" /\ old' \in {old, FALSE}
       \/ breaker = "running" /\ Reached("breaker") /\ breaker' = "done" /\ UNCHANGED old
    /\ UNCHANGED <<db, main, started, expired, inflight, loop, background, worker, log, fresh, flushFailed, job>>

RunJob(j) ==
    /\ Alive /\ Started("schedule") /\ ~Reached("cron")
    /\ ~job[j] /\ job' = [job EXCEPT ![j] = TRUE]
    /\ UNCHANGED <<db, main, started, expired, inflight, loop, background, worker, log, breakers>>

EndJob(j) ==
    /\ Alive /\ job[j] /\ job' = [job EXCEPT ![j] = FALSE]
    /\ UNCHANGED <<db, main, started, expired, inflight, loop, background, worker, log, breakers>>

-----------------------------------------------------------------------------
(* stop *)

Signal ==
    /\ main = "running" /\ main' = "http"
    /\ UNCHANGED <<db, started, expired, inflight, loop, background, worker, log, breakers, job>>

\* The 10 seconds of the HTTP servers, or the 30 of everything, are over.
Expire(c) ==
    /\ Reached("http") /\ Alive /\ c \notin expired
    /\ c = "http" => main = "http"
    /\ expired' = expired \cup {c}
    /\ UNCHANGED <<db, main, started, inflight, loop, background, worker, log, breakers, job>>

Advance == \E i \in 1 .. Len(Stopping) - 1 : Stopping[i] = main /\ main' = Stopping[i + 1]

\* Shutdown of the three servers, in parallel.
StopHttp ==
    /\ main = "http" /\ Advance
    /\ expired # {} \/ \A s \in Servers : inflight[s] = 0
    /\ UNCHANGED <<db, started, expired, inflight, loop, background, worker, log, breakers, job>>

\* cancel wakes a loop that waits before its channel is closed.
StopBus ==
    /\ main = "bus" /\ Advance
    /\ loop' = IF loop = "waiting" THEN "ended" ELSE loop
    /\ UNCHANGED <<db, started, expired, inflight, background, worker, log, breakers, job>>

\* Mutant: Shutdown of the pool gives up with the context, as others do.
StopPoolInTime ==
    /\ main = "pool" /\ Advance
    /\ "all" \in expired \/ \A h \in Handlers : handler[h] = "off"
    /\ UNCHANGED <<db, started, expired, inflight, loop, background, worker, log, breakers, job>>

\* Shutdown of the pool waits for its handlers, whatever the context says.
StopPool ==
    /\ main = "pool" /\ Advance
    /\ \A h \in Handlers : handler[h] = "off"
    /\ UNCHANGED <<db, started, expired, inflight, loop, background, worker, log, breakers, job>>

\* Mutant: Close does not wait for the flushers.
StopLogsAtOnce ==
    /\ main = "logs" /\ Advance
    /\ UNCHANGED <<db, started, expired, inflight, loop, background, worker, log, breakers, job>>

\* Close of the queue of request logs waits for its flushers.
StopLogs ==
    /\ main = "logs" /\ Advance
    /\ logs = {} /\ \A f \in Flushers : buffer[f] = {}
    /\ UNCHANGED <<db, started, expired, inflight, loop, background, worker, log, breakers, job>>

\* Stop of the circuit breakers waits for their loop, and flushes once more.
StopBreaker ==
    /\ main = "breaker" /\ Advance
    /\ breaker = "done"
    /\ \/ "all" \notin expired /\ old' = FALSE /\ UNCHANGED flushFailed
       \/ flushFailed' = TRUE /\ UNCHANGED old
    /\ UNCHANGED <<db, started, expired, inflight, loop, background, worker, log, breaker, fresh, job>>

StopMetrics ==
    /\ main = "metrics" /\ Advance
    /\ UNCHANGED <<db, started, expired, inflight, loop, background, worker, log, breakers, job>>

\* Stop of cron waits for jobs that run, but no longer than the context.
StopCron ==
    /\ main = "cron" /\ Advance
    /\ "all" \in expired \/ \A j \in Jobs : ~job[j]
    /\ UNCHANGED <<db, started, expired, inflight, loop, background, worker, log, breakers, job>>

\* The pool of connections is closed whatever still runs.
CloseDB ==
    /\ main = "close" /\ Advance
    /\ db' = "closed"
    /\ UNCHANGED <<started, expired, inflight, loop, background, worker, log, breakers, job>>

Stop ==
    StopHttp \/ StopBus \/ StopPool \/ StopLogs \/ StopBreaker \/ StopMetrics \/ StopCron \/ CloseDB

-----------------------------------------------------------------------------
Next ==
    \/ StartService \/ StartFails
    \/ \E s \in Servers : Accept(s) \/ Answer(s)
    \/ BusTurn \/ BusPanics \/ Fetch \/ Submit
    \/ \E h \in Handlers : Take(h) \/ Quit(h) \/ Deliver(h) \/ Add(h) \/ Retry(h)
    \/ \E f \in Flushers : Flush(f)
    \/ \E g \in Background : Launch(g) \/ Finish(g)
    \/ NextSecond \/ BreakerTurn
    \/ \E j \in Jobs : RunJob(j) \/ EndJob(j)
    \/ Signal \/ Stop \/ \E c \in {"http", "all"} : Expire(c)

\* Goroutines run, deliveries time out, and so do the contexts of stop.
Fairness ==
    /\ WF_vars(Stop)
    /\ \A c \in {"http", "all"} : WF_vars(Expire(c))
    /\ \A h \in Handlers :
          WF_vars(Take(h) \/ Quit(h) \/ Deliver(h) \/ Add(h) \/ Retry(h))
    /\ \A f \in Flushers : WF_vars(Flush(f))
    /\ WF_vars(Submit) /\ WF_vars(BreakerTurn)

Spec == Init /\ [][Next]_vars
FairSpec == Spec /\ Fairness

-----------------------------------------------------------------------------
(* Properties *)

\* What uses the database; flushers write what is in the channel, too.
Users ==
    background
        \cup {"handler" : h \in {x \in Handlers : handler[x] # "off"}}
        \cup {"flusher" : f \in {x \in Flushers : buffer[x] \cup logs # {}}}
        \cup {"job" : j \in {x \in Jobs : job[x]}}
        \cup {"request" : s \in {x \in Servers : inflight[x] > 0}}

\* The queue of request logs is closed when no handler can add to it, which would
\* panic, and the database when no handler and no flusher uses it.  What stop
\* does not wait for may find it closed: jobs and requests that outlast the time
\* they are given, and the goroutines in the background.
ResourcesOutliveUsers ==
    /\ Reached("logs") => \A h \in Handlers : handler[h] = "off"
    /\ db = "closed" =>
          Users \subseteq Background \cup {"job" : c \in expired \cap {"all"}}
                                   \cup {"request" : c \in expired}

\* A node that ends in order has tried to insert every request log that was handed
\* over: it is written, unless the insert of its batch failed, which is only
\* logged.  And it has flushed every result of its circuit breakers but those of
\* the last second, unless the last flush fails.
HandedOverIsWritten ==
    main = "exited" =>
        /\ 1 .. handed = written \cup failed
        /\ old => flushFailed

\* A node that is told to stop ends.
StopReturns == main = "http" ~> main \in Ended

-----------------------------------------------------------------------------
(* The inductive invariant *)

\* The types of the variables.
TypeOK ==
    /\ {fetching, fresh, old, flushFailed} \subseteq BOOLEAN
    /\ db \in {"open", "closed"}
    /\ main \in {"starting", "running"} \cup Range(Stopping) \cup Ended
    /\ started \in 0 .. Len(ServiceOrder)
    /\ expired \subseteq {"http", "all"}
    /\ inflight \in [Servers -> 0 .. MaxInflight]
    /\ loop \in {"off", "waiting", "busy", "ended"}
    /\ background \subseteq Background
    /\ pool \in 0 .. PoolSize /\ tasks \in 0 .. MaxTasks
    /\ handler \in [Handlers -> {"off", "idle", "deliver", "add", "retry"}]
    /\ handed \in Nat /\ {logs, written, failed} \subseteq SUBSET (1 .. handed)
    /\ buffer \in [Flushers -> SUBSET (1 .. handed)]
    /\ breaker \in {"off", "running", "flushing", "done"}
    /\ job \in [Jobs -> BOOLEAN]

\* A detail is in the channel or in a buffer until its batch is inserted.
NothingDropped ==
    1 .. handed = written \cup failed \cup logs \cup UNION {buffer[f] : f \in Flushers}

\* What a step of stop has waited for does not come back after it.
StaysStopped ==
    /\ Reached("bus") => expired # {} \/ \A s \in Servers : inflight[s] = 0
    /\ Reached("logs") => \A h \in Handlers : handler[h] = "off"
    /\ Reached("breaker") => logs = {} /\ \A f \in Flushers : buffer[f] = {}
    /\ Reached("metrics") => (old => flushFailed)
    /\ Reached("close") => "all" \in expired \/ \A j \in Jobs : ~job[j]
    /\ db = "closed" => main = "exited"

IndInv == TypeOK /\ NothingDropped /\ StaysStopped
=============================================================================
