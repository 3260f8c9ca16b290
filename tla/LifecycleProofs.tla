-------------------------- MODULE LifecycleProofs --------------------------
(***************************************************************************)
(* Proofs about Migrations and Lifecycle: a node serves with its default   *)
(* workspace, what stop closes has no users left that it waits for, and    *)
(* what was handed over is inserted, for any number of commands, nodes,    *)
(* migrations, servers, handlers, flushers and jobs.                       *)
(***************************************************************************)
EXTENDS Migrations, Lifecycle, TLAPS

USE MigrationsAssumption, LifecycleAssumption

-----------------------------------------------------------------------------
(* Migrations *)

\* Every step of a command keeps the types and what the lock protects.
LEMMA CommandStep ==
  ASSUME DBInv, NEW c \in Commands,
         \/ UpBegin(c) \/ MigrateBegin(c) \/ MigrateEnd(c) \/ InitDefaultWorkspace(c)
         \/ UpBreaks(c) \/ ResetBegin(c) \/ DropTable(c) \/ ResetEnd(c) \/ ResetBreaks(c)
  PROVE  DBInv'
  <1>b. dirty' \in BOOLEAN /\ upBroken' \in BOOLEAN /\ halfReset' \in BOOLEAN
    BY Zenon DEF DBInv, DBTypeOK, UpBegin, MigrateBegin, MigrateEnd, InitDefaultWorkspace, UpBreaks,
                 ResetBegin, DropTable, ResetEnd, ResetBreaks
  <1> USE DEF DBInv, DBTypeOK, UnderLock, UpToDate, ServesChecked, Step, Holding
  <1>0. schema \in Nat /\ Latest \in Nat
    OBVIOUS
  <1>1. CASE UpBegin(c)
    <2>1. DBTypeOK'
      BY <1>b, <1>0, <1>1 DEF UpBegin, Locked
    <2>2. UnderLock'
      BY <1>0, <1>1 DEF UpBegin, Locked
    <2>3. UpToDate'
      BY <1>0, <1>1 DEF UpBegin, Locked
    <2>4. ServesChecked'
      BY <1>0, <1>1 DEF UpBegin, Locked
    <2> QED
      BY <2>1, <2>2, <2>3, <2>4
  <1>2. CASE MigrateBegin(c)
    <2>1. DBTypeOK'
      BY <1>b, <1>0, <1>2 DEF MigrateBegin
    <2>2. UnderLock'
      BY <1>0, <1>2 DEF MigrateBegin
    <2>3. UpToDate'
      BY <1>0, <1>2 DEF MigrateBegin
    <2>4. ServesChecked'
      BY <1>0, <1>2 DEF MigrateBegin
    <2> QED
      BY <2>1, <2>2, <2>3, <2>4
  <1>3. CASE MigrateEnd(c)
    <2>1. DBTypeOK'
      BY <1>b, <1>0, <1>3 DEF MigrateEnd, Migrated
    <2>2. UnderLock'
      BY <1>0, <1>3 DEF MigrateEnd, Migrated
    <2>3. UpToDate'
      BY <1>0, <1>3 DEF MigrateEnd, Migrated
    <2>4. ServesChecked'
      BY <1>0, <1>3 DEF MigrateEnd, Migrated
    <2> QED
      BY <2>1, <2>2, <2>3, <2>4
  <1>4. CASE InitDefaultWorkspace(c)
    <2>1. DBTypeOK'
      BY <1>b, <1>0, <1>4 DEF InitDefaultWorkspace
    <2>2. UnderLock'
      BY <1>0, <1>4 DEF InitDefaultWorkspace
    <2>3. UpToDate'
      BY <1>0, <1>4 DEF InitDefaultWorkspace
    <2>4. ServesChecked'
      BY <1>0, <1>4 DEF InitDefaultWorkspace
    <2> QED
      BY <2>1, <2>2, <2>3, <2>4
  <1>5. CASE UpBreaks(c)
    <2>1. DBTypeOK'
      BY <1>b, <1>0, <1>5 DEF UpBreaks
    <2>2. UnderLock'
      BY <1>0, <1>5 DEF UpBreaks
    <2>3. UpToDate'
      BY <1>0, <1>5 DEF UpBreaks
    <2>4. ServesChecked'
      BY <1>0, <1>5 DEF UpBreaks
    <2> QED
      BY <2>1, <2>2, <2>3, <2>4
  <1>6. CASE ResetBegin(c)
    <2>1. DBTypeOK'
      BY <1>b, <1>0, <1>6 DEF ResetBegin, Locked
    <2>2. UnderLock'
      BY <1>0, <1>6 DEF ResetBegin, Locked
    <2>3. UpToDate'
      BY <1>0, <1>6 DEF ResetBegin, Locked
    <2>4. ServesChecked'
      BY <1>0, <1>6 DEF ResetBegin, Locked
    <2> QED
      BY <2>1, <2>2, <2>3, <2>4
  <1>7. CASE DropTable(c)
    <2>1. DBTypeOK'
      BY <1>b, <1>0, <1>7 DEF DropTable
    <2>2. UnderLock'
      BY <1>0, <1>7 DEF DropTable
    <2>3. UpToDate'
      BY <1>0, <1>7 DEF DropTable
    <2>4. ServesChecked'
      BY <1>0, <1>7 DEF DropTable
    <2> QED
      BY <2>1, <2>2, <2>3, <2>4
  <1>8. CASE ResetEnd(c)
    <2>1. DBTypeOK'
      BY <1>b, <1>0, <1>8 DEF ResetEnd
    <2>2. UnderLock'
      BY <1>0, <1>8 DEF ResetEnd
    <2>3. UpToDate'
      BY <1>0, <1>8 DEF ResetEnd
    <2>4. ServesChecked'
      BY <1>0, <1>8 DEF ResetEnd
    <2> QED
      BY <2>1, <2>2, <2>3, <2>4
  <1>9. CASE ResetBreaks(c)
    <2>1. DBTypeOK'
      BY <1>b, <1>0, <1>9 DEF ResetBreaks
    <2>2. UnderLock'
      BY <1>0, <1>9 DEF ResetBreaks
    <2>3. UpToDate'
      BY <1>0, <1>9 DEF ResetBreaks
    <2>4. ServesChecked'
      BY <1>0, <1>9 DEF ResetBreaks
    <2> QED
      BY <2>1, <2>2, <2>3, <2>4
  <1> QED
    BY <1>1, <1>2, <1>3, <1>4, <1>5, <1>6, <1>7, <1>8, <1>9

\* Every step of a node keeps the invariant.
LEMMA NodeStep ==
  ASSUME DBInv, NEW n \in Nodes, Check(n) \/ End(n)
  PROVE  DBInv'
  <1> USE DEF DBInv, DBTypeOK, UnderLock, UpToDate, ServesChecked
  <1>1. CASE Check(n)
    BY <1>1 DEF Check
  <1>2. CASE End(n)
    BY <1>2 DEF End
  <1> QED
    BY <1>1, <1>2

\* The invariant of the commands and the nodes holds in every state.
THEOREM DatabaseInvariance == DBSpec => []DBInv
  <1>1. DBInit => DBInv
    <2> SUFFICES ASSUME DBInit PROVE DBInv
      OBVIOUS
    <2>b. dirty \in BOOLEAN /\ upBroken \in BOOLEAN /\ halfReset \in BOOLEAN
      BY Zenon DEF DBInit
    <2>1. DBTypeOK
      BY <2>b DEF DBInit, DBTypeOK
    <2>2. UnderLock /\ UpToDate /\ ServesChecked
      BY DEF DBInit, UnderLock, UpToDate, ServesChecked, Holding
    <2> QED
      BY <2>1, <2>2 DEF DBInv
  <1>2. DBInv /\ [DBNext]_dbVars => DBInv'
    <2> SUFFICES ASSUME DBInv, [DBNext]_dbVars PROVE DBInv'
      OBVIOUS
    <2>1. CASE DBNext
      BY <2>1, CommandStep, NodeStep DEF DBNext
    <2>2. CASE UNCHANGED dbVars
      BY <2>2 DEF dbVars, DBInv, DBTypeOK, UnderLock, UpToDate, ServesChecked
    <2> QED
      BY <2>1, <2>2
  <1> QED
    BY <1>1, <1>2, PTL DEF DBSpec

\* A node that serves has its default workspace, unless an up is about to insert
\* it or ended before it did, or a reset began under the node or was left
\* half-done (Up, InitDefaultWorkspace, Reset, Start).
THEOREM WorkspaceBeforeService == DBSpec => []ServesDefaultWorkspace
  <1>1. DBInv => ServesDefaultWorkspace
    BY DEF DBInv, UpToDate, ServesChecked, ServesDefaultWorkspace
  <1> QED
    BY DatabaseInvariance, <1>1, PTL

-----------------------------------------------------------------------------
(* Lifecycle *)

\* The stages of stop are distinct.
LEMMA StoppingOrder ==
  /\ Len(Stopping) = 9 /\ DOMAIN Stopping = 1 .. 9
  /\ Stopping[1] = "http" /\ Stopping[2] = "bus" /\ Stopping[3] = "pool"
  /\ Stopping[4] = "logs" /\ Stopping[5] = "breaker" /\ Stopping[6] = "metrics"
  /\ Stopping[7] = "cron" /\ Stopping[8] = "close" /\ Stopping[9] = "exited"
  BY DEF Stopping

\* The stages from the i-th on.
LEMMA AfterStage ==
  ASSUME NEW i \in 1 .. 9
  PROVE  After[Stopping[i]] = {Stopping[k] : k \in i .. 9}
  <1>1. \A j \in 1 .. 9 : Stopping[i] = Stopping[j] => i = j
    BY StoppingOrder
  <1>2. {n \in 1 .. 9 : \E j \in 1 .. n : Stopping[j] = Stopping[i]} = i .. 9
    BY <1>1
  <1>3. Stopping[i] \in Range(Stopping)
    BY StoppingOrder DEF Range
  <1> QED
    BY <1>2, <1>3, StoppingOrder DEF After

\* The stages from each stage of stop on.
LEMMA AfterSets ==
  /\ After["http"] =
        {"http", "bus", "pool", "logs", "breaker", "metrics", "cron", "close", "exited"}
  /\ After["bus"] = {"bus", "pool", "logs", "breaker", "metrics", "cron", "close", "exited"}
  /\ After["pool"] = {"pool", "logs", "breaker", "metrics", "cron", "close", "exited"}
  /\ After["logs"] = {"logs", "breaker", "metrics", "cron", "close", "exited"}
  /\ After["breaker"] = {"breaker", "metrics", "cron", "close", "exited"}
  /\ After["metrics"] = {"metrics", "cron", "close", "exited"}
  /\ After["cron"] = {"cron", "close", "exited"}
  /\ After["close"] = {"close", "exited"}
  <1>1. After["http"] =
           {"http", "bus", "pool", "logs", "breaker", "metrics", "cron", "close", "exited"}
    BY AfterStage, StoppingOrder
  <1>2. After["bus"] =
           {"bus", "pool", "logs", "breaker", "metrics", "cron", "close", "exited"}
    BY AfterStage, StoppingOrder
  <1>3. After["pool"] = {"pool", "logs", "breaker", "metrics", "cron", "close", "exited"}
    BY AfterStage, StoppingOrder
  <1>4. After["logs"] = {"logs", "breaker", "metrics", "cron", "close", "exited"}
    BY AfterStage, StoppingOrder
  <1>5. After["breaker"] = {"breaker", "metrics", "cron", "close", "exited"}
    BY AfterStage, StoppingOrder
  <1>6. After["metrics"] = {"metrics", "cron", "close", "exited"}
    BY AfterStage, StoppingOrder
  <1>7. After["cron"] = {"cron", "close", "exited"}
    BY AfterStage, StoppingOrder
  <1>8. After["close"] = {"close", "exited"}
    BY AfterStage, StoppingOrder
  <1> QED
    BY <1>1, <1>2, <1>3, <1>4, <1>5, <1>6, <1>7, <1>8

\* The successors of the stages of stop.
LEMMA NextStage ==
  ASSUME Advance
  PROVE  /\ (main = "http" => main' = "bus") /\ (main = "bus" => main' = "pool")
         /\ (main = "pool" => main' = "logs") /\ (main = "logs" => main' = "breaker")
         /\ (main = "breaker" => main' = "metrics") /\ (main = "metrics" => main' = "cron")
         /\ (main = "cron" => main' = "close") /\ (main = "close" => main' = "exited")
  BY StoppingOrder DEF Advance

\* Init satisfies the inductive invariant.
LEMMA Initially == Init => IndInv
  <1> SUFFICES ASSUME Init PROVE IndInv
    OBVIOUS
  <1>1. {fetching, fresh, old, flushFailed} \subseteq BOOLEAN
    BY Zenon DEF Init
  <1>2. TypeOK
    BY <1>1 DEF Init, TypeOK, ServiceOrder
  <1>3. NothingDropped
    BY DEF Init, NothingDropped
  <1>4. StaysStopped
    BY AfterSets DEF Init, StaysStopped, Reached
  <1> QED
    BY <1>2, <1>3, <1>4 DEF IndInv

\* Every step keeps the Boolean variables Boolean.
LEMMA BooleanStep ==
  ASSUME TypeOK, [Next]_vars
  PROVE  {fetching, fresh, old, flushFailed}' \subseteq BOOLEAN
  <1> DEFINE Goal == {fetching, fresh, old, flushFailed}'
                        \subseteq BOOLEAN
  <1> USE DEF TypeOK, worker, log, breakers
  <1>1. ASSUME NEW g \in Background, Launch(g) \/ Finish(g) PROVE Goal
    BY <1>1, Zenon DEF Launch, Finish
  <1>2. CASE StartService \/ StartFails \/ Signal \/ BusTurn \/ BusPanics
    BY <1>2, Zenon DEF StartService, StartFails, Signal, BusTurn, BusPanics
  <1>3. CASE Fetch \/ Submit \/ NextSecond \/ BreakerTurn
    BY <1>3, Zenon DEF Fetch, Submit, NextSecond, BreakerTurn
  <1>4. ASSUME NEW s \in Servers, Accept(s) \/ Answer(s) PROVE Goal
    BY <1>4, Zenon DEF Accept, Answer
  <1>5. ASSUME NEW h \in Handlers, Take(h) \/ Quit(h) \/ Deliver(h) \/ Add(h) \/ Retry(h)
        PROVE  Goal
    BY <1>5, Zenon DEF Take, Quit, Deliver, Add, Retry
  <1>6. ASSUME NEW f \in Flushers, Flush(f) PROVE Goal
    BY <1>6, Zenon DEF Flush
  <1>7. ASSUME NEW j \in Jobs, RunJob(j) \/ EndJob(j) PROVE Goal
    BY <1>7, Zenon DEF RunJob, EndJob
  <1>8. ASSUME NEW c \in {"http", "all"}, Expire(c) PROVE Goal
    BY <1>8, Zenon DEF Expire
  <1>9. CASE Stop
    BY <1>9, Zenon DEF Stop, StopHttp, StopBus, StopPool, StopLogs, StopBreaker, StopMetrics,
                       StopCron, CloseDB
  <1>10. CASE UNCHANGED vars
    BY <1>10, Zenon DEF vars
  <1> QED
    BY <1>1, <1>2, <1>3, <1>4, <1>5, <1>6, <1>7, <1>8, <1>9, <1>10, Zenon DEF Next

\* What a flush does: details are taken from the channel, and stay in the buffer
\* or go with it into a batch.
FlushedAs(f, taken, batch) ==
    /\ logs' = logs \ taken
    /\ \/ /\ buffer' = [buffer EXCEPT ![f] = buffer[f] \cup taken]
          /\ UNCHANGED <<written, failed>>
       \/ /\ batch = buffer[f] \cup taken
          /\ buffer' = [buffer EXCEPT ![f] = {}]
          /\ \/ written' = written \cup batch /\ failed' = failed
             \/ failed' = failed \cup batch /\ written' = written

\* A step of a flusher takes at most one detail and inserts its buffer or not.
LEMMA FlushIs ==
  ASSUME TypeOK, NEW f \in Flushers, Flush(f)
  PROVE  \E taken \in SUBSET logs, batch \in SUBSET (1 .. handed) : FlushedAs(f, taken, batch)
  <1>0. buffer[f] \subseteq 1 .. handed /\ logs \subseteq 1 .. handed
    BY DEF TypeOK
  <1>1. CASE buffer[f] # {} /\ Insert(f, buffer[f]) /\ UNCHANGED logs
    <2>1. FlushedAs(f, {}, buffer[f] \cup {})
      BY <1>1 DEF FlushedAs, Insert
    <2> QED
      BY <1>0, <2>1
  <1>2. ASSUME NEW d \in logs,
               logs' = logs \ {d},
               IF Cardinality(buffer[f]) + 1 < BatchSize
               THEN /\ buffer' = [buffer EXCEPT ![f] = @ \cup {d}]
                    /\ UNCHANGED <<written, failed>>
               ELSE Insert(f, buffer[f] \cup {d})
        PROVE  \E taken \in SUBSET logs, batch \in SUBSET (1 .. handed) : FlushedAs(f, taken, batch)
    <2>1. FlushedAs(f, {d}, buffer[f] \cup {d})
      BY <1>2 DEF FlushedAs, Insert
    <2>2. {d} \in SUBSET logs /\ buffer[f] \cup {d} \in SUBSET (1 .. handed)
      BY <1>0
    <2> QED
      BY <2>1, <2>2
  <1> QED
    BY <1>1, <1>2 DEF Flush

\* Every step keeps the types.
LEMMA TypeStep == TypeOK /\ [Next]_vars => TypeOK'
  <1> SUFFICES ASSUME TypeOK, [Next]_vars PROVE TypeOK'
    OBVIOUS
  <1>0. {fetching, fresh, old, flushFailed}' \subseteq BOOLEAN
    BY BooleanStep
  <1>a. Range(Stopping) = {"http", "bus", "pool", "logs", "breaker", "metrics", "cron", "close",
                           "exited"}
        /\ Len(ServiceOrder) = 8
    BY StoppingOrder DEF Range, ServiceOrder
  <1> USE DEF TypeOK, worker, log, breakers
  <1>1. ASSUME NEW g \in Background, Launch(g) \/ Finish(g) PROVE TypeOK'
    <2>1. background' \subseteq Background
      BY <1>1 DEF Launch, Finish
    <2>2. UNCHANGED <<db, main, started, expired, inflight, loop, pool, tasks, handler, log,
                      breaker, job>>
      BY <1>1, Zenon DEF Launch, Finish
    <2> QED
      BY <1>0, <2>1, <2>2
  <1>2. CASE StartFails \/ Signal
    BY <1>0, <1>2, <1>a DEF StartFails, Signal, Ended
  <1>3. CASE StartService
    <2>1. started' \in 0 .. Len(ServiceOrder)
      BY <1>3, <1>a DEF StartService
    <2>2. /\ main' \in {main, "running"} /\ loop' \in {loop, "waiting"}
          /\ handler' \in {handler, [h \in Handlers |-> "idle"]}
          /\ breaker' \in {breaker, "running"}
      BY <1>3 DEF StartService
    <2>3. UNCHANGED <<db, expired, inflight, background, pool, tasks, log, job>>
      BY <1>3 DEF StartService
    <2> QED
      BY <1>0, <2>1, <2>2, <2>3
  <1>4. CASE BusTurn \/ BusPanics
    BY <1>0, <1>4 DEF BusTurn, BusPanics, Ended
  <1>5. CASE Fetch \/ Submit \/ NextSecond
    <2>1. pool' \in 0 .. PoolSize /\ tasks' \in 0 .. MaxTasks
      BY <1>5 DEF Fetch, Submit, NextSecond
    <2> QED
      BY <1>0, <1>5, <2>1 DEF Fetch, Submit, NextSecond
  <1>6. CASE BreakerTurn
    BY <1>0, <1>6 DEF BreakerTurn
  <1>7. ASSUME NEW s \in Servers, Accept(s) \/ Answer(s) PROVE TypeOK'
    <2>1. CASE Accept(s) BY <1>0, <2>1 DEF Accept
    <2>2. CASE Answer(s) BY <1>0, <2>2, SMTT(30) DEF Answer
    <2> QED BY <1>7, <2>1, <2>2
  <1>8. ASSUME NEW h \in Handlers, Take(h) \/ Quit(h) \/ Deliver(h) \/ Add(h) \/ Retry(h)
        PROVE  TypeOK'
    <2>1. handler' \in [Handlers -> {"off", "idle", "deliver", "add", "retry"}]
      BY <1>8 DEF Take, Quit, Deliver, Add, Retry, Goto
    <2>2. pool' \in 0 .. PoolSize
      BY <1>8 DEF Take, Quit, Deliver, Add, Retry
    <2>3. UNCHANGED <<db, main, started, expired, inflight, loop, background, tasks, buffer,
                      written, failed, breaker, job>>
      BY <1>8, Zenon DEF Take, Quit, Deliver, Add, Retry
    <2>4. \/ UNCHANGED <<handed, logs>>
          \/ handed' = handed + 1 /\ logs' = logs \cup {handed'}
      BY <1>8, Zenon DEF Take, Quit, Deliver, Add, Retry
    <2>5. handed' \in Nat /\ 1 .. handed \subseteq 1 .. handed' /\ logs' \subseteq 1 .. handed'
      BY <2>4
    <2>6. /\ {logs, written, failed}' \subseteq SUBSET (1 .. handed')
          /\ buffer' \in [Flushers -> SUBSET (1 .. handed')]
      BY <2>3, <2>5
    <2> QED
      BY <1>0, <2>1, <2>2, <2>3, <2>5, <2>6
  <1>9. ASSUME NEW f \in Flushers, Flush(f) PROVE TypeOK'
    <2>1. UNCHANGED <<db, main, started, expired, inflight, loop, background, pool, tasks, handler,
                      handed, breaker, job>>
      BY <1>9, Zenon DEF Flush
    <2>2. PICK taken \in SUBSET logs, batch \in SUBSET (1 .. handed) : FlushedAs(f, taken, batch)
      BY <1>9, FlushIs
    <2>3. {logs, written, failed}' \subseteq SUBSET (1 .. handed)
      BY <2>2 DEF FlushedAs
    <2>4. buffer' \in [Flushers -> SUBSET (1 .. handed)]
      BY <2>2 DEF FlushedAs
    <2> QED
      BY <1>0, <2>1, <2>3, <2>4
  <1>10. ASSUME NEW j \in Jobs, RunJob(j) \/ EndJob(j) PROVE TypeOK'
    <2>1. job' \in [Jobs -> BOOLEAN]
      <3>1. job' = [job EXCEPT ![j] = TRUE] \/ job' = [job EXCEPT ![j] = FALSE]
        BY <1>10, Zenon DEF RunJob, EndJob
      <3> QED
        BY <3>1
    <2>2. UNCHANGED <<db, main, started, expired, inflight, loop, background, pool, tasks,
                      handler, log, breaker>>
      BY <1>10, Zenon DEF RunJob, EndJob
    <2> QED
      BY <1>0, <2>1, <2>2
  <1>11. ASSUME NEW c \in {"http", "all"}, Expire(c) PROVE TypeOK'
    BY <1>0, <1>11 DEF Expire
  <1>12. CASE Stop
    BY <1>0, <1>12, <1>a, NextStage
    DEF Stop, StopHttp, StopBus, StopPool, StopLogs, StopBreaker, StopMetrics, StopCron, CloseDB
  <1>13. CASE UNCHANGED vars
    BY <1>0, <1>13 DEF vars
  <1> QED
    BY <1>1, <1>2, <1>3, <1>4, <1>5, <1>6, <1>7, <1>8, <1>9, <1>10, <1>11, <1>12, <1>13 DEF Next

\* A step changes the details that are on their way only where one is handed over
\* or flushed.
LEMMA LogSteps ==
  ASSUME [Next]_vars
  PROVE  \/ UNCHANGED log
         \/ \E h \in Handlers : Add(h)
         \/ \E f \in Flushers : Flush(f)
  <1> DEFINE Goal == \/ UNCHANGED log
                     \/ \E h \in Handlers : Add(h)
                     \/ \E f \in Flushers : Flush(f)
  <1>1. ASSUME NEW g \in Background, Launch(g) \/ Finish(g) PROVE Goal
    BY <1>1, Zenon DEF Launch, Finish
  <1>2. CASE StartService \/ StartFails \/ Signal \/ BusTurn \/ BusPanics
    BY <1>2, Zenon DEF StartService, StartFails, Signal, BusTurn, BusPanics
  <1>3. CASE Fetch \/ Submit \/ NextSecond \/ BreakerTurn
    BY <1>3, Zenon DEF Fetch, Submit, NextSecond, BreakerTurn
  <1>4. ASSUME NEW s \in Servers, Accept(s) \/ Answer(s) PROVE Goal
    BY <1>4, Zenon DEF Accept, Answer
  <1>5. ASSUME NEW h \in Handlers, Take(h) \/ Quit(h) \/ Deliver(h) \/ Retry(h)
        PROVE  Goal
    BY <1>5, Zenon DEF Take, Quit, Deliver, Retry
  <1>6. ASSUME NEW j \in Jobs, RunJob(j) \/ EndJob(j) PROVE Goal
    BY <1>6, Zenon DEF RunJob, EndJob
  <1>7. ASSUME NEW c \in {"http", "all"}, Expire(c) PROVE Goal
    BY <1>7, Zenon DEF Expire
  <1>8. CASE Stop
    BY <1>8, Zenon DEF Stop, StopHttp, StopBus, StopPool, StopLogs, StopBreaker, StopMetrics,
                       StopCron, CloseDB
  <1>9. CASE UNCHANGED vars
    BY <1>9, Zenon DEF vars
  <1> QED
    BY <1>1, <1>2, <1>3, <1>4, <1>5, <1>6, <1>7, <1>8, <1>9, Zenon DEF Next

\* Every step keeps every detail that was handed over.
LEMMA DroppedStep == TypeOK /\ NothingDropped /\ [Next]_vars => NothingDropped'
  <1> SUFFICES ASSUME TypeOK, NothingDropped, [Next]_vars PROVE NothingDropped'
    OBVIOUS
  <1>0. /\ handed \in Nat /\ buffer \in [Flushers -> SUBSET (1 .. handed)]
        /\ logs \subseteq 1 .. handed
    BY DEF TypeOK
  <1>1. CASE UNCHANGED log
    BY <1>1 DEF log, NothingDropped
  <1>2. ASSUME NEW h \in Handlers, Add(h) PROVE NothingDropped'
    <2>1. /\ UNCHANGED <<buffer, written, failed>>
          /\ handed' = handed + 1 /\ logs' = logs \cup {handed'}
      BY <1>2, Zenon DEF Add
    <2>2. 1 .. handed' = (1 .. handed) \cup {handed'}
      BY <1>0, <2>1
    <2> QED
      BY <2>1, <2>2 DEF NothingDropped
  <1>3. ASSUME NEW f \in Flushers, Flush(f) PROVE NothingDropped'
    <2>1. PICK taken \in SUBSET logs, batch \in SUBSET (1 .. handed) : FlushedAs(f, taken, batch)
      BY <1>3, FlushIs
    <2>2. UNCHANGED handed
      BY <1>3, Zenon DEF Flush
    <2>3. CASE /\ buffer' = [buffer EXCEPT ![f] = buffer[f] \cup taken]
               /\ UNCHANGED <<written, failed>>
      <3>1. UNION {buffer'[g] : g \in Flushers} = (UNION {buffer[g] : g \in Flushers}) \cup taken
        BY <1>0, <2>3
      <3> QED
        BY <2>1, <2>2, <2>3, <3>1 DEF FlushedAs, NothingDropped
    <2>4. CASE /\ batch = buffer[f] \cup taken
               /\ buffer' = [buffer EXCEPT ![f] = {}]
               /\ \/ written' = written \cup batch /\ failed' = failed
                  \/ failed' = failed \cup batch /\ written' = written
      <3>1. batch \cup UNION {buffer'[g] : g \in Flushers}
               = (UNION {buffer[g] : g \in Flushers}) \cup taken
        BY <1>0, <2>4
      <3>2. written' \cup failed' = written \cup failed \cup batch
        BY <2>4
      <3> QED
        BY <2>1, <2>2, <3>1, <3>2 DEF FlushedAs, NothingDropped
    <2> QED
      BY <2>1, <2>3, <2>4 DEF FlushedAs
  <1> QED
    BY <1>1, <1>2, <1>3, LogSteps

\* Every step keeps stopped what has been stopped.
LEMMA StoppedStep == IndInv /\ [Next]_vars => StaysStopped'
  <1> SUFFICES ASSUME IndInv, [Next]_vars PROVE StaysStopped'
    OBVIOUS
  <1>0. TypeOK /\ StaysStopped
    BY DEF IndInv
  <1>a. /\ inflight \in [Servers -> 0 .. MaxInflight]
        /\ handler \in [Handlers -> {"off", "idle", "deliver", "add", "retry"}]
        /\ job \in [Jobs -> BOOLEAN]
    BY <1>0 DEF TypeOK
  <1> USE AfterSets DEF StaysStopped, Reached, worker, log, breakers
  \* Before "stop" nothing has been stopped.
  <1>1. ASSUME main \notin {"http", "bus", "pool", "logs", "breaker", "metrics", "cron", "close",
                            "exited"},
               main' \notin {"bus", "pool", "logs", "breaker", "metrics", "cron", "close",
                             "exited"},
               UNCHANGED db
        PROVE  StaysStopped'
    BY <1>0, <1>1
  <1>2. ASSUME NEW g \in Background, Launch(g) \/ Finish(g) PROVE StaysStopped'
    <2>1. UNCHANGED <<main, expired, inflight, handler, logs, buffer, old, flushFailed, job, db>>
      BY <1>2, Zenon DEF Launch, Finish
    <2> QED
      BY <1>0, <2>1
  <1>3. CASE StartService \/ StartFails \/ Signal
    <2>1. /\ main \in {"starting", "running"}
          /\ main' \in {"starting", "running", "failed", "http"}
          /\ UNCHANGED db
      BY <1>3 DEF StartService, StartFails, Signal
    <2> QED
      BY <1>1, <2>1
  <1>4. CASE BusPanics
    <2>1. main' = "crashed" /\ UNCHANGED db /\ db # "closed"
      BY <1>0, <1>4 DEF BusPanics, Alive, Ended
    <2> QED
      BY <2>1
  <1>5. CASE BusTurn \/ Fetch \/ Submit
    <2>1. UNCHANGED <<main, expired, inflight, handler, logs, buffer, old, flushFailed, job, db>>
      BY <1>5, Zenon DEF BusTurn, Fetch, Submit
    <2> QED
      BY <1>0, <2>1
  <1>6. CASE NextSecond \/ BreakerTurn
    <2>1. UNCHANGED <<main, expired, inflight, handler, logs, buffer, flushFailed, job, db>>
      BY <1>6, Zenon DEF NextSecond, BreakerTurn
    <2>2. Reached("metrics") => old' = old \/ old' = FALSE
      BY <1>6, Zenon DEF NextSecond, BreakerTurn
    <2>3. Reached("metrics") => (old' => flushFailed)
      BY <1>0, <2>2
    <2> QED
      BY <1>0, <2>1, <2>3
  <1>7. ASSUME NEW s \in Servers, Accept(s) \/ Answer(s) PROVE StaysStopped'
    <2>1. UNCHANGED <<main, expired, handler, logs, buffer, old, flushFailed, job, db>>
      BY <1>7, Zenon DEF Accept, Answer
    <2>2. Reached("bus") /\ expired = {} => \A r \in Servers : inflight'[r] = 0
      BY <1>0, <1>7, <1>a DEF Accept, Answer, Listening
    <2> QED
      BY <1>0, <2>1, <2>2
  <1>8. ASSUME NEW h \in Handlers, Take(h) \/ Quit(h) \/ Deliver(h) \/ Add(h) \/ Retry(h)
        PROVE  StaysStopped'
    <2>1. UNCHANGED <<main, expired, inflight, buffer, old, flushFailed, job, db>>
      BY <1>8, Zenon DEF Take, Quit, Deliver, Add, Retry
    <2>2. ~Reached("logs")
      BY <1>0, <1>8 DEF Take, Quit, Deliver, Add, Retry
    <2> QED
      BY <1>0, <2>1, <2>2
  <1>9. ASSUME NEW f \in Flushers, Flush(f) PROVE StaysStopped'
    <2>1. UNCHANGED <<main, expired, inflight, handler, old, flushFailed, job, db>>
      BY <1>9, Zenon DEF Flush
    <2>2. ~Reached("breaker")
      BY <1>0, <1>9 DEF Flush
    <2> QED
      BY <1>0, <2>1, <2>2
  <1>10. ASSUME NEW j \in Jobs, RunJob(j) \/ EndJob(j) PROVE StaysStopped'
    <2>1. UNCHANGED <<main, expired, inflight, handler, logs, buffer, old, flushFailed, db>>
      BY <1>10, Zenon DEF RunJob, EndJob
    <2>2. Reached("close") => EndJob(j)
      BY <1>10 DEF RunJob
    <2>3. EndJob(j) => \A k \in Jobs : job'[k] => job[k]
      BY <1>a, Zenon DEF EndJob
    <2> QED
      BY <1>0, <2>1, <2>2, <2>3
  <1>11. ASSUME NEW c \in {"http", "all"}, Expire(c) PROVE StaysStopped'
    <2>1. UNCHANGED <<main, inflight, handler, logs, buffer, old, flushFailed, job, db>>
      BY <1>11, Zenon DEF Expire
    <2>2. expired' = expired \cup {c}
      BY <1>11 DEF Expire
    <2> QED
      BY <1>0, <2>1, <2>2
  <1>12. CASE StopHttp \/ StopBus \/ StopPool \/ StopLogs \/ StopMetrics \/ StopCron
    <2>1. UNCHANGED <<expired, inflight, handler, logs, buffer, old, flushFailed, job, db>>
      BY <1>12, Zenon DEF StopHttp, StopBus, StopPool, StopLogs, StopMetrics, StopCron
    <2>2. CASE StopHttp BY <1>0, <2>1, <2>2, NextStage DEF StopHttp
    <2>3. CASE StopBus BY <1>0, <2>1, <2>3, NextStage DEF StopBus
    <2>4. CASE StopPool BY <1>0, <2>1, <2>4, NextStage DEF StopPool
    <2>5. CASE StopLogs BY <1>0, <2>1, <2>5, NextStage DEF StopLogs
    <2>6. CASE StopMetrics BY <1>0, <2>1, <2>6, NextStage DEF StopMetrics
    <2>7. CASE StopCron BY <1>0, <2>1, <2>7, NextStage DEF StopCron
    <2> QED
      BY <1>12, <2>2, <2>3, <2>4, <2>5, <2>6, <2>7
  <1>13. CASE StopBreaker
    <2>1. UNCHANGED <<expired, inflight, handler, logs, buffer, job, db>>
      BY <1>13, Zenon DEF StopBreaker
    <2>2. old' => flushFailed'
      BY <1>13, Zenon DEF StopBreaker
    <2> QED
      BY <1>0, <1>13, <2>1, <2>2, NextStage DEF StopBreaker
  <1>14. CASE CloseDB
    <2>1. UNCHANGED <<expired, inflight, handler, logs, buffer, old, flushFailed, job>>
      BY <1>14, Zenon DEF CloseDB
    <2> QED
      BY <1>0, <1>14, <2>1, NextStage DEF CloseDB
  <1>15. CASE UNCHANGED vars
    <2>1. UNCHANGED <<main, expired, inflight, handler, logs, buffer, old, flushFailed, job, db>>
      BY <1>15, Zenon DEF vars
    <2> QED
      BY <1>0, <2>1
  <1> QED
    BY <1>2, <1>3, <1>4, <1>5, <1>6, <1>7, <1>8, <1>9, <1>10, <1>11, <1>12, <1>13, <1>14, <1>15,
       Zenon
    DEF Next, Stop

\* The inductive invariant holds in every state.
THEOREM Invariance == Spec => []IndInv
  <1>1. IndInv /\ [Next]_vars => IndInv'
    BY TypeStep, DroppedStep, StoppedStep DEF IndInv
  <1> QED
    BY Initially, <1>1, PTL DEF Spec

\* stop closes the queue of request logs when no handler can add to it, and the
\* database when neither handlers nor flushers use it; only jobs and requests that
\* outlasted their context and the goroutines it does not wait for may.
THEOREM ClosedAfterUse == Spec => []ResourcesOutliveUsers
  <1>1. IndInv => ResourcesOutliveUsers
    <2> SUFFICES ASSUME IndInv PROVE ResourcesOutliveUsers
      OBVIOUS
    <2> USE AfterSets DEF Reached
    <2>1. Reached("logs") => \A h \in Handlers : handler[h] = "off"
      BY DEF IndInv, StaysStopped
    <2>2. ASSUME db = "closed"
          PROVE  Users \subseteq Background \cup {"job" : c \in expired \cap {"all"}}
                                         \cup {"request" : c \in expired}
      <3>1. main = "exited"
        BY <2>2 DEF IndInv, StaysStopped
      <3>2. {"handler" : h \in {x \in Handlers : handler[x] # "off"}} = {}
        BY <2>1, <3>1
      <3>3. {"flusher" : f \in {x \in Flushers : buffer[x] \cup logs # {}}} = {}
        BY <3>1 DEF IndInv, StaysStopped
      <3>4. {"job" : j \in {x \in Jobs : job[x]}} \subseteq {"job" : c \in expired \cap {"all"}}
        BY <3>1 DEF IndInv, StaysStopped
      <3>5. {"request" : s \in {x \in Servers : inflight[x] > 0}}
               \subseteq {"request" : c \in expired}
        <4>1. expired # {} \/ \A s \in Servers : inflight[s] = 0
          BY <3>1 DEF IndInv, StaysStopped
        <4> QED
          BY <4>1
      <3>6. background \subseteq Background
        BY DEF IndInv, TypeOK
      <3> QED
        BY <3>2, <3>3, <3>4, <3>5, <3>6 DEF Users
    <2> QED
      BY <2>1, <2>2 DEF ResourcesOutliveUsers
  <1> QED
    BY Invariance, <1>1, PTL

\* A node that ends in order has tried to insert every request log that was handed
\* over, and has flushed its circuit breakers but for their last second, unless
\* the last flush failed.
THEOREM WrittenAtExit == Spec => []HandedOverIsWritten
  <1>1. IndInv => HandedOverIsWritten
    <2> SUFFICES ASSUME IndInv, main = "exited"
                 PROVE  1 .. handed = written \cup failed /\ (old => flushFailed)
      BY DEF HandedOverIsWritten
    <2>1. /\ logs = {} /\ \A f \in Flushers : buffer[f] = {}
          /\ old => flushFailed
      BY AfterSets DEF IndInv, StaysStopped, Reached
    <2>2. UNION {buffer[f] : f \in Flushers} = {}
      BY <2>1
    <2> QED
      BY <2>1, <2>2 DEF IndInv, NothingDropped
  <1> QED
    BY Invariance, <1>1, PTL
=============================================================================
