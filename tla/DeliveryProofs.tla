--------------------------- MODULE DeliveryProofs ---------------------------
(***************************************************************************)
(* Theorems about Delivery, for any number of attempts, gateways, nodes,   *)
(* consumers and faults.                                                   *)
(***************************************************************************)
EXTENDS Delivery, TLAPS

\* Every variable keeps its type: the first conjunct of the inductive invariant.
LEMMA TypeInit == Init => TypeOK
BY DeliveryAssumption
DEF Init, QInit, TypeOK, QTypeOK, EntryStates, Statuses, PCs, Results, NoResult, Procs

\* What an attempt comes to is a result that UpdateDelivery can store, and one
\* that does not end the chain means that a retry delay is left.
LEMMA AnswersAreResults ==
    ASSUME NEW n \in Nat, NEW a \in Answers(n)
    PROVE  /\ a \in Results
           /\ a.status # "none"
           /\ Retries(a) => \E len \in RetryLengths : n < len
<1> USE DeliveryAssumption
<1>1. CASE a = [status |-> "FAILED", exhausted |-> TRUE]
  BY <1>1 DEF Results, Retries
<1>2. CASE a \in [status : {"SUCCESSFUL", "FAILED"},
                 exhausted : {IsExhausted(n, len) : len \in RetryLengths}]
  <2>1. PICK len \in RetryLengths : a.exhausted = IsExhausted(n, len)
    BY <1>2
  <2>2. len \in Nat /\ a.exhausted \in BOOLEAN
    BY <2>1 DEF IsExhausted
  <2>3. a = [status |-> a.status, exhausted |-> a.exhausted]
    BY <1>2
  <2>4. a.status \in {"SUCCESSFUL", "FAILED"}
    BY <1>2
  <2>5. a \in Results
    BY <2>2, <2>3, <2>4 DEF Results
  <2>6. ~a.exhausted => n < len
    <3>1. CASE n < len
      BY <3>1
    <3>2. CASE ~(n < len)
      <4>1. n >= len
        BY <2>2, <3>2
      <4>2. IsExhausted(n, len)
        BY <4>1 DEF IsExhausted
      <4>3. a.exhausted
        BY <4>2, <2>1, Zenon
      <4>4. QED
        BY <4>3, Zenon
    <3>3. QED
      BY <3>1, <3>2
  <2>7. QED
    BY <2>4, <2>5, <2>6 DEF Retries
<1>3. QED
  BY <1>1, <1>2 DEF Answers

\* TypeOK is preserved by every step.
LEMMA TypeStep ==
    ASSUME TypeOK, [Next]_vars
    PROVE  TypeOK'
<1> USE DeliveryAssumption
<1> USE DEF TypeOK, QTypeOK, EntryStates, Placed, Statuses, Terminal, PCs,
        SchedulePCs, RequeuePCs, HolderPCs, Procs, Results, NoResult, Fresh,
        qvars, rows, procs, hist
<1>1. ASSUME NEW p \in Producers, Dispatch(p) PROVE TypeOK'
  BY <1>1 DEF Dispatch, InsertRows, Call
<1>2. ASSUME NEW p \in Producers, Fanout(p) PROVE TypeOK'
  BY <1>2 DEF Fanout, Call
<1>3. CASE CreateEvent
  BY <1>3 DEF CreateEvent, InsertRows
<1>4. ASSUME NEW p \in Procs, AddData(p) PROVE TypeOK'
  BY <1>4 DEF AddData, PutData
<1>5. ASSUME NEW p \in Procs, AddEntry(p) PROVE TypeOK'
  BY <1>5 DEF AddEntry, PutEntry
<1>6. ASSUME NEW p \in Procs, UpdateStatusToQueued(p) PROVE TypeOK'
  BY <1>6 DEF UpdateStatusToQueued, MarkRows, Return
<1>7. ASSUME NEW p \in Procs, ScheduleFails(p) PROVE TypeOK'
  BY <1>7 DEF ScheduleFails, Return
<1>8. ASSUME NEW q \in Requeuers, LoadPending(q) PROVE TypeOK'
  BY <1>8 DEF LoadPending, Call
<1>9. ASSUME NEW q \in Requeuers, MarkInTransaction(q) PROVE TypeOK'
  BY <1>9 DEF MarkInTransaction
<1>10. ASSUME NEW q \in Requeuers, Commit(q) PROVE TypeOK'
  BY <1>10 DEF Commit, Release
<1>11. ASSUME NEW q \in Requeuers, Rollback(q) PROVE TypeOK'
  BY <1>11 DEF Rollback, Release
<1>12. ASSUME NEW h \in Holders, NEW t \in Tasks, Fetch(h, t) PROVE TypeOK'
  BY <1>12 DEF Fetch, Lease
<1>13. ASSUME NEW h \in Holders, Submit(h) PROVE TypeOK'
  BY <1>13 DEF Submit, Goto
<1>14. ASSUME NEW h \in Holders, SubmitTimeout(h) PROVE TypeOK'
  BY <1>14 DEF SubmitTimeout, PutEntry, Finish
<1>14a. ASSUME NEW h \in Holders, SubmitTerminated(h) PROVE TypeOK'
  BY <1>14a DEF SubmitTerminated, PutEntry, Finish
<1>15. ASSUME NEW h \in Holders, Consume(h) PROVE TypeOK'
  BY <1>15 DEF Consume, Goto
<1>16. ASSUME NEW h \in Holders, RejectEndpoint(h) PROVE TypeOK'
  BY <1>16 DEF RejectEndpoint, Goto
<1>17. ASSUME NEW h \in Holders, UpdateErrorCode(h) PROVE TypeOK'
  BY <1>17 DEF UpdateErrorCode, Goto
<1>18. ASSUME NEW h \in Holders, RateLimited(h) PROVE TypeOK'
  BY <1>18 DEF RateLimited, Goto
<1>19. ASSUME NEW h \in Holders, ScheduleTask(h) PROVE TypeOK'
  BY <1>19 DEF ScheduleTask, PutEntry, Finish
<1>20. ASSUME NEW h \in Holders, Admit(h) PROVE TypeOK'
  BY <1>20 DEF Admit, Goto
<1>21. ASSUME NEW h \in Holders, Send(h) PROVE TypeOK'
  <2>1. job[h] \in Tasks /\ number[job[h]] \in Nat
    BY <1>21 DEF Send
  <2>2. PICK a \in Answers(number[job[h]]) : result' = [result EXCEPT ![h] = a]
    BY <1>21 DEF Send
  <2>3. a \in Results
    BY <2>1, <2>2, AnswersAreResults
  <2>4. result' \in [Holders -> Results]
    BY <2>2, <2>3
  <2>5. sends' \in [Tasks -> 0 .. 2]
    BY <1>21, <2>1 DEF Send
  <2>6. QED
    BY <1>21, <2>1, <2>4, <2>5 DEF Send, Goto
<1>22. ASSUME NEW h \in Holders, UpdateDelivery(h) PROVE TypeOK'
  BY <1>22 DEF UpdateDelivery, Goto
<1>23. ASSUME NEW h \in Holders, InsertNext(h) PROVE TypeOK'
  BY <1>23 DEF InsertNext, InsertRows, Call
<1>24. ASSUME NEW h \in Holders, InsertFails(h) PROVE TypeOK'
  BY <1>24 DEF InsertFails, Finish
<1>25. ASSUME NEW h \in Holders, DeleteData(h) PROVE TypeOK'
  BY <1>25 DEF DeleteData, DropData, Goto
<1>26. ASSUME NEW h \in Holders, DeleteEntry(h) PROVE TypeOK'
  BY <1>26 DEF DeleteEntry, DropEntry, Finish
<1>27. ASSUME NEW h \in Holders, Abandon(h) PROVE TypeOK'
  BY <1>27 DEF Abandon, Finish
<1>28. ASSUME NEW t \in Tasks, TimeOut(t) PROVE TypeOK'
  BY <1>28 DEF TimeOut, Elapse
<1>29. ASSUME NEW t \in Tasks, Approach(t) PROVE TypeOK'
  BY <1>29 DEF Approach
<1>30. ASSUME NEW t \in Tasks, DeleteTTL(t) PROVE TypeOK'
  BY <1>30 DEF DeleteTTL
<1>31. CASE UNCHANGED vars
  BY <1>31 DEF vars
<1>32. QED
  BY <1>1, <1>2, <1>3, <1>4, <1>5, <1>6, <1>7, <1>8, <1>9, <1>10, <1>11,
     <1>12, <1>13, <1>14, <1>14a, <1>15, <1>16, <1>17, <1>18, <1>19, <1>20, <1>21,
     <1>22, <1>23, <1>24, <1>25, <1>26, <1>27, <1>28, <1>29, <1>30, <1>31
  DEF Next, HolderStep, ScheduleStep

-----------------------------------------------------------------------------
\* No step takes a settled attempt back: the updates of a holder write terminal
\* statuses, MarkRows only touches INIT rows, and a commit only the rows that
\* RowLocks says are still INIT.
LEMMA SettledStep ==
    ASSUME TypeOK, HolderKnows, RowLocks, [Next]_vars
    PROVE  \A t \in Tasks : Settled(t) => Settled(t)'
<1> DEFINE Goal == \A t \in Tasks : Settled(t) => Settled(t)'
<1> USE DEF TypeOK, Settled, Terminal, Fresh, qvars, rows, procs, hist
<1>1. ASSUME NEW p \in Producers, Dispatch(p) PROVE Goal
  BY <1>1 DEF Dispatch, InsertRows, Call
<1>2. ASSUME NEW p \in Producers, Fanout(p) PROVE Goal
  BY <1>2 DEF Fanout, Call
<1>3. CASE CreateEvent
  BY <1>3 DEF CreateEvent, InsertRows
<1>4. ASSUME NEW p \in Procs, AddData(p) PROVE Goal
  BY <1>4 DEF AddData, PutData
<1>5. ASSUME NEW p \in Procs, AddEntry(p) PROVE Goal
  BY <1>5 DEF AddEntry, PutEntry
<1>6. ASSUME NEW p \in Procs, UpdateStatusToQueued(p) PROVE Goal
  BY <1>6 DEF UpdateStatusToQueued, MarkRows, Return
<1>7. ASSUME NEW p \in Procs, ScheduleFails(p) PROVE Goal
  BY <1>7 DEF ScheduleFails, Return
<1>8. ASSUME NEW q \in Requeuers, LoadPending(q) PROVE Goal
  BY <1>8 DEF LoadPending, Call
<1>9. ASSUME NEW q \in Requeuers, MarkInTransaction(q) PROVE Goal
  BY <1>9 DEF MarkInTransaction
<1>10. ASSUME NEW q \in Requeuers, Commit(q) PROVE Goal
  BY <1>10 DEF Commit, Release, RowLocks
<1>11. ASSUME NEW q \in Requeuers, Rollback(q) PROVE Goal
  BY <1>11 DEF Rollback, Release
<1>12. ASSUME NEW h \in Holders, NEW t \in Tasks, Fetch(h, t) PROVE Goal
  BY <1>12 DEF Fetch, Lease
<1>13. ASSUME NEW h \in Holders, Submit(h) PROVE Goal
  BY <1>13 DEF Submit, Goto
<1>14. ASSUME NEW h \in Holders, SubmitTimeout(h) PROVE Goal
  BY <1>14 DEF SubmitTimeout, PutEntry, Finish
<1>14a. ASSUME NEW h \in Holders, SubmitTerminated(h) PROVE Goal
  BY <1>14a DEF SubmitTerminated, PutEntry, Finish
<1>15. ASSUME NEW h \in Holders, Consume(h) PROVE Goal
  BY <1>15 DEF Consume, Goto
<1>16. ASSUME NEW h \in Holders, RejectEndpoint(h) PROVE Goal
  BY <1>16 DEF RejectEndpoint, Goto
<1>17. ASSUME NEW h \in Holders, UpdateErrorCode(h) PROVE Goal
  BY <1>17 DEF UpdateErrorCode, Goto
<1>18. ASSUME NEW h \in Holders, RateLimited(h) PROVE Goal
  BY <1>18 DEF RateLimited, Goto
<1>19. ASSUME NEW h \in Holders, ScheduleTask(h) PROVE Goal
  BY <1>19 DEF ScheduleTask, PutEntry, Finish
<1>20. ASSUME NEW h \in Holders, Admit(h) PROVE Goal
  BY <1>20 DEF Admit, Goto
<1>21. ASSUME NEW h \in Holders, Send(h) PROVE Goal
  BY <1>21 DEF Send, Goto
<1>22. ASSUME NEW h \in Holders, UpdateDelivery(h) PROVE Goal
  BY <1>22 DEF UpdateDelivery, Goto, HolderKnows, Results
<1>23. ASSUME NEW h \in Holders, InsertNext(h) PROVE Goal
  BY <1>23 DEF InsertNext, InsertRows, Call
<1>24. ASSUME NEW h \in Holders, InsertFails(h) PROVE Goal
  BY <1>24 DEF InsertFails, Finish
<1>25. ASSUME NEW h \in Holders, DeleteData(h) PROVE Goal
  BY <1>25 DEF DeleteData, DropData, Goto
<1>26. ASSUME NEW h \in Holders, DeleteEntry(h) PROVE Goal
  BY <1>26 DEF DeleteEntry, DropEntry, Finish
<1>27. ASSUME NEW h \in Holders, Abandon(h) PROVE Goal
  BY <1>27 DEF Abandon, Finish
<1>28. ASSUME NEW t \in Tasks, TimeOut(t) PROVE Goal
  BY <1>28 DEF TimeOut, Elapse
<1>29. ASSUME NEW t \in Tasks, Approach(t) PROVE Goal
  BY <1>29 DEF Approach
<1>30. ASSUME NEW t \in Tasks, DeleteTTL(t) PROVE Goal
  BY <1>30 DEF DeleteTTL
<1>31. CASE UNCHANGED vars
  BY <1>31 DEF vars
<1>32. QED
  BY <1>1, <1>2, <1>3, <1>4, <1>5, <1>6, <1>7, <1>8, <1>9, <1>10, <1>11,
     <1>12, <1>13, <1>14, <1>14a, <1>15, <1>16, <1>17, <1>18, <1>19, <1>20, <1>21,
     <1>22, <1>23, <1>24, <1>25, <1>26, <1>27, <1>28, <1>29, <1>30, <1>31
  DEF Next, HolderStep, ScheduleStep

\* The rows of an open requeue transaction stay INIT and its own.
LEMMA LocksStep ==
    ASSUME TypeOK, RowLocks, [Next]_vars
    PROVE  RowLocks'
<1> USE DeliveryAssumption
<1> USE DEF TypeOK, RowLocks, Locked, Fresh, Procs, qvars, rows, procs, hist
<1>1. ASSUME NEW p \in Producers, Dispatch(p) PROVE RowLocks'
  BY <1>1 DEF Dispatch, InsertRows, Call
<1>2. ASSUME NEW p \in Producers, Fanout(p) PROVE RowLocks'
  BY <1>2 DEF Fanout, Call
<1>3. CASE CreateEvent
  BY <1>3 DEF CreateEvent, InsertRows
<1>4. ASSUME NEW p \in Procs, AddData(p) PROVE RowLocks'
  BY <1>4 DEF AddData, PutData
<1>5. ASSUME NEW p \in Procs, AddEntry(p) PROVE RowLocks'
  BY <1>5 DEF AddEntry, PutEntry
<1>6. ASSUME NEW p \in Procs, UpdateStatusToQueued(p) PROVE RowLocks'
  BY <1>6 DEF UpdateStatusToQueued, MarkRows, Return
<1>7. ASSUME NEW p \in Procs, ScheduleFails(p) PROVE RowLocks'
  BY <1>7 DEF ScheduleFails, Return
<1>8. ASSUME NEW q \in Requeuers, LoadPending(q) PROVE RowLocks'
  BY <1>8 DEF LoadPending, Call
<1>9. ASSUME NEW q \in Requeuers, MarkInTransaction(q) PROVE RowLocks'
  BY <1>9 DEF MarkInTransaction
<1>10. ASSUME NEW q \in Requeuers, Commit(q) PROVE RowLocks'
  BY <1>10 DEF Commit, Release
<1>11. ASSUME NEW q \in Requeuers, Rollback(q) PROVE RowLocks'
  BY <1>11 DEF Rollback, Release
<1>12. ASSUME NEW h \in Holders, NEW t \in Tasks, Fetch(h, t) PROVE RowLocks'
  BY <1>12 DEF Fetch, Lease
<1>13. ASSUME NEW h \in Holders, Submit(h) PROVE RowLocks'
  BY <1>13 DEF Submit, Goto
<1>14. ASSUME NEW h \in Holders, SubmitTimeout(h) PROVE RowLocks'
  BY <1>14 DEF SubmitTimeout, PutEntry, Finish
<1>14a. ASSUME NEW h \in Holders, SubmitTerminated(h) PROVE RowLocks'
  BY <1>14a DEF SubmitTerminated, PutEntry, Finish
<1>15. ASSUME NEW h \in Holders, Consume(h) PROVE RowLocks'
  BY <1>15 DEF Consume, Goto
<1>16. ASSUME NEW h \in Holders, RejectEndpoint(h) PROVE RowLocks'
  BY <1>16 DEF RejectEndpoint, Goto
<1>17. ASSUME NEW h \in Holders, UpdateErrorCode(h) PROVE RowLocks'
  BY <1>17 DEF UpdateErrorCode, Goto
<1>18. ASSUME NEW h \in Holders, RateLimited(h) PROVE RowLocks'
  BY <1>18 DEF RateLimited, Goto
<1>19. ASSUME NEW h \in Holders, ScheduleTask(h) PROVE RowLocks'
  BY <1>19 DEF ScheduleTask, PutEntry, Finish
<1>20. ASSUME NEW h \in Holders, Admit(h) PROVE RowLocks'
  BY <1>20 DEF Admit, Goto
<1>21. ASSUME NEW h \in Holders, Send(h) PROVE RowLocks'
  BY <1>21 DEF Send, Goto
<1>22. ASSUME NEW h \in Holders, UpdateDelivery(h) PROVE RowLocks'
  BY <1>22 DEF UpdateDelivery, Goto
<1>23. ASSUME NEW h \in Holders, InsertNext(h) PROVE RowLocks'
  BY <1>23 DEF InsertNext, InsertRows, Call
<1>24. ASSUME NEW h \in Holders, InsertFails(h) PROVE RowLocks'
  BY <1>24 DEF InsertFails, Finish
<1>25. ASSUME NEW h \in Holders, DeleteData(h) PROVE RowLocks'
  BY <1>25 DEF DeleteData, DropData, Goto
<1>26. ASSUME NEW h \in Holders, DeleteEntry(h) PROVE RowLocks'
  BY <1>26 DEF DeleteEntry, DropEntry, Finish
<1>27. ASSUME NEW h \in Holders, Abandon(h) PROVE RowLocks'
  BY <1>27 DEF Abandon, Finish
<1>28. ASSUME NEW t \in Tasks, TimeOut(t) PROVE RowLocks'
  BY <1>28 DEF TimeOut, Elapse
<1>29. ASSUME NEW t \in Tasks, Approach(t) PROVE RowLocks'
  BY <1>29 DEF Approach
<1>30. ASSUME NEW t \in Tasks, DeleteTTL(t) PROVE RowLocks'
  BY <1>30 DEF DeleteTTL
<1>31. CASE UNCHANGED vars
  BY <1>31 DEF vars
<1>32. QED
  BY <1>1, <1>2, <1>3, <1>4, <1>5, <1>6, <1>7, <1>8, <1>9, <1>10, <1>11,
     <1>12, <1>13, <1>14, <1>14a, <1>15, <1>16, <1>17, <1>18, <1>19, <1>20, <1>21,
     <1>22, <1>23, <1>24, <1>25, <1>26, <1>27, <1>28, <1>29, <1>30, <1>31
  DEF Next, HolderStep, ScheduleStep

-----------------------------------------------------------------------------
\* The facts of the inductive invariant other than types and locks.
Facts ==
    /\ QueuedIsRecoverable
    /\ PayloadlessIsSettled
    /\ HolderKnows
    /\ SchedulerKnows

\* Every step preserves what the processes know.  A payload or an entry is
\* dropped only by a holder that has settled the attempt (HolderKnows), and a
\* row becomes QUEUED only when its task is in the queue (SchedulerKnows).
LEMMA FactsStep ==
    ASSUME IndInv, [Next]_vars
    PROVE  Facts'
<1> USE DeliveryAssumption
<1>t. TypeOK /\ TypeOK'
  BY TypeStep DEF IndInv
<1>s. \A t \in Tasks : Settled(t) => Settled(t)'
  BY SettledStep DEF IndInv
<1> USE <1>t, <1>s
<1> USE DEF TypeOK, QTypeOK, EntryStates, Placed, IndInv, Facts, QueuedIsRecoverable, PayloadlessIsSettled,
        HolderKnows, SchedulerKnows, DonePCs, SchedulePCs, RequeuePCs, HolderPCs, Settled, Terminal, Fresh,
        Procs, qvars, rows, procs, hist
<1>1. ASSUME NEW p \in Producers, Dispatch(p) PROVE Facts'
  BY <1>1 DEF Dispatch, InsertRows, Call
<1>2. ASSUME NEW p \in Producers, Fanout(p) PROVE Facts'
  BY <1>2 DEF Fanout, Call
<1>3. CASE CreateEvent
  BY <1>3 DEF CreateEvent, InsertRows
<1>4. ASSUME NEW p \in Procs, AddData(p) PROVE Facts'
  BY <1>4 DEF AddData, PutData
<1>5. ASSUME NEW p \in Procs, AddEntry(p) PROVE Facts'
  BY <1>5, SMTT(40) DEF AddEntry, PutEntry
<1>6. ASSUME NEW p \in Procs, UpdateStatusToQueued(p) PROVE Facts'
  BY <1>6 DEF UpdateStatusToQueued, MarkRows, Return
<1>7. ASSUME NEW p \in Procs, ScheduleFails(p) PROVE Facts'
  BY <1>7 DEF ScheduleFails, Return
<1>8. ASSUME NEW q \in Requeuers, LoadPending(q) PROVE Facts'
  BY <1>8 DEF LoadPending, Call
<1>9. ASSUME NEW q \in Requeuers, MarkInTransaction(q) PROVE Facts'
  BY <1>9 DEF MarkInTransaction
<1>10. ASSUME NEW q \in Requeuers, Commit(q) PROVE Facts'
  BY <1>10 DEF Commit, Release, RowLocks
<1>11. ASSUME NEW q \in Requeuers, Rollback(q) PROVE Facts'
  BY <1>11 DEF Rollback, Release
<1>12. ASSUME NEW h \in Holders, NEW t \in Tasks, Fetch(h, t) PROVE Facts'
  BY <1>12 DEF Fetch, Lease
<1>13. ASSUME NEW h \in Holders, Submit(h) PROVE Facts'
  BY <1>13 DEF Submit, Goto
<1>14. ASSUME NEW h \in Holders, SubmitTimeout(h) PROVE Facts'
  BY <1>14 DEF SubmitTimeout, PutEntry, Finish
<1>14a. ASSUME NEW h \in Holders, SubmitTerminated(h) PROVE Facts'
  BY <1>14a DEF SubmitTerminated, PutEntry, Finish
<1>15. ASSUME NEW h \in Holders, Consume(h) PROVE Facts'
  BY <1>15 DEF Consume, Goto
<1>16. ASSUME NEW h \in Holders, RejectEndpoint(h) PROVE Facts'
  BY <1>16 DEF RejectEndpoint, Goto
<1>17. ASSUME NEW h \in Holders, UpdateErrorCode(h) PROVE Facts'
  BY <1>17 DEF UpdateErrorCode, Goto
<1>18. ASSUME NEW h \in Holders, RateLimited(h) PROVE Facts'
  BY <1>18 DEF RateLimited, Goto
<1>19. ASSUME NEW h \in Holders, ScheduleTask(h) PROVE Facts'
  BY <1>19 DEF ScheduleTask, PutEntry, Finish
<1>20. ASSUME NEW h \in Holders, Admit(h) PROVE Facts'
  BY <1>20 DEF Admit, Goto
<1>21. ASSUME NEW h \in Holders, Send(h) PROVE Facts'
  <2>1. job[h] \in Tasks /\ number[job[h]] \in Nat
    BY <1>21 DEF Send
  <2>2. PICK a \in Answers(number[job[h]]) : result' = [result EXCEPT ![h] = a]
    BY <1>21 DEF Send
  <2>3. a.status # "none"
    BY <2>1, <2>2, AnswersAreResults
  <2>4. QED
    BY <1>21, <2>2, <2>3 DEF Send, Goto
<1>22. ASSUME NEW h \in Holders, UpdateDelivery(h) PROVE Facts'
  BY <1>22 DEF UpdateDelivery, Goto, Results, Retries
<1>23. ASSUME NEW h \in Holders, InsertNext(h) PROVE Facts'
  BY <1>23 DEF InsertNext, InsertRows, Call
<1>24. ASSUME NEW h \in Holders, InsertFails(h) PROVE Facts'
  BY <1>24 DEF InsertFails, Finish
<1>25. ASSUME NEW h \in Holders, DeleteData(h) PROVE Facts'
  BY <1>25 DEF DeleteData, DropData, Goto
<1>26. ASSUME NEW h \in Holders, DeleteEntry(h) PROVE Facts'
  BY <1>26 DEF DeleteEntry, DropEntry, Finish
<1>27. ASSUME NEW h \in Holders, Abandon(h) PROVE Facts'
  BY <1>27 DEF Abandon, Finish
<1>28. ASSUME NEW t \in Tasks, TimeOut(t) PROVE Facts'
  BY <1>28 DEF TimeOut, Elapse
<1>29. ASSUME NEW t \in Tasks, Approach(t) PROVE Facts'
  BY <1>29 DEF Approach
<1>30. ASSUME NEW t \in Tasks, DeleteTTL(t) PROVE Facts'
  BY <1>30 DEF DeleteTTL
<1>31. CASE UNCHANGED vars
  BY <1>31 DEF vars
<1>32. QED
  BY <1>t, <1>1, <1>2, <1>3, <1>4, <1>5, <1>6, <1>7, <1>8, <1>9, <1>10,
     <1>11, <1>12, <1>13, <1>14, <1>14a, <1>15, <1>16, <1>17, <1>18, <1>19,
     <1>20, <1>21, <1>22, <1>23, <1>24, <1>25, <1>26, <1>27, <1>28,
     <1>29, <1>30, <1>31, ZenonT(60)
  DEF Next, HolderStep, ScheduleStep

-----------------------------------------------------------------------------
\* The inductive invariant holds initially.
LEMMA IndInit == Init => IndInv
<1> SUFFICES ASSUME Init PROVE IndInv
  OBVIOUS
<1>1. TypeOK
  BY TypeInit
<1>2. QueuedIsRecoverable /\ PayloadlessIsSettled
  BY DEF Init, QInit, QueuedIsRecoverable, PayloadlessIsSettled
<1>3. HolderKnows /\ SchedulerKnows /\ RowLocks
  BY DeliveryAssumption
  DEF Init, HolderKnows, SchedulerKnows, RowLocks, Procs
<1>4. QED
  BY <1>1, <1>2, <1>3 DEF IndInv

\* The inductive invariant of the delivery protocol holds in every state.
THEOREM Invariance == Spec => []IndInv
<1>1. IndInv /\ [Next]_vars => IndInv'
  BY TypeStep, LocksStep, FactsStep DEF IndInv, Facts
<1>2. QED
  BY IndInit, <1>1, PTL DEF Spec

\* Type correctness, for any numbers of attempts, processes and faults.
THEOREM TypeCorrectness == Spec => []TypeOK
<1>1. IndInv => TypeOK
  BY DEF IndInv
<1>2. QED
  BY Invariance, <1>1, PTL

\* An attempt that is QUEUED in the database has its entry and its payload in
\* the task queue, in every state of the system.
THEOREM Recoverability == Spec => []QueuedIsRecoverable
<1>1. IndInv => QueuedIsRecoverable
  BY DEF IndInv
<1>2. QED
  BY Invariance, <1>1, PTL

\* runTask only ever meets a task without a payload when its attempt is settled,
\* so deleting it loses nothing.
THEOREM HollowTasksAreSettled == Spec => []PayloadlessIsSettled
<1>1. IndInv => PayloadlessIsSettled
  BY DEF IndInv
<1>2. QED
  BY Invariance, <1>1, PTL

\* No step of any process takes a settled attempt back to INIT or QUEUED.
THEOREM SettledForGood == Spec => SettledStaysSettled
<1>1. IndInv /\ [Next]_vars => [\A t \in Tasks : Settled(t) => Settled(t)']_vars
  BY SettledStep DEF IndInv
<1>2. QED
  BY Invariance, <1>1, PTL DEF Spec, SettledStaysSettled

-----------------------------------------------------------------------------
(* Retries and duplicates: the second inductive invariant, RetryInv, which holds
   on top of IndInv. *)

\* A result is there from the request on, and not before.
LEMMA ResultStep ==
    ASSUME TypeOK, ResultIsFresh, [Next]_vars
    PROVE  ResultIsFresh'
<1> USE DeliveryAssumption
<1> USE DEF TypeOK, ResultIsFresh, UnsentPCs, SchedulePCs, RequeuePCs, Procs,
        qvars, rows, procs, hist
<1>1. ASSUME NEW p \in Producers, Dispatch(p) PROVE ResultIsFresh'
  BY <1>1 DEF Dispatch, InsertRows, Call
<1>2. ASSUME NEW p \in Producers, Fanout(p) PROVE ResultIsFresh'
  BY <1>2 DEF Fanout, Call
<1>3. CASE CreateEvent
  BY <1>3 DEF CreateEvent, InsertRows
<1>4. ASSUME NEW p \in Procs, AddData(p) PROVE ResultIsFresh'
  BY <1>4 DEF AddData, PutData
<1>5. ASSUME NEW p \in Procs, AddEntry(p) PROVE ResultIsFresh'
  BY <1>5 DEF AddEntry, PutEntry
<1>6. ASSUME NEW p \in Procs, UpdateStatusToQueued(p) PROVE ResultIsFresh'
  BY <1>6 DEF UpdateStatusToQueued, MarkRows, Return
<1>7. ASSUME NEW p \in Procs, ScheduleFails(p) PROVE ResultIsFresh'
  BY <1>7 DEF ScheduleFails, Return
<1>8. ASSUME NEW q \in Requeuers, LoadPending(q) PROVE ResultIsFresh'
  BY <1>8 DEF LoadPending, Call
<1>9. ASSUME NEW q \in Requeuers, MarkInTransaction(q) PROVE ResultIsFresh'
  BY <1>9 DEF MarkInTransaction
<1>10. ASSUME NEW q \in Requeuers, Commit(q) PROVE ResultIsFresh'
  BY <1>10 DEF Commit, Release
<1>11. ASSUME NEW q \in Requeuers, Rollback(q) PROVE ResultIsFresh'
  BY <1>11 DEF Rollback, Release
<1>12. ASSUME NEW h \in Holders, NEW u \in Tasks, Fetch(h, u) PROVE ResultIsFresh'
  BY <1>12 DEF Fetch, Lease
<1>13. ASSUME NEW h \in Holders, Submit(h) PROVE ResultIsFresh'
  BY <1>13 DEF Submit, Goto
<1>14. ASSUME NEW h \in Holders, SubmitTimeout(h) PROVE ResultIsFresh'
  BY <1>14 DEF SubmitTimeout, PutEntry, Finish
<1>14a. ASSUME NEW h \in Holders, SubmitTerminated(h) PROVE ResultIsFresh'
  BY <1>14a DEF SubmitTerminated, PutEntry, Finish
<1>15. ASSUME NEW h \in Holders, Consume(h) PROVE ResultIsFresh'
  BY <1>15 DEF Consume, Goto
<1>16. ASSUME NEW h \in Holders, RejectEndpoint(h) PROVE ResultIsFresh'
  BY <1>16 DEF RejectEndpoint, Goto
<1>17. ASSUME NEW h \in Holders, UpdateErrorCode(h) PROVE ResultIsFresh'
  BY <1>17 DEF UpdateErrorCode, Goto
<1>18. ASSUME NEW h \in Holders, RateLimited(h) PROVE ResultIsFresh'
  BY <1>18 DEF RateLimited, Goto
<1>19. ASSUME NEW h \in Holders, ScheduleTask(h) PROVE ResultIsFresh'
  BY <1>19 DEF ScheduleTask, PutEntry, Finish
<1>20. ASSUME NEW h \in Holders, Admit(h) PROVE ResultIsFresh'
  BY <1>20 DEF Admit, Goto
<1>21. ASSUME NEW h \in Holders, Send(h) PROVE ResultIsFresh'
  <2>1. job[h] \in Tasks /\ number[job[h]] \in Nat
    BY <1>21 DEF Send
  <2>2. PICK a \in Answers(number[job[h]]) : result' = [result EXCEPT ![h] = a]
    BY <1>21 DEF Send
  <2>3. a # NoResult
    BY <2>1, <2>2, AnswersAreResults DEF NoResult
  <2>4. QED
    BY <1>21, <2>2, <2>3 DEF Send, Goto
<1>22. ASSUME NEW h \in Holders, UpdateDelivery(h) PROVE ResultIsFresh'
  BY <1>22 DEF UpdateDelivery, Goto
<1>23. ASSUME NEW h \in Holders, InsertNext(h) PROVE ResultIsFresh'
  BY <1>23 DEF InsertNext, InsertRows, Call
<1>24. ASSUME NEW h \in Holders, InsertFails(h) PROVE ResultIsFresh'
  BY <1>24 DEF InsertFails, Finish
<1>25. ASSUME NEW h \in Holders, DeleteData(h) PROVE ResultIsFresh'
  BY <1>25 DEF DeleteData, DropData, Goto
<1>26. ASSUME NEW h \in Holders, DeleteEntry(h) PROVE ResultIsFresh'
  BY <1>26 DEF DeleteEntry, DropEntry, Finish
<1>27. ASSUME NEW h \in Holders, Abandon(h) PROVE ResultIsFresh'
  BY <1>27 DEF Abandon, Finish
<1>28. ASSUME NEW u \in Tasks, TimeOut(u) PROVE ResultIsFresh'
  BY <1>28 DEF TimeOut, Elapse
<1>29. ASSUME NEW u \in Tasks, Approach(u) PROVE ResultIsFresh'
  BY <1>29 DEF Approach
<1>30. ASSUME NEW u \in Tasks, DeleteTTL(u) PROVE ResultIsFresh'
  BY <1>30 DEF DeleteTTL
<1>31. CASE UNCHANGED vars
  BY <1>31 DEF vars
<1>32. QED
  BY <1>1, <1>2, <1>3, <1>4, <1>5, <1>6, <1>7, <1>8, <1>9, <1>10, <1>11,
     <1>12, <1>13, <1>14, <1>14a, <1>15, <1>16, <1>17, <1>18, <1>19, <1>20, <1>21,
     <1>22, <1>23, <1>24, <1>25, <1>26, <1>27, <1>28, <1>29, <1>30, <1>31
  DEF Next, HolderStep, ScheduleStep

-----------------------------------------------------------------------------
\* An id is in use only once its row is there.
LEMMA FreshStep ==
    ASSUME TypeOK, IndInv, FreshIsUnused, [Next]_vars
    PROVE  FreshIsUnused'
<1> USE DeliveryAssumption
<1> USE DEF TypeOK, QTypeOK, FreshIsUnused, Fresh, Holding, Procs, qvars, rows, procs, hist
<1>1. ASSUME NEW p \in Producers, Dispatch(p) PROVE FreshIsUnused'
  BY <1>1 DEF Dispatch, InsertRows, Call
<1>2. ASSUME NEW p \in Producers, Fanout(p) PROVE FreshIsUnused'
  BY <1>2 DEF Fanout, Call
<1>3. CASE CreateEvent
  BY <1>3 DEF CreateEvent, InsertRows
<1>4. ASSUME NEW p \in Procs, AddData(p) PROVE FreshIsUnused'
  BY <1>4 DEF AddData, PutData
<1>5. ASSUME NEW p \in Procs, AddEntry(p) PROVE FreshIsUnused'
  BY <1>5 DEF AddEntry, PutEntry
<1>6. ASSUME NEW p \in Procs, UpdateStatusToQueued(p) PROVE FreshIsUnused'
  BY <1>6 DEF UpdateStatusToQueued, MarkRows, Return
<1>7. ASSUME NEW p \in Procs, ScheduleFails(p) PROVE FreshIsUnused'
  BY <1>7 DEF ScheduleFails, Return
<1>8. ASSUME NEW q \in Requeuers, LoadPending(q) PROVE FreshIsUnused'
  BY <1>8 DEF LoadPending, Call
<1>9. ASSUME NEW q \in Requeuers, MarkInTransaction(q) PROVE FreshIsUnused'
  BY <1>9 DEF MarkInTransaction
<1>10. ASSUME NEW q \in Requeuers, Commit(q) PROVE FreshIsUnused'
  BY <1>10 DEF Commit, Release
<1>11. ASSUME NEW q \in Requeuers, Rollback(q) PROVE FreshIsUnused'
  BY <1>11 DEF Rollback, Release
<1>12. ASSUME NEW h \in Holders, NEW u \in Tasks, Fetch(h, u) PROVE FreshIsUnused'
  BY <1>12 DEF Fetch, Lease
<1>13. ASSUME NEW h \in Holders, Submit(h) PROVE FreshIsUnused'
  BY <1>13 DEF Submit, Goto
<1>14. ASSUME NEW h \in Holders, SubmitTimeout(h) PROVE FreshIsUnused'
  BY <1>14 DEF SubmitTimeout, PutEntry, Finish
<1>14a. ASSUME NEW h \in Holders, SubmitTerminated(h) PROVE FreshIsUnused'
  BY <1>14a DEF SubmitTerminated, PutEntry, Finish
<1>15. ASSUME NEW h \in Holders, Consume(h) PROVE FreshIsUnused'
  BY <1>15 DEF Consume, Goto
<1>16. ASSUME NEW h \in Holders, RejectEndpoint(h) PROVE FreshIsUnused'
  BY <1>16 DEF RejectEndpoint, Goto
<1>17. ASSUME NEW h \in Holders, UpdateErrorCode(h) PROVE FreshIsUnused'
  BY <1>17 DEF UpdateErrorCode, Goto
<1>18. ASSUME NEW h \in Holders, RateLimited(h) PROVE FreshIsUnused'
  BY <1>18 DEF RateLimited, Goto
<1>19. ASSUME NEW h \in Holders, ScheduleTask(h) PROVE FreshIsUnused'
  BY <1>19 DEF ScheduleTask, PutEntry, Finish
<1>20. ASSUME NEW h \in Holders, Admit(h) PROVE FreshIsUnused'
  BY <1>20 DEF Admit, Goto
<1>21. ASSUME NEW h \in Holders, Send(h) PROVE FreshIsUnused'
  BY <1>21 DEF Send, Goto
<1>22. ASSUME NEW h \in Holders, UpdateDelivery(h) PROVE FreshIsUnused'
  BY <1>22 DEF UpdateDelivery, Goto, Results, IndInv, HolderKnows
<1>23. ASSUME NEW h \in Holders, InsertNext(h) PROVE FreshIsUnused'
  BY <1>23 DEF InsertNext, InsertRows, Call
<1>24. ASSUME NEW h \in Holders, InsertFails(h) PROVE FreshIsUnused'
  BY <1>24 DEF InsertFails, Finish
<1>25. ASSUME NEW h \in Holders, DeleteData(h) PROVE FreshIsUnused'
  BY <1>25 DEF DeleteData, DropData, Goto
<1>26. ASSUME NEW h \in Holders, DeleteEntry(h) PROVE FreshIsUnused'
  BY <1>26 DEF DeleteEntry, DropEntry, Finish
<1>27. ASSUME NEW h \in Holders, Abandon(h) PROVE FreshIsUnused'
  BY <1>27 DEF Abandon, Finish
<1>28. ASSUME NEW u \in Tasks, TimeOut(u) PROVE FreshIsUnused'
  BY <1>28 DEF TimeOut, Elapse
<1>29. ASSUME NEW u \in Tasks, Approach(u) PROVE FreshIsUnused'
  BY <1>29 DEF Approach
<1>30. ASSUME NEW u \in Tasks, DeleteTTL(u) PROVE FreshIsUnused'
  BY <1>30 DEF DeleteTTL
<1>31. CASE UNCHANGED vars
  BY <1>31 DEF vars
<1>32. QED
  BY <1>1, <1>2, <1>3, <1>4, <1>5, <1>6, <1>7, <1>8, <1>9, <1>10, <1>11,
     <1>12, <1>13, <1>14, <1>14a, <1>15, <1>16, <1>17, <1>18, <1>19, <1>20, <1>21,
     <1>22, <1>23, <1>24, <1>25, <1>26, <1>27, <1>28, <1>29, <1>30, <1>31
  DEF Next, HolderStep, ScheduleStep

\* The number of a row never changes, so the retry delay a holder saw is there.
Chain == ChainIsBounded /\ ChainKnows

LEMMA ChainStep ==
    ASSUME TypeOK, IndInv, FreshIsUnused, Chain, [Next]_vars
    PROVE  Chain'
<1> USE DeliveryAssumption
<1>a. \E len \in RetryLengths : 1 <= len
  <2>1. PICK len \in RetryLengths : TRUE
    OBVIOUS
  <2>2. len \in Nat /\ 1 <= len
    OBVIOUS
  <2>3. QED
    BY <2>2
<1> USE DEF TypeOK, Chain, ChainIsBounded, ChainKnows, FreshIsUnused, Fresh, Holding, Procs, SchedulePCs,
        qvars, rows, procs, hist
<1>1. ASSUME NEW p \in Producers, Dispatch(p) PROVE Chain'
  <2>1. /\ number' \in [Tasks -> Nat]
        /\ \A t \in Tasks :
             \/ t \in Fresh /\ number'[t] = 1 /\ status'[t] = "INIT"
             \/ number'[t] = number[t] /\ status'[t] = status[t]
    <3>1. PICK S \in SUBSET Fresh, F \in SUBSET Fresh : InsertRows(S, F, 1)
      BY <1>1 DEF Dispatch
    <3>2. QED
      BY <3>1 DEF InsertRows
  <2>2. ChainIsBounded'
    BY <1>a, <2>1
  <2>3. ChainKnows'
    BY <1>1, <2>1 DEF Dispatch, InsertRows, Call
  <2>4. QED
    BY <2>2, <2>3
<1>2. ASSUME NEW p \in Producers, Fanout(p) PROVE Chain'
  BY <1>2 DEF Fanout, Call
<1>3. CASE CreateEvent
  <2>1. /\ number' \in [Tasks -> Nat]
        /\ \A t \in Tasks :
             \/ t \in Fresh /\ number'[t] = 1 /\ status'[t] = "INIT"
             \/ number'[t] = number[t] /\ status'[t] = status[t]
    <3>1. PICK S \in SUBSET Fresh, F \in SUBSET Fresh : InsertRows(S, F, 1)
      BY <1>3 DEF CreateEvent
    <3>2. QED
      BY <3>1 DEF InsertRows
  <2>2. ChainIsBounded'
    BY <1>a, <2>1
  <2>3. ChainKnows'
    BY <1>3, <2>1 DEF CreateEvent, InsertRows
  <2>4. QED
    BY <2>2, <2>3
<1>4. ASSUME NEW p \in Procs, AddData(p) PROVE Chain'
  BY <1>4 DEF AddData, PutData
<1>5. ASSUME NEW p \in Procs, AddEntry(p) PROVE Chain'
  BY <1>5 DEF AddEntry, PutEntry
<1>6. ASSUME NEW p \in Procs, UpdateStatusToQueued(p) PROVE Chain'
  BY <1>6 DEF UpdateStatusToQueued, MarkRows, Return
<1>7. ASSUME NEW p \in Procs, ScheduleFails(p) PROVE Chain'
  BY <1>7 DEF ScheduleFails, Return
<1>8. ASSUME NEW q \in Requeuers, LoadPending(q) PROVE Chain'
  BY <1>8 DEF LoadPending, Call
<1>9. ASSUME NEW q \in Requeuers, MarkInTransaction(q) PROVE Chain'
  BY <1>9 DEF MarkInTransaction
<1>10. ASSUME NEW q \in Requeuers, Commit(q) PROVE Chain'
  BY <1>10 DEF Commit, Release, IndInv, RowLocks
<1>11. ASSUME NEW q \in Requeuers, Rollback(q) PROVE Chain'
  BY <1>11 DEF Rollback, Release
<1>12. ASSUME NEW h \in Holders, NEW u \in Tasks, Fetch(h, u) PROVE Chain'
  BY <1>12 DEF Fetch, Lease
<1>13. ASSUME NEW h \in Holders, Submit(h) PROVE Chain'
  BY <1>13 DEF Submit, Goto
<1>14. ASSUME NEW h \in Holders, SubmitTimeout(h) PROVE Chain'
  BY <1>14 DEF SubmitTimeout, PutEntry, Finish
<1>14a. ASSUME NEW h \in Holders, SubmitTerminated(h) PROVE Chain'
  BY <1>14a DEF SubmitTerminated, PutEntry, Finish
<1>15. ASSUME NEW h \in Holders, Consume(h) PROVE Chain'
  BY <1>15 DEF Consume, Goto
<1>16. ASSUME NEW h \in Holders, RejectEndpoint(h) PROVE Chain'
  BY <1>16 DEF RejectEndpoint, Goto
<1>17. ASSUME NEW h \in Holders, UpdateErrorCode(h) PROVE Chain'
  BY <1>17 DEF UpdateErrorCode, Goto
<1>18. ASSUME NEW h \in Holders, RateLimited(h) PROVE Chain'
  BY <1>18 DEF RateLimited, Goto
<1>19. ASSUME NEW h \in Holders, ScheduleTask(h) PROVE Chain'
  BY <1>19 DEF ScheduleTask, PutEntry, Finish
<1>20. ASSUME NEW h \in Holders, Admit(h) PROVE Chain'
  BY <1>20 DEF Admit, Goto
<1>21. ASSUME NEW h \in Holders, Send(h) PROVE Chain'
  <2>1. job[h] \in Tasks /\ number[job[h]] \in Nat
    BY <1>21 DEF Send
  <2>2. PICK a \in Answers(number[job[h]]) : result' = [result EXCEPT ![h] = a]
    BY <1>21 DEF Send
  <2>3. Retries(a) => \E len \in RetryLengths : number[job[h]] < len
    BY <2>1, <2>2, AnswersAreResults
  <2>4. QED
    BY <1>21, <2>2, <2>3 DEF Send, Goto
<1>22. ASSUME NEW h \in Holders, UpdateDelivery(h) PROVE Chain'
  BY <1>22 DEF UpdateDelivery, Goto
<1>23. ASSUME NEW h \in Holders, InsertNext(h) PROVE Chain'
  BY <1>23 DEF InsertNext, InsertRows, Call
<1>24. ASSUME NEW h \in Holders, InsertFails(h) PROVE Chain'
  BY <1>24 DEF InsertFails, Finish
<1>25. ASSUME NEW h \in Holders, DeleteData(h) PROVE Chain'
  BY <1>25 DEF DeleteData, DropData, Goto
<1>26. ASSUME NEW h \in Holders, DeleteEntry(h) PROVE Chain'
  BY <1>26 DEF DeleteEntry, DropEntry, Finish
<1>27. ASSUME NEW h \in Holders, Abandon(h) PROVE Chain'
  BY <1>27 DEF Abandon, Finish
<1>28. ASSUME NEW u \in Tasks, TimeOut(u) PROVE Chain'
  BY <1>28 DEF TimeOut, Elapse
<1>29. ASSUME NEW u \in Tasks, Approach(u) PROVE Chain'
  BY <1>29 DEF Approach
<1>30. ASSUME NEW u \in Tasks, DeleteTTL(u) PROVE Chain'
  BY <1>30 DEF DeleteTTL
<1>31. CASE UNCHANGED vars
  BY <1>31 DEF vars
<1>32. QED
  BY <1>1, <1>2, <1>3, <1>4, <1>5, <1>6, <1>7, <1>8, <1>9, <1>10, <1>11,
     <1>12, <1>13, <1>14, <1>14a, <1>15, <1>16, <1>17, <1>18, <1>19, <1>20, <1>21,
     <1>22, <1>23, <1>24, <1>25, <1>26, <1>27, <1>28, <1>29, <1>30, <1>31
  DEF Next, HolderStep, ScheduleStep

-----------------------------------------------------------------------------
\* While a task is not handed out twice at a time, its holder is the only one to
\* write its row and its entry; it deletes the task only when the row is
\* successful, exhausted, cancelled or followed by the next attempt.
Sole == SoleHolder /\ RetryChainUnbroken

LEMMA SoleStep ==
    ASSUME TypeOK, IndInv, FreshIsUnused, ResultIsFresh, Sole, [Next]_vars
    PROVE  Sole'
<1> USE DeliveryAssumption
<1> USE DEF TypeOK, QTypeOK, Sole, SoleHolder, RetryChainUnbroken, Broken, Holding, DonePCs, SchedulePCs, Procs,
        qvars, rows, procs, hist
<1>1. ASSUME NEW p \in Producers, Dispatch(p) PROVE Sole'
  BY <1>1 DEF Dispatch, InsertRows, Call, Fresh
<1>2. ASSUME NEW p \in Producers, Fanout(p) PROVE Sole'
  BY <1>2 DEF Fanout, Call
<1>3. CASE CreateEvent
  BY <1>3 DEF CreateEvent, InsertRows, Fresh
<1>4. ASSUME NEW p \in Procs, AddData(p) PROVE Sole'
  BY <1>4 DEF AddData, PutData
<1>5. ASSUME NEW p \in Procs, AddEntry(p) PROVE Sole'
  BY <1>5 DEF AddEntry, PutEntry
<1>6. ASSUME NEW p \in Procs, UpdateStatusToQueued(p) PROVE Sole'
  BY <1>6 DEF UpdateStatusToQueued, MarkRows, Return
<1>7. ASSUME NEW p \in Procs, ScheduleFails(p) PROVE Sole'
  BY <1>7 DEF ScheduleFails, Return
<1>8. ASSUME NEW q \in Requeuers, LoadPending(q) PROVE Sole'
  BY <1>8 DEF LoadPending, Call
<1>9. ASSUME NEW q \in Requeuers, MarkInTransaction(q) PROVE Sole'
  BY <1>9 DEF MarkInTransaction
<1>10. ASSUME NEW q \in Requeuers, Commit(q) PROVE Sole'
  BY <1>10 DEF Commit, Release, IndInv, RowLocks
<1>11. ASSUME NEW q \in Requeuers, Rollback(q) PROVE Sole'
  BY <1>11 DEF Rollback, Release
<1>12. ASSUME NEW h \in Holders, NEW u \in Tasks, Fetch(h, u) PROVE Sole'
  <2>1. Holding(u) # {} => u \in overlap
    BY <1>12 DEF Fetch
  <2>2. /\ Holding(u)' = Holding(u) \cup {h}
        /\ \A t \in Tasks \ {u} : Holding(t)' = Holding(t)
    BY <1>12 DEF Fetch
  <2>3. u \notin overlap /\ h \in hollow' => ~Broken(u)
    BY <1>12 DEF Fetch, IndInv, HolderKnows
  <2>4. u \notin overlap /\ h \notin hollow' => u \in payload
    BY <1>12 DEF Fetch
  <2>5. RetryChainUnbroken'
    BY <1>12 DEF Fetch, Lease
  <2>6. ASSUME NEW t \in Tasks, t \notin overlap', t # u
        PROVE  /\ entry'[t] # "absent" => t \in added'
               /\ \A g \in Holding(t)' :
                   /\ entry'[t] = "leased"
                   /\ Holding(t)' = {g}
                   /\ g \notin hollow' /\ pc'[g] # "zrem" => t \in payload'
                   /\ g \in hollow' \/ pc'[g] \in DonePCs \ {"insert"} => ~Broken(t)'
    BY <1>12, <2>2, <2>6 DEF Fetch, Lease
  <2>7. ASSUME u \notin overlap'
        PROVE  /\ entry'[u] # "absent" => u \in added'
               /\ \A g \in Holding(u)' :
                   /\ entry'[u] = "leased"
                   /\ Holding(u)' = {g}
                   /\ g \notin hollow' /\ pc'[g] # "zrem" => u \in payload'
                   /\ g \in hollow' \/ pc'[g] \in DonePCs \ {"insert"} => ~Broken(u)'
    BY <1>12, <2>1, <2>2, <2>3, <2>4, <2>7 DEF Fetch, Lease
  <2>8. QED
    BY <2>5, <2>6, <2>7
<1>13. ASSUME NEW h \in Holders, Submit(h) PROVE Sole'
  BY <1>13 DEF Submit, Goto
<1>14. ASSUME NEW h \in Holders, SubmitTimeout(h) PROVE Sole'
  BY <1>14 DEF SubmitTimeout, PutEntry, Finish
<1>14a. ASSUME NEW h \in Holders, SubmitTerminated(h) PROVE Sole'
  BY <1>14a DEF SubmitTerminated, PutEntry, Finish
<1>15. ASSUME NEW h \in Holders, Consume(h) PROVE Sole'
  BY <1>15 DEF Consume, Goto
<1>16. ASSUME NEW h \in Holders, RejectEndpoint(h) PROVE Sole'
  BY <1>16 DEF RejectEndpoint, Goto
<1>17. ASSUME NEW h \in Holders, UpdateErrorCode(h) PROVE Sole'
  BY <1>17 DEF UpdateErrorCode, Goto
<1>18. ASSUME NEW h \in Holders, RateLimited(h) PROVE Sole'
  BY <1>18 DEF RateLimited, Goto
<1>19. ASSUME NEW h \in Holders, ScheduleTask(h) PROVE Sole'
  BY <1>19 DEF ScheduleTask, PutEntry, Finish
<1>20. ASSUME NEW h \in Holders, Admit(h) PROVE Sole'
  BY <1>20 DEF Admit, Goto
<1>21. ASSUME NEW h \in Holders, Send(h) PROVE Sole'
  BY <1>21 DEF Send, Goto
<1>22. ASSUME NEW h \in Holders, UpdateDelivery(h) PROVE Sole'
  <2>1. /\ job[h] \in Tasks /\ result[h].status \in {"SUCCESSFUL", "FAILED"}
        /\ h \notin hollow \/ Settled(job[h])
    BY <1>22 DEF UpdateDelivery, IndInv, HolderKnows, Results
  <2>2. \A t \in Tasks \ {job[h]} : Broken(t)' = Broken(t)
    BY <1>22 DEF UpdateDelivery
  <2>3. ~Retries(result[h]) => ~Broken(job[h])'
    <3>1. CASE result[h].status = "SUCCESSFUL"
      BY <1>22, <2>1, <3>1 DEF UpdateDelivery, Goto
    <3>2. CASE result[h].exhausted
      BY <1>22, <2>1, <3>2 DEF UpdateDelivery, Goto
    <3>3. QED
      BY <2>1, <3>1, <3>2 DEF Retries
  <2>4. \A t \in Tasks : Holding(t)' = Holding(t)
    BY <1>22 DEF UpdateDelivery, Goto
  <2>5. h \notin hollow
    BY <1>22 DEF UpdateDelivery, ResultIsFresh
  <2>6. RetryChainUnbroken'
    BY <1>22, <2>1, <2>2, <2>5 DEF UpdateDelivery, Goto
  <2>7. SoleHolder'
    BY <1>22, <2>1, <2>2, <2>3, <2>4, <2>5 DEF UpdateDelivery, Goto
  <2>8. QED
    BY <2>6, <2>7
<1>23. ASSUME NEW h \in Holders, InsertNext(h) PROVE Sole'
  BY <1>23 DEF InsertNext, InsertRows, Call, Fresh
<1>24. ASSUME NEW h \in Holders, InsertFails(h) PROVE Sole'
  BY <1>24 DEF InsertFails, Finish
<1>25. ASSUME NEW h \in Holders, DeleteData(h) PROVE Sole'
  BY <1>25 DEF DeleteData, DropData, Goto
<1>26. ASSUME NEW h \in Holders, DeleteEntry(h) PROVE Sole'
  BY <1>26 DEF DeleteEntry, DropEntry, Finish
<1>27. ASSUME NEW h \in Holders, Abandon(h) PROVE Sole'
  BY <1>27 DEF Abandon, Finish
<1>28. ASSUME NEW u \in Tasks, TimeOut(u) PROVE Sole'
  BY <1>28 DEF TimeOut, Elapse
<1>29. ASSUME NEW u \in Tasks, Approach(u) PROVE Sole'
  BY <1>29 DEF Approach
<1>30. ASSUME NEW u \in Tasks, DeleteTTL(u) PROVE Sole'
  BY <1>30 DEF DeleteTTL
<1>31. CASE UNCHANGED vars
  BY <1>31 DEF vars
<1>32. QED
  BY <1>1, <1>2, <1>3, <1>4, <1>5, <1>6, <1>7, <1>8, <1>9, <1>10, <1>11,
     <1>12, <1>13, <1>14, <1>14a, <1>15, <1>16, <1>17, <1>18, <1>19, <1>20, <1>21,
     <1>22, <1>23, <1>24, <1>25, <1>26, <1>27, <1>28, <1>29, <1>30, <1>31
  DEF Next, HolderStep, ScheduleStep

-----------------------------------------------------------------------------
\* A task never handed out twice at a time, and never abandoned after its request
\* was sent, has its request sent once.
Once == SentOnce /\ DuplicateHasCause

LEMMA OnceStep ==
    ASSUME TypeOK, IndInv, SoleHolder, ResultIsFresh, Once, [Next]_vars
    PROVE  Once'
<1> USE DeliveryAssumption
<1> USE DEF TypeOK, QTypeOK, Once, SentOnce, DuplicateHasCause, SoleHolder, ResultIsFresh, UnsentPCs, Holding, Procs, SchedulePCs,
        qvars, rows, procs, hist
<1>1. ASSUME NEW p \in Producers, Dispatch(p) PROVE Once'
  BY <1>1 DEF Dispatch, InsertRows, Call
<1>2. ASSUME NEW p \in Producers, Fanout(p) PROVE Once'
  BY <1>2 DEF Fanout, Call
<1>3. CASE CreateEvent
  BY <1>3 DEF CreateEvent, InsertRows
<1>4. ASSUME NEW p \in Procs, AddData(p) PROVE Once'
  BY <1>4 DEF AddData, PutData
<1>5. ASSUME NEW p \in Procs, AddEntry(p) PROVE Once'
  BY <1>5 DEF AddEntry, PutEntry
<1>6. ASSUME NEW p \in Procs, UpdateStatusToQueued(p) PROVE Once'
  BY <1>6 DEF UpdateStatusToQueued, MarkRows, Return
<1>7. ASSUME NEW p \in Procs, ScheduleFails(p) PROVE Once'
  BY <1>7 DEF ScheduleFails, Return
<1>8. ASSUME NEW q \in Requeuers, LoadPending(q) PROVE Once'
  BY <1>8 DEF LoadPending, Call
<1>9. ASSUME NEW q \in Requeuers, MarkInTransaction(q) PROVE Once'
  BY <1>9 DEF MarkInTransaction
<1>10. ASSUME NEW q \in Requeuers, Commit(q) PROVE Once'
  BY <1>10 DEF Commit, Release
<1>11. ASSUME NEW q \in Requeuers, Rollback(q) PROVE Once'
  BY <1>11 DEF Rollback, Release
<1>12. ASSUME NEW h \in Holders, NEW u \in Tasks, Fetch(h, u) PROVE Once'
  BY <1>12 DEF Fetch, Lease
<1>13. ASSUME NEW h \in Holders, Submit(h) PROVE Once'
  BY <1>13 DEF Submit, Goto
<1>14. ASSUME NEW h \in Holders, SubmitTimeout(h) PROVE Once'
  BY <1>14 DEF SubmitTimeout, PutEntry, Finish
<1>14a. ASSUME NEW h \in Holders, SubmitTerminated(h) PROVE Once'
  BY <1>14a DEF SubmitTerminated, PutEntry, Finish
<1>15. ASSUME NEW h \in Holders, Consume(h) PROVE Once'
  BY <1>15 DEF Consume, Goto
<1>16. ASSUME NEW h \in Holders, RejectEndpoint(h) PROVE Once'
  BY <1>16 DEF RejectEndpoint, Goto
<1>17. ASSUME NEW h \in Holders, UpdateErrorCode(h) PROVE Once'
  BY <1>17 DEF UpdateErrorCode, Goto
<1>18. ASSUME NEW h \in Holders, RateLimited(h) PROVE Once'
  BY <1>18 DEF RateLimited, Goto
<1>19. ASSUME NEW h \in Holders, ScheduleTask(h) PROVE Once'
  BY <1>19 DEF ScheduleTask, PutEntry, Finish
<1>20. ASSUME NEW h \in Holders, Admit(h) PROVE Once'
  BY <1>20 DEF Admit, Goto
<1>21. ASSUME NEW h \in Holders, Send(h) PROVE Once'
  <2>1. job[h] \in Tasks /\ number[job[h]] \in Nat
    BY <1>21 DEF Send
  <2>2. PICK a \in Answers(number[job[h]]) : result' = [result EXCEPT ![h] = a]
    BY <1>21 DEF Send
  <2>3. a # NoResult
    BY <2>1, <2>2, AnswersAreResults DEF NoResult
  <2>4. QED
    BY <1>21, <2>2, <2>3 DEF Send, Goto
<1>22. ASSUME NEW h \in Holders, UpdateDelivery(h) PROVE Once'
  BY <1>22 DEF UpdateDelivery, Goto
<1>23. ASSUME NEW h \in Holders, InsertNext(h) PROVE Once'
  BY <1>23 DEF InsertNext, InsertRows, Call
<1>24. ASSUME NEW h \in Holders, InsertFails(h) PROVE Once'
  BY <1>24 DEF InsertFails, Finish
<1>25. ASSUME NEW h \in Holders, DeleteData(h) PROVE Once'
  BY <1>25 DEF DeleteData, DropData, Goto
<1>26. ASSUME NEW h \in Holders, DeleteEntry(h) PROVE Once'
  BY <1>26 DEF DeleteEntry, DropEntry, Finish
<1>27. ASSUME NEW h \in Holders, Abandon(h) PROVE Once'
  BY <1>27 DEF Abandon, Finish
<1>28. ASSUME NEW u \in Tasks, TimeOut(u) PROVE Once'
  BY <1>28 DEF TimeOut, Elapse
<1>29. ASSUME NEW u \in Tasks, Approach(u) PROVE Once'
  BY <1>29 DEF Approach
<1>30. ASSUME NEW u \in Tasks, DeleteTTL(u) PROVE Once'
  BY <1>30 DEF DeleteTTL
<1>31. CASE UNCHANGED vars
  BY <1>31 DEF vars
<1>32. QED
  BY <1>1, <1>2, <1>3, <1>4, <1>5, <1>6, <1>7, <1>8, <1>9, <1>10, <1>11,
     <1>12, <1>13, <1>14, <1>14a, <1>15, <1>16, <1>17, <1>18, <1>19, <1>20, <1>21,
     <1>22, <1>23, <1>24, <1>25, <1>26, <1>27, <1>28, <1>29, <1>30, <1>31
  DEF Next, HolderStep, ScheduleStep

-----------------------------------------------------------------------------
\* The second invariant holds initially.
LEMMA RetryInit == Init => RetryInv
BY DeliveryAssumption
DEF Init, QInit, RetryInv, RetryChainUnbroken, DuplicateHasCause, ChainIsBounded,
    SoleHolder, ResultIsFresh, SentOnce, FreshIsUnused, ChainKnows, Holding, Fresh,
    Procs

\* The second inductive invariant holds in every state.
THEOREM RetryInvariance == Spec => [](IndInv /\ RetryInv)
<1>1. IndInv /\ RetryInv /\ [Next]_vars => RetryInv'
  BY ResultStep, FreshStep, ChainStep, SoleStep, OnceStep
  DEF IndInv, RetryInv, Chain, Sole, Once
<1>2. QED
  BY RetryInit, Invariance, <1>1, PTL DEF Spec

\* For any numbers of nodes and faults: a failed attempt that is not exhausted is
\* followed by another, or still in the queue, unless its task was handed out
\* while in use or was added twice.
THEOREM RetriesAreNotLost == Spec => []RetryChainUnbroken
<1>1. RetryInv => RetryChainUnbroken
  BY DEF RetryInv
<1>2. QED
  BY RetryInvariance, <1>1, PTL

\* For any numbers of nodes and faults: an attempt whose request was sent twice
\* was handed out while in use, added twice, or abandoned after its request.
THEOREM DuplicatesAreExplained == Spec => []DuplicateHasCause
<1>1. RetryInv => DuplicateHasCause
  BY DEF RetryInv
<1>2. QED
  BY RetryInvariance, <1>1, PTL

\* For any retry configurations: no attempt is numbered beyond the longest.
THEOREM ChainsAreBounded == Spec => []ChainIsBounded
<1>1. RetryInv => ChainIsBounded
  BY DEF RetryInv
<1>2. QED
  BY RetryInvariance, <1>1, PTL
=============================================================================
