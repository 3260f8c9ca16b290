------------------------------ MODULE Ingestion ------------------------------
(***************************************************************************)
(* From the HTTP request to the events table: the gateway's synchronous    *)
(* and asynchronous paths, the Redis stream between them, the listeners    *)
(* that consume it, and Dispatch, which de-duplicates events and inserts   *)
(* them with their attempts.                                               *)
(*                                                                         *)
(* Dispatch is run by the handler of a synchronous request, which has the  *)
(* event itself as its name, and by the listeners, for a batch.  It reads  *)
(* the unique ids that exist and inserts later, so two runs interleave     *)
(* between the two.                                                        *)
(*                                                                         *)
(* A message stands for one XADD that took effect.  It has at most one     *)
(* entry in the stream: the script that brings back idle messages replaces *)
(* the entry.  A listener that is still at the old one then acknowledges   *)
(* an id that is not there.  An event has a message more for every answer  *)
(* of Redis that was lost, because the client repeats the command.         *)
(***************************************************************************)
EXTENDS Integers, Sequences, FiniteSets

CONSTANTS
    Sync, Async,        \* events posted to a synchronous and to an async source
    Messages,           \* what the XADDs of the asynchronous events add
    Of,                 \* message -> its event
    Listeners,
    UniqueIds,          \* the unique ids in use
    Unique,             \* event -> the unique id it carries, or NoUnique
    NoUnique,
    BatchCount,         \* XREADGROUP COUNT
    MaxFaults           \* bound on calls that fail and processes that stop

Events == Sync \cup Async

ASSUME IngestionAssumption ==
    /\ Sync \cap Async = {}
    /\ Events \cap Listeners = {}
    /\ IsFiniteSet(Messages)
    /\ Of \in [Messages -> Async]
    /\ Unique \in [Events -> UniqueIds \cup {NoUnique}]
    /\ NoUnique \notin UniqueIds
    /\ BatchCount \in Nat \ {0}
    /\ MaxFaults \in Nat

VARIABLES
    answer,             \* event -> what its sender was told
    sent,               \* messages that were added to the stream
    unread,             \* stream entries the group has not been given yet
    pending,            \* messages whose entry is delivered and not acknowledged
    acked,              \* messages whose entry is acknowledged and not deleted
    group,              \* the consumer group exists
    stored,             \* the events table
    fanouts,            \* event -> transactions that inserted attempts of it
    pc,                 \* dispatching process -> its next step
    todo,               \* dispatching process -> the events it will insert
    batch,              \* listener -> the messages it read
    live,               \* listener -> those whose entry is still the one it read
    faults

vars == <<answer, sent, unread, pending, acked, group, stored, fanouts, pc, todo,
          batch, live, faults>>

stream == <<sent, unread, pending, acked, group>>
table == <<stored, fanouts>>

Procs == Sync \cup Listeners

Init ==
    /\ answer = [e \in Events |-> "none"]
    /\ sent = {} /\ unread = <<>> /\ pending = {} /\ acked = {} /\ group = FALSE
    /\ stored = {}
    /\ fanouts = [e \in Events |-> 0]
    /\ pc = [d \in Procs |-> "idle"]
    /\ todo = [d \in Procs |-> {}]
    /\ batch = [l \in Listeners |-> {}]
    /\ live = [l \in Listeners |-> {}]
    /\ faults = MaxFaults

\* Somebody who has the unique id of e is in the table (e itself, perhaps).
Known(e) ==
    \/ e \in stored
    \/ Unique[e] # NoUnique /\ \E f \in stored : Unique[f] = Unique[e]

\* The messages of an event, and those that an XADD may still add: the client
\* sends the command MaxRetries + 1 times at most, which Of bounds.
MessagesOf(e) == {m \in Messages : Of[m] = e}
Fresh(e) == MessagesOf(e) \ sent

-----------------------------------------------------------------------------
(* The gateway *)

\* No source for the request, rate limited, ended by a plugin, not valid, or an
\* asynchronous source on a node without the queue.
Reject(e) ==
    /\ answer[e] = "none"
    /\ e \in Sync => pc[e] = "idle"
    /\ MessagesOf(e) \cap sent = {}
    /\ answer' = [answer EXCEPT ![e] = "rejected"]
    /\ UNCHANGED <<stream, table, pc, todo, batch, live, faults>>

XAdd(m) ==
    /\ sent' = sent \cup {m}
    /\ unread' = Append(unread, m)

\* ingestEvent of an asynchronous source: XADD.
Enqueue(e) ==
    /\ e \in Async /\ answer[e] = "none"
    /\ \E m \in Fresh(e) : XAdd(m)
    /\ answer' = [answer EXCEPT ![e] = "ok"]
    /\ UNCHANGED <<pending, acked, group, table, pc, todo, batch, live, faults>>

\* The XADD takes effect, its answer is lost and the client sends it again.
EnqueueRepeated(e) ==
    /\ e \in Async /\ answer[e] = "none"
    /\ faults > 0 /\ faults' = faults - 1
    /\ \E m \in Fresh(e) : Fresh(e) # {m} /\ XAdd(m)
    /\ UNCHANGED <<answer, pending, acked, group, table, pc, todo, batch, live>>

\* The last XADD fails, with or without effect.
EnqueueFails(e) ==
    /\ e \in Async /\ answer[e] = "none"
    /\ faults > 0 /\ faults' = faults - 1
    /\ UNCHANGED <<sent, unread>> \/ \E m \in Fresh(e) : XAdd(m)
    /\ answer' = [answer EXCEPT ![e] = "error"]
    /\ UNCHANGED <<pending, acked, group, table, pc, todo, batch, live>>

\* ingestEvent of a synchronous source: dispatch of the one event.
Post(e) ==
    /\ e \in Sync /\ answer[e] = "none" /\ pc[e] = "idle"
    /\ todo' = [todo EXCEPT ![e] = {e}]
    /\ pc' = [pc EXCEPT ![e] = "check"]
    /\ UNCHANGED <<answer, stream, table, batch, live, faults>>

-----------------------------------------------------------------------------
(* Dispatch *)

\* Events whose unique id is in the table are filtered out.
ListExistingUniqueIDs(d) ==
    /\ pc[d] = "check"
    /\ todo' = [todo EXCEPT ![d] =
                  {e \in @ : Unique[e] = NoUnique
                             \/ \A f \in stored : Unique[f] # Unique[e]}]
    /\ pc' = [pc EXCEPT ![d] = "insert"]
    /\ UNCHANGED <<answer, stream, table, batch, live, faults>>

\* INSERT ... ON CONFLICT(id) DO NOTHING: rows whose id is there are skipped, but
\* the index on unique_id still refuses the statement.
ViolatesIndex(S) ==
    \E e \in S \ stored : \E f \in stored \cup S :
        f # e /\ Unique[e] # NoUnique /\ Unique[f] = Unique[e]

\* Mutant: the statement answers with the ids it was given (DO UPDATE).
InsertedAll(S) == S

\* The ids that the statement returns.
Inserted(S) == S \ stored

\* Mutants: the listener does not look at the handler's error; the handler of a
\* request acknowledges a message it does not have.
AckAnyway(d, ok) ==
    /\ pc' = [pc EXCEPT ![d] = IF d \in Listeners THEN "ack" ELSE "idle"]
    /\ todo' = [todo EXCEPT ![d] = {}]
    /\ answer' = IF d \in Sync
                   THEN [answer EXCEPT ![d] = IF ok THEN "ok" ELSE "error"]
                   ELSE answer
    /\ UNCHANGED <<batch, live>>
AckByAnyone(d, ok) ==
    /\ pc' = [pc EXCEPT ![d] = IF ok THEN "ack" ELSE "idle"]
    /\ todo' = [todo EXCEPT ![d] = {}]
    /\ answer' = IF d \in Sync
                   THEN [answer EXCEPT ![d] = IF ok THEN "ok" ELSE "error"]
                   ELSE answer
    /\ batch' = IF ok \/ d \in Sync THEN batch ELSE [batch EXCEPT ![d] = {}]
    /\ live' = IF ok \/ d \in Sync THEN live ELSE [live EXCEPT ![d] = {}]

\* Dispatch returns err to its caller: the sender of a synchronous event gets the
\* answer, a listener deletes its messages or leaves them.
DispatchReturns(d, ok) ==
    /\ pc' = [pc EXCEPT ![d] = IF ok /\ d \in Listeners THEN "ack" ELSE "idle"]
    /\ todo' = [todo EXCEPT ![d] = {}]
    /\ answer' = IF d \in Sync
                   THEN [answer EXCEPT ![d] = IF ok THEN "ok" ELSE "error"]
                   ELSE answer
    /\ batch' = IF ok \/ d \in Sync THEN batch ELSE [batch EXCEPT ![d] = {}]
    /\ live' = IF ok \/ d \in Sync THEN live ELSE [live EXCEPT ![d] = {}]

\* One transaction inserts the events and the attempts of those inserted that have
\* endpoints (M, from the registry).
Commit(S) ==
    /\ \E M \in SUBSET Inserted(S) :
        fanouts' = [e \in Events |-> IF e \in M THEN fanouts[e] + 1 ELSE fanouts[e]]
    /\ stored' = stored \cup S

InsertEvents(d) ==
    /\ pc[d] = "insert" /\ ~ViolatesIndex(todo[d])
    /\ Commit(todo[d])
    /\ DispatchReturns(d, TRUE)
    /\ UNCHANGED <<stream, faults>>

\* The index on unique_id refuses the statement, and with it the whole batch.
InsertConflicts(d) ==
    /\ pc[d] = "insert" /\ ViolatesIndex(todo[d])
    /\ DispatchReturns(d, FALSE)
    /\ UNCHANGED <<stream, table, faults>>

\* A statement fails, or the node stops.
DispatchFails(d) ==
    /\ pc[d] \in {"check", "insert"}
    /\ faults > 0 /\ faults' = faults - 1
    /\ DispatchReturns(d, FALSE)
    /\ UNCHANGED <<stream, table>>

\* The transaction commits, and the answer to COMMIT does not arrive.
CommitUnanswered(d) ==
    /\ pc[d] = "insert" /\ ~ViolatesIndex(todo[d])
    /\ faults > 0 /\ faults' = faults - 1
    /\ Commit(todo[d])
    /\ DispatchReturns(d, FALSE)
    /\ UNCHANGED stream

-----------------------------------------------------------------------------
(* The listeners *)

\* dequeue meets NOGROUP: the group is created, from the start of the stream.
CreateConsumerGroup ==
    /\ ~group
    /\ group' = TRUE
    /\ UNCHANGED <<answer, sent, unread, pending, acked, table, pc, todo, batch, live,
                   faults>>

\* How many messages one XREADGROUP returns, and which.
ReadLen == IF Len(unread) < BatchCount THEN Len(unread) ELSE BatchCount
FirstEntries == {unread[i] : i \in 1 .. ReadLen}

\* Mutant: XREADGROUP with NOACK, so that the group forgets what it hands out.
ReadNoAck(l) ==
    /\ group /\ pc[l] = "idle" /\ unread # <<>>
    /\ unread' = SubSeq(unread, ReadLen + 1, Len(unread))
    /\ batch' = [batch EXCEPT ![l] = FirstEntries]
    /\ live' = [live EXCEPT ![l] = FirstEntries]
    /\ todo' = [todo EXCEPT ![l] = {Of[m] : m \in FirstEntries}]
    /\ pc' = [pc EXCEPT ![l] = "check"]
    /\ UNCHANGED <<answer, sent, pending, acked, group, table, faults>>

\* XREADGROUP ">": the first messages that no consumer of the group was given.
Read(l) ==
    /\ group /\ pc[l] = "idle" /\ unread # <<>>
    /\ unread' = SubSeq(unread, ReadLen + 1, Len(unread))
    /\ pending' = pending \cup FirstEntries
    /\ batch' = [batch EXCEPT ![l] = FirstEntries]
    /\ live' = [live EXCEPT ![l] = FirstEntries]
    /\ todo' = [todo EXCEPT ![l] = {Of[m] : m \in FirstEntries}]
    /\ pc' = [pc EXCEPT ![l] = "check"]
    /\ UNCHANGED <<answer, sent, acked, group, table, faults>>

\* delete, first command: XACK of the messages read.
Ack(l) ==
    /\ pc[l] = "ack"
    /\ pending' = pending \ live[l]
    /\ acked' = acked \cup live[l]
    /\ pc' = [pc EXCEPT ![l] = "del"]
    /\ UNCHANGED <<answer, sent, unread, group, table, todo, batch, live, faults>>

Rest(l) ==
    /\ pc' = [pc EXCEPT ![l] = "idle"]
    /\ batch' = [batch EXCEPT ![l] = {}]
    /\ live' = [live EXCEPT ![l] = {}]

\* delete, second command: XDEL.
Delete(l) ==
    /\ pc[l] = "del"
    /\ acked' = acked \ live[l]
    /\ Rest(l)
    /\ UNCHANGED <<answer, sent, unread, pending, group, table, todo, faults>>

\* The pipeline of delete breaks before or between its commands.
DeleteFails(l) ==
    /\ pc[l] \in {"ack", "del"}
    /\ faults > 0 /\ faults' = faults - 1
    /\ Rest(l)
    /\ UNCHANGED <<answer, stream, table, todo>>

\* The sequences that hold each message of S once.
Orders(S) ==
    {s \in [1 .. Cardinality(S) -> S] :
        /\ \A m \in S : \E i \in 1 .. Cardinality(S) : s[i] = m
        /\ \A i, j \in 1 .. Cardinality(S) : s[i] = s[j] => i = j}

\* Mutant: the script adds the messages and leaves the old entries.
ReenqueueKeepsOld(S) ==
    /\ S # {} /\ S \subseteq pending
    /\ \E s \in Orders(S) : unread' = unread \o s
    /\ UNCHANGED <<answer, sent, pending, live, acked, group, table, pc, todo, batch, faults>>

\* process: messages pending for longer than the visibility timeout (any of them
\* may be, their listener slow or gone) are added again and the old entries
\* acknowledged and deleted, in one script.
Reenqueue(S) ==
    /\ S # {} /\ S \subseteq pending
    /\ \E s \in Orders(S) : unread' = unread \o s
    /\ pending' = pending \ S
    /\ live' = [l \in Listeners |-> live[l] \ S]
    /\ UNCHANGED <<answer, sent, acked, group, table, pc, todo, batch, faults>>

-----------------------------------------------------------------------------
DispatchStep(d) == ListExistingUniqueIDs(d) \/ InsertEvents(d) \/ InsertConflicts(d)
ListenerStep(l) == Ack(l) \/ Delete(l)

Next ==
    \/ \E e \in Events : Reject(e) \/ Enqueue(e) \/ EnqueueRepeated(e) \/ EnqueueFails(e) \/ Post(e)
    \/ \E d \in Procs : DispatchStep(d) \/ DispatchFails(d) \/ CommitUnanswered(d)
    \/ CreateConsumerGroup
    \/ \E l \in Listeners : Read(l) \/ ListenerStep(l) \/ DeleteFails(l)
    \/ \E S \in SUBSET Messages : Reenqueue(S)

Spec == Init /\ [][Next]_vars

\* The listeners of a running gateway go on and its ticker fires: messages are
\* read when there are any, and what stays pending is added again.
Fairness ==
    /\ \A d \in Procs : WF_vars(DispatchStep(d))
    /\ WF_vars(CreateConsumerGroup)
    /\ \A l \in Listeners : WF_vars(ListenerStep(l))
    /\ WF_vars(\E l \in Listeners : Read(l))
    /\ \A m \in Messages : SF_vars(\E S \in SUBSET pending : m \in S /\ Reenqueue(S))

FairSpec == Spec /\ Fairness

-----------------------------------------------------------------------------
(* Properties *)

PCs == {"idle", "check", "insert", "ack", "del"}

TypeOK ==
    /\ answer \in [Events -> {"none", "ok", "error", "rejected"}]
    /\ sent \subseteq Messages
    /\ unread \in Seq(Messages)
    /\ pending \subseteq Messages
    /\ acked \subseteq Messages
    /\ group \in BOOLEAN
    /\ stored \subseteq Events
    /\ fanouts \in [Events -> Nat]
    /\ pc \in [Procs -> PCs]
    /\ \A e \in Sync : pc[e] \in {"idle", "check", "insert"}
    /\ todo \in [Procs -> SUBSET Events]
    /\ batch \in [Listeners -> SUBSET Messages]
    /\ live \in [Listeners -> SUBSET Messages]
    /\ faults \in 0 .. MaxFaults

Unread == {unread[i] : i \in 1 .. Len(unread)}
InStream(e) == \E m \in MessagesOf(e) : m \in Unread \cup pending

\* An event whose sender was told it was accepted is in the table (or the event
\* that has its unique id is), or its message is where a listener or the
\* re-enqueue script will find it: whatever fails or stops, and however late a
\* listener acknowledges a message that was added again.
AcceptedIsNotLost ==
    \A e \in Events : answer[e] = "ok" => Known(e) \/ InStream(e)

\* The attempts of an event are inserted once, though it may have several messages,
\* in one batch or in two, and each may be handled many times and by several
\* listeners at once.
FannedOutOnce == \A e \in Events : fanouts[e] <= 1

\* The stream has one entry at most for every XADD that a gateway sent: a message
\* that the script added again does not multiply while a slow listener still has the
\* old one, and one that was acknowledged does not come back though its XDEL fails.
OneEntryPerMessage ==
    /\ \A i, j \in 1 .. Len(unread) : unread[i] = unread[j] => i = j
    /\ Unread \cap (pending \cup acked) = {}
    /\ pending \cap acked = {}

\* Every event that was accepted into the stream, or one with its unique id, is
\* stored in the end; of synchronous ones AcceptedIsNotLost says it at once.
AcceptedIsStored == \A e \in Async : answer[e] = "ok" ~> Known(e)

-----------------------------------------------------------------------------
(* The inductive invariant *)

\* What Dispatch filtered out is known, and so is what it was done with.
DispatcherKnows ==
    /\ \A l \in Listeners :
        /\ pc[l] \in {"check", "insert"} => \A m \in batch[l] : Of[m] \in todo[l] \/ Known(Of[m])
        /\ pc[l] \in {"ack", "del"} => \A m \in batch[l] : Known(Of[m])
    /\ \A e \in Sync : pc[e] # "idle" => e \in todo[e] \/ Known(e)

\* A listener's live entries are pending until it acknowledges them, and are no
\* other listener's.
LiveEntries ==
    \A l \in Listeners :
        /\ live[l] \subseteq batch[l]
        /\ pc[l] = "idle" => live[l] = {}
        /\ pc[l] \in {"check", "insert", "ack"} => live[l] \subseteq pending
        /\ pc[l] = "del" => live[l] \subseteq acked
        /\ \A m \in Listeners \ {l} : live[l] \cap live[m] = {}

\* What is in the stream was sent; what was sent is there until it is known.
StreamIsSent ==
    /\ Unread \cup pending \cup acked \subseteq sent
    /\ \A m \in sent : Known(Of[m]) \/ m \in Unread \cup pending

\* An event that a gateway accepted for the stream was sent.
AcceptedIsSent == \A e \in Async : answer[e] = "ok" => MessagesOf(e) \cap sent # {}

FannedOutIsStored ==
    \A e \in Events : fanouts[e] \in 0 .. 1 /\ (fanouts[e] = 1 => e \in stored)

IndInv ==
    /\ TypeOK
    /\ AcceptedIsNotLost
    /\ OneEntryPerMessage
    /\ DispatcherKnows
    /\ LiveEntries
    /\ StreamIsSent
    /\ AcceptedIsSent
    /\ FannedOutIsStored
=============================================================================
