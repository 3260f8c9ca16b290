--------------------------- MODULE IngestionProofs ---------------------------
(***************************************************************************)
(* Theorems about Ingestion, for any number of events, listeners, unique   *)
(* ids and faults.                                                         *)
(***************************************************************************)
EXTENDS Ingestion, FiniteSetTheorems, SequenceTheorems, TLAPS

\* The two halves of OneEntryPerMessage, with what is needed to keep them.
Distinct == \A i, j \in 1 .. Len(unread) : unread[i] = unread[j] => i = j

Entries ==
    /\ Unread \cap (pending \cup acked) = {}
    /\ pending \cap acked = {}
    /\ LiveEntries
    /\ Unread \cup pending \cup acked \subseteq sent

\* The other half of StreamIsSent, and what a gateway knows of a synchronous event.
SentKnown == \A m \in sent : Known(Of[m]) \/ m \in Unread \cup pending
StoredIfAccepted == \A e \in Sync : answer[e] = "ok" => Known(e)

-----------------------------------------------------------------------------
(* What the three commands on the stream do to the set of unread entries. *)

\* XADD adds one message; it stays unique if it was not there.
LEMMA XAdds ==
    ASSUME NEW m \in Messages, unread \in Seq(Messages), XAdd(m)
    PROVE  /\ unread' \in Seq(Messages)
           /\ sent' = sent \cup {m}
           /\ Unread' = Unread \cup {m}
           /\ Distinct /\ m \notin Unread => Distinct'
BY DEF XAdd, Unread, Distinct

\* XREADGROUP splits the stream into the messages it returns and the others.
LEMMA XReadGroup ==
    ASSUME unread \in Seq(Messages), unread # <<>>, BatchCount \in Nat \ {0},
           unread' = SubSeq(unread, ReadLen + 1, Len(unread))
    PROVE  /\ unread' \in Seq(Messages)
           /\ FirstEntries \subseteq Messages
           /\ Unread = FirstEntries \cup Unread'
           /\ Distinct => Distinct' /\ FirstEntries \cap Unread' = {}
<1> DEFINE n == ReadLen
<1>1. n \in Nat /\ n <= Len(unread)
  BY DEF ReadLen
<1>2. unread' \in Seq(Messages) /\ Len(unread') = Len(unread) - n
  BY <1>1
<1>3. \A i \in 1 .. Len(unread') : unread'[i] = unread[i + n]
  BY <1>1, <1>2
<1> HIDE DEF n
<1>4. FirstEntries = {unread[i] : i \in 1 .. n}
  BY DEF FirstEntries, n
<1>5. \A i \in 1 .. Len(unread) : i \in 1 .. n \/ i - n \in 1 .. Len(unread')
  BY <1>1, <1>2
<1>6. \A i \in 1 .. n : i \in 1 .. Len(unread)
  BY <1>1
<1>7. \A i \in 1 .. Len(unread') : i + n \in 1 .. Len(unread) /\ i + n \notin 1 .. n
  BY <1>1, <1>2
<1>8. FirstEntries \subseteq Messages
  BY <1>4, <1>6
<1>9. \A i \in 1 .. Len(unread) : i - n \in 1 .. Len(unread') => unread'[i - n] = unread[i]
  BY <1>1, <1>2, <1>3
<1>10. Unread = FirstEntries \cup Unread'
  <2>1. Unread \subseteq FirstEntries \cup Unread'
    BY <1>4, <1>5, <1>9 DEF Unread
  <2>2. FirstEntries \subseteq Unread
    BY <1>4, <1>6 DEF Unread
  <2>3. Unread' \subseteq Unread
    BY <1>3, <1>7 DEF Unread
  <2>4. QED
    BY <2>1, <2>2, <2>3
<1>11. Distinct => Distinct'
  BY <1>1, <1>2, <1>3, <1>7 DEF Distinct
<1>12. Distinct => FirstEntries \cap Unread' = {}
  <2>1. SUFFICES ASSUME Distinct, NEW i \in 1 .. n, NEW j \in 1 .. Len(unread'),
                        unread[i] = unread'[j]
                 PROVE  FALSE
    BY <1>4 DEF Unread
  <2>2. unread[i] = unread[j + n]
    BY <1>3, <2>1
  <2>3. i = j + n
    BY <1>6, <1>7, <2>1, <2>2 DEF Distinct
  <2>4. QED
    BY <1>7, <2>3
<1>13. QED
  BY <1>2, <1>8, <1>10, <1>11, <1>12

\* The re-enqueue script adds each of the messages it takes once.
LEMMA XReenqueue ==
    ASSUME NEW S \in SUBSET Messages, IsFiniteSet(Messages), unread \in Seq(Messages),
           \E s \in Orders(S) : unread' = unread \o s
    PROVE  /\ unread' \in Seq(Messages)
           /\ Unread' = Unread \cup S
           /\ Distinct /\ Unread \cap S = {} => Distinct'
<1>1. PICK s \in Orders(S) : unread' = unread \o s
  OBVIOUS
<1>2. IsFiniteSet(S)
  BY FS_Subset
<1> DEFINE n == Cardinality(S)
<1>3. n \in Nat
  BY <1>2, FS_CardinalityType
<1>4. s \in [1 .. n -> S]
  BY DEF Orders
<1>5. \A e \in S : \E i \in 1 .. n : s[i] = e
  BY DEF Orders
<1>6. \A i, j \in 1 .. n : s[i] = s[j] => i = j
  BY DEF Orders
<1> HIDE DEF n
<1>7. s \in Seq(Messages) /\ Len(s) = n
  BY <1>3, <1>4
<1>8. /\ unread' \in Seq(Messages)
      /\ Len(unread') = Len(unread) + n
      /\ \A i \in 1 .. Len(unread') :
            unread'[i] = IF i <= Len(unread) THEN unread[i] ELSE s[i - Len(unread)]
  <2>1. /\ unread \o s \in Seq(Messages)
        /\ Len(unread \o s) = Len(unread) + Len(s)
        /\ \A i \in 1 .. Len(unread) + Len(s) :
              (unread \o s)[i] = IF i <= Len(unread) THEN unread[i] ELSE s[i - Len(unread)]
    BY <1>7, ConcatProperties, Zenon
  <2>2. QED
    BY <1>1, <1>7, <2>1, Zenon
<1>9. ASSUME NEW i \in 1 .. n
      PROVE  i + Len(unread) \in 1 .. Len(unread') /\ unread'[i + Len(unread)] = s[i]
  <2>1. /\ i + Len(unread) \in 1 .. Len(unread')
        /\ ~(i + Len(unread) <= Len(unread))
        /\ (i + Len(unread)) - Len(unread) = i
    BY <1>3, <1>8
  <2>2. QED
    BY <1>8, <2>1
<1>10. \A i \in 1 .. Len(unread) : i \in 1 .. Len(unread') /\ unread'[i] = unread[i]
  BY <1>3, <1>8
<1>11. \A i \in 1 .. Len(unread') : i \in 1 .. Len(unread) \/ i - Len(unread) \in 1 .. n
  BY <1>3, <1>8
<1>12. Unread' = Unread \cup S
  <2>1. Unread' \subseteq Unread \cup S
    BY <1>4, <1>8, <1>11 DEF Unread
  <2>2. Unread \subseteq Unread'
    BY <1>10 DEF Unread
  <2>3. S \subseteq Unread'
    BY <1>5, <1>9 DEF Unread
  <2>4. QED
    BY <2>1, <2>2, <2>3
<1>13. ASSUME Distinct, Unread \cap S = {} PROVE Distinct'
  <2>1. \A i \in 1 .. Len(unread) : unread[i] \notin S
    BY <1>13 DEF Unread
  <2>2. SUFFICES ASSUME NEW i \in 1 .. Len(unread'), NEW j \in 1 .. Len(unread'),
                        unread'[i] = unread'[j]
                 PROVE  i = j
    BY DEF Distinct
  <2>3. CASE i <= Len(unread) /\ j <= Len(unread)
    BY <1>8, <1>13, <2>2, <2>3 DEF Distinct
  <2>4. CASE i <= Len(unread) /\ ~(j <= Len(unread))
    <3>1. unread'[i] \notin S
      BY <1>8, <2>1, <2>4
    <3>2. j - Len(unread) \in 1 .. n
      BY <1>11, <2>4
    <3>3. unread'[j] \in S
      BY <1>4, <1>8, <2>4, <3>2
    <3>4. QED
      BY <2>2, <3>1, <3>3
  <2>5. CASE ~(i <= Len(unread)) /\ j <= Len(unread)
    <3>1. unread'[j] \notin S
      BY <1>8, <2>1, <2>5
    <3>2. i - Len(unread) \in 1 .. n
      BY <1>11, <2>5
    <3>3. unread'[i] \in S
      BY <1>4, <1>8, <2>5, <3>2
    <3>4. QED
      BY <2>2, <3>1, <3>3
  <2>6. CASE ~(i <= Len(unread)) /\ ~(j <= Len(unread))
    <3>1. i - Len(unread) \in 1 .. n /\ j - Len(unread) \in 1 .. n
      BY <1>11, <2>6
    <3>2. s[i - Len(unread)] = s[j - Len(unread)]
      BY <1>8, <2>2, <2>6
    <3>3. i - Len(unread) = j - Len(unread)
      BY <1>6, <3>1, <3>2
    <3>4. QED
      BY <3>3
  <2>7. QED
    BY <2>3, <2>4, <2>5, <2>6
<1>14. QED
  BY <1>8, <1>12, <1>13

-----------------------------------------------------------------------------
(* The inductive invariant, conjunct by conjunct. *)

\* What a gateway does for an asynchronous event, whatever becomes of its XADDs:
\* one new message of the event or none, and one if it accepts the event.
LEMMA Enqueuing ==
    ASSUME TypeOK, NEW e \in Events, Enqueue(e) \/ EnqueueRepeated(e) \/ EnqueueFails(e)
    PROVE  /\ e \in Async
           /\ \/ UNCHANGED <<sent, unread>>
              \/ \E m \in Messages \ sent : Of[m] = e /\ XAdd(m)
           /\ \A f \in Events : answer'[f] = "ok" =>
                 \/ answer[f] = "ok"
                 \/ f = e /\ \E m \in Messages \ sent : Of[m] = e /\ XAdd(m)
           /\ answer' \in [Events -> {"none", "ok", "error", "rejected"}]
           /\ faults' \in 0 .. MaxFaults
           /\ UNCHANGED <<pending, acked, group, table, pc, todo, batch, live>>
<1> USE DEF TypeOK, Fresh, MessagesOf
<1>1. CASE Enqueue(e)
  BY <1>1, IngestionAssumption DEF Enqueue
<1>2. CASE EnqueueRepeated(e)
  BY <1>2, IngestionAssumption DEF EnqueueRepeated
<1>3. CASE EnqueueFails(e)
  BY <1>3, IngestionAssumption DEF EnqueueFails
<1>4. QED
  BY <1>1, <1>2, <1>3

\* Every variable keeps its type.
LEMMA TypeStep ==
    ASSUME TypeOK, [Next]_vars
    PROVE  TypeOK'
<1> USE IngestionAssumption
<1> USE DEF TypeOK, PCs, Events, Procs, stream, table
<1>1. ASSUME NEW e \in Events, Reject(e) PROVE TypeOK'
  BY <1>1 DEF Reject
<1>2. ASSUME NEW e \in Events, Enqueue(e) \/ EnqueueRepeated(e) \/ EnqueueFails(e)
      PROVE  TypeOK'
  <2>1. CASE UNCHANGED <<sent, unread>>
    BY <1>2, <2>1, Enqueuing
  <2>2. ASSUME NEW m \in Messages, XAdd(m) PROVE TypeOK'
    <3>1. unread' \in Seq(Messages) /\ sent' \subseteq Messages
      BY <2>2, XAdds
    <3>2. QED
      BY <1>2, <3>1, Enqueuing
  <2>3. QED
    BY <1>2, <2>1, <2>2, Enqueuing
<1>4. ASSUME NEW e \in Events, Post(e) PROVE TypeOK'
  BY <1>4 DEF Post
<1>5. ASSUME NEW d \in Procs, ListExistingUniqueIDs(d) PROVE TypeOK'
  BY <1>5 DEF ListExistingUniqueIDs
<1>6. ASSUME NEW d \in Procs, InsertEvents(d) PROVE TypeOK'
  BY <1>6 DEF InsertEvents, Commit, DispatchReturns
<1>7. ASSUME NEW d \in Procs, InsertConflicts(d) PROVE TypeOK'
  BY <1>7 DEF InsertConflicts, DispatchReturns
<1>8. ASSUME NEW d \in Procs, DispatchFails(d) PROVE TypeOK'
  BY <1>8 DEF DispatchFails, DispatchReturns
<1>9. ASSUME NEW d \in Procs, CommitUnanswered(d) PROVE TypeOK'
  BY <1>9 DEF CommitUnanswered, Commit, DispatchReturns
<1>10. CASE CreateConsumerGroup
  BY <1>10 DEF CreateConsumerGroup
<1>11. ASSUME NEW l \in Listeners, Read(l) PROVE TypeOK'
  <2>1. unread' \in Seq(Messages) /\ FirstEntries \subseteq Messages
    BY <1>11, XReadGroup DEF Read
  <2>2. QED
    BY <1>11, <2>1 DEF Read
<1>12. ASSUME NEW l \in Listeners, Ack(l) PROVE TypeOK'
  BY <1>12 DEF Ack
<1>13. ASSUME NEW l \in Listeners, Delete(l) PROVE TypeOK'
  BY <1>13 DEF Delete, Rest
<1>14. ASSUME NEW l \in Listeners, DeleteFails(l) PROVE TypeOK'
  BY <1>14 DEF DeleteFails, Rest
<1>15. ASSUME NEW S \in SUBSET Messages, Reenqueue(S) PROVE TypeOK'
  <2>1. S \subseteq Messages /\ IsFiniteSet(Messages)
    OBVIOUS
  <2>2. unread' \in Seq(Messages)
    BY <1>15, <2>1, XReenqueue DEF Reenqueue
  <2>3. QED
    BY <1>15, <2>2 DEF Reenqueue
<1>16. CASE UNCHANGED vars
  BY <1>16 DEF vars
<1>17. QED
  BY <1>1, <1>2, <1>4, <1>5, <1>6, <1>7, <1>8, <1>9, <1>10, <1>11, <1>12,
     <1>13, <1>14, <1>15, <1>16 DEF Next, DispatchStep, ListenerStep

\* A step that leaves the unread entries alone leaves their set alone.
LEMMA UnreadStays ==
    ASSUME UNCHANGED unread
    PROVE  Unread' = Unread /\ (Distinct => Distinct')
BY DEF Unread, Distinct

\* Each event keeps at most one entry, and each listener the live ones it read.
LEMMA EntriesStep ==
    ASSUME IndInv, [Next]_vars
    PROVE  Distinct' /\ Entries'
<1> USE IngestionAssumption
<1> USE DEF IndInv, TypeOK, PCs, Events, Procs, stream, table, Entries, LiveEntries
<1>0. Distinct /\ Entries
  BY DEF OneEntryPerMessage, Distinct, StreamIsSent
<1>1. ASSUME NEW e \in Events, Reject(e) PROVE Distinct' /\ Entries'
  BY <1>1, <1>0, UnreadStays DEF Reject
<1>2. ASSUME NEW e \in Events, Enqueue(e) \/ EnqueueRepeated(e) \/ EnqueueFails(e)
      PROVE  Distinct' /\ Entries'
  <2>0. UNCHANGED <<pending, acked, batch, live, pc>>
    BY <1>2, Enqueuing
  <2>1. CASE UNCHANGED <<sent, unread>>
    BY <1>0, <2>0, <2>1, UnreadStays
  <2>2. ASSUME NEW m \in Messages \ sent, XAdd(m) PROVE Distinct' /\ Entries'
    <3>1. m \notin Unread \cup pending \cup acked
      BY <1>0, <2>2
    <3>2. sent' = sent \cup {m} /\ Unread' = Unread \cup {m} /\ Distinct'
      BY <1>0, <2>2, <3>1, XAdds
    <3>3. (Unread \cap (pending \cup acked) = {})' /\ (pending \cap acked = {})'
      BY <1>0, <2>0, <3>1, <3>2
    <3>4. LiveEntries' /\ (Unread \cup pending \cup acked \subseteq sent)'
      BY <1>0, <2>0, <3>2
    <3>5. QED
      BY <3>2, <3>3, <3>4
  <2>3. QED
    BY <1>2, <2>1, <2>2, Enqueuing
<1>4. ASSUME NEW e \in Events, Post(e) PROVE Distinct' /\ Entries'
  BY <1>4, <1>0, UnreadStays DEF Post
<1>5. ASSUME NEW d \in Procs, ListExistingUniqueIDs(d) PROVE Distinct' /\ Entries'
  BY <1>5, <1>0, UnreadStays DEF ListExistingUniqueIDs
<1>6. ASSUME NEW d \in Procs, InsertEvents(d) PROVE Distinct' /\ Entries'
  BY <1>6, <1>0, UnreadStays DEF InsertEvents, Commit, DispatchReturns
<1>7. ASSUME NEW d \in Procs, InsertConflicts(d) PROVE Distinct' /\ Entries'
  BY <1>7, <1>0, UnreadStays DEF InsertConflicts, DispatchReturns
<1>8. ASSUME NEW d \in Procs, DispatchFails(d) PROVE Distinct' /\ Entries'
  BY <1>8, <1>0, UnreadStays DEF DispatchFails, DispatchReturns
<1>9. ASSUME NEW d \in Procs, CommitUnanswered(d) PROVE Distinct' /\ Entries'
  BY <1>9, <1>0, UnreadStays DEF CommitUnanswered, Commit, DispatchReturns
<1>10. CASE CreateConsumerGroup
  BY <1>10, <1>0, UnreadStays DEF CreateConsumerGroup
<1>11. ASSUME NEW l \in Listeners, Read(l) PROVE Distinct' /\ Entries'
  <2>1. /\ Unread = FirstEntries \cup Unread'
        /\ Distinct' /\ FirstEntries \cap Unread' = {}
    BY <1>11, <1>0, XReadGroup DEF Read
  <2>2. QED
    <3>1. (Unread \cap (pending \cup acked) = {})' /\ (pending \cap acked = {})'
      BY <1>0, <1>11, <2>1 DEF Read
    <3>2. LiveEntries'
      BY <1>0, <1>11, <2>1 DEF Read
    <3>3. (Unread \cup pending \cup acked \subseteq sent)'
      BY <1>0, <1>11, <2>1 DEF Read
    <3>4. QED
      BY <3>1, <3>2, <3>3, <1>11, <2>1
<1>12. ASSUME NEW l \in Listeners, Ack(l) PROVE Distinct' /\ Entries'
  BY <1>12, <1>0, UnreadStays DEF Ack
<1>13. ASSUME NEW l \in Listeners, Delete(l) PROVE Distinct' /\ Entries'
  BY <1>13, <1>0, UnreadStays DEF Delete, Rest
<1>14. ASSUME NEW l \in Listeners, DeleteFails(l) PROVE Distinct' /\ Entries'
  BY <1>14, <1>0, UnreadStays DEF DeleteFails, Rest
<1>15. ASSUME NEW S \in SUBSET Messages, Reenqueue(S) PROVE Distinct' /\ Entries'
  <2>1. S \subseteq Messages /\ IsFiniteSet(Messages)
    OBVIOUS
  <2>2. Unread \cap S = {} /\ S \cap acked = {}
    BY <1>15, <1>0 DEF Reenqueue
  <2>3. Unread' = Unread \cup S /\ Distinct'
    <3>1. \E s \in Orders(S) : unread' = unread \o s
      BY <1>15 DEF Reenqueue
    <3>2. QED
      BY <1>0, <2>1, <2>2, <3>1, XReenqueue
  <2>4. QED
    <3>1. (Unread \cap (pending \cup acked) = {})' /\ (pending \cap acked = {})'
      BY <1>0, <1>15, <2>2, <2>3 DEF Reenqueue
    <3>2. LiveEntries'
      BY <1>15 DEF Reenqueue
    <3>3. (Unread \cup pending \cup acked \subseteq sent)'
      BY <1>0, <1>15, <2>1, <2>3 DEF Reenqueue
    <3>4. QED
      BY <2>3, <3>1, <3>2, <3>3
<1>16. CASE UNCHANGED vars
  BY <1>16, <1>0, UnreadStays DEF vars
<1>17. QED
  BY <1>1, <1>2, <1>4, <1>5, <1>6, <1>7, <1>8, <1>9, <1>10, <1>11, <1>12,
     <1>13, <1>14, <1>15, <1>16 DEF Next, DispatchStep, ListenerStep

\* What Dispatch was done with is in the table, or its unique id is.
LEMMA KnownStep ==
    ASSUME IndInv, [Next]_vars
    PROVE  DispatcherKnows'
<1> USE IngestionAssumption
<1> USE DEF IndInv, TypeOK, PCs, Events, Procs, stream, table, DispatcherKnows, Known
<1>1. ASSUME NEW e \in Events, Reject(e) PROVE DispatcherKnows'
  BY <1>1 DEF Reject
<1>2. ASSUME NEW e \in Events, Enqueue(e) \/ EnqueueRepeated(e) \/ EnqueueFails(e)
      PROVE  DispatcherKnows'
  BY <1>2, Enqueuing
<1>4. ASSUME NEW e \in Events, Post(e) PROVE DispatcherKnows'
  BY <1>4 DEF Post
<1>5. ASSUME NEW d \in Procs, ListExistingUniqueIDs(d) PROVE DispatcherKnows'
  BY <1>5 DEF ListExistingUniqueIDs
<1>6. ASSUME NEW d \in Procs, InsertEvents(d) PROVE DispatcherKnows'
  BY <1>6 DEF InsertEvents, Commit, DispatchReturns
<1>7. ASSUME NEW d \in Procs, InsertConflicts(d) PROVE DispatcherKnows'
  BY <1>7 DEF InsertConflicts, DispatchReturns
<1>8. ASSUME NEW d \in Procs, DispatchFails(d) PROVE DispatcherKnows'
  BY <1>8 DEF DispatchFails, DispatchReturns
<1>9. ASSUME NEW d \in Procs, CommitUnanswered(d) PROVE DispatcherKnows'
  BY <1>9 DEF CommitUnanswered, Commit, DispatchReturns
<1>10. CASE CreateConsumerGroup
  BY <1>10 DEF CreateConsumerGroup
<1>11. ASSUME NEW l \in Listeners, Read(l) PROVE DispatcherKnows'
  BY <1>11 DEF Read
<1>12. ASSUME NEW l \in Listeners, Ack(l) PROVE DispatcherKnows'
  BY <1>12 DEF Ack
<1>13. ASSUME NEW l \in Listeners, Delete(l) PROVE DispatcherKnows'
  BY <1>13 DEF Delete, Rest
<1>14. ASSUME NEW l \in Listeners, DeleteFails(l) PROVE DispatcherKnows'
  BY <1>14 DEF DeleteFails, Rest
<1>15. ASSUME NEW S \in SUBSET Messages, Reenqueue(S) PROVE DispatcherKnows'
  BY <1>15 DEF Reenqueue
<1>16. CASE UNCHANGED vars
  BY <1>16 DEF vars
<1>17. QED
  BY <1>1, <1>2, <1>4, <1>5, <1>6, <1>7, <1>8, <1>9, <1>10, <1>11, <1>12,
     <1>13, <1>14, <1>15, <1>16 DEF Next, DispatchStep, ListenerStep

\* The attempts of an event come with its row, once.
LEMMA FanoutStep ==
    ASSUME IndInv, [Next]_vars
    PROVE  FannedOutIsStored'
<1> USE IngestionAssumption
<1> USE DEF IndInv, TypeOK, PCs, Events, Procs, stream, table, FannedOutIsStored, Inserted
<1>1. ASSUME NEW e \in Events, Reject(e) PROVE FannedOutIsStored'
  BY <1>1 DEF Reject
<1>2. ASSUME NEW e \in Events, Enqueue(e) \/ EnqueueRepeated(e) \/ EnqueueFails(e)
      PROVE  FannedOutIsStored'
  BY <1>2, Enqueuing
<1>4. ASSUME NEW e \in Events, Post(e) PROVE FannedOutIsStored'
  BY <1>4 DEF Post
<1>5. ASSUME NEW d \in Procs, ListExistingUniqueIDs(d) PROVE FannedOutIsStored'
  BY <1>5 DEF ListExistingUniqueIDs
<1>6. ASSUME NEW d \in Procs, InsertEvents(d) PROVE FannedOutIsStored'
  BY <1>6 DEF InsertEvents, Commit, DispatchReturns
<1>7. ASSUME NEW d \in Procs, InsertConflicts(d) PROVE FannedOutIsStored'
  BY <1>7 DEF InsertConflicts, DispatchReturns
<1>8. ASSUME NEW d \in Procs, DispatchFails(d) PROVE FannedOutIsStored'
  BY <1>8 DEF DispatchFails, DispatchReturns
<1>9. ASSUME NEW d \in Procs, CommitUnanswered(d) PROVE FannedOutIsStored'
  BY <1>9 DEF CommitUnanswered, Commit, DispatchReturns
<1>10. CASE CreateConsumerGroup
  BY <1>10 DEF CreateConsumerGroup
<1>11. ASSUME NEW l \in Listeners, Read(l) PROVE FannedOutIsStored'
  BY <1>11 DEF Read
<1>12. ASSUME NEW l \in Listeners, Ack(l) PROVE FannedOutIsStored'
  BY <1>12 DEF Ack
<1>13. ASSUME NEW l \in Listeners, Delete(l) PROVE FannedOutIsStored'
  BY <1>13 DEF Delete, Rest
<1>14. ASSUME NEW l \in Listeners, DeleteFails(l) PROVE FannedOutIsStored'
  BY <1>14 DEF DeleteFails, Rest
<1>15. ASSUME NEW S \in SUBSET Messages, Reenqueue(S) PROVE FannedOutIsStored'
  BY <1>15 DEF Reenqueue
<1>16. CASE UNCHANGED vars
  BY <1>16 DEF vars
<1>17. QED
  BY <1>1, <1>2, <1>4, <1>5, <1>6, <1>7, <1>8, <1>9, <1>10, <1>11, <1>12,
     <1>13, <1>14, <1>15, <1>16 DEF Next, DispatchStep, ListenerStep

\* A message stays in the stream until its event is known.
LEMMA SentStep ==
    ASSUME IndInv, [Next]_vars
    PROVE  SentKnown'
<1> USE IngestionAssumption
<1> USE DEF IndInv, TypeOK, PCs, Events, Procs, stream, table, SentKnown, Known, DispatcherKnows,
        LiveEntries
<1>0. SentKnown
  BY DEF StreamIsSent
<1>1. ASSUME NEW e \in Events, Reject(e) PROVE SentKnown'
  BY <1>0, <1>1, UnreadStays DEF Reject
<1>2. ASSUME NEW e \in Events, Enqueue(e) \/ EnqueueRepeated(e) \/ EnqueueFails(e)
      PROVE  SentKnown'
  <2>0. UNCHANGED <<pending, stored>>
    BY <1>2, Enqueuing
  <2>1. CASE UNCHANGED <<sent, unread>>
    BY <1>0, <2>0, <2>1, UnreadStays
  <2>2. ASSUME NEW m \in Messages, XAdd(m) PROVE SentKnown'
    <3>1. sent' = sent \cup {m} /\ Unread' = Unread \cup {m}
      BY <2>2, XAdds
    <3>2. QED
      BY <1>0, <2>0, <3>1
  <2>3. QED
    BY <1>2, <2>1, <2>2, Enqueuing
<1>3. ASSUME NEW e \in Events, Post(e) PROVE SentKnown'
  BY <1>0, <1>3, UnreadStays DEF Post
<1>4. ASSUME NEW d \in Procs, ListExistingUniqueIDs(d) PROVE SentKnown'
  BY <1>0, <1>4, UnreadStays DEF ListExistingUniqueIDs
<1>5. ASSUME NEW d \in Procs, InsertEvents(d) \/ CommitUnanswered(d) PROVE SentKnown'
  <2>1. /\ Unread' = Unread /\ UNCHANGED <<sent, pending>>
        /\ stored \subseteq stored'
    BY <1>5, UnreadStays DEF InsertEvents, CommitUnanswered, Commit
  <2>2. QED
    BY <1>0, <2>1
<1>6. ASSUME NEW d \in Procs, InsertConflicts(d) \/ DispatchFails(d) PROVE SentKnown'
  BY <1>0, <1>6, UnreadStays DEF InsertConflicts, DispatchFails
<1>7. CASE CreateConsumerGroup
  BY <1>0, <1>7, UnreadStays DEF CreateConsumerGroup
<1>8. ASSUME NEW l \in Listeners, Read(l) PROVE SentKnown'
  <2>1. Unread = FirstEntries \cup Unread'
    BY <1>8, XReadGroup DEF Read
  <2>2. QED
    BY <1>0, <1>8, <2>1 DEF Read
<1>9. ASSUME NEW l \in Listeners, Ack(l) PROVE SentKnown'
  BY <1>0, <1>9, UnreadStays DEF Ack
<1>10. ASSUME NEW l \in Listeners, Delete(l) \/ DeleteFails(l) PROVE SentKnown'
  BY <1>0, <1>10, UnreadStays DEF Delete, DeleteFails, Rest
<1>11. ASSUME NEW S \in SUBSET Messages, Reenqueue(S) PROVE SentKnown'
  <2>1. \E s \in Orders(S) : unread' = unread \o s
    BY <1>11 DEF Reenqueue
  <2>2. Unread' = Unread \cup S
    BY <2>1, XReenqueue
  <2>3. QED
    BY <1>0, <1>11, <2>2 DEF Reenqueue
<1>12. CASE UNCHANGED vars
  BY <1>0, <1>12, UnreadStays DEF vars
<1>13. QED
  BY <1>1, <1>2, <1>3, <1>4, <1>5, <1>6, <1>7, <1>8, <1>9, <1>10, <1>11, <1>12
  DEF Next, DispatchStep, ListenerStep

\* A gateway accepts an event that it has sent, or that Dispatch has stored.
LEMMA AcceptedStep ==
    ASSUME IndInv, [Next]_vars
    PROVE  AcceptedIsSent' /\ StoredIfAccepted'
<1> USE IngestionAssumption
<1> USE DEF IndInv, TypeOK, PCs, Events, Procs, stream, table, AcceptedIsSent, StoredIfAccepted,
        MessagesOf, Known, DispatcherKnows
<1>0. StoredIfAccepted
  BY DEF AcceptedIsNotLost, InStream
<1>1. ASSUME NEW e \in Events, Reject(e) PROVE AcceptedIsSent' /\ StoredIfAccepted'
  BY <1>0, <1>1 DEF Reject
<1>2. ASSUME NEW e \in Events, Enqueue(e) \/ EnqueueRepeated(e) \/ EnqueueFails(e)
      PROVE  AcceptedIsSent' /\ StoredIfAccepted'
  <2>1. /\ e \in Async /\ sent \subseteq sent' /\ UNCHANGED stored
        /\ \A f \in Events : answer'[f] = "ok" =>
              \/ answer[f] = "ok"
              \/ f = e /\ \E m \in Messages : Of[m] = e /\ m \in sent'
    BY <1>2, Enqueuing DEF XAdd
  <2>2. QED
    BY <1>0, <2>1
<1>3. ASSUME NEW e \in Events, Post(e) PROVE AcceptedIsSent' /\ StoredIfAccepted'
  BY <1>0, <1>3 DEF Post
<1>4. ASSUME NEW d \in Procs, ListExistingUniqueIDs(d) PROVE AcceptedIsSent' /\ StoredIfAccepted'
  BY <1>0, <1>4 DEF ListExistingUniqueIDs
<1>5. ASSUME NEW d \in Procs, InsertEvents(d) PROVE AcceptedIsSent' /\ StoredIfAccepted'
  <2>1. UNCHANGED sent /\ stored \subseteq stored' /\ todo[d] \subseteq stored'
    BY <1>5 DEF InsertEvents, Commit
  <2>2. \A f \in Events : answer'[f] = "ok" =>
           answer[f] = "ok" \/ (f = d /\ d \in Sync /\ pc[d] = "insert")
    BY <1>5 DEF InsertEvents, DispatchReturns
  <2>3. d \in Sync /\ pc[d] = "insert" => Known(d)'
    BY <2>1
  <2>4. \A f \in Events : Known(f) => Known(f)'
    BY <2>1
  <2>5. StoredIfAccepted'
    BY <1>0, <2>2, <2>3, <2>4
  <2>6. AcceptedIsSent'
    <3>1. \A f \in Async : answer'[f] = "ok" => answer[f] = "ok"
      BY <2>2
    <3>2. \A f \in Async : answer[f] = "ok" => MessagesOf(f) \cap sent # {}
      BY DEF AcceptedIsSent
    <3>3. QED
      BY <2>1, <3>1, <3>2
  <2>7. QED
    BY <2>5, <2>6
<1>6. ASSUME NEW d \in Procs, InsertConflicts(d) \/ DispatchFails(d) \/ CommitUnanswered(d)
      PROVE  AcceptedIsSent' /\ StoredIfAccepted'
  <2>1. /\ UNCHANGED sent /\ stored \subseteq stored'
        /\ \A f \in Events : answer'[f] = "ok" => answer[f] = "ok"
    BY <1>6 DEF InsertConflicts, DispatchFails, CommitUnanswered, Commit, DispatchReturns
  <2>2. QED
    BY <1>0, <2>1
<1>7. ASSUME UNCHANGED <<answer, sent, stored>> PROVE AcceptedIsSent' /\ StoredIfAccepted'
  BY <1>0, <1>7
<1>8. QED
  BY <1>1, <1>2, <1>3, <1>4, <1>5, <1>6, <1>7
  DEF Next, DispatchStep, ListenerStep, CreateConsumerGroup, Read, Ack, Delete, DeleteFails,
      Reenqueue, vars

-----------------------------------------------------------------------------
(* The theorems *)

\* IndInv is an inductive invariant.
THEOREM Invariance == Spec => []IndInv
<1>1. Init => IndInv
  <2> SUFFICES ASSUME Init PROVE IndInv
    OBVIOUS
  <2> USE IngestionAssumption
  <2>1. Unread = {}
    BY DEF Init, Unread
  <2>2. TypeOK
    <3>1. unread \in Seq(Messages) /\ sent \subseteq Messages
      BY DEF Init
    <3>2. /\ pc \in [Procs -> PCs]
          /\ \A e \in Sync : pc[e] \in {"idle", "check", "insert"}
      BY DEF Init, PCs, Procs
    <3>3. answer \in [Events -> {"none", "ok", "error", "rejected"}]
      BY DEF Init
    <3>4. todo \in [Procs -> SUBSET Events] /\ fanouts \in [Events -> Nat]
      BY DEF Init
    <3>5. batch \in [Listeners -> SUBSET Messages] /\ live \in [Listeners -> SUBSET Messages]
      BY DEF Init
    <3>6. /\ pending \subseteq Messages /\ acked \subseteq Messages
          /\ stored \subseteq Events
          /\ faults \in 0 .. MaxFaults
      BY DEF Init
    <3>7. group \in BOOLEAN
      BY Zenon DEF Init
    <3>8. QED
      BY <3>1, <3>2, <3>3, <3>4, <3>5, <3>6, <3>7, Zenon DEF TypeOK
  <2>3. AcceptedIsNotLost /\ OneEntryPerMessage
    BY <2>1 DEF Init, AcceptedIsNotLost, OneEntryPerMessage
  <2>4. DispatcherKnows /\ LiveEntries
    BY DEF Init, DispatcherKnows, LiveEntries, Procs
  <2>5. StreamIsSent /\ AcceptedIsSent /\ FannedOutIsStored
    BY <2>1 DEF Init, StreamIsSent, AcceptedIsSent, FannedOutIsStored, Events
  <2>6. QED
    BY <2>2, <2>3, <2>4, <2>5 DEF IndInv
<1>2. IndInv /\ [Next]_vars => IndInv'
  <2> SUFFICES ASSUME IndInv, [Next]_vars PROVE IndInv'
    OBVIOUS
  <2>1. TypeOK'
    BY TypeStep DEF IndInv
  <2>2. OneEntryPerMessage' /\ LiveEntries' /\ StreamIsSent'
    BY EntriesStep, SentStep DEF OneEntryPerMessage, Distinct, Entries, StreamIsSent, SentKnown
  <2>3. DispatcherKnows' /\ FannedOutIsStored' /\ AcceptedIsSent'
    BY KnownStep, FanoutStep, AcceptedStep
  <2>4. AcceptedIsNotLost'
    BY <2>1, SentStep, AcceptedStep
    DEF AcceptedIsSent, StoredIfAccepted, SentKnown, AcceptedIsNotLost, InStream, MessagesOf,
        Events, TypeOK
  <2>5. QED
    BY <2>1, <2>2, <2>3, <2>4 DEF IndInv
<1>3. QED
  BY <1>1, <1>2, PTL DEF Spec

\* Type correctness of the gateway, the stream and the listeners.
THEOREM TypeCorrectness == Spec => []TypeOK
<1>1. IndInv => TypeOK
  BY DEF IndInv
<1>2. QED
  BY <1>1, Invariance, PTL

\* An event the gateway answered for is in the table, or is known by its unique
\* id, or its message is in the stream: no failure of a handler, of XACK and
\* XDEL or of a node, and no re-enqueue under a slow listener, loses it.
THEOREM AcceptedEventsAreNotLost == Spec => []AcceptedIsNotLost
<1>1. IndInv => AcceptedIsNotLost
  BY DEF IndInv
<1>2. QED
  BY <1>1, Invariance, PTL

\* The attempts of an event are inserted once, however many messages it has and
\* however often and by however many listeners each is handled.
THEOREM EventsAreFannedOutOnce == Spec => []FannedOutOnce
<1>1. IndInv => FannedOutOnce
  BY DEF IndInv, FannedOutIsStored, FannedOutOnce
<1>2. QED
  BY <1>1, Invariance, PTL

\* Messages do not multiply in the stream: it has an entry at most for each XADD.
THEOREM EntriesAreUnique == Spec => []OneEntryPerMessage
<1>1. IndInv => OneEntryPerMessage
  BY DEF IndInv
<1>2. QED
  BY <1>1, Invariance, PTL
=============================================================================
