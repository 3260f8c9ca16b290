---------------------------- MODULE RebuildProofs ----------------------------
(***************************************************************************)
(* Proofs about Rebuild: a router or an iterator that is outdated has a    *)
(* cause, for any number of nodes, overlapping jobs, updates and faults.   *)
(***************************************************************************)
EXTENDS Rebuild, TLAPS

\* Init satisfies the inductive invariant.
LEMMA Initially == Init => IndInv
  <1> SUFFICES ASSUME Init PROVE IndInv
    OBVIOUS
  <1> USE EventBusAssumption, RebuildAssumption
  <1>1. inTx \in BOOLEAN /\ aged \in BOOLEAN /\ torn \in BOOLEAN /\ missed \in BOOLEAN
    BY Zenon DEF Init, BusInit
  <1>2. BusTypeOK
    BY <1>1 DEF Init, BusInit, BusTypeOK
  <1>3. TypeOK
    BY <1>1, <1>2 DEF Init, TypeOK, Tokens, InitToken, NoToken, Nothing
  <1>4. JobsKnow /\ EarlyIsMissed /\ ListedHasCause /\ OwnerKnows /\ BuiltHasCause
    BY DEF Init, BusInit, JobsKnow, EarlyIsMissed, ListedHasCause, OwnerKnows,
           BuiltHasCause, InitToken, NoToken
  <1> QED
    BY <1>3, <1>4 DEF IndInv

\* Updates of rows and messages keep the types of the bus.
LEMMA BusTypeStep ==
  ASSUME BusTypeOK, NEW n \in Nodes,
         \/ Update(n) \/ UpdateInTx(n) \/ CommitTx \/ RollbackTx
         \/ ClusteringBroadcast(n) \/ NotifyFails(n) \/ LoseMessage(n) \/ BusCrash(n)
         \/ Receive(n) /\ UNCHANGED faults
         \/ Fault /\ UNCHANGED <<version, inTx, outbox, inbox>>
         \/ UNCHANGED bus
  PROVE  BusTypeOK'
  <1>1. inTx' \in BOOLEAN
    <2>1. inTx' \in {inTx, TRUE, FALSE}
      BY Zenon DEF Update, UpdateInTx, CommitTx, RollbackTx, ClusteringBroadcast, NotifyFails,
         LoseMessage, BusCrash, Receive, bus
    <2> QED
      BY <2>1, Zenon DEF BusTypeOK
  <1>2. version' \in 0 .. MaxVersion /\ (inTx' => version' < MaxVersion)
    BY EventBusAssumption DEF BusTypeOK, Update, UpdateInTx, CommitTx, RollbackTx,
       ClusteringBroadcast, NotifyFails, LoseMessage, BusCrash, Receive, bus
  <1>3. outbox' \in [Nodes -> Nat] /\ inbox' \in [Nodes -> Nat]
    BY DEF BusTypeOK, Update, UpdateInTx, CommitTx, RollbackTx, ClusteringBroadcast,
       NotifyFails, LoseMessage, BusCrash, Receive, bus
  <1>4. faults' \in 0 .. MaxFaults
    BY EventBusAssumption DEF BusTypeOK, Update, UpdateInTx, CommitTx, RollbackTx,
       ClusteringBroadcast, NotifyFails, LoseMessage, BusCrash, Receive, Fault, bus
  <1> QED
    BY <1>1, <1>2, <1>3, <1>4 DEF BusTypeOK

\* Every step keeps the flags Boolean.
LEMMA FlagStep ==
  TypeOK /\ [Next]_vars => aged' \in BOOLEAN /\ torn' \in BOOLEAN /\ missed' \in BOOLEAN
  <1> SUFFICES ASSUME TypeOK, [Next]_vars
               PROVE  aged' \in BOOLEAN /\ torn' \in BOOLEAN /\ missed' \in BOOLEAN
    OBVIOUS
  <1>1. aged' \in {aged, TRUE, FALSE}
    BY Zenon DEF Next, Change, Broadcast, Lose, Ignore, SetVersion, BuildInit, BuildInitFails,
       Subscribe, Crash, Age, Tick, RunJob, Compare, List, StoreRouter, MarkRouter,
       SetIterator, ListFails, vars, object
  <1>2. torn' \in BOOLEAN
    <2>1. CASE Crash BY <2>1, Zenon DEF Crash
    <2>2. ASSUME NEW j \in Jobs, MarkRouter(j) PROVE torn' \in BOOLEAN
      BY <2>2, Zenon DEF MarkRouter
    <2>3. CASE torn' = torn BY <2>3, Zenon DEF TypeOK
    <2> QED
      BY <2>1, <2>2, <2>3, Zenon DEF Next, Change, Broadcast, Lose, Ignore, SetVersion,
         BuildInit, BuildInitFails, Subscribe, Age, Tick, RunJob, Compare, List,
         StoreRouter, SetIterator, ListFails, vars, hist
  <1>3. missed' \in BOOLEAN
    <2>0. inTx \in BOOLEAN /\ missed \in BOOLEAN BY Zenon DEF TypeOK, BusTypeOK
    <2>1. CASE Crash BY <2>0, <2>1, Zenon DEF Crash
    <2>2. CASE SetVersion BY <2>0, <2>2, Zenon DEF SetVersion
    <2>3. ASSUME NEW n \in Nodes, Lose(n) PROVE missed' \in BOOLEAN
      BY <2>3, Zenon DEF Lose
    <2>4. ASSUME NEW n \in Nodes, Ignore(n) PROVE missed' \in BOOLEAN
      BY <2>4, Zenon DEF Ignore
    <2>5. CASE missed' = missed BY <2>0, <2>5, Zenon
    <2> QED
      BY <2>1, <2>2, <2>3, <2>4, <2>5, Zenon DEF Next, Change, Broadcast,
         BuildInit, BuildInitFails, Subscribe, Age, Tick, RunJob, Compare, List,
         StoreRouter, MarkRouter, SetIterator, ListFails, vars, hist
  <1> QED
    BY <1>1, <1>2, <1>3, Zenon DEF TypeOK

\* Every step keeps the types.
LEMMA TypeStep == TypeOK /\ [Next]_vars => TypeOK'
  <1> SUFFICES ASSUME TypeOK, [Next]_vars PROVE TypeOK'
    OBVIOUS
  <1>0. aged' \in BOOLEAN /\ torn' \in BOOLEAN /\ missed' \in BOOLEAN
    BY FlagStep
  <1>b. BusTypeOK BY DEF TypeOK
  <1> USE EventBusAssumption, RebuildAssumption
      DEF TypeOK, Tokens, InitToken, NoToken, Nothing
  <1>1. CASE Change
    <2>1. BusTypeOK'
      BY <1>1, <1>b, BusTypeStep DEF Change
    <2> QED
      BY <1>0, <1>1, <2>1 DEF Change, object, jobs, hist
  <1>2. ASSUME NEW n \in Nodes, Broadcast(n) PROVE TypeOK'
    <2>1. BusTypeOK'
      BY <1>2, <1>b, BusTypeStep DEF Broadcast
    <2> QED
      BY <1>0, <1>2, <2>1 DEF Broadcast, object, jobs, hist
  <1>3. ASSUME NEW n \in Nodes, Lose(n) PROVE TypeOK'
    <2>1. BusTypeOK'
      BY <1>3, <1>b, BusTypeStep DEF Lose
    <2> QED
      BY <1>0, <1>3, <2>1 DEF Lose, object, jobs
  <1>4. ASSUME NEW n \in Nodes, Ignore(n) PROVE TypeOK'
    <2>1. BusTypeOK'
      BY <1>4, <1>b, BusTypeStep DEF Ignore
    <2> QED
      BY <1>0, <1>4, <2>1 DEF Ignore, object, jobs
  <1>5. CASE SetVersion
    <2>1. BusTypeOK'
      BY <1>5, <1>b, BusTypeStep DEF SetVersion
    <2> QED
      BY <1>0, <1>5, <2>1 DEF SetVersion, jobs
  <1>6. CASE BuildInit
    <2>1. BusTypeOK'
      BY <1>6, <1>b, BusTypeStep DEF BuildInit
    <2> QED
      BY <1>0, <1>6, <2>1 DEF BuildInit, jobs, hist, BusTypeOK
  <1>7. CASE BuildInitFails
    <2>1. BusTypeOK'
      BY <1>7, <1>b, BusTypeStep DEF BuildInitFails
    <2> QED
      BY <1>0, <1>7, <2>1 DEF BuildInitFails, object, jobs, hist
  <1>8. CASE Subscribe
    <2>1. BusTypeOK'
      BY <1>8, <1>b, BusTypeStep DEF Subscribe
    <2> QED
      BY <1>0, <1>8, <2>1 DEF Subscribe, object, jobs, hist
  <1>9. CASE Crash
    <2>1. BusTypeOK'
      BY <1>9, <1>b, BusTypeStep DEF Crash
    <2> QED
      BY <1>0, <1>9, <2>1 DEF Crash
  <1>10. CASE Age
    <2>1. BusTypeOK'
      BY <1>10, <1>b, BusTypeStep DEF Age
    <2> QED
      BY <1>0, <1>10, <2>1 DEF Age, jobs, hist
  <1>11. ASSUME NEW j \in Jobs, UNCHANGED <<bus, kind, phase>>,
                \/ Tick(j) \/ Compare(j) \/ List(j)
                \/ StoreRouter(j) \/ MarkRouter(j) \/ SetIterator(j)
         PROVE  TypeOK'
    <2>1. BusTypeOK'
      BY <1>11, <1>b, BusTypeStep
    <2>2. version \in 0 .. MaxVersion
      BY <1>b DEF BusTypeOK
    <2> QED
      BY <1>0, <1>11, <2>1, <2>2
      DEF Tick, Compare, List, StoreRouter, MarkRouter, SetIterator, Goto, End, object, jobs, hist
  <1>12. ASSUME NEW j \in Jobs, ListFails(j) PROVE TypeOK'
    <2>1. BusTypeOK'
      BY <1>12, <1>b, BusTypeStep DEF ListFails
    <2> QED
      BY <1>0, <1>12, <2>1 DEF ListFails, End, object, hist
  <1>13. CASE UNCHANGED vars
    <2>1. BusTypeOK'
      BY <1>13, <1>b, BusTypeStep DEF vars
    <2> QED
      BY <1>0, <1>13, <2>1 DEF vars, object, jobs, hist
  <1>14. ASSUME NEW j \in Jobs, Tick(j) \/ RunJob(j) PROVE TypeOK'
    BY <1>11, <1>14
    DEF Tick, RunJob, Compare, List, StoreRouter, MarkRouter, SetIterator
  <1> QED
    BY <1>1, <1>2, <1>3, <1>4, <1>5, <1>6, <1>7, <1>8, <1>9, <1>10, <1>12, <1>13, <1>14
    DEF Next

\* Every step keeps what is known of jobs and tokens.
LEMMA JobsStep == TypeOK /\ JobsKnow /\ [Next]_vars => JobsKnow'
  <1> SUFFICES ASSUME TypeOK, JobsKnow, [Next]_vars PROVE JobsKnow'
    OBVIOUS
  <1> USE DEF TypeOK, JobsKnow, Tokens, InitToken, NoToken
  <1>1. CASE UNCHANGED <<kind, phase, object, jobs>> BY <1>1 DEF object, jobs
  <1>2. CASE SetVersion BY <1>2 DEF SetVersion, jobs
  <1>3. CASE BuildInit \/ BuildInitFails \/ Subscribe
    BY <1>3 DEF BuildInit, BuildInitFails, Subscribe, object, jobs
  <1>4. CASE Crash BY <1>4 DEF Crash
  <1>5. CASE Age BY <1>5 DEF Age, jobs
  <1>6. ASSUME NEW j \in Jobs, Tick(j) PROVE JobsKnow'
    BY <1>6 DEF Tick, object
  <1>7. ASSUME NEW j \in Jobs, RunJob(j) \/ ListFails(j) PROVE JobsKnow'
    BY <1>7 DEF RunJob, Compare, List, StoreRouter, MarkRouter, SetIterator, ListFails,
                Goto, End, object
  <1> QED
    BY <1>1, <1>2, <1>3, <1>4, <1>5, <1>6, <1>7
    DEF Next, Change, Broadcast, Lose, Ignore, vars

\* A message for the gateway stays one until the gateway takes it or it is lost.
LEMMA PendingStep ==
  ASSUME BusTypeOK, Pending(Gateway), NEW n \in Nodes,
         \/ Update(n) \/ UpdateInTx(n) \/ CommitTx \/ RollbackTx
         \/ ClusteringBroadcast(n)
         \/ n # Gateway /\ Receive(n)
         \/ UNCHANGED <<outbox, inbox>>
  PROVE  Pending(Gateway)'
  <1> USE RebuildAssumption DEF BusTypeOK, Pending
  <1>1. CASE Update(n) \/ UpdateInTx(n)
    BY <1>1 DEF Update, UpdateInTx
  <1>2. CASE ClusteringBroadcast(n)
    BY <1>2 DEF ClusteringBroadcast
  <1>3. CASE n # Gateway /\ Receive(n)
    BY <1>3 DEF Receive
  <1>4. CASE UNCHANGED <<outbox, inbox>>
    BY <1>4
  <1> QED
    BY <1>1, <1>2, <1>3, <1>4 DEF CommitTx, RollbackTx

\* A transaction that begins has a message to come.
LEMMA UpdatePends ==
  ASSUME BusTypeOK, NEW n \in Nodes, Update(n) \/ UpdateInTx(n)
  PROVE  Pending(Gateway)'
  BY DEF BusTypeOK, Update, UpdateInTx, Pending

\* Every step keeps the cause of a transaction whose message is gone.
LEMMA EarlyStep == IndInv /\ [Next]_vars => EarlyIsMissed'
  <1> SUFFICES ASSUME IndInv, [Next]_vars, inTx' PROVE Pending(Gateway)' \/ missed'
    BY DEF EarlyIsMissed
  <1>b. TypeOK /\ BusTypeOK /\ (inTx => Pending(Gateway) \/ missed)
    BY DEF IndInv, TypeOK, EarlyIsMissed
  <1>1. CASE Change
    <2>1. ASSUME NEW n \in Nodes, Update(n) \/ UpdateInTx(n) PROVE Pending(Gateway)'
      BY <1>b, <2>1, UpdatePends
    <2> QED
      BY <1>1, <2>1 DEF Change, CommitTx, RollbackTx
  <1>2. ASSUME NEW n \in Nodes, Broadcast(n) PROVE Pending(Gateway)' \/ missed'
    BY <1>b, <1>2, PendingStep DEF Broadcast, ClusteringBroadcast, hist
  <1>3. ASSUME NEW n \in Nodes, Lose(n) PROVE missed'
    BY <1>3 DEF Lose
  <1>4. ASSUME NEW n \in Nodes, Ignore(n) PROVE Pending(Gateway)' \/ missed'
    BY <1>b, <1>4, PendingStep DEF Ignore, Receive
  <1>5. CASE SetVersion BY <1>5 DEF SetVersion, Receive
  <1>6. CASE Crash BY <1>6 DEF Crash, BusCrash
  <1>7. CASE UNCHANGED <<inTx, outbox, inbox, missed>>
    BY <1>b, <1>7 DEF Pending
  <1> QED
    BY <1>1, <1>2, <1>3, <1>4, <1>5, <1>6, <1>7
    DEF Next, BuildInit, BuildInitFails, Subscribe, Age, Tick, RunJob, Compare, List,
        StoreRouter, MarkRouter, SetIterator, ListFails, vars, bus, hist

\* Every step keeps the causes of what jobs have listed.
LEMMA ListedStep == IndInv /\ [Next]_vars => ListedHasCause'
  <1> SUFFICES ASSUME IndInv, [Next]_vars, NEW k \in Jobs,
                      pc'[k] \in {"store", "mark"}, tok'[k] = token', val'[k] # version'
               PROVE  Pending(Gateway)' \/ missed'
    BY DEF ListedHasCause
  <1>b. /\ TypeOK /\ BusTypeOK /\ JobsKnow
        /\ inTx => Pending(Gateway) \/ missed
        /\ pc[k] \in {"store", "mark"} /\ tok[k] = token /\ val[k] # version =>
              Pending(Gateway) \/ missed
    BY DEF IndInv, TypeOK, EarlyIsMissed, ListedHasCause
  <1>1. CASE Change
    <2>1. ASSUME NEW n \in Nodes, Update(n) \/ UpdateInTx(n) PROVE Pending(Gateway)'
      BY <1>b, <2>1, UpdatePends
    <2>2. CASE CommitTx
      BY <1>1, <1>b, <2>2 DEF Change, CommitTx, Pending, hist
    <2>3. CASE RollbackTx
      BY <1>1, <1>b, <2>3 DEF Change, RollbackTx, Pending, object, jobs, hist
    <2> QED
      BY <1>1, <2>1, <2>2, <2>3 DEF Change
  <1>2. ASSUME NEW n \in Nodes, Broadcast(n) PROVE Pending(Gateway)' \/ missed'
    BY <1>b, <1>2, PendingStep DEF Broadcast, ClusteringBroadcast, object, jobs, hist
  <1>3. ASSUME NEW n \in Nodes, Lose(n) PROVE missed'
    BY <1>3 DEF Lose
  <1>4. ASSUME NEW n \in Nodes, Ignore(n) PROVE Pending(Gateway)' \/ missed'
    <2>1. CASE n = Gateway
      BY <1>b, <1>4, <2>1 DEF Ignore, jobs, JobsKnow
    <2>2. CASE n # Gateway
      BY <1>b, <1>4, <2>2, PendingStep DEF Ignore, Receive, object, jobs
    <2> QED
      BY <2>1, <2>2
  <1>5. CASE SetVersion
    BY <1>b, <1>5 DEF SetVersion, jobs, JobsKnow, TypeOK, Tokens
  <1>6. CASE Crash BY <1>6 DEF Crash
  <1>7. ASSUME NEW j \in Jobs, Tick(j) \/ RunJob(j) \/ ListFails(j)
        PROVE  Pending(Gateway)' \/ missed'
    <2>1. UNCHANGED <<version, outbox, inbox, token, missed>>
      BY <1>7 DEF Tick, RunJob, Compare, List, StoreRouter, MarkRouter, SetIterator,
                  ListFails, bus, object, hist
    <2>2. pc[k] \in {"store", "mark"} /\ tok[k] = token /\ val[k] # version
      BY <1>b, <1>7, <2>1 DEF Tick, RunJob, Compare, List, StoreRouter, MarkRouter,
         SetIterator, ListFails, Goto, End, TypeOK
    <2> QED
      BY <1>b, <2>1, <2>2 DEF Pending
  <1>8. CASE UNCHANGED <<version, outbox, inbox, token, pc, tok, val, missed>>
    BY <1>b, <1>8 DEF Pending
  <1> QED
    BY <1>1, <1>2, <1>3, <1>4, <1>5, <1>6, <1>7, <1>8
    DEF Next, BuildInit, BuildInitFails, Subscribe, Age, vars, bus, object, jobs, hist

\* Every step keeps the router that its owner has listed.
LEMMA OwnerStep == TypeOK /\ JobsKnow /\ OwnerKnows /\ [Next]_vars => OwnerKnows'
  <1> SUFFICES ASSUME TypeOK, JobsKnow, OwnerKnows, [Next]_vars, NEW k \in Jobs,
                      pc'[k] = "mark", owner' = k
               PROVE  content' = val'[k]
    BY DEF OwnerKnows
  <1> USE RebuildAssumption DEF TypeOK, JobsKnow, OwnerKnows
  <1>1. CASE UNCHANGED <<content, jobs, owner>> BY <1>1 DEF jobs
  <1>2. CASE BuildInit BY <1>2 DEF BuildInit, jobs
  <1>3. CASE Crash BY <1>3 DEF Crash
  <1>4. ASSUME NEW j \in Jobs, Tick(j) \/ RunJob(j) \/ ListFails(j) PROVE content' = val'[k]
    BY <1>4 DEF Tick, RunJob, Compare, List, StoreRouter, MarkRouter, SetIterator, ListFails,
                Goto, End, object, hist
  <1> QED
    BY <1>1, <1>2, <1>3, <1>4
    DEF Next, Change, Broadcast, Lose, Ignore, SetVersion, BuildInitFails, Subscribe, Age,
        vars, object, hist

\* Every step keeps the causes of what is outdated.  A change has a message on its
\* way, or its message was missed; a message that is handled brings a token that no
\* object was built for; and a job that records its token has stored the rows of
\* that token, unless another job has stored others in between.
LEMMA BuiltStep == IndInv /\ [Next]_vars => BuiltHasCause'
  <1> DEFINE Cause == \/ Pending(Gateway) \/ built # token
                      \/ \E j \in Jobs : pc[j] = "mark"
                      \/ missed \/ torn
  <1> SUFFICES ASSUME IndInv, [Next]_vars, phase' # "down", content' # version'
               PROVE  Cause'
    BY DEF BuiltHasCause
  <1>b. /\ TypeOK /\ BusTypeOK /\ JobsKnow /\ OwnerKnows
        /\ inTx => Pending(Gateway) \/ missed
        /\ phase # "down" /\ content # version => Cause
    BY DEF IndInv, TypeOK, EarlyIsMissed, BuiltHasCause
  <1>1. CASE Change
    <2>1. ASSUME NEW n \in Nodes, Update(n) \/ UpdateInTx(n) PROVE Pending(Gateway)'
      BY <1>b, <2>1, UpdatePends
    <2>2. CASE CommitTx
      BY <1>1, <1>b, <2>2 DEF Change, CommitTx, Pending, hist
    <2>3. CASE RollbackTx
      BY <1>1, <1>b, <2>3 DEF Change, RollbackTx, Pending, object, jobs, hist
    <2> QED
      BY <1>1, <2>1, <2>2, <2>3 DEF Change
  <1>2. ASSUME NEW n \in Nodes, Broadcast(n) PROVE Cause'
    BY <1>b, <1>2, PendingStep DEF Broadcast, ClusteringBroadcast, object, jobs, hist
  <1>3. ASSUME NEW n \in Nodes, Lose(n) PROVE Cause'
    BY <1>3 DEF Lose
  <1>4. ASSUME NEW n \in Nodes, Ignore(n) PROVE Cause'
    <2>1. CASE n = Gateway
      BY <1>b, <1>4, <2>1 DEF Ignore, TypeOK
    <2>2. CASE n # Gateway
      BY <1>b, <1>4, <2>2, PendingStep DEF Ignore, Receive, object, jobs
    <2> QED
      BY <2>1, <2>2
  <1>5. CASE SetVersion
    BY <1>b, <1>5 DEF SetVersion, JobsKnow, TypeOK, Tokens, NoToken
  <1>6. CASE BuildInit
    BY <1>6 DEF BuildInit, bus
  <1>7. CASE BuildInitFails
    <2>1. built = NoToken
      BY <1>b, <1>7 DEF BuildInitFails, JobsKnow
    <2> QED
      BY <1>b, <1>7, <2>1 DEF BuildInitFails, TypeOK, Tokens, NoToken, object
  <1>8. CASE Crash BY <1>8 DEF Crash
  <1>9. ASSUME NEW j \in Jobs, Tick(j) \/ RunJob(j) \/ ListFails(j) PROVE Cause'
    <2>1. UNCHANGED <<version, outbox, inbox, token, missed, phase>>
      BY <1>9 DEF Tick, RunJob, Compare, List, StoreRouter, MarkRouter, SetIterator,
                  ListFails, bus, object, hist
    <2>2. CASE StoreRouter(j)
      BY <1>b, <2>2 DEF StoreRouter, Goto, TypeOK
    <2>3. CASE MarkRouter(j)
      <3>1. CASE owner = j
        BY <1>b, <2>1, <2>3, <3>1 DEF MarkRouter, IndInv, ListedHasCause, OwnerKnows, Pending
      <3>2. CASE owner # j
        BY <2>3, <3>2 DEF MarkRouter
      <3> QED
        BY <3>1, <3>2
    <2>4. CASE SetIterator(j)
      BY <1>b, <2>1, <2>4 DEF SetIterator, IndInv, ListedHasCause, Pending
    <2>5. CASE Tick(j) \/ Compare(j) \/ List(j) \/ ListFails(j)
      <3>1. UNCHANGED <<content, built, torn>> /\ pc[j] # "mark"
        BY <2>5 DEF Tick, Compare, List, ListFails, object, hist
      <3>2. \A i \in Jobs : pc[i] = "mark" => pc'[i] = "mark"
        BY <1>b, <2>5, <3>1 DEF Tick, Compare, List, ListFails, Goto, End, TypeOK
      <3> QED
        BY <1>b, <2>1, <3>1, <3>2 DEF Pending
    <2> QED
      BY <1>9, <2>2, <2>3, <2>4, <2>5 DEF RunJob
  <1>10. CASE UNCHANGED <<version, outbox, inbox, content, built, token, pc, missed, torn>>
              /\ phase # "down"
    BY <1>b, <1>10 DEF Pending
  <1>11. CASE UNCHANGED vars
    BY <1>10, <1>11 DEF vars, bus, object, jobs, hist
  <1> QED
    BY <1>1, <1>2, <1>3, <1>4, <1>5, <1>6, <1>7, <1>8, <1>9, <1>10, <1>11
    DEF Next, Subscribe, Age, bus, object, jobs, hist

\* The inductive invariant holds of every reachable state.
THEOREM Invariance == Spec => []IndInv
  <1>1. IndInv /\ [Next]_vars => IndInv'
    BY TypeStep, JobsStep, EarlyStep, ListedStep, OwnerStep, BuiltStep DEF IndInv
  <1> QED
    BY Initially, <1>1, PTL DEF Spec

\* The router and the iterator keep their types: what a job publishes is what it has
\* listed, never the result of a query that failed.
THEOREM TypeCorrectness == Spec => []TypeOK
  <1>1. IndInv => TypeOK
    BY DEF IndInv
  <1> QED
    BY Invariance, <1>1, PTL

\* buildRouter and the rebuild of plugins leave an outdated object only with a message
\* or a token that will replace it, or for one of the two named causes.
THEOREM StalenessIsExplained == Spec => []StaleHasCause
  <1>1. IndInv => StaleHasCause
    BY DEF IndInv, BuiltHasCause, StaleHasCause
  <1> QED
    BY Invariance, <1>1, PTL
=============================================================================
