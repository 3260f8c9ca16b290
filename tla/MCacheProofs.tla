---------------------------- MODULE MCacheProofs ----------------------------
(***************************************************************************)
(* Proofs about MCache: messages suffice but for the races that are named, *)
(* and the times to live bound what they leave, for any number of nodes,   *)
(* callers, updates and faults, and for all times to live.                 *)
(***************************************************************************)
EXTENDS MCache, TLAPS

USE EventBusAssumption, MCacheAssumption

\* Init satisfies the inductive invariant.
LEMMA Initially == Init => IndInv
  <1> SUFFICES ASSUME Init PROVE IndInv
    OBVIOUS
  <1>1. inTx \in BOOLEAN /\ undisturbed \in BOOLEAN
    BY Zenon DEF Init, BusInit
  <1>2. BusTypeOK
    BY <1>1 DEF Init, BusInit, BusTypeOK
  <1>3. TypeOK
    BY <1>1, <1>2 DEF Init, TypeOK, Entries, Horizon
  <1>4. PastValues /\ MessagesAhead /\ MessagesSuffice /\ AgesAreBounded
    BY DEF Init, BusInit, PastValues, MessagesAhead, MessagesSuffice, AgesAreBounded,
           Live, Stale
  <1> QED
    BY <1>3, <1>4 DEF IndInv

\* Updates of the row and messages keep the types of the bus.
LEMMA BusTypeStep ==
  ASSUME BusTypeOK,
         \/ \E n \in Nodes :
               \/ Update(n) \/ UpdateInTx(n)
               \/ ClusteringBroadcast(n) \/ NotifyFails(n) \/ LoseMessage(n) \/ BusCrash(n)
               \/ Receive(n) /\ (UNCHANGED faults \/ Fault)
         \/ CommitTx \/ RollbackTx
         \/ Fault /\ UNCHANGED <<version, inTx, outbox, inbox>>
         \/ UNCHANGED bus
  PROVE  BusTypeOK'
  <1>1. inTx' \in BOOLEAN
    <2>1. inTx' \in {inTx, TRUE, FALSE}
      BY Zenon DEF Update, UpdateInTx, CommitTx, RollbackTx, ClusteringBroadcast, NotifyFails,
         LoseMessage, BusCrash, Receive, bus
    <2> QED
      BY <2>1, Zenon DEF BusTypeOK
  <1>2. version' \in 0 .. MaxVersion /\ (inTx' => version' < MaxVersion)
    BY DEF BusTypeOK, Update, UpdateInTx, CommitTx, RollbackTx,
       ClusteringBroadcast, NotifyFails, LoseMessage, BusCrash, Receive, bus
  <1>3. outbox' \in [Nodes -> Nat] /\ inbox' \in [Nodes -> Nat]
    BY DEF BusTypeOK, Update, UpdateInTx, CommitTx, RollbackTx, ClusteringBroadcast,
       NotifyFails, LoseMessage, BusCrash, Receive, bus
  <1>4. faults' \in 0 .. MaxFaults
    BY DEF BusTypeOK, Update, UpdateInTx, CommitTx, RollbackTx,
       ClusteringBroadcast, NotifyFails, LoseMessage, BusCrash, Receive, Fault, bus
  <1> QED
    BY <1>1, <1>2, <1>3, <1>4 DEF BusTypeOK

\* Time makes an entry older, or takes it out.
LEMMA OlderEntry ==
  ASSUME NEW e \in Entries
  PROVE  /\ Older(e) \in Entries
         /\ Live(Older(e)) => Live(e) /\ Older(e).val = e.val /\ Older(e).left = e.left - 1
  <1>1. CASE e = NoEntry
    BY <1>1 DEF Older, Entries, Live
  <1>2. CASE e # NoEntry /\ e.left = 1
    BY <1>2 DEF Older, Entries, Live
  <1>3. CASE e # NoEntry /\ e.left # 1
    <2>1. Older(e) = [e EXCEPT !.left = @ - 1]
      BY <1>3 DEF Older
    <2>2. e \in [val : 0 .. MaxVersion, left : Nat \ {0}]
      BY <1>3 DEF Entries
    <2> QED
      BY <1>3, <2>1, <2>2 DEF Entries, Live
  <1> QED
    BY <1>1, <1>2, <1>3

\* The flag that nothing was disturbed stays Boolean, and falls but does not rise.
LEMMA DisturbedStep ==
  ASSUME TypeOK, [Next]_vars
  PROVE  undisturbed' \in BOOLEAN /\ (undisturbed' => undisturbed)
  <1>1. undisturbed \in BOOLEAN
    BY Zenon DEF TypeOK
  <1> DEFINE Falls == \/ undisturbed' = undisturbed \/ undisturbed' = FALSE
                      \/ undisturbed' = (undisturbed /\ ~Disturbed)
  <1>2. ASSUME Change \/ Tick \/ UNCHANGED vars PROVE Falls
    BY <1>2, Zenon DEF Change, Tick, vars, hist
  <1>3. ASSUME NEW n \in Nodes, Broadcast(n) \/ Lose(n) \/ Crash(n) \/ Evict(n) PROVE Falls
    BY <1>3, Zenon DEF Broadcast, Lose, Crash, Evict, hist
  <1>4. ASSUME NEW n \in Nodes, InvalidateL2(n) \/ InvalidateFails(n) \/ InvalidateL1(n)
        PROVE  Falls
    BY <1>4, Zenon DEF InvalidateL2, InvalidateFails, InvalidateL1, Observe
  <1>5. ASSUME NEW c \in Callers, Load(c) PROVE Falls
    BY <1>5, Zenon DEF Load, MissL1, GetL2, Lock, ReadDB, PutL2, AddL1, LoadFails, hist
  <1>6. Falls
    BY <1>2, <1>3, <1>4, <1>5, Zenon DEF Next
  <1>7. (undisturbed /\ ~Disturbed) \in BOOLEAN /\ (undisturbed /\ ~Disturbed => undisturbed)
    BY Zenon
  <1>8. undisturbed' \in BOOLEAN
    BY <1>1, <1>6, <1>7, Zenon
  <1>9. ASSUME undisturbed' PROVE undisturbed
    <2>1. CASE undisturbed' = undisturbed BY <1>9, <2>1
    <2>2. CASE undisturbed' = FALSE BY <1>9, <2>2
    <2>3. CASE undisturbed' = (undisturbed /\ ~Disturbed) BY <1>9, <2>3
    <2> QED
      BY <1>6, <2>1, <2>2, <2>3
  <1> QED
    BY <1>8, <1>9

\* A Load that returns forgets what it had.
LEMMA ReturnTypes ==
  ASSUME TypeOK, NEW c \in Callers, Return(c)
  PROVE  /\ pc' = [pc EXCEPT ![c] = "idle"] /\ pc' \in [Callers -> {"idle", "l2", "add", "lock", "db", "put", "add3"}]
         /\ val' \in [Callers -> 0 .. MaxVersion]
         /\ spent' \in [Callers -> 0 .. MaxLoad]
  BY DEF TypeOK, Return, Goto

\* Every step keeps the types.
LEMMA TypeStep == TypeOK /\ [Next]_vars => TypeOK'
  <1> SUFFICES ASSUME TypeOK, [Next]_vars PROVE TypeOK'
    OBVIOUS
  <1>0. undisturbed' \in BOOLEAN
    BY DisturbedStep
  <1>b. BusTypeOK /\ version \in 0 .. MaxVersion BY DEF TypeOK, BusTypeOK
  <1> USE DEF TypeOK
  <1>1. CASE Change
    <2>1. BusTypeOK'
      BY <1>1, <1>b, BusTypeStep DEF Change
    <2> QED
      BY <1>0, <1>1, <2>1 DEF Change, caches, loads, hist
  <1>2. CASE Tick
    <2>1. BusTypeOK' /\ Horizon \in Nat
      BY <1>2, <1>b DEF Tick, bus, BusTypeOK, Horizon
    <2>2. l1' \in [Nodes -> Entries] /\ l2' \in Entries
      BY <1>2, OlderEntry DEF Tick
    <2>3. spent' \in [Callers -> 0 .. MaxLoad]
      BY <1>2 DEF Tick
    <2>4. age' \in [0 .. MaxVersion -> 0 .. Horizon]
      BY <1>2, <2>1 DEF Tick
    <2> QED
      BY <1>0, <1>2, <2>1, <2>2, <2>3, <2>4 DEF Tick
  <1>3. ASSUME NEW n \in Nodes,
               Broadcast(n) \/ Lose(n) \/ Crash(n) \/ Evict(n) \/ InvalidateL2(n)
                   \/ InvalidateFails(n) \/ InvalidateL1(n)
        PROVE  TypeOK'
    <2>1. BusTypeOK'
      BY <1>3, <1>b, BusTypeStep
      DEF Broadcast, Lose, Crash, Evict, InvalidateL2, InvalidateFails, InvalidateL1
    <2>2. CASE Broadcast(n) \/ Lose(n) \/ InvalidateFails(n)
      BY <1>0, <2>1, <2>2 DEF Broadcast, Lose, InvalidateFails, caches, loads, hist
    <2>3. CASE Crash(n)
      BY <1>0, <2>1, <2>3 DEF Crash, Entries
    <2>4. CASE Evict(n)
      BY <1>0, <2>1, <2>4 DEF Evict, Entries, loads, hist
    <2>5. CASE InvalidateL2(n)
      BY <1>0, <2>1, <2>5, SMTT(40) DEF InvalidateL2, Entries, loads
    <2>6. CASE InvalidateL1(n)
      BY <1>0, <2>1, <2>6 DEF InvalidateL1, Entries, loads
    <2> QED
      BY <1>3, <2>2, <2>3, <2>4, <2>5, <2>6
  <1>4. ASSUME NEW c \in Callers, Load(c) PROVE TypeOK'
    <2>0. NodeOf[c] \in Nodes
      OBVIOUS
    <2>1. BusTypeOK'
      BY <1>4, <1>b, <2>0, BusTypeStep
      DEF Load, MissL1, GetL2, Lock, ReadDB, PutL2, AddL1, LoadFails
    <2>2. CASE MissL1(c) BY <1>0, <2>1, <2>2 DEF MissL1, Goto, caches, hist
    <2>3. CASE GetL2(c)
      BY <1>0, <2>1, <2>3 DEF GetL2, Goto, Live, Entries, caches, hist
    <2>4. CASE Lock(c) BY <1>0, <2>1, <2>4, ReturnTypes DEF Lock, Goto, caches, hist
    <2>5. CASE ReadDB(c)
      BY <1>0, <1>b, <2>1, <2>5, ReturnTypes DEF ReadDB, Goto, caches, hist
    <2>6. CASE PutL2(c)
      BY <1>0, <2>1, <2>6 DEF PutL2, Goto, Entry, Entries, hist
    <2>7. CASE AddL1(c)
      BY <1>0, <2>0, <2>1, <2>7, ReturnTypes DEF AddL1, Entry, Entries, hist
    <2>8. CASE LoadFails(c)
      BY <1>0, <2>1, <2>8, ReturnTypes DEF LoadFails, caches, hist
    <2> QED
      BY <1>4, <2>2, <2>3, <2>4, <2>5, <2>6, <2>7, <2>8 DEF Load
  <1>5. CASE UNCHANGED vars
    BY <1>0, <1>b, <1>5 DEF vars, bus, caches, loads, hist, BusTypeOK
  <1> QED
    BY <1>1, <1>2, <1>3, <1>4, <1>5 DEF Next

\* Every step keeps values of the past and times within the times to live.
LEMMA PastStep == TypeOK /\ PastValues /\ [Next]_vars => PastValues'
  <1> SUFFICES ASSUME TypeOK, PastValues, [Next]_vars PROVE PastValues'
    OBVIOUS
  <1>b. BusTypeOK BY DEF TypeOK
  <1> USE DEF TypeOK, PastValues, Live
  <1>1. CASE Change
    <2>1. version' \in {version, version + 1}
      BY <1>1, <1>b DEF Change, Update, UpdateInTx, CommitTx, RollbackTx, BusTypeOK
    <2> QED
      BY <1>1, <1>b, <2>1 DEF Change, caches, loads, hist, Entries, BusTypeOK
  <1>2. CASE Tick
    <2>1. \A e \in Entries : Older(e) # NoEntry =>
             e # NoEntry /\ Older(e).val = e.val /\ Older(e).left = e.left - 1
      BY OlderEntry
    <2>2. /\ \A n \in Nodes : l1'[n] # NoEntry => l1'[n].val <= version' /\ l1'[n].left <= L1TTL
          /\ l2' # NoEntry => l2'.val <= version' /\ l2'.left <= L2TTL
      <3>1. ASSUME NEW n \in Nodes, l1'[n] # NoEntry
            PROVE  l1'[n].val <= version' /\ l1'[n].left <= L1TTL
        <4>1. l1'[n] = Older(l1[n]) /\ l1[n] \in Entries
          BY <1>2 DEF Tick
        <4>2. l1[n] # NoEntry /\ l1'[n].val = l1[n].val /\ l1'[n].left = l1[n].left - 1
          BY <2>1, <3>1, <4>1
        <4>3. l1[n].left \in Nat
          BY <4>1, <4>2 DEF Entries
        <4> QED
          BY <1>2, <4>2, <4>3 DEF Tick, bus
      <3>2. ASSUME l2' # NoEntry PROVE l2'.val <= version' /\ l2'.left <= L2TTL
        <4>1. l2' = Older(l2) /\ l2 \in Entries
          BY <1>2 DEF Tick
        <4>2. l2 # NoEntry /\ l2'.val = l2.val /\ l2'.left = l2.left - 1
          BY <2>1, <3>2, <4>1
        <4>3. l2.left \in Nat
          BY <4>1, <4>2 DEF Entries
        <4> QED
          BY <1>2, <4>2, <4>3 DEF Tick, bus
      <3> QED
        BY <3>1, <3>2
    <2>3. \A v \in DOMAIN age' : v > version' => age'[v] = 0
      BY <1>2, <1>b DEF Tick, bus, BusTypeOK
    <2>4. \A c \in Callers : val'[c] <= version'
      BY <1>2 DEF Tick, bus
    <2> QED
      BY <2>2, <2>3, <2>4
  <1>3. ASSUME NEW n \in Nodes,
               Broadcast(n) \/ Lose(n) \/ Evict(n) \/ InvalidateL2(n)
                   \/ InvalidateFails(n) \/ InvalidateL1(n)
        PROVE  PastValues'
    <2>1. UNCHANGED <<version, val, age>>
      BY <1>3 DEF Broadcast, Lose, Evict, InvalidateL2, InvalidateFails, InvalidateL1,
                  ClusteringBroadcast, NotifyFails, LoseMessage, Receive, bus, loads, hist
    <2>2. /\ \A m \in Nodes : l1'[m] \in {l1[m], NoEntry}
          /\ l2' \in {l2, NoEntry}
      <3>1. CASE Broadcast(n) \/ Lose(n) \/ InvalidateFails(n) \/ InvalidateL2(n)
        BY <3>1 DEF Broadcast, Lose, InvalidateFails, InvalidateL2, caches
      <3>2. CASE Evict(n) \/ InvalidateL1(n)
        BY <3>2 DEF Evict, InvalidateL1
      <3> QED
        BY <1>3, <3>1, <3>2
    <2> QED
      BY <2>1, <2>2
  <1>4. ASSUME NEW n \in Nodes, Crash(n) PROVE PastValues'
    BY <1>b, <1>4 DEF Crash, BusCrash, BusTypeOK
  <1>5. ASSUME NEW c \in Callers, Load(c) PROVE PastValues'
    <2>0. NodeOf[c] \in Nodes /\ version \in 0 .. MaxVersion
      BY <1>b DEF BusTypeOK
    <2>1. UNCHANGED <<version, age>>
      BY <1>5 DEF Load, MissL1, GetL2, Lock, ReadDB, PutL2, AddL1, LoadFails, bus, hist
    <2>2. CASE MissL1(c) BY <2>1, <2>2 DEF MissL1, caches
    <2>3. CASE GetL2(c) BY <2>1, <2>3 DEF GetL2, caches
    <2>r. ASSUME Return(c) \/ UNCHANGED val \/ val' = [val EXCEPT ![c] = version],
                 UNCHANGED caches
          PROVE  PastValues'
      <3>1. val' \in {val, [val EXCEPT ![c] = version], [val EXCEPT ![c] = 0]}
        BY <2>r DEF Return
      <3>2. \A d \in Callers : val'[d] \in {val[d], version, 0}
        BY <3>1
      <3>3. ASSUME NEW d \in Callers PROVE val'[d] <= version'
        <4>1. val[d] <= version /\ 0 <= version /\ version <= version /\ version' = version
          BY <2>0, <2>1
        <4> QED
          BY <3>2, <4>1
      <3> QED
        BY <2>1, <2>r, <3>3 DEF caches
    <2>4. CASE Lock(c) BY <2>r, <2>4 DEF Lock
    <2>5. CASE ReadDB(c) BY <2>r, <2>5 DEF ReadDB
    <2>6. CASE PutL2(c) BY <2>1, <2>6 DEF PutL2, Entry
    <2>7. CASE AddL1(c) BY <2>0, <2>1, <2>7 DEF AddL1, Return, Entry
    <2>8. CASE LoadFails(c) BY <2>0, <2>1, <2>8 DEF LoadFails, Return, caches
    <2> QED
      BY <1>5, <2>2, <2>3, <2>4, <2>5, <2>6, <2>7, <2>8 DEF Load
  <1>6. CASE UNCHANGED vars
    BY <1>6 DEF vars, bus, caches, loads, hist
  <1> QED
    BY <1>1, <1>2, <1>3, <1>4, <1>5, <1>6 DEF Next

\* A statement, and the goroutine that propagates it, have a message for every node.
LEMMA NewMessages ==
  ASSUME BusTypeOK, NEW m \in Nodes, Update(m) \/ UpdateInTx(m) \/ ClusteringBroadcast(m),
         NEW n \in Nodes
  PROVE  Pending(n)'
  BY DEF BusTypeOK, Update, UpdateInTx, ClusteringBroadcast, Pending

\* A message for a node stays one until that node takes it.
LEMMA MessagesStay ==
  ASSUME BusTypeOK, NEW n \in Nodes, Pending(n),
         UNCHANGED <<outbox, inbox>> \/ \E m \in Nodes \ {n} : Receive(m)
  PROVE  Pending(n)'
  BY DEF BusTypeOK, Receive, Pending

\* Handling a message leaves nothing disturbed only when no transaction is open and
\* no Load holds an outdated value.
LEMMA QuietHandling ==
  ASSUME Observe, undisturbed'
  PROVE  /\ ~inTx
         /\ \A c \in Callers : pc[c] \in {"add", "put", "add3"} => val[c] = version
  <1>1. undisturbed' = (undisturbed /\ ~Disturbed)
    BY Zenon DEF Observe
  <1>2. ~Disturbed
    BY <1>1
  <1> QED
    BY <1>2 DEF Disturbed

\* Every step keeps the messages that transactions and Loads have ahead of them.
LEMMA AheadStep == IndInv /\ [Next]_vars => MessagesAhead'
  <1> DEFINE Holds(c) == pc[c] \in {"add", "put", "add3"} /\ val[c] # version
  <1> SUFFICES ASSUME IndInv, [Next]_vars, undisturbed'
               PROVE  /\ inTx' => \A n \in Nodes : Pending(n)'
                      /\ \A c \in Callers : Holds(c)' => \A n \in DataNodes : Pending(n)'
    BY DEF MessagesAhead
  <1> DEFINE Goal == /\ inTx' => \A n \in Nodes : Pending(n)'
                     /\ \A c \in Callers : Holds(c)' => \A n \in DataNodes : Pending(n)'
  <1>b. /\ TypeOK /\ BusTypeOK /\ undisturbed
        /\ inTx => \A n \in Nodes : Pending(n)
        /\ \A c \in Callers : Holds(c) => \A n \in DataNodes : Pending(n)
        /\ Stale(l2) => \A n \in DataNodes : Pending(n)
    <2>1. TypeOK /\ BusTypeOK BY DEF IndInv, TypeOK
    <2>2. undisturbed BY <2>1, DisturbedStep
    <2> QED BY <2>1, <2>2 DEF IndInv, MessagesAhead, MessagesSuffice
  <1>1. CASE Change
    <2>1. ASSUME NEW m \in Nodes, Update(m) \/ UpdateInTx(m) PROVE Goal
      BY <1>b, <2>1, NewMessages
    <2>2. CASE CommitTx
      BY <1>b, <2>2, MessagesStay DEF CommitTx
    <2>3. CASE RollbackTx
      BY <1>1, <1>b, <2>3, MessagesStay DEF Change, RollbackTx, loads
    <2> QED
      BY <1>1, <2>1, <2>2, <2>3 DEF Change
  <1>2. ASSUME NEW n \in Nodes, Broadcast(n) PROVE Goal
    BY <1>b, <1>2, NewMessages DEF Broadcast
  <1>3. ASSUME NEW n \in Nodes, Lose(n) \/ Crash(n) \/ InvalidateFails(n) PROVE Goal
    BY <1>3 DEF Lose, Crash, InvalidateFails
  <1>4. ASSUME NEW n \in Nodes, InvalidateL2(n) PROVE Goal
    BY <1>4, QuietHandling DEF InvalidateL2, Receive, loads
  <1>5. ASSUME NEW n \in Nodes, InvalidateL1(n) PROVE Goal
    BY <1>5, QuietHandling DEF InvalidateL1, loads, bus
  <1>6. CASE UNCHANGED <<bus, pc, val>>
    BY <1>b, <1>6 DEF bus, Pending
  <1>7. ASSUME NEW c \in Callers, Load(c) PROVE Goal
    <2>1. UNCHANGED <<version, inTx, outbox, inbox>>
      BY <1>7 DEF Load, MissL1, GetL2, Lock, ReadDB, PutL2, AddL1, LoadFails, bus
    <2>2. ASSUME NEW d \in Callers, Holds(d)' PROVE Holds(d) \/ Stale(l2)
      <3>1. CASE MissL1(c) BY <1>b, <2>1, <2>2, <3>1 DEF MissL1, Goto, TypeOK
      <3>2. CASE GetL2(c) BY <1>b, <2>1, <2>2, <3>2 DEF GetL2, Goto, TypeOK, Stale
      <3>3. CASE Lock(c) BY <1>b, <2>1, <2>2, <3>3 DEF Lock, Goto, Return, TypeOK
      <3>4. CASE ReadDB(c) BY <1>b, <2>1, <2>2, <3>4 DEF ReadDB, Goto, Return, TypeOK
      <3>5. CASE PutL2(c) BY <1>b, <2>1, <2>2, <3>5 DEF PutL2, Goto, TypeOK
      <3>6. CASE AddL1(c) BY <1>b, <2>1, <2>2, <3>6 DEF AddL1, Goto, Return, TypeOK
      <3>7. CASE LoadFails(c) BY <1>b, <2>1, <2>2, <3>7 DEF LoadFails, Goto, Return, TypeOK
      <3> QED BY <1>7, <3>1, <3>2, <3>3, <3>4, <3>5, <3>6, <3>7 DEF Load
    <2> QED
      BY <1>b, <2>1, <2>2 DEF Pending
  <1> QED
    BY <1>1, <1>2, <1>3, <1>4, <1>5, <1>6, <1>7 DEF Next, Tick, Evict, vars, loads

\* Every step keeps a message on its way for what is outdated.
LEMMA SufficeStep == IndInv /\ [Next]_vars => MessagesSuffice'
  <1> DEFINE Goal == /\ \A n \in Nodes : Stale(l1[n])' => Pending(n)' \/ removing'[n] > 0
                     /\ Stale(l2)' => \A n \in DataNodes : Pending(n)'
  <1> SUFFICES ASSUME IndInv, [Next]_vars, undisturbed' PROVE Goal
    BY DEF MessagesSuffice
  <1>b. /\ TypeOK /\ BusTypeOK
        /\ inTx => \A n \in Nodes : Pending(n)
        /\ \A c \in Callers : pc[c] \in {"add", "put", "add3"} /\ val[c] # version =>
              \A n \in DataNodes : Pending(n)
        /\ \A n \in Nodes : Stale(l1[n]) => Pending(n) \/ removing[n] > 0
        /\ Stale(l2) => \A n \in DataNodes : Pending(n)
    <2>1. TypeOK /\ BusTypeOK BY DEF IndInv, TypeOK
    <2>2. undisturbed BY <2>1, DisturbedStep
    <2> QED BY <2>1, <2>2 DEF IndInv, MessagesAhead, MessagesSuffice
  <1>p. ASSUME UNCHANGED <<outbox, inbox>> PROVE \A n \in Nodes : Pending(n) <=> Pending(n)'
    BY <1>p DEF Pending
  <1>1. CASE Change
    <2>1. ASSUME NEW m \in Nodes, Update(m) \/ UpdateInTx(m) PROVE Goal
      BY <1>b, <2>1, NewMessages
    <2>2. CASE CommitTx
      BY <1>b, <1>p, <2>2 DEF CommitTx
    <2>3. CASE RollbackTx
      BY <1>1, <1>b, <1>p, <2>3 DEF Change, RollbackTx, caches, Stale, Live
    <2> QED
      BY <1>1, <2>1, <2>2, <2>3 DEF Change
  <1>2. ASSUME NEW n \in Nodes, Broadcast(n) PROVE Goal
    BY <1>b, <1>2, NewMessages DEF Broadcast
  <1>3. ASSUME NEW n \in Nodes, Lose(n) \/ Crash(n) \/ InvalidateFails(n) PROVE Goal
    BY <1>3 DEF Lose, Crash, InvalidateFails
  <1>4. ASSUME NEW n \in Nodes, InvalidateL2(n) PROVE Goal
    <2>1. UNCHANGED <<version, l1>> /\ removing' = [removing EXCEPT ![n] = @ + 1]
      BY <1>4 DEF InvalidateL2, Receive
    <2>2. ASSUME NEW m \in Nodes, Stale(l1[m])' PROVE Pending(m)' \/ removing'[m] > 0
      <3>1. Pending(m) \/ removing[m] > 0
        BY <1>b, <2>1, <2>2 DEF Stale, Live
      <3>2. CASE m = n
        BY <1>b, <2>1, <3>2 DEF TypeOK
      <3>3. CASE m # n
        BY <1>b, <1>4, <2>1, <3>1, <3>3, MessagesStay DEF InvalidateL2, TypeOK
      <3> QED
        BY <3>2, <3>3
    <2>3. ASSUME Stale(l2)', NEW m \in DataNodes PROVE Pending(m)'
      <3>1. n \notin DataNodes /\ l2' = l2
        BY <1>4, <2>3 DEF InvalidateL2, Stale, Live
      <3>2. Pending(m) /\ m # n
        BY <1>b, <2>1, <2>3, <3>1 DEF Stale, Live
      <3> QED
        BY <1>b, <1>4, <3>2, MessagesStay DEF InvalidateL2
    <2> QED
      BY <2>2, <2>3
  <1>5. ASSUME NEW n \in Nodes, InvalidateL1(n) \/ Evict(n) PROVE Goal
    <2>1. UNCHANGED <<version, l2>> /\ \A m \in Nodes : Pending(m) <=> Pending(m)'
      BY <1>5, <1>p DEF InvalidateL1, Evict, bus
    <2>2. l1' = [l1 EXCEPT ![n] = NoEntry]
          /\ \A m \in Nodes \ {n} : removing'[m] = removing[m]
      BY <1>b, <1>5 DEF InvalidateL1, Evict, TypeOK
    <2>3. ASSUME NEW m \in Nodes, Stale(l1[m])' PROVE m # n /\ l1'[m] = l1[m]
      BY <1>b, <2>2, <2>3 DEF Stale, Live, TypeOK
    <2> QED
      BY <1>b, <2>1, <2>2, <2>3 DEF Stale, Live
  <1>6. CASE Tick
    <2>1. UNCHANGED <<version, removing>> /\ \A m \in Nodes : Pending(m) <=> Pending(m)'
      BY <1>6, <1>p DEF Tick, bus
    <2>2. ASSUME NEW m \in Nodes, Stale(l1[m])' PROVE Stale(l1[m])
      <3>1. l1'[m] = Older(l1[m]) /\ l1[m] \in Entries
        BY <1>b, <1>6 DEF Tick, TypeOK
      <3> QED
        BY <2>1, <2>2, <3>1, OlderEntry DEF Stale, Live
    <2>3. ASSUME Stale(l2)' PROVE Stale(l2)
      <3>1. l2' = Older(l2) /\ l2 \in Entries
        BY <1>b, <1>6 DEF Tick, TypeOK
      <3> QED
        BY <2>1, <2>3, <3>1, OlderEntry DEF Stale, Live
    <2> QED
      BY <1>b, <2>1, <2>2, <2>3
  <1>7. ASSUME NEW c \in Callers, Load(c) PROVE Goal
    <2>1. UNCHANGED <<version, removing>> /\ \A m \in Nodes : Pending(m) <=> Pending(m)'
      BY <1>7, <1>p DEF Load, MissL1, GetL2, Lock, ReadDB, PutL2, AddL1, LoadFails, bus
    <2>2. CASE UNCHANGED caches
      BY <1>b, <2>1, <2>2 DEF caches, Stale, Live
    <2>3. CASE PutL2(c)
      BY <1>b, <2>1, <2>3 DEF PutL2, Entry, Stale, Live
    <2>4. CASE AddL1(c)
      <3>1. ASSUME NEW m \in Nodes, Stale(l1[m])' PROVE Pending(m) \/ removing[m] > 0
        <4>1. CASE m = NodeOf[c]
          <5>1. l1'[m] = Entry(val[c], L1TTL) /\ m \in DataNodes
            BY <1>b, <2>4, <4>1 DEF AddL1, TypeOK
          <5> QED
            BY <1>b, <2>1, <2>4, <3>1, <5>1 DEF AddL1, Entry, Stale, Live
        <4>2. CASE m # NodeOf[c]
          <5>1. l1'[m] = l1[m]
            BY <1>b, <2>4, <4>2 DEF AddL1, TypeOK
          <5> QED
            BY <1>b, <2>1, <3>1, <5>1 DEF Stale, Live
        <4> QED
          BY <4>1, <4>2
      <3> QED
        BY <1>b, <2>1, <2>4, <3>1 DEF AddL1, Stale, Live
    <2> QED
      BY <1>7, <2>2, <2>3, <2>4 DEF Load, MissL1, GetL2, Lock, ReadDB, LoadFails
  <1>8. CASE UNCHANGED vars
    BY <1>b, <1>p, <1>8 DEF vars, bus, caches, Stale, Live
  <1> QED
    BY <1>1, <1>2, <1>3, <1>4, <1>5, <1>6, <1>7, <1>8 DEF Next

\* Every step keeps the ages of outdated values within their bounds.
LEMMA AgesStep == IndInv /\ [Next]_vars => AgesAreBounded'
  <1> DEFINE InLoad(c) ==
               /\ pc[c] \in {"put", "add3"} /\ val[c] < version => age[val[c] + 1] <= spent[c]
               /\ pc[c] = "add" /\ val[c] < version =>
                     age[val[c] + 1] < MaxLoad + L2TTL + spent[c]
             InL2 == Stale(l2) => age[l2.val + 1] + l2.left <= MaxLoad + L2TTL
             InL1(n) == Stale(l1[n]) => age[l1[n].val + 1] + l1[n].left < Horizon
             Goal == (\A c \in Callers : InLoad(c)') /\ InL2' /\ (\A n \in Nodes : InL1(n)')
  <1> SUFFICES ASSUME IndInv, [Next]_vars PROVE Goal
    BY DEF AgesAreBounded
  <1>0. /\ TypeOK /\ BusTypeOK /\ PastValues
        /\ (\A c \in Callers : InLoad(c)) /\ InL2 /\ (\A n \in Nodes : InL1(n))
    BY DEF IndInv, TypeOK, AgesAreBounded
  <1>1. /\ version \in 0 .. MaxVersion /\ MaxVersion \in Nat
        /\ L1TTL \in Nat \ {0} /\ L2TTL \in Nat \ {0} /\ MaxLoad \in Nat
        /\ Horizon = L1TTL + L2TTL + 2 * MaxLoad /\ Horizon \in Nat
        /\ age \in [0 .. MaxVersion -> 0 .. Horizon]
    BY <1>0 DEF BusTypeOK, TypeOK, Horizon
  <1>2. ASSUME NEW c \in Callers
        PROVE  val[c] \in 0 .. MaxVersion /\ val[c] <= version /\ spent[c] \in 0 .. MaxLoad
    BY <1>0 DEF TypeOK, PastValues
  <1>3. ASSUME NEW n \in Nodes, Live(l1[n])
        PROVE  /\ l1[n].val \in 0 .. MaxVersion /\ l1[n].val <= version
               /\ l1[n].left \in Nat \ {0} /\ l1[n].left <= L1TTL
    BY <1>0, <1>3 DEF TypeOK, PastValues, Live, Entries
  <1>4. ASSUME Live(l2)
        PROVE  /\ l2.val \in 0 .. MaxVersion /\ l2.val <= version
               /\ l2.left \in Nat \ {0} /\ l2.left <= L2TTL
    BY <1>0, <1>4 DEF TypeOK, PastValues, Live, Entries
  \* An update makes a version outdated, whose age is zero.
  <1>5. CASE Change
    <2>1. UNCHANGED <<l1, l2, pc, val, spent, age>>
      BY <1>5 DEF Change, caches, loads, hist
    <2>2. CASE version' = version
      BY <1>0, <2>1, <2>2 DEF Stale, Live
    <2>3. CASE version' = version + 1 /\ version < MaxVersion
      <3>1. age[version + 1] = 0
        BY <1>0, <1>1, <2>3 DEF PastValues
      <3>2. ASSUME NEW c \in Callers PROVE InLoad(c)'
        <4>1. CASE val[c] = version
          BY <1>1, <1>2, <2>1, <3>1, <4>1
        <4>2. CASE val[c] < version
          BY <1>0, <1>1, <2>1, <4>2
        <4> QED
          BY <1>1, <1>2, <4>1, <4>2
      <3>3. ASSUME NEW n \in Nodes PROVE InL1(n)'
        <4>1. CASE l1[n].val = version
          BY <1>1, <1>3, <2>1, <3>1, <4>1 DEF Stale, Live
        <4>2. CASE l1[n].val # version
          BY <1>0, <1>1, <2>1, <4>2 DEF Stale, Live
        <4> QED
          BY <4>1, <4>2
      <3>4. InL2'
        <4>1. CASE l2.val = version
          BY <1>1, <1>4, <2>1, <3>1, <4>1 DEF Stale, Live
        <4>2. CASE l2.val # version
          BY <1>0, <1>1, <2>1, <4>2 DEF Stale, Live
        <4> QED
          BY <4>1, <4>2
      <3> QED
        BY <3>2, <3>3, <3>4
    <2> QED
      BY <1>0, <1>5, <2>2, <2>3 DEF Change, Update, UpdateInTx, CommitTx, RollbackTx, BusTypeOK
  \* What time adds to an age it takes from the entry or adds to the Load.
  <1>6. CASE Tick
    <2>1. UNCHANGED <<version, pc, val>>
      BY <1>6 DEF Tick, bus
    <2>2. ASSUME NEW v \in 0 .. MaxVersion PROVE age'[v] <= age[v] + 1 /\ age'[v] \in Nat
      BY <1>1, <1>6, <2>2 DEF Tick
    <2>3. ASSUME NEW c \in Callers PROVE InLoad(c)'
      <3>1. CASE pc[c] \notin {"put", "add3", "add"} \/ ~(val[c] < version)
        BY <2>1, <3>1
      <3>2. CASE pc[c] \in {"put", "add3", "add"} /\ val[c] < version
        <4>1. spent'[c] = spent[c] + 1 /\ val[c] + 1 \in 0 .. MaxVersion
          <5>1. pc[c] # "idle"
            BY <3>2
          <5>2. spent'[c] = spent[c] + 1
            BY <1>6, <5>1 DEF Tick
          <5>3. val[c] + 1 \in 0 .. MaxVersion
            BY <1>1, <1>2, <3>2
          <5> QED
            BY <5>2, <5>3
        <4>2. age'[val[c] + 1] <= age[val[c] + 1] + 1 /\ age'[val[c] + 1] \in Nat
              /\ age[val[c] + 1] \in Nat
          BY <1>1, <2>2, <4>1
        <4>3. spent[c] \in Nat /\ val'[c] = val[c] /\ pc'[c] = pc[c]
          BY <1>2, <2>1
        <4>4. CASE pc[c] \in {"put", "add3"}
          <5>1. age[val[c] + 1] <= spent[c]
            BY <1>0, <3>2, <4>4
          <5>2. age'[val'[c] + 1] <= spent'[c]
            BY <4>1, <4>2, <4>3, <5>1
          <5> QED
            BY <4>3, <4>4, <5>2
        <4>5. CASE pc[c] = "add"
          <5>1. age[val[c] + 1] < MaxLoad + L2TTL + spent[c]
            BY <1>0, <3>2, <4>5
          <5>2. age'[val'[c] + 1] < MaxLoad + L2TTL + spent'[c]
            BY <1>1, <4>1, <4>2, <4>3, <5>1
          <5> QED
            BY <4>3, <4>5, <5>2
        <4> QED
          BY <3>2, <4>4, <4>5
      <3> QED
        BY <3>1, <3>2
    <2>4. ASSUME NEW n \in Nodes, Stale(l1[n])'
          PROVE  age'[l1'[n].val + 1] + l1'[n].left < Horizon
      <3>1. l1'[n] = Older(l1[n]) /\ l1[n] \in Entries
        BY <1>0, <1>6 DEF Tick, TypeOK
      <3>2. Live(l1[n]) /\ l1'[n].val = l1[n].val /\ l1'[n].left = l1[n].left - 1
        BY <2>4, <3>1, OlderEntry DEF Stale, Live
      <3>3. Stale(l1[n]) /\ l1[n].val + 1 \in 0 .. MaxVersion /\ l1[n].left \in Nat \ {0}
        BY <1>1, <1>3, <2>1, <2>4, <3>2, SMTT(40) DEF Stale, Live
      <3>4. age'[l1[n].val + 1] <= age[l1[n].val + 1] + 1 /\ age'[l1[n].val + 1] \in Nat
            /\ age[l1[n].val + 1] \in Nat
        BY <1>1, <2>2, <3>3
      <3> QED
        BY <1>0, <1>1, <3>2, <3>3, <3>4, SMTT(40)
    <2>5. ASSUME Stale(l2)' PROVE age'[l2'.val + 1] + l2'.left <= MaxLoad + L2TTL
      <3>1. l2' = Older(l2) /\ l2 \in Entries
        BY <1>0, <1>6 DEF Tick, TypeOK
      <3>2. Live(l2) /\ l2'.val = l2.val /\ l2'.left = l2.left - 1
        BY <2>5, <3>1, OlderEntry DEF Stale, Live
      <3>3. Stale(l2) /\ l2.val + 1 \in 0 .. MaxVersion /\ l2.left \in Nat \ {0}
        BY <1>1, <1>4, <2>1, <2>5, <3>2, SMTT(40) DEF Stale, Live
      <3>4. age'[l2.val + 1] <= age[l2.val + 1] + 1 /\ age'[l2.val + 1] \in Nat
            /\ age[l2.val + 1] \in Nat
        BY <1>1, <2>2, <3>3
      <3>5. age[l2.val + 1] + l2.left <= MaxLoad + L2TTL
        BY <1>0, <3>3
      <3> QED
        BY <1>1, <3>2, <3>3, <3>4, <3>5, SMTT(40)
    <2> QED
      BY <2>3, <2>4, <2>5
  <1>7. ASSUME NEW n \in Nodes,
               Broadcast(n) \/ Lose(n) \/ Evict(n) \/ InvalidateL2(n)
                   \/ InvalidateFails(n) \/ InvalidateL1(n)
        PROVE  Goal
    <2>1. UNCHANGED <<version, pc, val, spent, age>>
      BY <1>7 DEF Broadcast, Lose, Evict, InvalidateL2, InvalidateFails, InvalidateL1,
                  ClusteringBroadcast, NotifyFails, LoseMessage, Receive, bus, loads, hist
    <2>2. /\ \A m \in Nodes : l1'[m] \in {l1[m], NoEntry}
          /\ l2' \in {l2, NoEntry}
      <3>1. CASE Broadcast(n) \/ Lose(n) \/ InvalidateFails(n) \/ InvalidateL2(n)
        BY <3>1 DEF Broadcast, Lose, InvalidateFails, InvalidateL2, caches
      <3>2. CASE Evict(n) \/ InvalidateL1(n)
        BY <1>0, <3>2 DEF Evict, InvalidateL1, TypeOK
      <3> QED
        BY <1>7, <3>1, <3>2
    <2> QED
      BY <1>0, <2>1, <2>2 DEF Stale, Live
  <1>8. ASSUME NEW n \in Nodes, Crash(n) PROVE Goal
    <2>1. UNCHANGED <<version, age, l2>>
      BY <1>8 DEF Crash, BusCrash
    <2>2. \A m \in Nodes : l1'[m] \in {l1[m], NoEntry}
      BY <1>0, <1>8 DEF Crash, TypeOK
    <2>3. \A c \in Callers :
             \/ pc'[c] = "idle"
             \/ pc'[c] = pc[c] /\ val'[c] = val[c] /\ spent'[c] = spent[c]
      BY <1>8 DEF Crash
    <2> QED
      BY <1>0, <2>1, <2>2, <2>3 DEF Stale, Live
  <1>9. ASSUME NEW c \in Callers, Load(c) PROVE Goal
    <2>1. UNCHANGED <<version, age>> /\ NodeOf[c] \in Nodes
      BY <1>9 DEF Load, MissL1, GetL2, Lock, ReadDB, PutL2, AddL1, LoadFails, bus, hist
    <2>2. ASSUME NEW d \in Callers \ {c} PROVE InLoad(d)'
      <3>1. pc'[d] = pc[d] /\ val'[d] = val[d] /\ spent'[d] = spent[d]
        <4>1. CASE MissL1(c) BY <1>0, <4>1 DEF MissL1, Goto, TypeOK
        <4>2. CASE GetL2(c) BY <1>0, <4>2 DEF GetL2, Goto, TypeOK
        <4>3. CASE Lock(c) BY <1>0, <4>3 DEF Lock, Goto, Return, TypeOK
        <4>4. CASE ReadDB(c) BY <1>0, <4>4 DEF ReadDB, Goto, Return, TypeOK
        <4>5. CASE PutL2(c) BY <1>0, <4>5 DEF PutL2, Goto, TypeOK
        <4>6. CASE AddL1(c) BY <1>0, <4>6 DEF AddL1, Goto, Return, TypeOK
        <4>7. CASE LoadFails(c) BY <1>0, <4>7 DEF LoadFails, Goto, Return, TypeOK
        <4> QED BY <1>9, <4>1, <4>2, <4>3, <4>4, <4>5, <4>6, <4>7 DEF Load
      <3> QED
        BY <1>0, <2>1, <3>1
    <2>3. CASE MissL1(c) \/ LoadFails(c)
      <3>1. pc'[c] \in {"idle", "l2"} /\ UNCHANGED caches
        BY <1>0, <2>3 DEF MissL1, LoadFails, Return, Goto, TypeOK
      <3> QED
        BY <1>0, <2>1, <2>2, <3>1 DEF caches, Stale, Live
    <2>4. CASE GetL2(c)
      <3>1. UNCHANGED <<l1, l2, spent>>
        BY <2>4 DEF GetL2, caches
      <3>2. InLoad(c)'
        <4>1. CASE Live(l2) /\ l2.val # version
          <5>1. pc'[c] = "add" /\ val'[c] = l2.val /\ spent'[c] = spent[c]
            BY <1>0, <2>4, <3>1, <4>1 DEF GetL2, Goto, TypeOK
          <5>2. age[l2.val + 1] + l2.left <= MaxLoad + L2TTL /\ l2.left \in Nat \ {0}
                /\ l2.val + 1 \in 0 .. MaxVersion
            <6>1. Stale(l2)
              BY <4>1 DEF Stale
            <6>2. age[l2.val + 1] + l2.left <= MaxLoad + L2TTL
              BY <1>0, <6>1
            <6> QED
              BY <1>1, <1>4, <4>1, <6>2
          <5>3. age[l2.val + 1] \in Nat
            BY <1>1, <5>2
          <5> QED
            <6>1. spent[c] \in Nat
              BY <1>2
            <6>2. age[l2.val + 1] < MaxLoad + L2TTL + spent[c]
              BY <1>1, <5>2, <5>3, <6>1
            <6> QED
              BY <2>1, <5>1, <6>2
        <4>2. CASE Live(l2) /\ l2.val = version
          BY <1>0, <1>1, <2>1, <2>4, <4>2 DEF GetL2, Goto, TypeOK
        <4>3. CASE ~Live(l2)
          BY <1>0, <2>4, <4>3 DEF GetL2, Goto, TypeOK
        <4> QED
          BY <4>1, <4>2, <4>3
      <3> QED
        BY <1>0, <2>1, <2>2, <3>1, <3>2 DEF Stale, Live
    <2>5. CASE Lock(c) \/ ReadDB(c)
      <3>1. UNCHANGED caches
            /\ (pc'[c] \in {"idle", "db"} \/ (pc'[c] = "put" /\ val'[c] = version))
        <4>1. CASE Lock(c) BY <1>0, <4>1 DEF Lock, Return, Goto, TypeOK
        <4>2. CASE ReadDB(c) BY <1>0, <4>2 DEF ReadDB, Return, Goto, TypeOK
        <4> QED BY <2>5, <4>1, <4>2
      <3> QED
        BY <1>0, <1>1, <2>1, <2>2, <3>1 DEF caches, Stale, Live
    <2>6. CASE PutL2(c)
      <3>1. /\ pc[c] = "put" /\ pc'[c] = "add3" /\ UNCHANGED <<l1, val, spent>>
            /\ l2'.val = val[c] /\ l2'.left = L2TTL
        BY <1>0, <2>6 DEF PutL2, Goto, Entry, TypeOK
      <3>2. ASSUME Stale(l2)' PROVE age'[l2'.val + 1] + l2'.left <= MaxLoad + L2TTL
        <4>1. val[c] < version /\ val[c] + 1 \in 0 .. MaxVersion
          BY <1>1, <1>2, <2>1, <3>1, <3>2, SMTT(40) DEF Stale
        <4>2. age[val[c] + 1] <= spent[c] /\ age[val[c] + 1] \in Nat
          BY <1>0, <1>1, <3>1, <4>1
        <4> QED
          BY <1>1, <1>2, <2>1, <3>1, <4>2, SMTT(40)
      <3> QED
        BY <1>0, <2>1, <2>2, <3>1, <3>2 DEF Stale, Live
    <2>7. CASE AddL1(c)
      <3>1. /\ pc[c] \in {"add", "add3"} /\ pc'[c] = "idle" /\ UNCHANGED l2
            /\ l1' = [l1 EXCEPT ![NodeOf[c]] = Entry(val[c], L1TTL)]
        BY <1>0, <2>7 DEF AddL1, Return, Goto, TypeOK
      <3>2. ASSUME NEW n \in Nodes PROVE InL1(n)'
        <4>1. CASE n # NodeOf[c]
          <5>1. l1'[n] = l1[n]
            BY <1>0, <3>1, <4>1 DEF TypeOK
          <5> QED
            BY <1>0, <2>1, <5>1 DEF Stale, Live
        <4>2. CASE n = NodeOf[c] /\ val[c] < version
          <5>1. l1'[n].val = val[c] /\ l1'[n].left = L1TTL /\ val[c] + 1 \in 0 .. MaxVersion
            BY <1>0, <1>1, <1>2, <2>1, <3>1, <4>2, SMTT(40) DEF TypeOK, Entry
          <5>2. age[val[c] + 1] < MaxLoad + L2TTL + MaxLoad /\ age[val[c] + 1] \in Nat
            <6>1. age[val[c] + 1] \in Nat
              BY <1>1, <5>1
            <6>2. age[val[c] + 1] <= spent[c] \/ age[val[c] + 1] < MaxLoad + L2TTL + spent[c]
              BY <1>0, <3>1, <4>2
            <6>3. spent[c] \in 0 .. MaxLoad
              BY <1>2
            <6> QED
              BY <1>1, <6>1, <6>2, <6>3, SMTT(40)
          <5> QED
            BY <1>1, <2>1, <5>1, <5>2, SMTT(40)
        <4>3. CASE n = NodeOf[c] /\ val[c] = version
          <5>1. l1'[n].val = version'
            BY <1>0, <2>1, <3>1, <4>3 DEF TypeOK, Entry
          <5> QED
            BY <5>1 DEF Stale
        <4> QED
          BY <1>1, <1>2, <4>1, <4>2, <4>3
      <3> QED
        BY <1>0, <2>1, <2>2, <3>1, <3>2 DEF Stale, Live
    <2> QED
      BY <1>9, <2>3, <2>4, <2>5, <2>6, <2>7 DEF Load
  <1>10. CASE UNCHANGED vars
    BY <1>0, <1>10 DEF vars, bus, caches, loads, hist, Stale, Live
  <1> QED
    BY <1>5, <1>6, <1>7, <1>8, <1>9, <1>10 DEF Next

\* The inductive invariant holds in every state.
THEOREM Invariance == Spec => []IndInv
  <1>1. IndInv /\ [Next]_vars => IndInv'
    BY TypeStep, PastStep, AheadStep, SufficeStep, AgesStep DEF IndInv
  <1> QED
    BY Initially, <1>1, PTL DEF Spec

\* The types of the variables.
THEOREM TypeCorrectness == Spec => []TypeOK
  <1>1. IndInv => TypeOK
    BY DEF IndInv
  <1> QED
    BY Invariance, <1>1, PTL

\* Unless a message is lost or comes before its commit, or a Load holds an
\* outdated value while one is handled, a message is on its way to whatever is
\* outdated in either level (Invalidate, Load).
THEOREM MessagesAreEnough == Spec => []MessagesSuffice
  <1>1. IndInv => MessagesSuffice
    BY DEF IndInv
  <1> QED
    BY Invariance, <1>1, PTL

\* Whatever is lost, fails or races, no worker uses an endpoint for longer than
\* the two times to live and two Loads after it was changed or deleted.
THEOREM StalenessIsBounded == Spec => []StaleIsBounded
  <1>1. IndInv => StaleIsBounded
    <2> SUFFICES ASSUME IndInv, NEW n \in Nodes, Stale(l1[n])
                 PROVE  age[l1[n].val + 1] < Horizon
      BY DEF StaleIsBounded
    <2>1. age[l1[n].val + 1] + l1[n].left < Horizon
      BY DEF IndInv, AgesAreBounded
    <2>2. l1[n].left \in Nat /\ l1[n].val + 1 \in 0 .. MaxVersion
      BY SMTT(40) DEF IndInv, TypeOK, BusTypeOK, PastValues, Entries, Stale, Live
    <2>3. age[l1[n].val + 1] \in Nat /\ Horizon \in Nat
      BY <2>2 DEF IndInv, TypeOK, Horizon
    <2> QED
      BY <2>1, <2>2, <2>3
  <1> QED
    BY Invariance, <1>1, PTL
=============================================================================
