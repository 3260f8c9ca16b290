------------------------------- MODULE MCache -------------------------------
(***************************************************************************)
(* The multi-level cache through which workers read endpoints: an LRU per  *)
(* node (L1) over Redis (L2) over the database, filled by Load and emptied *)
(* by the subscriber of "crud" messages.  Entries of both levels have a    *)
(* time to live.  Keys do not share entries, so there is one here.         *)
(***************************************************************************)
EXTENDS EventBus

CONSTANTS
    Callers,            \* goroutines that call Load
    NodeOf,             \* caller -> its node
    DataNodes,          \* nodes that have an L2: all but the control plane
    Deletions,          \* updates that delete the row
    L1TTL, L2TTL,       \* times to live (10 s and 60 s)
    MaxLoad,            \* the longest a Load takes
    NoEntry

ASSUME MCacheAssumption ==
    /\ DataNodes \subseteq Nodes
    /\ NodeOf \in [Callers -> DataNodes]
    /\ {L1TTL, L2TTL} \subseteq Nat \ {0} /\ MaxLoad \in Nat
    /\ Deletions \subseteq 1 .. MaxVersion

VARIABLES
    l1,                 \* node -> its entry and the time it has left
    l2,
    pc,                 \* caller -> the next step of its Load
    val,                \* caller -> the version it holds
    spent,              \* caller -> how long its Load has taken
    removing,           \* node -> subscribers between InvalidateL2 and InvalidateL1
    \* history
    age,                \* version -> the time since its commit, up to Horizon
    undisturbed         \* no message was lost or came before its commit, and no
                        \* Load held an outdated value while one was handled

caches == <<l1, l2>>
loads == <<pc, val, spent>>
hist == <<age, undisturbed>>
vars == <<bus, caches, loads, removing, hist>>

\* Expired entries are taken out: what is there is alive.
Entry(v, ttl) == [val |-> v, left |-> ttl]
Live(e) == e # NoEntry

\* The longest an outdated endpoint is used; longer ages are not told apart.
Horizon == L1TTL + L2TTL + 2 * MaxLoad

Init ==
    /\ BusInit
    /\ l1 = [n \in Nodes |-> NoEntry] /\ l2 = NoEntry
    /\ pc = [c \in Callers |-> "idle"]
    /\ val = [c \in Callers |-> 0]
    /\ spent = [c \in Callers |-> 0]
    /\ removing = [n \in Nodes |-> 0]
    /\ age = [v \in 0 .. MaxVersion |-> 0]
    /\ undisturbed = TRUE

-----------------------------------------------------------------------------
(* The row and the bus *)

Change ==
    /\ (\E n \in Nodes : Update(n) \/ UpdateInTx(n)) \/ CommitTx \/ RollbackTx
    /\ UNCHANGED <<caches, loads, removing, hist>>

Broadcast(n) ==
    /\ ClusteringBroadcast(n)
    /\ UNCHANGED <<caches, loads, removing, hist>>

Lose(n) ==
    /\ NotifyFails(n) \/ LoseMessage(n)
    /\ undisturbed' = FALSE
    /\ UNCHANGED <<caches, loads, removing, age>>

Crash(n) ==
    /\ BusCrash(n)
    /\ l1' = [l1 EXCEPT ![n] = NoEntry]
    /\ pc' = [c \in Callers |-> IF NodeOf[c] = n THEN "idle" ELSE pc[c]]
    /\ val' = [c \in Callers |-> IF NodeOf[c] = n THEN 0 ELSE val[c]]
    /\ spent' = [c \in Callers |-> IF NodeOf[c] = n THEN 0 ELSE spent[c]]
    /\ removing' = [removing EXCEPT ![n] = 0]
    /\ undisturbed' = FALSE
    /\ UNCHANGED <<l2, age>>

Older(e) ==
    CASE e = NoEntry -> NoEntry
      [] e # NoEntry /\ e.left = 1 -> NoEntry
      [] OTHER -> [e EXCEPT !.left = @ - 1]

\* Time passes, but no Load takes longer than MaxLoad.
Tick ==
    /\ \A c \in Callers : pc[c] # "idle" => spent[c] < MaxLoad
    /\ spent' = [c \in Callers |-> IF pc[c] = "idle" THEN 0 ELSE spent[c] + 1]
    /\ l1' = [n \in Nodes |-> Older(l1[n])]
    /\ l2' = Older(l2)
    /\ age' = [v \in DOMAIN age |->
                 IF v \in 1 .. version /\ age[v] < Horizon THEN age[v] + 1 ELSE age[v]]
    /\ UNCHANGED <<bus, pc, val, removing, undisturbed>>

-----------------------------------------------------------------------------
(* Invalidate, called by the subscriber of "crud" *)

\* A message handled now may be too early for some value.
Disturbed ==
    \/ inTx
    \/ \E c \in Callers : pc[c] \in {"add", "put", "add3"} /\ val[c] # version

Observe == undisturbed' = (undisturbed /\ ~Disturbed)

\* Mutant: Redis is left alone.
InvalidateL1Only(n) ==
    /\ Receive(n) /\ UNCHANGED faults
    /\ removing' = [removing EXCEPT ![n] = @ + 1]
    /\ Observe
    /\ UNCHANGED <<caches, loads, age>>

InvalidateL2(n) ==
    /\ Receive(n) /\ UNCHANGED faults
    /\ l2' = IF n \in DataNodes THEN NoEntry ELSE l2
    /\ removing' = [removing EXCEPT ![n] = @ + 1]
    /\ Observe
    /\ UNCHANGED <<l1, loads, age>>

\* Redis fails: L1 is left alone as well.
InvalidateFails(n) ==
    /\ n \in DataNodes
    /\ Receive(n) /\ Fault
    /\ undisturbed' = FALSE
    /\ UNCHANGED <<caches, loads, removing, age>>

InvalidateL1(n) ==
    /\ removing[n] > 0 /\ removing' = [removing EXCEPT ![n] = @ - 1]
    /\ l1' = [l1 EXCEPT ![n] = NoEntry]
    /\ Observe
    /\ UNCHANGED <<bus, l2, loads, age>>

\* Other keys push the entry out of the LRU.
Evict(n) ==
    /\ l1[n] # NoEntry /\ l1' = [l1 EXCEPT ![n] = NoEntry]
    /\ UNCHANGED <<bus, l2, loads, removing, hist>>

-----------------------------------------------------------------------------
(* Load *)

Goto(c, label) == pc' = [pc EXCEPT ![c] = label]

Return(c) ==
    /\ Goto(c, "idle")
    /\ val' = [val EXCEPT ![c] = 0]
    /\ spent' = [spent EXCEPT ![c] = 0]

\* L1 has nothing; a Load that it answers changes nothing.
MissL1(c) ==
    /\ pc[c] = "idle" /\ ~Live(l1[NodeOf[c]])
    /\ Goto(c, "l2")
    /\ UNCHANGED <<bus, caches, val, spent, removing, hist>>

\* Mutant: a hit keeps the entry of L2 alive.
GetL2Sliding(c) ==
    /\ pc[c] = "l2"
    /\ IF Live(l2) THEN /\ val' = [val EXCEPT ![c] = l2.val] /\ Goto(c, "add")
                        /\ l2' = Entry(l2.val, L2TTL)
                   ELSE Goto(c, "lock") /\ UNCHANGED <<val, l2>>
    /\ UNCHANGED <<bus, l1, spent, removing, hist>>

GetL2(c) ==
    /\ pc[c] = "l2"
    /\ IF Live(l2) THEN val' = [val EXCEPT ![c] = l2.val] /\ Goto(c, "add")
                   ELSE Goto(c, "lock") /\ UNCHANGED val
    /\ UNCHANGED <<bus, caches, spent, removing, hist>>

\* The mutex of the node is held from Lock to the end of the Load.
Locked(n) == \E c \in Callers : NodeOf[c] = n /\ pc[c] \in {"db", "put", "add3"}

Lock(c) ==
    /\ pc[c] = "lock" /\ ~Locked(NodeOf[c])
    /\ IF Live(l1[NodeOf[c]]) THEN Return(c)
                              ELSE Goto(c, "db") /\ UNCHANGED <<val, spent>>
    /\ UNCHANGED <<bus, caches, removing, hist>>

\* The callback: a row that is not there is not cached.
ReadDB(c) ==
    /\ pc[c] = "db"
    /\ IF version \in Deletions
         THEN Return(c)
         ELSE Goto(c, "put") /\ val' = [val EXCEPT ![c] = version] /\ UNCHANGED spent
    /\ UNCHANGED <<bus, caches, removing, hist>>

PutL2(c) ==
    /\ pc[c] = "put" /\ Goto(c, "add3")
    /\ l2' = Entry(val[c], L2TTL)
    /\ UNCHANGED <<bus, l1, val, spent, removing, hist>>

AddL1(c) ==
    /\ pc[c] \in {"add", "add3"}
    /\ l1' = [l1 EXCEPT ![NodeOf[c]] = Entry(val[c], L1TTL)]
    /\ Return(c)
    /\ UNCHANGED <<bus, l2, removing, hist>>

\* Redis or the database fails, and Load returns the error.
LoadFails(c) ==
    /\ pc[c] \in {"l2", "db", "put"}
    /\ Fault /\ Return(c)
    /\ UNCHANGED <<version, inTx, outbox, inbox, caches, removing, hist>>

Load(c) == MissL1(c) \/ GetL2(c) \/ Lock(c) \/ ReadDB(c) \/ PutL2(c) \/ AddL1(c) \/ LoadFails(c)

-----------------------------------------------------------------------------
Next ==
    \/ Change \/ Tick
    \/ \E n \in Nodes :
          \/ Broadcast(n) \/ Lose(n) \/ Crash(n) \/ Evict(n)
          \/ InvalidateL2(n) \/ InvalidateFails(n) \/ InvalidateL1(n)
    \/ \E c \in Callers : Load(c)

Spec == Init /\ [][Next]_vars

-----------------------------------------------------------------------------
(* Properties *)

Entries == [val : 0 .. MaxVersion, left : Nat \ {0}] \cup {NoEntry}

\* The types of the variables; a subscriber removes the key from L1 once.
TypeOK ==
    /\ BusTypeOK
    /\ l1 \in [Nodes -> Entries] /\ l2 \in Entries
    /\ pc \in [Callers -> {"idle", "l2", "add", "lock", "db", "put", "add3"}]
    /\ val \in [Callers -> 0 .. MaxVersion]
    /\ spent \in [Callers -> 0 .. MaxLoad]
    /\ removing \in [Nodes -> Nat]
    /\ age \in [0 .. MaxVersion -> 0 .. Horizon]
    /\ undisturbed \in BOOLEAN

Stale(e) == Live(e) /\ e.val # version

\* Unless a message is lost or comes before its commit, or a Load holds an
\* outdated value while one is handled, what is outdated in L1 or L2 has a
\* message on its way that will remove it; from L2 the first node that handles
\* its message does.
MessagesSuffice ==
    undisturbed =>
        /\ \A n \in Nodes : Stale(l1[n]) => Pending(n) \/ removing[n] > 0
        /\ Stale(l2) => \A n \in DataNodes : Pending(n)

\* Whatever is lost, fails or races, a worker uses an endpoint for at most the
\* two times to live and two Loads after it was changed or deleted: an entry of
\* L1 that comes from L2 lives as long as one that comes from the database.
StaleIsBounded ==
    \A n \in Nodes :
        Stale(l1[n]) => age[l1[n].val + 1] < Horizon

-----------------------------------------------------------------------------
(* The inductive invariant *)

\* Values are of the past or the present, entries no fresher than their times to
\* live, and a version that is still to come has no age.
PastValues ==
    /\ \A n \in Nodes : Live(l1[n]) => l1[n].val <= version /\ l1[n].left <= L1TTL
    /\ Live(l2) => l2.val <= version /\ l2.left <= L2TTL
    /\ \A c \in Callers : val[c] <= version
    /\ \A v \in DOMAIN age : v > version => age[v] = 0

\* Until something disturbs it, the message of a transaction is still to come for
\* every node, and so is one for every node with an L2 while a Load holds an
\* outdated value.
MessagesAhead ==
    undisturbed =>
        /\ inTx => \A n \in Nodes : Pending(n)
        /\ \A c \in Callers :
              pc[c] \in {"add", "put", "add3"} /\ val[c] # version =>
                  \A n \in DataNodes : Pending(n)

\* A value read from the database is as old as the Load at most, one in L2 also
\* as the time it has spent there, one taken from L2 as both and another Load, and
\* one in L1 also as the time it has spent in L1.
AgesAreBounded ==
    /\ \A c \in Callers :
          /\ pc[c] \in {"put", "add3"} /\ val[c] < version => age[val[c] + 1] <= spent[c]
          /\ pc[c] = "add" /\ val[c] < version =>
                age[val[c] + 1] < MaxLoad + L2TTL + spent[c]
    /\ Stale(l2) => age[l2.val + 1] + l2.left <= MaxLoad + L2TTL
    /\ \A n \in Nodes : Stale(l1[n]) => age[l1[n].val + 1] + l1[n].left < Horizon

IndInv == TypeOK /\ PastValues /\ MessagesAhead /\ MessagesSuffice /\ AgesAreBounded
=============================================================================
