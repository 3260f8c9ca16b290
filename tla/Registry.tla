------------------------------ MODULE Registry ------------------------------
(***************************************************************************)
(* The endpoints of a workspace as one node's dispatcher sees them: an LRU *)
(* entry with a time to live, loaded by the warm-up and by one flight that *)
(* the callers share, and dropped when the event bus says that an endpoint *)
(* changed.                                                                *)
(*                                                                         *)
(* Workspaces do not share entries, so there is one here.  Its endpoints   *)
(* are the number of the update that made them; every one of them has an   *)
(* endpoint for the events that are looked up.                             *)
(***************************************************************************)
EXTENDS Integers

CONSTANTS
    Callers,            \* goroutines that call LookUp
    NoEntry,            \* no registration
    MaxVersion,         \* bound on the updates of the endpoints
    MaxFaults           \* bound on notices and queries that fail

ASSUME RegistryAssumption ==
    /\ NoEntry \notin Nat
    /\ MaxVersion \in Nat
    /\ MaxFaults \in Nat

VARIABLES
    version,            \* the endpoints in the database
    inTx,               \* an update is made in a transaction not committed yet
    notices,            \* endpoint.crud messages on their way to this node
    cache,              \* the LRU: the version it holds, or NoEntry
    phase,              \* loader -> "none", "load" or "add"
    loaded,             \* loader -> the version it has read
    pc,                 \* caller -> "idle", "miss", "wait" or "get"
    got,                \* caller -> what its last LookUp used
    faults,
    blind               \* history: the cache and the loaders whose version no
                        \* notice will correct

rvars == <<version, inTx, notices, cache, phase, loaded, pc, got, faults, blind>>
lookups == <<phase, loaded, pc, got>>

\* The goroutines that may load: Warmup, and the one singleflight lets through.
Loaders == {"warmup", "flight"}

RInit ==
    /\ version = 0 /\ inTx = FALSE /\ notices = 0
    /\ cache = NoEntry
    /\ phase = [l \in Loaders |-> IF l = "warmup" THEN "load" ELSE "none"]
    /\ loaded = [l \in Loaders |-> 0]
    /\ pc = [c \in Callers |-> "idle"]
    /\ got = [c \in Callers |-> 0]
    /\ faults = MaxFaults
    /\ blind = {}

-----------------------------------------------------------------------------
(* Updates of endpoints and their notices *)

\* A statement of its own: committed, then propagated by a goroutine.
Update ==
    /\ ~inTx /\ version < MaxVersion
    /\ version' = version + 1
    /\ notices' = notices + 1
    /\ UNCHANGED <<inTx, cache, lookups, faults, blind>>

\* A statement in a transaction (the declarative sync): propagated before the
\* commit.
UpdateInTx ==
    /\ ~inTx /\ version < MaxVersion
    /\ inTx' = TRUE
    /\ notices' = notices + 1
    /\ UNCHANGED <<version, cache, lookups, faults, blind>>

CommitTx ==
    /\ inTx /\ inTx' = FALSE
    /\ version' = version + 1
    /\ blind' = IF notices = 0 THEN {"cache"} \cup Loaders ELSE blind
    /\ UNCHANGED <<notices, cache, lookups, faults>>

RollbackTx ==
    /\ inTx /\ inTx' = FALSE
    /\ faults > 0 /\ faults' = faults - 1
    /\ UNCHANGED <<version, notices, cache, lookups, blind>>

\* The NOTIFY fails or comes while the listener reconnects, or the node stops
\* before its goroutine sends it.
LoseNotice ==
    /\ notices > 0 /\ notices' = notices - 1
    /\ faults > 0 /\ faults' = faults - 1
    /\ blind' = {"cache"} \cup Loaders
    /\ UNCHANGED <<version, inTx, cache, lookups>>

\* Mutant: the handler also runs for what is not a notice.
UnregisterUnasked ==
    /\ notices' = notices - 1
    /\ cache' = NoEntry
    /\ blind' = (blind \ {"cache"}) \cup {l \in Loaders : phase[l] = "add"}
    /\ UNCHANGED <<version, inTx, lookups, faults>>

\* Mutant: the handler does not know the workspace.
UnregisterNothing ==
    /\ notices > 0 /\ notices' = notices - 1
    /\ UNCHANGED <<version, inTx, cache, lookups, faults, blind>>

\* The handler of endpoint.crud.
Unregister ==
    /\ notices > 0 /\ notices' = notices - 1
    /\ cache' = NoEntry
    /\ blind' = (blind \ {"cache"}) \cup {l \in Loaders : phase[l] = "add"}
    /\ UNCHANGED <<version, inTx, lookups, faults>>

\* Mutant: a cache without a time to live.
NeverEvict == FALSE /\ UNCHANGED rvars

\* The time to live is over, or other workspaces push the entry out.
Evict ==
    /\ cache # NoEntry /\ cache' = NoEntry
    /\ blind' = blind \ {"cache"}
    /\ UNCHANGED <<version, inTx, notices, lookups, faults>>

-----------------------------------------------------------------------------
(* LookUp *)

Hit(c) ==
    /\ pc[c] = "idle" /\ cache # NoEntry
    /\ got' = [got EXCEPT ![c] = cache]
    /\ UNCHANGED <<version, inTx, notices, cache, phase, loaded, pc, faults, blind>>

Miss(c) ==
    /\ pc[c] = "idle" /\ cache = NoEntry
    /\ pc' = [pc EXCEPT ![c] = "miss"]
    /\ UNCHANGED <<version, inTx, notices, cache, phase, loaded, got, faults, blind>>

\* The caller joins the flight under way, or starts one, whatever the cache
\* holds by now.
Do(c) ==
    /\ pc[c] = "miss"
    /\ pc' = [pc EXCEPT ![c] = "wait"]
    /\ phase' = IF phase["flight"] = "none" THEN [phase EXCEPT !["flight"] = "load"]
                                            ELSE phase
    /\ UNCHANGED <<version, inTx, notices, cache, loaded, got, faults, blind>>

\* A loader ends; the callers that wait for the flight go on at label.
Land(l, label) ==
    /\ phase' = [phase EXCEPT ![l] = "none"]
    /\ pc' = [c \in Callers |->
                 IF l = "flight" /\ pc[c] = "wait" THEN label ELSE pc[c]]

Load(l) ==
    /\ phase[l] = "load" /\ phase' = [phase EXCEPT ![l] = "add"]
    /\ loaded' = [loaded EXCEPT ![l] = version]
    /\ blind' = blind \ {l}
    /\ UNCHANGED <<version, inTx, notices, cache, pc, got, faults>>

LoadFails(l) ==
    /\ phase[l] = "load"
    /\ faults > 0 /\ faults' = faults - 1
    /\ Land(l, "idle")
    /\ UNCHANGED <<version, inTx, notices, cache, loaded, got, blind>>

Add(l) ==
    /\ phase[l] = "add"
    /\ cache' = loaded[l]
    /\ blind' = IF l \in blind THEN blind \cup {"cache"} ELSE blind \ {"cache"}
    /\ Land(l, "get")
    /\ UNCHANGED <<version, inTx, notices, loaded, got, faults>>

\* The registration is read from the cache again; when it is not there (any
\* more) the event has no endpoints.
GetAgain(c) ==
    /\ pc[c] = "get"
    /\ got' = [got EXCEPT ![c] = cache]
    /\ pc' = [pc EXCEPT ![c] = "idle"]
    /\ UNCHANGED <<version, inTx, notices, cache, phase, loaded, faults, blind>>

-----------------------------------------------------------------------------
LookUp(c) == Hit(c) \/ Miss(c) \/ Do(c) \/ GetAgain(c)

RNext ==
    \/ Update \/ UpdateInTx \/ CommitTx \/ RollbackTx
    \/ LoseNotice \/ Unregister \/ Evict
    \/ \E l \in Loaders : Load(l) \/ LoadFails(l) \/ Add(l)
    \/ \E c \in Callers : LookUp(c)

RSpec == RInit /\ [][RNext]_rvars

\* Transactions end, notices arrive, loaders land and entries expire.
Fairness ==
    /\ WF_rvars(CommitTx) /\ WF_rvars(Unregister) /\ WF_rvars(Evict)
    /\ \A l \in Loaders : WF_rvars(Load(l)) /\ WF_rvars(Add(l))

FairSpec == RSpec /\ Fairness

-----------------------------------------------------------------------------
(* Properties *)

RTypeOK ==
    /\ version \in Nat
    /\ inTx \in BOOLEAN
    /\ notices \in Nat
    /\ cache \in Nat \cup {NoEntry}
    /\ phase \in [Loaders -> {"none", "load", "add"}]
    /\ loaded \in [Loaders -> Nat]
    /\ pc \in [Callers -> {"idle", "miss", "wait", "get"}]
    /\ got \in [Callers -> Nat \cup {NoEntry}]
    /\ faults \in 0 .. MaxFaults
    /\ blind \subseteq {"cache"} \cup Loaders

Stale == cache # NoEntry /\ cache # version

\* An outdated registration is used only while the notice of an update is on its
\* way, or when no notice will come: it was lost, it was handled before the
\* commit it announced, or it was handled between the load and the Add.
StaleHasCause == Stale => notices > 0 \/ "cache" \in blind

\* Once the endpoints no longer change, the registration is up to date for good:
\* what the notices miss, the time to live corrects.
EventuallyFresh == <>[]~Stale

-----------------------------------------------------------------------------
(* The inductive invariant *)

\* The same of what a loader is about to put in the cache.
LoadedHasCause ==
    \A l \in Loaders :
        phase[l] = "add" /\ loaded[l] # version => notices > 0 \/ l \in blind

RIndInv ==
    /\ RTypeOK
    /\ StaleHasCause
    /\ LoadedHasCause
=============================================================================
