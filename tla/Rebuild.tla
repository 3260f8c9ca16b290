------------------------------ MODULE Rebuild ------------------------------
(***************************************************************************)
(* The two objects a node rebuilds when rows change: the router of the     *)
(* gateway (sources) and the plugin iterator (plugins).  A "crud" message  *)
(* only puts a new token in the store; a job that cron starts every second *)
(* compares the token with the one of the object, lists the rows and       *)
(* publishes what it has built.  Cron does not wait for a job to end       *)
(* before it starts the next one, so two may overlap.                      *)
(*                                                                         *)
(* Both work alike, but the iterator carries its token and is rebuilt      *)
(* every minute, while the router and its token are two assignments and    *)
(* nothing rebuilds it but a token.                                        *)
(***************************************************************************)
EXTENDS EventBus

CONSTANTS
    Gateway,            \* the node that keeps the object
    Jobs, NoJob,        \* runs of the job that may overlap, and none of them
    Router, Plugins     \* the two kinds of object

ASSUME RebuildAssumption == Gateway \in Nodes /\ Router # Plugins /\ NoJob \notin Jobs

VARIABLES
    kind,               \* the object of this behaviour
    phase,              \* "down", "built" (Start has built it) or "up" (subscribed)
    token,              \* "router:version" or "plugin:version" in the store
    content,            \* the version of the rows that the object was built from
    built,              \* the token it was built for
    aged,               \* the iterator is older than a minute
    pc, tok, val,       \* job -> next step, token read, rows listed
    \* history
    owner,              \* the job that stored the router
    torn,               \* the router is of one job and its token of another
    missed              \* a message was lost, came too early or found no subscriber

object == <<token, content, built, aged>>
jobs == <<pc, tok, val>>
hist == <<owner, torn, missed>>
vars == <<bus, kind, phase, object, jobs, hist>>

InitToken == 0          \* "init", also what the store answers when it is empty
NoToken == -1           \* "", the version of a router that was never built
Nothing == -1           \* no rows: the router of NewGateway

Init ==
    /\ BusInit
    /\ kind \in {Router, Plugins}
    /\ phase = "down"
    /\ token = InitToken /\ content = Nothing /\ built = NoToken /\ aged = FALSE
    /\ pc = [j \in Jobs |-> "idle"]
    /\ tok = [j \in Jobs |-> InitToken]
    /\ val = [j \in Jobs |-> 0]
    /\ owner = NoJob /\ torn = FALSE /\ missed = FALSE

-----------------------------------------------------------------------------
(* The rows and the bus *)

Change ==
    /\ (\E n \in Nodes : Update(n) \/ UpdateInTx(n)) \/ CommitTx \/ RollbackTx
    /\ UNCHANGED <<kind, phase, object, jobs, hist>>

Broadcast(n) ==
    /\ ClusteringBroadcast(n)
    /\ UNCHANGED <<kind, phase, object, jobs, hist>>

Lose(n) ==
    /\ NotifyFails(n) \/ LoseMessage(n)
    /\ missed' = TRUE
    /\ UNCHANGED <<kind, phase, object, jobs, owner, torn>>

\* A node without the object, or one that has not subscribed yet.
Ignore(n) ==
    /\ n # Gateway \/ phase # "up"
    /\ Receive(n) /\ UNCHANGED faults
    /\ missed' = (missed \/ (n = Gateway /\ (phase = "built" \/ inTx)))
    /\ UNCHANGED <<kind, phase, object, jobs, owner, torn>>

\* The subscriber: a fresh token.  It says that the rows it stands for can be
\* listed, unless their transaction has still to commit.
SetVersion ==
    /\ phase = "up"
    /\ Receive(Gateway) /\ UNCHANGED faults
    /\ token' = token + 1
    /\ missed' = inTx
    /\ UNCHANGED <<kind, phase, content, built, aged, jobs, owner, torn>>

-----------------------------------------------------------------------------
(* Start *)

\* The first build, for the token "init".
BuildInit ==
    /\ phase = "down" /\ phase' = "built"
    /\ content' = version /\ built' = InitToken
    /\ UNCHANGED <<bus, kind, token, aged, jobs, hist>>

\* The rows cannot be listed: the gateway starts with its empty router, and the
\* application does not start without its iterator.
BuildInitFails ==
    /\ phase = "down" /\ Fault
    /\ phase' = IF kind = Router THEN "built" ELSE "down"
    /\ UNCHANGED <<version, inTx, outbox, inbox, kind, object, jobs, hist>>

Subscribe ==
    /\ phase = "built" /\ phase' = "up"
    /\ UNCHANGED <<bus, kind, object, jobs, hist>>

Crash ==
    /\ phase # "down" /\ phase' = "down"
    /\ BusCrash(Gateway)
    /\ token' = InitToken /\ content' = Nothing /\ built' = NoToken /\ aged' = FALSE
    /\ pc' = [j \in Jobs |-> "idle"]
    /\ tok' = [j \in Jobs |-> InitToken] /\ val' = [j \in Jobs |-> 0]
    /\ owner' = NoJob /\ torn' = FALSE
    /\ missed' = inTx           \* its message may die with the process
    /\ UNCHANGED kind

-----------------------------------------------------------------------------
(* The job *)

Goto(j, label) == pc' = [pc EXCEPT ![j] = label] /\ UNCHANGED <<tok, val>>

End(j) ==
    /\ pc' = [pc EXCEPT ![j] = "idle"]
    /\ tok' = [tok EXCEPT ![j] = InitToken] /\ val' = [val EXCEPT ![j] = 0]

\* Cron starts a run, which reads the token.
Tick(j) ==
    /\ phase = "up" /\ pc[j] = "idle"
    /\ pc' = [pc EXCEPT ![j] = "compare"]
    /\ tok' = [tok EXCEPT ![j] = token]
    /\ UNCHANGED <<bus, kind, phase, object, val, hist>>

\* A minute passes; only the iterator knows when it was built.
Age ==
    /\ kind = Plugins /\ phase = "up" /\ ~aged /\ aged' = TRUE
    /\ UNCHANGED <<bus, kind, phase, token, content, built, jobs, hist>>

\* Mutant: the iterator is rebuilt for a token only, as the router is.
CompareTokens(j) ==
    /\ pc[j] = "compare"
    /\ IF built = tok[j] THEN End(j) ELSE Goto(j, "list")
    /\ UNCHANGED <<bus, kind, phase, object, hist>>

Compare(j) ==
    /\ pc[j] = "compare"
    /\ IF built = tok[j] /\ ~aged THEN End(j) ELSE Goto(j, "list")
    /\ UNCHANGED <<bus, kind, phase, object, hist>>

List(j) ==
    /\ pc[j] = "list" /\ pc' = [pc EXCEPT ![j] = "store"]
    /\ val' = [val EXCEPT ![j] = version]
    /\ UNCHANGED <<bus, kind, phase, object, tok, hist>>

\* Mutant: an error is taken for an empty list.
ListNothing(j) ==
    /\ pc[j] = "list" /\ pc' = [pc EXCEPT ![j] = "store"] /\ Fault
    /\ val' = [val EXCEPT ![j] = Nothing]
    /\ UNCHANGED <<version, inTx, outbox, inbox, kind, phase, object, tok, hist>>

\* Mutant: the token is recorded before the rows are listed.
ListFailsMarked(j) ==
    /\ pc[j] = "list" /\ End(j) /\ Fault
    /\ built' = tok[j]
    /\ UNCHANGED <<version, inTx, outbox, inbox, kind, phase, token, content, aged, hist>>

\* The query fails, or a plugin does not load: the object stays as it is.
ListFails(j) ==
    /\ pc[j] = "list" /\ End(j) /\ Fault
    /\ UNCHANGED <<version, inTx, outbox, inbox, kind, phase, object, hist>>

StoreRouter(j) ==
    /\ kind = Router /\ pc[j] = "store" /\ Goto(j, "mark")
    /\ content' = val[j]
    /\ owner' = j
    /\ UNCHANGED <<bus, kind, phase, token, built, aged, torn, missed>>

MarkRouter(j) ==
    /\ pc[j] = "mark" /\ End(j)
    /\ built' = tok[j]
    /\ torn' = (owner # j)
    /\ UNCHANGED <<bus, kind, phase, token, content, aged, owner, missed>>

SetIterator(j) ==
    /\ kind = Plugins /\ pc[j] = "store" /\ End(j)
    /\ content' = val[j] /\ built' = tok[j] /\ aged' = FALSE
    /\ UNCHANGED <<bus, kind, phase, token, hist>>

RunJob(j) ==
    Compare(j) \/ List(j) \/ StoreRouter(j) \/ MarkRouter(j) \/ SetIterator(j)

-----------------------------------------------------------------------------
Next ==
    \/ Change
    \/ \E n \in Nodes : Broadcast(n) \/ Lose(n) \/ Ignore(n)
    \/ SetVersion \/ BuildInit \/ BuildInitFails \/ Subscribe \/ Crash \/ Age
    \/ \E j \in Jobs : Tick(j) \/ RunJob(j) \/ ListFails(j)

\* Goroutines and connections make progress, time passes, cron ticks, the
\* supervisor starts the process again and a transaction ends.
Fairness ==
    /\ WF_vars(CommitTx /\ Change)
    /\ \A n \in Nodes : WF_vars(Broadcast(n)) /\ WF_vars(Ignore(n))
    /\ WF_vars(SetVersion) /\ WF_vars(BuildInit) /\ WF_vars(Subscribe) /\ WF_vars(Age)
    /\ WF_vars(\E j \in Jobs : Tick(j))
    /\ \A j \in Jobs : WF_vars(RunJob(j))

Spec == Init /\ [][Next]_vars
FairSpec == Spec /\ Fairness

-----------------------------------------------------------------------------
(* Properties *)

\* A new token per message; what is in the store is unique, here a number.
Tokens == Nat

\* The types of the variables.  What a job lists it publishes, so the router is
\* never emptied by an error.
TypeOK ==
    /\ BusTypeOK
    /\ kind \in {Router, Plugins} /\ phase \in {"down", "built", "up"}
    /\ token \in Tokens /\ built \in Tokens \cup {NoToken}
    /\ content \in 0 .. MaxVersion \cup {Nothing}
    /\ aged \in BOOLEAN
    /\ pc \in [Jobs -> {"idle", "compare", "list", "store", "mark"}]
    /\ tok \in [Jobs -> Tokens] /\ val \in [Jobs -> 0 .. MaxVersion]
    /\ owner \in Jobs \cup {NoJob} /\ torn \in BOOLEAN /\ missed \in BOOLEAN

\* An object built from other rows than the committed ones will be rebuilt (a
\* message or a token says so, or a job is about to record the token of the rows
\* it stored), unless a message was missed or two jobs left the router of the one
\* with the token of the other.
StaleHasCause ==
    phase = "up" /\ content # version =>
        \/ Pending(Gateway) \/ built # token
        \/ \E j \in Jobs : pc[j] = "mark"
        \/ missed \/ torn

\* The iterator catches up whatever happens.  So does the router, but for the two
\* causes above: then it stays outdated until a source changes again.
EventuallyCurrent ==
    <>[](content = version \/ (kind = Router /\ (missed \/ torn)))

-----------------------------------------------------------------------------
(* The inductive invariant *)

\* Jobs run on a node that is up, one that is down has built nothing, and tokens
\* only grow.
JobsKnow ==
    /\ phase = "down" => built = NoToken
    /\ phase # "up" => \A j \in Jobs : pc[j] = "idle"
    /\ built <= token /\ \A j \in Jobs : tok[j] <= token
    /\ \A j \in Jobs : pc[j] = "mark" => kind = Router

\* The message of a transaction that has not committed is still to come, or
\* was one too many.
EarlyIsMissed == inTx => Pending(Gateway) \/ missed

\* A job that has listed rows for the present token has the present rows, or
\* another token will follow.
ListedHasCause ==
    \A j \in Jobs :
        pc[j] \in {"store", "mark"} /\ tok[j] = token /\ val[j] # version =>
            Pending(Gateway) \/ missed

\* The router is the one its owner has listed, until another job stores one.
OwnerKnows ==
    \A j \in Jobs : pc[j] = "mark" /\ owner = j => content = val[j]

\* As StaleHasCause, also before the node has subscribed.
BuiltHasCause ==
    phase # "down" /\ content # version =>
        \/ Pending(Gateway) \/ built # token
        \/ \E j \in Jobs : pc[j] = "mark"
        \/ missed \/ torn

IndInv ==
    TypeOK /\ JobsKnow /\ EarlyIsMissed /\ ListedHasCause /\ OwnerKnows /\ BuiltHasCause
=============================================================================
