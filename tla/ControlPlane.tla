---------------------------- MODULE ControlPlane ----------------------------
(***************************************************************************)
(* The tables of the control plane and who writes them: the handlers of    *)
(* the admin API, the declarative sync and the job that disables endpoints *)
(* whose circuit breaker is open.  All go through the generic DAO, so the  *)
(* four tables are one function from ids to rows, and a handler is one     *)
(* action for every table.                                                 *)
(*                                                                         *)
(* A handler is several statements: the middleware resolves the workspace, *)
(* an update reads the row, merges the body into it and then writes every  *)
(* column, and a sync upserts its configuration in a transaction, and then *)
(* lists and deletes, statement by statement, what it did not upsert.      *)
(***************************************************************************)
EXTENDS Integers, FiniteSets

CONSTANTS
    Clients,            \* requests of the admin API being served
    Detectors,          \* nodes that run the detection job
    Ids, TableOf,       \* primary keys, and the table of each
    Names, Default,     \* names of rows; the name of the default workspace
    Null,               \* no name, or no owner
    Configs,            \* configurations that may be synced
    InitialRows,
    MaxRequests, MaxFaults,
    NoRow, Gone         \* an id that is not used yet, and one whose row was deleted

EndpointIds == {id \in Ids : TableOf[id] = "endpoints"}
SourceIds == {id \in Ids : TableOf[id] = "sources"}
PluginIds == {id \in Ids : TableOf[id] = "plugins"}
WorkspaceIds == {id \in Ids : TableOf[id] = "workspaces"}

\* ws: ws_id; owner: endpoint_id or source_id of a plugin.
Rows == [ws : WorkspaceIds \cup {Null}, name : Names \cup {Default, Null},
         owner : Ids \cup {Null}, enabled : BOOLEAN]

\* What a configuration says of an endpoint or a source.
Items == [table : {"endpoints", "sources"}, name : Names \cup {Null},
          plugin : Names \cup {Null}, enabled : BOOLEAN]

ASSUME ControlPlaneAssumption ==
    /\ TableOf \in [Ids -> {"endpoints", "sources", "plugins", "workspaces"}]
    /\ Null \notin Ids /\ NoRow # Gone /\ {NoRow, Gone} \cap Rows = {}
    /\ MaxRequests \in Nat /\ MaxFaults \in Nat

\* A configuration has one item for a name: the last one, where it repeats it.
ASSUME ConfigsAssumption ==
    \A items \in Configs :
        /\ items \subseteq Items /\ IsFiniteSet(items)
        /\ \A x, y \in items : x.table = y.table /\ x.name = y.name /\ x.name # Null => x = y

\* "db up" has made the default workspace, and only plugins have owners.
ASSUME InitialRowsAssumption ==
    /\ InitialRows \in [Ids -> Rows \cup {NoRow}]
    /\ \E id \in WorkspaceIds : InitialRows[id] # NoRow /\ InitialRows[id].name = Default
    /\ \A id \in Ids \ PluginIds : InitialRows[id] # NoRow => InitialRows[id].owner = Null

VARIABLES
    rows,
    \* a client: next step, workspace, id and row of an update, what it asks
    \* of "enabled"
    pc, ws, target, held, ask,
    cfg, kept, todo,    \* a sync: configuration, ids upserted, ids to delete
    lock,               \* the key of the detection job is in Redis
    page,               \* detector -> endpoints it has still to look at
    requests, faults,
    \* history
    alone,              \* no one else has written in the workspace of a sync
    overtaken,          \* the endpoint the client is updating was disabled
    reports             \* id -> disablings reported since it was last enabled

admin == <<pc, ws, target, held, ask, cfg, kept, todo>>
job == <<lock, page>>
hist == <<alone, overtaken, reports>>
vars == <<rows, admin, job, requests, faults, hist>>

Init ==
    /\ rows = InitialRows
    /\ pc = [c \in Clients |-> "idle"]
    /\ ws = [c \in Clients |-> Null]
    /\ target = [c \in Clients |-> Null]
    /\ held = [c \in Clients |-> NoRow]
    /\ ask = [c \in Clients |-> "keep"]
    /\ cfg = [c \in Clients |-> {}]
    /\ kept = [c \in Clients |-> {}] /\ todo = [c \in Clients |-> {}]
    /\ lock = FALSE
    /\ page = [d \in Detectors |-> {}]
    /\ requests = MaxRequests /\ faults = MaxFaults
    /\ alone = [c \in Clients |-> TRUE]
    /\ overtaken = [c \in Clients |-> FALSE]
    /\ reports = [id \in Ids |-> 0]

-----------------------------------------------------------------------------
(* The DAO and the constraints of the tables *)

Exists(id) == rows[id] \notin {NoRow, Gone}

\* Ids are KSUIDs; a client that brings its own does not bring an old one.
Unused(id) == rows[id] = NoRow

\* The columns of the unique index of a table.
UniqueKey(t, r) ==
    CASE t = "workspaces" -> <<r.name>>
      [] t = "plugins" -> <<r.owner, r.name>>
      [] OTHER -> <<r.ws, r.name>>

\* NULL is not equal to NULL.
Clashes(id, r) ==
    /\ r.name # Null
    /\ \E o \in Ids \ {id} :
          /\ TableOf[o] = TableOf[id] /\ Exists(o)
          /\ UniqueKey(TableOf[o], rows[o]) = UniqueKey(TableOf[id], r)

\* A statement that would break a constraint fails and changes nothing.
Accepted(id, r) ==
    /\ ~Clashes(id, r)
    /\ r.owner # Null => Exists(r.owner)

\* Foreign keys: ON DELETE CASCADE.
Deleted(ids) ==
    [id \in Ids |-> IF id \in ids \/ (Exists(id) /\ rows[id].owner \in ids)
                    THEN Gone ELSE rows[id]]

\* Workspaces are not filtered by workspace, the other tables are.
Visible(c, id) ==
    Exists(id) /\ (TableOf[id] = "workspaces" \/ rows[id].ws = ws[c])

Syncing(c) == pc[c] \in {"list_endpoints", "endpoints", "list_sources", "sources", "synced"}

\* After the rows are written by client c.
Observe(c) ==
    /\ alone' = [a \in Clients |-> Syncing(a) => alone[a] /\ (a = c \/ ws[a] # ws[c])]
    /\ reports' = [id \in Ids |->
                     IF Exists(id)' /\ ~rows'[id].enabled THEN reports[id] ELSE 0]

Fault == faults > 0 /\ faults' = faults - 1

-----------------------------------------------------------------------------
(* Requests *)

\* Workspaces are looked up by name first.
Resolve(wid) ==
    LET named == {id \in WorkspaceIds : Exists(id) /\ rows[id].name = wid}
    IN  IF named # {} THEN named ELSE {id \in WorkspaceIds : Exists(id) /\ id = wid}

\* contextMiddleware; a request for a workspace that is not there is refused.
Enter(c, wid) ==
    /\ pc[c] = "idle" /\ requests > 0 /\ requests' = requests - 1
    /\ \E w \in Resolve(wid) : ws' = [ws EXCEPT ![c] = w]
    /\ pc' = [pc EXCEPT ![c] = "in"]
    /\ UNCHANGED <<rows, target, held, ask, cfg, kept, todo, job, faults, hist>>

\* The row that a is updating is disabled by this step.
Overtakes(a) ==
    /\ pc[a] = "write" /\ Exists(target[a]) /\ rows[target[a]].enabled
    /\ rows'[target[a]] \notin {NoRow, Gone} /\ ~rows'[target[a]].enabled

Respond(c) ==
    /\ pc' = [pc EXCEPT ![c] = "idle"]
    /\ ws' = [ws EXCEPT ![c] = Null]
    /\ target' = [target EXCEPT ![c] = Null]
    /\ held' = [held EXCEPT ![c] = NoRow]
    /\ ask' = [ask EXCEPT ![c] = "keep"]
    /\ cfg' = [cfg EXCEPT ![c] = {}]
    /\ kept' = [kept EXCEPT ![c] = {}] /\ todo' = [todo EXCEPT ![c] = {}]
    /\ overtaken' = [a \in Clients |-> a # c /\ (overtaken[a] \/ Overtakes(a))]

\* A body that is not valid, a row that is not there, a guard that does not hold
\* or a constraint that would be broken: nothing has been written yet.
Refuse(c) ==
    /\ pc[c] = "in"
    /\ UNCHANGED <<rows, job, requests, faults, alone, reports>>
    /\ Respond(c)

\* CreateEndpoint, CreateSource, CreatePlugin, CreateWorkspace.  Here and in an
\* update, only of endpoints it matters whether they are enabled.
Create(c, id, name, owner, en) ==
    LET r == [ws |-> IF TableOf[id] = "workspaces" THEN Null ELSE ws[c],
              name |-> name, owner |-> owner, enabled |-> en]
    IN  /\ pc[c] = "in" /\ Unused(id)
        /\ (owner # Null) = (TableOf[id] = "plugins")
        /\ TableOf[id] = "plugins" => name # Null
        /\ name = Default => TableOf[id] = "workspaces"
        /\ ~en => TableOf[id] = "endpoints"
        /\ owner \in EndpointIds \cup SourceIds \cup {Null}
        /\ Accepted(id, r) /\ rows' = [rows EXCEPT ![id] = r]
        /\ Observe(c) /\ Respond(c)
        /\ UNCHANGED <<job, requests, faults>>

\* Mutant: the statement has no condition on the workspace.
DeleteAnywhere(c, id) ==
    /\ pc[c] = "in" /\ TableOf[id] # "workspaces" /\ Exists(id)
    /\ rows' = Deleted({id})
    /\ Observe(c) /\ Respond(c)
    /\ UNCHANGED <<job, requests, faults>>

\* DeleteEndpoint, DeleteSource, DeletePlugin.
Delete(c, id) ==
    /\ pc[c] = "in" /\ TableOf[id] # "workspaces" /\ Visible(c, id)
    /\ rows' = Deleted({id})
    /\ Observe(c) /\ Respond(c)
    /\ UNCHANGED <<job, requests, faults>>

\* Mutant: what the body leaves out gets the default of the schema.
MergedIntoDefaults(r, name, en) ==
    [r EXCEPT !.name = name, !.enabled = (en # "off")]

\* The row with the body merged into it: what the body leaves out is kept.
Merged(r, name, en) ==
    [r EXCEPT !.name = name,
              !.enabled = CASE en = "on" -> TRUE [] en = "off" -> FALSE [] OTHER -> @]

\* Mutant: only the name that is asked for is looked at.
RenamableTo(r, name) == TRUE

\* "cannot rename default workspace"
Renamable(r, name) == r.name = Default => name = Default

\* UpdateEndpoint, UpdateSource, UpdatePlugin, UpdateWorkspace: the read.
Fetch(c, id, name, en) ==
    /\ pc[c] = "in"
    /\ TableOf[id] = "plugins" => name # Null
    /\ name = Default => TableOf[id] = "workspaces"
    /\ en # "keep" => TableOf[id] = "endpoints"
    /\ Visible(c, id) /\ (TableOf[id] = "workspaces" => Renamable(rows[id], name))
    /\ pc' = [pc EXCEPT ![c] = "write"]
    /\ target' = [target EXCEPT ![c] = id]
    /\ held' = [held EXCEPT ![c] = Merged(rows[id], name, en)]
    /\ ask' = [ask EXCEPT ![c] = en]
    /\ UNCHANGED <<rows, ws, cfg, kept, todo, job, requests, faults, hist>>

\* The write of every column; a row deleted in between is an error.
Write(c) ==
    LET id == target[c]
    IN  /\ pc[c] = "write"
        /\ rows' = IF Visible(c, id) /\ Accepted(id, held[c])
                   THEN [rows EXCEPT ![id] = held[c]] ELSE rows
        /\ Observe(c) /\ Respond(c)
        /\ UNCHANGED <<job, requests, faults>>

\* DeleteWorkspace: the read, and its guard.
FetchWorkspace(c, id) ==
    /\ pc[c] = "in" /\ TableOf[id] = "workspaces"
    /\ Exists(id) /\ rows[id].name # Default
    /\ pc' = [pc EXCEPT ![c] = "remove"]
    /\ target' = [target EXCEPT ![c] = id]
    /\ UNCHANGED <<rows, ws, held, ask, cfg, kept, todo, job, requests, faults, hist>>

\* The rows of the workspace stay: ws_id is not a foreign key.
RemoveWorkspace(c) ==
    /\ pc[c] = "remove"
    /\ rows' = Deleted({target[c]})
    /\ Observe(c) /\ Respond(c)
    /\ UNCHANGED <<job, requests, faults>>

-----------------------------------------------------------------------------
(* Declarative sync *)

\* Where ON CONFLICT (ws_id, name) finds an item of client c.
Conflicting(c, item) ==
    {id \in Ids : /\ TableOf[id] = item.table /\ Exists(id) /\ item.name # Null
                  /\ rows[id].ws = ws[c] /\ rows[id].name = item.name}

\* An id for every item: the one of the row it updates, or a new one.
Upserts(c, items) ==
    {f \in [items -> EndpointIds \cup SourceIds] :
        /\ \A x, y \in items : x # y => f[x] # f[y]
        /\ \A x \in items :
              IF Conflicting(c, x) # {} THEN f[x] \in Conflicting(c, x)
                                        ELSE TableOf[f[x]] = x.table /\ Unused(f[x])}

\* Likewise for the plugins of the items, ON CONFLICT (endpoint_id, name).
PluginUpserts(f, items) ==
    LET with == {x \in items : x.plugin # Null}
        same(x) == {id \in PluginIds : /\ Exists(id) /\ rows[id].owner = f[x]
                                       /\ rows[id].name = x.plugin}
    IN  {g \in [with -> PluginIds] :
           /\ \A x, y \in with : x # y => g[x] # g[y]
           /\ \A x \in with : IF same(x) # {} THEN g[x] \in same(x) ELSE Unused(g[x])}

\* Every column of a row is written.
Upserted(c, f, g) ==
    [id \in Ids |->
        IF \E x \in DOMAIN f : f[x] = id
          THEN LET x == CHOOSE y \in DOMAIN f : f[y] = id
               IN  [ws |-> ws[c], name |-> x.name, owner |-> Null, enabled |-> x.enabled]
        ELSE IF \E x \in DOMAIN g : g[x] = id
          THEN LET x == CHOOSE y \in DOMAIN g : g[y] = id
               IN  [ws |-> ws[c], name |-> x.plugin, owner |-> f[x], enabled |-> TRUE]
        ELSE rows[id]]

\* Mutant: the ids of RETURNING are not read back.
KeptAsConfigured(f) == {f[x] : x \in {y \in DOMAIN f : Unused(f[y])}}

Kept(f) == {f[x] : x \in DOMAIN f}

\* The transaction.
SyncUpsert(c, items) ==
    /\ pc[c] = "in"
    /\ \E f \in Upserts(c, items) : \E g \in PluginUpserts(f, items) :
          /\ rows' = Upserted(c, f, g)
          /\ kept' = [kept EXCEPT ![c] = Kept(f)]
    /\ cfg' = [cfg EXCEPT ![c] = items]
    /\ pc' = [pc EXCEPT ![c] = "list_endpoints"]
    /\ Observe(c)
    /\ overtaken' = [a \in Clients |-> overtaken[a] \/ Overtakes(a)]
    /\ UNCHANGED <<ws, target, held, ask, todo, job, requests, faults>>

\* What the sync found in the workspace and did not upsert.
Strangers(c, ids) == {id \in ids : Exists(id) /\ rows[id].ws = ws[c]} \ kept[c]

SyncList(c) ==
    /\ \/ pc[c] = "list_endpoints" /\ pc' = [pc EXCEPT ![c] = "endpoints"]
          /\ todo' = [todo EXCEPT ![c] = Strangers(c, EndpointIds)]
       \/ pc[c] = "list_sources" /\ pc' = [pc EXCEPT ![c] = "sources"]
          /\ todo' = [todo EXCEPT ![c] = Strangers(c, SourceIds)]
    /\ UNCHANGED <<rows, ws, target, held, ask, cfg, kept, job, requests, faults, hist>>

\* By id only, and no matter whether it is there.
SyncDelete(c, id) ==
    /\ id \in todo[c] /\ todo' = [todo EXCEPT ![c] = @ \ {id}]
    /\ rows' = Deleted({id})
    /\ Observe(c)
    /\ UNCHANGED <<pc, ws, target, held, ask, cfg, kept, overtaken, job, requests, faults>>

SyncNext(c) ==
    /\ todo[c] = {}
    /\ \/ pc[c] = "endpoints" /\ pc' = [pc EXCEPT ![c] = "list_sources"]
       \/ pc[c] = "sources" /\ pc' = [pc EXCEPT ![c] = "synced"]
    /\ UNCHANGED <<rows, ws, target, held, ask, cfg, kept, todo, job, requests, faults, hist>>

SyncReturns(c) ==
    /\ pc[c] = "synced"
    /\ UNCHANGED <<rows, job, requests, faults, alone, reports>>
    /\ Respond(c)

\* A statement fails or the process ends: nothing is undone but a transaction.
Break(c) ==
    /\ pc[c] \notin {"idle", "in", "synced"} /\ Fault
    /\ UNCHANGED <<rows, job, requests, alone, reports>>
    /\ Respond(c)

-----------------------------------------------------------------------------
(* The detection job *)

\* SetNX, then the list of the endpoints that are enabled; a run that finds none
\* is left out.
Detect(d) ==
    LET enabled == {id \in EndpointIds : Exists(id) /\ rows[id].enabled}
    IN  /\ page[d] = {} /\ ~lock /\ lock' = TRUE
        /\ enabled # {} /\ page' = [page EXCEPT ![d] = enabled]
        /\ UNCHANGED <<rows, admin, requests, faults, hist>>

\* The lock has a time to live, is never released, and is not renewed.
LockExpires ==
    /\ lock /\ lock' = FALSE
    /\ UNCHANGED <<rows, admin, page, requests, faults, hist>>

\* Mutant: the statement has no condition on "enabled".
DisableAgain(id) == Exists(id)

\* UPDATE ... WHERE enabled = true AND id = ...: did it change a row?
Disable(id) == Exists(id) /\ rows[id].enabled

\* The circuit breaker of an endpoint is open, or it is not.
Judge(d, id) ==
    /\ id \in page[d] /\ page' = [page EXCEPT ![d] = @ \ {id}]
    /\ \/ /\ Disable(id)
          /\ rows' = [rows EXCEPT ![id].enabled = FALSE]
          /\ overtaken' = [c \in Clients |-> overtaken[c] \/ Overtakes(c)]
          /\ reports' = [reports EXCEPT ![id] = @ + 1]
       \/ UNCHANGED <<rows, overtaken, reports>>
    /\ UNCHANGED <<admin, lock, requests, faults, alone>>

\* A circuit breaker cannot be read, or a statement fails: the run ends early.
DetectFails(d) ==
    /\ page[d] # {} /\ page' = [page EXCEPT ![d] = {}]
    /\ Fault
    /\ UNCHANGED <<rows, admin, lock, requests, hist>>

-----------------------------------------------------------------------------
Handle(c) ==
    \/ \E wid \in WorkspaceIds \cup Names \cup {Default} : Enter(c, wid)
    \/ \E id \in Ids :
          \/ \E name \in Names \cup {Default, Null} :
                \/ \E owner \in Ids \cup {Null}, en \in BOOLEAN : Create(c, id, name, owner, en)
                \/ \E en \in {"keep", "on", "off"} : Fetch(c, id, name, en)
          \/ Delete(c, id) \/ FetchWorkspace(c, id) \/ SyncDelete(c, id)
    \/ Refuse(c) \/ Write(c) \/ RemoveWorkspace(c) \/ Break(c)
    \/ \E items \in Configs : SyncUpsert(c, items)
    \/ SyncList(c) \/ SyncNext(c) \/ SyncReturns(c)

Next ==
    \/ \E c \in Clients : Handle(c)
    \/ \E d \in Detectors :
          Detect(d) \/ DetectFails(d) \/ \E id \in EndpointIds : Judge(d, id)
    \/ LockExpires

Spec == Init /\ [][Next]_vars

-----------------------------------------------------------------------------
(* Properties *)

\* The types of the variables.
TypeOK ==
    /\ rows \in [Ids -> Rows \cup {NoRow, Gone}]
    /\ pc \in [Clients -> {"idle", "in", "write", "remove", "list_endpoints", "endpoints",
                           "list_sources", "sources", "synced"}]
    /\ ws \in [Clients -> WorkspaceIds \cup {Null}]
    /\ target \in [Clients -> Ids \cup {Null}]
    /\ held \in [Clients -> Rows \cup {NoRow}]
    /\ ask \in [Clients -> {"keep", "on", "off"}]
    /\ cfg \in [Clients -> SUBSET Items]
    /\ kept \in [Clients -> SUBSET Ids] /\ todo \in [Clients -> SUBSET Ids]
    /\ lock \in BOOLEAN /\ page \in [Detectors -> SUBSET EndpointIds]
    /\ requests \in 0 .. MaxRequests /\ faults \in 0 .. MaxFaults
    /\ alone \in [Clients -> BOOLEAN] /\ overtaken \in [Clients -> BOOLEAN]
    /\ reports \in [Ids -> Nat]

\* A request changes and deletes endpoints and sources of its own workspace only,
\* also a sync, which deletes by id what it listed some statements ago.
WorkspaceIsolation ==
    [][\A id \in EndpointIds \cup SourceIds :
          Exists(id) /\ rows'[id] # rows[id] =>
              \/ \E d \in Detectors : page'[d] # page[d]
              \/ \E c \in Clients :
                    /\ pc'[c] # pc[c] \/ todo'[c] # todo[c]
                    /\ rows[id].ws = ws[c]]_vars

\* A sync that nobody else interferes with leaves in its workspace exactly the
\* endpoints and sources of its configuration, and these have the plugins of the
\* configuration, whatever syncs that broke off half-way have left there.  They may
\* have others: a sync deletes no plugin of an endpoint that it keeps.
SyncIsExact ==
    \A c \in Clients : pc[c] = "synced" /\ alone[c] =>
        /\ {id \in EndpointIds \cup SourceIds : Exists(id) /\ rows[id].ws = ws[c]} = kept[c]
        /\ Cardinality(kept[c]) = Cardinality(cfg[c])
        /\ \A x \in cfg[c] : \E id \in kept[c] :
              /\ TableOf[id] = x.table /\ rows[id].name = x.name
              /\ x.plugin # Null =>
                    \E p \in PluginIds : /\ Exists(p) /\ rows[p].owner = id
                                         /\ rows[p].name = x.plugin

\* The workspace that every request without one is about is always there, though
\* its two guards are about a row that was read before.
DefaultWorkspaceRemains ==
    \E id \in WorkspaceIds : Exists(id) /\ rows[id].name = Default

\* An endpoint that was disabled, by the job, by a request or by a sync, is enabled
\* again by a request that asks for it, by a sync whose configuration enables it, or
\* by an update that had read the endpoint before and writes it back.
ReenabledOnPurpose ==
    [][\A id \in EndpointIds :
          /\ Exists(id) /\ ~rows[id].enabled
          /\ Exists(id)' /\ rows'[id].enabled
          => \E c \in Clients :
                \/ pc[c] = "write" /\ target[c] = id /\ (ask[c] = "on" \/ overtaken[c])
                \/ /\ pc[c] = "in" /\ pc'[c] = "list_endpoints"
                   /\ \E x \in cfg'[c] : /\ x.enabled /\ x.table = "endpoints"
                                         /\ x.name = rows'[id].name]_vars

\* Runs of the job that overlap, because one took longer than its lock lives,
\* report the disabling of an endpoint once.
DisableReportedOnce == \A id \in Ids : reports[id] <= 1

-----------------------------------------------------------------------------
(* The inductive invariant *)

\* Only plugins have owners, so nothing else is deleted by a cascade.
OnlyPluginsAreOwned ==
    \A id \in Ids \ PluginIds : Exists(id) => rows[id].owner = Null

\* An update that has read its row will write it where it belongs.
UpdatesAreOwn ==
    \A c \in Clients :
        /\ pc[c] = "write" =>
              /\ target[c] \in Ids /\ held[c] \in Rows /\ rows[target[c]] # NoRow
              /\ target[c] \notin PluginIds => held[c].owner = Null
              /\ target[c] \notin WorkspaceIds => held[c].ws = ws[c]
        /\ pc[c] = "remove" => target[c] \in WorkspaceIds

\* What a sync has listed is of its workspace, or has been deleted since.
DeletionsAreOwn ==
    \A c \in Clients :
        /\ todo[c] # {} => pc[c] \in {"endpoints", "sources"}
        /\ \A id \in todo[c] :
              /\ id \in EndpointIds \cup SourceIds /\ rows[id] # NoRow
              /\ Exists(id) => rows[id].ws = ws[c]

\* No request is about to rename or to delete the default workspace.
DefaultIsKept ==
    \E d \in WorkspaceIds :
        /\ Exists(d) /\ rows[d].name = Default
        /\ \A c \in Clients :
              /\ pc[c] = "write" /\ target[c] = d => held[c].name = Default
              /\ pc[c] = "remove" => target[c] # d

\* An update that is about to enable a row was asked to, or was overtaken.
EnablingHasCause ==
    \A c \in Clients :
        /\ pc[c] = "write" /\ held[c].enabled
        /\ Exists(target[c]) /\ ~rows[target[c]].enabled
        => ask[c] = "on" \/ overtaken[c]

\* The disabling of an endpoint that is enabled has not been reported.
EnabledIsUnreported ==
    \A id \in Ids : Exists(id) /\ rows[id].enabled => reports[id] = 0

\* A sync under way has upserted its configuration, and while it is alone it has
\* only to delete what it has listed or will list.
SyncIsOnItsWay ==
    \A c \in Clients : Syncing(c) =>
        /\ kept[c] \subseteq EndpointIds \cup SourceIds /\ todo[c] \cap kept[c] = {}
        /\ Cardinality(kept[c]) = Cardinality(cfg[c])
        /\ alone[c] =>
              /\ \A id \in kept[c] : Exists(id) /\ rows[id].ws = ws[c]
              /\ \A x \in cfg[c] : \E id \in kept[c] :
                    /\ TableOf[id] = x.table /\ rows[id].name = x.name
                    /\ x.plugin # Null =>
                          \E p \in PluginIds : /\ Exists(p) /\ rows[p].ws = ws[c]
                                               /\ rows[p].owner = id /\ rows[p].name = x.plugin
              /\ pc[c] # "list_endpoints" => Strangers(c, EndpointIds) \subseteq todo[c]
              /\ pc[c] \in {"sources", "synced"} => Strangers(c, SourceIds) \subseteq todo[c]

IndInv ==
    /\ TypeOK /\ OnlyPluginsAreOwned /\ UpdatesAreOwn /\ DeletionsAreOwn /\ DefaultIsKept
    /\ EnablingHasCause /\ DisableReportedOnce /\ EnabledIsUnreported /\ SyncIsOnItsWay
=============================================================================
