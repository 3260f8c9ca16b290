------------------------- MODULE ControlPlaneProofs -------------------------
(***************************************************************************)
(* Proofs about ControlPlane: a sync that nobody disturbs is exact, the    *)
(* default workspace remains, requests stay in their workspace, and an     *)
(* endpoint is enabled again on purpose and reported once, for any number  *)
(* of clients, detectors, rows and requests, and for all configurations.   *)
(***************************************************************************)
EXTENDS ControlPlane, FiniteSetTheorems, TLAPS

USE ControlPlaneAssumption

\* The tables of ids.
LEMMA Tables ==
  /\ EndpointIds \subseteq Ids /\ SourceIds \subseteq Ids /\ PluginIds \subseteq Ids
  /\ WorkspaceIds \subseteq Ids
  /\ \A id \in Ids : /\ id \in EndpointIds <=> TableOf[id] = "endpoints"
                     /\ id \in SourceIds <=> TableOf[id] = "sources"
                     /\ id \in PluginIds <=> TableOf[id] = "plugins"
                     /\ id \in WorkspaceIds <=> TableOf[id] = "workspaces"
  BY DEF EndpointIds, SourceIds, PluginIds, WorkspaceIds

\* A client that responds forgets everything, and the others nothing.
LEMMA RespondStep ==
  ASSUME TypeOK, NEW c \in Clients, Respond(c), NEW b \in Clients
  PROVE  IF b = c
         THEN /\ pc'[b] = "idle" /\ ws'[b] = Null /\ target'[b] = Null /\ held'[b] = NoRow
              /\ ask'[b] = "keep" /\ cfg'[b] = {} /\ kept'[b] = {} /\ todo'[b] = {}
         ELSE /\ pc'[b] = pc[b] /\ ws'[b] = ws[b] /\ target'[b] = target[b] /\ held'[b] = held[b]
              /\ ask'[b] = ask[b] /\ cfg'[b] = cfg[b] /\ kept'[b] = kept[b] /\ todo'[b] = todo[b]
  <1>1. /\ pc' = [pc EXCEPT ![c] = "idle"] /\ ws' = [ws EXCEPT ![c] = Null]
        /\ target' = [target EXCEPT ![c] = Null] /\ held' = [held EXCEPT ![c] = NoRow]
        /\ ask' = [ask EXCEPT ![c] = "keep"] /\ cfg' = [cfg EXCEPT ![c] = {}]
        /\ kept' = [kept EXCEPT ![c] = {}] /\ todo' = [todo EXCEPT ![c] = {}]
    BY Zenon DEF Respond
  <1> QED
    BY <1>1 DEF TypeOK

\* A step of a client leaves the others alone.
LEMMA OthersStay ==
  ASSUME TypeOK, NEW c \in Clients, Handle(c), NEW b \in Clients \ {c}
  PROVE  /\ pc'[b] = pc[b] /\ ws'[b] = ws[b] /\ target'[b] = target[b] /\ held'[b] = held[b]
         /\ ask'[b] = ask[b] /\ cfg'[b] = cfg[b] /\ kept'[b] = kept[b] /\ todo'[b] = todo[b]
  <1> DEFINE Goal == /\ pc'[b] = pc[b] /\ ws'[b] = ws[b] /\ target'[b] = target[b]
                     /\ held'[b] = held[b] /\ ask'[b] = ask[b] /\ cfg'[b] = cfg[b]
                     /\ kept'[b] = kept[b] /\ todo'[b] = todo[b]
  <1>1. CASE Respond(c)
    BY <1>1, RespondStep
  <1>2. ASSUME NEW wid \in WorkspaceIds \cup Names \cup {Default}, Enter(c, wid) PROVE Goal
    BY <1>2 DEF Enter, TypeOK
  <1>3. ASSUME NEW id \in Ids, NEW name \in Names \cup {Default, Null},
               NEW en \in {"keep", "on", "off"}, Fetch(c, id, name, en)
        PROVE  Goal
    BY <1>3 DEF Fetch, TypeOK
  <1>4. ASSUME NEW id \in Ids, FetchWorkspace(c, id) PROVE Goal
    BY <1>4 DEF FetchWorkspace, TypeOK
  <1>5. ASSUME NEW id \in Ids, SyncDelete(c, id) PROVE Goal
    BY <1>5 DEF SyncDelete, TypeOK
  <1>6. ASSUME NEW items \in Configs, SyncUpsert(c, items) PROVE Goal
    BY <1>6 DEF SyncUpsert, TypeOK
  <1>7. CASE SyncList(c) \/ SyncNext(c)
    BY <1>7 DEF SyncList, SyncNext, TypeOK
  <1> QED
    BY <1>1, <1>2, <1>3, <1>4, <1>5, <1>6, <1>7, Zenon
    DEF Handle, Create, Delete, Refuse, Write, RemoveWorkspace, Break, SyncReturns

\* Only what is deleted, and the plugins it owns, goes.
LEMMA DeletedRows ==
  ASSUME TypeOK, OnlyPluginsAreOwned, NEW ids \in SUBSET Ids, NEW id \in Ids
  PROVE  /\ Deleted(ids)[id] \in {rows[id], Gone}
         /\ Deleted(ids)[id] # rows[id] =>
               id \in ids \/ (id \in PluginIds /\ Exists(id) /\ rows[id].owner \in ids)
         /\ id \in ids => Deleted(ids)[id] = Gone
  BY DEF Deleted, OnlyPluginsAreOwned

\* A new row.
NewRow(w, name, owner, en) == [ws |-> w, name |-> name, owner |-> owner, enabled |-> en]

\* It is a row, and not a mark for one that is missing.
LEMMA NewRows ==
  ASSUME NEW w \in WorkspaceIds \cup {Null}, NEW name \in Names \cup {Default, Null},
         NEW owner \in Ids \cup {Null}, NEW en \in BOOLEAN
  PROVE  /\ NewRow(w, name, owner, en) \in Rows /\ NewRow(w, name, owner, en) \notin {NoRow, Gone}
  <1>1. NewRow(w, name, owner, en) \in Rows
    BY DEF NewRow, Rows
  <1> QED
    BY <1>1

\* What an item has.
LEMMA ItemsAre ==
  ASSUME NEW items \in Configs, NEW x \in items
  PROVE  /\ x.name \in Names \cup {Null} /\ x.plugin \in Names \cup {Null}
         /\ x.enabled \in BOOLEAN
  BY ConfigsAssumption DEF Items

\* The row that a sync writes for an item.
ItemRow(c, x) == NewRow(ws[c], x.name, Null, x.enabled)

\* It is a row of the workspace, with the name of the item.
LEMMA ItemRowIs ==
  ASSUME TypeOK, NEW c \in Clients, NEW items \in Configs, NEW x \in items
  PROVE  /\ ItemRow(c, x) \in Rows /\ ItemRow(c, x) \notin {NoRow, Gone}
         /\ ItemRow(c, x).ws = ws[c] /\ ItemRow(c, x).name = x.name /\ ItemRow(c, x).owner = Null
  <1>1. ws[c] \in WorkspaceIds \cup {Null}
    BY DEF TypeOK
  <1>2. ItemRow(c, x) \in Rows /\ ItemRow(c, x) \notin {NoRow, Gone}
    BY <1>1, ItemsAre, NewRows, Zenon DEF ItemRow
  <1>3. ItemRow(c, x).ws = ws[c] /\ ItemRow(c, x).name = x.name /\ ItemRow(c, x).owner = Null
    BY Zenon DEF ItemRow, NewRow
  <1> QED
    BY <1>2, <1>3

\* The row that it writes for the plugin of an item.
PluginRow(c, x, owner) == NewRow(ws[c], x.plugin, owner, TRUE)

\* It is a row of the workspace, owned by the item.
LEMMA PluginRowIs ==
  ASSUME TypeOK, NEW c \in Clients, NEW items \in Configs, NEW x \in items, NEW owner \in Ids
  PROVE  /\ PluginRow(c, x, owner) \in Rows /\ PluginRow(c, x, owner) \notin {NoRow, Gone}
         /\ PluginRow(c, x, owner).ws = ws[c] /\ PluginRow(c, x, owner).name = x.plugin
         /\ PluginRow(c, x, owner).owner = owner
  <1>1. ws[c] \in WorkspaceIds \cup {Null}
    BY DEF TypeOK
  <1>2. PluginRow(c, x, owner) \in Rows /\ PluginRow(c, x, owner) \notin {NoRow, Gone}
    BY <1>1, ItemsAre, NewRows, Zenon DEF PluginRow
  <1>3. /\ PluginRow(c, x, owner).ws = ws[c] /\ PluginRow(c, x, owner).name = x.plugin
        /\ PluginRow(c, x, owner).owner = owner
    BY Zenon DEF PluginRow, NewRow
  <1> QED
    BY <1>2, <1>3

\* What a sync writes: a row for every item and for every plugin of an item.
LEMMA UpsertedRows ==
  ASSUME TypeOK, NEW c \in Clients, NEW items \in Configs,
         NEW f \in Upserts(c, items), NEW g \in PluginUpserts(f, items)
  PROVE  /\ \A x \in items :
               /\ f[x] \in EndpointIds \cup SourceIds /\ TableOf[f[x]] = x.table
               /\ f[x] \in Conflicting(c, x) \/ Unused(f[x])
               /\ Upserted(c, f, g)[f[x]] = ItemRow(c, x)
         /\ \A x \in {y \in items : y.plugin # Null} :
               /\ g[x] \in PluginIds
               /\ Unused(g[x]) \/ (Exists(g[x]) /\ rows[g[x]].owner = f[x])
               /\ Upserted(c, f, g)[g[x]] = PluginRow(c, x, f[x])
         /\ \A id \in Ids :
               \/ Upserted(c, f, g)[id] = rows[id]
               \/ \E x \in items : id = f[x]
               \/ \E x \in items : x.plugin # Null /\ id = g[x]
         /\ \A x, y \in items : f[x] = f[y] => x = y
         /\ DOMAIN f = items
  <1> DEFINE with == {x \in items : x.plugin # Null}
  <1>1. /\ f \in [items -> EndpointIds \cup SourceIds]
        /\ \A x, y \in items : f[x] = f[y] => x = y
        /\ \A x \in items : f[x] \in Conflicting(c, x) \/ (TableOf[f[x]] = x.table /\ Unused(f[x]))
    BY DEF Upserts
  <1>2. /\ g \in [with -> PluginIds]
        /\ \A x, y \in with : g[x] = g[y] => x = y
        /\ \A x \in with : Unused(g[x]) \/ (Exists(g[x]) /\ rows[g[x]].owner = f[x])
    BY DEF PluginUpserts
  <1>3. (EndpointIds \cup SourceIds) \cap PluginIds = {} /\ PluginIds \subseteq Ids
        /\ EndpointIds \cup SourceIds \subseteq Ids
    BY DEF EndpointIds, SourceIds, PluginIds
  <1>4. ASSUME NEW x \in items
        PROVE  /\ TableOf[f[x]] = x.table
               /\ Upserted(c, f, g)[f[x]] = ItemRow(c, x)
    <2>1. TableOf[f[x]] = x.table
      BY <1>1 DEF Conflicting
    <2>2. (CHOOSE y \in DOMAIN f : f[y] = f[x]) = x
      BY <1>1
    <2>3. f[x] \in Ids /\ \E y \in DOMAIN f : f[y] = f[x]
      BY <1>1, <1>3
    <2> QED
      BY <2>1, <2>2, <2>3, Zenon DEF Upserted, NewRow, ItemRow
  <1>5. ASSUME NEW x \in with
        PROVE  Upserted(c, f, g)[g[x]] = PluginRow(c, x, f[x])
    <2>1. (CHOOSE y \in DOMAIN g : g[y] = g[x]) = x
      BY <1>2
    <2>2. g[x] \in Ids /\ ~(\E y \in DOMAIN f : f[y] = g[x]) /\ \E y \in DOMAIN g : g[y] = g[x]
      BY <1>1, <1>2, <1>3
    <2> QED
      BY <2>1, <2>2, Zenon DEF Upserted, NewRow, PluginRow
  <1>6. ASSUME NEW id \in Ids
        PROVE  \/ Upserted(c, f, g)[id] = rows[id]
               \/ \E x \in items : id = f[x]
               \/ \E x \in items : x.plugin # Null /\ id = g[x]
    BY <1>1, <1>2 DEF Upserted
  <1> QED
    BY <1>1, <1>2, <1>4, <1>5, <1>6

\* Init satisfies the inductive invariant.
LEMMA Initially == Init => IndInv
  <1> SUFFICES ASSUME Init PROVE IndInv
    OBVIOUS
  <1> USE InitialRowsAssumption
  <1>1. lock \in BOOLEAN /\ alone \in [Clients -> BOOLEAN] /\ overtaken \in [Clients -> BOOLEAN]
    BY Zenon DEF Init
  <1>2. TypeOK
    BY <1>1 DEF Init, TypeOK
  <1>3. OnlyPluginsAreOwned
    BY DEF Init, OnlyPluginsAreOwned, Exists
  <1>4. UpdatesAreOwn /\ DeletionsAreOwn /\ EnablingHasCause /\ SyncIsOnItsWay
    BY DEF Init, UpdatesAreOwn, DeletionsAreOwn, EnablingHasCause, SyncIsOnItsWay, Syncing
  <1>5. DefaultIsKept
    <2>1. PICK d \in WorkspaceIds : InitialRows[d] # NoRow /\ InitialRows[d].name = Default
      OBVIOUS
    <2>2. d \in Ids
      BY DEF WorkspaceIds
    <2>3. Exists(d) /\ rows[d].name = Default
      BY <2>1, <2>2 DEF Init, Exists
    <2> QED
      BY <2>3 DEF Init, DefaultIsKept
  <1>6. DisableReportedOnce /\ EnabledIsUnreported
    BY DEF Init, DisableReportedOnce, EnabledIsUnreported
  <1> QED
    BY <1>2, <1>3, <1>4, <1>5, <1>6 DEF IndInv

\* A row that an update has merged its body into is a row.
LEMMA MergedRows ==
  ASSUME NEW r \in Rows, NEW name \in Names \cup {Default, Null}, NEW en \in {"keep", "on", "off"}
  PROVE  \A m : m = Merged(r, name, en) =>
            m \in Rows /\ m.ws = r.ws /\ m.owner = r.owner /\ m.name = name
  <1>1. CASE en = "on"
    BY <1>1 DEF Merged, Rows
  <1>2. CASE en = "off"
    BY <1>2 DEF Merged, Rows
  <1>3. CASE en = "keep"
    BY <1>3 DEF Merged, Rows
  <1> QED
    BY <1>1, <1>2, <1>3

\* It is enabled because it was, or because the body says so.
LEMMA MergedEnabled ==
  ASSUME NEW r \in Rows, NEW name \in Names \cup {Default, Null}, NEW en \in {"keep", "on", "off"}
  PROVE  \A m : m = Merged(r, name, en) /\ m.enabled => r.enabled \/ en = "on"
  <1>1. CASE en = "on"
    BY <1>1
  <1>2. CASE en = "off"
    BY <1>2 DEF Merged, Rows
  <1>3. CASE en = "keep"
    BY <1>3 DEF Merged, Rows
  <1> QED
    BY <1>1, <1>2, <1>3

\* Every step keeps the types of the history, which are Boolean.
LEMMA BooleanStep ==
  ASSUME TypeOK, [Next]_vars
  PROVE  lock' \in BOOLEAN /\ alone' \in [Clients -> BOOLEAN] /\ overtaken' \in [Clients -> BOOLEAN]
  <1> DEFINE Goal == /\ lock' \in BOOLEAN /\ alone' \in [Clients -> BOOLEAN]
                     /\ overtaken' \in [Clients -> BOOLEAN]
  <1>0. lock \in BOOLEAN /\ alone \in [Clients -> BOOLEAN] /\ overtaken \in [Clients -> BOOLEAN]
    BY Zenon DEF TypeOK
  <1>1. ASSUME NEW c \in Clients, Handle(c) PROVE Goal
    <2>1. UNCHANGED lock
      BY <1>1, ZenonT(90)
      DEF Handle, Enter, Create, Fetch, Delete, FetchWorkspace, SyncDelete, Refuse, Write,
          RemoveWorkspace, Break, SyncUpsert, SyncList, SyncNext, SyncReturns, job
    <2>2. UNCHANGED alone \/ Observe(c)
      BY <1>1, ZenonT(90)
      DEF Handle, Enter, Create, Fetch, Delete, FetchWorkspace, SyncDelete, Refuse, Write,
          RemoveWorkspace, Break, SyncUpsert, SyncList, SyncNext, SyncReturns, hist
    <2>3. UNCHANGED overtaken \/ Respond(c) \/ overtaken' = [a \in Clients |-> overtaken[a] \/ Overtakes(a)]
      BY <1>1, ZenonT(90)
      DEF Handle, Enter, Create, Fetch, Delete, FetchWorkspace, SyncDelete, Refuse, Write,
          RemoveWorkspace, Break, SyncUpsert, SyncList, SyncNext, SyncReturns, hist
    <2>4. alone' \in [Clients -> BOOLEAN]
      BY <1>0, <2>2, Zenon DEF Observe
    <2>5. overtaken' \in [Clients -> BOOLEAN]
      BY <1>0, <2>3, Zenon DEF Respond
    <2> QED
      BY <1>0, <2>1, <2>4, <2>5, Zenon
  <1>2. ASSUME NEW d \in Detectors,
               Detect(d) \/ DetectFails(d) \/ \E id \in EndpointIds : Judge(d, id)
        PROVE  Goal
    BY <1>0, <1>2, Zenon DEF Detect, DetectFails, Judge, hist
  <1>3. CASE LockExpires
    BY <1>0, <1>3, Zenon DEF LockExpires, hist
  <1>4. CASE UNCHANGED vars
    BY <1>0, <1>4, Zenon DEF vars, job, hist
  <1> QED
    BY <1>1, <1>2, <1>3, <1>4, Zenon DEF Next

\* A step of a client keeps the types of what clients have.
LEMMA ClientTypes ==
  ASSUME TypeOK, NEW c \in Clients, Handle(c)
  PROVE  /\ pc' \in [Clients -> {"idle", "in", "write", "remove", "list_endpoints", "endpoints",
                                 "list_sources", "sources", "synced"}]
         /\ ws' \in [Clients -> WorkspaceIds \cup {Null}]
         /\ target' \in [Clients -> Ids \cup {Null}]
         /\ held' \in [Clients -> Rows \cup {NoRow}]
         /\ ask' \in [Clients -> {"keep", "on", "off"}]
         /\ cfg' \in [Clients -> SUBSET Items]
         /\ kept' \in [Clients -> SUBSET Ids] /\ todo' \in [Clients -> SUBSET Ids]
  <1> DEFINE Goal == /\ pc' \in [Clients -> {"idle", "in", "write", "remove", "list_endpoints",
                                    "endpoints", "list_sources", "sources", "synced"}]
                     /\ ws' \in [Clients -> WorkspaceIds \cup {Null}]
                     /\ target' \in [Clients -> Ids \cup {Null}]
                     /\ held' \in [Clients -> Rows \cup {NoRow}]
                     /\ ask' \in [Clients -> {"keep", "on", "off"}]
                     /\ cfg' \in [Clients -> SUBSET Items]
                     /\ kept' \in [Clients -> SUBSET Ids] /\ todo' \in [Clients -> SUBSET Ids]
  <1>1. CASE Respond(c)
    <2>1. /\ pc' = [pc EXCEPT ![c] = "idle"] /\ ws' = [ws EXCEPT ![c] = Null]
          /\ target' = [target EXCEPT ![c] = Null] /\ held' = [held EXCEPT ![c] = NoRow]
          /\ ask' = [ask EXCEPT ![c] = "keep"] /\ cfg' = [cfg EXCEPT ![c] = {}]
          /\ kept' = [kept EXCEPT ![c] = {}] /\ todo' = [todo EXCEPT ![c] = {}]
      BY <1>1, Zenon DEF Respond
    <2> QED
      BY <2>1 DEF TypeOK
  <1>2. ASSUME NEW wid \in WorkspaceIds \cup Names \cup {Default}, Enter(c, wid) PROVE Goal
    <2>1. \A w \in Resolve(wid) : w \in WorkspaceIds
      BY DEF Resolve
    <2> QED
      BY <1>2, <2>1 DEF Enter, TypeOK
  <1>3. ASSUME NEW id \in Ids, NEW name \in Names \cup {Default, Null},
               NEW en \in {"keep", "on", "off"}, Fetch(c, id, name, en)
        PROVE  Goal
    <2>1. rows[id] \in Rows
      BY <1>3 DEF Fetch, Visible, Exists, TypeOK
    <2>2. Merged(rows[id], name, en) \in Rows
      BY <2>1, MergedRows
    <2> QED
      BY <1>3, <2>2 DEF Fetch, TypeOK
  <1>4. ASSUME NEW id \in Ids, FetchWorkspace(c, id) PROVE Goal
    BY <1>4 DEF FetchWorkspace, TypeOK
  <1>5. ASSUME NEW id \in Ids, SyncDelete(c, id) PROVE Goal
    BY <1>5 DEF SyncDelete, TypeOK
  <1>6. ASSUME NEW items \in Configs, SyncUpsert(c, items) PROVE Goal
    <2>1. PICK f \in Upserts(c, items) : kept' = [kept EXCEPT ![c] = Kept(f)]
      BY <1>6 DEF SyncUpsert
    <2>2. Kept(f) \subseteq Ids
      BY DEF Kept, Upserts, EndpointIds, SourceIds
    <2>3. items \in SUBSET Items
      BY ConfigsAssumption
    <2> QED
      BY <1>6, <2>1, <2>2, <2>3 DEF SyncUpsert, TypeOK
  <1>7. CASE SyncList(c) \/ SyncNext(c)
    <2>1. Strangers(c, EndpointIds) \subseteq Ids /\ Strangers(c, SourceIds) \subseteq Ids
      BY DEF Strangers, EndpointIds, SourceIds
    <2> QED
      BY <1>7, <2>1 DEF SyncList, SyncNext, TypeOK
  <1> QED
    BY <1>1, <1>2, <1>3, <1>4, <1>5, <1>6, <1>7, Zenon
    DEF Handle, Create, Delete, Refuse, Write, RemoveWorkspace, Break, SyncReturns

\* How a step of a client changes the rows.
LEMMA ClientWrites ==
  ASSUME NEW c \in Clients, Handle(c)
  PROVE  \/ UNCHANGED <<rows, alone, reports>>
         \/ /\ Observe(c)
            /\ \/ \E id \in Ids, name \in Names \cup {Default, Null}, owner \in Ids \cup {Null},
                     en \in BOOLEAN : Create(c, id, name, owner, en)
               \/ \E id \in Ids : Delete(c, id) \/ SyncDelete(c, id)
               \/ Write(c) \/ RemoveWorkspace(c)
               \/ \E items \in Configs : SyncUpsert(c, items)
  BY ZenonT(90) DEF Handle, Enter, Create, Fetch, Delete, FetchWorkspace, SyncDelete, Refuse,
     Write, RemoveWorkspace, Break, SyncUpsert, SyncList, SyncNext, SyncReturns, hist

\* Judge disables an endpoint that is enabled, or changes no row.
LEMMA JudgeRows ==
  ASSUME TypeOK, NEW d \in Detectors, NEW id \in EndpointIds, Judge(d, id)
  PROVE  \/ UNCHANGED <<rows, overtaken, reports>>
         \/ /\ Exists(id) /\ rows[id].enabled /\ rows[id] \in Rows
            /\ rows'[id] = [rows[id] EXCEPT !.enabled = FALSE] /\ rows'[id] \in Rows
            /\ \A o \in Ids \ {id} : rows'[o] = rows[o]
            /\ rows' \in [Ids -> Rows \cup {NoRow, Gone}]
            /\ overtaken' = [c \in Clients |-> overtaken[c] \/ Overtakes(c)]
            /\ reports' = [reports EXCEPT ![id] = @ + 1]
  <1>1. CASE UNCHANGED <<rows, overtaken, reports>>
    BY <1>1
  <1>2. CASE /\ Disable(id)
             /\ rows' = [rows EXCEPT ![id].enabled = FALSE]
             /\ overtaken' = [c \in Clients |-> overtaken[c] \/ Overtakes(c)]
             /\ reports' = [reports EXCEPT ![id] = @ + 1]
    <2>1. id \in Ids /\ Exists(id) /\ rows[id].enabled
      BY <1>2 DEF Disable, EndpointIds
    <2>2. rows[id] \in Rows
      BY <2>1 DEF Exists, TypeOK
    <2>3. rows' = [rows EXCEPT ![id] = [rows[id] EXCEPT !.enabled = FALSE]]
      BY <1>2
    <2>4. [rows[id] EXCEPT !.enabled = FALSE] \in Rows
      BY <2>2 DEF Rows
    <2>5. /\ rows'[id] = [rows[id] EXCEPT !.enabled = FALSE]
          /\ \A o \in Ids \ {id} : rows'[o] = rows[o]
      BY <2>1, <2>3 DEF TypeOK
    <2>6. rows' \in [Ids -> Rows \cup {NoRow, Gone}]
      BY <2>1, <2>3, <2>4 DEF TypeOK
    <2> QED
      BY <1>2, <2>1, <2>2, <2>4, <2>5, <2>6
  <1> QED
    BY <1>1, <1>2 DEF Judge

\* Every step keeps the types.
LEMMA TypeStep ==
  ASSUME IndInv, [Next]_vars
  PROVE  TypeOK'
  <1>0. TypeOK /\ UpdatesAreOwn /\ OnlyPluginsAreOwned
    BY DEF IndInv
  <1>b. lock' \in BOOLEAN /\ alone' \in [Clients -> BOOLEAN] /\ overtaken' \in [Clients -> BOOLEAN]
    BY <1>0, BooleanStep
  <1>1. ASSUME NEW c \in Clients, Handle(c) PROVE TypeOK'
    <2>1. UNCHANGED page
      BY <1>1, ZenonT(90)
      DEF Handle, Enter, Create, Fetch, Delete, FetchWorkspace, SyncDelete, Refuse, Write,
          RemoveWorkspace, Break, SyncUpsert, SyncList, SyncNext, SyncReturns, job
    <2>2. \/ UNCHANGED <<requests, faults>>
          \/ requests > 0 /\ requests' = requests - 1 /\ UNCHANGED faults
          \/ Fault /\ UNCHANGED requests
      BY <1>1, ZenonT(90)
      DEF Handle, Enter, Create, Fetch, Delete, FetchWorkspace, SyncDelete, Refuse, Write,
          RemoveWorkspace, Break, SyncUpsert, SyncList, SyncNext, SyncReturns
    <2>3. requests' \in 0 .. MaxRequests /\ faults' \in 0 .. MaxFaults
      BY <1>0, <2>2 DEF Fault, TypeOK
    <2>4. rows' \in [Ids -> Rows \cup {NoRow, Gone}]
      <3>1. ASSUME NEW id \in Ids, NEW name \in Names \cup {Default, Null},
                   NEW owner \in Ids \cup {Null}, NEW en \in BOOLEAN, Create(c, id, name, owner, en)
            PROVE  rows' \in [Ids -> Rows \cup {NoRow, Gone}]
        <4>1. rows' = [rows EXCEPT ![id] =
                         NewRow(IF TableOf[id] = "workspaces" THEN Null ELSE ws[c], name, owner, en)]
          BY <3>1, Zenon DEF Create, NewRow
        <4>2. (IF TableOf[id] = "workspaces" THEN Null ELSE ws[c]) \in WorkspaceIds \cup {Null}
          BY <1>0 DEF TypeOK
        <4>3. NewRow(IF TableOf[id] = "workspaces" THEN Null ELSE ws[c], name, owner, en) \in Rows
          BY <4>2, NewRows, Zenon
        <4> QED
          BY <1>0, <4>1, <4>3 DEF TypeOK
      <3>2. ASSUME NEW ids \in SUBSET Ids, rows' = Deleted(ids)
            PROVE  rows' \in [Ids -> Rows \cup {NoRow, Gone}]
        BY <1>0, <3>2 DEF Deleted, TypeOK
      <3>3. CASE Write(c)
        BY <1>0, <3>3 DEF Write, UpdatesAreOwn, TypeOK
      <3>4. CASE RemoveWorkspace(c)
        <4>1. target[c] \in Ids /\ rows' = Deleted({target[c]})
          BY <1>0, <3>4, Tables DEF RemoveWorkspace, UpdatesAreOwn
        <4> QED
          BY <3>2, <4>1
      <3>5. ASSUME NEW items \in Configs, SyncUpsert(c, items)
            PROVE  rows' \in [Ids -> Rows \cup {NoRow, Gone}]
        <4>0. PICK f \in Upserts(c, items) :
                 \E g \in PluginUpserts(f, items) : rows' = Upserted(c, f, g)
          BY <3>5 DEF SyncUpsert
        <4>1. PICK g \in PluginUpserts(f, items) : rows' = Upserted(c, f, g)
          BY <4>0
        <4>2. ASSUME NEW x \in items
              PROVE  ItemRow(c, x) \in Rows /\ PluginRow(c, x, f[x]) \in Rows
          <5>1. f[x] \in Ids
            BY <1>0, UpsertedRows, Tables
          <5> QED
            BY <1>0, <5>1, ItemRowIs, PluginRowIs, Zenon
        <4>4. ASSUME NEW id \in Ids PROVE rows'[id] \in Rows \cup {NoRow, Gone}
          <5>1. CASE Upserted(c, f, g)[id] = rows[id]
            BY <1>0, <4>1, <5>1 DEF TypeOK
          <5>2. ASSUME NEW x \in items, id = f[x] PROVE rows'[id] \in Rows
            <6>1. rows'[id] = ItemRow(c, x)
              BY <1>0, <4>1, <5>2, UpsertedRows
            <6> QED
              BY <4>2, <6>1
          <5>3. ASSUME NEW x \in items, x.plugin # Null, id = g[x] PROVE rows'[id] \in Rows
            <6>1. rows'[id] = PluginRow(c, x, f[x])
              BY <1>0, <4>1, <5>3, UpsertedRows
            <6> QED
              BY <4>2, <6>1
          <5> QED
            BY <1>0, <5>1, <5>2, <5>3, UpsertedRows
        <4>5. rows' = [id \in Ids |-> rows'[id]]
          BY <4>1 DEF Upserted
        <4> QED
          BY <4>4, <4>5
      <3>6. ASSUME NEW id \in Ids, Delete(c, id) \/ SyncDelete(c, id)
            PROVE  rows' \in [Ids -> Rows \cup {NoRow, Gone}]
        BY <3>2, <3>6 DEF Delete, SyncDelete
      <3>7. CASE UNCHANGED <<rows, alone, reports>>
        BY <1>0, <3>7 DEF TypeOK
      <3> QED
        <4>1. \/ UNCHANGED <<rows, alone, reports>>
              \/ \E id \in Ids, name \in Names \cup {Default, Null}, owner \in Ids \cup {Null},
                    en \in BOOLEAN : Create(c, id, name, owner, en)
              \/ \E id \in Ids : Delete(c, id) \/ SyncDelete(c, id)
              \/ Write(c) \/ RemoveWorkspace(c)
              \/ \E items \in Configs : SyncUpsert(c, items)
          BY <1>1, ClientWrites, Zenon
        <4>2. ASSUME \E id \in Ids, name \in Names \cup {Default, Null}, owner \in Ids \cup {Null},
                       en \in BOOLEAN : Create(c, id, name, owner, en)
              PROVE  rows' \in [Ids -> Rows \cup {NoRow, Gone}]
          <5>1. PICK id \in Ids, name \in Names \cup {Default, Null}, owner \in Ids \cup {Null},
                    en \in BOOLEAN : Create(c, id, name, owner, en)
            BY <4>2
          <5> QED
            BY <3>1, <5>1
        <4> QED
          BY <3>3, <3>4, <3>5, <3>6, <3>7, <4>1, <4>2, Zenon
    <2>5. reports' \in [Ids -> Nat]
      BY <1>0, <1>1, ClientWrites DEF Observe, TypeOK
    <2> QED
      BY <1>0, <1>1, <1>b, <2>1, <2>3, <2>4, <2>5, ClientTypes DEF TypeOK
  <1>2. ASSUME NEW d \in Detectors, Detect(d) \/ DetectFails(d) PROVE TypeOK'
    BY <1>0, <1>2, <1>b DEF Detect, DetectFails, Fault, TypeOK, admin, hist
  <1>3. ASSUME NEW d \in Detectors, NEW id \in EndpointIds, Judge(d, id) PROVE TypeOK'
    <2>1. rows' \in [Ids -> Rows \cup {NoRow, Gone}] /\ reports' \in [Ids -> Nat]
      <3>1. \/ UNCHANGED <<rows, reports>>
            \/ /\ rows' \in [Ids -> Rows \cup {NoRow, Gone}]
               /\ reports' = [reports EXCEPT ![id] = @ + 1]
        BY <1>0, <1>3, JudgeRows, Zenon
      <3> QED
        BY <1>0, <3>1 DEF TypeOK
    <2>2. page' = [page EXCEPT ![d] = @ \ {id}] /\ UNCHANGED <<admin, requests, faults>>
      BY <1>3, Zenon DEF Judge
    <2>3. page' \in [Detectors -> SUBSET EndpointIds]
      BY <1>0, <2>2 DEF TypeOK
    <2> QED
      BY <1>0, <1>b, <2>1, <2>2, <2>3 DEF TypeOK, admin
  <1>4. CASE LockExpires
    BY <1>0, <1>4, <1>b DEF LockExpires, TypeOK, admin, hist
  <1>5. CASE UNCHANGED vars
    BY <1>0, <1>5, <1>b DEF vars, TypeOK, admin, job, hist
  <1> QED
    BY <1>1, <1>2, <1>3, <1>4, <1>5 DEF Next

\* A request takes a row that is not in use for a new one, does not give one back,
\* and changes and deletes endpoints, sources and their plugins in its workspace.
OwnChange(c, id) ==
    /\ rows'[id] # NoRow /\ rows[id] # Gone
    /\ id \notin PluginIds /\ rows'[id] # Gone => rows'[id].owner = Null
    /\ id \in EndpointIds \cup SourceIds =>
          /\ Exists(id) => rows[id].ws = ws[c]
          /\ rows'[id] # Gone => rows'[id].ws = ws[c]
    /\ id \in PluginIds /\ Exists(id) =>
          \/ rows[id].ws = ws[c]
          \/ ~ /\ rows[id].owner \in EndpointIds \cup SourceIds
               /\ Exists(rows[id].owner) /\ rows[rows[id].owner].ws # ws[c]

\* Whatever a request changes is its own.
LEMMA OwnRows ==
  ASSUME IndInv, NEW c \in Clients, Handle(c), NEW id \in Ids, rows'[id] # rows[id]
  PROVE  OwnChange(c, id)
  <1>0. TypeOK /\ UpdatesAreOwn /\ OnlyPluginsAreOwned /\ DeletionsAreOwn
    BY DEF IndInv
  <1>1. ASSUME NEW o \in Ids, NEW name \in Names \cup {Default, Null},
               NEW owner \in Ids \cup {Null}, NEW en \in BOOLEAN, Create(c, o, name, owner, en)
        PROVE  OwnChange(c, id)
    <2> DEFINE w == IF TableOf[o] = "workspaces" THEN Null ELSE ws[c]
    <2>1. Unused(o) /\ rows' = [rows EXCEPT ![o] = NewRow(w, name, owner, en)]
      BY <1>1, Zenon DEF Create, NewRow
    <2>2. ASSUME TableOf[o] # "plugins" PROVE owner = Null
      <3>1. (owner # Null) = (TableOf[o] = "plugins")
        BY <1>1, Zenon DEF Create
      <3> QED
        BY <2>2, <3>1, Zenon
    <2>3. w \in WorkspaceIds \cup {Null}
      BY <1>0 DEF TypeOK
    <2>4. id = o /\ rows'[id] = NewRow(w, name, owner, en)
      BY <1>0, <2>1 DEF TypeOK
    <2>5. rows'[id] \notin {NoRow, Gone} /\ rows'[id].ws = w /\ rows'[id].owner = owner
      <3>1. NewRow(w, name, owner, en) \notin {NoRow, Gone}
        BY <2>3, NewRows, Zenon
      <3> QED
        BY <2>4, <3>1 DEF NewRow
    <2> QED
      BY <2>1, <2>2, <2>4, <2>5, Tables DEF OwnChange, Unused, Exists
  <1>2. ASSUME NEW o \in Ids, rows' = Deleted({o}), o \in EndpointIds \cup SourceIds,
               rows[o] # NoRow, Exists(o) => rows[o].ws = ws[c]
        PROVE  OwnChange(c, id)
    <2>1. /\ rows'[id] = Gone /\ rows[id] # Gone
          /\ id = o \/ (id \in PluginIds /\ Exists(id) /\ rows[id].owner = o)
      BY <1>0, <1>2, DeletedRows
    <2> QED
      BY <1>2, <2>1, Tables DEF OwnChange, Exists
  <1>3. ASSUME NEW o \in Ids, Delete(c, o) PROVE OwnChange(c, id)
    <2>1. Exists(o) /\ rows[o].ws = ws[c] /\ o \notin WorkspaceIds /\ rows' = Deleted({o})
      BY <1>3, Tables DEF Delete, Visible
    <2>2. /\ rows'[id] = Gone /\ rows[id] # Gone
          /\ id = o \/ (id \in PluginIds /\ Exists(id) /\ rows[id].owner = o)
      BY <1>0, <2>1, DeletedRows
    <2> QED
      BY <2>1, <2>2, Tables DEF OwnChange, Exists
  <1>4. ASSUME NEW o \in Ids, SyncDelete(c, o) PROVE OwnChange(c, id)
    BY <1>0, <1>2, <1>4 DEF SyncDelete, DeletionsAreOwn
  <1>5. CASE Write(c)
    <2>1. /\ pc[c] = "write" /\ id = target[c] /\ Visible(c, id) /\ rows'[id] = held[c]
      BY <1>0, <1>5 DEF Write, UpdatesAreOwn, TypeOK
    <2> QED
      BY <1>0, <2>1, Tables DEF UpdatesAreOwn, Visible, Exists, OwnChange
  <1>6. CASE RemoveWorkspace(c)
    <2>1. target[c] \in WorkspaceIds /\ target[c] \in Ids /\ rows' = Deleted({target[c]})
      BY <1>0, <1>6, Tables DEF RemoveWorkspace, UpdatesAreOwn
    <2>2. /\ rows'[id] = Gone /\ rows[id] # Gone
          /\ id = target[c] \/ (id \in PluginIds /\ Exists(id) /\ rows[id].owner = target[c])
      BY <1>0, <2>1, DeletedRows
    <2> QED
      BY <2>1, <2>2, Tables DEF OwnChange, Exists
  <1>7. ASSUME NEW items \in Configs, SyncUpsert(c, items) PROVE OwnChange(c, id)
    <2>0. PICK f \in Upserts(c, items) :
             \E g \in PluginUpserts(f, items) : rows' = Upserted(c, f, g)
      BY <1>7 DEF SyncUpsert
    <2>1. PICK g \in PluginUpserts(f, items) : rows' = Upserted(c, f, g)
      BY <2>0
    <2>2. ASSUME NEW x \in items
          PROVE  f[x] \in Ids
      BY <1>0, UpsertedRows, Tables
    <2>3. ASSUME NEW x \in items, id = f[x] PROVE OwnChange(c, id)
      <3>1. /\ rows'[id] = ItemRow(c, x)
            /\ id \in EndpointIds \cup SourceIds /\ (id \in Conflicting(c, x) \/ Unused(id))
        BY <1>0, <2>1, <2>3, UpsertedRows
      <3>2. rows'[id] \notin {NoRow, Gone} /\ rows'[id].ws = ws[c] /\ rows'[id].owner = Null
        <4>1. /\ ItemRow(c, x) \notin {NoRow, Gone}
              /\ ItemRow(c, x).ws = ws[c] /\ ItemRow(c, x).owner = Null
          BY <1>0, ItemRowIs, Zenon
        <4> QED
          BY <3>1, <4>1
      <3> QED
        BY <3>1, <3>2, Tables DEF OwnChange, Conflicting, Unused, Exists
    <2>4. ASSUME NEW x \in items, x.plugin # Null, id = g[x] PROVE OwnChange(c, id)
      <3>0. x \in {y \in items : y.plugin # Null}
        BY <2>4
      <3>1. /\ rows'[id] = PluginRow(c, x, f[x])
            /\ id \in PluginIds /\ (Unused(id) \/ (Exists(id) /\ rows[id].owner = f[x]))
            /\ f[x] \in EndpointIds \cup SourceIds /\ (f[x] \in Conflicting(c, x) \/ Unused(f[x]))
        BY <1>0, <2>1, <2>4, <3>0, UpsertedRows
      <3>2. rows'[id] \notin {NoRow, Gone} /\ rows'[id].ws = ws[c]
        <4>1. PluginRow(c, x, f[x]) \notin {NoRow, Gone} /\ PluginRow(c, x, f[x]).ws = ws[c]
          BY <1>0, <2>2, PluginRowIs
        <4> QED
          BY <3>1, <4>1
      <3> QED
        BY <3>1, <3>2, Tables DEF OwnChange, Conflicting, Unused, Exists
    <2> QED
      BY <1>0, <2>1, <2>3, <2>4, UpsertedRows
  <1> QED
    BY <1>1, <1>3, <1>4, <1>5, <1>6, <1>7, ClientWrites

\* What one client does, the detectors do or time does with what a client has.
LEMMA ClientsStay ==
  ASSUME TypeOK, ~\E c \in Clients : Handle(c), [Next]_vars
  PROVE  UNCHANGED <<pc, ws, target, held, ask, cfg, kept, todo, alone>>
  BY Zenon DEF Next, Detect, DetectFails, Judge, LockExpires, vars, admin, hist

\* What becomes of a row in a step that is not a client's.
LEMMA OtherRows ==
  ASSUME IndInv, ~\E c \in Clients : Handle(c), [Next]_vars, NEW id \in Ids,
         rows'[id] # rows[id]
  PROVE  /\ Exists(id) /\ rows[id].enabled /\ rows[id] \in Rows
         /\ rows'[id] = [rows[id] EXCEPT !.enabled = FALSE] /\ rows'[id] \in Rows
         /\ overtaken' = [c \in Clients |-> overtaken[c] \/ Overtakes(c)]
         /\ \E d \in Detectors : id \in page[d] /\ id \notin page'[d]
  <1>1. TypeOK
    BY DEF IndInv
  <1>2. PICK d \in Detectors, o \in EndpointIds : Judge(d, o)
    BY Zenon DEF Next, Detect, DetectFails, LockExpires, vars
  <1>3. id = o
    BY <1>1, <1>2, JudgeRows
  <1>4. o \in page[d] /\ page' = [page EXCEPT ![d] = @ \ {o}]
    BY <1>2 DEF Judge
  <1>5. id \in page[d] /\ id \notin page'[d]
    BY <1>1, <1>3, <1>4 DEF TypeOK
  <1> QED
    BY <1>1, <1>2, <1>3, <1>5, JudgeRows

\* Ids are not used again, only plugins get owners, and rows stay where they are.
LEMMA RowsStep ==
  ASSUME IndInv, [Next]_vars, NEW id \in Ids
  PROVE  /\ rows[id] # NoRow => rows'[id] # NoRow
         /\ rows[id] = Gone => rows'[id] = Gone
         /\ id \notin PluginIds /\ rows'[id] \notin {NoRow, Gone} => rows'[id].owner = Null
         /\ id \in EndpointIds \cup SourceIds /\ Exists(id) /\ rows'[id] \notin {NoRow, Gone} =>
               rows'[id].ws = rows[id].ws
  <1>0. OnlyPluginsAreOwned
    BY DEF IndInv
  <1>1. CASE rows'[id] = rows[id]
    BY <1>0, <1>1 DEF OnlyPluginsAreOwned, Exists
  <1>2. ASSUME NEW c \in Clients, Handle(c), rows'[id] # rows[id]
        PROVE  OwnChange(c, id)
    BY <1>2, OwnRows
  <1>3. ASSUME ~\E c \in Clients : Handle(c), rows'[id] # rows[id]
        PROVE  /\ Exists(id) /\ rows'[id] \notin {NoRow, Gone}
               /\ rows'[id].owner = rows[id].owner /\ rows'[id].ws = rows[id].ws
    <2>1. /\ Exists(id) /\ rows[id] \in Rows /\ rows'[id] \in Rows
          /\ rows'[id] = [rows[id] EXCEPT !.enabled = FALSE]
      BY <1>3, OtherRows
    <2>2. rows'[id].owner = rows[id].owner /\ rows'[id].ws = rows[id].ws
      BY <2>1 DEF Rows
    <2> QED
      BY <2>1, <2>2
  <1>4. CASE rows'[id] # rows[id] /\ \E c \in Clients : Handle(c)
    BY <1>2, <1>4 DEF OwnChange, Exists
  <1>5. CASE rows'[id] # rows[id] /\ ~\E c \in Clients : Handle(c)
    BY <1>0, <1>3, <1>5 DEF OnlyPluginsAreOwned, Exists
  <1> QED
    BY <1>1, <1>4, <1>5

\* Every step keeps that only plugins are owned.
LEMMA OwnedStep == IndInv /\ [Next]_vars => OnlyPluginsAreOwned'
  BY RowsStep DEF OnlyPluginsAreOwned, Exists

\* The steps that take a client to its write, its removal or through its sync.
LEMMA ClientMoves ==
  ASSUME IndInv, NEW c \in Clients, Handle(c)
  PROVE  /\ pc'[c] = "write" =>
               \E id \in Ids, name \in Names \cup {Default, Null}, en \in {"keep", "on", "off"} :
                  Fetch(c, id, name, en)
         /\ pc'[c] = "remove" => \E id \in Ids : FetchWorkspace(c, id)
         /\ Syncing(c)' \/ todo'[c] # {} =>
               \/ \E items \in Configs : SyncUpsert(c, items)
               \/ SyncList(c) \/ SyncNext(c) \/ \E id \in Ids : SyncDelete(c, id)
  <1> DEFINE Quiet == /\ pc'[c] \in {"idle", "in"} /\ todo'[c] = {}
  <1>0. TypeOK /\ (todo[c] # {} => pc[c] \in {"endpoints", "sources"})
    BY DEF IndInv, DeletionsAreOwn
  <1>1. CASE Respond(c)
    BY <1>0, <1>1, RespondStep DEF Syncing
  <1>2. ASSUME NEW wid \in WorkspaceIds \cup Names \cup {Default}, Enter(c, wid) PROVE Quiet
    BY <1>0, <1>2 DEF Enter, TypeOK
  <1>3. ASSUME NEW id \in Ids, NEW name \in Names \cup {Default, Null},
               NEW en \in {"keep", "on", "off"}, Fetch(c, id, name, en)
        PROVE  pc'[c] = "write" /\ todo'[c] = {}
    BY <1>0, <1>3 DEF Fetch, TypeOK
  <1>4. ASSUME NEW id \in Ids, FetchWorkspace(c, id) PROVE pc'[c] = "remove" /\ todo'[c] = {}
    BY <1>0, <1>4 DEF FetchWorkspace, TypeOK
  <1>5. ASSUME NEW id \in Ids, SyncDelete(c, id) PROVE pc'[c] \in {"endpoints", "sources"}
    BY <1>0, <1>5 DEF SyncDelete
  <1>6. ASSUME NEW items \in Configs, SyncUpsert(c, items) PROVE pc'[c] = "list_endpoints"
    BY <1>0, <1>6 DEF SyncUpsert, TypeOK
  <1>7. CASE SyncList(c) \/ SyncNext(c)
    <2>1. pc'[c] \notin {"write", "remove"}
      BY <1>0, <1>7 DEF SyncList, SyncNext, TypeOK
    <2> QED
      BY <1>7, <2>1
  <1>8. CASE \E wid \in WorkspaceIds \cup Names \cup {Default} : Enter(c, wid)
    BY <1>2, <1>8 DEF Syncing
  <1>9. CASE \E id \in Ids, name \in Names \cup {Default, Null}, en \in {"keep", "on", "off"} :
                Fetch(c, id, name, en)
    BY <1>3, <1>9 DEF Syncing
  <1>10. CASE \E id \in Ids : FetchWorkspace(c, id)
    BY <1>4, <1>10 DEF Syncing
  <1>11. CASE \E id \in Ids : SyncDelete(c, id)
    BY <1>5, <1>11
  <1>12. CASE \E items \in Configs : SyncUpsert(c, items)
    BY <1>6, <1>12
  <1> QED
    BY <1>1, <1>7, <1>8, <1>9, <1>10, <1>11, <1>12, Zenon
    DEF Handle, Create, Delete, Refuse, Write, RemoveWorkspace, Break, SyncReturns

\* Every step keeps the updates under way.
LEMMA UpdatesStep == IndInv /\ [Next]_vars => UpdatesAreOwn'
  <1> SUFFICES ASSUME IndInv, [Next]_vars, NEW b \in Clients
               PROVE  /\ pc'[b] = "write" =>
                            /\ target'[b] \in Ids /\ held'[b] \in Rows /\ rows'[target'[b]] # NoRow
                            /\ target'[b] \notin PluginIds => held'[b].owner = Null
                            /\ target'[b] \notin WorkspaceIds => held'[b].ws = ws'[b]
                      /\ pc'[b] = "remove" => target'[b] \in WorkspaceIds
    BY DEF UpdatesAreOwn
  <1>0. TypeOK /\ UpdatesAreOwn /\ OnlyPluginsAreOwned
    BY DEF IndInv
  <1>1. CASE pc'[b] = pc[b] /\ ws'[b] = ws[b] /\ target'[b] = target[b] /\ held'[b] = held[b]
    BY <1>0, <1>1, RowsStep DEF UpdatesAreOwn
  <1>2. ASSUME NEW id \in Ids, NEW name \in Names \cup {Default, Null},
               NEW en \in {"keep", "on", "off"}, Fetch(b, id, name, en)
        PROVE  /\ pc'[b] = "write" /\ target'[b] \in Ids /\ held'[b] \in Rows
               /\ rows'[target'[b]] # NoRow
               /\ target'[b] \notin PluginIds => held'[b].owner = Null
               /\ target'[b] \notin WorkspaceIds => held'[b].ws = ws'[b]
    <2>1. /\ pc'[b] = "write" /\ target'[b] = id /\ held'[b] = Merged(rows[id], name, en)
          /\ UNCHANGED <<rows, ws>>
      BY <1>0, <1>2 DEF Fetch, TypeOK
    <2>2. Exists(id) /\ rows[id] \in Rows /\ (id \notin WorkspaceIds => rows[id].ws = ws[b])
      BY <1>0, <1>2, Tables DEF Fetch, Visible, Exists, TypeOK
    <2>3. id \notin PluginIds => rows[id].owner = Null
      BY <1>0, <2>2 DEF OnlyPluginsAreOwned
    <2>4. /\ held'[b] \in Rows /\ held'[b].ws = rows[id].ws /\ held'[b].owner = rows[id].owner
      <3>1. held'[b] = Merged(rows[id], name, en) /\ rows[id] \in Rows
        BY <2>1, <2>2
      <3> QED
        BY <3>1, MergedRows
    <2> QED
      BY <2>1, <2>2, <2>3, <2>4 DEF Exists
  <1>3. ASSUME NEW id \in Ids, FetchWorkspace(b, id)
        PROVE  pc'[b] = "remove" /\ target'[b] \in WorkspaceIds
    BY <1>0, <1>3, Tables DEF FetchWorkspace, TypeOK
  <1>4. CASE Handle(b)
    BY <1>2, <1>3, <1>4, ClientMoves
  <1> QED
    BY <1>0, <1>1, <1>4, OthersStay, ClientsStay

\* Every step keeps the deletions that syncs have still to do in their workspaces.
LEMMA DeletionsStep == IndInv /\ [Next]_vars => DeletionsAreOwn'
  <1> DEFINE Own(b, id) == /\ id \in EndpointIds \cup SourceIds /\ rows'[id] # NoRow
                           /\ rows'[id] \notin {NoRow, Gone} => rows'[id].ws = ws'[b]
  <1> SUFFICES ASSUME IndInv, [Next]_vars, NEW b \in Clients
               PROVE  /\ todo'[b] # {} => pc'[b] \in {"endpoints", "sources"}
                      /\ \A id \in todo'[b] : Own(b, id)
    BY DEF DeletionsAreOwn, Exists
  <1>0. TypeOK /\ DeletionsAreOwn
    BY DEF IndInv
  <1>1. ASSUME ws'[b] = ws[b], NEW id \in todo[b] PROVE Own(b, id)
    <2>1. id \in EndpointIds \cup SourceIds /\ id \in Ids /\ rows[id] # NoRow
          /\ (Exists(id) => rows[id].ws = ws[b])
      BY <1>0, Tables DEF DeletionsAreOwn
    <2> QED
      BY <1>1, <2>1, RowsStep DEF Exists
  <1>2. CASE pc'[b] = pc[b] /\ ws'[b] = ws[b] /\ todo'[b] = todo[b]
    BY <1>0, <1>1, <1>2 DEF DeletionsAreOwn
  <1>3. ASSUME NEW id \in Ids, SyncDelete(b, id)
        PROVE  /\ pc'[b] \in {"endpoints", "sources"} /\ \A o \in todo'[b] : Own(b, o)
    <2>1. id \in todo[b] /\ todo' = [todo EXCEPT ![b] = @ \ {id}] /\ UNCHANGED <<pc, ws>>
      BY <1>3 DEF SyncDelete
    <2>2. todo'[b] \subseteq todo[b] /\ pc[b] \in {"endpoints", "sources"}
      BY <1>0, <2>1 DEF DeletionsAreOwn, TypeOK
    <2> QED
      BY <1>1, <2>1, <2>2
  <1>4. CASE SyncList(b)
    <2>1. /\ pc'[b] \in {"endpoints", "sources"} /\ UNCHANGED <<rows, ws>>
          /\ todo'[b] \in {Strangers(b, EndpointIds), Strangers(b, SourceIds)}
      BY <1>0, <1>4 DEF SyncList, TypeOK
    <2> QED
      BY <2>1 DEF Strangers, Exists
  <1>5. CASE SyncNext(b)
    BY <1>5 DEF SyncNext
  <1>6. ASSUME NEW items \in Configs, SyncUpsert(b, items) PROVE todo'[b] = {}
    BY <1>0, <1>6 DEF SyncUpsert, DeletionsAreOwn
  <1>7. CASE Handle(b)
    BY <1>3, <1>4, <1>5, <1>6, <1>7, ClientMoves
  <1> QED
    BY <1>0, <1>2, <1>7, OthersStay, ClientsStay

\* Every step keeps the default workspace, and requests from its name and its row.
LEMMA DefaultStep == IndInv /\ [Next]_vars => DefaultIsKept'
  <1> SUFFICES ASSUME IndInv, [Next]_vars PROVE DefaultIsKept'
    OBVIOUS
  <1>0. TypeOK /\ UpdatesAreOwn /\ OnlyPluginsAreOwned /\ DeletionsAreOwn
    BY DEF IndInv
  <1>1. PICK d \in WorkspaceIds :
           /\ Exists(d) /\ rows[d].name = Default
           /\ \A c \in Clients : /\ pc[c] = "write" /\ target[c] = d => held[c].name = Default
                                 /\ pc[c] = "remove" => target[c] # d
    BY DEF IndInv, DefaultIsKept
  <1>2. d \in Ids /\ rows[d] \in Rows /\ d \notin EndpointIds \cup SourceIds \cup PluginIds
    BY <1>0, <1>1, Tables DEF Exists, TypeOK
  <1> DEFINE Stays == rows'[d] \notin {NoRow, Gone} /\ rows'[d].name = Default
  <1>3. ASSUME rows'[d] = rows[d] PROVE Stays
    BY <1>1, <1>3 DEF Exists
  <1>4. ASSUME NEW c \in Clients, Handle(c), rows'[d] # rows[d] PROVE Stays
    <2>1. ASSUME NEW id \in Ids, rows' = Deleted({id}) PROVE id = d
      BY <1>0, <1>2, <1>4, <2>1, DeletedRows
    <2>2. ASSUME NEW id \in Ids, NEW name \in Names \cup {Default, Null},
                 NEW owner \in Ids \cup {Null}, NEW en \in BOOLEAN, Create(c, id, name, owner, en)
          PROVE  FALSE
      <3>1. rows[id] = NoRow /\ \E r : rows' = [rows EXCEPT ![id] = r]
        BY <2>2, Zenon DEF Create, Unused
      <3> QED
        BY <1>0, <1>1, <1>2, <1>4, <3>1 DEF Exists, TypeOK
    <2>3. ASSUME NEW id \in Ids, Delete(c, id) \/ SyncDelete(c, id) PROVE FALSE
      <3>1. id = d
        BY <2>1, <2>3 DEF Delete, SyncDelete
      <3> QED
        BY <1>0, <1>2, <2>3, <3>1, Tables DEF Delete, SyncDelete, DeletionsAreOwn
    <2>4. CASE RemoveWorkspace(c)
      <3>1. target[c] = d
        BY <1>0, <2>1, <2>4, Tables DEF RemoveWorkspace, UpdatesAreOwn
      <3> QED
        BY <1>1, <2>4, <3>1 DEF RemoveWorkspace
    <2>5. CASE Write(c)
      <3>1. pc[c] = "write" /\ target[c] = d /\ rows'[d] = held[c]
        BY <1>0, <1>2, <1>4, <2>5 DEF Write, UpdatesAreOwn, TypeOK
      <3>2. held[c] \in Rows /\ held[c].name = Default
        BY <1>0, <1>1, <3>1 DEF UpdatesAreOwn
      <3> QED
        BY <3>1, <3>2
    <2>6. ASSUME NEW items \in Configs, SyncUpsert(c, items) PROVE FALSE
      <3>0. PICK f \in Upserts(c, items) :
               \E g \in PluginUpserts(f, items) : rows' = Upserted(c, f, g)
        BY <2>6 DEF SyncUpsert
      <3>1. PICK g \in PluginUpserts(f, items) : rows' = Upserted(c, f, g)
        BY <3>0
      <3>2. \A x \in items : f[x] \in EndpointIds \cup SourceIds
        BY <1>0, UpsertedRows
      <3>3. \A x \in items : x.plugin # Null => g[x] \in PluginIds
        BY <1>0, UpsertedRows
      <3> QED
        BY <1>0, <1>2, <1>4, <3>1, <3>2, <3>3, UpsertedRows
    <2> QED
      BY <1>4, <2>2, <2>3, <2>4, <2>5, <2>6, ClientWrites
  <1>5. ASSUME ~\E c \in Clients : Handle(c), rows'[d] # rows[d] PROVE Stays
    <2>1. rows'[d] = [rows[d] EXCEPT !.enabled = FALSE] /\ rows'[d] \in Rows
      BY <1>2, <1>5, OtherRows
    <2> QED
      BY <1>1, <1>2, <2>1 DEF Rows
  <1>6. ASSUME NEW b \in Clients
        PROVE  /\ pc'[b] = "write" /\ target'[b] = d => held'[b].name = Default
               /\ pc'[b] = "remove" => target'[b] # d
    <2>1. CASE pc'[b] = pc[b] /\ target'[b] = target[b] /\ held'[b] = held[b]
      BY <1>1, <2>1
    <2>2. ASSUME NEW id \in Ids, NEW name \in Names \cup {Default, Null},
                 NEW en \in {"keep", "on", "off"}, Fetch(b, id, name, en), target'[b] = d
          PROVE  held'[b].name = Default
      <3>1. id = d /\ held'[b] = Merged(rows[d], name, en) /\ Renamable(rows[d], name)
        BY <1>0, <1>2, <2>2, Tables DEF Fetch, TypeOK
      <3> QED
        <4>1. name = Default
          BY <1>1, <3>1 DEF Renamable
        <4>2. held'[b].name = name
          BY <1>2, <3>1, MergedRows
        <4> QED
          BY <4>1, <4>2
    <2>3. ASSUME NEW id \in Ids, FetchWorkspace(b, id) PROVE target'[b] # d
      BY <1>0, <1>1, <2>3 DEF FetchWorkspace, TypeOK
    <2>4. CASE Handle(b)
      <3>1. ASSUME pc'[b] = "write", target'[b] = d PROVE held'[b].name = Default
        BY <2>2, <2>4, <3>1, ClientMoves
      <3>2. ASSUME pc'[b] = "remove" PROVE target'[b] # d
        BY <2>3, <2>4, <3>2, ClientMoves
      <3> QED
        BY <3>1, <3>2
    <2> QED
      BY <1>0, <2>1, <2>4, OthersStay, ClientsStay
  <1> QED
    BY <1>1, <1>3, <1>4, <1>5, <1>6 DEF DefaultIsKept, Exists
\* A write is remembered by those it overtakes.
LEMMA DisablingStep ==
  ASSUME IndInv, NEW c \in Clients, Handle(c), NEW id \in Ids,
         rows'[id] # rows[id], rows'[id] # Gone
  PROVE  Respond(c) \/ overtaken' = [a \in Clients |-> overtaken[a] \/ Overtakes(a)]
  <1>0. TypeOK /\ OnlyPluginsAreOwned
    BY DEF IndInv
  <1>1. ASSUME NEW o \in Ids, SyncDelete(c, o) PROVE FALSE
    <2>1. rows' = Deleted({o})
      BY <1>1 DEF SyncDelete
    <2> QED
      BY <1>0, <2>1, DeletedRows
  <1>2. \/ Respond(c) \/ UNCHANGED rows
        \/ \E o \in Ids : SyncDelete(c, o)
        \/ \E items \in Configs : SyncUpsert(c, items)
    BY ClientWrites, Zenon DEF Create, Delete, Write, RemoveWorkspace
  <1> QED
    BY <1>1, <1>2, Zenon DEF SyncUpsert

\* An update that was overtaken stays so until it is over.
LEMMA OvertakenStep ==
  ASSUME IndInv, [Next]_vars, NEW b \in Clients, overtaken[b]
  PROVE  Handle(b) \/ overtaken'[b]
  <1>1. ASSUME NEW c \in Clients, Handle(c), c # b PROVE overtaken'[b]
    <2>1. UNCHANGED overtaken \/ Respond(c) \/ overtaken' = [a \in Clients |-> overtaken[a] \/ Overtakes(a)]
      BY <1>1, ZenonT(90)
      DEF Handle, Enter, Create, Fetch, Delete, FetchWorkspace, SyncDelete, Refuse, Write,
          RemoveWorkspace, Break, SyncUpsert, SyncList, SyncNext, SyncReturns, hist
    <2>2. CASE Respond(c)
      BY <1>1, <2>2, Zenon DEF Respond
    <2> QED
      BY <2>1, <2>2, Zenon
  <1>2. CASE ~\E c \in Clients : Handle(c)
    BY <1>2, Zenon DEF Next, Detect, DetectFails, Judge, LockExpires, vars, hist
  <1> QED
    BY <1>1, <1>2, Zenon

\* Every step keeps the causes for enabling.
LEMMA EnablingStep == IndInv /\ [Next]_vars => EnablingHasCause'
  <1> SUFFICES ASSUME IndInv, [Next]_vars, NEW b \in Clients,
                      pc'[b] = "write", held'[b].enabled,
                      Exists(target[b])', ~rows'[target'[b]].enabled
               PROVE  ask'[b] = "on" \/ overtaken'[b]
    BY Zenon DEF EnablingHasCause, Exists
  <1>0. TypeOK /\ UpdatesAreOwn /\ EnablingHasCause
    BY DEF IndInv
  <1>1. CASE Handle(b)
    <2>1. PICK id \in Ids, name \in Names \cup {Default, Null}, en \in {"keep", "on", "off"} :
             Fetch(b, id, name, en)
      BY <1>1, ClientMoves
    <2>2. /\ target'[b] = id /\ held'[b] = Merged(rows[id], name, en) /\ ask'[b] = en
          /\ UNCHANGED rows /\ Exists(id)
      BY <1>0, <2>1 DEF Fetch, Visible, TypeOK
    <2>3. rows[id] \in Rows
      BY <1>0, <2>2 DEF Exists, TypeOK
    <2> QED
      BY <2>2, <2>3, MergedEnabled
  <1>2. ASSUME ~Handle(b) PROVE ask'[b] = "on" \/ overtaken'[b]
    <2>1. pc'[b] = pc[b] /\ target'[b] = target[b] /\ held'[b] = held[b] /\ ask'[b] = ask[b]
      BY <1>0, <1>2, OthersStay, ClientsStay
    <2> DEFINE t == target[b]
    <2>2. t \in Ids /\ rows[t] # NoRow
      BY <1>0, <2>1 DEF UpdatesAreOwn
    <2>3. Exists(t) /\ rows'[t] \notin {NoRow, Gone} /\ ~rows'[t].enabled
      BY <2>1, <2>2, RowsStep DEF Exists
    <2>4. CASE ~rows[t].enabled
      <3>1. ask[b] = "on" \/ overtaken[b]
        BY <1>0, <2>1, <2>3, <2>4, Zenon DEF EnablingHasCause
      <3> QED
        BY <1>2, <2>1, <3>1, OvertakenStep, Zenon
    <2>5. CASE rows[t].enabled
      <3>1. Overtakes(b)
        BY <2>1, <2>3, <2>5 DEF Overtakes
      <3>2. rows'[t] # rows[t]
        BY <2>3, <2>5
      <3>3. CASE \E c \in Clients : Handle(c)
        <4>1. PICK c \in Clients : Handle(c)
          BY <3>3
        <4>2. c # b /\ (Respond(c) \/ overtaken' = [a \in Clients |-> overtaken[a] \/ Overtakes(a)])
          BY <1>2, <2>2, <2>3, <3>2, <4>1, DisablingStep, Zenon
        <4> QED
          BY <3>1, <4>2, Zenon DEF Respond
      <3>4. CASE ~\E c \in Clients : Handle(c)
        <4>1. overtaken' = [c \in Clients |-> overtaken[c] \/ Overtakes(c)]
          BY <2>2, <3>2, <3>4, OtherRows, Zenon
        <4> QED
          BY <3>1, <4>1, Zenon
      <3> QED
        BY <3>3, <3>4
    <2> QED
      BY <2>4, <2>5
  <1> QED
    BY <1>1, <1>2

\* Every step keeps that a disabling is reported once, and only while it lasts.
LEMMA ReportStep == IndInv /\ [Next]_vars => DisableReportedOnce' /\ EnabledIsUnreported'
  <1> SUFFICES ASSUME IndInv, [Next]_vars, NEW id \in Ids
               PROVE  /\ reports'[id] <= 1
                      /\ rows'[id] \notin {NoRow, Gone} /\ rows'[id].enabled => reports'[id] = 0
    BY DEF DisableReportedOnce, EnabledIsUnreported, Exists
  <1>0. /\ TypeOK /\ reports[id] \in Nat /\ reports[id] <= 1
        /\ Exists(id) /\ rows[id].enabled => reports[id] = 0
    BY DEF IndInv, TypeOK, DisableReportedOnce, EnabledIsUnreported
  <1>1. CASE UNCHANGED <<rows, reports>>
    BY <1>0, <1>1 DEF Exists
  <1>2. ASSUME NEW c \in Clients, Observe(c)
        PROVE  /\ reports'[id] <= 1
               /\ rows'[id] \notin {NoRow, Gone} /\ rows'[id].enabled => reports'[id] = 0
    BY <1>0, <1>2 DEF Observe, Exists
  <1>3. ASSUME NEW d \in Detectors, NEW o \in EndpointIds, Judge(d, o)
        PROVE  /\ reports'[id] <= 1
               /\ rows'[id] \notin {NoRow, Gone} /\ rows'[id].enabled => reports'[id] = 0
    <2>1. CASE UNCHANGED <<rows, overtaken, reports>>
      BY <1>0, <2>1 DEF Exists
    <2>2. CASE /\ Exists(o) /\ rows[o].enabled /\ rows[o] \in Rows
               /\ rows'[o] = [rows[o] EXCEPT !.enabled = FALSE]
               /\ \A i \in Ids \ {o} : rows'[i] = rows[i]
               /\ reports' = [reports EXCEPT ![o] = @ + 1]
      <3>1. ~rows'[o].enabled
        BY <2>2 DEF Rows
      <3>2. id = o => reports'[id] = reports[id] + 1
        BY <1>0, <2>2 DEF TypeOK
      <3>3. id # o => reports'[id] = reports[id] /\ rows'[id] = rows[id]
        BY <1>0, <2>2 DEF TypeOK
      <3>4. CASE id = o
        <4>1. reports[id] = 0
          BY <1>0, <2>2, <3>4, Zenon
        <4>2. reports'[id] = 1
          BY <3>2, <3>4, <4>1
        <4>3. ~rows'[id].enabled
          BY <3>1, <3>4, Zenon
        <4> QED
          BY <4>2, <4>3
      <3>5. CASE id # o
        BY <1>0, <3>3, <3>5 DEF Exists
      <3> QED
        BY <3>4, <3>5
    <2> QED
      BY <1>0, <1>3, <2>1, <2>2, JudgeRows
  <1>4. \/ UNCHANGED <<rows, reports>> \/ \E c \in Clients : Observe(c)
        \/ \E d \in Detectors, o \in EndpointIds : Judge(d, o)
    <2>1. CASE \E c \in Clients : Handle(c)
      BY <2>1, ClientWrites, Zenon
    <2>2. CASE ~\E c \in Clients : Handle(c)
      BY <2>2, Zenon DEF Next, Detect, DetectFails, LockExpires, vars, hist
    <2> QED
      BY <2>1, <2>2
  <1> QED
    BY <1>1, <1>2, <1>3, <1>4
\* What a sync is to leave of an item.
Configured(c, x) ==
    \E id \in kept[c] :
        /\ TableOf[id] = x.table /\ rows[id].name = x.name
        /\ x.plugin # Null =>
              \E p \in PluginIds : /\ Exists(p) /\ rows[p].ws = ws[c]
                                   /\ rows[p].owner = id /\ rows[p].name = x.plugin

\* What a sync under way has done while it is alone.
Undisturbed(c) ==
    /\ \A id \in kept[c] : Exists(id) /\ rows[id].ws = ws[c]
    /\ \A x \in cfg[c] : Configured(c, x)
    /\ pc[c] # "list_endpoints" => Strangers(c, EndpointIds) \subseteq todo[c]
    /\ pc[c] \in {"sources", "synced"} => Strangers(c, SourceIds) \subseteq todo[c]

\* The invariant of the syncs, in these terms.
LEMMA SyncParts ==
  SyncIsOnItsWay <=>
    \A c \in Clients : Syncing(c) =>
        /\ kept[c] \subseteq EndpointIds \cup SourceIds /\ todo[c] \cap kept[c] = {}
        /\ Cardinality(kept[c]) = Cardinality(cfg[c])
        /\ alone[c] => Undisturbed(c)
  BY Zenon DEF SyncIsOnItsWay, Undisturbed, Configured

\* A row is still there, but for whether it is enabled.
Same(id) ==
    /\ rows'[id] \notin {NoRow, Gone} /\ rows'[id].ws = rows[id].ws
    /\ rows'[id].name = rows[id].name /\ rows'[id].owner = rows[id].owner

\* Nobody else changes the workspace of a sync that stays alone.
LEMMA SyncRowsStay ==
  ASSUME IndInv, [Next]_vars, NEW b \in Clients, ~Handle(b), Syncing(b), alone'[b]
  PROVE  /\ alone[b]
         /\ \A id \in EndpointIds \cup SourceIds :
               /\ Exists(id) /\ rows[id].ws = ws[b] => Same(id)
               /\ Exists(id)' /\ rows'[id].ws = ws[b] => Exists(id) /\ rows[id].ws = ws[b]
         /\ \A p \in PluginIds :
               /\ Exists(p) /\ rows[p].ws = ws[b] /\ rows[p].owner \in EndpointIds \cup SourceIds
               /\ Exists(rows[p].owner) /\ rows[rows[p].owner].ws = ws[b]
               => Same(p)
  <1>0. TypeOK
    BY DEF IndInv
  <1> DEFINE Own(id) == /\ Exists(id) /\ rows[id].ws = ws[b] => Same(id)
                        /\ Exists(id)' /\ rows'[id].ws = ws[b] => Exists(id) /\ rows[id].ws = ws[b]
             Theirs(p) == /\ Exists(p) /\ rows[p].ws = ws[b]
                          /\ rows[p].owner \in EndpointIds \cup SourceIds
                          /\ Exists(rows[p].owner) /\ rows[rows[p].owner].ws = ws[b]
  <1>1. ASSUME NEW id \in Ids, rows'[id] = rows[id]
        PROVE  Own(id) /\ (Theirs(id) => Same(id))
    BY <1>1 DEF Same, Exists
  <1>2. CASE ~\E c \in Clients : Handle(c)
    <2>1. alone[b]
      BY <1>0, <1>2, ClientsStay, Zenon
    <2>2. ASSUME NEW id \in Ids, rows'[id] # rows[id]
          PROVE  Own(id) /\ Same(id)
      <3>1. /\ Exists(id) /\ rows[id] \in Rows /\ rows'[id] \in Rows
            /\ rows'[id] = [rows[id] EXCEPT !.enabled = FALSE]
        BY <1>2, <2>2, OtherRows
      <3>2. Same(id)
        BY <3>1 DEF Same, Rows
      <3> QED
        BY <3>1, <3>2 DEF Same
    <2> QED
      BY <1>1, <2>1, <2>2, Tables
  <1>3. CASE \E c \in Clients : Handle(c)
    <2>1. PICK c \in Clients : Handle(c)
      BY <1>3
    <2>2. CASE UNCHANGED <<rows, alone, reports>>
      <3>1. alone[b]
        BY <2>2, Zenon
      <3> QED
        BY <1>1, <2>2, <3>1, Tables
    <2>3. CASE Observe(c)
      <3>1. alone[b] /\ ws[b] # ws[c]
        BY <2>1, <2>3, Zenon DEF Observe
      <3>2. ASSUME NEW id \in Ids, rows'[id] # rows[id]
            PROVE  /\ id \in EndpointIds \cup SourceIds => Own(id)
                   /\ id \in PluginIds => ~Theirs(id)
        <4>1. OwnChange(c, id)
          BY <2>1, <3>2, OwnRows
        <4> QED
          BY <3>1, <4>1 DEF OwnChange, Exists
      <3> QED
        BY <1>1, <3>1, <3>2, Tables
    <2> QED
      BY <2>1, <2>2, <2>3, ClientWrites
  <1> QED
    BY <1>2, <1>3

\* The transaction of a sync writes its configuration.
LEMMA SyncUpsertStep ==
  ASSUME IndInv, NEW c \in Clients, NEW items \in Configs, SyncUpsert(c, items)
  PROVE  /\ kept'[c] \subseteq EndpointIds \cup SourceIds /\ todo'[c] = {}
         /\ Cardinality(kept'[c]) = Cardinality(cfg'[c])
         /\ Undisturbed(c)'
  <1>0. TypeOK /\ (todo[c] # {} => pc[c] \in {"endpoints", "sources"})
    BY DEF IndInv, DeletionsAreOwn
  <1>1. PICK f \in Upserts(c, items) :
           /\ \E g \in PluginUpserts(f, items) : rows' = Upserted(c, f, g)
           /\ kept' = [kept EXCEPT ![c] = Kept(f)]
    BY DEF SyncUpsert
  <1>2. PICK g \in PluginUpserts(f, items) : rows' = Upserted(c, f, g)
    BY <1>1
  <1>3. /\ kept'[c] = Kept(f) /\ cfg'[c] = items /\ pc'[c] = "list_endpoints"
        /\ ws'[c] = ws[c] /\ todo'[c] = {}
    BY <1>0, <1>1 DEF SyncUpsert, TypeOK
  <1>4. /\ DOMAIN f = items /\ \A x, y \in items : f[x] = f[y] => x = y
        /\ \A x \in items : f[x] \in EndpointIds \cup SourceIds
    BY <1>0, UpsertedRows
  <1>5. Kept(f) \subseteq EndpointIds \cup SourceIds
    BY <1>4 DEF Kept
  <1>6. Cardinality(Kept(f)) = Cardinality(items)
    <2>1. IsFiniteSet(items)
      BY ConfigsAssumption
    <2>2. f \in [items -> Kept(f)]
      BY <1>4 DEF Kept, Upserts
    <2>3. f \in Bijection(items, Kept(f))
      BY <1>4, <2>2 DEF Kept, Bijection, Injection, Surjection, IsInjective
    <2>4. ExistsBijection(items, Kept(f))
      BY <2>3 DEF ExistsBijection
    <2> QED
      BY <2>1, <2>4, FS_Bijection
  <1>7. ASSUME NEW x \in items
        PROVE  /\ rows'[f[x]] \notin {NoRow, Gone} /\ rows'[f[x]].ws = ws[c]
               /\ rows'[f[x]].name = x.name /\ TableOf[f[x]] = x.table
               /\ x.plugin # Null => /\ g[x] \in PluginIds /\ rows'[g[x]] \notin {NoRow, Gone}
                                     /\ rows'[g[x]].ws = ws[c] /\ rows'[g[x]].owner = f[x]
                                     /\ rows'[g[x]].name = x.plugin
    <2>1. f[x] \in Ids
      BY <1>4, Tables
    <2>2. rows'[f[x]] = ItemRow(c, x) /\ TableOf[f[x]] = x.table
      BY <1>0, <1>2, UpsertedRows
    <2>3. ItemRow(c, x) \notin {NoRow, Gone} /\ ItemRow(c, x).ws = ws[c] /\ ItemRow(c, x).name = x.name
      BY <1>0, ItemRowIs, Zenon
    <2>4. ASSUME x.plugin # Null
          PROVE  /\ g[x] \in PluginIds /\ rows'[g[x]] \notin {NoRow, Gone}
                 /\ rows'[g[x]].ws = ws[c] /\ rows'[g[x]].owner = f[x]
                 /\ rows'[g[x]].name = x.plugin
      <3>1. x \in {y \in items : y.plugin # Null}
        BY <2>4
      <3>2. g[x] \in PluginIds /\ rows'[g[x]] = PluginRow(c, x, f[x])
        BY <1>0, <1>2, <3>1, UpsertedRows
      <3>3. /\ PluginRow(c, x, f[x]) \notin {NoRow, Gone} /\ PluginRow(c, x, f[x]).ws = ws[c]
            /\ PluginRow(c, x, f[x]).name = x.plugin /\ PluginRow(c, x, f[x]).owner = f[x]
        BY <1>0, <2>1, PluginRowIs
      <3> QED
        BY <3>2, <3>3
    <2> QED
      BY <2>2, <2>3, <2>4
  <1>8. \A id \in kept'[c] : rows'[id] \notin {NoRow, Gone} /\ rows'[id].ws = ws'[c]
    BY <1>3, <1>4, <1>7 DEF Kept
  <1>9. ASSUME NEW x \in cfg'[c] PROVE Configured(c, x)'
    <2>1. x \in items /\ f[x] \in kept'[c]
      BY <1>3, <1>4 DEF Kept
    <2> QED
      BY <1>3, <1>7, <2>1 DEF Configured, Exists
  <1> QED
    BY <1>3, <1>5, <1>6, <1>8, <1>9 DEF Undisturbed, Exists
\* What a sync has done stays while no row is written.
LEMMA StandsStill ==
  ASSUME UNCHANGED <<rows, ws, kept>>, NEW c \in Clients
  PROVE  /\ \A id : Exists(id)' <=> Exists(id)
         /\ \A x : Configured(c, x)' <=> Configured(c, x)
  BY DEF Configured, Exists

\* A sync that deletes what it has listed keeps what it has upserted.
LEMMA SyncDeleteStep ==
  ASSUME IndInv, NEW c \in Clients, NEW o \in Ids, SyncDelete(c, o),
         kept[c] \subseteq EndpointIds \cup SourceIds, todo[c] \cap kept[c] = {}, Undisturbed(c)
  PROVE  Undisturbed(c)'
  <1>0. TypeOK /\ OnlyPluginsAreOwned /\ o \in EndpointIds \cup SourceIds
    BY DEF IndInv, DeletionsAreOwn, SyncDelete
  <1>1. /\ o \in todo[c] /\ todo'[c] = todo[c] \ {o} /\ rows' = Deleted({o})
        /\ pc'[c] = pc[c] /\ ws'[c] = ws[c] /\ cfg'[c] = cfg[c] /\ kept'[c] = kept[c]
    BY <1>0 DEF SyncDelete, TypeOK
  <1>2. ASSUME NEW id \in EndpointIds \cup SourceIds
        PROVE  rows'[id] = IF id = o THEN Gone ELSE rows[id]
    BY <1>0, <1>1, DeletedRows, Tables
  <1>3. \A id \in kept[c] : id # o /\ rows'[id] = rows[id]
    BY <1>1, <1>2
  <1>4. ASSUME NEW x \in cfg'[c] PROVE Configured(c, x)'
    <2>1. PICK id \in kept[c] :
             /\ TableOf[id] = x.table /\ rows[id].name = x.name
             /\ x.plugin # Null =>
                   \E p \in PluginIds : /\ Exists(p) /\ rows[p].ws = ws[c]
                                        /\ rows[p].owner = id /\ rows[p].name = x.plugin
      BY <1>1 DEF Undisturbed, Configured
    <2>2. ASSUME NEW p \in PluginIds, Exists(p), rows[p].owner = id PROVE rows'[p] = rows[p]
      BY <1>0, <1>1, <1>3, <2>2, DeletedRows, Tables
    <2>3. /\ id \in kept'[c] /\ TableOf[id] = x.table /\ rows'[id].name = x.name
          /\ x.plugin # Null =>
                \E p \in PluginIds : /\ rows'[p] \notin {NoRow, Gone} /\ rows'[p].ws = ws'[c]
                                     /\ rows'[p].owner = id /\ rows'[p].name = x.plugin
      BY <1>1, <1>3, <2>1, <2>2 DEF Exists
    <2> QED
      BY <2>3 DEF Configured, Exists
  <1>5. ASSUME NEW ids \in SUBSET (EndpointIds \cup SourceIds), Strangers(c, ids) \subseteq todo[c]
        PROVE  Strangers(c, ids)' \subseteq todo'[c]
    BY <1>1, <1>2, <1>5 DEF Strangers, Exists
  <1>6. /\ pc'[c] # "list_endpoints" => Strangers(c, EndpointIds)' \subseteq todo'[c]
        /\ pc'[c] \in {"sources", "synced"} => Strangers(c, SourceIds)' \subseteq todo'[c]
    BY <1>1, <1>5 DEF Undisturbed
  <1>7. \A id \in kept'[c] : rows'[id] \notin {NoRow, Gone} /\ rows'[id].ws = ws'[c]
    BY <1>1, <1>3 DEF Undisturbed, Exists
  <1> QED
    BY <1>4, <1>6, <1>7, Zenon DEF Undisturbed, Exists

\* A step of another, or of a detector, does not disturb a sync that stays alone.
LEMMA SyncWaits ==
  ASSUME IndInv, [Next]_vars, NEW b \in Clients, ~Handle(b), Syncing(b), alone'[b],
         kept[b] \subseteq EndpointIds \cup SourceIds, Undisturbed(b)
  PROVE  Undisturbed(b)'
  <1>0. TypeOK
    BY DEF IndInv
  <1>1. /\ pc'[b] = pc[b] /\ ws'[b] = ws[b] /\ cfg'[b] = cfg[b] /\ kept'[b] = kept[b]
        /\ todo'[b] = todo[b]
    BY <1>0, OthersStay, ClientsStay
  <1>2. \A id \in kept[b] : Exists(id) /\ rows[id].ws = ws[b] /\ Same(id)
    BY SyncRowsStay DEF Undisturbed
  <1>3. ASSUME NEW x \in cfg'[b] PROVE Configured(b, x)'
    <2>1. PICK id \in kept[b] :
             /\ TableOf[id] = x.table /\ rows[id].name = x.name
             /\ x.plugin # Null =>
                   \E p \in PluginIds : /\ Exists(p) /\ rows[p].ws = ws[b]
                                        /\ rows[p].owner = id /\ rows[p].name = x.plugin
      BY <1>1 DEF Undisturbed, Configured
    <2>2. ASSUME NEW p \in PluginIds, Exists(p), rows[p].ws = ws[b], rows[p].owner = id
          PROVE  Same(p)
      BY <1>2, <2>2, SyncRowsStay
    <2> QED
      BY <1>1, <1>2, <2>1, <2>2 DEF Configured, Exists, Same
  <1>4. ASSUME NEW ids \in SUBSET (EndpointIds \cup SourceIds)
        PROVE  Strangers(b, ids)' \subseteq Strangers(b, ids)
    BY <1>1, SyncRowsStay DEF Strangers
  <1>5. /\ pc'[b] # "list_endpoints" => Strangers(b, EndpointIds)' \subseteq todo'[b]
        /\ pc'[b] \in {"sources", "synced"} => Strangers(b, SourceIds)' \subseteq todo'[b]
    BY <1>1, <1>4 DEF Undisturbed
  <1>6. \A id \in kept'[b] : rows'[id] \notin {NoRow, Gone} /\ rows'[id].ws = ws'[b]
    BY <1>1, <1>2 DEF Same
  <1> QED
    BY <1>3, <1>5, <1>6, Zenon DEF Undisturbed, Exists

\* Every step keeps the syncs on their way.
LEMMA SyncStep == IndInv /\ [Next]_vars => SyncIsOnItsWay'
  <1> DEFINE Goal(b) == /\ kept'[b] \subseteq EndpointIds \cup SourceIds
                        /\ todo'[b] \cap kept'[b] = {}
                        /\ Cardinality(kept'[b]) = Cardinality(cfg'[b])
                        /\ alone'[b] => Undisturbed(b)'
  <1> SUFFICES ASSUME IndInv, [Next]_vars, NEW b \in Clients, Syncing(b)' PROVE Goal(b)
    BY Zenon DEF SyncIsOnItsWay, Undisturbed, Configured
  <1>0. /\ TypeOK /\ (todo[b] # {} => pc[b] \in {"endpoints", "sources"})
    BY DEF IndInv, DeletionsAreOwn
  <1>1. ASSUME Syncing(b)
        PROVE  /\ kept[b] \subseteq EndpointIds \cup SourceIds /\ todo[b] \cap kept[b] = {}
               /\ Cardinality(kept[b]) = Cardinality(cfg[b])
               /\ alone[b] => Undisturbed(b)
    BY <1>1, SyncParts, Zenon DEF IndInv
  <1>2. CASE ~Handle(b)
    <2>1. /\ pc'[b] = pc[b] /\ cfg'[b] = cfg[b] /\ kept'[b] = kept[b] /\ todo'[b] = todo[b]
      BY <1>0, <1>2, OthersStay, ClientsStay
    <2>2. Syncing(b)
      BY <2>1 DEF Syncing
    <2>3. ASSUME alone'[b] PROVE Undisturbed(b)'
      <3>1. alone[b]
        BY <1>2, <2>2, <2>3, SyncRowsStay, Zenon
      <3>2. kept[b] \subseteq EndpointIds \cup SourceIds /\ Undisturbed(b)
        BY <1>1, <2>2, <3>1, Zenon
      <3> QED
        BY <1>2, <2>2, <2>3, <3>2, SyncWaits, Zenon
    <2>4. /\ kept'[b] \subseteq EndpointIds \cup SourceIds /\ todo'[b] \cap kept'[b] = {}
          /\ Cardinality(kept'[b]) = Cardinality(cfg'[b])
      BY <1>1, <2>1, <2>2
    <2> QED
      BY <2>3, <2>4, Zenon
  <1>3. ASSUME NEW items \in Configs, SyncUpsert(b, items) PROVE Goal(b)
    <2>1. /\ kept'[b] \subseteq EndpointIds \cup SourceIds /\ todo'[b] = {}
          /\ Cardinality(kept'[b]) = Cardinality(cfg'[b]) /\ Undisturbed(b)'
      BY <1>3, SyncUpsertStep, Zenon
    <2>2. todo'[b] \cap kept'[b] = {}
      BY <2>1
    <2> QED
      BY <2>1, <2>2, Zenon
  <1>4. CASE SyncList(b)
    <2>1. UNCHANGED <<rows, ws, cfg, kept, alone>> /\ pc[b] \in {"list_endpoints", "list_sources"}
      BY <1>4, Zenon DEF SyncList, hist
    <2>2. Syncing(b) /\ todo[b] = {}
      BY <1>0, <2>1 DEF Syncing
    <2>3. \/ /\ pc[b] = "list_endpoints" /\ pc'[b] = "endpoints"
             /\ todo'[b] = Strangers(b, EndpointIds)
          \/ /\ pc[b] = "list_sources" /\ pc'[b] = "sources"
             /\ todo'[b] = Strangers(b, SourceIds)
      BY <1>0, <1>4 DEF SyncList, TypeOK
    <2>4. todo'[b] \cap kept'[b] = {}
      BY <2>1, <2>3 DEF Strangers
    <2>5. ASSUME Undisturbed(b) PROVE Undisturbed(b)'
      <3>1. /\ Strangers(b, EndpointIds)' = Strangers(b, EndpointIds)
            /\ Strangers(b, SourceIds)' = Strangers(b, SourceIds)
        BY <2>1 DEF Strangers, Exists
      <3>2. /\ pc'[b] # "list_endpoints" => Strangers(b, EndpointIds)' \subseteq todo'[b]
            /\ pc'[b] \in {"sources", "synced"} => Strangers(b, SourceIds)' \subseteq todo'[b]
        BY <2>2, <2>3, <2>5, <3>1 DEF Undisturbed
      <3>3. /\ \A id \in kept'[b] : Exists(id)' /\ rows'[id].ws = ws'[b]
            /\ \A x \in cfg'[b] : Configured(b, x)'
        BY <2>1, <2>5, StandsStill, Zenon DEF Undisturbed
      <3> QED
        BY <3>2, <3>3, Zenon DEF Undisturbed
    <2> QED
      BY <1>1, <2>1, <2>2, <2>4, <2>5, Zenon
  <1>5. CASE SyncNext(b)
    <2>1. UNCHANGED <<rows, ws, cfg, kept, todo, alone>> /\ pc[b] \in {"endpoints", "sources"}
      BY <1>5, Zenon DEF SyncNext, hist
    <2>2. Syncing(b)
      BY <2>1 DEF Syncing
    <2>3. \/ pc[b] = "endpoints" /\ pc'[b] = "list_sources"
          \/ pc[b] = "sources" /\ pc'[b] = "synced"
      BY <1>0, <1>5 DEF SyncNext, TypeOK
    <2>4. ASSUME Undisturbed(b) PROVE Undisturbed(b)'
      <3>1. /\ Strangers(b, EndpointIds)' = Strangers(b, EndpointIds)
            /\ Strangers(b, SourceIds)' = Strangers(b, SourceIds)
        BY <2>1 DEF Strangers, Exists
      <3>2. /\ pc'[b] # "list_endpoints" => Strangers(b, EndpointIds)' \subseteq todo'[b]
            /\ pc'[b] \in {"sources", "synced"} => Strangers(b, SourceIds)' \subseteq todo'[b]
        BY <2>1, <2>3, <2>4, <3>1 DEF Undisturbed
      <3>3. /\ \A id \in kept'[b] : Exists(id)' /\ rows'[id].ws = ws'[b]
            /\ \A x \in cfg'[b] : Configured(b, x)'
        BY <2>1, <2>4, StandsStill, Zenon DEF Undisturbed
      <3> QED
        BY <3>2, <3>3, Zenon DEF Undisturbed
    <2> QED
      BY <1>1, <2>1, <2>2, <2>4, Zenon
  <1>6. ASSUME NEW o \in Ids, SyncDelete(b, o) PROVE Goal(b)
    <2>1. /\ cfg'[b] = cfg[b] /\ kept'[b] = kept[b] /\ pc'[b] = pc[b]
          /\ todo'[b] = todo[b] \ {o}
      BY <1>0, <1>6 DEF SyncDelete, TypeOK
    <2>2. Syncing(b)
      BY <2>1 DEF Syncing
    <2>3. ASSUME alone'[b] PROVE alone[b]
      BY <1>6, <2>2, <2>3, Zenon DEF SyncDelete, Observe
    <2>4. ASSUME alone'[b] PROVE Undisturbed(b)'
      <3>1. /\ Undisturbed(b)
            /\ kept[b] \subseteq EndpointIds \cup SourceIds /\ todo[b] \cap kept[b] = {}
        BY <1>1, <2>2, <2>3, <2>4, Zenon
      <3> QED
        BY <1>6, <3>1, SyncDeleteStep, Zenon
    <2>5. /\ kept'[b] \subseteq EndpointIds \cup SourceIds /\ todo'[b] \cap kept'[b] = {}
          /\ Cardinality(kept'[b]) = Cardinality(cfg'[b])
      BY <1>1, <2>1, <2>2
    <2> QED
      BY <2>4, <2>5, Zenon
  <1> QED
    BY <1>2, <1>3, <1>4, <1>5, <1>6, ClientMoves, Zenon

\* IndInv is an inductive invariant: every part of it is kept by every step.
THEOREM Invariance == Spec => []IndInv
  <1>1. IndInv /\ [Next]_vars => IndInv'
    BY TypeStep, OwnedStep, UpdatesStep, DeletionsStep, DefaultStep, EnablingStep, ReportStep,
       SyncStep, Zenon DEF IndInv
  <1> QED
    BY <1>1, Initially, PTL DEF Spec

\* The variables of the control plane keep their types, whoever writes the tables.
THEOREM TypeCorrectness == Spec => []TypeOK
  <1>1. IndInv => TypeOK
    BY DEF IndInv
  <1> QED
    BY <1>1, Invariance, PTL

\* A sync that nobody else interferes with leaves in its workspace exactly the
\* endpoints and sources of its configuration; the plugins of the configuration are
\* there too, beside those that a kept endpoint had before (declarative.go:73-103
\* deletes no plugin of an endpoint or source that stays).
THEOREM UndisturbedSyncIsExact == Spec => []SyncIsExact
  <1>1. IndInv => SyncIsExact
    <2> SUFFICES ASSUME IndInv, NEW c \in Clients, pc[c] = "synced", alone[c]
                 PROVE  /\ {id \in EndpointIds \cup SourceIds :
                               Exists(id) /\ rows[id].ws = ws[c]} = kept[c]
                        /\ Cardinality(kept[c]) = Cardinality(cfg[c])
                        /\ \A x \in cfg[c] : \E id \in kept[c] :
                              /\ TableOf[id] = x.table /\ rows[id].name = x.name
                              /\ x.plugin # Null =>
                                    \E p \in PluginIds : /\ Exists(p) /\ rows[p].owner = id
                                                         /\ rows[p].name = x.plugin
      BY Zenon DEF SyncIsExact
    <2>1. Syncing(c) /\ todo[c] = {}
      BY DEF IndInv, DeletionsAreOwn, Syncing
    <2>2. /\ kept[c] \subseteq EndpointIds \cup SourceIds
          /\ Cardinality(kept[c]) = Cardinality(cfg[c]) /\ Undisturbed(c)
      BY <2>1, SyncParts, Zenon DEF IndInv
    <2>3. {id \in EndpointIds \cup SourceIds : Exists(id) /\ rows[id].ws = ws[c]} = kept[c]
      BY <2>1, <2>2 DEF Undisturbed, Strangers
    <2>4. ASSUME NEW x \in cfg[c]
          PROVE  \E id \in kept[c] :
                    /\ TableOf[id] = x.table /\ rows[id].name = x.name
                    /\ x.plugin # Null =>
                          \E p \in PluginIds : /\ Exists(p) /\ rows[p].owner = id
                                               /\ rows[p].name = x.plugin
      BY <2>2 DEF Undisturbed, Configured
    <2> QED
      BY <2>2, <2>3, <2>4, Zenon
  <1> QED
    BY <1>1, Invariance, PTL

\* The default workspace is there at all times, though the guards that protect it
\* are about a row that was read some statements before.
THEOREM DefaultWorkspaceStays == Spec => []DefaultWorkspaceRemains
  <1>1. IndInv => DefaultWorkspaceRemains
    BY DEF IndInv, DefaultIsKept, DefaultWorkspaceRemains
  <1> QED
    BY <1>1, Invariance, PTL

\* However many runs of the detection job overlap, the disabling of an endpoint is
\* reported once.
THEOREM ReportedOnce == Spec => []DisableReportedOnce
  <1>1. IndInv => DisableReportedOnce
    BY DEF IndInv
  <1> QED
    BY <1>1, Invariance, PTL

\* A request that writes goes on.
LEMMA WriterMoves ==
  ASSUME IndInv, NEW c \in Clients, Handle(c), NEW id \in Ids, rows'[id] # rows[id]
  PROVE  pc'[c] # pc[c] \/ todo'[c] # todo[c]
  <1>0. TypeOK
    BY DEF IndInv
  <1>1. CASE pc[c] # "idle" /\ Respond(c)
    BY <1>0, <1>1, RespondStep
  <1>2. ASSUME NEW o \in Ids, SyncDelete(c, o) PROVE todo'[c] # todo[c]
    BY <1>0, <1>2 DEF SyncDelete, TypeOK
  <1>3. ASSUME NEW items \in Configs, SyncUpsert(c, items) PROVE pc'[c] # pc[c]
    BY <1>0, <1>3 DEF SyncUpsert, TypeOK
  <1>4. \/ UNCHANGED rows
        \/ pc[c] # "idle" /\ Respond(c)
        \/ \E o \in Ids : SyncDelete(c, o)
        \/ \E items \in Configs : SyncUpsert(c, items)
    BY ClientWrites DEF Create, Delete, Write, RemoveWorkspace
  <1> QED
    BY <1>1, <1>2, <1>3, <1>4

\* A request changes and deletes endpoints and sources of its own workspace only,
\* also a sync, which deletes by id what it listed some statements ago.
THEOREM Isolation == Spec => WorkspaceIsolation
  <1> DEFINE A == \A id \in EndpointIds \cup SourceIds :
                    Exists(id) /\ rows'[id] # rows[id] =>
                        \/ \E d \in Detectors : page'[d] # page[d]
                        \/ \E c \in Clients :
                              /\ pc'[c] # pc[c] \/ todo'[c] # todo[c]
                              /\ rows[id].ws = ws[c]
  <1>1. IndInv /\ [Next]_vars => [A]_vars
    <2> SUFFICES ASSUME IndInv, [Next]_vars, NEW id \in EndpointIds \cup SourceIds,
                        Exists(id), rows'[id] # rows[id]
                 PROVE  \/ \E d \in Detectors : page'[d] # page[d]
                        \/ \E c \in Clients :
                              /\ pc'[c] # pc[c] \/ todo'[c] # todo[c]
                              /\ rows[id].ws = ws[c]
      OBVIOUS
    <2>1. id \in Ids
      BY Tables
    <2>2. ASSUME NEW c \in Clients, Handle(c)
          PROVE  (pc'[c] # pc[c] \/ todo'[c] # todo[c]) /\ rows[id].ws = ws[c]
      BY <2>1, <2>2, WriterMoves, OwnRows DEF OwnChange
    <2>3. ASSUME ~\E c \in Clients : Handle(c) PROVE \E d \in Detectors : page'[d] # page[d]
      <3>1. \E d \in Detectors : id \in page[d] /\ id \notin page'[d]
        BY <2>1, <2>3, OtherRows, Zenon
      <3> QED
        BY <3>1
    <2> QED
      BY <2>2, <2>3
  <1> QED
    BY <1>1, Invariance, PTL DEF Spec, WorkspaceIsolation

\* An endpoint that was disabled is enabled again by a request that asks for it, by a
\* sync whose configuration enables it, or by an update that had read the endpoint
\* before it was disabled.
THEOREM Reenabling == Spec => ReenabledOnPurpose
  <1> DEFINE Cause(id) == \E c \in Clients :
                    \/ pc[c] = "write" /\ target[c] = id /\ (ask[c] = "on" \/ overtaken[c])
                    \/ /\ pc[c] = "in" /\ pc'[c] = "list_endpoints"
                       /\ \E x \in cfg'[c] : /\ x.enabled /\ x.table = "endpoints"
                                             /\ x.name = rows'[id].name
             A == \A id \in EndpointIds :
                    /\ Exists(id) /\ ~rows[id].enabled
                    /\ Exists(id)' /\ rows'[id].enabled
                    => Cause(id)
  <1>1. IndInv /\ [Next]_vars => [A]_vars
    <2> SUFFICES ASSUME IndInv, [Next]_vars, NEW id \in EndpointIds,
                        Exists(id), ~rows[id].enabled, Exists(id)', rows'[id].enabled
                 PROVE  Cause(id)
      BY Zenon
    <2>0. TypeOK /\ OnlyPluginsAreOwned /\ UpdatesAreOwn /\ EnablingHasCause
      BY DEF IndInv
    <2>1. id \in Ids /\ rows'[id] # rows[id] /\ rows'[id] \notin {NoRow, Gone}
      BY Tables DEF Exists
    <2>2. ASSUME NEW c \in Clients, Handle(c) PROVE Cause(id)
      <3>1. ASSUME NEW o \in Ids, NEW name \in Names \cup {Default, Null},
                   NEW owner \in Ids \cup {Null}, NEW en \in BOOLEAN, Create(c, o, name, owner, en)
            PROVE  FALSE
        <4>1. rows[o] = NoRow /\ \E r : rows' = [rows EXCEPT ![o] = r]
          BY <3>1, Zenon DEF Create, Unused
        <4> QED
          BY <2>0, <2>1, <4>1 DEF Exists, TypeOK
      <3>2. ASSUME NEW o \in Ids, rows' = Deleted({o}) PROVE FALSE
        BY <2>0, <2>1, <3>2, DeletedRows
      <3>3. ASSUME NEW o \in Ids, Delete(c, o) \/ SyncDelete(c, o) PROVE FALSE
        BY <3>2, <3>3 DEF Delete, SyncDelete
      <3>4. ASSUME RemoveWorkspace(c) PROVE FALSE
        BY <2>0, <3>2, <3>4, Tables DEF RemoveWorkspace, UpdatesAreOwn
      <3>5. CASE Write(c)
        <4>1. pc[c] = "write" /\ target[c] = id /\ rows'[id] = held[c]
          BY <2>0, <2>1, <3>5 DEF Write, UpdatesAreOwn, TypeOK
        <4>2. held[c].enabled
          BY <4>1, Zenon
        <4>3. ask[c] = "on" \/ overtaken[c]
          BY <2>0, <4>1, <4>2, Zenon DEF EnablingHasCause
        <4> QED
          BY <4>1, <4>3, Zenon
      <3>6. ASSUME NEW items \in Configs, SyncUpsert(c, items) PROVE Cause(id)
        <4>1. pc[c] = "in" /\ pc'[c] = "list_endpoints" /\ cfg'[c] = items
          BY <2>0, <3>6 DEF SyncUpsert, TypeOK
        <4>2. PICK f \in Upserts(c, items) :
                 \E g \in PluginUpserts(f, items) : rows' = Upserted(c, f, g)
          BY <3>6 DEF SyncUpsert
        <4>3. PICK g \in PluginUpserts(f, items) : rows' = Upserted(c, f, g)
          BY <4>2
        <4>4. id \notin PluginIds /\ TableOf[id] = "endpoints"
          BY DEF PluginIds, EndpointIds
        <4>5. PICK x \in items : id = f[x]
          <5>1. \A x \in items : x.plugin # Null => g[x] \in PluginIds
            BY <2>0, UpsertedRows
          <5> QED
            BY <2>0, <2>1, <4>3, <4>4, <5>1, UpsertedRows
        <4>6. rows'[id] = ItemRow(c, x) /\ x.table = "endpoints"
          BY <2>0, <4>3, <4>4, <4>5, UpsertedRows
        <4>7. rows'[id].name = x.name /\ rows'[id].enabled = x.enabled
          <5>1. ItemRow(c, x).name = x.name /\ ItemRow(c, x).enabled = x.enabled
            BY Zenon DEF ItemRow, NewRow
          <5> QED
            BY <4>6, <5>1, Zenon
        <4>8. x.enabled /\ x \in cfg'[c]
          BY <4>1, <4>7, Zenon
        <4> QED
          BY <4>1, <4>6, <4>7, <4>8, Zenon
      <3>7. ~ UNCHANGED <<rows, alone, reports>>
        BY <2>1
      <3> QED
        <4>1. \/ UNCHANGED <<rows, alone, reports>>
              \/ \E o \in Ids, name \in Names \cup {Default, Null}, owner \in Ids \cup {Null},
                    en \in BOOLEAN : Create(c, o, name, owner, en)
              \/ \E o \in Ids : Delete(c, o) \/ SyncDelete(c, o)
              \/ Write(c) \/ RemoveWorkspace(c)
              \/ \E items \in Configs : SyncUpsert(c, items)
          BY <2>2, ClientWrites, Zenon
        <4>2. ASSUME \E o \in Ids, name \in Names \cup {Default, Null}, owner \in Ids \cup {Null},
                       en \in BOOLEAN : Create(c, o, name, owner, en)
              PROVE  FALSE
          <5>1. PICK o \in Ids, name \in Names \cup {Default, Null}, owner \in Ids \cup {Null},
                    en \in BOOLEAN : Create(c, o, name, owner, en)
            BY <4>2
          <5> QED
            BY <3>1, <5>1
        <4> QED
          BY <3>3, <3>4, <3>5, <3>6, <3>7, <4>1, <4>2, Zenon
    <2>3. ASSUME ~\E c \in Clients : Handle(c) PROVE FALSE
      BY <2>1, <2>3, OtherRows
    <2> QED
      BY <2>2, <2>3, Zenon
  <1> QED
    BY <1>1, Invariance, PTL DEF Spec, ReenabledOnPurpose
=============================================================================
