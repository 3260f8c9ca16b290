----------------------------- MODULE Migrations -----------------------------
(***************************************************************************)
(* "webhookx db up" and "webhookx db reset", any number of them, beside    *)
(* the nodes that "webhookx start" starts: the version of the schema, the  *)
(* default workspace, and the check of Start.  Every command is a process  *)
(* of its own, and a node may be started while they run (docker-compose    *)
(* does).  golang-migrate runs migrations and drops tables under one       *)
(* advisory lock of the database, which goes with the session of a command *)
(* that ends; the workspace is inserted after it is released, and a node   *)
(* reads the version without it.                                           *)
(***************************************************************************)
EXTENDS Integers

CONSTANTS
    Commands,           \* processes of "webhookx db"
    Nodes,              \* processes of "webhookx start"
    Latest              \* version of the last migration

ASSUME MigrationsAssumption == Latest \in Nat \ {0}

VARIABLES
    schema, dirty,      \* the version, and whether its migration has not ended
    workspaces,         \* the table: "none", "empty" or with the "default" one
    pc,                 \* command -> its step
    serving,            \* nodes that have passed the check
    \* history
    upBroken,           \* an up ended between the last migration and the workspace
    halfReset,          \* a reset has begun that has not dropped everything
    dropped             \* nodes under which a reset began, or half a one lay

dbVars == <<schema, dirty, workspaces, pc, serving, upBroken, halfReset, dropped>>

DBInit ==
    /\ schema = 0 /\ dirty = FALSE /\ workspaces = "none"
    /\ pc = [c \in Commands |-> "off"]
    /\ serving = {}
    /\ upBroken = FALSE /\ halfReset = FALSE /\ dropped = {}

\* Steps at which a command holds the lock.
Holding == {"up", "migrating", "dropping"}

Locked == \E c \in Commands : pc[c] \in Holding

Step(c, from, to) == pc[c] = from /\ pc' = [pc EXCEPT ![c] = to]

-----------------------------------------------------------------------------
(* webhookx db up *)

\* On a dirty schema it returns an error, and on the latest one ErrNoChange,
\* which leaves out the workspace.
UpBegin(c) ==
    /\ ~Locked /\ Step(c, "off", "up")
    /\ ~dirty /\ schema < Latest
    /\ UNCHANGED <<schema, dirty, workspaces, serving, upBroken, halfReset, dropped>>

\* The version of the next migration is written with the dirty flag.
MigrateBegin(c) ==
    /\ Step(c, "up", "migrating")
    /\ schema' = schema + 1 /\ dirty' = TRUE
    /\ UNCHANGED <<workspaces, serving, upBroken, halfReset, dropped>>

\* The first migration creates the table.
Migrated == IF schema = 1 /\ workspaces = "none" THEN "empty" ELSE workspaces

\* Mutant: the workspace is left to the next command.
MigrateLeavesDefault(c) ==
    /\ Step(c, "migrating", IF schema = Latest THEN "off" ELSE "up")
    /\ dirty' = FALSE /\ workspaces' = Migrated
    /\ UNCHANGED <<schema, serving, upBroken, halfReset, dropped>>

\* It is done; after the last one Up goes on to the default workspace.
MigrateEnd(c) ==
    /\ Step(c, "migrating", IF schema = Latest THEN "default" ELSE "up")
    /\ dirty' = FALSE /\ workspaces' = Migrated
    /\ UNCHANGED <<schema, serving, upBroken, halfReset, dropped>>

\* The insert fails when a reset has dropped the table.
InitDefaultWorkspace(c) ==
    /\ Step(c, "default", "off")
    /\ workspaces' = IF workspaces = "none" THEN "none" ELSE "default"
    /\ UNCHANGED <<schema, dirty, serving, upBroken, halfReset, dropped>>

\* A migration or the insert fails, or the process ends.
UpBreaks(c) ==
    /\ \E from \in {"up", "migrating", "default"} : Step(c, from, "off")
    /\ upBroken' = (upBroken \/ (pc[c] = "default" /\ ~dirty /\ schema = Latest))
    /\ UNCHANGED <<schema, dirty, workspaces, serving, halfReset, dropped>>

-----------------------------------------------------------------------------
(* webhookx db reset *)

\* It asks nothing of the nodes that use the database.
ResetBegin(c) ==
    /\ ~Locked /\ Step(c, "off", "dropping")
    /\ halfReset' = TRUE /\ dropped' = serving
    /\ UNCHANGED <<schema, dirty, workspaces, serving, upBroken>>

\* Drop drops the tables one by one, the one of the version among them.
DropTable(c) ==
    /\ pc[c] = "dropping"
    /\ \/ workspaces # "none" /\ workspaces' = "none" /\ UNCHANGED <<schema, dirty>>
       \/ schema > 0 /\ schema' = 0 /\ dirty' = FALSE /\ UNCHANGED workspaces
    /\ UNCHANGED <<pc, serving, upBroken, halfReset, dropped>>

ResetEnd(c) ==
    /\ Step(c, "dropping", "off")
    /\ workspaces = "none" /\ schema = 0
    /\ upBroken' = FALSE /\ halfReset' = FALSE
    /\ UNCHANGED <<schema, dirty, workspaces, serving, dropped>>

ResetBreaks(c) ==
    /\ Step(c, "dropping", "off")
    /\ UNCHANGED <<schema, dirty, workspaces, serving, upBroken, halfReset, dropped>>

-----------------------------------------------------------------------------
(* webhookx start *)

\* A node does not start on a database that is dirty or has migrations pending.
Check(n) ==
    /\ n \notin serving /\ ~dirty /\ schema = Latest
    /\ serving' = serving \cup {n}
    /\ dropped' = IF halfReset THEN dropped \cup {n} ELSE dropped
    /\ UNCHANGED <<schema, dirty, workspaces, pc, upBroken, halfReset>>

End(n) ==
    /\ n \in serving /\ serving' = serving \ {n} /\ dropped' = dropped \ {n}
    /\ UNCHANGED <<schema, dirty, workspaces, pc, upBroken, halfReset>>

-----------------------------------------------------------------------------
DBNext ==
    \/ \E c \in Commands :
          \/ UpBegin(c) \/ MigrateBegin(c) \/ MigrateEnd(c) \/ InitDefaultWorkspace(c)
          \/ UpBreaks(c) \/ ResetBegin(c) \/ DropTable(c) \/ ResetEnd(c) \/ ResetBreaks(c)
    \/ \E n \in Nodes : Check(n) \/ End(n)

DBSpec == DBInit /\ [][DBNext]_dbVars

-----------------------------------------------------------------------------
(* Properties *)

\* A node that serves has the workspace that requests without one are about,
\* unless an up is about to insert it, an up ended before it did (no later
\* command does), or a reset began under the node or was left half-done.
ServesDefaultWorkspace ==
    serving \subseteq dropped \/ workspaces = "default" \/ upBroken
        \/ \E c \in Commands : pc[c] = "default"

-----------------------------------------------------------------------------
(* The inductive invariant *)

\* The types of the variables.
DBTypeOK ==
    /\ schema \in 0 .. Latest /\ dirty \in BOOLEAN
    /\ workspaces \in {"none", "empty", "default"}
    /\ pc \in [Commands -> {"off", "up", "migrating", "default", "dropping"}]
    /\ serving \subseteq Nodes /\ dropped \subseteq serving
    /\ upBroken \in BOOLEAN /\ halfReset \in BOOLEAN

\* What the lock of golang-migrate protects.
UnderLock ==
    /\ \A c, d \in Commands : pc[c] \in Holding /\ pc[d] \in Holding => c = d
    /\ \A c \in Commands :
          /\ pc[c] = "up" => ~dirty /\ schema < Latest
          /\ pc[c] = "migrating" => dirty
          /\ pc[c] = "dropping" => halfReset

\* A database that was not reset half-way has the tables of its version, and in
\* the end the workspace.
UpToDate ==
    ~halfReset =>
        /\ schema > 1 \/ (schema = 1 /\ ~dirty) => workspaces # "none"
        /\ ~dirty /\ schema = Latest =>
              workspaces = "default" \/ upBroken \/ \E c \in Commands : pc[c] = "default"

\* A node serves on the version it has checked.
ServesChecked == serving \subseteq dropped \/ (~halfReset /\ ~dirty /\ schema = Latest)

DBInv == DBTypeOK /\ UnderLock /\ UpToDate /\ ServesChecked
=============================================================================
