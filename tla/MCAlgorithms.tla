---------------------------- MODULE MCAlgorithms ----------------------------
(* Inputs of the pure modules, one state for each. *)
EXTENDS Algorithms

-----------------------------------------------------------------------------
(* Paging: three queries of a walk over four rows, of which one comes or goes
   between two queries; the second row is of another workspace. *)

Entities ==
    [endpoint |-> EndpointFilters, source |-> SourceFilters, plugin |-> PluginFilters,
     attempt |-> AttemptFilters, workspace |-> WorkspaceFilters, event |-> EventFilters]

Row(entity, id) ==
    [id |-> id, ws |-> IF id = 2 THEN 2 ELSE 1,
     col |-> [c \in Entities[entity].eq \cup Entities[entity].time \cup Entities[entity].contains |->
                 CASE c \in Entities[entity].eq -> 1 + (id % 2)
                   [] c \in {"attempted_at", "ingested_at"} -> IF id = 3 THEN Null ELSE id
                   [] c = "created_at" -> id
                   [] OTHER -> 1 .. id]]

\* No filter, one that some list has, and one on a column that no list has.
Asked ==
    {{}, {Condition("created_at", "gte", 2)}, {Condition("status", "eq", 2)},
     {Condition("metadata", "contains", {3}), Condition("name", "eq", 1)},
     {Condition("attempted_at", "lt", 4)}}

Tables(rows) ==
    {t \in [1 .. 3 -> SUBSET rows] :
        \A k \in 1 .. 2 : Cardinality((t[k] \ t[k + 1]) \cup (t[k + 1] \ t[k])) <= 1}

MCPagingInputs ==
    {[filters |-> Entities[entity],
      tables |-> [k \in 1 .. 3 |-> {Row(entity, id) : id \in ids[k]}],
      ws |-> IF entity = "workspace" THEN Null ELSE 1,
      sort |-> sort, limit |-> limit, asked |-> asked,
      fails |-> IF Cardinality(ids[1]) = 3 THEN 2 ELSE 0] :
        entity \in DOMAIN Entities, ids \in Tables(1 .. 4), sort \in {"asc", "desc"},
        limit \in {1, 2}, asked \in Asked}

-----------------------------------------------------------------------------
(* Deliverer: two requests on one client, the second possibly redirected. *)

Label(text) == [text |-> text, upper |-> FALSE]

Names ==
    {<<Label("a"), Label("corp")>>, <<Label("corp")>>, <<Label("a"), [text |-> "corp", upper |-> TRUE]>>}

Addr(net, form) == [net |-> net, host |-> 1, form |-> form]

Answers ==
    {<<>>, <<Addr("public", "plain")>>, <<Addr("loopback", "mapped")>>, <<Addr("linklocal", "zoned")>>,
     <<Addr("private", "plain"), Addr("public", "mapped")>>}

RuleSets ==
    {{Alias("default")}, {Alias("loopback"), IP("public", 1, "plain")}, {CIDR("private", "plain")},
     {IP("public", 1, "mapped"), CIDR("private", "mapped"), IP("linklocal", 1, "zoned")},
     {Domain(<<Label("corp")>>, TRUE)}, {Domain(<<Label("corp")>>, FALSE), IP("private", 2, "plain")}}

Hop(name, answers, reply) == [name |-> name, answers |-> answers, reply |-> reply]

\* A proxy makes a difference to an ACL only.
Setups ==
    {s \in [rules : RuleSets, acl : BOOLEAN, proxy : BOOLEAN] : s.acl \/ ~s.proxy}

LastHops ==
    {Hop(name, answers, reply) :
        name \in Names, answers \in Answers, reply \in {"ok", "error", "reset", "timeout", "nobody"}}

Seconds ==
    {<<hop>> : hop \in LastHops}
    \cup {<<Hop(name, answers, "redirect"), hop>> : name \in Names, answers \in Answers, hop \in LastHops}

MCDeliveryInputs ==
    {[setup |-> setup, first |-> <<Hop(<<Label("corp")>>, answers, "ok")>>, second |-> second] :
        setup \in Setups, answers \in Answers, second \in Seconds}

-----------------------------------------------------------------------------
(* Plugins: up to three of different names, and a request with its body, good
   or not, signed or not. *)

MCWellFormed(body) == body # "garbage"
MCConforms(body) == body = "good"

Rewrite == [good |-> "bad", bad |-> "good", garbage |-> "good"]

Plugin(name, config) ==
    [name |-> name, enabled |-> TRUE, onSource |-> name \in Inbound, onEndpoint |-> name \in Outbound,
     config |-> config]

PluginUniverse ==
    {Plugin("basic-auth", [secret |-> "s"]),
     Plugin("key-auth", [secret |-> "s", locations |-> {"query"}]),
     Plugin("key-auth", [secret |-> "s", locations |-> {"query", "header"}]),
     Plugin("hmac-auth", [secret |-> "s"]),
     [Plugin("hmac-auth", [secret |-> "t"]) EXCEPT !.enabled = FALSE],
     Plugin("connect-auth", [secret |-> "s", provider |-> "signed", window |-> 1]),
     Plugin("connect-auth", [secret |-> "s", provider |-> "okta"]),
     Plugin("connect-auth", [secret |-> "s", provider |-> "gitlab"]),
     Plugin("event-validation", [schema |-> "valid"]),
     Plugin("event-validation", [schema |-> "none"]),
     Plugin("event-validation", [schema |-> "broken"]),
     Plugin("function", [effect |-> "set", script |-> Rewrite]),
     Plugin("function", [effect |-> "exit"]),
     [Plugin("function", [effect |-> "set", script |-> Rewrite]) EXCEPT !.onEndpoint = TRUE],
     Plugin("wasm", [effect |-> "set", script |-> Rewrite]),
     Plugin("wasm", [effect |-> "throw"]),
     Plugin("webhookx-signature", [secret |-> "s"])}

PluginSets ==
    {plugins \in UNION {kSubset(k, PluginUniverse) : k \in 0 .. 3} :
        \A p, q \in plugins : p.name = q.name => p = q}

Requests ==
    {[credentials |-> [at \in {"basic", "query", "header", "token"} |-> IF at \in shown THEN "s" ELSE "none"],
      signature |-> [of |-> of, with |-> "s"], body |-> body, method |-> method, age |-> age,
      outcome |-> "open"] :
        shown \in {{}, {"basic"}, {"header", "token"}, {"basic", "query", "token"}},
        of \in {"good", "bad", "nothing"}, body \in {"good", "bad", "garbage"},
        method \in {"GET", "POST"}, age \in {0, 2}}

MCChainInputs == {[plugins |-> plugins, request |-> request] : plugins \in PluginSets, request \in Requests}

-----------------------------------------------------------------------------
(* Configuration: every field that matters, in the file and in the environment. *)

MCDefaults ==
    [f \in {"log.level", "redis.password", "admin.listen", "status.listen", "proxy.listen",
            "worker.enabled", "role", "secret.providers"} |->
        CASE f = "log.level" -> "info" [] f \in {"admin.listen", "status.listen", "proxy.listen"} -> "default"
          [] f = "worker.enabled" -> "true" [] f = "role" -> "standalone"
          [] f = "secret.providers" -> "@default" [] OTHER -> ""]

MCSecrets ==
    [s \in {<<"aws", "app", 1>>, <<"aws", "app", 2>>} |->
        IF s[3] = 1 THEN [whole |-> "one", level |-> "'debug'", map |-> "a: b", null |-> "~", bad |-> "a: b: c"]
                    ELSE [whole |-> "two", level |-> "~"]]

MCYAML(text) ==
    CASE text = "'debug'" -> [kind |-> "scalar", text |-> "debug"]
      [] text = "a: b" -> [kind |-> "tree"]
      [] text = "~" -> [kind |-> "null"]
      [] text = "a: b: c" -> [kind |-> "none"]
      [] OTHER -> [kind |-> "scalar", text |-> text]

Nothing == [f \in DOMAIN MCDefaults |-> Absent]

MCConfigurationInputs ==
    {[yaml |-> [Nothing EXCEPT !["redis.password"] = py, !["role"] = ry, !["secret.providers"] = sy,
                               !["log.level"] = ly, !["admin.listen"] = ay],
      env |-> [Nothing EXCEPT !["redis.password"] = pe, !["role"] = re, !["secret.providers"] = se,
                              !["worker.enabled"] = we],
      licensed |-> licensed, ttl |-> ttl] :
        py \in {Absent, Text("p"), Ref("aws", "app", 1, "map"), Ref("aws", "app", 1, "null"),
                Ref("aws", "app", 1, "bad")},
        pe \in {Absent, Text("p"), Ref("aws", "app", 1, "null"), Ref("aws", "app", 2, "whole"),
                Ref("vault", "app", 1, "whole")},
        ry \in {Absent, Text("cp"), Text("dp_proxy")}, re \in {Absent, Text("dp_worker"), Text("other")},
        sy, se \in {Absent, Text("aws"), Text("")},
        ly \in {Absent, Ref("aws", "app", 1, "level"), Ref("aws", "app", 2, "level")},
        ay \in {Absent, Text("off"), Text("")}, we \in {Absent, Text("false"), Text("maybe")},
        licensed, ttl \in BOOLEAN}
=============================================================================
