--------------------------- MODULE Configuration ---------------------------
(***************************************************************************)
(* The configuration of a node: defaults, the YAML file and the            *)
(* environment, references to secrets in both, what the role of the node   *)
(* makes of it, and the services that the application then has.            *)
(*                                                                         *)
(* A source gives a field nothing, a text, or a reference                  *)
(* {secret://provider/name.path?version}.                                  *)
(***************************************************************************)
EXTENDS Integers, Sequences, FiniteSets, SequencesExt

CONSTANTS
    Defaults,           \* field -> its default
    Secrets,            \* <<provider, name, version>> -> path -> text
    YAML(_)             \* what the YAML parser finds in a text, by its kind: a "scalar" and
                        \* its text, "null", a "tree" (a mapping or a sequence), or nothing

ASSUME DefaultsAssumption ==
    Defaults = [f \in {"log.level", "redis.password", "admin.listen", "status.listen",
                       "proxy.listen", "worker.enabled", "role", "secret.providers"} |-> Defaults[f]]

Absent == [kind |-> "absent"]
Text(t) == [kind |-> "text", text |-> t]
Ref(provider, name, version, path) ==
    [kind |-> "ref", provider |-> provider, name |-> name, version |-> version, path |-> path]

\* A reference that nobody resolves is a text like others.
Unresolved == "{secret://}"

\* Fields in the order in which they are read.
Fields == <<"log.level", "redis.password", "admin.listen", "status.listen", "proxy.listen",
            "worker.enabled", "role", "secret.providers">>

-----------------------------------------------------------------------------
(* Secrets *)

\* GetProviders
Providers(text) ==
    CASE text = "" -> {} [] text = "@default" -> {"aws", "vault"} [] OTHER -> {text}

\* NewManagerFromConfig: a provider without a name it knows is none.
Manager(text) == Providers(text) \cap {"aws", "vault"}

\* referenceKey
CacheKey(ref) == <<ref.provider, ref.name>>

Fail(s) == [s EXCEPT !.failed = TRUE]

Keep(s, ref, value) ==
    IF s.ttl THEN [s EXCEPT !.cache = [k \in DOMAIN @ \cup {CacheKey(ref)} |->
                                          IF k = CacheKey(ref) THEN value ELSE @[k]]]
             ELSE s

\* ResolveReference: the value comes from the cache or from the provider, and the
\* path selects a part of it.  Sets text.
ResolveReference(s, ref) ==
    LET cached == s.ttl /\ CacheKey(ref) \in DOMAIN s.cache
        secret == <<ref.provider, ref.name, ref.version>>
        found == ref.provider \in s.manager /\ secret \in DOMAIN Secrets
        value == IF cached THEN s.cache[CacheKey(ref)] ELSE Secrets[secret]
    IN  IF ~cached /\ ~found THEN Fail(s)
        ELSE IF ref.path \notin DOMAIN value THEN Fail(s)
        ELSE [(IF cached THEN s ELSE Keep(s, ref, value)) EXCEPT !.text = value[ref.path]]

-----------------------------------------------------------------------------
(* Loading *)

\* A text is read into the type of its field.
Parses(field, text) == field = "worker.enabled" => text \in {"true", "false"}

\* rewriteScalarNode: the text of a secret is itself read as YAML.  A scalar is put
\* in without its quotes and comments, null leaves the field alone, a mapping or a
\* sequence leaves the reference, and what is no YAML at all is put in as it is.
RewriteScalarNode(text) ==
    CASE YAML(text).kind = "scalar" -> Text(YAML(text).text)
      [] YAML(text).kind = "null" -> Absent
      [] YAML(text).kind = "tree" -> Text(Unresolved)
      [] OTHER -> Text(text)

\* Nothing leaves the field alone; a reference is resolved if there is a manager,
\* and in the file what it stands for is rewritten.
Assign(s, field, value, file) ==
    LET resolving == value.kind = "ref" /\ s.manager # {}
        r == IF resolving THEN ResolveReference(s, value) ELSE s
        v == CASE resolving /\ file -> RewriteScalarNode(r.text)
               [] resolving /\ ~file -> Text(r.text)
               [] value.kind = "ref" /\ ~resolving -> Text(Unresolved)
               [] OTHER -> value
    IN  IF s.failed THEN s
        ELSE IF r.failed \/ v.kind = "absent" THEN r
        ELSE IF ~Parses(field, v.text) THEN Fail(r)
        ELSE [r EXCEPT !.cfg[field] = v.text]

\* What is loaded after each field that a source is asked for.
Assigned(s, source, fields, file) ==
    LET x[k \in 0 .. Len(fields)] ==
            IF k = 0 THEN s ELSE Assign(x[k - 1], fields[k], source[fields[k]], file)
    IN  x

\* The YAML provider, and the provider of environment variables.
LoadYAML(s, yaml, fields) == Assigned(s, yaml, fields, TRUE)[Len(fields)]

LoadEnv(s, env, fields) == Assigned(s, env, fields, FALSE)[Len(fields)]

\* Mutant: the file is read after the environment.
LoadFileLast(s, in, fields) == LoadYAML(LoadEnv(s, in.env, fields), in.yaml, fields)

\* Loader.load: the environment has the last word.
LoadModule(s, in, fields) == LoadEnv(LoadYAML(s, in.yaml, fields), in.env, fields)

\* PostProcess: a role switches off what is not its own.
PostProcess(cfg) ==
    CASE cfg["role"] = "cp" ->
            [cfg EXCEPT !["admin.listen"] = IF @ = "" THEN "default" ELSE @,
                        !["proxy.listen"] = "", !["worker.enabled"] = "false"]
      [] cfg["role"] = "dp_proxy" ->
            [cfg EXCEPT !["proxy.listen"] = IF @ = "" THEN "default" ELSE @,
                        !["admin.listen"] = "", !["worker.enabled"] = "false"]
      [] cfg["role"] = "dp_worker" ->
            [cfg EXCEPT !["admin.listen"] = "", !["proxy.listen"] = "", !["worker.enabled"] = "true"]
      [] OTHER -> cfg

\* Validate
Valid(cfg) ==
    /\ cfg["log.level"] \in {"debug", "info", "warn", "error"}
    /\ cfg["role"] \in {"standalone", "cp", "dp_worker", "dp_proxy"}
    /\ Providers(cfg["secret.providers"]) \subseteq {"aws", "vault"}

\* Loader.Load: the secrets first, for the references of everything else; then the
\* log, for the logger of the secret manager.
LoadConfiguration(in) ==
    LET start == [cfg |-> Defaults, cache |-> [k \in {} |-> ""], manager |-> {}, text |-> "",
                  ttl |-> in.ttl, failed |-> FALSE]
        secrets(s) == IF in.licensed THEN LoadModule(s, in, <<"secret.providers">>) ELSE s
        log(s) == IF in.licensed /\ Providers(s.cfg["secret.providers"]) # {}
                  THEN LoadModule([s EXCEPT !.manager = Manager(s.cfg["secret.providers"])],
                                  in, <<"log.level">>)
                  ELSE s
        rest(s) == LoadModule(s, in, Fields)
        checked(cfg, failed) == [cfg |-> cfg, ok |-> ~failed /\ Valid(cfg)]
        loaded(s) == checked(PostProcess(s.cfg), s.failed)
    IN  loaded(rest(log(secrets(start))))

-----------------------------------------------------------------------------
(* The application *)

Enabled(listen) == listen \notin {"", "off"}

\* initWorker, initAdmin, initGateway, initStatus
Services(cfg) ==
    {s \in {"admin", "proxy", "status", "worker"} :
        \/ s = "worker" /\ cfg["worker.enabled"] = "true"
        \/ s = "admin" /\ Enabled(cfg["admin.listen"])
        \/ s = "proxy" /\ Enabled(cfg["proxy.listen"])
        \/ s = "status" /\ Enabled(cfg["status.listen"])}

\* The task service that worker and gateway share, and the iterator of plugins.
HasTaskService(cfg) == cfg["worker.enabled"] = "true" \/ Enabled(cfg["proxy.listen"])

HasPlugins(cfg) == {"worker", "proxy"} \cap Services(cfg) # {}

\* The second level of the cache.
HasL2(cfg) == cfg["role"] # "cp"

-----------------------------------------------------------------------------
(* Properties of an input: yaml, env, licensed and ttl *)

\* A license and a cache of secrets are there or not.
IsConfiguration(in) == {in.licensed, in.ttl} \subseteq BOOLEAN

Given(in, f) == IF in.env[f].kind # "absent" THEN in.env[f] ELSE in.yaml[f]

Refs(in) ==
    {v \in {in.yaml[f] : f \in ToSet(Fields)} \cup {in.env[f] : f \in ToSet(Fields)} : v.kind = "ref"}

FromFile(in, f) == in.env[f].kind = "absent"

\* What a value stands for, each reference by itself.
Meaning(v, file, resolving) ==
    LET secret == Secrets[<<v.provider, v.name, v.version>>][v.path]
    IN  CASE v.kind = "ref" /\ resolving /\ file -> RewriteScalarNode(secret)
          [] v.kind = "ref" /\ resolving /\ ~file -> Text(secret)
          [] v.kind = "ref" /\ ~resolving -> Text(Unresolved)
          [] OTHER -> v

\* The value of a field.
Expected(in, f, resolving) ==
    LET m == Meaning(Given(in, f), FromFile(in, f), resolving)
    IN  IF m.kind = "absent" THEN Defaults[f] ELSE m.text

\* Another reference asks for the same name with other parameters: the cache of
\* secrets does not tell them apart.
Confused(in, f) ==
    /\ in.ttl /\ Given(in, f).kind = "ref"
    /\ \E r \in Refs(in) : CacheKey(r) = CacheKey(Given(in, f)) /\ r.version # Given(in, f).version

\* What is switched by the role.
Switched == {"admin.listen", "proxy.listen", "worker.enabled"}

\* A configuration that is accepted has for every field what the environment says,
\* else the file, else its default, with references resolved if the license and
\* the providers allow it, wherever the providers are configured; only a reference
\* to a name that is also used with other parameters may have their value.  A
\* secret that the file refers to is put in as YAML reads it: one that is a mapping
\* leaves the reference in place, one that is null the default.  A node of a role
\* serves its role, and what it serves has what it needs.
EffectiveConfiguration(in) ==
    LET resolving == in.licensed /\ Manager(Expected(in, "secret.providers", FALSE)) # {}
        effective(cfg) ==
            /\ \A f \in ToSet(Fields) \ (IF cfg["role"] = "standalone" THEN {} ELSE Switched) :
                  cfg[f] = Expected(in, f, resolving) \/ Confused(in, f)
            /\ CASE cfg["role"] = "cp" -> {"proxy", "worker"} \cap Services(cfg) = {}
                 [] cfg["role"] = "dp_proxy" -> {"admin", "worker"} \cap Services(cfg) = {}
                 [] cfg["role"] = "dp_worker" ->
                       "worker" \in Services(cfg) /\ {"admin", "proxy"} \cap Services(cfg) = {}
                 [] OTHER -> TRUE
            /\ {"worker", "proxy"} \cap Services(cfg) # {} =>
                  HasTaskService(cfg) /\ HasPlugins(cfg) /\ HasL2(cfg)
        met(r) == r.ok => effective(r.cfg)
    IN  met(LoadConfiguration(in))
=============================================================================
