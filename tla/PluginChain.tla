---------------------------- MODULE PluginChain ----------------------------
(***************************************************************************)
(* Plugins: how the iterator indexes and sorts them, what each of them     *)
(* does to a request, and the chains that the gateway runs before it       *)
(* ingests an event and the worker before it delivers one.                 *)
(*                                                                         *)
(* A plugin is [name, enabled, onSource, onEndpoint, config].  A request   *)
(* holds what it proves (the credentials it shows, the body its signature  *)
(* is for, the age of its timestamp) and its body.                         *)
(***************************************************************************)
EXTENDS Integers, Sequences, FiniteSets, Sorting

CONSTANTS
    WellFormed(_),      \* the body is JSON, and an event
    Conforms(_)         \* the body conforms to the schema of event-validation

Inbound == {"basic-auth", "key-auth", "hmac-auth", "connect-auth", "event-validation", "function"}
Outbound == {"wasm", "webhookx-signature"}

Priority(name) ==
    CASE name = "basic-auth" -> 109 [] name = "key-auth" -> 108 [] name = "hmac-auth" -> 107
      [] name = "connect-auth" -> 106 [] name = "event-validation" -> 90 [] name = "function" -> 80
      [] name = "wasm" -> -90 [] name = "webhookx-signature" -> -100

\* Plugin.Validate: a plugin has the side that its type needs.  It may have both.
ValidPlugin(p) ==
    /\ p.name \in Inbound \cup Outbound
    /\ p.name \in Inbound => p.onSource
    /\ p.name \in Outbound => p.onEndpoint

-----------------------------------------------------------------------------
(* The iterator *)

\* Mutant: the lowest priority first.
SortKeyLowFirst(p) == Priority(p.name)

\* sort: the highest priority first.  Names are unique on a source and on an
\* endpoint, and so are priorities.
SortKey(p) == -Priority(p.name)

\* LoadPlugins: enabled plugins, on the side or sides they are attached to.
Loaded(plugins, phase) ==
    {p \in plugins : p.enabled /\ IF phase = "inbound" THEN p.onSource ELSE p.onEndpoint}

Chain(plugins, phase) ==
    Sorted(Loaded(plugins, phase), [p \in Loaded(plugins, phase) |-> SortKey(p)])

-----------------------------------------------------------------------------
(* What a plugin does to the context of a request *)

Reject(c) == [c EXCEPT !.outcome = "rejected"]
Err(c) == [c EXCEPT !.outcome = "error"]
Panic(c) == [c EXCEPT !.outcome = "panic"]

BasicAuth(c, p) == IF c.credentials["basic"] = p.config.secret THEN c ELSE Reject(c)

\* The key may be in the query or in a header, where the plugin looks for it.
KeyAuth(c, p) ==
    IF \E at \in p.config.locations : c.credentials[at] = p.config.secret THEN c ELSE Reject(c)

\* The signature is the one of the body at this point of the chain.
HmacAuth(c, p) ==
    IF c.signature = [of |-> c.body, with |-> p.config.secret] THEN c ELSE Reject(c)

\* Verifiers of github, slack, zendesk, stripe and openai: a signature of the body
\* and, where the provider sends a timestamp and a window is set, of its age.
SignedVerifier(c, p) ==
    IF c.signature = [of |-> c.body, with |-> p.config.secret]
       /\ (p.config.window > 0 => c.age <= p.config.window)
    THEN c ELSE Reject(c)

\* Verifier of gitlab, and of okta for an event: a token.
TokenVerifier(c, p) == IF c.credentials["token"] = p.config.secret THEN c ELSE Reject(c)

\* okta answers a challenge and ends the request.
OktaVerifier(c, p) ==
    IF c.method = "GET" THEN [c EXCEPT !.outcome = "answered"] ELSE TokenVerifier(c, p)

ConnectAuth(c, p) ==
    CASE p.config.provider = "signed" -> SignedVerifier(c, p)
      [] p.config.provider = "gitlab" -> TokenVerifier(c, p)
      [] p.config.provider = "okta" -> OktaVerifier(c, p)
      [] OTHER -> Err(c)

\* There may be no schema for the event, and NewValidator may refuse the schema.
EventValidation(c, p) ==
    IF ~WellFormed(c.body) THEN Err(c)
    ELSE CASE p.config.schema = "none" -> c
           [] p.config.schema = "broken" -> Err(c)
           [] OTHER -> IF Conforms(c.body) THEN c ELSE Reject(c)

\* The script may set the body, answer the request (response.exit), or throw.
Function(c, p) ==
    CASE p.config.effect = "throw" -> Err(c)
      [] p.config.effect = "exit" -> [c EXCEPT !.outcome = "answered"]
      [] OTHER -> [c EXCEPT !.body = p.config.script[@]]

\* transform may set the body and the headers of the request, or fail.
Wasm(c, p) ==
    IF p.config.effect = "throw" THEN Err(c) ELSE [c EXCEPT !.body = p.config.script[@]]

Signature(c, p) == [c EXCEPT !.signature = [of |-> c.body, with |-> p.config.secret]]

\* BasePlugin: a plugin does not implement the other side.
Execute(c, p, phase) ==
    IF p.name \notin (IF phase = "inbound" THEN Inbound ELSE Outbound) THEN Panic(c)
    ELSE CASE p.name = "basic-auth" -> BasicAuth(c, p)
           [] p.name = "key-auth" -> KeyAuth(c, p)
           [] p.name = "hmac-auth" -> HmacAuth(c, p)
           [] p.name = "connect-auth" -> ConnectAuth(c, p)
           [] p.name = "event-validation" -> EventValidation(c, p)
           [] p.name = "function" -> Function(c, p)
           [] p.name = "wasm" -> Wasm(c, p)
           [] p.name = "webhookx-signature" -> Signature(c, p)

\* A chain stops at an error and at a plugin that answers the request.
Advance(c, p, phase) == IF c.outcome = "open" THEN Execute(c, p, phase) ELSE c

\* The context after each plugin of a chain.
Contexts(c, chain, phase) ==
    LET x[k \in 0 .. Len(chain)] ==
            IF k = 0 THEN [c EXCEPT !.outcome = "open"] ELSE Advance(x[k - 1], chain[k], phase)
    IN  x

Run(c, plugins, phase) ==
    LET end(chain) == Contexts(c, chain, phase)[Len(chain)]
    IN  end(Chain(plugins, phase))

\* handleRequest of the gateway: the body that the chain leaves is ingested.
Ingest(req, plugins) ==
    LET c == Run(req, plugins, "inbound")
    IN  CASE c.outcome # "open" -> c
          [] c.outcome = "open" /\ ~WellFormed(c.body) -> Reject(c)
          [] OTHER -> [c EXCEPT !.outcome = "ingested"]

\* handleTask of the worker: the body that the chain leaves is sent.
Deliver(req, plugins) ==
    LET c == Run(req, plugins, "outbound")
    IN  IF c.outcome = "open" THEN [c EXCEPT !.outcome = "sent"] ELSE c

-----------------------------------------------------------------------------
(* Properties of an input: plugins, and a request *)

\* Plugins of one source and one endpoint, and a request with what it proves.
IsChain(in) ==
    /\ IsFiniteSet(in.plugins)
    /\ \A p \in in.plugins : ValidPlugin(p) /\ {p.enabled, p.onSource, p.onEndpoint} \subseteq BOOLEAN
    /\ \A p, q \in in.plugins : p.name = q.name => p = q
    /\ DOMAIN in.request = {"credentials", "signature", "body", "method", "age", "outcome"}

Named(plugins, name) == {p \in plugins : p.enabled /\ p.name = name}

\* What an authentication plugin asks of a request as it was received.
Authentic(req, p) ==
    CASE p.name = "basic-auth" -> req.credentials["basic"] = p.config.secret
      [] p.name = "key-auth" -> \E at \in p.config.locations : req.credentials[at] = p.config.secret
      [] p.name = "hmac-auth" -> req.signature = [of |-> req.body, with |-> p.config.secret]
      [] p.name = "connect-auth" ->
            IF p.config.provider = "signed"
            THEN /\ req.signature = [of |-> req.body, with |-> p.config.secret]
                 /\ p.config.window > 0 => req.age <= p.config.window
            ELSE req.credentials["token"] = p.config.secret
      [] p.name = "event-validation" -> p.config.schema = "none" \/ Conforms(req.body)
      [] OTHER -> TRUE

\* An event is ingested only if the request, as it was received, satisfies every
\* authentication plugin and the schema, and what is ingested is what the function
\* makes of it; a delivery is signed for the body that is sent, which is what wasm
\* makes of the event.  A chain panics only at a plugin attached on both sides.
ChainGuards(in) ==
    LET i == Ingest(in.request, in.plugins)
        o == Deliver(in.request, in.plugins)
        made(name, body) ==
            LET ps == Named(in.plugins, name)
            IN  IF ps = {} THEN body ELSE (CHOOSE p \in ps : TRUE).config.script[body]
    IN  /\ i.outcome = "ingested" =>
              /\ \A p \in {q \in in.plugins : q.enabled} : Authentic(in.request, p)
              /\ i.body = made("function", in.request.body)
        /\ o.outcome = "sent" =>
              /\ o.body = made("wasm", in.request.body)
              /\ \A p \in Named(in.plugins, "webhookx-signature") :
                    o.signature = [of |-> o.body, with |-> p.config.secret]
        /\ "panic" \in {i.outcome, o.outcome} =>
              \E p \in in.plugins : p.enabled /\ p.onSource /\ p.onEndpoint
=============================================================================
