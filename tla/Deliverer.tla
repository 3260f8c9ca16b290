----------------------------- MODULE Deliverer -----------------------------
(***************************************************************************)
(* The HTTP deliverer of the worker: the rules of its ACL, the dial        *)
(* function that they restrict, requests that are redirected and           *)
(* connections that are kept for the next ones, and the result of an       *)
(* attempt.                                                                *)
(*                                                                         *)
(* An address is [net, host, form]: a network, a host of it, and how it is *)
(* written: "plain", as an IPv4 address in IPv6 ("mapped", ::ffff:a.b.c.d) *)
(* or with an IPv6 zone ("zoned").  So is a rule.  A name is a             *)
(* sequence of labels, each a text and its letter case.                    *)
(***************************************************************************)
EXTENDS Integers, Sequences, FiniteSets, SequencesExt

Alias(name) == [kind |-> "alias", name |-> name]
CIDR(net, form) == [kind |-> "cidr", net |-> net, form |-> form]
IP(net, host, form) == [kind |-> "ip", net |-> net, host |-> host, form |-> form]
Domain(labels, wildcard) == [kind |-> "domain", labels |-> labels, wildcard |-> wildcard]

\* Networks of a preset stand for its blocks.
Presets ==
    [private |-> {CIDR("private", "plain")}, loopback |-> {CIDR("loopback", "plain")},
     linklocal |-> {CIDR("linklocal", "plain")}, reserved |-> {CIDR("reserved", "plain")},
     default |-> {Alias("private"), Alias("loopback"), Alias("linklocal"), Alias("reserved")}]

Expand(rules) ==
    UNION {IF r.kind = "alias" THEN Presets[r.name] ELSE {r} : r \in rules}

\* Presets are two levels deep.
ResolveAlias(rules) == Expand(Expand(rules))

\* NewACL
ACL(rules) ==
    LET resolved == ResolveAlias(rules)
        of(kind) == {r \in resolved : r.kind = kind}
    IN  [ip |-> of("ip"), cidr |-> of("cidr"), domain |-> of("domain")]

Lower(labels) == [i \in DOMAIN labels |-> labels[i].text]

\* Domain.Match: a wildcard stands for at least one label.
Match(d, name) ==
    IF d.wildcard THEN IsStrictSuffix(Lower(d.labels), Lower(name))
                  ELSE Lower(d.labels) = Lower(name)

AllowHost(acl, name) == \A d \in acl.domain : ~Match(d, name)

Forms == {"plain", "mapped", "zoned"}

Unmap(addr) == [addr EXCEPT !.form = IF @ = "mapped" THEN "plain" ELSE @]

\* netip compares forms as well, and a prefix contains no address with a zone.
\* External: net/netip.
SameIP(r, addr) == r.net = addr.net /\ r.host = addr.host /\ r.form = addr.form
Covers(r, addr) == r.net = addr.net /\ r.form = addr.form /\ addr.form # "zoned"

\* Mutant: the address is compared as it is written.
AllowIPAsWritten(acl, addr) ==
    /\ \A r \in acl.ip : ~SameIP(r, addr)
    /\ \A r \in acl.cidr : ~Covers(r, addr)

\* The address is unmapped, the rules are not.
AllowIP(acl, addr) ==
    LET a == Unmap(addr)
    IN  /\ \A r \in acl.ip : ~SameIP(r, a)
        /\ \A r \in acl.cidr : ~Covers(r, a)

-----------------------------------------------------------------------------
(* Connections *)

Refused == [denied |-> TRUE, to |-> <<>>]
Failed == [denied |-> FALSE, to |-> <<>>]
Connected(addr) == [denied |-> FALSE, to |-> <<addr>>]

\* restrictedDialFunc: the first address that is allowed is dialled, no other.
RestrictedDial(acl, hop) ==
    LET allowed == {i \in DOMAIN hop.answers : AllowIP(acl, hop.answers[i])}
    IN  IF ~AllowHost(acl, hop.name) THEN Refused
        ELSE IF hop.answers = <<>> THEN Failed
        ELSE IF allowed = {} THEN Refused
        ELSE Connected(hop.answers[CHOOSE i \in allowed : \A j \in allowed : i <= j])

\* The default one, for a client without an ACL; through a proxy, the address is
\* the proxy's business.
Dial(hop) == IF hop.answers = <<>> THEN Failed ELSE Connected(hop.answers[1])

\* Setup: the ACL is not applied when there is a proxy.
DialContext(setup, hop) ==
    IF setup.acl /\ ~setup.proxy THEN RestrictedDial(ACL(setup.rules), hop) ELSE Dial(hop)

\* The transport takes an idle connection to the host, or dials.  External: net/http.
Connect(setup, idle, hop) ==
    IF hop.name \in DOMAIN idle THEN Connected(idle[hop.name]) ELSE DialContext(setup, hop)

-----------------------------------------------------------------------------
(* Requests *)

\* What a hop answers: "redirect", a status, "reset", "timeout", or a status
\* and then no body ("nobody").
Status(reply) == CASE reply = "ok" -> 200 [] reply = "nobody" -> 200 [] reply = "error" -> 500 [] OTHER -> 0

Error(reply) ==
    CASE reply = "timeout" -> "timeout" [] reply \in {"reset", "nobody"} -> "other" [] OTHER -> "none"

\* A request that was not sent yet.  idle: host -> the address of a connection to it.
Request(idle) ==
    [over |-> FALSE, used |-> <<>>, idle |-> idle, status |-> 0, error |-> "none", denied |-> FALSE]

\* A connection is kept when the response was read to its end.  External: net/http.
Keeping(idle, hop, addr) ==
    IF hop.reply \in {"ok", "error", "redirect"}
    THEN [n \in DOMAIN idle \cup {hop.name} |-> IF n = hop.name THEN addr ELSE idle[n]]
    ELSE [n \in DOMAIN idle \ {hop.name} |-> idle[n]]

\* One hop of Client.Do.
TakeHop(setup, s, hop) ==
    LET c == Connect(setup, s.idle, hop)
    IN  IF s.over THEN s
        ELSE IF c.to = <<>> THEN [s EXCEPT !.over = TRUE, !.error = "other", !.denied = c.denied]
        ELSE [s EXCEPT !.over = hop.reply # "redirect",
                       !.used = Append(@, c.to[1]), !.idle = Keeping(@, hop, c.to[1]),
                       !.status = Status(hop.reply), !.error = Error(hop.reply)]

\* Client.Do: the request after each of its hops, the first and those that redirects
\* lead to.  Keeps the connections that it has made, in order, and the idle ones.
Hops(setup, idle, hops) ==
    LET s[k \in 0 .. Len(hops)] ==
            IF k = 0 THEN Request(idle) ELSE TakeHop(setup, s[k - 1], hops[k])
    IN  s

Send(setup, idle, hops) == Hops(setup, idle, hops)[Len(hops)]

Is2xx(res) == res.status \in 200 .. 299

\* buildAttemptResult
AttemptResult(res) ==
    [status |-> IF Is2xx(res) THEN "success" ELSE "failure",
     code |-> CASE res.error = "none" -> "none"
                [] res.error = "timeout" -> "timeout"
                [] res.error = "other" /\ res.denied -> "denied"
                [] OTHER -> "unknown"]

\* handleTask: a denied attempt is the last one.
Exhausted(res, last) == last \/ res.denied

-----------------------------------------------------------------------------
(* Properties of an input: setup, and two requests on one client *)

IsAddress(a) == a = [net |-> a.net, host |-> a.host, form |-> a.form] /\ a.form \in Forms

\* A request has a hop, and another one after a redirect only.
IsRequest(hops) ==
    /\ hops \in Seq(ToSet(hops)) /\ hops # <<>>
    /\ \A i \in 1 .. Len(hops) - 1 : hops[i].reply = "redirect"
    /\ \A i \in DOMAIN hops :
          LET answers == hops[i].answers
          IN  answers \in Seq(ToSet(answers)) /\ \A j \in DOMAIN answers : IsAddress(answers[j])

IsDelivery(in) ==
    in.setup.acl \in BOOLEAN /\ in.setup.proxy \in BOOLEAN /\ IsRequest(in.first) /\ IsRequest(in.second)

\* What the rules name: an IPv4 address in both of its forms, and an address with a
\* zone only when a rule has the zone, too.  A rule that is written as mapped names
\* nothing.
Forbidden(rules, addr) ==
    \E r \in ResolveAlias(rules) :
        \/ r.kind = "cidr" /\ r.net = addr.net /\ r.form = "plain" /\ addr.form # "zoned"
        \/ /\ r.kind = "ip" /\ r.net = addr.net /\ r.host = addr.host
           /\ r.form = IF addr.form = "zoned" THEN "zoned" ELSE "plain"

NamedBy(rules, name) ==
    \E d \in ResolveAlias(rules) : d.kind = "domain" /\ Match(d, name)

\* With an ACL and no proxy every request of a client, the ones it is redirected to
\* and the ones on a connection that was kept included, goes to addresses that the
\* rules do not forbid.  An attempt is denied, and not retried, exactly when a
\* hop of it has only such addresses or such a name and no connection was kept.
RulesHold(in) ==
    LET one == Send(in.setup, [n \in {} |-> <<>>], in.first)
        two == Send(in.setup, one.idle, in.second)
        restricted == in.setup.acl /\ ~in.setup.proxy
        reached == Len(two.used)
        hop == in.second[reached + 1]
        result == AttemptResult(two)
    IN  /\ restricted => \A s \in {one, two} : \A i \in DOMAIN s.used : ~Forbidden(in.setup.rules, s.used[i])
        /\ result.code = "denied" <=>
              /\ restricted /\ reached < Len(in.second)
              /\ reached > 0 => in.second[reached].reply = "redirect"
              /\ hop.name \notin DOMAIN two.idle
              /\ \/ NamedBy(in.setup.rules, hop.name)
                 \/ /\ hop.answers # <<>>
                    /\ \A i \in DOMAIN hop.answers : Forbidden(in.setup.rules, hop.answers[i])
        /\ result.code = "denied" => result.status = "failure" /\ Exhausted(two, FALSE)
        /\ result.status = "success" <=> reached = Len(in.second) /\ Status(Last(in.second).reply) = 200
=============================================================================
