-------------------------- MODULE ComponentProofs ---------------------------
(***************************************************************************)
(* Theorems about components that stand by themselves: the algorithms, for *)
(* all their inputs, the registry of endpoints, for any number of callers, *)
(* updates and faults, and the Redis task queue, for any tasks, clients,   *)
(* batch size and visibility timeout.                                      *)
(***************************************************************************)
EXTENDS Algorithms, Registry, TaskQueue, FiniteSetTheorems, SequenceTheorems, WellFoundedInduction, TLAPS

-----------------------------------------------------------------------------
(* Induction *)

\* A set of natural numbers has a least one.
LEMMA LeastNumber ==
  ASSUME NEW T, T \subseteq Nat, T # {}
  PROVE  \E x \in T : \A y \in T : x <= y
  <1> DEFINE R == {p \in Nat \X Nat : p[1] < p[2]}
  <1>1. IsWellFoundedOn(R, Nat)
    BY NatLessThanWellFounded DEF OpToRel
  <1>2. PICK x \in T : \A y \in T : <<y, x>> \notin R
    <2> HIDE DEF R
    <2> QED
      BY <1>1, WFMin, Zenon
  <1>3. ASSUME NEW y \in T, ~(x <= y)
        PROVE  FALSE
    <2>1. x \in Nat /\ y \in Nat /\ y < x
      BY <1>3
    <2>2. <<y, x>> \in R
      BY <2>1
    <2> QED
      BY <1>2, <2>2
  <1> QED
    BY <1>3

\* Induction over the numbers up to n, with a set for the predicate: the least number
\* outside of it would have a predecessor inside.
LEMMA InductionUpTo ==
  ASSUME NEW n \in Nat, NEW S, 0 \in S, \A k \in 0 .. n - 1 : k \in S => k + 1 \in S
  PROVE  \A k \in 0 .. n : k \in S
  <1> DEFINE T == {k \in 0 .. n : k \notin S}
  <1> SUFFICES ASSUME T # {} PROVE FALSE
    OBVIOUS
  <1>1. PICK x \in T : \A y \in T : x <= y
    <2>1. T \subseteq Nat
      OBVIOUS
    <2> HIDE DEF T
    <2> QED
      BY <2>1, LeastNumber, Zenon
  <1>2. x \in 1 .. n /\ x \notin S
    OBVIOUS
  <1>3. x - 1 \in 0 .. n - 1 /\ ~(x <= x - 1)
    BY <1>2
  <1>4. x - 1 \in S
    <2>1. x - 1 \notin T
      BY <1>1, <1>3
    <2> QED
      BY <2>1, <1>3
  <1> QED
    BY <1>2, <1>3, <1>4

-----------------------------------------------------------------------------
(* Sorting *)

\* A non-empty finite set has an element with the greatest key.
LEMMA GreatestKey ==
  ASSUME NEW S, IsFiniteSet(S), S # {}, NEW key \in [S -> Int]
  PROVE  \E x \in S : \A y \in S : key[y] <= key[x]
  <1> DEFINE n == Cardinality(S)
             Has(T) == T # {} => \E x \in T : \A y \in T : key[y] <= key[x]
             C == {k \in 0 .. n : \A T \in SUBSET S : Cardinality(T) = k => Has(T)}
  <1>1. n \in Nat
    BY FS_CardinalityType
  <1>2. 0 \in C
    <2>1. \A T \in SUBSET S : Cardinality(T) = 0 => T = {}
      BY FS_EmptySet, FS_Subset
    <2> QED
      BY <1>1, <2>1
  <1>3. ASSUME NEW k \in 0 .. n - 1, k \in C
        PROVE  k + 1 \in C
    <2> SUFFICES ASSUME NEW T \in SUBSET S, Cardinality(T) = k + 1
                 PROVE  Has(T)
      BY <1>1
    <2>1. IsFiniteSet(T)
      BY FS_Subset
    <2>2. PICK z \in T : TRUE
      BY <2>1, FS_EmptySet
    <2> DEFINE U == T \ {z}
    <2>3. U \in SUBSET S /\ Cardinality(U) = k
      <3>1. Cardinality(U) = Cardinality(T) - 1
        BY <2>1, <2>2, FS_RemoveElement
      <3>2. k + 1 - 1 = k
        OBVIOUS
      <3> QED
        BY <3>1, <3>2
    <2>4. Has(U)
      BY <1>3, <2>3
    <2>5. CASE U = {}
      <3>1. T = {z} /\ key[z] \in Int
        BY <2>2, <2>5
      <3> QED
        BY <3>1
    <2>6. CASE U # {}
      <3>1. PICK x \in U : \A y \in U : key[y] <= key[x]
        BY <2>4, <2>6
      <3>2. key[x] \in Int /\ key[z] \in Int /\ x \in T /\ z \in T
        BY <2>2
      <3>3. \A y \in T : y \in U \/ y = z
        OBVIOUS
      <3>4. CASE key[z] <= key[x]
        BY <3>1, <3>2, <3>3, <3>4
      <3>5. CASE key[x] < key[z]
        <4>1. \A y \in T : key[y] <= key[z]
          <5> SUFFICES ASSUME NEW y \in T PROVE key[y] <= key[z]
            OBVIOUS
          <5>1. key[y] \in Int
            OBVIOUS
          <5> QED
            BY <3>1, <3>2, <3>3, <3>5, <5>1
        <4> QED
          BY <3>2, <4>1
      <3> QED
        BY <3>2, <3>4, <3>5
    <2> QED
      BY <2>5, <2>6
  <1>4. n \in C
    <2>1. n \in 0 .. n
      BY <1>1
    <2> HIDE DEF n, C
    <2> QED
      BY <1>1, <1>2, <1>3, <2>1, InductionUpTo
  <1> QED
    BY <1>4

\* A finite set with keys of its own has its order.
LEMMA OrderExists ==
  ASSUME NEW S, IsFiniteSet(S), NEW key \in [S -> Int],
         \A x, y \in S : key[x] = key[y] => x = y
  PROVE  \E seq \in [1 .. Cardinality(S) -> S] : InOrder(seq, key)
  <1> DEFINE n == Cardinality(S)
             Has(T, k) == \E seq \in [1 .. k -> T] : InOrder(seq, key)
             C == {k \in 0 .. n : \A T \in SUBSET S : Cardinality(T) = k => Has(T, k)}
  <1>1. n \in Nat
    BY FS_CardinalityType
  <1>2. 0 \in C
    <2>1. ASSUME NEW T PROVE Has(T, 0)
      <3> DEFINE e == [i \in 1 .. 0 |-> i]
      <3>1. e \in [1 .. 0 -> T] /\ InOrder(e, key)
        BY DEF InOrder
      <3> QED
        BY <3>1
    <2> QED
      BY <1>1, <2>1
  <1>3. ASSUME NEW k \in 0 .. n - 1, k \in C
        PROVE  k + 1 \in C
    <2> SUFFICES ASSUME NEW T \in SUBSET S, Cardinality(T) = k + 1
                 PROVE  Has(T, k + 1)
      BY <1>1
    <2>1. IsFiniteSet(T) /\ T # {} /\ k \in Nat
      BY <1>1, FS_Subset, FS_EmptySet
    <2>2. PICK z \in T : \A y \in T : key[y] <= key[z]
      <3> DEFINE f == [x \in T |-> key[x]]
      <3>1. f \in [T -> Int]
        OBVIOUS
      <3>2. \E x \in T : \A y \in T : f[y] <= f[x]
        <4> HIDE DEF f
        <4> QED
          BY <2>1, <3>1, GreatestKey
      <3> QED
        BY <3>2
    <2> DEFINE U == T \ {z}
    <2>3. U \in SUBSET S /\ Cardinality(U) = k
      <3>1. Cardinality(U) = Cardinality(T) - 1
        BY <2>1, FS_RemoveElement
      <3>2. k + 1 - 1 = k
        OBVIOUS
      <3> QED
        BY <3>1, <3>2
    <2>4. PICK seq \in [1 .. k -> U] : InOrder(seq, key)
      BY <1>3, <2>3
    <2>5. \A y \in U : key[y] < key[z]
      <3> SUFFICES ASSUME NEW y \in U PROVE key[y] < key[z]
        OBVIOUS
      <3>1. key[y] \in Int /\ key[z] \in Int /\ key[y] <= key[z] /\ key[y] # key[z]
        BY <2>2
      <3> QED
        BY <3>1
    <2> DEFINE t == [i \in 1 .. k + 1 |-> IF i = k + 1 THEN z ELSE seq[i]]
    <2>6. t \in [1 .. k + 1 -> T]
      BY <2>1
    <2>7. ASSUME NEW i \in 1 .. k + 1, NEW j \in 1 .. k + 1, i < j
          PROVE  key[t[i]] < key[t[j]]
      <3>1. i \in 1 .. k /\ t[i] = seq[i] /\ seq[i] \in U
        BY <2>1, <2>7
      <3>2. CASE j = k + 1
        BY <3>1, <3>2, <2>5
      <3>3. CASE j \in 1 .. k
        BY <3>1, <3>3, <2>4, <2>7 DEF InOrder
      <3> QED
        BY <2>1, <3>2, <3>3
    <2>8. DOMAIN t = 1 .. k + 1
      OBVIOUS
    <2> HIDE DEF t
    <2>9. InOrder(t, key)
      BY <2>7, <2>8 DEF InOrder
    <2> QED
      BY <2>6, <2>9
  <1>4. n \in C
    <2>1. n \in 0 .. n
      BY <1>1
    <2> HIDE DEF n, C
    <2> QED
      BY <1>1, <1>2, <1>3, <2>1, InductionUpTo
  <1> QED
    BY <1>4

\* Sorted gives it: all elements, each once, by their keys.
LEMMA SortedIs ==
  ASSUME NEW S, IsFiniteSet(S), NEW key \in [S -> Int],
         \A x, y \in S : key[x] = key[y] => x = y
  PROVE  /\ Cardinality(S) \in Nat
         /\ Sorted(S, key) \in [1 .. Cardinality(S) -> S]
         /\ InOrder(Sorted(S, key), key)
         /\ \A x \in S : \E i \in 1 .. Cardinality(S) : Sorted(S, key)[i] = x
  <1> DEFINE n == Cardinality(S)
             s == Sorted(S, key)
  <1>1. n \in Nat
    BY FS_CardinalityType
  <1>2. s \in [1 .. n -> S] /\ InOrder(s, key)
    BY OrderExists DEF Sorted
  <1> HIDE DEF s
  <1>3. ASSUME NEW i \in 1 .. n, NEW j \in 1 .. n, s[i] = s[j], i # j
        PROVE  FALSE
    <2>1. key[s[i]] \in Int /\ (i < j \/ j < i)
      BY <1>1, <1>2, <1>3
    <2> QED
      BY <1>2, <1>3, <2>1 DEF InOrder
  <1>4. s \in Injection(1 .. n, S)
    BY <1>2, <1>3 DEF Injection, IsInjective
  <1>5. IsFiniteSet(1 .. n) /\ Cardinality(1 .. n) = n
    BY <1>1, FS_Interval
  <1>6. s \in Surjection(1 .. n, S)
    BY <1>4, <1>5, FS_Injection
  <1> QED
    BY <1>1, <1>2, <1>6 DEF Surjection, s

-----------------------------------------------------------------------------
(* Deliverer *)

\* The recursive definition of Hops has its fixed point: a request after k hops is
\* what hop k makes of it after k - 1.
LEMMA HopsDef ==
  ASSUME NEW setup, NEW idle, NEW hops, Len(hops) \in Nat
  PROVE  LET s == Hops(setup, idle, hops)
         IN  s = [k \in 0 .. Len(hops) |->
                     IF k = 0 THEN Request(idle) ELSE TakeHop(setup, s[k - 1], hops[k])]
  <1> DEFINE n == Len(hops)
             Is(g, m) == g = [k \in 0 .. m |->
                                IF k = 0 THEN Request(idle) ELSE TakeHop(setup, g[k - 1], hops[k])]
             S == {m \in 0 .. n : \E g : Is(g, m)}
  <1>1. 0 \in S
    <2> DEFINE h == [k \in 0 .. 0 |-> Request(idle)]
    <2>1. h = [k \in 0 .. 0 |-> h[k]] /\ \A k \in 0 .. 0 : k = 0 /\ h[k] = Request(idle)
      OBVIOUS
    <2> HIDE DEF h
    <2>2. Is(h, 0)
      BY <2>1
    <2> QED
      BY <2>2
  <1>2. ASSUME NEW m \in 0 .. n - 1, m \in S
        PROVE  m + 1 \in S
    <2>1. PICK g : Is(g, m)
      BY <1>2
    <2> DEFINE h == [k \in 0 .. m + 1 |->
                       IF k = m + 1 THEN TakeHop(setup, g[m], hops[m + 1]) ELSE g[k]]
    <2>2. ASSUME NEW k \in 0 .. m + 1
          PROVE  h[k] = IF k = 0 THEN Request(idle) ELSE TakeHop(setup, h[k - 1], hops[k])
      <3>1. CASE k = m + 1
        BY <3>1
      <3>2. CASE k \in 0 .. m
        BY <3>2, <2>1
      <3> QED
        BY <3>1, <3>2
    <2>3. h = [k \in 0 .. m + 1 |-> h[k]]
      OBVIOUS
    <2> HIDE DEF h
    <2>4. Is(h, m + 1)
      BY <2>2, <2>3
    <2> QED
      BY <2>4
  <1>3. n \in S
    <2>1. \A m \in 0 .. n - 1 : m \in S => m + 1 \in S
      BY <1>2
    <2>2. n \in Nat /\ n \in 0 .. n
      OBVIOUS
    <2> HIDE DEF S, n
    <2> QED
      BY <1>1, <2>1, <2>2, InductionUpTo
  <1>4. \E g : Is(g, n)
    BY <1>3
  <1> QED
    BY <1>4 DEF Hops

-----------------------------------------------------------------------------
\* The ACL applies.
Restricted(setup) == setup.acl /\ ~setup.proxy

\* What AllowIP compares is what the rules name.
LEMMA AllowIPIsForbidden ==
  ASSUME NEW rules, NEW a, IsAddress(a)
  PROVE  AllowIP(ACL(rules), a) <=> ~Forbidden(rules, a)
  <1> DEFINE U == Unmap(a)
             R == ResolveAlias(rules)
  <1>1. /\ U.net = a.net /\ U.host = a.host
        /\ U.form = IF a.form = "zoned" THEN "zoned" ELSE "plain"
    BY DEF Unmap, IsAddress, Forms
  <1>2. AllowIP(ACL(rules), a) <=>
           /\ \A r \in {q \in R : q.kind = "ip"} : ~SameIP(r, U)
           /\ \A r \in {q \in R : q.kind = "cidr"} : ~Covers(r, U)
    BY DEF AllowIP, ACL
  <1> HIDE DEF U
  <1> QED
    BY <1>1, <1>2 DEF Forbidden, SameIP, Covers

\* A name is allowed if no rule names it.
LEMMA AllowHostIsNamedBy ==
  ASSUME NEW rules, NEW name
  PROVE  AllowHost(ACL(rules), name) <=> ~NamedBy(rules, name)
  BY DEF AllowHost, ACL, NamedBy

\* One dial under the rules: it connects to an address of the answer that they do not
\* forbid, or to none; it is refused when there is no such address or for the name.
LEMMA RestrictedDialObeys ==
  ASSUME NEW rules, NEW hop, hop.answers \in Seq(ToSet(hop.answers)),
         \A i \in DOMAIN hop.answers : IsAddress(hop.answers[i])
  PROVE  LET d == RestrictedDial(ACL(rules), hop)
         IN  /\ d.denied \in BOOLEAN
             /\ \/ d.to = <<>>
                \/ ~d.denied /\ \E a : d = Connected(a) /\ IsAddress(a) /\ ~Forbidden(rules, a)
             /\ d.denied <=> \/ NamedBy(rules, hop.name)
                             \/ /\ hop.answers # <<>>
                                /\ \A i \in DOMAIN hop.answers : Forbidden(rules, hop.answers[i])
  <1> DEFINE n == Len(hop.answers)
             allowed == {i \in DOMAIN hop.answers : AllowIP(ACL(rules), hop.answers[i])}
             i0 == CHOOSE i \in allowed : \A j \in allowed : i <= j
  <1>1. DOMAIN hop.answers = 1 .. n /\ n \in Nat
    OBVIOUS
  <1>2. \A i \in DOMAIN hop.answers : i \in allowed <=> ~Forbidden(rules, hop.answers[i])
    BY AllowIPIsForbidden
  <1>3. allowed # {} => i0 \in allowed
    <2> SUFFICES ASSUME allowed # {} PROVE \E i \in allowed : \A j \in allowed : i <= j
      OBVIOUS
    <2>1. allowed \subseteq Nat
      BY <1>1
    <2> HIDE DEF allowed
    <2> QED
      BY <2>1, LeastNumber
  <1>4. hop.answers = <<>> <=> n = 0
    OBVIOUS
  <1> DEFINE d == RestrictedDial(ACL(rules), hop)
  <1>5. CASE ~AllowHost(ACL(rules), hop.name)
    <2>1. d = Refused
      BY <1>5 DEF RestrictedDial
    <2> QED
      BY <2>1, <1>5, AllowHostIsNamedBy DEF Refused
  <1>6. CASE AllowHost(ACL(rules), hop.name) /\ hop.answers = <<>>
    <2>1. d = Failed
      BY <1>6 DEF RestrictedDial
    <2> QED
      BY <2>1, <1>6, AllowHostIsNamedBy DEF Failed
  <1>7. CASE AllowHost(ACL(rules), hop.name) /\ hop.answers # <<>> /\ allowed = {}
    <2>1. d = Refused
      BY <1>7 DEF RestrictedDial
    <2>2. \A i \in DOMAIN hop.answers : Forbidden(rules, hop.answers[i])
      BY <1>2, <1>7
    <2> QED
      BY <2>1, <2>2, <1>7 DEF Refused
  <1>8. CASE AllowHost(ACL(rules), hop.name) /\ hop.answers # <<>> /\ allowed # {}
    <2>1. d = Connected(hop.answers[i0])
      BY <1>8 DEF RestrictedDial
    <2>2. i0 \in DOMAIN hop.answers /\ ~Forbidden(rules, hop.answers[i0])
      BY <1>2, <1>3, <1>8
    <2>3. IsAddress(hop.answers[i0])
      BY <2>2
    <2>4. ~NamedBy(rules, hop.name)
      BY <1>8, AllowHostIsNamedBy
    <2> HIDE DEF i0, d
    <2>5. d.denied = FALSE
      BY <2>1 DEF Connected
    <2>6. \E a : d = Connected(a) /\ IsAddress(a) /\ ~Forbidden(rules, a)
      BY <2>1, <2>2, <2>3
    <2>7. ~\A i \in DOMAIN hop.answers : Forbidden(rules, hop.answers[i])
      BY <2>2
    <2>8. d = RestrictedDial(ACL(rules), hop)
      BY DEF d
    <2> QED
      BY <2>4, <2>5, <2>6, <2>7, <2>8
  <1> QED
    BY <1>5, <1>6, <1>7, <1>8

\* What holds of a connection of a hop, and what its refusal means.
Obeys(setup, idle, hop, c) ==
    /\ c.denied \in BOOLEAN
    /\ \/ c.to = <<>>
       \/ ~c.denied /\ \E a : c.to = <<a>> /\ (Restricted(setup) => ~Forbidden(setup.rules, a))
    /\ c.denied <=>
          /\ Restricted(setup) /\ hop.name \notin DOMAIN idle
          /\ \/ NamedBy(setup.rules, hop.name)
             \/ /\ hop.answers # <<>>
                /\ \A i \in DOMAIN hop.answers : Forbidden(setup.rules, hop.answers[i])

\* Connect, with an ACL or without: an address or none, and what a refusal means.
LEMMA ConnectObeys ==
  ASSUME NEW setup, NEW idle, NEW hop, setup.acl \in BOOLEAN, setup.proxy \in BOOLEAN,
         hop.answers \in Seq(ToSet(hop.answers)),
         \A i \in DOMAIN hop.answers : IsAddress(hop.answers[i]),
         Restricted(setup) => \A n \in DOMAIN idle : ~Forbidden(setup.rules, idle[n])
  PROVE  Obeys(setup, idle, hop, Connect(setup, idle, hop))
  <1> USE DEF Obeys
  <1> DEFINE c == Connect(setup, idle, hop)
  <1>1. CASE hop.name \in DOMAIN idle
    <2>1. c = [denied |-> FALSE, to |-> <<idle[hop.name]>>]
      BY <1>1 DEF Connect, Connected
    <2> HIDE DEF c
    <2>2. c.denied = FALSE /\ c.to = <<idle[hop.name]>>
      BY <2>1
    <2> QED
      BY <1>1, <2>2 DEF c
  <1>2. CASE hop.name \notin DOMAIN idle /\ ~Restricted(setup)
    <2>1. c = Dial(hop)
      BY <1>2 DEF Connect, DialContext, Restricted
    <2>2. c.denied = FALSE /\ (c.to = <<>> \/ c.to = <<hop.answers[1]>>)
      BY <2>1 DEF Dial, Failed, Connected
    <2> HIDE DEF c
    <2> QED
      BY <1>2, <2>2 DEF c
  <1>3. CASE hop.name \notin DOMAIN idle /\ Restricted(setup)
    <2>1. c = RestrictedDial(ACL(setup.rules), hop)
      BY <1>3 DEF Connect, DialContext, Restricted
    <2>2. \A a : Connected(a).to = <<a>>
      BY DEF Connected
    <2> QED
      BY <1>3, <2>1, <2>2, RestrictedDialObeys
  <1> QED
    BY <1>1, <1>2, <1>3

\* What is known of a request after k hops: it goes on only after redirects; it ends at
\* a hop that answers otherwise, or that no connection could be made to.
After(setup, hops, k, s) ==
    /\ DOMAIN s = {"over", "used", "idle", "status", "error", "denied"}
    /\ s.over \in BOOLEAN /\ s.denied \in BOOLEAN
    /\ \E T : s.used \in Seq(T) /\ (Restricted(setup) => \A a \in T : ~Forbidden(setup.rules, a))
    /\ Restricted(setup) => \A n \in DOMAIN s.idle : ~Forbidden(setup.rules, s.idle[n])
    /\ ~s.over => /\ Len(s.used) = k /\ s.status = 0 /\ s.error = "none" /\ ~s.denied
                  /\ k > 0 => hops[k].reply = "redirect"
    /\ s.over => \E j \in 1 .. k :
          \/ /\ Len(s.used) = j /\ hops[j].reply # "redirect" /\ ~s.denied
             /\ s.status = Status(hops[j].reply) /\ s.error = Error(hops[j].reply)
          \/ /\ Len(s.used) = j - 1 /\ s.status = 0 /\ s.error = "other"
             /\ j > 1 => hops[j - 1].reply = "redirect"
             /\ Connect(setup, s.idle, hops[j]).to = <<>>
             /\ s.denied = Connect(setup, s.idle, hops[j]).denied

\* A hop keeps it.
LEMMA AfterHop ==
  ASSUME NEW setup, setup.acl \in BOOLEAN, setup.proxy \in BOOLEAN,
         NEW hops, IsRequest(hops), NEW k \in 0 .. Len(hops) - 1, NEW s, After(setup, hops, k, s)
  PROVE  After(setup, hops, k + 1, TakeHop(setup, s, hops[k + 1]))
  <1> DEFINE hop == hops[k + 1]
             c == Connect(setup, s.idle, hop)
             t == TakeHop(setup, s, hop)
  <1>1. Len(hops) \in Nat /\ DOMAIN hops = 1 .. Len(hops) /\ k + 1 \in DOMAIN hops /\ k \in Nat
    BY DEF IsRequest
  <1>2. /\ hop.answers \in Seq(ToSet(hop.answers))
        /\ \A i \in DOMAIN hop.answers : IsAddress(hop.answers[i])
    BY <1>1 DEF IsRequest
  <1>3. /\ c.denied \in BOOLEAN
        /\ \/ c.to = <<>>
           \/ ~c.denied /\ \E a : c.to = <<a>> /\ (Restricted(setup) => ~Forbidden(setup.rules, a))
    <2>1. Restricted(setup) => \A n \in DOMAIN s.idle : ~Forbidden(setup.rules, s.idle[n])
      BY DEF After
    <2>2. Obeys(setup, s.idle, hop, c)
      <3> HIDE DEF hop
      <3> QED
        BY <1>2, <2>1, ConnectObeys
    <2> HIDE DEF hop, c
    <2> QED
      BY <2>2 DEF Obeys
  <1> HIDE DEF hop
  <1>4. CASE s.over
    <2>1. t = s
      BY <1>4 DEF TakeHop
    <2>2. \A j \in 1 .. k : j \in 1 .. k + 1
      BY <1>1
    <2> QED
      BY <1>4, <2>1, <2>2 DEF After, hop
  <1>5. CASE ~s.over /\ c.to = <<>>
    <2>1. t = [s EXCEPT !.over = TRUE, !.error = "other", !.denied = c.denied]
      BY <1>5 DEF TakeHop
    <2> HIDE DEF t, c
    <2>2. DOMAIN t = DOMAIN s
      BY <2>1
    <2>3. /\ t.used = s.used /\ t.idle = s.idle /\ t.status = s.status /\ t.error = "other"
      BY <2>1 DEF After
    <2>4. t.over = TRUE
      BY <2>1, Zenon DEF After
    <2>5. t.denied = c.denied
      BY <2>1 DEF After
    <2>6. k + 1 \in 1 .. k + 1 /\ k + 1 - 1 = k /\ (k + 1 > 1 => k > 0)
      BY <1>1
    <2>7. /\ Len(t.used) = k + 1 - 1 /\ t.status = 0
          /\ k + 1 > 1 => hops[k + 1 - 1].reply = "redirect"
          /\ Connect(setup, t.idle, hops[k + 1]).to = <<>>
          /\ t.denied = Connect(setup, t.idle, hops[k + 1]).denied
      BY <1>5, <2>3, <2>5, <2>6 DEF After, c, hop
    <2>8. t.denied \in BOOLEAN
      BY <2>5, <1>3
    <2>9. \E j \in 1 .. k + 1 :
             /\ Len(t.used) = j - 1 /\ t.status = 0 /\ t.error = "other"
             /\ j > 1 => hops[j - 1].reply = "redirect"
             /\ Connect(setup, t.idle, hops[j]).to = <<>>
             /\ t.denied = Connect(setup, t.idle, hops[j]).denied
      BY <2>3, <2>6, <2>7
    <2>10. After(setup, hops, k + 1, t)
      BY <2>2, <2>3, <2>4, <2>8, <2>9 DEF After
    <2> QED
      BY <2>10 DEF t, hop
  <1>6. CASE ~s.over /\ c.to # <<>>
    <2>1. t = [s EXCEPT !.over = hop.reply # "redirect",
                       !.used = Append(@, c.to[1]), !.idle = Keeping(@, hop, c.to[1]),
                       !.status = Status(hop.reply), !.error = Error(hop.reply)]
      BY <1>6 DEF TakeHop
    <2>2. PICK a : c.to = <<a>> /\ (Restricted(setup) => ~Forbidden(setup.rules, a))
      BY <1>3, <1>6
    <2> HIDE DEF t, c
    <2>3. DOMAIN t = DOMAIN s
      BY <2>1
    <2>4. /\ t.used = Append(s.used, a) /\ t.idle = Keeping(s.idle, hop, a)
          /\ t.status = Status(hop.reply) /\ t.error = Error(hop.reply) /\ t.denied = s.denied
      BY <2>1, <2>2 DEF After
    <2>5. t.over = (hop.reply # "redirect")
      BY <2>1, Zenon DEF After
    <2>6. /\ \E T : t.used \in Seq(T) /\ (Restricted(setup) => \A b \in T : ~Forbidden(setup.rules, b))
          /\ Len(t.used) = k + 1
      <3>1. PICK T : s.used \in Seq(T) /\ (Restricted(setup) => \A b \in T : ~Forbidden(setup.rules, b))
        BY DEF After
      <3>2. t.used \in Seq(T \cup {a}) /\ Len(t.used) = Len(s.used) + 1
        BY <3>1, <2>4
      <3>3. Restricted(setup) => \A b \in T \cup {a} : ~Forbidden(setup.rules, b)
        BY <3>1, <2>2
      <3>4. Len(s.used) = k
        BY <1>6 DEF After
      <3> QED
        BY <3>2, <3>3, <3>4
    <2>7. Restricted(setup) => \A n \in DOMAIN t.idle : ~Forbidden(setup.rules, t.idle[n])
      BY <2>2, <2>4 DEF After, Keeping
    <2>8. hop.reply = "redirect" => t.status = 0 /\ t.error = "none"
      BY <2>4 DEF Status, Error
    <2>9. ~t.denied /\ t.denied \in BOOLEAN /\ t.over \in BOOLEAN
      BY <1>6, <2>4, <2>5 DEF After
    <2>10. k + 1 \in 1 .. k + 1
      BY <1>1
    <2> QED
      BY <2>3, <2>4, <2>5, <2>6, <2>7, <2>8, <2>9, <2>10 DEF After, t, hop
  <1> QED
    BY <1>4, <1>5, <1>6

\* And so does a request, from connections that the rules allow.
LEMMA AfterSend ==
  ASSUME NEW setup, setup.acl \in BOOLEAN, setup.proxy \in BOOLEAN, NEW hops, IsRequest(hops), NEW idle,
         Restricted(setup) => \A n \in DOMAIN idle : ~Forbidden(setup.rules, idle[n])
  PROVE  After(setup, hops, Len(hops), Send(setup, idle, hops))
  <1> DEFINE s == Hops(setup, idle, hops)
             n == Len(hops)
             S == {k \in 0 .. n : After(setup, hops, k, s[k])}
  <1>1. n \in Nat
    BY DEF IsRequest
  <1>2. s = [k \in 0 .. n |-> IF k = 0 THEN Request(idle) ELSE TakeHop(setup, s[k - 1], hops[k])]
    BY <1>1, HopsDef
  <1> HIDE DEF s
  <1>3. 0 \in S
    <2>1. s[0] = Request(idle)
      BY <1>1, <1>2
    <2>2. After(setup, hops, 0, Request(idle))
      <3> DEFINE r == Request(idle)
      <3>1. ~r.over /\ r.over \in BOOLEAN /\ ~r.denied /\ r.denied \in BOOLEAN
        BY DEF Request
      <3>2. /\ DOMAIN r = {"over", "used", "idle", "status", "error", "denied"}
            /\ r.used = <<>> /\ r.idle = idle /\ r.status = 0 /\ r.error = "none"
        BY DEF Request
      <3>3. \E T : r.used \in Seq(T) /\ (Restricted(setup) => \A a \in T : ~Forbidden(setup.rules, a))
        <4>1. <<>> \in Seq({})
          OBVIOUS
        <4> QED
          BY <3>2, <4>1
      <3> HIDE DEF r
      <3>4. After(setup, hops, 0, r)
        BY <3>1, <3>2, <3>3, Len(<<>>) = 0 DEF After
      <3> QED
        BY <3>4 DEF r
    <2> QED
      BY <1>1, <2>1, <2>2
  <1>4. ASSUME NEW k \in 0 .. n - 1, k \in S
        PROVE  k + 1 \in S
    <2>1. s[k + 1] = TakeHop(setup, s[k], hops[k + 1])
      BY <1>1, <1>2
    <2>2. k + 1 \in 0 .. n
      BY <1>1
    <2> QED
      BY <1>4, <2>1, <2>2, AfterHop
  <1>5. n \in S
    <2>1. \A k \in 0 .. n - 1 : k \in S => k + 1 \in S
      BY <1>4
    <2>2. n \in 0 .. n
      BY <1>1
    <2> HIDE DEF S, n
    <2> QED
      BY <1>1, <1>3, <2>1, <2>2, InductionUpTo
  <1> QED
    BY <1>5 DEF Send, s

\* RulesHold, for every configuration of the deliverer, any two requests and
\* whatever hops, names and answers they meet.
LEMMA EveryDeliveryObeys ==
  ASSUME NEW in, IsDelivery(in)
  PROVE  RulesHold(in)
  <1> DEFINE setup == in.setup
             none == [n \in {} |-> <<>>]
             one == Send(setup, none, in.first)
             two == Send(setup, one.idle, in.second)
             n == Len(in.second)
             reached == Len(two.used)
             hop == in.second[reached + 1]
             result == AttemptResult(two)
  <1> DEFINE Denied == /\ Restricted(setup) /\ reached < n
                       /\ reached > 0 => in.second[reached].reply = "redirect"
                       /\ hop.name \notin DOMAIN two.idle
                       /\ \/ NamedBy(setup.rules, hop.name)
                          \/ /\ hop.answers # <<>>
                             /\ \A i \in DOMAIN hop.answers : Forbidden(setup.rules, hop.answers[i])
             Succeeded == reached = n /\ Status(in.second[n].reply) = 200
  <1> SUFFICES /\ Restricted(setup) =>
                     \A s \in {one, two} : \A i \in DOMAIN s.used : ~Forbidden(setup.rules, s.used[i])
               /\ result.code = "denied" <=> Denied
               /\ result.code = "denied" => result.status = "failure" /\ Exhausted(two, FALSE)
               /\ result.status = "success" <=> Succeeded
    BY DEF RulesHold, Restricted, Last
  <1>1. setup.acl \in BOOLEAN /\ setup.proxy \in BOOLEAN
    BY DEF IsDelivery
  <1>2. IsRequest(in.first) /\ IsRequest(in.second)
    BY DEF IsDelivery
  <1>3. After(setup, in.first, Len(in.first), one)
    BY <1>1, <1>2, AfterSend
  <1>4. After(setup, in.second, n, two)
    <2>1. Restricted(setup) => \A m \in DOMAIN one.idle : ~Forbidden(setup.rules, one.idle[m])
      BY <1>3 DEF After
    <2> HIDE DEF one
    <2> QED
      BY <1>1, <1>2, <2>1, AfterSend
  <1>5. n \in Nat /\ n > 0 /\ DOMAIN in.second = 1 .. n
    BY <1>2 DEF IsRequest
  <1> HIDE DEF one, two
  <1>6. Restricted(setup) => \A s \in {one, two} : \A i \in DOMAIN s.used : ~Forbidden(setup.rules, s.used[i])
    BY <1>3, <1>4 DEF After
  <1>7. /\ result.code = "denied" <=> two.error = "other" /\ two.denied
        /\ result.status = "success" <=> two.status \in 200 .. 299
        /\ result.status = "failure" <=> two.status \notin 200 .. 299
        /\ two.denied => Exhausted(two, FALSE)
    BY DEF AttemptResult, Is2xx, Exhausted
  <1>8. reached \in Nat
    BY <1>4 DEF After
  <1> HIDE DEF result
  <1>9. CASE ~two.over
    <2>1. reached = n /\ two.status = 0 /\ two.error = "none" /\ in.second[n].reply = "redirect"
      BY <1>4, <1>5, <1>9 DEF After
    <2>2. Status(in.second[n].reply) = 0
      BY <2>1 DEF Status
    <2>3. ~Denied /\ ~Succeeded
      BY <1>5, <2>1, <2>2
    <2>4. two.status \notin 200 .. 299
      BY <2>1
    <2> HIDE DEF Denied, Succeeded
    <2> QED
      BY <1>6, <1>7, <2>1, <2>3, <2>4
  <1>10. ASSUME NEW j \in 1 .. n, two.over, reached = j, in.second[j].reply # "redirect", ~two.denied,
                two.status = Status(in.second[j].reply)
         PROVE  (result.code = "denied" <=> Denied) /\ (result.status = "success" <=> Succeeded)
    <2>1. ~Denied
      BY <1>10
    <2>2. Status(in.second[j].reply) \in {0, 200, 500}
      BY DEF Status
    <2>3. two.status \in 200 .. 299 <=> two.status = 200
      <3>1. two.status = 0 \/ two.status = 200 \/ two.status = 500
        BY <1>10, <2>2
      <3>2. 0 \notin 200 .. 299 /\ 200 \in 200 .. 299 /\ 500 \notin 200 .. 299 /\ 0 # 200 /\ 500 # 200
        OBVIOUS
      <3>3. CASE two.status = 0
        BY <3>2, <3>3
      <3>4. CASE two.status = 200
        BY <3>2, <3>4
      <3>5. CASE two.status = 500
        BY <3>2, <3>5
      <3> QED
        BY <3>1, <3>3, <3>4, <3>5
    <2>4. j = n
      BY <1>2, <1>5, <1>10 DEF IsRequest
    <2>5. Succeeded <=> two.status = 200
      BY <1>10, <2>4
    <2> HIDE DEF Denied, Succeeded
    <2> QED
      BY <1>7, <1>10, <2>1, <2>3, <2>5
  <1>11. ASSUME NEW j \in 1 .. n, reached = j - 1, two.status = 0, two.error = "other",
                j > 1 => in.second[j - 1].reply = "redirect",
                two.denied = Connect(setup, two.idle, in.second[j]).denied
         PROVE  (result.code = "denied" <=> Denied) /\ (result.status = "success" <=> Succeeded)
    <2>1. hop = in.second[j] /\ reached < n /\ (reached > 0 => in.second[reached].reply = "redirect")
      BY <1>5, <1>11
    <2>2. Obeys(setup, two.idle, hop, Connect(setup, two.idle, hop))
      <3>1. /\ hop.answers \in Seq(ToSet(hop.answers))
            /\ \A i \in DOMAIN hop.answers : IsAddress(hop.answers[i])
        BY <1>2, <1>5, <2>1 DEF IsRequest
      <3>2. Restricted(setup) => \A m \in DOMAIN two.idle : ~Forbidden(setup.rules, two.idle[m])
        BY <1>4 DEF After
      <3> HIDE DEF hop
      <3> QED
        BY <1>1, <3>1, <3>2, ConnectObeys
    <2>3. two.denied <=> Denied
      <3> HIDE DEF hop, setup
      <3> QED
        BY <1>11, <2>1, <2>2 DEF Obeys
    <2> QED
      BY <1>7, <1>11, <2>1, <2>3
  <1>12. CASE two.over
    <2>1. PICK j \in 1 .. n :
             \/ /\ reached = j /\ in.second[j].reply # "redirect" /\ ~two.denied
                /\ two.status = Status(in.second[j].reply)
             \/ /\ reached = j - 1 /\ two.status = 0 /\ two.error = "other"
                /\ j > 1 => in.second[j - 1].reply = "redirect"
                /\ two.denied = Connect(setup, two.idle, in.second[j]).denied
      BY <1>4, <1>12 DEF After
    <2> HIDE DEF Denied, Succeeded, reached, n
    <2>2. (result.code = "denied" <=> Denied) /\ (result.status = "success" <=> Succeeded)
      BY <1>10, <1>11, <1>12, <2>1
    <2>3. two.denied => two.status \notin 200 .. 299
      BY <2>1
    <2> QED
      BY <1>6, <1>7, <2>2, <2>3
  <1> QED
    BY <1>4, <1>9, <1>12 DEF After

-----------------------------------------------------------------------------
(* PluginChain *)

\* The recursive definition of Contexts has its fixed point.
LEMMA ContextsDef ==
  ASSUME NEW c, NEW chain, NEW side, Len(chain) \in Nat
  PROVE  LET x == Contexts(c, chain, side)
         IN  x = [k \in 0 .. Len(chain) |->
                     IF k = 0 THEN [c EXCEPT !.outcome = "open"] ELSE Advance(x[k - 1], chain[k], side)]
  <1> DEFINE n == Len(chain)
             start == [c EXCEPT !.outcome = "open"]
             Is(g, m) == g = [k \in 0 .. m |->
                                IF k = 0 THEN start ELSE Advance(g[k - 1], chain[k], side)]
             S == {m \in 0 .. n : \E g : Is(g, m)}
  <1> HIDE DEF start
  <1>1. 0 \in S
    <2> DEFINE h == [k \in 0 .. 0 |-> start]
    <2>1. h = [k \in 0 .. 0 |-> h[k]] /\ \A k \in 0 .. 0 : k = 0 /\ h[k] = start
      OBVIOUS
    <2> HIDE DEF h
    <2>2. Is(h, 0)
      BY <2>1
    <2> QED
      BY <2>2
  <1>2. ASSUME NEW m \in 0 .. n - 1, m \in S
        PROVE  m + 1 \in S
    <2>1. PICK g : Is(g, m)
      BY <1>2
    <2> DEFINE h == [k \in 0 .. m + 1 |->
                       IF k = m + 1 THEN Advance(g[m], chain[m + 1], side) ELSE g[k]]
    <2>2. ASSUME NEW k \in 0 .. m + 1
          PROVE  h[k] = IF k = 0 THEN start ELSE Advance(h[k - 1], chain[k], side)
      <3>1. CASE k = m + 1
        BY <3>1
      <3>2. CASE k \in 0 .. m
        BY <3>2, <2>1
      <3> QED
        BY <3>1, <3>2
    <2>3. h = [k \in 0 .. m + 1 |-> h[k]]
      OBVIOUS
    <2> HIDE DEF h
    <2>4. Is(h, m + 1)
      BY <2>2, <2>3
    <2> QED
      BY <2>4
  <1>3. n \in S
    <2>1. \A m \in 0 .. n - 1 : m \in S => m + 1 \in S
      BY <1>2
    <2>2. n \in Nat /\ n \in 0 .. n
      OBVIOUS
    <2> HIDE DEF S, n
    <2> QED
      BY <1>1, <2>1, <2>2, InductionUpTo
  <1>4. \E g : Is(g, n)
    BY <1>3
  <1> QED
    BY <1>4 DEF Contexts, start

-----------------------------------------------------------------------------
\* A chain has the plugins of its side, each once, the highest priority first.
ByPriority(plugins, side, chain) ==
    /\ chain \in Seq(Loaded(plugins, side)) /\ Len(chain) \in Nat
    /\ \A i, j \in 1 .. Len(chain) : i < j => Priority(chain[i].name) > Priority(chain[j].name)
    /\ \A p \in Loaded(plugins, side) : \E i \in 1 .. Len(chain) : chain[i] = p

\* And so it is for what Chain gives.
LEMMA ChainIs ==
  ASSUME NEW in, IsChain(in), NEW side
  PROVE  ByPriority(in.plugins, side, Chain(in.plugins, side))
  <1> DEFINE L == Loaded(in.plugins, side)
             key == [p \in L |-> SortKey(p)]
             chain == Chain(in.plugins, side)
             n == Cardinality(L)
  <1>1. L \subseteq in.plugins /\ IsFiniteSet(L)
    BY FS_Subset DEF Loaded, IsChain
  <1>2. \A p \in in.plugins : p.name \in Inbound \cup Outbound /\ Priority(p.name) \in Int
    BY DEF IsChain, ValidPlugin, Inbound, Outbound, Priority
  <1>3. key \in [L -> Int]
    BY <1>1, <1>2 DEF SortKey
  <1>4. \A p, q \in L : key[p] = key[q] => p = q
    <2> SUFFICES ASSUME NEW p \in L, NEW q \in L, key[p] = key[q] PROVE p = q
      OBVIOUS
    <2>1. Priority(p.name) = Priority(q.name)
      BY <1>1, <1>2 DEF SortKey
    <2>2. p.name = q.name
      BY <1>1, <1>2, <2>1 DEF Priority, Inbound, Outbound
    <2> QED
      BY <1>1, <2>2 DEF IsChain
  <1> HIDE DEF L, key
  <1>5. /\ n \in Nat /\ chain \in [1 .. n -> L] /\ InOrder(chain, key)
        /\ \A p \in L : \E i \in 1 .. n : chain[i] = p
    <2>1. chain = Sorted(L, key)
      BY DEF Chain, L, key
    <2> HIDE DEF chain
    <2> QED
      BY <1>1, <1>3, <1>4, <2>1, SortedIs
  <1> HIDE DEF chain, n
  <1>6. chain \in Seq(L) /\ Len(chain) = n
    BY <1>5
  <1>7. ASSUME NEW i \in 1 .. n, NEW j \in 1 .. n, i < j
        PROVE  Priority(chain[i].name) > Priority(chain[j].name)
    <2>1. key[chain[i]] < key[chain[j]]
      BY <1>5, <1>7 DEF InOrder
    <2>2. chain[i] \in L /\ chain[j] \in L
      BY <1>5
    <2>3. -Priority(chain[i].name) < -Priority(chain[j].name)
      BY <2>1, <2>2 DEF key, SortKey
    <2>4. Priority(chain[i].name) \in Int /\ Priority(chain[j].name) \in Int
      BY <1>1, <1>2, <2>2
    <2> QED
      BY <2>3, <2>4
  <1> QED
    BY <1>5, <1>6, <1>7 DEF ByPriority, chain, L

-----------------------------------------------------------------------------
\* A context has the fields of a request and one of these outcomes.
IsContext(x) ==
    /\ DOMAIN x = {"credentials", "signature", "body", "method", "age", "outcome"}
    /\ x.outcome \in {"open", "rejected", "answered", "error", "panic"}

\* Rejecting, answering, failing and panicking end a chain.
LEMMA EndIs ==
  ASSUME NEW x, IsContext(x), NEW y,
         y \in {Reject(x), Err(x), Panic(x), [x EXCEPT !.outcome = "answered"]}
  PROVE  IsContext(y) /\ y.outcome # "open" /\ (y.outcome = "panic" => y = Panic(x))
  BY DEF IsContext, Reject, Err, Panic

\* The request of a context is still the one that was received.
Untouched(x, req) ==
    /\ x.credentials = req.credentials /\ x.signature = req.signature /\ x.body = req.body
    /\ x.method = req.method /\ x.age = req.age

\* A plugin that checks a request leaves it as it is and lets it pass only if it is
\* authentic, or ends the chain.
LEMMA CheckIs ==
  ASSUME NEW x, IsContext(x), x.outcome = "open", NEW req, Untouched(x, req),
         NEW p, p.name \in Inbound \ {"function"}
  PROVE  LET y == Execute(x, p, "inbound")
         IN  /\ IsContext(y) /\ y.outcome # "panic"
             /\ y.outcome = "open" => y = x /\ Authentic(req, p)
  <1> DEFINE y == Execute(x, p, "inbound")
             Ends(z) == z \in {Reject(x), Err(x), [x EXCEPT !.outcome = "answered"]}
  <1> SUFFICES Ends(y) \/ (y = x /\ Authentic(req, p))
    BY EndIs DEF IsContext, Reject, Err
  <1>1. CASE p.name = "basic-auth"
    <2>1. y = BasicAuth(x, p)
      BY <1>1 DEF Execute, Inbound
    <2> QED
      BY <1>1, <2>1 DEF BasicAuth, Authentic, Untouched
  <1>2. CASE p.name = "key-auth"
    <2>1. y = KeyAuth(x, p)
      BY <1>2 DEF Execute, Inbound
    <2> QED
      BY <1>2, <2>1 DEF KeyAuth, Authentic, Untouched
  <1>3. CASE p.name = "hmac-auth"
    <2>1. y = HmacAuth(x, p)
      BY <1>3 DEF Execute, Inbound
    <2> QED
      BY <1>3, <2>1 DEF HmacAuth, Authentic, Untouched
  <1>4. CASE p.name = "connect-auth"
    <2>1. y = ConnectAuth(x, p)
      BY <1>4 DEF Execute, Inbound
    <2> QED
      BY <1>4, <2>1 DEF ConnectAuth, SignedVerifier, TokenVerifier, OktaVerifier, Authentic, Untouched
  <1>5. CASE p.name = "event-validation"
    <2>1. y = EventValidation(x, p)
      BY <1>5 DEF Execute, Inbound
    <2> QED
      BY <1>5, <2>1 DEF EventValidation, Authentic, Untouched
  <1> QED
    BY <1>1, <1>2, <1>3, <1>4, <1>5 DEF Inbound

\* What is known after k plugins of the gateway's chain: a request that may go on has
\* satisfied all of them, and only the function may have changed its body.
Admitted(req, chain, k, x) ==
    /\ IsContext(x)
    /\ x.outcome = "panic" => \E i \in 1 .. k : chain[i].name \in Outbound
    /\ x.outcome = "open" =>
          /\ \A i \in 1 .. k : Authentic(req, chain[i])
          /\ \/ Untouched(x, req) /\ \A i \in 1 .. k : chain[i].name # "function"
             \/ \E i \in 1 .. k : chain[i].name = "function" /\ x.body = chain[i].config.script[req.body]

\* A plugin of the gateway keeps that.
LEMMA AdmittedStep ==
  ASSUME NEW in, IsChain(in), NEW req,
         NEW k \in 0 .. Len(Chain(in.plugins, "inbound")) - 1, NEW x,
         Admitted(req, Chain(in.plugins, "inbound"), k, x)
  PROVE  LET chain == Chain(in.plugins, "inbound")
         IN  Admitted(req, chain, k + 1, Advance(x, chain[k + 1], "inbound"))
  <1> DEFINE chain == Chain(in.plugins, "inbound")
             n == Len(chain)
             p == chain[k + 1]
             y == Advance(x, p, "inbound")
  <1>1. /\ n \in Nat /\ chain \in Seq(Loaded(in.plugins, "inbound"))
        /\ \A i, j \in 1 .. n : i < j => Priority(chain[i].name) > Priority(chain[j].name)
    BY ChainIs DEF ByPriority
  <1>2. k + 1 \in 1 .. n /\ k \in Nat /\ \A i \in 1 .. k + 1 : i \in 1 .. k \/ i = k + 1
    BY <1>1
  <1> HIDE DEF chain
  <1>3. p \in in.plugins /\ p.name \in Inbound \cup Outbound
    BY <1>1, <1>2 DEF Loaded, IsChain, ValidPlugin
  <1> SUFFICES Admitted(req, chain, k + 1, y)
    BY DEF chain
  <1>4. CASE x.outcome # "open"
    <2>1. y = x
      BY <1>4 DEF Advance
    <2> QED
      BY <1>2, <1>4, <2>1 DEF Admitted, chain
  <1>5. CASE x.outcome = "open" /\ p.name \notin Inbound
    <2>1. y = Panic(x)
      BY <1>5 DEF Advance, Execute
    <2>2. IsContext(y) /\ y.outcome = "panic"
      BY <2>1 DEF Panic, Admitted, IsContext
    <2> QED
      BY <1>2, <1>3, <1>5, <2>2 DEF Admitted
  <1>6. ASSUME x.outcome = "open", p.name \in Inbound
        PROVE  Untouched(x, req) /\ \A i \in 1 .. k : chain[i].name # "function"
    <2>1. ASSUME NEW i \in 1 .. k, chain[i].name = "function"
          PROVE  FALSE
      <3>1. i \in 1 .. n /\ i < k + 1
        BY <1>1, <1>2
      <3>2. Priority("function") > Priority(p.name)
        BY <1>1, <1>2, <2>1, <3>1
      <3>3. Priority(p.name) \in {109, 108, 107, 106, 90, 80} /\ Priority("function") = 80
        BY <1>6 DEF Priority, Inbound
      <3> QED
        BY <3>2, <3>3
    <2> QED
      BY <1>6, <2>1 DEF Admitted, chain
  <1>7. CASE x.outcome = "open" /\ p.name \in Inbound \ {"function"}
    <2>1. y = Execute(x, p, "inbound")
      BY <1>7 DEF Advance
    <2>2. /\ IsContext(y) /\ y.outcome # "panic"
          /\ y.outcome = "open" => y = x /\ Authentic(req, p)
      <3>1. IsContext(x)
        BY DEF Admitted
      <3> HIDE DEF p, y
      <3> QED
        BY <1>6, <1>7, <2>1, <3>1, CheckIs
    <2>3. x.outcome = "open" => \A i \in 1 .. k : Authentic(req, chain[i])
      BY DEF Admitted, chain
    <2> HIDE DEF y
    <2> QED
      BY <1>2, <1>6, <1>7, <2>2, <2>3 DEF Admitted
  <1>8. CASE x.outcome = "open" /\ p.name = "function"
    <2>1. y = Function(x, p)
      BY <1>8 DEF Advance, Execute, Inbound
    <2>2. Authentic(req, p)
      BY <1>8 DEF Authentic
    <2>3. x.body = req.body /\ IsContext(x) /\ \A i \in 1 .. k : Authentic(req, chain[i])
      BY <1>6, <1>8 DEF Untouched, Admitted, chain, Inbound
    <2>4. /\ IsContext(y) /\ y.outcome # "panic"
          /\ y.outcome = "open" => y.body = p.config.script[req.body]
      BY <1>8, <2>1, <2>3 DEF Function, Err, IsContext
    <2> HIDE DEF y
    <2> QED
      BY <1>2, <1>8, <2>2, <2>3, <2>4 DEF Admitted
  <1> QED
    BY <1>4, <1>5, <1>7, <1>8

\* After k plugins of the worker's chain: what may be sent is what wasm makes of the
\* event, signed as it is.
Signed(req, chain, k, x) ==
    /\ IsContext(x)
    /\ x.outcome = "panic" => \E i \in 1 .. k : chain[i].name \in Inbound
    /\ x.outcome = "open" =>
          /\ (\A i \in 1 .. k : chain[i].name # "wasm") => x.body = req.body
          /\ \A i \in 1 .. k : chain[i].name = "wasm" => x.body = chain[i].config.script[req.body]
          /\ \A i \in 1 .. k : chain[i].name = "webhookx-signature" =>
                x.signature = [of |-> x.body, with |-> chain[i].config.secret]

\* A plugin of the worker keeps that.
LEMMA SignedStep ==
  ASSUME NEW in, IsChain(in), NEW req,
         NEW k \in 0 .. Len(Chain(in.plugins, "outbound")) - 1, NEW x,
         Signed(req, Chain(in.plugins, "outbound"), k, x)
  PROVE  LET chain == Chain(in.plugins, "outbound")
         IN  Signed(req, chain, k + 1, Advance(x, chain[k + 1], "outbound"))
  <1> DEFINE chain == Chain(in.plugins, "outbound")
             n == Len(chain)
             p == chain[k + 1]
             y == Advance(x, p, "outbound")
  <1>1. /\ n \in Nat /\ chain \in Seq(Loaded(in.plugins, "outbound"))
        /\ \A i, j \in 1 .. n : i < j => Priority(chain[i].name) > Priority(chain[j].name)
    BY ChainIs DEF ByPriority
  <1>2. k + 1 \in 1 .. n /\ k \in Nat /\ \A i \in 1 .. k + 1 : i \in 1 .. k \/ i = k + 1
    BY <1>1
  <1> HIDE DEF chain
  <1>3. p \in in.plugins /\ p.name \in Inbound \cup Outbound
    BY <1>1, <1>2 DEF Loaded, IsChain, ValidPlugin
  <1> SUFFICES Signed(req, chain, k + 1, y)
    BY DEF chain
  <1>4. Signed(req, chain, k, x)
    BY DEF chain
  <1>5. CASE x.outcome # "open"
    <2>1. y = x
      BY <1>5 DEF Advance
    <2> QED
      BY <1>2, <1>4, <1>5, <2>1 DEF Signed
  <1>6. CASE x.outcome = "open" /\ p.name \notin Outbound
    <2>1. y = Panic(x)
      BY <1>6 DEF Advance, Execute
    <2>2. IsContext(y) /\ y.outcome = "panic"
      BY <1>4, <2>1 DEF Panic, Signed, IsContext
    <2> QED
      BY <1>2, <1>3, <1>6, <2>2 DEF Signed
  <1>7. ASSUME p.name \in Outbound, NEW i \in 1 .. k
        PROVE  chain[i].name # "webhookx-signature" /\ (p.name = "wasm" => chain[i].name # "wasm")
    <2>1. i \in 1 .. n /\ i < k + 1
      BY <1>1, <1>2
    <2>2. Priority(chain[i].name) > Priority(p.name)
      BY <1>1, <1>2, <2>1
    <2>3. /\ Priority(p.name) \in {-90, -100} /\ Priority("webhookx-signature") = -100
          /\ Priority("wasm") = -90 /\ (p.name = "wasm" => Priority(p.name) = -90)
      BY <1>7 DEF Priority, Outbound
    <2> QED
      BY <2>2, <2>3
  <1>8. CASE x.outcome = "open" /\ p.name = "wasm"
    <2>1. y = Wasm(x, p)
      BY <1>8 DEF Advance, Execute, Outbound
    <2>2. x.body = req.body /\ IsContext(x)
      BY <1>4, <1>7, <1>8 DEF Signed, Outbound
    <2>3. /\ IsContext(y) /\ y.outcome # "panic"
          /\ y.outcome = "open" => y.body = p.config.script[req.body]
      BY <1>8, <2>1, <2>2 DEF Wasm, Err, IsContext
    <2>4. \A i \in 1 .. k : chain[i].name # "webhookx-signature" /\ chain[i].name # "wasm"
      BY <1>7, <1>8 DEF Outbound
    <2> HIDE DEF y
    <2> QED
      BY <1>2, <1>8, <2>3, <2>4 DEF Signed
  <1>9. CASE x.outcome = "open" /\ p.name = "webhookx-signature"
    <2>1. y = Signature(x, p)
      BY <1>9 DEF Advance, Execute, Outbound
    <2>2. IsContext(x)
      BY <1>4 DEF Signed
    <2>3. /\ IsContext(y) /\ y.outcome = "open" /\ y.body = x.body
          /\ y.signature = [of |-> y.body, with |-> p.config.secret]
      BY <1>9, <2>1, <2>2 DEF Signature, IsContext
    <2>4. \A i \in 1 .. k : chain[i].name # "webhookx-signature"
      BY <1>7, <1>9 DEF Outbound
    <2> HIDE DEF y
    <2> QED
      BY <1>2, <1>4, <1>9, <2>3, <2>4 DEF Signed
  <1> QED
    BY <1>3, <1>5, <1>6, <1>8, <1>9 DEF Outbound

\* The first holds at the end of a chain of the gateway.
LEMMA AdmittedRun ==
  ASSUME NEW in, IsChain(in)
  PROVE  LET chain == Chain(in.plugins, "inbound")
         IN  Admitted(in.request, chain, Len(chain), Run(in.request, in.plugins, "inbound"))
  <1> DEFINE req == in.request
             chain == Chain(in.plugins, "inbound")
             n == Len(chain)
             x == Contexts(req, chain, "inbound")
             S == {k \in 0 .. n : Admitted(req, chain, k, x[k])}
  <1>1. n \in Nat
    BY ChainIs DEF ByPriority
  <1>2. x = [k \in 0 .. n |->
                IF k = 0 THEN [req EXCEPT !.outcome = "open"] ELSE Advance(x[k - 1], chain[k], "inbound")]
    <2> HIDE DEF chain
    <2> QED
      BY <1>1, ContextsDef
  <1> HIDE DEF x
  <1>3. 0 \in S
    <2>1. x[0] = [req EXCEPT !.outcome = "open"]
      BY <1>1, <1>2
    <2>2. IsContext(x[0]) /\ x[0].outcome = "open" /\ Untouched(x[0], req)
      BY <2>1 DEF IsChain, IsContext, Untouched
    <2> QED
      BY <1>1, <2>2 DEF Admitted
  <1>4. ASSUME NEW k \in 0 .. n - 1, k \in S
        PROVE  k + 1 \in S
    <2>1. x[k + 1] = Advance(x[k], chain[k + 1], "inbound") /\ k + 1 \in 0 .. n
      <3> HIDE DEF chain
      <3> QED
        BY <1>1, <1>2
    <2> QED
      BY <1>4, <2>1, AdmittedStep
  <1>5. n \in S
    <2>1. n \in 0 .. n
      BY <1>1
    <2> HIDE DEF S, n
    <2> QED
      BY <1>1, <1>3, <1>4, <2>1, InductionUpTo
  <1> QED
    BY <1>5 DEF Run, x

\* The second holds at the end of a chain of the worker.
LEMMA SignedRun ==
  ASSUME NEW in, IsChain(in)
  PROVE  LET chain == Chain(in.plugins, "outbound")
         IN  Signed(in.request, chain, Len(chain), Run(in.request, in.plugins, "outbound"))
  <1> DEFINE req == in.request
             chain == Chain(in.plugins, "outbound")
             n == Len(chain)
             x == Contexts(req, chain, "outbound")
             S == {k \in 0 .. n : Signed(req, chain, k, x[k])}
  <1>1. n \in Nat
    BY ChainIs DEF ByPriority
  <1>2. x = [k \in 0 .. n |->
                IF k = 0 THEN [req EXCEPT !.outcome = "open"] ELSE Advance(x[k - 1], chain[k], "outbound")]
    <2> HIDE DEF chain
    <2> QED
      BY <1>1, ContextsDef
  <1> HIDE DEF x
  <1>3. 0 \in S
    <2>1. x[0] = [req EXCEPT !.outcome = "open"]
      BY <1>1, <1>2
    <2>2. IsContext(x[0]) /\ x[0].outcome = "open" /\ x[0].body = req.body
      BY <2>1 DEF IsChain, IsContext
    <2> QED
      BY <1>1, <2>2 DEF Signed
  <1>4. ASSUME NEW k \in 0 .. n - 1, k \in S
        PROVE  k + 1 \in S
    <2>1. x[k + 1] = Advance(x[k], chain[k + 1], "outbound") /\ k + 1 \in 0 .. n
      <3> HIDE DEF chain
      <3> QED
        BY <1>1, <1>2
    <2> QED
      BY <1>4, <2>1, SignedStep
  <1>5. n \in S
    <2>1. n \in 0 .. n
      BY <1>1
    <2> HIDE DEF S, n
    <2> QED
      BY <1>1, <1>3, <1>4, <2>1, InductionUpTo
  <1> QED
    BY <1>5 DEF Run, x

\* A chain has every plugin of its side.
LEMMA ChainCovers ==
  ASSUME NEW in, IsChain(in), NEW side \in {"inbound", "outbound"}
  PROVE  LET chain == Chain(in.plugins, side)
         IN  /\ chain \in Seq(Loaded(in.plugins, side)) /\ Len(chain) \in Nat
             /\ \A p \in Loaded(in.plugins, side) : \E k \in 1 .. Len(chain) : chain[k] = p
  <1>1. ByPriority(in.plugins, side, Chain(in.plugins, side))
    BY ChainIs
  <1> QED
    BY <1>1, Zenon DEF ByPriority

\* ChainGuards, for all plugins, bodies, scripts and requests.
LEMMA EveryChainGuards ==
  ASSUME NEW in, IsChain(in)
  PROVE  ChainGuards(in)
  <1> DEFINE req == in.request
             ci == Chain(in.plugins, "inbound")
             co == Chain(in.plugins, "outbound")
             xi == Run(req, in.plugins, "inbound")
             xo == Run(req, in.plugins, "outbound")
             i == Ingest(req, in.plugins)
             o == Deliver(req, in.plugins)
             made(name, body) ==
                LET ps == Named(in.plugins, name)
                IN  IF ps = {} THEN body ELSE (CHOOSE p \in ps : TRUE).config.script[body]
  <1>1. Admitted(req, ci, Len(ci), xi) /\ Signed(req, co, Len(co), xo)
    BY AdmittedRun, SignedRun
  <1>2. /\ ci \in Seq(Loaded(in.plugins, "inbound")) /\ Len(ci) \in Nat
        /\ \A p \in Loaded(in.plugins, "inbound") : \E k \in 1 .. Len(ci) : ci[k] = p
    BY ChainCovers
  <1>3. /\ co \in Seq(Loaded(in.plugins, "outbound")) /\ Len(co) \in Nat
        /\ \A p \in Loaded(in.plugins, "outbound") : \E k \in 1 .. Len(co) : co[k] = p
    BY ChainCovers
  <1>4. \A p \in in.plugins : p.enabled /\ p.name \in Inbound => p \in Loaded(in.plugins, "inbound")
    BY DEF Loaded, IsChain, ValidPlugin
  <1>5. \A p \in in.plugins : p.enabled /\ p.name \in Outbound => p \in Loaded(in.plugins, "outbound")
    BY DEF Loaded, IsChain, ValidPlugin
  <1>6. \A name : \A p \in Named(in.plugins, name) : Named(in.plugins, name) = {p}
    BY DEF Named, IsChain
  <1>7. ASSUME NEW p \in in.plugins, p.enabled
        PROVE  \A body : made(p.name, body) = p.config.script[body]
    <2>1. p \in Named(in.plugins, p.name)
      BY <1>7 DEF Named
    <2>2. Named(in.plugins, p.name) = {p}
      BY <1>6, <2>1
    <2> QED
      BY <2>2
  <1>8. ASSUME NEW name, \A p \in in.plugins : p.enabled => p.name # name
        PROVE  \A body : made(name, body) = body
    BY <1>8 DEF Named
  <1> SUFFICES /\ i.outcome = "ingested" =>
                     /\ \A p \in {q \in in.plugins : q.enabled} : Authentic(req, p)
                     /\ i.body = made("function", req.body)
               /\ o.outcome = "sent" =>
                     /\ o.body = made("wasm", req.body)
                     /\ \A p \in Named(in.plugins, "webhookx-signature") :
                           o.signature = [of |-> o.body, with |-> p.config.secret]
               /\ "panic" \in {i.outcome, o.outcome} =>
                     \E p \in in.plugins : p.enabled /\ p.onSource /\ p.onEndpoint
    BY DEF ChainGuards
  <1> HIDE DEF made
  <1>9. /\ i.outcome = "ingested" => xi.outcome = "open" /\ i.body = xi.body
        /\ i.outcome = "panic" => xi.outcome = "panic"
    <2> HIDE DEF xi
    <2>1. IsContext(xi)
      BY <1>1 DEF Admitted
    <2>2. i = CASE xi.outcome # "open" -> xi
                [] xi.outcome = "open" /\ ~WellFormed(xi.body) -> Reject(xi)
                [] OTHER -> [xi EXCEPT !.outcome = "ingested"]
      BY DEF Ingest, xi
    <2>3. CASE xi.outcome # "open"
      BY <2>1, <2>2, <2>3 DEF IsContext
    <2>4. CASE xi.outcome = "open" /\ ~WellFormed(xi.body)
      BY <2>1, <2>2, <2>4 DEF IsContext, Reject
    <2>5. CASE xi.outcome = "open" /\ WellFormed(xi.body)
      BY <2>1, <2>2, <2>5 DEF IsContext
    <2> QED
      BY <2>3, <2>4, <2>5
  <1>10. /\ o.outcome = "sent" => xo.outcome = "open" /\ o.body = xo.body /\ o.signature = xo.signature
         /\ o.outcome = "panic" => xo.outcome = "panic"
    <2> HIDE DEF xo
    <2>1. IsContext(xo)
      BY <1>1 DEF Signed
    <2>2. o = IF xo.outcome = "open" THEN [xo EXCEPT !.outcome = "sent"] ELSE xo
      BY DEF Deliver, xo
    <2> QED
      BY <2>1, <2>2 DEF IsContext
  <1> HIDE DEF xi, xo, i, o, ci, co
  <1>11. ASSUME i.outcome = "ingested"
         PROVE  /\ \A p \in {q \in in.plugins : q.enabled} : Authentic(req, p)
                /\ i.body = made("function", req.body)
    <2>1. ASSUME NEW p \in in.plugins, p.enabled
          PROVE  Authentic(req, p)
      <3>1. CASE p.name \in Inbound
        BY <1>1, <1>2, <1>4, <1>9, <1>11, <2>1, <3>1 DEF Admitted
      <3>2. CASE p.name \in Outbound
        BY <3>2 DEF Authentic, Outbound
      <3> QED
        BY <2>1, <3>1, <3>2 DEF IsChain, ValidPlugin
    <2>2. CASE \E k \in 1 .. Len(ci) : ci[k].name = "function" /\ xi.body = ci[k].config.script[req.body]
      <3>1. PICK k \in 1 .. Len(ci) : ci[k].name = "function" /\ xi.body = ci[k].config.script[req.body]
        BY <2>2
      <3>2. ci[k] \in in.plugins /\ ci[k].enabled
        BY <1>2 DEF Loaded
      <3> QED
        BY <1>7, <1>9, <1>11, <2>1, <3>1, <3>2
    <2>3. CASE Untouched(xi, req) /\ \A k \in 1 .. Len(ci) : ci[k].name # "function"
      <3>1. \A p \in in.plugins : p.enabled => p.name # "function"
        BY <1>2, <1>4, <2>3 DEF Inbound
      <3> QED
        BY <1>8, <1>9, <1>11, <2>1, <2>3, <3>1 DEF Untouched
    <2> QED
      BY <1>1, <1>9, <1>11, <2>2, <2>3 DEF Admitted
  <1>12. ASSUME o.outcome = "sent"
         PROVE  /\ o.body = made("wasm", req.body)
                /\ \A p \in Named(in.plugins, "webhookx-signature") :
                      o.signature = [of |-> o.body, with |-> p.config.secret]
    <2>1. ASSUME NEW p \in Named(in.plugins, "webhookx-signature")
          PROVE  o.signature = [of |-> o.body, with |-> p.config.secret]
      <3>1. PICK k \in 1 .. Len(co) : co[k] = p
        BY <1>3, <1>5 DEF Named, Outbound
      <3>2. co[k].name = "webhookx-signature"
        BY <3>1 DEF Named
      <3> QED
        BY <1>1, <1>10, <1>12, <3>1, <3>2 DEF Signed
    <2>2. CASE \E p \in in.plugins : p.enabled /\ p.name = "wasm"
      <3>1. PICK p \in in.plugins : p.enabled /\ p.name = "wasm"
        BY <2>2
      <3>2. PICK k \in 1 .. Len(co) : co[k] = p
        BY <1>3, <1>5, <3>1 DEF Outbound
      <3>3. xo.body = p.config.script[req.body]
        BY <1>1, <1>10, <1>12, <3>1, <3>2 DEF Signed
      <3> QED
        BY <1>7, <1>10, <1>12, <2>1, <3>1, <3>3
    <2>3. CASE \A p \in in.plugins : p.enabled => p.name # "wasm"
      <3>1. \A k \in 1 .. Len(co) : co[k].name # "wasm"
        BY <1>3, <2>3 DEF Loaded
      <3> QED
        BY <1>1, <1>8, <1>10, <1>12, <2>1, <2>3, <3>1 DEF Signed
    <2> QED
      BY <2>2, <2>3
  <1>13. ASSUME "panic" \in {i.outcome, o.outcome}
         PROVE  \E p \in in.plugins : p.enabled /\ p.onSource /\ p.onEndpoint
    <2>1. CASE i.outcome = "panic"
      <3>1. PICK k \in 1 .. Len(ci) : ci[k].name \in Outbound
        BY <1>1, <1>9, <2>1 DEF Admitted
      <3>2. ci[k] \in in.plugins /\ ci[k].enabled /\ ci[k].onSource
        BY <1>2 DEF Loaded
      <3> QED
        BY <3>1, <3>2 DEF IsChain, ValidPlugin
    <2>2. CASE o.outcome = "panic"
      <3>1. PICK k \in 1 .. Len(co) : co[k].name \in Inbound
        BY <1>1, <1>10, <2>2 DEF Signed
      <3>2. co[k] \in in.plugins /\ co[k].enabled /\ co[k].onEndpoint
        BY <1>3 DEF Loaded
      <3> QED
        BY <3>1, <3>2 DEF IsChain, ValidPlugin
    <2> QED
      BY <1>13, <2>1, <2>2
  <1> QED
    BY <1>11, <1>12, <1>13

-----------------------------------------------------------------------------
(* Configuration *)

\* The recursive definition of Assigned has its fixed point.
LEMMA AssignedDef ==
  ASSUME NEW s, NEW source, NEW fields, Len(fields) \in Nat, NEW file
  PROVE  LET x == Assigned(s, source, fields, file)
         IN  x = [k \in 0 .. Len(fields) |->
                     IF k = 0 THEN s ELSE Assign(x[k - 1], fields[k], source[fields[k]], file)]
  <1> DEFINE n == Len(fields)
             Step(c, k) == Assign(c, fields[k], source[fields[k]], file)
             Is(g, m) == g = [k \in 0 .. m |-> IF k = 0 THEN s ELSE Step(g[k - 1], k)]
             S == {m \in 0 .. n : \E g : Is(g, m)}
  <1> HIDE DEF Step
  <1>1. 0 \in S
    <2> DEFINE h == [k \in 0 .. 0 |-> s]
    <2>1. h = [k \in 0 .. 0 |-> h[k]] /\ \A k \in 0 .. 0 : k = 0 /\ h[k] = s
      OBVIOUS
    <2> HIDE DEF h
    <2>2. Is(h, 0)
      BY <2>1
    <2> QED
      BY <2>2
  <1>2. ASSUME NEW m \in 0 .. n - 1, m \in S
        PROVE  m + 1 \in S
    <2>1. PICK g : Is(g, m)
      BY <1>2
    <2> DEFINE h == [k \in 0 .. m + 1 |-> IF k = m + 1 THEN Step(g[m], m + 1) ELSE g[k]]
    <2>2. ASSUME NEW k \in 0 .. m + 1
          PROVE  h[k] = IF k = 0 THEN s ELSE Step(h[k - 1], k)
      <3>1. CASE k = m + 1
        BY <3>1
      <3>2. CASE k \in 0 .. m
        BY <3>2, <2>1
      <3> QED
        BY <3>1, <3>2
    <2>3. h = [k \in 0 .. m + 1 |-> h[k]]
      OBVIOUS
    <2> HIDE DEF h
    <2>4. Is(h, m + 1)
      BY <2>2, <2>3
    <2> QED
      BY <2>4
  <1>3. n \in S
    <2>1. \A m \in 0 .. n - 1 : m \in S => m + 1 \in S
      BY <1>2
    <2>2. n \in Nat /\ n \in 0 .. n
      OBVIOUS
    <2> HIDE DEF S, n
    <2> QED
      BY <1>1, <2>1, <2>2, InductionUpTo
  <1>4. \E g : Is(g, n)
    BY <1>3
  <1> QED
    BY <1>4 DEF Assigned, Step

-----------------------------------------------------------------------------
\* The fields of a configuration.
FieldNames == ToSet(Fields)

\* The fields are those of the defaults, each once.
LEMMA FieldsAre ==
  /\ FieldNames = {"log.level", "redis.password", "admin.listen", "status.listen", "proxy.listen",
                   "worker.enabled", "role", "secret.providers"}
  /\ Len(Fields) = 8 /\ \A i \in 1 .. 8 : Fields[i] \in FieldNames
  /\ \A f \in FieldNames : \E i \in 1 .. 8 : Fields[i] = f
  BY DEF FieldNames, ToSet, Fields

\* The cache holds for a name what some reference to it means.
CacheMeans(in, held) ==
    \A key \in DOMAIN held :
       \E r \in Refs(in) : CacheKey(r) = key /\ held[key] = Secrets[<<r.provider, r.name, r.version>>]

\* A state of the loader.
IsLoader(in, s) ==
    /\ s = [cfg |-> s.cfg, cache |-> s.cache, manager |-> s.manager, text |-> s.text,
            ttl |-> s.ttl, failed |-> s.failed]
    /\ s.cfg = [f \in FieldNames |-> s.cfg[f]]
    /\ s.failed \in BOOLEAN /\ s.ttl = in.ttl
    /\ CacheMeans(in, s.cache)

\* The cache may take a reference for another one.
Mistaken(in, v) ==
    /\ in.ttl /\ v.kind = "ref"
    /\ \E r \in Refs(in) : CacheKey(r) = CacheKey(v) /\ r.version # v.version

\* A field that had a value has another after it was read from a source.
Gets(in, v, file, old, new, resolving) ==
    \/ new = IF Meaning(v, file, resolving).kind = "absent" THEN old ELSE Meaning(v, file, resolving).text
    \/ resolving /\ Mistaken(in, v)

\* The text of a reference.
SecretText(v) == Secrets[<<v.provider, v.name, v.version>>][v.path]

\* What resolving a reference leaves alone, and that the text is what it means.
ResolvedFrom(in, s, v, t) ==
    /\ IsLoader(in, t) /\ t.cfg = s.cfg /\ t.manager = s.manager
    /\ ~t.failed => t.text = SecretText(v) \/ Mistaken(in, v)

\* Resolving a reference keeps the loader well-formed; unless it fails, the text is what
\* the reference means or the cache takes it for.
LEMMA ResolveIs ==
  ASSUME NEW in, IsConfiguration(in), NEW s, IsLoader(in, s), ~s.failed, NEW v \in Refs(in)
  PROVE  ResolvedFrom(in, s, v, ResolveReference(s, v))
  <1> DEFINE t == ResolveReference(s, v)
             key == CacheKey(v)
             cached == s.ttl /\ key \in DOMAIN s.cache
             secret == <<v.provider, v.name, v.version>>
             value == IF cached THEN s.cache[key] ELSE Secrets[secret]
             kept == IF cached THEN s ELSE Keep(s, v, value)
  <1> SUFFICES ResolvedFrom(in, s, v, t)
    OBVIOUS
  <1>1. v.kind = "ref"
    BY DEF Refs
  <1>2. t = Fail(s) \/ t = [kept EXCEPT !.text = value[v.path]]
    BY DEF ResolveReference
  <1>3. CASE t = Fail(s)
    <2>1. t.failed /\ t.failed \in BOOLEAN /\ t.cfg = s.cfg /\ t.manager = s.manager /\ t.cache = s.cache
          /\ t.ttl = s.ttl
      BY <1>3 DEF Fail, IsLoader
    <2>2. t = [cfg |-> t.cfg, cache |-> t.cache, manager |-> t.manager, text |-> t.text,
               ttl |-> t.ttl, failed |-> t.failed]
      BY <1>3 DEF Fail, IsLoader
    <2> HIDE DEF t
    <2> QED
      BY <2>1, <2>2 DEF IsLoader, ResolvedFrom
  <1>4. CASE t = [kept EXCEPT !.text = value[v.path]]
    <2>1. /\ kept.cfg = s.cfg /\ kept.manager = s.manager /\ kept.ttl = s.ttl /\ kept.failed = s.failed
          /\ kept = [cfg |-> kept.cfg, cache |-> kept.cache, manager |-> kept.manager, text |-> kept.text,
                     ttl |-> kept.ttl, failed |-> kept.failed]
      BY DEF Keep, IsLoader
    <2>2. \/ kept.cache = s.cache
          \/ kept.cache = [k \in DOMAIN s.cache \cup {key} |-> IF k = key THEN value ELSE s.cache[k]]
      BY DEF Keep, IsLoader
    <2>3. \E r \in Refs(in) : CacheKey(r) = key /\ value = Secrets[<<r.provider, r.name, r.version>>]
                              /\ (r.version # v.version => s.ttl)
      BY DEF IsLoader, CacheMeans
    <2>4. CacheMeans(in, kept.cache)
      <3> HIDE DEF kept, value, key
      <3>1. CASE kept.cache = s.cache
        BY <3>1 DEF IsLoader
      <3>2. CASE kept.cache = [k \in DOMAIN s.cache \cup {key} |-> IF k = key THEN value ELSE s.cache[k]]
        <4> DEFINE c == kept.cache
        <4> HIDE DEF c
        <4>1. DOMAIN c = DOMAIN s.cache \cup {key} /\ c[key] = value
              /\ \A k \in DOMAIN s.cache : k # key => c[k] = s.cache[k]
          <5> DEFINE held == s.cache
          <5>1. c = [k \in DOMAIN held \cup {key} |-> IF k = key THEN value ELSE held[k]]
            BY <3>2 DEF c
          <5> HIDE DEF held
          <5>2. DOMAIN c = DOMAIN held \cup {key} /\ c[key] = value
                /\ \A k \in DOMAIN held : k # key => c[k] = held[k]
            BY <5>1
          <5> QED
            BY <5>2 DEF held
        <4>2. CacheMeans(in, s.cache)
          BY DEF IsLoader
        <4>3. ASSUME NEW k \in DOMAIN c
              PROVE  \E r \in Refs(in) : CacheKey(r) = k /\ c[k] = Secrets[<<r.provider, r.name, r.version>>]
          <5>1. CASE k = key
            BY <2>3, <4>1, <5>1
          <5>2. CASE k # key
            <6>1. k \in DOMAIN s.cache /\ c[k] = s.cache[k]
              BY <4>1, <5>2
            <6> QED
              BY <4>2, <6>1, Zenon DEF CacheMeans
          <5> QED
            BY <5>1, <5>2
        <4> QED
          BY <4>3 DEF c, CacheMeans
      <3> QED
        BY <2>2, <3>1, <3>2
    <2>5. value[v.path] = SecretText(v) \/ Mistaken(in, v)
      <3>1. PICK r \in Refs(in) : CacheKey(r) = key /\ value = Secrets[<<r.provider, r.name, r.version>>]
                              /\ (r.version # v.version => s.ttl)
        BY <2>3
      <3>2. r.provider = v.provider /\ r.name = v.name
        BY <3>1 DEF CacheKey
      <3>3. s.ttl = in.ttl
        BY DEF IsLoader
      <3> HIDE DEF value
      <3>4. CASE r.version = v.version
        BY <3>1, <3>2, <3>4 DEF SecretText
      <3>5. CASE r.version # v.version
        BY <1>1, <3>1, <3>3, <3>5 DEF Mistaken
      <3> QED
        BY <3>4, <3>5
    <2> HIDE DEF kept, value
    <2>6. /\ t.cfg = s.cfg /\ t.manager = s.manager /\ t.ttl = s.ttl /\ t.failed = s.failed
          /\ t.cache = kept.cache /\ t.text = value[v.path]
          /\ t = [cfg |-> t.cfg, cache |-> t.cache, manager |-> t.manager, text |-> t.text,
                  ttl |-> t.ttl, failed |-> t.failed]
      BY <1>4, <2>1
    <2> HIDE DEF t
    <2> QED
      BY <2>4, <2>5, <2>6 DEF IsLoader, ResolvedFrom
  <1> QED
    BY <1>2, <1>3, <1>4

\* What assigning a field changes.
AssignedFrom(in, s, f, v, file, t) ==
    /\ IsLoader(in, t) /\ t.manager = s.manager
    /\ s.failed => t.failed
    /\ ~t.failed =>
          /\ \A g \in FieldNames \ {f} : t.cfg[g] = s.cfg[g]
          /\ Gets(in, v, file, s.cfg[f], t.cfg[f], s.manager # {})

\* Assigning a field changes that field alone, and the value is what its source means.
LEMMA AssignIs ==
  ASSUME NEW in, IsConfiguration(in), NEW s, IsLoader(in, s), NEW f \in FieldNames,
         NEW v, v.kind = "ref" => v \in Refs(in), NEW file \in BOOLEAN
  PROVE  AssignedFrom(in, s, f, v, file, Assign(s, f, v, file))
  <1> DEFINE t == Assign(s, f, v, file)
             resolving == v.kind = "ref" /\ s.manager # {}
             r == IF resolving THEN ResolveReference(s, v) ELSE s
             w == CASE resolving /\ file -> RewriteScalarNode(r.text)
                    [] resolving /\ ~file -> Text(r.text)
                    [] v.kind = "ref" /\ ~resolving -> Text(Unresolved)
                    [] OTHER -> v
             m == Meaning(v, file, s.manager # {})
  <1> SUFFICES AssignedFrom(in, s, f, v, file, t)
    OBVIOUS
  <1>1. CASE s.failed
    <2>1. t = s
      BY <1>1 DEF Assign
    <2> HIDE DEF t
    <2> QED
      BY <1>1, <2>1 DEF AssignedFrom, IsLoader
  <1>2. CASE ~s.failed
    <2>1. t = IF r.failed \/ w.kind = "absent" THEN r
              ELSE IF ~Parses(f, w.text) THEN Fail(r) ELSE [r EXCEPT !.cfg[f] = w.text]
      BY <1>2 DEF Assign
    <2>2. /\ IsLoader(in, r) /\ r.cfg = s.cfg /\ r.manager = s.manager
          /\ ~r.failed => w = m \/ ((s.manager # {}) /\ Mistaken(in, v))
      <3>1. CASE resolving
        <4>1. ResolvedFrom(in, s, v, r)
          BY <1>2, <3>1, ResolveIs
        <4>2. file \in BOOLEAN /\ v.kind = "ref" /\ s.manager # {}
          BY <3>1
        <4>3. w = IF file THEN RewriteScalarNode(r.text) ELSE Text(r.text)
          BY <3>1
        <4>4. m = IF file THEN RewriteScalarNode(SecretText(v)) ELSE Text(SecretText(v))
          BY <4>2 DEF Meaning, SecretText
        <4> HIDE DEF r, w, m
        <4> QED
          BY <4>1, <4>2, <4>3, <4>4 DEF ResolvedFrom
      <3>2. CASE ~resolving
        <4>1. r = s
          BY <3>2
        <4>2. w = m
          <5>1. CASE v.kind = "ref"
            <6>1. ~(s.manager # {})
              BY <3>2, <5>1
            <6> QED
              BY <3>2, <5>1, <6>1 DEF Meaning
          <5>2. CASE v.kind # "ref"
            BY <5>2 DEF Meaning
          <5> QED
            BY <5>1, <5>2
        <4> HIDE DEF r, w, m
        <4> QED
          BY <4>1, <4>2
      <3> QED
        BY <3>1, <3>2
    <2> HIDE DEF r, t, w
    <2>3. CASE t = Fail(r)
      <3>1. t.failed /\ t.failed \in BOOLEAN /\ t.cfg = r.cfg /\ t.manager = r.manager /\ t.cache = r.cache
            /\ t.ttl = r.ttl
        BY <2>2, <2>3 DEF Fail, IsLoader
      <3>2. t = [cfg |-> t.cfg, cache |-> t.cache, manager |-> t.manager, text |-> t.text,
                 ttl |-> t.ttl, failed |-> t.failed]
        BY <2>2, <2>3 DEF Fail, IsLoader
      <3> QED
        BY <2>2, <3>1, <3>2 DEF IsLoader, AssignedFrom
    <2>4. CASE t = r /\ (r.failed \/ w.kind = "absent")
      <3>1. ASSUME ~t.failed
            PROVE  Gets(in, v, file, s.cfg[f], t.cfg[f], s.manager # {})
        BY <2>2, <2>4, <3>1 DEF Gets
      <3> QED
        BY <1>2, <2>2, <2>4, <3>1 DEF AssignedFrom
    <2>5. CASE ~r.failed /\ w.kind # "absent" /\ t = [r EXCEPT !.cfg[f] = w.text]
      <3>1. /\ t.cfg = [r.cfg EXCEPT ![f] = w.text] /\ t.manager = r.manager /\ t.cache = r.cache
            /\ t.ttl = r.ttl /\ t.failed = r.failed
            /\ t = [cfg |-> t.cfg, cache |-> t.cache, manager |-> t.manager, text |-> t.text,
                    ttl |-> t.ttl, failed |-> t.failed]
        BY <2>2, <2>5 DEF IsLoader
      <3>2. /\ t.cfg = [g \in FieldNames |-> t.cfg[g]] /\ t.cfg[f] = w.text
            /\ \A g \in FieldNames \ {f} : t.cfg[g] = r.cfg[g]
        BY <2>2, <3>1 DEF IsLoader
      <3>3. Gets(in, v, file, s.cfg[f], t.cfg[f], s.manager # {})
        BY <2>2, <2>5, <3>2 DEF Gets
      <3> HIDE DEF m
      <3> QED
        BY <1>2, <2>2, <2>5, <3>1, <3>2, <3>3 DEF IsLoader, AssignedFrom
    <2> QED
      BY <2>1, <2>3, <2>4, <2>5
  <1> QED
    BY <1>1, <1>2

\* What reading the first k fields of a source changes.
ReadFrom(in, s, source, fields, file, k, t) ==
    /\ IsLoader(in, t) /\ t.manager = s.manager
    /\ s.failed => t.failed
    /\ ~t.failed =>
          \A g \in FieldNames :
             IF \E j \in 1 .. k : fields[j] = g
             THEN Gets(in, source[g], file, s.cfg[g], t.cfg[g], s.manager # {})
             ELSE t.cfg[g] = s.cfg[g]

\* One more field of a source is read.
LEMMA ReadStep ==
  ASSUME NEW in, NEW s, NEW source, NEW fields, NEW file, NEW k \in Nat, NEW t, NEW u,
         ReadFrom(in, s, source, fields, file, k, t), fields[k + 1] \in FieldNames,
         AssignedFrom(in, t, fields[k + 1], source[fields[k + 1]], file, u)
  PROVE  ReadFrom(in, s, source, fields, file, k + 1, u)
  <1> DEFINE f == fields[k + 1]
  <1>1. /\ IsLoader(in, u) /\ u.manager = s.manager /\ (s.failed => u.failed) /\ (t.failed => u.failed)
        /\ t.manager = s.manager
    BY DEF ReadFrom, AssignedFrom
  <1>2. ASSUME ~u.failed, NEW g \in FieldNames
        PROVE  IF \E j \in 1 .. k + 1 : fields[j] = g
               THEN Gets(in, source[g], file, s.cfg[g], u.cfg[g], s.manager # {})
               ELSE u.cfg[g] = s.cfg[g]
    <2>1. ~t.failed
      BY <1>1, <1>2
    <2>2. (\E j \in 1 .. k + 1 : fields[j] = g) <=> (\E j \in 1 .. k : fields[j] = g) \/ g = f
      <3>1. \A j : j \in 1 .. k + 1 <=> j \in 1 .. k \/ j = k + 1
        OBVIOUS
      <3> QED
        BY <3>1
    <2>3. IF \E j \in 1 .. k : fields[j] = g
          THEN Gets(in, source[g], file, s.cfg[g], t.cfg[g], s.manager # {})
          ELSE t.cfg[g] = s.cfg[g]
      BY <2>1 DEF ReadFrom
    <2>4. CASE g # f
      <3>1. u.cfg[g] = t.cfg[g]
        BY <1>2, <2>4 DEF AssignedFrom
      <3> QED
        BY <2>2, <2>3, <2>4, <3>1
    <2>5. CASE g = f
      <3>1. Gets(in, source[g], file, t.cfg[g], u.cfg[g], s.manager # {})
        BY <1>1, <1>2, <2>5 DEF AssignedFrom
      <3>2. t.cfg[g] = s.cfg[g] \/ Gets(in, source[g], file, s.cfg[g], t.cfg[g], s.manager # {})
        BY <2>3
      <3>3. Gets(in, source[g], file, s.cfg[g], u.cfg[g], s.manager # {})
        BY <3>1, <3>2 DEF Gets
      <3> QED
        BY <2>2, <2>5, <3>3
    <2> QED
      BY <2>4, <2>5
  <1> QED
    BY <1>1, <1>2 DEF ReadFrom

\* After a source is read, its fields have what it says and the others what they had.
LEMMA ReadIs ==
  ASSUME NEW in, IsConfiguration(in), NEW s, IsLoader(in, s), NEW source \in {in.yaml, in.env},
         NEW file \in BOOLEAN, NEW fields, Len(fields) \in Nat, \A j \in 1 .. Len(fields) : fields[j] \in FieldNames
  PROVE  ReadFrom(in, s, source, fields, file, Len(fields), Assigned(s, source, fields, file)[Len(fields)])
  <1> DEFINE n == Len(fields)
             x == Assigned(s, source, fields, file)
             S == {k \in 0 .. n : ReadFrom(in, s, source, fields, file, k, x[k])}
  <1>1. x = [k \in 0 .. n |-> IF k = 0 THEN s ELSE Assign(x[k - 1], fields[k], source[fields[k]], file)]
    BY AssignedDef
  <1> HIDE DEF x
  <1>2. 0 \in S
    <2>1. x[0] = s
      BY <1>1
    <2>2. ReadFrom(in, s, source, fields, file, 0, s)
      BY DEF ReadFrom
    <2> QED
      BY <2>1, <2>2
  <1>3. ASSUME NEW k \in 0 .. n - 1, k \in S
        PROVE  k + 1 \in S
    <2>1. x[k + 1] = Assign(x[k], fields[k + 1], source[fields[k + 1]], file) /\ k + 1 \in 0 .. n
      BY <1>1
    <2>2. fields[k + 1] \in FieldNames
      OBVIOUS
    <2>3. ReadFrom(in, s, source, fields, file, k, x[k]) /\ IsLoader(in, x[k])
      BY <1>3 DEF ReadFrom
    <2>4. source[fields[k + 1]].kind = "ref" => source[fields[k + 1]] \in Refs(in)
      BY <2>2 DEF Refs, FieldNames
    <2>5. AssignedFrom(in, x[k], fields[k + 1], source[fields[k + 1]], file, x[k + 1])
      BY <2>1, <2>2, <2>3, <2>4, AssignIs
    <2>6. ReadFrom(in, s, source, fields, file, k + 1, x[k + 1])
      BY <2>2, <2>3, <2>5, ReadStep
    <2> QED
      BY <2>1, <2>6
  <1>4. n \in S
    <2>1. n \in Nat /\ n \in 0 .. n
      OBVIOUS
    <2> HIDE DEF S, n
    <2> QED
      BY <1>2, <1>3, <2>1, InductionUpTo
  <1> QED
    BY <1>4 DEF x

\* What loading a part of the configuration changes.
LoadedFrom(in, s, fields, t) ==
    /\ IsLoader(in, t) /\ t.manager = s.manager
    /\ s.failed => t.failed
    /\ ~t.failed =>
          \A g \in FieldNames :
             IF \E j \in 1 .. Len(fields) : fields[j] = g
             THEN Gets(in, Given(in, g), FromFile(in, g), s.cfg[g], t.cfg[g], s.manager # {})
             ELSE t.cfg[g] = s.cfg[g]

\* A module has what the environment says, else the file, else what it had.
LEMMA LoadModuleIs ==
  ASSUME NEW in, IsConfiguration(in), NEW s, IsLoader(in, s),
         NEW fields, Len(fields) \in Nat, \A j \in 1 .. Len(fields) : fields[j] \in FieldNames
  PROVE  LoadedFrom(in, s, fields, LoadModule(s, in, fields))
  <1> DEFINE n == Len(fields)
             y == LoadYAML(s, in.yaml, fields)
             t == LoadModule(s, in, fields)
  <1>1. ReadFrom(in, s, in.yaml, fields, TRUE, n, y)
    BY ReadIs DEF LoadYAML
  <1> HIDE DEF y
  <1>2. ReadFrom(in, y, in.env, fields, FALSE, n, t)
    <2>1. IsLoader(in, y)
      BY <1>1 DEF ReadFrom
    <2>2. t = Assigned(y, in.env, fields, FALSE)[n]
      BY DEF LoadModule, LoadEnv, y
    <2> HIDE DEF t
    <2> QED
      BY <2>1, <2>2, ReadIs
  <1> HIDE DEF t
  <1>3. LoadedFrom(in, s, fields, t)
    <2>1. /\ IsLoader(in, t) /\ t.manager = s.manager /\ (s.failed => t.failed) /\ (y.failed => t.failed)
          /\ y.manager = s.manager
      BY <1>1, <1>2 DEF ReadFrom
    <2>2. ASSUME ~t.failed, NEW g \in FieldNames
          PROVE  IF \E j \in 1 .. n : fields[j] = g
                 THEN Gets(in, Given(in, g), FromFile(in, g), s.cfg[g], t.cfg[g], s.manager # {})
                 ELSE t.cfg[g] = s.cfg[g]
      <3>1. IF \E j \in 1 .. n : fields[j] = g
            THEN Gets(in, in.env[g], FALSE, y.cfg[g], t.cfg[g], s.manager # {})
            ELSE t.cfg[g] = y.cfg[g]
        BY <1>2, <2>1, <2>2 DEF ReadFrom
      <3>2. IF \E j \in 1 .. n : fields[j] = g
            THEN Gets(in, in.yaml[g], TRUE, s.cfg[g], y.cfg[g], s.manager # {})
            ELSE y.cfg[g] = s.cfg[g]
        BY <1>1, <2>1, <2>2 DEF ReadFrom
      <3>3. CASE ~\E j \in 1 .. n : fields[j] = g
        BY <3>1, <3>2, <3>3
      <3>4. CASE (\E j \in 1 .. n : fields[j] = g) /\ in.env[g].kind = "absent"
        <4>1. Given(in, g) = in.yaml[g] /\ FromFile(in, g) = TRUE
          BY <3>4 DEF Given, FromFile
        <4>2. Meaning(in.env[g], FALSE, s.manager # {}) = in.env[g] /\ ~Mistaken(in, in.env[g])
          BY <3>4 DEF Meaning, Mistaken
        <4>3. t.cfg[g] = y.cfg[g]
          BY <3>1, <3>4, <4>2 DEF Gets
        <4> QED
          BY <3>2, <3>4, <4>1, <4>3
      <3>5. CASE (\E j \in 1 .. n : fields[j] = g) /\ in.env[g].kind # "absent"
        <4>1. Given(in, g) = in.env[g] /\ FromFile(in, g) = FALSE
          BY <3>5 DEF Given, FromFile
        <4>2. Meaning(in.env[g], FALSE, s.manager # {}).kind # "absent"
          BY <3>5 DEF Meaning, Text
        <4>3. Gets(in, in.env[g], FALSE, s.cfg[g], t.cfg[g], s.manager # {})
          BY <3>1, <3>5, <4>2 DEF Gets
        <4> QED
          BY <3>5, <4>1, <4>3
      <3> QED
        BY <3>3, <3>4, <3>5
    <2> QED
      BY <2>1, <2>2 DEF LoadedFrom
  <1> QED
    BY <1>3 DEF t

\* The loader at its start.
Started(in) ==
    [cfg |-> Defaults, cache |-> [k \in {} |-> ""], manager |-> {}, text |-> "", ttl |-> in.ttl, failed |-> FALSE]

\* The loader after the secrets, after the log, and at its end; and whether it resolves
\* references.
AfterSecrets(in, s) == IF in.licensed THEN LoadModule(s, in, <<"secret.providers">>) ELSE s

AfterLog(in, s) ==
    IF in.licensed /\ Providers(s.cfg["secret.providers"]) # {}
    THEN LoadModule([s EXCEPT !.manager = Manager(s.cfg["secret.providers"])], in, <<"log.level">>)
    ELSE s

LoaderEnd(in) == LoadModule(AfterLog(in, AfterSecrets(in, Started(in))), in, Fields)

Resolving(in) == in.licensed /\ Manager(Expected(in, "secret.providers", FALSE)) # {}

\* A field that no source gives a value still has its default.
Pending(in, s) ==
    \A g \in FieldNames :
       Meaning(Given(in, g), FromFile(in, g), Resolving(in)).kind = "absent" /\ ~Mistaken(in, Given(in, g))
       => s.cfg[g] = Defaults[g]

\* The loader starts with the defaults.
LEMMA StartedIs ==
  ASSUME NEW in, IsConfiguration(in)
  PROVE  IsLoader(in, Started(in)) /\ Pending(in, Started(in)) /\ Started(in).manager = {}
  <1> DEFINE s == Started(in)
  <1>1. /\ s.cfg = Defaults /\ s.cache = [k \in {} |-> ""] /\ s.manager = {} /\ s.ttl = in.ttl
        /\ ~s.failed /\ s.failed \in BOOLEAN
        /\ s = [cfg |-> s.cfg, cache |-> s.cache, manager |-> s.manager, text |-> s.text,
                ttl |-> s.ttl, failed |-> s.failed]
    BY DEF Started
  <1>2. CacheMeans(in, s.cache)
    BY <1>1 DEF CacheMeans
  <1>3. Defaults = [f \in FieldNames |-> Defaults[f]]
    BY DefaultsAssumption, FieldsAre
  <1> HIDE DEF s
  <1>4. IsLoader(in, s) /\ Pending(in, s) /\ s.manager = {}
    BY <1>1, <1>2, <1>3 DEF IsLoader, Pending
  <1> QED
    BY <1>4 DEF s

\* The providers of secrets are those that the sources say.
LEMMA AfterSecretsIs ==
  ASSUME NEW in, IsConfiguration(in), NEW s, s = AfterSecrets(in, Started(in))
  PROVE  /\ IsLoader(in, s) /\ s.manager = {}
         /\ ~s.failed => Pending(in, s)
         /\ ~s.failed /\ in.licensed =>
               s.cfg["secret.providers"] = Expected(in, "secret.providers", FALSE)
  <1> DEFINE r == Started(in)
             fields == <<"secret.providers">>
             f == "secret.providers"
  <1>1. IsLoader(in, r) /\ Pending(in, r) /\ r.manager = {}
    BY StartedIs
  <1>2. CASE ~in.licensed
    BY <1>1, <1>2 DEF AfterSecrets
  <1>3. CASE in.licensed
    <2>1. Len(fields) = 1 /\ fields[1] = f /\ f \in FieldNames
      BY FieldsAre
    <2>2. s = LoadModule(r, in, fields)
      BY <1>3 DEF AfterSecrets
    <2> HIDE DEF fields, r
    <2>3. LoadedFrom(in, r, fields, s)
      <3>1. Len(fields) \in Nat /\ \A j \in 1 .. Len(fields) : fields[j] \in FieldNames
        BY <2>1
      <3> QED
        BY <1>1, <2>2, <3>1, LoadModuleIs
    <2>4. IsLoader(in, s) /\ s.manager = {}
      BY <1>1, <2>3 DEF LoadedFrom
    <2>5. ASSUME ~s.failed
          PROVE  /\ \A g \in FieldNames : g # f => s.cfg[g] = r.cfg[g]
                 /\ Gets(in, Given(in, f), FromFile(in, f), r.cfg[f], s.cfg[f], FALSE)
      <3>1. ASSUME NEW g \in FieldNames
            PROVE  IF \E j \in 1 .. Len(fields) : fields[j] = g
                   THEN Gets(in, Given(in, g), FromFile(in, g), r.cfg[g], s.cfg[g], r.manager # {})
                   ELSE s.cfg[g] = r.cfg[g]
        BY <2>3, <2>5 DEF LoadedFrom
      <3>2. (r.manager # {}) = FALSE
        BY <1>1
      <3>3. \A g \in FieldNames : g # f => s.cfg[g] = r.cfg[g]
        BY <2>1, <3>1
      <3>4. Gets(in, Given(in, f), FromFile(in, f), r.cfg[f], s.cfg[f], FALSE)
        <4>1. f \in FieldNames /\ \E j \in 1 .. Len(fields) : fields[j] = f
          BY <2>1
        <4>2. Gets(in, Given(in, f), FromFile(in, f), r.cfg[f], s.cfg[f], r.manager # {})
          BY <3>1, <4>1
        <4> QED
          BY <3>2, <4>2
      <3> QED
        BY <3>3, <3>4
    <2>6. r.cfg[f] = Defaults[f]
      BY DEF r, Started
    <2>7. ASSUME ~s.failed
          PROVE  s.cfg[f] = Expected(in, f, FALSE)
      BY <2>5, <2>6, <2>7 DEF Gets, Expected
    <2>8. Given(in, f).kind = "ref" => ~Resolving(in)
      <3>1. Given(in, f).kind = "ref" => Expected(in, f, FALSE) = Unresolved
        BY DEF Expected, Meaning, Text
      <3>2. Manager(Unresolved) = {}
        BY DEF Manager, Providers, Unresolved
      <3> QED
        BY <3>1, <3>2 DEF Resolving
    <2>9. ASSUME ~s.failed
          PROVE  Pending(in, s)
      <3>1. ASSUME Meaning(Given(in, f), FromFile(in, f), Resolving(in)).kind = "absent"
            PROVE  s.cfg[f] = Defaults[f]
        <4>1. Given(in, f).kind # "ref"
          BY <2>8, <3>1 DEF Meaning, Text
        <4>2. Meaning(Given(in, f), FromFile(in, f), FALSE).kind = "absent"
          BY <3>1, <4>1 DEF Meaning
        <4> QED
          BY <2>7, <2>9, <4>2 DEF Expected
      <3> QED
        BY <1>1, <2>1, <2>5, <2>9, <3>1 DEF Pending
    <2> QED
      BY <2>4, <2>7, <2>9
  <1> QED
    BY <1>2, <1>3 DEF IsConfiguration

\* The manager is there for everything that is loaded last.
LEMMA AfterLogIs ==
  ASSUME NEW in, IsConfiguration(in), NEW s, s = AfterLog(in, AfterSecrets(in, Started(in)))
  PROVE  /\ IsLoader(in, s)
         /\ ~s.failed => Pending(in, s) /\ (s.manager # {} <=> Resolving(in))
  <1> DEFINE a == AfterSecrets(in, Started(in))
             fields == <<"log.level">>
             f == "secret.providers"
  <1>1. /\ IsLoader(in, a) /\ a.manager = {}
        /\ ~a.failed => Pending(in, a)
        /\ ~a.failed /\ in.licensed => a.cfg[f] = Expected(in, f, FALSE)
    <2> HIDE DEF a
    <2> QED
      BY AfterSecretsIs DEF a
  <1>2. s = IF in.licensed /\ Providers(a.cfg[f]) # {}
            THEN LoadModule([a EXCEPT !.manager = Manager(a.cfg[f])], in, fields)
            ELSE a
    BY DEF AfterLog
  <1> HIDE DEF a, fields
  <1>3. CASE ~(in.licensed /\ Providers(a.cfg[f]) # {})
    <2>1. s = a
      BY <1>2, <1>3
    <2>2. ~s.failed => ~Resolving(in)
      BY <1>1, <1>3, <2>1 DEF Resolving, Manager, IsConfiguration
    <2> QED
      BY <1>1, <2>1, <2>2
  <1>4. CASE in.licensed /\ Providers(a.cfg[f]) # {}
    <2> DEFINE b == [a EXCEPT !.manager = Manager(a.cfg[f])]
    <2>1. /\ b.cfg = a.cfg /\ b.cache = a.cache /\ b.manager = Manager(a.cfg[f]) /\ b.text = a.text
          /\ b.ttl = a.ttl /\ b.failed = a.failed
          /\ b = [cfg |-> b.cfg, cache |-> b.cache, manager |-> b.manager, text |-> b.text,
                  ttl |-> b.ttl, failed |-> b.failed]
      BY <1>1 DEF IsLoader
    <2>2. s = LoadModule(b, in, fields)
      BY <1>2, <1>4
    <2> HIDE DEF b
    <2>3. IsLoader(in, b)
      BY <1>1, <2>1 DEF IsLoader
    <2>4. Len(fields) \in Nat /\ \A j \in 1 .. Len(fields) : fields[j] \in FieldNames
      BY FieldsAre DEF fields
    <2>5. LoadedFrom(in, b, fields, s)
      BY <2>2, <2>3, <2>4, LoadModuleIs
    <2>6. IsLoader(in, s) /\ s.manager = b.manager /\ (~s.failed => ~b.failed)
      BY <2>5 DEF LoadedFrom
    <2>7. ASSUME ~s.failed PROVE s.manager # {} <=> Resolving(in)
      <3>1. a.cfg[f] = Expected(in, f, FALSE)
        BY <1>1, <1>4, <2>1, <2>6, <2>7
      <3> QED
        BY <1>4, <2>1, <2>6, <3>1 DEF Resolving
    <2>8. ASSUME ~s.failed PROVE Pending(in, s)
      <3>1. (b.manager # {}) = Resolving(in)
        BY <2>6, <2>7, <2>8 DEF Resolving
      <3>2. ASSUME NEW g \in FieldNames, ~Mistaken(in, Given(in, g)),
                   Meaning(Given(in, g), FromFile(in, g), Resolving(in)).kind = "absent"
            PROVE  s.cfg[g] = b.cfg[g]
        <4>1. \/ Gets(in, Given(in, g), FromFile(in, g), b.cfg[g], s.cfg[g], Resolving(in))
              \/ s.cfg[g] = b.cfg[g]
          <5>1. \/ Gets(in, Given(in, g), FromFile(in, g), b.cfg[g], s.cfg[g], b.manager # {})
                \/ s.cfg[g] = b.cfg[g]
            BY <2>5, <2>8 DEF LoadedFrom
          <5> QED
            BY <3>1, <5>1
        <4> QED
          BY <3>2, <4>1 DEF Gets
      <3> QED
        BY <1>1, <2>1, <2>6, <2>8, <3>2 DEF Pending
    <2> QED
      BY <2>6, <2>7, <2>8
  <1> QED
    BY <1>3, <1>4

\* Every field has the value that is expected of it, unless it is confused.
LEMMA LoaderEndIs ==
  ASSUME NEW in, IsConfiguration(in), NEW s, s = LoaderEnd(in), ~s.failed
  PROVE  /\ s.cfg = [g \in FieldNames |-> s.cfg[g]]
         /\ \A g \in FieldNames : s.cfg[g] = Expected(in, g, Resolving(in)) \/ Confused(in, g)
  <1> DEFINE b == AfterLog(in, AfterSecrets(in, Started(in)))
  <1>1. IsLoader(in, b) /\ (~b.failed => Pending(in, b) /\ (b.manager # {} <=> Resolving(in)))
    <2> HIDE DEF b
    <2> QED
      BY AfterLogIs DEF b
  <1>2. s = LoadModule(b, in, Fields)
    BY DEF LoaderEnd
  <1> HIDE DEF b
  <1>3. LoadedFrom(in, b, Fields, s)
    <2>1. Len(Fields) \in Nat /\ \A j \in 1 .. Len(Fields) : Fields[j] \in FieldNames
      BY FieldsAre
    <2> QED
      BY <1>1, <1>2, <2>1, LoadModuleIs
  <1>4. IsLoader(in, s) /\ ~b.failed
    BY <1>3 DEF LoadedFrom
  <1>5. ASSUME NEW g \in FieldNames
        PROVE  s.cfg[g] = Expected(in, g, Resolving(in)) \/ Confused(in, g)
    <2>1. \E j \in 1 .. Len(Fields) : Fields[j] = g
      BY FieldsAre
    <2>2. Gets(in, Given(in, g), FromFile(in, g), b.cfg[g], s.cfg[g], Resolving(in))
      <3>1. Gets(in, Given(in, g), FromFile(in, g), b.cfg[g], s.cfg[g], b.manager # {})
        BY <1>3, <2>1 DEF LoadedFrom
      <3>2. (b.manager # {}) = Resolving(in)
        BY <1>1, <1>4 DEF Resolving
      <3> QED
        BY <3>1, <3>2
    <2>3. Mistaken(in, Given(in, g)) => Confused(in, g)
      BY DEF Mistaken, Confused
    <2>4. CASE ~Mistaken(in, Given(in, g))
      BY <1>1, <1>4, <2>2, <2>4 DEF Gets, Pending, Expected
    <2> QED
      BY <2>3, <2>4
  <1> QED
    BY <1>4, <1>5 DEF IsLoader

\* What the role makes of it: only what it switches changes, and its own services are on.
LEMMA PostProcessIs ==
  ASSUME NEW c, c = [g \in FieldNames |-> c[g]], NEW cfg, cfg = PostProcess(c), Valid(cfg)
  PROVE  /\ \A f \in FieldNames \ (IF cfg["role"] = "standalone" THEN {} ELSE Switched) : cfg[f] = c[f]
         /\ cfg["role"] = "cp" => ~Enabled(cfg["proxy.listen"]) /\ cfg["worker.enabled"] # "true"
         /\ cfg["role"] = "dp_proxy" => ~Enabled(cfg["admin.listen"]) /\ cfg["worker.enabled"] # "true"
         /\ cfg["role"] = "dp_worker" =>
               /\ cfg["worker.enabled"] = "true"
               /\ ~Enabled(cfg["admin.listen"]) /\ ~Enabled(cfg["proxy.listen"])
  <1>1. /\ "role" \in FieldNames /\ "admin.listen" \in FieldNames /\ "proxy.listen" \in FieldNames
        /\ "worker.enabled" \in FieldNames
    BY FieldsAre
  <1>2. cfg["role"] = c["role"]
    BY <1>1 DEF PostProcess
  <1>3. cfg["role"] \in {"standalone", "cp", "dp_worker", "dp_proxy"}
    BY DEF Valid
  <1>4. CASE cfg["role"] = "standalone"
    BY <1>2, <1>4 DEF PostProcess
  <1>5. CASE cfg["role"] = "cp"
    BY <1>1, <1>2, <1>5 DEF PostProcess, Switched, Enabled
  <1>6. CASE cfg["role"] = "dp_proxy"
    BY <1>1, <1>2, <1>6 DEF PostProcess, Switched, Enabled
  <1>7. CASE cfg["role"] = "dp_worker"
    BY <1>1, <1>2, <1>7 DEF PostProcess, Switched, Enabled
  <1> QED
    BY <1>3, <1>4, <1>5, <1>6, <1>7

\* EffectiveConfiguration, for all files, environments, defaults and secrets.
LEMMA EveryConfigurationIsEffective ==
  ASSUME NEW in, IsConfiguration(in)
  PROVE  EffectiveConfiguration(in)
  <1> DEFINE s == LoaderEnd(in)
             cfg == PostProcess(s.cfg)
             effective(g) ==
                /\ \A f \in ToSet(Fields) \ (IF g["role"] = "standalone" THEN {} ELSE Switched) :
                      g[f] = Expected(in, f, Resolving(in)) \/ Confused(in, f)
                /\ CASE g["role"] = "cp" -> {"proxy", "worker"} \cap Services(g) = {}
                     [] g["role"] = "dp_proxy" -> {"admin", "worker"} \cap Services(g) = {}
                     [] g["role"] = "dp_worker" ->
                           "worker" \in Services(g) /\ {"admin", "proxy"} \cap Services(g) = {}
                     [] OTHER -> TRUE
                /\ {"worker", "proxy"} \cap Services(g) # {} =>
                      HasTaskService(g) /\ HasPlugins(g) /\ HasL2(g)
  <1>1. LoadConfiguration(in) = [cfg |-> cfg, ok |-> ~s.failed /\ Valid(cfg)]
    BY DEF LoadConfiguration, LoaderEnd, AfterLog, AfterSecrets, Started
  <1>2. EffectiveConfiguration(in) <=> (LoadConfiguration(in).ok => effective(LoadConfiguration(in).cfg))
    BY DEF EffectiveConfiguration, Resolving
  <1> HIDE DEF s
  <1> SUFFICES ASSUME ~s.failed, Valid(cfg) PROVE effective(cfg)
    <2> DEFINE ok == ~s.failed /\ Valid(cfg)
    <2> HIDE DEF effective, cfg, ok
    <2>1. LoadConfiguration(in) = [cfg |-> cfg, ok |-> ok]
      BY <1>1 DEF ok
    <2>2. LoadConfiguration(in).cfg = cfg /\ LoadConfiguration(in).ok = ok
      BY <2>1
    <2> QED
      BY <1>2, <2>2, Zenon DEF ok
  <1>3. /\ s.cfg = [g \in FieldNames |-> s.cfg[g]]
        /\ \A g \in FieldNames : s.cfg[g] = Expected(in, g, Resolving(in)) \/ Confused(in, g)
    BY LoaderEndIs DEF s
  <1>4. /\ \A f \in FieldNames \ (IF cfg["role"] = "standalone" THEN {} ELSE Switched) : cfg[f] = s.cfg[f]
        /\ cfg["role"] = "cp" => ~Enabled(cfg["proxy.listen"]) /\ cfg["worker.enabled"] # "true"
        /\ cfg["role"] = "dp_proxy" => ~Enabled(cfg["admin.listen"]) /\ cfg["worker.enabled"] # "true"
        /\ cfg["role"] = "dp_worker" =>
              /\ cfg["worker.enabled"] = "true"
              /\ ~Enabled(cfg["admin.listen"]) /\ ~Enabled(cfg["proxy.listen"])
    BY <1>3, PostProcessIs
  <1> HIDE DEF cfg
  <1>5. \A f \in ToSet(Fields) \ (IF cfg["role"] = "standalone" THEN {} ELSE Switched) :
           cfg[f] = Expected(in, f, Resolving(in)) \/ Confused(in, f)
    BY <1>3, <1>4 DEF FieldNames
  <1>6. /\ "admin" \in Services(cfg) <=> Enabled(cfg["admin.listen"])
        /\ "proxy" \in Services(cfg) <=> Enabled(cfg["proxy.listen"])
        /\ "worker" \in Services(cfg) <=> cfg["worker.enabled"] = "true"
    BY DEF Services
  <1>7. CASE cfg["role"] = "cp"
    BY <1>4, <1>5, <1>6, <1>7
  <1>8. CASE cfg["role"] # "cp"
    <2>1. HasL2(cfg) /\ ({"worker", "proxy"} \cap Services(cfg) # {} => HasTaskService(cfg) /\ HasPlugins(cfg))
      BY <1>6, <1>8 DEF HasL2, HasTaskService, HasPlugins
    <2> QED
      BY <1>4, <1>5, <1>6, <1>8, <2>1
  <1> QED
    BY <1>7, <1>8

-----------------------------------------------------------------------------
(* Paging *)

\* The lesser of two numbers.
LEMMA MinIs ==
  ASSUME NEW a \in Int, NEW b \in Int
  PROVE  Min({a, b}) = IF a <= b THEN a ELSE b
  BY DEF Min

\* The greater of two numbers.
LEMMA MaxIs ==
  ASSUME NEW a \in Int, NEW b \in Int
  PROVE  Max({a, b}) = IF a <= b THEN b ELSE a
  BY DEF Max

\* The rows of a query are a table.
LEMMA WhereIsTable ==
  ASSUME NEW table, IsTable(table), NEW ws, NEW wheres
  PROVE  IsTable(AppendWhere(table, ws, wheres))
  <1>1. AppendWhere(table, ws, wheres) \subseteq table
    BY DEF AppendWhere
  <1>2. IsFiniteSet(AppendWhere(table, ws, wheres))
    BY <1>1, FS_Subset DEF IsTable, Null
  <1> QED
    BY <1>1, <1>2 DEF IsTable, Null

\* AppendOrder gives every row, in order.
IsOrder(rows, order, s) ==
    /\ s \in Seq(rows) /\ Len(s) = Cardinality(rows) /\ Len(s) \in Nat
    /\ Ordered(s, order)
    /\ \A r \in rows : \E i \in 1 .. Len(s) : s[i] = r

\* AppendOrder sorts a table.
LEMMA OrderIs ==
  ASSUME NEW rows, IsTable(rows), NEW order \in {"asc", "desc"}
  PROVE  IsOrder(rows, order, AppendOrder(rows, order))
  <1> DEFINE key == [r \in rows |-> IF order = "asc" THEN r.id ELSE -r.id]
             s == AppendOrder(rows, order)
             n == Cardinality(rows)
  <1>1. key \in [rows -> Int] /\ \A x, y \in rows : key[x] = key[y] => x = y
    BY DEF IsTable, Null
  <1>2. s = Sorted(rows, key)
    BY DEF AppendOrder
  <1>3. /\ n \in Nat /\ s \in [1 .. n -> rows] /\ InOrder(s, key)
        /\ \A x \in rows : \E i \in 1 .. n : s[i] = x
    <2> HIDE DEF key, s
    <2>1. IsFiniteSet(rows)
      BY DEF IsTable, Null
    <2> QED
      BY <1>1, <1>2, <2>1, SortedIs
  <1> HIDE DEF s
  <1>4. s \in Seq(rows) /\ Len(s) = n
    BY <1>3
  <1>5. Ordered(s, order)
    <2> SUFFICES ASSUME NEW i \in 1 .. n, NEW j \in 1 .. n, i < j
                 PROVE  IF order = "asc" THEN s[i].id < s[j].id ELSE s[i].id > s[j].id
      BY <1>3 DEF Ordered
    <2>1. key[s[i]] < key[s[j]] /\ s[i] \in rows /\ s[j] \in rows
      BY <1>3 DEF InOrder
    <2> QED
      BY <2>1 DEF IsTable, Null
  <1>6. IsOrder(rows, order, s)
    BY <1>3, <1>4, <1>5 DEF IsOrder
  <1> QED
    BY <1>6 DEF s

\* A query as ListQuery and Iterate make them.
IsQuery(q) ==
    /\ q = [offset |-> q.offset, limit |-> q.limit, wheres |-> q.wheres, order |-> q.order,
            reverse |-> q.reverse, cursorModel |-> q.cursorModel]
    /\ q.offset \in Nat /\ q.limit \in Nat \ {0} /\ q.order \in {"asc", "desc"}
    /\ q.reverse \in BOOLEAN

\* A part of a sequence.
IsSlice(s, n, o, l, f) ==
    /\ Len(f) = IF n > o + l THEN l ELSE IF n > o THEN n - o ELSE 0
    /\ \A i \in 1 .. Len(f) : f[i] = s[o + i]

\* What SubSeq cuts out.
LEMMA SliceIs ==
  ASSUME NEW rows, NEW n \in Nat, NEW s \in [1 .. n -> rows], NEW o \in Nat, NEW l \in Nat,
         NEW m, m = IF o + l <= n THEN o + l ELSE n
  PROVE  SubSeq(s, o + 1, m) \in Seq(rows) /\ IsSlice(s, n, o, l, SubSeq(s, o + 1, m))
  <1> DEFINE f == SubSeq(s, o + 1, m)
  <1>1. m \in Int /\ o + 1 \in Int /\ \A i \in o + 1 .. m : s[i] \in rows
    OBVIOUS
  <1>2. /\ f \in Seq(rows) /\ Len(f) = (IF o + 1 <= m THEN m - (o + 1) + 1 ELSE 0)
        /\ \A i \in 1 .. m - (o + 1) + 1 : f[i] = s[(o + 1) + i - 1]
    BY <1>1, SubSeqProperties
  <1> HIDE DEF f
  <1>3. Len(f) = IF n > o + l THEN l ELSE IF n > o THEN n - o ELSE 0
    BY <1>2
  <1>4. ASSUME NEW i \in 1 .. Len(f) PROVE f[i] = s[o + i]
    <2>1. i \in 1 .. m - (o + 1) + 1 /\ (o + 1) + i - 1 = o + i
      BY <1>1, <1>2
    <2> QED
      BY <1>2, <2>1
  <1>5. f \in Seq(rows) /\ IsSlice(s, n, o, l, f)
    BY <1>2, <1>3, <1>4 DEF IsSlice
  <1> QED
    BY <1>5 DEF f

\* A list with a limit is a part of the sorted rows.
LEMMA ListIs ==
  ASSUME NEW table, IsTable(table), NEW ws, NEW q, IsQuery(q),
         NEW rows, rows = AppendWhere(table, ws, q.wheres),
         NEW s, s = AppendOrder(rows, q.order)
  PROVE  LET f == List(table, ws, [q EXCEPT !.limit = @ + 1])
         IN  f \in Seq(rows) /\ IsSlice(s, Len(s), q.offset, q.limit + 1, f)
  <1> DEFINE r == [q EXCEPT !.limit = @ + 1]
             f == List(table, ws, r)
             b == q.offset + (q.limit + 1)
             m == IF b <= Len(s) THEN b ELSE Len(s)
  <1>1. /\ r.offset = q.offset /\ r.limit = q.limit + 1 /\ r.wheres = q.wheres /\ r.order = q.order
        /\ r.limit # 0
    BY DEF IsQuery
  <1>2. IsOrder(rows, q.order, s)
    BY WhereIsTable, OrderIs DEF IsQuery
  <1>3. Len(s) \in Nat /\ q.offset \in Nat /\ q.limit + 1 \in Nat /\ s \in [1 .. Len(s) -> rows] /\ b \in Int
    BY <1>2 DEF IsOrder, IsQuery
  <1>4. f = SubSeq(s, q.offset + 1, Min({b, Len(s)}))
    <2> HIDE DEF r
    <2>1. f = LET t == AppendOrder(AppendWhere(table, ws, r.wheres), r.order)
              IN  SubSeq(t, r.offset + 1, IF r.limit = 0 THEN Len(t) ELSE Min({r.offset + r.limit, Len(t)}))
      BY DEF List
    <2>2. s = AppendOrder(AppendWhere(table, ws, r.wheres), r.order)
      BY <1>1
    <2> HIDE DEF f
    <2> QED
      BY <1>1, <2>1, <2>2
  <1>5. Min({b, Len(s)}) = m
    <2> HIDE DEF b
    <2> QED
      BY <1>3, MinIs
  <1> HIDE DEF f
  <1>6. f \in Seq(rows) /\ IsSlice(s, Len(s), q.offset, q.limit + 1, f)
    BY <1>3, <1>4, <1>5, SliceIs
  <1> QED
    BY <1>6 DEF f

\* What a cursor holds.
CursorOf(table, ws, q, x, more) ==
    LET rows == IF q.reverse THEN Reverse(x) ELSE x
    IN  [data |-> rows, hasMore |-> more, reversed |-> q.reverse, cursor |-> q.cursorModel,
         total |-> IF q.cursorModel THEN 0 ELSE Count(table, ws, q),
         firstId |-> IF rows = <<>> THEN Null ELSE Head(rows).id,
         lastId |-> IF rows = <<>> THEN Null ELSE Last(rows).id]

\* A cursor has that part without the row it asks for in addition, and tells whether there
\* was one.
LEMMA CursorIs ==
  ASSUME NEW table, IsTable(table), NEW ws, NEW q, IsQuery(q),
         NEW rows, rows = AppendWhere(table, ws, q.wheres),
         NEW s, s = AppendOrder(rows, q.order)
  PROVE  \E x \in Seq(rows) :
            /\ IsSlice(s, Len(s), q.offset, q.limit, x)
            /\ Cursor(table, ws, q) = CursorOf(table, ws, q, x, Len(s) > q.offset + q.limit)
  <1> DEFINE r == [q EXCEPT !.limit = @ + 1]
             f == List(table, ws, r)
             more == Len(f) > q.limit
             x == IF Len(f) > q.limit THEN SubSeq(f, 1, q.limit) ELSE f
  <1>1. f \in Seq(rows) /\ IsSlice(s, Len(s), q.offset, q.limit + 1, f)
    BY ListIs
  <1>2. Cursor(table, ws, q) = CursorOf(table, ws, q, x, Len(f) > q.limit)
    BY DEF Cursor, CursorOf
  <1>3. Len(s) \in Nat /\ q.offset \in Nat /\ q.limit \in Nat \ {0}
    BY WhereIsTable, OrderIs DEF IsQuery, IsOrder
  <1> HIDE DEF f
  <1>4. (Len(f) > q.limit) = (Len(s) > q.offset + q.limit)
    BY <1>1, <1>3 DEF IsSlice
  <1>5. x \in Seq(rows) /\ IsSlice(s, Len(s), q.offset, q.limit, x)
    <2>1. CASE ~(Len(f) > q.limit)
      <3>1. x = f
        BY <2>1
      <3> HIDE DEF x
      <3> DEFINE n == Len(s)
                 m == Len(f)
      <3>2. /\ m = (IF n > q.offset + (q.limit + 1) THEN q.limit + 1 ELSE IF n > q.offset THEN n - q.offset ELSE 0)
            /\ \A i \in 1 .. m : f[i] = s[q.offset + i]
        BY <1>1 DEF IsSlice
      <3>3. ~(m > q.limit) /\ n \in Nat
        BY <1>3, <2>1
      <3> HIDE DEF n, m
      <3>4. m = IF n > q.offset + q.limit THEN q.limit ELSE IF n > q.offset THEN n - q.offset ELSE 0
        BY <1>3, <3>2, <3>3
      <3> QED
        BY <1>1, <3>1, <3>2, <3>4 DEF IsSlice, n, m
    <2>2. CASE Len(f) > q.limit
      <3>1. x = SubSeq(f, 1, q.limit)
        BY <2>2
      <3>2. \A i \in 1 .. q.limit : f[i] \in rows
        BY <1>1, <1>3, <2>2
      <3>3. /\ x \in Seq(rows) /\ Len(x) = q.limit
            /\ \A i \in 1 .. q.limit : x[i] = f[i]
        <4>1. q.limit \in Int /\ 1 \in Int /\ q.limit - 1 + 1 = q.limit /\ 1 <= q.limit
          BY <1>3
        <4>2. \A i \in 1 .. q.limit : 1 + i - 1 = i
          BY <1>3
        <4>3. /\ x \in Seq(rows) /\ Len(x) = (IF 1 <= q.limit THEN q.limit - 1 + 1 ELSE 0)
              /\ \A i \in 1 .. q.limit - 1 + 1 : x[i] = f[1 + i - 1]
          <5> HIDE DEF x
          <5> QED
            BY <3>1, <3>2, <4>1, SubSeqProperties
        <4> HIDE DEF x
        <4> QED
          BY <4>1, <4>2, <4>3
      <3> HIDE DEF x
      <3> QED
        BY <1>1, <1>3, <1>4, <2>2, <3>3 DEF IsSlice
    <2> QED
      BY <2>1, <2>2
  <1> HIDE DEF x
  <1> QED
    BY <1>2, <1>4, <1>5

-----------------------------------------------------------------------------
\* a is before b in an order of ids.
Before(order, a, b) == IF order = "asc" THEN a < b ELSE a > b

\* x holds the first rows, up to l of them, and more tells whether there are others.
IsWindow(rows, order, l, x, more) ==
    /\ x \in Seq(rows) /\ Len(x) \in 0 .. l /\ Ordered(x, order)
    /\ more => Len(x) = l
    /\ \A r \in rows : (\E i \in 1 .. Len(x) : x[i] = r) \/ (more /\ Before(order, x[l].id, r.id))

\* The first part of the sorted rows is a window.
LEMMA WindowIs ==
  ASSUME NEW rows, NEW order, NEW s, IsOrder(rows, order, s), NEW l \in Nat \ {0},
         NEW x \in Seq(rows), IsSlice(s, Len(s), 0, l, x), NEW more \in BOOLEAN, more <=> Len(s) > l
  PROVE  IsWindow(rows, order, l, x, more)
  <1> DEFINE n == Len(s)
  <1>1. n \in Nat /\ s \in [1 .. n -> rows] /\ DOMAIN s = 1 .. n /\ DOMAIN x = 1 .. Len(x)
    BY DEF IsOrder
  <1>2. /\ Len(x) = IF n > l THEN l ELSE n
        /\ \A i \in 1 .. Len(x) : x[i] = s[i]
    <2>1. /\ Len(x) = IF n > 0 + l THEN l ELSE IF n > 0 THEN n - 0 ELSE 0
          /\ \A i \in 1 .. Len(x) : x[i] = s[0 + i]
      BY DEF IsSlice
    <2>2. Len(x) \in Nat /\ \A i \in 1 .. Len(x) : 0 + i = i
      OBVIOUS
    <2>3. \A i \in 1 .. Len(x) : x[i] = s[i]
      BY <2>1, <2>2
    <2>4. Len(x) = IF n > l THEN l ELSE n
      <3> HIDE DEF n
      <3> QED
        BY <1>1, <2>1
    <2> QED
      BY <2>3, <2>4
  <1> HIDE DEF n
  <1>3. Len(x) \in Nat /\ Len(x) <= n
    BY <1>1, <1>2
  <1>4. Len(x) \in 0 .. l /\ (more => Len(x) = l) /\ Len(x) <= n
    <2>1. more <=> n > l
      BY DEF n
    <2> QED
      BY <1>1, <1>2, <2>1
  <1>5. Ordered(x, order)
    <2> SUFFICES ASSUME NEW i \in 1 .. Len(x), NEW j \in 1 .. Len(x), i < j
                 PROVE  IF order = "asc" THEN x[i].id < x[j].id ELSE x[i].id > x[j].id
      BY <1>1 DEF Ordered
    <2>1. i \in 1 .. n /\ j \in 1 .. n
      BY <1>1, <1>3
    <2>2. IF order = "asc" THEN s[i].id < s[j].id ELSE s[i].id > s[j].id
      BY <1>1, <2>1 DEF IsOrder, Ordered
    <2> QED
      BY <1>2, <2>2
  <1>6. ASSUME NEW r \in rows
        PROVE  (\E i \in 1 .. Len(x) : x[i] = r) \/ (more /\ Before(order, x[l].id, r.id))
    <2>1. PICK k \in 1 .. n : s[k] = r
      BY DEF IsOrder, n
    <2>2. CASE k <= Len(x)
      <3>1. k \in 1 .. Len(x)
        BY <1>4, <2>2
      <3> QED
        BY <1>2, <2>1, <3>1
    <2>3. CASE ~(k <= Len(x))
      <3>1. more /\ Len(x) = l /\ l \in 1 .. n /\ l < k /\ l \in 1 .. Len(x)
        BY <1>1, <1>2, <1>4, <2>1, <2>3 DEF n
      <3>2. IF order = "asc" THEN s[l].id < s[k].id ELSE s[l].id > s[k].id
        BY <1>1, <2>1, <3>1 DEF IsOrder, Ordered
      <3> QED
        BY <1>2, <2>1, <3>1, <3>2 DEF Before
    <2> QED
      BY <2>2, <2>3
  <1> QED
    BY <1>4, <1>5, <1>6 DEF IsWindow

\* The rows that match, between two ids where they are given.
Between(table, ws, wheres, sort, after, before) ==
    {r \in AppendWhere(table, ws, wheres) :
        /\ after # Null => Before(sort, after, r.id)
        /\ before # Null => Before(sort, r.id, before)}

\* The conditions of the cursors select the rows between them.
LEMMA BeyondIs ==
  ASSUME NEW table, IsTable(table), NEW ws, NEW wheres, NEW sort \in {"asc", "desc"},
         NEW after \in Nat, NEW before \in Nat
  PROVE  AppendWhere(table, ws, wheres
                     \cup (IF after # Null THEN {Beyond(sort, after)} ELSE {})
                     \cup (IF before # Null THEN {Beyond(Flip(sort), before)} ELSE {}))
         = Between(table, ws, wheres, sort, after, before)
  <1>1. ASSUME NEW r \in table, NEW a \in Nat
        PROVE  /\ Holds(Beyond(sort, a), r) <=> Before(sort, a, r.id)
               /\ Holds(Beyond(Flip(sort), a), r) <=> Before(sort, r.id, a)
    <2>1. r.id \in Nat /\ r.id # 0
      BY DEF IsTable, Null
    <2>2. /\ Holds(Condition("id", "gt", a), r) <=> r.id > a
          /\ Holds(Condition("id", "lt", a), r) <=> r.id < a
      BY <2>1 DEF Holds, Condition, Null
    <2>3. CASE sort = "asc"
      BY <2>1, <2>2, <2>3 DEF Beyond, Flip, Before
    <2>4. CASE sort = "desc"
      BY <2>1, <2>2, <2>4 DEF Beyond, Flip, Before
    <2> QED
      BY <2>3, <2>4
  <1> QED
    BY <1>1 DEF AppendWhere, Between

\* Those rows are a table.
LEMMA BetweenIsTable ==
  ASSUME NEW table, IsTable(table), NEW ws, NEW wheres, NEW sort, NEW after, NEW before
  PROVE  IsTable(Between(table, ws, wheres, sort, after, before))
  <1>1. Between(table, ws, wheres, sort, after, before) \subseteq table
    BY DEF AppendWhere, Between
  <1>2. IsFiniteSet(Between(table, ws, wheres, sort, after, before))
    BY <1>1, FS_Subset DEF IsTable, Null
  <1> QED
    BY <1>1, <1>2 DEF IsTable, Null

\* Parameters of a page that a link leads to.
Linked(sort, l, after, before) ==
    [sort |-> sort, pageNo |-> 1, pageSize |-> Null, limit |-> l, after |-> after, before |-> before]

\* The parameters of the next and of the previous page.
NextOf(p, id) == [p EXCEPT !.before = Null, !.after = id]
PrevOf(p, id) == [p EXCEPT !.after = Null, !.before = id]

\* Links keep the order and the limit.
LEMMA LinkIs ==
  ASSUME NEW sort, NEW l, NEW after, NEW before, NEW id, NEW p, p = Linked(sort, l, after, before)
  PROVE  NextOf(p, id) = Linked(sort, l, id, Null) /\ PrevOf(p, id) = Linked(sort, l, Null, id)
  <1> DEFINE Shape(r, a, b) ==
                /\ DOMAIN r = {"sort", "pageNo", "pageSize", "limit", "after", "before"}
                /\ r.sort = sort /\ r.pageNo = 1 /\ r.pageSize = Null /\ r.limit = l /\ r.after = a /\ r.before = b
             next == [p EXCEPT !.before = Null, !.after = id]
             prev == [p EXCEPT !.after = Null, !.before = id]
  <1>1. Shape(p, after, before)
    BY DEF Linked
  <1>2. Shape(next, id, Null) /\ next = [f \in DOMAIN next |-> next[f]]
    BY <1>1
  <1>3. Shape(prev, Null, id) /\ prev = [f \in DOMAIN prev |-> prev[f]]
    BY <1>1
  <1> HIDE DEF next, prev
  <1>4. next = Linked(sort, l, id, Null)
    BY <1>2 DEF Linked
  <1>5. prev = Linked(sort, l, Null, id)
    BY <1>3 DEF Linked
  <1> QED
    BY <1>4, <1>5 DEF next, prev, NextOf, PrevOf

\* A cursor of the rows of a query.
IsCursor(table, ws, q, rows, order, l) ==
    \E x : \E more \in BOOLEAN :
        IsWindow(rows, order, l, x, more) /\ Cursor(table, ws, q) = CursorOf(table, ws, q, x, more)

\* The cursor of a page that a link leads to.
LEMMA LinkedCursor ==
  ASSUME NEW table, IsTable(table), NEW ws, NEW wheres, NEW sort \in {"asc", "desc"},
         NEW l \in Nat \ {0}, NEW after \in Nat, NEW before \in Nat,
         NEW order, order = IF before # Null THEN Flip(sort) ELSE sort,
         NEW rows, rows = Between(table, ws, wheres, sort, after, before),
         NEW q, q = ListQuery(Linked(sort, l, after, before), wheres)
  PROVE  IsCursor(table, ws, q, rows, order, l) /\ (q.reverse <=> before # Null)
  <1> DEFINE p == Linked(sort, l, after, before)
             s == AppendOrder(rows, order)
  <1>1. /\ p.sort = sort /\ p.limit = l /\ p.after = after /\ p.before = before /\ p.limit # Null
    BY DEF Linked, Null
  <1> HIDE DEF p
  <1>2. q = [offset |-> 0, limit |-> l,
             wheres |-> wheres
                        \cup (IF after # Null THEN {Beyond(sort, after)} ELSE {})
                        \cup (IF before # Null THEN {Beyond(Flip(sort), before)} ELSE {}),
             order |-> order, reverse |-> before # Null,
             cursorModel |-> {l, after, before} # {Null}]
    BY <1>1 DEF ListQuery, p
  <1>3. /\ q.offset = 0 /\ q.limit = l /\ q.order = order /\ (q.reverse <=> before # Null) /\ q.reverse \in BOOLEAN
        /\ AppendWhere(table, ws, q.wheres) = rows
    <2> DEFINE back == before # Null
               W == wheres \cup (IF after # Null THEN {Beyond(sort, after)} ELSE {})
                           \cup (IF before # Null THEN {Beyond(Flip(sort), before)} ELSE {})
    <2>1. back \in BOOLEAN /\ AppendWhere(table, ws, W) = rows
      BY BeyondIs
    <2> HIDE DEF back, W
    <2>2. q.offset = 0 /\ q.limit = l /\ q.order = order /\ q.reverse = back /\ q.wheres = W
      BY <1>2 DEF back, W
    <2>3. q.reverse <=> before # Null
      BY <2>2, Zenon DEF back
    <2> QED
      BY <2>1, <2>2, <2>3
  <1>4. order \in {"asc", "desc"}
    BY DEF Flip
  <1>5. IsQuery(q)
    <2>1. q = [offset |-> q.offset, limit |-> q.limit, wheres |-> q.wheres, order |-> q.order,
               reverse |-> q.reverse, cursorModel |-> q.cursorModel]
      BY <1>2
    <2> QED
      BY <1>3, <1>4, <2>1 DEF IsQuery
  <1>6. IsOrder(rows, order, s)
    BY <1>4, BetweenIsTable, OrderIs
  <1> HIDE DEF s
  <1>7. PICK x \in Seq(rows) :
            /\ IsSlice(s, Len(s), 0, l, x)
            /\ Cursor(table, ws, q) = CursorOf(table, ws, q, x, Len(s) > 0 + l)
    BY <1>3, <1>5, CursorIs DEF s
  <1>8. Len(s) \in Nat /\ (Len(s) > 0 + l) \in BOOLEAN /\ ((Len(s) > 0 + l) <=> Len(s) > l)
    BY <1>6 DEF IsOrder
  <1>9. IsWindow(rows, order, l, x, Len(s) > 0 + l)
    BY <1>6, <1>7, <1>8, WindowIs
  <1>10. IsCursor(table, ws, q, rows, order, l)
    BY <1>7, <1>8, <1>9 DEF IsCursor
  <1> QED
    BY <1>3, <1>10

\* A page after an id, with its links.
IsPage(rows, sort, l, after, more, pg) ==
    /\ IsWindow(rows, sort, l, pg.data, more)
    /\ pg.next = IF more THEN <<Linked(sort, l, pg.data[l].id, Null)>> ELSE <<>>
    /\ pg.prev = IF after # Null /\ pg.data # <<>> THEN <<Linked(sort, l, Null, pg.data[1].id)>> ELSE <<>>

\* A page after an id is the first rows behind it, with its links.
LEMMA PageIs ==
  ASSUME NEW table, IsTable(table), NEW ws, NEW wheres, NEW sort \in {"asc", "desc"},
         NEW l \in Nat \ {0}, NEW after \in Nat
  PROVE  \E more \in BOOLEAN :
            IsPage(Between(table, ws, wheres, sort, after, Null), sort, l, after, more,
                   Page(table, ws, Linked(sort, l, after, Null), wheres))
  <1> DEFINE rows == Between(table, ws, wheres, sort, after, Null)
             p == Linked(sort, l, after, Null)
             q == ListQuery(p, wheres)
             c == Cursor(table, ws, q)
             pg == Page(table, ws, p, wheres)
  <1>1. IsCursor(table, ws, q, rows, sort, l) /\ ~q.reverse
    <2>1. Null \in Nat /\ sort = (IF Null # Null THEN Flip(sort) ELSE sort)
      BY DEF Null
    <2> HIDE DEF rows, c, q
    <2>2. IsCursor(table, ws, q, rows, sort, l) /\ (q.reverse <=> Null # Null)
      BY <2>1, LinkedCursor DEF rows, q
    <2> QED
      BY <2>1, <2>2
  <1>2. PICK x : \E more \in BOOLEAN :
            IsWindow(rows, sort, l, x, more) /\ c = CursorOf(table, ws, q, x, more)
    BY <1>1, Zenon DEF IsCursor
  <1>3. PICK more \in BOOLEAN :
            IsWindow(rows, sort, l, x, more) /\ c = CursorOf(table, ws, q, x, more)
    BY <1>2
  <1>4. pg.data = c.data /\ pg.next = Links(c, p).next /\ pg.prev = Links(c, p).prev
    BY DEF Page
  <1>11. q.cursorModel
    <2>1. p.limit = l /\ l # Null
      BY DEF Linked, Null
    <2> HIDE DEF p
    <2>2. {p.limit, p.after, p.before} # {Null}
      BY <2>1
    <2>3. q.cursorModel = ({p.limit, p.after, p.before} # {Null})
      BY DEF ListQuery
    <2> HIDE DEF q
    <2> QED
      BY <2>2, <2>3, Zenon
  <1> HIDE DEF c, pg
  <1>5. /\ c.data = x /\ c.hasMore = more /\ ~c.reversed /\ c.cursor
        /\ c.firstId = (IF x = <<>> THEN Null ELSE Head(x).id)
        /\ c.lastId = (IF x = <<>> THEN Null ELSE Last(x).id)
    <2> HIDE DEF q
    <2> QED
      BY <1>1, <1>3, <1>11 DEF CursorOf
  <1>6. /\ x \in Seq(rows) /\ Len(x) \in 0 .. l /\ (more => Len(x) = l) /\ \A i \in 1 .. Len(x) : x[i].id # Null
    <2>1. x \in Seq(rows) /\ Len(x) \in 0 .. l /\ (more => Len(x) = l)
      BY <1>3 DEF IsWindow
    <2>2. IsTable(rows)
      BY BetweenIsTable
    <2> HIDE DEF rows
    <2> QED
      BY <2>1, <2>2 DEF IsTable, Null
  <1>7. /\ p.after = after /\ p.before = Null
        /\ NextOf(p, c.lastId) = Linked(sort, l, c.lastId, Null)
        /\ PrevOf(p, c.firstId) = Linked(sort, l, Null, c.firstId)
    <2>1. p.after = after /\ p.before = Null
      BY DEF Linked
    <2>2. p = Linked(sort, l, after, Null)
      OBVIOUS
    <2> HIDE DEF p
    <2> QED
      BY <2>1, <2>2, LinkIs
  <1> HIDE DEF p
  <1>8. /\ pg.next = IF c.hasMore /\ c.lastId # Null THEN <<Linked(sort, l, c.lastId, Null)>> ELSE <<>>
        /\ pg.prev = IF after # Null /\ c.firstId # Null THEN <<Linked(sort, l, Null, c.firstId)>> ELSE <<>>
    <2>1. /\ Links(c, p).next = IF c.hasMore /\ c.lastId # Null THEN <<NextOf(p, c.lastId)>> ELSE <<>>
          /\ Links(c, p).prev = IF p.after # Null /\ c.firstId # Null THEN <<PrevOf(p, c.firstId)>> ELSE <<>>
      BY <1>5 DEF Links, NextOf, PrevOf
    <2> QED
      BY <1>4, <1>7, <2>1
  <1>9. pg.next = IF more THEN <<Linked(sort, l, x[l].id, Null)>> ELSE <<>>
    <2>1. CASE more
      <3>1. Len(x) = l /\ x # <<>> /\ l \in 1 .. Len(x)
        BY <1>6, <2>1
      <3>2. c.lastId = x[l].id /\ x[l].id # Null
        BY <1>5, <1>6, <3>1 DEF Last
      <3> QED
        BY <1>5, <1>8, <2>1, <3>2
    <2>2. CASE ~more
      BY <1>5, <1>8, <2>2
    <2> QED
      BY <2>1, <2>2
  <1>10. pg.prev = IF after # Null /\ x # <<>> THEN <<Linked(sort, l, Null, x[1].id)>> ELSE <<>>
    <2>1. CASE x = <<>>
      BY <1>5, <1>8, <2>1
    <2>2. CASE x # <<>>
      <3>1. 1 \in 1 .. Len(x) /\ Head(x) = x[1]
        BY <1>6, <2>2
      <3>2. c.firstId = x[1].id /\ x[1].id # Null
        BY <1>5, <1>6, <2>2, <3>1
      <3> QED
        BY <1>8, <2>2, <3>2
    <2> QED
      BY <2>1, <2>2
  <1>12. pg.data = x
    BY <1>4, <1>5
  <1> HIDE DEF rows
  <1>13. IsPage(rows, sort, l, after, more, pg)
    BY <1>3, <1>9, <1>10, <1>12 DEF IsPage
  <1> QED
    BY <1>13 DEF rows, pg, p

\* A page read in the other order, and turned.
IsBackPage(rows, order, l, d) ==
    \E x : (\E more \in BOOLEAN : IsWindow(rows, order, l, x, more)) /\ d = Reverse(x)

\* A page before an id is read in the other order and turned.
LEMMA PageBackIs ==
  ASSUME NEW table, IsTable(table), NEW ws, NEW wheres, NEW sort \in {"asc", "desc"},
         NEW l \in Nat \ {0}, NEW before \in Nat \ {0}
  PROVE  IsBackPage(Between(table, ws, wheres, sort, Null, before), Flip(sort), l,
                    Page(table, ws, Linked(sort, l, Null, before), wheres).data)
  <1> DEFINE rows == Between(table, ws, wheres, sort, Null, before)
             p == Linked(sort, l, Null, before)
             q == ListQuery(p, wheres)
             c == Cursor(table, ws, q)
             pg == Page(table, ws, p, wheres)
  <1>1. IsCursor(table, ws, q, rows, Flip(sort), l) /\ q.reverse
    <2>1. Null \in Nat /\ before \in Nat /\ before # Null /\ Flip(sort) = (IF before # Null THEN Flip(sort) ELSE sort)
      BY DEF Null
    <2> HIDE DEF rows, c, q
    <2>2. IsCursor(table, ws, q, rows, Flip(sort), l) /\ (q.reverse <=> before # Null)
      BY <2>1, LinkedCursor DEF rows, q
    <2> QED
      BY <2>1, <2>2
  <1>2. PICK x : \E more \in BOOLEAN :
            IsWindow(rows, Flip(sort), l, x, more) /\ c = CursorOf(table, ws, q, x, more)
    BY <1>1, Zenon DEF IsCursor
  <1>3. PICK more \in BOOLEAN :
            IsWindow(rows, Flip(sort), l, x, more) /\ c = CursorOf(table, ws, q, x, more)
    BY <1>2
  <1>4. pg.data = c.data
    BY DEF Page
  <1> HIDE DEF c, pg, q
  <1>5. c.data = Reverse(x)
    BY <1>1, <1>3 DEF CursorOf
  <1> QED
    BY <1>3, <1>4, <1>5, Zenon DEF pg, p, rows, IsBackPage

-----------------------------------------------------------------------------
\* What a walk has visited so far, in v: it is in order; if the walk goes on, from
\* behind the id b, nothing in v is behind it; unless a query failed, the rows that
\* last are in v or still ahead.
Visiting(all, lasting, order, v, go, b, ok) ==
    /\ v \in Seq(all) /\ Ordered(v, order)
    /\ go => /\ b \in Nat /\ (b = Null => v = <<>>)
             /\ \A i \in 1 .. Len(v) : v[i].id = b \/ Before(order, v[i].id, b)
    /\ ok => \A r \in lasting :
                (\E i \in 1 .. Len(v) : v[i] = r) \/ (go /\ (b # Null => Before(order, b, r.id)))

\* A walk starts with nothing visited.
LEMMA VisitingStarts ==
  ASSUME NEW all, NEW lasting, NEW order, NEW ok
  PROVE  Visiting(all, lasting, order, <<>>, TRUE, Null, ok)
  BY DEF Visiting, Ordered, Null

\* A walk may stop.
LEMMA VisitingStops ==
  ASSUME NEW all, NEW lasting, NEW order, NEW v, NEW go \in BOOLEAN, NEW b, NEW ok \in BOOLEAN,
         Visiting(all, lasting, order, v, go, b, ok), NEW c
  PROVE  /\ v \o <<>> = v
         /\ ~go => Visiting(all, lasting, order, v, FALSE, c, ok)
         /\ Visiting(all, lasting, order, v, FALSE, c, FALSE)
  <1>1. v \o <<>> = v
    BY ConcatEmptySeq DEF Visiting
  <1> QED
    BY <1>1 DEF Visiting

\* A walk goes on with a window of the rows that are ahead.
LEMMA VisitingGoesOn ==
  ASSUME NEW all, \A r \in all : r.id \in Nat \ {0}, NEW lasting, NEW order \in {"asc", "desc"},
         NEW l \in Nat \ {0}, NEW v, NEW b, NEW ok \in BOOLEAN,
         Visiting(all, lasting, order, v, TRUE, b, ok),
         NEW rows, rows \subseteq all, \A r \in rows : b # Null => Before(order, b, r.id),
         \A r \in lasting : (b # Null => Before(order, b, r.id)) => r \in rows,
         NEW d, NEW m \in BOOLEAN, IsWindow(rows, order, l, d, m)
  PROVE  Visiting(all, lasting, order, v \o d, m, d[l].id, ok)
  <1> DEFINE w == v \o d
             n == Len(v)
  <1>1. /\ v \in Seq(all) /\ n \in Nat /\ Ordered(v, order) /\ b \in Nat /\ (b = Null => v = <<>>)
        /\ \A i \in 1 .. n : v[i].id = b \/ Before(order, v[i].id, b)
    BY DEF Visiting
  <1>2. d \in Seq(rows) /\ Len(d) \in Nat /\ Ordered(d, order) /\ (m => Len(d) = l)
    BY DEF IsWindow
  <1>3. d \in Seq(all)
    BY <1>2, SeqMonotonic
  <1>4. /\ w \in Seq(all) /\ Len(w) = n + Len(d)
        /\ \A i \in 1 .. n + Len(d) : w[i] = IF i <= n THEN v[i] ELSE d[i - n]
    BY <1>1, <1>3, ConcatProperties
  <1>5. /\ \A i \in 1 .. n : v[i] \in all /\ v[i].id \in Nat
        /\ \A i \in 1 .. Len(d) : d[i] \in rows /\ d[i].id \in Nat
    BY <1>1, <1>2
  <1>6. ASSUME NEW i \in 1 .. n, NEW j \in 1 .. Len(d)
        PROVE  Before(order, v[i].id, d[j].id)
    <2>1. b # Null
      BY <1>1
    <2>2. Before(order, b, d[j].id)
      BY <1>5, <2>1
    <2> QED
      BY <1>1, <1>5, <2>2 DEF Before
  <1> HIDE DEF w, n
  <1>7. /\ \A i \in 1 .. n : w[i] = v[i] /\ i \in 1 .. Len(w)
        /\ \A i \in 1 .. Len(d) : w[n + i] = d[i] /\ n + i \in 1 .. Len(w)
        /\ \A i \in 1 .. Len(w) : i \in 1 .. n \/ i - n \in 1 .. Len(d)
        /\ \A i \in 1 .. Len(w) : n + (i - n) = i
    BY <1>1, <1>2, <1>4
  <1>8. ASSUME NEW i \in 1 .. Len(w), NEW j \in 1 .. Len(w), i < j
        PROVE  Before(order, w[i].id, w[j].id)
    <2>1. CASE i \in 1 .. n /\ j \in 1 .. n
      <3>1. Before(order, v[i].id, v[j].id)
        BY <1>1, <1>8, <2>1 DEF Ordered, Before, n
      <3> QED
        BY <1>7, <2>1, <3>1
    <2>2. CASE i \in 1 .. n /\ j - n \in 1 .. Len(d)
      BY <1>6, <1>7, <2>2
    <2>3. CASE i - n \in 1 .. Len(d) /\ j - n \in 1 .. Len(d)
      <3>1. i - n < j - n
        BY <1>1, <1>2, <1>4, <1>8
      <3>2. Before(order, d[i - n].id, d[j - n].id)
        BY <1>2, <2>3, <3>1 DEF Ordered, Before
      <3> QED
        BY <1>7, <2>3, <3>2
    <2>4. ~(i - n \in 1 .. Len(d) /\ j \in 1 .. n)
      BY <1>1, <1>2, <1>4, <1>8
    <2> QED
      BY <1>7, <2>1, <2>2, <2>3, <2>4
  <1>9. Ordered(w, order)
    <2>1. DOMAIN w = 1 .. Len(w)
      BY <1>4
    <2> QED
      BY <1>8, <2>1 DEF Ordered, Before
  <1>10. ASSUME m
         PROVE  /\ l \in 1 .. Len(d) /\ d[l].id \in Nat /\ d[l].id # Null
                /\ \A i \in 1 .. Len(w) : w[i].id = d[l].id \/ Before(order, w[i].id, d[l].id)
    <2>1. Len(d) = l /\ l \in 1 .. Len(d)
      BY <1>2, <1>10
    <2>2. d[l].id \in Nat /\ d[l].id # Null
      BY <1>5, <2>1 DEF Null
    <2>3. \A i \in 1 .. Len(w) : i = n + l \/ i < n + l
      BY <1>1, <1>2, <1>4, <2>1
    <2>4. w[n + l] = d[l] /\ n + l \in 1 .. Len(w)
      BY <1>7, <2>1
    <2> QED
      BY <1>8, <2>1, <2>2, <2>3, <2>4
  <1>11. ASSUME ok, NEW r \in lasting
         PROVE  (\E i \in 1 .. Len(w) : w[i] = r) \/ (m /\ (d[l].id # Null => Before(order, d[l].id, r.id)))
    <2>1. (\E i \in 1 .. n : v[i] = r) \/ (b # Null => Before(order, b, r.id))
      BY <1>11 DEF Visiting, n
    <2>2. CASE \E i \in 1 .. n : v[i] = r
      BY <1>7, <2>2
    <2>3. CASE b # Null => Before(order, b, r.id)
      <3>1. r \in rows
        BY <2>3
      <3>2. (\E i \in 1 .. Len(d) : d[i] = r) \/ (m /\ Before(order, d[l].id, r.id))
        BY <3>1 DEF IsWindow
      <3>3. CASE \E i \in 1 .. Len(d) : d[i] = r
        BY <1>7, <3>3
      <3> QED
        BY <3>2, <3>3
    <2> QED
      BY <2>1, <2>2, <2>3
  <1>12. Visiting(all, lasting, order, w, m, d[l].id, ok)
    BY <1>4, <1>9, <1>10, <1>11 DEF Visiting
  <1> QED
    BY <1>12 DEF w

-----------------------------------------------------------------------------
\* The recursive definitions of FlattenSeq, Walk and Iterate have their fixed points.
LEMMA FlattenDef ==
  ASSUME NEW seqs, NEW n \in Nat \ {0}, Len(seqs) = n
  PROVE  \E v : /\ v[1] = seqs[1]
                /\ \A k \in 1 .. n - 1 : v[k + 1] = v[k] \o seqs[k + 1]
                /\ FlattenSeq(seqs) = v[n]
  <1> DEFINE First == seqs[1]
             Step(c, k) == c \o seqs[k]
             Is(g, m) == g = [k \in 1 .. m |-> IF k = 1 THEN First ELSE Step(g[k - 1], k)]
             S == {m \in 0 .. n : \E g : Is(g, m)}
  <1> HIDE DEF First, Step
  <1>1. 0 \in S
    <2> DEFINE h == [k \in 1 .. 0 |-> First]
    <2>1. h = [k \in 1 .. 0 |-> h[k]] /\ \A k \in 1 .. 0 : FALSE
      OBVIOUS
    <2> HIDE DEF h
    <2>2. Is(h, 0)
      BY <2>1
    <2> HIDE DEF Is
    <2> QED
      BY <2>2
  <1>2. ASSUME NEW m \in 0 .. n - 1, m \in S
        PROVE  m + 1 \in S
    <2>1. PICK g : Is(g, m)
      BY <1>2
    <2> DEFINE h == [k \in 1 .. m + 1 |->
                       IF k = m + 1 THEN (IF m = 0 THEN First ELSE Step(g[m], m + 1)) ELSE g[k]]
    <2>2. ASSUME NEW k \in 1 .. m + 1
          PROVE  h[k] = IF k = 1 THEN First ELSE Step(h[k - 1], k)
      <3>1. CASE k = m + 1
        BY <3>1
      <3>2. CASE k \in 1 .. m
        BY <3>2, <2>1
      <3> QED
        BY <3>1, <3>2
    <2>3. h = [k \in 1 .. m + 1 |-> h[k]]
      OBVIOUS
    <2> HIDE DEF h
    <2>4. Is(h, m + 1)
      BY <2>2, <2>3
    <2> QED
      BY <2>4
  <1>3. n \in S
    <2>1. \A m \in 0 .. n - 1 : m \in S => m + 1 \in S
      BY <1>2
    <2>2. n \in Nat /\ n \in 0 .. n
      OBVIOUS
    <2> HIDE DEF S
    <2> QED
      BY <1>1, <2>1, <2>2, InductionUpTo
  <1>4. \E g : Is(g, n)
    BY <1>3
  <1>5. n # 0
    OBVIOUS
  <1> DEFINE Eq(g) == g = [k \in 1 .. n |-> IF k = 1 THEN seqs[k] ELSE g[k - 1] \o seqs[k]]
  <1>6. \A g : Is(g, n) <=> Eq(g)
    BY DEF First, Step
  <1>7. FlattenSeq(seqs) = (CHOOSE g : Eq(g))[n]
    BY <1>5 DEF FlattenSeq
  <1> HIDE DEF Eq
  <1>8. Eq(CHOOSE g : Eq(g))
    BY <1>4, <1>6
  <1> DEFINE v == CHOOSE g : Eq(g)
  <1>9. Is(v, n)
    BY <1>6, <1>8
  <1> HIDE DEF v
  <1>10. v[1] = First /\ \A k \in 1 .. n - 1 : v[k + 1] = Step(v[k], k + 1)
    <2>1. 1 \in 1 .. n /\ \A k \in 1 .. n - 1 : k + 1 \in 1 .. n /\ k + 1 # 1 /\ k + 1 - 1 = k
      OBVIOUS
    <2> QED
      BY <1>9, <2>1
  <1>11. FlattenSeq(seqs) = v[n]
    BY <1>7 DEF v
  <1> QED
    BY <1>10, <1>11, Zenon DEF First, Step

\* So has Walk.
LEMMA WalkDef ==
  ASSUME NEW tables, NEW n \in Nat \ {0}, Len(tables) = n, NEW ws, NEW p, NEW wheres
  PROVE  LET w == Walk(tables, ws, p, wheres)
         IN  w = [k \in 1 .. n |->
                     IF k = 1 THEN Page(tables[1], ws, p, wheres)
                     ELSE IF w[k - 1].next = <<>> THEN NoPage
                     ELSE Page(tables[k], ws, w[k - 1].next[1], wheres)]
  <1> DEFINE First == Page(tables[1], ws, p, wheres)
             Step(c, k) == IF c.next = <<>> THEN NoPage ELSE Page(tables[k], ws, c.next[1], wheres)
             Is(g, m) == g = [k \in 1 .. m |-> IF k = 1 THEN First ELSE Step(g[k - 1], k)]
             S == {m \in 0 .. n : \E g : Is(g, m)}
  <1> HIDE DEF First, Step
  <1>1. 0 \in S
    <2> DEFINE h == [k \in 1 .. 0 |-> First]
    <2>1. h = [k \in 1 .. 0 |-> h[k]] /\ \A k \in 1 .. 0 : FALSE
      OBVIOUS
    <2> HIDE DEF h
    <2>2. Is(h, 0)
      BY <2>1
    <2> HIDE DEF Is
    <2> QED
      BY <2>2
  <1>2. ASSUME NEW m \in 0 .. n - 1, m \in S
        PROVE  m + 1 \in S
    <2>1. PICK g : Is(g, m)
      BY <1>2
    <2> DEFINE h == [k \in 1 .. m + 1 |->
                       IF k = m + 1 THEN (IF m = 0 THEN First ELSE Step(g[m], m + 1)) ELSE g[k]]
    <2>2. ASSUME NEW k \in 1 .. m + 1
          PROVE  h[k] = IF k = 1 THEN First ELSE Step(h[k - 1], k)
      <3>1. CASE k = m + 1
        BY <3>1
      <3>2. CASE k \in 1 .. m
        BY <3>2, <2>1
      <3> QED
        BY <3>1, <3>2
    <2>3. h = [k \in 1 .. m + 1 |-> h[k]]
      OBVIOUS
    <2> HIDE DEF h
    <2>4. Is(h, m + 1)
      BY <2>2, <2>3
    <2> QED
      BY <2>4
  <1>3. n \in S
    <2>1. \A m \in 0 .. n - 1 : m \in S => m + 1 \in S
      BY <1>2
    <2>2. n \in Nat /\ n \in 0 .. n
      OBVIOUS
    <2> HIDE DEF S
    <2> QED
      BY <1>1, <2>1, <2>2, InductionUpTo
  <1>4. \E g : Is(g, n)
    BY <1>3
  <1> DEFINE Eq(g) == g = [k \in 1 .. n |->
                               IF k = 1 THEN Page(tables[1], ws, p, wheres)
                               ELSE IF g[k - 1].next = <<>> THEN NoPage
                               ELSE Page(tables[k], ws, g[k - 1].next[1], wheres)]
             w == CHOOSE g : Eq(g)
  <1>5. \A g : Is(g, n) <=> Eq(g)
    BY DEF First, Step
  <1>6. Walk(tables, ws, p, wheres) = [k \in 1 .. n |-> w[k]]
    BY DEF Walk
  <1>7. Eq(w)
    <2> HIDE DEF Eq
    <2> QED
      BY <1>4, <1>5
  <1> HIDE DEF w
  <1>8. w = [k \in 1 .. n |-> w[k]]
    BY <1>7
  <1> QED
    BY <1>6, <1>7, <1>8

-----------------------------------------------------------------------------
\* Page k of a walk: there is none, or it is the one that the link before leads to.
PageAt(tables, ws, wheres, sort, l, w, k) ==
    \/ k > 1 /\ w[k - 1].next = <<>> /\ w[k] = NoPage
    \/ \E after \in Nat : \E more \in BOOLEAN :
          /\ IsPage(Between(tables[k], ws, wheres, sort, after, Null), sort, l, after, more, w[k])
          /\ IF k = 1 THEN after = Null
             ELSE after # Null /\ w[k - 1].next = <<Linked(sort, l, after, Null)>>

\* The next link of a page leads behind its last row.
NextLeads(sort, l, more, pg) ==
    /\ more => /\ pg.next = <<Linked(sort, l, pg.data[l].id, Null)>>
               /\ l \in 1 .. Len(pg.data) /\ pg.data[l].id \in Nat /\ pg.data[l].id # Null
    /\ ~more => pg.next = <<>>
    /\ pg.next = <<>> => ~more

\* A page leads on if there are more rows.
LEMMA NextIs ==
  ASSUME NEW rows, IsTable(rows), NEW sort, NEW l \in Nat \ {0}, NEW after, NEW more \in BOOLEAN, NEW pg,
         IsPage(rows, sort, l, after, more, pg)
  PROVE  NextLeads(sort, l, more, pg)
  <1>1. IsWindow(rows, sort, l, pg.data, more)
    BY DEF IsPage
  <1>2. pg.next = IF more THEN <<Linked(sort, l, pg.data[l].id, Null)>> ELSE <<>>
    BY DEF IsPage
  <1>3. ASSUME more
        PROVE  l \in 1 .. Len(pg.data) /\ pg.data[l].id \in Nat /\ pg.data[l].id # Null
    BY <1>1, <1>3 DEF IsWindow, IsTable, Null
  <1> QED
    BY <1>2, <1>3 DEF NextLeads

\* Every page of a walk is the one that the link before leads to.
LEMMA WalkPages ==
  ASSUME NEW tables, NEW n \in Nat \ {0}, Len(tables) = n, \A k \in 1 .. n : IsTable(tables[k]),
         NEW ws, NEW wheres, NEW sort \in {"asc", "desc"}, NEW l \in Nat \ {0},
         NEW w, w = Walk(tables, ws, Linked(sort, l, Null, Null), wheres)
  PROVE  \A k \in 1 .. n : PageAt(tables, ws, wheres, sort, l, w, k)
  <1> DEFINE p == Linked(sort, l, Null, Null)
             At(k) == PageAt(tables, ws, wheres, sort, l, w, k)
             S == {k \in 0 .. n : k = 0 \/ At(k)}
  <1>1. w = [k \in 1 .. n |->
                IF k = 1 THEN Page(tables[1], ws, p, wheres)
                ELSE IF w[k - 1].next = <<>> THEN NoPage
                ELSE Page(tables[k], ws, w[k - 1].next[1], wheres)]
    BY WalkDef
  <1>2. ASSUME NEW k \in 0 .. n - 1, k \in S
        PROVE  k + 1 \in S
    <2>1. k + 1 \in 1 .. n /\ k + 1 - 1 = k /\ IsTable(tables[k + 1])
      OBVIOUS
    <2>2. CASE k = 0
      <3>1. w[1] = Page(tables[1], ws, p, wheres)
        BY <1>1, <2>1, <2>2
      <3>2. \E more \in BOOLEAN :
               IsPage(Between(tables[1], ws, wheres, sort, Null, Null), sort, l, Null, more, w[1])
        <4>1. Null \in Nat /\ IsTable(tables[1])
          BY <2>1, <2>2 DEF Null
        <4> QED
          BY <3>1, <4>1, PageIs
      <3>3. At(1)
        BY <3>2 DEF PageAt, Null
      <3> QED
        BY <2>1, <2>2, <3>3
    <2>3. CASE k # 0
      <3>1. w[k + 1] = IF w[k].next = <<>> THEN NoPage ELSE Page(tables[k + 1], ws, w[k].next[1], wheres)
        BY <1>1, <2>1, <2>3
      <3>2. At(k) /\ k \in 1 .. n /\ k + 1 > 1 /\ k + 1 # 1
        BY <1>2, <2>1, <2>3
      <3> HIDE DEF p
      <3>3. CASE w[k].next = <<>>
        <4>1. At(k + 1)
          BY <2>1, <3>1, <3>2, <3>3 DEF PageAt
        <4> QED
          BY <2>1, <4>1
      <3>4. CASE w[k].next # <<>>
        <4>1. PICK id \in Nat : id # Null /\ w[k].next = <<Linked(sort, l, id, Null)>>
          <5>1. w[k] # NoPage
            BY <3>4 DEF NoPage
          <5>2. PICK after \in Nat : \E more \in BOOLEAN :
                  IsPage(Between(tables[k], ws, wheres, sort, after, Null), sort, l, after, more, w[k])
            BY <3>2, <5>1 DEF PageAt
          <5>3. PICK more \in BOOLEAN :
                  IsPage(Between(tables[k], ws, wheres, sort, after, Null), sort, l, after, more, w[k])
            BY <5>2
          <5>4. IsTable(Between(tables[k], ws, wheres, sort, after, Null))
            BY <3>2, BetweenIsTable
          <5> DEFINE rows == Between(tables[k], ws, wheres, sort, after, Null)
          <5> HIDE DEF rows
          <5>5. NextLeads(sort, l, more, w[k])
            BY <5>3, <5>4, NextIs, Zenon DEF rows
          <5> QED
            BY <3>4, <5>5 DEF NextLeads
        <4>2. w[k + 1] = Page(tables[k + 1], ws, Linked(sort, l, id, Null), wheres)
          BY <3>1, <3>4, <4>1
        <4>3. \E more \in BOOLEAN :
                 IsPage(Between(tables[k + 1], ws, wheres, sort, id, Null), sort, l, id, more, w[k + 1])
          BY <2>1, <4>2, PageIs
        <4>4. At(k + 1)
          BY <2>1, <3>2, <4>1, <4>3 DEF PageAt
        <4> QED
          BY <2>1, <4>4
      <3> QED
        BY <3>3, <3>4
    <2> QED
      BY <2>2, <2>3
  <1>3. \A k \in 0 .. n : k \in S
    <2>1. 0 \in S
      OBVIOUS
    <2> HIDE DEF S
    <2> QED
      BY <1>2, <2>1, InductionUpTo
  <1> HIDE DEF At
  <1>4. \A k \in 1 .. n : At(k)
    BY <1>3
  <1> QED
    BY <1>4 DEF At

\* Rows that match in some table of a walk.
Matching(tables, ws, wheres) == AppendWhere(UNION {tables[k] : k \in DOMAIN tables}, ws, wheres)

\* Rows that match have ids.
LEMMA MatchingIs ==
  ASSUME NEW tables, \A k \in DOMAIN tables : IsTable(tables[k]), NEW ws, NEW wheres
  PROVE  \A r \in Matching(tables, ws, wheres) : r.id \in Nat \ {0}
  BY DEF Matching, AppendWhere, IsTable, Null

\* The rows behind an id match, and those that last are among them.
LEMMA BetweenFits ==
  ASSUME NEW tables, NEW k \in DOMAIN tables, NEW ws, NEW wheres, NEW sort, NEW b,
         NEW rows, rows = Between(tables[k], ws, wheres, sort, b, Null)
  PROVE  /\ rows \subseteq Matching(tables, ws, wheres)
         /\ \A r \in rows : b # Null => Before(sort, b, r.id)
         /\ \A r \in Lasting(tables, ws, wheres) : (b # Null => Before(sort, b, r.id)) => r \in rows
  BY DEF Between, Matching, Lasting, AppendWhere

\* A link tells its id.
LEMMA LinkedInjective ==
  ASSUME NEW sort, NEW l, NEW a, NEW b, <<Linked(sort, l, a, Null)>> = <<Linked(sort, l, b, Null)>>
  PROVE  a = b
  <1>1. Linked(sort, l, a, Null) = Linked(sort, l, b, Null)
    OBVIOUS
  <1>2. Linked(sort, l, a, Null).after = a /\ Linked(sort, l, b, Null).after = b
    BY DEF Linked
  <1> QED
    BY <1>1, <1>2

\* What has been visited with page k, and where its link leads.
WalkedTo(tables, ws, wheres, sort, l, v, pg) ==
    \/ /\ Visiting(Matching(tables, ws, wheres), Lasting(tables, ws, wheres), sort, v, FALSE, 0, TRUE)
       /\ pg.next = <<>>
    \/ \E b \in Nat :
          /\ Visiting(Matching(tables, ws, wheres), Lasting(tables, ws, wheres), sort, v, TRUE, b, TRUE)
          /\ pg.next = <<Linked(sort, l, b, Null)>>

\* The page behind what has been visited visits on.
LEMMA WalkedStep ==
  ASSUME NEW tables, \A k \in DOMAIN tables : IsTable(tables[k]), NEW k \in DOMAIN tables,
         NEW ws, NEW wheres, NEW sort \in {"asc", "desc"}, NEW l \in Nat \ {0}, NEW v,
         NEW b \in Nat, NEW pg, NEW more \in BOOLEAN,
         Visiting(Matching(tables, ws, wheres), Lasting(tables, ws, wheres), sort, v, TRUE, b, TRUE),
         IsPage(Between(tables[k], ws, wheres, sort, b, Null), sort, l, b, more, pg)
  PROVE  WalkedTo(tables, ws, wheres, sort, l, v \o pg.data, pg)
  <1> DEFINE rows == Between(tables[k], ws, wheres, sort, b, Null)
             all == Matching(tables, ws, wheres)
             lasting == Lasting(tables, ws, wheres)
  <1>1. IsWindow(rows, sort, l, pg.data, more)
    BY DEF IsPage
  <1>2. IsTable(rows)
    BY BetweenIsTable
  <1>3. NextLeads(sort, l, more, pg)
    <2> HIDE DEF rows
    <2> QED
      BY <1>2, NextIs, Zenon DEF rows
  <1>4. /\ rows \subseteq all
        /\ \A r \in rows : b # Null => Before(sort, b, r.id)
        /\ \A r \in lasting : (b # Null => Before(sort, b, r.id)) => r \in rows
    BY BetweenFits
  <1>5. \A r \in all : r.id \in Nat \ {0}
    BY MatchingIs
  <1>6. Visiting(all, lasting, sort, v \o pg.data, more, pg.data[l].id, TRUE)
    <2> HIDE DEF rows, all, lasting
    <2> QED
      BY <1>1, <1>4, <1>5, VisitingGoesOn DEF rows, all, lasting
  <1> HIDE DEF all, lasting
  <1>7. CASE more
    <2>1. Visiting(all, lasting, sort, v \o pg.data, TRUE, pg.data[l].id, TRUE)
      BY <1>6, <1>7 DEF Visiting
    <2> QED
      BY <1>3, <1>7, <2>1 DEF NextLeads, WalkedTo, all, lasting
  <1>8. CASE ~more
    <2>1. Visiting(all, lasting, sort, v \o pg.data, FALSE, 0, TRUE)
      BY <1>6, <1>8 DEF Visiting
    <2> QED
      BY <1>3, <1>8, <2>1 DEF NextLeads, WalkedTo, all, lasting
  <1> QED
    BY <1>7, <1>8

\* What a walk has visited at its end.
LEMMA WalkVisits ==
  ASSUME NEW tables, NEW n \in Nat \ {0}, Len(tables) = n, DOMAIN tables = 1 .. n,
         \A k \in 1 .. n : IsTable(tables[k]),
         NEW ws, NEW wheres, NEW sort \in {"asc", "desc"}, NEW l \in Nat \ {0},
         NEW w, w = Walk(tables, ws, Linked(sort, l, Null, Null), wheres)
  PROVE  WalkedTo(tables, ws, wheres, sort, l, Visited(w), w[n])
  <1> DEFINE seqs == [k \in DOMAIN w |-> w[k].data]
             all == Matching(tables, ws, wheres)
             lasting == Lasting(tables, ws, wheres)
  <1>1. DOMAIN w = 1 .. n
    BY WalkDef
  <1>2. Len(seqs) = n /\ \A k \in 1 .. n : seqs[k] = w[k].data
    BY <1>1
  <1>3. PICK v : /\ v[1] = seqs[1]
                 /\ \A k \in 1 .. n - 1 : v[k + 1] = v[k] \o seqs[k + 1]
                 /\ FlattenSeq(seqs) = v[n]
    <2> HIDE DEF seqs
    <2> QED
      BY <1>2, FlattenDef
  <1>4. \A k \in 1 .. n : PageAt(tables, ws, wheres, sort, l, w, k)
    BY WalkPages
  <1> DEFINE At(k) == WalkedTo(tables, ws, wheres, sort, l, v[k], w[k])
             S == {k \in 0 .. n : k = 0 \/ At(k)}
  <1> HIDE DEF seqs
  <1>5. ASSUME NEW k \in 0 .. n - 1, k \in S
        PROVE  k + 1 \in S
    <2>1. k + 1 \in 1 .. n /\ k + 1 - 1 = k /\ PageAt(tables, ws, wheres, sort, l, w, k + 1)
      BY <1>4
    <2>2. CASE k = 0
      <3>1. v[1] = w[1].data
        BY <1>2, <1>3, <2>1, <2>2
      <3>2. PICK more \in BOOLEAN :
               IsPage(Between(tables[1], ws, wheres, sort, Null, Null), sort, l, Null, more, w[1])
        <4>1. ~(1 > 1)
          OBVIOUS
        <4> QED
          BY <2>1, <2>2, <4>1 DEF PageAt
      <3>3. Visiting(all, lasting, sort, <<>>, TRUE, Null, TRUE)
        BY VisitingStarts
      <3>4. WalkedTo(tables, ws, wheres, sort, l, <<>> \o w[1].data, w[1])
        <4>1. Null \in Nat /\ 1 \in DOMAIN tables
          BY <2>1, <2>2 DEF Null
        <4> QED
          BY <3>2, <3>3, <4>1, WalkedStep
      <3>5. <<>> \o w[1].data = w[1].data
        <4>1. w[1].data \in Seq(Between(tables[1], ws, wheres, sort, Null, Null))
          BY <3>2 DEF IsPage, IsWindow
        <4> QED
          BY <4>1, ConcatEmptySeq
      <3>6. At(1)
        BY <3>1, <3>4, <3>5
      <3> QED
        BY <2>1, <2>2, <3>6
    <2>3. CASE k # 0
      <3>1. v[k + 1] = v[k] \o w[k + 1].data
        <4>1. k \in 1 .. n - 1 /\ seqs[k + 1] = w[k + 1].data
          BY <1>2, <2>1, <2>3
        <4> QED
          BY <1>3, <4>1, Zenon
      <3>2. At(k) /\ k \in 1 .. n /\ k + 1 # 1
        BY <1>5, <2>1, <2>3
      <3>3. \/ Visiting(all, lasting, sort, v[k], FALSE, 0, TRUE) /\ w[k].next = <<>>
            \/ \E b \in Nat : /\ Visiting(all, lasting, sort, v[k], TRUE, b, TRUE)
                              /\ w[k].next = <<Linked(sort, l, b, Null)>>
        BY <3>2 DEF WalkedTo
      <3>4. CASE w[k].next = <<>> /\ w[k + 1] = NoPage
        <4>1. Visiting(all, lasting, sort, v[k], FALSE, 0, TRUE)
          <5>1. \A x : <<x>> # <<>>
            OBVIOUS
          <5> QED
            BY <3>3, <3>4, <5>1, Zenon
        <4>2. w[k + 1].data = <<>> /\ w[k + 1].next = <<>>
          BY <3>4 DEF NoPage
        <4>3. v[k] \o <<>> = v[k] /\ Visiting(all, lasting, sort, v[k], FALSE, 0, TRUE)
          BY <4>1, VisitingStops
        <4>4. At(k + 1)
          BY <3>1, <4>2, <4>3 DEF WalkedTo
        <4> QED
          BY <2>1, <4>4
      <3>5. CASE ~(w[k].next = <<>> /\ w[k + 1] = NoPage)
        <4>1. PICK after \in Nat : \E more \in BOOLEAN :
                /\ IsPage(Between(tables[k + 1], ws, wheres, sort, after, Null), sort, l, after, more, w[k + 1])
                /\ w[k].next = <<Linked(sort, l, after, Null)>>
          BY <2>1, <3>2, <3>5 DEF PageAt
        <4>2. PICK more \in BOOLEAN :
                /\ IsPage(Between(tables[k + 1], ws, wheres, sort, after, Null), sort, l, after, more, w[k + 1])
                /\ w[k].next = <<Linked(sort, l, after, Null)>>
          BY <4>1
        <4>3. PICK b \in Nat : /\ Visiting(all, lasting, sort, v[k], TRUE, b, TRUE)
                               /\ w[k].next = <<Linked(sort, l, b, Null)>>
          <5>1. \A x : <<x>> # <<>>
            OBVIOUS
          <5> QED
            BY <3>3, <4>2, <5>1, Zenon
        <4>4. b = after
          BY <4>2, <4>3, LinkedInjective
        <4>5. Visiting(all, lasting, sort, v[k], TRUE, after, TRUE)
          BY <4>3, <4>4
        <4>6. WalkedTo(tables, ws, wheres, sort, l, v[k] \o w[k + 1].data, w[k + 1])
          <5>1. k + 1 \in DOMAIN tables /\ \A j \in DOMAIN tables : IsTable(tables[j])
            BY <2>1
          <5> QED
            BY <4>2, <4>5, <5>1, WalkedStep, Zenon
        <4>7. At(k + 1)
          BY <3>1, <4>6
        <4> QED
          BY <2>1, <4>7
      <3> QED
        BY <3>4, <3>5
    <2> QED
      BY <2>2, <2>3
  <1>6. \A k \in 0 .. n : k \in S
    <2>1. 0 \in S
      OBVIOUS
    <2> HIDE DEF S
    <2> QED
      BY <1>5, <2>1, InductionUpTo
  <1>7. At(n)
    <2> HIDE DEF At
    <2> QED
      BY <1>6
  <1>8. Visited(w) = v[n]
    BY <1>3 DEF Visited, seqs
  <1> QED
    BY <1>7, <1>8

\* The last l elements, backwards, are the window of the other order.
Facing(l, B, key, d, m, x) ==
    /\ \A i, j \in 1 .. l : i < j => key[d[i]] < key[d[j]]
    /\ \A r \in B : (\E i \in 1 .. l : d[i] = r) \/ key[r] < key[d[1]]
    /\ \A i, j \in 1 .. m : i < j => key[x[i]] > key[x[j]]
    /\ \A r \in B : (\E i \in 1 .. m : x[i] = r) \/ (m = l /\ key[r] < key[x[l]])

\* x is d, backwards.
Turned(l, d, m, x) == m = l /\ \A j \in 1 .. l : x[j] = d[l + 1 - j]

\* Two windows of the same rows that face each other.
LEMMA BackWindow ==
  ASSUME NEW l \in Nat \ {0}, NEW B, NEW key \in [B -> Int], NEW d \in [1 .. l -> B],
         NEW m \in 0 .. l, NEW x \in [1 .. m -> B], Facing(l, B, key, d, m, x)
  PROVE  Turned(l, d, m, x)
  <1>1. /\ \A i, j \in 1 .. l : i < j => key[d[i]] < key[d[j]]
        /\ \A r \in B : (\E i \in 1 .. l : d[i] = r) \/ key[r] < key[d[1]]
        /\ \A i, j \in 1 .. m : i < j => key[x[i]] > key[x[j]]
        /\ \A r \in B : (\E i \in 1 .. m : x[i] = r) \/ (m = l /\ key[r] < key[x[l]])
    BY DEF Facing
  <1> USE <1>1
  <1> DEFINE Same(i) == i <= m /\ \A j \in 1 .. i : x[j] = d[l + 1 - j]
             S == {i \in 0 .. l : Same(i)}
  <1>2. 0 \in S
    OBVIOUS
  <1>3. ASSUME NEW i \in 0 .. l - 1, i \in S
        PROVE  i + 1 \in S
    <2> DEFINE e == d[l - i]
    <2>1. l - i \in 1 .. l /\ e \in B /\ i <= m /\ \A j \in 1 .. i : x[j] = d[l + 1 - j]
      BY <1>3
    <2>2. ASSUME NEW j \in 1 .. i
          PROVE  key[e] < key[x[j]]
      <3>1. l + 1 - j \in 1 .. l /\ l - i < l + 1 - j
        OBVIOUS
      <3> QED
        BY <2>1, <3>1
    <2>3. m >= i + 1
      <3> SUFFICES ASSUME m = i PROVE FALSE
        BY <2>1
      <3>1. PICK j \in 1 .. i : x[j] = e
        BY <2>1
      <3> QED
        BY <2>1, <2>2, <3>1
    <2> DEFINE y == x[i + 1]
    <2>4. i + 1 \in 1 .. m /\ y \in B
      BY <2>3
    <2>5. key[y] <= key[e]
      <3>1. CASE key[y] < key[d[1]]
        <4>1. key[d[1]] <= key[e]
          BY <2>1
        <4> QED
          BY <2>1, <2>4, <3>1, <4>1
      <3>2. CASE \E t \in 1 .. l : d[t] = y
        <4>1. PICK t \in 1 .. l : d[t] = y
          BY <3>2
        <4>2. CASE t <= l - i
          <5>1. t = l - i \/ t < l - i
            BY <4>2
          <5>2. key[y] \in Int /\ key[e] \in Int
            BY <2>1, <2>4
          <5>3. CASE t = l - i
            BY <2>1, <4>1, <5>2, <5>3
          <5>4. CASE t < l - i
            BY <2>1, <4>1, <5>2, <5>4
          <5> QED
            BY <5>1, <5>3, <5>4
        <4>3. CASE t > l - i
          <5>1. l + 1 - t \in 1 .. i /\ l + 1 - (l + 1 - t) = t /\ l + 1 - t < i + 1 /\ l + 1 - t \in 1 .. m
            BY <2>1, <2>4, <4>3
          <5>2. x[l + 1 - t] = d[t]
            BY <2>1, <5>1
          <5>3. key[x[l + 1 - t]] > key[y]
            BY <2>4, <5>1
          <5> QED
            BY <2>4, <4>1, <5>2, <5>3
        <4> QED
          BY <2>1, <4>2, <4>3
      <3> QED
        BY <2>4, <3>1, <3>2
    <2>6. y = e
      <3>1. CASE m = l /\ key[e] < key[x[l]]
        <4>1. key[x[l]] <= key[y]
          BY <2>4, <3>1
        <4> QED
          BY <2>1, <2>4, <2>5, <3>1, <4>1
      <3>2. CASE \E j \in 1 .. m : x[j] = e
        <4>1. PICK j \in 1 .. m : x[j] = e
          BY <3>2
        <4>2. CASE j <= i
          BY <2>1, <2>2, <4>1, <4>2
        <4>3. CASE j > i + 1
          BY <2>4, <2>5, <4>1, <4>3
        <4>4. CASE j = i + 1
          BY <4>1, <4>4
        <4>5. j <= i \/ j = i + 1 \/ j > i + 1
          BY <2>4
        <4> QED
          BY <4>2, <4>3, <4>4, <4>5
      <3> QED
        BY <2>1, <3>1, <3>2
    <2>7. l + 1 - (i + 1) = l - i /\ i + 1 \in 0 .. l /\ \A j \in 1 .. i + 1 : j \in 1 .. i \/ j = i + 1
      OBVIOUS
    <2> QED
      BY <2>1, <2>3, <2>6, <2>7
  <1>4. \A i \in 0 .. l : i \in S
    <2> HIDE DEF S
    <2> QED
      BY <1>2, <1>3, InductionUpTo
  <1>5. Same(l)
    <2> HIDE DEF Same
    <2> QED
      BY <1>4
  <1> QED
    BY <1>5 DEF Turned

\* Ids as numbers that grow in an order.
Rank(sort, id) == IF sort = "asc" THEN id ELSE -id

\* Numbers in the order of ids.
LEMMA RankIs ==
  ASSUME NEW sort \in {"asc", "desc"}, NEW a \in Nat, NEW b \in Nat
  PROVE  /\ Rank(sort, a) \in Int
         /\ Before(sort, a, b) <=> Rank(sort, a) < Rank(sort, b)
         /\ Before(Flip(sort), a, b) <=> Rank(sort, a) > Rank(sort, b)
         /\ Rank(sort, a) = Rank(sort, b) => a = b
  BY DEF Rank, Before, Flip

\* Ordered, for a sequence.
LEMMA OrderedIs ==
  ASSUME NEW rows, NEW order, NEW x \in Seq(rows), Ordered(x, order)
  PROVE  \A i, j \in 1 .. Len(x) : i < j => Before(order, x[i].id, x[j].id)
  <1>1. DOMAIN x = 1 .. Len(x)
    OBVIOUS
  <1> QED
    BY <1>1 DEF Ordered, Before

\* A page after an id.
SomePage(table, ws, wheres, sort, l, after, pg) ==
    \E more \in BOOLEAN : IsPage(Between(table, ws, wheres, sort, after, Null), sort, l, after, more, pg)

\* The link back of page two leads to page one.
LeadsBack(table, ws, wheres, one, two) ==
    two.prev # <<>> /\ Page(table, ws, two.prev[1], wheres).data = one.data

\* While the table does not change, the link back leads to the page before.
LEMMA PrevIs ==
  ASSUME NEW table, IsTable(table), NEW ws, NEW wheres, NEW sort \in {"asc", "desc"}, NEW l \in Nat \ {0},
         NEW a \in Nat, NEW one, NEW two, NEW b \in Nat, b # Null,
         SomePage(table, ws, wheres, sort, l, a, one), one.next = <<Linked(sort, l, b, Null)>>,
         SomePage(table, ws, wheres, sort, l, b, two), two.data # <<>>
  PROVE  LeadsBack(table, ws, wheres, one, two)
  <1> DEFINE M == AppendWhere(table, ws, wheres)
             first == Between(table, ws, wheres, sort, a, Null)
             second == Between(table, ws, wheres, sort, b, Null)
             d == one.data
             f == two.data[1].id
             B == Between(table, ws, wheres, sort, Null, f)
  <1>1. PICK m \in BOOLEAN : IsPage(Between(table, ws, wheres, sort, a, Null), sort, l, a, m, one)
    BY DEF SomePage
  <1>2. PICK n \in BOOLEAN : IsPage(Between(table, ws, wheres, sort, b, Null), sort, l, b, n, two)
    BY DEF SomePage
  <1>3. /\ IsTable(M) /\ first \subseteq M /\ second \subseteq M /\ B \subseteq M
        /\ \A r \in M : r.id \in Nat /\ r.id # Null
    <2>1. IsTable(M)
      BY WhereIsTable
    <2>2. first \subseteq M /\ second \subseteq M /\ B \subseteq M
      BY DEF Between
    <2> QED
      BY <2>1, <2>2 DEF IsTable
  <1>4. /\ \A r \in M : a # Null => (r \in first <=> Before(sort, a, r.id))
        /\ \A r \in M : a = Null => r \in first
        /\ \A r \in M : r \in second <=> Before(sort, b, r.id)
        /\ \A r \in M : f # Null => (r \in B <=> Before(sort, r.id, f))
    BY DEF Between
  <1>5. m /\ b = d[l].id /\ IsWindow(first, sort, l, d, m)
    <2>1. NextLeads(sort, l, m, one)
      <3>1. IsTable(first)
        BY BetweenIsTable
      <3> HIDE DEF first
      <3> QED
        BY <1>1, <3>1, NextIs, Zenon DEF first
    <2>2. m
      BY <2>1 DEF NextLeads
    <2>3. one.next = <<Linked(sort, l, d[l].id, Null)>>
      BY <2>1, <2>2 DEF NextLeads
    <2>4. d[l].id = b
      BY <2>3, LinkedInjective
    <2> QED
      BY <1>1, <2>2, <2>4 DEF IsPage
  <1>6. IsWindow(second, sort, l, two.data, n)
    BY <1>2 DEF IsPage
  <1>7. two.prev = <<Linked(sort, l, Null, f)>>
    BY <1>2 DEF IsPage
  <1> HIDE DEF first, second, B, M
  <1>8. /\ d \in Seq(first) /\ Len(d) = l /\ d \in [1 .. l -> first]
        /\ \A i, j \in 1 .. l : i < j => Before(sort, d[i].id, d[j].id)
        /\ \A r \in first : (\E i \in 1 .. l : d[i] = r) \/ Before(sort, d[l].id, r.id)
    <2>1. d \in Seq(first) /\ Len(d) = l /\ Ordered(d, sort)
      BY <1>5 DEF IsWindow
    <2>2. \A r \in first : (\E i \in 1 .. l : d[i] = r) \/ Before(sort, d[l].id, r.id)
      BY <1>5, <2>1 DEF IsWindow
    <2> HIDE DEF d
    <2> QED
      BY <2>1, <2>2, OrderedIs
  <1>9. /\ two.data \in Seq(second) /\ 1 \in 1 .. Len(two.data)
        /\ \A i \in 1 .. Len(two.data) : i # 1 => Before(sort, f, two.data[i].id)
    <2>1. two.data \in Seq(second) /\ Ordered(two.data, sort) /\ Len(two.data) \in 0 .. l
      BY <1>6 DEF IsWindow
    <2>2. 1 \in 1 .. Len(two.data)
      BY <2>1
    <2> QED
      BY <2>1, <2>2, OrderedIs
  <1>10. two.data[1] \in second /\ f \in Nat /\ f # Null /\ Before(sort, b, f)
    BY <1>3, <1>4, <1>9
  <1> HIDE DEF d, f
  \* Nothing is between the two pages.
  <1>11. ASSUME NEW r \in B
        PROVE  ~Before(sort, b, r.id)
    <2> SUFFICES ASSUME Before(sort, b, r.id) PROVE FALSE
      OBVIOUS
    <2>1. r \in second /\ r.id \in Nat /\ Before(sort, r.id, f)
      BY <1>3, <1>4, <1>10
    <2>2. \A i \in 1 .. Len(two.data) : two.data[i].id = f \/ Before(sort, f, two.data[i].id)
      BY <1>9 DEF f
    <2>3. \A i \in 1 .. Len(two.data) : two.data[i].id \in Nat
      BY <1>3, <1>9
    <2>4. (\E i \in 1 .. Len(two.data) : two.data[i] = r)
          \/ (l \in 1 .. Len(two.data) /\ Before(sort, two.data[l].id, r.id))
      BY <1>6, <2>1 DEF IsWindow
    <2>5. CASE \E i \in 1 .. Len(two.data) : two.data[i] = r
      <3>1. r.id = f \/ Before(sort, f, r.id)
        BY <2>2, <2>5
      <3> QED
        BY <1>10, <2>1, <3>1 DEF Before
    <2>6. CASE l \in 1 .. Len(two.data) /\ Before(sort, two.data[l].id, r.id)
      BY <1>10, <2>1, <2>2, <2>3, <2>6 DEF Before
    <2> QED
      BY <2>4, <2>5, <2>6
  <1>12. d \in [1 .. l -> B]
    <2> SUFFICES ASSUME NEW i \in 1 .. l PROVE d[i] \in B
      BY <1>8
    <2>1. d[i] \in M /\ d[i].id \in Nat
      BY <1>3, <1>8
    <2>2. d[i].id = b \/ Before(sort, d[i].id, b)
      <3>1. i = l \/ i < l
        OBVIOUS
      <3> QED
        BY <1>5, <1>8, <3>1
    <2>3. Before(sort, d[i].id, f)
      BY <1>10, <2>1, <2>2 DEF Before
    <2> QED
      BY <1>4, <1>10, <2>1, <2>3
  <1>13. ASSUME NEW r \in B
         PROVE  (\E i \in 1 .. l : d[i] = r) \/ Before(sort, r.id, d[1].id)
    <2>1. r \in M /\ r.id \in Nat /\ d[1] \in first /\ d[1] \in M /\ d[1].id \in Nat
      BY <1>3, <1>8
    <2>2. CASE r \in first
      BY <1>5, <1>8, <1>11, <2>2
    <2>3. CASE r \notin first
      <3>1. a # Null /\ ~Before(sort, a, r.id) /\ Before(sort, a, d[1].id)
        BY <1>4, <2>1, <2>3
      <3> QED
        BY <2>1, <3>1 DEF Before
    <2> QED
      BY <2>2, <2>3
  <1>14. PICK x : /\ \E more \in BOOLEAN : IsWindow(B, Flip(sort), l, x, more)
                  /\ Page(table, ws, Linked(sort, l, Null, f), wheres).data = Reverse(x)
    <2>1. f \in Nat \ {0}
      BY <1>10 DEF Null
    <2> HIDE DEF f
    <2>2. IsBackPage(B, Flip(sort), l, Page(table, ws, Linked(sort, l, Null, f), wheres).data)
      BY <2>1, PageBackIs DEF B
    <2> QED
      BY <2>2, Zenon DEF IsBackPage
  <1>15. /\ x \in Seq(B) /\ Len(x) \in 0 .. l /\ x \in [1 .. Len(x) -> B]
         /\ \A i, j \in 1 .. Len(x) : i < j => Before(Flip(sort), x[i].id, x[j].id)
         /\ \A r \in B : (\E i \in 1 .. Len(x) : x[i] = r) \/ (Len(x) = l /\ Before(Flip(sort), x[l].id, r.id))
    <2>1. PICK more \in BOOLEAN : IsWindow(B, Flip(sort), l, x, more)
      BY <1>14
    <2>2. x \in Seq(B) /\ Len(x) \in 0 .. l /\ Ordered(x, Flip(sort))
      BY <2>1 DEF IsWindow
    <2>3. \A r \in B : (\E i \in 1 .. Len(x) : x[i] = r) \/ (Len(x) = l /\ Before(Flip(sort), x[l].id, r.id))
      BY <2>1 DEF IsWindow
    <2> QED
      BY <2>2, <2>3, OrderedIs
  <1>16. Len(x) = l /\ \A j \in 1 .. l : x[j] = d[l + 1 - j]
    <2> DEFINE key == [r \in B |-> Rank(sort, r.id)]
               k == Len(x)
    <2>1. \A r \in B : r.id \in Nat
      BY <1>3
    <2>2. key \in [B -> Int]
      BY <2>1, RankIs
    <2>3. /\ \A r, s \in B : Before(sort, r.id, s.id) => key[r] < key[s]
          /\ \A r, s \in B : Before(Flip(sort), r.id, s.id) => key[r] > key[s]
      BY <2>1, RankIs
    <2> HIDE DEF key
    <2>4. \A i, j \in 1 .. l : i < j => key[d[i]] < key[d[j]]
      BY <1>8, <1>12, <2>3
    <2>5. \A r \in B : (\E i \in 1 .. l : d[i] = r) \/ key[r] < key[d[1]]
      <3>1. d[1] \in B
        BY <1>12
      <3> QED
        BY <1>13, <2>3, <3>1
    <2>6. \A i, j \in 1 .. k : i < j => key[x[i]] > key[x[j]]
      BY <1>15, <2>3
    <2>7. \A r \in B : (\E i \in 1 .. k : x[i] = r) \/ (k = l /\ key[r] < key[x[l]])
      <3>1. k = l => x[l] \in B
        BY <1>15
      <3>2. \A r, s \in B : key[r] \in Int
        BY <2>2
      <3> QED
        BY <1>15, <2>2, <2>3, <3>1, <3>2
    <2>8. k \in 0 .. l /\ x \in [1 .. k -> B]
      BY <1>15
    <2> HIDE DEF k
    <2>9. Facing(l, B, key, d, k, x)
      BY <2>4, <2>5, <2>6, <2>7, Zenon DEF Facing
    <2>10. Turned(l, d, k, x)
      BY <1>12, <2>2, <2>8, <2>9, BackWindow
    <2> QED
      BY <2>10 DEF Turned, k
  <1>17. Reverse(x) = d
    <2>1. Reverse(x) = [i \in 1 .. l |-> x[(l - i) + 1]]
      BY <1>16 DEF Reverse
    <2>2. \A i \in 1 .. l : x[(l - i) + 1] = d[i]
      <3>1. \A i \in 1 .. l : (l - i) + 1 \in 1 .. l /\ l + 1 - ((l - i) + 1) = i
        OBVIOUS
      <3> QED
        BY <1>16, <3>1
    <2>3. d = [i \in 1 .. l |-> d[i]]
      BY <1>12
    <2> QED
      BY <2>1, <2>2, <2>3
  <1>18. two.prev # <<>> /\ two.prev[1] = Linked(sort, l, Null, f)
    BY <1>7
  <1> QED
    BY <1>14, <1>17, <1>18 DEF d, LeadsBack

\* LinksVisitOnce, for all tables, filters and limits.
LEMMA EveryWalkIsExact ==
  ASSUME NEW in, IsPaging(in)
  PROVE  LinksVisitOnce(in)
  <1> DEFINE wheres == Taken(in.filters, in.asked)
             tables == in.tables
             n == Len(tables)
             l == in.limit
             sort == in.sort
             ws == in.ws
             w == Walk(tables, ws, FirstPage(in), wheres)
  <1>1. /\ n \in Nat \ {0} /\ DOMAIN tables = 1 .. n /\ \A k \in 1 .. n : IsTable(tables[k])
        /\ sort \in {"asc", "desc"} /\ l \in Nat \ {0}
    BY DEF IsPaging
  <1>2. FirstPage(in) = Linked(sort, l, Null, Null)
    BY DEF FirstPage, Linked
  <1> HIDE DEF wheres
  <1>3. w = Walk(tables, ws, Linked(sort, l, Null, Null), wheres)
    BY <1>2
  <1>4. LinksVisitOnce(in) =
           (/\ Ordered(Visited(w), sort)
            /\ Last(w).next = <<>> => Lasting(tables, ws, wheres) \subseteq ToSet(Visited(w))
            /\ \A k \in 2 .. Len(w) :
                  /\ w[k].data # <<>> /\ tables[k] = tables[k - 1]
                  => /\ w[k].prev # <<>>
                     /\ Page(tables[k], ws, w[k].prev[1], wheres).data = w[k - 1].data)
    BY DEF LinksVisitOnce, wheres
  <1> HIDE DEF w, tables, l, sort, ws, n
  <1>5. Len(tables) = n
    BY DEF n
  <1>6. DOMAIN w = 1 .. n /\ Len(w) = n
    <2>1. w = [k \in 1 .. n |->
                IF k = 1 THEN Page(tables[1], ws, Linked(sort, l, Null, Null), wheres)
                ELSE IF w[k - 1].next = <<>> THEN NoPage
                ELSE Page(tables[k], ws, w[k - 1].next[1], wheres)]
      BY <1>1, <1>3, <1>5, WalkDef
    <2>2. DOMAIN w = 1 .. n
      BY <2>1, Zenon
    <2>3. w = [k \in 1 .. n |-> w[k]]
      BY <2>1
    <2> QED
      BY <1>1, <2>2, <2>3
  <1>7. WalkedTo(tables, ws, wheres, sort, l, Visited(w), w[n])
    BY <1>1, <1>3, <1>5, WalkVisits
  <1>8. \A k \in 1 .. n : PageAt(tables, ws, wheres, sort, l, w, k)
    BY <1>1, <1>3, <1>5, WalkPages
  <1>9. Ordered(Visited(w), sort)
    BY <1>7 DEF WalkedTo, Visiting
  <1>10. ASSUME Last(w).next = <<>>
         PROVE  Lasting(tables, ws, wheres) \subseteq ToSet(Visited(w))
    <2>1. w[n].next = <<>>
      BY <1>6, <1>10 DEF Last
    <2>2. Visiting(Matching(tables, ws, wheres), Lasting(tables, ws, wheres), sort, Visited(w), FALSE, 0, TRUE)
      <3>1. \A y : <<y>> # <<>>
        OBVIOUS
      <3> QED
        BY <1>7, <2>1, <3>1, Zenon DEF WalkedTo
    <2> DEFINE v == Visited(w)
    <2> HIDE DEF v
    <2>3. v \in Seq(Matching(tables, ws, wheres))
          /\ \A r \in Lasting(tables, ws, wheres) : \E i \in 1 .. Len(v) : v[i] = r
      BY <2>2 DEF Visiting, v
    <2>4. Lasting(tables, ws, wheres) \subseteq ToSet(v)
      <3>1. DOMAIN v = 1 .. Len(v)
        BY <2>3
      <3> QED
        BY <2>3, <3>1 DEF ToSet
    <2> QED
      BY <2>4 DEF v
  <1>11. ASSUME NEW k \in 2 .. Len(w), w[k].data # <<>>, tables[k] = tables[k - 1]
         PROVE  w[k].prev # <<>> /\ Page(tables[k], ws, w[k].prev[1], wheres).data = w[k - 1].data
    <2>1. k \in 1 .. n /\ k - 1 \in 1 .. n /\ k # 1 /\ IsTable(tables[k])
      BY <1>1, <1>6
    <2>2. PICK b \in Nat : \E more \in BOOLEAN :
             /\ IsPage(Between(tables[k], ws, wheres, sort, b, Null), sort, l, b, more, w[k])
             /\ b # Null /\ w[k - 1].next = <<Linked(sort, l, b, Null)>>
      <3>1. w[k] # NoPage
        BY <1>11 DEF NoPage
      <3> QED
        BY <1>8, <2>1, <3>1 DEF PageAt
    <2>3. PICK a \in Nat : \E more \in BOOLEAN :
             IsPage(Between(tables[k - 1], ws, wheres, sort, a, Null), sort, l, a, more, w[k - 1])
      <3>1. w[k - 1] # NoPage
        BY <2>2 DEF NoPage
      <3> QED
        BY <1>8, <2>1, <3>1 DEF PageAt
    <2>4. SomePage(tables[k], ws, wheres, sort, l, b, w[k])
      BY <2>2 DEF SomePage
    <2>5. SomePage(tables[k], ws, wheres, sort, l, a, w[k - 1])
      BY <1>11, <2>3 DEF SomePage
    <2> DEFINE table == tables[k]
               one == w[k - 1]
               two == w[k]
    <2>6. /\ IsTable(table) /\ b # Null /\ one.next = <<Linked(sort, l, b, Null)>> /\ two.data # <<>>
          /\ SomePage(table, ws, wheres, sort, l, b, two) /\ SomePage(table, ws, wheres, sort, l, a, one)
      BY <1>11, <2>1, <2>2, <2>4, <2>5
    <2> HIDE DEF table, one, two
    <2>7. LeadsBack(table, ws, wheres, one, two)
      BY <1>1, <2>6, PrevIs
    <2> QED
      BY <2>7 DEF table, one, two, LeadsBack
  <1> QED
    BY <1>4, <1>9, <1>10, <1>11

\* A query of the iterator, for the rows behind the id b, and what it gives.
BatchQuery(wheres, l, b) ==
    [offset |-> 0, limit |-> l, wheres |-> IF b = Null THEN wheres ELSE wheres \cup {Condition("id", "lt", b)},
     order |-> "desc", reverse |-> FALSE, cursorModel |-> TRUE]

\* What there is after the last batch.
NoBatch == [data |-> <<>>, hasMore |-> FALSE]

\* The first query of an iterator, and the batches that it gets.
Opening(q) == [q EXCEPT !.offset = 0, !.reverse = FALSE, !.order = "desc", !.cursorModel = TRUE]

\* Batches of an iterator.
IsIteration(tables, n, ws, first, fails, w) ==
    w = [k \in 1 .. n |->
            IF k = fails THEN NoBatch
            ELSE IF k = 1 THEN Cursor(tables[1], ws, first)
            ELSE IF ~w[k - 1].hasMore THEN NoBatch
            ELSE Cursor(tables[k], ws, NextBatch(first, Last(w[k - 1].data).id))]

\* So has Iterate.
LEMMA IterateDef ==
  ASSUME NEW tables, NEW n \in Nat \ {0}, Len(tables) = n, NEW ws, NEW q, NEW fails, NEW first, first = Opening(q)
  PROVE  IsIteration(tables, n, ws, first, fails, Iterate(tables, ws, q, fails))
  <1> DEFINE First == IF 1 = fails THEN NoBatch ELSE Cursor(tables[1], ws, first)
             Step(c, k) == IF k = fails THEN NoBatch
                           ELSE IF ~c.hasMore THEN NoBatch
                           ELSE Cursor(tables[k], ws, NextBatch(first, Last(c.data).id))
             Is(g, m) == g = [k \in 1 .. m |-> IF k = 1 THEN First ELSE Step(g[k - 1], k)]
             S == {m \in 0 .. n : \E g : Is(g, m)}
  <1> HIDE DEF First, Step
  <1>1. 0 \in S
    <2> DEFINE h == [k \in 1 .. 0 |-> First]
    <2>1. h = [k \in 1 .. 0 |-> h[k]] /\ \A k \in 1 .. 0 : FALSE
      OBVIOUS
    <2> HIDE DEF h
    <2>2. Is(h, 0)
      BY <2>1
    <2> HIDE DEF Is
    <2> QED
      BY <2>2
  <1>2. ASSUME NEW m \in 0 .. n - 1, m \in S
        PROVE  m + 1 \in S
    <2>1. PICK g : Is(g, m)
      BY <1>2
    <2> DEFINE h == [k \in 1 .. m + 1 |->
                       IF k = m + 1 THEN (IF m = 0 THEN First ELSE Step(g[m], m + 1)) ELSE g[k]]
    <2>2. ASSUME NEW k \in 1 .. m + 1
          PROVE  h[k] = IF k = 1 THEN First ELSE Step(h[k - 1], k)
      <3>1. CASE k = m + 1
        BY <3>1
      <3>2. CASE k \in 1 .. m
        BY <3>2, <2>1
      <3> QED
        BY <3>1, <3>2
    <2>3. h = [k \in 1 .. m + 1 |-> h[k]]
      OBVIOUS
    <2> HIDE DEF h
    <2>4. Is(h, m + 1)
      BY <2>2, <2>3
    <2> QED
      BY <2>4
  <1>3. n \in S
    <2>1. \A m \in 0 .. n - 1 : m \in S => m + 1 \in S
      BY <1>2
    <2>2. n \in Nat /\ n \in 0 .. n
      OBVIOUS
    <2> HIDE DEF S
    <2> QED
      BY <1>1, <2>1, <2>2, InductionUpTo
  <1>4. \E g : Is(g, n)
    BY <1>3
  <1> DEFINE Eq(g) == g = [k \in 1 .. n |->
                               IF k = fails THEN NoBatch
                               ELSE IF k = 1 THEN Cursor(tables[1], ws, first)
                               ELSE IF ~g[k - 1].hasMore THEN NoBatch
                               ELSE Cursor(tables[k], ws, NextBatch(first, Last(g[k - 1].data).id))]
             w == CHOOSE g : Eq(g)
  <1>5. ASSUME NEW g
        PROVE  Is(g, n) <=> Eq(g)
    <2>1. \A k \in 1 .. n : (IF k = 1 THEN First ELSE Step(g[k - 1], k))
                            = IF k = fails THEN NoBatch
                               ELSE IF k = 1 THEN Cursor(tables[1], ws, first)
                               ELSE IF ~g[k - 1].hasMore THEN NoBatch
                               ELSE Cursor(tables[k], ws, NextBatch(first, Last(g[k - 1].data).id))
      BY DEF First, Step
    <2> QED
      BY <2>1
  <1>6. Iterate(tables, ws, q, fails) = [k \in 1 .. n |-> w[k]]
    BY DEF Iterate, NoBatch, Opening
  <1>7. Eq(w)
    <2> HIDE DEF Eq
    <2> QED
      BY <1>4, <1>5
  <1> HIDE DEF w
  <1>8. w = [k \in 1 .. n |-> w[k]]
    BY <1>7
  <1>9. IsIteration(tables, n, ws, first, fails, w)
    BY <1>7, Zenon DEF IsIteration
  <1> HIDE DEF Eq
  <1>10. Iterate(tables, ws, q, fails) = w
    BY <1>6, <1>8, Zenon
  <1> QED
    BY <1>9, <1>10, Zenon

\* A batch: the first rows, and whether there are more.
IsBatch(rows, l, more, c) == IsWindow(rows, "desc", l, c.data, more) /\ c.hasMore = more

\* There are more rows, or not.
SomeBatch(rows, l, c) == \E more \in BOOLEAN : IsBatch(rows, l, more, c)

\* A batch is the first rows behind an id.
LEMMA BatchIs ==
  ASSUME NEW table, IsTable(table), NEW ws, NEW wheres, NEW l \in Nat \ {0}, NEW b \in Nat
  PROVE  SomeBatch(Between(table, ws, wheres, "desc", b, Null), l, Cursor(table, ws, BatchQuery(wheres, l, b)))
  <1> DEFINE q == BatchQuery(wheres, l, b)
             rows == AppendWhere(table, ws, q.wheres)
             s == AppendOrder(rows, q.order)
             c == Cursor(table, ws, q)
             more == Len(s) > l
  <1>1. IsQuery(q) /\ q.offset = 0 /\ q.limit = l /\ q.order = "desc"
    BY DEF IsQuery, BatchQuery
  <1>2. ~q.reverse
    BY DEF BatchQuery
  <1>3. rows = Between(table, ws, wheres, "desc", b, Null)
    <2>1. q.wheres = wheres \cup (IF b # Null THEN {Beyond("desc", b)} ELSE {})
                            \cup (IF Null # Null THEN {Beyond(Flip("desc"), Null)} ELSE {})
      <3>1. q.wheres = IF b = Null THEN wheres ELSE wheres \cup {Condition("id", "lt", b)}
        BY DEF BatchQuery
      <3>2. Beyond("desc", b) = Condition("id", "lt", b)
        BY DEF Beyond
      <3> HIDE DEF q
      <3> QED
        BY <3>1, <3>2
    <2>2. Null \in Nat
      BY DEF Null
    <2> HIDE DEF q
    <2> QED
      BY <2>1, <2>2, BeyondIs
  <1>4. IsTable(rows)
    BY WhereIsTable
  <1> HIDE DEF q, rows, c
  <1>5. IsOrder(rows, "desc", s)
    BY <1>1, <1>4, OrderIs
  <1> HIDE DEF s
  <1>6. PICK x \in Seq(rows) :
            /\ IsSlice(s, Len(s), q.offset, q.limit, x)
            /\ c = CursorOf(table, ws, q, x, Len(s) > q.offset + q.limit)
    BY <1>1, CursorIs DEF rows, s, c
  <1>7. (Len(s) > q.offset + q.limit) = more /\ IsSlice(s, Len(s), 0, l, x) /\ more \in BOOLEAN
    <2>1. Len(s) \in Nat /\ 0 + l = l
      BY <1>5 DEF IsOrder
    <2>2. q.offset + q.limit = l
      BY <1>1
    <2> QED
      BY <1>1, <1>6, <2>1, <2>2
  <1>8. IsWindow(rows, "desc", l, x, more)
    <2>1. more <=> Len(s) > l
      OBVIOUS
    <2> HIDE DEF more
    <2> QED
      BY <1>5, <1>7, <2>1, WindowIs
  <1>9. c = CursorOf(table, ws, q, x, more)
    BY <1>6, <1>7
  <1> HIDE DEF more
  <1>10. c.data = x /\ c.hasMore = more
    BY <1>2, <1>9 DEF CursorOf
  <1>11. IsBatch(rows, l, more, c)
    BY <1>8, <1>10, Zenon DEF IsBatch
  <1>12. SomeBatch(rows, l, c)
    BY <1>7, <1>11 DEF SomeBatch
  <1> QED
    BY <1>3, <1>12 DEF c, q

\* The next queries of an iterator.
GoesOn(first, wheres, l) == \A b \in Nat \ {0} : NextBatch(first, b) = BatchQuery(wheres, l, b)

\* The queries that Iterate makes are those.
LEMMA QueriesAre ==
  ASSUME NEW q, NEW wheres, NEW l, NEW sort,
         q = [offset |-> 0, limit |-> l, wheres |-> wheres, order |-> sort, reverse |-> FALSE, cursorModel |-> FALSE]
  PROVE  Opening(q) = BatchQuery(wheres, l, Null) /\ GoesOn(Opening(q), wheres, l)
  <1> DEFINE first == [q EXCEPT !.offset = 0, !.reverse = FALSE, !.order = "desc", !.cursorModel = TRUE]
             fields == {"offset", "limit", "wheres", "order", "reverse", "cursorModel"}
  <1>1. /\ DOMAIN q = fields /\ q.offset = 0 /\ q.limit = l /\ q.wheres = wheres
    OBVIOUS
  <1> DEFINE Shape(r, w) ==
                /\ DOMAIN r = fields /\ r.offset = 0 /\ r.limit = l /\ r.wheres = w /\ r.order = "desc"
                /\ r.reverse = FALSE /\ r.cursorModel = TRUE /\ r = [f \in DOMAIN r |-> r[f]]
  <1>2. Shape(first, wheres)
    BY <1>1
  <1> HIDE DEF first
  <1>3. \A r, w : Shape(r, w) => r = [offset |-> 0, limit |-> l, wheres |-> w, order |-> "desc",
                                      reverse |-> FALSE, cursorModel |-> TRUE]
    OBVIOUS
  <1>4. first = BatchQuery(wheres, l, Null)
    <2> HIDE DEF Shape
    <2> QED
      BY <1>2, <1>3 DEF BatchQuery
  <1>5. ASSUME NEW b \in Nat \ {0}
        PROVE  NextBatch(first, b) = BatchQuery(wheres, l, b)
    <2> DEFINE next == [first EXCEPT !.wheres = @ \cup {Condition("id", "lt", b)}]
    <2>1. Shape(next, wheres \cup {Condition("id", "lt", b)})
      BY <1>2
    <2> HIDE DEF next, Shape
    <2>2. next = BatchQuery(wheres, l, b)
      BY <1>3, <2>1 DEF BatchQuery, Null
    <2> QED
      BY <2>2 DEF next, NextBatch
  <1> QED
    BY <1>4, <1>5 DEF first, Opening, GoesOn

\* What has been visited with a batch, and whether the iterator goes on behind it.
IteratedTo(tables, ws, wheres, v, c, fails) ==
    \/ /\ Visiting(Matching(tables, ws, wheres), Lasting(tables, ws, wheres), "desc", v, FALSE, 0, fails = 0)
       /\ ~c.hasMore
    \/ /\ Visiting(Matching(tables, ws, wheres), Lasting(tables, ws, wheres), "desc", v, TRUE,
                   Last(c.data).id, fails = 0)
       /\ c.hasMore /\ Last(c.data).id \in Nat \ {0}

\* A batch behind the one before visits on.
LEMMA IteratedStep ==
  ASSUME NEW tables, \A k \in DOMAIN tables : IsTable(tables[k]), NEW k \in DOMAIN tables,
         NEW ws, NEW wheres, NEW l \in Nat \ {0}, NEW v, NEW b \in Nat, NEW fails, NEW c,
         Visiting(Matching(tables, ws, wheres), Lasting(tables, ws, wheres), "desc", v, TRUE, b, fails = 0),
         SomeBatch(Between(tables[k], ws, wheres, "desc", b, Null), l, c)
  PROVE  IteratedTo(tables, ws, wheres, v \o c.data, c, fails)
  <1> DEFINE rows == Between(tables[k], ws, wheres, "desc", b, Null)
             all == Matching(tables, ws, wheres)
             lasting == Lasting(tables, ws, wheres)
             ok == fails = 0
  <1>1. PICK more \in BOOLEAN : IsBatch(rows, l, more, c)
    BY DEF SomeBatch
  <1>2. IsWindow(rows, "desc", l, c.data, more) /\ c.hasMore = more
    BY <1>1, Zenon DEF IsBatch
  <1>3. IsTable(rows)
    BY BetweenIsTable
  <1>4. /\ rows \subseteq all
        /\ \A r \in rows : b # Null => Before("desc", b, r.id)
        /\ \A r \in lasting : (b # Null => Before("desc", b, r.id)) => r \in rows
    BY BetweenFits
  <1>5. \A r \in all : r.id \in Nat \ {0}
    BY MatchingIs
  <1>6. Visiting(all, lasting, "desc", v \o c.data, more, c.data[l].id, ok)
    <2>1. Visiting(all, lasting, "desc", v, TRUE, b, ok) /\ ok \in BOOLEAN
      OBVIOUS
    <2> HIDE DEF rows, all, lasting, ok
    <2> QED
      BY <1>2, <1>4, <1>5, <2>1, VisitingGoesOn
  <1> HIDE DEF rows, all, lasting, ok
  <1>7. CASE more
    <2>1. Len(c.data) = l /\ l \in 1 .. Len(c.data) /\ c.data \in Seq(rows)
      BY <1>2, <1>7 DEF IsWindow
    <2>2. Last(c.data) = c.data[l]
      BY <2>1 DEF Last
    <2>3. Last(c.data).id \in Nat \ {0}
      BY <1>3, <2>1, <2>2 DEF IsTable, Null
    <2>4. Visiting(all, lasting, "desc", v \o c.data, TRUE, Last(c.data).id, ok)
      BY <1>6, <1>7, <2>2 DEF Visiting
    <2>5. c.hasMore
      BY <1>2, <1>7, Zenon
    <2> QED
      BY <2>3, <2>4, <2>5 DEF IteratedTo, all, lasting, ok
  <1>8. CASE ~more
    <2>1. Visiting(all, lasting, "desc", v \o c.data, FALSE, 0, ok)
      BY <1>6, <1>8 DEF Visiting
    <2>2. ~c.hasMore
      BY <1>2, <1>8, Zenon
    <2> QED
      BY <2>1, <2>2 DEF IteratedTo, all, lasting, ok
  <1> QED
    BY <1>7, <1>8

\* After a query that fails, or when there are no more rows, the iterator is done.
LEMMA IterationStops ==
  ASSUME NEW tables, NEW ws, NEW wheres, NEW v, NEW c, NEW fails,
         IteratedTo(tables, ws, wheres, v, c, fails), ~c.hasMore \/ fails # 0
  PROVE  IteratedTo(tables, ws, wheres, v \o <<>>, NoBatch, fails)
  <1> DEFINE all == Matching(tables, ws, wheres)
             lasting == Lasting(tables, ws, wheres)
  <1>1. ~NoBatch.hasMore
    BY DEF NoBatch
  <1>2. v \o <<>> = v
    <2>1. v \in Seq(all)
      BY DEF IteratedTo, Visiting
    <2> QED
      BY <2>1, ConcatEmptySeq
  <1>3. Visiting(all, lasting, "desc", v, FALSE, 0, fails = 0)
    BY DEF IteratedTo, Visiting
  <1> QED
    BY <1>1, <1>2, <1>3 DEF IteratedTo

\* What an iterator visits.
LEMMA IteratorVisits ==
  ASSUME NEW tables, NEW n \in Nat \ {0}, Len(tables) = n, DOMAIN tables = 1 .. n,
         \A k \in 1 .. n : IsTable(tables[k]), NEW ws, NEW wheres, NEW l \in Nat \ {0}, NEW fails \in Nat,
         NEW first, first = BatchQuery(wheres, l, Null), GoesOn(first, wheres, l),
         NEW w, IsIteration(tables, n, ws, first, fails, w)
  PROVE  IteratedTo(tables, ws, wheres, Visited(w), w[n], fails) /\ Len(w) = n /\ DOMAIN w = 1 .. n
  <1>1. w = [k \in 1 .. n |->
                IF k = fails THEN NoBatch
                ELSE IF k = 1 THEN Cursor(tables[1], ws, first)
                ELSE IF ~w[k - 1].hasMore THEN NoBatch
                ELSE Cursor(tables[k], ws, NextBatch(first, Last(w[k - 1].data).id))]
    BY DEF IsIteration
  <1>2. first = BatchQuery(wheres, l, Null) /\ \A b \in Nat \ {0} : NextBatch(first, b) = BatchQuery(wheres, l, b)
    BY DEF GoesOn
  <1> DEFINE seqs == [k \in DOMAIN w |-> w[k].data]
             all == Matching(tables, ws, wheres)
             lasting == Lasting(tables, ws, wheres)
  <1>3. DOMAIN w = 1 .. n
    BY <1>1, Zenon
  <1>4. Len(seqs) = n /\ \A k \in 1 .. n : seqs[k] = w[k].data
    BY <1>3
  <1>5. PICK v : /\ v[1] = seqs[1]
                 /\ \A k \in 1 .. n - 1 : v[k + 1] = v[k] \o seqs[k + 1]
                 /\ FlattenSeq(seqs) = v[n]
    <2> HIDE DEF seqs
    <2> QED
      BY <1>4, FlattenDef
  <1> DEFINE At(k) == IteratedTo(tables, ws, wheres, v[k], w[k], fails)
             S == {k \in 0 .. n : k = 0 \/ At(k)}
  <1> HIDE DEF seqs
  <1>6. ASSUME NEW k \in 0 .. n - 1, k \in S
        PROVE  At(k + 1)
    <2>1. k + 1 \in 1 .. n /\ k + 1 - 1 = k /\ k + 1 \in DOMAIN tables /\ IsTable(tables[k + 1])
          /\ \A j \in DOMAIN tables : IsTable(tables[j])
      OBVIOUS
    <2>2. CASE k = 0 /\ fails = 1
      <3>1. w[1] = NoBatch /\ v[1] = <<>> /\ ~w[1].hasMore
        <4>1. w[1] = NoBatch
          BY <1>1, <2>1, <2>2
        <4>2. v[1] = w[1].data
          BY <1>4, <1>5, <2>1, <2>2
        <4> QED
          BY <4>1, <4>2 DEF NoBatch
      <3>2. Visiting(all, lasting, "desc", <<>>, FALSE, 0, fails = 0)
        BY <2>2 DEF Visiting, Ordered
      <3>3. IteratedTo(tables, ws, wheres, <<>>, w[1], fails)
        BY <3>1, <3>2, Zenon DEF IteratedTo
      <3>4. k + 1 = 1
        BY <2>2
      <3> QED
        BY <3>1, <3>3, <3>4, Zenon
    <2>3. CASE k = 0 /\ fails # 1
      <3>1. w[1] = Cursor(tables[1], ws, BatchQuery(wheres, l, Null))
        BY <1>1, <1>2, <2>1, <2>3
      <3>2. v[1] = w[1].data
        BY <1>4, <1>5, <2>1, <2>3
      <3>3. Null \in Nat /\ 1 \in DOMAIN tables /\ IsTable(tables[1])
        BY <2>1, <2>3 DEF Null
      <3>4. SomeBatch(Between(tables[1], ws, wheres, "desc", Null, Null), l, w[1])
        BY <3>1, <3>3, BatchIs
      <3>5. Visiting(all, lasting, "desc", <<>>, TRUE, Null, fails = 0)
        BY VisitingStarts
      <3>6. IteratedTo(tables, ws, wheres, <<>> \o w[1].data, w[1], fails)
        BY <2>1, <3>3, <3>4, <3>5, IteratedStep
      <3>7. <<>> \o w[1].data = w[1].data
        <4>1. w[1].data \in Seq(Between(tables[1], ws, wheres, "desc", Null, Null))
          BY <3>4 DEF SomeBatch, IsBatch, IsWindow
        <4> QED
          BY <4>1, ConcatEmptySeq
      <3> QED
        BY <2>3, <3>2, <3>6, <3>7
    <2>4. CASE k # 0
      <3>1. v[k + 1] = v[k] \o w[k + 1].data
        <4>1. k \in 1 .. n - 1 /\ seqs[k + 1] = w[k + 1].data
          BY <1>4, <2>1, <2>4
        <4> QED
          BY <1>5, <4>1, Zenon
      <3>2. At(k) /\ k \in 1 .. n /\ k + 1 # 1
        BY <1>6, <2>1, <2>4
      <3>3. CASE k + 1 = fails \/ ~w[k].hasMore
        <4>1. w[k + 1] = NoBatch
          BY <1>1, <2>1, <3>2, <3>3
        <4>2. w[k + 1].data = <<>>
          BY <4>1 DEF NoBatch
        <4>3. IteratedTo(tables, ws, wheres, v[k] \o <<>>, NoBatch, fails)
          <5>1. ~w[k].hasMore \/ fails # 0
            BY <2>1, <3>3
          <5> QED
            BY <3>2, <5>1, IterationStops
        <4> QED
          BY <3>1, <4>1, <4>2, <4>3
      <3>4. CASE k + 1 # fails /\ w[k].hasMore
        <4> DEFINE b == Last(w[k].data).id
        <4>1. Visiting(all, lasting, "desc", v[k], TRUE, b, fails = 0) /\ b \in Nat \ {0}
          BY <3>2, <3>4 DEF IteratedTo
        <4> HIDE DEF b
        <4>2. w[k + 1] = Cursor(tables[k + 1], ws, BatchQuery(wheres, l, b))
          <5>1. w[k + 1] = Cursor(tables[k + 1], ws, NextBatch(first, b))
            BY <1>1, <2>1, <3>2, <3>4 DEF b
          <5> QED
            BY <1>2, <4>1, <5>1
        <4>3. SomeBatch(Between(tables[k + 1], ws, wheres, "desc", b, Null), l, w[k + 1])
          BY <2>1, <4>1, <4>2, BatchIs
        <4>4. IteratedTo(tables, ws, wheres, v[k] \o w[k + 1].data, w[k + 1], fails)
          <5>1. b \in Nat
            BY <4>1
          <5> QED
            BY <2>1, <4>1, <4>3, <5>1, IteratedStep
        <4> QED
          BY <3>1, <4>4
      <3> QED
        BY <3>3, <3>4
    <2> QED
      BY <2>2, <2>3, <2>4
  <1>7. \A k \in 0 .. n : k \in S
    <2>1. 0 \in S
      OBVIOUS
    <2>2. \A k \in 0 .. n - 1 : k \in S => k + 1 \in S
      <3> HIDE DEF At
      <3> QED
        BY <1>6
    <2> HIDE DEF S
    <2> QED
      BY <2>1, <2>2, InductionUpTo
  <1>8. At(n)
    <2> HIDE DEF At
    <2> QED
      BY <1>7
  <1>9. Visited(w) = v[n]
    BY <1>5 DEF Visited, seqs
  <1>10. Len(w) = n
    <2>1. w = [k \in 1 .. n |-> w[k]]
      BY <1>1
    <2> QED
      BY <1>3, <2>1
  <1> QED
    BY <1>3, <1>8, <1>9, <1>10

\* IteratorVisitsOnce, for all tables, conditions and limits.
LEMMA EveryIterationIsExact ==
  ASSUME NEW in, IsPaging(in)
  PROVE  IteratorVisitsOnce(in)
  <1> DEFINE q == [offset |-> 0, limit |-> in.limit, wheres |-> in.asked, order |-> in.sort,
                   reverse |-> FALSE, cursorModel |-> FALSE]
             w == Iterate(in.tables, in.ws, q, in.fails)
             rows == Visited(w)
             n == Len(in.tables)
             all == Matching(in.tables, in.ws, in.asked)
             lasting == Lasting(in.tables, in.ws, in.asked)
  <1>1. IteratorVisitsOnce(in) =
           (/\ Ordered(rows, "desc")
            /\ \A i \in DOMAIN rows : \A c \in in.asked : Holds(c, rows[i])
            /\ ~Last(w).hasMore /\ in.fails = 0 => lasting \subseteq ToSet(rows))
    BY DEF IteratorVisitsOnce
  <1>2. IteratedTo(in.tables, in.ws, in.asked, rows, w[n], in.fails) /\ Len(w) = n /\ DOMAIN w = 1 .. n
        /\ n \in Nat \ {0}
    <2>1. /\ n \in Nat \ {0} /\ DOMAIN in.tables = 1 .. n /\ \A k \in 1 .. n : IsTable(in.tables[k])
          /\ in.limit \in Nat \ {0} /\ in.fails \in Nat
      BY DEF IsPaging
    <2>2. q = [offset |-> 0, limit |-> in.limit, wheres |-> in.asked, order |-> in.sort,
                   reverse |-> FALSE, cursorModel |-> FALSE]
      OBVIOUS
    <2>3. Len(in.tables) = n
      OBVIOUS
    <2> HIDE DEF q, n
    <2>4. IteratedTo(in.tables, in.ws, in.asked, Visited(w), w[n], in.fails) /\ Len(w) = n /\ DOMAIN w = 1 .. n
      <3>1. Opening(q) = BatchQuery(in.asked, in.limit, Null) /\ GoesOn(Opening(q), in.asked, in.limit)
        BY <2>2, QueriesAre
      <3>2. IsIteration(in.tables, n, in.ws, Opening(q), in.fails, w)
        BY <2>1, <2>3, IterateDef
      <3> DEFINE first == Opening(q)
      <3> HIDE DEF w, first
      <3> QED
        BY <2>1, <2>3, <3>1, <3>2, IteratorVisits DEF first
    <2> QED
      BY <2>1, <2>4
  <1> HIDE DEF w, rows, n, all, lasting
  <1>3. /\ rows \in Seq(all) /\ Ordered(rows, "desc")
        /\ ~w[n].hasMore /\ in.fails = 0 => \A r \in lasting : \E i \in 1 .. Len(rows) : rows[i] = r
    BY <1>2 DEF IteratedTo, Visiting, all, lasting
  <1>4. ASSUME NEW i \in DOMAIN rows, NEW c \in in.asked
        PROVE  Holds(c, rows[i])
    <2>1. rows[i] \in all
      BY <1>3
    <2> QED
      BY <2>1 DEF all, Matching, AppendWhere
  <1>5. Last(w) = w[n]
    BY <1>2 DEF Last
  <1>6. ASSUME ~Last(w).hasMore, in.fails = 0
        PROVE  lasting \subseteq ToSet(rows)
    <2>1. DOMAIN rows = 1 .. Len(rows)
      BY <1>3
    <2>2. \A r \in lasting : \E i \in 1 .. Len(rows) : rows[i] = r
      BY <1>3, <1>5, <1>6
    <2> QED
      BY <2>1, <2>2 DEF ToSet
  <1> QED
    BY <1>1, <1>3, <1>4, <1>6

\* Parameters of a numbered page.
Numbered(sort, l, k) ==
    [sort |-> sort, pageNo |-> k, pageSize |-> l, limit |-> Null, after |-> Null, before |-> Null]

\* A numbered page: its part of the rows, how many there are, and no links.
IsNumbered(all, rows, l, k, pg) ==
    /\ pg.data \in Seq(rows) /\ IsSlice(all, Len(all), (k - 1) * l, l, pg.data) /\ pg.total = Len(all)
    /\ pg.next = <<>> /\ pg.prev = <<>>

\* A numbered page is what it should be.
LEMMA NumberedIs ==
  ASSUME NEW table, IsTable(table), NEW ws, NEW wheres, NEW sort \in {"asc", "desc"}, NEW l \in Nat \ {0},
         NEW k \in Nat \ {0}, NEW rows, rows = AppendWhere(table, ws, wheres),
         NEW all, all = AppendOrder(rows, sort)
  PROVE  IsNumbered(all, rows, l, k, Page(table, ws, Numbered(sort, l, k), wheres))
  <1> DEFINE p == Numbered(sort, l, k)
             q == ListQuery(p, wheres)
             c == Cursor(table, ws, q)
             o == (k - 1) * l
             pg == Page(table, ws, p, wheres)
  <1>1. o \in Nat
    <2>1. k - 1 \in Nat /\ l \in Nat
      OBVIOUS
    <2> HIDE DEF o
    <2>2. \A x, y \in Nat : x * y \in Nat
      OBVIOUS
    <2> QED
      BY <2>1, <2>2 DEF o
  <1>2. /\ p.sort = sort /\ p.pageNo = k /\ p.pageSize = l /\ p.limit = Null /\ p.after = Null /\ p.before = Null
    BY DEF Numbered
  <1>3. Max({k, 1}) = k
    BY MaxIs
  <1>4. ~(p.pageSize <= 0)
    BY <1>2
  <1> HIDE DEF p, o
  <1>5. q.offset = o /\ q.limit = l /\ q.wheres = wheres /\ q.order = sort
    BY <1>2, <1>3, <1>4 DEF ListQuery, o
  <1>6. ~q.reverse /\ q.reverse \in BOOLEAN
    BY <1>2 DEF ListQuery
  <1>7. ~q.cursorModel
    BY <1>2 DEF ListQuery
  <1>8. q = [offset |-> q.offset, limit |-> q.limit, wheres |-> q.wheres, order |-> q.order,
             reverse |-> q.reverse, cursorModel |-> q.cursorModel]
    BY DEF ListQuery
  <1>9. pg.data = c.data /\ pg.total = c.total /\ pg.next = Links(c, p).next /\ pg.prev = Links(c, p).prev
    BY DEF Page
  <1> HIDE DEF q, c, pg
  <1>10. IsQuery(q)
    BY <1>1, <1>5, <1>6, <1>8 DEF IsQuery
  <1>11. IsOrder(rows, sort, all)
    BY WhereIsTable, OrderIs
  <1>12. PICK x \in Seq(rows) :
            /\ IsSlice(all, Len(all), q.offset, q.limit, x)
            /\ c = CursorOf(table, ws, q, x, Len(all) > q.offset + q.limit)
    BY <1>5, <1>10, CursorIs DEF c
  <1>13. c.data = x /\ c.total = Count(table, ws, q) /\ ~c.cursor
    BY <1>6, <1>7, <1>12 DEF CursorOf
  <1>16. Links(c, p).next = <<>> /\ Links(c, p).prev = <<>>
    BY <1>13 DEF Links
  <1>14. Count(table, ws, q) = Len(all)
    BY <1>5, <1>11 DEF Count, IsOrder
  <1>15. IsNumbered(all, rows, l, k, pg)
    BY <1>5, <1>9, <1>12, <1>13, <1>14, <1>16 DEF IsNumbered, o
  <1> QED
    BY <1>15 DEF pg, p

\* A part, and the part behind it.
LEMMA SliceGrows ==
  ASSUME NEW rows, NEW s, NEW n \in Nat, NEW o \in Nat, NEW l \in Nat,
         NEW v \in Seq(rows), IsSlice(s, n, 0, o, v), NEW d \in Seq(rows), IsSlice(s, n, o, l, d)
  PROVE  v \o d \in Seq(rows) /\ IsSlice(s, n, 0, o + l, v \o d)
  <1> DEFINE w == v \o d
             m == Len(v)
  <1>1. /\ w \in Seq(rows) /\ Len(w) = m + Len(d) /\ m \in Nat /\ Len(d) \in Nat
        /\ \A i \in 1 .. m + Len(d) : w[i] = IF i <= m THEN v[i] ELSE d[i - m]
    BY ConcatProperties
  <1>2. m = (IF n > 0 + o THEN o ELSE IF n > 0 THEN n - 0 ELSE 0) /\ \A i \in 1 .. m : v[i] = s[0 + i]
    BY DEF IsSlice
  <1>3. Len(d) = (IF n > o + l THEN l ELSE IF n > o THEN n - o ELSE 0) /\ \A i \in 1 .. Len(d) : d[i] = s[o + i]
    BY DEF IsSlice
  <1> HIDE DEF w, m
  <1>4. Len(w) = IF n > 0 + (o + l) THEN o + l ELSE IF n > 0 THEN n - 0 ELSE 0
    BY <1>1, <1>2, <1>3
  <1>5. ASSUME NEW i \in 1 .. Len(w)
        PROVE  w[i] = s[0 + i]
    <2>1. CASE i <= m
      <3>1. i \in 1 .. m /\ i \in 1 .. m + Len(d)
        BY <1>1, <2>1
      <3> QED
        BY <1>1, <1>2, <2>1, <3>1
    <2>2. CASE ~(i <= m)
      <3>1. i - m \in 1 .. Len(d) /\ i \in 1 .. m + Len(d) /\ m = o /\ o + (i - m) = 0 + i
        BY <1>1, <1>2, <1>3, <2>2
      <3> QED
        BY <1>1, <1>3, <2>2, <3>1
    <2> QED
      BY <2>1, <2>2
  <1>6. w \in Seq(rows) /\ IsSlice(s, n, 0, o + l, w)
    BY <1>1, <1>4, <1>5 DEF IsSlice
  <1> QED
    BY <1>6 DEF w

\* Parts of l elements, as many as there are elements, are the whole.
LEMMA SlicesCover ==
  ASSUME NEW rows, NEW n \in Nat \ {0}, NEW s \in [1 .. n -> rows], NEW l \in Nat \ {0}, NEW seqs, Len(seqs) = n,
         \A k \in 1 .. n : seqs[k] \in Seq(rows) /\ IsSlice(s, n, (k - 1) * l, l, seqs[k])
  PROVE  FlattenSeq(seqs) = s
  <1> DEFINE o(k) == k * l
  <1>1. /\ o(0) = 0 /\ \A k \in Nat : o(k) \in Nat
        /\ \A k \in Nat : o(k + 1) = o(k) + l
    <2>1. \A k \in Nat : k * l \in Nat
      OBVIOUS
    <2>2. \A k \in Nat : (k + 1) * l = k * l + l
      OBVIOUS
    <2> QED
      BY <2>1, <2>2
  <1>2. \A k \in 1 .. n : seqs[k] \in Seq(rows) /\ IsSlice(s, n, o(k - 1), l, seqs[k])
    OBVIOUS
  <1>3. PICK v : /\ v[1] = seqs[1]
                 /\ \A k \in 1 .. n - 1 : v[k + 1] = v[k] \o seqs[k + 1]
                 /\ FlattenSeq(seqs) = v[n]
    BY FlattenDef
  <1> DEFINE At(k) == v[k] \in Seq(rows) /\ IsSlice(s, n, 0, o(k), v[k]) /\ o(k) >= k
             S == {k \in 0 .. n : k = 0 \/ At(k)}
  <1> HIDE DEF o
  <1>4. ASSUME NEW k \in 0 .. n - 1, k \in S
        PROVE  At(k + 1)
    <2>1. k \in Nat /\ k + 1 \in 1 .. n /\ k + 1 - 1 = k
      OBVIOUS
    <2>2. k + 1 \in 1 .. n /\ k + 1 - 1 = k /\ o(k + 1) = o(k) + l /\ o(k) \in Nat
      BY <1>1, <2>1, Zenon
    <2>3. CASE k = 0
      <3>1. o(1) = l /\ o(0) = 0 /\ v[1] = seqs[1]
        BY <1>1, <1>3, <2>2, <2>3
      <3>2. seqs[1] \in Seq(rows) /\ IsSlice(s, n, 0, l, seqs[1])
        BY <1>2, <2>2, <2>3, <3>1
      <3> QED
        BY <2>3, <3>1, <3>2
    <2>4. CASE k # 0
      <3>1. k \in 1 .. n - 1
        BY <2>4
      <3>2. At(k) /\ v[k + 1] = v[k] \o seqs[k + 1]
        <4> HIDE DEF At
        <4> QED
          BY <1>3, <1>4, <2>4, <3>1, Zenon
      <3>3. seqs[k + 1] \in Seq(rows) /\ IsSlice(s, n, o(k), l, seqs[k + 1])
        BY <1>2, <2>2
      <3>4. v[k] \o seqs[k + 1] \in Seq(rows) /\ IsSlice(s, n, 0, o(k) + l, v[k] \o seqs[k + 1])
        BY <2>2, <3>2, <3>3, SliceGrows
      <3>5. o(k) + l >= k + 1
        BY <2>2, <3>2
      <3> QED
        BY <2>2, <3>2, <3>4, <3>5
    <2> QED
      BY <2>3, <2>4
  <1>5. \A k \in 0 .. n : k \in S
    <2>1. 0 \in S
      OBVIOUS
    <2>2. \A k \in 0 .. n - 1 : k \in S => k + 1 \in S
      <3> HIDE DEF At
      <3> QED
        BY <1>4
    <2> HIDE DEF S
    <2> QED
      BY <2>1, <2>2, InductionUpTo
  <1>6. At(n) /\ o(n) \in Nat
    <2> HIDE DEF At
    <2> QED
      BY <1>1, <1>5
  <1>7. Len(v[n]) = n
    <2>1. Len(v[n]) = IF n > 0 + o(n) THEN o(n) ELSE IF n > 0 THEN n - 0 ELSE 0
      BY <1>6 DEF IsSlice
    <2> QED
      BY <1>6, <2>1
  <1>8. \A i \in 1 .. n : v[n][i] = s[i]
    <2>1. \A i \in 1 .. n : v[n][i] = s[0 + i]
      BY <1>6, <1>7 DEF IsSlice
    <2> QED
      BY <2>1
  <1>9. v[n] = s
    BY <1>6, <1>7, <1>8
  <1> QED
    BY <1>3, <1>9

\* NumbersCover, for all tables, filters and sizes of pages.
LEMMA EveryNumberIsExact ==
  ASSUME NEW in, IsPaging(in)
  PROVE  NumbersCover(in)
  <1> DEFINE table == in.tables[1]
             wheres == Taken(in.filters, in.asked)
             ws == in.ws
             sort == in.sort
             l == in.limit
             rows == AppendWhere(table, ws, wheres)
             all == AppendOrder(rows, sort)
             n == Len(all)
             pg(k) == Page(table, ws, Numbered(sort, l, k), wheres)
  <1>1. IsTable(table) /\ sort \in {"asc", "desc"} /\ l \in Nat \ {0}
    BY DEF IsPaging
  <1>2. ASSUME NEW k
        PROVE  [FirstPage(in) EXCEPT !.pageNo = k, !.pageSize = in.limit, !.limit = Null] = Numbered(sort, l, k)
    <2> DEFINE r == [FirstPage(in) EXCEPT !.pageNo = k, !.pageSize = in.limit, !.limit = Null]
    <2>1. /\ DOMAIN r = {"sort", "pageNo", "pageSize", "limit", "after", "before"} /\ r = [f \in DOMAIN r |-> r[f]]
          /\ r.sort = sort /\ r.pageNo = k /\ r.pageSize = l /\ r.limit = Null /\ r.after = Null /\ r.before = Null
      BY DEF FirstPage
    <2> HIDE DEF r
    <2>2. r = Numbered(sort, l, k)
      BY <2>1 DEF Numbered
    <2> QED
      BY <2>2 DEF r
  <1>3. NumbersCover(in) =
           (/\ FlattenSeq([k \in 1 .. n |-> pg(k).data]) = all
            /\ \A k \in 1 .. n + 1 : pg(k).total = n /\ pg(k).next = <<>> /\ pg(k).prev = <<>>)
    BY <1>2, Zenon DEF NumbersCover
  <1> HIDE DEF wheres, table, ws, sort, l
  <1>4. \A k \in Nat \ {0} : IsNumbered(all, rows, l, k, pg(k))
    BY <1>1, NumberedIs
  <1>5. IsOrder(rows, sort, all)
    BY <1>1, WhereIsTable, OrderIs
  <1> HIDE DEF pg, all, rows
  <1>6. n \in Nat /\ all \in [1 .. n -> rows]
    BY <1>5 DEF IsOrder
  <1>7. \A k \in 1 .. n + 1 : pg(k).total = n /\ pg(k).next = <<>> /\ pg(k).prev = <<>>
    BY <1>4, <1>6 DEF IsNumbered
  <1> DEFINE seqs == [k \in 1 .. n |-> pg(k).data]
  <1>8. CASE n = 0
    <2>1. seqs = all /\ Len(seqs) = 0
      BY <1>6, <1>8
    <2>2. FlattenSeq(seqs) = all
      BY <2>1 DEF FlattenSeq
    <2> QED
      BY <1>3, <1>7, <2>2
  <1>9. CASE n # 0
    <2>1. Len(seqs) = n
      BY <1>6
    <2>2. \A k \in 1 .. n : seqs[k] \in Seq(rows) /\ IsSlice(all, n, (k - 1) * l, l, seqs[k])
      BY <1>4, <1>6 DEF IsNumbered
    <2> HIDE DEF seqs
    <2>3. FlattenSeq(seqs) = all
      <3> HIDE DEF n
      <3> QED
        BY <1>1, <1>6, <1>9, <2>1, <2>2, SlicesCover
    <2> QED
      BY <1>3, <1>7, <2>3 DEF seqs
  <1> QED
    BY <1>8, <1>9

\* PagingIsExact, for all inputs.
LEMMA EveryPagingIsExact ==
  ASSUME NEW in, IsPaging(in)
  PROVE  PagingIsExact(in)
  BY EveryWalkIsExact, EveryIterationIsExact, EveryNumberIsExact DEF PagingIsExact

-----------------------------------------------------------------------------
(* The algorithms *)

\* What has been picked is an input of its subject.
IsPicked ==
    /\ subject = "paging" => input \in PagingInputs
    /\ subject = "delivery" => input \in DeliveryInputs
    /\ subject = "plugins" => input \in ChainInputs
    /\ subject = "configuration" => input \in ConfigurationInputs

\* Every behaviour picks an input of its subject.
LEMMA PickedIsInput == ASpec => []IsPicked
  <1>1. AInit => IsPicked
    BY DEF AInit, IsPicked
  <1>2. IsPicked /\ [ANext]_<<subject, input>> => IsPicked'
    BY DEF IsPicked, ANext, Pick
  <1> QED
    BY <1>1, <1>2, PTL DEF ASpec

\* Lists, numbered pages and the iterator of the DAO visit every row they should
\* once and in order, for all tables, however they change between two queries, all
\* filters, orders, and sizes of pages.
THEOREM ListsAreExact == ASpec => []PagesAreExact
  <1>1. IsPicked => PagesAreExact
    BY AlgorithmsAssumption, EveryPagingIsExact DEF IsPicked, PagesAreExact
  <1> QED
    BY <1>1, PickedIsInput, PTL

\* The deliverer obeys the rules of its ACL, for all rules, names, answers of the
\* resolver and numbers of redirects.
THEOREM DeliveriesObey == ASpec => []DialsAreAllowed
  <1>1. IsPicked => DialsAreAllowed
    BY AlgorithmsAssumption, EveryDeliveryObeys DEF IsPicked, DialsAreAllowed
  <1> QED
    BY <1>1, PickedIsInput, PTL

\* What the gateway ingests satisfies every plugin of its source and what the worker
\* sends is signed, for all sets of plugins, schemas, scripts and requests.
THEOREM PluginsGuard == ASpec => []ChainsGuard
  <1>1. IsPicked => ChainsGuard
    BY AlgorithmsAssumption, EveryChainGuards DEF IsPicked, ChainsGuard
  <1> QED
    BY <1>1, PickedIsInput, PTL

\* A node that starts runs with what its sources say, for all files, environments,
\* secrets and defaults.
THEOREM SourcesAreEffective == ASpec => []ConfigurationIsEffective
  <1>1. IsPicked => ConfigurationIsEffective
    BY AlgorithmsAssumption, EveryConfigurationIsEffective DEF IsPicked, ConfigurationIsEffective
  <1> QED
    BY <1>1, PickedIsInput, PTL

-----------------------------------------------------------------------------
(* The registry of endpoints *)

\* RInit satisfies the inductive invariant.
LEMMA RegistryInitially == RInit => RIndInv
  <1> SUFFICES ASSUME RInit PROVE RIndInv
    OBVIOUS
  <1>1. inTx \in BOOLEAN /\ blind \subseteq {"cache"} \cup Loaders
    BY DEF RInit
  <1>2. /\ phase \in [Loaders -> {"none", "load", "add"}]
        /\ \A l \in Loaders : phase[l] # "add"
    BY DEF RInit
  <1>3. RTypeOK
    BY <1>1, <1>2, RegistryAssumption DEF RInit, RTypeOK
  <1>4. StaleHasCause
    BY DEF RInit, StaleHasCause, Stale
  <1> QED
    BY <1>2, <1>3, <1>4 DEF RIndInv, LoadedHasCause

\* Every step keeps the types.
LEMMA RegistryTypeStep == RTypeOK /\ [RNext]_rvars => RTypeOK'
  <1> SUFFICES ASSUME RTypeOK, [RNext]_rvars PROVE RTypeOK'
    OBVIOUS
  <1> USE RegistryAssumption DEF RTypeOK, Loaders
  <1>1. CASE Update BY <1>1 DEF Update, lookups
  <1>2. CASE UpdateInTx BY <1>2 DEF UpdateInTx, lookups
  <1>3. CASE CommitTx
    <2>1. inTx' \in BOOLEAN
      BY <1>3, Zenon DEF CommitTx
    <2> QED
      BY <1>3, <2>1 DEF CommitTx, lookups
  <1>4. CASE RollbackTx
    <2>1. inTx' \in BOOLEAN
      BY <1>4, Zenon DEF RollbackTx
    <2> QED
      BY <1>4, <2>1 DEF RollbackTx, lookups
  <1>5. CASE LoseNotice BY <1>5 DEF LoseNotice, lookups
  <1>6. CASE Unregister
    <2>1. blind' \subseteq {"cache"} \cup Loaders
      BY <1>6 DEF Unregister
    <2> QED
      BY <1>6, <2>1 DEF Unregister, lookups
  <1>7. CASE Evict BY <1>7 DEF Evict, lookups
  <1>8. ASSUME NEW l \in Loaders, Load(l) PROVE RTypeOK'
    BY <1>8 DEF Load
  <1>9. ASSUME NEW l \in Loaders, LoadFails(l) PROVE RTypeOK'
    BY <1>9 DEF LoadFails, Land
  <1>10. ASSUME NEW l \in Loaders, Add(l) PROVE RTypeOK'
    BY <1>10 DEF Add, Land
  <1>11. ASSUME NEW c \in Callers, LookUp(c) PROVE RTypeOK'
    <2>1. CASE Hit(c) BY <2>1 DEF Hit
    <2>2. CASE Miss(c) BY <2>2 DEF Miss
    <2>3. CASE Do(c) BY <2>3 DEF Do
    <2>4. CASE GetAgain(c) BY <2>4 DEF GetAgain
    <2> QED
      BY <1>11, <2>1, <2>2, <2>3, <2>4 DEF LookUp
  <1>12. CASE UNCHANGED rvars BY <1>12 DEF rvars
  <1> QED
    BY <1>1, <1>2, <1>3, <1>4, <1>5, <1>6, <1>7, <1>8, <1>9, <1>10, <1>11, <1>12
    DEF RNext

\* Every step keeps the causes of what is outdated in the cache.  An update
\* brings a notice or blinds the cache; a notice that is handled empties it; and
\* what Add puts there has a cause already, by LoadedHasCause.
LEMMA StaleStep == RIndInv /\ [RNext]_rvars => StaleHasCause'
  <1> SUFFICES ASSUME RIndInv, [RNext]_rvars PROVE StaleHasCause'
    OBVIOUS
  <1> USE RegistryAssumption DEF RIndInv, RTypeOK, StaleHasCause, Stale
  <1>1. CASE Update BY <1>1 DEF Update
  <1>2. CASE UpdateInTx BY <1>2 DEF UpdateInTx
  <1>3. CASE CommitTx BY <1>3 DEF CommitTx
  <1>4. CASE RollbackTx BY <1>4 DEF RollbackTx
  <1>5. CASE LoseNotice BY <1>5 DEF LoseNotice
  <1>6. CASE Unregister BY <1>6 DEF Unregister
  <1>7. CASE Evict BY <1>7 DEF Evict
  <1>8. ASSUME NEW l \in Loaders, Load(l) PROVE StaleHasCause'
    BY <1>8 DEF Load, Loaders
  <1>9. ASSUME NEW l \in Loaders, LoadFails(l) PROVE StaleHasCause'
    BY <1>9 DEF LoadFails
  <1>10. ASSUME NEW l \in Loaders, Add(l) PROVE StaleHasCause'
    BY <1>10 DEF Add, LoadedHasCause
  <1>11. ASSUME NEW c \in Callers, LookUp(c) PROVE StaleHasCause'
    BY <1>11 DEF LookUp, Hit, Miss, Do, GetAgain
  <1>12. CASE UNCHANGED rvars BY <1>12 DEF rvars
  <1> QED
    BY <1>1, <1>2, <1>3, <1>4, <1>5, <1>6, <1>7, <1>8, <1>9, <1>10, <1>11, <1>12
    DEF RNext

\* Every step keeps the causes of what is outdated in the hands of a loader.
LEMMA LoadedStep == RIndInv /\ [RNext]_rvars => LoadedHasCause'
  <1> SUFFICES ASSUME RIndInv, [RNext]_rvars, NEW k \in Loaders,
                      phase'[k] = "add", loaded'[k] # version'
               PROVE  notices' > 0 \/ k \in blind'
    BY DEF LoadedHasCause
  <1> USE RegistryAssumption DEF RIndInv, RTypeOK, LoadedHasCause
  <1>1. CASE Update BY <1>1 DEF Update, lookups
  <1>2. CASE UpdateInTx BY <1>2 DEF UpdateInTx, lookups
  <1>3. CASE CommitTx BY <1>3 DEF CommitTx, lookups
  <1>4. CASE RollbackTx BY <1>4 DEF RollbackTx, lookups
  <1>5. CASE LoseNotice BY <1>5 DEF LoseNotice, lookups
  <1>6. CASE Unregister BY <1>6 DEF Unregister, lookups
  <1>7. CASE Evict BY <1>7 DEF Evict, lookups, Loaders
  <1>8. ASSUME NEW l \in Loaders, Load(l) PROVE notices' > 0 \/ k \in blind'
    BY <1>8 DEF Load
  <1>9. ASSUME NEW l \in Loaders, LoadFails(l) PROVE notices' > 0 \/ k \in blind'
    BY <1>9 DEF LoadFails, Land
  <1>10. ASSUME NEW l \in Loaders, Add(l) PROVE notices' > 0 \/ k \in blind'
    BY <1>10 DEF Add, Land, Loaders
  <1>11. ASSUME NEW c \in Callers, LookUp(c) PROVE notices' > 0 \/ k \in blind'
    BY <1>11 DEF LookUp, Hit, Miss, Do, GetAgain
  <1>12. CASE UNCHANGED rvars BY <1>12 DEF rvars
  <1> QED
    BY <1>1, <1>2, <1>3, <1>4, <1>5, <1>6, <1>7, <1>8, <1>9, <1>10, <1>11, <1>12
    DEF RNext

\* The inductive invariant holds of every reachable state.
THEOREM RegistryInvariance == RSpec => []RIndInv
  <1>1. RIndInv /\ [RNext]_rvars => RIndInv'
    BY RegistryTypeStep, StaleStep, LoadedStep DEF RIndInv
  <1> QED
    BY RegistryInitially, <1>1, PTL DEF RSpec

\* The variables of the registry keep their types.
THEOREM RegistryTypes == RSpec => []RTypeOK
  <1>1. RIndInv => RTypeOK
    BY DEF RIndInv
  <1> QED
    BY RegistryInvariance, <1>1, PTL

\* LookUp uses outdated endpoints only while a notice is on its way or when none
\* will come, whatever the interleaving of Warmup, LookUp and Unregister.
THEOREM StalenessIsExplained == RSpec => []StaleHasCause
  <1>1. RIndInv => StaleHasCause
    BY DEF RIndInv
  <1> QED
    BY RegistryInvariance, <1>1, PTL

-----------------------------------------------------------------------------
(* The task queue *)

\* The inductive invariant holds initially.
LEMMA IndInit == Init => IndInv
BY QueueAssumption
DEF Init, IndInv, TypeOK, LeaseHolds, PipesAreWellFormed, Times, Pipes, NoPipe,
    Nowhere, NoScore

\* It is preserved by every step.
LEMMA IndStep == IndInv /\ [Next]_vars => IndInv'
<1> SUFFICES ASSUME IndInv, [Next]_vars PROVE IndInv'
  OBVIOUS
<1> USE QueueAssumption
<1> USE DEF IndInv, TypeOK, LeaseHolds, PipesAreWellFormed, Times, Pipes, NoPipe,
        Nowhere, NoScore
<1>1. ASSUME NEW c \in Clients, NEW at \in [Tasks -> Times \cup {NoScore}],
             AddHSet(c, {t \in Tasks : at[t] # NoScore}, at)
      PROVE  IndInv'
  BY <1>1 DEF AddHSet
<1>2. ASSUME NEW c \in Clients, AddZAdd(c) PROVE IndInv'
  BY <1>2 DEF AddZAdd, SetScores
<1>3. ASSUME NEW c \in Clients, NEW t \in Tasks, NEW at \in Times, Schedule(c, t, at)
      PROVE  IndInv'
  BY <1>3 DEF Schedule, SetScores
<1>4. ASSUME NEW c \in Clients, NEW S \in SUBSET Tasks, DeleteHDel(c, S)
      PROVE  IndInv'
  BY <1>4 DEF DeleteHDel
<1>5. ASSUME NEW c \in Clients, DeleteZRem(c) PROVE IndInv'
  BY <1>5 DEF DeleteZRem, SetScores
<1>6. ASSUME NEW c \in Clients, Disconnect(c) PROVE IndInv'
  BY <1>6 DEF Disconnect
<1>7. ASSUME NEW S \in SUBSET Tasks, Get(S) PROVE IndInv'
  BY <1>7 DEF Get, LeaseEnd
<1>8. CASE Tick
  BY <1>8 DEF Tick
<1>9. CASE UNCHANGED vars
  BY <1>9 DEF vars
<1>10. QED
  BY <1>1, <1>2, <1>3, <1>4, <1>5, <1>6, <1>7, <1>8, <1>9 DEF Next

\* The invariant of the queue holds in every state.
THEOREM Invariance == Spec => []IndInv
BY IndInit, IndStep, PTL DEF Spec

\* Type correctness.
THEOREM TypeCorrectness == Spec => []TypeOK
<1>1. IndInv => TypeOK
  BY DEF IndInv
<1>2. QED
  BY Invariance, <1>1, PTL

\* Leases are exclusive: the same task is not handed out twice within a
\* visibility timeout unless a client set or removed its score in between.
THEOREM LeasesAreExclusive == Spec => ExclusiveLease
<1> DEFINE Excl == \A t \in Tasks :
          leasedAt[t] # NoScore /\ leasedAt'[t] # NoScore
          /\ leasedAt'[t] # leasedAt[t]
             => leasedAt'[t] >= leasedAt[t] + VisibilityTimeout
<1>1. IndInv /\ [Next]_vars => [Excl]_vars
  <2> SUFFICES ASSUME IndInv, Next PROVE Excl
    OBVIOUS
  <2> USE DEF IndInv, TypeOK
  <2>1. ASSUME NEW S \in SUBSET Tasks, Get(S) PROVE Excl
    <3> SUFFICES ASSUME NEW t \in S, leasedAt[t] # NoScore
                 PROVE  now >= leasedAt[t] + VisibilityTimeout
      BY <2>1 DEF Get
    <3>1. score[t] \in 0 .. now
      BY <2>1 DEF Get, Batch, Due
    <3>2. QED
      BY <3>1 DEF LeaseHolds
  <2>2. ASSUME ~\E S \in SUBSET Tasks : Get(S)
        PROVE  \A t \in Tasks : leasedAt'[t] \in {leasedAt[t], NoScore}
    BY <2>2
    DEF Next, AddHSet, AddZAdd, Schedule, DeleteHDel, DeleteZRem, Disconnect,
        Tick, SetScores
  <2>3. QED
    BY <2>1, <2>2
<1>2. QED
  BY Invariance, <1>1, PTL DEF Spec, ExclusiveLease

-----------------------------------------------------------------------------
\* An initial state of the queue is one of DelayQueue.
LEMMA RefineInit == Init => Queue!QInit
BY DEF Init, Queue!QInit, EntryOf, Nowhere, NoScore

\* Setting scores, by ZADD or by ZREM, changes the entries of those members to
\* what the scores say and leaves the others alone.
LEMMA SetScoresEntries ==
    ASSUME TypeOK, NEW S \in SUBSET Tasks, NEW at, SetScores(S, at), now' = now
    PROVE  \A t \in Tasks :
             EntryOf(t)' = IF t \in S
                             THEN CASE at[t] = NoScore -> "absent"
                                    [] at[t] \in 0 .. now -> "due"
                                    [] OTHER -> "future"
                             ELSE EntryOf(t)
BY DEF TypeOK, SetScores, EntryOf, Times, NoScore

\* Every step of the queue is a step of DelayQueue or changes nothing of it.
LEMMA RefineStep == IndInv /\ [Next]_vars => [Queue!QNext]_(Queue!qvars)
<1> SUFFICES ASSUME IndInv, [Next]_vars
             PROVE  Queue!QNext \/ UNCHANGED Queue!qvars
  OBVIOUS
<1> USE QueueAssumption
<1> USE DEF IndInv, TypeOK, Times
<1> DEFINE Placing(S) == \E at \in [S -> Queue!Placed] : Queue!PutEntry(S, at)
<1>1. ASSUME NEW c \in Clients, NEW S \in SUBSET Tasks, NEW at, AddHSet(c, S, at)
      PROVE  Queue!PutData(S)
  BY <1>1 DEF AddHSet, Queue!PutData, EntryOf
<1>2. ASSUME NEW S \in SUBSET Tasks, NEW at, SetScores(S, at),
             \A t \in S : at[t] \in 0 .. MaxTime, UNCHANGED <<now, data>>
      PROVE  Placing(S)
  <2> DEFINE place == [t \in S |-> IF at[t] \in 0 .. now THEN "due" ELSE "future"]
  <2>1. place \in [S -> Queue!Placed]
    BY DEF Queue!Placed
  <2>2. \A t \in Tasks : EntryOf(t)' = IF t \in S THEN place[t] ELSE EntryOf(t)
    BY <1>2, SetScoresEntries DEF NoScore
  <2>3. Queue!PutEntry(S, place)
    BY <1>2, <2>2 DEF Queue!PutEntry
  <2>4. QED
    BY <2>1, <2>3
<1>3. ASSUME NEW c \in Clients, AddZAdd(c) PROVE Placing(pipe[c].ids)
  <2>1. pipe[c].ids \in SUBSET Tasks
    BY DEF Pipes
  <2>2. \A t \in pipe[c].ids : pipe[c].at[t] \in 0 .. MaxTime
    BY <1>3 DEF AddZAdd, PipesAreWellFormed
  <2>3. QED
    BY <1>2, <1>3, <2>1, <2>2 DEF AddZAdd
<1>4. ASSUME NEW c \in Clients, NEW t \in Tasks, NEW at \in Times, Schedule(c, t, at)
      PROVE  Placing({t})
  BY <1>2, <1>4 DEF Schedule
<1>5. ASSUME NEW c \in Clients, NEW S \in SUBSET Tasks, DeleteHDel(c, S)
      PROVE  Queue!DropData(S)
  BY <1>5 DEF DeleteHDel, Queue!DropData, EntryOf
<1>6. ASSUME NEW c \in Clients, DeleteZRem(c) PROVE Queue!DropEntry(pipe[c].ids)
  <2>1. pipe[c].ids \in SUBSET Tasks
    BY DEF Pipes
  <2>2. \A t \in pipe[c].ids : pipe[c].at[t] = NoScore
    BY <1>6 DEF DeleteZRem, PipesAreWellFormed
  <2>3. \A t \in Tasks : EntryOf(t)' = IF t \in pipe[c].ids THEN "absent" ELSE EntryOf(t)
    <3>1. SetScores(pipe[c].ids, pipe[c].at) /\ now' = now
      BY <1>6 DEF DeleteZRem
    <3>2. \A t \in Tasks :
            EntryOf(t)' = IF t \in pipe[c].ids
                            THEN CASE pipe[c].at[t] = NoScore -> "absent"
                                   [] pipe[c].at[t] \in 0 .. now -> "due"
                                   [] OTHER -> "future"
                            ELSE EntryOf(t)
      BY <2>1, <3>1, SetScoresEntries
    <3>3. QED
      BY <2>2, <3>2 DEF NoScore
  <2>4. QED
    BY <1>6, <2>3 DEF DeleteZRem, Queue!DropEntry
<1>7. ASSUME NEW c \in Clients, Disconnect(c) PROVE UNCHANGED Queue!qvars
  BY <1>7 DEF Disconnect, Queue!qvars, EntryOf
<1>8. ASSUME NEW S \in SUBSET Tasks, Get(S) PROVE Queue!Lease(S)
  <2>1. \A t \in S : EntryOf(t) = "due"
    BY <1>8 DEF Get, Batch, Due, EntryOf, NoScore
  <2>2. \A t \in Tasks : EntryOf(t)' = IF t \in S THEN "leased" ELSE EntryOf(t)
    BY <1>8 DEF Get, LeaseEnd, EntryOf, NoScore
  <2>3. QED
    BY <1>8, <2>1, <2>2 DEF Get, Queue!Lease
<1>9. ASSUME Tick PROVE \E S \in SUBSET Tasks : Queue!Elapse(S)
  <2> DEFINE S == {t \in Tasks : score[t] = now + 1}
  <2>1. \A t \in S : EntryOf(t) \in {"future", "leased"}
    BY <1>9 DEF Tick, EntryOf, NoScore
  <2>2. \A t \in Tasks : EntryOf(t)' = IF t \in S THEN "due" ELSE EntryOf(t)
    BY <1>9 DEF Tick, EntryOf, NoScore
  <2>3. Queue!Elapse(S)
    BY <1>9, <2>1, <2>2 DEF Tick, Queue!Elapse
  <2>4. QED
    BY <2>3
<1>10. CASE UNCHANGED vars
  BY <1>10 DEF vars, Queue!qvars, EntryOf
<1>11. ASSUME NEW S \in SUBSET Tasks,
              \/ Queue!PutData(S) \/ Placing(S) \/ Queue!Lease(S)
              \/ Queue!Elapse(S) \/ Queue!DropData(S) \/ Queue!DropEntry(S)
       PROVE  Queue!QNext
  BY <1>11 DEF Queue!QNext
<1> HIDE DEF Placing
<1>12. ASSUME NEW c \in Clients, AddZAdd(c) \/ DeleteZRem(c) PROVE Queue!QNext
  <2>1. pipe[c].ids \in SUBSET Tasks
    BY DEF Pipes
  <2>2. QED
    BY <1>3, <1>6, <1>11, <1>12, <2>1
<1>13. ASSUME NEW c \in Clients, NEW at \in [Tasks -> Times \cup {NoScore}],
              AddHSet(c, {t \in Tasks : at[t] # NoScore}, at)
       PROVE  Queue!QNext
  <2> DEFINE S == {t \in Tasks : at[t] # NoScore}
  <2>1. S \in SUBSET Tasks
    OBVIOUS
  <2> HIDE DEF S
  <2>2. Queue!PutData(S)
    BY <1>1, <1>13, <2>1 DEF S
  <2>3. QED
    BY <1>11, <2>1, <2>2
<1>14. ASSUME NEW c \in Clients, NEW t \in Tasks, NEW at \in Times, Schedule(c, t, at)
       PROVE  Queue!QNext
  <2>1. {t} \in SUBSET Tasks
    OBVIOUS
  <2>2. QED
    BY <1>4, <1>11, <1>14, <2>1
<1>15. QED
  BY <1>5, <1>7, <1>8, <1>9, <1>10, <1>11, <1>12, <1>13, <1>14 DEF Next

\* The Redis queue implements DelayQueue, which is what Delivery is built on.
THEOREM Refinement == Spec => ImplementsDelayQueue
BY Invariance, RefineInit, RefineStep, PTL DEF Spec, ImplementsDelayQueue, Queue!QSpec
=============================================================================
