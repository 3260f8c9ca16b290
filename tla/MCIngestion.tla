---------------------------- MODULE MCIngestion ----------------------------
\* Instances of Ingestion for TLC.
EXTENDS Ingestion, TLC

CONSTANTS e1, e2, e3, m1, m2, m3, l1, l2, u1

NoEvents == {}
OneSync == {e1}
TwoAsync == {e2, e3}
ThreeAsync == {e1, e2, e3}
ThreeMessages == {m1, m2, m3}

\* Two XADDs for the event whose unique id is shared, and one for the other.
TwoAndOne == (m1 :> e2) @@ (m2 :> e2) @@ (m3 :> e3)
OneEach == (m1 :> e1) @@ (m2 :> e2) @@ (m3 :> e3)

OneListener == {l1}
TwoListeners == {l1, l2}
OneId == {u1}

\* The first two events carry the same unique id; the others carry none.
SharedId == [e \in Events |-> IF e \in {e1, e2} THEN u1 ELSE NoUnique]

\* Two messages at most: of two events, or of the one whose XADD is repeated.
Bounded == Cardinality(sent) <= 2 /\ (m2 \in sent => m1 \in sent)

\* No fairness is assumed of XADDs, so the bound is not at odds with it.
BoundedSpec == Init /\ [][Next /\ Bounded']_vars /\ Fairness
=============================================================================
