-------------------------- MODULE MCCircuitBreaker --------------------------
\* Instances of CircuitBreaker for TLC: a ring of two buckets, two of whose
\* events may share a second and a third one takes the bucket over.
EXTENDS CircuitBreaker, TLC

CONSTANTS e1, e2, e3

ThreeEvents == {e1, e2, e3}
OneFailure == [e \in Events |-> IF e = e1 THEN "error" ELSE "success"]

\* Nothing is claimed once the ring has come round: such states are not explored
\* further.
InTime == ~wrapped

Sym == Permutations(Events \ {e1})
=============================================================================
