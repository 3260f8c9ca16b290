----------------------------- MODULE MCDelivery -----------------------------
\* Instances of Delivery for TLC.  Two holders are enough for a task to be handed
\* out while it is in use; with at most two attempts to a chain, the third id is
\* what a chain that is too long would take.
EXTENDS Delivery, TLC

CONSTANTS a1, a2, a3, g1, q1, h1, h2

OneTask == {a1}
ThreeTasks == {a1, a2, a3}
NoProducer == {}
OneProducer == {g1}
OneRequeuer == {q1}
OneHolder == {h1}
TwoHolders == {h1, h2}

\* The endpoint's retry configuration is edited between one and two attempts.
OneOrTwo == {1, 2}

Sym == Permutations(Tasks) \cup Permutations(Holders)
       \cup Permutations(Requeuers) \cup Permutations(Producers)
=============================================================================
