---------------------------- MODULE MCTaskQueue ----------------------------
\* Instance of TaskQueue for TLC: two tasks, a Get that takes one of them at a
\* time, and a clock that runs past the end of a second lease.
EXTENDS TaskQueue, TLC

CONSTANTS t1, t2, c1, c2

MCTasks == {t1, t2}
MCClients == {c1, c2}
Sym == Permutations(MCTasks) \cup Permutations(MCClients)
=============================================================================
