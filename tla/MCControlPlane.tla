--------------------------- MODULE MCControlPlane ---------------------------
(* An instance of ControlPlane for TLC: two requests at a time and two nodes
   that run the detection job.  There are the default workspace, an endpoint in
   it, and a workspace that may be created. *)
EXTENDS ControlPlane, TLC

CONSTANTS w1, w2, e1, e2, s1, p1, n1

Symmetry == Permutations(Clients) \cup Permutations(Detectors)

TableOfIds ==
    [id \in Ids |-> CASE id \in {w1, w2} -> "workspaces" [] id \in {e1, e2} -> "endpoints"
                      [] id = s1 -> "sources" [] OTHER -> "plugins"]

Row(w, name) == [ws |-> w, name |-> name, owner |-> Null, enabled |-> TRUE]

SomeRows ==
    [id \in Ids |-> CASE id = w1 -> Row(Null, Default) [] id = e1 -> Row(w1, n1) [] OTHER -> NoRow]

Item(t, name, plugin, en) == [table |-> t, name |-> name, plugin |-> plugin, enabled |-> en]

SomeConfigs ==
    {{}, {Item("endpoints", n1, n1, TRUE)}, {Item("endpoints", n1, Null, FALSE)},
     {Item("endpoints", Null, Null, TRUE), Item("sources", n1, Null, FALSE)}}
=============================================================================
