------------------------- MODULE MCRealtimeDatabase -------------------------
(* Small instances of RealtimeDatabase: a tree of two leaves under one root. *)
EXTENDS RealtimeDatabase

CONSTANTS c1, c2, a, b

MCLeaf == {a, b}
MCInitial == [l \in MCLeaf |-> Absent]

\* A parent and one of its children.
MCPath == {{a, b}, {a}}

\* One leaf.
MCRoot == {a}
MCRootInitial == [l \in MCRoot |-> Absent]
MCRootPath == {{a}}

=============================================================================
