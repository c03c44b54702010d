----------------------------- MODULE MCLevelDB -----------------------------
(* Small instances of LevelDB. *)
EXTENDS LevelDB

CONSTANTS w1, w2, r1

Put(k) == [key |-> k, del |-> FALSE]
Del(k) == [key |-> k, del |-> TRUE]

OneKey == {<<Put(1)>>, <<Del(1)>>}
TwoKeys == {<<Put(1)>>, <<Del(1), Put(2)>>}

Writers == Permutations(Writer)
=============================================================================
