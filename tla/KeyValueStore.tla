--------------------------- MODULE KeyValueStore ---------------------------
(***************************************************************************)
(* What leveldb promises of its writes (include/leveldb/db.h): a map from  *)
(* keys to values.  Batches are applied as a whole and one group after the *)
(* other, between the call and the return of Write.  A group is first kept *)
(* for a crash of the process, then it is seen; a group whose fate is not  *)
(* known is the last.  A value is the number of the operation that set it. *)
(***************************************************************************)
EXTENDS Naturals, SequencesExt

CONSTANTS Key, Writer, Batch

VARIABLES
    store,  \* what readers see: a number for each key, 0 is nothing
    kept,   \* what they would see after a crash
    stamp,  \* the number of the last operation
    asked,  \* the batches of the writers that wait for an answer
    logged  \* the writers whose batches are kept and not yet seen

vars == <<store, kept, stamp, asked, logged>>

Init ==
    /\ store = [k \in Key |-> 0] /\ kept = store /\ stamp = 0
    /\ asked = [w \in Writer |-> <<>>] /\ logged = {}

Ask(w, b) ==
    /\ asked[w] = <<>>
    /\ asked' = [asked EXCEPT ![w] = b]
    /\ UNCHANGED <<store, kept, stamp, logged>>

\* The last operation on a key counts.
Applied(map, ops, n) ==
    [k \in DOMAIN map |->
        LET on == {i \in DOMAIN ops : ops[i].key = k}
            last == Max(on)
        IN  IF on = {} THEN map[k] ELSE IF ops[last].del THEN 0 ELSE n + last]

\* The batches of ws, in some order.
Orders(ws) ==
    {FlattenSeq([i \in DOMAIN order |-> asked[order[i]]]) : order \in SetToSeqs(ws)}

\* A group is kept. None was kept before that is not seen.
Log(ws) ==
    /\ logged = {} /\ kept = store /\ ws # {}
    /\ \A w \in ws : asked[w] # <<>>
    /\ \E ops \in Orders(ws) : kept' = Applied(kept, ops, stamp)
    /\ logged' = ws
    /\ UNCHANGED <<store, stamp, asked>>

\* The group is seen, and answered.
Commit ==
    /\ logged # {}
    /\ store' = kept /\ logged' = {}
    /\ stamp' >= stamp
    /\ asked' = [w \in Writer |-> IF w \in logged THEN <<>> ELSE asked[w]]
    /\ UNCHANGED kept

\* Some writers are told of an error; if they were kept, nobody knows.
Fail(ws) ==
    /\ ws # {} /\ (logged # {} => logged = ws)
    /\ \A w \in ws : asked[w] # <<>>
    /\ stamp' >= stamp
    /\ asked' = [w \in Writer |-> IF w \in ws THEN <<>> ELSE asked[w]]
    /\ logged' = {}
    /\ UNCHANGED <<store, kept>>

\* Nobody is answered any more, and what was kept is seen.
Crash ==
    /\ store' = kept /\ logged' = {}
    /\ asked' = [w \in Writer |-> <<>>]
    /\ \A k \in Key : kept[k] <= stamp'
    /\ UNCHANGED kept

Next ==
    \/ \E w \in Writer, b \in Batch : Ask(w, b)
    \/ \E ws \in SUBSET Writer : Log(ws) \/ Fail(ws)
    \/ Commit \/ Crash

Spec == Init /\ [][Next]_vars
=============================================================================
