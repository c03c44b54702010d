----------------------------- MODULE VersionSet -----------------------------
(***************************************************************************)
(* The tables of leveldb (db/version_set.cc) and how they are searched,    *)
(* picked for compaction and merged.  An entry of the database is a key    *)
(* with the sequence number of its write, a value or a deletion; the value *)
(* is left out, since the sequence number tells which one it is.  A table  *)
(* is a numbered file of entries, and a version says which tables are on   *)
(* which level.  Sizes in bytes are abstracted: wherever the code compares *)
(* one with a limit, both outcomes are possible.                           *)
(***************************************************************************)
EXTENDS Naturals, FiniteSets

CONSTANTS
    Key,                \* user keys, in the order of the comparator
    NumLevels,          \* kNumLevels
    MaxMemCompactLevel, \* kMaxMemCompactLevel
    CompactionTrigger   \* kL0_CompactionTrigger

ASSUME VersionSetAssumption ==
    /\ Key \subseteq Nat
    /\ NumLevels \in Nat \ {0, 1}
    /\ MaxMemCompactLevel \in 0 .. NumLevels - 1
    /\ CompactionTrigger \in Nat \ {0}

Level == 0 .. NumLevels - 1

Entry == [key : Key, seq : Nat, del : BOOLEAN]
Table == [num : Nat, ents : SUBSET Entry]
Version == [Level -> SUBSET Table]

NoFiles == [l \in Level |-> {}]

\* The order of internal keys: the newest entry of a user key comes first.
Precedes(a, b) == a.key < b.key \/ (a.key = b.key /\ a.seq > b.seq)

Foremost(ents) == CHOOSE e \in ents : \A d \in ents \ {e} : Precedes(e, d)
Hindmost(ents) == CHOOSE e \in ents : \A d \in ents \ {e} : Precedes(d, e)

Smallest(f) == Foremost(f.ents)
Largest(f) == Hindmost(f.ents)

AllEntries(files) == UNION {f.ents : f \in files}

Covers(f, k) == Smallest(f).key <= k /\ k <= Largest(f).key

\* The files that overlap the user keys lo .. hi.
Overlapping(files, lo, hi) ==
    {f \in files : Smallest(f).key <= hi /\ lo <= Largest(f).key}

-----------------------------------------------------------------------------
(* Reading. *)

\* The newest entry of k at s in one table or memtable: no or one element.
Newest(ents, k, s) ==
    LET seen == {e \in ents : e.key = k /\ e.seq <= s}
    IN  {e \in seen : \A d \in seen : d.seq <= e.seq}

\* Level 0 is searched from the newest file to the oldest.
GetInLevel0(files, k, s) ==
    LET hits == {f \in files : Covers(f, k) /\ Newest(f.ents, k, s) # {}}
    IN  UNION {Newest(f.ents, k, s) :
                f \in {g \in hits : \A h \in hits : h.num <= g.num}}

\* On another level one file is searched: the first that does not end before the
\* entry that is looked for.
FindFile(files, k, s) ==
    LET from == {f \in files : ~Precedes(Largest(f), [key |-> k, seq |-> s])}
    IN  {f \in from : \A g \in from \ {f} : Precedes(Smallest(f), Smallest(g))}

GetInLevel(files, k, s) ==
    UNION {Newest(f.ents, k, s) :
            f \in {g \in FindFile(files, k, s) : Smallest(g).key <= k}}

\* Version::Get: the levels are searched from 0 down, and the first that has the key
\* has its newest entry.
VersionGet(v, k, s) ==
    LET at(l) == IF l = 0 THEN GetInLevel0(v[0], k, s) ELSE GetInLevel(v[l], k, s)
    IN  UNION {at(l) : l \in {m \in Level : \A n \in 0 .. m - 1 : at(n) = {}}}

-----------------------------------------------------------------------------
(* Where the table of a memtable goes. *)

\* The levels that it may be put on; the size of what lies below decides.
PickLevelForMemTableOutput(v, lo, hi) ==
    {l \in 0 .. MaxMemCompactLevel :
        l = 0 \/ \A m \in 0 .. l : Overlapping(v[m], lo, hi) = {}}

-----------------------------------------------------------------------------
(* What is compacted. *)

\* The files of a level that overlap lo .. hi; on level 0 the range grows with every
\* file that is taken.
GetOverlappingInputs(v, l, lo, hi) ==
    LET closed(b, e) == \A f \in Overlapping(v[l], b, e) :
                            b <= Smallest(f).key /\ Largest(f).key <= e
        ranges == {r \in Key \X Key : r[1] <= lo /\ hi <= r[2] /\ closed(r[1], r[2])}
        least == CHOOSE r \in ranges : \A q \in ranges : q[1] <= r[1] /\ r[2] <= q[2]
    IN  IF l = 0 THEN Overlapping(v[l], least[1], least[2])
        ELSE Overlapping(v[l], lo, hi)

\* (mutant) The files that go on with the last user key are left where they are.
WithoutBoundary(files, inputs) == inputs

\* The inputs and the files of the level that go on with the last user key of theirs,
\* one after the other.
AddBoundaryInputs(files, inputs) ==
    LET end == Hindmost(AllEntries(inputs))
        after == {f \in files \ inputs : Precedes(end, Smallest(f))}
        goesOn(f) == \E g \in files : /\ Largest(g).key = Smallest(f).key
                                      /\ Precedes(Largest(g), Smallest(f))
    IN  inputs \cup {f \in after :
            \A g \in after : Precedes(Smallest(f), Smallest(g)) \/ goesOn(g)}

\* (mutant) The files that have only an end of the range in common are left out.
WithinInputs(v, l, inputs) ==
    LET lo == Foremost(AllEntries(inputs)).key
        hi == Hindmost(AllEntries(inputs)).key
    IN  {f \in Overlapping(v[l], lo, hi) : Smallest(f).key < hi /\ lo < Largest(f).key}

\* SetupOtherInputs: the inputs of the two levels. They may grow on the first as
\* long as those of the second stay.
OverlappingInputs(v, l, inputs) ==
    Overlapping(v[l], Foremost(AllEntries(inputs)).key, Hindmost(AllEntries(inputs)).key)

Grown(v, l, both) ==
    AddBoundaryInputs(v[l],
        GetOverlappingInputs(v, l, Foremost(AllEntries(both)).key,
                                   Hindmost(AllEntries(both)).key))

SetupOtherInputs(v, l, picked) ==
    UNION {
        {both} \cup
        {<<grown, both[2]>> : grown \in {g \in {Grown(v, l, both[1] \cup both[2])} :
            /\ both[2] # {} /\ Cardinality(g) > Cardinality(both[1])
            /\ Cardinality(OverlappingInputs(v, l + 1, g)) = Cardinality(both[2])}} :
        both \in {<<i, OverlappingInputs(v, l + 1, i)>> :
                            i \in {AddBoundaryInputs(v[l], picked)}}}

\* PickCompaction: the file that is picked, with all that must go with it.
Picked(v, l, f) ==
    IF l = 0
    THEN GetOverlappingInputs(v, 0, Smallest(f).key, Largest(f).key)
    ELSE {f}

-----------------------------------------------------------------------------
(* Merging. *)

IsBaseLevelForKey(v, l, k) ==
    \A m \in l + 2 .. NumLevels - 1 : \A f \in v[m] : ~Covers(f, k)

\* DoCompactionWork, for the entry e: the next newer entry of its key is one that
\* every snapshot sees, or e is a deletion of something that is not below.
Drops(e, inputs, v, l, oldest) ==
    \/ \E d \in inputs : d.key = e.key /\ d.seq > e.seq /\ d.seq <= oldest
    \/ e.del /\ e.seq <= oldest /\ IsBaseLevelForKey(v, l, e.key)

\* The ways to fill the next output file: any number of the entries that are left.
NextOutputs(rest) ==
    {{d \in rest : ~Precedes(e, d)} : e \in rest}

-----------------------------------------------------------------------------
(* VersionEdit *)

NoEdit == [del |-> {}, add |-> {}]

\* Builder: the files of an edit are pairs of a level and a table.
Apply(v, edit) ==
    [l \in Level |-> {f \in v[l] : <<l, f>> \notin edit.del}
                     \cup {p[2] : p \in {q \in edit.add : q[1] = l}}]

Numbers(v) == UNION {{f.num : f \in v[l]} : l \in Level}

=============================================================================
