------------------------- MODULE Listens_proofs --------------------------
(***************************************************************************)
(* Proofs about the listens of RealtimeDatabase: the client counts the     *)
(* listens without an answer exactly, never misses a change of what it     *)
(* observes, and never loses sight of what an observer has seen whole; and *)
(* what the answers to its writes show to a device that is alone.          *)
(***************************************************************************)
EXTENDS RealtimeDatabase_proofs

-----------------------------------------------------------------------------
(* The inductive invariant of the listens: of a client k, its inbox s, the *)
(* paths that the server serves on its connection and the server's tree.   *)

Listens(k) == {q \in k.out : q.kind = "listen"}
Unlistens(k) == {q \in k.out : q.kind = "unlisten"}
Answered(s) == {s[i].to : i \in {j \in DOMAIN s : s[j].kind = "listen"}}

\* Requests are numbered below what is numbered next.
Ranked(k) == k.next > 0 /\ \A q \in k.out \cup k.unacked : q.rank < k.next

\* A listen without an answer is on the wire or its answer is, once.
Counted(k, s) ==
    /\ k.unacked = Listens(k) \cup Answered(s)
    /\ Listens(k) \cap Answered(s) = {}
    /\ \A i, j \in DOMAIN s :
        /\ s[i].kind = "listen" /\ s[j].kind = "listen"
        /\ s[i].to = s[j].to
        => i = j
    /\ \A i \in DOMAIN s : s[i].kind = "listen" => DOMAIN s[i].put = s[i].to.path

\* When the requests on the wire are served, the server serves every outermost
\* path.
Routed(k, paths) ==
    k.conn => \A p \in Outermost(k.regs) :
        \/ \E q \in Listens(k) :
            /\ q.path = p
            /\ \A u \in Unlistens(k) : u.path = p => u.rank < q.rank
        \/ p \in paths /\ \A u \in Unlistens(k) : u.path # p

\* A leaf with value v becomes x when the inbox has been merged.
Becomes(v, s, l, x) ==
    \/ v = x /\ \A i \in DOMAIN s : ~Concerns(s[i], l)
    \/ \E i \in DOMAIN s :
        /\ Concerns(s[i], l) /\ s[i].put[l] = x
        /\ \A j \in DOMAIN s : Concerns(s[j], l) => j <= i

Current(k, s, tree) ==
    k.conn => \A l \in Covered(k.regs) :
        \/ \E q \in Listens(k) : l \in q.path
        \/ Becomes(k.cache[l], s, l, tree[l])

\* What no unanswered listen covers is in the cache.
Known(k) ==
    k.conn => \A l \in Covered(k.regs) :
        (\A q \in k.unacked : l \notin q.path) => k.cache[l] # Unknown

\* Answers are released when all listens have been answered.
Released(k) == k.flush => k.conn /\ k.unacked = {}

Synced(k, s, paths, tree) ==
    /\ Ranked(k) /\ Counted(k, s) /\ Routed(k, paths)
    /\ Current(k, s, tree) /\ Known(k) /\ Released(k)

SyncInv == \A c \in Client : Synced(client[c], in[c], sub[c], data)

-----------------------------------------------------------------------------
(* Numbers, paths and inboxes. *)

\* The number given to a new request is above every request on the wire.
LEMMA FreshRank ==
    ASSUME NEW k \in ClientState, Ranked(k)
    PROVE  /\ Fresh(k) \in Nat
           /\ \A q \in k.out \cup k.unacked : q.rank \in Nat /\ q.rank < Fresh(k)
<1>. DEFINE P(n) == \/ n = k.next
                    \/ /\ n > 0
                       /\ \A w \in k.writes \cup k.regs \cup Queued(k) : w.id < n
                       /\ \A q \in k.out \cup k.unacked : q.rank < n
<1>1. k.next \in 0..k.next /\ P(k.next)
    BY DEF ClientState
<1>2. (CHOOSE n \in 0..k.next : P(n)) \in 0..k.next /\ P(CHOOSE n \in 0..k.next : P(n))
    BY <1>1
<1>3. Fresh(k) = IF Reuse THEN CHOOSE n \in 0..k.next : P(n) ELSE k.next
    BY DEF Fresh
<1>4. \A q \in k.out \cup k.unacked : q.rank < Fresh(k)
    BY <1>2, <1>3 DEF Ranked
<1>5. \A q \in k.out \cup k.unacked : q.rank \in Nat
    BY DEF ClientState, Request, Listen
<1>. QED
    BY <1>4, <1>5, FreshType

\* Every observed path lies in an outermost one.
LEMMA BelowOutermost ==
    ASSUME NEW regs \in SUBSET Reg, NEW r \in regs
    PROVE  \E p \in Outermost(regs) : r.path \subseteq p
<1>. DEFINE paths == {q.path : q \in regs}
<1>1. paths \in SUBSET Path /\ r.path \in paths
    BY DEF Reg
<1>. HIDE DEF paths
<1>2. PICK p \in paths : /\ r.path \subseteq p
                         /\ \A q \in paths : p \subseteq q => p = q
    BY <1>1, DepthAssumption
<1>3. p \in Outermost(regs)
    BY <1>2 DEF Outermost, paths
<1>. QED
    BY <1>2, <1>3

LEMMA OutermostCovers ==
    ASSUME NEW regs \in SUBSET Reg, NEW l \in Covered(regs)
    PROVE  \E p \in Outermost(regs) : l \in p
<1>1. PICK r \in regs : l \in r.path
    BY DEF Covered
<1>. QED
    BY <1>1, BelowOutermost

LEMMA OutermostCovered ==
    ASSUME NEW regs \in SUBSET Reg, NEW p \in Outermost(regs)
    PROVE  p \in Path /\ p \subseteq Covered(regs) /\ p \subseteq Leaf
<1>1. PICK r \in regs : p = r.path
    BY DEF Outermost
<1>2. p \in Path
    BY <1>1 DEF Reg
<1>3. p \subseteq Covered(regs)
    BY <1>1 DEF Covered
<1>. QED
    BY <1>2, <1>3, PathAssumption

-----------------------------------------------------------------------------
(* What an inbox makes of a leaf. *)

\* A message that does not concern a leaf may be added.
LEMMA BecomesAppendOther ==
    ASSUME NEW s \in Seq(Message), NEW m \in Message, NEW v, NEW l, NEW x,
           ~Concerns(m, l)
    PROVE  Becomes(v, s, l, x) => Becomes(v, Append(s, m), l, x)
<1>. DEFINE t == Append(s, m)
<1>1. /\ DOMAIN t = DOMAIN s \cup {Len(s) + 1} /\ t[Len(s) + 1] = m
      /\ \A i \in DOMAIN s : t[i] = s[i]
    OBVIOUS
<1>. HIDE DEF t
<1>2. \A i \in DOMAIN t : Concerns(t[i], l) => i \in DOMAIN s
    BY <1>1
<1>3. CASE v = x /\ \A i \in DOMAIN s : ~Concerns(s[i], l)
    BY <1>1, <1>2, <1>3 DEF Becomes, t
<1>4. CASE \E i \in DOMAIN s :
            /\ Concerns(s[i], l) /\ s[i].put[l] = x
            /\ \A j \in DOMAIN s : Concerns(s[j], l) => j <= i
    <2>1. PICK i \in DOMAIN s :
            /\ Concerns(s[i], l) /\ s[i].put[l] = x
            /\ \A j \in DOMAIN s : Concerns(s[j], l) => j <= i
        BY <1>4
    <2>2. i \in DOMAIN t /\ t[i] = s[i]
        BY <1>1
    <2>3. \A j \in DOMAIN t : Concerns(t[j], l) => j <= i
        BY <1>1, <1>2, <2>1
    <2>. QED
        BY <2>1, <2>2, <2>3 DEF Becomes, t
<1>. QED
    BY <1>3, <1>4 DEF Becomes

\* The last message that concerns a leaf decides.
LEMMA BecomesAppend ==
    ASSUME NEW s \in Seq(Message), NEW m \in Message, NEW v, NEW l,
           Concerns(m, l)
    PROVE  Becomes(v, Append(s, m), l, m.put[l])
<1>. DEFINE t == Append(s, m)
<1>1. /\ DOMAIN t = 1..(Len(s) + 1) /\ t[Len(s) + 1] = m /\ Len(s) \in Nat
    OBVIOUS
<1>. HIDE DEF t
<1>2. Len(s) + 1 \in DOMAIN t /\ \A j \in DOMAIN t : j <= Len(s) + 1
    BY <1>1
<1>. QED
    BY <1>1, <1>2 DEF Becomes, t

\* Merging the message at the head leaves what the rest makes of a leaf.
LEMMA BecomesTail ==
    ASSUME NEW s \in Seq(Message), s # <<>>, NEW v, NEW l, NEW x,
           Becomes(v, s, l, x), NEW w,
           w = IF Concerns(Head(s), l) THEN Head(s).put[l] ELSE v
    PROVE  Becomes(w, Tail(s), l, x)
<1>. DEFINE t == Tail(s)
<1>1. /\ Len(s) \in Nat /\ Len(s) > 0 /\ DOMAIN s = 1..Len(s)
      /\ DOMAIN t = 1..(Len(s) - 1)
      /\ \A i \in DOMAIN t : t[i] = s[i + 1]
      /\ Head(s) = s[1]
    OBVIOUS
<1>2. 1 \in DOMAIN s /\ \A i \in DOMAIN t : i + 1 \in DOMAIN s /\ i \in Nat /\ i >= 1
    BY <1>1
<1>. HIDE DEF t
<1>3. CASE v = x /\ \A i \in DOMAIN s : ~Concerns(s[i], l)
    <2>1. w = x /\ \A i \in DOMAIN t : ~Concerns(t[i], l)
        BY <1>1, <1>2, <1>3
    <2>. QED
        BY <2>1 DEF Becomes, t
<1>4. CASE \E i \in DOMAIN s :
            /\ Concerns(s[i], l) /\ s[i].put[l] = x
            /\ \A j \in DOMAIN s : Concerns(s[j], l) => j <= i
    <2>1. PICK i \in DOMAIN s :
            /\ Concerns(s[i], l) /\ s[i].put[l] = x
            /\ \A j \in DOMAIN s : Concerns(s[j], l) => j <= i
        BY <1>4
    <2>2. CASE i = 1
        <3>1. w = x
            BY <1>1, <2>1, <2>2
        <3>2. \A j \in DOMAIN t : ~Concerns(t[j], l)
            BY <1>1, <1>2, <2>1, <2>2
        <3>. QED
            BY <3>1, <3>2 DEF Becomes, t
    <2>3. CASE i # 1
        <3>1. i - 1 \in DOMAIN t /\ t[i - 1] = s[i]
            BY <1>1, <2>3
        <3>2. \A j \in DOMAIN t : Concerns(t[j], l) => j <= i - 1
            BY <1>1, <1>2, <2>1
        <3>. QED
            BY <2>1, <3>1, <3>2 DEF Becomes, t
    <2>. QED
        BY <2>2, <2>3
<1>. QED
    BY <1>3, <1>4 DEF Becomes

-----------------------------------------------------------------------------
(* The listens answered in an inbox. *)

Told(s) ==
    /\ \A i, j \in DOMAIN s :
        /\ s[i].kind = "listen" /\ s[j].kind = "listen"
        /\ s[i].to = s[j].to
        => i = j
    /\ \A i \in DOMAIN s : s[i].kind = "listen" => DOMAIN s[i].put = s[i].to.path

LEMMA AnsweredAppend ==
    ASSUME NEW s \in Seq(Message), NEW m \in Message, Told(s),
           m.kind = "listen" => /\ m.to \notin Answered(s)
                                /\ DOMAIN m.put = m.to.path
    PROVE  /\ Told(Append(s, m))
           /\ Answered(Append(s, m)) =
                Answered(s) \cup (IF m.kind = "listen" THEN {m.to} ELSE {})
<1>. DEFINE t == Append(s, m)
<1>1. /\ DOMAIN t = DOMAIN s \cup {Len(s) + 1} /\ t[Len(s) + 1] = m
      /\ \A i \in DOMAIN s : t[i] = s[i]
    OBVIOUS
<1>. HIDE DEF t
<1>2. \A i \in DOMAIN s : s[i].kind = "listen" => s[i].to \in Answered(s)
    BY DEF Answered
<1>3. Told(t)
    BY <1>1, <1>2 DEF Told
<1>4. Answered(t) = Answered(s) \cup (IF m.kind = "listen" THEN {m.to} ELSE {})
    BY <1>1 DEF Answered
<1>. QED
    BY <1>3, <1>4 DEF t

LEMMA AnsweredTail ==
    ASSUME NEW s \in Seq(Message), s # <<>>, Told(s)
    PROVE  /\ Told(Tail(s))
           /\ Answered(Tail(s)) =
                Answered(s) \ (IF Head(s).kind = "listen" THEN {Head(s).to} ELSE {})
           /\ Head(s).kind = "listen" =>
                Head(s).to \in Answered(s) /\ DOMAIN Head(s).put = Head(s).to.path
<1>. DEFINE t == Tail(s)
<1>1. /\ Len(s) \in Nat /\ Len(s) > 0 /\ DOMAIN s = 1..Len(s)
      /\ DOMAIN t = 1..(Len(s) - 1)
      /\ \A i \in DOMAIN t : t[i] = s[i + 1]
      /\ Head(s) = s[1]
    OBVIOUS
<1>2. \A i \in DOMAIN s : i = 1 \/ (i - 1 \in DOMAIN t /\ s[i] = t[i - 1])
    BY <1>1
<1>3. 1 \in DOMAIN s /\ \A i \in DOMAIN t : i + 1 \in DOMAIN s /\ i + 1 # 1
    BY <1>1
<1>4. \A i, j \in DOMAIN t : i + 1 = j + 1 => i = j
    BY <1>1
<1>. HIDE DEF t
<1>5. Told(t)
    BY <1>1, <1>3, <1>4 DEF Told
<1>6. Head(s).kind = "listen" =>
            Head(s).to \in Answered(s) /\ DOMAIN Head(s).put = Head(s).to.path
    BY <1>1, <1>3 DEF Told, Answered
<1>7. Answered(t) \subseteq Answered(s)
    BY <1>1, <1>3 DEF Answered
<1>8. Head(s).kind = "listen" => Head(s).to \notin Answered(t)
    BY <1>1, <1>3 DEF Answered, Told
<1>9. \A q \in Answered(s) : q \in Answered(t) \/ (Head(s).kind = "listen" /\ q = Head(s).to)
    BY <1>1, <1>2 DEF Answered
<1>. QED
    BY <1>5, <1>6, <1>7, <1>8, <1>9 DEF t

-----------------------------------------------------------------------------
(* What each kind of step does to a synchronized client. *)

LEMMA CountedTold ==
    ASSUME NEW k, NEW s
    PROVE  Counted(k, s) <=> /\ k.unacked = Listens(k) \cup Answered(s)
                             /\ Listens(k) \cap Answered(s) = {}
                             /\ Told(s)
    BY DEF Counted, Told

\* The main queue and the writes do not matter, and the loop of ackPuts may end.
LEMMA AlikeSynced ==
    ASSUME NEW k, NEW k2, Alike(k, k2), k2.flush => k.flush,
           NEW s, NEW paths, NEW tree, Synced(k, s, paths, tree)
    PROVE  Synced(k2, s, paths, tree)
<1>1. Listens(k2) = Listens(k) /\ Unlistens(k2) = Unlistens(k)
    BY DEF Alike, Listens, Unlistens
<1>2. Ranked(k2) /\ Counted(k2, s) /\ Routed(k2, paths)
    BY <1>1 DEF Alike, Synced, Ranked, Counted, Routed
<1>3. Current(k2, s, tree) /\ Known(k2) /\ Released(k2)
    BY <1>1 DEF Alike, Synced, Current, Known, Released
<1>. QED
    BY <1>2, <1>3 DEF Synced

\* Observing and dropping paths: what is newly covered is listened to.
LEMMA RelistenSynced ==
    ASSUME NEW k \in ClientState, ~k.flush, NEW regs \in SUBSET Reg,
           NEW s, NEW paths, NEW tree, Synced(k, s, paths, tree)
    PROVE  Synced(Relisten(k, regs), s, paths, tree)
<1>. DEFINE old == Outermost(k.regs)
            new == Outermost(regs)
            id == Fresh(k)
            listens == {[kind |-> "listen", rank |-> id, path |-> p] :
                            p \in new \ old}
            unlistens == {[kind |-> "unlisten", rank |-> id + 1, path |-> p] :
                            p \in old \ new}
            k2 == Relisten(k, regs)
<1>1. /\ k2.conn = k.conn /\ k2.flush = k.flush /\ k2.regs = regs
      /\ k2.next = id + 2
      /\ \A l \in Leaf : k2.cache[l] = IF l \in Covered(regs)
                                       THEN k.cache[l] ELSE Unknown
      /\ k2.out = IF k.conn THEN k.out \cup listens \cup unlistens ELSE k.out
      /\ k2.unacked = IF k.conn THEN k.unacked \cup listens ELSE k.unacked
    BY DEF Relisten, ClientState
<1>2. id \in Nat /\ \A q \in k.out \cup k.unacked : q.rank \in Nat /\ q.rank < id
    BY FreshRank DEF Synced
<1>. HIDE DEF k2, old, new, id
<1>3. \A p \in new \ old : [kind |-> "listen", rank |-> id, path |-> p] \in listens
    OBVIOUS
<1>4. /\ \A q \in listens : q.kind = "listen" /\ q.rank = id /\ q.path \in new \ old
      /\ \A p \in new \ old : \E q \in listens : q.path = p
      /\ \A q \in unlistens : q.kind = "unlisten" /\ q.rank = id + 1
                              /\ q.path \in old \ new
    <2>1. \A q \in listens : q.kind = "listen" /\ q.rank = id /\ q.path \in new \ old
        OBVIOUS
    <2>2. \A q \in unlistens : q.kind = "unlisten" /\ q.rank = id + 1
                              /\ q.path \in old \ new
        OBVIOUS
    <2>3. ASSUME NEW p \in new \ old PROVE \E q \in listens : q.path = p
        <3>. DEFINE q == [kind |-> "listen", rank |-> id, path |-> p]
        <3>1. q \in listens /\ q.path = p
            BY <1>3
        <3>. HIDE DEF listens, q
        <3>. QED
            BY <3>1
    <2>. QED
        BY <2>1, <2>2, <2>3
<1>. USE DEF old, new
<1>. HIDE DEF listens, unlistens
<1>5. Ranked(k2)
    BY <1>1, <1>2, <1>4 DEF Ranked
<1>6. Listens(k2) = IF k.conn THEN Listens(k) \cup listens ELSE Listens(k)
    BY <1>1, <1>4 DEF Listens
<1>7. Unlistens(k2) = IF k.conn THEN Unlistens(k) \cup unlistens ELSE Unlistens(k)
    BY <1>1, <1>4 DEF Unlistens
<1>8. Counted(k2, s)
    <2>1. /\ k.unacked = Listens(k) \cup Answered(s)
          /\ Listens(k) \cap Answered(s) = {} /\ Told(s)
        BY CountedTold DEF Synced
    <2>2. listens \cap k.unacked = {}
        BY <1>2, <1>4
    <2>. QED
        BY <1>1, <1>6, <2>1, <2>2, CountedTold
<1>9. Routed(k2, paths)
    <2>1. SUFFICES ASSUME k.conn, NEW p \in new
                   PROVE  \/ \E q \in Listens(k2) :
                                /\ q.path = p
                                /\ \A u \in Unlistens(k2) :
                                        u.path = p => u.rank < q.rank
                          \/ p \in paths /\ \A u \in Unlistens(k2) : u.path # p
        BY <1>1 DEF Routed
    <2>2. \A u \in Unlistens(k2) : u.path = p => u \in Unlistens(k)
        BY <1>4, <1>7, <2>1
    <2>3. CASE p \in old
        BY <1>6, <2>1, <2>2, <2>3 DEF Synced, Routed
    <2>4. CASE p \notin old
        <3>1. PICK q \in listens : q.path = p
            BY <1>4, <2>1, <2>4
        <3>2. q \in Listens(k2) /\ q.rank = id
            BY <1>4, <1>6, <2>1
        <3>3. \A u \in Unlistens(k2) : u.path = p => u.rank < q.rank
            BY <1>2, <2>2, <3>2 DEF Unlistens
        <3>. QED
            BY <3>1, <3>2, <3>3
    <2>. QED
        BY <2>3, <2>4
<1>10. ASSUME k.conn, NEW l \in Covered(regs), \A q \in listens : l \notin q.path
      PROVE  l \in Covered(k.regs) /\ k2.cache[l] = k.cache[l]
    <2>1. PICK p \in new : l \in p
        BY OutermostCovers
    <2>2. p \in old
        BY <1>4, <1>10, <2>1
    <2>3. l \in Covered(k.regs) /\ l \in Leaf
        BY <2>1, <2>2, OutermostCovered DEF ClientState
    <2>. QED
        BY <1>1, <2>3
<1>11. Current(k2, s, tree)
    <2>1. SUFFICES ASSUME k.conn, NEW l \in Covered(regs),
                          \A q \in Listens(k2) : l \notin q.path
                   PROVE  Becomes(k2.cache[l], s, l, tree[l])
        BY <1>1 DEF Current
    <2>2. l \in Covered(k.regs) /\ k2.cache[l] = k.cache[l]
        BY <1>6, <1>10, <2>1
    <2>. QED
        BY <1>6, <2>1, <2>2 DEF Synced, Current
<1>12. Known(k2)
    <2>1. SUFFICES ASSUME k.conn, NEW l \in Covered(regs),
                          \A q \in k2.unacked : l \notin q.path
                   PROVE  k2.cache[l] # Unknown
        BY <1>1 DEF Known
    <2>2. l \in Covered(k.regs) /\ k2.cache[l] = k.cache[l]
        BY <1>1, <1>10, <2>1
    <2>. QED
        BY <1>1, <2>1, <2>2 DEF Synced, Known
<1>13. Released(k2)
    BY <1>1 DEF Released
<1>. QED
    BY <1>5, <1>8, <1>9, <1>11, <1>12, <1>13 DEF Synced, k2

LEMMA ObserveSynced ==
    ASSUME NEW k \in ClientState, ~k.flush, NEW path \in Path,
           NEW single \in BOOLEAN, NEW tag \in Tag,
           NEW s, NEW paths, NEW tree, Synced(k, s, paths, tree)
    PROVE  Synced(Observe(k, path, single, tag), s, paths, tree)
<1>. DEFINE r == [id |-> Fresh(k), path |-> path, single |-> single, tag |-> tag]
            k2 == Relisten(k, k.regs \cup {r})
<1>1. k.regs \cup {r} \in SUBSET Reg
    BY FreshType DEF Reg, ClientState
<1>2. k2 \in ClientState /\ Synced(k2, s, paths, tree)
    BY <1>1, RelistenType, RelistenSynced
<1>3. PICK todo : Observe(k, path, single, tag) = Raise(k2, todo)
    BY DEF Observe
<1>. HIDE DEF k2
<1>. QED
    BY <1>2, <1>3, RaiseAlike, AlikeSynced

LEMMA UnobserveSynced ==
    ASSUME NEW k \in ClientState, ~k.flush, NEW r,
           NEW s, NEW paths, NEW tree, Synced(k, s, paths, tree)
    PROVE  Synced(Unobserve(k, r), s, paths, tree)
<1>1. k.regs \ {r} \in SUBSET Reg
    BY DEF ClientState
<1>. QED
    BY <1>1, RelistenSynced DEF Unobserve

\* A new write sends a put at most.
LEMMA SetValueSynced ==
    ASSUME NEW k \in ClientState, NEW put \in Put, NEW tag \in Tag,
           NEW s, NEW paths, NEW tree, Synced(k, s, paths, tree)
    PROVE  Synced(SetValue(k, put, tag), s, paths, tree)
<1>. DEFINE w == [id |-> Fresh(k), put |-> put, tag |-> tag]
            q == [kind |-> "put", rank |-> Fresh(k), put |-> put]
            writes == k.writes \cup {w}
            out == IF k.conn THEN k.out \cup {q} ELSE k.out
            next == Fresh(k) + 1
            k1 == [k EXCEPT !.writes = writes, !.out = out, !.next = next]
<1>1. Fresh(k) \in Nat /\ \A p \in k.out \cup k.unacked : p.rank \in Nat /\ p.rank < Fresh(k)
    BY FreshRank DEF Synced
<1>2. w \in Write /\ q \in Request /\ q.kind = "put" /\ q.rank = Fresh(k)
    BY <1>1 DEF Write, Request
<1>3. SetValue(k, put, tag) = Raise(k1, Changed(k, k1))
    BY DEF SetValue, Overwrites
<1>. HIDE DEF w, q
<1>4. writes \in SUBSET Write /\ out \in SUBSET Request /\ next \in Nat
    BY <1>1, <1>2 DEF ClientState
<1>5. out = IF k.conn THEN k.out \cup {q} ELSE k.out
    OBVIOUS
<1>10. next = Fresh(k) + 1
    OBVIOUS
<1>. HIDE DEF writes, out, next
<1>6. /\ k1 \in ClientState /\ k1.conn = k.conn /\ k1.cache = k.cache
      /\ k1.regs = k.regs /\ k1.unacked = k.unacked /\ k1.flush = k.flush
      /\ k1.out = out /\ k1.next = next
    BY <1>4 DEF ClientState
<1>. HIDE DEF k1
<1>7. Listens(k1) = Listens(k) /\ Unlistens(k1) = Unlistens(k)
    BY <1>2, <1>5, <1>6 DEF Listens, Unlistens
<1>8. Ranked(k1)
    BY <1>1, <1>2, <1>5, <1>6, <1>10 DEF Ranked
<1>9. Synced(k1, s, paths, tree)
    <2>1. Counted(k1, s) /\ Routed(k1, paths)
        BY <1>6, <1>7 DEF Synced, Counted, Routed
    <2>2. Current(k1, s, tree) /\ Known(k1) /\ Released(k1)
        BY <1>6, <1>7 DEF Synced, Current, Known, Released
    <2>. QED
        BY <1>8, <2>1, <2>2 DEF Synced
<1>. QED
    BY <1>3, <1>6, <1>9, RaiseAlike, AlikeSynced

\* Merging a message and taking it off the inbox: a push, or the response to a
\* listen, which is then no longer without an answer.
LEMMA MergeSynced ==
    ASSUME NEW k \in ClientState, k.conn, ~k.flush,
           NEW s \in Seq(Message), s # <<>>, Head(s).kind # "ack",
           NEW paths, NEW tree \in [Leaf -> Value], Synced(k, s, paths, tree),
           NEW k1, k1 = Merge(k, Head(s).put),
           NEW k2, Alike([k1 EXCEPT !.unacked = @ \ (IF Head(s).kind = "listen"
                                                     THEN {Head(s).to} ELSE {})], k2),
           k2.flush => k2.unacked = {}
    PROVE  Synced(k2, Tail(s), paths, tree)
<1>. DEFINE m == Head(s)
            to == IF m.kind = "listen" THEN {m.to} ELSE {}
            k0 == [k EXCEPT !.cache = [l \in Leaf |-> IF l \in Merged(k, m.put)
                                                     THEN m.put[l] ELSE @[l]]]
<1>1. m \in Message /\ m.put \in Put
    BY DEF Message
<1>2. PICK S \in SUBSET Leaf : m.put \in [S -> Value]
    BY <1>1 DEF Put
<1>3. /\ k0 \in ClientState
      /\ k0.conn = k.conn /\ k0.regs = k.regs /\ k0.out = k.out
      /\ k0.unacked = k.unacked /\ k0.next = k.next
      /\ \A l \in Leaf : k0.cache[l] = IF l \in Merged(k, m.put)
                                       THEN m.put[l] ELSE k.cache[l]
    <2>1. [l \in Leaf |-> IF l \in Merged(k, m.put) THEN m.put[l] ELSE k.cache[l]]
                \in [Leaf -> Seen]
        BY <1>2 DEF Merged, ClientState, Seen
    <2>. QED
        BY <2>1 DEF ClientState
<1>4. k1 = Raise(k0, Changed(k, k0))
    BY DEF Merge
<1>. HIDE DEF k0
<1>5. k1 \in ClientState /\ Alike(k0, k1)
    BY <1>3, <1>4, RaiseType, ChangedType, RaiseAlike
<1>6. /\ k2.conn = k.conn /\ k2.regs = k.regs /\ k2.out = k.out
      /\ k2.unacked = k.unacked \ to /\ k2.next = k.next /\ k2.cache = k0.cache
    <2>1. /\ k2.conn = k1.conn /\ k2.regs = k1.regs /\ k2.out = k1.out
          /\ k2.unacked = k1.unacked \ to /\ k2.next = k1.next
          /\ k2.cache = k1.cache
        BY <1>5 DEF Alike, ClientState
    <2>. QED
        BY <1>3, <1>5, <2>1 DEF Alike
<1>7. /\ Told(s) /\ Told(Tail(s)) /\ Answered(Tail(s)) = Answered(s) \ to
      /\ m.kind = "listen" => m.to \in Answered(s) /\ DOMAIN m.put = m.to.path
    BY CountedTold, AnsweredTail DEF Synced
<1>. HIDE DEF m
<1>8. Listens(k2) = Listens(k) /\ Unlistens(k2) = Unlistens(k)
    BY <1>6 DEF Listens, Unlistens
<1>9. Ranked(k2)
    BY <1>6 DEF Synced, Ranked
<1>10. Counted(k2, Tail(s))
    <2>1. /\ k.unacked = Listens(k) \cup Answered(s)
          /\ Listens(k) \cap Answered(s) = {}
        BY CountedTold DEF Synced
    <2>2. to \cap Listens(k) = {}
        BY <1>7, <2>1
    <2>. QED
        BY <1>6, <1>7, <1>8, <2>1, <2>2, CountedTold
<1>11. Routed(k2, paths)
    BY <1>6, <1>8 DEF Synced, Routed
<1>12. ASSUME NEW l \in Covered(k.regs)
       PROVE  /\ l \in Leaf
              /\ k2.cache[l] = IF Concerns(m, l) THEN m.put[l] ELSE k.cache[l]
              /\ l \in DOMAIN m.put => m.put[l] \in Value
    <2>1. l \in Leaf
        BY OutermostCovers, OutermostCovered DEF ClientState
    <2>2. Concerns(m, l) <=> l \in Merged(k, m.put)
        BY DEF Concerns, Merged, m
    <2>. QED
        BY <1>2, <1>3, <1>6, <2>1, <2>2
<1>13. Current(k2, Tail(s), tree)
    <2>1. SUFFICES ASSUME NEW l \in Covered(k.regs),
                          \A q \in Listens(k) : l \notin q.path
                   PROVE  Becomes(k2.cache[l], Tail(s), l, tree[l])
        BY <1>6, <1>8 DEF Current
    <2>2. Becomes(k.cache[l], s, l, tree[l])
        BY <2>1 DEF Synced, Current
    <2>. QED
        BY <1>12, <2>1, <2>2, BecomesTail DEF m
<1>14. Known(k2)
    <2>1. SUFFICES ASSUME NEW l \in Covered(k.regs),
                          \A q \in k.unacked \ to : l \notin q.path
                   PROVE  k2.cache[l] # Unknown
        BY <1>6 DEF Known
    <2>2. CASE Concerns(m, l)
        BY <1>12, <2>1, <2>2, ValueAssumption DEF Concerns
    <2>3. CASE ~Concerns(m, l)
        <3>1. \A q \in to : l \notin q.path
            BY <1>7, <2>3 DEF Concerns
        <3>2. \A q \in k.unacked : l \notin q.path
            BY <2>1, <3>1
        <3>3. k.cache[l] # Unknown
            BY <2>1, <3>2 DEF Synced, Known
        <3>. QED
            BY <1>12, <2>1, <2>3, <3>3
    <2>. QED
        BY <2>2, <2>3
<1>15. Released(k2)
    BY <1>6 DEF Released
<1>. QED
    BY <1>9, <1>10, <1>11, <1>13, <1>14, <1>15 DEF Synced

\* The server serves a request: what it sends and which paths it serves then.
LEMMA ServedSynced ==
    ASSUME NEW k \in ClientState, NEW s \in Seq(Message), NEW paths, NEW tree,
           Synced(k, s, paths, tree), k.conn,
           NEW q \in k.out, \A p \in k.out : q.rank <= p.rank,
           NEW k2, k2 = [k EXCEPT !.out = @ \ {q}],
           NEW s2 \in Seq(Message), NEW paths2, NEW tree2,
           Told(s2),
           Answered(s2) = Answered(s) \cup (IF q.kind = "listen" THEN {q} ELSE {}),
           \A p \in paths : p \in paths2 \/ (q.kind = "unlisten" /\ p = q.path),
           q.kind = "listen" => q.path \in paths2,
           \A l \in Covered(k.regs) :
                (\A p \in Listens(k) \ {q} : l \notin p.path) =>
                    Becomes(k.cache[l], s2, l, tree2[l])
    PROVE  Synced(k2, s2, paths2, tree2)
<1>1. /\ k2.conn = k.conn /\ k2.cache = k.cache /\ k2.regs = k.regs
      /\ k2.unacked = k.unacked /\ k2.next = k.next /\ k2.flush = k.flush
      /\ k2.out = k.out \ {q}
    BY DEF ClientState
<1>2. Listens(k2) = Listens(k) \ {q} /\ Unlistens(k2) = Unlistens(k) \ {q}
    BY <1>1 DEF Listens, Unlistens
<1>3. Ranked(k2)
    BY <1>1 DEF Synced, Ranked
<1>4. Counted(k2, s2)
    <2>1. /\ k.unacked = Listens(k) \cup Answered(s)
          /\ Listens(k) \cap Answered(s) = {}
        BY CountedTold DEF Synced
    <2>2. q.kind = "listen" <=> q \in Listens(k)
        BY DEF Listens
    <2>3. CASE q \in Listens(k)
        <3>1. Answered(s2) = Answered(s) \cup {q}
            BY <2>2, <2>3
        <3>2. k2.unacked = Listens(k2) \cup Answered(s2)
            BY ZenonT(30), <1>1, <1>2, <2>1, <2>3, <3>1
        <3>3. Listens(k2) \cap Answered(s2) = {}
            BY <1>2, <2>1, <3>1
        <3>. QED
            BY <3>2, <3>3, CountedTold
    <2>4. CASE q \notin Listens(k)
        <3>1. Answered(s2) = Answered(s) /\ Listens(k2) = Listens(k)
            BY <1>2, <2>2, <2>4
        <3>. QED
            BY <1>1, <2>1, <3>1, CountedTold
    <2>. QED
        BY <2>3, <2>4
<1>5. Routed(k2, paths2)
    <2>1. SUFFICES ASSUME NEW p \in Outermost(k.regs)
                   PROVE  \/ \E r \in Listens(k2) :
                                /\ r.path = p
                                /\ \A u \in Unlistens(k2) :
                                        u.path = p => u.rank < r.rank
                          \/ p \in paths2 /\ \A u \in Unlistens(k2) : u.path # p
        BY <1>1 DEF Routed
    <2>2. CASE \E r \in Listens(k) :
                    /\ r.path = p
                    /\ \A u \in Unlistens(k) : u.path = p => u.rank < r.rank
        <3>1. PICK r \in Listens(k) :
                    /\ r.path = p
                    /\ \A u \in Unlistens(k) : u.path = p => u.rank < r.rank
            BY <2>2
        <3>2. CASE r = q
            <4>1. q.kind = "listen" /\ p \in paths2
                BY <3>1, <3>2 DEF Listens
            <4>2. \A u \in Unlistens(k) :
                    q.rank \in Nat /\ u.rank \in Nat /\ q.rank <= u.rank
                BY DEF Unlistens, ClientState, Request, Listen
            <4>3. ASSUME NEW u \in Unlistens(k2), u.path = p PROVE FALSE
                <5>1. u \in Unlistens(k)
                    BY <1>2
                <5>2. u.rank < q.rank
                    BY <3>1, <3>2, <4>3, <5>1
                <5>3. q.rank \in Nat /\ u.rank \in Nat /\ q.rank <= u.rank
                    BY <4>2, <5>1
                <5>. QED
                    BY <5>2, <5>3
            <4>. QED
                BY <4>1, <4>3
        <3>3. CASE r # q
            BY <1>2, <3>1, <3>3
        <3>. QED
            BY <3>2, <3>3
    <2>3. CASE p \in paths /\ \A u \in Unlistens(k) : u.path # p
        <3>1. ~(q.kind = "unlisten" /\ p = q.path)
            BY <2>3 DEF Unlistens
        <3>. QED
            BY <1>2, <2>3, <3>1
    <2>. QED
        BY <2>1, <2>2, <2>3 DEF Synced, Routed
<1>6. Current(k2, s2, tree2)
    BY <1>1, <1>2 DEF Current
<1>7. Known(k2) /\ Released(k2)
    BY <1>1 DEF Synced, Known, Released
<1>. QED
    BY <1>3, <1>4, <1>5, <1>6, <1>7 DEF Synced

\* What a device observes and does not listen for anew is served: the server will
\* tell it of every change.
LEMMA ServedPaths ==
    ASSUME NEW k \in ClientState, NEW s, NEW paths, NEW tree,
           Synced(k, s, paths, tree), k.conn, NEW l \in Covered(k.regs),
           \A q \in Listens(k) : l \notin q.path
    PROVE  l \in UNION paths
<1>1. PICK p \in Outermost(k.regs) : l \in p
    BY OutermostCovers DEF ClientState
<1>2. p \in paths
    BY <1>1 DEF Synced, Routed
<1>. QED
    BY <1>1, <1>2

\* A lost connection.
LEMMA CutOffSynced ==
    ASSUME NEW k \in ClientState, ~k.flush, NEW s, NEW paths, NEW tree,
           Synced(k, s, paths, tree)
    PROVE  Synced(CutOff(k), <<>>, {}, tree)
<1>. DEFINE k2 == CutOff(k)
<1>1. /\ ~k2.conn /\ k2.out = {} /\ k2.unacked = {} /\ k2.next = k.next
      /\ k2.flush = k.flush
    BY DEF CutOff, ClientState
<1>. HIDE DEF k2
<1>2. Told(<<>>) /\ Answered(<<>>) = {} /\ Listens(k2) = {}
    BY <1>1 DEF Told, Answered, Listens
<1>3. Ranked(k2) /\ Counted(k2, <<>>)
    BY <1>1, <1>2, CountedTold DEF Synced, Ranked
<1>. QED
    BY <1>1, <1>3 DEF Synced, Routed, Current, Known, Released, k2

\* A connection that is restored: every outermost path is listened to again.
LEMMA RestoredSynced ==
    ASSUME NEW k \in ClientState, ~k.conn, Numbered(k, <<>>),
           NEW paths, NEW tree, Synced(k, <<>>, paths, tree),
           NEW k2, k2 = [k EXCEPT !.conn = TRUE,
                                  !.out = RestoredListens(k) \cup RestoredPuts(k),
                                  !.unacked = RestoredListens(k)]
    PROVE  Synced(k2, <<>>, paths, tree)
<1>. DEFINE listens == RestoredListens(k)
            puts == RestoredPuts(k)
<1>1. /\ k2.conn /\ k2.regs = k.regs /\ k2.next = k.next /\ k2.flush = k.flush
      /\ k2.out = listens \cup puts /\ k2.unacked = listens
    BY DEF ClientState
<1>2. /\ \A q \in listens : q.kind = "listen" /\ q.rank = 0
      /\ \A p \in Outermost(k.regs) :
            [kind |-> "listen", rank |-> 0, path |-> p] \in listens
    BY DEF RestoredListens
<1>3. \A q \in puts : q.kind = "put" /\ \E w \in k.writes : q.rank = w.id
    BY DEF RestoredPuts
<1>. HIDE DEF listens, puts
<1>4. \A p \in Outermost(k.regs) : \E q \in listens : q.path = p
    <2>1. TAKE p \in Outermost(k.regs)
    <2>. DEFINE q == [kind |-> "listen", rank |-> 0, path |-> p]
    <2>2. q \in listens /\ q.path = p
        BY <1>2
    <2>. HIDE DEF q
    <2>. QED
        BY <2>2
<1>5. Listens(k2) = listens /\ Unlistens(k2) = {}
    BY <1>1, <1>2, <1>3 DEF Listens, Unlistens
<1>6. Ranked(k2)
    BY <1>1, <1>2, <1>3 DEF Synced, Ranked, Numbered
<1>7. Counted(k2, <<>>)
    <2>1. Told(<<>>) /\ Answered(<<>>) = {}
        BY DEF Told, Answered
    <2>. QED
        BY <1>1, <1>5, <2>1, CountedTold
<1>8. Routed(k2, paths)
    BY <1>1, <1>4, <1>5 DEF Routed
<1>9. \A l \in Covered(k2.regs) : \E q \in listens : l \in q.path
    <2>1. TAKE l \in Covered(k2.regs)
    <2>2. PICK p \in Outermost(k.regs) : l \in p
        BY <1>1, OutermostCovers DEF ClientState
    <2>. QED
        BY <1>4, <2>2
<1>10. Current(k2, <<>>, tree) /\ Known(k2)
    BY <1>1, <1>5, <1>9 DEF Current, Known
<1>11. Released(k2)
    BY <1>1 DEF Synced, Released
<1>. QED
    BY <1>6, <1>7, <1>8, <1>10, <1>11 DEF Synced

-----------------------------------------------------------------------------
(* Each action keeps the invariant. *)

\* A step of one client: its connection, its inbox and its state.
LEMMA OneSynced ==
    ASSUME Inv, SyncInv, NEW c \in Client,
           NEW k, client' = [client EXCEPT ![c] = k],
           NEW s, in' = [in EXCEPT ![c] = s],
           NEW paths, sub' = [sub EXCEPT ![c] = paths],
           data' = data, Synced(k, s, paths, data)
    PROVE  SyncInv'
<1>1. ASSUME NEW d \in Client
      PROVE  Synced(client'[d], in'[d], sub'[d], data')
    <2>1. CASE d = c
        BY <2>1 DEF Inv, TypeOK
    <2>2. CASE d # c
        <3>1. client'[d] = client[d] /\ in'[d] = in[d] /\ sub'[d] = sub[d]
            BY <2>2 DEF Inv, TypeOK
        <3>. QED
            BY <3>1 DEF SyncInv
    <2>. QED
        BY <2>1, <2>2
<1>. QED
    BY <1>1 DEF SyncInv

LEMMA OneSyncedOnly ==
    ASSUME Inv, SyncInv, NEW c \in Client,
           NEW k, client' = [client EXCEPT ![c] = k],
           UNCHANGED <<data, sub, in>>, Synced(k, in[c], sub[c], data)
    PROVE  SyncInv'
<1>1. in' = [in EXCEPT ![c] = in[c]] /\ sub' = [sub EXCEPT ![c] = sub[c]]
    BY DEF Inv, TypeOK
<1>. QED
    BY <1>1, OneSynced

LEMMA LocalSynced ==
    ASSUME Inv, SyncInv, NEW c \in Client
    PROVE  /\ client[c] \in ClientState /\ in[c] \in Seq(Message)
           /\ sub[c] \in SUBSET Path /\ data \in [Leaf -> Value]
           /\ Synced(client[c], in[c], sub[c], data)
           /\ Accounted(client[c], in[c]) /\ Numbered(client[c], in[c])
           /\ client[c].out # {} \/ in[c] # <<>> => client[c].conn
    BY DEF Inv, TypeOK, WritesInv, Numbered, SyncInv

LEMMA InitSync == Init => SyncInv
<1>. SUFFICES ASSUME Init PROVE SyncInv
    OBVIOUS
<1>1. /\ ClientInit.out = {} /\ ClientInit.unacked = {} /\ ClientInit.regs = {}
      /\ ClientInit.next = 1 /\ ~ClientInit.flush
    BY DEF ClientInit
<1>2. Told(<<>>) /\ Answered(<<>>) = {} /\ Listens(ClientInit) = {}
    BY <1>1 DEF Told, Answered, Listens
<1>3. Outermost(ClientInit.regs) = {} /\ Covered(ClientInit.regs) = {}
    BY <1>1 DEF Outermost, Covered
<1>4. Ranked(ClientInit) /\ Counted(ClientInit, <<>>)
    BY <1>1, <1>2, CountedTold DEF Ranked
<1>5. Synced(ClientInit, <<>>, {}, data)
    BY <1>1, <1>3, <1>4 DEF Synced, Routed, Current, Known, Released
<1>. QED
    BY <1>5 DEF Init, SyncInv

LEMMA ServeListenSync ==
    ASSUME Inv, SyncInv, NEW c \in Client, ServeListen(c) PROVE SyncInv'
<1>1. PICK q \in client[c].out :
        /\ q.kind = "listen"
        /\ \A p \in client[c].out : q.rank <= p.rank
        /\ sub' = [sub EXCEPT ![c] = @ \cup {q.path}]
        /\ in' = [in EXCEPT ![c] =
                    Append(@, [kind |-> "listen", to |-> q,
                               put |-> [l \in q.path |-> data[l]]])]
        /\ client' = [client EXCEPT ![c].out = @ \ {q}]
        /\ UNCHANGED <<data, drops>>
    BY DEF ServeListen, Served, Next1
<1>. DEFINE k == client[c]
            k2 == [k EXCEPT !.out = @ \ {q}]
            m == [kind |-> "listen", to |-> q, put |-> [l \in q.path |-> data[l]]]
            s == Append(in[c], m)
            paths == sub[c] \cup {q.path}
<1>2. /\ k \in ClientState /\ in[c] \in Seq(Message) /\ sub[c] \in SUBSET Path
      /\ Synced(k, in[c], sub[c], data) /\ k.conn /\ data \in [Leaf -> Value]
    BY LocalSynced
<1>3. q \in Listen
    BY <1>1, <1>2 DEF ClientState, Request, Listen
<1>4. m \in Message
    BY <1>3, PathAssumption DEF Inv, TypeOK, Message, Listen, Put
<1>5. /\ m.kind = "listen" /\ m.to = q /\ DOMAIN m.put = q.path
      /\ \A l \in q.path : m.put[l] = data[l]
    OBVIOUS
<1>6. client' = [client EXCEPT ![c] = k2]
    BY <1>1
<1>. HIDE DEF k, m
<1>7. s \in Seq(Message)
    BY <1>2, <1>4
<1>8. q \in Listens(k) /\ q \notin Answered(in[c]) /\ Told(in[c])
    <2>1. q \in Listens(k)
        BY <1>1 DEF Listens, k
    <2>. QED
        BY <1>2, <2>1, CountedTold DEF Synced
<1>9. Told(s) /\ Answered(s) = Answered(in[c]) \cup {q}
    BY <1>2, <1>4, <1>5, <1>8, AnsweredAppend
<1>10. ASSUME NEW l \in Covered(k.regs),
              \A p \in Listens(k) \ {q} : l \notin p.path
       PROVE  Becomes(k.cache[l], s, l, data[l])
    <2>1. CASE l \in q.path
        <3>1. Concerns(m, l) /\ m.put[l] = data[l]
            BY <1>5, <2>1 DEF Concerns
        <3>. QED
            BY <1>2, <1>4, <3>1, BecomesAppend
    <2>2. CASE l \notin q.path
        <3>1. ~Concerns(m, l)
            BY <1>5, <2>2 DEF Concerns
        <3>2. Becomes(k.cache[l], in[c], l, data[l])
            BY <1>2, <1>10, <2>2 DEF Synced, Current
        <3>. QED
            BY <1>2, <1>4, <3>1, <3>2, BecomesAppendOther
    <2>. QED
        BY <2>1, <2>2
<1>. HIDE DEF s
<1>11. Synced(k2, s, paths, data)
    <2>1. q \in k.out /\ \A p \in k.out : q.rank <= p.rank
        BY <1>1 DEF k
    <2>2. k2 = [k EXCEPT !.out = @ \ {q}]
        OBVIOUS
    <2>3. /\ \A p \in sub[c] : p \in paths \/ (q.kind = "unlisten" /\ p = q.path)
          /\ q.kind = "listen" => q.path \in paths
        OBVIOUS
    <2>4. Answered(s) = Answered(in[c]) \cup (IF q.kind = "listen" THEN {q} ELSE {})
        BY <1>1, <1>9
    <2>5. Synced(k, in[c], sub[c], data) /\ k.conn /\ Told(s)
        BY <1>2, <1>9
    <2>. HIDE DEF k2, paths
    <2>. QED
        BY <1>2, <1>7, <1>10, <2>1, <2>2, <2>3, <2>4, <2>5, ServedSynced
<1>12. in' = [in EXCEPT ![c] = s] /\ sub' = [sub EXCEPT ![c] = paths] /\ data' = data
    BY <1>1 DEF s, m
<1>. HIDE DEF k2, paths
<1>. QED
    BY <1>6, <1>11, <1>12, OneSynced

LEMMA ServeUnlistenSync ==
    ASSUME Inv, SyncInv, NEW c \in Client, ServeUnlisten(c) PROVE SyncInv'
<1>1. PICK q \in client[c].out :
        /\ q.kind = "unlisten"
        /\ \A p \in client[c].out : q.rank <= p.rank
        /\ sub' = [sub EXCEPT ![c] = @ \ {q.path}]
        /\ client' = [client EXCEPT ![c].out = @ \ {q}]
        /\ UNCHANGED <<data, in, drops>>
    BY DEF ServeUnlisten, Served, Next1
<1>. DEFINE k == client[c]
            k2 == [k EXCEPT !.out = @ \ {q}]
            paths == sub[c] \ {q.path}
<1>2. /\ k \in ClientState /\ in[c] \in Seq(Message) /\ sub[c] \in SUBSET Path
      /\ Synced(k, in[c], sub[c], data) /\ k.conn
    BY LocalSynced
<1>3. Told(in[c]) /\ Answered(in[c]) = Answered(in[c]) \cup {}
    BY <1>2, CountedTold DEF Synced
<1>4. \A l \in Covered(k.regs) :
            (\A p \in Listens(k) \ {q} : l \notin p.path) =>
                Becomes(k.cache[l], in[c], l, data[l])
    <2>1. Listens(k) \ {q} = Listens(k)
        BY <1>1 DEF Listens
    <2>. QED
        BY <1>2, <2>1 DEF Synced, Current
<1>5. client' = [client EXCEPT ![c] = k2]
    BY <1>1
<1>6. q \in k.out /\ \A p \in k.out : q.rank <= p.rank
    BY <1>1
<1>. HIDE DEF k
<1>7. Synced(k2, in[c], paths, data)
    <2>1. /\ Answered(in[c]) = Answered(in[c]) \cup
                                (IF q.kind = "listen" THEN {q} ELSE {})
          /\ \A p \in sub[c] : p \in paths \/ (q.kind = "unlisten" /\ p = q.path)
          /\ q.kind = "listen" => q.path \in paths
        BY <1>1
    <2>. HIDE DEF paths
    <2>. QED
        BY <1>2, <1>3, <1>4, <1>6, <2>1, ServedSynced
<1>8. in' = [in EXCEPT ![c] = in[c]] /\ sub' = [sub EXCEPT ![c] = paths] /\ data' = data
    BY <1>1 DEF Inv, TypeOK
<1>. HIDE DEF k2, paths
<1>. QED
    BY <1>5, <1>7, <1>8, OneSynced

LEMMA RejectPutSync ==
    ASSUME Inv, SyncInv, NEW c \in Client, RejectPut(c) PROVE SyncInv'
<1>1. PICK q \in client[c].out :
        /\ q.kind = "put"
        /\ \A p \in client[c].out : q.rank <= p.rank
        /\ in' = [in EXCEPT ![c] =
                    Append(@, [kind |-> "ack",
                               ack |-> [id |-> q.rank, ok |-> FALSE]])]
        /\ client' = [client EXCEPT ![c].out = @ \ {q}]
        /\ UNCHANGED <<data, sub, drops>>
    BY DEF RejectPut, Served, Next1
<1>. DEFINE k == client[c]
            k2 == [k EXCEPT !.out = @ \ {q}]
            m == [kind |-> "ack", ack |-> [id |-> q.rank, ok |-> FALSE]]
            s == Append(in[c], m)
<1>2. /\ k \in ClientState /\ in[c] \in Seq(Message) /\ sub[c] \in SUBSET Path
      /\ Synced(k, in[c], sub[c], data) /\ k.conn
    BY LocalSynced
<1>3. q.rank \in Nat
    BY <1>1, <1>2 DEF ClientState, Request, Listen
<1>4. m \in Message /\ m.kind = "ack"
    BY <1>3 DEF Message, Ack
<1>5. client' = [client EXCEPT ![c] = k2]
    BY <1>1
<1>6. q \in k.out /\ \A p \in k.out : q.rank <= p.rank
    BY <1>1
<1>. HIDE DEF k, m
<1>7. s \in Seq(Message)
    BY <1>2, <1>4
<1>8. Told(s) /\ Answered(s) = Answered(in[c])
    <2>1. Told(in[c])
        BY <1>2, CountedTold DEF Synced
    <2>. QED
        BY <1>2, <1>4, <2>1, AnsweredAppend
<1>9. ASSUME NEW l \in Covered(k.regs),
             \A p \in Listens(k) \ {q} : l \notin p.path
      PROVE  Becomes(k.cache[l], s, l, data[l])
    <2>1. Listens(k) \ {q} = Listens(k)
        BY <1>1 DEF Listens
    <2>2. Becomes(k.cache[l], in[c], l, data[l])
        BY <1>2, <1>9, <2>1 DEF Synced, Current
    <2>3. ~Concerns(m, l)
        BY <1>4 DEF Concerns
    <2>. QED
        BY <1>2, <1>4, <2>2, <2>3, BecomesAppendOther
<1>. HIDE DEF s
<1>10. Synced(k2, s, sub[c], data)
    <2>1. /\ Answered(s) = Answered(in[c]) \cup
                            (IF q.kind = "listen" THEN {q} ELSE {})
          /\ q.kind = "listen" => q.path \in sub[c]
        BY <1>1, <1>8
    <2>. QED
        BY <1>2, <1>6, <1>7, <1>8, <1>9, <2>1, ServedSynced
<1>11. in' = [in EXCEPT ![c] = s] /\ sub' = [sub EXCEPT ![c] = sub[c]] /\ data' = data
    BY <1>1 DEF Inv, TypeOK, s, m
<1>. HIDE DEF k2
<1>. QED
    BY <1>5, <1>10, <1>11, OneSynced

\* A write reaches every device that observes a leaf of it, in order.
LEMMA ServePutSync ==
    ASSUME Inv, SyncInv, NEW c \in Client, ServePut(c) PROVE SyncInv'
<1>1. PICK q \in client[c].out :
        /\ q.kind = "put"
        /\ \A p \in client[c].out : q.rank <= p.rank
        /\ data' = [l \in Leaf |-> IF l \in DOMAIN q.put
                                   THEN q.put[l] ELSE data[l]]
        /\ LET push(d) == IF Pushed(q.put, sub[d]) = {}
                          THEN in[d]
                          ELSE Append(in[d],
                                 [kind |-> "push",
                                  put |-> [l \in Pushed(q.put, sub[d]) |->
                                            q.put[l]]])
               ack == [kind |-> "ack", ack |-> [id |-> q.rank, ok |-> TRUE]]
           IN  in' = [d \in Client |-> IF d = c THEN Append(push(d), ack)
                                       ELSE push(d)]
        /\ client' = [client EXCEPT ![c].out = @ \ {q}]
        /\ UNCHANGED <<sub, drops>>
    BY DEF ServePut, Served, Next1
<1>. DEFINE m(d) == [kind |-> "push",
                     put |-> [l \in Pushed(q.put, sub[d]) |-> q.put[l]]]
            s(d) == IF Pushed(q.put, sub[d]) = {}
                    THEN in[d] ELSE Append(in[d], m(d))
            ack == [kind |-> "ack", ack |-> [id |-> q.rank, ok |-> TRUE]]
            k == [client[c] EXCEPT !.out = @ \ {q}]
<1>2. /\ in' = [d \in Client |-> IF d = c THEN Append(s(d), ack) ELSE s(d)]
      /\ client' = [client EXCEPT ![c] = k]
    BY <1>1
<1>3. /\ client[c] \in ClientState /\ client[c].conn
      /\ Synced(client[c], in[c], sub[c], data)
    BY LocalSynced
<1>4. q.rank \in Nat /\ q.put \in Put
    <2>1. q \in [kind : {"put"}, rank : Nat, put : Put]
        BY <1>1, <1>3 DEF ClientState, Request, Listen
    <2>. QED
        BY <2>1
<1>5. PICK S \in SUBSET Leaf : q.put \in [S -> Value]
    BY <1>4 DEF Put
<1>6. ack \in Message /\ ack.kind = "ack"
    BY <1>4 DEF Message, Ack
<1>7. ASSUME NEW d \in Client
      PROVE  /\ s(d) \in Seq(Message) /\ Told(s(d))
             /\ Answered(s(d)) = Answered(in[d])
             /\ client[d].conn =>
                    \A l \in Covered(client[d].regs) :
                        (\A p \in Listens(client[d]) : l \notin p.path) =>
                            Becomes(client[d].cache[l], s(d), l, data'[l])
    <2>1. /\ client[d] \in ClientState /\ in[d] \in Seq(Message)
          /\ sub[d] \in SUBSET Path
          /\ Synced(client[d], in[d], sub[d], data)
        BY LocalSynced
    <2>2. Told(in[d])
        BY <2>1, CountedTold DEF Synced
    <2>3. \A l \in DOMAIN q.put : l \in Leaf /\ data'[l] = q.put[l]
        BY <1>1, <1>5
    <2>4. \A l \in Leaf : l \notin DOMAIN q.put => data'[l] = data[l]
        BY <1>1
    <2>5. \A l \in Covered(client[d].regs) : l \in Leaf
        BY <2>1, OutermostCovers, OutermostCovered DEF ClientState
    <2>6. \A l : l \in Pushed(q.put, sub[d]) <=>
                    l \in DOMAIN q.put /\ l \in UNION sub[d]
        BY DEF Pushed
    <2>7. CASE Pushed(q.put, sub[d]) = {}
        <3>1. s(d) = in[d]
            BY <2>7
        <3>. HIDE DEF s
        <3>2. ASSUME client[d].conn, NEW l \in Covered(client[d].regs),
                     \A p \in Listens(client[d]) : l \notin p.path
              PROVE  Becomes(client[d].cache[l], in[d], l, data'[l])
            <4>1. l \in UNION sub[d]
                BY <2>1, <3>2, ServedPaths
            <4>2. data'[l] = data[l]
                BY <2>4, <2>5, <2>6, <2>7, <4>1
            <4>. QED
                BY <2>1, <3>2, <4>2 DEF Synced, Current
        <3>. QED
            BY <2>1, <2>2, <3>1, <3>2
    <2>8. CASE Pushed(q.put, sub[d]) # {}
        <3>1. s(d) = Append(in[d], m(d))
            BY <2>8
        <3>2. m(d) \in Message
            <4>1. Pushed(q.put, sub[d]) \in SUBSET S
                BY <1>5 DEF Pushed
            <4>2. [l \in Pushed(q.put, sub[d]) |-> q.put[l]] \in Put
                BY <1>5, <4>1 DEF Put
            <4>. QED
                BY <4>2 DEF Message
        <3>3. /\ m(d).kind = "push" /\ DOMAIN m(d).put = Pushed(q.put, sub[d])
              /\ \A l \in Pushed(q.put, sub[d]) : m(d).put[l] = q.put[l]
            OBVIOUS
        <3>. DEFINE e == m(d)
        <3>4. /\ e \in Message /\ e.kind = "push"
              /\ DOMAIN e.put = Pushed(q.put, sub[d])
              /\ \A l \in Pushed(q.put, sub[d]) : e.put[l] = q.put[l]
              /\ s(d) = Append(in[d], e)
            BY <3>1, <3>2, <3>3
        <3>. HIDE DEF e, m, s
        <3>5. Append(in[d], e) \in Seq(Message)
            BY <2>1, <3>4
        <3>6. Told(Append(in[d], e)) /\ Answered(Append(in[d], e)) = Answered(in[d])
            BY <2>1, <2>2, <3>4, AnsweredAppend
        <3>7. ASSUME client[d].conn, NEW l \in Covered(client[d].regs),
                     \A p \in Listens(client[d]) : l \notin p.path
              PROVE  Becomes(client[d].cache[l], Append(in[d], e), l, data'[l])
            <4>1. l \in UNION sub[d]
                BY <2>1, <3>7, ServedPaths
            <4>2. CASE l \in DOMAIN q.put
                <5>1. Concerns(e, l) /\ e.put[l] = data'[l]
                    BY <2>3, <2>6, <3>4, <4>1, <4>2 DEF Concerns
                <5>2. Becomes(client[d].cache[l], Append(in[d], e), l, e.put[l])
                    BY <2>1, <3>4, <5>1, BecomesAppend
                <5>. QED
                    BY <5>1, <5>2
            <4>3. CASE l \notin DOMAIN q.put
                <5>1. ~Concerns(e, l) /\ data'[l] = data[l]
                    BY <2>4, <2>5, <2>6, <3>4, <4>3 DEF Concerns
                <5>2. Becomes(client[d].cache[l], in[d], l, data[l])
                    BY <2>1, <3>7 DEF Synced, Current
                <5>. QED
                    BY <2>1, <3>4, <5>1, <5>2, BecomesAppendOther
            <4>. QED
                BY <4>2, <4>3
        <3>. QED
            BY <3>4, <3>5, <3>6, <3>7
    <2>. QED
        BY <2>7, <2>8
<1>8. Synced(k, Append(s(c), ack), sub[c], data')
    <2>. DEFINE t == s(c)
                tree == data'
                k0 == client[c]
    <2>1. /\ t \in Seq(Message) /\ Told(t) /\ Answered(t) = Answered(in[c])
          /\ \A l \in Covered(k0.regs) :
                (\A p \in Listens(k0) : l \notin p.path) =>
                    Becomes(k0.cache[l], t, l, tree[l])
        BY <1>3, <1>7
    <2>2. in[c] \in Seq(Message)
        BY LocalSynced
    <2>. HIDE DEF s, ack, t, tree
    <2>3. Append(t, ack) \in Seq(Message)
        BY <1>6, <2>1
    <2>4. Told(Append(t, ack)) /\ Answered(Append(t, ack)) = Answered(in[c])
        BY <1>6, <2>1, AnsweredAppend
    <2>5. ASSUME NEW l \in Covered(k0.regs),
                 \A p \in Listens(k0) \ {q} : l \notin p.path
          PROVE  Becomes(k0.cache[l], Append(t, ack), l, tree[l])
        <3>1. Listens(k0) \ {q} = Listens(k0)
            BY <1>1 DEF Listens
        <3>2. Becomes(k0.cache[l], t, l, tree[l])
            BY <2>1, <2>5, <3>1
        <3>3. ~Concerns(ack, l)
            BY <1>6 DEF Concerns
        <3>. QED
            BY <1>6, <2>1, <3>2, <3>3, BecomesAppendOther
    <2>6. /\ Answered(Append(t, ack)) = Answered(in[c]) \cup
                                    (IF q.kind = "listen" THEN {q} ELSE {})
          /\ q.kind = "listen" => q.path \in sub[c]
        BY <1>1, <2>4
    <2>7. /\ q \in k0.out /\ \A p \in k0.out : q.rank <= p.rank
          /\ k0 \in ClientState /\ k0.conn /\ Synced(k0, in[c], sub[c], data)
          /\ k = [k0 EXCEPT !.out = @ \ {q}]
        BY <1>1, <1>3
    <2>. HIDE DEF k0, k
    <2>8. Synced(k, Append(t, ack), sub[c], tree)
        BY <2>2, <2>3, <2>4, <2>5, <2>6, <2>7, ServedSynced
    <2>. QED
        BY <2>8 DEF t, tree
<1>. HIDE DEF s, ack, k
<1>9. ASSUME NEW d \in Client
      PROVE  Synced(client'[d], in'[d], sub'[d], data')
    <2>1. CASE d = c
        <3>1. client'[d] = k /\ in'[d] = Append(s(c), ack) /\ sub'[d] = sub[c]
            BY <1>1, <1>2, <2>1 DEF Inv, TypeOK
        <3>. QED
            BY <1>8, <3>1
    <2>2. CASE d # c
        <3>1. client'[d] = client[d] /\ in'[d] = s(d) /\ sub'[d] = sub[d]
            BY <1>1, <1>2, <2>2 DEF Inv, TypeOK
        <3>. DEFINE t == s(d)
                    tree == data'
        <3>2. /\ Told(t) /\ Answered(t) = Answered(in[d])
              /\ client[d].conn =>
                    \A l \in Covered(client[d].regs) :
                        (\A p \in Listens(client[d]) : l \notin p.path) =>
                            Becomes(client[d].cache[l], t, l, tree[l])
            BY <1>7
        <3>. HIDE DEF t, tree
        <3>3. Synced(client[d], in[d], sub[d], data)
            BY LocalSynced
        <3>4. Counted(client[d], t)
            BY <3>2, <3>3, CountedTold DEF Synced
        <3>5. Current(client[d], t, tree)
            BY <3>2 DEF Current
        <3>6. Synced(client[d], t, sub[d], tree)
            BY <3>3, <3>4, <3>5 DEF Synced
        <3>. QED
            BY <3>1, <3>6 DEF t, tree
    <2>. QED
        BY <2>1, <2>2
<1>. QED
    BY <1>9 DEF SyncInv

LEMMA ReceivePushSync ==
    ASSUME Inv, SyncInv, NEW c \in Client, ReceivePush(c) PROVE SyncInv'
<1>. DEFINE s == in[c]
            k == Merge(client[c], Head(s).put)
<1>1. /\ s # <<>> /\ Head(s).kind = "push" /\ in' = [in EXCEPT ![c] = Tail(s)]
      /\ client' = [client EXCEPT ![c] = k] /\ ~client[c].flush
      /\ UNCHANGED <<data, sub, drops>>
    BY DEF ReceivePush, Arrived
<1>2. /\ client[c] \in ClientState /\ s \in Seq(Message) /\ client[c].conn
      /\ Synced(client[c], s, sub[c], data) /\ data \in [Leaf -> Value]
    BY <1>1, LocalSynced
<1>3. Head(s) \in Message
    BY <1>1, <1>2
<1>4. Head(s).put \in Put
    BY <1>1, <1>3 DEF Message
<1>. HIDE DEF s
<1>5. k \in ClientState /\ k = Merge(client[c], Head(s).put)
    BY <1>2, <1>4, MergeType
<1>6. k.flush = client[c].flush
    <2>. DEFINE put == Head(s).put
    <2>. HIDE DEF put
    <2>1. Merge(client[c], put).flush = client[c].flush
        BY <1>2, <1>4, MergeFlush DEF put
    <2>. QED
        BY <2>1 DEF put
<1>. HIDE DEF k
<1>7. Alike([k EXCEPT !.unacked = @ \ (IF Head(s).kind = "listen"
                                       THEN {Head(s).to} ELSE {})], k)
    BY <1>1, <1>5 DEF Alike, ClientState
<1>8. Synced(k, Tail(s), sub[c], data)
    BY <1>1, <1>2, <1>5, <1>6, <1>7, MergeSynced
<1>9. sub' = [sub EXCEPT ![c] = sub[c]]
    BY <1>1 DEF Inv, TypeOK
<1>. QED
    BY <1>1, <1>8, <1>9, OneSynced

LEMMA ReceiveListenSync ==
    ASSUME Inv, SyncInv, NEW c \in Client, ReceiveListen(c) PROVE SyncInv'
<1>. DEFINE s == in[c]
            m == Head(s)
            k == Merge(client[c], m.put)
            unacked == k.unacked \ {m.to}
            flush == k.unacked \ {m.to} = {} /\ k.held # {}
            k2 == [k EXCEPT !.unacked = unacked, !.flush = flush]
<1>1. /\ s # <<>> /\ m.kind = "listen" /\ in' = [in EXCEPT ![c] = Tail(s)]
      /\ client' = [client EXCEPT ![c] = k2] /\ ~client[c].flush
      /\ UNCHANGED <<data, sub, drops>>
    BY DEF ReceiveListen, Arrived
<1>2. /\ client[c] \in ClientState /\ s \in Seq(Message) /\ client[c].conn
      /\ Synced(client[c], s, sub[c], data) /\ data \in [Leaf -> Value]
    BY <1>1, LocalSynced
<1>3. m \in Message
    BY <1>1, <1>2
<1>4. m.put \in Put
    BY <1>1, <1>3 DEF Message
<1>. HIDE DEF s, m
<1>5. k \in ClientState /\ k = Merge(client[c], m.put)
    BY <1>2, <1>4, MergeType
<1>. HIDE DEF k
<1>6. /\ k2.flush => k2.unacked = {}
      /\ Alike([k EXCEPT !.unacked = @ \ {m.to}], k2)
    BY <1>5 DEF Alike, ClientState
<1>. HIDE DEF k2
<1>7. Alike([k EXCEPT !.unacked = @ \ (IF m.kind = "listen"
                                       THEN {m.to} ELSE {})], k2)
    BY <1>1, <1>6
<1>8. Synced(k2, Tail(s), sub[c], data)
    BY <1>1, <1>2, <1>5, <1>6, <1>7, MergeSynced DEF m
<1>9. sub' = [sub EXCEPT ![c] = sub[c]]
    BY <1>1 DEF Inv, TypeOK
<1>. QED
    BY <1>1, <1>8, <1>9, OneSynced

\* An answer taken off the inbox.
LEMMA TailSynced ==
    ASSUME NEW k, NEW s \in Seq(Message), s # <<>>, Head(s).kind = "ack",
           NEW paths, NEW tree, Synced(k, s, paths, tree)
    PROVE  Synced(k, Tail(s), paths, tree)
<1>1. Told(Tail(s)) /\ Answered(Tail(s)) = Answered(s)
    BY AnsweredTail, CountedTold DEF Synced
<1>2. Counted(k, Tail(s))
    BY <1>1, CountedTold DEF Synced
<1>3. Current(k, Tail(s), tree)
    <2>1. SUFFICES ASSUME k.conn, NEW l \in Covered(k.regs),
                          \A q \in Listens(k) : l \notin q.path
                   PROVE  Becomes(k.cache[l], Tail(s), l, tree[l])
        BY DEF Current
    <2>2. Becomes(k.cache[l], s, l, tree[l]) /\ ~Concerns(Head(s), l)
        BY <2>1 DEF Synced, Current, Concerns
    <2>. QED
        BY <2>2, BecomesTail
<1>. QED
    BY <1>2, <1>3 DEF Synced

LEMMA ReceiveAckSync ==
    ASSUME Inv, SyncInv, NEW c \in Client, ReceiveAck(c) PROVE SyncInv'
<1>. DEFINE s == in[c]
            ack == Head(s).ack
            held == [client[c] EXCEPT !.held = @ \cup {ack}]
            k == IF Holds(client[c]) THEN held ELSE Answer(client[c], ack)
<1>1. /\ s # <<>> /\ Head(s).kind = "ack" /\ in' = [in EXCEPT ![c] = Tail(s)]
      /\ client' = [client EXCEPT ![c] = k]
      /\ UNCHANGED <<data, sub, drops>>
    BY DEF ReceiveAck, Arrived
<1>2. /\ client[c] \in ClientState /\ s \in Seq(Message)
      /\ Synced(client[c], s, sub[c], data)
    BY LocalSynced
<1>3. ack \in Ack
    <2>1. Head(s) \in Message
        BY <1>1, <1>2
    <2>. QED
        BY <1>1, <2>1 DEF Message
<1>. HIDE DEF s, ack
<1>4. Alike(client[c], k) /\ k.flush = client[c].flush
    <2>1. Alike(client[c], held) /\ held.flush = client[c].flush
        BY <1>2 DEF Alike, ClientState
    <2>. QED
        BY <1>2, <1>3, <2>1, AnswerAlike
<1>. HIDE DEF k
<1>5. Synced(k, Tail(s), sub[c], data)
    BY <1>1, <1>2, <1>4, TailSynced, AlikeSynced
<1>6. sub' = [sub EXCEPT ![c] = sub[c]]
    BY <1>1 DEF Inv, TypeOK
<1>. QED
    BY <1>1, <1>5, <1>6, OneSynced

\* What acting on an answer that was held back leaves alone.
LEMMA AckedAlike ==
    ASSUME NEW k \in ClientState, NEW ack \in k.held
    PROVE  /\ Alike(k, Acked(k, ack)) /\ Acked(k, ack).writes \subseteq k.writes
<1>. DEFINE k1 == Answer(k, ack)
            k2 == Acked(k, ack)
            flush == k.held # {ack}
<1>1. ack \in Ack
    BY DEF ClientState
<1>2. Alike(k, k1) /\ k1.writes \subseteq k.writes
    BY <1>1, AnswerAlike
<1>3. k2 = [k1 EXCEPT !.held = @ \ {ack}, !.flush = flush]
    BY DEF Acked
<1>. HIDE DEF flush, k2
<1>4. Alike(k1, k2) /\ k2.writes = k1.writes
    <2>1. \E w, e : k1 = [Raise([k EXCEPT !.writes = w],
                                Changed(k, [k EXCEPT !.writes = w]))
                            EXCEPT !.main = e]
        BY DEF Answer
    <2>. QED
        BY <1>3, <2>1 DEF Alike, Raise, ClientState
<1>. QED
    BY <1>2, <1>4 DEF Alike, k2

LEMMA AckPutsSync ==
    ASSUME Inv, SyncInv, NEW c \in Client, AckPuts(c) PROVE SyncInv'
<1>1. PICK ack \in client[c].held :
        /\ client' = [client EXCEPT ![c] = Acked(@, ack)]
        /\ UNCHANGED <<data, sub, in, drops>>
    BY DEF AckPuts
<1>2. client[c].flush
    BY DEF AckPuts
<1>3. client[c] \in ClientState /\ Synced(client[c], in[c], sub[c], data)
    BY LocalSynced
<1>4. Synced(Acked(client[c], ack), in[c], sub[c], data)
    BY <1>2, <1>3, AckedAlike, AlikeSynced
<1>. QED
    BY <1>1, <1>4, OneSyncedOnly

LEMMA DisconnectSync ==
    ASSUME Inv, SyncInv, NEW c \in Client, Disconnect(c) PROVE SyncInv'
<1>1. /\ sub' = [sub EXCEPT ![c] = {}] /\ in' = [in EXCEPT ![c] = <<>>]
      /\ client' = [client EXCEPT ![c] = CutOff(client[c])]
      /\ ~client[c].flush /\ UNCHANGED data
    BY DEF Disconnect, DropsInbox
<1>2. Synced(CutOff(client[c]), <<>>, {}, data)
    BY <1>1, LocalSynced, CutOffSynced
<1>. QED
    BY <1>1, <1>2, OneSynced

LEMMA ReconnectSync ==
    ASSUME Inv, SyncInv, NEW c \in Client, Reconnect(c) PROVE SyncInv'
<1>. DEFINE k == client[c]
            k2 == [k EXCEPT !.conn = TRUE,
                            !.out = RestoredListens(k) \cup RestoredPuts(k),
                            !.unacked = RestoredListens(k)]
<1>1. /\ ~k.conn /\ client' = [client EXCEPT ![c] = k2]
      /\ UNCHANGED <<data, sub, in, drops>>
    BY DEF Reconnect
<1>2. /\ k \in ClientState /\ in[c] = <<>> /\ Numbered(k, <<>>)
      /\ Synced(k, <<>>, sub[c], data)
    BY <1>1, LocalSynced DEF Numbered
<1>. HIDE DEF k
<1>3. Synced(k2, <<>>, sub[c], data)
    BY <1>1, <1>2, RestoredSynced
<1>. HIDE DEF k2
<1>. QED
    BY <1>1, <1>2, <1>3, OneSyncedOnly

LEMMA CallObserveSync ==
    ASSUME Inv, SyncInv, NEW c \in Client, CallObserve(c) PROVE SyncInv'
<1>1. PICK path \in Path, single \in BOOLEAN, tag \in Tag :
        client' = [client EXCEPT ![c] = Observe(client[c], path, single, tag)]
    BY DEF CallObserve
<1>2. UNCHANGED <<data, sub, in>> /\ ~client[c].flush
    BY DEF CallObserve, Idle
<1>3. Synced(Observe(client[c], path, single, tag), in[c], sub[c], data)
    BY <1>2, LocalSynced, ObserveSynced
<1>. QED
    BY <1>1, <1>2, <1>3, OneSyncedOnly

LEMMA CallSetValueSync ==
    ASSUME Inv, SyncInv, NEW c \in Client, CallSetValue(c) PROVE SyncInv'
<1>1. PICK path \in Path, tag \in Tag : \E put \in [path -> Value] :
        client' = [client EXCEPT ![c] = SetValue(client[c], put, tag)]
    BY DEF CallSetValue
<1>2. PICK put \in [path -> Value] :
        client' = [client EXCEPT ![c] = SetValue(client[c], put, tag)]
    BY <1>1
<1>3. UNCHANGED <<data, sub, in>>
    BY DEF CallSetValue
<1>4. put \in Put
    BY PathAssumption DEF Put
<1>5. Synced(SetValue(client[c], put, tag), in[c], sub[c], data)
    BY <1>4, LocalSynced, SetValueSynced
<1>. QED
    BY <1>2, <1>3, <1>5, OneSyncedOnly

LEMMA RunValueSync ==
    ASSUME Inv, SyncInv, NEW c \in Client, RunValue(c) PROVE SyncInv'
<1>1. PICK r \in Ready(client[c]) :
        client' = [client EXCEPT ![c] = IF Stale(client[c], r)
                                        THEN TakeValue(client[c], r)
                                        ELSE Begin(client[c], r)]
    BY DEF RunValue
<1>2. UNCHANGED <<data, sub, in>> /\ ~client[c].flush
    BY DEF RunValue, Idle
<1>. DEFINE k == TakeValue(client[c], r)
            k2 == Unobserve(k, r)
<1>3. client[c] \in ClientState /\ Synced(client[c], in[c], sub[c], data)
    BY LocalSynced
<1>4. k \in ClientState
    BY <1>3, TakeValueType
<1>5. Alike(client[c], k) /\ k.flush = client[c].flush
    BY <1>3, TakeValueAlike
<1>6. client' = [client EXCEPT ![c] = k] \/ client' = [client EXCEPT ![c] = k2]
    BY <1>1 DEF Begin
<1>. HIDE DEF k
<1>7. Synced(k, in[c], sub[c], data)
    BY <1>3, <1>5, AlikeSynced
<1>8. Synced(k2, in[c], sub[c], data)
    BY <1>2, <1>4, <1>5, <1>7, UnobserveSynced
<1>. QED
    BY <1>2, <1>6, <1>7, <1>8, OneSyncedOnly

LEMMA RunDoneSync ==
    ASSUME Inv, SyncInv, NEW c \in Client, RunDone(c) PROVE SyncInv'
<1>1. /\ client' = [client EXCEPT ![c] = TakeDone(client[c])]
      /\ UNCHANGED <<data, sub, in, drops>>
    BY DEF RunDone
<1>2. Synced(TakeDone(client[c]), in[c], sub[c], data)
    BY LocalSynced, TakeDoneAlike, AlikeSynced
<1>. QED
    BY <1>1, <1>2, OneSyncedOnly

LEMMA NextSync ==
    ASSUME Inv, SyncInv, [Next]_vars
    PROVE  SyncInv'
<1>1. CASE Next
    <2>1. PICK c \in Client :
            \/ ServeListen(c) \/ ServeUnlisten(c) \/ ServePut(c) \/ RejectPut(c)
            \/ ReceivePush(c) \/ ReceiveListen(c) \/ ReceiveAck(c) \/ AckPuts(c)
            \/ Disconnect(c) \/ Reconnect(c)
            \/ CallObserve(c) \/ CallSetValue(c) \/ RunValue(c) \/ RunDone(c)
        BY <1>1 DEF Next
    <2>. QED
        BY <2>1, ServeListenSync, ServeUnlistenSync, ServePutSync, RejectPutSync,
           ReceivePushSync, ReceiveListenSync, ReceiveAckSync, AckPutsSync,
           DisconnectSync, ReconnectSync, CallObserveSync, CallSetValueSync,
           RunValueSync, RunDoneSync
<1>2. CASE UNCHANGED vars
    BY <1>2 DEF vars, SyncInv
<1>. QED
    BY <1>1, <1>2

\* Every client stays in step with the server, whatever it calls and whenever its
\* connection is lost.
THEOREM Synchronized == Spec => [](Inv /\ SyncInv)
<1>1. Init => Inv /\ SyncInv
    BY InitInv, InitSync
<1>2. Inv /\ SyncInv /\ [Next]_vars => (Inv /\ SyncInv)'
    BY NextInv, NextSync
<1>. QED
    BY <1>1, <1>2, PTL DEF Spec

\* FPersistentConnection counts its listens without an answer exactly: the count
\* never goes negative, which it asserts, and never stays above the listens that
\* are out, which would hold every completion back for good.
THEOREM ListensAreCounted == Spec => []UnackedExact
<1>1. SyncInv => UnackedExact
    BY DEF SyncInv, Synced, Counted, UnackedExact, Listens, Answered
<1>. QED
    BY <1>1, Synchronized, PTL

\* A connected client never misses a change of what it observes, whichever parent
\* and child paths it observes and drops and whenever it has been reconnected.
THEOREM NoUpdateIsMissed == Spec => []NoMissedUpdate
<1>1. ASSUME Inv, SyncInv PROVE NoMissedUpdate
    <2>1. SUFFICES ASSUME NEW c \in Client, NEW l \in Covered(client[c].regs),
                          client[c].conn,
                          \A q \in Listens(client[c]) : l \notin q.path
                   PROVE  l \in UNION sub[c] /\ Latest(c, l) = data[l]
        BY DEF NoMissedUpdate, Listens
    <2>2. /\ client[c] \in ClientState /\ in[c] \in Seq(Message)
          /\ Synced(client[c], in[c], sub[c], data)
        BY <1>1, LocalSynced
    <2>3. l \in UNION sub[c]
        BY <2>1, <2>2, ServedPaths
    <2>. DEFINE s == in[c]
                v == client[c].cache[l]
                on == {i \in DOMAIN s : s[i].kind # "ack" /\ l \in DOMAIN s[i].put}
    <2>4. Becomes(v, s, l, data[l])
        BY <2>1, <2>2 DEF Synced, Current
    <2>5. Latest(c, l) = IF on = {} THEN v
                         ELSE s[CHOOSE i \in on : \A j \in on : j <= i].put[l]
        BY DEF Latest
    <2>6. on = {i \in DOMAIN s : Concerns(s[i], l)}
        BY DEF Concerns
    <2>7. \A i \in DOMAIN s : i \in Nat
        BY <2>2
    <2>. HIDE DEF s, v, on
    <2>8. CASE v = data[l] /\ \A i \in DOMAIN s : ~Concerns(s[i], l)
        BY <2>3, <2>5, <2>6, <2>8
    <2>9. CASE \E i \in DOMAIN s :
                /\ Concerns(s[i], l) /\ s[i].put[l] = data[l]
                /\ \A j \in DOMAIN s : Concerns(s[j], l) => j <= i
        <3>1. PICK i \in on : s[i].put[l] = data[l] /\ \A j \in on : j <= i
            BY <2>6, <2>9
        <3>. DEFINE top == CHOOSE n \in on : \A j \in on : j <= n
        <3>2. top \in on /\ \A j \in on : j <= top
            BY <3>1
        <3>. HIDE DEF top
        <3>3. top = i
            <4>1. top <= i /\ i <= top
                BY <3>1, <3>2
            <4>2. top \in Nat /\ i \in Nat
                BY <2>6, <2>7, <3>1, <3>2
            <4>. QED
                BY <4>1, <4>2
        <3>4. Latest(c, l) = s[top].put[l]
            BY <2>5, <3>1 DEF top
        <3>. QED
            BY <2>3, <3>1, <3>3, <3>4
    <2>. QED
        BY <2>4, <2>8, <2>9 DEF Becomes
<1>. QED
    BY <1>1, Synchronized, PTL

-----------------------------------------------------------------------------
(* What has been seen whole stays whole. *)

\* What a client sees of a leaf is known when a pending write covers it or the
\* cache has it.
LEMMA SeesKnown ==
    ASSUME NEW k \in ClientState, NEW l \in Leaf
    PROVE  Sees(k)[l] # Unknown <=>
                Top(k.writes, l) # {} \/ k.cache[l] # Unknown
<1>1. ASSUME Top(k.writes, l) # {}
      PROVE  (CHOOSE w \in Top(k.writes, l) : TRUE).put[l] \in Value
    <2>1. PICK w \in Top(k.writes, l) : w = CHOOSE v \in Top(k.writes, l) : TRUE
        BY <1>1
    <2>2. w \in Write /\ l \in DOMAIN w.put
        BY <2>1 DEF Top, ClientState
    <2>3. PICK S \in SUBSET Leaf : w.put \in [S -> Value]
        BY <2>2 DEF Write, Put
    <2>. QED
        BY <2>1, <2>2, <2>3
<1>. QED
    BY <1>1, ValueAssumption DEF Sees, View

\* What k sees of the leaves it observes, k2 still sees of them.
Stays(k, k2) ==
    \A l \in Covered(k.regs) \cap Covered(k2.regs) :
        Sees(k)[l] # Unknown => Sees(k2)[l] # Unknown

LEMMA CoveredLeaf ==
    ASSUME NEW k \in ClientState, NEW l \in Covered(k.regs)
    PROVE  l \in Leaf
    BY OutermostCovers, OutermostCovered DEF ClientState

\* A step that leaves the writes and keeps or fills what is observed in the cache.
LEMMA CacheStays ==
    ASSUME NEW k \in ClientState, NEW k2 \in ClientState, k2.writes = k.writes,
           \A l \in Covered(k.regs) \cap Covered(k2.regs) :
                k.cache[l] # Unknown => k2.cache[l] # Unknown
    PROVE  Stays(k, k2)
    BY SeesKnown, CoveredLeaf DEF Stays

LEMMA RelistenStays ==
    ASSUME NEW k \in ClientState, NEW regs \in SUBSET Reg
    PROVE  Stays(k, Relisten(k, regs))
<1>. DEFINE k2 == Relisten(k, regs)
<1>1. k2 \in ClientState
    BY RelistenType
<1>2. /\ k2.writes = k.writes /\ k2.regs = regs
      /\ \A l \in Leaf : k2.cache[l] = IF l \in Covered(regs)
                                       THEN k.cache[l] ELSE Unknown
    BY DEF Relisten, ClientState
<1>. HIDE DEF k2
<1>. QED
    BY <1>1, <1>2, CacheStays, CoveredLeaf DEF k2

\* Steps that only raise events or take them.
LEMMA AlikeStays ==
    ASSUME NEW k \in ClientState, NEW k1 \in ClientState, NEW k2 \in ClientState,
           Stays(k, k1), Alike(k1, k2), k2.writes = k1.writes
    PROVE  Stays(k, k2)
<1>1. \A l : Sees(k2)[l] = Sees(k1)[l] /\ Covered(k2.regs) = Covered(k1.regs)
    BY DEF Alike, Sees, View
<1>. QED
    BY <1>1 DEF Stays

LEMMA ObserveStays ==
    ASSUME NEW k \in ClientState, NEW path \in Path, NEW single \in BOOLEAN,
           NEW tag \in Tag
    PROVE  Stays(k, Observe(k, path, single, tag))
<1>. DEFINE r == [id |-> Fresh(k), path |-> path, single |-> single, tag |-> tag]
            k1 == Relisten(k, k.regs \cup {r})
            k2 == Observe(k, path, single, tag)
<1>1. k.regs \cup {r} \in SUBSET Reg
    BY FreshType DEF Reg, ClientState
<1>2. k1 \in ClientState /\ Stays(k, k1)
    BY <1>1, RelistenType, RelistenStays
<1>3. PICK todo : k2 = Raise(k1, todo)
    BY DEF Observe
<1>4. k2 \in ClientState
    BY ObserveType
<1>. HIDE DEF k1, k2
<1>5. Alike(k1, k2) /\ k2.writes = k1.writes
    BY <1>2, <1>3, RaiseAlike
<1>6. Stays(k, k2)
    BY <1>2, <1>4, <1>5, AlikeStays
<1>. QED
    BY <1>6 DEF k2

LEMMA UnobserveStays ==
    ASSUME NEW k \in ClientState, NEW r
    PROVE  Stays(k, Unobserve(k, r))
<1>1. k.regs \ {r} \in SUBSET Reg
    BY DEF ClientState
<1>. QED
    BY <1>1, RelistenStays DEF Unobserve

\* A new write has the highest id and shows at once.
LEMMA SetValueStays ==
    ASSUME NEW k \in ClientState, NEW put \in Put, NEW tag \in Tag,
           \A v \in k.writes : v.id < k.next
    PROVE  Stays(k, SetValue(k, put, tag))
<1>. DEFINE w == [id |-> Fresh(k), put |-> put, tag |-> tag]
            k2 == SetValue(k, put, tag)
<1>1. k2 \in ClientState /\ k2.writes = k.writes \cup {w}
    <2>1. k2 \in ClientState
        BY SetValueType
    <2>2. k2.writes = k.writes \cup {w}
        BY DEF SetValue, Overwrites, Raise, ClientState
    <2>. QED
        BY <2>1, <2>2
<1>2. k2.cache = k.cache /\ k2.regs = k.regs
    BY DEF SetValue, Overwrites, Raise, ClientState
<1>3. w.id = Fresh(k) /\ Fresh(k) \in Nat /\ \A v \in k.writes : v.id \in Nat /\ v.id < w.id
    BY FreshType DEF ClientState, Write
<1>. HIDE DEF w, k2
<1>4. ASSUME NEW l \in Leaf, Top(k.writes, l) # {} PROVE Top(k2.writes, l) # {}
    <2>1. PICK v \in Top(k.writes, l) : TRUE
        BY <1>4
    <2>2. CASE l \in DOMAIN w.put
        <3>1. w \in Top(k2.writes, l)
            BY <1>1, <1>3, <2>2 DEF Top
        <3>. QED
            BY <3>1
    <2>3. CASE l \notin DOMAIN w.put
        <3>1. v \in Top(k2.writes, l)
            BY <1>1, <2>1, <2>3 DEF Top
        <3>. QED
            BY <3>1
    <2>. QED
        BY <2>2, <2>3
<1>. QED
    BY <1>1, <1>2, <1>4, SeesKnown, CoveredLeaf DEF Stays, k2

\* An answer that is acted on when no listen is without an answer: the cache has
\* what the write no longer shows.
LEMMA AnsweredStays ==
    ASSUME NEW k \in ClientState, NEW k2 \in ClientState, Alike(k, k2),
           k.conn, k.unacked = {}, Known(k)
    PROVE  Stays(k, k2)
<1>1. \A l \in Covered(k.regs) : k2.cache[l] # Unknown /\ l \in Leaf
    BY CoveredLeaf DEF Known, Alike
<1>. QED
    BY <1>1, SeesKnown DEF Stays

\* A step of one client is seen by nobody else.
LEMMA OneStays ==
    ASSUME Inv, SyncInv, NEW c \in Client,
           client' = [client EXCEPT ![c] = client'[c]],
           Stays(client[c], client'[c])
    PROVE  \A d \in Client : Stays(client[d], client'[d])
<1>1. TAKE d \in Client
<1>2. CASE d = c
    BY <1>2
<1>3. CASE d # c
    <2>1. client'[d] = client[d]
        BY <1>3 DEF Inv, TypeOK
    <2>. QED
        BY <2>1 DEF Stays
<1>. QED
    BY <1>2, <1>3

\* A step that gives a client another state, from which its view follows.
LEMMA StepStays ==
    ASSUME Inv, SyncInv, NEW c \in Client, NEW k,
           client' = [client EXCEPT ![c] = k], Stays(client[c], k)
    PROVE  \A d \in Client : Stays(client[d], client'[d])
<1>1. client'[c] = k
    BY DEF Inv, TypeOK
<1>. QED
    BY <1>1, OneStays

\* The server's steps, and those of the network, take requests off the wire.
LEMMA WireStays ==
    ASSUME Inv, SyncInv, NEW c \in Client,
           ServeListen(c) \/ ServeUnlisten(c) \/ ServePut(c) \/ RejectPut(c)
    PROVE  \A d \in Client : Stays(client[d], client'[d])
<1>1. PICK q : client' = [client EXCEPT ![c].out = @ \ {q}]
    BY DEF ServeListen, ServeUnlisten, ServePut, RejectPut, Served
<1>. DEFINE k == [client[c] EXCEPT !.out = @ \ {q}]
<1>2. client[c] \in ClientState
    BY LocalSynced
<1>3. k \in ClientState /\ k.writes = client[c].writes /\ k.cache = client[c].cache
    BY <1>2 DEF ClientState
<1>4. client' = [client EXCEPT ![c] = k]
    BY <1>1
<1>. HIDE DEF k
<1>5. Stays(client[c], k)
    BY <1>2, <1>3, CacheStays
<1>. QED
    BY <1>4, <1>5, StepStays

LEMMA ConnectionStays ==
    ASSUME Inv, SyncInv, NEW c \in Client, Disconnect(c) \/ Reconnect(c)
    PROVE  \A d \in Client : Stays(client[d], client'[d])
<1>. DEFINE k == client'[c]
<1>1. client[c] \in ClientState
    BY LocalSynced
<1>2. client' = [client EXCEPT ![c] = k]
    BY DEF Disconnect, Reconnect, Inv, TypeOK
<1>3. k \in ClientState
    BY NextInv DEF Next, Inv, TypeOK
<1>4. k.writes = client[c].writes /\ k.cache = client[c].cache
    <2>1. CASE Disconnect(c)
        <3>1. k = CutOff(client[c])
            BY <2>1 DEF Disconnect, Inv, TypeOK
        <3>. HIDE DEF k
        <3>. QED
            BY <1>1, <3>1 DEF CutOff, ClientState
    <2>2. CASE Reconnect(c)
        <3>1. \E out, unacked : k = [client[c] EXCEPT !.conn = TRUE, !.out = out,
                                                     !.unacked = unacked]
            BY <2>2 DEF Reconnect, Inv, TypeOK
        <3>. HIDE DEF k
        <3>. QED
            BY <1>1, <3>1 DEF ClientState
    <2>. QED
        BY <2>1, <2>2
<1>. HIDE DEF k
<1>5. Stays(client[c], k)
    BY <1>1, <1>3, <1>4, CacheStays
<1>. QED
    BY <1>2, <1>5, StepStays

LEMMA MergeStays ==
    ASSUME NEW k \in ClientState, NEW put \in Put, NEW k2 \in ClientState,
           k2.writes = Merge(k, put).writes, k2.cache = Merge(k, put).cache
    PROVE  Stays(k, k2)
<1>1. \A l \in Leaf : k2.cache[l] \in Value \/ k2.cache[l] = k.cache[l]
    BY MergeFlush
<1>2. k2.writes = k.writes
    BY MergeFlush
<1>3. \A l \in Covered(k.regs) : k.cache[l] # Unknown => k2.cache[l] # Unknown
    BY <1>1, CoveredLeaf, ValueAssumption
<1>. QED
    BY <1>2, <1>3, CacheStays

LEMMA ReceiveStays ==
    ASSUME Inv, SyncInv, NEW c \in Client, ReceivePush(c) \/ ReceiveListen(c)
    PROVE  \A d \in Client : Stays(client[d], client'[d])
<1>. DEFINE m == Head(in[c])
            put == m.put
            k1 == Merge(client[c], put)
            k == client'[c]
<1>1. client[c] \in ClientState /\ in[c] \in Seq(Message)
    BY LocalSynced
<1>2. in[c] # <<>> /\ m.kind # "ack"
    BY DEF ReceivePush, ReceiveListen, Arrived
<1>3. put \in Put
    <2>1. m \in Message
        BY <1>1, <1>2
    <2>. QED
        BY <1>2, <2>1 DEF Message
<1>4. client' = [client EXCEPT ![c] = k]
    BY DEF ReceivePush, ReceiveListen, Inv, TypeOK
<1>5. k \in ClientState
    BY NextInv DEF Next, Inv, TypeOK
<1>6. \/ k = k1
      \/ \E u, f : k = [k1 EXCEPT !.unacked = u, !.flush = f]
    <2>1. CASE ReceivePush(c)
        BY <2>1 DEF ReceivePush, Inv, TypeOK
    <2>2. CASE ReceiveListen(c)
        <3>1. client' = [client EXCEPT ![c] =
                            [k1 EXCEPT !.unacked = @ \ {m.to},
                                       !.flush = /\ k1.unacked \ {m.to} = {}
                                                 /\ k1.held # {}]]
            BY <2>2 DEF ReceiveListen
        <3>. HIDE DEF k1
        <3>2. k = [k1 EXCEPT !.unacked = @ \ {m.to},
                             !.flush = /\ k1.unacked \ {m.to} = {}
                                       /\ k1.held # {}]
            BY <3>1 DEF Inv, TypeOK
        <3>. QED
            BY <3>2
    <2>. QED
        BY <2>1, <2>2
<1>7. k1 \in ClientState
    BY <1>1, <1>3, MergeType
<1>. HIDE DEF put, k
<1>8. k.writes = k1.writes /\ k.cache = k1.cache
    <2>. HIDE DEF k1
    <2>. QED
        BY <1>6, <1>7 DEF ClientState
<1>9. Stays(client[c], k)
    BY <1>1, <1>3, <1>5, <1>8, MergeStays
<1>. QED
    BY <1>4, <1>9, StepStays

LEMMA ReceiveAckStays ==
    ASSUME Inv, SyncInv, NEW c \in Client, ReceiveAck(c)
    PROVE  \A d \in Client : Stays(client[d], client'[d])
<1>. DEFINE ack == Head(in[c]).ack
            held == [client[c] EXCEPT !.held = @ \cup {ack}]
            k == client'[c]
<1>1. /\ client[c] \in ClientState /\ in[c] \in Seq(Message)
      /\ Synced(client[c], in[c], sub[c], data)
    BY LocalSynced
<1>2. /\ in[c] # <<>> /\ Head(in[c]).kind = "ack"
      /\ client' = [client EXCEPT ![c] = IF Holds(client[c]) THEN held
                                         ELSE Answer(client[c], ack)]
    BY DEF ReceiveAck, Arrived
<1>3. ack \in Ack
    <2>1. Head(in[c]) \in Message
        BY <1>1, <1>2
    <2>. QED
        BY <1>2, <2>1 DEF Message
<1>4. k \in ClientState
    BY NextInv DEF Next, Inv, TypeOK
<1>5. k = IF Holds(client[c]) THEN held ELSE Answer(client[c], ack)
    BY <1>2 DEF Inv, TypeOK
<1>6. client' = [client EXCEPT ![c] = k]
    BY <1>2, <1>5
<1>7. client[c].conn
    BY <1>2, LocalSynced
<1>. HIDE DEF ack, k
<1>8. CASE Holds(client[c])
    <2>1. k.writes = client[c].writes /\ k.cache = client[c].cache
        BY <1>1, <1>5, <1>8 DEF ClientState
    <2>2. Stays(client[c], k)
        BY <1>1, <1>4, <2>1, CacheStays
    <2>. QED
        BY <1>6, <2>2, StepStays
<1>9. CASE ~Holds(client[c])
    <2>1. k = Answer(client[c], ack) /\ client[c].unacked = {}
        BY <1>5, <1>9 DEF Holds
    <2>2. Alike(client[c], k)
        BY <1>1, <1>3, <2>1, AnswerAlike
    <2>3. Stays(client[c], k)
        BY <1>1, <1>4, <1>7, <2>1, <2>2, AnsweredStays DEF Synced
    <2>. QED
        BY <1>6, <2>3, StepStays
<1>. QED
    BY <1>8, <1>9

LEMMA AckPutsStays ==
    ASSUME Inv, SyncInv, NEW c \in Client, AckPuts(c)
    PROVE  \A d \in Client : Stays(client[d], client'[d])
<1>1. PICK ack \in client[c].held :
        client' = [client EXCEPT ![c] = Acked(client[c], ack)]
    BY DEF AckPuts
<1>. DEFINE k == Acked(client[c], ack)
<1>2. client[c].flush /\ client[c] \in ClientState
      /\ Synced(client[c], in[c], sub[c], data)
    BY LocalSynced DEF AckPuts
<1>3. client[c].conn /\ client[c].unacked = {} /\ Known(client[c])
    BY <1>2 DEF Synced, Released
<1>4. k \in ClientState
    BY Local, AckPutsSound
<1>5. Alike(client[c], k)
    BY <1>2, AckedAlike
<1>. HIDE DEF k
<1>6. Stays(client[c], k)
    BY <1>2, <1>3, <1>4, <1>5, AnsweredStays
<1>. QED
    BY <1>1, <1>6, StepStays DEF k

LEMMA CallStays ==
    ASSUME Inv, SyncInv, NEW c \in Client, CallObserve(c) \/ CallSetValue(c)
    PROVE  \A d \in Client : Stays(client[d], client'[d])
<1>1. client[c] \in ClientState /\ \A w \in client[c].writes : w.id < client[c].next
    BY LocalSynced DEF Numbered
<1>2. CASE CallObserve(c)
    <2>1. PICK path \in Path, single \in BOOLEAN, tag \in Tag :
            client' = [client EXCEPT ![c] = Observe(client[c], path, single, tag)]
        BY <1>2 DEF CallObserve
    <2>. QED
        BY <1>1, <2>1, ObserveStays, StepStays
<1>3. CASE CallSetValue(c)
    <2>1. PICK path \in Path, tag \in Tag : \E put \in [path -> Value] :
            client' = [client EXCEPT ![c] = SetValue(client[c], put, tag)]
        BY <1>3 DEF CallSetValue
    <2>2. PICK put \in [path -> Value] :
            client' = [client EXCEPT ![c] = SetValue(client[c], put, tag)]
        BY <2>1
    <2>3. put \in Put
        BY PathAssumption DEF Put
    <2>. QED
        BY <1>1, <2>2, <2>3, SetValueStays, StepStays
<1>. QED
    BY <1>2, <1>3

LEMMA RunStays ==
    ASSUME Inv, SyncInv, NEW c \in Client, RunValue(c) \/ RunDone(c)
    PROVE  \A d \in Client : Stays(client[d], client'[d])
<1>1. client[c] \in ClientState
    BY LocalSynced
<1>2. Stays(client[c], client[c])
    BY DEF Stays
<1>3. CASE RunValue(c)
    <2>1. PICK r \in Ready(client[c]) :
            client' = [client EXCEPT ![c] = IF Stale(client[c], r)
                                            THEN TakeValue(client[c], r)
                                            ELSE Begin(client[c], r)]
        BY <1>3 DEF RunValue
    <2>. DEFINE k == TakeValue(client[c], r)
                k2 == Unobserve(k, r)
    <2>2. k \in ClientState /\ Alike(client[c], k) /\ k.writes = client[c].writes
        BY <1>1, TakeValueType, TakeValueAlike
    <2>3. client' = [client EXCEPT ![c] = k] \/ client' = [client EXCEPT ![c] = k2]
        BY <2>1 DEF Begin
    <2>. HIDE DEF k
    <2>4. Stays(client[c], k)
        BY <1>1, <1>2, <2>2, AlikeStays
    <2>5. Stays(client[c], k2)
        <3>1. k2 \in ClientState /\ Stays(k, k2)
            BY <2>2, UnobserveType, UnobserveStays
        <3>. HIDE DEF k2
        <3>2. \A l : Sees(k)[l] = Sees(client[c])[l]
            BY <2>2 DEF Alike, Sees, View
        <3>. QED
            BY <2>2, <3>1, <3>2 DEF Stays, Alike
    <2>. QED
        BY <2>3, <2>4, <2>5, StepStays
<1>4. CASE RunDone(c)
    <2>. DEFINE k == TakeDone(client[c])
    <2>1. client[c].main # <<>> /\ client' = [client EXCEPT ![c] = k]
        BY <1>4 DEF RunDone
    <2>2. k \in ClientState /\ Alike(client[c], k) /\ k.writes = client[c].writes
        BY <1>1, <2>1, TakeDoneType, TakeDoneAlike
    <2>. HIDE DEF k
    <2>3. Stays(client[c], k)
        BY <1>1, <1>2, <2>2, AlikeStays
    <2>. QED
        BY <2>1, <2>3, StepStays
<1>. QED
    BY <1>3, <1>4

\* What an observer has seen whole never becomes unknown to it again: this is what
\* the answers to writes are held back for while a listen has no response.
THEOREM SeenStaysSeen == Spec => StaysComplete
<1>1. ASSUME Inv, SyncInv, [Next]_vars
      PROVE  [\A c \in Client : \A r \in client[c].regs \cap client'[c].regs :
                Complete(Sees(client[c]), r.path) =>
                    Complete(Sees(client'[c]), r.path)]_vars
    <2>1. CASE UNCHANGED vars
        BY <2>1
    <2>2. CASE Next
        <3>1. PICK c \in Client :
                \/ ServeListen(c) \/ ServeUnlisten(c) \/ ServePut(c) \/ RejectPut(c)
                \/ ReceivePush(c) \/ ReceiveListen(c) \/ ReceiveAck(c) \/ AckPuts(c)
                \/ Disconnect(c) \/ Reconnect(c)
                \/ CallObserve(c) \/ CallSetValue(c) \/ RunValue(c) \/ RunDone(c)
            BY <2>2 DEF Next
        <3>2. \A d \in Client : Stays(client[d], client'[d])
            BY <1>1, <3>1, WireStays, ConnectionStays, ReceiveStays, ReceiveAckStays,
               AckPutsStays, CallStays, RunStays
        <3>3. \A d \in Client : \A r \in client[d].regs \cap client'[d].regs :
                Complete(Sees(client[d]), r.path) =>
                    Complete(Sees(client'[d]), r.path)
            BY <3>2 DEF Stays, Complete, Covered
        <3>. QED
            BY <3>3
    <2>. QED
        BY <1>1, <2>1, <2>2
<1>. QED
    BY <1>1, Synchronized, PTL DEF Spec, StaysComplete

-----------------------------------------------------------------------------
(* A device that is alone: what the answers to its writes show.            *)

\* Answers held back on a live connection are being acted on, or wait for a listen
\* to be answered; after a lost connection they may wait for one to be made.
Waits(k, lost) ==
    /\ ~k.conn => lost > 0
    /\ k.conn /\ k.held # {} =>
            k.flush \/ k.unacked # {} \/ (k.regs = {} /\ lost > 0)

LoneInv ==
    \A c \in Client :
        /\ Solo(client[c], in[c], data) /\ Hides(client[c])
        /\ Waits(client[c], drops)
        /\ drops = 0 => Fitting(client[c], in[c], data)

LEMMA WaitsPrompted ==
    ASSUME NEW k, NEW lost \in Nat, Waits(k, lost),
           lost = 0 \/ (k.conn /\ k.regs # {})
    PROVE  Prompted(k)
    BY DEF Waits, Prompted

LEMMA ShowsSynced ==
    ASSUME NEW k \in ClientState, NEW s \in Seq(Message), NEW paths, NEW tree,
           Synced(k, s, paths, tree), Hides(k)
    PROVE  Shows(k, s, tree)
<1>1. SUFFICES ASSUME k.flush \/ (k.conn /\ k.unacked = {}), NEW l \in Leaf,
                      \A j \in DOMAIN s : Concerns(s[j], l) => s[j].kind = "listen"
               PROVE  k.cache[l] \in {Unknown, tree[l]}
    BY DEF Shows
<1>2. k.conn /\ k.unacked = {}
    BY <1>1 DEF Synced, Released
<1>3. CASE l \notin Covered(k.regs)
    BY <1>3 DEF Hides
<1>4. CASE l \in Covered(k.regs)
    <2>1. Listens(k) = {} /\ \A j \in DOMAIN s : s[j].kind # "listen"
        BY <1>2 DEF Synced, Counted, Answered
    <2>2. Becomes(k.cache[l], s, l, tree[l])
        BY <1>2, <1>4, <2>1 DEF Synced, Current
    <2>. QED
        BY <1>1, <2>1, <2>2 DEF Becomes
<1>. QED
    BY <1>3, <1>4

LEMMA RelistenWaits ==
    ASSUME NEW k \in ClientState, NEW lost, Waits(k, lost), NEW regs \in SUBSET Reg
    PROVE  Waits(Relisten(k, regs), lost)
<1>. DEFINE listens == {[kind |-> "listen", rank |-> Fresh(k), path |-> p] :
                            p \in Outermost(regs) \ Outermost(k.regs)}
            k2 == Relisten(k, regs)
<1>1. /\ k2.conn = k.conn /\ k2.held = k.held /\ k2.flush = k.flush
      /\ k2.regs = regs
      /\ k.conn => k2.unacked = k.unacked \cup listens
    BY DEF Relisten, ClientState
<1>2. ASSUME k.regs = {}, regs # {} PROVE listens # {}
    <2>1. PICK r \in regs : TRUE
        BY <1>2
    <2>2. PICK p \in Outermost(regs) : TRUE
        BY <2>1, BelowOutermost
    <2>3. Outermost(k.regs) = {}
        BY <1>2 DEF Outermost
    <2>. QED
        BY <2>2, <2>3
<1>. HIDE DEF k2, listens
<1>. QED
    BY <1>1, <1>2 DEF Waits, k2

LEMMA AlikeWaits ==
    ASSUME NEW k, NEW k2, Alike(k, k2), k2.held = k.held, k2.flush = k.flush,
           NEW lost, Waits(k, lost)
    PROVE  Waits(k2, lost)
    BY DEF Alike, Waits

LEMMA LocalLone ==
    ASSUME Inv, SyncInv, LoneInv, \A c, d \in Client : c = d, NEW c \in Client
    PROVE  /\ Lonely(c) /\ Shows(client[c], in[c], data)
           /\ Waits(client[c], drops) /\ drops \in Nat
<1>1. Lonely(c)
    BY Local DEF Inv, TypeOK, LoneInv, Lonely
<1>2. Shows(client[c], in[c], data)
    BY <1>1, LocalSynced, ShowsSynced DEF Lonely
<1>. QED
    BY <1>1, <1>2 DEF LoneInv, Inv, TypeOK

\* The step of a client, of which nothing but its waiting is left to show.
LEMMA OneLone ==
    ASSUME Inv, SyncInv, LoneInv, \A c, d \in Client : c = d, NEW c \in Client,
           StaysLonely(c), drops' = drops \/ drops' > 0, Waits(client'[c], drops')
    PROVE  LoneInv'
<1>1. Waits(client[c], drops) /\ drops \in Nat
    BY LocalLone
<1>2. drops' = 0 => drops = 0
    BY <1>1
<1>3. drops = 0 => Prompted(client[c]) /\ Fitting(client[c], in[c], data)
    BY <1>1, WaitsPrompted DEF LoneInv
<1>4. drops' = 0 => Fitting(client'[c], in'[c], data')
    BY <1>2, <1>3 DEF StaysLonely
<1>5. \A d \in Client : d = c
    OBVIOUS
<1>. QED
    BY <1>4, <1>5 DEF LoneInv, StaysLonely

LEMMA WireWaits ==
    ASSUME Inv, SyncInv, NEW c \in Client, Waits(client[c], drops),
           ServeListen(c) \/ ServeUnlisten(c) \/ ServePut(c) \/ RejectPut(c)
    PROVE  Waits(client'[c], drops') /\ drops' = drops
<1>1. PICK q : client' = [client EXCEPT ![c].out = @ \ {q}]
    BY DEF ServeListen, ServeUnlisten, ServePut, RejectPut, Served
<1>2. client[c] \in ClientState
    BY LocalSynced
<1>3. drops' = drops
    BY DEF ServeListen, ServeUnlisten, ServePut, RejectPut
<1>4. client'[c] = [client[c] EXCEPT !.out = @ \ {q}]
    BY <1>1 DEF Inv, TypeOK
<1>. DEFINE k == client'[c]
<1>5. k = [client[c] EXCEPT !.out = @ \ {q}]
    BY <1>4
<1>. HIDE DEF k
<1>6. /\ k.conn = client[c].conn /\ k.held = client[c].held
      /\ k.flush = client[c].flush /\ k.unacked = client[c].unacked
      /\ k.regs = client[c].regs
    BY <1>2, <1>5 DEF ClientState
<1>7. Waits(k, drops)
    BY <1>6 DEF Waits
<1>. QED
    BY <1>3, <1>7 DEF k

LEMMA ConnectionWaits ==
    ASSUME Inv, SyncInv, NEW c \in Client, Waits(client[c], drops),
           Disconnect(c) \/ Reconnect(c)
    PROVE  Waits(client'[c], drops') /\ (drops' = drops \/ drops' > 0)
<1>1. client[c] \in ClientState /\ drops \in Nat
    BY LocalSynced DEF Inv, TypeOK
<1>. DEFINE k == client'[c]
<1>2. CASE Disconnect(c)
    <2>1. k = CutOff(client[c]) /\ drops' = drops + 1
        BY <1>2 DEF Disconnect, Inv, TypeOK
    <2>2. drops' > 0
        BY <1>1, <2>1
    <2>. HIDE DEF k
    <2>3. ~k.conn
        BY <1>1, <2>1 DEF CutOff, ClientState
    <2>. QED
        BY <2>2, <2>3 DEF Waits, k
<1>3. CASE Reconnect(c)
    <2>1. /\ ~client[c].conn /\ drops' = drops
          /\ \E out : k = [client[c] EXCEPT !.conn = TRUE, !.out = out,
                                            !.unacked = RestoredListens(client[c])]
        BY <1>3 DEF Reconnect, Inv, TypeOK
    <2>. HIDE DEF k
    <2>2. /\ k.conn /\ k.regs = client[c].regs
          /\ k.unacked = RestoredListens(client[c])
        BY <1>1, <2>1 DEF ClientState
    <2>3. ASSUME client[c].regs # {} PROVE RestoredListens(client[c]) # {}
        <3>1. PICK r \in client[c].regs : TRUE
            BY <2>3
        <3>2. client[c].regs \in SUBSET Reg
            BY <1>1 DEF ClientState
        <3>3. PICK p \in Outermost(client[c].regs) : TRUE
            BY <3>1, <3>2, BelowOutermost
        <3>. QED
            BY <3>3 DEF RestoredListens
    <2>. QED
        BY <2>1, <2>2, <2>3 DEF Waits, k
<1>. QED
    BY <1>2, <1>3

LEMMA ReceiveWaits ==
    ASSUME Inv, SyncInv, NEW c \in Client, Waits(client[c], drops),
           ReceivePush(c) \/ ReceiveListen(c)
    PROVE  Waits(client'[c], drops') /\ drops' = drops
<1>. DEFINE m == Head(in[c])
            put == m.put
            k1 == Merge(client[c], put)
            k == client'[c]
<1>1. client[c] \in ClientState /\ in[c] \in Seq(Message)
    BY LocalSynced
<1>2. in[c] # <<>> /\ m.kind # "ack" /\ drops' = drops
    BY DEF ReceivePush, ReceiveListen, Arrived
<1>3. put \in Put
    <2>1. m \in Message
        BY <1>1, <1>2
    <2>. QED
        BY <1>2, <2>1 DEF Message
<1>4. k1 \in ClientState
    BY <1>1, <1>3, MergeType
<1>5. CASE ReceivePush(c)
    <2>1. k = k1
        BY <1>5 DEF ReceivePush, Inv, TypeOK
    <2>2. k1.conn = client[c].conn /\ k1.held = client[c].held
        BY <1>1, <1>3, MergeFields
    <2>3. k1.flush = client[c].flush /\ k1.regs = client[c].regs
        BY <1>1, <1>3, MergeFlush
    <2>4. k1.unacked = client[c].unacked
        BY <1>1 DEF Merge, Raise, ClientState
    <2>. HIDE DEF k1, k
    <2>. QED
        BY <1>2, <2>1, <2>2, <2>3, <2>4 DEF Waits, k
<1>6. CASE ReceiveListen(c)
    <2>. DEFINE unacked == k1.unacked \ {m.to}
                flush == k1.unacked \ {m.to} = {} /\ k1.held # {}
    <2>1. client' = [client EXCEPT ![c] =
                        [k1 EXCEPT !.unacked = @ \ {m.to},
                                   !.flush = /\ k1.unacked \ {m.to} = {}
                                             /\ k1.held # {}]]
        BY <1>6 DEF ReceiveListen
    <2>. HIDE DEF k1
    <2>2. k = [k1 EXCEPT !.unacked = unacked, !.flush = flush]
        BY <2>1 DEF Inv, TypeOK
    <2>. HIDE DEF k
    <2>3. /\ k.unacked = k1.unacked \ {m.to} /\ k.held = k1.held
          /\ k.flush = (k1.unacked \ {m.to} = {} /\ k1.held # {})
          /\ k.conn = k1.conn
        BY <1>4, <2>2 DEF ClientState
    <2>4. k1.conn = client[c].conn
        BY <1>1, <1>3, MergeFields DEF k1
    <2>. QED
        BY <1>2, <2>3, <2>4 DEF Waits, k
<1>. QED
    BY <1>5, <1>6

LEMMA AckWaits ==
    ASSUME Inv, SyncInv, NEW c \in Client, Waits(client[c], drops),
           ReceiveAck(c) \/ AckPuts(c)
    PROVE  Waits(client'[c], drops') /\ drops' = drops
<1>1. client[c] \in ClientState /\ in[c] \in Seq(Message) /\ drops' = drops
    BY LocalSynced DEF ReceiveAck, AckPuts
<1>. DEFINE k == client'[c]
<1>2. CASE ReceiveAck(c)
    <2>. DEFINE x == Head(in[c]).ack
                held == [client[c] EXCEPT !.held = @ \cup {x}]
    <2>1. k = IF Holds(client[c]) THEN held ELSE Answer(client[c], x)
        BY <1>2 DEF ReceiveAck, Inv, TypeOK
    <2>2. x \in Ack
        <3>1. Head(in[c]) \in Message /\ Head(in[c]).kind = "ack"
            BY <1>1, <1>2 DEF ReceiveAck, Arrived
        <3>. QED
            BY <3>1 DEF Message
    <2>. HIDE DEF k, x
    <2>3. CASE Holds(client[c])
        <3>1. /\ k.conn = client[c].conn /\ k.unacked = client[c].unacked
            BY <1>1, <2>1, <2>3 DEF ClientState
        <3>. QED
            BY <1>1, <2>3, <3>1 DEF Holds, Waits, k
    <2>4. CASE ~Holds(client[c])
        <3>1. Alike(client[c], k) /\ k.flush = client[c].flush /\ k.held = client[c].held
            BY <1>1, <2>1, <2>2, <2>4, AnswerAlike, AnswerFields
        <3>. QED
            BY <1>1, <3>1, AlikeWaits DEF k
    <2>. QED
        BY <2>3, <2>4
<1>3. CASE AckPuts(c)
    <2>1. PICK x \in client[c].held :
            client' = [client EXCEPT ![c] = Acked(client[c], x)]
        BY <1>3 DEF AckPuts
    <2>. DEFINE k1 == Answer(client[c], x)
                flush == k1.held # {x}
                fl == client[c].held # {x}
    <2>2. k = [k1 EXCEPT !.held = @ \ {x}, !.flush = fl]
        BY <2>1 DEF Acked, Inv, TypeOK
    <2>3. x \in Ack /\ x.id \in PendingIds(client[c])
        BY <1>1, Local DEF ClientState, HeldIds, Sound, Accounted
    <2>4. k1 \in ClientState /\ k1.held = client[c].held
        BY <1>1, <2>3, AnswerType, AnswerFields
    <2>. HIDE DEF k, k1
    <2>5. k.held = client[c].held \ {x} /\ k.flush = (client[c].held # {x})
          /\ k.conn = k1.conn
        BY <2>2, <2>4 DEF ClientState
    <2>6. k1.conn = client[c].conn
        BY <1>1, <2>3, AnswerFields DEF k1
    <2>. QED
        BY <1>1, <2>5, <2>6 DEF Waits, k
<1>. QED
    BY <1>2, <1>3

\* A call of the program, or a block of the main queue, that takes the client from
\* its state to k.
LEMMA ProgramLone ==
    ASSUME Inv, SyncInv, LoneInv, \A c, d \in Client : c = d, NEW c \in Client,
           NEW k, client' = [client EXCEPT ![c] = k], UNCHANGED <<data, sub, in, drops>>,
           GoesOn(client[c], in[c], k), Waits(k, drops)
    PROVE  LoneInv'
<1>1. client'[c] = k /\ in'[c] = in[c] /\ data' = data /\ drops' = drops
    BY DEF Inv, TypeOK
<1>2. Solo(client[c], in[c], data) /\ Hides(client[c])
    BY DEF LoneInv
<1>3. StaysLonely(c)
    BY <1>1, <1>2 DEF GoesOn, StaysLonely
<1>. QED
    BY <1>1, <1>3, OneLone

LEMMA CallLone ==
    ASSUME Inv, SyncInv, LoneInv, \A c, d \in Client : c = d, NEW c \in Client,
           CallObserve(c) \/ CallSetValue(c)
    PROVE  LoneInv'
<1>1. /\ client[c] \in ClientState /\ in[c] \in Seq(Message) /\ Sound(client[c], in[c])
      /\ Waits(client[c], drops)
    BY Local, LocalLone
<1>2. CASE CallObserve(c)
    <2>1. PICK path \in Path, single \in BOOLEAN, tag \in Tag :
            client' = [client EXCEPT ![c] = Observe(client[c], path, single, tag)]
        BY <1>2 DEF CallObserve
    <2>. DEFINE r == [id |-> Fresh(client[c]), path |-> path, single |-> single,
                      tag |-> tag]
                k1 == Relisten(client[c], client[c].regs \cup {r})
                k == Observe(client[c], path, single, tag)
    <2>2. client[c].regs \cup {r} \in SUBSET Reg
        BY <1>1, FreshType DEF Reg, ClientState
    <2>3. k1 \in ClientState /\ Waits(k1, drops)
        BY <1>1, <2>2, RelistenType, RelistenWaits
    <2>4. PICK todo : k = Raise(k1, todo)
        BY DEF Observe
    <2>5. GoesOn(client[c], in[c], k)
        BY <1>1, ObserveGoes
    <2>. HIDE DEF k, k1
    <2>6. Waits(k, drops)
        BY <2>3, <2>4, RaiseAlike, RaiseFields, AlikeWaits
    <2>7. client' = [client EXCEPT ![c] = k] /\ UNCHANGED <<data, sub, in, drops>>
        BY <1>2, <2>1 DEF CallObserve, k
    <2>. QED
        BY <2>5, <2>6, <2>7, ProgramLone
<1>3. CASE CallSetValue(c)
    <2>1. PICK path \in Path, tag \in Tag : \E put \in [path -> Value] :
            client' = [client EXCEPT ![c] = SetValue(client[c], put, tag)]
        BY <1>3 DEF CallSetValue
    <2>2. PICK put \in [path -> Value] :
            client' = [client EXCEPT ![c] = SetValue(client[c], put, tag)]
        BY <2>1
    <2>3. put \in Put
        BY PathAssumption DEF Put
    <2>. DEFINE k == SetValue(client[c], put, tag)
    <2>4. GoesOn(client[c], in[c], k)
        BY <1>1, <2>3, SetValueGoes
    <2>5. /\ k.conn = client[c].conn /\ k.held = client[c].held
          /\ k.flush = client[c].flush /\ k.unacked = client[c].unacked
          /\ k.regs = client[c].regs
        BY <1>1 DEF SetValue, Overwrites, Raise, ClientState
    <2>6. client' = [client EXCEPT ![c] = k] /\ UNCHANGED <<data, sub, in, drops>>
        BY <1>3, <2>2 DEF CallSetValue
    <2>. HIDE DEF k
    <2>7. Waits(k, drops)
        BY <1>1, <2>5 DEF Waits
    <2>. QED
        BY <2>4, <2>6, <2>7, ProgramLone
<1>. QED
    BY <1>2, <1>3

LEMMA RunLone ==
    ASSUME Inv, SyncInv, LoneInv, \A c, d \in Client : c = d, NEW c \in Client,
           RunValue(c) \/ RunDone(c)
    PROVE  LoneInv'
<1>1. /\ client[c] \in ClientState /\ in[c] \in Seq(Message)
      /\ Waits(client[c], drops)
    BY Local, LocalLone
<1>2. CASE RunValue(c)
    <2>1. PICK r \in Ready(client[c]) :
            /\ client' = [client EXCEPT ![c] = IF Stale(client[c], r)
                                               THEN TakeValue(client[c], r)
                                               ELSE Begin(client[c], r)]
            /\ UNCHANGED <<data, sub, in, drops>>
        BY <1>2 DEF RunValue
    <2>. DEFINE k1 == TakeValue(client[c], r)
                k2 == Begin(client[c], r)
    <2>2. GoesOn(client[c], in[c], k1) /\ GoesOn(client[c], in[c], k2)
        BY <1>1, TakeGoes, BeginGoes
    <2>3. k1 \in ClientState /\ k1.held = client[c].held
        BY <1>1, TakeValueType DEF TakeValue, ClientState
    <2>4. Waits(k1, drops)
        BY <1>1, <2>3, TakeValueAlike, AlikeWaits
    <2>5. k2 = k1 \/ k2 = Relisten(k1, k1.regs \ {r})
        BY DEF Begin, Unobserve
    <2>6. client' = [client EXCEPT ![c] = k1] \/ client' = [client EXCEPT ![c] = k2]
        BY <2>1
    <2>. HIDE DEF k1, k2
    <2>7. k1.regs \ {r} \in SUBSET Reg
        BY <2>3 DEF ClientState
    <2>8. Waits(k2, drops)
        BY <2>3, <2>4, <2>5, <2>7, RelistenWaits
    <2>. QED
        BY <2>1, <2>2, <2>4, <2>6, <2>8, ProgramLone
<1>3. CASE RunDone(c)
    <2>. DEFINE k == TakeDone(client[c])
    <2>1. client' = [client EXCEPT ![c] = k] /\ UNCHANGED <<data, sub, in, drops>>
        BY <1>3 DEF RunDone
    <2>2. GoesOn(client[c], in[c], k) /\ k.held = client[c].held
        BY <1>1, TakeGoes DEF TakeDone, ClientState
    <2>3. Waits(k, drops)
        BY <1>1, <2>2, TakeDoneAlike, AlikeWaits
    <2>. HIDE DEF k
    <2>. QED
        BY <2>1, <2>2, <2>3, ProgramLone
<1>. QED
    BY <1>2, <1>3

LEMMA InitLone == Init => LoneInv
<1>. SUFFICES ASSUME Init, NEW c \in Client
              PROVE  /\ Solo(client[c], in[c], data) /\ Hides(client[c])
                     /\ Waits(client[c], drops)
                     /\ Fitting(client[c], in[c], data)
    BY DEF LoneInv
<1>1. /\ client[c] = ClientInit /\ in[c] = <<>>
    BY DEF Init
<1>. DEFINE k == client[c]
<1>2. /\ k.writes = {} /\ k.held = {} /\ k.conn /\ \A l \in Leaf : k.cache[l] = Unknown
    BY <1>1 DEF ClientInit
<1>3. DOMAIN in[c] = {} /\ AckIds(in[c]) = {}
    BY <1>1 DEF AckIds, AcksIn
<1>. HIDE DEF k
<1>4. Ordered(k, in[c]) /\ InTurn(k, in[c])
    BY <1>2, <1>3 DEF Ordered, InTurn, AnswerAt, PendingIds
<1>5. Agrees(k, in[c], data) /\ Fitting(k, in[c], data)
    BY <1>2, <1>3 DEF Agrees, Fitting, After, Top
<1>. QED
    BY <1>2, <1>4, <1>5 DEF Solo, Hides, Waits, k

LEMMA NextLone ==
    ASSUME Inv, SyncInv, LoneInv, \A c, d \in Client : c = d, [Next]_vars
    PROVE  LoneInv'
<1>1. CASE UNCHANGED vars
    BY <1>1 DEF vars, LoneInv
<1>2. CASE Next
    <2>1. PICK c \in Client :
            \/ ServeListen(c) \/ ServeUnlisten(c) \/ ServePut(c) \/ RejectPut(c)
            \/ ReceivePush(c) \/ ReceiveListen(c) \/ ReceiveAck(c) \/ AckPuts(c)
            \/ Disconnect(c) \/ Reconnect(c)
            \/ CallObserve(c) \/ CallSetValue(c) \/ RunValue(c) \/ RunDone(c)
        BY <1>2 DEF Next
    <2>2. /\ Lonely(c) /\ Shows(client[c], in[c], data)
          /\ Waits(client[c], drops)
        BY LocalLone
    <2>3. CASE CallObserve(c) \/ CallSetValue(c) \/ RunValue(c) \/ RunDone(c)
        BY <2>3, CallLone, RunLone
    <2>4. CASE Network(c) \/ Disconnect(c)
        <3>1. StaysLonely(c)
            BY <2>2, <2>4, NetworkLonely
        <3>2. Waits(client'[c], drops') /\ (drops' = drops \/ drops' > 0)
            BY <2>2, <2>4, WireWaits, ConnectionWaits, ReceiveWaits, AckWaits
               DEF Network
        <3>. QED
            BY <3>1, <3>2, OneLone
    <2>. QED
        BY <2>1, <2>3, <2>4 DEF Network
<1>. QED
    BY <1>1, <1>2

\* The answer that takes k to k2 shows what was shown, or what the server has.
Keeps(k, k2, tree, lost) ==
    k2.writes # k.writes /\ k2.writes \subseteq k.writes =>
        \A l \in Covered(k.regs) :
            /\ Sees(k2)[l] \in {Sees(k)[l], tree[l]}
            /\ lost = 0 /\ k2.main[Len(k2.main)].ok
                => Sees(k2)[l] = Sees(k)[l]

LEMMA WithoutFirst ==
    ASSUME NEW writes, \A w \in writes : w.id \in Nat,
           \A u, w \in writes : u.id = w.id => u = w,
           NEW v \in writes, \A w \in writes : v.id <= w.id, NEW l
    PROVE  IF v \in Top(writes, l)
           THEN Top(writes, l) = {v} /\ Top(writes \ {v}, l) = {}
           ELSE Top(writes \ {v}, l) = Top(writes, l)
<1>1. CASE v \in Top(writes, l)
    <2>1. ASSUME NEW w \in writes, l \in DOMAIN w.put PROVE w = v
        <3>1. w.id <= v.id /\ v.id <= w.id
            BY <1>1, <2>1 DEF Top
        <3>2. w.id = v.id
            BY <3>1
        <3>. QED
            BY <3>2
    <2>. QED
        BY <1>1, <2>1 DEF Top
<1>2. CASE v \notin Top(writes, l)
    <2>1. ASSUME NEW w \in Top(writes, l) PROVE w \in Top(writes \ {v}, l)
        BY <1>2, <2>1 DEF Top
    <2>2. ASSUME NEW w \in Top(writes \ {v}, l) PROVE w \in Top(writes, l)
        BY <2>2 DEF Top
    <2>. QED
        BY <1>2, <2>1, <2>2
<1>. QED
    BY <1>1, <1>2

LEMMA LastDone ==
    ASSUME NEW k \in ClientState, NEW ack \in Ack, ack.id \in PendingIds(k)
    PROVE  LET k2 == Answer(k, ack) IN k2.main[Len(k2.main)].ok = ack.ok
<1>. DEFINE w == CHOOSE v \in k.writes : v.id = ack.id
            k1 == [k EXCEPT !.writes = @ \ {w}]
            k3 == Raise(k1, Changed(k, k1))
            e == [kind |-> "done", tag |-> w.tag, ok |-> ack.ok]
            k2 == Answer(k, ack)
<1>1. k1 \in ClientState
    BY DEF ClientState
<1>. HIDE DEF k1
<1>3. k3 \in ClientState
    BY <1>1, ChangedType, RaiseType
<1>4. k2 = [k3 EXCEPT !.main = Append(@, e)]
    BY DEF Answer, k1
<1>. HIDE DEF k2, k3, e
<1>5. k2.main = Append(k3.main, e) /\ k3.main \in Seq(Event)
    BY <1>3, <1>4 DEF ClientState
<1>6. k2.main[Len(k2.main)] = e
    BY <1>5
<1>. QED
    BY <1>6 DEF e, k2

\* What the answer x to the write v shows.
LEMMA ActedKeeps ==
    ASSUME NEW k \in ClientState, NEW s \in Seq(Message), NEW tree, NEW lost,
           Solo(k, s, tree), Shows(k, s, tree), Known(k), Released(k), Sound(k, s),
           lost = 0 => Fitting(k, s, tree),
           k.conn /\ k.regs # {} => Prompted(k),
           NEW v, NEW i, NEW x \in Ack, Acts(k, s, v, i, x),
           NEW k2, k2.writes = k.writes \ {v}, k2.cache = k.cache,
           k2.main[Len(k2.main)].ok = x.ok
    PROVE  Keeps(k, k2, tree, lost)
<1>1. SUFFICES ASSUME NEW l \in Covered(k.regs)
               PROVE  /\ Sees(k2)[l] \in {Sees(k)[l], tree[l]}
                      /\ lost = 0 /\ x.ok => Sees(k2)[l] = Sees(k)[l]
    BY DEF Keeps
<1>2. k.conn /\ k.unacked = {}
    BY DEF Acts, Released
<1>3. k.regs # {}
    BY DEF Covered
<1>4. /\ v \in k.writes /\ v.id = x.id /\ i \in Nat /\ AnswerAt(k, s, i, x)
      /\ \A w \in k.writes : v.id <= w.id
    BY <1>2, <1>3 DEF Acts
<1>5. l \in Leaf /\ k.cache[l] # Unknown
    BY <1>2, CoveredLeaf DEF Known
<1>6. /\ \A w \in k.writes : w.id \in Nat
      /\ \A u, w \in k.writes : u.id = w.id => u = w
    BY DEF Sound, Numbered, ClientState, Write
<1>7. /\ Sees(k)[l] = IF Top(k.writes, l) = {} THEN k.cache[l]
                      ELSE (CHOOSE w \in Top(k.writes, l) : TRUE).put[l]
      /\ Sees(k2)[l] = IF Top(k.writes \ {v}, l) = {} THEN k.cache[l]
                       ELSE (CHOOSE w \in Top(k.writes \ {v}, l) : TRUE).put[l]
    BY <1>5 DEF Sees, View
<1>8. CASE v \in Top(k.writes, l)
    <2>1. Top(k.writes, l) = {v} /\ Top(k.writes \ {v}, l) = {}
        BY <1>4, <1>6, <1>8, WithoutFirst
    <2>2. Sees(k)[l] = v.put[l] /\ Sees(k2)[l] = k.cache[l]
        BY <1>7, <2>1
    <2>3. k.cache[l] = tree[l]
        <3>1. k.cache[l] \in {Unknown, tree[l]}
            <4>1. Agrees(k, s, tree)
                BY DEF Solo
            <4>2. \A n \in Leaf : v \in Top(k.writes, n) =>
                                    k.cache[n] \in {Unknown, tree[n]}
                BY <4>1, ActedOn
            <4>. QED
                BY <1>5, <1>8, <4>2
        <3>. QED
            BY <1>5, <3>1
    <2>4. lost = 0 /\ x.ok => tree[l] = v.put[l]
        BY <1>4, <1>5, <1>8 DEF Fitting
    <2>. QED
        BY <2>2, <2>3, <2>4
<1>9. CASE v \notin Top(k.writes, l)
    <2>1. Top(k.writes \ {v}, l) = Top(k.writes, l)
        BY <1>4, <1>6, <1>9, WithoutFirst
    <2>. QED
        BY <1>7, <2>1
<1>. QED
    BY <1>8, <1>9

LEMMA LocalActs ==
    ASSUME Inv, SyncInv, LoneInv, \A c, d \in Client : c = d, NEW c \in Client
    PROVE  /\ client[c] \in ClientState /\ in[c] \in Seq(Message)
           /\ Solo(client[c], in[c], data) /\ Shows(client[c], in[c], data)
           /\ Known(client[c]) /\ Released(client[c]) /\ Sound(client[c], in[c])
           /\ drops = 0 => Fitting(client[c], in[c], data)
           /\ client[c].conn /\ client[c].regs # {} => Prompted(client[c])
    BY Local, LocalSynced, LocalLone, WaitsPrompted DEF Synced, LoneInv

LEMMA AnswerKeeps ==
    ASSUME Inv, SyncInv, LoneInv, \A c, d \in Client : c = d, NEW c \in Client,
           ReceiveAck(c) \/ AckPuts(c)
    PROVE  Keeps(client[c], client'[c], data, drops)
<1>. DEFINE k == client[c]
            s == in[c]
            k2 == client'[c]
<1>1. /\ k \in ClientState /\ s \in Seq(Message)
      /\ Solo(k, s, data) /\ Shows(k, s, data)
      /\ Known(k) /\ Released(k) /\ Sound(k, s)
      /\ drops = 0 => Fitting(k, s, data)
      /\ k.conn /\ k.regs # {} => Prompted(k)
    BY LocalActs
<1>2. CASE ReceiveAck(c)
    <2>. DEFINE x == Head(s).ack
                held == [k EXCEPT !.held = @ \cup {x}]
                v == CHOOSE w \in k.writes : w.id = x.id
    <2>1. /\ s # <<>> /\ Head(s).kind = "ack" /\ ~k.flush
          /\ k2 = IF Holds(k) THEN held ELSE Answer(k, x)
        BY <1>2 DEF ReceiveAck, Arrived, Inv, TypeOK
    <2>2. CASE Holds(k)
        <3>1. k2.writes = k.writes
            BY <1>1, <2>1, <2>2 DEF ClientState
        <3>. QED
            BY <3>1 DEF Keeps
    <2>3. CASE ~Holds(k)
        <3>1. k2 = Answer(k, x)
            BY <2>1, <2>3
        <3>2. x \in Ack /\ x.id \in PendingIds(k)
            BY <1>1, <2>1, HeadAck
        <3>3. Acts(k, s, v, 1, x)
            BY <1>1, <2>1, <2>3, HeadActs DEF Solo
        <3>. HIDE DEF k2, x
        <3>4. k2.writes = k.writes \ {v} /\ k2.cache = k.cache
            BY <1>1, <3>1, <3>2, AnswerFields, AnswerAlike DEF Alike
        <3>5. k2.main[Len(k2.main)].ok = x.ok
            BY <1>1, <3>1, <3>2, LastDone
        <3>. HIDE DEF v
        <3>6. Keeps(k, k2, data, drops)
            BY <1>1, <3>2, <3>3, <3>4, <3>5, ActedKeeps
        <3>. QED
            BY <3>6 DEF k2
    <2>. QED
        BY <2>2, <2>3
<1>3. CASE AckPuts(c)
    <2>1. PICK x \in k.held :
            /\ \A a \in k.held : x.id <= a.id
            /\ client' = [client EXCEPT ![c] = Acked(k, x)] /\ k.flush
        BY <1>3 DEF AckPuts
    <2>. DEFINE v == CHOOSE w \in k.writes : w.id = x.id
                k1 == Answer(k, x)
                flush == k.held # {x}
    <2>2. Acts(k, s, v, 0, x) /\ x \in Ack
        BY <1>1, <2>1, HeldActs DEF Solo
    <2>3. x.id \in PendingIds(k)
        BY <1>1, <2>1 DEF HeldIds, Sound, Accounted
    <2>4. k2 = [k1 EXCEPT !.held = @ \ {x}, !.flush = flush]
        BY <2>1 DEF Acked, Inv, TypeOK
    <2>5. k1 \in ClientState
        BY <1>1, <2>2, <2>3, AnswerType
    <2>6. k1.writes = k.writes \ {v} /\ k1.cache = k.cache
        BY <1>1, <2>2, AnswerFields, AnswerAlike DEF Alike
    <2>7. k1.main[Len(k1.main)].ok = x.ok
        BY <1>1, <2>2, <2>3, LastDone
    <2>. HIDE DEF k1, k2, v
    <2>8. /\ k2.writes = k.writes \ {v} /\ k2.cache = k.cache
          /\ k2.main[Len(k2.main)].ok = x.ok
        BY <2>4, <2>5, <2>6, <2>7 DEF ClientState
    <2>9. Keeps(k, k2, data, drops)
        BY <1>1, <2>2, <2>8, ActedKeeps
    <2>. QED
        BY <2>9 DEF k2
<1>. QED
    BY <1>2, <1>3

\* Only an answer takes a write off those that wait.
LEMMA OthersKeep ==
    ASSUME Inv, SyncInv, NEW c \in Client,
           \/ ServeListen(c) \/ ServeUnlisten(c) \/ ServePut(c) \/ RejectPut(c)
           \/ ReceivePush(c) \/ ReceiveListen(c)
           \/ Disconnect(c) \/ Reconnect(c)
           \/ CallObserve(c) \/ CallSetValue(c) \/ RunValue(c) \/ RunDone(c)
    PROVE  client[c].writes \subseteq client'[c].writes
<1>. DEFINE k == client[c]
            k2 == client'[c]
<1>1. k \in ClientState /\ in[c] \in Seq(Message) /\ client \in [Client -> ClientState]
    BY LocalSynced DEF Inv, TypeOK
<1>2. CASE ServeListen(c) \/ ServeUnlisten(c) \/ ServePut(c) \/ RejectPut(c)
    <2>1. PICK q : client' = [client EXCEPT ![c].out = @ \ {q}]
        BY <1>2 DEF ServeListen, ServeUnlisten, ServePut, RejectPut, Served
    <2>2. k2 = [k EXCEPT !.out = @ \ {q}]
        BY <1>1, <2>1
    <2>. QED
        BY <1>1, <2>2 DEF ClientState
<1>3. CASE Disconnect(c) \/ Reconnect(c)
    <2>1. \/ k2 = [k EXCEPT !.conn = FALSE, !.out = {}, !.unacked = {}]
          \/ \E out, unacked :
                k2 = [k EXCEPT !.conn = TRUE, !.out = out, !.unacked = unacked]
        BY <1>1, <1>3 DEF Disconnect, Reconnect, CutOff
    <2>. HIDE DEF k2
    <2>2. k2.writes = k.writes
        BY <1>1, <2>1 DEF ClientState
    <2>. QED
        BY <2>2 DEF k2
<1>4. CASE ReceivePush(c) \/ ReceiveListen(c)
    <2>. DEFINE m == Head(in[c])
                put == m.put
                k1 == Merge(k, put)
    <2>1. in[c] # <<>> /\ m.kind # "ack"
        BY <1>4 DEF ReceivePush, ReceiveListen, Arrived
    <2>2. put \in Put
        <3>1. m \in Message
            BY <1>1, <2>1
        <3>. QED
            BY <2>1, <3>1 DEF Message
    <2>3. k1 \in ClientState /\ k1.writes = k.writes
        BY <1>1, <2>2, MergeType, MergeFields
    <2>4. k2 = k1 \/ k2 = [k1 EXCEPT !.unacked = @ \ {m.to},
                                     !.flush = /\ k1.unacked \ {m.to} = {}
                                               /\ k1.held # {}]
        <3>1. CASE ReceivePush(c)
            BY <1>1, <3>1 DEF ReceivePush
        <3>2. CASE ReceiveListen(c)
            <4>1. client' = [client EXCEPT ![c] =
                                [k1 EXCEPT !.unacked = @ \ {m.to},
                                           !.flush = /\ k1.unacked \ {m.to} = {}
                                                     /\ k1.held # {}]]
                BY <3>2 DEF ReceiveListen
            <4>. HIDE DEF k1
            <4>. QED
                BY <1>1, <4>1
        <3>. QED
            BY <1>4, <3>1, <3>2
    <2>. HIDE DEF k1, k2
    <2>5. k2.writes = k1.writes
        BY <2>3, <2>4 DEF ClientState
    <2>. QED
        BY <2>3, <2>5 DEF k2
<1>5. CASE CallObserve(c)
    <2>1. PICK path \in Path, single \in BOOLEAN, tag \in Tag :
            client' = [client EXCEPT ![c] = Observe(client[c], path, single, tag)]
        BY <1>5 DEF CallObserve
    <2>. DEFINE r == [id |-> Fresh(k), path |-> path, single |-> single, tag |-> tag]
                k1 == Relisten(k, k.regs \cup {r})
    <2>2. k.regs \cup {r} \in SUBSET Reg
        <3>1. Fresh(k) \in Nat
            BY <1>1, FreshType
        <3>2. r \in Reg
            BY <3>1 DEF Reg
        <3>. QED
            BY <1>1, <3>2 DEF ClientState
    <2>3. k1 \in ClientState /\ k1.writes = k.writes
        BY <1>1, <2>2, RelistenType, RelistenFields
    <2>4. k2 = Observe(k, path, single, tag)
        BY <1>1, <2>1
    <2>5. PICK todo : k2 = Raise(k1, todo)
        BY <2>4 DEF Observe
    <2>. HIDE DEF k1, k2
    <2>6. k2.writes = k1.writes
        BY <2>3, <2>5, RaiseFields
    <2>. QED
        BY <2>3, <2>6 DEF k2
<1>6. CASE CallSetValue(c)
    <2>1. \E put, tag : k2 = SetValue(k, put, tag)
        BY <1>1, <1>6 DEF CallSetValue
    <2>2. PICK put, tag : k2 = SetValue(k, put, tag)
        BY <2>1
    <2>. DEFINE w == [id |-> Fresh(k), put |-> put, tag |-> tag]
    <2>3. SetValue(k, put, tag).writes = k.writes \cup {w}
        BY <1>1 DEF SetValue, Overwrites, Raise, ClientState
    <2>. QED
        BY <2>2, <2>3
<1>7. CASE RunValue(c)
    <2>1. PICK r \in Ready(k) : k2 = TakeValue(k, r) \/ k2 = Begin(k, r)
        BY <1>1, <1>7 DEF RunValue
    <2>. DEFINE k1 == TakeValue(k, r)
    <2>2. k1 \in ClientState /\ k1.writes = k.writes
        BY <1>1, TakeValueType, TakeValueAlike
    <2>3. k2 = k1 \/ k2 = Relisten(k1, k1.regs \ {r})
        BY <2>1 DEF Begin, Unobserve
    <2>. HIDE DEF k1, k2
    <2>4. k1.regs \ {r} \in SUBSET Reg
        BY <2>2 DEF ClientState
    <2>5. k2.writes = k1.writes
        BY <2>2, <2>3, <2>4, RelistenFields
    <2>. QED
        BY <2>2, <2>5 DEF k2
<1>8. CASE RunDone(c)
    <2>1. k2 = TakeDone(k)
        BY <1>1, <1>8 DEF RunDone
    <2>. QED
        BY <1>1, <2>1, TakeDoneAlike
<1>. QED
    BY <1>2, <1>3, <1>4, <1>5, <1>6, <1>7, <1>8

\* With one device, an answer shows nothing at the leaves observed that was not shown
\* before and is not what the server has; while no connection has been lost, the
\* answer to a write that succeeded changes nothing.
THEOREM AnswersDoNotFlicker ==
    ASSUME \A c, d \in Client : c = d
    PROVE  Spec => NoFlicker
<1>1. Init => LoneInv
    BY InitLone
<1>2. Inv /\ SyncInv /\ LoneInv /\ [Next]_vars => LoneInv'
    BY NextLone
<1>3. ASSUME Inv, SyncInv, LoneInv, [Next]_vars
      PROVE  [\A c \in Client :
                LET k == client[c]
                    k2 == client'[c]
                IN  k2.writes # k.writes /\ k2.writes \subseteq k.writes =>
                    \A l \in Covered(k.regs) :
                        /\ Sees(k2)[l] \in {Sees(k)[l], data[l]}
                        /\ drops = 0 /\ k2.main[Len(k2.main)].ok
                            => Sees(k2)[l] = Sees(k)[l]]_vars
    <2>1. CASE UNCHANGED vars
        BY <2>1
    <2>2. CASE Next
        <3>1. PICK c \in Client :
                \/ ServeListen(c) \/ ServeUnlisten(c) \/ ServePut(c) \/ RejectPut(c)
                \/ ReceivePush(c) \/ ReceiveListen(c) \/ ReceiveAck(c) \/ AckPuts(c)
                \/ Disconnect(c) \/ Reconnect(c)
                \/ CallObserve(c) \/ CallSetValue(c) \/ RunValue(c) \/ RunDone(c)
            BY <2>2 DEF Next
        <3>2. Keeps(client[c], client'[c], data, drops)
            <4>1. CASE ReceiveAck(c) \/ AckPuts(c)
                BY <1>3, <4>1, AnswerKeeps
            <4>2. CASE ~(ReceiveAck(c) \/ AckPuts(c))
                <5>1. client[c].writes \subseteq client'[c].writes
                    BY <1>3, <3>1, <4>2, OthersKeep
                <5>2. ~ /\ client'[c].writes # client[c].writes
                        /\ client'[c].writes \subseteq client[c].writes
                    BY <5>1
                <5>. QED
                    BY <5>2 DEF Keeps
            <4>. QED
                BY <4>1, <4>2
        <3>3. \A d \in Client : Keeps(client[d], client'[d], data, drops)
            BY <3>2
        <3>. QED
            BY <3>3 DEF Keeps
    <2>. QED
        BY <1>3, <2>1, <2>2
<1>. QED
    BY <1>1, <1>2, <1>3, Synchronized, PTL DEF Spec, NoFlicker

=============================================================================
