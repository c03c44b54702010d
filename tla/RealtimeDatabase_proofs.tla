---------------------- MODULE RealtimeDatabase_proofs -----------------------
(***************************************************************************)
(* Proofs about RealtimeDatabase, for every set of devices, every tree and *)
(* every bound; and how the answers, the cache and the pending writes of a *)
(* client that is alone hang together, whichever program uses it.          *)
(***************************************************************************)
EXTENDS RealtimeDatabase, TLAPS

-----------------------------------------------------------------------------
(* What the operators on a client's state return. *)

\* What a client sees is, at every leaf, a value or Unknown.
LEMMA SeesType ==
    ASSUME NEW k \in ClientState
    PROVE  Sees(k) \in [Leaf -> Seen]
<1>1. k.cache \in [Leaf -> Seen] /\ k.writes \in SUBSET Write
    BY DEF ClientState
<1>2. ASSUME NEW l \in Leaf, Top(k.writes, l) # {}
      PROVE  (CHOOSE w \in Top(k.writes, l) : TRUE).put[l] \in Value
    <2>1. PICK w \in Top(k.writes, l) : w = CHOOSE v \in Top(k.writes, l) : TRUE
        BY <1>2
    <2>2. w \in Write /\ l \in DOMAIN w.put
        BY <1>1, <2>1 DEF Top
    <2>3. PICK S \in SUBSET Leaf : w.put \in [S -> Value]
        BY <2>2 DEF Write, Put
    <2>. QED
        BY <2>1, <2>2, <2>3
<1>. QED
    BY <1>1, <1>2 DEF Sees, View, Seen

\* Raising events adds to the main queue and changes nothing else.
LEMMA RaiseFields ==
    ASSUME NEW k \in ClientState, NEW todo
    PROVE  /\ Raise(k, todo).conn = k.conn
           /\ Raise(k, todo).cache = k.cache
           /\ Raise(k, todo).writes = k.writes
           /\ Raise(k, todo).regs = k.regs
           /\ Raise(k, todo).out = k.out
           /\ Raise(k, todo).unacked = k.unacked
           /\ Raise(k, todo).held = k.held
           /\ Raise(k, todo).flush = k.flush
           /\ Raise(k, todo).next = k.next
    BY DEF Raise, ClientState

LEMMA RaiseType ==
    ASSUME NEW k \in ClientState, NEW todo \in SUBSET Reg
    PROVE  Raise(k, todo) \in ClientState
<1>. DEFINE view == [l \in Leaf |-> IF \E r \in todo : l \in r.path
                                    THEN Sees(k)[l] ELSE Unknown]
            e == [kind |-> "value", todo |-> todo, view |-> view]
<1>1. view \in [Leaf -> Seen]
    BY SeesType DEF Seen
<1>2. e \in Event
    BY <1>1 DEF Event
<1>. HIDE DEF view, e
<1>3. Append(k.main, e) \in Seq(Event)
    BY <1>2 DEF ClientState
<1>4. [k EXCEPT !.main = Append(@, e)] \in ClientState
    BY <1>3 DEF ClientState
<1>5. Raise(k, todo) = IF todo = {} THEN k ELSE [k EXCEPT !.main = Append(@, e)]
    BY DEF Raise, e, view
<1>. QED
    BY <1>4, <1>5

\* A fresh id is above the id of every pending write.
LEMMA FreshType ==
    ASSUME NEW k \in ClientState
    PROVE  /\ Fresh(k) \in Nat
           /\ (\A w \in k.writes : w.id < k.next) =>
                    \A w \in k.writes : w.id < Fresh(k)
<1>. DEFINE P(n) == \/ n = k.next
                    \/ /\ n > 0
                       /\ \A w \in k.writes \cup k.regs \cup Queued(k) : w.id < n
                       /\ \A q \in k.out \cup k.unacked : q.rank < n
<1>1. k.next \in 0..k.next /\ P(k.next)
    BY DEF ClientState
<1>2. (CHOOSE n \in 0..k.next : P(n)) \in 0..k.next /\ P(CHOOSE n \in 0..k.next : P(n))
    BY <1>1
<1>3. k.next \in Nat /\ 0..k.next \subseteq Nat
    BY DEF ClientState
<1>4. Fresh(k) = IF Reuse THEN CHOOSE n \in 0..k.next : P(n) ELSE k.next
    BY DEF Fresh
<1>. QED
    BY <1>2, <1>3, <1>4

\* Relisten keeps a client's state well typed, and the writes as they were; it
\* adds no put to the wire.
LEMMA RelistenType ==
    ASSUME NEW k \in ClientState, NEW regs \in SUBSET Reg
    PROVE  Relisten(k, regs) \in ClientState
<1>. DEFINE old == Outermost(k.regs)
            new == Outermost(regs)
            listens == {[kind |-> "listen", rank |-> Fresh(k), path |-> p] :
                            p \in new \ old}
            unlistens == {[kind |-> "unlisten", rank |-> Fresh(k) + 1, path |-> p] :
                            p \in old \ new}
<1>1. old \subseteq Path /\ new \subseteq Path
    BY DEF Outermost, ClientState, Reg
<1>2. Fresh(k) \in Nat /\ Fresh(k) + 1 \in Nat /\ Fresh(k) + 2 \in Nat
    BY FreshType
<1>3. listens \subseteq Listen /\ unlistens \subseteq Request
    BY <1>1, <1>2 DEF Listen, Request
<1>4. Listen \subseteq Request
    BY DEF Request
<1>. HIDE DEF listens, unlistens
<1>. DEFINE cache == [l \in Leaf |-> IF l \in Covered(regs)
                                     THEN k.cache[l] ELSE Unknown]
            out == IF k.conn THEN k.out \cup listens \cup unlistens ELSE k.out
            unacked == IF k.conn THEN k.unacked \cup listens ELSE k.unacked
            next == Fresh(k) + 2
<1>5. cache \in [Leaf -> Seen]
    BY DEF ClientState, Seen
<1>6. out \in SUBSET Request /\ unacked \in SUBSET Listen /\ next \in Nat
    BY <1>2, <1>3, <1>4 DEF ClientState
<1>7. Relisten(k, regs) = [k EXCEPT !.regs = regs, !.cache = cache,
                                    !.out = out, !.unacked = unacked,
                                    !.next = next]
    BY DEF Relisten, listens, unlistens
<1>. HIDE DEF cache, out, unacked, next
<1>8. [k EXCEPT !.regs = regs, !.cache = cache, !.out = out,
                !.unacked = unacked, !.next = next] \in ClientState
    BY <1>5, <1>6 DEF ClientState
<1>. QED
    BY <1>7, <1>8

LEMMA RelistenFields ==
    ASSUME NEW k \in ClientState, NEW regs \in SUBSET Reg
    PROVE  /\ Relisten(k, regs).conn = k.conn
           /\ Relisten(k, regs).writes = k.writes
           /\ Relisten(k, regs).held = k.held
           /\ Relisten(k, regs).flush = k.flush
           /\ Relisten(k, regs).next = Fresh(k) + 2
           /\ Relisten(k, regs).regs = regs
           /\ ~k.conn => Relisten(k, regs).out = k.out
           /\ k.out \subseteq Relisten(k, regs).out
           /\ \A q \in Relisten(k, regs).out \ k.out : q.kind # "put"
    BY DEF Relisten, ClientState

LEMMA ObserveType ==
    ASSUME NEW k \in ClientState, NEW path \in Path, NEW single \in BOOLEAN,
           NEW tag \in Tag
    PROVE  Observe(k, path, single, tag) \in ClientState
<1>. DEFINE r == [id |-> Fresh(k), path |-> path, single |-> single, tag |-> tag]
            k2 == Relisten(k, k.regs \cup {r})
            todo == IF Complete(Sees(k2), path) THEN {r} ELSE {}
<1>1. r \in Reg
    BY FreshType DEF Reg, ClientState
<1>. HIDE DEF r
<1>2. k.regs \cup {r} \in SUBSET Reg
    BY <1>1 DEF ClientState
<1>3. k2 \in ClientState
    BY <1>2, RelistenType
<1>4. todo \in SUBSET Reg
    BY <1>1
<1>5. Observe(k, path, single, tag) = Raise(k2, todo)
    BY DEF Observe, r
<1>. QED
    BY <1>3, <1>4, <1>5, RaiseType

LEMMA UnobserveType ==
    ASSUME NEW k \in ClientState, NEW r
    PROVE  Unobserve(k, r) \in ClientState
<1>1. k.regs \ {r} \in SUBSET Reg
    BY DEF ClientState
<1>. QED
    BY <1>1, RelistenType DEF Unobserve

\* The registrations an event is raised for are registrations.
LEMMA ChangedType ==
    ASSUME NEW k, NEW k2 \in ClientState
    PROVE  Changed(k, k2) \in SUBSET Reg
    BY DEF Changed, ClientState

LEMMA SetValueType ==
    ASSUME NEW k \in ClientState, NEW put \in Put, NEW tag \in Tag
    PROVE  SetValue(k, put, tag) \in ClientState
<1>. DEFINE w == [id |-> Fresh(k), put |-> put, tag |-> tag]
            q == [kind |-> "put", rank |-> Fresh(k), put |-> put]
            writes == k.writes \cup {w}
            out == IF k.conn THEN k.out \cup {q} ELSE k.out
            next == Fresh(k) + 1
            k2 == [k EXCEPT !.writes = writes, !.out = out, !.next = next]
<1>1. Fresh(k) \in Nat
    BY FreshType
<1>2. w \in Write /\ q \in Request
    BY <1>1 DEF Write, Request
<1>. HIDE DEF w, q
<1>3. writes \in SUBSET Write /\ out \in SUBSET Request /\ next \in Nat
    BY <1>1, <1>2 DEF ClientState
<1>4. SetValue(k, put, tag) = Raise(k2, Changed(k, k2))
    BY DEF SetValue, Overwrites, w, q
<1>. HIDE DEF writes, out, next
<1>5. k2 \in ClientState
    BY <1>3 DEF ClientState
<1>. HIDE DEF k2
<1>. QED
    BY <1>4, <1>5, ChangedType, RaiseType

LEMMA MergeType ==
    ASSUME NEW k \in ClientState, NEW put \in Put
    PROVE  Merge(k, put) \in ClientState
<1>. DEFINE k2 == [k EXCEPT !.cache = [l \in Leaf |-> IF l \in Merged(k, put)
                                                     THEN put[l] ELSE @[l]]]
<1>1. PICK S \in SUBSET Leaf : put \in [S -> Value]
    BY DEF Put
<1>2. [l \in Leaf |-> IF l \in Merged(k, put) THEN put[l] ELSE k.cache[l]]
            \in [Leaf -> Seen]
    BY <1>1 DEF Merged, ClientState, Seen
<1>3. k2 \in ClientState
    BY <1>2 DEF ClientState
<1>4. Merge(k, put) = Raise(k2, Changed(k, k2))
    BY DEF Merge
<1>. HIDE DEF k2
<1>. QED
    BY <1>3, <1>4, ChangedType, RaiseType

\* Answering a pending write keeps the state well typed.
LEMMA AnswerType ==
    ASSUME NEW k \in ClientState, NEW ack \in Ack, ack.id \in PendingIds(k)
    PROVE  Answer(k, ack) \in ClientState
<1>. DEFINE w == CHOOSE v \in k.writes : v.id = ack.id
            writes == k.writes \ {w}
            k2 == [k EXCEPT !.writes = writes]
            k3 == Raise(k2, Changed(k, k2))
            e == [kind |-> "done", tag |-> w.tag, ok |-> ack.ok]
<1>1. w \in k.writes
    BY DEF PendingIds
<1>2. w \in Write
    BY <1>1 DEF ClientState
<1>3. e \in Event
    BY <1>2 DEF Event, Write, Ack
<1>4. writes \in SUBSET Write
    BY DEF ClientState
<1>5. Answer(k, ack) = [k3 EXCEPT !.main = Append(@, e)]
    BY DEF Answer
<1>. HIDE DEF w, writes
<1>6. k2 \in ClientState
    BY <1>4 DEF ClientState
<1>. HIDE DEF k2
<1>7. k3 \in ClientState
    BY <1>6, ChangedType, RaiseType
<1>. HIDE DEF k3, e
<1>8. Append(k3.main, e) \in Seq(Event)
    BY <1>3, <1>7 DEF ClientState
<1>. QED
    BY <1>5, <1>7, <1>8 DEF ClientState

LEMMA TakeValueType ==
    ASSUME NEW k \in ClientState, NEW r \in Ready(k)
    PROVE  TakeValue(k, r) \in ClientState
<1>1. k.main \in Seq(Event) /\ k.main # <<>> /\ k.main[1].kind = "value"
    BY DEF Ready, ClientState
<1>2. 1 \in DOMAIN k.main /\ k.main[1] \in Event
    BY <1>1
<1>3. k.main[1] \in [kind : {"value"}, todo : SUBSET Reg, view : [Leaf -> Seen]]
    BY <1>1, <1>2 DEF Event
<1>. DEFINE e == Without(k.main[1], r)
            main == [k.main EXCEPT ![1] = e]
<1>4. e \in Event
    BY <1>3 DEF Event, Without
<1>. HIDE DEF e
<1>5. main \in Seq(Event)
    BY <1>1, <1>2, <1>4
<1>6. Tail(k.main) \in Seq(Event)
    BY <1>1
<1>7. TakeValue(k, r) =
        [k EXCEPT !.main = IF Head(k.main).todo = {r} THEN Tail(k.main) ELSE main]
    BY <1>1 DEF TakeValue, e
<1>. HIDE DEF main
<1>. QED
    BY <1>5, <1>6, <1>7 DEF ClientState

\* Every block on the main queue leaves the state well typed.
LEMMA BeginType ==
    ASSUME NEW k \in ClientState, NEW r \in Ready(k)
    PROVE  Begin(k, r) \in ClientState
    BY TakeValueType, UnobserveType DEF Begin

LEMMA TakeDoneType ==
    ASSUME NEW k \in ClientState, k.main # <<>>
    PROVE  TakeDone(k) \in ClientState
<1>1. Tail(k.main) \in Seq(Event)
    BY DEF ClientState
<1>. QED
    BY <1>1 DEF TakeDone, ClientState

-----------------------------------------------------------------------------
(* What the operators do to the fields that the invariants are about. *)

LEMMA ObserveFields ==
    ASSUME NEW k \in ClientState, NEW path \in Path, NEW single \in BOOLEAN,
           NEW tag \in Tag, NEW k2, k2 = Observe(k, path, single, tag)
    PROVE  /\ k2.conn = k.conn /\ k2.writes = k.writes /\ k2.held = k.held
           /\ k2.next = Fresh(k) + 2
           /\ ~k.conn => k2.out = k.out
           /\ k.out \subseteq k2.out
           /\ \A q \in k2.out \ k.out : q.kind # "put"
<1>. DEFINE r == [id |-> Fresh(k), path |-> path, single |-> single, tag |-> tag]
            k1 == Relisten(k, k.regs \cup {r})
<1>1. k.regs \cup {r} \in SUBSET Reg
    BY FreshType DEF Reg, ClientState
<1>2. k1 \in ClientState
    BY <1>1, RelistenType
<1>3. /\ k1.conn = k.conn /\ k1.writes = k.writes /\ k1.held = k.held
      /\ k1.next = Fresh(k) + 2
      /\ ~k.conn => k1.out = k.out
      /\ k.out \subseteq k1.out
      /\ \A q \in k1.out \ k.out : q.kind # "put"
    BY <1>1, RelistenFields
<1>4. PICK todo : k2 = Raise(k1, todo)
    BY DEF Observe
<1>. HIDE DEF k1
<1>. QED
    BY <1>2, <1>3, <1>4, RaiseFields

LEMMA UnobserveFields ==
    ASSUME NEW k \in ClientState, NEW r, NEW k2, k2 = Unobserve(k, r)
    PROVE  /\ k2.conn = k.conn /\ k2.writes = k.writes /\ k2.held = k.held
           /\ k2.next = Fresh(k) + 2
           /\ ~k.conn => k2.out = k.out
           /\ k.out \subseteq k2.out
           /\ \A q \in k2.out \ k.out : q.kind # "put"
<1>1. k.regs \ {r} \in SUBSET Reg
    BY DEF ClientState
<1>. QED
    BY <1>1, RelistenFields DEF Unobserve

LEMMA SetValueFields ==
    ASSUME NEW k \in ClientState, NEW put \in Put, NEW tag \in Tag,
           NEW k2, k2 = SetValue(k, put, tag)
    PROVE  /\ k2.conn = k.conn /\ k2.held = k.held /\ k2.next = Fresh(k) + 1
           /\ k2.writes = k.writes \cup {[id |-> Fresh(k), put |-> put, tag |-> tag]}
           /\ k2.out = IF k.conn
                       THEN k.out \cup {[kind |-> "put", rank |-> Fresh(k),
                                         put |-> put]}
                       ELSE k.out
<1>. DEFINE w == [id |-> Fresh(k), put |-> put, tag |-> tag]
            q == [kind |-> "put", rank |-> Fresh(k), put |-> put]
            writes == k.writes \cup {w}
            out == IF k.conn THEN k.out \cup {q} ELSE k.out
            next == Fresh(k) + 1
            k1 == [k EXCEPT !.writes = writes, !.out = out, !.next = next]
<1>1. Fresh(k) \in Nat
    BY FreshType
<1>2. w \in Write /\ q \in Request
    BY <1>1 DEF Write, Request
<1>3. k2 = Raise(k1, Changed(k, k1))
    BY DEF SetValue, Overwrites
<1>. HIDE DEF w, q
<1>4. writes \in SUBSET Write /\ out \in SUBSET Request /\ next \in Nat
    BY <1>1, <1>2 DEF ClientState
<1>. HIDE DEF writes, out, next
<1>5. /\ k1 \in ClientState /\ k1.conn = k.conn /\ k1.held = k.held
      /\ k1.next = next /\ k1.writes = writes /\ k1.out = out
    BY <1>4 DEF ClientState
<1>. HIDE DEF k1
<1>6. /\ k2.conn = k1.conn /\ k2.held = k1.held /\ k2.next = k1.next
      /\ k2.writes = k1.writes /\ k2.out = k1.out
    BY <1>3, <1>5, RaiseFields
<1>. QED
    BY <1>5, <1>6 DEF w, q, writes, out, next

LEMMA MergeFields ==
    ASSUME NEW k \in ClientState, NEW put \in Put
    PROVE  /\ Merge(k, put).conn = k.conn /\ Merge(k, put).writes = k.writes
           /\ Merge(k, put).held = k.held /\ Merge(k, put).next = k.next
           /\ Merge(k, put).out = k.out
<1>. DEFINE k2 == Merge(k, put)
<1>. DEFINE cache == [l \in Leaf |-> IF l \in Merged(k, put)
                                     THEN put[l] ELSE k.cache[l]]
            k1 == [k EXCEPT !.cache = cache]
<1>1. PICK S \in SUBSET Leaf : put \in [S -> Value]
    BY DEF Put
<1>2. cache \in [Leaf -> Seen]
    BY <1>1 DEF Merged, ClientState, Seen
<1>3. k2 = Raise(k1, Changed(k, k1))
    BY DEF Merge
<1>. HIDE DEF cache
<1>4. /\ k1 \in ClientState /\ k1.conn = k.conn /\ k1.writes = k.writes
      /\ k1.held = k.held /\ k1.next = k.next /\ k1.out = k.out
    BY <1>2 DEF ClientState
<1>. HIDE DEF k1
<1>. QED
    BY <1>3, <1>4, RaiseFields

\* An answer takes one write off the pending ones.
LEMMA AnswerFields ==
    ASSUME NEW k \in ClientState, NEW ack \in Ack
    PROVE  /\ Answer(k, ack).conn = k.conn /\ Answer(k, ack).held = k.held
           /\ Answer(k, ack).next = k.next /\ Answer(k, ack).out = k.out
           /\ Answer(k, ack).writes =
                k.writes \ {CHOOSE v \in k.writes : v.id = ack.id}
<1>. DEFINE k2 == Answer(k, ack)
<1>. DEFINE w == CHOOSE v \in k.writes : v.id = ack.id
            writes == k.writes \ {w}
            k1 == [k EXCEPT !.writes = writes]
            k3 == Raise(k1, Changed(k, k1))
            e == [kind |-> "done", tag |-> w.tag, ok |-> ack.ok]
<1>1. writes \in SUBSET Write
    BY DEF ClientState
<1>2. k2 = [k3 EXCEPT !.main = Append(@, e)]
    BY DEF Answer
<1>. HIDE DEF writes, e
<1>3. /\ k1 \in ClientState /\ k1.conn = k.conn /\ k1.writes = writes
      /\ k1.held = k.held /\ k1.next = k.next /\ k1.out = k.out
    BY <1>1 DEF ClientState
<1>. HIDE DEF k1
<1>4. k3 \in ClientState
    BY <1>3, ChangedType, RaiseType
<1>5. /\ k3.conn = k1.conn /\ k3.writes = k1.writes /\ k3.held = k1.held
      /\ k3.next = k1.next /\ k3.out = k1.out
    BY <1>3, RaiseFields
<1>. HIDE DEF k3
<1>6. /\ k2.conn = k3.conn /\ k2.writes = k3.writes /\ k2.held = k3.held
      /\ k2.next = k3.next /\ k2.out = k3.out
    BY <1>2, <1>4 DEF ClientState
<1>. HIDE DEF k2
<1>7. /\ k2.conn = k.conn /\ k2.held = k.held
      /\ k2.next = k.next /\ k2.out = k.out /\ k2.writes = writes
    BY <1>3, <1>5, <1>6
<1>. QED
    BY <1>7 DEF writes, k2

-----------------------------------------------------------------------------
(* The answers in an inbox. *)

LEMMA AcksAppend ==
    ASSUME NEW s \in Seq(Message), NEW m \in Message
    PROVE  AcksIn(Append(s, m)) =
                AcksIn(s) \cup (IF m.kind = "ack" THEN {m.ack} ELSE {})
<1>. DEFINE t == Append(s, m)
<1>1. /\ DOMAIN t = DOMAIN s \cup {Len(s) + 1} /\ t[Len(s) + 1] = m
      /\ \A i \in DOMAIN s : t[i] = s[i]
    OBVIOUS
<1>. HIDE DEF t
<1>. QED
    BY <1>1 DEF AcksIn

LEMMA AcksTail ==
    ASSUME NEW s \in Seq(Message), s # <<>>
    PROVE  AcksIn(s) = AcksIn(Tail(s)) \cup
                        (IF Head(s).kind = "ack" THEN {Head(s).ack} ELSE {})
<1>. DEFINE t == Tail(s)
<1>1. /\ Len(s) \in Nat /\ Len(s) > 0 /\ DOMAIN s = 1..Len(s)
      /\ DOMAIN t = 1..(Len(s) - 1)
      /\ \A i \in DOMAIN t : t[i] = s[i + 1]
      /\ Head(s) = s[1]
    OBVIOUS
<1>2. \A i \in DOMAIN s : i = 1 \/ (i - 1 \in DOMAIN t /\ s[i] = t[i - 1])
    BY <1>1
<1>3. 1 \in DOMAIN s /\ \A i \in DOMAIN t : i + 1 \in DOMAIN s
    BY <1>1
<1>. HIDE DEF t
<1>4. AcksIn(t) \subseteq AcksIn(s)
    BY <1>1, <1>3 DEF AcksIn
<1>5. Head(s).kind = "ack" => Head(s).ack \in AcksIn(s)
    BY <1>1, <1>3 DEF AcksIn
<1>6. \A a \in AcksIn(s) : a \in AcksIn(t) \/ (Head(s).kind = "ack" /\ a = Head(s).ack)
    BY <1>1, <1>2 DEF AcksIn
<1>. QED
    BY <1>4, <1>5, <1>6 DEF t

LEMMA OnceAppend ==
    ASSUME NEW s \in Seq(Message), NEW m \in Message, Once(s),
           m.kind = "ack" => m.ack.id \notin AckIds(s)
    PROVE  Once(Append(s, m))
<1>. DEFINE t == Append(s, m)
<1>1. /\ DOMAIN t = DOMAIN s \cup {Len(s) + 1} /\ t[Len(s) + 1] = m
      /\ \A i \in DOMAIN s : t[i] = s[i]
    OBVIOUS
<1>2. \A i \in DOMAIN s : s[i].kind = "ack" => s[i].ack.id \in AckIds(s)
    BY DEF AckIds, AcksIn
<1>. HIDE DEF t
<1>. QED
    BY <1>1, <1>2 DEF Once, t

LEMMA OnceTail ==
    ASSUME NEW s \in Seq(Message), s # <<>>, Once(s)
    PROVE  /\ Once(Tail(s))
           /\ Head(s).kind = "ack" => Head(s).ack.id \notin AckIds(Tail(s))
<1>. DEFINE t == Tail(s)
<1>1. /\ Len(s) \in Nat /\ Len(s) > 0 /\ DOMAIN s = 1..Len(s)
      /\ DOMAIN t = 1..(Len(s) - 1)
      /\ \A i \in DOMAIN t : t[i] = s[i + 1]
      /\ Head(s) = s[1]
    OBVIOUS
<1>2. 1 \in DOMAIN s /\ \A i \in DOMAIN t : i + 1 \in DOMAIN s /\ i + 1 # 1
    BY <1>1
<1>3. \A i, j \in DOMAIN t : i + 1 = j + 1 => i = j
    BY <1>1
<1>. HIDE DEF t
<1>4. Once(t)
    BY <1>1, <1>2, <1>3 DEF Once
<1>5. Head(s).kind = "ack" => Head(s).ack.id \notin AckIds(t)
    BY <1>1, <1>2 DEF Once, AckIds, AcksIn
<1>. QED
    BY <1>4, <1>5 DEF t

-----------------------------------------------------------------------------
(* The inductive invariant, one client at a time. *)

Sound(k, s) == Accounted(k, s) /\ Numbered(k, s)

\* A step that touches neither the writes nor the puts on the wire nor the
\* answers keeps the invariant.
LEMMA CalmStep ==
    ASSUME NEW k \in ClientState, NEW k2 \in ClientState,
           NEW s \in Seq(Message), Sound(k, s),
           k2.conn = k.conn, k2.writes = k.writes, k2.held = k.held,
           \A w \in k.writes : w.id < k2.next,
           ~k.conn => k2.out = k.out,
           k.out \subseteq k2.out,
           \A q \in k2.out \ k.out : q.kind # "put"
    PROVE  Sound(k2, s)
<1>1. PutIds(k2) = PutIds(k)
    BY DEF PutIds
<1>2. HeldIds(k2) = HeldIds(k) /\ PendingIds(k2) = PendingIds(k)
    BY DEF HeldIds, PendingIds
<1>3. Accounted(k2, s)
    BY <1>1, <1>2 DEF Sound, Accounted
<1>4. \A w \in k2.writes : w.id < k2.next
    OBVIOUS
<1>5. \A q \in k2.out : q.kind = "put" =>
            \E w \in k2.writes : q.rank = w.id /\ q.put = w.put
    BY DEF Sound, Numbered
<1>. QED
    BY <1>3, <1>4, <1>5 DEF Sound, Numbered

\* An inbox that gains or loses messages that are not answers, on a live
\* connection.
LEMMA CalmInbox ==
    ASSUME NEW k \in ClientState, NEW s \in Seq(Message), Sound(k, s), k.conn,
           NEW t \in Seq(Message), AcksIn(t) = AcksIn(s), Once(t)
    PROVE  Sound(k, t)
<1>1. AckIds(t) = AckIds(s)
    BY DEF AckIds
<1>. QED
    BY <1>1 DEF Sound, Accounted, Numbered

\* What is numbered next is above every pending write.
LEMMA FreshAbove ==
    ASSUME NEW k \in ClientState, NEW s \in Seq(Message), Sound(k, s)
    PROVE  \A w \in k.writes : w.id < Fresh(k) + 2
<1>1. Fresh(k) \in Nat /\ \A w \in k.writes : w.id \in Nat /\ w.id < Fresh(k)
    BY FreshType DEF Sound, Numbered, ClientState, Write
<1>. QED
    BY <1>1

\* A new write is pending and, on a live connection, on the wire.
LEMMA SetValueSound ==
    ASSUME NEW k \in ClientState, NEW put \in Put, NEW tag \in Tag,
           NEW s \in Seq(Message), Sound(k, s)
    PROVE  /\ Sound(SetValue(k, put, tag), s)
           /\ SetValue(k, put, tag).conn = k.conn
<1>. DEFINE k2 == SetValue(k, put, tag)
            w == [id |-> Fresh(k), put |-> put, tag |-> tag]
            q == [kind |-> "put", rank |-> Fresh(k), put |-> put]
<1>1. /\ k2.conn = k.conn /\ k2.held = k.held /\ k2.next = Fresh(k) + 1
      /\ k2.writes = k.writes \cup {w}
      /\ k2.out = IF k.conn THEN k.out \cup {q} ELSE k.out
    BY ZenonT(30), SetValueFields
<1>2. w.id = Fresh(k) /\ w.put = put /\ q.kind = "put" /\ q.rank = Fresh(k) /\ q.put = put
    OBVIOUS
<1>3. Fresh(k) \in Nat /\ \A v \in k.writes : v.id \in Nat /\ v.id < Fresh(k)
    BY FreshType DEF Sound, Numbered, ClientState, Write
<1>. HIDE DEF k2, w, q
<1>4. PendingIds(k2) = PendingIds(k) \cup {Fresh(k)}
    BY <1>1, <1>2 DEF PendingIds
<1>5. HeldIds(k2) = HeldIds(k)
    BY <1>1 DEF HeldIds
<1>6. PutIds(k2) = IF k.conn THEN PutIds(k) \cup {Fresh(k)} ELSE PutIds(k)
    BY <1>1, <1>2 DEF PutIds
<1>7. Fresh(k) \notin PendingIds(k)
    BY <1>3 DEF Sound, Numbered, PendingIds
<1>8. Accounted(k2, s)
    BY <1>1, <1>4, <1>5, <1>6, <1>7 DEF Sound, Accounted
<1>9. \A v \in k2.writes : v.id < k2.next
    BY <1>1, <1>2, <1>3 DEF Sound, Numbered
<1>10. \A u, v \in k2.writes : u.id = v.id => u = v
    BY <1>1, <1>2, <1>7 DEF Sound, Numbered, PendingIds
<1>11. \A p \in k2.out : p.kind = "put" =>
            \E v \in k2.writes : p.rank = v.id /\ p.put = v.put
    BY <1>1, <1>2 DEF Sound, Numbered
<1>12. Numbered(k2, s)
    BY <1>1, <1>9, <1>10, <1>11 DEF Sound, Numbered
<1>. QED
    BY <1>1, <1>8, <1>12 DEF Sound, k2

\* The server takes a put off the wire and sends its answer.
LEMMA ServedSound ==
    ASSUME NEW k \in ClientState, NEW s \in Seq(Message), Sound(k, s), k.conn,
           NEW q \in k.out, q.kind = "put", NEW ok \in BOOLEAN,
           NEW k2, k2 = [k EXCEPT !.out = @ \ {q}],
           NEW m \in Message, m.kind = "ack", m.ack = [id |-> q.rank, ok |-> ok]
    PROVE  Sound(k2, Append(s, m))
<1>1. /\ k2.conn = k.conn /\ k2.writes = k.writes /\ k2.held = k.held
      /\ k2.next = k.next /\ k2.out = k.out \ {q}
    BY DEF ClientState
<1>2. AckIds(Append(s, m)) = AckIds(s) \cup {q.rank}
    BY AcksAppend DEF AckIds
<1>3. q.rank \in PutIds(k)
    BY DEF PutIds
<1>4. \A p \in k.out : p.kind = "put" /\ p.rank = q.rank => p = q
    <2>1. SUFFICES ASSUME NEW p \in k.out, p.kind = "put", p.rank = q.rank
                   PROVE  p = q
        OBVIOUS
    <2>2. PICK v \in k.writes : p.rank = v.id /\ p.put = v.put
        BY <2>1 DEF Sound, Numbered
    <2>3. PICK w \in k.writes : q.rank = w.id /\ q.put = w.put
        BY DEF Sound, Numbered
    <2>4. v = w
        BY <2>1, <2>2, <2>3 DEF Sound, Numbered
    <2>5. p \in [kind : {"put"}, rank : Nat, put : Put]
          /\ q \in [kind : {"put"}, rank : Nat, put : Put]
        BY <2>1 DEF ClientState, Request, Listen
    <2>. QED
        BY <2>1, <2>2, <2>3, <2>4, <2>5
<1>5. PutIds(k2) = PutIds(k) \ {q.rank}
    BY <1>1, <1>4 DEF PutIds
<1>6. HeldIds(k2) = HeldIds(k) /\ PendingIds(k2) = PendingIds(k)
    BY <1>1 DEF HeldIds, PendingIds
<1>7. Once(Append(s, m))
    <2>1. q.rank \notin AckIds(s)
        BY <1>3 DEF Sound, Accounted
    <2>. QED
        BY <2>1, OnceAppend DEF Sound, Accounted
<1>8. Accounted(k2, Append(s, m))
    <2>. DEFINE P == PutIds(k)
                A == AckIds(s)
                H == HeldIds(k)
                W == PendingIds(k)
    <2>1. /\ P \cup A \cup H \subseteq W
          /\ P \cap A = {} /\ P \cap H = {} /\ A \cap H = {}
          /\ W \subseteq P \cup A \cup H
        BY DEF Sound, Accounted
    <2>. HIDE DEF P, A, H, W
    <2>2. /\ (P \ {q.rank}) \cup (A \cup {q.rank}) \cup H \subseteq W
          /\ (P \ {q.rank}) \cap (A \cup {q.rank}) = {}
          /\ (P \ {q.rank}) \cap H = {}
          /\ (A \cup {q.rank}) \cap H = {}
          /\ W \subseteq (P \ {q.rank}) \cup (A \cup {q.rank}) \cup H
        BY <1>3, <2>1 DEF P
    <2>. QED
        BY <1>1, <1>2, <1>5, <1>6, <1>7, <2>2 DEF Accounted, P, A, H, W
<1>9. Numbered(k2, Append(s, m))
    BY <1>1 DEF Sound, Numbered
<1>. QED
    BY <1>8, <1>9 DEF Sound

\* A write that has been answered leaves the pending ones with its answer.
LEMMA RetiredSound ==
    ASSUME NEW k \in ClientState, NEW s \in Seq(Message), Sound(k, s),
           NEW id \in PendingIds(k), id \notin PutIds(k),
           NEW k2 \in ClientState, NEW t \in Seq(Message),
           k2.conn = k.conn, k2.out = k.out, k2.next = k.next,
           k2.writes = k.writes \ {CHOOSE v \in k.writes : v.id = id},
           k2.held \subseteq k.held, HeldIds(k2) = HeldIds(k) \ {id},
           AckIds(t) = AckIds(s) \ {id}, Once(t), ~k.conn => t = <<>>
    PROVE  Sound(k2, t)
<1>. DEFINE w == CHOOSE v \in k.writes : v.id = id
<1>1. w \in k.writes /\ w.id = id
    BY DEF PendingIds
<1>2. \A v \in k.writes : v.id = id => v = w
    BY <1>1 DEF Sound, Numbered
<1>3. k2.writes = k.writes \ {w}
    OBVIOUS
<1>. HIDE DEF w
<1>4. PendingIds(k2) = PendingIds(k) \ {id}
    BY <1>1, <1>2, <1>3 DEF PendingIds
<1>5. PutIds(k2) = PutIds(k)
    BY DEF PutIds
<1>6. Accounted(k2, t)
    <2>. DEFINE P == PutIds(k)
                A == AckIds(s)
                H == HeldIds(k)
                W == PendingIds(k)
    <2>1. /\ P \cup A \cup H \subseteq W
          /\ P \cap A = {} /\ P \cap H = {} /\ A \cap H = {}
          /\ k.conn => W \subseteq P \cup A \cup H
          /\ id \notin P
        BY DEF Sound, Accounted
    <2>. HIDE DEF P, A, H, W
    <2>2. /\ P \cup (A \ {id}) \cup (H \ {id}) \subseteq W \ {id}
          /\ P \cap (A \ {id}) = {} /\ P \cap (H \ {id}) = {}
          /\ (A \ {id}) \cap (H \ {id}) = {}
          /\ k.conn => W \ {id} \subseteq P \cup (A \ {id}) \cup (H \ {id})
        BY <2>1
    <2>. QED
        BY <1>4, <1>5, <2>2 DEF Accounted, P, A, H, W
<1>7. \A q \in k2.out : q.kind = "put" =>
            \E v \in k2.writes : q.rank = v.id /\ q.put = v.put
    BY <1>1, <1>3 DEF Sound, Numbered, PutIds
<1>8. Numbered(k2, t)
    BY <1>3, <1>7 DEF Sound, Numbered
<1>. QED
    BY <1>6, <1>8 DEF Sound

\* The answer at the head of the inbox is to a pending write, and to no other
\* request.
LEMMA HeadAck ==
    ASSUME NEW k \in ClientState, NEW s \in Seq(Message), Sound(k, s),
           s # <<>>, Head(s).kind = "ack"
    PROVE  /\ Head(s).ack \in Ack
           /\ Head(s).ack.id \in PendingIds(k)
           /\ Head(s).ack.id \notin PutIds(k) \cup HeldIds(k)
           /\ AckIds(Tail(s)) = AckIds(s) \ {Head(s).ack.id}
           /\ Once(Tail(s))
           /\ k.conn
<1>1. Head(s) \in Message
    OBVIOUS
<1>2. Head(s).ack \in Ack
    BY <1>1 DEF Message
<1>3. AcksIn(s) = AcksIn(Tail(s)) \cup {Head(s).ack}
    BY AcksTail
<1>4. AckIds(s) = AckIds(Tail(s)) \cup {Head(s).ack.id}
    BY <1>3 DEF AckIds
<1>5. Once(Tail(s)) /\ Head(s).ack.id \notin AckIds(Tail(s))
    BY OnceTail DEF Sound, Accounted
<1>6. /\ Head(s).ack.id \in PendingIds(k)
      /\ Head(s).ack.id \notin PutIds(k) \cup HeldIds(k)
    BY <1>4 DEF Sound, Accounted
<1>7. k.conn
    BY DEF Sound, Numbered
<1>. QED
    BY <1>2, <1>4, <1>5, <1>6, <1>7

\* Receiving an answer, and acting on it at once.
LEMMA ReceivedSound ==
    ASSUME NEW k \in ClientState, NEW s \in Seq(Message), Sound(k, s),
           s # <<>>, Head(s).kind = "ack"
    PROVE  /\ Answer(k, Head(s).ack) \in ClientState
           /\ Sound(Answer(k, Head(s).ack), Tail(s))
<1>. DEFINE a == Head(s).ack
            k2 == Answer(k, a)
<1>1. /\ a \in Ack /\ a.id \in PendingIds(k)
      /\ a.id \notin PutIds(k) \cup HeldIds(k)
      /\ AckIds(Tail(s)) = AckIds(s) \ {a.id}
      /\ Once(Tail(s)) /\ k.conn
    BY HeadAck
<1>. HIDE DEF a
<1>2. k2 \in ClientState
    BY <1>1, AnswerType
<1>10. k2 = Answer(k, a) /\ a \in Ack
    BY <1>1
<1>. HIDE DEF k2
<1>3. /\ k2.conn = k.conn /\ k2.held = k.held
      /\ k2.next = k.next /\ k2.out = k.out
      /\ k2.writes = k.writes \ {CHOOSE v \in k.writes : v.id = a.id}
    BY <1>10, AnswerFields
<1>4. HeldIds(k2) = HeldIds(k) \ {a.id}
    BY <1>1, <1>3 DEF HeldIds
<1>5. Tail(s) \in Seq(Message)
    OBVIOUS
<1>6. Sound(k2, Tail(s))
    BY <1>1, <1>2, <1>3, <1>4, <1>5, RetiredSound
<1>. QED
    BY <1>2, <1>6 DEF a, k2

\* Receiving an answer, and holding it back.
LEMMA HeldSound ==
    ASSUME NEW k \in ClientState, NEW s \in Seq(Message), Sound(k, s),
           s # <<>>, Head(s).kind = "ack",
           NEW k2, k2 = [k EXCEPT !.held = @ \cup {Head(s).ack}]
    PROVE  k2 \in ClientState /\ Sound(k2, Tail(s))
<1>. DEFINE a == Head(s).ack
<1>1. /\ a \in Ack /\ a.id \in PendingIds(k)
      /\ a.id \notin PutIds(k) \cup HeldIds(k)
      /\ AckIds(Tail(s)) = AckIds(s) \ {a.id}
      /\ Once(Tail(s)) /\ k.conn
    BY HeadAck
<1>. DEFINE held == k.held \cup {a}
<1>2. k2 = [k EXCEPT !.held = held]
    OBVIOUS
<1>. HIDE DEF a
<1>10. held \in SUBSET Ack
    BY <1>1 DEF ClientState
<1>. HIDE DEF held
<1>3. /\ k2 \in ClientState /\ k2.conn = k.conn /\ k2.out = k.out
      /\ k2.next = k.next /\ k2.writes = k.writes /\ k2.held = k.held \cup {a}
    <2>1. k2 \in ClientState /\ k2.conn = k.conn /\ k2.out = k.out
          /\ k2.next = k.next /\ k2.writes = k.writes /\ k2.held = held
        BY <1>2, <1>10 DEF ClientState
    <2>. QED
        BY <2>1 DEF held
<1>4. HeldIds(k2) = HeldIds(k) \cup {a.id}
    BY <1>3 DEF HeldIds
<1>5. PutIds(k2) = PutIds(k) /\ PendingIds(k2) = PendingIds(k)
    BY <1>3 DEF PutIds, PendingIds
<1>6. a.id \in AckIds(s)
    BY AcksTail DEF AckIds, a
<1>7. Accounted(k2, Tail(s))
    <2>. DEFINE P == PutIds(k)
                A == AckIds(s)
                H == HeldIds(k)
                W == PendingIds(k)
    <2>1. /\ P \cup A \cup H \subseteq W
          /\ P \cap A = {} /\ P \cap H = {} /\ A \cap H = {}
          /\ W \subseteq P \cup A \cup H
        BY <1>1 DEF Sound, Accounted
    <2>2. a.id \in A /\ a.id \notin P
        BY <1>1, <1>6
    <2>. HIDE DEF P, A, H, W
    <2>3. /\ P \cup (A \ {a.id}) \cup (H \cup {a.id}) \subseteq W
          /\ P \cap (A \ {a.id}) = {} /\ P \cap (H \cup {a.id}) = {}
          /\ (A \ {a.id}) \cap (H \cup {a.id}) = {}
          /\ W \subseteq P \cup (A \ {a.id}) \cup (H \cup {a.id})
        BY <2>1, <2>2
    <2>. QED
        BY <1>1, <1>4, <1>5, <2>3 DEF Accounted, P, A, H, W
<1>8. \A x, y \in k2.held : x.id = y.id => x = y
    BY <1>1, <1>3 DEF Sound, Numbered, HeldIds
<1>9. Numbered(k2, Tail(s))
    BY <1>1, <1>3, <1>8 DEF Sound, Numbered
<1>. QED
    BY <1>3, <1>7, <1>9 DEF Sound

\* Acting on an answer that was held back.
LEMMA AckPutsSound ==
    ASSUME NEW k \in ClientState, NEW s \in Seq(Message), Sound(k, s),
           NEW a \in k.held
    PROVE  /\ Acked(k, a) \in ClientState /\ Acked(k, a).conn = k.conn
           /\ Sound(Acked(k, a), s)
<1>. DEFINE k1 == Answer(k, a)
            k2 == Acked(k, a)
            flush == k.held # {a}
<1>1. a \in Ack /\ a.id \in HeldIds(k)
    BY DEF ClientState, HeldIds
<1>2. /\ a.id \in PendingIds(k)
      /\ a.id \notin PutIds(k) /\ a.id \notin AckIds(s)
    BY <1>1 DEF Sound, Accounted
<1>3. k1 \in ClientState
    BY <1>1, <1>2, AnswerType
<1>4. /\ k1.conn = k.conn /\ k1.held = k.held
      /\ k1.next = k.next /\ k1.out = k.out
      /\ k1.writes = k.writes \ {CHOOSE v \in k.writes : v.id = a.id}
    BY <1>1, AnswerFields
<1>5. k2 = [k1 EXCEPT !.held = @ \ {a}, !.flush = flush]
    BY DEF Acked
<1>. HIDE DEF k1, k2, flush
<1>6. /\ k2 \in ClientState /\ k2.conn = k1.conn /\ k2.held = k1.held \ {a}
      /\ k2.next = k1.next /\ k2.out = k1.out /\ k2.writes = k1.writes
    <2>1. flush \in BOOLEAN
        BY DEF flush
    <2>. QED
        BY <1>3, <1>5, <2>1 DEF ClientState
<1>7. HeldIds(k2) = HeldIds(k) \ {a.id}
    BY <1>4, <1>6 DEF HeldIds, Sound, Numbered
<1>8. AckIds(s) = AckIds(s) \ {a.id} /\ Once(s) /\ (~k.conn => s = <<>>)
    BY <1>2 DEF Sound, Accounted, Numbered
<1>9. /\ k2 \in ClientState
      /\ k2.conn = k.conn /\ k2.out = k.out /\ k2.next = k.next
      /\ k2.writes = k.writes \ {CHOOSE v \in k.writes : v.id = a.id}
      /\ k2.held \subseteq k.held
    BY <1>4, <1>6
<1>10. Sound(k2, s)
    BY <1>2, <1>7, <1>8, <1>9, RetiredSound
<1>. QED
    BY <1>9, <1>10 DEF k2

\* The server takes a listen or an unlisten off the wire.
LEMMA TakenSound ==
    ASSUME NEW k \in ClientState, NEW s \in Seq(Message), Sound(k, s),
           NEW q \in k.out, q.kind # "put",
           NEW k2, k2 = [k EXCEPT !.out = @ \ {q}]
    PROVE  Sound(k2, s)
<1>1. /\ k2.conn = k.conn /\ k2.writes = k.writes /\ k2.held = k.held
      /\ k2.next = k.next /\ k2.out = k.out \ {q}
    BY DEF ClientState
<1>2. PutIds(k2) = PutIds(k)
    BY <1>1 DEF PutIds
<1>3. HeldIds(k2) = HeldIds(k) /\ PendingIds(k2) = PendingIds(k)
    BY <1>1 DEF HeldIds, PendingIds
<1>4. Accounted(k2, s)
    BY <1>1, <1>2, <1>3 DEF Sound, Accounted
<1>5. Numbered(k2, s)
    BY <1>1 DEF Sound, Numbered
<1>. QED
    BY <1>4, <1>5 DEF Sound

\* A lost connection takes the requests and the answers on it with it; what is
\* held back is still held back.
LEMMA CutOffSound ==
    ASSUME NEW k \in ClientState, NEW s \in Seq(Message), Sound(k, s)
    PROVE  CutOff(k) \in ClientState /\ ~CutOff(k).conn /\ Sound(CutOff(k), <<>>)
<1>. DEFINE k2 == CutOff(k)
<1>1. /\ k2 \in ClientState
      /\ k2.conn = FALSE /\ k2.writes = k.writes /\ k2.held = k.held
      /\ k2.next = k.next /\ k2.out = {}
    BY DEF CutOff, ClientState
<1>. HIDE DEF k2
<1>2. PutIds(k2) = {}
    BY <1>1 DEF PutIds
<1>3. HeldIds(k2) = HeldIds(k) /\ PendingIds(k2) = PendingIds(k)
    BY <1>1 DEF HeldIds, PendingIds
<1>4. AckIds(<<>>) = {} /\ Once(<<>>)
    BY DEF AckIds, AcksIn, Once
<1>5. Accounted(k2, <<>>)
    BY <1>1, <1>2, <1>3, <1>4 DEF Sound, Accounted
<1>6. Numbered(k2, <<>>)
    BY <1>1 DEF Sound, Numbered
<1>. QED
    BY <1>1, <1>5, <1>6 DEF Sound, k2

\* A restored connection carries the pending writes whose answer is not held
\* back, and no other.
LEMMA RestoredSound ==
    ASSUME NEW k \in ClientState, NEW s \in Seq(Message), Sound(k, s), ~k.conn,
           NEW k2, k2 = [k EXCEPT !.conn = TRUE,
                                  !.out = RestoredListens(k) \cup RestoredPuts(k),
                                  !.unacked = RestoredListens(k)]
    PROVE  k2 \in ClientState /\ Sound(k2, s)
<1>. DEFINE listens == RestoredListens(k)
            puts == RestoredPuts(k)
            out == listens \cup puts
<1>1. listens \in SUBSET Listen
    BY DEF RestoredListens, Outermost, ClientState, Reg, Listen
<1>2. puts \in SUBSET [kind : {"put"}, rank : Nat, put : Put]
    BY DEF RestoredPuts, ClientState, Write
<1>3. {q.rank : q \in puts} = PendingIds(k) \ HeldIds(k)
    <2>. DEFINE todo == {v \in k.writes : \A a \in k.held : a.id # v.id}
                put(w) == [kind |-> "put", rank |-> w.id, put |-> w.put]
    <2>4. puts = {put(w) : w \in todo}
        BY DEF RestoredPuts
    <2>5. \A w : put(w).rank = w.id
        OBVIOUS
    <2>. HIDE DEF todo, put, puts
    <2>1. \A q \in puts : \E w \in todo : q.rank = w.id
        BY <2>4, <2>5
    <2>2. \A w \in todo : \E q \in puts : q.rank = w.id
        BY <2>4, <2>5
    <2>. USE DEF todo
    <2>3. PendingIds(k) \ HeldIds(k) = {w.id : w \in todo}
        BY DEF PendingIds, HeldIds
    <2>. HIDE DEF todo
    <2>. QED
        BY <2>1, <2>2, <2>3
<1>4. \A q \in puts : \E w \in k.writes : q.rank = w.id /\ q.put = w.put
    BY DEF RestoredPuts
<1>. HIDE DEF listens, puts
<1>5. out \in SUBSET Request
    BY <1>1, <1>2 DEF Request
<1>. HIDE DEF out
<1>6. k2 = [k EXCEPT !.conn = TRUE, !.out = out, !.unacked = listens]
    BY DEF out, listens, puts
<1>7. /\ k2 \in ClientState
      /\ k2.conn = TRUE /\ k2.writes = k.writes /\ k2.held = k.held
      /\ k2.next = k.next /\ k2.out = out
    BY <1>1, <1>5, <1>6 DEF ClientState
<1>8. {q \in k2.out : q.kind = "put"} = puts
    BY <1>1, <1>2, <1>7 DEF out, Listen
<1>9. PutIds(k2) = PendingIds(k) \ HeldIds(k)
    BY <1>3, <1>8 DEF PutIds
<1>10. HeldIds(k2) = HeldIds(k) /\ PendingIds(k2) = PendingIds(k)
    BY <1>7 DEF HeldIds, PendingIds
<1>11. s = <<>> /\ AckIds(s) = {} /\ Once(s)
    BY DEF Sound, Numbered, AckIds, AcksIn, Once
<1>12. HeldIds(k) \subseteq PendingIds(k)
    BY DEF Sound, Accounted
<1>13. Accounted(k2, s)
    BY <1>9, <1>10, <1>11, <1>12 DEF Accounted
<1>14. \A q \in k2.out : q.kind = "put" =>
            \E w \in k2.writes : q.rank = w.id /\ q.put = w.put
    BY <1>4, <1>7, <1>8
<1>15. Numbered(k2, s)
    BY <1>7, <1>14 DEF Sound, Numbered
<1>. QED
    BY <1>7, <1>13, <1>15 DEF Sound

-----------------------------------------------------------------------------
(* What the operators on a client's state leave alone. *)

\* Two states of a client that differ in the main queue, what is pending and what
\* is held back at most.
Alike(k, k2) ==
    /\ k2.conn = k.conn /\ k2.cache = k.cache /\ k2.regs = k.regs
    /\ k2.out = k.out /\ k2.unacked = k.unacked /\ k2.next = k.next

LEMMA RaiseAlike ==
    ASSUME NEW k \in ClientState, NEW todo
    PROVE  /\ Alike(k, Raise(k, todo))
           /\ Raise(k, todo).writes = k.writes /\ Raise(k, todo).flush = k.flush
    BY RaiseFields DEF Alike

LEMMA TakeValueAlike ==
    ASSUME NEW k \in ClientState, NEW r
    PROVE  /\ Alike(k, TakeValue(k, r))
           /\ TakeValue(k, r).writes = k.writes /\ TakeValue(k, r).flush = k.flush
    BY DEF TakeValue, Alike, ClientState

LEMMA TakeDoneAlike ==
    ASSUME NEW k \in ClientState
    PROVE  /\ Alike(k, TakeDone(k))
           /\ TakeDone(k).writes = k.writes /\ TakeDone(k).flush = k.flush
    BY DEF TakeDone, Alike, ClientState

LEMMA AnswerAlike ==
    ASSUME NEW k \in ClientState, NEW ack \in Ack
    PROVE  /\ Alike(k, Answer(k, ack))
           /\ Answer(k, ack).writes \subseteq k.writes
           /\ Answer(k, ack).flush = k.flush
<1>. DEFINE w == CHOOSE v \in k.writes : v.id = ack.id
            writes == k.writes \ {w}
            k1 == [k EXCEPT !.writes = writes]
            k3 == Raise(k1, Changed(k, k1))
            e == [kind |-> "done", tag |-> w.tag, ok |-> ack.ok]
<1>1. writes \in SUBSET Write
    BY DEF ClientState
<1>2. Answer(k, ack) = [k3 EXCEPT !.main = Append(@, e)]
    BY DEF Answer
<1>10. writes \subseteq k.writes
    OBVIOUS
<1>. HIDE DEF writes, e
<1>3. k1 \in ClientState /\ Alike(k, k1) /\ k1.writes = writes /\ k1.flush = k.flush
    BY <1>1 DEF ClientState, Alike
<1>. HIDE DEF k1
<1>4. k3 \in ClientState
    BY <1>3, ChangedType, RaiseType
<1>5. Alike(k1, k3) /\ k3.writes = k1.writes /\ k3.flush = k1.flush
    BY <1>3, RaiseAlike
<1>. HIDE DEF k3
<1>. DEFINE k4 == Answer(k, ack)
<1>6. k4 = [k3 EXCEPT !.main = Append(@, e)]
    BY <1>2
<1>. HIDE DEF k4
<1>7. Alike(k3, k4) /\ k4.writes = k3.writes /\ k4.flush = k3.flush
    BY <1>4, <1>6 DEF ClientState, Alike
<1>8. Alike(k, k4) /\ k4.writes = writes /\ k4.flush = k.flush
    BY <1>3, <1>5, <1>7 DEF Alike
<1>. QED
    BY <1>8, <1>10 DEF k4

LEMMA MergeFlush ==
    ASSUME NEW k \in ClientState, NEW put \in Put
    PROVE  /\ Merge(k, put).flush = k.flush /\ Merge(k, put).writes = k.writes
           /\ Merge(k, put).regs = k.regs
           /\ \A l \in Leaf : Merge(k, put).cache[l] \in Value
                            \/ Merge(k, put).cache[l] = k.cache[l]
<1>. DEFINE cache == [l \in Leaf |-> IF l \in Merged(k, put)
                                     THEN put[l] ELSE k.cache[l]]
            k1 == [k EXCEPT !.cache = cache]
<1>1. PICK S \in SUBSET Leaf : put \in [S -> Value]
    BY DEF Put
<1>2. cache \in [Leaf -> Seen]
    BY <1>1 DEF Merged, ClientState, Seen
<1>3. Merge(k, put) = Raise(k1, Changed(k, k1))
    BY DEF Merge
<1>4. \A l \in Leaf : cache[l] \in Value \/ cache[l] = k.cache[l]
    BY <1>1 DEF Merged
<1>. HIDE DEF cache
<1>5. /\ k1 \in ClientState /\ k1.flush = k.flush /\ k1.writes = k.writes
      /\ k1.regs = k.regs /\ k1.cache = cache
    BY <1>2 DEF ClientState
<1>. HIDE DEF k1
<1>6. Alike(k1, Raise(k1, Changed(k, k1)))
      /\ Raise(k1, Changed(k, k1)).writes = k1.writes
      /\ Raise(k1, Changed(k, k1)).flush = k1.flush
    BY <1>5, RaiseAlike
<1>. QED
    BY <1>3, <1>4, <1>5, <1>6 DEF Alike

-----------------------------------------------------------------------------
(* The invariant of the specification. *)

Inv == TypeOK /\ WritesInv

\* A step of one client: its connection, its inbox and its state.
LEMMA OneClient ==
    ASSUME Inv, NEW c \in Client,
           NEW k \in ClientState, client' = [client EXCEPT ![c] = k],
           NEW s \in Seq(Message), in' = [in EXCEPT ![c] = s],
           NEW paths \in SUBSET Path, sub' = [sub EXCEPT ![c] = paths],
           ~k.conn => paths = {},
           Sound(k, s),
           data' = data, drops' \in Nat
    PROVE  Inv'
<1>1. /\ client' \in [Client -> ClientState] /\ client'[c] = k
      /\ \A d \in Client \ {c} : client'[d] = client[d]
    BY DEF Inv, TypeOK
<1>2. /\ in' \in [Client -> Seq(Message)] /\ in'[c] = s
      /\ \A d \in Client \ {c} : in'[d] = in[d]
    BY DEF Inv, TypeOK
<1>3. /\ sub' \in [Client -> SUBSET Path] /\ sub'[c] = paths
      /\ \A d \in Client \ {c} : sub'[d] = sub[d]
    BY DEF Inv, TypeOK
<1>4. TypeOK'
    BY <1>1, <1>2, <1>3 DEF Inv, TypeOK
<1>5. ASSUME NEW d \in Client
      PROVE  /\ Accounted(client'[d], in'[d])
             /\ Numbered(client'[d], in'[d])
             /\ ~client'[d].conn => sub'[d] = {}
    <2>1. CASE d = c
        BY <1>1, <1>2, <1>3, <2>1 DEF Sound
    <2>2. CASE d # c
        BY <1>1, <1>2, <1>3, <2>2 DEF Inv, WritesInv
    <2>. QED
        BY <2>1, <2>2
<1>6. WritesInv'
    BY <1>5 DEF WritesInv
<1>. QED
    BY <1>4, <1>6 DEF Inv

\* A step of one client that leaves its inbox and the server alone.
LEMMA OneClientOnly ==
    ASSUME Inv, NEW c \in Client,
           NEW k \in ClientState, client' = [client EXCEPT ![c] = k],
           k.conn = client[c].conn \/ k.conn, Sound(k, in[c]),
           UNCHANGED <<data, sub, in, drops>>
    PROVE  Inv'
<1>1. /\ in[c] \in Seq(Message) /\ in' = [in EXCEPT ![c] = in[c]]
      /\ sub[c] \in SUBSET Path /\ sub' = [sub EXCEPT ![c] = sub[c]]
      /\ drops' \in Nat /\ data' = data
    BY DEF Inv, TypeOK
<1>2. ~k.conn => sub[c] = {}
    BY DEF Inv, WritesInv
<1>. QED
    BY <1>1, <1>2, OneClient

LEMMA Local ==
    ASSUME Inv, NEW c \in Client
    PROVE  /\ client[c] \in ClientState /\ in[c] \in Seq(Message)
           /\ sub[c] \in SUBSET Path
           /\ Sound(client[c], in[c])
           /\ ~client[c].conn => sub[c] = {}
           /\ client[c].out # {} \/ in[c] # <<>> => client[c].conn
    BY DEF Inv, TypeOK, WritesInv, Sound, Numbered

LEMMA InitInv == Init => Inv
<1>. SUFFICES ASSUME Init PROVE Inv
    OBVIOUS
<1>1. ClientInit \in ClientState
    <2>1. [l \in Leaf |-> Unknown] \in [Leaf -> Seen] /\ <<>> \in Seq(Event)
        BY DEF Seen
    <2>. QED
        BY <2>1 DEF ClientInit, ClientState
<1>2. TypeOK
    BY <1>1, ValueAssumption DEF Init, TypeOK
<1>3. Once(<<>>) /\ AckIds(<<>>) = {}
    BY DEF Once, AckIds, AcksIn
<1>4. PutIds(ClientInit) = {} /\ HeldIds(ClientInit) = {} /\ PendingIds(ClientInit) = {}
    BY DEF PutIds, HeldIds, PendingIds, ClientInit
<1>5. Accounted(ClientInit, <<>>)
    BY <1>3, <1>4 DEF Accounted
<1>6. Numbered(ClientInit, <<>>)
    BY DEF Numbered, ClientInit
<1>7. WritesInv
    BY <1>5, <1>6 DEF Init, WritesInv
<1>. QED
    BY <1>2, <1>7 DEF Inv

-----------------------------------------------------------------------------
(* Each action keeps the invariant. *)

LEMMA ServeListenInv ==
    ASSUME Inv, NEW c \in Client, ServeListen(c) PROVE Inv'
<1>1. PICK q \in client[c].out :
        /\ q.kind = "listen"
        /\ sub' = [sub EXCEPT ![c] = @ \cup {q.path}]
        /\ in' = [in EXCEPT ![c] =
                    Append(@, [kind |-> "listen", to |-> q,
                               put |-> [l \in q.path |-> data[l]]])]
        /\ client' = [client EXCEPT ![c].out = @ \ {q}]
        /\ UNCHANGED <<data, drops>>
    BY DEF ServeListen, Served
<1>. DEFINE k == [client[c] EXCEPT !.out = @ \ {q}]
            m == [kind |-> "listen", to |-> q, put |-> [l \in q.path |-> data[l]]]
            s == Append(in[c], m)
            paths == sub[c] \cup {q.path}
<1>2. /\ client[c] \in ClientState /\ in[c] \in Seq(Message)
      /\ sub[c] \in SUBSET Path /\ client[c].conn
      /\ Sound(client[c], in[c])
    BY Local
<1>3. k \in ClientState
    BY <1>2 DEF ClientState
<1>4. q \in Listen
    BY <1>1, <1>2 DEF ClientState, Request, Listen
<1>5. m \in Message
    BY <1>4, PathAssumption DEF Inv, TypeOK, Message, Listen, Put
<1>6. s \in Seq(Message) /\ paths \in SUBSET Path
    BY <1>2, <1>4, <1>5 DEF Listen
<1>7. AcksIn(s) = AcksIn(in[c]) /\ Once(s)
    BY <1>2, <1>5, AcksAppend, OnceAppend DEF Sound, Accounted
<1>8. Sound(k, s)
    BY <1>1, <1>2, <1>3, <1>6, <1>7, TakenSound, CalmInbox
<1>9. k.conn /\ client' = [client EXCEPT ![c] = k]
      /\ in' = [in EXCEPT ![c] = s] /\ sub' = [sub EXCEPT ![c] = paths]
      /\ data' = data /\ drops' \in Nat
    BY <1>1, <1>2 DEF Inv, TypeOK, ClientState
<1>. HIDE DEF k, s, paths
<1>. QED
    BY <1>3, <1>6, <1>8, <1>9, OneClient

LEMMA ServeUnlistenInv ==
    ASSUME Inv, NEW c \in Client, ServeUnlisten(c) PROVE Inv'
<1>1. PICK q \in client[c].out :
        /\ q.kind = "unlisten"
        /\ sub' = [sub EXCEPT ![c] = @ \ {q.path}]
        /\ client' = [client EXCEPT ![c].out = @ \ {q}]
        /\ UNCHANGED <<data, in, drops>>
    BY DEF ServeUnlisten, Served
<1>. DEFINE k == [client[c] EXCEPT !.out = @ \ {q}]
            paths == sub[c] \ {q.path}
<1>2. /\ client[c] \in ClientState /\ in[c] \in Seq(Message)
      /\ sub[c] \in SUBSET Path /\ client[c].conn
      /\ Sound(client[c], in[c])
    BY Local
<1>3. k \in ClientState /\ paths \in SUBSET Path
    BY <1>2 DEF ClientState
<1>4. Sound(k, in[c])
    BY <1>1, <1>2, TakenSound
<1>5. k.conn /\ client' = [client EXCEPT ![c] = k]
      /\ in' = [in EXCEPT ![c] = in[c]] /\ sub' = [sub EXCEPT ![c] = paths]
      /\ data' = data /\ drops' \in Nat
    BY <1>1, <1>2 DEF Inv, TypeOK, ClientState
<1>. HIDE DEF k, paths
<1>. QED
    BY <1>2, <1>3, <1>4, <1>5, OneClient

LEMMA RejectPutInv ==
    ASSUME Inv, NEW c \in Client, RejectPut(c) PROVE Inv'
<1>1. PICK q \in client[c].out :
        /\ q.kind = "put"
        /\ in' = [in EXCEPT ![c] =
                    Append(@, [kind |-> "ack",
                               ack |-> [id |-> q.rank, ok |-> FALSE]])]
        /\ client' = [client EXCEPT ![c].out = @ \ {q}]
        /\ UNCHANGED <<data, sub, drops>>
    BY DEF RejectPut, Served
<1>. DEFINE k == [client[c] EXCEPT !.out = @ \ {q}]
            m == [kind |-> "ack", ack |-> [id |-> q.rank, ok |-> FALSE]]
            s == Append(in[c], m)
<1>2. /\ client[c] \in ClientState /\ in[c] \in Seq(Message)
      /\ sub[c] \in SUBSET Path /\ client[c].conn
      /\ Sound(client[c], in[c])
    BY Local
<1>3. k \in ClientState
    BY <1>2 DEF ClientState
<1>4. q.rank \in Nat
    BY <1>1, <1>2 DEF ClientState, Request, Listen
<1>5. m \in Message
    BY <1>4 DEF Message, Ack
<1>6. s \in Seq(Message)
    BY <1>2, <1>5
<1>7. Sound(k, s)
    BY <1>1, <1>2, <1>5, ServedSound
<1>8. k.conn /\ client' = [client EXCEPT ![c] = k]
      /\ in' = [in EXCEPT ![c] = s] /\ sub' = [sub EXCEPT ![c] = sub[c]]
      /\ data' = data /\ drops' \in Nat
    BY <1>1, <1>2 DEF Inv, TypeOK, ClientState
<1>. HIDE DEF k, s
<1>. QED
    BY <1>2, <1>3, <1>6, <1>7, <1>8, OneClient

LEMMA ReceivePushInv ==
    ASSUME Inv, NEW c \in Client, ReceivePush(c) PROVE Inv'
<1>. DEFINE s == Tail(in[c])
            put == Head(in[c]).put
            k == Merge(client[c], put)
<1>1. /\ in[c] # <<>> /\ Head(in[c]).kind = "push" /\ in' = [in EXCEPT ![c] = s]
      /\ client' = [client EXCEPT ![c] = k]
      /\ UNCHANGED <<data, sub, drops>>
    BY DEF ReceivePush, Arrived
<1>2. /\ client[c] \in ClientState /\ in[c] \in Seq(Message)
      /\ sub[c] \in SUBSET Path /\ client[c].conn
      /\ Sound(client[c], in[c])
    BY <1>1, Local
<1>3. Head(in[c]) \in Message /\ s \in Seq(Message)
    BY <1>1, <1>2
<1>4. put \in Put
    BY <1>1, <1>3 DEF Message
<1>5. AcksIn(s) = AcksIn(in[c]) /\ Once(s)
    BY <1>1, <1>2, AcksTail, OnceTail DEF Sound, Accounted
<1>6. Sound(client[c], s)
    BY <1>2, <1>3, <1>5, CalmInbox
<1>. HIDE DEF put
<1>7. k \in ClientState /\ k = Merge(client[c], put)
    BY <1>2, <1>4, MergeType
<1>. HIDE DEF k, s
<1>8. /\ k.conn = client[c].conn /\ k.writes = client[c].writes
      /\ k.held = client[c].held /\ k.next = client[c].next
      /\ k.out = client[c].out
    BY <1>2, <1>4, <1>7, MergeFields
<1>9. Sound(k, s)
    <2>1. \A w \in client[c].writes : w.id < k.next
        BY <1>2, <1>8 DEF Sound, Numbered
    <2>. QED
        BY <1>2, <1>3, <1>6, <1>7, <1>8, <2>1, CalmStep
<1>10. sub' = [sub EXCEPT ![c] = sub[c]] /\ data' = data /\ drops' \in Nat
    BY <1>1 DEF Inv, TypeOK
<1>. QED
    BY <1>1, <1>2, <1>3, <1>7, <1>8, <1>9, <1>10, OneClient

LEMMA ReceiveListenInv ==
    ASSUME Inv, NEW c \in Client, ReceiveListen(c) PROVE Inv'
<1>. DEFINE s == Tail(in[c])
            m == Head(in[c])
            k == Merge(client[c], m.put)
            unacked == k.unacked \ {m.to}
            flush == k.unacked \ {m.to} = {} /\ k.held # {}
            k2 == [k EXCEPT !.unacked = unacked, !.flush = flush]
<1>1. /\ in[c] # <<>> /\ m.kind = "listen" /\ in' = [in EXCEPT ![c] = s]
      /\ client' = [client EXCEPT ![c] = k2]
      /\ UNCHANGED <<data, sub, drops>>
    BY DEF ReceiveListen, Arrived
<1>2. /\ client[c] \in ClientState /\ in[c] \in Seq(Message)
      /\ sub[c] \in SUBSET Path /\ client[c].conn
      /\ Sound(client[c], in[c])
    BY <1>1, Local
<1>3. m \in Message /\ s \in Seq(Message)
    BY <1>1, <1>2
<1>4. m.put \in Put
    <2>1. m \in [kind : {"listen"}, put : Put, to : Listen]
        BY <1>1, <1>3 DEF Message
    <2>. QED
        BY <2>1
<1>5. AcksIn(s) = AcksIn(in[c]) /\ Once(s)
    BY <1>1, <1>2, AcksTail, OnceTail DEF Sound, Accounted
<1>6. Sound(client[c], s)
    BY <1>2, <1>3, <1>5, CalmInbox
<1>. HIDE DEF m, s
<1>7. k \in ClientState /\ k = Merge(client[c], m.put)
    BY <1>2, <1>4, MergeType
<1>. HIDE DEF k
<1>8. /\ k.conn = client[c].conn /\ k.writes = client[c].writes
      /\ k.held = client[c].held /\ k.next = client[c].next
      /\ k.out = client[c].out
    BY <1>2, <1>4, <1>7, MergeFields
<1>9. unacked \in SUBSET Listen /\ flush \in BOOLEAN
    BY <1>7 DEF ClientState
<1>. HIDE DEF unacked, flush
<1>10. /\ k2 \in ClientState /\ k2.conn = k.conn /\ k2.writes = k.writes
       /\ k2.held = k.held /\ k2.next = k.next /\ k2.out = k.out
    BY <1>7, <1>9 DEF ClientState
<1>. HIDE DEF k2
<1>11. Sound(k2, s)
    <2>1. \A w \in client[c].writes : w.id < k2.next
        BY <1>2, <1>8, <1>10 DEF Sound, Numbered
    <2>. QED
        BY <1>2, <1>3, <1>6, <1>8, <1>10, <2>1, CalmStep
<1>12. sub' = [sub EXCEPT ![c] = sub[c]] /\ data' = data /\ drops' \in Nat
    BY <1>1 DEF Inv, TypeOK
<1>. QED
    BY <1>1, <1>2, <1>3, <1>8, <1>10, <1>11, <1>12, OneClient

LEMMA ReceiveAckInv ==
    ASSUME Inv, NEW c \in Client, ReceiveAck(c) PROVE Inv'
<1>. DEFINE s == Tail(in[c])
            ack == Head(in[c]).ack
            held == [client[c] EXCEPT !.held = @ \cup {ack}]
            answered == Answer(client[c], ack)
            k == IF Holds(client[c]) THEN held ELSE answered
<1>1. /\ in[c] # <<>> /\ Head(in[c]).kind = "ack" /\ in' = [in EXCEPT ![c] = s]
      /\ client' = [client EXCEPT ![c] = k]
      /\ UNCHANGED <<data, sub, drops>>
    BY DEF ReceiveAck, Arrived
<1>2. /\ client[c] \in ClientState /\ in[c] \in Seq(Message)
      /\ sub[c] \in SUBSET Path /\ client[c].conn
      /\ Sound(client[c], in[c])
    BY <1>1, Local
<1>3. s \in Seq(Message)
    BY <1>1, <1>2
<1>4. held \in ClientState /\ Sound(held, s) /\ held.conn
    BY <1>1, <1>2, HeldSound DEF ClientState
<1>5. answered \in ClientState /\ Sound(answered, s)
    BY <1>1, <1>2, ReceivedSound
<1>6. answered.conn
    <2>1. ack \in Ack
        BY <1>1, <1>2, HeadAck
    <2>2. answered = Answer(client[c], ack)
        OBVIOUS
    <2>. HIDE DEF answered, ack
    <2>. QED
        BY <1>2, <2>1, <2>2, AnswerFields
<1>. HIDE DEF s, held, answered
<1>7. k \in ClientState /\ Sound(k, s) /\ k.conn
    BY <1>4, <1>5, <1>6
<1>8. sub' = [sub EXCEPT ![c] = sub[c]] /\ data' = data /\ drops' \in Nat
    BY <1>1 DEF Inv, TypeOK
<1>. HIDE DEF k
<1>. QED
    BY <1>1, <1>2, <1>3, <1>7, <1>8, OneClient

LEMMA AckPutsInv ==
    ASSUME Inv, NEW c \in Client, AckPuts(c) PROVE Inv'
<1>1. PICK ack \in client[c].held :
        /\ client' = [client EXCEPT ![c] = Acked(@, ack)]
        /\ UNCHANGED <<data, sub, in, drops>>
    BY DEF AckPuts
<1>2. /\ client[c] \in ClientState /\ in[c] \in Seq(Message)
      /\ Sound(client[c], in[c])
    BY Local
<1>3. /\ Acked(client[c], ack) \in ClientState
      /\ Acked(client[c], ack).conn = client[c].conn
      /\ Sound(Acked(client[c], ack), in[c])
    BY <1>2, AckPutsSound
<1>. QED
    BY <1>1, <1>3, OneClientOnly

LEMMA DisconnectInv ==
    ASSUME Inv, NEW c \in Client, Disconnect(c) PROVE Inv'
<1>1. /\ drops' = drops + 1
      /\ sub' = [sub EXCEPT ![c] = {}]
      /\ in' = [in EXCEPT ![c] = <<>>]
      /\ client' = [client EXCEPT ![c] = CutOff(client[c])]
      /\ UNCHANGED data
    BY DEF Disconnect, DropsInbox
<1>2. /\ CutOff(client[c]) \in ClientState /\ ~CutOff(client[c]).conn
      /\ Sound(CutOff(client[c]), <<>>)
    BY Local, CutOffSound
<1>3. drops' \in Nat /\ <<>> \in Seq(Message)
    BY <1>1 DEF Inv, TypeOK
<1>. QED
    BY <1>1, <1>2, <1>3, OneClient

LEMMA ReconnectInv ==
    ASSUME Inv, NEW c \in Client, Reconnect(c) PROVE Inv'
<1>. DEFINE k == client[c]
            k2 == [k EXCEPT !.conn = TRUE,
                            !.out = RestoredListens(k) \cup RestoredPuts(k),
                            !.unacked = RestoredListens(k)]
<1>1. /\ ~k.conn /\ client' = [client EXCEPT ![c] = k2]
      /\ UNCHANGED <<data, sub, in, drops>>
    BY DEF Reconnect
<1>2. /\ k \in ClientState /\ in[c] \in Seq(Message) /\ Sound(k, in[c])
    BY Local
<1>3. k2 \in ClientState /\ Sound(k2, in[c])
    BY <1>1, <1>2, RestoredSound
<1>4. k2.conn
    BY <1>2 DEF ClientState
<1>. HIDE DEF k2
<1>. QED
    BY <1>1, <1>3, <1>4, OneClientOnly

LEMMA CallObserveInv ==
    ASSUME Inv, NEW c \in Client, CallObserve(c) PROVE Inv'
<1>1. PICK path \in Path, single \in BOOLEAN, tag \in Tag :
        client' = [client EXCEPT ![c] = Observe(client[c], path, single, tag)]
    BY DEF CallObserve
<1>. DEFINE k == Observe(client[c], path, single, tag)
<1>2. UNCHANGED <<data, sub, in, drops>>
    BY DEF CallObserve
<1>3. /\ client[c] \in ClientState /\ in[c] \in Seq(Message)
      /\ Sound(client[c], in[c])
    BY Local
<1>4. k \in ClientState /\ k = Observe(client[c], path, single, tag)
    BY <1>3, ObserveType
<1>. HIDE DEF k
<1>5. /\ k.conn = client[c].conn /\ k.writes = client[c].writes
      /\ k.held = client[c].held /\ k.next = Fresh(client[c]) + 2
      /\ ~client[c].conn => k.out = client[c].out
      /\ client[c].out \subseteq k.out
      /\ \A q \in k.out \ client[c].out : q.kind # "put"
    BY <1>3, <1>4, ObserveFields
<1>6. \A w \in client[c].writes : w.id < k.next
    BY <1>3, <1>5, FreshAbove
<1>7. Sound(k, in[c])
    BY <1>3, <1>4, <1>5, <1>6, CalmStep
<1>8. client' = [client EXCEPT ![c] = k]
    BY <1>1, <1>4
<1>. QED
    BY <1>2, <1>4, <1>5, <1>7, <1>8, OneClientOnly

LEMMA CallSetValueInv ==
    ASSUME Inv, NEW c \in Client, CallSetValue(c) PROVE Inv'
<1>1. PICK path \in Path, tag \in Tag : \E put \in [path -> Value] :
        client' = [client EXCEPT ![c] = SetValue(client[c], put, tag)]
    BY DEF CallSetValue
<1>2. PICK put \in [path -> Value] :
        client' = [client EXCEPT ![c] = SetValue(client[c], put, tag)]
    BY <1>1
<1>3. UNCHANGED <<data, sub, in, drops>>
    BY DEF CallSetValue
<1>4. put \in Put
    BY PathAssumption DEF Put
<1>5. /\ client[c] \in ClientState /\ in[c] \in Seq(Message)
      /\ Sound(client[c], in[c])
    BY Local
<1>6. SetValue(client[c], put, tag) \in ClientState
    BY <1>4, <1>5, SetValueType
<1>7. /\ Sound(SetValue(client[c], put, tag), in[c])
      /\ SetValue(client[c], put, tag).conn = client[c].conn
    BY <1>4, <1>5, SetValueSound
<1>. QED
    BY <1>2, <1>3, <1>6, <1>7, OneClientOnly

LEMMA RunValueInv ==
    ASSUME Inv, NEW c \in Client, RunValue(c) PROVE Inv'
<1>1. PICK r \in Ready(client[c]) :
        client' = [client EXCEPT ![c] = IF Stale(client[c], r)
                                        THEN TakeValue(client[c], r)
                                        ELSE Begin(client[c], r)]
    BY DEF RunValue
<1>2. UNCHANGED <<data, sub, in, drops>>
    BY DEF RunValue
<1>3. /\ client[c] \in ClientState /\ in[c] \in Seq(Message)
      /\ Sound(client[c], in[c])
    BY Local
<1>. DEFINE k == TakeValue(client[c], r)
            k2 == Unobserve(k, r)
<1>4. /\ k \in ClientState /\ k.conn = client[c].conn
      /\ k.writes = client[c].writes /\ k.held = client[c].held
      /\ k.next = client[c].next /\ k.out = client[c].out
    BY <1>3, TakeValueType DEF TakeValue, ClientState
<1>5. Begin(client[c], r) = IF r.single THEN k2 ELSE k
    BY DEF Begin
<1>. HIDE DEF k
<1>6. Sound(k, in[c])
    <2>1. \A w \in client[c].writes : w.id < k.next
        BY <1>3, <1>4 DEF Sound, Numbered
    <2>. QED
        BY <1>3, <1>4, <2>1, CalmStep
<1>7. k2 \in ClientState /\ k2 = Unobserve(k, r)
    BY <1>4, UnobserveType
<1>. HIDE DEF k2
<1>8. /\ k2.conn = k.conn /\ k2.writes = k.writes /\ k2.held = k.held
      /\ k2.next = Fresh(k) + 2
      /\ ~k.conn => k2.out = k.out
      /\ k.out \subseteq k2.out
      /\ \A q \in k2.out \ k.out : q.kind # "put"
    BY <1>4, <1>7, UnobserveFields
<1>9. Sound(k2, in[c])
    <2>1. \A w \in k.writes : w.id < k2.next
        BY <1>3, <1>4, <1>6, <1>8, FreshAbove
    <2>. QED
        BY <1>3, <1>4, <1>6, <1>7, <1>8, <2>1, CalmStep
<1>10. client' = [client EXCEPT ![c] = k] \/ client' = [client EXCEPT ![c] = k2]
    BY <1>1, <1>5 DEF k
<1>11. CASE client' = [client EXCEPT ![c] = k]
    BY <1>2, <1>4, <1>6, <1>11, OneClientOnly
<1>12. CASE client' = [client EXCEPT ![c] = k2]
    BY <1>2, <1>4, <1>7, <1>8, <1>9, <1>12, OneClientOnly
<1>. QED
    BY <1>10, <1>11, <1>12

LEMMA RunDoneInv ==
    ASSUME Inv, NEW c \in Client, RunDone(c) PROVE Inv'
<1>. DEFINE k == TakeDone(client[c])
<1>1. /\ client[c].main # <<>> /\ client' = [client EXCEPT ![c] = k]
      /\ UNCHANGED <<data, sub, in, drops>>
    BY DEF RunDone
<1>2. /\ client[c] \in ClientState /\ in[c] \in Seq(Message)
      /\ Sound(client[c], in[c])
    BY Local
<1>3. k \in ClientState
    BY <1>1, <1>2, TakeDoneType
<1>4. /\ k.conn = client[c].conn /\ k.writes = client[c].writes
      /\ k.held = client[c].held /\ k.next = client[c].next
      /\ k.out = client[c].out
    BY <1>2 DEF TakeDone, ClientState
<1>. HIDE DEF k
<1>5. \A w \in client[c].writes : w.id < k.next
    BY <1>2, <1>4 DEF Sound, Numbered
<1>6. Sound(k, in[c])
    BY <1>2, <1>3, <1>4, <1>5, CalmStep
<1>. QED
    BY <1>1, <1>3, <1>4, <1>6, OneClientOnly

\* The server applies a write, tells every device that listens to it, and then
\* answers the writer: nobody else's writes are disturbed.
LEMMA ServePutInv ==
    ASSUME Inv, NEW c \in Client, ServePut(c) PROVE Inv'
<1>1. PICK q \in client[c].out :
        /\ q.kind = "put"
        /\ data' = [l \in Leaf |-> IF l \in DOMAIN q.put
                                   THEN q.put[l] ELSE data[l]]
        /\ LET push(d) == IF Pushed(q.put, sub[d]) = {}
                          THEN in[d]
                          ELSE Append(in[d],
                                 [kind |-> "push",
                                  put |-> [l \in Pushed(q.put, sub[d]) |->
                                            q.put[l]]])
               ack == [kind |-> "ack", ack |-> [id |-> q.rank, ok |-> TRUE]]
           IN  in' = [d \in Client |-> IF d = c THEN Append(push(d), ack)
                                       ELSE push(d)]
        /\ client' = [client EXCEPT ![c].out = @ \ {q}]
        /\ UNCHANGED <<sub, drops>>
    BY DEF ServePut, Served
<1>. DEFINE m(d) == [kind |-> "push",
                     put |-> [l \in Pushed(q.put, sub[d]) |-> q.put[l]]]
            s(d) == IF Pushed(q.put, sub[d]) = {}
                    THEN in[d] ELSE Append(in[d], m(d))
            ack == [kind |-> "ack", ack |-> [id |-> q.rank, ok |-> TRUE]]
            k == [client[c] EXCEPT !.out = @ \ {q}]
<1>2. /\ in' = [d \in Client |-> IF d = c THEN Append(s(d), ack) ELSE s(d)]
      /\ client' = [client EXCEPT ![c] = k]
    BY <1>1
<1>3. /\ client[c] \in ClientState /\ in[c] \in Seq(Message)
      /\ client[c].conn /\ Sound(client[c], in[c])
    BY Local
<1>4. q.rank \in Nat /\ q.put \in Put
    <2>1. q \in [kind : {"put"}, rank : Nat, put : Put]
        BY <1>1, <1>3 DEF ClientState, Request, Listen
    <2>. QED
        BY <2>1
<1>5. PICK S \in SUBSET Leaf : q.put \in [S -> Value]
    BY <1>4 DEF Put
<1>6. data' \in [Leaf -> Value]
    BY <1>1, <1>5 DEF Inv, TypeOK
<1>7. ack \in Message
    BY <1>4 DEF Message, Ack
<1>8. ASSUME NEW d \in Client
      PROVE  s(d) \in Seq(Message) /\ Sound(client[d], s(d))
    <2>1. /\ client[d] \in ClientState /\ in[d] \in Seq(Message)
          /\ Sound(client[d], in[d])
        BY Local
    <2>2. CASE Pushed(q.put, sub[d]) = {}
        BY <2>1, <2>2
    <2>3. CASE Pushed(q.put, sub[d]) # {}
        <3>1. client[d].conn
            BY <2>3, Local DEF Pushed
        <3>2. m(d) \in Message
            <4>1. Pushed(q.put, sub[d]) \in SUBSET S
                BY <1>5 DEF Pushed
            <4>2. [l \in Pushed(q.put, sub[d]) |-> q.put[l]] \in Put
                BY <1>5, <4>1 DEF Put
            <4>. QED
                BY <4>2 DEF Message
        <3>3. m(d).kind = "push"
            OBVIOUS
        <3>. HIDE DEF m
        <3>4. s(d) = Append(in[d], m(d))
            BY <2>3
        <3>5. /\ AcksIn(s(d)) = AcksIn(in[d]) /\ Once(s(d))
              /\ s(d) \in Seq(Message)
            <4>. DEFINE e == m(d)
            <4>1. /\ e \in Message /\ e.kind = "push"
                  /\ s(d) = Append(in[d], e) /\ Once(in[d])
                BY <2>1, <3>2, <3>3, <3>4 DEF Sound, Accounted
            <4>. HIDE DEF e, s
            <4>2. AcksIn(Append(in[d], e)) = AcksIn(in[d])
                BY <2>1, <4>1, AcksAppend
            <4>3. Once(Append(in[d], e))
                BY <2>1, <4>1, OnceAppend
            <4>4. Append(in[d], e) \in Seq(Message)
                BY <2>1, <4>1
            <4>. QED
                BY <4>1, <4>2, <4>3, <4>4
        <3>. HIDE DEF s
        <3>. QED
            BY <2>1, <3>1, <3>5, CalmInbox
    <2>. QED
        BY <2>2, <2>3
<1>9. /\ k \in ClientState /\ k.conn
      /\ Append(s(c), ack) \in Seq(Message) /\ Sound(k, Append(s(c), ack))
    <2>1. s(c) \in Seq(Message) /\ Sound(client[c], s(c))
        BY <1>8
    <2>2. ack.kind = "ack" /\ ack.ack = [id |-> q.rank, ok |-> TRUE]
        OBVIOUS
    <2>3. k \in ClientState /\ k.conn
        BY <1>3 DEF ClientState
    <2>. HIDE DEF s, ack
    <2>4. Append(s(c), ack) \in Seq(Message)
        BY <1>7, <2>1
    <2>5. Sound(k, Append(s(c), ack))
        BY <1>1, <1>3, <1>7, <2>1, <2>2, ServedSound
    <2>. QED
        BY <2>3, <2>4, <2>5
<1>. HIDE DEF s, ack, k
<1>10. TypeOK'
    <2>1. in' \in [Client -> Seq(Message)]
        BY <1>2, <1>8, <1>9
    <2>2. client' \in [Client -> ClientState]
        BY <1>2, <1>9 DEF Inv, TypeOK
    <2>3. sub' \in [Client -> SUBSET Path] /\ drops' \in Nat
        BY <1>1 DEF Inv, TypeOK
    <2>. QED
        BY <1>6, <2>1, <2>2, <2>3 DEF TypeOK
<1>11. ASSUME NEW d \in Client
       PROVE  /\ Sound(client'[d], in'[d])
              /\ ~client'[d].conn => sub'[d] = {}
    <2>1. CASE d = c
        <3>1. client'[d] = k /\ in'[d] = Append(s(c), ack)
            BY <1>2, <2>1 DEF Inv, TypeOK
        <3>. QED
            BY <1>9, <3>1
    <2>2. CASE d # c
        <3>1. client'[d] = client[d] /\ in'[d] = s(d) /\ sub'[d] = sub[d]
            BY <1>1, <1>2, <2>2 DEF Inv, TypeOK
        <3>. QED
            BY <1>8, <3>1, Local
    <2>. QED
        BY <2>1, <2>2
<1>12. WritesInv'
    BY <1>11 DEF WritesInv, Sound
<1>. QED
    BY <1>10, <1>12 DEF Inv

\* Every step keeps the invariant.
LEMMA NextInv ==
    ASSUME Inv, [Next]_vars
    PROVE  Inv'
<1>1. CASE Next
    <2>1. PICK c \in Client :
            \/ ServeListen(c) \/ ServeUnlisten(c) \/ ServePut(c) \/ RejectPut(c)
            \/ ReceivePush(c) \/ ReceiveListen(c) \/ ReceiveAck(c) \/ AckPuts(c)
            \/ Disconnect(c) \/ Reconnect(c)
            \/ CallObserve(c) \/ CallSetValue(c) \/ RunValue(c) \/ RunDone(c)
        BY <1>1 DEF Next
    <2>. QED
        BY <2>1, ServeListenInv, ServeUnlistenInv, ServePutInv, RejectPutInv,
           ReceivePushInv, ReceiveListenInv, ReceiveAckInv, AckPutsInv,
           DisconnectInv, ReconnectInv, CallObserveInv, CallSetValueInv,
           RunValueInv, RunDoneInv
<1>2. CASE UNCHANGED vars
    BY <1>2 DEF vars, Inv, TypeOK, WritesInv
<1>. QED
    BY <1>1, <1>2

\* Every reachable state satisfies the inductive invariant: whatever calls the
\* app makes, whatever the server accepts or refuses and whenever connections are
\* lost, a write stays pending until its one answer has been acted on.
THEOREM Invariance == Spec => []Inv
<1>1. Init => Inv
    BY InitInv
<1>2. Inv /\ [Next]_vars => Inv'
    BY NextInv
<1>. QED
    BY <1>1, <1>2, PTL DEF Spec

\* The state is always well typed, for any number of devices and any tree.
THEOREM TypeCorrect == Spec => []TypeOK
<1>1. Inv => TypeOK
    BY DEF Inv
<1>. QED
    BY <1>1, Invariance, PTL

\* A completion is called exactly once: FPersistentConnection and FWriteTree
\* never lose a write nor answer it twice, across any number of lost connections.
THEOREM EveryWriteAccounted == Spec => []WritesAccounted
<1>1. Inv => WritesAccounted
    BY DEF Inv, WritesInv, WritesAccounted
<1>. QED
    BY <1>1, Invariance, PTL

\* The strengthening that a run checks too.
THEOREM WritesInvariant == Spec => []WritesInv
<1>1. Inv => WritesInv
    BY DEF Inv
<1>. QED
    BY <1>1, Invariance, PTL

-----------------------------------------------------------------------------
(* A client that is alone: nobody else writes, so that what the server has *)
(* at a leaf is what this client's last answered write left there, and the *)
(* messages that follow an answer agree with it.                           *)

Concerns(m, l) == m.kind # "ack" /\ l \in DOMAIN m.put

\* A message that says nothing of l, or answers a listen with x.
Confirms(m, l, x) == Concerns(m, l) => m.kind = "listen" /\ m.put[l] = x

\* What follows position n of an inbox agrees that l is x.
After(s, n, l, x) == \A j \in DOMAIN s : n < j => Confirms(s[j], l, x)

\* The answers that a client has or will have, by their place in the inbox; the
\* ones held back come before it.
AnswerAt(k, s, n, a) ==
    \/ n = 0 /\ a \in k.held
    \/ n \in DOMAIN s /\ s[n].kind = "ack" /\ s[n].ack = a

AnsweredIds(k, s) == AckIds(s) \cup HeldIds(k)

\* Answers come in the order of their writes, and no write is answered before an
\* earlier one.
Ordered(k, s) ==
    \A n, m \in Nat : \A a, b \in Ack :
        AnswerAt(k, s, n, a) /\ AnswerAt(k, s, m, b) /\ n < m => a.id < b.id

InTurn(k, s) ==
    \A p \in PendingIds(k) : \A e \in AnsweredIds(k, s) :
        p <= e => p \in AnsweredIds(k, s)

\* No pending write covers l.
Free(k, l) == \A w \in k.writes : l \notin DOMAIN w.put

\* What is known of a leaf without pending writes is what the server has; so is
\* all that follows the answer to the write that shows at a leaf.
Agrees(k, s, tree) ==
    /\ \A l \in Leaf : Free(k, l) =>
            k.cache[l] \in {Unknown, tree[l]} /\ After(s, 0, l, tree[l])
    /\ \A l \in Leaf : \A w \in Top(k.writes, l) : \A n \in Nat : \A a \in Ack :
            AnswerAt(k, s, n, a) /\ a.id = w.id => After(s, n, l, tree[l])

Solo(k, s, tree) == Ordered(k, s) /\ InTurn(k, s) /\ Agrees(k, s, tree)

\* The server has what an accepted write that shows at a leaf wrote there.
Fitting(k, s, tree) ==
    \A l \in Leaf : \A w \in Top(k.writes, l) : \A n \in Nat : \A a \in Ack :
        AnswerAt(k, s, n, a) /\ a.id = w.id /\ a.ok => tree[l] = w.put[l]

LEMMA AnsweredAt ==
    ASSUME NEW k \in ClientState, NEW s \in Seq(Message), NEW id
    PROVE  id \in AnsweredIds(k, s) <=>
                \E n \in Nat : \E a \in Ack : AnswerAt(k, s, n, a) /\ a.id = id
<1>1. \A i \in DOMAIN s : i \in Nat /\ (s[i].kind = "ack" => s[i].ack \in Ack)
    <2>1. TAKE i \in DOMAIN s
    <2>2. i \in Nat /\ s[i] \in Message
        OBVIOUS
    <2>. QED
        BY <2>2 DEF Message
<1>2. k.held \subseteq Ack
    BY DEF ClientState
<1>3. ASSUME id \in AnsweredIds(k, s)
      PROVE  \E n \in Nat : \E a \in Ack : AnswerAt(k, s, n, a) /\ a.id = id
    <2>1. CASE id \in HeldIds(k)
        BY <1>2, <2>1 DEF HeldIds, AnswerAt
    <2>2. CASE id \in AckIds(s)
        <3>1. PICK i \in DOMAIN s : s[i].kind = "ack" /\ s[i].ack.id = id
            BY <2>2 DEF AckIds, AcksIn
        <3>2. i \in Nat /\ s[i].ack \in Ack /\ AnswerAt(k, s, i, s[i].ack)
            BY <1>1, <3>1 DEF AnswerAt
        <3>. QED
            BY <3>1, <3>2
    <2>. QED
        BY <1>3, <2>1, <2>2 DEF AnsweredIds
<1>4. ASSUME NEW n \in Nat, NEW a \in Ack, AnswerAt(k, s, n, a), a.id = id
      PROVE  id \in AnsweredIds(k, s)
    BY <1>4 DEF AnswerAt, AnsweredIds, HeldIds, AckIds, AcksIn
<1>. QED
    BY <1>3, <1>4

\* The answers of a state that are those of an earlier one, whose inbox it has
\* from position d on.
Shifted(k, s, k2, t, d) ==
    /\ \A i \in DOMAIN t : i + d \in DOMAIN s /\ t[i] = s[i + d]
    /\ \A n \in Nat : \A a \in Ack :
        AnswerAt(k2, t, n, a) =>
            AnswerAt(k, s, n + d, a) \/ (n = 0 /\ AnswerAt(k, s, 0, a))

LEMMA ShiftAfter ==
    ASSUME NEW s \in Seq(Message), NEW t \in Seq(Message), NEW d \in {0, 1},
           \A i \in DOMAIN t : i + d \in DOMAIN s /\ t[i] = s[i + d],
           NEW n \in Nat, NEW l, NEW x
    PROVE  /\ After(s, n + d, l, x) => After(t, n, l, x)
           /\ After(s, 0, l, x) => After(t, n, l, x)
<1>1. \A j \in DOMAIN t : j \in Nat
    OBVIOUS
<1>2. \A j \in DOMAIN t : n < j => n + d < j + d /\ 0 < j + d
    BY <1>1
<1>3. ASSUME After(s, n + d, l, x), NEW j \in DOMAIN t, n < j PROVE Confirms(t[j], l, x)
    BY <1>2, <1>3 DEF After
<1>4. ASSUME After(s, 0, l, x), NEW j \in DOMAIN t, n < j PROVE Confirms(t[j], l, x)
    BY <1>2, <1>4 DEF After
<1>. QED
    BY <1>3, <1>4 DEF After

LEMMA ShiftOrdered ==
    ASSUME NEW k, NEW s \in Seq(Message), NEW k2, NEW t \in Seq(Message),
           NEW d \in {0, 1}, Shifted(k, s, k2, t, d), Ordered(k, s)
    PROVE  Ordered(k2, t)
<1>1. SUFFICES ASSUME NEW n \in Nat, NEW m \in Nat, NEW a \in Ack, NEW b \in Ack,
                      AnswerAt(k2, t, n, a), AnswerAt(k2, t, m, b), n < m
               PROVE  a.id < b.id
    BY DEF Ordered
<1>2. AnswerAt(k, s, m + d, b) /\ m + d \in Nat
    BY <1>1 DEF Shifted
<1>3. AnswerAt(k, s, n + d, a) \/ AnswerAt(k, s, 0, a)
    BY <1>1 DEF Shifted
<1>4. n + d \in Nat /\ 0 \in Nat /\ n + d < m + d /\ 0 < m + d
    BY <1>1
<1>. QED
    BY <1>2, <1>3, <1>4 DEF Ordered

\* A step that takes answers or the head of the inbox away and changes neither the
\* tree nor, but for the write answered, what is pending.
LEMMA ShiftAgrees ==
    ASSUME NEW k, NEW s \in Seq(Message), NEW k2, NEW t \in Seq(Message),
           NEW d \in {0, 1}, Shifted(k, s, k2, t, d), NEW tree, Agrees(k, s, tree),
           \A l \in Leaf : Free(k2, l) => Free(k, l) \/ After(t, 0, l, tree[l]),
           \A l \in Leaf : Free(k2, l) => k2.cache[l] \in {Unknown, tree[l]},
           \A l \in Leaf : \A u \in Top(k2.writes, l) :
                u \in Top(k.writes, l) \/ After(t, 0, l, tree[l])
    PROVE  Agrees(k2, t, tree)
<1>1. \A i \in DOMAIN t : i + d \in DOMAIN s /\ t[i] = s[i + d]
    BY DEF Shifted
<1>2. ASSUME NEW l \in Leaf, Free(k2, l) PROVE After(t, 0, l, tree[l])
    <2>1. Free(k, l) => After(s, 0, l, tree[l])
        BY DEF Agrees
    <2>2. Free(k, l) => After(t, 0, l, tree[l])
        BY <1>1, <2>1, ShiftAfter
    <2>. QED
        BY <1>2, <2>2
<1>3. ASSUME NEW l \in Leaf, NEW u \in Top(k2.writes, l), NEW n \in Nat, NEW a \in Ack,
             AnswerAt(k2, t, n, a), a.id = u.id
      PROVE  After(t, n, l, tree[l])
    <2>1. CASE After(t, 0, l, tree[l])
        <3>1. \A i \in DOMAIN t : i + 0 \in DOMAIN t /\ t[i] = t[i + 0]
            OBVIOUS
        <3>2. \A i \in DOMAIN t : i \in Nat /\ (n < i => 0 < i)
            OBVIOUS
        <3>. QED
            BY <2>1, <3>2 DEF After
    <2>2. CASE u \in Top(k.writes, l)
        <3>1. AnswerAt(k, s, n + d, a) \/ (n = 0 /\ AnswerAt(k, s, 0, a))
            BY <1>3 DEF Shifted
        <3>2. n + d \in Nat /\ 0 \in Nat
            OBVIOUS
        <3>3. After(s, n + d, l, tree[l]) \/ After(s, 0, l, tree[l])
            BY <1>3, <2>2, <3>1, <3>2 DEF Agrees
        <3>. QED
            BY <1>1, <3>3, ShiftAfter
    <2>. QED
        BY <2>1, <2>2
<1>. QED
    BY <1>2, <1>3 DEF Agrees

LEMMA ShiftFitting ==
    ASSUME NEW k, NEW s \in Seq(Message), NEW k2, NEW t \in Seq(Message),
           NEW d \in {0, 1}, Shifted(k, s, k2, t, d), NEW tree, Fitting(k, s, tree),
           \A l \in Leaf : Top(k2.writes, l) \subseteq Top(k.writes, l)
    PROVE  Fitting(k2, t, tree)
<1>1. SUFFICES ASSUME NEW l \in Leaf, NEW w \in Top(k2.writes, l), NEW n \in Nat,
                      NEW a \in Ack, AnswerAt(k2, t, n, a), a.id = w.id, a.ok
               PROVE  tree[l] = w.put[l]
    BY DEF Fitting
<1>2. AnswerAt(k, s, n + d, a) \/ AnswerAt(k, s, 0, a)
    BY <1>1 DEF Shifted
<1>3. n + d \in Nat /\ 0 \in Nat
    OBVIOUS
<1>. QED
    BY <1>1, <1>2, <1>3 DEF Fitting

\* A step that touches neither what is pending, nor the answers, nor the inbox, and
\* at most forgets what is cached.
LEMMA CalmSolo ==
    ASSUME NEW k, NEW s \in Seq(Message), NEW tree, NEW k2,
           k2.writes = k.writes, k2.held = k.held,
           \A l \in Leaf : k2.cache[l] \in {k.cache[l], Unknown}
    PROVE  /\ Solo(k, s, tree) => Solo(k2, s, tree)
           /\ Fitting(k, s, tree) => Fitting(k2, s, tree)
<1>1. \A n, a : AnswerAt(k2, s, n, a) <=> AnswerAt(k, s, n, a)
    BY DEF AnswerAt
<1>2. PendingIds(k2) = PendingIds(k) /\ AnsweredIds(k2, s) = AnsweredIds(k, s)
    BY DEF PendingIds, AnsweredIds, HeldIds
<1>3. \A l : Free(k2, l) <=> Free(k, l)
    BY DEF Free
<1>4. Solo(k, s, tree) => Ordered(k2, s) /\ InTurn(k2, s)
    BY <1>1, <1>2 DEF Solo, Ordered, InTurn
<1>5. Solo(k, s, tree) => Agrees(k2, s, tree)
    BY <1>1, <1>3 DEF Solo, Agrees
<1>6. Fitting(k, s, tree) => Fitting(k2, s, tree)
    BY <1>1 DEF Fitting
<1>. QED
    BY <1>4, <1>5, <1>6 DEF Solo

\* A new write is the last and has no answer.
LEMMA SetValueSolo ==
    ASSUME NEW k \in ClientState, NEW put \in Put, NEW tag \in Tag,
           NEW s \in Seq(Message), Sound(k, s), NEW tree, NEW k2,
           k2.writes = k.writes \cup {[id |-> Fresh(k), put |-> put, tag |-> tag]},
           k2.held = k.held, k2.cache = k.cache
    PROVE  /\ Solo(k, s, tree) => Solo(k2, s, tree)
           /\ Fitting(k, s, tree) => Fitting(k2, s, tree)
<1>. DEFINE w == [id |-> Fresh(k), put |-> put, tag |-> tag]
<1>1. w.id = Fresh(k) /\ k2.writes = k.writes \cup {w}
    OBVIOUS
<1>2. Fresh(k) \in Nat /\ \A v \in k.writes : v.id \in Nat /\ v.id < Fresh(k)
    BY FreshType DEF Sound, Numbered, ClientState, Write
<1>. HIDE DEF w
<1>3. \A n, a : AnswerAt(k2, s, n, a) <=> AnswerAt(k, s, n, a)
    BY DEF AnswerAt
<1>4. AnsweredIds(k2, s) = AnsweredIds(k, s)
      /\ PendingIds(k2) = PendingIds(k) \cup {Fresh(k)}
    BY <1>1 DEF PendingIds, AnsweredIds, HeldIds
<1>5. \A e \in AnsweredIds(k, s) : e \in PendingIds(k)
    BY DEF AnsweredIds, Sound, Accounted
<1>6. \A e \in PendingIds(k) : e \in Nat /\ e < Fresh(k)
    BY <1>2 DEF PendingIds
<1>7. InTurn(k, s) => InTurn(k2, s)
    BY <1>2, <1>4, <1>5, <1>6 DEF InTurn
<1>8. Ordered(k, s) => Ordered(k2, s)
    BY <1>3 DEF Ordered
<1>9. \A l : Free(k2, l) => Free(k, l)
    BY <1>1 DEF Free
<1>10. \A l : \A u \in Top(k2.writes, l) : u = w \/ u \in Top(k.writes, l)
    BY <1>1 DEF Top
<1>11. ASSUME NEW n \in Nat, NEW a \in Ack, AnswerAt(k, s, n, a) PROVE a.id # w.id
    <2>1. a.id \in AnsweredIds(k, s)
        BY <1>11, AnsweredAt
    <2>. QED
        BY <1>1, <1>2, <1>5, <1>6, <2>1
<1>12. Agrees(k, s, tree) => Agrees(k2, s, tree)
    BY <1>3, <1>9, <1>10, <1>11 DEF Agrees
<1>13. Fitting(k, s, tree) => Fitting(k2, s, tree)
    BY <1>3, <1>10, <1>11 DEF Fitting
<1>. QED
    BY <1>7, <1>8, <1>12, <1>13 DEF Solo

\* What an inbox that grows says.
LEMMA AppendAnswers ==
    ASSUME NEW k, NEW s \in Seq(Message), NEW m \in Message, NEW t, t = Append(s, m)
    PROVE  /\ t \in Seq(Message)
           /\ \A i \in DOMAIN s : t[i] = s[i]
           /\ Len(t) = Len(s) + 1 /\ Len(t) \in Nat /\ t[Len(t)] = m
           /\ \A i \in DOMAIN s : i \in Nat /\ i < Len(t)
           /\ \A n \in Nat : \A a \in Ack :
                AnswerAt(k, t, n, a) <=> \/ AnswerAt(k, s, n, a)
                                         \/ n = Len(t) /\ m.kind = "ack" /\ m.ack = a
           /\ \A n \in Nat : \A l, x : After(t, n, l, x) <=>
                After(s, n, l, x) /\ (n < Len(t) => Confirms(m, l, x))
<1>1. /\ DOMAIN t = DOMAIN s \cup {Len(t)} /\ t[Len(t)] = m
      /\ \A i \in DOMAIN s : t[i] = s[i] /\ i \in Nat /\ i < Len(t)
      /\ Len(t) = Len(s) + 1 /\ Len(t) \in Nat /\ t \in Seq(Message)
    OBVIOUS
<1>2. Len(t) \notin DOMAIN s /\ Len(t) # 0
    BY <1>1
<1>3. ASSUME NEW n \in Nat, NEW a \in Ack
      PROVE  AnswerAt(k, t, n, a) <=> \/ AnswerAt(k, s, n, a)
                                      \/ n = Len(t) /\ m.kind = "ack" /\ m.ack = a
    BY <1>1, <1>2 DEF AnswerAt
<1>4. ASSUME NEW n \in Nat, NEW l, NEW x
      PROVE  After(t, n, l, x) <=>
                After(s, n, l, x) /\ (n < Len(t) => Confirms(m, l, x))
    BY <1>1 DEF After
<1>. QED
    BY <1>1, <1>3, <1>4

\* The server answers a listen with what it has.
LEMMA ListenSolo ==
    ASSUME NEW k \in ClientState, NEW s \in Seq(Message), NEW tree, NEW m \in Message,
           m.kind = "listen", \A l \in DOMAIN m.put : m.put[l] = tree[l]
    PROVE  /\ Solo(k, s, tree) => Solo(k, Append(s, m), tree)
           /\ Fitting(k, s, tree) => Fitting(k, Append(s, m), tree)
<1>. DEFINE t == Append(s, m)
<1>1. /\ t \in Seq(Message)
      /\ \A n \in Nat : \A a \in Ack : AnswerAt(k, t, n, a) <=> AnswerAt(k, s, n, a)
      /\ \A n \in Nat : \A l, x : After(t, n, l, x) <=>
                After(s, n, l, x) /\ (n < Len(t) => Confirms(m, l, x))
    BY AppendAnswers
<1>2. \A l : Confirms(m, l, tree[l])
    BY DEF Confirms, Concerns
<1>3. AckIds(t) = AckIds(s)
    BY AcksAppend DEF AckIds
<1>. HIDE DEF t
<1>4. Ordered(k, s) => Ordered(k, t)
    BY <1>1 DEF Ordered
<1>5. InTurn(k, s) => InTurn(k, t)
    BY <1>3 DEF InTurn, AnsweredIds
<1>6. Agrees(k, s, tree) => Agrees(k, t, tree)
    BY <1>1, <1>2 DEF Agrees
<1>7. Fitting(k, s, tree) => Fitting(k, t, tree)
    BY <1>1 DEF Fitting
<1>. QED
    BY <1>4, <1>5, <1>6, <1>7 DEF Solo, t

\* The server applies the earliest write without an answer: none that it covers
\* has been answered, so that what has been answered still stands.
LEMMA AppliedSolo ==
    ASSUME NEW k \in ClientState, NEW s \in Seq(Message), NEW tree,
           NEW v \in k.writes, v.id \notin AnsweredIds(k, s), InTurn(k, s),
           NEW tree2, \A l \in Leaf : l \notin DOMAIN v.put => tree2[l] = tree[l]
    PROVE  /\ Agrees(k, s, tree) => Agrees(k, s, tree2)
           /\ Fitting(k, s, tree) => Fitting(k, s, tree2)
<1>1. \A l \in Leaf : Free(k, l) => tree2[l] = tree[l]
    BY DEF Free
<1>2. ASSUME NEW l \in Leaf, NEW w \in Top(k.writes, l), NEW n \in Nat, NEW a \in Ack,
             AnswerAt(k, s, n, a), a.id = w.id
      PROVE  tree2[l] = tree[l]
    <2>1. w.id \in AnsweredIds(k, s)
        BY <1>2, AnsweredAt
    <2>2. ASSUME l \in DOMAIN v.put PROVE FALSE
        <3>1. v.id <= w.id /\ v.id \in PendingIds(k)
            BY <2>2 DEF Top, PendingIds
        <3>. QED
            BY <2>1, <3>1 DEF InTurn
    <2>. QED
        BY <2>2
<1>3. Agrees(k, s, tree) => Agrees(k, s, tree2)
    BY <1>1, <1>2 DEF Agrees
<1>4. Fitting(k, s, tree) => Fitting(k, s, tree2)
    BY <1>2 DEF Fitting
<1>. QED
    BY <1>3, <1>4

\* What the server sends of a write that it applies concerns no leaf that has been
\* answered for.
LEMMA PushSolo ==
    ASSUME NEW k \in ClientState, NEW s \in Seq(Message), NEW tree,
           NEW v \in k.writes, v.id \notin AnsweredIds(k, s),
           NEW m \in Message, m.kind = "push", DOMAIN m.put \subseteq DOMAIN v.put
    PROVE  /\ Solo(k, s, tree) => Solo(k, Append(s, m), tree)
           /\ Fitting(k, s, tree) => Fitting(k, Append(s, m), tree)
           /\ AnsweredIds(k, Append(s, m)) = AnsweredIds(k, s)
<1>. DEFINE t == Append(s, m)
<1>1. /\ t \in Seq(Message)
      /\ \A n \in Nat : \A a \in Ack : AnswerAt(k, t, n, a) <=> AnswerAt(k, s, n, a)
      /\ \A n \in Nat : \A l, x : After(t, n, l, x) <=>
                After(s, n, l, x) /\ (n < Len(t) => Confirms(m, l, x))
    BY AppendAnswers
<1>3. AckIds(t) = AckIds(s)
    BY AcksAppend DEF AckIds
<1>2. AnsweredIds(k, t) = AnsweredIds(k, s)
    BY <1>3 DEF AnsweredIds
<1>. HIDE DEF t
<1>4. Ordered(k, s) => Ordered(k, t)
    BY <1>1 DEF Ordered
<1>5. InTurn(k, s) => InTurn(k, t)
    BY <1>2 DEF InTurn
<1>6. ASSUME NEW l, l \notin DOMAIN v.put PROVE Confirms(m, l, tree[l])
    BY <1>6 DEF Confirms, Concerns
<1>7. \A l : Free(k, l) => l \notin DOMAIN v.put
    BY DEF Free
<1>8. ASSUME InTurn(k, s), NEW l, NEW w \in Top(k.writes, l), NEW n \in Nat, NEW a \in Ack,
             AnswerAt(k, s, n, a), a.id = w.id
      PROVE  l \notin DOMAIN v.put
    <2>1. w.id \in AnsweredIds(k, s)
        BY <1>8, AnsweredAt
    <2>2. ASSUME l \in DOMAIN v.put PROVE FALSE
        <3>1. v.id <= w.id /\ v.id \in PendingIds(k)
            BY <2>2 DEF Top, PendingIds
        <3>. QED
            BY <1>8, <2>1, <3>1 DEF InTurn
    <2>. QED
        BY <2>2
<1>9. InTurn(k, s) /\ Agrees(k, s, tree) => Agrees(k, t, tree)
    BY <1>1, <1>6, <1>7, <1>8 DEF Agrees
<1>10. Fitting(k, s, tree) => Fitting(k, t, tree)
    BY <1>1 DEF Fitting
<1>. QED
    BY <1>2, <1>4, <1>5, <1>9, <1>10 DEF Solo, t

\* The answer to the earliest write without one.
LEMMA AnswerSolo ==
    ASSUME NEW k \in ClientState, NEW s \in Seq(Message), NEW tree, Sound(k, s),
           NEW v \in k.writes, v.id \notin AnsweredIds(k, s),
           \A p \in PendingIds(k) : p \in AnsweredIds(k, s) \/ v.id <= p,
           NEW m \in Message, m.kind = "ack", m.ack.id = v.id,
           m.ack.ok => \A l \in DOMAIN v.put : tree[l] = v.put[l]
    PROVE  /\ Solo(k, s, tree) => Solo(k, Append(s, m), tree)
           /\ Fitting(k, s, tree) => Fitting(k, Append(s, m), tree)
<1>. DEFINE t == Append(s, m)
<1>0. \A p \in PendingIds(k) : p \in Nat
    BY DEF PendingIds, ClientState, Write
<1>12. t = Append(s, m)
    OBVIOUS
<1>. HIDE DEF t
<1>13. /\ t \in Seq(Message) /\ Len(t) \in Nat /\ Len(t) = Len(s) + 1
      /\ \A i \in DOMAIN s : i \in Nat /\ i < Len(t)
    BY <1>12
<1>14. \A n \in Nat : \A a \in Ack :
            AnswerAt(k, t, n, a) <=> AnswerAt(k, s, n, a) \/ (n = Len(t) /\ m.ack = a)
    <2>1. /\ DOMAIN t = DOMAIN s \cup {Len(t)} /\ t[Len(t)] = m
          /\ \A i \in DOMAIN s : t[i] = s[i] /\ i # Len(t)
        BY <1>12
    <2>2. Len(t) # 0
        BY <1>13
    <2>. QED
        BY <2>1, <2>2 DEF AnswerAt
<1>15. \A n \in Nat : \A l, x : After(t, n, l, x) <=>
            After(s, n, l, x) /\ (n < Len(t) => Confirms(m, l, x))
    BY <1>12, AppendAnswers
<1>1. /\ t \in Seq(Message) /\ Len(t) \in Nat /\ Len(t) = Len(s) + 1 /\ 0 < Len(t)
      /\ \A n \in Nat : \A a \in Ack :
                AnswerAt(k, t, n, a) <=> \/ AnswerAt(k, s, n, a)
                                         \/ n = Len(t) /\ m.ack = a
      /\ \A n \in Nat : \A l, x : After(t, n, l, x) <=>
                After(s, n, l, x) /\ (n < Len(t) => Confirms(m, l, x))
      /\ \A i \in DOMAIN s : i \in Nat /\ i < Len(t)
    BY <1>13, <1>14, <1>15
<1>2. \A l, x : Confirms(m, l, x)
    BY DEF Confirms, Concerns
<1>3. AckIds(t) = AckIds(s) \cup {v.id}
    BY <1>12, AcksAppend DEF AckIds
<1>4. \A n \in Nat : \A a : AnswerAt(k, s, n, a) => n < Len(t)
    BY <1>1 DEF AnswerAt
<1>5. \A n \in Nat : \A l, x : Len(t) <= n => After(t, n, l, x)
    <2>1. DOMAIN t = 1..Len(t)
        BY <1>1
    <2>. QED
        BY <1>1, <2>1 DEF After
<1>6. ASSUME InTurn(k, s), NEW n \in Nat, NEW a \in Ack, AnswerAt(k, s, n, a) PROVE a.id < v.id
    <2>1. a.id \in AnsweredIds(k, s)
        BY <1>6, AnsweredAt
    <2>2. a.id \in PendingIds(k) /\ v.id \in PendingIds(k)
        BY <2>1 DEF AnsweredIds, Sound, Accounted, PendingIds
    <2>3. ~(v.id <= a.id)
        BY <1>6, <2>1, <2>2 DEF InTurn
    <2>. QED
        BY <1>0, <2>2, <2>3
<1>7. InTurn(k, s) /\ Ordered(k, s) => Ordered(k, t)
    <2>1. SUFFICES ASSUME InTurn(k, s), Ordered(k, s), NEW n \in Nat, NEW i \in Nat,
                          NEW a \in Ack, NEW b \in Ack,
                          AnswerAt(k, t, n, a), AnswerAt(k, t, i, b), n < i
                   PROVE  a.id < b.id
        BY DEF Ordered
    <2>2. CASE AnswerAt(k, s, i, b)
        <3>1. i < Len(t) /\ n # Len(t)
            BY <1>1, <1>4, <2>1, <2>2
        <3>2. AnswerAt(k, s, n, a)
            BY <1>1, <2>1, <3>1
        <3>. QED
            BY <2>1, <2>2, <3>2 DEF Ordered
    <2>3. CASE i = Len(t) /\ m.ack = b
        <3>1. AnswerAt(k, s, n, a)
            BY <1>1, <2>1, <2>3
        <3>. QED
            BY <1>6, <2>1, <2>3, <3>1
    <2>. QED
        BY <1>1, <2>1, <2>2, <2>3
<1>8. InTurn(k, s) => InTurn(k, t)
    <2>1. SUFFICES ASSUME InTurn(k, s), NEW p \in PendingIds(k), NEW e \in AnsweredIds(k, t),
                          p <= e
                   PROVE  p \in AnsweredIds(k, t)
        BY DEF InTurn
    <2>2. AnsweredIds(k, t) = AnsweredIds(k, s) \cup {v.id}
        BY <1>3 DEF AnsweredIds
    <2>3. CASE e \in AnsweredIds(k, s)
        BY <2>1, <2>2, <2>3 DEF InTurn
    <2>4. CASE e = v.id
        <3>1. v.id \in Nat /\ p \in Nat
            BY <1>0 DEF PendingIds
        <3>. QED
            BY <2>1, <2>2, <2>4, <3>1
    <2>. QED
        BY <2>1, <2>2, <2>3, <2>4
<1>9. Agrees(k, s, tree) => Agrees(k, t, tree)
    <2>1. SUFFICES ASSUME Agrees(k, s, tree) PROVE Agrees(k, t, tree)
        OBVIOUS
    <2>2. ASSUME NEW l \in Leaf, Free(k, l)
          PROVE  k.cache[l] \in {Unknown, tree[l]} /\ After(t, 0, l, tree[l])
        BY <1>1, <1>2, <2>1, <2>2 DEF Agrees
    <2>3. ASSUME NEW l \in Leaf, NEW w \in Top(k.writes, l), NEW n \in Nat, NEW a \in Ack,
                 AnswerAt(k, t, n, a), a.id = w.id
          PROVE  After(t, n, l, tree[l])
        <3>1. CASE n = Len(t)
            BY <1>1, <1>5, <3>1
        <3>2. CASE AnswerAt(k, s, n, a)
            <4>1. After(s, n, l, tree[l])
                BY <2>1, <2>3, <3>2 DEF Agrees
            <4>. QED
                BY <1>1, <1>2, <4>1
        <3>. QED
            BY <1>1, <2>3, <3>1, <3>2
    <2>. QED
        BY <2>2, <2>3 DEF Agrees
<1>10. Fitting(k, s, tree) => Fitting(k, t, tree)
    <2>1. SUFFICES ASSUME Fitting(k, s, tree), NEW l \in Leaf, NEW w \in Top(k.writes, l),
                          NEW n \in Nat, NEW a \in Ack, AnswerAt(k, t, n, a),
                          a.id = w.id, a.ok
                   PROVE  tree[l] = w.put[l]
        BY DEF Fitting
    <2>2. CASE AnswerAt(k, s, n, a)
        BY <2>1, <2>2 DEF Fitting
    <2>3. CASE m.ack = a
        <3>1. w = v /\ l \in DOMAIN v.put
            BY <2>1, <2>3 DEF Top, Sound, Numbered
        <3>. QED
            BY <2>1, <2>3, <3>1
    <2>. QED
        BY <1>1, <2>1, <2>2, <2>3
<1>. QED
    BY <1>7, <1>8, <1>9, <1>10 DEF Solo, t

\* The head of an inbox and what follows it.
LEMMA TailAnswers ==
    ASSUME NEW k, NEW s \in Seq(Message), s # <<>>, NEW t, t = Tail(s)
    PROVE  /\ t \in Seq(Message) /\ 1 \in DOMAIN s /\ s[1] = Head(s)
           /\ \A i \in DOMAIN t : i + 1 \in DOMAIN s /\ t[i] = s[i + 1]
           /\ \A n \in Nat : \A a :
                AnswerAt(k, t, n, a) <=> \/ n = 0 /\ a \in k.held
                                         \/ n > 0 /\ AnswerAt(k, s, n + 1, a)
<1>1. /\ t \in Seq(Message) /\ 1 \in DOMAIN s /\ s[1] = Head(s)
      /\ DOMAIN s = 1..Len(s) /\ DOMAIN t = 1..(Len(s) - 1) /\ Len(s) \in Nat
      /\ \A i \in DOMAIN t : t[i] = s[i + 1]
    OBVIOUS
<1>2. /\ \A n \in Nat : n \in DOMAIN t <=> n > 0 /\ n + 1 \in DOMAIN s
      /\ \A n \in Nat : n + 1 # 0
      /\ \A n \in DOMAIN t : n \in Nat
    BY <1>1
<1>3. \A n \in Nat : \A a :
        AnswerAt(k, t, n, a) <=> \/ n = 0 /\ a \in k.held
                                 \/ n > 0 /\ AnswerAt(k, s, n + 1, a)
    BY <1>1, <1>2 DEF AnswerAt
<1>. QED
    BY <1>1, <1>2, <1>3

\* Server data is merged.
LEMMA MergedSolo ==
    ASSUME NEW k, NEW s \in Seq(Message), s # <<>>, Head(s).kind # "ack", NEW tree,
           NEW k2, k2.writes = k.writes, k2.held = k.held,
           \A l \in Leaf : \/ k2.cache[l] = k.cache[l]
                           \/ /\ l \in DOMAIN Head(s).put
                              /\ k2.cache[l] = Head(s).put[l]
    PROVE  /\ Solo(k, s, tree) => Solo(k2, Tail(s), tree)
           /\ Fitting(k, s, tree) => Fitting(k2, Tail(s), tree)
<1>. DEFINE t == Tail(s)
<1>1. AckIds(t) = AckIds(s)
    BY AcksTail DEF AckIds
<1>2. /\ t \in Seq(Message) /\ 1 \in DOMAIN s /\ s[1] = Head(s)
      /\ \A i \in DOMAIN t : i + 1 \in DOMAIN s /\ t[i] = s[i + 1]
      /\ \A n \in Nat : \A a :
            AnswerAt(k2, t, n, a) <=> \/ n = 0 /\ a \in k2.held
                                      \/ n > 0 /\ AnswerAt(k2, s, n + 1, a)
    BY TailAnswers
<1>. HIDE DEF t
<1>3. \A n, a : AnswerAt(k2, s, n, a) <=> AnswerAt(k, s, n, a)
    BY DEF AnswerAt
<1>4. Shifted(k, s, k2, t, 1)
    BY <1>2, <1>3 DEF Shifted, AnswerAt
<1>5. InTurn(k, s) => InTurn(k2, t)
    BY <1>1 DEF InTurn, PendingIds, AnsweredIds, HeldIds
<1>6. Ordered(k, s) => Ordered(k2, t)
    BY <1>2, <1>4, ShiftOrdered
<1>7. \A l : Free(k2, l) <=> Free(k, l)
    BY DEF Free
<1>8. ASSUME Agrees(k, s, tree) PROVE Agrees(k2, t, tree)
    <2>1. ASSUME NEW l \in Leaf, Free(k, l) PROVE k2.cache[l] \in {Unknown, tree[l]}
        <3>1. k.cache[l] \in {Unknown, tree[l]} /\ After(s, 0, l, tree[l])
            BY <1>8, <2>1 DEF Agrees
        <3>2. l \in DOMAIN Head(s).put => Head(s).put[l] = tree[l]
            BY <1>2, <3>1 DEF After, Confirms, Concerns
        <3>. QED
            BY <3>1, <3>2
    <2>. QED
        BY <1>2, <1>4, <1>7, <1>8, <2>1, ShiftAgrees
<1>9. Fitting(k, s, tree) => Fitting(k2, t, tree)
    BY <1>2, <1>4, ShiftFitting
<1>. QED
    BY <1>5, <1>6, <1>8, <1>9 DEF Solo, t

\* An answer is held back.
LEMMA HeldSolo ==
    ASSUME NEW k, NEW s \in Seq(Message), s # <<>>, Head(s).kind = "ack", NEW tree,
           NEW k2, k2.writes = k.writes, k2.held = k.held \cup {Head(s).ack},
           k2.cache = k.cache
    PROVE  /\ Solo(k, s, tree) => Solo(k2, Tail(s), tree)
           /\ Fitting(k, s, tree) => Fitting(k2, Tail(s), tree)
<1>. DEFINE t == Tail(s)
<1>1. AckIds(s) = AckIds(t) \cup {Head(s).ack.id}
    BY AcksTail DEF AckIds
<1>2. /\ t \in Seq(Message) /\ 1 \in DOMAIN s /\ s[1] = Head(s)
      /\ \A i \in DOMAIN t : i + 1 \in DOMAIN s /\ t[i] = s[i + 1]
      /\ \A n \in Nat : \A a :
            AnswerAt(k2, t, n, a) <=> \/ n = 0 /\ a \in k2.held
                                      \/ n > 0 /\ AnswerAt(k2, s, n + 1, a)
    BY TailAnswers
<1>. HIDE DEF t
<1>3. ASSUME NEW n \in Nat, NEW a \in Ack, AnswerAt(k2, t, n, a)
      PROVE  AnswerAt(k, s, n + 1, a) \/ (n = 0 /\ AnswerAt(k, s, 0, a))
    <2>1. CASE n = 0 /\ a \in k2.held
        BY <1>2, <2>1 DEF AnswerAt
    <2>2. CASE n > 0 /\ AnswerAt(k2, s, n + 1, a)
        <3>1. n + 1 # 0
            OBVIOUS
        <3>. QED
            BY <2>2, <3>1 DEF AnswerAt
    <2>. QED
        BY <1>2, <1>3, <2>1, <2>2
<1>4. Shifted(k, s, k2, t, 1)
    BY <1>2, <1>3 DEF Shifted
<1>10. HeldIds(k2) = HeldIds(k) \cup {Head(s).ack.id}
    BY DEF HeldIds
<1>5. InTurn(k, s) => InTurn(k2, t)
    <2>1. PendingIds(k2) = PendingIds(k)
        BY DEF PendingIds
    <2>2. AnsweredIds(k2, t) = AnsweredIds(k, s)
        BY <1>1, <1>10 DEF AnsweredIds
    <2>. QED
        BY <2>1, <2>2 DEF InTurn
<1>6. Ordered(k, s) => Ordered(k2, t)
    BY <1>2, <1>4, ShiftOrdered
<1>7. \A l : Free(k2, l) <=> Free(k, l)
    BY DEF Free
<1>8. ASSUME Agrees(k, s, tree) PROVE Agrees(k2, t, tree)
    <2>1. \A l \in Leaf : Free(k, l) => k2.cache[l] \in {Unknown, tree[l]}
        BY <1>8 DEF Agrees
    <2>. QED
        BY <1>2, <1>4, <1>7, <1>8, <2>1, ShiftAgrees
<1>9. Fitting(k, s, tree) => Fitting(k2, t, tree)
    BY <1>2, <1>4, ShiftFitting
<1>. QED
    BY <1>5, <1>6, <1>8, <1>9 DEF Solo, t

\* The first of the answers is acted on: its write is no longer pending. What then
\* shows at the leaves of it must be in the cache.
LEMMA RetiredSolo ==
    ASSUME NEW k \in ClientState, NEW s \in Seq(Message), Sound(k, s), NEW tree,
           NEW v \in k.writes, NEW k2 \in ClientState, NEW t \in Seq(Message),
           k2.writes = k.writes \ {v}, k2.cache = k.cache,
           NEW i \in Nat, NEW x \in Ack, AnswerAt(k, s, i, x), x.id = v.id,
           NEW d \in {0, 1}, i <= d, Shifted(k, s, k2, t, d),
           AnsweredIds(k2, t) = AnsweredIds(k, s) \ {v.id},
           \A l \in Leaf : v \in Top(k.writes, l) => k.cache[l] \in {Unknown, tree[l]}
    PROVE  /\ Solo(k, s, tree) => Solo(k2, t, tree)
           /\ Fitting(k, s, tree) /\ (\A w \in k.writes : v.id <= w.id)
                => Fitting(k2, t, tree)
<1>0. \A w \in k.writes : w.id \in Nat
    BY DEF ClientState, Write
<1>1. \A j \in DOMAIN t : j + d \in DOMAIN s /\ t[j] = s[j + d]
    BY DEF Shifted
<1>2. Ordered(k, s) => Ordered(k2, t)
    BY ShiftOrdered
<1>3. PendingIds(k2) = PendingIds(k) \ {v.id}
    BY DEF PendingIds, Sound, Numbered
<1>4. InTurn(k, s) => InTurn(k2, t)
    BY <1>3 DEF InTurn
<1>5. ASSUME Agrees(k, s, tree), NEW l \in Leaf, v \in Top(k.writes, l)
      PROVE  After(t, 0, l, tree[l])
    <2>1. After(s, i, l, tree[l])
        BY <1>5 DEF Agrees
    <2>2. \A j \in DOMAIN t : 0 < j => i < j + d
        <3>1. \A j \in DOMAIN t : j \in Nat
            OBVIOUS
        <3>. QED
            BY <3>1
    <2>. QED
        BY <1>1, <2>1, <2>2 DEF After
\* A leaf that the write alone covered, and one that an earlier write now shows at.
<1>6. ASSUME NEW l, Free(k2, l), ~Free(k, l) PROVE v \in Top(k.writes, l)
    BY <1>0, <1>6 DEF Free, Top
<1>7. ASSUME NEW l, NEW u \in Top(k2.writes, l), u \notin Top(k.writes, l)
      PROVE  v \in Top(k.writes, l) /\ u.id < v.id /\ u \in k.writes
    <2>1. u \in k.writes /\ l \in DOMAIN u.put
          /\ \A w \in k.writes : w # v /\ l \in DOMAIN w.put => w.id <= u.id
        BY DEF Top
    <2>2. l \in DOMAIN v.put /\ ~(v.id <= u.id)
        BY <1>7, <2>1 DEF Top
    <2>3. u.id < v.id
        BY <1>0, <2>1, <2>2
    <2>4. \A w \in k.writes : l \in DOMAIN w.put => w.id <= v.id
        BY <1>0, <2>1, <2>3
    <2>. QED
        BY <2>1, <2>2, <2>3, <2>4 DEF Top
<1>8. ASSUME Agrees(k, s, tree) PROVE Agrees(k2, t, tree)
    <2>1. ASSUME NEW l \in Leaf, Free(k2, l) PROVE k2.cache[l] \in {Unknown, tree[l]}
        <3>1. CASE Free(k, l)
            BY <1>8, <3>1 DEF Agrees
        <3>2. CASE ~Free(k, l)
            BY <1>6, <2>1, <3>2
        <3>. QED
            BY <3>1, <3>2
    <2>2. ASSUME NEW l \in Leaf, Free(k2, l) PROVE Free(k, l) \/ After(t, 0, l, tree[l])
        BY <1>5, <1>6, <1>8, <2>2
    <2>3. ASSUME NEW l \in Leaf, NEW u \in Top(k2.writes, l)
          PROVE  u \in Top(k.writes, l) \/ After(t, 0, l, tree[l])
        BY <1>5, <1>7, <1>8
    <2>. QED
        BY <1>8, <2>1, <2>2, <2>3, ShiftAgrees
<1>9. ASSUME Fitting(k, s, tree), \A w \in k.writes : v.id <= w.id
      PROVE  Fitting(k2, t, tree)
    <2>1. ASSUME NEW l \in Leaf, NEW u \in Top(k2.writes, l) PROVE u \in Top(k.writes, l)
        <3>1. ASSUME u \notin Top(k.writes, l) PROVE FALSE
            <4>1. u.id < v.id /\ u \in k.writes
                BY <1>7, <3>1
            <4>. QED
                BY <1>0, <1>9, <4>1
        <3>. QED
            BY <3>1
    <2>. QED
        BY <1>9, <2>1, ShiftFitting
<1>. QED
    BY <1>2, <1>4, <1>8, <1>9 DEF Solo

\* A lost connection: the answers held back are the earliest.
LEMMA CutOffSolo ==
    ASSUME NEW k \in ClientState, NEW s \in Seq(Message), NEW tree,
           NEW k2 \in ClientState,
           k2.writes = k.writes, k2.held = k.held, k2.cache = k.cache
    PROVE  /\ Solo(k, s, tree) => Solo(k2, <<>>, tree)
           /\ Fitting(k, s, tree) => Fitting(k2, <<>>, tree)
<1>. DEFINE t == <<>>
<1>1. t \in Seq(Message) /\ DOMAIN t = {}
    OBVIOUS
<1>. HIDE DEF t
<1>2. \A n, a : AnswerAt(k2, t, n, a) <=> n = 0 /\ a \in k.held
    BY <1>1 DEF AnswerAt
<1>3. Shifted(k, s, k2, t, 0)
    BY <1>1, <1>2 DEF Shifted, AnswerAt
<1>4. ASSUME Ordered(k, s), InTurn(k, s) PROVE InTurn(k2, t)
    <2>1. SUFFICES ASSUME NEW p \in PendingIds(k2), NEW e \in AnsweredIds(k2, t), p <= e
                   PROVE  p \in AnsweredIds(k2, t)
        BY DEF InTurn
    <2>2. AnsweredIds(k2, t) = HeldIds(k)
        BY <1>1 DEF AnsweredIds, HeldIds, AckIds, AcksIn
    <2>3. p \in PendingIds(k) /\ e \in AnsweredIds(k, s)
        BY <2>1, <2>2 DEF PendingIds, AnsweredIds
    <2>4. p \in AnsweredIds(k, s)
        BY <1>4, <2>1, <2>3 DEF InTurn
    <2>5. PICK n \in Nat, a \in Ack : AnswerAt(k, s, n, a) /\ a.id = p
        BY <2>4, AnsweredAt
    <2>6. PICK b \in k.held : b.id = e
        BY <2>1, <2>2 DEF HeldIds
    <2>7. b \in Ack /\ AnswerAt(k, s, 0, b) /\ 0 \in Nat
        BY <2>6 DEF ClientState, AnswerAt
    <2>8. CASE n = 0
        <3>1. 0 \notin DOMAIN s
            OBVIOUS
        <3>2. a \in k.held
            BY <2>5, <2>8, <3>1 DEF AnswerAt
        <3>. QED
            BY <2>2, <2>5, <3>2 DEF HeldIds
    <2>9. CASE n > 0
        <3>1. b.id < a.id
            BY <1>4, <2>5, <2>7, <2>9 DEF Ordered
        <3>2. a.id \in Nat /\ b.id \in Nat
            BY <2>7 DEF Ack
        <3>. QED
            BY <2>1, <2>5, <2>6, <3>1, <3>2
    <2>. QED
        BY <2>8, <2>9
<1>5. Ordered(k, s) => Ordered(k2, t)
    BY <1>1, <1>3, ShiftOrdered
<1>6. \A l : Free(k2, l) <=> Free(k, l)
    BY DEF Free
<1>7. ASSUME Agrees(k, s, tree) PROVE Agrees(k2, t, tree)
    <2>1. \A l \in Leaf : Free(k, l) => k2.cache[l] \in {Unknown, tree[l]}
        BY <1>7 DEF Agrees
    <2>. QED
        BY <1>1, <1>3, <1>6, <1>7, <2>1, ShiftAgrees
<1>8. Fitting(k, s, tree) => Fitting(k2, t, tree)
    BY <1>1, <1>3, ShiftFitting
<1>. QED
    BY <1>4, <1>5, <1>7, <1>8 DEF Solo, t

\* What no registration covers is not in the cache.
Hides(k) == \A l \in Leaf \ Covered(k.regs) : k.cache[l] = Unknown

\* When answers are acted on, the cache has what the server has, but for what is
\* still to come.
Shows(k, s, tree) ==
    k.flush \/ (k.conn /\ k.unacked = {}) =>
        \A l \in Leaf :
            (\A j \in DOMAIN s : Concerns(s[j], l) => s[j].kind = "listen")
                => k.cache[l] \in {Unknown, tree[l]}

\* The write whose answer comes next is the first of the pending ones.
Prompted(k) ==
    \/ k.held = {} \/ k.flush \/ k.unacked # {}
    \/ \A v, w \in k.writes : v = w

LEMMA RelistenHides ==
    ASSUME NEW k \in ClientState, NEW regs \in SUBSET Reg, Hides(k)
    PROVE  /\ Hides(Relisten(k, regs))
           /\ \A l \in Leaf : Relisten(k, regs).cache[l] \in {k.cache[l], Unknown}
<1>. DEFINE k2 == Relisten(k, regs)
<1>1. /\ k2.regs = regs
      /\ \A l \in Leaf : k2.cache[l] = IF l \in Covered(regs)
                                       THEN k.cache[l] ELSE Unknown
    BY DEF Relisten, ClientState
<1>. HIDE DEF k2
<1>. QED
    BY <1>1 DEF Hides, k2

LEMMA MergeCache ==
    ASSUME NEW k \in ClientState, NEW put \in Put
    PROVE  \A l \in Leaf : Merge(k, put).cache[l] =
                IF l \in Merged(k, put) THEN put[l] ELSE k.cache[l]
<1>. DEFINE cache == [l \in Leaf |-> IF l \in Merged(k, put)
                                     THEN put[l] ELSE k.cache[l]]
            k1 == [k EXCEPT !.cache = cache]
            k2 == Merge(k, put)
<1>1. PICK S \in SUBSET Leaf : put \in [S -> Value]
    BY DEF Put
<1>2. cache \in [Leaf -> Seen]
    BY <1>1 DEF Merged, ClientState, Seen
<1>3. k2 = Raise(k1, Changed(k, k1))
    BY DEF Merge
<1>4. \A l \in Leaf : cache[l] = IF l \in Merged(k, put) THEN put[l] ELSE k.cache[l]
    OBVIOUS
<1>. HIDE DEF cache, k2
<1>5. k1 \in ClientState /\ k1.cache = cache
    BY <1>2 DEF ClientState
<1>. HIDE DEF k1
<1>6. k2.cache = cache
    BY <1>3, <1>5, RaiseFields
<1>. QED
    BY <1>4, <1>6 DEF k2

\* A client that is alone, in the composed state.
Lonely(c) ==
    /\ \A d \in Client : d = c
    /\ client \in [Client -> ClientState] /\ in \in [Client -> Seq(Message)]
    /\ sub \in [Client -> SUBSET Path] /\ data \in [Leaf -> Value]
    /\ Sound(client[c], in[c])
    /\ Solo(client[c], in[c], data) /\ Hides(client[c])

StaysLonely(c) ==
    /\ Solo(client'[c], in'[c], data') /\ Hides(client'[c])
    /\ Fitting(client[c], in[c], data) /\ Prompted(client[c])
        => Fitting(client'[c], in'[c], data')

LEMMA LocalLonely ==
    ASSUME NEW c \in Client, Lonely(c)
    PROVE  /\ client[c] \in ClientState /\ in[c] \in Seq(Message)
           /\ sub[c] \in SUBSET Path /\ data \in [Leaf -> Value]
           /\ Sound(client[c], in[c]) /\ Solo(client[c], in[c], data)
           /\ Hides(client[c])
           /\ client[c].out # {} \/ in[c] # <<>> => client[c].conn
    BY DEF Lonely, Sound, Numbered

\* Taking a request off the wire.
LEMMA ServedLonely ==
    ASSUME NEW k \in ClientState, NEW q,
           NEW k2, k2 = [k EXCEPT !.out = @ \ {q}]
    PROVE  /\ k2.writes = k.writes /\ k2.held = k.held /\ k2.cache = k.cache
           /\ k2.regs = k.regs /\ k2.out = k.out \ {q}
           /\ Hides(k) => Hides(k2)
           /\ \A s, tree : /\ Solo(k, s, tree) => Solo(k2, s, tree)
                           /\ Fitting(k, s, tree) => Fitting(k2, s, tree)
<1>1. /\ k2.writes = k.writes /\ k2.held = k.held /\ k2.cache = k.cache
      /\ k2.regs = k.regs /\ k2.out = k.out \ {q}
    BY DEF ClientState
<1>2. \A n, a, s : AnswerAt(k2, s, n, a) <=> AnswerAt(k, s, n, a)
    BY <1>1 DEF AnswerAt
<1>3. PendingIds(k2) = PendingIds(k) /\ \A s : AnsweredIds(k2, s) = AnsweredIds(k, s)
    BY <1>1 DEF PendingIds, AnsweredIds, HeldIds
<1>4. \A l : Free(k2, l) <=> Free(k, l)
    BY <1>1 DEF Free
<1>5. \A s, tree : Solo(k, s, tree) => Ordered(k2, s) /\ InTurn(k2, s)
    BY <1>2, <1>3 DEF Solo, Ordered, InTurn
<1>6. \A s, tree : Solo(k, s, tree) => Agrees(k2, s, tree)
    BY <1>1, <1>2, <1>4 DEF Solo, Agrees
<1>7. \A s, tree : Fitting(k, s, tree) => Fitting(k2, s, tree)
    BY <1>1, <1>2 DEF Fitting
<1>. QED
    BY <1>1, <1>5, <1>6, <1>7 DEF Solo, Hides

LEMMA ServeListenLonely ==
    ASSUME NEW c \in Client, Lonely(c), ServeListen(c) PROVE StaysLonely(c)
<1>1. PICK q \in client[c].out :
        /\ q.kind = "listen"
        /\ in' = [in EXCEPT ![c] =
                    Append(@, [kind |-> "listen", to |-> q,
                               put |-> [l \in q.path |-> data[l]]])]
        /\ client' = [client EXCEPT ![c].out = @ \ {q}]
        /\ data' = data
    BY DEF ServeListen, Served
<1>2. /\ client[c] \in ClientState /\ in[c] \in Seq(Message)
      /\ data \in [Leaf -> Value] /\ Solo(client[c], in[c], data) /\ Hides(client[c])
    BY LocalLonely
<1>. DEFINE k == [client[c] EXCEPT !.out = @ \ {q}]
            m == [kind |-> "listen", to |-> q, put |-> [l \in q.path |-> data[l]]]
            s == Append(in[c], m)
<1>3. q \in Listen
    BY <1>1, <1>2 DEF ClientState, Request, Listen
<1>4. m \in Message
    BY <1>2, <1>3, PathAssumption DEF Message, Listen, Put
<1>5. client'[c] = k /\ in'[c] = s
    BY <1>1 DEF Lonely
<1>6. m.kind = "listen" /\ \A l \in DOMAIN m.put : m.put[l] = data[l]
    OBVIOUS
<1>. HIDE DEF m
<1>7. /\ Solo(client[c], s, data)
      /\ Fitting(client[c], in[c], data) => Fitting(client[c], s, data)
    BY <1>2, <1>4, <1>6, ListenSolo
<1>. HIDE DEF k, s
<1>8. /\ Solo(k, s, data) /\ Hides(k)
      /\ Fitting(client[c], s, data) => Fitting(k, s, data)
    <2>1. k = [client[c] EXCEPT !.out = @ \ {q}]
        BY DEF k
    <2>. QED
        BY <1>2, <1>7, <2>1, ServedLonely
<1>. QED
    BY <1>1, <1>5, <1>7, <1>8 DEF StaysLonely

LEMMA ServeUnlistenLonely ==
    ASSUME NEW c \in Client, Lonely(c), ServeUnlisten(c) PROVE StaysLonely(c)
<1>1. PICK q \in client[c].out :
        client' = [client EXCEPT ![c].out = @ \ {q}] /\ UNCHANGED <<data, in>>
    BY DEF ServeUnlisten, Served
<1>2. client[c] \in ClientState /\ Solo(client[c], in[c], data) /\ Hides(client[c])
    BY LocalLonely
<1>. DEFINE k == [client[c] EXCEPT !.out = @ \ {q}]
<1>3. client'[c] = k
    BY <1>1 DEF Lonely
<1>. HIDE DEF k
<1>4. /\ Solo(k, in[c], data) /\ Hides(k)
      /\ Fitting(client[c], in[c], data) => Fitting(k, in[c], data)
    BY <1>2, ServedLonely DEF k
<1>. QED
    BY <1>1, <1>3, <1>4 DEF StaysLonely

\* The put that the server serves next is of the first write without an answer.
LEMMA NextPut ==
    ASSUME NEW k \in ClientState, NEW s \in Seq(Message), Sound(k, s), k.conn,
           NEW q \in k.out, q.kind = "put", \A p \in k.out : q.rank <= p.rank
    PROVE  \E v \in k.writes :
                /\ q.rank = v.id /\ q.put = v.put /\ v.id \notin AnsweredIds(k, s)
                /\ \A p \in PendingIds(k) : p \in AnsweredIds(k, s) \/ v.id <= p
<1>1. PICK v \in k.writes : q.rank = v.id /\ q.put = v.put
    BY DEF Sound, Numbered
<1>2. v.id \in PutIds(k)
    BY <1>1 DEF PutIds
<1>3. v.id \notin AnsweredIds(k, s)
    BY <1>2 DEF AnsweredIds, Sound, Accounted
<1>4. ASSUME NEW p \in PendingIds(k), p \notin AnsweredIds(k, s) PROVE v.id <= p
    <2>1. p \in PutIds(k)
        BY <1>4 DEF AnsweredIds, Sound, Accounted
    <2>. QED
        BY <1>1, <2>1 DEF PutIds
<1>. QED
    BY <1>1, <1>3, <1>4

LEMMA RejectPutLonely ==
    ASSUME NEW c \in Client, Lonely(c), RejectPut(c) PROVE StaysLonely(c)
<1>1. PICK q \in client[c].out :
        /\ q.kind = "put" /\ \A p \in client[c].out : q.rank <= p.rank
        /\ in' = [in EXCEPT ![c] =
                    Append(@, [kind |-> "ack",
                               ack |-> [id |-> q.rank, ok |-> FALSE]])]
        /\ client' = [client EXCEPT ![c].out = @ \ {q}]
        /\ data' = data
    BY DEF RejectPut, Served, Next1
<1>2. /\ client[c] \in ClientState /\ in[c] \in Seq(Message) /\ Sound(client[c], in[c])
      /\ Solo(client[c], in[c], data) /\ Hides(client[c]) /\ client[c].conn
    BY LocalLonely
<1>. DEFINE k == [client[c] EXCEPT !.out = @ \ {q}]
            m == [kind |-> "ack", ack |-> [id |-> q.rank, ok |-> FALSE]]
            s == Append(in[c], m)
<1>3. PICK v \in client[c].writes :
        /\ q.rank = v.id /\ q.put = v.put
        /\ v.id \notin AnsweredIds(client[c], in[c])
        /\ \A p \in PendingIds(client[c]) :
                p \in AnsweredIds(client[c], in[c]) \/ v.id <= p
    BY <1>1, <1>2, NextPut
<1>4. m \in Message /\ m.kind = "ack" /\ m.ack.id = v.id /\ ~m.ack.ok
    <2>1. q.rank \in Nat
        BY <1>1, <1>2 DEF ClientState, Request, Listen
    <2>. QED
        BY <1>3, <2>1 DEF Message, Ack
<1>5. client'[c] = k /\ in'[c] = s
    BY <1>1 DEF Lonely
<1>. HIDE DEF m
<1>7. /\ Solo(client[c], s, data)
      /\ Fitting(client[c], in[c], data) => Fitting(client[c], s, data)
    BY <1>2, <1>3, <1>4, AnswerSolo
<1>. HIDE DEF k, s
<1>8. /\ Solo(k, s, data) /\ Hides(k)
      /\ Fitting(client[c], s, data) => Fitting(k, s, data)
    BY <1>2, <1>7, ServedLonely DEF k
<1>. QED
    BY <1>1, <1>5, <1>7, <1>8 DEF StaysLonely

LEMMA ServePutLonely ==
    ASSUME NEW c \in Client, Lonely(c), ServePut(c) PROVE StaysLonely(c)
<1>1. PICK q \in client[c].out :
        /\ q.kind = "put" /\ \A p \in client[c].out : q.rank <= p.rank
        /\ data' = [l \in Leaf |-> IF l \in DOMAIN q.put
                                   THEN q.put[l] ELSE data[l]]
        /\ LET push(d) == IF Pushed(q.put, sub[d]) = {}
                          THEN in[d]
                          ELSE Append(in[d],
                                 [kind |-> "push",
                                  put |-> [l \in Pushed(q.put, sub[d]) |->
                                            q.put[l]]])
               ack == [kind |-> "ack", ack |-> [id |-> q.rank, ok |-> TRUE]]
           IN  in' = [d \in Client |-> IF d = c THEN Append(push(d), ack)
                                       ELSE push(d)]
        /\ client' = [client EXCEPT ![c].out = @ \ {q}]
    BY DEF ServePut, Served, Next1
<1>2. /\ client[c] \in ClientState /\ in[c] \in Seq(Message) /\ Sound(client[c], in[c])
      /\ Solo(client[c], in[c], data) /\ Hides(client[c]) /\ client[c].conn
    BY LocalLonely
<1>. DEFINE k == [client[c] EXCEPT !.out = @ \ {q}]
            paths == Pushed(q.put, sub[c])
            put == [l \in paths |-> q.put[l]]
            push == [kind |-> "push", put |-> put]
            u == IF paths = {} THEN in[c] ELSE Append(in[c], push)
            m == [kind |-> "ack", ack |-> [id |-> q.rank, ok |-> TRUE]]
            s == Append(u, m)
<1>3. PICK v \in client[c].writes :
        /\ q.rank = v.id /\ q.put = v.put
        /\ v.id \notin AnsweredIds(client[c], in[c])
        /\ \A p \in PendingIds(client[c]) :
                p \in AnsweredIds(client[c], in[c]) \/ v.id <= p
    BY <1>1, <1>2, NextPut
<1>4. q.rank \in Nat /\ q.put \in Put
    <2>1. q \in [kind : {"put"}, rank : Nat, put : Put]
        BY <1>1, <1>2 DEF ClientState, Request, Listen
    <2>. QED
        BY <2>1
<1>5. m \in Message /\ m.kind = "ack" /\ m.ack.id = v.id /\ m.ack.ok
    BY <1>3, <1>4 DEF Message, Ack
<1>6. push \in Message /\ push.kind = "push" /\ DOMAIN push.put \subseteq DOMAIN v.put
    <2>1. paths \subseteq DOMAIN q.put
        BY DEF Pushed
    <2>2. PICK S \in SUBSET Leaf : q.put \in [S -> Value]
        BY <1>4 DEF Put
    <2>3. put \in [paths -> Value] /\ paths \in SUBSET Leaf
        BY <2>1, <2>2
    <2>4. put \in Put
        BY <2>3 DEF Put
    <2>. HIDE DEF put, paths
    <2>5. push \in Message
        BY <2>4 DEF Message
    <2>. QED
        BY <1>3, <2>1, <2>3, <2>5
<1>7. client'[c] = k /\ in'[c] = s
    BY <1>1 DEF Lonely
<1>8. /\ \A l \in Leaf : l \notin DOMAIN v.put => data'[l] = data[l]
      /\ \A l \in DOMAIN v.put : data'[l] = v.put[l]
    <2>1. PICK S \in SUBSET Leaf : q.put \in [S -> Value]
        BY <1>4 DEF Put
    <2>. QED
        BY <1>1, <1>3, <2>1
<1>. HIDE DEF m, push, paths
<1>9. /\ Solo(client[c], in[c], data')
      /\ Fitting(client[c], in[c], data) => Fitting(client[c], in[c], data')
    <2>1. InTurn(client[c], in[c]) /\ Agrees(client[c], in[c], data)
          /\ Ordered(client[c], in[c])
        BY <1>2 DEF Solo
    <2>2. /\ Agrees(client[c], in[c], data')
          /\ Fitting(client[c], in[c], data) => Fitting(client[c], in[c], data')
        BY <1>2, <1>3, <1>8, <2>1, AppliedSolo
    <2>. QED
        BY <2>1, <2>2 DEF Solo
<1>10. /\ u \in Seq(Message)
       /\ Solo(client[c], u, data')
       /\ Fitting(client[c], in[c], data') => Fitting(client[c], u, data')
       /\ AnsweredIds(client[c], u) = AnsweredIds(client[c], in[c])
       /\ Sound(client[c], u)
    <2>1. CASE paths = {}
        BY <1>2, <1>9, <2>1
    <2>2. CASE paths # {}
        <3>1. u = Append(in[c], push) /\ u \in Seq(Message)
            BY <1>2, <1>6, <2>2
        <3>. HIDE DEF u
        <3>2. /\ Solo(client[c], u, data')
              /\ Fitting(client[c], in[c], data') => Fitting(client[c], u, data')
              /\ AnsweredIds(client[c], u) = AnsweredIds(client[c], in[c])
            BY <1>2, <1>3, <1>6, <1>9, <3>1, PushSolo
        <3>3. AcksIn(u) = AcksIn(in[c]) /\ Once(u)
            BY <1>2, <1>6, <3>1, AcksAppend, OnceAppend DEF Sound, Accounted
        <3>4. Sound(client[c], u)
            BY <1>2, <3>1, <3>3, CalmInbox
        <3>. QED
            BY <3>1, <3>2, <3>4
    <2>. QED
        BY <2>1, <2>2
<1>. HIDE DEF u
<1>11. /\ Solo(client[c], s, data')
       /\ Fitting(client[c], u, data') => Fitting(client[c], s, data')
    BY <1>2, <1>3, <1>5, <1>8, <1>10, AnswerSolo
<1>. HIDE DEF k, s
<1>12. /\ Solo(k, s, data') /\ Hides(k)
       /\ Fitting(client[c], s, data') => Fitting(k, s, data')
    BY <1>2, <1>11, ServedLonely DEF k
<1>. QED
    BY <1>7, <1>9, <1>10, <1>11, <1>12 DEF StaysLonely

LEMMA MergeLonely ==
    ASSUME NEW c \in Client, Lonely(c), in[c] # <<>>, Head(in[c]).kind # "ack",
           NEW k, k.writes = client[c].writes, k.held = client[c].held,
           k.regs = client[c].regs,
           k.cache = Merge(client[c], Head(in[c]).put).cache,
           client' = [client EXCEPT ![c] = k], in' = [in EXCEPT ![c] = Tail(@)],
           data' = data
    PROVE  StaysLonely(c)
<1>. DEFINE m == Head(in[c])
            t == Tail(in[c])
<1>1. /\ client[c] \in ClientState /\ in[c] \in Seq(Message)
      /\ Solo(client[c], in[c], data) /\ Hides(client[c])
    BY LocalLonely
<1>2. m.put \in Put
    <2>1. m \in Message
        BY <1>1
    <2>. QED
        BY <2>1 DEF Message
<1>3. \A l \in Leaf : k.cache[l] = IF l \in Merged(client[c], m.put)
                                   THEN m.put[l] ELSE client[c].cache[l]
    BY <1>1, <1>2, MergeCache
<1>4. Hides(k)
    BY <1>1, <1>3 DEF Hides, Merged
<1>5. \A l \in Leaf : \/ k.cache[l] = client[c].cache[l]
                      \/ l \in DOMAIN m.put /\ k.cache[l] = m.put[l]
    BY <1>3 DEF Merged
<1>6. client'[c] = k /\ in'[c] = t
    BY DEF Lonely
<1>7. /\ Solo(k, t, data)
      /\ Fitting(client[c], in[c], data) => Fitting(k, t, data)
    BY <1>1, <1>5, MergedSolo
<1>. HIDE DEF t
<1>. QED
    BY <1>4, <1>6, <1>7 DEF StaysLonely

LEMMA ReceiveLonely ==
    ASSUME NEW c \in Client, Lonely(c), ReceivePush(c) \/ ReceiveListen(c)
    PROVE  StaysLonely(c)
<1>. DEFINE m == Head(in[c])
            k1 == Merge(client[c], m.put)
<1>1. client[c] \in ClientState /\ in[c] \in Seq(Message)
    BY LocalLonely
<1>2. in[c] # <<>> /\ m.kind # "ack" /\ in' = [in EXCEPT ![c] = Tail(@)] /\ data' = data
    BY DEF ReceivePush, ReceiveListen, Arrived
<1>3. m.put \in Put
    <2>1. m \in Message
        BY <1>1, <1>2
    <2>. QED
        BY <1>2, <2>1 DEF Message
<1>4. \E k : /\ client' = [client EXCEPT ![c] = k]
             /\ \/ k = k1
                \/ \E u, f : k = [k1 EXCEPT !.unacked = u, !.flush = f]
    <2>1. CASE ReceivePush(c)
        BY <2>1 DEF ReceivePush
    <2>2. CASE ReceiveListen(c)
        <3>1. client' = [client EXCEPT ![c] =
                            [k1 EXCEPT !.unacked = @ \ {m.to},
                                       !.flush = /\ k1.unacked \ {m.to} = {}
                                                 /\ k1.held # {}]]
            BY <2>2 DEF ReceiveListen
        <3>. HIDE DEF k1
        <3>2. \E k : /\ client' = [client EXCEPT ![c] = k]
                     /\ k = [k1 EXCEPT !.unacked = @ \ {m.to},
                                       !.flush = /\ k1.unacked \ {m.to} = {}
                                                 /\ k1.held # {}]
            BY <3>1
        <3>. QED
            BY <3>2
    <2>. QED
        BY <2>1, <2>2
<1>5. PICK k : /\ client' = [client EXCEPT ![c] = k]
               /\ \/ k = k1
                  \/ \E u, f : k = [k1 EXCEPT !.unacked = u, !.flush = f]
    BY <1>4
<1>6. /\ k1 \in ClientState /\ k1.writes = client[c].writes
      /\ k1.held = client[c].held /\ k1.regs = client[c].regs
    BY <1>1, <1>3, MergeType, MergeFlush, MergeFields
<1>7. /\ k.writes = client[c].writes /\ k.held = client[c].held
      /\ k.regs = client[c].regs /\ k.cache = k1.cache
    <2>. HIDE DEF k1
    <2>. QED
        BY <1>5, <1>6 DEF ClientState
<1>. QED
    BY <1>2, <1>5, <1>7, MergeLonely

\* When every other answer is to a later write, so is every other pending write.
LEMMA FirstAnswered ==
    ASSUME NEW k \in ClientState, NEW s \in Seq(Message), InTurn(k, s),
           NEW i \in Nat, NEW x \in Ack, AnswerAt(k, s, i, x),
           \A n \in Nat : \A a \in Ack : AnswerAt(k, s, n, a) => x.id <= a.id
    PROVE  \A w \in k.writes : x.id <= w.id
<1>1. SUFFICES ASSUME NEW w \in k.writes, ~(x.id <= w.id) PROVE FALSE
    OBVIOUS
<1>2. x.id \in Nat /\ w.id \in Nat
    BY DEF Ack, ClientState, Write
<1>3. w.id <= x.id /\ w.id \in PendingIds(k)
    BY <1>1, <1>2 DEF PendingIds
<1>4. x.id \in AnsweredIds(k, s)
    BY AnsweredAt
<1>5. w.id \in AnsweredIds(k, s)
    BY <1>3, <1>4 DEF InTurn
<1>6. PICK n \in Nat, a \in Ack : AnswerAt(k, s, n, a) /\ a.id = w.id
    BY <1>5, AnsweredAt
<1>. QED
    BY <1>1, <1>6

\* Acting on the answer x to the write v, which is at i.
Acts(k, s, v, i, x) ==
    /\ v \in k.writes /\ v.id = x.id /\ i \in {0, 1} /\ AnswerAt(k, s, i, x)
    /\ s # <<>> /\ i = 1 => s[1].kind = "ack"
    /\ k.flush \/ (k.conn /\ k.unacked = {})
    /\ Prompted(k) => \A w \in k.writes : v.id <= w.id

LEMMA ActedOn ==
    ASSUME NEW k, NEW s \in Seq(Message), NEW tree, NEW v, NEW i, NEW x \in Ack,
           Acts(k, s, v, i, x), Agrees(k, s, tree), Shows(k, s, tree)
    PROVE  \A l \in Leaf : v \in Top(k.writes, l) => k.cache[l] \in {Unknown, tree[l]}
<1>1. SUFFICES ASSUME NEW l \in Leaf, v \in Top(k.writes, l)
               PROVE  k.cache[l] \in {Unknown, tree[l]}
    OBVIOUS
<1>2. i \in Nat
    BY DEF Acts
<1>3. After(s, i, l, tree[l])
    BY <1>1, <1>2 DEF Agrees, Acts
<1>4. ASSUME NEW j \in DOMAIN s, Concerns(s[j], l) PROVE s[j].kind = "listen"
    <2>1. j \in Nat /\ j > 0 /\ s # <<>>
        BY <1>4
    <2>2. j # 1 \/ i = 0
        BY <1>4, <2>1 DEF Concerns, Acts
    <2>3. i < j
        BY <2>1, <2>2 DEF Acts
    <2>. QED
        BY <1>3, <1>4, <2>3 DEF After, Confirms
<1>. QED
    BY <1>4 DEF Shows, Acts

\* The answer at the head of the inbox.
LEMMA HeadActs ==
    ASSUME NEW k \in ClientState, NEW s \in Seq(Message), Sound(k, s), s # <<>>,
           Head(s).kind = "ack", ~Holds(k), ~k.flush, Ordered(k, s), InTurn(k, s),
           NEW v, v = CHOOSE w \in k.writes : w.id = Head(s).ack.id
    PROVE  Acts(k, s, v, 1, Head(s).ack) /\ Head(s).ack \in Ack
<1>. DEFINE x == Head(s).ack
<1>1. x \in Ack /\ x.id \in PendingIds(k) /\ k.conn
    BY HeadAck
<1>2. v \in k.writes /\ v.id = x.id
    BY <1>1 DEF PendingIds
<1>3. 1 \in DOMAIN s /\ s[1] = Head(s) /\ \A n \in DOMAIN s : n \in Nat /\ n > 0
    OBVIOUS
<1>4. AnswerAt(k, s, 1, x)
    BY <1>3 DEF AnswerAt
<1>. HIDE DEF x
<1>5. ASSUME Prompted(k) PROVE \A w \in k.writes : v.id <= w.id
    <2>1. CASE k.held = {}
        <3>1. ASSUME NEW n \in Nat, NEW a \in Ack, AnswerAt(k, s, n, a) PROVE x.id <= a.id
            <4>1. n \in DOMAIN s /\ s[n].kind = "ack" /\ s[n].ack = a /\ n > 0
                BY <1>3, <2>1, <3>1 DEF AnswerAt
            <4>2. x.id \in Nat /\ a.id \in Nat
                BY <1>1 DEF Ack
            <4>3. CASE n = 1
                BY <1>3, <4>1, <4>2, <4>3 DEF x
            <4>4. CASE n > 1
                BY <1>1, <1>4, <3>1, <4>2, <4>4 DEF Ordered
            <4>. QED
                BY <4>1, <4>3, <4>4
        <3>. QED
            BY <1>1, <1>2, <1>4, <3>1, FirstAnswered
    <2>2. CASE \A w, u \in k.writes : w = u
        BY <1>2, <2>2 DEF ClientState, Write
    <2>. QED
        BY <1>5, <2>1, <2>2 DEF Prompted, Holds
<1>. QED
    BY <1>1, <1>2, <1>3, <1>4, <1>5 DEF Acts, Holds, x

LEMMA HeldActs ==
    ASSUME NEW k \in ClientState, NEW s \in Seq(Message), Sound(k, s), k.flush,
           NEW x \in k.held, \A a \in k.held : x.id <= a.id,
           Ordered(k, s), InTurn(k, s),
           NEW v, v = CHOOSE w \in k.writes : w.id = x.id
    PROVE  Acts(k, s, v, 0, x) /\ x \in Ack
<1>1. x \in Ack /\ x.id \in PendingIds(k)
    BY DEF ClientState, HeldIds, Sound, Accounted
<1>2. v \in k.writes /\ v.id = x.id
    BY <1>1 DEF PendingIds
<1>3. 0 \notin DOMAIN s
    OBVIOUS
<1>4. AnswerAt(k, s, 0, x)
    BY DEF AnswerAt
<1>5. ASSUME NEW n \in Nat, NEW a \in Ack, AnswerAt(k, s, n, a) PROVE x.id <= a.id
    <2>1. CASE n = 0
        BY <1>3, <1>5, <2>1 DEF AnswerAt
    <2>2. CASE n > 0
        <3>1. x.id < a.id /\ x.id \in Nat /\ a.id \in Nat
            BY <1>1, <1>4, <1>5, <2>2 DEF Ordered, Ack
        <3>. QED
            BY <3>1
    <2>. QED
        BY <2>1, <2>2
<1>6. \A w \in k.writes : v.id <= w.id
    <2>1. 0 \in Nat
        OBVIOUS
    <2>. QED
        BY <1>1, <1>2, <1>4, <1>5, <2>1, FirstAnswered
<1>. QED
    BY <1>1, <1>2, <1>4, <1>6 DEF Acts

LEMMA ReceiveAckLonely ==
    ASSUME NEW c \in Client, Lonely(c), Shows(client[c], in[c], data), ReceiveAck(c)
    PROVE  StaysLonely(c)
<1>. DEFINE k == client[c]
            s == in[c]
            t == Tail(s)
            x == Head(s).ack
            held == [k EXCEPT !.held = @ \cup {x}]
            k2 == IF Holds(k) THEN held ELSE Answer(k, x)
<1>1. /\ ~k.flush /\ s # <<>> /\ Head(s).kind = "ack"
      /\ in' = [in EXCEPT ![c] = t] /\ client' = [client EXCEPT ![c] = k2]
      /\ data' = data
    BY DEF ReceiveAck, Arrived
<1>2. /\ k \in ClientState /\ s \in Seq(Message) /\ Sound(k, s)
      /\ Solo(k, s, data) /\ Hides(k)
    BY LocalLonely
<1>3. client'[c] = k2 /\ in'[c] = t
    BY <1>1 DEF Lonely
<1>4. CASE Holds(k)
    <2>1. k2 = held
        BY <1>4
    <2>2. /\ held.writes = k.writes /\ held.held = k.held \cup {x}
          /\ held.cache = k.cache /\ held.regs = k.regs
        BY <1>2 DEF ClientState
    <2>. HIDE DEF held, k2, t
    <2>3. /\ Solo(held, t, data) /\ Hides(held)
          /\ Fitting(k, s, data) => Fitting(held, t, data)
        BY <1>1, <1>2, <2>2, HeldSolo DEF Hides, t
    <2>. QED
        BY <1>1, <1>3, <2>1, <2>3 DEF StaysLonely
<1>5. CASE ~Holds(k)
    <2>. DEFINE v == CHOOSE w \in k.writes : w.id = x.id
    <2>1. k2 = Answer(k, x)
        BY <1>5
    <2>2. Acts(k, s, v, 1, x) /\ x \in Ack
        BY <1>1, <1>2, <1>5, HeadActs DEF Solo
    <2>3. \A l \in Leaf : v \in Top(k.writes, l) => k.cache[l] \in {Unknown, data[l]}
        BY <1>2, <2>2, ActedOn DEF Solo
    <2>. HIDE DEF v, x, k2
    <2>4. k2 \in ClientState /\ Sound(k2, t)
        BY <1>1, <1>2, <2>1, ReceivedSound DEF x
    <2>5. k2.held = k.held /\ k2.writes = k.writes \ {v} /\ Alike(k, k2)
        <3>1. k2.held = k.held /\ k2.writes = k.writes \ {CHOOSE w \in k.writes : w.id = x.id}
            BY <1>2, <2>1, <2>2, AnswerFields
        <3>2. Alike(k, k2)
            BY <1>2, <2>1, <2>2, AnswerAlike
        <3>. QED
            BY <3>1, <3>2 DEF v
    <2>6. /\ t \in Seq(Message)
          /\ \A i \in DOMAIN t : i + 1 \in DOMAIN s /\ t[i] = s[i + 1]
          /\ \A n \in Nat : \A a :
                AnswerAt(k2, t, n, a) <=> \/ n = 0 /\ a \in k2.held
                                          \/ n > 0 /\ AnswerAt(k2, s, n + 1, a)
        BY <1>1, <1>2, TailAnswers
    <2>70. t \in Seq(Message)
        BY <2>6
    <2>7. Shifted(k, s, k2, t, 1)
        BY <2>5, <2>6 DEF Shifted, AnswerAt
    <2>8. AnsweredIds(k2, t) = AnsweredIds(k, s) \ {v.id}
        <3>1. AckIds(t) = AckIds(s) \ {x.id} /\ x.id \notin HeldIds(k)
            BY <1>1, <1>2, HeadAck DEF x
        <3>2. HeldIds(k2) = HeldIds(k) /\ v.id = x.id
            BY <2>2, <2>5 DEF HeldIds, Acts
        <3>. QED
            BY <3>1, <3>2 DEF AnsweredIds
    <2>. HIDE DEF t
    <2>9. /\ v \in k.writes /\ x.id = v.id /\ AnswerAt(k, s, 1, x)
          /\ Prompted(k) => \A w \in k.writes : v.id <= w.id
        BY <2>2 DEF Acts
    <2>10. k2.cache = k.cache /\ k2.regs = k.regs
        BY <2>5 DEF Alike
    <2>11. /\ Solo(k2, t, data)
           /\ Fitting(k, s, data) /\ (\A w \in k.writes : v.id <= w.id)
                => Fitting(k2, t, data)
        <3>1. 1 \in Nat /\ 1 \in {0, 1} /\ 1 <= 1
            OBVIOUS
        <3>. QED
            BY <1>2, <2>2, <2>3, <2>4, <2>5, <2>7, <2>8, <2>9, <2>10, <2>70, <3>1,
               RetiredSolo
    <2>12. Hides(k2)
        BY <1>2, <2>10 DEF Hides
    <2>. QED
        BY <1>1, <1>3, <2>9, <2>11, <2>12 DEF StaysLonely
<1>. QED
    BY <1>4, <1>5

LEMMA AckPutsLonely ==
    ASSUME NEW c \in Client, Lonely(c), Shows(client[c], in[c], data), AckPuts(c)
    PROVE  StaysLonely(c)
<1>. DEFINE k == client[c]
            s == in[c]
<1>1. PICK x \in k.held :
        /\ \A a \in k.held : x.id <= a.id
        /\ client' = [client EXCEPT ![c] = Acked(k, x)]
        /\ UNCHANGED <<data, in>> /\ k.flush
    BY DEF AckPuts
<1>2. /\ k \in ClientState /\ s \in Seq(Message) /\ Sound(k, s)
      /\ Solo(k, s, data) /\ Hides(k)
    BY LocalLonely
<1>. DEFINE k1 == Answer(k, x)
            k2 == Acked(k, x)
            v == CHOOSE w \in k.writes : w.id = x.id
            flush == k.held # {x}
<1>3. client'[c] = k2 /\ in'[c] = s
    BY <1>1 DEF Lonely
<1>4. Acts(k, s, v, 0, x) /\ x \in Ack
    BY <1>1, <1>2, HeldActs DEF Solo
<1>5. \A l \in Leaf : v \in Top(k.writes, l) => k.cache[l] \in {Unknown, data[l]}
    BY <1>2, <1>4, ActedOn DEF Solo
<1>6. k1 \in ClientState /\ k1.held = k.held /\ Alike(k, k1) /\ k1.writes = k.writes \ {v}
    <2>1. x.id \in PendingIds(k)
        BY <1>1, <1>2 DEF HeldIds, Sound, Accounted
    <2>2. k1 \in ClientState
        BY <1>2, <1>4, <2>1, AnswerType
    <2>3. k1.held = k.held /\ k1.writes = k.writes \ {v} /\ Alike(k, k1)
        BY <1>2, <1>4, AnswerFields, AnswerAlike
    <2>. QED
        BY <2>2, <2>3
<1>7. k2 = [k1 EXCEPT !.held = @ \ {x}, !.flush = flush] /\ flush \in BOOLEAN
    BY DEF Acked
<1>. HIDE DEF k1, k2, flush, v
<1>8. /\ k2 \in ClientState /\ k2.writes = k.writes \ {v} /\ k2.cache = k.cache
      /\ k2.regs = k.regs /\ k2.held = k.held \ {x}
    BY <1>6, <1>7 DEF ClientState, Alike
<1>9. Shifted(k, s, k2, s, 0)
    <2>1. \A i \in DOMAIN s : i + 0 = i
        BY <1>2
    <2>2. \A n \in Nat : n + 0 = n
        OBVIOUS
    <2>3. \A n, a : AnswerAt(k2, s, n, a) => AnswerAt(k, s, n, a)
        BY <1>8 DEF AnswerAt
    <2>. QED
        BY <2>1, <2>2, <2>3 DEF Shifted
<1>10. /\ v \in k.writes /\ x.id = v.id /\ AnswerAt(k, s, 0, x)
       /\ Prompted(k) => \A w \in k.writes : v.id <= w.id
    BY <1>4 DEF Acts
<1>11. AnsweredIds(k2, s) = AnsweredIds(k, s) \ {v.id}
    <2>1. x.id \in HeldIds(k) /\ x.id \notin AckIds(s)
        BY <1>1, <1>2 DEF HeldIds, Sound, Accounted
    <2>2. HeldIds(k2) = HeldIds(k) \ {x.id}
        BY <1>2, <1>8 DEF HeldIds, Sound, Numbered
    <2>. QED
        BY <1>10, <2>1, <2>2 DEF AnsweredIds
<1>12. /\ Solo(k2, s, data)
       /\ Fitting(k, s, data) /\ (\A w \in k.writes : v.id <= w.id)
            => Fitting(k2, s, data)
    <2>1. 0 \in Nat /\ 0 \in {0, 1} /\ 0 <= 0
        OBVIOUS
    <2>. QED
        BY <1>2, <1>4, <1>5, <1>8, <1>9, <1>10, <1>11, <2>1, RetiredSolo
<1>13. Hides(k2)
    BY <1>2, <1>8 DEF Hides
<1>. QED
    BY <1>1, <1>3, <1>10, <1>12, <1>13 DEF StaysLonely

LEMMA ConnectionLonely ==
    ASSUME NEW c \in Client, Lonely(c), Disconnect(c) \/ Reconnect(c)
    PROVE  StaysLonely(c)
<1>1. client[c] \in ClientState /\ in[c] \in Seq(Message)
      /\ Solo(client[c], in[c], data) /\ Hides(client[c])
    BY LocalLonely
<1>2. CASE Disconnect(c)
    <2>1. client'[c] = CutOff(client[c]) /\ in'[c] = <<>> /\ data' = data
        BY <1>2 DEF Disconnect, DropsInbox, Lonely
    <2>. DEFINE k == CutOff(client[c])
    <2>2. /\ k \in ClientState /\ k.writes = client[c].writes /\ k.held = client[c].held
          /\ k.cache = client[c].cache /\ k.regs = client[c].regs
        BY <1>1 DEF CutOff, ClientState
    <2>. HIDE DEF k
    <2>3. /\ Solo(k, <<>>, data)
          /\ Fitting(client[c], in[c], data) => Fitting(k, <<>>, data)
        BY <1>1, <2>2, CutOffSolo
    <2>. QED
        BY <1>1, <2>1, <2>2, <2>3 DEF StaysLonely, Hides, k
<1>3. CASE Reconnect(c)
    <2>1. \E out, unacked : client'[c] = [client[c] EXCEPT !.conn = TRUE, !.out = out,
                                                          !.unacked = unacked]
        BY <1>3 DEF Reconnect, Lonely
    <2>. DEFINE k == client'[c]
    <2>2. /\ k.writes = client[c].writes /\ k.held = client[c].held
          /\ k.cache = client[c].cache /\ k.regs = client[c].regs
        <3>. HIDE DEF k
        <3>1. \E out, unacked : k = [client[c] EXCEPT !.conn = TRUE, !.out = out,
                                                      !.unacked = unacked]
            BY <2>1 DEF k
        <3>. QED
            BY <1>1, <3>1 DEF ClientState
    <2>3. in'[c] = in[c] /\ data' = data
        BY <1>3 DEF Reconnect
    <2>. HIDE DEF k
    <2>4. /\ Solo(k, in[c], data) /\ Hides(k)
          /\ Fitting(client[c], in[c], data) => Fitting(k, in[c], data)
        BY <1>1, <2>2, CalmSolo DEF Hides
    <2>. QED
        BY <2>3, <2>4 DEF StaysLonely, k
<1>. QED
    BY <1>2, <1>3

\* Whatever the server and the network do, a client that is alone goes on as one.
LEMMA NetworkLonely ==
    ASSUME NEW c \in Client, Lonely(c), Shows(client[c], in[c], data),
           Network(c) \/ Disconnect(c)
    PROVE  StaysLonely(c)
    BY ServeListenLonely, ServeUnlistenLonely, ServePutLonely, RejectPutLonely,
       ReceiveLonely, ReceiveAckLonely, AckPutsLonely, ConnectionLonely DEF Network

\* A step of the program that uses a client that is alone, with inbox s.
GoesOn(k, s, k2) ==
    \A tree : Solo(k, s, tree) /\ Hides(k) =>
        /\ Solo(k2, s, tree) /\ Hides(k2)
        /\ Fitting(k, s, tree) => Fitting(k2, s, tree)

LEMMA GoesOnThen ==
    ASSUME NEW k, NEW s, NEW k1, NEW k2, GoesOn(k, s, k1), GoesOn(k1, s, k2)
    PROVE  GoesOn(k, s, k2)
    BY DEF GoesOn

LEMMA AlikeGoes ==
    ASSUME NEW k \in ClientState, NEW s \in Seq(Message), NEW k2, Alike(k, k2),
           k2.writes = k.writes, k2.held = k.held
    PROVE  GoesOn(k, s, k2)
<1>1. \A l \in Leaf : k2.cache[l] \in {k.cache[l], Unknown}
    BY DEF Alike
<1>2. Hides(k) => Hides(k2)
    BY DEF Hides, Alike
<1>. QED
    BY <1>1, <1>2, CalmSolo DEF GoesOn

LEMMA RelistenGoes ==
    ASSUME NEW k \in ClientState, NEW s \in Seq(Message), NEW regs \in SUBSET Reg
    PROVE  GoesOn(k, s, Relisten(k, regs))
<1>. DEFINE k2 == Relisten(k, regs)
<1>1. k2.writes = k.writes /\ k2.held = k.held
    BY RelistenFields
<1>2. Hides(k) => Hides(k2) /\ \A l \in Leaf : k2.cache[l] \in {k.cache[l], Unknown}
    BY RelistenHides
<1>. HIDE DEF k2
<1>. QED
    BY <1>1, <1>2, CalmSolo DEF GoesOn, k2

LEMMA ObserveGoes ==
    ASSUME NEW k \in ClientState, NEW s \in Seq(Message), NEW path \in Path,
           NEW single \in BOOLEAN, NEW tag \in Tag
    PROVE  GoesOn(k, s, Observe(k, path, single, tag))
<1>. DEFINE r == [id |-> Fresh(k), path |-> path, single |-> single, tag |-> tag]
            k1 == Relisten(k, k.regs \cup {r})
            k2 == Observe(k, path, single, tag)
<1>1. k.regs \cup {r} \in SUBSET Reg
    BY FreshType DEF Reg, ClientState
<1>2. k1 \in ClientState /\ GoesOn(k, s, k1)
    BY <1>1, RelistenType, RelistenGoes
<1>3. PICK todo : k2 = Raise(k1, todo)
    BY DEF Observe
<1>. HIDE DEF k1, k2
<1>4. GoesOn(k1, s, k2)
    BY <1>2, <1>3, RaiseAlike, RaiseFields, AlikeGoes
<1>. QED
    BY <1>2, <1>4, GoesOnThen DEF k2

LEMMA UnobserveGoes ==
    ASSUME NEW k \in ClientState, NEW s \in Seq(Message), NEW r
    PROVE  GoesOn(k, s, Unobserve(k, r))
<1>1. k.regs \ {r} \in SUBSET Reg
    BY DEF ClientState
<1>. QED
    BY <1>1, RelistenGoes DEF Unobserve

LEMMA SetValueGoes ==
    ASSUME NEW k \in ClientState, NEW put \in Put, NEW tag \in Tag,
           NEW s \in Seq(Message), Sound(k, s)
    PROVE  GoesOn(k, s, SetValue(k, put, tag))
<1>. DEFINE w == [id |-> Fresh(k), put |-> put, tag |-> tag]
            k2 == SetValue(k, put, tag)
<1>1. k2.writes = k.writes \cup {w} /\ k2.held = k.held
    <2>1. k2.writes = k.writes \cup {w}
        BY DEF SetValue, Overwrites, Raise, ClientState
    <2>2. k2.held = k.held
        BY DEF SetValue, Overwrites, Raise, ClientState
    <2>. QED
        BY <2>1, <2>2
<1>2. k2.cache = k.cache /\ k2.regs = k.regs
    BY DEF SetValue, Overwrites, Raise, ClientState
<1>. HIDE DEF k2
<1>3. \A tree : /\ Solo(k, s, tree) => Solo(k2, s, tree)
                /\ Fitting(k, s, tree) => Fitting(k2, s, tree)
    BY <1>1, <1>2, SetValueSolo
<1>. QED
    BY <1>2, <1>3 DEF GoesOn, Hides, k2

LEMMA TakeGoes ==
    ASSUME NEW k \in ClientState, NEW s \in Seq(Message), NEW r
    PROVE  GoesOn(k, s, TakeValue(k, r)) /\ GoesOn(k, s, TakeDone(k))
<1>1. TakeValue(k, r).held = k.held /\ TakeDone(k).held = k.held
    BY DEF TakeValue, TakeDone, ClientState
<1>. QED
    BY <1>1, TakeValueAlike, TakeDoneAlike, AlikeGoes

LEMMA BeginGoes ==
    ASSUME NEW k \in ClientState, NEW s \in Seq(Message), NEW r \in Ready(k)
    PROVE  GoesOn(k, s, Begin(k, r))
<1>. DEFINE k1 == TakeValue(k, r)
<1>1. k1 \in ClientState /\ GoesOn(k, s, k1)
    BY TakeValueType, TakeGoes
<1>. HIDE DEF k1
<1>2. GoesOn(k1, s, Unobserve(k1, r))
    BY <1>1, UnobserveGoes
<1>3. GoesOn(k, s, Unobserve(k1, r))
    BY <1>1, <1>2, GoesOnThen
<1>4. Begin(k, r) = k1 \/ Begin(k, r) = Unobserve(k1, r)
    BY DEF Begin, k1
<1>. QED
    BY <1>1, <1>3, <1>4

=============================================================================
