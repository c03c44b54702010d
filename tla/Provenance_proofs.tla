------------------------ MODULE Provenance_proofs ------------------------
(***************************************************************************)
(* What a program finds in the database it has put there: lemmas about     *)
(* RealtimeDatabase for the proofs of the modules that are built on it.    *)
(* vals[l] is a set of values for the leaf l.  When the tree starts with   *)
(* such values and the program writes no others, then no device ever sees  *)
(* another one; and a callback that runs is one that was passed.  While it *)
(* writes nothing, what is observed for good is called once for each path, *)
(* and what a device has once seen of it, it goes on seeing.  A closure    *)
(* that is passed on once is in one place, until it runs.  And when there  *)
(* is one device, which observes nothing while a write is pending, then    *)
(* what a callback is given is what the server has.                        *)
(***************************************************************************)
EXTENDS RealtimeDatabase_proofs

-----------------------------------------------------------------------------
(* What a client holds. g has the registrations of a program on a device   *)
(* (regs), the tags of its writes (tags), and the completions that may run *)
(* with their outcome (done).                                              *)

Carries(put, vals) == \A l \in DOMAIN put : put[l] \in vals[l]

Displays(view, vals) == \A l \in Leaf : view[l] \in vals[l] \cup {Unknown}

\* A callback runs with all there is at the path it was passed for.
FineEvent(e, vals, g) ==
    /\ e.kind = "value" =>
        /\ e.todo \subseteq g.regs
        /\ Displays(e.view, vals)
        /\ \A r \in e.todo : Complete(e.view, r.path)
    /\ e.kind = "done" => <<e.tag, e.ok>> \in g.done

FineWrite(w, vals, g) == Carries(w.put, vals) /\ w.tag \in g.tags

Kept(k, vals, g) ==
    /\ Displays(k.cache, vals)
    /\ \A w \in k.writes : FineWrite(w, vals, g)
    /\ k.regs \subseteq g.regs
    /\ \A i \in DOMAIN k.main : FineEvent(k.main[i], vals, g)

Brings(s, vals) ==
    \A i \in DOMAIN s : s[i].kind # "ack" => Carries(s[i].put, vals)

\* Every write that is pending may be answered either way.
Answerable(g) == \A t \in g.tags, ok \in BOOLEAN : <<t, ok>> \in g.done

Holding(vals, G) ==
    /\ \A l \in Leaf : data[l] \in vals[l]
    /\ \A c \in Client : /\ Kept(client[c], vals, G[c])
                         /\ Brings(in[c], vals)

-----------------------------------------------------------------------------
(* The operators on a client's state. *)

\* A client shows what it holds.
LEMMA SeesKept ==
    ASSUME NEW k \in ClientState, NEW vals, NEW g, Kept(k, vals, g)
    PROVE  Displays(Sees(k), vals)
<1>1. ASSUME NEW l \in Leaf, Top(k.writes, l) # {}
      PROVE  (CHOOSE w \in Top(k.writes, l) : TRUE).put[l] \in vals[l]
    <2>1. PICK w \in Top(k.writes, l) : w = CHOOSE v \in Top(k.writes, l) : TRUE
        BY <1>1
    <2>2. w \in k.writes /\ l \in DOMAIN w.put
        BY DEF Top
    <2>. QED
        BY <2>1, <2>2 DEF Kept, FineWrite, Carries
<1>2. \A l \in Leaf : Sees(k)[l] = IF Top(k.writes, l) = {} THEN k.cache[l]
                                   ELSE (CHOOSE w \in Top(k.writes, l) : TRUE).put[l]
    BY DEF Sees, View
<1>. QED
    BY <1>1, <1>2 DEF Kept, Displays

\* A block that goes behind those on the main queue.
LEMMA QueuedKept ==
    ASSUME NEW k \in ClientState, NEW vals, NEW g, Kept(k, vals, g),
           NEW e \in Event, FineEvent(e, vals, g),
           NEW k2, k2 = [k EXCEPT !.main = Append(@, e)]
    PROVE  k2 \in ClientState /\ Kept(k2, vals, g)
<1>. DEFINE main == Append(k.main, e)
<1>1. main \in Seq(Event) /\ \A i \in DOMAIN main : FineEvent(main[i], vals, g)
    <2>1. k.main \in Seq(Event)
        BY DEF ClientState
    <2>2. /\ main \in Seq(Event) /\ DOMAIN main = 1..(Len(k.main) + 1)
          /\ main[Len(k.main) + 1] = e
          /\ \A i \in DOMAIN k.main : main[i] = k.main[i]
          /\ DOMAIN k.main = 1..Len(k.main) /\ Len(k.main) \in Nat
        BY <2>1
    <2>. HIDE DEF main
    <2>3. \A i \in DOMAIN main : i \in DOMAIN k.main \/ i = Len(k.main) + 1
        BY <2>2
    <2>. QED
        BY <2>2, <2>3 DEF Kept
<1>2. k2 = [k EXCEPT !.main = main]
    OBVIOUS
<1>. HIDE DEF main
<1>3. /\ k2 \in ClientState /\ k2.cache = k.cache /\ k2.writes = k.writes
      /\ k2.regs = k.regs /\ k2.main = main
    BY <1>1, <1>2 DEF ClientState
<1>. QED
    BY <1>1, <1>3 DEF Kept

\* The registrations that events are raised for see all of their paths.
LEMMA RaiseKept ==
    ASSUME NEW k \in ClientState, NEW vals, NEW g, Kept(k, vals, g),
           NEW todo \in SUBSET Reg, todo \subseteq g.regs,
           \A r \in todo : Complete(Sees(k), r.path)
    PROVE  Kept(Raise(k, todo), vals, g)
<1>. DEFINE sees == Sees(k)
            view == [l \in Leaf |-> IF \E r \in todo : l \in r.path
                                    THEN sees[l] ELSE Unknown]
            e == [kind |-> "value", todo |-> todo, view |-> view]
<1>1. sees \in [Leaf -> Seen] /\ Displays(sees, vals)
    BY SeesType, SeesKept
<1>2. \A r \in todo : r.path \subseteq Leaf /\ \A l \in r.path : sees[l] # Unknown
    BY PathAssumption DEF Complete, Reg
<1>3. Raise(k, todo) = IF todo = {} THEN k ELSE [k EXCEPT !.main = Append(@, e)]
    BY DEF Raise
<1>. HIDE DEF sees
<1>4. view \in [Leaf -> Seen]
    BY <1>1 DEF Seen
<1>5. Displays(view, vals) /\ \A r \in todo : Complete(view, r.path)
    BY <1>1, <1>2 DEF Displays, Complete
<1>. HIDE DEF view
<1>6. e \in Event /\ FineEvent(e, vals, g)
    BY <1>4, <1>5 DEF Event, FineEvent
<1>. HIDE DEF e
<1>. QED
    BY <1>3, <1>6, QueuedKept

\* An event is raised only for who sees all of its path.
LEMMA ChangedKept ==
    ASSUME NEW k \in ClientState, NEW k2 \in ClientState, NEW vals, NEW g,
           Kept(k2, vals, g)
    PROVE  Kept(Raise(k2, Changed(k, k2)), vals, g)
<1>1. /\ Changed(k, k2) \in SUBSET Reg /\ Changed(k, k2) \subseteq g.regs
      /\ \A r \in Changed(k, k2) : Complete(Sees(k2), r.path)
    BY DEF Changed, ClientState, Kept
<1>. QED
    BY <1>1, RaiseKept

LEMMA RelistenKept ==
    ASSUME NEW k \in ClientState, NEW vals, NEW g, Kept(k, vals, g),
           NEW regs \in SUBSET Reg, regs \subseteq g.regs
    PROVE  Kept(Relisten(k, regs), vals, g)
<1>. DEFINE k2 == Relisten(k, regs)
<1>1. /\ k2.writes = k.writes /\ k2.regs = regs /\ k2.main = k.main
      /\ k2.cache = [l \in Leaf |-> IF l \in Covered(regs) THEN k.cache[l] ELSE Unknown]
    BY DEF Relisten, ClientState
<1>. HIDE DEF k2
<1>2. Displays(k2.cache, vals)
    BY <1>1 DEF Kept, Displays
<1>. QED
    BY <1>1, <1>2 DEF Kept, k2

LEMMA ObserveKept ==
    ASSUME NEW k \in ClientState, NEW vals, NEW g, Kept(k, vals, g),
           NEW path \in Path, NEW single \in BOOLEAN, NEW tag \in Tag,
           \A id \in Nat :
            [id |-> id, path |-> path, single |-> single, tag |-> tag] \in g.regs
    PROVE  Kept(Observe(k, path, single, tag), vals, g)
<1>. DEFINE r == [id |-> Fresh(k), path |-> path, single |-> single, tag |-> tag]
            k2 == Relisten(k, k.regs \cup {r})
            todo == IF Complete(Sees(k2), path) THEN {r} ELSE {}
<1>1. r \in Reg /\ r \in g.regs /\ r.path = path
    BY FreshType DEF Reg
<1>2. Observe(k, path, single, tag) = Raise(k2, todo)
    BY DEF Observe
<1>. HIDE DEF r
<1>3. k.regs \cup {r} \in SUBSET Reg /\ k.regs \cup {r} \subseteq g.regs
    BY <1>1 DEF ClientState, Kept
<1>4. k2 \in ClientState /\ Kept(k2, vals, g)
    BY <1>3, RelistenType, RelistenKept
<1>. HIDE DEF k2
<1>5. /\ todo \in SUBSET Reg /\ todo \subseteq g.regs
      /\ \A q \in todo : Complete(Sees(k2), q.path)
    BY <1>1
<1>. HIDE DEF todo
<1>. QED
    BY <1>2, <1>4, <1>5, RaiseKept

LEMMA SetValueKept ==
    ASSUME NEW k \in ClientState, NEW vals, NEW g, Kept(k, vals, g),
           NEW put \in Put, Carries(put, vals), NEW tag \in Tag, tag \in g.tags
    PROVE  Kept(SetValue(k, put, tag), vals, g)
<1>. DEFINE w == [id |-> Fresh(k), put |-> put, tag |-> tag]
            q == [kind |-> "put", rank |-> Fresh(k), put |-> put]
            writes == k.writes \cup {w}
            out == IF k.conn THEN k.out \cup {q} ELSE k.out
            next == Fresh(k) + 1
            k2 == [k EXCEPT !.writes = writes, !.out = out, !.next = next]
<1>1. Fresh(k) \in Nat
    BY FreshType
<1>2. w \in Write /\ q \in Request /\ FineWrite(w, vals, g)
    BY <1>1 DEF Write, Request, FineWrite
<1>3. SetValue(k, put, tag) = Raise(k2, Changed(k, k2))
    BY DEF SetValue, Overwrites
<1>. HIDE DEF w, q
<1>4. writes \in SUBSET Write /\ out \in SUBSET Request /\ next \in Nat
    BY <1>1, <1>2 DEF ClientState
<1>5. \A v \in writes : FineWrite(v, vals, g)
    BY <1>2 DEF Kept
<1>. HIDE DEF writes, out, next
<1>6. /\ k2 \in ClientState /\ k2.cache = k.cache /\ k2.writes = writes
      /\ k2.regs = k.regs /\ k2.main = k.main
    BY <1>4 DEF ClientState
<1>. HIDE DEF k2
<1>7. Kept(k2, vals, g)
    BY <1>5, <1>6 DEF Kept
<1>. QED
    BY <1>3, <1>6, <1>7, ChangedKept

LEMMA MergeKept ==
    ASSUME NEW k \in ClientState, NEW vals, NEW g, Kept(k, vals, g),
           NEW put \in Put, Carries(put, vals)
    PROVE  Kept(Merge(k, put), vals, g)
<1>. DEFINE cache == [l \in Leaf |-> IF l \in Merged(k, put) THEN put[l] ELSE k.cache[l]]
            k2 == [k EXCEPT !.cache = cache]
<1>1. PICK S \in SUBSET Leaf : put \in [S -> Value]
    BY DEF Put
<1>2. cache \in [Leaf -> Seen]
    BY <1>1 DEF Merged, ClientState, Seen
<1>3. Displays(cache, vals)
    BY DEF Kept, Displays, Carries, Merged
<1>4. Merge(k, put) = Raise(k2, Changed(k, k2))
    BY DEF Merge
<1>. HIDE DEF cache
<1>5. /\ k2 \in ClientState /\ k2.cache = cache /\ k2.writes = k.writes
      /\ k2.regs = k.regs /\ k2.main = k.main
    BY <1>2 DEF ClientState
<1>. HIDE DEF k2
<1>6. Kept(k2, vals, g)
    BY <1>3, <1>5 DEF Kept
<1>. QED
    BY <1>4, <1>5, <1>6, ChangedKept

\* The completion of a write runs with the outcome that the server has answered.
LEMMA AnswerKept ==
    ASSUME NEW k \in ClientState, NEW vals, NEW g, Kept(k, vals, g), Answerable(g),
           NEW ack \in Ack, ack.id \in PendingIds(k)
    PROVE  Kept(Answer(k, ack), vals, g)
<1>. DEFINE w == CHOOSE v \in k.writes : v.id = ack.id
            writes == k.writes \ {w}
            k2 == [k EXCEPT !.writes = writes]
            k3 == Raise(k2, Changed(k, k2))
            e == [kind |-> "done", tag |-> w.tag, ok |-> ack.ok]
<1>1. w \in k.writes
    BY DEF PendingIds
<1>2. w \in Write /\ FineWrite(w, vals, g) /\ ack.ok \in BOOLEAN
    BY <1>1 DEF ClientState, Kept, Ack
<1>3. Answer(k, ack) = [k3 EXCEPT !.main = Append(@, e)]
    BY DEF Answer
<1>. HIDE DEF w
<1>4. e \in Event /\ FineEvent(e, vals, g)
    BY <1>2 DEF Event, Write, FineEvent, FineWrite, Answerable
<1>5. writes \in SUBSET Write
    BY DEF ClientState
<1>. HIDE DEF e
<1>6. \A v \in writes : FineWrite(v, vals, g)
    BY DEF Kept
<1>. HIDE DEF writes
<1>7. /\ k2 \in ClientState /\ k2.cache = k.cache /\ k2.writes = writes
      /\ k2.regs = k.regs /\ k2.main = k.main
    BY <1>5 DEF ClientState
<1>. HIDE DEF k2
<1>8. Kept(k2, vals, g)
    BY <1>6, <1>7 DEF Kept
<1>9. k3 \in ClientState /\ Kept(k3, vals, g)
    BY <1>7, <1>8, ChangedKept, ChangedType, RaiseType
<1>. HIDE DEF k3
<1>. QED
    BY <1>3, <1>4, <1>9, QueuedKept

\* The callback of r leaves the main queue.
LEMMA TakeValueKept ==
    ASSUME NEW k \in ClientState, NEW vals, NEW g, Kept(k, vals, g), NEW r \in Ready(k)
    PROVE  /\ Kept(TakeValue(k, r), vals, g)
           /\ TakeValue(k, r).regs = k.regs
           /\ r \in Reg /\ r \in g.regs
           /\ Head(k.main).view \in [Leaf -> Seen]
           /\ Displays(Head(k.main).view, vals)
           /\ Complete(Head(k.main).view, r.path)
<1>1. k.main \in Seq(Event) /\ k.main # <<>> /\ k.main[1].kind = "value"
    BY DEF Ready, ClientState
<1>2. /\ 1 \in DOMAIN k.main /\ k.main[1] \in Event /\ Head(k.main) = k.main[1]
      /\ FineEvent(k.main[1], vals, g)
    BY <1>1 DEF Kept
<1>3. k.main[1] \in [kind : {"value"}, todo : SUBSET Reg, view : [Leaf -> Seen]]
    BY <1>1, <1>2 DEF Event
<1>4. r \in k.main[1].todo
    BY <1>1, <1>2 DEF Ready
<1>. DEFINE e == Without(k.main[1], r)
            main == [k.main EXCEPT ![1] = e]
            rest == Tail(k.main)
            k2 == TakeValue(k, r)
<1>5. /\ e.kind = "value" /\ e.todo = k.main[1].todo \ {r}
      /\ e.view = k.main[1].view
    BY <1>3 DEF Without
<1>6. k2 = [k EXCEPT !.main = IF k.main[1].todo = {r} THEN rest ELSE main]
    BY <1>2 DEF TakeValue
<1>. HIDE DEF e
<1>7. FineEvent(e, vals, g)
    BY <1>1, <1>2, <1>5 DEF FineEvent
<1>8. \A i \in DOMAIN main : FineEvent(main[i], vals, g)
    <2>1. DOMAIN main = DOMAIN k.main /\ main[1] = e
          /\ \A i \in DOMAIN k.main : i # 1 => main[i] = k.main[i]
        BY <1>1, <1>2
    <2>. HIDE DEF main
    <2>. QED
        BY <1>7, <2>1 DEF Kept
<1>9. \A i \in DOMAIN rest : FineEvent(rest[i], vals, g)
    <2>1. \A i \in DOMAIN rest : i + 1 \in DOMAIN k.main /\ rest[i] = k.main[i + 1]
        BY <1>1
    <2>. HIDE DEF rest
    <2>. QED
        BY <2>1 DEF Kept
<1>. HIDE DEF main, rest
<1>10. /\ k2.cache = k.cache /\ k2.writes = k.writes /\ k2.regs = k.regs
       /\ k2.main = rest \/ k2.main = main
    BY <1>6 DEF ClientState
<1>. HIDE DEF k2
<1>11. Kept(k2, vals, g)
    BY <1>8, <1>9, <1>10 DEF Kept
<1>. QED
    BY <1>1, <1>2, <1>3, <1>4, <1>10, <1>11 DEF FineEvent, k2

LEMMA BeginKept ==
    ASSUME NEW k \in ClientState, NEW vals, NEW g, Kept(k, vals, g), NEW r \in Ready(k)
    PROVE  Kept(Begin(k, r), vals, g)
<1>. DEFINE k2 == TakeValue(k, r)
<1>1. k2 \in ClientState /\ Kept(k2, vals, g)
    BY TakeValueType, TakeValueKept
<1>2. Begin(k, r) = IF r.single THEN Relisten(k2, k2.regs \ {r}) ELSE k2
    BY DEF Begin, Unobserve
<1>. HIDE DEF k2
<1>3. k2.regs \ {r} \in SUBSET Reg /\ k2.regs \ {r} \subseteq g.regs
    BY <1>1 DEF ClientState, Kept
<1>. QED
    BY <1>1, <1>2, <1>3, RelistenKept

LEMMA TakeDoneKept ==
    ASSUME NEW k \in ClientState, NEW vals, NEW g, Kept(k, vals, g),
           k.main # <<>>, Head(k.main).kind = "done"
    PROVE  /\ Kept(TakeDone(k), vals, g)
           /\ Head(k.main) \in Event
           /\ <<Head(k.main).tag, Head(k.main).ok>> \in g.done
<1>. DEFINE rest == Tail(k.main)
            k2 == TakeDone(k)
<1>1. k.main \in Seq(Event)
    BY DEF ClientState
<1>2. /\ \A i \in DOMAIN rest : i + 1 \in DOMAIN k.main /\ rest[i] = k.main[i + 1]
      /\ 1 \in DOMAIN k.main /\ Head(k.main) = k.main[1] /\ k.main[1] \in Event
    BY <1>1
<1>3. k2 = [k EXCEPT !.main = rest]
    BY DEF TakeDone
<1>. HIDE DEF rest
<1>4. /\ k2.cache = k.cache /\ k2.writes = k.writes /\ k2.regs = k.regs
      /\ k2.main = rest
    BY <1>3 DEF ClientState
<1>. HIDE DEF k2
<1>5. Kept(k2, vals, g)
    BY <1>2, <1>4 DEF Kept
<1>. QED
    BY <1>2, <1>5 DEF Kept, FineEvent, k2

-----------------------------------------------------------------------------
(* The network. *)

LEMMA BringsAppend ==
    ASSUME NEW s \in Seq(Message), NEW vals, Brings(s, vals),
           NEW m \in Message, m.kind # "ack" => Carries(m.put, vals)
    PROVE  Append(s, m) \in Seq(Message) /\ Brings(Append(s, m), vals)
<1>. DEFINE t == Append(s, m)
<1>1. /\ t \in Seq(Message)
      /\ \A i \in DOMAIN t : t[i] = m \/ (i \in DOMAIN s /\ t[i] = s[i])
    OBVIOUS
<1>. HIDE DEF t
<1>2. Brings(t, vals)
    BY <1>1 DEF Brings
<1>. QED
    BY <1>1, <1>2 DEF t

LEMMA BringsTail ==
    ASSUME NEW s \in Seq(Message), NEW vals, Brings(s, vals), s # <<>>
    PROVE  /\ Head(s) \in Message
           /\ Head(s).kind # "ack" => Carries(Head(s).put, vals)
           /\ Tail(s) \in Seq(Message) /\ Brings(Tail(s), vals)
<1>. DEFINE t == Tail(s)
<1>1. /\ t \in Seq(Message) /\ Head(s) = s[1] /\ 1 \in DOMAIN s /\ s[1] \in Message
      /\ \A i \in DOMAIN t : i + 1 \in DOMAIN s /\ t[i] = s[i + 1]
    OBVIOUS
<1>. HIDE DEF t
<1>2. Brings(t, vals)
    BY <1>1 DEF Brings
<1>. QED
    BY <1>1, <1>2 DEF Brings, t

\* A step of one client, its state and its inbox.
LEMMA OneKept ==
    ASSUME Inv, NEW vals, NEW G, Holding(vals, G), NEW c \in Client,
           NEW k, client' = [client EXCEPT ![c] = k], Kept(k, vals, G[c]),
           NEW s, in' = [in EXCEPT ![c] = s], Brings(s, vals),
           data' = data
    PROVE  Holding(vals, G)'
<1>1. /\ client \in [Client -> ClientState] /\ in \in [Client -> Seq(Message)]
    BY DEF Inv, TypeOK
<1>2. /\ client'[c] = k /\ in'[c] = s
      /\ \A d \in Client \ {c} : client'[d] = client[d] /\ in'[d] = in[d]
    BY <1>1
<1>. QED
    BY <1>2 DEF Holding

\* The same when the inbox stays as it is.
LEMMA OneKeptOnly ==
    ASSUME Inv, NEW vals, NEW G, Holding(vals, G), NEW c \in Client,
           NEW k, client' = [client EXCEPT ![c] = k], Kept(k, vals, G[c]),
           in' = in, data' = data
    PROVE  Holding(vals, G)'
<1>1. in' = [in EXCEPT ![c] = in[c]] /\ Brings(in[c], vals)
    BY DEF Inv, TypeOK, Holding
<1>. QED
    BY <1>1, OneKept

LEMMA LocalKept ==
    ASSUME Inv, NEW vals, NEW G, Holding(vals, G), NEW c \in Client
    PROVE  /\ client[c] \in ClientState /\ in[c] \in Seq(Message)
           /\ Sound(client[c], in[c])
           /\ Kept(client[c], vals, G[c]) /\ Brings(in[c], vals)
    BY Local DEF Holding

\* A put on the wire is that of a pending write.
LEMMA PutKept ==
    ASSUME NEW k \in ClientState, NEW s, Sound(k, s), NEW vals, NEW g,
           Kept(k, vals, g), NEW q \in k.out, q.kind = "put"
    PROVE  Carries(q.put, vals) /\ q.put \in Put
<1>1. PICK w \in k.writes : q.put = w.put
    BY DEF Sound, Numbered
<1>2. w \in Write
    BY DEF ClientState
<1>. QED
    BY <1>1, <1>2 DEF Kept, FineWrite, Write

LEMMA ServedKept ==
    ASSUME NEW k \in ClientState, NEW vals, NEW g, Kept(k, vals, g), NEW q,
           NEW k2, k2 = [k EXCEPT !.out = @ \ {q}]
    PROVE  Kept(k2, vals, g)
<1>1. /\ k2.cache = k.cache /\ k2.writes = k.writes /\ k2.regs = k.regs
      /\ k2.main = k.main
    BY DEF ClientState
<1>. QED
    BY <1>1 DEF Kept

LEMMA ServeKept ==
    ASSUME Inv, NEW vals, NEW G, Holding(vals, G), NEW c \in Client,
           ServeListen(c) \/ ServeUnlisten(c) \/ RejectPut(c)
    PROVE  Holding(vals, G)'
<1>1. /\ client[c] \in ClientState /\ in[c] \in Seq(Message)
      /\ Kept(client[c], vals, G[c]) /\ Brings(in[c], vals)
    BY LocalKept
<1>2. ASSUME NEW q \in client[c].out, client' = Served(c, q)
      PROVE  \E k : client' = [client EXCEPT ![c] = k] /\ Kept(k, vals, G[c])
    <2>. DEFINE k == [client[c] EXCEPT !.out = @ \ {q}]
    <2>1. client' = [client EXCEPT ![c] = k]
        BY <1>2 DEF Served
    <2>2. k = [client[c] EXCEPT !.out = @ \ {q}]
        OBVIOUS
    <2>. HIDE DEF k
    <2>3. Kept(k, vals, G[c])
        BY <1>1, <2>2, ServedKept
    <2>. QED
        BY <2>1, <2>3
<1>3. CASE ServeListen(c)
    <2>1. PICK q \in client[c].out :
            /\ q.kind = "listen"
            /\ in' = [in EXCEPT ![c] =
                        Append(@, [kind |-> "listen", to |-> q,
                                   put |-> [l \in q.path |-> data[l]]])]
            /\ client' = Served(c, q)
            /\ data' = data
        BY <1>3 DEF ServeListen
    <2>. DEFINE put == [l \in q.path |-> data[l]]
                m == [kind |-> "listen", to |-> q, put |-> put]
    <2>2. q \in Listen /\ q.path \subseteq Leaf
        BY <1>1, <2>1, PathAssumption DEF ClientState, Request, Listen
    <2>3. put \in Put /\ Carries(put, vals)
        BY <2>2 DEF Put, Carries, Holding, Inv, TypeOK
    <2>4. in' = [in EXCEPT ![c] = Append(in[c], m)]
        BY <2>1
    <2>. HIDE DEF put
    <2>5. m \in Message /\ m.put = put
        BY <2>2, <2>3 DEF Message
    <2>. HIDE DEF m
    <2>6. Brings(Append(in[c], m), vals)
        BY <1>1, <2>3, <2>5, BringsAppend
    <2>. QED
        BY <1>2, <2>1, <2>4, <2>6, OneKept
<1>4. CASE ServeUnlisten(c)
    <2>1. PICK q \in client[c].out : client' = Served(c, q) /\ data' = data /\ in' = in
        BY <1>4 DEF ServeUnlisten
    <2>. QED
        BY <1>2, <2>1, OneKeptOnly
<1>5. CASE RejectPut(c)
    <2>1. PICK q \in client[c].out :
            /\ q.kind = "put"
            /\ in' = [in EXCEPT ![c] =
                    Append(@, [kind |-> "ack", ack |-> [id |-> q.rank, ok |-> FALSE]])]
            /\ client' = Served(c, q)
            /\ data' = data
        BY <1>5 DEF RejectPut
    <2>. DEFINE m == [kind |-> "ack", ack |-> [id |-> q.rank, ok |-> FALSE]]
    <2>2. q.rank \in Nat
        BY <1>1, <2>1 DEF ClientState, Request, Listen
    <2>3. m \in Message /\ m.kind = "ack"
        BY <2>2 DEF Message, Ack
    <2>4. in' = [in EXCEPT ![c] = Append(in[c], m)]
        BY <2>1
    <2>. HIDE DEF m
    <2>5. Brings(Append(in[c], m), vals)
        BY <1>1, <2>3, BringsAppend
    <2>. QED
        BY <1>2, <2>1, <2>4, <2>5, OneKept
<1>. QED
    BY <1>3, <1>4, <1>5

\* The server hands on what has been written.
LEMMA ServePutKept ==
    ASSUME Inv, NEW vals, NEW G, Holding(vals, G), NEW c \in Client, ServePut(c)
    PROVE  Holding(vals, G)'
<1>1. PICK q \in client[c].out :
        /\ q.kind = "put"
        /\ data' = [l \in Leaf |-> IF l \in DOMAIN q.put THEN q.put[l] ELSE data[l]]
        /\ LET push(d) == IF Pushed(q.put, sub[d]) = {} THEN in[d]
                          ELSE Append(in[d],
                                 [kind |-> "push",
                                  put |-> [l \in Pushed(q.put, sub[d]) |-> q.put[l]]])
               ack == [kind |-> "ack", ack |-> [id |-> q.rank, ok |-> TRUE]]
           IN  in' = [d \in Client |-> IF d = c THEN Append(push(d), ack) ELSE push(d)]
        /\ client' = Served(c, q)
    BY DEF ServePut
<1>. DEFINE put(d) == [l \in Pushed(q.put, sub[d]) |-> q.put[l]]
            m(d) == [kind |-> "push", put |-> put(d)]
            push(d) == IF Pushed(q.put, sub[d]) = {} THEN in[d] ELSE Append(in[d], m(d))
            ack == [kind |-> "ack", ack |-> [id |-> q.rank, ok |-> TRUE]]
            k == [client[c] EXCEPT !.out = @ \ {q}]
<1>2. \A d \in Client :
        /\ client[d] \in ClientState /\ in[d] \in Seq(Message)
        /\ Sound(client[d], in[d])
        /\ Kept(client[d], vals, G[d]) /\ Brings(in[d], vals)
    BY LocalKept
<1>3. Carries(q.put, vals) /\ q.put \in Put
    BY <1>1, <1>2, PutKept
<1>4. ASSUME NEW d \in Client
      PROVE  push(d) \in Seq(Message) /\ Brings(push(d), vals)
    <2>1. PICK S \in SUBSET Leaf : q.put \in [S -> Value]
        BY <1>3 DEF Put
    <2>2. put(d) \in Put /\ Carries(put(d), vals)
        <3>. DEFINE T == Pushed(q.put, sub[d])
        <3>1. T \in SUBSET Leaf /\ \A l \in T : l \in DOMAIN q.put /\ q.put[l] \in Value
            BY <2>1 DEF Pushed
        <3>2. put(d) = [l \in T |-> q.put[l]]
            OBVIOUS
        <3>. HIDE DEF T, put
        <3>3. put(d) \in [T -> Value] /\ \A l \in DOMAIN put(d) : put(d)[l] \in vals[l]
            BY <1>3, <3>1, <3>2 DEF Carries
        <3>. QED
            BY <3>1, <3>3 DEF Put, Carries
    <2>. HIDE DEF put
    <2>3. m(d) \in Message /\ m(d).put = put(d)
        BY <2>2 DEF Message
    <2>. HIDE DEF m
    <2>4. Append(in[d], m(d)) \in Seq(Message) /\ Brings(Append(in[d], m(d)), vals)
        BY <1>2, <2>2, <2>3, BringsAppend
    <2>. QED
        BY <1>2, <2>4
<1>5. ack \in Message /\ ack.kind = "ack"
    <2>1. q.rank \in Nat
        BY <1>1, <1>2 DEF ClientState, Request, Listen
    <2>. QED
        BY <2>1 DEF Message, Ack
<1>6. in' = [d \in Client |-> IF d = c THEN Append(push(d), ack) ELSE push(d)]
    BY <1>1
<1>7. client' = [client EXCEPT ![c] = k] /\ k = [client[c] EXCEPT !.out = @ \ {q}]
    BY <1>1 DEF Served
<1>. HIDE DEF ack, push, k
<1>8. Brings(Append(push(c), ack), vals)
    BY <1>4, <1>5, BringsAppend
<1>9. \A d \in Client : Brings(in'[d], vals)
    BY <1>4, <1>6, <1>8
<1>10. Kept(k, vals, G[c])
    BY <1>2, <1>7, ServedKept
<1>11. \A d \in Client : Kept(client'[d], vals, G[d])
    BY <1>2, <1>7, <1>10 DEF Inv, TypeOK
<1>12. \A l \in Leaf : data'[l] \in vals[l]
    BY <1>1, <1>3 DEF Carries, Holding
<1>. QED
    BY <1>9, <1>11, <1>12 DEF Holding

LEMMA ReceiveKept ==
    ASSUME Inv, NEW vals, NEW G, Holding(vals, G), NEW c \in Client,
           Answerable(G[c]), ReceivePush(c) \/ ReceiveListen(c) \/ ReceiveAck(c)
    PROVE  Holding(vals, G)'
<1>. DEFINE m == Head(in[c])
            k == client[c]
<1>1. /\ k \in ClientState /\ in[c] \in Seq(Message) /\ Sound(k, in[c])
      /\ Kept(k, vals, G[c]) /\ Brings(in[c], vals)
    BY LocalKept
<1>2. in[c] # <<>> /\ in' = [in EXCEPT ![c] = Tail(in[c])] /\ data' = data
    BY DEF ReceivePush, ReceiveListen, ReceiveAck, Arrived
<1>3. /\ m \in Message /\ Tail(in[c]) \in Seq(Message) /\ Brings(Tail(in[c]), vals)
      /\ m.kind # "ack" => Carries(m.put, vals)
    BY <1>1, <1>2, BringsTail
<1>4. m.kind # "ack" => Merge(k, m.put) \in ClientState /\ Kept(Merge(k, m.put), vals, G[c])
    <2>1. m.kind # "ack" => m.put \in Put
        BY <1>3 DEF Message
    <2>. QED
        BY <1>1, <1>3, <2>1, MergeType, MergeKept
<1>5. CASE ReceivePush(c)
    <2>1. m.kind = "push" /\ client' = [client EXCEPT ![c] = Merge(k, m.put)]
        BY <1>5 DEF ReceivePush, Arrived
    <2>. QED
        BY <1>2, <1>3, <1>4, <2>1, OneKept
<1>6. CASE ReceiveListen(c)
    <2>. DEFINE k1 == Merge(k, m.put)
                unacked == k1.unacked \ {m.to}
                flush == unacked = {} /\ k1.held # {}
                k2 == [k1 EXCEPT !.unacked = unacked, !.flush = flush]
    <2>1. m.kind = "listen" /\ client' = [client EXCEPT ![c] = k2]
        BY <1>6 DEF ReceiveListen, Arrived
    <2>2. k1 \in ClientState /\ Kept(k1, vals, G[c])
        BY <1>4, <2>1
    <2>. HIDE DEF k1, unacked, flush
    <2>3. /\ k2.cache = k1.cache /\ k2.writes = k1.writes /\ k2.regs = k1.regs
          /\ k2.main = k1.main
        BY <2>2 DEF ClientState
    <2>. HIDE DEF k2
    <2>4. Kept(k2, vals, G[c])
        BY <2>2, <2>3 DEF Kept
    <2>. QED
        BY <1>2, <1>3, <2>1, <2>4, OneKept
<1>7. CASE ReceiveAck(c)
    <2>1. m.kind = "ack"
        BY <1>7 DEF ReceiveAck, Arrived
    <2>2. m.ack \in Ack /\ m.ack.id \in PendingIds(k)
        BY <1>1, <1>2, <2>1, HeadAck
    <2>3. Kept(Answer(k, m.ack), vals, G[c])
        BY <1>1, <2>2, AnswerKept
    <2>. DEFINE k2 == [k EXCEPT !.held = @ \cup {m.ack}]
    <2>4. client' = [client EXCEPT ![c] = IF Holds(k) THEN k2 ELSE Answer(k, m.ack)]
        BY <1>7 DEF ReceiveAck
    <2>5. /\ k2.cache = k.cache /\ k2.writes = k.writes /\ k2.regs = k.regs
          /\ k2.main = k.main
        BY <1>1 DEF ClientState
    <2>. HIDE DEF k2, k
    <2>6. Kept(k2, vals, G[c])
        BY <1>1, <2>5 DEF Kept
    <2>. QED
        BY <1>2, <1>3, <2>3, <2>4, <2>6, OneKept
<1>. QED
    BY <1>5, <1>6, <1>7

LEMMA AckPutsKept ==
    ASSUME Inv, NEW vals, NEW G, Holding(vals, G), NEW c \in Client,
           Answerable(G[c]), AckPuts(c)
    PROVE  Holding(vals, G)'
<1>1. PICK a \in client[c].held : client' = [client EXCEPT ![c] = Acked(client[c], a)]
    BY DEF AckPuts
<1>2. in' = in /\ data' = data
    BY DEF AckPuts
<1>. DEFINE k == client[c]
            k1 == Answer(k, a)
            flush == k.held # {a}
            k2 == [k1 EXCEPT !.held = @ \ {a}, !.flush = flush]
<1>3. /\ k \in ClientState /\ Sound(k, in[c]) /\ Kept(k, vals, G[c])
    BY LocalKept
<1>4. a \in Ack /\ a.id \in PendingIds(k)
    BY <1>3 DEF ClientState, Sound, Accounted, HeldIds
<1>5. k1 \in ClientState /\ Kept(k1, vals, G[c])
    BY <1>3, <1>4, AnswerType, AnswerKept
<1>6. client' = [client EXCEPT ![c] = k2]
    BY <1>1 DEF Acked
<1>. HIDE DEF k1, flush
<1>7. /\ k2.cache = k1.cache /\ k2.writes = k1.writes /\ k2.regs = k1.regs
      /\ k2.main = k1.main
    BY <1>5 DEF ClientState
<1>. HIDE DEF k2
<1>8. Kept(k2, vals, G[c])
    BY <1>5, <1>7 DEF Kept
<1>. QED
    BY <1>2, <1>6, <1>8, OneKeptOnly

LEMMA ReconnectKept ==
    ASSUME Inv, NEW vals, NEW G, Holding(vals, G), NEW c \in Client, Reconnect(c)
    PROVE  Holding(vals, G)'
<1>. DEFINE k == client[c]
            out == RestoredListens(k) \cup RestoredPuts(k)
            listens == RestoredListens(k)
            k2 == [k EXCEPT !.conn = TRUE, !.out = out, !.unacked = listens]
<1>1. k \in ClientState /\ Kept(k, vals, G[c])
    BY LocalKept
<1>2. client' = [client EXCEPT ![c] = k2] /\ in' = in /\ data' = data
    BY DEF Reconnect
<1>. HIDE DEF out, listens
<1>3. /\ k2.cache = k.cache /\ k2.writes = k.writes /\ k2.regs = k.regs
      /\ k2.main = k.main
    BY <1>1 DEF ClientState
<1>. HIDE DEF k2
<1>4. Kept(k2, vals, G[c])
    BY <1>1, <1>3 DEF Kept
<1>. QED
    BY <1>2, <1>4, OneKeptOnly

LEMMA DisconnectKept ==
    ASSUME Inv, NEW vals, NEW G, Holding(vals, G), NEW c \in Client, Disconnect(c)
    PROVE  Holding(vals, G)'
<1>. DEFINE k == client[c]
            k2 == CutOff(k)
<1>1. k \in ClientState /\ Kept(k, vals, G[c])
    BY LocalKept
<1>2. /\ client' = [client EXCEPT ![c] = k2] /\ in' = [in EXCEPT ![c] = <<>>]
      /\ data' = data
    BY DEF Disconnect, DropsInbox
<1>3. /\ k2.cache = k.cache /\ k2.writes = k.writes /\ k2.regs = k.regs
      /\ k2.main = k.main
    BY <1>1 DEF CutOff, ClientState
<1>. HIDE DEF k2
<1>4. Kept(k2, vals, G[c])
    BY <1>1, <1>3 DEF Kept
<1>5. Brings(<<>>, vals)
    BY DEF Brings
<1>. QED
    BY <1>2, <1>4, <1>5, OneKept

LEMMA NetworkKept ==
    ASSUME Inv, NEW vals, NEW G, Holding(vals, G), NEW c \in Client,
           Answerable(G[c]), Network(c)
    PROVE  Inv' /\ Holding(vals, G)'
<1>1. Holding(vals, G)'
    BY ServeKept, ServePutKept, ReceiveKept, AckPutsKept, ReconnectKept DEF Network
<1>2. Inv'
    BY ServeListenInv, ServeUnlistenInv, ServePutInv, RejectPutInv, ReceivePushInv,
       ReceiveListenInv, ReceiveAckInv, AckPutsInv, ReconnectInv DEF Network
<1>. QED
    BY <1>1, <1>2

LEMMA CutKept ==
    ASSUME Inv, NEW vals, NEW G, Holding(vals, G), NEW c \in Client, Disconnect(c)
    PROVE  Inv' /\ Holding(vals, G)'
    BY DisconnectInv, DisconnectKept

-----------------------------------------------------------------------------
(* The steps of a program: what one of its blocks has made of a client.    *)

LEMMA StartKept ==
    ASSUME Init, NEW vals, NEW G, \A l \in Leaf : Initial[l] \in vals[l]
    PROVE  Inv /\ Holding(vals, G)
<1>1. Inv
    BY InitInv
<1>2. \A g : Kept(ClientInit, vals, g)
    BY DEF Kept, Displays, ClientInit
<1>3. Brings(<<>>, vals)
    BY DEF Brings
<1>. QED
    BY <1>1, <1>2, <1>3 DEF Init, Holding

\* A client in which the program may call the database.
Steady(k, s, vals, g) == k \in ClientState /\ Sound(k, s) /\ Kept(k, vals, g)

LEMMA StepKept ==
    ASSUME Inv, NEW vals, NEW G, Holding(vals, G), NEW c \in Client,
           NEW k, client' = [client EXCEPT ![c] = k],
           Steady(k, in[c], vals, G[c]), k.conn = client[c].conn,
           UNCHANGED <<data, sub, in, drops>>
    PROVE  Inv' /\ Holding(vals, G)'
<1>1. k \in ClientState /\ Sound(k, in[c]) /\ Kept(k, vals, G[c])
    BY DEF Steady
<1>. QED
    BY <1>1, OneClientOnly, OneKeptOnly

LEMMA StayKept ==
    ASSUME Inv, NEW vals, NEW G, Holding(vals, G), UNCHANGED vars
    PROVE  Inv' /\ Holding(vals, G)'
<1>1. Holding(vals, G)'
    BY DEF Holding, vars
<1>2. Inv'
    BY DEF Inv, TypeOK, WritesInv, vars
<1>. QED
    BY <1>1, <1>2

\* A program may go on to hold more.
LEMMA MoreKept ==
    ASSUME NEW vals, NEW G, Holding(vals, G), NEW vals2, NEW G2,
           \A l \in Leaf : vals[l] \subseteq vals2[l],
           Inv,
           \A c \in Client : /\ G[c].regs \subseteq G2[c].regs
                             /\ G[c].tags \subseteq G2[c].tags
                             /\ G[c].done \subseteq G2[c].done
    PROVE  Holding(vals2, G2)
<1>1. ASSUME NEW put, \E S \in SUBSET Leaf : DOMAIN put = S, Carries(put, vals)
      PROVE  Carries(put, vals2)
    BY <1>1 DEF Carries
<1>2. ASSUME NEW view, Displays(view, vals)
      PROVE  Displays(view, vals2)
    BY <1>2 DEF Displays
<1>3. ASSUME NEW c \in Client, Kept(client[c], vals, G[c]), Brings(in[c], vals)
      PROVE  Kept(client[c], vals2, G2[c]) /\ Brings(in[c], vals2)
    <2>1. client[c] \in ClientState /\ in[c] \in Seq(Message)
        BY DEF Inv, TypeOK
    <2>2. ASSUME NEW put \in Put, Carries(put, vals)
          PROVE  Carries(put, vals2)
        <3>1. \E S \in SUBSET Leaf : DOMAIN put = S
            BY DEF Put
        <3>. QED
            BY <1>1, <2>2, <3>1
    <2>3. Brings(in[c], vals2)
        <3>1. \A i \in DOMAIN in[c] : in[c][i] \in Message
            BY <2>1
        <3>2. \A m \in Message : m.kind # "ack" => m.put \in Put
            BY DEF Message
        <3>. QED
            BY <1>3, <2>2, <3>1, <3>2 DEF Brings
    <2>4. \A w \in client[c].writes : FineWrite(w, vals2, G2[c])
        <3>1. \A w \in client[c].writes : w.put \in Put
            BY <2>1 DEF ClientState, Write
        <3>. QED
            BY <1>3, <2>2, <3>1 DEF Kept, FineWrite
    <2>5. \A i \in DOMAIN client[c].main : FineEvent(client[c].main[i], vals2, G2[c])
        BY <1>2, <1>3 DEF Kept, FineEvent
    <2>6. Displays(client[c].cache, vals2) /\ client[c].regs \subseteq G2[c].regs
        BY <1>2, <1>3 DEF Kept
    <2>. QED
        BY <2>3, <2>4, <2>5, <2>6 DEF Kept
<1>. QED
    BY <1>3 DEF Holding

LEMMA LocalServed ==
    ASSUME Inv, NEW vals, NEW G, Holding(vals, G), NEW c \in Client
    PROVE  Steady(client[c], in[c], vals, G[c]) /\ in[c] \in Seq(Message)
    BY LocalKept DEF Steady

\* A closure that may be registered, whatever id it gets.
Allows(g, path, single, tag) ==
    \A id \in Nat : [id |-> id, path |-> path, single |-> single, tag |-> tag] \in g.regs

LEMMA ObserveServed ==
    ASSUME NEW k, NEW s \in Seq(Message), NEW vals, NEW g, Steady(k, s, vals, g),
           NEW path \in Path, NEW single \in BOOLEAN, NEW tag \in Tag,
           Allows(g, path, single, tag)
    PROVE  /\ Steady(Observe(k, path, single, tag), s, vals, g)
           /\ Observe(k, path, single, tag).conn = k.conn
<1>. DEFINE k2 == Observe(k, path, single, tag)
<1>1. k \in ClientState /\ Sound(k, s) /\ Kept(k, vals, g)
    BY DEF Steady
<1>2. k2 \in ClientState /\ Kept(k2, vals, g)
    BY <1>1, ObserveType, ObserveKept DEF Allows
<1>3. k2 = Observe(k, path, single, tag)
    OBVIOUS
<1>. HIDE DEF k2
<1>4. /\ k2.conn = k.conn /\ k2.writes = k.writes /\ k2.held = k.held
      /\ k2.next = Fresh(k) + 2
      /\ ~k.conn => k2.out = k.out
      /\ k.out \subseteq k2.out
      /\ \A q \in k2.out \ k.out : q.kind # "put"
    BY <1>1, <1>3, ObserveFields
<1>5. \A w \in k.writes : w.id < k2.next
    BY <1>1, <1>4, FreshAbove
<1>6. Sound(k2, s)
    BY <1>1, <1>2, <1>4, <1>5, CalmStep
<1>. QED
    BY <1>2, <1>4, <1>6 DEF Steady, k2

\* observeSingleEvent
AllowsOnce(g, path, tag) == Allows(g, path, TRUE, tag)

ObservedOnce(k, path, tag) == Observe(k, path, TRUE, tag)

LEMMA ObservedOnceServed ==
    ASSUME NEW k, NEW s \in Seq(Message), NEW vals, NEW g, Steady(k, s, vals, g),
           NEW path \in Path, NEW tag \in Tag, AllowsOnce(g, path, tag)
    PROVE  /\ Steady(ObservedOnce(k, path, tag), s, vals, g)
           /\ ObservedOnce(k, path, tag).conn = k.conn
<1>. DEFINE single == TRUE
<1>1. single \in BOOLEAN /\ Allows(g, path, single, tag)
    BY DEF AllowsOnce
<1>. HIDE DEF single
<1>2. /\ Steady(Observe(k, path, single, tag), s, vals, g)
      /\ Observe(k, path, single, tag).conn = k.conn
    BY <1>1, ObserveServed
<1>. QED
    BY <1>2 DEF single, ObservedOnce

\* observe
AllowsOn(g, path, tag) == Allows(g, path, FALSE, tag)

ObservedOn(k, path, tag) == Observe(k, path, FALSE, tag)

LEMMA ObservedOnServed ==
    ASSUME NEW k, NEW s \in Seq(Message), NEW vals, NEW g, Steady(k, s, vals, g),
           NEW path \in Path, NEW tag \in Tag, AllowsOn(g, path, tag)
    PROVE  /\ Steady(ObservedOn(k, path, tag), s, vals, g)
           /\ ObservedOn(k, path, tag).conn = k.conn
<1>. DEFINE single == FALSE
<1>1. single \in BOOLEAN /\ Allows(g, path, single, tag)
    BY DEF AllowsOn
<1>. HIDE DEF single
<1>2. /\ Steady(Observe(k, path, single, tag), s, vals, g)
      /\ Observe(k, path, single, tag).conn = k.conn
    BY <1>1, ObserveServed
<1>. QED
    BY <1>2 DEF single, ObservedOn

LEMMA SetValueServed ==
    ASSUME NEW k, NEW s \in Seq(Message), NEW vals, NEW g, Steady(k, s, vals, g),
           NEW put \in Put, Carries(put, vals), NEW tag \in Tag, tag \in g.tags
    PROVE  /\ Steady(SetValue(k, put, tag), s, vals, g)
           /\ SetValue(k, put, tag).conn = k.conn
<1>1. k \in ClientState /\ Sound(k, s) /\ Kept(k, vals, g)
    BY DEF Steady
<1>. QED
    BY <1>1, SetValueType, SetValueSound, SetValueKept DEF Steady

\* A block that has left the main queue, or joined it.
LEMMA QueueServed ==
    ASSUME NEW k, NEW s \in Seq(Message), NEW vals, NEW g, Steady(k, s, vals, g),
           NEW k2 \in ClientState, Kept(k2, vals, g),
           k2.conn = k.conn, k2.writes = k.writes, k2.held = k.held,
           k2.next = k.next, k2.out = k.out
    PROVE  Steady(k2, s, vals, g)
<1>1. k \in ClientState /\ Sound(k, s)
    BY DEF Steady
<1>2. \A w \in k.writes : w.id < k2.next
    BY <1>1 DEF Sound, Numbered
<1>3. Sound(k2, s)
    BY <1>1, <1>2, CalmStep
<1>. QED
    BY <1>3 DEF Steady

\* A block of the program goes behind those of the database.
Block(k, tag) ==
    [k EXCEPT !.main = Append(@, [kind |-> "done", tag |-> tag, ok |-> TRUE])]

LEMMA BlockServed ==
    ASSUME NEW k, NEW s \in Seq(Message), NEW vals, NEW g, Steady(k, s, vals, g),
           NEW tag \in Tag, <<tag, TRUE>> \in g.done
    PROVE  Steady(Block(k, tag), s, vals, g) /\ Block(k, tag).conn = k.conn
<1>. DEFINE e == [kind |-> "done", tag |-> tag, ok |-> TRUE]
            k2 == Block(k, tag)
<1>1. k \in ClientState /\ Kept(k, vals, g)
    BY DEF Steady
<1>2. e \in Event /\ FineEvent(e, vals, g)
    BY DEF Event, FineEvent
<1>3. k2 = [k EXCEPT !.main = Append(@, e)]
    BY DEF Block
<1>. HIDE DEF e, k2
<1>4. k2 \in ClientState /\ Kept(k2, vals, g)
    BY <1>1, <1>2, <1>3, QueuedKept
<1>5. /\ k2.conn = k.conn /\ k2.writes = k.writes /\ k2.held = k.held
      /\ k2.next = k.next /\ k2.out = k.out
    BY <1>1, <1>3 DEF ClientState
<1>6. Steady(k2, s, vals, g) /\ k2.conn = k.conn
    BY <1>4, <1>5, QueueServed
<1>. QED
    BY <1>6 DEF k2

LEMMA TakeDoneServed ==
    ASSUME NEW k, NEW s \in Seq(Message), NEW vals, NEW g, Steady(k, s, vals, g),
           k.main # <<>>, Head(k.main).kind = "done"
    PROVE  /\ Steady(TakeDone(k), s, vals, g) /\ TakeDone(k).conn = k.conn
           /\ Head(k.main) \in Event
           /\ <<Head(k.main).tag, Head(k.main).ok>> \in g.done
<1>1. k \in ClientState /\ Kept(k, vals, g)
    BY DEF Steady
<1>2. /\ TakeDone(k) \in ClientState /\ Kept(TakeDone(k), vals, g)
      /\ Head(k.main) \in Event
      /\ <<Head(k.main).tag, Head(k.main).ok>> \in g.done
    BY <1>1, TakeDoneType, TakeDoneKept
<1>. DEFINE k2 == TakeDone(k)
<1>3. /\ k2.conn = k.conn /\ k2.writes = k.writes /\ k2.held = k.held
      /\ k2.next = k.next /\ k2.out = k.out
    BY <1>1 DEF TakeDone, ClientState
<1>4. k2 \in ClientState /\ Kept(k2, vals, g)
    BY <1>2
<1>. HIDE DEF k2
<1>5. Steady(k2, s, vals, g)
    BY <1>3, <1>4, QueueServed
<1>. QED
    BY <1>2, <1>3, <1>5 DEF k2

LEMMA TakeValueServed ==
    ASSUME NEW k, NEW s \in Seq(Message), NEW vals, NEW g, Steady(k, s, vals, g),
           NEW r \in Ready(k)
    PROVE  /\ Steady(TakeValue(k, r), s, vals, g)
           /\ TakeValue(k, r).conn = k.conn
<1>. DEFINE k2 == TakeValue(k, r)
<1>1. k \in ClientState /\ Kept(k, vals, g)
    BY DEF Steady
<1>2. k2 \in ClientState /\ Kept(k2, vals, g)
    BY <1>1, TakeValueType, TakeValueKept
<1>3. /\ k2.conn = k.conn /\ k2.writes = k.writes /\ k2.held = k.held
      /\ k2.next = k.next /\ k2.out = k.out
    BY <1>1 DEF TakeValue, ClientState
<1>. HIDE DEF k2
<1>4. Steady(k2, s, vals, g)
    BY <1>2, <1>3, QueueServed
<1>. QED
    BY <1>3, <1>4 DEF k2

\* The callback of r begins: what it is called with.
LEMMA BeginServed ==
    ASSUME NEW k, NEW s \in Seq(Message), NEW vals, NEW g, Steady(k, s, vals, g),
           NEW r \in Ready(k)
    PROVE  /\ Steady(Begin(k, r), s, vals, g)
           /\ Begin(k, r).conn = k.conn
           /\ r \in Reg /\ r \in g.regs
           /\ Head(k.main).view \in [Leaf -> Seen]
           /\ \A l \in r.path : Head(k.main).view[l] \in vals[l] /\ l \in Leaf
           /\ \A l \in r.path : Head(k.main).view[l] \in Value
<1>. DEFINE k1 == TakeValue(k, r)
            k2 == Relisten(k1, k1.regs \ {r})
<1>1. k \in ClientState /\ Kept(k, vals, g)
    BY DEF Steady
<1>2. /\ r \in Reg /\ r \in g.regs
      /\ Head(k.main).view \in [Leaf -> Seen]
      /\ Displays(Head(k.main).view, vals)
      /\ Complete(Head(k.main).view, r.path)
    BY <1>1, TakeValueKept
<1>3. \A l \in r.path : /\ Head(k.main).view[l] \in vals[l] /\ l \in Leaf
                        /\ Head(k.main).view[l] \in Value
    <2>1. r.path \subseteq Leaf
        BY <1>2, PathAssumption DEF Reg
    <2>. QED
        BY <1>2, <2>1 DEF Displays, Complete, Seen
<1>4. Steady(k1, s, vals, g) /\ k1.conn = k.conn
    BY TakeValueServed
<1>5. Begin(k, r) = IF r.single THEN k2 ELSE k1
    BY DEF Begin, Unobserve
<1>. HIDE DEF k1
<1>6. k1 \in ClientState /\ Sound(k1, s) /\ Kept(k1, vals, g)
    BY <1>4 DEF Steady
<1>7. k1.regs \ {r} \in SUBSET Reg /\ k1.regs \ {r} \subseteq g.regs
    BY <1>6 DEF ClientState, Kept
<1>8. /\ k2 \in ClientState /\ Kept(k2, vals, g)
      /\ k2.conn = k1.conn /\ k2.writes = k1.writes /\ k2.held = k1.held
      /\ k2.next = Fresh(k1) + 2
      /\ ~k1.conn => k2.out = k1.out
      /\ k1.out \subseteq k2.out
      /\ \A q \in k2.out \ k1.out : q.kind # "put"
    BY <1>6, <1>7, RelistenType, RelistenFields, RelistenKept
<1>. HIDE DEF k2
<1>9. \A w \in k1.writes : w.id < k2.next
    BY <1>6, <1>8, FreshAbove
<1>10. Sound(k2, s)
    BY <1>6, <1>8, <1>9, CalmStep
<1>. QED
    BY <1>2, <1>3, <1>4, <1>5, <1>8, <1>10 DEF Steady


\* A client that is gone, with all that it kept in memory.
Gone == [ClientInit EXCEPT !.conn = FALSE]

\* It holds nothing, whatever it may hold from then on.
LEMMA GoneKept ==
    ASSUME Inv, NEW vals, NEW G, Holding(vals, G), NEW c \in Client,
           client' = [client EXCEPT ![c] = Gone], sub' = [sub EXCEPT ![c] = {}],
           in' = [in EXCEPT ![c] = <<>>], UNCHANGED <<data, drops>>,
           NEW G2, \A d \in Client \ {c} : G2[d] = G[d]
    PROVE  Inv' /\ Holding(vals, G2)'
<1>1. ClientInit \in ClientState
    <2>1. [l \in Leaf |-> Unknown] \in [Leaf -> Seen] /\ <<>> \in Seq(Event)
        BY DEF Seen
    <2>. QED
        BY <2>1 DEF ClientInit, ClientState
<1>2. Gone \in ClientState
    BY <1>1 DEF Gone, ClientState
<1>3. /\ ~Gone.conn /\ Gone.writes = {} /\ Gone.out = {} /\ Gone.held = {}
      /\ Gone.regs = {} /\ Gone.main = <<>> /\ Gone.cache = [l \in Leaf |-> Unknown]
    BY DEF Gone, ClientInit
<1>. DEFINE k == Gone
<1>. HIDE DEF k
<1>4. Sound(k, <<>>)
    <2>1. Once(<<>>) /\ AckIds(<<>>) = {}
        BY DEF Once, AckIds, AcksIn
    <2>2. PutIds(k) = {} /\ HeldIds(k) = {} /\ PendingIds(k) = {}
        BY <1>3 DEF PutIds, HeldIds, PendingIds, k
    <2>3. Accounted(k, <<>>)
        BY <1>3, <2>1, <2>2 DEF Accounted, k
    <2>4. Numbered(k, <<>>)
        BY <1>3 DEF Numbered, k
    <2>. QED
        BY <2>3, <2>4 DEF Sound
<1>5. k \in ClientState /\ ~k.conn /\ client' = [client EXCEPT ![c] = k]
    BY <1>2, <1>3 DEF k
<1>6. Inv'
    <2>1. drops' \in Nat /\ <<>> \in Seq(Message) /\ {} \in SUBSET Path
        BY DEF Inv, TypeOK
    <2>. QED
        BY <1>4, <1>5, <2>1, OneClient
<1>7. Kept(k, vals, G2[c]) /\ Brings(<<>>, vals)
    BY <1>3 DEF Kept, Displays, Brings, k
<1>8. ASSUME NEW d \in Client
      PROVE  Kept(client'[d], vals, G2[d]) /\ Brings(in'[d], vals)
    <2>1. CASE d = c
        BY <1>5, <1>7, <2>1 DEF Inv, TypeOK
    <2>2. CASE d # c
        BY <1>5, <2>2 DEF Inv, TypeOK, Holding
    <2>. QED
        BY <2>1, <2>2
<1>. QED
    BY <1>6, <1>8 DEF Holding
-----------------------------------------------------------------------------
(* A program that does not write. H has the registrations that it keeps    *)
(* for good: each of them is called once, when there is all of its path.   *)

\* The blocks of the main queue that call r, and whether a completion is among them.
Calls(k, r) == {i \in DOMAIN k.main : k.main[i].kind = "value" /\ r \in k.main[i].todo}

Awaits(k, tag) == \E i \in DOMAIN k.main : k.main[i].kind = "done" /\ k.main[i].tag = tag

\* The cache has all that r observes.
Known(k, r) == Complete(k.cache, r.path)

\* r has a call to come.
Due(k, r) == (r \in k.regs /\ ~Known(k, r)) \/ Calls(k, r) # {}

\* Nothing is written, and who is about to be called is called once.
Prompt(k, H) ==
    /\ k.writes = {}
    /\ \A r \in H : Calls(k, r) # {} => r \in k.regs /\ Known(k, r)
    /\ \A r \in H : \A i, j \in Calls(k, r) : i = j

\* What a client knows of what is observed for good, it never forgets.
Remembers(k, k2) ==
    \A r \in k.regs : ~r.single => r \in k2.regs /\ (Known(k, r) => Known(k2, r))

\* No call becomes due that was not.
Settles(k, k2, H) ==
    /\ Prompt(k2, H)
    /\ \A r \in H : Due(k2, r) => Due(k, r)
    /\ k2.regs \cap H = k.regs \cap H
    /\ \A r \in H \cap k.regs : Known(k, r) => Known(k2, r)
    /\ \A tag : Awaits(k2, tag) => Awaits(k, tag)

\* Every leaf has one value.
Plain(vals) == \A l \in Leaf : \A x, y \in vals[l] : x = y

LEMMA SettlesSame ==
    ASSUME NEW k, NEW k2, NEW H, Prompt(k, H), k2.writes = k.writes,
           k2.cache = k.cache, k2.regs = k.regs, k2.main = k.main
    PROVE  Settles(k, k2, H)
<1>1. \A r : Calls(k2, r) = Calls(k, r) /\ Known(k2, r) = Known(k, r)
    BY DEF Calls, Known
<1>2. \A tag : Awaits(k2, tag) => Awaits(k, tag)
    BY DEF Awaits
<1>3. Prompt(k2, H)
    BY <1>1 DEF Prompt
<1>. QED
    BY <1>1, <1>2, <1>3 DEF Settles, Due

LEMMA SettlesThen ==
    ASSUME NEW k, NEW k2, NEW k3, NEW H, Settles(k, k2, H), Settles(k2, k3, H)
    PROVE  Settles(k, k3, H)
    BY DEF Settles

\* Blocks leave the front of the queue.
LEMMA SettlesFewer ==
    ASSUME NEW k \in ClientState, NEW k2 \in ClientState, NEW H, Prompt(k, H),
           k2.writes = k.writes, k2.cache = k.cache, k2.regs = k.regs,
           NEW n \in Nat,
           \A r \in H : \A i \in Calls(k2, r) : i + n \in Calls(k, r),
           \A tag : Awaits(k2, tag) => Awaits(k, tag)
    PROVE  Settles(k, k2, H)
<1>1. \A r : Known(k2, r) = Known(k, r)
    BY DEF Known
<1>2. \A r \in H : Calls(k2, r) # {} => Calls(k, r) # {}
    OBVIOUS
<1>3. \A r \in H : \A i, j \in Calls(k2, r) : i = j
    <2>. SUFFICES ASSUME NEW r \in H, NEW i \in Calls(k2, r), NEW j \in Calls(k2, r)
                  PROVE  i = j
        OBVIOUS
    <2>1. i + n = j + n
        BY DEF Prompt
    <2>2. i \in Nat /\ j \in Nat
        BY DEF Calls, ClientState
    <2>. QED
        BY <2>1, <2>2
<1>4. Prompt(k2, H)
    BY <1>1, <1>2, <1>3 DEF Prompt
<1>. QED
    BY <1>1, <1>2, <1>4 DEF Settles, Due

\* A block goes behind the others.
LEMMA CallsAppend ==
    ASSUME NEW k \in ClientState, NEW k2, NEW e, k2.main = Append(k.main, e)
    PROVE  /\ \A r : Calls(k2, r) = Calls(k, r) \cup
                        (IF e.kind = "value" /\ r \in e.todo THEN {Len(k.main) + 1} ELSE {})
           /\ \A tag : Awaits(k2, tag) <=> Awaits(k, tag) \/ (e.kind = "done" /\ e.tag = tag)
<1>1. k.main \in Seq(Event)
    BY DEF ClientState
<1>2. /\ DOMAIN k2.main = DOMAIN k.main \cup {Len(k.main) + 1}
      /\ Len(k.main) + 1 \notin DOMAIN k.main
      /\ k2.main[Len(k.main) + 1] = e
      /\ \A i \in DOMAIN k.main : k2.main[i] = k.main[i]
    BY <1>1
<1>3. ASSUME NEW r
      PROVE  Calls(k2, r) = Calls(k, r) \cup
                (IF e.kind = "value" /\ r \in e.todo THEN {Len(k.main) + 1} ELSE {})
    BY <1>2 DEF Calls
<1>4. ASSUME NEW tag
      PROVE  Awaits(k2, tag) <=> Awaits(k, tag) \/ (e.kind = "done" /\ e.tag = tag)
    BY <1>2 DEF Awaits
<1>. QED
    BY <1>3, <1>4

LEMMA RaiseCalls ==
    ASSUME NEW k \in ClientState, NEW todo
    PROVE  /\ \A r : Calls(Raise(k, todo), r) = Calls(k, r) \cup
                        (IF r \in todo THEN {Len(k.main) + 1} ELSE {})
           /\ \A tag : Awaits(Raise(k, todo), tag) <=> Awaits(k, tag)
<1>1. CASE todo = {}
    BY <1>1 DEF Raise
<1>2. CASE todo # {}
    <2>. DEFINE view == [l \in Leaf |-> IF \E r \in todo : l \in r.path
                                        THEN Sees(k)[l] ELSE Unknown]
                e == [kind |-> "value", todo |-> todo, view |-> view]
    <2>1. Raise(k, todo) = [k EXCEPT !.main = Append(@, e)]
        BY <1>2 DEF Raise
    <2>2. e.kind = "value" /\ e.todo = todo
        OBVIOUS
    <2>. HIDE DEF e
    <2>3. Raise(k, todo).main = Append(k.main, e)
        BY <2>1 DEF ClientState
    <2>4. /\ \A r : Calls(Raise(k, todo), r) = Calls(k, r) \cup
                        (IF e.kind = "value" /\ r \in e.todo THEN {Len(k.main) + 1} ELSE {})
          /\ \A tag : Awaits(Raise(k, todo), tag) <=>
                        Awaits(k, tag) \/ (e.kind = "done" /\ e.tag = tag)
        BY <2>3, CallsAppend
    <2>. QED
        BY <2>2, <2>4
<1>. QED
    BY <1>1, <1>2

\* With nothing pending, the cache is what is seen.
LEMMA SeesCache ==
    ASSUME NEW k \in ClientState, k.writes = {}
    PROVE  Sees(k) = k.cache
<1>1. \A l \in Leaf : Top(k.writes, l) = {}
    BY DEF Top
<1>2. k.cache \in [Leaf -> Seen]
    BY DEF ClientState
<1>. QED
    BY <1>1, <1>2 DEF Sees, View

\* Data of the server comes.
LEMMA MergeSettles ==
    ASSUME NEW k \in ClientState, NEW vals, NEW g, Kept(k, vals, g), Plain(vals),
           NEW put \in Put, Carries(put, vals), NEW H \in SUBSET Reg, Prompt(k, H)
    PROVE  Settles(k, Merge(k, put), H)
<1>. DEFINE cache == [l \in Leaf |-> IF l \in Merged(k, put) THEN put[l] ELSE k.cache[l]]
            k2 == [k EXCEPT !.cache = cache]
            todo == Changed(k, k2)
            k3 == Raise(k2, todo)
<1>1. PICK S \in SUBSET Leaf : put \in [S -> Value]
    BY DEF Put
<1>2. cache \in [Leaf -> Seen]
    BY <1>1 DEF Merged, ClientState, Seen
<1>3. Merge(k, put) = k3
    BY DEF Merge
<1>4. \A l \in Leaf : cache[l] = k.cache[l] \/ (k.cache[l] = Unknown /\ cache[l] # Unknown)
    <2>. SUFFICES ASSUME NEW l \in Leaf, l \in Merged(k, put)
                  PROVE  cache[l] = k.cache[l] \/ (k.cache[l] = Unknown /\ cache[l] # Unknown)
        OBVIOUS
    <2>1. l \in DOMAIN put /\ cache[l] = put[l] /\ put[l] \in Value
        BY <1>1 DEF Merged
    <2>2. put[l] \in vals[l] /\ k.cache[l] \in vals[l] \cup {Unknown}
        BY <2>1 DEF Carries, Kept, Displays
    <2>3. put[l] # Unknown
        BY <2>1, ValueAssumption
    <2>. QED
        BY <2>1, <2>2, <2>3 DEF Plain
<1>. HIDE DEF cache
<1>5. /\ k2 \in ClientState /\ k2.cache = cache /\ k2.writes = k.writes
      /\ k2.regs = k.regs /\ k2.main = k.main
    BY <1>2 DEF ClientState
<1>. HIDE DEF k2
<1>6. k.writes = {} /\ Sees(k) = k.cache /\ Sees(k2) = k2.cache
    BY <1>5, SeesCache DEF Prompt
<1>7. \A r : Calls(k2, r) = Calls(k, r) /\ \A tag : Awaits(k2, tag) <=> Awaits(k, tag)
    BY <1>5 DEF Calls, Awaits
<1>8. \A r \in todo : r \in k.regs /\ Known(k2, r) /\ (r \in Reg => ~Known(k, r))
    <2>. SUFFICES ASSUME NEW r \in todo
                  PROVE  r \in k.regs /\ Known(k2, r) /\ (r \in Reg => ~Known(k, r))
        OBVIOUS
    <2>1. /\ r \in k2.regs /\ Complete(k2.cache, r.path)
          /\ \E l \in r.path : k.cache[l] # k2.cache[l]
        BY <1>6 DEF Changed
    <2>2. ASSUME r \in Reg PROVE ~Known(k, r)
        <3>1. r.path \subseteq Leaf
            BY <2>2, PathAssumption DEF Reg
        <3>. QED
            BY <1>4, <1>5, <2>1, <3>1 DEF Known, Complete
    <2>. QED
        BY <1>5, <2>1, <2>2 DEF Known
<1>9. \A r \in H : Known(k, r) => Known(k2, r)
    <2>1. \A r \in H : r.path \subseteq Leaf
        BY PathAssumption DEF Reg
    <2>. QED
        BY <1>4, <1>5, <2>1 DEF Known, Complete
<1>. HIDE DEF todo
<1>10. /\ k3.cache = k2.cache /\ k3.writes = k2.writes /\ k3.regs = k2.regs
       /\ \A r : Calls(k3, r) = Calls(k2, r) \cup
                    (IF r \in todo THEN {Len(k2.main) + 1} ELSE {})
       /\ \A tag : Awaits(k3, tag) <=> Awaits(k2, tag)
    BY <1>5, RaiseFields, RaiseCalls
<1>. HIDE DEF k3
<1>11. \A r : Known(k3, r) <=> Known(k2, r)
    BY <1>10 DEF Known
<1>12. \A r \in H : r \in todo => Calls(k, r) = {} /\ Due(k, r)
    BY <1>8 DEF Prompt, Due
<1>13. Prompt(k3, H)
    <2>1. \A r \in H : Calls(k3, r) # {} => r \in k3.regs /\ Known(k3, r)
        BY <1>5, <1>7, <1>8, <1>9, <1>10, <1>11 DEF Prompt
    <2>2. \A r \in H : \A i, j \in Calls(k3, r) : i = j
        BY <1>7, <1>10, <1>12 DEF Prompt
    <2>. QED
        BY <1>5, <1>6, <1>10, <2>1, <2>2 DEF Prompt
<1>14. \A r \in H : Due(k3, r) => Due(k, r)
    <2>. SUFFICES ASSUME NEW r \in H, Due(k3, r), r \notin todo
                  PROVE  Due(k, r)
        BY <1>12
    <2>. QED
        BY <1>5, <1>7, <1>9, <1>10, <1>11 DEF Due
<1>. QED
    BY <1>3, <1>5, <1>7, <1>9, <1>10, <1>11, <1>13, <1>14 DEF Settles

\* Registrations are replaced, and none of those of H is added or dropped.
LEMMA RelistenSettles ==
    ASSUME NEW k \in ClientState, NEW H \in SUBSET Reg, Prompt(k, H),
           NEW regs \in SUBSET Reg, regs \cap H = k.regs \cap H
    PROVE  Settles(k, Relisten(k, regs), H)
<1>. DEFINE k2 == Relisten(k, regs)
<1>1. /\ k2.writes = k.writes /\ k2.regs = regs /\ k2.main = k.main
      /\ k2.cache = [l \in Leaf |-> IF l \in Covered(regs) THEN k.cache[l] ELSE Unknown]
    BY DEF Relisten, ClientState
<1>. HIDE DEF k2
<1>2. \A r \in H : r \in regs => Known(k2, r) = Known(k, r)
    <2>1. \A r \in H : r \in regs => r.path \subseteq Leaf /\ r.path \subseteq Covered(regs)
        BY PathAssumption DEF Reg, Covered
    <2>. QED
        BY <1>1, <2>1 DEF Known, Complete
<1>3. \A r : Calls(k2, r) = Calls(k, r) /\ \A tag : Awaits(k2, tag) <=> Awaits(k, tag)
    BY <1>1 DEF Calls, Awaits
<1>4. Prompt(k2, H)
    BY <1>1, <1>2, <1>3 DEF Prompt
<1>5. \A r \in H : Due(k2, r) => Due(k, r)
    BY <1>1, <1>2, <1>3 DEF Due
<1>. QED
    BY <1>1, <1>2, <1>3, <1>4, <1>5 DEF Settles, k2

\* r is registered, and no other call becomes due.
Adds(k, k2, r, H) ==
    /\ Prompt(k2, H)
    /\ \A q \in H : q # r => (Due(k2, q) => Due(k, q))
    /\ k2.regs = k.regs \cup {r}
    /\ \A q \in H \cap k.regs : Known(k, q) => Known(k2, q)
    /\ \A tag : Awaits(k2, tag) => Awaits(k, tag)

\* No registration of H is made alike.
Vacant(k, H, single, tag) == \A q \in k.regs \cap H : q.tag = tag => q.single # single

LEMMA ObserveAdds ==
    ASSUME NEW k \in ClientState, NEW H \in SUBSET Reg, Prompt(k, H),
           NEW path \in Path, NEW single \in BOOLEAN, NEW tag \in Tag,
           Vacant(k, H, single, tag)
    PROVE  \E r \in Reg : /\ r.path = path /\ r.single = single /\ r.tag = tag
                          /\ Adds(k, Observe(k, path, single, tag), r, H)
<1>. DEFINE r == [id |-> Fresh(k), path |-> path, single |-> single, tag |-> tag]
            regs == k.regs \cup {r}
            k2 == Relisten(k, regs)
            todo == IF Complete(Sees(k2), path) THEN {r} ELSE {}
            k3 == Raise(k2, todo)
<1>1. r \in Reg /\ r.path = path /\ r.single = single /\ r.tag = tag
    BY FreshType DEF Reg
<1>2. Observe(k, path, single, tag) = k3
    BY DEF Observe
<1>. HIDE DEF r
<1>3. regs \in SUBSET Reg
    BY <1>1 DEF ClientState
<1>4. r \in H => r \notin k.regs /\ Calls(k, r) = {}
    BY <1>1 DEF Prompt, Vacant
<1>5. /\ k2.writes = k.writes /\ k2.regs = regs /\ k2.main = k.main
      /\ k2.cache = [l \in Leaf |-> IF l \in Covered(regs) THEN k.cache[l] ELSE Unknown]
    BY DEF Relisten, ClientState
<1>6. k2 \in ClientState
    BY <1>3, RelistenType
<1>. HIDE DEF k2
<1>7. k.writes = {} /\ Sees(k2) = k2.cache
    BY <1>5, <1>6, SeesCache DEF Prompt
<1>8. todo \in SUBSET {r} /\ (r \in todo => Known(k2, r))
    BY <1>1, <1>7 DEF Known
<1>. HIDE DEF todo
<1>9. /\ k3.cache = k2.cache /\ k3.writes = k2.writes /\ k3.regs = k2.regs
      /\ \A q : Calls(k3, q) = Calls(k2, q) \cup
                    (IF q \in todo THEN {Len(k2.main) + 1} ELSE {})
      /\ \A t : Awaits(k3, t) <=> Awaits(k2, t)
    BY <1>6, RaiseFields, RaiseCalls
<1>. HIDE DEF k3
<1>10. \A q : Calls(k2, q) = Calls(k, q) /\ \A t : Awaits(k2, t) <=> Awaits(k, t)
    BY <1>5 DEF Calls, Awaits
<1>11. \A q \in H : q \in k.regs => Known(k3, q) = Known(k, q)
    <2>1. \A q \in H : q \in k.regs => q.path \subseteq Leaf /\ q.path \subseteq Covered(regs)
        BY PathAssumption DEF Reg, Covered
    <2>. QED
        BY <1>5, <1>9, <2>1 DEF Known, Complete
<1>12. \A q \in H : q # r => Calls(k3, q) = Calls(k, q)
    BY <1>8, <1>9, <1>10
<1>13. r \in H => Calls(k3, r) = (IF r \in todo THEN {Len(k2.main) + 1} ELSE {})
    BY <1>4, <1>9, <1>10
<1>14. r \in todo => Known(k3, r)
    BY <1>8, <1>9 DEF Known
<1>15. k3.regs = k.regs \cup {r}
    BY <1>5, <1>9
<1>16. Prompt(k3, H)
    <2>1. \A q \in H : Calls(k3, q) # {} => q \in k3.regs /\ Known(k3, q)
        BY <1>11, <1>12, <1>13, <1>14, <1>15 DEF Prompt
    <2>2. \A q \in H : \A i, j \in Calls(k3, q) : i = j
        <3>1. \A q \in H : q # r => \A i, j \in Calls(k3, q) : i = j
            BY <1>12 DEF Prompt
        <3>2. r \in H => \A i, j \in Calls(k3, r) : i = j
            BY <1>13
        <3>. QED
            BY <3>1, <3>2
    <2>. QED
        BY <1>5, <1>7, <1>9, <2>1, <2>2 DEF Prompt
<1>17. \A q \in H : q # r => (Due(k3, q) => Due(k, q))
    BY <1>11, <1>12, <1>15 DEF Due
<1>18. \A t : Awaits(k3, t) => Awaits(k, t)
    BY <1>9, <1>10
<1>19. Adds(k, k3, r, H)
    BY <1>11, <1>15, <1>16, <1>17, <1>18 DEF Adds
<1>. QED
    BY <1>1, <1>2, <1>19

\* The callback of r leaves the queue: when it is one that is kept, it has had its call.
LEMMA TakeValueSettles ==
    ASSUME NEW k \in ClientState, NEW H \in SUBSET Reg, Prompt(k, H), NEW r \in Ready(k)
    PROVE  /\ Settles(k, TakeValue(k, r), H)
           /\ r \in H => /\ r \in k.regs /\ Known(k, r) /\ Due(k, r)
                         /\ ~Due(TakeValue(k, r), r)
<1>1. k.main \in Seq(Event) /\ k.main # <<>> /\ k.main[1].kind = "value"
    BY DEF Ready, ClientState
<1>2. 1 \in DOMAIN k.main /\ k.main[1] \in Event /\ Head(k.main) = k.main[1]
    BY <1>1
<1>3. k.main[1] \in [kind : {"value"}, todo : SUBSET Reg, view : [Leaf -> Seen]]
    BY <1>1, <1>2 DEF Event
<1>4. r \in k.main[1].todo
    BY <1>1, <1>2 DEF Ready
<1>. DEFINE e == Without(k.main[1], r)
            main == [k.main EXCEPT ![1] = e]
            rest == Tail(k.main)
            k2 == TakeValue(k, r)
<1>5. /\ e.kind = "value" /\ e.todo = k.main[1].todo \ {r}
    BY <1>3 DEF Without
<1>6. k2 = [k EXCEPT !.main = IF k.main[1].todo = {r} THEN rest ELSE main]
    BY <1>2 DEF TakeValue
<1>. HIDE DEF e
<1>7. /\ DOMAIN main = DOMAIN k.main /\ main[1] = e
      /\ \A i \in DOMAIN k.main : i # 1 => main[i] = k.main[i]
    BY <1>1, <1>2
<1>8. \A i \in DOMAIN rest : /\ i \in Nat /\ i + 1 # 1 /\ i + 1 \in DOMAIN k.main
                             /\ rest[i] = k.main[i + 1]
    BY <1>1
<1>. HIDE DEF main, rest
<1>9. /\ k2.cache = k.cache /\ k2.writes = k.writes /\ k2.regs = k.regs
      /\ (k.main[1].todo = {r} /\ k2.main = rest) \/ k2.main = main
    BY <1>6 DEF ClientState
<1>10. k2 \in ClientState
    BY TakeValueType
<1>. HIDE DEF k2
<1>11. \E n \in {0, 1} : \A q : \A i \in Calls(k2, q) :
            i + n \in Calls(k, q) /\ (q = r => i + n # 1)
    <2>1. CASE k.main[1].todo = {r} /\ k2.main = rest
        <3>1. \A q : \A i \in Calls(k2, q) : i + 1 \in Calls(k, q) /\ i + 1 # 1
            BY <1>8, <2>1 DEF Calls
        <3>. QED
            BY <3>1
    <2>2. CASE k2.main = main
        <3>1. \A i \in DOMAIN k.main : i + 0 = i
            BY <1>1
        <3>2. \A q : \A i \in Calls(k2, q) : i \in Calls(k, q) /\ (q = r => i # 1)
            BY <1>1, <1>5, <1>7, <2>2 DEF Calls
        <3>3. \A q : \A i \in Calls(k, q) : i + 0 = i
            BY <3>1 DEF Calls
        <3>. QED
            BY <3>2, <3>3
    <2>. QED
        BY <1>9, <2>1, <2>2
<1>12. PICK n \in {0, 1} : \A q : \A i \in Calls(k2, q) :
            i + n \in Calls(k, q) /\ (q = r => i + n # 1)
    BY <1>11
<1>13. \A tag : Awaits(k2, tag) => Awaits(k, tag)
    <2>1. CASE k2.main = rest
        BY <1>8, <2>1 DEF Awaits
    <2>2. CASE k2.main = main
        BY <1>5, <1>7, <2>2 DEF Awaits
    <2>. QED
        BY <1>9, <2>1, <2>2
<1>14. Settles(k, k2, H)
    <2>1. n \in Nat /\ \A q \in H : \A i \in Calls(k2, q) : i + n \in Calls(k, q)
        BY <1>12
    <2>. QED
        BY <1>9, <1>10, <1>13, <2>1, SettlesFewer
<1>15. ASSUME r \in H
       PROVE  /\ r \in k.regs /\ Known(k, r) /\ Due(k, r) /\ ~Due(k2, r)
    <2>1. 1 \in Calls(k, r)
        BY <1>1, <1>2, <1>4 DEF Calls
    <2>2. r \in k.regs /\ Known(k, r) /\ Due(k, r)
        BY <1>15, <2>1 DEF Prompt, Due
    <2>3. Calls(k2, r) = {}
        BY <1>12, <1>15, <2>1 DEF Prompt
    <2>4. Known(k2, r)
        BY <1>9, <2>2 DEF Known
    <2>. QED
        BY <2>2, <2>3, <2>4 DEF Due
<1>. QED
    BY <1>14, <1>15 DEF k2

LEMMA BeginSettles ==
    ASSUME NEW k \in ClientState, NEW H \in SUBSET Reg, Prompt(k, H), NEW r \in Ready(k),
           r \in H => ~r.single
    PROVE  /\ Settles(k, Begin(k, r), H)
           /\ r \in H => /\ r \in k.regs /\ Known(k, r) /\ Due(k, r)
                         /\ ~Due(Begin(k, r), r)
<1>. DEFINE k2 == TakeValue(k, r)
<1>1. /\ k2 \in ClientState /\ Settles(k, k2, H)
      /\ r \in H => r \in k.regs /\ Known(k, r) /\ Due(k, r) /\ ~Due(k2, r)
    BY TakeValueType, TakeValueSettles
<1>2. Begin(k, r) = IF r.single THEN Relisten(k2, k2.regs \ {r}) ELSE k2
    BY DEF Begin, Unobserve
<1>. HIDE DEF k2
<1>3. CASE ~r.single
    BY <1>1, <1>2, <1>3
<1>4. CASE r.single
    <2>1. k2.regs \ {r} \in SUBSET Reg /\ (k2.regs \ {r}) \cap H = k2.regs \cap H
        BY <1>1, <1>4 DEF ClientState
    <2>2. Prompt(k2, H)
        BY <1>1 DEF Settles
    <2>3. Settles(k2, Begin(k, r), H)
        BY <1>1, <1>2, <1>4, <2>1, <2>2, RelistenSettles
    <2>. QED
        BY <1>1, <1>4, <2>3, SettlesThen
<1>. QED
    BY <1>3, <1>4

LEMMA TakeDoneSettles ==
    ASSUME NEW k \in ClientState, NEW H \in SUBSET Reg, Prompt(k, H), k.main # <<>>
    PROVE  Settles(k, TakeDone(k), H)
<1>. DEFINE rest == Tail(k.main)
            k2 == TakeDone(k)
<1>1. \A i \in DOMAIN rest : i \in Nat /\ i + 1 \in DOMAIN k.main /\ rest[i] = k.main[i + 1]
    BY DEF ClientState
<1>. HIDE DEF rest
<1>2. /\ k2.cache = k.cache /\ k2.writes = k.writes /\ k2.regs = k.regs /\ k2.main = rest
    BY DEF TakeDone, ClientState, rest
<1>3. k2 \in ClientState
    BY TakeDoneType
<1>. HIDE DEF k2
<1>4. \A q \in H : \A i \in Calls(k2, q) : i + 1 \in Calls(k, q)
    BY <1>1, <1>2 DEF Calls
<1>5. \A tag : Awaits(k2, tag) => Awaits(k, tag)
    BY <1>1, <1>2 DEF Awaits
<1>6. Settles(k, k2, H)
    BY <1>2, <1>3, <1>4, <1>5, 1 \in Nat, SettlesFewer
<1>. QED
    BY <1>6 DEF k2

\* The program dispatches a block.
Follows(k, k2, H, tag) ==
    /\ Prompt(k2, H)
    /\ \A r \in H : Due(k2, r) => Due(k, r)
    /\ k2.regs = k.regs /\ k2.cache = k.cache
    /\ \A t : Awaits(k2, t) => Awaits(k, t) \/ t = tag

LEMMA BlockFollows ==
    ASSUME NEW k \in ClientState, NEW H \in SUBSET Reg, Prompt(k, H), NEW tag
    PROVE  Follows(k, Block(k, tag), H, tag)
<1>. DEFINE e == [kind |-> "done", tag |-> tag, ok |-> TRUE]
            k2 == Block(k, tag)
<1>1. /\ k2.main = Append(k.main, e) /\ k2.cache = k.cache /\ k2.writes = k.writes
      /\ k2.regs = k.regs
    BY DEF Block, ClientState
<1>2. e.kind = "done" /\ e.tag = tag
    OBVIOUS
<1>. HIDE DEF e
<1>3. /\ \A r : Calls(k2, r) = Calls(k, r) \cup
                    (IF e.kind = "value" /\ r \in e.todo THEN {Len(k.main) + 1} ELSE {})
      /\ \A t : Awaits(k2, t) <=> Awaits(k, t) \/ (e.kind = "done" /\ e.tag = t)
    BY <1>1, CallsAppend
<1>. HIDE DEF k2
<1>4. \A r : Calls(k2, r) = Calls(k, r) /\ Known(k2, r) = Known(k, r)
    BY <1>1, <1>2, <1>3 DEF Known
<1>5. Prompt(k2, H)
    BY <1>1, <1>4 DEF Prompt
<1>6. \A r \in H : Due(k2, r) => Due(k, r)
    BY <1>1, <1>4 DEF Due
<1>7. Follows(k, k2, H, tag)
    BY <1>1, <1>2, <1>3, <1>5, <1>6 DEF Follows
<1>. QED
    BY <1>7 DEF k2

\* The parts of a client that its program sees.
SameParts(k, k2) ==
    /\ k2.cache = k.cache /\ k2.writes = k.writes
    /\ k2.regs = k.regs /\ k2.main = k.main /\ k2.next = k.next

\* The answer ack is held back, or comes next.
Answers(k, s, ack) == \E n \in Nat : AnswerAt(k, s, n, ack)

\* What the network does to a client: nothing of that, or it brings data, or an answer.
Comes(k, s, k2) ==
    \/ SameParts(k, k2)
    \/ s # <<>> /\ Head(s).kind # "ack" /\ SameParts(Merge(k, Head(s).put), k2)
    \/ \E ack \in Ack : /\ ack.id \in PendingIds(k) /\ Answers(k, s, ack)
                        /\ SameParts(Answer(k, ack), k2)

LEMMA NetworkComes ==
    ASSUME Inv, NEW c \in Client, Network(c) \/ Disconnect(c)
    PROVE  /\ Comes(client[c], in[c], client'[c])
           /\ \A d \in Client : d # c => client'[d] = client[d]
<1>. DEFINE k == client[c]
            s == in[c]
<1>1. k \in ClientState /\ s \in Seq(Message) /\ Sound(k, s)
    BY Local
<1>0. client \in [Client -> ClientState]
    BY DEF Inv, TypeOK
<1>. SUFFICES \E k2 : client' = [client EXCEPT ![c] = k2] /\ Comes(k, s, k2)
    BY <1>0
<1>2. CASE ServeListen(c) \/ ServeUnlisten(c) \/ ServePut(c) \/ RejectPut(c)
    <2>1. PICK q : client' = Served(c, q)
        BY <1>2 DEF ServeListen, ServeUnlisten, ServePut, RejectPut
    <2>. DEFINE out == k.out \ {q}
                k2 == [k EXCEPT !.out = out]
    <2>2. client' = [client EXCEPT ![c] = k2]
        BY <2>1 DEF Served
    <2>. HIDE DEF out
    <2>3. SameParts(k, k2)
        BY <1>1 DEF ClientState, SameParts
    <2>. HIDE DEF k2
    <2>. QED
        BY <2>2, <2>3 DEF Comes
<1>3. CASE ReceivePush(c)
    <2>1. /\ s # <<>> /\ Head(s).kind = "push"
          /\ client' = [client EXCEPT ![c] = Merge(k, Head(s).put)]
        BY <1>3 DEF ReceivePush, Arrived
    <2>2. SameParts(Merge(k, Head(s).put), Merge(k, Head(s).put))
        BY DEF SameParts
    <2>. QED
        BY <2>1, <2>2 DEF Comes
<1>4. CASE ReceiveListen(c)
    <2>. DEFINE m == Head(s)
                k1 == Merge(k, m.put)
                unacked == k1.unacked \ {m.to}
                flush == unacked = {} /\ k1.held # {}
                k2 == [k1 EXCEPT !.unacked = unacked, !.flush = flush]
    <2>1. s # <<>> /\ m.kind = "listen" /\ client' = [client EXCEPT ![c] = k2]
        BY <1>4 DEF ReceiveListen, Arrived
    <2>2. k1 \in ClientState
        <3>1. m \in Message
            BY <1>1, <2>1
        <3>2. m.put \in Put
            BY <2>1, <3>1 DEF Message
        <3>. QED
            BY <1>1, <3>2, MergeType
    <2>. HIDE DEF k1, unacked, flush
    <2>3. SameParts(k1, k2)
        BY <2>2 DEF ClientState, SameParts
    <2>. HIDE DEF k2
    <2>4. Comes(k, s, k2)
        BY <2>1, <2>3 DEF Comes, k1
    <2>. QED
        BY <2>1, <2>4
<1>5. CASE ReceiveAck(c)
    <2>. DEFINE ack == Head(s).ack
                held == k.held \cup {ack}
                k1 == [k EXCEPT !.held = held]
    <2>1. /\ s # <<>> /\ Head(s).kind = "ack"
          /\ client' = [client EXCEPT ![c] = IF Holds(k) THEN k1 ELSE Answer(k, ack)]
        BY <1>5 DEF ReceiveAck, Arrived
    <2>2. ack \in Ack /\ ack.id \in PendingIds(k)
        BY <1>1, <2>1, HeadAck
    <2>5. Answers(k, s, ack)
        <3>1. 1 \in DOMAIN s /\ 1 \in Nat /\ Head(s) = s[1]
            BY <1>1, <2>1
        <3>. QED
            BY <2>1, <3>1 DEF Answers, AnswerAt
    <2>. HIDE DEF ack, held
    <2>3. SameParts(k, k1)
        BY <1>1 DEF ClientState, SameParts
    <2>4. SameParts(Answer(k, ack), Answer(k, ack))
        BY DEF SameParts
    <2>. HIDE DEF k1
    <2>. QED
        BY <2>1, <2>2, <2>3, <2>4, <2>5 DEF Comes
<1>6. CASE AckPuts(c)
    <2>1. PICK a \in k.held : client' = [client EXCEPT ![c] = Acked(k, a)]
        BY <1>6 DEF AckPuts
    <2>2. a \in Ack /\ a.id \in PendingIds(k)
        BY <1>1 DEF ClientState, Sound, Accounted, HeldIds
    <2>7. Answers(k, s, a)
        BY 0 \in Nat DEF Answers, AnswerAt
    <2>. DEFINE k1 == Answer(k, a)
                held == k1.held \ {a}
                flush == k.held # {a}
                k2 == [k1 EXCEPT !.held = held, !.flush = flush]
    <2>3. k1 \in ClientState
        BY <1>1, <2>2, AnswerType
    <2>4. client' = [client EXCEPT ![c] = k2]
        BY <2>1 DEF Acked
    <2>. HIDE DEF k1, held, flush
    <2>5. SameParts(k1, k2)
        BY <2>3 DEF ClientState, SameParts
    <2>. HIDE DEF k2
    <2>6. Comes(k, s, k2)
        BY <2>2, <2>5, <2>7 DEF Comes, k1
    <2>. QED
        BY <2>4, <2>6
<1>7. CASE Reconnect(c)
    <2>. DEFINE out == RestoredListens(k) \cup RestoredPuts(k)
                listens == RestoredListens(k)
                k2 == [k EXCEPT !.conn = TRUE, !.out = out, !.unacked = listens]
    <2>1. client' = [client EXCEPT ![c] = k2]
        BY <1>7 DEF Reconnect
    <2>. HIDE DEF out, listens
    <2>2. SameParts(k, k2)
        BY <1>1 DEF ClientState, SameParts
    <2>. HIDE DEF k2
    <2>. QED
        BY <2>1, <2>2 DEF Comes
<1>8. CASE Disconnect(c)
    <2>1. client' = [client EXCEPT ![c] = CutOff(k)]
        BY <1>8 DEF Disconnect
    <2>2. SameParts(k, CutOff(k))
        BY <1>1 DEF CutOff, ClientState, SameParts
    <2>. QED
        BY <2>1, <2>2 DEF Comes
<1>. QED
    BY <1>2, <1>3, <1>4, <1>5, <1>6, <1>7, <1>8 DEF Network

\* The network makes no call due to a client that does not write.
LEMMA NetworkSettles ==
    ASSUME Inv, NEW vals, NEW G, Holding(vals, G), Plain(vals),
           NEW c \in Client, Network(c) \/ Disconnect(c),
           NEW H \in SUBSET Reg, NEW d \in Client, Prompt(client[d], H)
    PROVE  Settles(client[d], client'[d], H)
<1>0. PICK k, s, k2 : k = client[d] /\ s = in[d] /\ k2 = client'[d]
    OBVIOUS
<1>. SUFFICES Settles(k, k2, H)
    BY <1>0
<1>1. /\ k \in ClientState /\ s \in Seq(Message) /\ Kept(k, vals, G[d])
      /\ Brings(s, vals) /\ Prompt(k, H)
    BY <1>0, LocalKept
<1>2. SameParts(k, k2) \/ Comes(k, s, k2)
    BY <1>0, NetworkComes DEF SameParts
<1>3. CASE SameParts(k, k2)
    BY <1>1, <1>3, SettlesSame DEF SameParts
<1>4. CASE s # <<>> /\ Head(s).kind # "ack" /\ SameParts(Merge(k, Head(s).put), k2)
    <2>. DEFINE put == Head(s).put
                k1 == Merge(k, put)
    <2>1. put \in Put /\ Carries(put, vals)
        <3>1. Head(s) \in Message /\ Carries(put, vals)
            BY <1>1, <1>4, BringsTail
        <3>. QED
            BY <1>4, <3>1 DEF Message
    <2>. HIDE DEF put
    <2>2. Settles(k, k1, H)
        BY <1>1, <2>1, MergeSettles
    <2>3. Prompt(k1, H) /\ SameParts(k1, k2)
        BY <1>4, <2>2 DEF Settles, put
    <2>. HIDE DEF k1
    <2>4. Settles(k1, k2, H)
        BY <2>3, SettlesSame DEF SameParts
    <2>. QED
        BY <2>2, <2>4, SettlesThen
<1>5. CASE \E ack \in Ack : ack.id \in PendingIds(k) /\ SameParts(Answer(k, ack), k2)
    <2>1. PendingIds(k) = {}
        BY <1>1 DEF Prompt, PendingIds
    <2>. QED
        BY <1>5, <2>1
<1>. QED
    BY <1>2, <1>3, <1>4, <1>5 DEF Comes

-----------------------------------------------------------------------------
(* What is known of what is observed for good.                             *)

LEMMA RemembersSame ==
    ASSUME NEW k, NEW k2, k2.cache = k.cache, k2.regs = k.regs
    PROVE  Remembers(k, k2)
    BY DEF Remembers, Known

LEMMA RemembersThen ==
    ASSUME NEW k, NEW k2, NEW k3, Remembers(k, k2), Remembers(k2, k3)
    PROVE  Remembers(k, k3)
    BY DEF Remembers

LEMMA RelistenRemembers ==
    ASSUME NEW k \in ClientState, NEW regs \in SUBSET Reg,
           \A r \in k.regs : ~r.single => r \in regs
    PROVE  Remembers(k, Relisten(k, regs))
<1>. DEFINE k2 == Relisten(k, regs)
<1>1. /\ k2.regs = regs
      /\ k2.cache = [l \in Leaf |-> IF l \in Covered(regs) THEN k.cache[l] ELSE Unknown]
    BY DEF Relisten, ClientState
<1>. HIDE DEF k2
<1>2. \A r \in regs : r.path \subseteq Leaf /\ r.path \subseteq Covered(regs)
    BY PathAssumption DEF Reg, Covered
<1>3. \A r \in regs : Known(k2, r) = Known(k, r)
    BY <1>1, <1>2 DEF Known, Complete
<1>4. Remembers(k, k2)
    BY <1>1, <1>3 DEF Remembers
<1>. QED
    BY <1>4 DEF k2

LEMMA RaiseRemembers ==
    ASSUME NEW k \in ClientState, NEW todo
    PROVE  Remembers(k, Raise(k, todo))
    BY RaiseFields, RemembersSame

LEMMA ObserveRemembers ==
    ASSUME NEW k \in ClientState, NEW path \in Path, NEW single \in BOOLEAN,
           NEW tag \in Tag
    PROVE  Remembers(k, Observe(k, path, single, tag))
<1>. DEFINE r == [id |-> Fresh(k), path |-> path, single |-> single, tag |-> tag]
            regs == k.regs \cup {r}
            k2 == Relisten(k, regs)
            todo == IF Complete(Sees(k2), path) THEN {r} ELSE {}
<1>1. r \in Reg
    BY FreshType DEF Reg
<1>2. Observe(k, path, single, tag) = Raise(k2, todo)
    BY DEF Observe
<1>. HIDE DEF r
<1>3. regs \in SUBSET Reg /\ \A q \in k.regs : q \in regs
    BY <1>1 DEF ClientState
<1>. HIDE DEF regs
<1>4. k2 \in ClientState /\ Remembers(k, k2)
    BY <1>3, RelistenType, RelistenRemembers
<1>. HIDE DEF k2, todo
<1>5. Remembers(k2, Raise(k2, todo))
    BY <1>4, RaiseRemembers
<1>. QED
    BY <1>2, <1>4, <1>5, RemembersThen

LEMMA SetValueRemembers ==
    ASSUME NEW k \in ClientState, NEW put, NEW tag
    PROVE  Remembers(k, SetValue(k, put, tag))
<1>1. /\ SetValue(k, put, tag).cache = k.cache
      /\ SetValue(k, put, tag).regs = k.regs
    BY DEF SetValue, Raise, ClientState
<1>. QED
    BY <1>1, RemembersSame

LEMMA MergeRemembers ==
    ASSUME NEW k \in ClientState, NEW put \in Put
    PROVE  Remembers(k, Merge(k, put))
<1>. DEFINE cache == [l \in Leaf |-> IF l \in Merged(k, put) THEN put[l] ELSE k.cache[l]]
            k2 == [k EXCEPT !.cache = cache]
            k3 == Raise(k2, Changed(k, k2))
<1>1. PICK S \in SUBSET Leaf : put \in [S -> Value]
    BY DEF Put
<1>2. \A l \in Leaf : cache[l] = k.cache[l] \/ cache[l] # Unknown
    BY <1>1, ValueAssumption DEF Merged
<1>3. Merge(k, put) = k3
    BY DEF Merge
<1>. HIDE DEF cache
<1>4. k3.cache = cache /\ k3.regs = k.regs
    BY DEF Raise, ClientState
<1>. HIDE DEF k3
<1>5. \A r \in k.regs : r.path \subseteq Leaf
    BY PathAssumption DEF ClientState, Reg
<1>6. Remembers(k, k3)
    BY <1>2, <1>4, <1>5 DEF Remembers, Known, Complete
<1>. QED
    BY <1>3, <1>6

LEMMA AnswerRemembers ==
    ASSUME NEW k \in ClientState, NEW ack
    PROVE  Remembers(k, Answer(k, ack))
<1>1. Answer(k, ack).cache = k.cache /\ Answer(k, ack).regs = k.regs
    BY DEF Answer, Raise, ClientState
<1>. QED
    BY <1>1, RemembersSame

LEMMA NetworkRemembers ==
    ASSUME Inv, NEW c \in Client, Network(c) \/ Disconnect(c), NEW d \in Client
    PROVE  Remembers(client[d], client'[d])
<1>0. PICK k, s, k2 : k = client[d] /\ s = in[d] /\ k2 = client'[d]
    OBVIOUS
<1>. SUFFICES Remembers(k, k2)
    BY <1>0
<1>1. k \in ClientState /\ s \in Seq(Message)
    BY <1>0, Local
<1>2. SameParts(k, k2) \/ Comes(k, s, k2)
    BY <1>0, NetworkComes DEF SameParts
<1>3. CASE SameParts(k, k2)
    BY <1>3, RemembersSame DEF SameParts
<1>4. CASE s # <<>> /\ Head(s).kind # "ack" /\ SameParts(Merge(k, Head(s).put), k2)
    <2>1. Head(s).put \in Put
        BY <1>1, <1>4 DEF Message
    <2>2. Remembers(k, Merge(k, Head(s).put))
        BY <1>1, <2>1, MergeRemembers
    <2>3. Remembers(Merge(k, Head(s).put), k2)
        BY <1>4, RemembersSame DEF SameParts
    <2>. QED
        BY <2>2, <2>3, RemembersThen
<1>5. CASE \E ack \in Ack : ack.id \in PendingIds(k) /\ SameParts(Answer(k, ack), k2)
    <2>1. PICK ack \in Ack : SameParts(Answer(k, ack), k2)
        BY <1>5
    <2>2. Remembers(k, Answer(k, ack)) /\ Remembers(Answer(k, ack), k2)
        BY <1>1, <2>1, AnswerRemembers, RemembersSame DEF SameParts
    <2>. QED
        BY <2>2, RemembersThen
<1>. QED
    BY <1>2, <1>3, <1>4, <1>5 DEF Comes

\* The blocks of the main queue.
LEMMA QueueRemembers ==
    ASSUME NEW k \in ClientState
    PROVE  /\ \A r \in Ready(k) : /\ Remembers(k, TakeValue(k, r))
                                  /\ Remembers(k, Begin(k, r))
           /\ k.main # <<>> => Remembers(k, TakeDone(k))
           /\ \A tag : Remembers(k, Block(k, tag))
<1>1. ASSUME NEW r \in Ready(k)
      PROVE  Remembers(k, TakeValue(k, r)) /\ Remembers(k, Begin(k, r))
    <2>. DEFINE k2 == TakeValue(k, r)
    <2>1. k2 \in ClientState
        BY TakeValueType
    <2>2. k2.cache = k.cache /\ k2.regs = k.regs
        BY DEF TakeValue, ClientState
    <2>3. Begin(k, r) = IF r.single THEN Relisten(k2, k2.regs \ {r}) ELSE k2
        BY DEF Begin, Unobserve
    <2>. HIDE DEF k2
    <2>4. Remembers(k, k2)
        BY <2>2, RemembersSame
    <2>5. r.single => Remembers(k2, Relisten(k2, k2.regs \ {r}))
        <3>1. k2.regs \ {r} \in SUBSET Reg
            BY <2>1 DEF ClientState
        <3>. QED
            BY <2>1, <3>1, RelistenRemembers
    <2>. QED
        BY <2>3, <2>4, <2>5, RemembersThen DEF k2
<1>2. TakeDone(k).cache = k.cache /\ TakeDone(k).regs = k.regs
    BY DEF TakeDone, ClientState
<1>3. ASSUME NEW tag PROVE Remembers(k, Block(k, tag))
    <2>1. Block(k, tag).cache = k.cache /\ Block(k, tag).regs = k.regs
        BY DEF Block, ClientState
    <2>. QED
        BY <2>1, RemembersSame
<1>. QED
    BY <1>1, <1>2, <1>3, RemembersSame

\* What the cache has is seen, under whatever is pending.
LEMMA SeesKnown ==
    ASSUME NEW k \in ClientState, NEW l \in Leaf, k.cache[l] # Unknown
    PROVE  Sees(k)[l] # Unknown
<1>1. Sees(k)[l] = IF Top(k.writes, l) = {} THEN k.cache[l]
                   ELSE (CHOOSE w \in Top(k.writes, l) : TRUE).put[l]
    BY DEF Sees, View
<1>2. ASSUME Top(k.writes, l) # {}
      PROVE  (CHOOSE w \in Top(k.writes, l) : TRUE).put[l] # Unknown
    <2>1. PICK w \in Top(k.writes, l) : w = CHOOSE v \in Top(k.writes, l) : TRUE
        BY <1>2
    <2>2. w.put \in Put /\ l \in DOMAIN w.put
        BY DEF Top, ClientState, Write
    <2>3. w.put[l] \in Value
        BY <2>2 DEF Put
    <2>. QED
        BY <2>1, <2>3, ValueAssumption
<1>. QED
    BY <1>1, <1>2


\* The two ways of registering: for good, and for one call.
OneAdded(k, k2, path, tag, H) ==
    \E r \in Reg : /\ r.path = path /\ ~r.single /\ r.tag = tag
                  /\ Adds(k, k2, r, H)

New(k, H, tag) == \A q \in k.regs \cap H : q.tag # tag

LEMMA ObservedOnAdds ==
    ASSUME NEW k \in ClientState, NEW H \in SUBSET Reg, Prompt(k, H),
           NEW path \in Path, NEW tag \in Tag, New(k, H, tag)
    PROVE  /\ OneAdded(k, ObservedOn(k, path, tag), path, tag, H)
           /\ ObservedOn(k, path, tag) \in ClientState
           /\ Remembers(k, ObservedOn(k, path, tag))
<1>. DEFINE single == FALSE
<1>1. single \in BOOLEAN /\ Vacant(k, H, single, tag) /\ ~single
    BY DEF Vacant, New
<1>2. ObservedOn(k, path, tag) = Observe(k, path, single, tag)
    BY DEF ObservedOn
<1>. HIDE DEF single
<1>3. \E r \in Reg : /\ r.path = path /\ r.single = single /\ r.tag = tag
                     /\ Adds(k, Observe(k, path, single, tag), r, H)
    BY <1>1, ObserveAdds
<1>4. /\ Observe(k, path, single, tag) \in ClientState
      /\ Remembers(k, Observe(k, path, single, tag))
    BY <1>1, ObserveType, ObserveRemembers
<1>. QED
    BY <1>1, <1>2, <1>3, <1>4 DEF OneAdded

LEMMA ObservedOnRemembers ==
    ASSUME NEW k \in ClientState, NEW path \in Path, NEW tag \in Tag
    PROVE  /\ ObservedOn(k, path, tag) \in ClientState
           /\ Remembers(k, ObservedOn(k, path, tag))
<1>. DEFINE single == FALSE
<1>1. single \in BOOLEAN
    OBVIOUS
<1>2. ObservedOn(k, path, tag) = Observe(k, path, single, tag)
    BY DEF ObservedOn
<1>. HIDE DEF single
<1>3. /\ Observe(k, path, single, tag) \in ClientState
      /\ Remembers(k, Observe(k, path, single, tag))
    BY <1>1, ObserveType, ObserveRemembers
<1>. QED
    BY <1>2, <1>3

LEMMA ObservedOnceSettles ==
    ASSUME NEW k \in ClientState, NEW H \in SUBSET Reg, Prompt(k, H),
           NEW path \in Path, NEW tag \in Tag, \A r \in H : ~r.single
    PROVE  /\ Settles(k, ObservedOnce(k, path, tag), H)
           /\ ObservedOnce(k, path, tag) \in ClientState
           /\ Remembers(k, ObservedOnce(k, path, tag))
<1>. DEFINE single == TRUE
<1>1. single \in BOOLEAN /\ Vacant(k, H, single, tag) /\ single = TRUE
    BY DEF Vacant
<1>2. ObservedOnce(k, path, tag) = Observe(k, path, single, tag)
    BY DEF ObservedOnce
<1>. HIDE DEF single
<1>3. PICK r \in Reg : /\ r.path = path /\ r.single = single /\ r.tag = tag
                      /\ Adds(k, Observe(k, path, single, tag), r, H)
    BY <1>1, ObserveAdds
<1>4. /\ Observe(k, path, single, tag) \in ClientState
      /\ Remembers(k, Observe(k, path, single, tag))
    BY <1>1, ObserveType, ObserveRemembers
<1>5. r \notin H
    BY <1>1, <1>3
<1>6. Settles(k, Observe(k, path, single, tag), H)
    BY <1>3, <1>5 DEF Adds, Settles
<1>. QED
    BY <1>2, <1>4, <1>6

\* The only client goes.
LEMMA LastGone ==
    ASSUME Inv, NEW vals, NEW G, NEW c \in Client, \A d \in Client : d = c,
           client' = [client EXCEPT ![c] = Gone], in' = [in EXCEPT ![c] = <<>>],
           UNCHANGED data, \A l \in Leaf : data[l] \in vals[l]
    PROVE  Holding(vals, G)'
<1>1. /\ Gone.writes = {} /\ Gone.regs = {} /\ Gone.main = <<>>
      /\ Gone.cache = [l \in Leaf |-> Unknown]
    BY DEF Gone, ClientInit
<1>2. Kept(Gone, vals, G[c]) /\ Brings(<<>>, vals)
    BY <1>1 DEF Kept, Displays, Brings
<1>3. client'[c] = Gone /\ in'[c] = <<>>
    BY DEF Inv, TypeOK
<1>. QED
    BY <1>2, <1>3 DEF Holding

-----------------------------------------------------------------------------
(* A closure that was passed on once is in one place: registered, with a   *)
(* write that is pending, or in a block of the main queue.                 *)

Blocks(k, T) == {i \in DOMAIN k.main : k.main[i].kind = "done" /\ k.main[i].tag \in T}

\* Where client k has a closure of T.
Bears(k, T) ==
    (Blocks(k, T) \X {"block"})
        \cup ({r \in k.regs : r.tag \in T} \X {"reg"})
        \cup ({w \in k.writes : w.tag \in T} \X {"write"})

Lone(S) == \A x, y \in S : x = y

\* The closures of T move, and do not become more.
Passes(k, k2, T) ==
    /\ Bears(k, T) = {} => Bears(k2, T) = {}
    /\ Lone(Bears(k, T)) => Lone(Bears(k2, T))

\* One closure is added, with this tag.
Gains(k, k2, tag) ==
    \A T : IF tag \in T THEN Bears(k, T) = {} => Lone(Bears(k2, T)) ELSE Passes(k, k2, T)

LEMMA WriteBears ==
    ASSUME NEW k, NEW w \in k.writes, NEW T, w.tag \in T
    PROVE  <<w, "write">> \in Bears(k, T)
<1>1. w \in {v \in k.writes : v.tag \in T}
    OBVIOUS
<1>. QED
    BY <1>1 DEF Bears

LEMMA BlockBears ==
    ASSUME NEW k, k.main \in Seq(Event), k.main # <<>>, Head(k.main).kind = "done",
           NEW T, Head(k.main).tag \in T
    PROVE  Bears(k, T) # {}
<1>1. 1 \in DOMAIN k.main /\ Head(k.main) = k.main[1]
    OBVIOUS
<1>2. 1 \in Blocks(k, T)
    BY <1>1 DEF Blocks
<1>3. <<1, "block">> \in Blocks(k, T) \X {"block"}
    BY <1>2
<1>4. <<1, "block">> \in Bears(k, T)
    BY <1>3 DEF Bears
<1>. QED
    BY <1>4

LEMMA RegBears ==
    ASSUME NEW k, NEW r \in k.regs, NEW T, r.tag \in T
    PROVE  <<r, "reg">> \in Bears(k, T)
<1>1. r \in {v \in k.regs : v.tag \in T}
    OBVIOUS
<1>. QED
    BY <1>1 DEF Bears

LEMMA BearsSame ==
    ASSUME NEW k, NEW k2, k2.regs = k.regs, k2.writes = k.writes, NEW T,
           Blocks(k2, T) = Blocks(k, T)
    PROVE  Bears(k2, T) = Bears(k, T)
    BY DEF Bears

LEMMA PassesThen ==
    ASSUME NEW k, NEW k2, NEW k3, NEW T, Passes(k, k2, T), Passes(k2, k3, T)
    PROVE  Passes(k, k3, T)
    BY DEF Passes

LEMMA PassesSame ==
    ASSUME NEW k, NEW k2, NEW T, Bears(k2, T) = Bears(k, T)
    PROVE  Passes(k, k2, T)
    BY DEF Passes

LEMMA GainsThen ==
    ASSUME NEW k, NEW k2, NEW k3, NEW tag, Gains(k, k2, tag), \A T : Passes(k2, k3, T)
    PROVE  Gains(k, k3, tag)
    BY PassesThen DEF Gains, Passes

\* A block goes behind the others.
Queues(k, k2, e) ==
    k.main \in Seq(Event) /\ e \in Event /\ k2.main = Append(k.main, e)

Added(k, e, T) == IF e.kind = "done" /\ e.tag \in T THEN {Len(k.main) + 1} ELSE {}

LEMMA BlocksAppend ==
    ASSUME NEW k, NEW k2, NEW e, Queues(k, k2, e), NEW T
    PROVE  Blocks(k2, T) = Blocks(k, T) \cup Added(k, e, T)
<1>1. PICK m2, main : m2 = Append(main, e) /\ main = k.main /\ m2 = k2.main
    BY DEF Queues
<1>0. main \in Seq(Event) /\ e \in Event
    BY <1>1 DEF Queues
<1>2. /\ DOMAIN m2 = 1..(Len(main) + 1) /\ m2[Len(main) + 1] = e
      /\ \A i \in DOMAIN main : m2[i] = main[i]
      /\ DOMAIN main = 1..Len(main) /\ Len(main) \in Nat
    BY <1>0, <1>1
<1>3. \A i : i \in DOMAIN m2 <=> i \in DOMAIN main \/ i = Len(main) + 1
    BY <1>2
<1>4. Len(main) + 1 \notin DOMAIN main
    BY <1>2
<1>5. \A i : i \in Blocks(k2, T) <=> i \in DOMAIN m2 /\ m2[i].kind = "done" /\ m2[i].tag \in T
    BY <1>1 DEF Blocks
<1>6. \A i : i \in Blocks(k, T) <=> i \in DOMAIN main /\ main[i].kind = "done" /\ main[i].tag \in T
    BY <1>1 DEF Blocks
<1>7. \A i : i \in Blocks(k2, T) <=>
                i \in Blocks(k, T) \/ (i = Len(main) + 1 /\ e.kind = "done" /\ e.tag \in T)
    BY <1>2, <1>3, <1>5, <1>6
<1>. QED
    BY <1>1, <1>7 DEF Added

LEMMA RaiseBears ==
    ASSUME NEW k \in ClientState, NEW todo \in SUBSET Reg, NEW T
    PROVE  Bears(Raise(k, todo), T) = Bears(k, T)
<1>. DEFINE view == [l \in Leaf |-> IF \E r \in todo : l \in r.path
                                    THEN Sees(k)[l] ELSE Unknown]
            e == [kind |-> "value", todo |-> todo, view |-> view]
<1>1. view \in [Leaf -> Seen]
    BY SeesType DEF Seen
<1>2. e \in Event /\ e.kind = "value"
    BY <1>1 DEF Event
<1>3. Raise(k, todo) = IF todo = {} THEN k ELSE [k EXCEPT !.main = Append(@, e)]
    BY DEF Raise
<1>. HIDE DEF view, e
<1>4. CASE todo # {}
    <2>1. PICK k2 : k2 = [k EXCEPT !.main = Append(@, e)]
        OBVIOUS
    <2>2. /\ k2.main = Append(k.main, e) /\ k2.regs = k.regs /\ k2.writes = k.writes
          /\ k.main \in Seq(Event)
        BY <2>1 DEF ClientState
    <2>3. Blocks(k2, T) = Blocks(k, T)
        <3>1. Queues(k, k2, e) /\ Added(k, e, T) = {}
            BY <1>2, <2>2 DEF Queues, Added
        <3>. QED
            BY <3>1, BlocksAppend
    <2>4. Bears(k2, T) = Bears(k, T)
        BY <2>2, <2>3, BearsSame
    <2>. QED
        BY <1>3, <1>4, <2>1, <2>4
<1>5. CASE todo = {}
    BY <1>3, <1>5
<1>. QED
    BY <1>4, <1>5

\* Data of the server comes.
LEMMA MergePasses ==
    ASSUME NEW k \in ClientState, NEW put \in Put, NEW T
    PROVE  Passes(k, Merge(k, put), T)
<1>. DEFINE cache == [l \in Leaf |-> IF l \in Merged(k, put)
                                     THEN put[l] ELSE k.cache[l]]
            k1 == [k EXCEPT !.cache = cache]
<1>1. PICK S \in SUBSET Leaf : put \in [S -> Value]
    BY DEF Put
<1>2. cache \in [Leaf -> Seen]
    BY <1>1 DEF Merged, ClientState, Seen
<1>3. Merge(k, put) = Raise(k1, Changed(k, k1))
    BY DEF Merge
<1>. HIDE DEF cache
<1>4. /\ k1 \in ClientState /\ k1.writes = k.writes
      /\ k1.regs = k.regs /\ k1.main = k.main
    BY <1>2 DEF ClientState
<1>. HIDE DEF k1
<1>5. Changed(k, k1) \in SUBSET Reg
    BY <1>4 DEF Changed, ClientState
<1>6. Bears(k1, T) = Bears(k, T)
    BY <1>4 DEF Bears, Blocks
<1>7. Bears(Raise(k1, Changed(k, k1)), T) = Bears(k1, T)
    BY <1>4, <1>5, RaiseBears
<1>. QED
    BY <1>3, <1>6, <1>7, PassesSame

\* An answer passes the closure of a write on to the main queue.
LEMMA AnswerPasses ==
    ASSUME NEW k \in ClientState, NEW ack \in Ack, ack.id \in PendingIds(k), NEW T
    PROVE  Passes(k, Answer(k, ack), T)
<1>1. PICK w \in k.writes : w = CHOOSE v \in k.writes : v.id = ack.id
    BY DEF PendingIds
<1>. DEFINE writes == k.writes \ {w}
            k1 == [k EXCEPT !.writes = writes]
            k3 == Raise(k1, Changed(k, k1))
            e == [kind |-> "done", tag |-> w.tag, ok |-> ack.ok]
            k2 == [k3 EXCEPT !.main = Append(@, e)]
<1>2. writes \in SUBSET Write /\ w \in Write
    BY DEF ClientState
<1>3. Answer(k, ack) = k2
    BY <1>1 DEF Answer
<1>4. e \in Event /\ e.kind = "done" /\ e.tag = w.tag
    BY <1>2 DEF Event, Write, Ack
<1>. HIDE DEF writes, e
<1>5. /\ k1 \in ClientState /\ k1.writes = writes /\ k1.regs = k.regs /\ k1.main = k.main
    BY <1>2 DEF ClientState
<1>. HIDE DEF k1
<1>6. Changed(k, k1) \in SUBSET Reg
    BY <1>5 DEF Changed, ClientState
<1>7. Bears(k3, T) = Bears(k1, T) /\ k3 \in ClientState
    BY <1>5, <1>6, RaiseBears, RaiseType
<1>. HIDE DEF k3
<1>8. /\ k2.main = Append(k3.main, e) /\ k2.regs = k3.regs /\ k2.writes = k3.writes
      /\ k3.main \in Seq(Event)
    BY <1>7 DEF ClientState
<1>9. PICK i : i = Len(k3.main) + 1
    OBVIOUS
<1>10. Blocks(k2, T) = Blocks(k3, T) \cup (IF e.kind = "done" /\ e.tag \in T THEN {i} ELSE {})
    <2>1. Queues(k3, k2, e)
        BY <1>4, <1>8 DEF Queues
    <2>. QED
        BY <1>9, <2>1, BlocksAppend DEF Added
<1>. HIDE DEF k2
<1>11. Bears(k2, T) = Bears(k1, T) \cup (IF w.tag \in T THEN {<<i, "block">>} ELSE {})
    BY <1>4, <1>7, <1>8, <1>10 DEF Bears
<1>12. CASE w.tag \notin T
    <2>1. Bears(k1, T) = Bears(k, T)
        BY <1>5, <1>12 DEF Bears, Blocks, writes
    <2>. QED
        BY <1>3, <1>11, <1>12, <2>1, PassesSame
<1>13. CASE w.tag \in T
    <2>1. <<w, "write">> \in Bears(k, T) /\ <<w, "write">> \notin Bears(k1, T)
        <3>1. <<w, "write">> \in Bears(k, T)
            BY <1>1, <1>13, WriteBears
        <3>2. w \notin k1.writes /\ "write" # "block" /\ "write" # "reg"
            BY <1>5 DEF writes
        <3>3. <<w, "write">> \notin Bears(k1, T)
            BY <3>2 DEF Bears
        <3>. QED
            BY <3>1, <3>3
    <2>2. Bears(k1, T) \subseteq Bears(k, T)
        BY <1>5 DEF Bears, Blocks, writes
    <2>3. Lone(Bears(k, T)) => Bears(k1, T) = {}
        BY <2>1, <2>2 DEF Lone
    <2>. QED
        BY <1>3, <1>11, <1>13, <2>1, <2>3 DEF Passes, Lone
<1>. QED
    BY <1>12, <1>13

LEMMA NetworkPasses ==
    ASSUME Inv, NEW c \in Client, Network(c) \/ Disconnect(c), NEW T
    PROVE  /\ Passes(client[c], client'[c], T)
           /\ \A d \in Client : d # c => client'[d] = client[d]
<1>1. PICK k, s, k2 : k = client[c] /\ s = in[c] /\ k2 = client'[c]
    OBVIOUS
<1>2. k \in ClientState /\ s \in Seq(Message) /\ Comes(k, s, k2)
      /\ \A d \in Client : d # c => client'[d] = client[d]
    BY <1>1, NetworkComes DEF Inv, TypeOK
<1>3. ASSUME NEW k1, SameParts(k1, k2)
      PROVE  Bears(k2, T) = Bears(k1, T)
    BY <1>3 DEF SameParts, Bears, Blocks
<1>4. CASE SameParts(k, k2)
    BY <1>1, <1>2, <1>3, <1>4, PassesSame
<1>5. CASE s # <<>> /\ Head(s).kind # "ack" /\ SameParts(Merge(k, Head(s).put), k2)
    <2>1. Head(s) \in Message
        BY <1>2, <1>5
    <2>2. Head(s).put \in Put
        BY <1>5, <2>1 DEF Message
    <2>3. Passes(k, Merge(k, Head(s).put), T)
        BY <1>2, <2>2, MergePasses
    <2>4. Passes(Merge(k, Head(s).put), k2, T)
        BY <1>3, <1>5, PassesSame
    <2>5. Passes(k, k2, T)
        BY <2>3, <2>4, PassesThen
    <2>. QED
        BY <1>1, <1>2, <2>5
<1>6. CASE \E ack \in Ack : ack.id \in PendingIds(k) /\ SameParts(Answer(k, ack), k2)
    <2>1. PICK ack \in Ack : ack.id \in PendingIds(k) /\ SameParts(Answer(k, ack), k2)
        BY <1>6
    <2>2. Passes(k, Answer(k, ack), T)
        BY <1>2, <2>1, AnswerPasses
    <2>3. Passes(Answer(k, ack), k2, T)
        BY <1>3, <2>1, PassesSame
    <2>4. Passes(k, k2, T)
        BY <2>2, <2>3, PassesThen
    <2>. QED
        BY <1>1, <1>2, <2>4
<1>. QED
    BY <1>2, <1>4, <1>5, <1>6 DEF Comes

\* The first block leaves the queue.
LEMMA BlocksTail ==
    ASSUME NEW k, k.main \in Seq(Event), k.main # <<>>, NEW k2, k2.main = Tail(k.main), NEW T
    PROVE  /\ \A i \in Blocks(k2, T) : i + 1 \in Blocks(k, T) /\ i \in Nat /\ i >= 1
           /\ 1 \in Blocks(k, T) <=> Head(k.main).kind = "done" /\ Head(k.main).tag \in T
<1>1. PICK main, m2 : main = k.main /\ m2 = Tail(main) /\ m2 = k2.main
    OBVIOUS
<1>2. /\ \A i \in DOMAIN m2 : i + 1 \in DOMAIN main /\ i \in Nat /\ i >= 1 /\ m2[i] = main[i + 1]
      /\ 1 \in DOMAIN main /\ Head(main) = main[1]
    BY <1>1
<1>. QED
    BY <1>1, <1>2 DEF Blocks

\* It had no closure of T, or the only one.
LEMMA TailPasses ==
    ASSUME NEW k, k.main \in Seq(Event), k.main # <<>>, NEW k2, k2.main = Tail(k.main),
           k2.regs = k.regs, k2.writes = k.writes, NEW T
    PROVE  /\ Passes(k, k2, T)
           /\ Head(k.main).kind = "done" /\ Head(k.main).tag \in T /\ Lone(Bears(k, T))
                => Bears(k2, T) = {}
<1>1. PICK rest :
        /\ Bears(k, T) = (Blocks(k, T) \X {"block"}) \cup rest
        /\ Bears(k2, T) = (Blocks(k2, T) \X {"block"}) \cup rest
        /\ rest = ({r \in k.regs : r.tag \in T} \X {"reg"})
                    \cup ({w \in k.writes : w.tag \in T} \X {"write"})
    BY DEF Bears
<1>2. \A i \in Blocks(k2, T) : i + 1 \in Blocks(k, T) /\ i \in Nat /\ i >= 1
    BY BlocksTail
<1>3. \A i, j \in Nat : /\ i + 1 = j + 1 => i = j
                        /\ i >= 1 => i + 1 # 1
    OBVIOUS
<1>4. \A x \in Bears(k2, T) : x \in rest \/ \E i \in Blocks(k2, T) : x = <<i, "block">>
    BY <1>1
<1>5. rest \subseteq Bears(k, T) /\ \A i \in Blocks(k, T) : <<i, "block">> \in Bears(k, T)
    BY <1>1
<1>6. \A i : <<i, "block">> \notin rest
    BY <1>1
<1>7. Bears(k, T) = {} => Bears(k2, T) = {}
    BY <1>2, <1>4, <1>5
<1>8. ASSUME Lone(Bears(k, T)), NEW x \in Bears(k2, T), NEW y \in Bears(k2, T)
      PROVE  x = y
    <2>1. CASE x \in rest /\ y \in rest
        BY <1>5, <1>8, <2>1 DEF Lone
    <2>2. ASSUME NEW z \in rest, NEW i \in Blocks(k2, T)
          PROVE  FALSE
        <3>1. z = <<i + 1, "block">>
            BY <1>2, <1>5, <1>8 DEF Lone
        <3>. QED
            BY <1>6, <3>1
    <2>3. ASSUME NEW i \in Blocks(k2, T), NEW j \in Blocks(k2, T)
          PROVE  i = j
        <3>1. <<i + 1, "block">> = <<j + 1, "block">>
            BY <1>2, <1>5, <1>8 DEF Lone
        <3>. QED
            BY <1>2, <1>3, <3>1
    <2>. QED
        BY <1>4, <2>1, <2>2, <2>3
<1>9. ASSUME Head(k.main).kind = "done", Head(k.main).tag \in T, Lone(Bears(k, T)),
             NEW x \in Bears(k2, T)
      PROVE  FALSE
    <2>1. <<1, "block">> \in Bears(k, T)
        BY <1>5, <1>9, BlocksTail
    <2>2. \A y \in Bears(k, T) : y = <<1, "block">>
        BY <1>9, <2>1 DEF Lone
    <2>3. x \notin rest
        BY <1>5, <1>6, <2>2
    <2>4. PICK i \in Blocks(k2, T) : x = <<i, "block">>
        BY <1>4, <1>9, <2>3
    <2>5. <<i + 1, "block">> = <<1, "block">>
        BY <1>2, <1>5, <2>2
    <2>. QED
        BY <1>2, <1>3, <2>5
<1>. QED
    BY <1>7, <1>8, <1>9 DEF Passes, Lone

LEMMA TakeDonePasses ==
    ASSUME NEW k \in ClientState, k.main # <<>>, NEW T
    PROVE  /\ Passes(k, TakeDone(k), T)
           /\ Head(k.main).kind = "done" /\ Head(k.main).tag \in T /\ Lone(Bears(k, T))
                => Bears(TakeDone(k), T) = {}
<1>1. PICK k2 : k2 = TakeDone(k)
    OBVIOUS
<1>2. /\ k2.main = Tail(k.main) /\ k2.regs = k.regs /\ k2.writes = k.writes
      /\ k.main \in Seq(Event)
    BY <1>1 DEF TakeDone, ClientState
<1>. QED
    BY <1>1, <1>2, TailPasses

LEMMA TakeValuePasses ==
    ASSUME NEW k \in ClientState, NEW r \in Ready(k), NEW T
    PROVE  Passes(k, TakeValue(k, r), T)
<1>1. k.main \in Seq(Event) /\ k.main # <<>> /\ k.main[1].kind = "value" /\ Head(k.main) = k.main[1]
    BY DEF Ready, ClientState
<1>. DEFINE e == Without(k.main[1], r)
            main == [k.main EXCEPT ![1] = e]
<1>2. 1 \in DOMAIN k.main /\ k.main[1] \in Event
    BY <1>1
<1>3. k.main[1] \in [kind : {"value"}, todo : SUBSET Reg, view : [Leaf -> Seen]]
    BY <1>1, <1>2 DEF Event
<1>4. e.kind = "value"
    BY <1>3 DEF Without
<1>5. PICK k2 : k2 = TakeValue(k, r)
    OBVIOUS
<1>6. /\ k2.regs = k.regs /\ k2.writes = k.writes
      /\ k2.main = IF Head(k.main).todo = {r} THEN Tail(k.main) ELSE main
    BY <1>1, <1>5 DEF TakeValue, ClientState
<1>. HIDE DEF e
<1>7. CASE Head(k.main).todo = {r}
    BY <1>1, <1>5, <1>6, <1>7, TailPasses
<1>8. CASE Head(k.main).todo # {r}
    <2>1. DOMAIN main = DOMAIN k.main /\ main[1] = e /\ \A i \in DOMAIN main : i # 1 => main[i] = k.main[i]
        BY <1>1, <1>2
    <2>. HIDE DEF main
    <2>2. Blocks(k2, T) = Blocks(k, T)
        BY <1>1, <1>4, <1>6, <1>8, <2>1 DEF Blocks
    <2>. QED
        BY <1>5, <1>6, <2>2, BearsSame, PassesSame
<1>. QED
    BY <1>7, <1>8

LEMMA RelistenBears ==
    ASSUME NEW k \in ClientState, NEW regs \in SUBSET Reg
    PROVE  /\ Relisten(k, regs) \in ClientState
           /\ Relisten(k, regs).regs = regs /\ Relisten(k, regs).writes = k.writes
           /\ Relisten(k, regs).main = k.main
<1>1. Relisten(k, regs).main = k.main
    BY DEF Relisten, ClientState
<1>. QED
    BY <1>1, RelistenType, RelistenFields

\* The callback of r begins: when r is for one call it is registered no more.
LEMMA BeginPasses ==
    ASSUME NEW k \in ClientState, NEW r \in Ready(k), NEW T
    PROVE  /\ Passes(k, Begin(k, r), T)
           /\ r.single /\ r \in k.regs /\ r.tag \in T /\ Lone(Bears(k, T))
                => Bears(Begin(k, r), T) = {}
<1>1. PICK k1 : k1 = TakeValue(k, r)
    OBVIOUS
<1>2. k1 \in ClientState /\ k1.regs = k.regs /\ k1.writes = k.writes /\ Passes(k, k1, T)
    BY <1>1, TakeValueType, TakeValuePasses DEF TakeValue, ClientState
<1>3. CASE ~r.single
    BY <1>1, <1>2, <1>3 DEF Begin
<1>4. CASE r.single
    <2>1. PICK k2, regs : k2 = Relisten(k1, regs) /\ regs = k1.regs \ {r}
        OBVIOUS
    <2>2. Begin(k, r) = k2
        BY <1>1, <1>4, <2>1 DEF Begin, Unobserve
    <2>3. k2.regs = k1.regs \ {r} /\ k2.writes = k1.writes /\ k2.main = k1.main
        BY <1>2, <2>1, RelistenBears DEF ClientState
    <2>4. Bears(k2, T) \subseteq Bears(k1, T)
        BY <2>3 DEF Bears, Blocks
    <2>5. Passes(k1, k2, T)
        BY <2>4 DEF Passes, Lone
    <2>6. ASSUME r \in k.regs, r.tag \in T, Lone(Bears(k, T))
          PROVE  Bears(k2, T) = {}
        <3>1. <<r, "reg">> \in Bears(k1, T)
            BY <1>2, <2>6, RegBears
        <3>2. Lone(Bears(k1, T))
            BY <1>2, <2>6 DEF Passes
        <3>3. r \notin k2.regs
            BY <2>3
        <3>4. <<r, "reg">> \notin Bears(k2, T)
            BY <3>3 DEF Bears
        <3>. QED
            BY <2>4, <3>1, <3>2, <3>4 DEF Lone
    <2>. QED
        BY <1>2, <2>2, <2>5, <2>6, PassesThen
<1>. QED
    BY <1>3, <1>4

\* observeSingleEvent
LEMMA AskGains ==
    ASSUME NEW k \in ClientState, NEW path \in Path, NEW tag \in Tag,
           NEW k2, k2 = ObservedOnce(k, path, tag)
    PROVE  Gains(k, k2, tag)
<1>. DEFINE id == Fresh(k)
            r == [id |-> id, path |-> path, single |-> TRUE, tag |-> tag]
            regs == k.regs \cup {r}
            k1 == Relisten(k, regs)
            todo == IF Complete(Sees(k1), path) THEN {r} ELSE {}
<1>1. id \in Nat
    BY FreshType
<1>2. k2 = Raise(k1, todo)
    BY DEF ObservedOnce, Observe
<1>. HIDE DEF id
<1>3. r \in Reg /\ r.tag = tag
    BY <1>1 DEF Reg
<1>. HIDE DEF r
<1>4. regs \in SUBSET Reg /\ todo \in SUBSET Reg
    BY <1>3 DEF ClientState
<1>5. k1 \in ClientState /\ k1.regs = regs /\ k1.writes = k.writes /\ k1.main = k.main
    BY <1>4, RelistenBears
<1>. HIDE DEF k1, todo
<1>. SUFFICES ASSUME NEW T
              PROVE  IF tag \in T THEN Bears(k, T) = {} => Lone(Bears(k2, T))
                                  ELSE Passes(k, k2, T)
    BY DEF Gains
<1>6. Bears(k2, T) = Bears(k1, T)
    BY <1>2, <1>4, <1>5, RaiseBears
<1>7. CASE tag \notin T
    <2>1. {q \in regs : q.tag \in T} = {q \in k.regs : q.tag \in T}
        BY <1>3, <1>7
    <2>2. Blocks(k1, T) = Blocks(k, T)
        BY <1>5 DEF Blocks
    <2>3. Bears(k1, T) = Bears(k, T)
        BY <1>5, <2>1, <2>2 DEF Bears
    <2>. QED
        BY <1>6, <1>7, <2>3, PassesSame
<1>8. CASE tag \in T
    <2>1. {q \in regs : q.tag \in T} = {q \in k.regs : q.tag \in T} \cup {r}
        BY <1>3, <1>8
    <2>2. Blocks(k1, T) = Blocks(k, T)
        BY <1>5 DEF Blocks
    <2>3. Bears(k1, T) = Bears(k, T) \cup {<<r, "reg">>}
        BY <1>5, <2>1, <2>2 DEF Bears
    <2>. QED
        BY <1>6, <1>8, <2>3 DEF Lone
<1>. QED
    BY <1>7, <1>8

\* setValue
LEMMA SetValueGains ==
    ASSUME NEW k \in ClientState, NEW put \in Put, NEW tag \in Tag,
           NEW k2, k2 = SetValue(k, put, tag)
    PROVE  Gains(k, k2, tag)
<1>. DEFINE id == Fresh(k)
            w == [id |-> id, put |-> put, tag |-> tag]
            q == [kind |-> "put", rank |-> id, put |-> put]
            writes == k.writes \cup {w}
            out == IF k.conn THEN k.out \cup {q} ELSE k.out
            next == id + 1
            k1 == [k EXCEPT !.writes = writes, !.out = out, !.next = next]
<1>1. id \in Nat
    BY FreshType
<1>. HIDE DEF id
<1>2. w \in Write /\ w.tag = tag /\ q \in Request
    BY <1>1 DEF Write, Request
<1>3. k2 = Raise(k1, Changed(k, k1))
    BY DEF SetValue, Overwrites, id
<1>. HIDE DEF w, q
<1>4. writes \in SUBSET Write /\ out \in SUBSET Request /\ next \in Nat
    BY <1>1, <1>2 DEF ClientState
<1>. HIDE DEF out, next
<1>5. k1 \in ClientState /\ k1.regs = k.regs /\ k1.writes = writes /\ k1.main = k.main
    BY <1>4 DEF ClientState
<1>. HIDE DEF k1
<1>6. Changed(k, k1) \in SUBSET Reg
    BY <1>5 DEF Changed, ClientState
<1>. SUFFICES ASSUME NEW T
              PROVE  IF tag \in T THEN Bears(k, T) = {} => Lone(Bears(k2, T))
                                  ELSE Passes(k, k2, T)
    BY DEF Gains
<1>7. Bears(k2, T) = Bears(k1, T)
    BY <1>3, <1>5, <1>6, RaiseBears
<1>8. Blocks(k1, T) = Blocks(k, T)
    BY <1>5 DEF Blocks
<1>9. CASE tag \notin T
    <2>1. {v \in writes : v.tag \in T} = {v \in k.writes : v.tag \in T}
        BY <1>2, <1>9
    <2>2. Bears(k1, T) = Bears(k, T)
        BY <1>5, <1>8, <2>1 DEF Bears
    <2>. QED
        BY <1>7, <1>9, <2>2, PassesSame
<1>10. CASE tag \in T
    <2>1. {v \in writes : v.tag \in T} = {v \in k.writes : v.tag \in T} \cup {w}
        BY <1>2, <1>10
    <2>2. Bears(k1, T) = Bears(k, T) \cup {<<w, "write">>}
        BY <1>5, <1>8, <2>1 DEF Bears
    <2>. QED
        BY <1>7, <1>10, <2>2 DEF Lone
<1>. QED
    BY <1>9, <1>10

\* A block of the program is dispatched.
LEMMA BlockGains ==
    ASSUME NEW k \in ClientState, NEW tag \in Tag, NEW k2, k2 = Block(k, tag)
    PROVE  Gains(k, k2, tag)
<1>1. PICK e : e = [kind |-> "done", tag |-> tag, ok |-> TRUE]
    OBVIOUS
<1>2. e \in Event /\ e.kind = "done" /\ e.tag = tag
    BY <1>1 DEF Event
<1>3. k2 = [k EXCEPT !.main = Append(@, e)]
    BY <1>1 DEF Block
<1>4. /\ k2.main = Append(k.main, e) /\ k2.regs = k.regs /\ k2.writes = k.writes
      /\ Queues(k, k2, e)
    BY <1>2, <1>3 DEF ClientState, Queues
<1>. SUFFICES ASSUME NEW T
              PROVE  IF tag \in T THEN Bears(k, T) = {} => Lone(Bears(k2, T))
                                  ELSE Passes(k, k2, T)
    BY DEF Gains
<1>5. Blocks(k2, T) = Blocks(k, T) \cup Added(k, e, T)
    BY <1>4, BlocksAppend
<1>6. CASE tag \notin T
    <2>1. Blocks(k2, T) = Blocks(k, T)
        BY <1>2, <1>5, <1>6 DEF Added
    <2>. QED
        BY <1>4, <1>6, <2>1, BearsSame, PassesSame
<1>7. CASE tag \in T
    <2>1. PICK i : Blocks(k2, T) = Blocks(k, T) \cup {i}
        BY <1>2, <1>5, <1>7 DEF Added
    <2>2. Bears(k2, T) = Bears(k, T) \cup {<<i, "block">>}
        BY <1>4, <2>1 DEF Bears
    <2>. QED
        BY <1>7, <2>2 DEF Lone
<1>. QED
    BY <1>6, <1>7


-----------------------------------------------------------------------------
(* A client that is alone and observes nothing while a write of its own is *)
(* pending: what a callback is given is what the server has.  ends has the *)
(* completions that may run, with their outcome.                           *)

\* The registrations of a batch are numbered below n.
Before(e, n) == e.kind = "value" => \A r \in e.todo : r.id < n

\* A batch shows those that are still registered what the tree has.
Right(e, regs, tree, ends) ==
    /\ e.kind = "value" =>
        \A r \in e.todo \cap regs : \A l \in r.path : e.view[l] = tree[l]
    /\ e.kind = "done" => <<e.tag, e.ok>> \in ends

Neat(k, tree, ends) ==
    /\ \A r \in k.regs : r.id < k.next
    /\ \A i \in DOMAIN k.main : /\ Before(k.main[i], k.next)
                                /\ Right(k.main[i], k.regs, tree, ends)

\* The cache has nothing but what the server has.
Exact(k, tree) == \A l \in Leaf : k.cache[l] \in {Unknown, tree[l]}

\* Nothing is observed while a write is pending, and one write is pending at a time.
InOrder(k) ==
    /\ k.regs = {} \/ k.writes = {}
    /\ \A v, w \in k.writes : v = w

\* A block that is one of another, or what is left of it.
Part(e, f) ==
    /\ e.kind = f.kind
    /\ e.kind = "value" => e.todo \subseteq f.todo /\ e.view = f.view
    /\ e.kind = "done" => e.tag = f.tag /\ e.ok = f.ok

\* The registrations go, or come with a number that no batch has.
Keeps(k, k2) ==
    \A i \in DOMAIN k.main : /\ Before(k.main[i], k2.next)
                             /\ k.main[i].kind = "value" =>
                                    k.main[i].todo \cap k2.regs \subseteq k.regs

LEMMA NeatStep ==
    ASSUME NEW k, NEW k2, NEW tree, NEW ends, Neat(k, tree, ends), Keeps(k, k2),
           \A r \in k2.regs : r.id < k2.next,
           \A i \in DOMAIN k2.main :
                \/ \E j \in DOMAIN k.main : Part(k2.main[i], k.main[j])
                \/ /\ Before(k2.main[i], k2.next)
                   /\ Right(k2.main[i], k2.regs, tree, ends)
    PROVE  Neat(k2, tree, ends)
<1>. SUFFICES ASSUME NEW i \in DOMAIN k2.main
              PROVE  /\ Before(k2.main[i], k2.next)
                     /\ Right(k2.main[i], k2.regs, tree, ends)
    BY DEF Neat
<1>1. CASE \E j \in DOMAIN k.main : Part(k2.main[i], k.main[j])
    <2>1. PICK e, f : /\ e = k2.main[i] /\ Part(e, f)
                      /\ \E j \in DOMAIN k.main : f = k.main[j]
        BY <1>1
    <2>2. /\ Before(f, k2.next) /\ Right(f, k.regs, tree, ends)
          /\ f.kind = "value" => f.todo \cap k2.regs \subseteq k.regs
        BY <2>1 DEF Neat, Keeps
    <2>3. Before(e, k2.next)
        BY <2>1, <2>2 DEF Part, Before
    <2>4. Right(e, k2.regs, tree, ends)
        BY <2>1, <2>2 DEF Part, Right
    <2>. QED
        BY <2>1, <2>3, <2>4
<1>. QED
    BY <1>1

\* Who observes nothing and what the tree has are of no account to each other.
LEMMA NeatTree ==
    ASSUME NEW k, NEW tree, NEW tree2, NEW ends, NEW ends2, ends \subseteq ends2,
           k.regs = {} \/ tree2 = tree, Neat(k, tree, ends)
    PROVE  Neat(k, tree2, ends2)
    BY DEF Neat, Right

LEMMA NeatSame ==
    ASSUME NEW k, NEW k2, SameParts(k, k2), NEW tree, NEW ends, Neat(k, tree, ends)
    PROVE  Neat(k2, tree, ends)
    BY DEF SameParts, Neat

\* A number that is given is above those in use.
LEMMA FreshId ==
    ASSUME NEW k \in ClientState, NEW tree, NEW ends, Neat(k, tree, ends)
    PROVE  /\ Fresh(k) \in Nat
           /\ \A r \in k.regs : r \in Reg /\ r.id \in Nat /\ r.id < Fresh(k)
           /\ \A i \in DOMAIN k.main : Before(k.main[i], Fresh(k))
           /\ \A i \in DOMAIN k.main : k.main[i].kind = "value" =>
                \A r \in k.main[i].todo : r.id \in Nat
<1>1. \A i \in DOMAIN k.main : k.main[i] \in Event
    BY DEF ClientState
<1>2. \A i \in DOMAIN k.main : k.main[i].kind = "value" => k.main[i].todo \subseteq Reg
    BY <1>1 DEF Event
<1>3. \A r \in Queued(k) : r.id < k.next
    BY DEF Queued, Neat, Before
<1>. DEFINE P(n) == \/ n = k.next
                    \/ /\ n > 0
                       /\ \A w \in k.writes \cup k.regs \cup Queued(k) : w.id < n
                       /\ \A q \in k.out \cup k.unacked : q.rank < n
<1>4. k.next \in 0..k.next /\ P(k.next)
    BY DEF ClientState
<1>5. (CHOOSE n \in 0..k.next : P(n)) \in 0..k.next /\ P(CHOOSE n \in 0..k.next : P(n))
    BY <1>4
<1>6. Fresh(k) = IF Reuse THEN CHOOSE n \in 0..k.next : P(n) ELSE k.next
    BY DEF Fresh
<1>7. \A r \in k.regs \cup Queued(k) : r.id < Fresh(k)
    BY <1>3, <1>5, <1>6 DEF Neat
<1>8. \A i \in DOMAIN k.main : k.main[i].kind = "value" => k.main[i].todo \subseteq Queued(k)
    BY DEF Queued
<1>9. Fresh(k) \in Nat
    BY FreshType
<1>10. k.regs \subseteq Reg
    BY DEF ClientState
<1>. QED
    BY <1>2, <1>7, <1>8, <1>9, <1>10 DEF Before, Reg

\* A block goes behind the others.
LEMMA NeatAppend ==
    ASSUME NEW k, NEW tree, NEW ends, Neat(k, tree, ends), k.main \in Seq(Event),
           NEW e \in Event, Before(e, k.next), Right(e, k.regs, tree, ends),
           NEW k2, k2.main = Append(k.main, e), k2.regs = k.regs, k2.next = k.next
    PROVE  Neat(k2, tree, ends)
<1>1. PICK main : main = k.main
    OBVIOUS
<1>2. /\ DOMAIN k2.main = 1..(Len(main) + 1) /\ k2.main[Len(main) + 1] = e
      /\ \A i \in DOMAIN main : k2.main[i] = main[i]
      /\ DOMAIN main = 1..Len(main) /\ Len(main) \in Nat
    BY <1>1
<1>3. \A i \in DOMAIN k2.main : i \in DOMAIN main \/ i = Len(main) + 1
    BY <1>2
<1>. QED
    BY <1>1, <1>2, <1>3 DEF Neat

LEMMA NeatRaise ==
    ASSUME NEW k \in ClientState, NEW tree, NEW ends, Neat(k, tree, ends),
           NEW todo \in SUBSET k.regs,
           \A r \in todo : \A l \in r.path : Sees(k)[l] = tree[l]
    PROVE  Neat(Raise(k, todo), tree, ends)
<1>. DEFINE sees == Sees(k)
            view == [l \in Leaf |-> IF \E r \in todo : l \in r.path
                                    THEN sees[l] ELSE Unknown]
            e == [kind |-> "value", todo |-> todo, view |-> view]
<1>1. sees \in [Leaf -> Seen]
    BY SeesType
<1>2. \A r \in todo : r \in Reg /\ r.path \subseteq Leaf /\ \A l \in r.path : sees[l] = tree[l]
    BY PathAssumption DEF ClientState, Reg
<1>3. Raise(k, todo) = IF todo = {} THEN k ELSE [k EXCEPT !.main = Append(@, e)]
    BY DEF Raise
<1>. HIDE DEF sees
<1>4. view \in [Leaf -> Seen]
    BY <1>1 DEF Seen
<1>5. \A r \in todo : \A l \in r.path : view[l] = tree[l]
    BY <1>2
<1>. HIDE DEF view
<1>6. e \in Event
    BY <1>2, <1>4 DEF Event
<1>7. Before(e, k.next) /\ Right(e, k.regs, tree, ends)
    BY <1>5 DEF Before, Right, Neat
<1>8. CASE todo = {}
    BY <1>3, <1>8
<1>9. CASE todo # {}
    <2>1. PICK k2 : k2 = Raise(k, todo)
        OBVIOUS
    <2>. HIDE DEF e
    <2>2. k2 = [k EXCEPT !.main = Append(@, e)]
        BY <1>3, <1>9, <2>1
    <2>3. k2.main = Append(k.main, e) /\ k2.regs = k.regs /\ k2.next = k.next
          /\ k.main \in Seq(Event)
        BY <2>2 DEF ClientState
    <2>4. Neat(k2, tree, ends)
        BY <1>6, <1>7, <2>3, NeatAppend
    <2>. QED
        BY <2>1, <2>4
<1>. QED
    BY <1>8, <1>9

\* With nothing pending, what is whole is what the server has.
LEMMA NeatChanged ==
    ASSUME NEW k, NEW k2 \in ClientState, NEW tree, NEW ends, Neat(k2, tree, ends),
           k2.regs = {} \/ (k2.writes = {} /\ Exact(k2, tree))
    PROVE  Neat(Raise(k2, Changed(k, k2)), tree, ends)
<1>1. PICK todo : todo = Changed(k, k2)
    OBVIOUS
<1>2. todo \subseteq k2.regs /\ \A r \in todo : Complete(Sees(k2), r.path)
    BY <1>1 DEF Changed
<1>3. ASSUME NEW r \in todo, NEW l \in r.path
      PROVE  Sees(k2)[l] = tree[l]
    <2>1. k2.writes = {} /\ Exact(k2, tree)
        BY <1>2
    <2>2. Sees(k2) = k2.cache
        BY <2>1, SeesCache
    <2>3. l \in Leaf
        BY <1>2, PathAssumption DEF ClientState, Reg
    <2>4. k2.cache[l] # Unknown
        BY <1>2, <2>2 DEF Complete
    <2>. QED
        BY <2>1, <2>2, <2>3, <2>4 DEF Exact
<1>. QED
    BY <1>1, <1>2, <1>3, NeatRaise

\* The first block leaves the queue.
LEMMA NeatTakeDone ==
    ASSUME NEW k \in ClientState, NEW tree, NEW ends, Neat(k, tree, ends),
           k.main # <<>>
    PROVE  /\ Neat(TakeDone(k), tree, ends)
           /\ Head(k.main).kind = "done" => <<Head(k.main).tag, Head(k.main).ok>> \in ends
<1>1. PICK k2, main, rest : k2 = TakeDone(k) /\ main = k.main /\ rest = Tail(main)
    OBVIOUS
<1>2. main \in Seq(Event) /\ main # <<>>
    BY <1>1 DEF ClientState
<1>3. k2.main = rest /\ k2.regs = k.regs /\ k2.next = k.next
    BY <1>1 DEF TakeDone, ClientState
<1>4. /\ \A i \in DOMAIN rest : i + 1 \in DOMAIN main /\ rest[i] = main[i + 1]
      /\ 1 \in DOMAIN main /\ Head(main) = main[1]
    BY <1>1, <1>2
<1>5. Neat(k2, tree, ends)
    BY <1>1, <1>3, <1>4 DEF Neat
<1>. QED
    BY <1>1, <1>4, <1>5 DEF Neat, Right

LEMMA NeatTakeValue ==
    ASSUME NEW k \in ClientState, NEW tree, NEW ends, Neat(k, tree, ends), NEW r \in Ready(k)
    PROVE  /\ Neat(TakeValue(k, r), tree, ends)
           /\ r \in k.regs => \A l \in r.path : Head(k.main).view[l] = tree[l]
<1>1. k.main \in Seq(Event) /\ k.main # <<>> /\ k.main[1].kind = "value"
      /\ Head(k.main) = k.main[1] /\ r \in k.main[1].todo
    BY DEF Ready, ClientState
<1>2. 1 \in DOMAIN k.main /\ k.main[1] \in Event
    BY <1>1
<1>. DEFINE e == Without(k.main[1], r)
            main == [k.main EXCEPT ![1] = e]
            rest == Tail(k.main)
<1>3. e.kind = k.main[1].kind /\ e.todo \subseteq k.main[1].todo /\ e.view = k.main[1].view
    <2>1. k.main[1] \in [kind : {"value"}, todo : SUBSET Reg, view : [Leaf -> Seen]]
        BY <1>1, <1>2 DEF Event
    <2>. QED
        BY <2>1 DEF Without
<1>4. Part(e, k.main[1])
    BY <1>1, <1>3 DEF Part
<1>5. PICK k2 : k2 = TakeValue(k, r)
    OBVIOUS
<1>6. /\ k2.regs = k.regs /\ k2.next = k.next
      /\ k2.main = IF Head(k.main).todo = {r} THEN rest ELSE main
    BY <1>1, <1>5 DEF TakeValue, ClientState
<1>. HIDE DEF e
<1>7. \A i \in DOMAIN k2.main : \E j \in DOMAIN k.main : Part(k2.main[i], k.main[j])
    <2>1. \A i \in DOMAIN k.main : Part(k.main[i], k.main[i])
        BY DEF Part
    <2>2. \A i \in DOMAIN rest : i + 1 \in DOMAIN k.main /\ rest[i] = k.main[i + 1]
        BY <1>1
    <2>3. /\ DOMAIN main = DOMAIN k.main /\ main[1] = e
          /\ \A i \in DOMAIN main : i # 1 => main[i] = k.main[i]
        BY <1>1, <1>2
    <2>. HIDE DEF main, rest
    <2>4. CASE k2.main = rest
        BY <2>1, <2>2, <2>4
    <2>5. CASE k2.main = main
        BY <1>2, <1>4, <2>1, <2>3, <2>5
    <2>. QED
        BY <1>6, <2>4, <2>5
<1>8. Keeps(k, k2) /\ \A q \in k2.regs : q.id < k2.next
    BY <1>6 DEF Keeps, Neat
<1>9. Neat(k2, tree, ends)
    BY <1>7, <1>8, NeatStep
<1>10. r \in k.regs => \A l \in r.path : Head(k.main).view[l] = tree[l]
    BY <1>1, <1>2 DEF Neat, Right
<1>. QED
    BY <1>5, <1>9, <1>10

\* Fewer registrations.
LEMMA NeatRelisten ==
    ASSUME NEW k \in ClientState, NEW tree, NEW ends, Neat(k, tree, ends),
           NEW regs, regs \in SUBSET Reg,
           \A r \in regs : r.id < Fresh(k) + 2,
           \A i \in DOMAIN k.main : k.main[i].kind = "value" =>
                k.main[i].todo \cap regs \subseteq k.regs
    PROVE  Neat(Relisten(k, regs), tree, ends)
<1>1. PICK k2 : k2 = Relisten(k, regs)
    OBVIOUS
<1>2. k2.regs = regs /\ k2.main = k.main /\ k2.next = Fresh(k) + 2
    BY <1>1, RelistenBears, RelistenFields
<1>3. \A i \in DOMAIN k.main : Before(k.main[i], k2.next)
    <2>. SUFFICES ASSUME NEW i \in DOMAIN k.main, k.main[i].kind = "value",
                         NEW r \in k.main[i].todo
                  PROVE  r.id < k2.next
        BY DEF Before
    <2>1. r.id \in Nat /\ r.id < Fresh(k) /\ Fresh(k) \in Nat
        BY FreshId DEF Before
    <2>. QED
        BY <1>2, <2>1
<1>4. Keeps(k, k2) /\ \A q \in k2.regs : q.id < k2.next
    BY <1>2, <1>3 DEF Keeps
<1>5. \A i \in DOMAIN k2.main : \E j \in DOMAIN k.main : Part(k2.main[i], k.main[j])
    BY <1>2 DEF Part
<1>. QED
    BY <1>1, <1>4, <1>5, NeatStep

\* A callback begins; it is given what the tree has.
LEMMA NeatBegin ==
    ASSUME NEW k \in ClientState, NEW tree, NEW ends, Neat(k, tree, ends), NEW r \in Ready(k)
    PROVE  /\ Neat(Begin(k, r), tree, ends)
           /\ r \in k.regs => \A l \in r.path : Head(k.main).view[l] = tree[l]
           /\ Begin(k, r).regs = IF r.single THEN k.regs \ {r} ELSE k.regs
           /\ Begin(k, r).writes = k.writes
<1>1. PICK k1, regs : k1 = TakeValue(k, r) /\ regs = k1.regs \ {r}
    OBVIOUS
<1>2. /\ k1 \in ClientState /\ Neat(k1, tree, ends)
      /\ k1.regs = k.regs /\ k1.writes = k.writes
      /\ r \in k.regs => \A l \in r.path : Head(k.main).view[l] = tree[l]
    <2>1. k1.regs = k.regs /\ k1.writes = k.writes
        BY <1>1, TakeValueAlike DEF Alike
    <2>. QED
        BY <1>1, <2>1, TakeValueType, NeatTakeValue
<1>3. CASE ~r.single
    BY <1>1, <1>2, <1>3 DEF Begin
<1>4. CASE r.single
    <2>1. regs \in SUBSET Reg /\ regs \subseteq k1.regs
        BY <1>1, <1>2 DEF ClientState
    <2>2. \A q \in regs : q.id < Fresh(k1) + 2
        <3>1. Fresh(k1) \in Nat /\ \A q \in k1.regs : q.id \in Nat /\ q.id < Fresh(k1)
            BY <1>2, FreshId
        <3>. QED
            BY <2>1, <3>1
    <2>3. Neat(Relisten(k1, regs), tree, ends)
        BY <1>2, <2>1, <2>2, NeatRelisten
    <2>4. Begin(k, r) = Relisten(k1, regs)
        BY <1>1, <1>4 DEF Begin, Unobserve
    <2>5. Relisten(k1, regs).regs = regs /\ Relisten(k1, regs).writes = k1.writes
        BY <1>2, <2>1, RelistenBears
    <2>. QED
        BY <1>1, <1>2, <1>4, <2>3, <2>4, <2>5
<1>. QED
    BY <1>3, <1>4

LEMMA NeatBlock ==
    ASSUME NEW k \in ClientState, NEW tree, NEW ends, Neat(k, tree, ends),
           NEW tag \in Tag, <<tag, TRUE>> \in ends
    PROVE  Neat(Block(k, tag), tree, ends)
<1>1. PICK e, k2 : e = [kind |-> "done", tag |-> tag, ok |-> TRUE] /\ k2 = Block(k, tag)
    OBVIOUS
<1>2. e \in Event /\ Before(e, k.next) /\ Right(e, k.regs, tree, ends)
    BY <1>1 DEF Event, Before, Right
<1>3. k2 = [k EXCEPT !.main = Append(@, e)]
    BY <1>1 DEF Block
<1>4. /\ k2.main = Append(k.main, e) /\ k2.regs = k.regs /\ k2.next = k.next
      /\ k.main \in Seq(Event)
    BY <1>3 DEF ClientState
<1>. QED
    BY <1>1, <1>2, <1>4, NeatAppend

\* observeSingleEvent: the registration has a number of its own, and an event is raised
\* at once only when the cache has all of the path.
LEMMA NeatAsk ==
    ASSUME NEW k \in ClientState, NEW tree, NEW ends, Neat(k, tree, ends),
           k.writes = {}, Exact(k, tree), NEW path \in Path, NEW tag \in Tag
    PROVE  Neat(ObservedOnce(k, path, tag), tree, ends)
<1>1. PICK r : r = [id |-> Fresh(k), path |-> path, single |-> TRUE, tag |-> tag]
    OBVIOUS
<1>2. PICK regs, k1, todo :
        /\ regs = k.regs \cup {r} /\ k1 = Relisten(k, regs)
        /\ todo = IF Complete(Sees(k1), path) THEN {r} ELSE {}
    OBVIOUS
<1>3. /\ Fresh(k) \in Nat /\ \A q \in k.regs : q.id \in Nat /\ q.id < Fresh(k)
      /\ \A i \in DOMAIN k.main : Before(k.main[i], Fresh(k))
    BY FreshId
<1>4. r \in Reg /\ r.id = Fresh(k) /\ r.path = path
    BY <1>1, <1>3 DEF Reg
<1>5. regs \in SUBSET Reg /\ \A q \in regs : q.id < Fresh(k) + 2
    BY <1>2, <1>3, <1>4 DEF ClientState
<1>6. ASSUME NEW i \in DOMAIN k.main, k.main[i].kind = "value"
      PROVE  k.main[i].todo \cap regs \subseteq k.regs
    <2>1. \A q \in k.main[i].todo : q.id < Fresh(k)
        BY <1>3, <1>6 DEF Before
    <2>2. r \notin k.main[i].todo
        BY <1>3, <1>4, <2>1
    <2>. QED
        BY <1>2, <2>2
<1>7. Neat(k1, tree, ends)
    BY <1>2, <1>5, <1>6, NeatRelisten
<1>8. k1 \in ClientState /\ k1.regs = regs /\ k1.writes = {}
    BY <1>2, <1>5, RelistenBears
<1>9. Exact(k1, tree)
    <2>1. \A l \in Leaf : k1.cache[l] = IF l \in Covered(regs) THEN k.cache[l] ELSE Unknown
        BY <1>2 DEF Relisten, ClientState
    <2>. QED
        BY <2>1 DEF Exact
<1>10. Sees(k1) = k1.cache
    BY <1>8, SeesCache
<1>11. ASSUME NEW q \in todo, NEW l \in q.path
       PROVE  Sees(k1)[l] = tree[l]
    <2>1. q = r /\ Complete(Sees(k1), path)
        BY <1>2
    <2>2. l \in path /\ l \in Leaf
        BY <1>4, <2>1, PathAssumption
    <2>. QED
        BY <1>9, <1>10, <2>1, <2>2 DEF Exact, Complete
<1>12. todo \in SUBSET k1.regs
    BY <1>2, <1>8
<1>13. Neat(Raise(k1, todo), tree, ends)
    BY <1>7, <1>8, <1>11, <1>12, NeatRaise
<1>14. ObservedOnce(k, path, tag) = Raise(k1, todo)
    BY <1>1, <1>2 DEF ObservedOnce, Observe
<1>. QED
    BY <1>13, <1>14

\* setValue, while nothing is observed: nobody is called.
LEMMA NeatSetValue ==
    ASSUME NEW k \in ClientState, NEW tree, NEW ends, Neat(k, tree, ends), k.regs = {},
           NEW put \in Put, NEW tag \in Tag
    PROVE  /\ Neat(SetValue(k, put, tag), tree, ends)
           /\ \E w : /\ w.put = put /\ w.tag = tag
                    /\ SetValue(k, put, tag).writes = k.writes \cup {w}
<1>1. PICK id, writes, out, k1 :
        /\ id = Fresh(k) /\ writes = k.writes \cup {[id |-> id, put |-> put, tag |-> tag]}
        /\ out = IF k.conn
                 THEN k.out \cup {[kind |-> "put", rank |-> id, put |-> put]} ELSE k.out
        /\ k1 = [k EXCEPT !.writes = writes, !.out = out, !.next = id + 1]
    OBVIOUS
<1>2. SetValue(k, put, tag) = Raise(k1, Changed(k, k1))
    BY <1>1 DEF SetValue, Overwrites
<1>3. k1.regs = {} /\ k1.main = k.main /\ k1.next = id + 1
    BY <1>1 DEF ClientState
<1>4. Changed(k, k1) = {}
    BY <1>3 DEF Changed
<1>5. SetValue(k, put, tag) = k1
    BY <1>2, <1>4 DEF Raise
<1>6. \A i \in DOMAIN k.main : Before(k.main[i], id + 1)
    <2>. SUFFICES ASSUME NEW i \in DOMAIN k.main, k.main[i].kind = "value",
                         NEW r \in k.main[i].todo
                  PROVE  r.id < id + 1
        BY DEF Before
    <2>1. r.id \in Nat /\ r.id < id /\ id \in Nat
        BY <1>1, FreshId DEF Before
    <2>. QED
        BY <2>1
<1>7. Neat(k1, tree, ends)
    BY <1>3, <1>6 DEF Neat, Right
<1>8. k1.writes = writes
    BY <1>1 DEF ClientState
<1>9. PICK w : w.put = put /\ w.tag = tag /\ writes = k.writes \cup {w}
    BY <1>1
<1>. QED
    BY <1>5, <1>7, <1>8, <1>9

\* Data of the server comes.
LEMMA NeatMerge ==
    ASSUME NEW k \in ClientState, NEW tree, NEW ends, Neat(k, tree, ends),
           NEW put \in Put,
           k.regs = {} \/ (k.writes = {} /\ Exact(Merge(k, put), tree))
    PROVE  Neat(Merge(k, put), tree, ends)
<1>. DEFINE cache == [l \in Leaf |-> IF l \in Merged(k, put) THEN put[l] ELSE k.cache[l]]
            k1 == [k EXCEPT !.cache = cache]
<1>1. PICK S \in SUBSET Leaf : put \in [S -> Value]
    BY DEF Put
<1>2. cache \in [Leaf -> Seen]
    BY <1>1 DEF Merged, ClientState, Seen
<1>3. Merge(k, put) = Raise(k1, Changed(k, k1))
    BY DEF Merge
<1>. HIDE DEF cache
<1>4. /\ k1 \in ClientState /\ k1.cache = cache /\ k1.writes = k.writes
      /\ k1.regs = k.regs /\ k1.main = k.main /\ k1.next = k.next
    BY <1>2 DEF ClientState
<1>. HIDE DEF k1
<1>5. Neat(k1, tree, ends)
    BY <1>4 DEF Neat
<1>6. Merge(k, put).cache = k1.cache
    BY <1>3, <1>4, RaiseFields
<1>7. k1.regs = {} \/ (k1.writes = {} /\ Exact(k1, tree))
    BY <1>4, <1>6 DEF Exact
<1>. QED
    BY <1>3, <1>4, <1>5, <1>7, NeatChanged

\* A write is answered, while nothing is observed.
LEMMA NeatAnswer ==
    ASSUME NEW k \in ClientState, NEW tree, NEW ends, Neat(k, tree, ends), k.regs = {},
           NEW ack \in Ack, ack.id \in PendingIds(k),
           \A w \in k.writes : w.id = ack.id => <<w.tag, ack.ok>> \in ends
    PROVE  Neat(Answer(k, ack), tree, ends)
<1>1. PICK w, writes, k1, e :
        /\ w = (CHOOSE v \in k.writes : v.id = ack.id) /\ writes = k.writes \ {w}
        /\ k1 = [k EXCEPT !.writes = writes]
        /\ e = [kind |-> "done", tag |-> w.tag, ok |-> ack.ok]
    OBVIOUS
<1>2. w \in k.writes /\ w.id = ack.id /\ w \in Write
    <2>1. \E v \in k.writes : v.id = ack.id
        BY DEF PendingIds
    <2>2. w \in k.writes /\ w.id = ack.id
        BY <1>1, <2>1
    <2>. QED
        BY <2>2 DEF ClientState
<1>3. e \in Event /\ Before(e, k.next) /\ Right(e, k.regs, tree, ends)
    BY <1>1, <1>2 DEF Event, Write, Ack, Before, Right
<1>4. k1.regs = {} /\ k1.main = k.main /\ k1.next = k.next /\ k.main \in Seq(Event)
    BY <1>1 DEF ClientState
<1>5. Changed(k, k1) = {}
    BY <1>4 DEF Changed
<1>6. PICK k2 : k2 = Answer(k, ack)
    OBVIOUS
<1>7. k2 = [k1 EXCEPT !.main = Append(@, e)]
    BY <1>1, <1>5, <1>6 DEF Answer, Raise
<1>8. k2.main = Append(k.main, e) /\ k2.regs = k.regs /\ k2.next = k.next
    BY <1>1, <1>4, <1>7 DEF ClientState
<1>. QED
    BY <1>3, <1>4, <1>6, <1>8, NeatAppend

\* What the network does.
LEMMA NeatComes ==
    ASSUME NEW k \in ClientState, NEW s \in Seq(Message), NEW k2, Comes(k, s, k2),
           NEW tree, NEW ends, Neat(k, tree, ends), InOrder(k),
           NEW tree2, k.regs = {} \/ tree2 = tree,
           NEW ends2, ends \subseteq ends2,
           k2.writes = {} => Exact(k2, tree2),
           \A ack \in Ack : Answers(k, s, ack) =>
                \A w \in k.writes : w.id = ack.id => <<w.tag, ack.ok>> \in ends2
    PROVE  Neat(k2, tree2, ends2) /\ k2.writes \subseteq k.writes
<1>1. Neat(k, tree2, ends2)
    BY NeatTree
<1>2. CASE SameParts(k, k2)
    BY <1>1, <1>2, NeatSame DEF SameParts
<1>3. CASE s # <<>> /\ Head(s).kind # "ack" /\ SameParts(Merge(k, Head(s).put), k2)
    <2>1. PICK put, k1 : put = Head(s).put /\ k1 = Merge(k, put)
        OBVIOUS
    <2>2. put \in Put
        <3>1. Head(s) \in Message
            BY <1>3
        <3>. QED
            BY <1>3, <2>1, <3>1 DEF Message
    <2>3. SameParts(k1, k2) /\ k1.writes = k.writes
        BY <1>3, <2>1, <2>2, MergeFields
    <2>4. k.regs = {} \/ (k.writes = {} /\ Exact(k1, tree2))
        BY <2>3 DEF InOrder, SameParts, Exact
    <2>5. Neat(k1, tree2, ends2)
        BY <1>1, <2>1, <2>2, <2>4, NeatMerge
    <2>. QED
        BY <2>3, <2>5, NeatSame DEF SameParts
<1>4. CASE \E ack \in Ack : /\ ack.id \in PendingIds(k) /\ Answers(k, s, ack)
                            /\ SameParts(Answer(k, ack), k2)
    <2>1. PICK ack \in Ack : /\ ack.id \in PendingIds(k) /\ Answers(k, s, ack)
                             /\ SameParts(Answer(k, ack), k2)
        BY <1>4
    <2>2. k.writes # {}
        BY <2>1 DEF PendingIds
    <2>3. Neat(Answer(k, ack), tree2, ends2)
        BY <1>1, <2>1, <2>2, NeatAnswer DEF InOrder
    <2>4. Answer(k, ack).writes \subseteq k.writes
        BY AnswerAlike
    <2>. QED
        BY <2>1, <2>3, <2>4, NeatSame DEF SameParts
<1>. QED
    BY <1>2, <1>3, <1>4 DEF Comes

\* A client that is alone and in order shows nothing of its own.
LEMMA InOrderShows ==
    ASSUME NEW k, NEW s, NEW tree, InOrder(k), Solo(k, s, tree), Hides(k)
    PROVE  /\ Exact(k, tree) \/ k.writes # {}
           /\ Shows(k, s, tree) /\ Prompted(k)
<1>1. k.writes = {} => Exact(k, tree)
    BY DEF Solo, Agrees, Free, Exact
<1>2. k.regs = {} => Exact(k, tree)
    BY DEF Hides, Covered, Exact
<1>. QED
    BY <1>1, <1>2 DEF InOrder, Exact, Shows, Prompted

\* What the server does to the tree: nothing, or it applies a write that is pending.
LEMMA NetworkWrites ==
    ASSUME Inv, NEW c \in Client, Network(c) \/ Disconnect(c)
    PROVE  \/ data' = data
           \/ \E w \in client[c].writes :
                data' = [l \in Leaf |-> IF l \in DOMAIN w.put THEN w.put[l] ELSE data[l]]
<1>1. CASE ServePut(c)
    <2>1. PICK q \in client[c].out :
            /\ q.kind = "put"
            /\ data' = [l \in Leaf |-> IF l \in DOMAIN q.put THEN q.put[l] ELSE data[l]]
        BY <1>1 DEF ServePut
    <2>2. \E w \in client[c].writes : q.rank = w.id /\ q.put = w.put
        BY <2>1, Local DEF Sound, Numbered
    <2>. QED
        BY <2>1, <2>2
<1>2. CASE ~ServePut(c)
    BY <1>2 DEF Network, Disconnect, ServeListen, ServeUnlisten, RejectPut, ReceivePush,
                ReceiveListen, ReceiveAck, AckPuts, Reconnect
<1>. QED
    BY <1>1, <1>2
=============================================================================
