-------------------------- MODULE RealtimeDatabase --------------------------
(***************************************************************************)
(* The Firebase Realtime Database as the app uses it through               *)
(* DatabaseManager: one server tree and, in every device (client), the     *)
(* vendored client that keeps a server cache, the pending writes laid over *)
(* it, the event registrations, and the queue of blocks it dispatches to   *)
(* the main thread.                                                        *)
(*                                                                         *)
(* The tree is a function on its leaves: a path is the set of leaves below *)
(* it, and setValue at a path overwrites every leaf of the path (the ones  *)
(* the new value does not mention become Absent).                          *)
(*                                                                         *)
(* The state of a client is a record, and a call of the API is an operator *)
(* from record to record, so that the modules of the app compose the calls *)
(* one callback makes into one step.                                       *)
(***************************************************************************)
EXTENDS Naturals, Sequences, FiniteSets

CONSTANTS
    Client,     \* devices running the app
    Leaf,       \* the leaves of the tree
    Value,      \* what a leaf may hold
    Absent,     \* the value of a leaf that is not in the tree
    Unknown,    \* a leaf the client's server cache has no data for
    Path,       \* the paths the app observes, as sets of leaves
    Tag,        \* the callbacks the app passes to observe and setValue
    Initial,    \* the tree when the devices start
    MaxId,      \* bound on the ids a client gives (standalone runs only)
    Reuse,      \* whether ids are given again, so that a run that never ends has
                \* finitely many states
    MaxDrops,   \* bound on the connections lost, over all clients
    MayReject   \* whether the server may refuse a write

ASSUME ValueAssumption ==
    /\ Absent \in Value
    /\ Unknown \notin Value
    /\ Initial \in [Leaf -> Value]
ASSUME PathAssumption == Path \subseteq SUBSET Leaf
\* A path has finitely many ancestors, so that among any paths one is outermost.
ASSUME DepthAssumption ==
    \A paths \in SUBSET Path : \A p \in paths :
        \E q \in paths : /\ p \subseteq q
                         /\ \A r \in paths : q \subseteq r => q = r
ASSUME BoundAssumption == MaxId \in Nat /\ MaxDrops \in Nat
ASSUME RejectAssumption == MayReject \in BOOLEAN
ASSUME ReuseAssumption == Reuse \in BOOLEAN

VARIABLES
    data,       \* the tree, in the server
    sub,        \* sub[c]: the listens the server serves on c's connection
    in,         \* in[c]: the server's messages on their way to c, in order
    client,     \* client[c]: the state of the vendored client in device c
    drops       \* connections lost so far (bounds the runs)

vars == <<data, sub, in, client, drops>>

-----------------------------------------------------------------------------
(* The shapes of the data. *)

\* What setValue hands over: a value for each leaf of the path it is called on.
Put == UNION {[S -> Value] : S \in SUBSET Leaf}

\* A FWriteRecord: a write that the server has not acknowledged.
Write == [id : Nat, put : Put, tag : Tag]

\* A FValueEventRegistration; single: made by observeSingleEvent.
Reg == [id : Nat, path : Path, single : BOOLEAN, tag : Tag]

\* The server's answer to a put.
Ack == [id : Nat, ok : BOOLEAN]

\* Requests on the wire; the server serves them by rank.
Listen == [kind : {"listen"}, rank : Nat, path : Path]
Request ==
    Listen \cup [kind : {"unlisten"}, rank : Nat, path : Path]
           \cup [kind : {"put"}, rank : Nat, put : Put]

\* What the server sends: the answer to a listen, a change, the answer to a put.
Message ==
    [kind : {"listen"}, put : Put, to : Listen]
        \cup [kind : {"push"}, put : Put]
        \cup [kind : {"ack"}, ack : Ack]

\* A leaf as a client sees it.
Seen == Value \cup {Unknown}

\* Blocks dispatched to the main queue. A "value" batch holds the registrations
\* whose callback is to run and what they see.
Event ==
    [kind : {"value"}, todo : SUBSET Reg, view : [Leaf -> Seen]]
        \cup [kind : {"done"}, tag : Tag, ok : BOOLEAN]

ClientState ==
    [conn : BOOLEAN,             \* FPersistentConnection connectionState
     cache : [Leaf -> Seen],     \* FViewCache cachedServerSnap
     writes : SUBSET Write,      \* FWriteTree allWrites
     regs : SUBSET Reg,          \* FView eventRegistrations
     out : SUBSET Request,       \* requests sent and not yet served
     unacked : SUBSET Listen,    \* the listens unackedListensCount counts
     held : SUBSET Ack,          \* putsToAck
     flush : BOOLEAN,            \* inside ackPuts
     main : Seq(Event),          \* the main dispatch queue
     next : Nat]                 \* above every write id, handle and request number

TypeOK ==
    /\ data \in [Leaf -> Value]
    /\ sub \in [Client -> SUBSET Path]
    /\ in \in [Client -> Seq(Message)]
    /\ client \in [Client -> ClientState]
    /\ drops \in Nat

-----------------------------------------------------------------------------
(* What a client sees: its pending writes, in the order of their ids, over *)
(* its server cache.                                                       *)

\* The write that shows at l: the last of those that cover it.
Top(writes, l) ==
    {w \in writes : /\ l \in DOMAIN w.put
                    /\ \A v \in writes : l \in DOMAIN v.put => v.id <= w.id}

View(cache, writes) ==
    [l \in Leaf |-> IF Top(writes, l) = {}
                    THEN cache[l]
                    ELSE (CHOOSE w \in Top(writes, l) : TRUE).put[l]]

Sees(k) == View(k.cache, k.writes)

Complete(view, p) == \A l \in p : view[l] # Unknown

\* The value events raised when k becomes k2, except for those that a new
\* registration gets: every registration whose snapshot is complete and changed.
Changed(k, k2) ==
    {r \in k2.regs : /\ Complete(Sees(k2), r.path)
                     /\ \E l \in r.path : Sees(k)[l] # Sees(k2)[l]}

\* Dispatches the callbacks of the registrations of todo to the main queue.
Raise(k, todo) ==
    IF todo = {}
    THEN k
    ELSE LET sees == Sees(k)
             view == [l \in Leaf |-> IF \E r \in todo : l \in r.path
                                     THEN sees[l] ELSE Unknown]
         IN  [k EXCEPT !.main = Append(@, [kind |-> "value", todo |-> todo,
                                           view |-> view])]

\* Only the outermost observed paths are listened to.
Outermost(regs) ==
    LET paths == {r.path : r \in regs}
    IN  {p \in paths : \A q \in paths : p \subseteq q => p = q}

Covered(regs) == UNION {r.path : r \in regs}

-----------------------------------------------------------------------------
(* The calls of the API. *)

Queued(k) == UNION {k.main[i].todo :
                    i \in {j \in DOMAIN k.main : k.main[j].kind = "value"}}

\* The next write id, handle or request number. The client counts; only the
\* order of the ids in use is ever looked at, so that counting again from the
\* last one in use makes no difference.
Fresh(k) ==
    IF Reuse
    THEN CHOOSE n \in 0..k.next :
            \/ n = k.next
            \/ /\ n > 0
               /\ \A w \in k.writes \cup k.regs \cup Queued(k) : w.id < n
               /\ \A q \in k.out \cup k.unacked : q.rank < n
    ELSE k.next

\* Replaces the registrations: listens to the paths that became outermost, then
\* stops listening to the ones that no longer are, and forgets the data that no
\* registration covers.
Relisten(k, regs) ==
    LET old == Outermost(k.regs)
        new == Outermost(regs)
        id == Fresh(k)
        listens == {[kind |-> "listen", rank |-> id, path |-> p] :
                        p \in new \ old}
        unlistens == {[kind |-> "unlisten", rank |-> id + 1, path |-> p] :
                        p \in old \ new}
    IN  [k EXCEPT
            !.regs = regs,
            !.cache = [l \in Leaf |-> IF l \in Covered(regs)
                                      THEN @[l] ELSE Unknown],
            !.out = IF k.conn THEN @ \cup listens \cup unlistens ELSE @,
            !.unacked = IF k.conn THEN @ \cup listens ELSE @,
            !.next = id + 2]

\* observe and observeSingleEvent: the first event is raised at once when what
\* the client knows of the path is complete.
Observe(k, path, single, tag) ==
    LET r == [id |-> Fresh(k), path |-> path, single |-> single, tag |-> tag]
        k2 == Relisten(k, k.regs \cup {r})
    IN  Raise(k2, IF Complete(Sees(k2), path) THEN {r} ELSE {})

\* removeObserverWithHandle
Unobserve(k, r) == Relisten(k, k.regs \ {r})

\* (mutant) The whole tree is written back as this device sees it.
SetWholeTree(k, put) ==
    [l \in Leaf |-> IF l \in DOMAIN put THEN put[l] ELSE Sees(k)[l]]

\* What is written: the leaves of the path, and no other.
Overwrites(k, put) == put

\* setValue: the write is pending and visible at once; it is sent when the
\* client is connected.
SetValue(k, put, tag) ==
    LET over == Overwrites(k, put)
        w == [id |-> Fresh(k), put |-> over, tag |-> tag]
        k2 == [k EXCEPT
                !.writes = @ \cup {w},
                !.out = IF k.conn
                        THEN @ \cup {[kind |-> "put", rank |-> w.id,
                                      put |-> over]}
                        ELSE @,
                !.next = w.id + 1]
    IN  Raise(k2, Changed(k, k2))

-----------------------------------------------------------------------------
(* The main queue. *)

\* The callbacks of a batch run by handle at each path.
Ready(k) ==
    IF k.main # <<>> /\ Head(k.main).kind = "value"
    THEN {r \in Head(k.main).todo :
            \A q \in Head(k.main).todo : q.path = r.path => r.id <= q.id}
    ELSE {}

Without(batch, r) == [batch EXCEPT !.todo = @ \ {r}]

\* Takes the block of r off the main queue.
TakeValue(k, r) ==
    [k EXCEPT !.main = IF Head(k.main).todo = {r}
                       THEN Tail(k.main)
                       ELSE [k.main EXCEPT ![1] = Without(Head(k.main), r)]]

\* The wrapped callback of observeSingleEvent removes itself on its first call
\* and does nothing on later ones; k2 is what the callback proper then starts
\* from.
Stale(k, r) == r.single /\ r \notin k.regs

Begin(k, r) ==
    IF r.single THEN Unobserve(TakeValue(k, r), r) ELSE TakeValue(k, r)

TakeDone(k) == [k EXCEPT !.main = Tail(@)]

-----------------------------------------------------------------------------
(* The network. *)

ClientInit ==
    [conn |-> TRUE, cache |-> [l \in Leaf |-> Unknown], writes |-> {},
     regs |-> {}, out |-> {}, unacked |-> {}, held |-> {}, flush |-> FALSE,
     main |-> <<>>, next |-> 1]

Init ==
    /\ data = Initial
    /\ sub = [c \in Client |-> {}]
    /\ in = [c \in Client |-> <<>>]
    /\ client = [c \in Client |-> ClientInit]
    /\ drops = 0

\* The request of c that the server serves next: requests travel in order,
\* except that the listens of a restored connection are sent in no known order.
Next1(c, q) ==
    /\ q \in client[c].out
    /\ \A p \in client[c].out : q.rank <= p.rank

Served(c, q) == [client EXCEPT ![c].out = @ \ {q}]

\* The server answers a listen with the data at its path.
ServeListen(c) ==
    \E q \in client[c].out :
        /\ Next1(c, q)
        /\ q.kind = "listen"
        /\ sub' = [sub EXCEPT ![c] = @ \cup {q.path}]
        /\ in' = [in EXCEPT ![c] =
                    Append(@, [kind |-> "listen", to |-> q,
                               put |-> [l \in q.path |-> data[l]]])]
        /\ client' = Served(c, q)
        /\ UNCHANGED <<data, drops>>

ServeUnlisten(c) ==
    \E q \in client[c].out :
        /\ Next1(c, q)
        /\ q.kind = "unlisten"
        /\ sub' = [sub EXCEPT ![c] = @ \ {q.path}]
        /\ client' = Served(c, q)
        /\ UNCHANGED <<data, in, drops>>

\* What a client that listens to paths is sent when put is written.
Pushed(put, paths) == DOMAIN put \cap UNION paths

\* The server applies a write, sends it to every client that listens to a leaf
\* of it, the writer included, and then answers the writer.
ServePut(c) ==
    \E q \in client[c].out :
        /\ Next1(c, q)
        /\ q.kind = "put"
        /\ data' = [l \in Leaf |-> IF l \in DOMAIN q.put
                                   THEN q.put[l] ELSE data[l]]
        /\ LET push(d) == IF Pushed(q.put, sub[d]) = {}
                          THEN in[d]
                          ELSE Append(in[d],
                                 [kind |-> "push",
                                  put |-> [l \in Pushed(q.put, sub[d]) |->
                                            q.put[l]]])
               ack == [kind |-> "ack", ack |-> [id |-> q.rank, ok |-> TRUE]]
           IN  in' = [d \in Client |-> IF d = c THEN Append(push(d), ack)
                                       ELSE push(d)]
        /\ client' = Served(c, q)
        /\ UNCHANGED <<sub, drops>>

\* The server refuses a write.
RejectPut(c) ==
    /\ MayReject
    /\ \E q \in client[c].out :
        /\ Next1(c, q)
        /\ q.kind = "put"
        /\ in' = [in EXCEPT ![c] =
                    Append(@, [kind |-> "ack",
                               ack |-> [id |-> q.rank, ok |-> FALSE]])]
        /\ client' = Served(c, q)
    /\ UNCHANGED <<data, sub, drops>>

\* (mutant) A leaf that a pending write hides is not brought up to date.
MergedUnlessHidden(k, put) ==
    {l \in DOMAIN put \cap Covered(k.regs) :
        \A w \in k.writes : l \notin DOMAIN w.put}

\* The leaves that server data replaces.
Merged(k, put) == DOMAIN put \cap Covered(k.regs)

\* Server data replaces the leaves of the cache that a registration covers.
Merge(k, put) ==
    LET k2 == [k EXCEPT !.cache =
                [l \in Leaf |-> IF l \in Merged(k, put) THEN put[l] ELSE @[l]]]
    IN  Raise(k2, Changed(k, k2))

\* A write is answered: it is no longer pending, so that the server cache shows
\* through, and its completion is called. Refused or not, the view is what the
\* cache and the other writes say.
Answer(k, ack) ==
    LET w == CHOOSE v \in k.writes : v.id = ack.id
        k2 == [k EXCEPT !.writes = @ \ {w}]
        k3 == Raise(k2, Changed(k, k2))
    IN  [k3 EXCEPT !.main = Append(@, [kind |-> "done", tag |-> w.tag,
                                       ok |-> ack.ok])]

Arrived(c, kind) ==
    /\ ~client[c].flush
    /\ in[c] # <<>>
    /\ Head(in[c]).kind = kind
    /\ in' = [in EXCEPT ![c] = Tail(@)]

ReceivePush(c) ==
    /\ Arrived(c, "push")
    /\ client' = [client EXCEPT ![c] = Merge(@, Head(in[c]).put)]
    /\ UNCHANGED <<data, sub, drops>>

\* The response to the last unanswered listen releases the puts to ack.
ReceiveListen(c) ==
    /\ Arrived(c, "listen")
    /\ LET m == Head(in[c])
           k == Merge(client[c], m.put)
       IN  client' = [client EXCEPT ![c] =
                        [k EXCEPT !.unacked = @ \ {m.to},
                                  !.flush = /\ k.unacked \ {m.to} = {}
                                            /\ k.held # {}]]
    /\ UNCHANGED <<data, sub, drops>>

\* (mutant) Answers are never held back.
NeverHolds(k) == FALSE

Holds(k) == k.unacked # {}

\* The answer to a put is held back while a listen has no response.
ReceiveAck(c) ==
    /\ Arrived(c, "ack")
    /\ LET k == client[c]
           ack == Head(in[c]).ack
       IN  client' = [client EXCEPT ![c] =
                        IF Holds(k)
                        THEN [k EXCEPT !.held = @ \cup {ack}]
                        ELSE Answer(k, ack)]
    /\ UNCHANGED <<data, sub, drops>>

\* A held answer is acted on; the loop ends with the last of them.
Acked(k, ack) ==
    [Answer(k, ack) EXCEPT !.held = @ \ {ack}, !.flush = k.held # {ack}]

\* One turn of the loop that acks the held puts, in the order they arrived.
AckPuts(c) ==
    /\ client[c].flush
    /\ \E ack \in client[c].held :
        /\ \A a \in client[c].held : ack.id <= a.id
        /\ client' = [client EXCEPT ![c] = Acked(@, ack)]
    /\ UNCHANGED <<data, sub, in, drops>>

\* (mutant) The listens of the lost connection still count as unanswered.
CutOffStillCounting(k) == [k EXCEPT !.conn = FALSE, !.out = {}]

CutOff(k) == [k EXCEPT !.conn = FALSE, !.out = {}, !.unacked = {}]

\* What was on its way to the device is lost.
DropsInbox(c) == [in EXCEPT ![c] = <<>>]

\* The connection is lost with everything on it. The server may have applied a
\* write whose answer is lost.
Disconnect(c) ==
    /\ drops < MaxDrops
    /\ client[c].conn
    /\ ~client[c].flush
    /\ drops' = drops + 1
    /\ sub' = [sub EXCEPT ![c] = {}]
    /\ in' = DropsInbox(c)
    /\ client' = [client EXCEPT ![c] = CutOff(@)]
    /\ UNCHANGED data

\* (mutant) No listen is sent again.
ForgetsListens(k) == {}

RestoredListens(k) ==
    {[kind |-> "listen", rank |-> 0, path |-> p] : p \in Outermost(k.regs)}

\* (mutant) Puts whose answer is held back are sent again.
RestoresAllPuts(k) ==
    {[kind |-> "put", rank |-> w.id, put |-> w.put] : w \in k.writes}

\* (mutant) No put is sent again.
ForgetsPuts(k) == {}

RestoredPuts(k) ==
    {[kind |-> "put", rank |-> w.id, put |-> w.put] :
        w \in {v \in k.writes : \A a \in k.held : a.id # v.id}}

\* restoreState: the listens are sent again, then the outstanding puts in order.
Reconnect(c) ==
    /\ ~client[c].conn
    /\ LET k == client[c]
       IN  client' = [client EXCEPT ![c] =
                        [k EXCEPT !.conn = TRUE,
                                  !.out = RestoredListens(k) \cup RestoredPuts(k),
                                  !.unacked = RestoredListens(k)]]
    /\ UNCHANGED <<data, sub, in, drops>>

Network(c) ==
    \/ ServeListen(c) \/ ServeUnlisten(c) \/ ServePut(c) \/ RejectPut(c)
    \/ ReceivePush(c) \/ ReceiveListen(c) \/ ReceiveAck(c) \/ AckPuts(c)
    \/ Reconnect(c)

-----------------------------------------------------------------------------
(* Any program that uses the database: it may make any call at any time. *)

\* The queue that runs the calls is not in the middle of acking puts.
Idle(c) == ~client[c].flush

CallObserve(c) ==
    /\ Idle(c)
    /\ client[c].next < MaxId
    /\ \E path \in Path, single \in BOOLEAN, tag \in Tag :
        client' = [client EXCEPT ![c] = Observe(@, path, single, tag)]
    /\ UNCHANGED <<data, sub, in, drops>>

CallSetValue(c) ==
    /\ Idle(c)
    /\ client[c].next < MaxId
    /\ \E path \in Path, tag \in Tag : \E put \in [path -> Value] :
        client' = [client EXCEPT ![c] = SetValue(@, put, tag)]
    /\ UNCHANGED <<data, sub, in, drops>>

\* A value callback runs on the main queue.
RunValue(c) ==
    /\ Idle(c)
    /\ \E r \in Ready(client[c]) :
        /\ client' = [client EXCEPT ![c] = IF Stale(@, r) THEN TakeValue(@, r)
                                           ELSE Begin(@, r)]
    /\ UNCHANGED <<data, sub, in, drops>>

\* The completion of a setValue runs on the main queue.
RunDone(c) ==
    /\ client[c].main # <<>>
    /\ Head(client[c].main).kind = "done"
    /\ client' = [client EXCEPT ![c] = TakeDone(@)]
    /\ UNCHANGED <<data, sub, in, drops>>

Next ==
    \E c \in Client :
        \/ ServeListen(c) \/ ServeUnlisten(c) \/ ServePut(c) \/ RejectPut(c)
        \/ ReceivePush(c) \/ ReceiveListen(c) \/ ReceiveAck(c) \/ AckPuts(c)
        \/ Disconnect(c) \/ Reconnect(c)
        \/ CallObserve(c) \/ CallSetValue(c) \/ RunValue(c) \/ RunDone(c)

Spec == Init /\ [][Next]_vars

\* The server and the client's queues make progress and a lost connection is
\* tried again; nothing obliges the app to call or the network to fail.
Fairness ==
    \A c \in Client : /\ WF_vars(Network(c))
                      /\ WF_vars(RunValue(c))
                      /\ WF_vars(RunDone(c))
FairSpec == Spec /\ Fairness
-----------------------------------------------------------------------------
(* Properties. *)

AcksIn(s) == {s[i].ack : i \in {j \in DOMAIN s : s[j].kind = "ack"}}

\* The ids of the writes that wait for an answer, of those whose put the server
\* has not served, of those whose answer travels, and of those whose answer is
\* held back.
PendingIds(k) == {w.id : w \in k.writes}
PutIds(k) == {q.rank : q \in {p \in k.out : p.kind = "put"}}
AckIds(s) == {a.id : a \in AcksIn(s)}
HeldIds(k) == {a.id : a \in k.held}

\* Two answers in one inbox are to two writes.
Once(s) ==
    \A i, j \in DOMAIN s :
        /\ s[i].kind = "ack" /\ s[j].kind = "ack"
        /\ s[i].ack.id = s[j].ack.id
        => i = j

Accounted(k, s) ==
    /\ Once(s)
    /\ PutIds(k) \cup AckIds(s) \cup HeldIds(k) \subseteq PendingIds(k)
    /\ PutIds(k) \cap AckIds(s) = {}
    /\ PutIds(k) \cap HeldIds(k) = {}
    /\ AckIds(s) \cap HeldIds(k) = {}
    /\ k.conn => PendingIds(k) \subseteq PutIds(k) \cup AckIds(s) \cup HeldIds(k)

\* A completion is called exactly once. On a live connection every pending write
\* has its put or its answer in flight or its answer held back, and only one of
\* the three; nothing is in flight or held for a write that is not pending
\* (FWriteTree.removeWriteId asserts it: "called with nonexistent writeId").
WritesAccounted == \A c \in Client : Accounted(client[c], in[c])

\* What makes it inductive: ids are fresh and tell writes apart, what is on
\* the wire is what is pending, and a lost connection leaves nothing behind.
Numbered(k, s) ==
    /\ \A w \in k.writes : w.id < k.next
    /\ \A v, w \in k.writes : v.id = w.id => v = w
    /\ \A q \in k.out : q.kind = "put" =>
            \E w \in k.writes : q.rank = w.id /\ q.put = w.put
    /\ \A a, b \in k.held : a.id = b.id => a = b
    /\ ~k.conn => k.out = {} /\ s = <<>>

\* The inductive invariant of the writes.
WritesInv ==
    \A c \in Client :
        /\ Accounted(client[c], in[c])
        /\ Numbered(client[c], in[c])
        /\ ~client[c].conn => sub[c] = {}

\* What unackedListensCount counts are the listens on the wire and their
\* responses: it never goes negative, as FPersistentConnection asserts, and never
\* stays positive, which would hold every completion back for good.
UnackedExact ==
    \A c \in Client :
        client[c].unacked =
            {q \in client[c].out : q.kind = "listen"}
                \cup {in[c][i].to : i \in {j \in DOMAIN in[c] :
                                            in[c][j].kind = "listen"}}

\* The value of l when everything in c's inbox has been merged.
Latest(c, l) ==
    LET on == {i \in DOMAIN in[c] :
                in[c][i].kind # "ack" /\ l \in DOMAIN in[c][i].put}
    IN  IF on = {}
        THEN client[c].cache[l]
        ELSE in[c][CHOOSE i \in on : \A j \in on : j <= i].put[l]

\* A connected client never misses a change to what it observes: a listen that
\* covers the leaf is still to be served, or the server has one, and the cache
\* brought up to date with the inbox is what the server has. It must survive the
\* listens that replace one another when a parent or a child path is observed or
\* dropped, and reconnections.
NoMissedUpdate ==
    \A c \in Client : \A l \in Covered(client[c].regs) :
        client[c].conn =>
            \/ \E q \in client[c].out : q.kind = "listen" /\ l \in q.path
            \/ l \in UNION sub[c] /\ Latest(c, l) = data[l]

\* A path that an observer has seen whole never becomes unknown to it again,
\* which would hide a change from it: this is what the answers are held back for
\* while a listen has no response.
StaysComplete ==
    [][\A c \in Client : \A r \in client[c].regs \cap client'[c].regs :
        Complete(Sees(client[c]), r.path) =>
            Complete(Sees(client'[c]), r.path)]_vars

\* With one device, the answer to a write, whatever it says, shows nothing at the
\* leaves observed that was not shown before and is not what the server has; and
\* while no connection has been lost, the answer to a write that succeeded changes
\* nothing: the server's version of the write is in the cache by then. (After a lost
\* connection it may: an answer held back then waits for another listen while later
\* writes are answered, and its write hides theirs as soon as the leaf is observed.)
NoFlicker ==
    [][\A c \in Client :
        LET k == client[c]
            k2 == client'[c]
        IN  k2.writes # k.writes /\ k2.writes \subseteq k.writes =>
            \A l \in Covered(k.regs) :
                /\ Sees(k2)[l] \in {Sees(k)[l], data[l]}
                /\ drops = 0 /\ k2.main[Len(k2.main)].ok
                    => Sees(k2)[l] = Sees(k)[l]]_vars

\* When the calls and the failures stop, every device sees what the server has in
\* all that it observes, and every write is answered; the one exception is a
\* device that observes nothing: an answer held back when its connection was lost
\* is only released by the response to another listen.
Converges ==
    <>[](\A c \in Client :
            /\ client[c].main = <<>>
            /\ \A l \in Covered(client[c].regs) : client[c].cache[l] = data[l]
            /\ \/ client[c].writes = {}
               \/ client[c].regs = {} /\ PendingIds(client[c]) = HeldIds(client[c]))

=============================================================================
