-------------------------- MODULE Relationships_proofs --------------------------
(***************************************************************************)
(* Proofs about Relationships, for any devices, users, lists and faults:   *)
(* the state is well typed, nobody is made to follow or to be followed,    *)
(* no follower is lost whom nobody asked to drop, and while nobody taps    *)
(* no app crashes and a header that is configured has all that it shows,   *)
(* however often profiles are left and visited again.  What the database   *)
(* does with what is written comes from Provenance_proofs, taken for the   *)
(* lists and the closures of this module.                                  *)
(***************************************************************************)
EXTENDS Relationships, TLAPS, WellFoundedInduction

List == Seq(Entry)

Sided == {l \in Leaf : l[2] \in Sides}

\* The closures: of the lists, of the header and the posts, and the app's blocks.
Changing == [op : {"follow", "unfollow"}, at : Sided, name : Name, page : Page]
Showing == [op : {"header"}, at : Sided, group : Nat,
            shows : {"followers", "following", "isfollower"}]
Reading == [op : {"posts"}, page : Page]
Noticing == [op : {"notify", "reload"}, page : Page]
Toggling == [op : {"toggled"}, page : Page, to : BOOLEAN]

Blocks == Noticing \cup Toggling

Tags == (Changing \cup Showing) \cup (Reading \cup Blocks)

Single == {{l} : l \in Leaf}

R == INSTANCE Provenance_proofs
        WITH Client <- Device, Absent <- Nothing, Value <- List,
             Path <- Single, Tag <- Tags, MaxId <- 0

-----------------------------------------------------------------------------
(* The database as Relationships uses it is the one of the lemmas. *)

LEMMA Assumptions ==
    /\ R!ValueAssumption /\ R!PathAssumption /\ R!DepthAssumption
    /\ R!BoundAssumption /\ R!RejectAssumption /\ R!ReuseAssumption
<1>1. R!ValueAssumption
    <2>1. Nothing \in List
        BY DEF Nothing, List
    <2>. QED
        BY <2>1, InitialAssumption DEF R!ValueAssumption, List
<1>2. R!PathAssumption
    BY DEF R!PathAssumption, Single
<1>3. R!DepthAssumption
    <2>. SUFFICES ASSUME NEW paths \in SUBSET Single, NEW p \in paths
                  PROVE  \E q \in paths : /\ p \subseteq q
                                          /\ \A r \in paths : q \subseteq r => q = r
        BY DEF R!DepthAssumption
    <2>1. ASSUME NEW r \in paths, p \subseteq r PROVE p = r
        BY <2>1 DEF Single
    <2>. QED
        BY <2>1
<1>. QED
    BY <1>1, <1>2, <1>3, FaultAssumption
    DEF R!BoundAssumption, R!RejectAssumption, R!ReuseAssumption

LEMMA SameRaise == \A k, todo : DB!Raise(k, todo) = R!Raise(k, todo)
    BY DEF DB!Raise, R!Raise, DB!Sees, R!Sees, DB!View, R!View, DB!Top, R!Top

LEMMA SameFresh == \A k : DB!Fresh(k) = R!Fresh(k)
    BY DEF DB!Fresh, R!Fresh, DB!Queued, R!Queued

LEMMA SameSees == \A k : DB!Sees(k) = R!Sees(k)
    BY DEF DB!Sees, R!Sees, DB!View, R!View, DB!Top, R!Top

LEMMA SameChanged == \A k, k2 : DB!Changed(k, k2) = R!Changed(k, k2)
    BY SameSees DEF DB!Changed, R!Changed, DB!Complete, R!Complete

LEMMA SameRelisten == \A k, regs : DB!Relisten(k, regs) = R!Relisten(k, regs)
    BY DEF DB!Relisten, R!Relisten, DB!Outermost, R!Outermost, DB!Covered, R!Covered,
           DB!Fresh, R!Fresh, DB!Queued, R!Queued

LEMMA SameObserve ==
    \A k, path, single, tag :
        DB!Observe(k, path, single, tag) = R!Observe(k, path, single, tag)
    BY SameFresh, SameRelisten, SameRaise, SameSees
    DEF DB!Observe, R!Observe, DB!Complete, R!Complete

LEMMA SameSetValue ==
    \A k, put, tag : DB!SetValue(k, put, tag) = R!SetValue(k, put, tag)
    BY DEF DB!SetValue, R!SetValue, DB!Overwrites, R!Overwrites,
           DB!Fresh, R!Fresh, DB!Queued, R!Queued, DB!Raise, R!Raise,
           DB!Changed, R!Changed, DB!Complete, R!Complete,
           DB!Sees, R!Sees, DB!View, R!View, DB!Top, R!Top

LEMMA SameTake ==
    /\ \A k, r : DB!TakeValue(k, r) = R!TakeValue(k, r)
    /\ \A k : DB!TakeDone(k) = R!TakeDone(k) /\ DB!Ready(k) = R!Ready(k)
    /\ \A k, r : DB!Begin(k, r) = R!Begin(k, r)
    BY SameRelisten
    DEF DB!TakeValue, R!TakeValue, DB!TakeDone, R!TakeDone, DB!Ready, R!Ready,
        DB!Begin, R!Begin, DB!Unobserve, R!Unobserve, DB!Without, R!Without

LEMMA SameMerge == \A k, put : DB!Merge(k, put) = R!Merge(k, put)
    BY SameRaise, SameChanged DEF DB!Merge, R!Merge, DB!Merged, R!Merged, DB!Covered, R!Covered

LEMMA SameAnswer ==
    /\ \A k, ack : DB!Answer(k, ack) = R!Answer(k, ack)
    /\ \A k, ack : DB!Acked(k, ack) = R!Acked(k, ack)
    BY DEF DB!Answer, R!Answer, DB!Acked, R!Acked, DB!Raise, R!Raise,
           DB!Changed, R!Changed, DB!Complete, R!Complete,
           DB!Sees, R!Sees, DB!View, R!View, DB!Top, R!Top

LEMMA SameNetwork == \A d : DB!Network(d) <=> R!Network(d)
<1>. SUFFICES ASSUME NEW d PROVE DB!Network(d) <=> R!Network(d)
    OBVIOUS
<1>1. /\ DB!ServeListen(d) <=> R!ServeListen(d)
      /\ DB!ServeUnlisten(d) <=> R!ServeUnlisten(d)
      /\ DB!RejectPut(d) <=> R!RejectPut(d)
    BY DEF DB!ServeListen, R!ServeListen, DB!ServeUnlisten, R!ServeUnlisten,
           DB!RejectPut, R!RejectPut, DB!Next1, R!Next1, DB!Served, R!Served
<1>2. DB!ServePut(d) <=> R!ServePut(d)
    BY DEF DB!ServePut, R!ServePut, DB!Next1, R!Next1, DB!Served, R!Served,
           DB!Pushed, R!Pushed
<1>3. /\ DB!ReceivePush(d) <=> R!ReceivePush(d)
      /\ DB!ReceiveListen(d) <=> R!ReceiveListen(d)
    BY SameMerge DEF DB!ReceivePush, R!ReceivePush, DB!ReceiveListen, R!ReceiveListen,
           DB!Arrived, R!Arrived
<1>4. /\ DB!ReceiveAck(d) <=> R!ReceiveAck(d)
      /\ DB!AckPuts(d) <=> R!AckPuts(d)
    BY SameAnswer DEF DB!ReceiveAck, R!ReceiveAck, DB!AckPuts, R!AckPuts,
           DB!Arrived, R!Arrived, DB!Holds, R!Holds
<1>5. DB!Reconnect(d) <=> R!Reconnect(d)
    BY DEF DB!Reconnect, R!Reconnect, DB!RestoredListens, R!RestoredListens,
           DB!RestoredPuts, R!RestoredPuts, DB!Outermost, R!Outermost
<1>. QED
    BY <1>1, <1>2, <1>3, <1>4, <1>5 DEF DB!Network, R!Network

LEMMA SameStart ==
    /\ DB!Init => R!Init
    /\ \A d : DB!Disconnect(d) => R!Disconnect(d)
    BY DEF DB!Init, R!Init, DB!ClientInit, R!ClientInit, DB!Disconnect, R!Disconnect,
           DB!CutOff, R!CutOff, DB!DropsInbox, R!DropsInbox

-----------------------------------------------------------------------------
(* The steps of a client, in the words of this module. *)

LEMMA StartStep ==
    ASSUME DB!Init, NEW vals, NEW G, \A l \in Leaf : Initial[l] \in vals[l]
    PROVE  R!Inv /\ R!Holding(vals, G)
    BY Assumptions, SameStart, R!StartKept

LEMMA NetworkStep ==
    ASSUME R!Inv, NEW vals, NEW G, R!Holding(vals, G), NEW d \in Device,
           R!Answerable(G[d]), DB!Network(d)
    PROVE  R!Inv' /\ R!Holding(vals, G)'
    BY Assumptions, SameNetwork, R!NetworkKept

LEMMA DisconnectStep ==
    ASSUME R!Inv, NEW vals, NEW G, R!Holding(vals, G), NEW d \in Device,
           DB!Disconnect(d)
    PROVE  R!Inv' /\ R!Holding(vals, G)'
    BY Assumptions, SameStart, R!CutKept

LEMMA StayStep ==
    ASSUME R!Inv, NEW vals, NEW G, R!Holding(vals, G), UNCHANGED database
    PROVE  R!Inv' /\ R!Holding(vals, G)'
<1>1. UNCHANGED R!vars
    BY DEF database, R!vars
<1>. QED
    BY <1>1, Assumptions, R!StayKept

LEMMA ProgramStep ==
    ASSUME R!Inv, NEW vals, NEW G, R!Holding(vals, G), NEW d \in Device,
           NEW k, client' = [client EXCEPT ![d] = k],
           R!Steady(k, in[d], vals, G[d]), k.conn = client[d].conn,
           UNCHANGED <<data, sub, in, drops>>
    PROVE  R!Inv' /\ R!Holding(vals, G)'
    BY Assumptions, R!StepKept

LEMMA LocalSteady ==
    ASSUME R!Inv, NEW vals, NEW G, R!Holding(vals, G), NEW d \in Device
    PROVE  R!Steady(client[d], in[d], vals, G[d]) /\ in[d] \in Seq(R!Message)
    BY Assumptions, R!LocalServed

LEMMA SameGone == [DB!ClientInit EXCEPT !.conn = FALSE] = R!Gone
    BY DEF DB!ClientInit, R!Gone, R!ClientInit

\* Taking a completion, and the callback of a list.
LEMMA DoneStep ==
    ASSUME NEW k, NEW s \in Seq(R!Message), NEW vals, NEW g, R!Steady(k, s, vals, g),
           k.main # <<>>, Head(k.main).kind = "done"
    PROVE  /\ R!Steady(DB!TakeDone(k), s, vals, g) /\ DB!TakeDone(k).conn = k.conn
           /\ <<Head(k.main).tag, Head(k.main).ok>> \in g.done
    BY Assumptions, SameTake, R!TakeDoneServed

LEMMA ValueStep ==
    ASSUME NEW k, NEW s \in Seq(R!Message), NEW vals, NEW g, R!Steady(k, s, vals, g),
           NEW r \in DB!Ready(k)
    PROVE  /\ R!Steady(DB!TakeValue(k, r), s, vals, g)
           /\ DB!TakeValue(k, r).conn = k.conn
           /\ R!Steady(DB!Begin(k, r), s, vals, g) /\ DB!Begin(k, r).conn = k.conn
           /\ r \in g.regs
           /\ \A l \in r.path : /\ l \in Leaf
                                /\ Head(k.main).view[l] \in vals[l]
                                /\ Head(k.main).view[l] \in List
    BY Assumptions, SameTake, R!TakeValueServed, R!BeginServed

LEMMA DispatchStep ==
    ASSUME NEW k, NEW s \in Seq(R!Message), NEW vals, NEW g, R!Steady(k, s, vals, g),
           NEW tag \in Tags, <<tag, TRUE>> \in g.done
    PROVE  /\ R!Steady(Dispatch(k, tag), s, vals, g)
           /\ Dispatch(k, tag).conn = k.conn
<1>1. Dispatch(k, tag) = R!Block(k, tag)
    BY DEF Dispatch, R!Block
<1>3. R!Steady(R!Block(k, tag), s, vals, g) /\ R!Block(k, tag).conn = k.conn
    BY Assumptions, R!BlockServed
<1>. QED
    BY <1>1, <1>3

\* A closure of one list that may be registered.
May(g, at, single, tag) ==
    \A id \in Nat : [id |-> id, path |-> {at}, single |-> single, tag |-> tag] \in g.regs

\* What a call makes of a client in which the program may go on calling.
After(k2, k, s, vals, g) == R!Steady(k2, s, vals, g) /\ k2.conn = k.conn

LEMMA AskStep ==
    ASSUME NEW k, NEW s \in Seq(R!Message), NEW vals, NEW g, R!Steady(k, s, vals, g),
           NEW at \in Leaf, NEW tag \in Tags, May(g, at, TRUE, tag)
    PROVE  After(Ask(k, {at}, tag), k, s, vals, g)
<1>. DEFINE path == {at}
<1>1. path \in Single /\ R!AllowsOnce(g, path, tag)
    BY DEF Single, May, R!AllowsOnce, R!Allows
<1>2. Ask(k, {at}, tag) = R!ObservedOnce(k, path, tag)
    BY SameObserve DEF Ask, R!ObservedOnce
<1>. HIDE DEF path
<1>3. R!Steady(R!ObservedOnce(k, path, tag), s, vals, g) /\ R!ObservedOnce(k, path, tag).conn = k.conn
    BY <1>1, Assumptions, R!ObservedOnceServed
<1>. QED
    BY <1>2, <1>3 DEF After

LEMMA WatchStep ==
    ASSUME NEW k, NEW s \in Seq(R!Message), NEW vals, NEW g, R!Steady(k, s, vals, g),
           NEW at, NEW tag, at \in Leaf => tag \in Tags /\ May(g, at, FALSE, tag)
    PROVE  After(Watches(k, at, tag), k, s, vals, g)
<1>1. CASE at \in Leaf
    <2>. DEFINE path == {at}
    <2>1. path \in Single /\ R!AllowsOn(g, path, tag) /\ tag \in Tags
        BY <1>1 DEF Single, May, R!AllowsOn, R!Allows
    <2>2. Watches(k, at, tag) = R!ObservedOn(k, path, tag)
        BY <1>1, SameObserve DEF Watches, Observe, R!ObservedOn
    <2>. HIDE DEF path
    <2>3. R!Steady(R!ObservedOn(k, path, tag), s, vals, g) /\ R!ObservedOn(k, path, tag).conn = k.conn
        BY <2>1, Assumptions, R!ObservedOnServed
    <2>. QED
        BY <2>2, <2>3 DEF After
<1>2. CASE at \notin Leaf
    BY <1>2 DEF Watches, After
<1>. QED
    BY <1>1, <1>2

-----------------------------------------------------------------------------
(* What removing a name makes of a list. Removed is computed from the front; that it   *)
(* is computed at all, and what it holds, is shown by taking the first place where it  *)
(* would fail.                                                                           *)

LEMMA First ==
    ASSUME NEW S \in SUBSET Nat, S # {}
    PROVE  \E i \in S : \A j \in S : i <= j
<1>1. PICK i \in S : \A j \in S : ~(<<j, i>> \in OpToRel(<, Nat))
    BY NatLessThanWellFounded, WFMin
<1>2. \A j \in S : ~(j < i)
    BY <1>1 DEF OpToRel
<1>. QED
    BY <1>2

\* What is left of the first i entries.
IsWithout(f, list, name) ==
    f = [i \in 0..Len(list) |->
            IF i = 0 THEN <<>>
            ELSE IF list[i] = name THEN f[i - 1]
            ELSE Append(f[i - 1], list[i])]

\* The same as far as n.
Upto(f, n, list, name) ==
    \A i \in 0..n : f[i] = IF i = 0 THEN <<>>
                           ELSE IF list[i] = name THEN f[i - 1]
                           ELSE Append(f[i - 1], list[i])

LEMMA WithoutExists ==
    ASSUME NEW list \in List, NEW name
    PROVE  \E f : IsWithout(f, list, name)
<1>. DEFINE N == Len(list)
            Bad == {n \in 0..N : ~\E f : f = [i \in 0..n |-> f[i]] /\ Upto(f, n, list, name)}
<1>0. N \in Nat
    BY DEF List
<1>. HIDE DEF N
<1>1. Bad = {}
    <2>. SUFFICES ASSUME Bad # {} PROVE FALSE
        OBVIOUS
    <2>1. PICK n \in Bad : \A m \in Bad : n <= m
        <3>1. Bad \in SUBSET Nat
            BY <1>0
        <3>. HIDE DEF Bad
        <3>. QED
            BY <3>1, First
    <2>2. n \in 0..N /\ ~\E f : f = [i \in 0..n |-> f[i]] /\ Upto(f, n, list, name)
        OBVIOUS
    <2>3. CASE n = 0
        <3>. DEFINE f == [i \in 0..0 |-> <<>>]
        <3>1. f = [i \in 0..n |-> f[i]] /\ Upto(f, n, list, name)
            BY <2>3 DEF Upto
        <3>. QED
            BY <2>2, <3>1
    <2>4. CASE n # 0
        <3>1. n - 1 \in 0..N /\ ~(n <= n - 1) /\ n \in Nat
            BY <1>0, <2>2, <2>4
        <3>2. n - 1 \notin Bad
            BY <2>1, <3>1
        <3>3. PICK f : f = [i \in 0..(n - 1) |-> f[i]] /\ Upto(f, n - 1, list, name)
            BY <3>1, <3>2
        <3>. DEFINE last == IF list[n] = name THEN f[n - 1] ELSE Append(f[n - 1], list[n])
                    g == [i \in 0..n |-> IF i = n THEN last ELSE f[i]]
        <3>4. g = [i \in 0..n |-> g[i]]
            OBVIOUS
        <3>5. g[n] = last /\ \A i \in 0..(n - 1) : g[i] = f[i]
            BY <3>1
        <3>6. g[n - 1] = f[n - 1]
            BY <2>4, <3>1, <3>5
        <3>. HIDE DEF g
        <3>7. ASSUME NEW i \in 0..n
              PROVE  g[i] = IF i = 0 THEN <<>>
                            ELSE IF list[i] = name THEN g[i - 1]
                            ELSE Append(g[i - 1], list[i])
            <4>1. CASE i = n
                BY <2>4, <3>5, <3>6, <4>1
            <4>2. CASE i # n
                <5>1. i \in 0..(n - 1) /\ (i # 0 => i - 1 \in 0..(n - 1))
                    BY <3>1, <3>7, <4>2
                <5>2. f[i] = IF i = 0 THEN <<>>
                             ELSE IF list[i] = name THEN f[i - 1]
                             ELSE Append(f[i - 1], list[i])
                    BY <3>3, <5>1 DEF Upto
                <5>3. g[i] = f[i] /\ (i # 0 => g[i - 1] = f[i - 1])
                    BY <3>5, <5>1
                <5>. QED
                    BY <5>2, <5>3
            <4>. QED
                BY <4>1, <4>2
        <3>8. Upto(g, n, list, name)
            BY <3>7 DEF Upto
        <3>. QED
            BY <2>2, <3>4, <3>8
    <2>. QED
        BY <2>3, <2>4
<1>2. N \in 0..N
    BY <1>0
<1>3. PICK f : f = [i \in 0..N |-> f[i]] /\ Upto(f, N, list, name)
    BY <1>1, <1>2
<1>4. \A i \in 0..N : f[i] = IF i = 0 THEN <<>>
                             ELSE IF list[i] = name THEN f[i - 1]
                             ELSE Append(f[i - 1], list[i])
    BY <1>3 DEF Upto
<1>5. f = [i \in 0..N |-> IF i = 0 THEN <<>>
                          ELSE IF list[i] = name THEN f[i - 1]
                          ELSE Append(f[i - 1], list[i])]
    BY <1>3, <1>4
<1>6. IsWithout(f, list, name)
    BY <1>5 DEF IsWithout, N
<1>. QED
    BY <1>6

LEMMA RemovedNames ==
    ASSUME NEW list \in List, NEW name
    PROVE  /\ Removed(list, name) \in List
           /\ Names(Removed(list, name)) = Names(list) \ {name}
<1>1. PICK f : IsWithout(f, list, name) /\ Removed(list, name) = f[Len(list)]
    <2>. DEFINE f == CHOOSE f : IsWithout(f, list, name)
    <2>1. IsWithout(f, list, name)
        BY WithoutExists
    <2>2. Removed(list, name) = f[Len(list)]
        BY DEF Removed, IsWithout
    <2>. QED
        BY <2>1, <2>2
<1>. DEFINE N == Len(list)
            Good(i) == /\ f[i] \in List
                       /\ Names(f[i]) = {list[j] : j \in 1..i} \ {name}
            Bad == {n \in 0..N : ~Good(n)}
<1>2. N \in Nat /\ \A i \in 1..N : list[i] \in Entry
    BY DEF List
<1>3. \A i \in 0..N : f[i] = IF i = 0 THEN <<>>
                             ELSE IF list[i] = name THEN f[i - 1]
                             ELSE Append(f[i - 1], list[i])
    BY <1>1 DEF IsWithout
<1>. HIDE DEF N
<1>4. Bad = {}
    <2>. SUFFICES ASSUME Bad # {} PROVE FALSE
        OBVIOUS
    <2>1. PICK n \in Bad : \A m \in Bad : n <= m
        <3>1. Bad \in SUBSET Nat
            BY <1>2
        <3>. HIDE DEF Bad
        <3>. QED
            BY <3>1, First
    <2>2. CASE n = 0
        <3>1. f[0] = <<>>
            BY <1>2, <1>3
        <3>2. <<>> \in List /\ Names(<<>>) = {} /\ {list[j] : j \in 1..0} = {}
            BY DEF List, Names
        <3>. QED
            BY <2>2, <3>1, <3>2
    <2>3. CASE n # 0
        <3>1. n - 1 \in 0..N /\ ~(n <= n - 1) /\ n \in 1..N
            BY <1>2, <2>3
        <3>2. n - 1 \notin Bad
            BY <2>1, <3>1
        <3>3. /\ f[n - 1] \in List
              /\ Names(f[n - 1]) = {list[j] : j \in 1..(n - 1)} \ {name}
            BY <3>1, <3>2
        <3>4. {list[j] : j \in 1..n} = {list[j] : j \in 1..(n - 1)} \cup {list[n]}
            BY <1>2, <3>1
        <3>5. f[n] = IF list[n] = name THEN f[n - 1] ELSE Append(f[n - 1], list[n])
            BY <1>3, <2>3, <3>1
        <3>6. CASE list[n] = name
            BY <3>3, <3>4, <3>5, <3>6
        <3>7. CASE list[n] # name
            <4>. DEFINE s == f[n - 1]
            <4>1. s \in Seq(Entry) /\ list[n] \in Entry
                BY <1>2, <3>1, <3>3 DEF List
            <4>. HIDE DEF s
            <4>2. Append(s, list[n]) \in List
                BY <4>1 DEF List
            <4>3. Names(Append(s, list[n])) = Names(s) \cup {list[n]}
                BY <4>1 DEF Names
            <4>. QED
                BY <3>3, <3>4, <3>5, <3>7, <4>2, <4>3 DEF s
        <3>. QED
            BY <3>6, <3>7
    <2>. QED
        BY <2>2, <2>3
<1>5. Good(N)
    BY <1>2, <1>4
<1>6. Names(list) = {list[j] : j \in 1..N}
    BY DEF Names, List, N
<1>. QED
    BY <1>1, <1>5, <1>6 DEF N

LEMMA InsertedNames ==
    ASSUME NEW list \in List, NEW name \in Name
    PROVE  /\ Inserted(list, name) \in List
           /\ Names(Inserted(list, name)) = Names(list) \cup {name}
<1>1. list \in Seq(Entry) /\ name \in Entry
    BY DEF List, Entry
<1>2. Append(list, name) \in List
    BY <1>1 DEF List
<1>3. Names(Append(list, name)) = Names(list) \cup {name}
    <2>. DEFINE s == Append(list, name)
    <2>1. /\ Len(list) \in Nat /\ DOMAIN list = 1..Len(list)
          /\ DOMAIN s = 1..(Len(list) + 1) /\ s[Len(list) + 1] = name
          /\ \A i \in 1..Len(list) : s[i] = list[i]
        BY <1>1
    <2>. HIDE DEF s
    <2>2. DOMAIN s = DOMAIN list \cup {Len(list) + 1}
        BY <2>1
    <2>3. Names(s) = Names(list) \cup {name}
        BY <2>1, <2>2 DEF Names
    <2>. QED
        BY <2>3 DEF s
<1>. QED
    BY <1>2, <1>3 DEF Inserted

-----------------------------------------------------------------------------
(* What circulates: A and D are the pairs asked for and dropped, and N are the groups   *)
(* made on each device.                                                                  *)

\* Who is to follow whom when name is in the list at l.
Pair(l, name) == IF l[2] = "following" THEN <<l[1], name>> ELSE <<name, l[1]>>

\* A list names those it named at the start and those asked for, and has lost only those
\* that were dropped.
Fits(l, v, A, D) ==
    /\ Names(v) \subseteq Name
    /\ \A n \in Names(v) : n \in Names(Initial[l]) \/ Pair(l, n) \in A
    /\ \A n \in Names(Initial[l]) : n \in Names(v) \/ Pair(l, n) \in D

Vals(A, D) ==
    [l \in Leaf |-> {v \in List : IF l \in Sided THEN Fits(l, v, A, D) ELSE v = Initial[l]}]

\* A tap makes closures of the pair it was about.
Meant(t, A, D) == IF t.op = "follow" THEN Pair(t.at, t.name) \in A
                                     ELSE Pair(t.at, t.name) \in D

ChangesOf(A, D) == {t \in Changing : Meant(t, A, D)}
HeadersOf(n) == {t \in Showing : t.group \in n}
Lasting(t) == {[id |-> i, path |-> {t.at}, single |-> FALSE, tag |-> t] : i \in Nat}
Posts(l, t) == {[id |-> i, path |-> {l}, single |-> TRUE, tag |-> t] : i \in Nat}

RegsOf(A, D, n) ==
    (UNION {Lasting(t) : t \in ChangesOf(A, D) \cup HeadersOf(n)})
        \cup (UNION {UNION {Posts(l, t) : t \in Reading} : l \in Leaf})
DoneOf(A, D) == {e \in Tags \X BOOLEAN : e[1] \in ChangesOf(A, D) \cup Blocks}

Circulating(A, D, n) ==
    [regs |-> RegsOf(A, D, n), tags |-> ChangesOf(A, D), done |-> DoneOf(A, D)]

G(A, D, N) == [d \in Device |-> Circulating(A, D, N[d])]

LEMMA ClosureFields ==
    ASSUME NEW A, NEW D, NEW N, NEW d \in Device
    PROVE  /\ G(A, D, N)[d].regs = RegsOf(A, D, N[d])
           /\ G(A, D, N)[d].tags = ChangesOf(A, D)
           /\ G(A, D, N)[d].done = DoneOf(A, D)
    BY DEF G, Circulating

LEMMA OfGrows ==
    ASSUME NEW A, NEW D, NEW n, NEW A2, NEW D2, NEW n2,
           A \subseteq A2, D \subseteq D2, n \subseteq n2
    PROVE  /\ RegsOf(A, D, n) \subseteq RegsOf(A2, D2, n2)
           /\ ChangesOf(A, D) \subseteq ChangesOf(A2, D2)
           /\ DoneOf(A, D) \subseteq DoneOf(A2, D2)
<1>1. /\ ChangesOf(A, D) \subseteq ChangesOf(A2, D2)
      /\ HeadersOf(n) \subseteq HeadersOf(n2)
    BY DEF ChangesOf, HeadersOf, Meant
<1>2. RegsOf(A, D, n) \subseteq RegsOf(A2, D2, n2)
    BY <1>1 DEF RegsOf
<1>3. DoneOf(A, D) \subseteq DoneOf(A2, D2)
    BY <1>1 DEF DoneOf
<1>. QED
    BY <1>1, <1>2, <1>3

Laid == [d \in Device |-> DOMAIN groups[d]]

\* The state of the app.
AppOK ==
    /\ profile \in [Device -> Shown \cup {Home, Crashed}]
    /\ groups \in [Device -> Seq(Group)]
    /\ username \in [Device -> Name \cup {NoName}]
    /\ asked \in SUBSET (Name \X Name)
    /\ dropped \in SUBSET (Name \X Name)
    /\ taps \in Nat

IInv == AppOK /\ R!Inv /\ R!Holding(Vals(asked, dropped), G(asked, dropped, Laid))

LEMMA ValsGrow ==
    ASSUME NEW A, NEW D, NEW A2, NEW D2, A \subseteq A2, D \subseteq D2, NEW l \in Leaf
    PROVE  Vals(A, D)[l] \subseteq Vals(A2, D2)[l]
<1>1. \A v : Fits(l, v, A, D) => Fits(l, v, A2, D2)
    BY DEF Fits
<1>. QED
    BY <1>1 DEF Vals

LEMMA Growing ==
    ASSUME NEW A, NEW D, NEW N, NEW A2, NEW D2, NEW N2,
           A \subseteq A2, D \subseteq D2, \A d \in Device : N[d] \subseteq N2[d],
           R!Inv, R!Holding(Vals(A, D), G(A, D, N))
    PROVE  R!Holding(Vals(A2, D2), G(A2, D2, N2))
<1>1. \A l \in Leaf : Vals(A, D)[l] \subseteq Vals(A2, D2)[l]
    BY ValsGrow
<1>2. \A d \in Device : /\ G(A, D, N)[d].regs \subseteq G(A2, D2, N2)[d].regs
                        /\ G(A, D, N)[d].tags \subseteq G(A2, D2, N2)[d].tags
                        /\ G(A, D, N)[d].done \subseteq G(A2, D2, N2)[d].done
    BY ClosureFields, OfGrows
<1>. QED
    BY <1>1, <1>2, Assumptions, R!MoreKept

LEMMA AnswerableG ==
    ASSUME NEW A, NEW D, NEW N, NEW d \in Device
    PROVE  R!Answerable(G(A, D, N)[d])
<1>1. \A t \in ChangesOf(A, D), ok \in BOOLEAN : <<t, ok>> \in DoneOf(A, D)
    BY DEF DoneOf, ChangesOf, Tags
<1>. DEFINE g == G(A, D, N)[d]
<1>2. g.tags = ChangesOf(A, D) /\ g.done = DoneOf(A, D)
    BY ClosureFields
<1>. HIDE DEF g
<1>3. R!Answerable(g)
    BY <1>1, <1>2 DEF R!Answerable
<1>. QED
    BY <1>3 DEF g

\* From what holds of fixed sets to what holds of those of the next state.
LEMMA Next2 ==
    ASSUME NEW A, NEW D, NEW N, A = asked', D = dropped', N = Laid', AppOK',
           R!Inv', R!Holding(Vals(A, D), G(A, D, N))'
    PROVE  IInv'
<1>1. Vals(A, D) = Vals(asked, dropped)' /\ G(A, D, N) = G(asked, dropped, Laid)'
    BY DEF Vals, G, RegsOf, DoneOf, ChangesOf, HeadersOf, Circulating, Meant, Lasting, Posts
<1>2. R!Holding(Vals(asked, dropped), G(asked, dropped, Laid))'
    BY <1>1 DEF R!Holding
<1>. QED
    BY <1>2 DEF IInv

LEMMA IInvStart == Init => IInv
<1>. SUFFICES ASSUME Init PROVE IInv
    OBVIOUS
<1>1. \A l \in Leaf : Initial[l] \in Vals(asked, dropped)[l]
    <2>. SUFFICES ASSUME NEW l \in Leaf PROVE Initial[l] \in Vals(asked, dropped)[l]
        OBVIOUS
    <2>1. Initial[l] \in List /\ (l \in Sided => Fits(l, Initial[l], asked, dropped))
        BY InitialAssumption DEF Fits, List, Sided
    <2>. QED
        BY <2>1 DEF Vals
<1>2. R!Inv /\ R!Holding(Vals(asked, dropped), G(asked, dropped, Laid))
    BY <1>1, StartStep DEF Init
<1>3. AppOK
    BY AccountAssumption DEF Init, AppOK
<1>. QED
    BY <1>2, <1>3 DEF IInv

-----------------------------------------------------------------------------
(* The steps of the app. *)

\* No tap is forgotten, and no group that was made.
Grows ==
    /\ asked \subseteq asked' /\ dropped \subseteq dropped'
    /\ \A d \in Device : DOMAIN groups[d] \subseteq DOMAIN groups'[d]

LEMMA GrowsLaid ==
    ASSUME Grows, NEW A, NEW D, NEW N, A = asked', D = dropped', N = Laid'
    PROVE  /\ asked \subseteq A /\ dropped \subseteq D
           /\ \A d \in Device : Laid[d] \subseteq N[d] /\ N[d] = DOMAIN groups'[d]
    BY DEF Grows, Laid

\* What holds at a device before the step, in terms of what holds after it.
LEMMA At ==
    ASSUME IInv, Grows, NEW A, NEW D, NEW N, A = asked', D = dropped', N = Laid', NEW d \in Device
    PROVE  /\ R!Inv /\ R!Holding(Vals(A, D), G(A, D, N))
           /\ R!Steady(client[d], in[d], Vals(A, D), G(A, D, N)[d])
           /\ in[d] \in Seq(R!Message)
<1>1. /\ R!Inv /\ AppOK
      /\ R!Holding(Vals(asked, dropped), G(asked, dropped, Laid))
    BY DEF IInv
<1>2. R!Holding(Vals(A, D), G(A, D, N))
    <2>1. PICK A1, D1, N1 : A1 = asked /\ D1 = dropped /\ N1 = Laid
        OBVIOUS
    <2>2. A1 \subseteq A /\ D1 \subseteq D /\ \A e \in Device : N1[e] \subseteq N[e]
        BY <1>1, <2>1, GrowsLaid
    <2>3. R!Holding(Vals(A1, D1), G(A1, D1, N1))
        BY <1>1, <2>1
    <2>. QED
        BY <1>1, <2>2, <2>3, Growing
<1>. QED
    BY <1>1, <1>2, LocalSteady

\* A step of the app that leaves the clients alone.
LEMMA Elsewhere ==
    ASSUME IInv, AppOK', Grows, UNCHANGED database
    PROVE  IInv'
<1>1. PICK A, D, N : A = asked' /\ D = dropped' /\ N = Laid'
    OBVIOUS
<1>2. PICK A1, D1, N1 : A1 = asked /\ D1 = dropped /\ N1 = Laid
    OBVIOUS
<1>3. A1 \subseteq A /\ D1 \subseteq D /\ \A e \in Device : N1[e] \subseteq N[e]
    BY <1>1, <1>2, GrowsLaid DEF IInv
<1>4. R!Inv /\ R!Holding(Vals(A1, D1), G(A1, D1, N1))
    BY <1>2 DEF IInv
<1>5. R!Holding(Vals(A, D), G(A, D, N))
    BY <1>3, <1>4, Growing
<1>6. R!Inv' /\ R!Holding(Vals(A, D), G(A, D, N))'
    BY <1>4, <1>5, StayStep
<1>. QED
    BY <1>1, <1>6, Next2

\* A step of a device.
LEMMA Program ==
    ASSUME IInv, AppOK', Grows, NEW d \in Device, NEW k,
           client' = [client EXCEPT ![d] = k], UNCHANGED <<data, sub, in, drops>>,
           NEW A, NEW D, NEW N, A = asked', D = dropped', N = Laid',
           After(k, client[d], in[d], Vals(A, D), G(A, D, N)[d])
    PROVE  IInv'
<1>1. R!Inv /\ R!Holding(Vals(A, D), G(A, D, N))
    BY At
<1>2. R!Inv' /\ R!Holding(Vals(A, D), G(A, D, N))'
    BY <1>1, ProgramStep DEF After
<1>. QED
    BY <1>2, Next2

LEMMA SameGrows == UNCHANGED <<asked, dropped, groups>> => Grows
    BY DEF Grows

LEMMA AfterThen ==
    ASSUME NEW k, NEW k1, NEW k2, NEW s, NEW vals, NEW g,
           After(k1, k, s, vals, g), After(k2, k1, s, vals, g)
    PROVE  After(k2, k, s, vals, g)
    BY DEF After

\* The closures that last, by their tags.
LEMMA MayLast ==
    ASSUME NEW A, NEW D, NEW N, NEW d \in Device,
           NEW t \in ChangesOf(A, D) \cup HeadersOf(N[d])
    PROVE  May(G(A, D, N)[d], t.at, FALSE, t) /\ t \in Tags
<1>1. \A i \in Nat : [id |-> i, path |-> {t.at}, single |-> FALSE, tag |-> t]
                        \in RegsOf(A, D, N[d])
    <2>1. Lasting(t) \subseteq RegsOf(A, D, N[d])
        BY DEF RegsOf
    <2>. QED
        BY <2>1 DEF Lasting
<1>2. t \in Tags
    BY DEF ChangesOf, HeadersOf, Tags
<1>. QED
    BY <1>1, <1>2, ClosureFields DEF May

\* The closures of the groups in n may be registered.
Showable(g, n) == \A t \in HeadersOf(n) : t \in Tags /\ May(g, t.at, FALSE, t)

LEMMA ShowableG ==
    ASSUME NEW A, NEW D, NEW N, NEW d \in Device
    PROVE  Showable(G(A, D, N)[d], N[d])
    BY MayLast DEF Showable

LEMMA ShowStep ==
    ASSUME NEW k, NEW s \in Seq(R!Message), NEW vals, NEW g, R!Steady(k, s, vals, g),
           NEW n, Showable(g, n), NEW group \in n, group \in Nat,
           NEW user, NEW field \in Sides,
           NEW what \in {"followers", "following", "isfollower"},
           NEW k2, k2 = Watches(k, <<lowercased[user], field>>,
                                Shows(user, field, what, group))
    PROVE  After(k2, k, s, vals, g)
<1>1. PICK at, tag : /\ at = <<lowercased[user], field>>
                     /\ tag = Shows(user, field, what, group)
    OBVIOUS
<1>2. ASSUME at \in Leaf PROVE tag \in Tags /\ May(g, at, FALSE, tag)
    <2>1. tag \in Showing /\ tag.at = at /\ tag.group = group
        BY <1>1, <1>2 DEF Shows, Showing, Sided
    <2>2. tag \in HeadersOf(n)
        BY <2>1 DEF HeadersOf
    <2>. QED
        BY <2>1, <2>2 DEF Showable
<1>3. After(Watches(k, at, tag), k, s, vals, g)
    BY <1>2, WatchStep
<1>. QED
    BY <1>1, <1>3

LEMMA HeaderStep ==
    ASSUME NEW k, NEW s \in Seq(R!Message), NEW vals, NEW g, R!Steady(k, s, vals, g),
           NEW n, Showable(g, n), NEW group \in n, group \in Nat,
           NEW me, NEW user
    PROVE  After(ShowHeader(k, me, user, group), k, s, vals, g)
<1>1. PICK k1, k2, k3 :
        /\ k1 = getRelationShips(k, user, "followers", group)
        /\ k2 = getRelationShips(k1, user, "following", group)
        /\ k3 = isValidRelationship(k2, me, user, group)
    OBVIOUS
<1>2. After(k1, k, s, vals, g)
    <2>1. k1 = Watches(k, <<lowercased[user], "followers">>,
                       Shows(user, "followers", "followers", group))
        BY <1>1 DEF getRelationShips
    <2>2. "followers" \in Sides
        BY DEF Sides
    <2>. QED
        BY <2>1, <2>2, ShowStep
<1>3. After(k2, k1, s, vals, g)
    <2>1. k2 = Watches(k1, <<lowercased[user], "following">>,
                       Shows(user, "following", "following", group))
        BY <1>1 DEF getRelationShips
    <2>2. "following" \in Sides
        BY DEF Sides
    <2>3. R!Steady(k1, s, vals, g)
        BY <1>2 DEF After
    <2>. QED
        BY <2>1, <2>2, <2>3, ShowStep
<1>4. After(k3, k2, s, vals, g)
    <2>0. R!Steady(k2, s, vals, g)
        BY <1>3 DEF After
    <2>1. CASE me = NoName
        BY <1>1, <2>0, <2>1 DEF isValidRelationship, After
    <2>2. CASE me # NoName
        <3>1. k3 = Watches(k2, <<lowercased[user], "followers">>,
                           Shows(user, "followers", "isfollower", group))
            BY <1>1, <2>2 DEF isValidRelationship
        <3>2. "followers" \in Sides
            BY DEF Sides
        <3>. QED
            BY <2>0, <3>1, <3>2, ShowStep
    <2>. QED
        BY <2>1, <2>2
<1>5. ShowHeader(k, me, user, group) = k3
    BY <1>1 DEF ShowHeader
<1>. QED
    BY <1>2, <1>3, <1>4, <1>5 DEF After

\* A header is made again: its group comes after those that there were.
LEMMA GroupAdded ==
    ASSUME NEW gs \in Seq(Group), NEW rec \in Group, NEW gs2, gs2 = Append(gs, rec)
    PROVE  /\ gs2 \in Seq(Group) /\ Len(gs) + 1 \in DOMAIN gs2 /\ Len(gs) \in Nat
           /\ DOMAIN gs2 = DOMAIN gs \cup {Len(gs) + 1}
           /\ \A g \in DOMAIN gs : gs2[g] = gs[g]
           /\ gs2[Len(gs) + 1] = rec
           /\ \A g \in DOMAIN gs : g \in Nat /\ g # Len(gs) + 1 /\ gs[g] \in Group
           /\ DOMAIN gs \subseteq DOMAIN gs2
    OBVIOUS

\* The group of a header that is made.
NewGroup(page) == [page |-> page, left |-> Enters]

LEMMA NewGroupIs ==
    ASSUME NEW page \in Page
    PROVE  /\ NewGroup(page) \in Group
           /\ NewGroup(page).page = page /\ NewGroup(page).left = 3
    BY DEF NewGroup, Group, Enters

\* k is what d's client may be made.
Reachable(d, k) ==
    \A A, D, N : A = asked' /\ D = dropped' /\ N = Laid' /\ Grows =>
        After(k, client[d], in[d], Vals(A, D), G(A, D, N)[d])

LEMMA ReloadInv ==
    ASSUME IInv, NEW d \in Device, NEW page \in Page, NEW k, Reload(d, k, page),
           UNCHANGED <<data, sub, in, drops, username, asked, dropped, taps>>,
           profile' \in [Device -> Shown \cup {Home, Crashed}],
           Reachable(d, k)
    PROVE  IInv'
<1>1. AppOK
    BY DEF IInv
<1>2. PICK gs, rec, gs2 : gs = groups[d] /\ rec = NewGroup(page) /\ gs2 = Append(gs, rec)
    OBVIOUS
<1>3. groups' = [groups EXCEPT ![d] = gs2]
    BY <1>2 DEF Reload, NewGroup
<1>4. gs \in Seq(Group)
    BY <1>1, <1>2 DEF AppOK
<1>5. /\ gs2 \in Seq(Group) /\ Len(gs) + 1 \in DOMAIN gs2 /\ Len(gs) \in Nat
      /\ DOMAIN gs \subseteq DOMAIN gs2
    <2>1. rec \in Group
        BY <1>2, NewGroupIs
    <2>. QED
        BY <1>2, <1>4, <2>1, GroupAdded
<1>6. AppOK'
    BY <1>1, <1>3, <1>5 DEF AppOK
<1>7. groups'[d] = gs2 /\ \A e \in Device \ {d} : groups'[e] = groups[e]
    BY <1>1, <1>3 DEF AppOK
<1>8. Grows
    <2>1. \A e \in Device : DOMAIN groups[e] \subseteq DOMAIN groups'[e]
        BY <1>2, <1>5, <1>7
    <2>. QED
        BY <2>1 DEF Grows
<1>9. PICK A, D, N : A = asked' /\ D = dropped' /\ N = Laid'
    OBVIOUS
<1>10. After(k, client[d], in[d], Vals(A, D), G(A, D, N)[d]) /\ in[d] \in Seq(R!Message)
    BY <1>8, <1>9, At DEF Reachable
<1>11. PICK group, k2 : /\ group = Len(gs) + 1
                        /\ k2 = ShowHeader(k, username[d], page.user, group)
    OBVIOUS
<1>12. client' = [client EXCEPT ![d] = k2]
    BY <1>2, <1>11 DEF Reload
<1>13. N[d] = DOMAIN gs2 /\ group \in N[d] /\ group \in Nat
    BY <1>5, <1>7, <1>8, <1>9, <1>11, GrowsLaid
<1>14. After(k2, k, in[d], Vals(A, D), G(A, D, N)[d])
    <2>1. Showable(G(A, D, N)[d], N[d])
        BY ShowableG
    <2>2. R!Steady(k, in[d], Vals(A, D), G(A, D, N)[d])
        BY <1>10 DEF After
    <2>3. PICK me, user : me = username[d] /\ user = page.user
        OBVIOUS
    <2>4. After(ShowHeader(k, me, user, group), k, in[d], Vals(A, D), G(A, D, N)[d])
        BY <1>10, <1>13, <2>1, <2>2, HeaderStep
    <2>. QED
        BY <1>11, <2>3, <2>4
<1>15. After(k2, client[d], in[d], Vals(A, D), G(A, D, N)[d])
    BY <1>10, <1>14, AfterThen
<1>. QED
    BY <1>6, <1>8, <1>9, <1>12, <1>15, Program

\* The posts of a profile are asked for.
LEMMA PostsStep ==
    ASSUME NEW A, NEW D, NEW N, NEW d \in Device, NEW k, NEW s \in Seq(R!Message), NEW vals,
           R!Steady(k, s, vals, G(A, D, N)[d]), NEW user, NEW page \in Page
    PROVE  After(getPosts(k, user, page), k, s, vals, G(A, D, N)[d])
<1>1. PICK at, tag : at = <<lowercased[user], "posts">> /\ tag = [op |-> "posts", page |-> page]
    OBVIOUS
<1>2. CASE at \in Leaf
    <2>1. tag \in Reading /\ tag \in Tags
        BY <1>1 DEF Tags, Reading
    <2>2. Posts(at, tag) \subseteq RegsOf(A, D, N[d])
        BY <1>2, <2>1 DEF RegsOf
    <2>3. \A i \in Nat : [id |-> i, path |-> {at}, single |-> TRUE, tag |-> tag]
                            \in RegsOf(A, D, N[d])
        BY <2>2 DEF Posts
    <2>4. May(G(A, D, N)[d], at, TRUE, tag)
        BY <2>3, ClosureFields DEF May
    <2>5. After(Ask(k, {at}, tag), k, s, vals, G(A, D, N)[d])
        BY <1>2, <2>1, <2>4, AskStep
    <2>. QED
        BY <1>1, <1>2, <2>5 DEF getPosts
<1>3. CASE at \notin Leaf
    BY <1>1, <1>3 DEF getPosts, After
<1>. QED
    BY <1>2, <1>3

\* The page that is visited.
LEMMA VisitStep ==
    ASSUME AppOK, NEW d \in Device, Visit(d)
    PROVE  \E page \in Page, p \in Shown :
            /\ profile' = [profile EXCEPT ![d] = p] /\ ~p.ready
            /\ Reload(d, getPosts(client[d], page.user, page), page)
<1>1. PICK user \in Profile :
        LET page == [user |-> user, number |-> Len(groups[d]) + 1]
        IN  /\ profile' = [profile EXCEPT ![d] =
                            [screen |-> "profile", page |-> page,
                             isfollower |-> FALSE, ready |-> FALSE]]
            /\ Reload(d, getPosts(client[d], user, page), page)
    BY DEF Visit
<1>2. PICK page, p : /\ page = [user |-> user, number |-> Len(groups[d]) + 1]
                     /\ p = [screen |-> "profile", page |-> page,
                             isfollower |-> FALSE, ready |-> FALSE]
    OBVIOUS
<1>3. Len(groups[d]) \in Nat /\ user \in Name
    BY AccountAssumption DEF AppOK
<1>4. page \in Page /\ page.user = user
    BY <1>2, <1>3 DEF Page
<1>5. p \in Shown /\ ~p.ready
    BY <1>2, <1>4 DEF Shown
<1>. QED
    BY <1>1, <1>2, <1>4, <1>5

LEMMA VisitInv ==
    ASSUME IInv, NEW d \in Device, Visit(d)
    PROVE  IInv'
<1>1. AppOK
    BY DEF IInv
<1>2. PICK page \in Page, p \in Shown :
        /\ profile' = [profile EXCEPT ![d] = p]
        /\ Reload(d, getPosts(client[d], page.user, page), page)
    BY <1>1, VisitStep
<1>3. UNCHANGED <<data, sub, in, drops, username, asked, dropped, taps>>
    BY DEF Visit, history
<1>4. profile' \in [Device -> Shown \cup {Home, Crashed}]
    BY <1>1, <1>2 DEF AppOK
<1>5. PICK k : k = getPosts(client[d], page.user, page)
    OBVIOUS
<1>6. ASSUME NEW A, NEW D, NEW N, A = asked', D = dropped', N = Laid', Grows
      PROVE  After(k, client[d], in[d], Vals(A, D), G(A, D, N)[d])
    <2>1. R!Steady(client[d], in[d], Vals(A, D), G(A, D, N)[d]) /\ in[d] \in Seq(R!Message)
        BY <1>6, At
    <2>2. PICK user : user = page.user
        OBVIOUS
    <2>3. After(getPosts(client[d], user, page), client[d], in[d], Vals(A, D), G(A, D, N)[d])
        BY <2>1, PostsStep
    <2>. QED
        BY <1>5, <2>2, <2>3
<1>7. Reload(d, k, page) /\ Reachable(d, k)
    BY <1>2, <1>5, <1>6 DEF Reachable
<1>. QED
    BY <1>3, <1>4, <1>7, ReloadInv

\* A screen changes, and the client does not.
LEMMA ScreenInv ==
    ASSUME IInv, NEW d \in Device, Leave(d) \/ SignOut(d) \/ Relaunch(d)
    PROVE  IInv'
<1>1. AppOK
    BY DEF IInv
<1>2. UNCHANGED <<database, groups, asked, dropped, taps>>
    BY DEF Leave, SignOut, Relaunch, history
<1>3. profile' = [profile EXCEPT ![d] = Home]
    BY DEF Leave, SignOut, Relaunch
<1>4. username' = username \/ username' = [username EXCEPT ![d] = NoName]
    BY DEF Leave, SignOut, Relaunch
<1>5. AppOK'
    BY <1>1, <1>2, <1>3, <1>4 DEF AppOK
<1>. QED
    BY <1>2, <1>5, SameGrows, Elsewhere

LEMMA WireInv ==
    ASSUME IInv, NEW d \in Device, Network(d) \/ Disconnect(d)
    PROVE  IInv'
<1>1. PICK A, D, N : A = asked /\ D = dropped /\ N = Laid
    OBVIOUS
<1>2. AppOK /\ R!Inv /\ R!Holding(Vals(A, D), G(A, D, N))
    BY <1>1 DEF IInv
<1>3. UNCHANGED <<profile, groups, username, asked, dropped, taps>>
    BY DEF Network, Disconnect, screens, history
<1>4. AppOK'
    BY <1>2, <1>3 DEF AppOK
<1>5. R!Inv' /\ R!Holding(Vals(A, D), G(A, D, N))'
    <2>1. CASE Network(d)
        BY <1>2, <2>1, AnswerableG, NetworkStep DEF Network
    <2>2. CASE Disconnect(d)
        BY <1>2, <2>2, DisconnectStep DEF Disconnect
    <2>. QED
        BY <2>1, <2>2
<1>6. A = asked' /\ D = dropped' /\ N = Laid'
    BY <1>1, <1>3 DEF Laid
<1>. QED
    BY <1>4, <1>5, <1>6, Next2

\* The closures of a tap: whoever d's account and the user are, each is to be put into
\* the other's list, or taken out of it.
LEMMA TapPrimaryInv ==
    ASSUME IInv, NEW d \in Device, TapPrimary(d)
    PROVE  IInv'
<1>1. AppOK
    BY DEF IInv
<1>2. PICK page, user, op, me, pairs :
        /\ page = profile[d].page /\ user = page.user /\ me = username[d]
        /\ op = IF profile[d].isfollower THEN "unfollow" ELSE "follow"
        /\ pairs = IF me = NoName THEN {} ELSE {<<lowercased[me], lowercased[user]>>}
    OBVIOUS
<1>3. /\ client' = [client EXCEPT ![d] = updateRelationship(client[d], op, me, user, page)]
      /\ asked' = IF op = "follow" THEN asked \cup pairs ELSE asked
      /\ dropped' = IF op = "unfollow" THEN dropped \cup pairs ELSE dropped
    BY <1>2 DEF TapPrimary
<1>4. /\ UNCHANGED <<data, sub, in, drops, profile, groups, username>>
      /\ taps' = taps + 1 /\ profile[d].screen = "profile"
    BY DEF TapPrimary, screens
<1>5. profile[d] \in Shown /\ me \in Name \cup {NoName}
    BY <1>1, <1>2, <1>4 DEF AppOK, Home, Crashed
<1>6. page \in Page /\ lowercased[user] \in Name /\ op \in {"follow", "unfollow"}
    BY <1>2, <1>5, NameAssumption DEF Shown, Page
<1>7. me # NoName => lowercased[me] \in Name
    BY <1>5, NameAssumption
<1>8. pairs \in SUBSET (Name \X Name)
    BY <1>2, <1>6, <1>7
<1>9. AppOK'
    <2>1. asked' \in SUBSET (Name \X Name) /\ dropped' \in SUBSET (Name \X Name)
        BY <1>1, <1>3, <1>8 DEF AppOK
    <2>. QED
        BY <1>1, <1>4, <2>1 DEF AppOK
<1>10. Grows
    BY <1>3, <1>4 DEF Grows
<1>11. PICK A, D, N : A = asked' /\ D = dropped' /\ N = Laid'
    OBVIOUS
<1>12. PICK k, k2 : k = client[d] /\ k2 = updateRelationship(k, op, me, user, page)
    OBVIOUS
<1>13. R!Steady(k, in[d], Vals(A, D), G(A, D, N)[d]) /\ in[d] \in Seq(R!Message)
    BY <1>10, <1>11, <1>12, At
<1>14. After(k2, k, in[d], Vals(A, D), G(A, D, N)[d])
    <2>1. CASE me = NoName
        BY <1>12, <1>13, <2>1 DEF updateRelationship, After
    <2>2. CASE me # NoName
        <3>1. PICK low, name : low = lowercased[me] /\ name = lowercased[user]
            OBVIOUS
        <3>2. low \in Name /\ name \in Name /\ pairs = {<<low, name>>}
            BY <1>2, <1>6, <1>7, <2>2, <3>1
        <3>3. PICK t1, t2 : /\ t1 = Change(op, low, "following", name, page)
                            /\ t2 = Change(op, name, "followers", low, page)
            OBVIOUS
        <3>4. ASSUME NEW t \in {t1, t2}, t.at \in Leaf
              PROVE  t \in Tags /\ May(G(A, D, N)[d], t.at, FALSE, t)
            <4>1. t \in Changing /\ t.op = op /\ Pair(t.at, t.name) = <<low, name>>
                BY <1>6, <3>2, <3>3, <3>4 DEF Changing, Sided, Sides, Change, Pair
            <4>2. Meant(t, A, D)
                BY <1>3, <1>6, <1>11, <3>2, <4>1 DEF Meant
            <4>3. t \in ChangesOf(A, D)
                BY <4>1, <4>2 DEF ChangesOf
            <4>. QED
                BY <4>3, MayLast
        <3>5. PICK k1 : k1 = Watches(k, t1.at, t1)
            OBVIOUS
        <3>6. After(k1, k, in[d], Vals(A, D), G(A, D, N)[d])
            <4>1. t1.at \in Leaf => t1 \in Tags /\ May(G(A, D, N)[d], t1.at, FALSE, t1)
                BY <3>4
            <4>. QED
                BY <1>13, <3>5, <4>1, WatchStep
        <3>7. k2 = Watches(k1, t2.at, t2)
            <4>1. Changes(op, me, user, page) = <<t1, t2>>
                BY <3>1, <3>3 DEF Changes
            <4>. QED
                BY <1>12, <2>2, <3>5, <4>1 DEF updateRelationship
        <3>8. After(k2, k1, in[d], Vals(A, D), G(A, D, N)[d])
            <4>1. t2.at \in Leaf => t2 \in Tags /\ May(G(A, D, N)[d], t2.at, FALSE, t2)
                BY <3>4
            <4>2. R!Steady(k1, in[d], Vals(A, D), G(A, D, N)[d])
                BY <3>6 DEF After
            <4>. QED
                BY <1>13, <3>7, <4>1, <4>2, WatchStep
        <3>. QED
            BY <3>6, <3>8, AfterThen
    <2>. QED
        BY <2>1, <2>2
<1>. QED
    BY <1>3, <1>4, <1>9, <1>10, <1>11, <1>12, <1>14, Program

\* What a closure of a tap writes fits its list.
LEMMA ChangeFits ==
    ASSUME NEW A, NEW D, NEW t \in Changing, Meant(t, A, D),
           NEW list \in List, Fits(t.at, list, A, D),
           NEW new, new = IF t.op = "follow" THEN Inserted(list, t.name)
                                             ELSE Removed(list, t.name)
    PROVE  new \in List /\ Fits(t.at, new, A, D)
<1>1. t.name \in Name
    BY DEF Changing
<1>2. CASE t.op = "follow"
    <2>1. new \in List /\ Names(new) = Names(list) \cup {t.name}
        BY <1>1, <1>2, InsertedNames
    <2>2. Pair(t.at, t.name) \in A
        BY <1>2 DEF Meant
    <2>. QED
        BY <1>1, <2>1, <2>2 DEF Fits
<1>3. CASE t.op # "follow"
    <2>1. new \in List /\ Names(new) = Names(list) \ {t.name}
        BY <1>3, RemovedNames
    <2>2. Pair(t.at, t.name) \in D
        BY <1>3 DEF Meant
    <2>. QED
        BY <2>1, <2>2 DEF Fits
<1>. QED
    BY <1>2, <1>3

LEMMA WriteStep ==
    ASSUME NEW A, NEW D, NEW t \in Changing, NEW new \in List, Fits(t.at, new, A, D),
           NEW k, NEW s \in Seq(R!Message), NEW g, R!Steady(k, s, Vals(A, D), g),
           t \in g.tags
    PROVE  After(Written(k, t, new), k, s, Vals(A, D), g)
<1>1. PICK put : put = [l \in {t.at} |-> new]
    OBVIOUS
<1>2. t \in Tags /\ t.at \in Leaf /\ t.at \in Sided
    BY DEF Tags, Changing, Sided
<1>3. put \in [{t.at} -> List] /\ {t.at} \in SUBSET Leaf
    BY <1>1, <1>2
<1>4. put \in R!Put
    BY <1>3 DEF R!Put
<1>5. DOMAIN put = {t.at} /\ put[t.at] = new
    BY <1>1
<1>6. new \in Vals(A, D)[t.at]
    BY <1>2 DEF Vals
<1>7. R!Carries(put, Vals(A, D))
    BY <1>5, <1>6 DEF R!Carries
<1>8. PICK vals : vals = Vals(A, D)
    OBVIOUS
<1>9. R!Steady(R!SetValue(k, put, t), s, vals, g) /\ R!SetValue(k, put, t).conn = k.conn
    BY <1>2, <1>4, <1>7, <1>8, Assumptions, R!SetValueServed
<1>. QED
    BY <1>1, <1>8, <1>9, SameSetValue DEF After, Written

LEMMA ListChangedStep ==
    ASSUME NEW A, NEW D, NEW t \in Changing, Meant(t, A, D),
           NEW view, view[t.at] \in Vals(A, D)[t.at],
           NEW k, NEW s \in Seq(R!Message), NEW g, R!Steady(k, s, Vals(A, D), g),
           t \in g.tags
    PROVE  After(ListChanged(k, t, view), k, s, Vals(A, D), g)
<1>1. PICK list : list = view[t.at]
    OBVIOUS
<1>2. t.at \in Sided /\ t.at \in Leaf /\ t.op \in {"follow", "unfollow"}
    BY DEF Changing, Sided
<1>3. list \in List /\ Fits(t.at, list, A, D)
    BY <1>1, <1>2 DEF Vals
<1>4. PICK new : new = IF t.op = "follow" THEN Inserted(list, t.name)
                                          ELSE Removed(list, t.name)
    OBVIOUS
<1>5. new \in List /\ Fits(t.at, new, A, D)
    BY <1>3, <1>4, ChangeFits
<1>6. After(Written(k, t, new), k, s, Vals(A, D), g)
    BY <1>5, WriteStep
<1>7. \/ ListChanged(k, t, view) = Written(k, t, new)
      \/ ListChanged(k, t, view) = k
    BY <1>1, <1>2, <1>4 DEF ListChanged
<1>. QED
    BY <1>6, <1>7 DEF After

\* What is registered on a device was passed by it.
LEMMA Passed ==
    ASSUME NEW A, NEW D, NEW n, NEW r \in RegsOf(A, D, n)
    PROVE  \/ r.tag \in ChangesOf(A, D) /\ r.path = {r.tag.at}
           \/ r.tag \in HeadersOf(n) /\ r.path = {r.tag.at}
           \/ r.tag \in Reading
<1>1. CASE \E l \in Leaf : \E t \in Reading : r \in Posts(l, t)
    BY <1>1 DEF Posts
<1>2. CASE \E t \in ChangesOf(A, D) \cup HeadersOf(n) : r \in Lasting(t)
    <2>1. PICK t \in ChangesOf(A, D) \cup HeadersOf(n) : r \in Lasting(t)
        BY <1>2
    <2>2. r.tag = t /\ r.path = {t.at}
        BY <2>1 DEF Lasting
    <2>. QED
        BY <2>1, <2>2
<1>. QED
    BY <1>1, <1>2 DEF RegsOf

\* What a device holds before a step.
LEMMA Before ==
    ASSUME IInv, NEW d \in Device,
           NEW A, NEW D, NEW N, A = asked, D = dropped, N = Laid
    PROVE  /\ R!Inv /\ R!Holding(Vals(A, D), G(A, D, N))
           /\ R!Steady(client[d], in[d], Vals(A, D), G(A, D, N)[d])
           /\ in[d] \in Seq(R!Message)
           /\ N[d] = DOMAIN groups[d]
<1>1. R!Inv /\ R!Holding(Vals(A, D), G(A, D, N)) /\ AppOK
    BY DEF IInv
<1>2. R!Steady(client[d], in[d], Vals(A, D), G(A, D, N)[d]) /\ in[d] \in Seq(R!Message)
    BY <1>1, LocalSteady
<1>3. N[d] = DOMAIN groups[d]
    BY DEF Laid
<1>. QED
    BY <1>1, <1>2, <1>3

\* A block of the app may be dispatched.
LEMMA NoticeStep ==
    ASSUME NEW A, NEW D, NEW N, NEW d \in Device, NEW vals,
           NEW k, NEW s \in Seq(R!Message), R!Steady(k, s, vals, G(A, D, N)[d]),
           NEW tag \in Blocks
    PROVE  After(Dispatch(k, tag), k, s, vals, G(A, D, N)[d])
<1>1. tag \in Tags
    BY DEF Tags
<1>2. <<tag, TRUE>> \in DoneOf(A, D)
    BY <1>1 DEF DoneOf
<1>3. <<tag, TRUE>> \in G(A, D, N)[d].done
    BY <1>2, ClosureFields
<1>. QED
    BY <1>1, <1>3, DispatchStep DEF After

\* The app stops: what its client held is gone.
LEMMA CrashInv ==
    ASSUME IInv, NEW d \in Device, Crash(d),
           UNCHANGED <<data, drops, groups, username, asked, dropped, taps>>
    PROVE  IInv'
<1>1. AppOK
    BY DEF IInv
<1>2. PICK A, D, N : A = asked /\ D = dropped /\ N = Laid
    OBVIOUS
<1>3. R!Inv /\ R!Holding(Vals(A, D), G(A, D, N))
    BY <1>2, Before
<1>4. /\ client' = [client EXCEPT ![d] = R!Gone] /\ sub' = [sub EXCEPT ![d] = {}]
      /\ in' = [in EXCEPT ![d] = <<>>] /\ profile' = [profile EXCEPT ![d] = Crashed]
    BY SameGone DEF Crash
<1>5. AppOK'
    BY <1>1, <1>4 DEF AppOK
<1>6. N = Laid' /\ A = asked' /\ D = dropped'
    BY <1>2 DEF Laid
<1>7. \A e \in Device \ {d} : G(A, D, N)[e] = G(A, D, N)[e]
    OBVIOUS
<1>8. R!Inv' /\ R!Holding(Vals(A, D), G(A, D, N))'
    BY <1>3, <1>4, <1>7, Assumptions, R!GoneKept
<1>. QED
    BY <1>5, <1>6, <1>8, Next2

\* Somebody leaves a group: gs with one less at group.
LEMMA GroupLeft ==
    ASSUME NEW gs \in Seq(Group), NEW group \in DOMAIN gs, gs[group].left > 0,
           NEW gs2, gs2 = [gs EXCEPT ![group].left = gs[group].left - 1]
    PROVE  /\ gs2 \in Seq(Group) /\ DOMAIN gs2 = DOMAIN gs
           /\ gs2[group].left = gs[group].left - 1
           /\ \A g \in DOMAIN gs : /\ gs2[g].page = gs[g].page
                                   /\ g # group => gs2[g] = gs[g]
<1>1. PICK new : new = [gs[group] EXCEPT !.left = gs[group].left - 1]
    OBVIOUS
<1>2. gs2 = [gs EXCEPT ![group] = new]
    BY <1>1
<1>3. gs[group] \in Group
    OBVIOUS
<1>4. new \in Group /\ new.left = gs[group].left - 1 /\ new.page = gs[group].page
    BY <1>1, <1>3 DEF Group
<1>. QED
    BY <1>2, <1>4

\* What the closure of a header does to its device, when it does not stop the app.
HeaderLeaves(d, k, tag, page) ==
    /\ groups[d][tag.group].left > 0
    /\ groups' = [groups EXCEPT ![d] =
                    [@ EXCEPT ![tag.group].left = groups[d][tag.group].left - 1]]
    /\ \/ profile' = profile
       \/ /\ IsShown(d, page)
          /\ \E b \in BOOLEAN : profile' = [profile EXCEPT ![d] = [@ EXCEPT !.isfollower = b]]
    /\ client' = [client EXCEPT ![d] =
                    IF groups[d][tag.group].left = 1
                    THEN Dispatch(k, [op |-> "notify", page |-> page]) ELSE k]
    /\ UNCHANGED <<sub, in>>

LEMMA HeaderRuns ==
    ASSUME NEW d, NEW r, RunHeader(d, r),
           NEW k, k = DB!Begin(client[d], r), NEW page, page = groups[d][r.tag.group].page
    PROVE  \/ /\ Crash(d) /\ UNCHANGED groups /\ groups[d][r.tag.group].left = 0
           \/ HeaderLeaves(d, k, r.tag, page)
<1>1. PICK list, left, group : /\ list = Head(client[d].main).view[r.tag.at] /\ group = r.tag.group
                               /\ left = groups[d][group].left
    OBVIOUS
<1>2. CASE left = 0 /\ Crash(d) /\ UNCHANGED groups
    BY <1>1, <1>2
<1>3. CASE /\ left > 0
           /\ groups' = [groups EXCEPT ![d][group].left = left - 1]
           /\ profile' = IF r.tag.shows = "isfollower" /\ IsShown(d, page)
                         THEN [profile EXCEPT ![d].isfollower =
                                    isMember(list, lowercased[Account[d]])]
                         ELSE profile
           /\ client' = [client EXCEPT ![d] =
                IF left = 1 THEN Dispatch(k, [op |-> "notify", page |-> page]) ELSE k]
           /\ UNCHANGED <<sub, in>>
    <2>1. \/ profile' = profile
          \/ /\ IsShown(d, page)
             /\ \E b \in BOOLEAN : profile' = [profile EXCEPT ![d] = [@ EXCEPT !.isfollower = b]]
        <3>1. isMember(list, lowercased[Account[d]]) \in BOOLEAN
            BY DEF isMember
        <3>. QED
            BY <1>3, <3>1
    <2>. QED
        BY <1>1, <1>3, <2>1 DEF HeaderLeaves
<1>. QED
    BY <1>1, <1>2, <1>3 DEF RunHeader

\* A screen that is shown, with another of its fields.
LEMMA FieldSet ==
    ASSUME AppOK, NEW d \in Device, NEW page, IsShown(d, page), NEW b \in BOOLEAN
    PROVE  /\ profile[d] \in Shown /\ page \in Page /\ page = profile[d].page
           /\ [profile[d] EXCEPT !.isfollower = b] \in Shown
           /\ [profile[d] EXCEPT !.isfollower = b].page = page
           /\ [profile[d] EXCEPT !.isfollower = b].ready = profile[d].ready
           /\ [profile[d] EXCEPT !.ready = TRUE] \in Shown
           /\ [profile[d] EXCEPT !.ready = TRUE].page = page
<1>1. profile[d] \in Shown /\ page = profile[d].page
    BY DEF AppOK, Home, Crashed, IsShown
<1>. QED
    BY <1>1 DEF Shown

\* The closures of the header leave a group that d has.
LEMMA HeaderInv ==
    ASSUME IInv, NEW d \in Device, NEW r \in DB!Ready(client[d]), RunHeader(d, r),
           UNCHANGED <<data, drops, username, asked, dropped, taps>>
    PROVE  IInv'
<1>1. AppOK
    BY DEF IInv
<1>2. PICK A, D, N : A = asked /\ D = dropped /\ N = Laid
    OBVIOUS
<1>3. r \in RegsOf(A, D, N[d]) /\ r.tag.op = "header" /\ N[d] = DOMAIN groups[d]
    <2>1. r \in G(A, D, N)[d].regs /\ N[d] = DOMAIN groups[d]
        BY <1>2, Before, ValueStep
    <2>. QED
        BY <2>1, ClosureFields DEF RunHeader
<1>4. PICK group, gs, gs2, page, k :
        /\ group = r.tag.group /\ gs = groups[d] /\ page = gs[group].page
        /\ gs2 = [gs EXCEPT ![group].left = gs[group].left - 1] /\ k = DB!Begin(client[d], r)
    OBVIOUS
<1>5. r.tag \in HeadersOf(N[d])
    BY <1>3, Passed DEF ChangesOf, Changing, Reading
<1>6. gs \in Seq(Group) /\ group \in DOMAIN gs /\ page \in Page
    <2>1. gs \in Seq(Group) /\ group \in DOMAIN gs
        BY <1>1, <1>3, <1>4, <1>5 DEF AppOK, HeadersOf
    <2>2. gs[group] \in Group
        BY <2>1
    <2>. QED
        BY <1>4, <2>1, <2>2 DEF Group
<1>7. CASE Crash(d) /\ UNCHANGED groups
    BY <1>7, CrashInv
<1>8. CASE HeaderLeaves(d, k, r.tag, page)
    <2>1. gs2 \in Seq(Group) /\ DOMAIN gs2 = DOMAIN gs
        BY <1>4, <1>6, <1>8, GroupLeft DEF HeaderLeaves
    <2>2. groups' = [groups EXCEPT ![d] = gs2] /\ UNCHANGED <<sub, in>>
        BY <1>4, <1>8 DEF HeaderLeaves
    <2>3. profile' \in [Device -> Shown \cup {Home, Crashed}]
        <3>1. CASE profile' = profile
            BY <1>1, <3>1 DEF AppOK
        <3>2. CASE /\ IsShown(d, page)
                   /\ \E b \in BOOLEAN :
                        profile' = [profile EXCEPT ![d] = [@ EXCEPT !.isfollower = b]]
            <4>1. PICK b \in BOOLEAN : profile' = [profile EXCEPT ![d] = [@ EXCEPT !.isfollower = b]]
                BY <3>2
            <4>2. PICK p : p = [profile[d] EXCEPT !.isfollower = b]
                OBVIOUS
            <4>3. p \in Shown
                BY <1>1, <3>2, <4>2, FieldSet
            <4>4. profile' = [profile EXCEPT ![d] = p]
                BY <4>1, <4>2
            <4>. QED
                BY <1>1, <4>3, <4>4 DEF AppOK
        <3>. QED
            BY <1>8, <3>1, <3>2 DEF HeaderLeaves
    <2>4. AppOK'
        BY <1>1, <2>1, <2>2, <2>3 DEF AppOK
    <2>5. Grows
        <3>1. \A e \in Device : DOMAIN groups[e] \subseteq DOMAIN groups'[e]
            BY <1>1, <1>4, <2>1, <2>2 DEF AppOK
        <3>. QED
            BY <3>1 DEF Grows
    <2>6. PICK A2, D2, N2 : A2 = asked' /\ D2 = dropped' /\ N2 = Laid'
        OBVIOUS
    <2>7. R!Steady(client[d], in[d], Vals(A2, D2), G(A2, D2, N2)[d]) /\ in[d] \in Seq(R!Message)
        BY <2>5, <2>6, At
    <2>8. After(k, client[d], in[d], Vals(A2, D2), G(A2, D2, N2)[d])
        BY <1>4, <2>7, ValueStep DEF After
    <2>9. PICK tag, k2 : /\ tag = [op |-> "notify", page |-> page]
                         /\ k2 = IF gs[group].left = 1 THEN Dispatch(k, tag) ELSE k
        OBVIOUS
    <2>10. After(k2, client[d], in[d], Vals(A2, D2), G(A2, D2, N2)[d])
        <3>1. tag \in Blocks
            BY <1>6, <2>9 DEF Blocks, Noticing
        <3>2. R!Steady(k, in[d], Vals(A2, D2), G(A2, D2, N2)[d])
            BY <2>8 DEF After
        <3>3. After(Dispatch(k, tag), k, in[d], Vals(A2, D2), G(A2, D2, N2)[d])
            BY <2>7, <3>1, <3>2, NoticeStep
        <3>4. After(Dispatch(k, tag), client[d], in[d], Vals(A2, D2), G(A2, D2, N2)[d])
            BY <2>8, <3>3, AfterThen
        <3>. QED
            BY <2>8, <2>9, <3>4
    <2>11. client' = [client EXCEPT ![d] = k2]
        BY <1>4, <1>8, <2>9 DEF HeaderLeaves
    <2>. QED
        BY <2>2, <2>4, <2>5, <2>6, <2>10, <2>11, Program
<1>. QED
    BY <1>4, <1>7, <1>8, HeaderRuns

LEMMA RunValueInv ==
    ASSUME IInv, NEW d \in Device, RunValue(d)
    PROVE  IInv'
<1>1. UNCHANGED <<data, drops, username, asked, dropped, taps>>
    BY DEF RunValue, history
<1>2. PICK r \in DB!Ready(client[d]) :
        \/ RunHeader(d, r)
        \/ RunStale(d, r) \/ RunUpdate(d, r) \/ RunPosts(d, r)
    BY DEF RunValue
<1>3. CASE RunHeader(d, r)
    BY <1>1, <1>3, HeaderInv
<1>4. CASE RunStale(d, r) \/ RunUpdate(d, r) \/ RunPosts(d, r)
    <2>1. UNCHANGED <<sub, in, profile, groups>>
        BY <1>4 DEF RunStale, RunUpdate, RunPosts
    <2>2. Grows
        BY <1>1, <2>1, SameGrows
    <2>3. AppOK'
        BY <1>1, <2>1 DEF IInv, AppOK
    <2>4. PICK A, D, N : A = asked' /\ D = dropped' /\ N = Laid'
        OBVIOUS
    <2>5. R!Steady(client[d], in[d], Vals(A, D), G(A, D, N)[d]) /\ in[d] \in Seq(R!Message)
        BY <2>2, <2>4, At
    <2>6. PICK k1, view : k1 = DB!Begin(client[d], r) /\ view = Head(client[d].main).view
        OBVIOUS
    <2>7. /\ After(DB!TakeValue(client[d], r), client[d], in[d], Vals(A, D), G(A, D, N)[d])
          /\ After(k1, client[d], in[d], Vals(A, D), G(A, D, N)[d])
          /\ r \in G(A, D, N)[d].regs
          /\ \A l \in r.path : view[l] \in Vals(A, D)[l]
        BY <2>5, <2>6, ValueStep DEF After
    <2>8. R!Steady(k1, in[d], Vals(A, D), G(A, D, N)[d])
        BY <2>7 DEF After
    <2>9. r \in RegsOf(A, D, N[d])
        BY <2>7, ClosureFields
    <2>10. CASE RunStale(d, r)
        <3>1. client' = [client EXCEPT ![d] = DB!TakeValue(client[d], r)]
            BY <2>10 DEF RunStale
        <3>. QED
            BY <1>1, <2>1, <2>2, <2>3, <2>4, <2>7, <3>1, Program
    <2>11. CASE RunUpdate(d, r)
        <3>1. PICK t, k2 : t = r.tag /\ k2 = ListChanged(k1, t, view)
            OBVIOUS
        <3>2. client' = [client EXCEPT ![d] = k2] /\ t.op \in {"follow", "unfollow"}
            BY <2>6, <2>11, <3>1 DEF RunUpdate
        <3>3. t \in ChangesOf(A, D) /\ r.path = {t.at}
            BY <2>9, <3>1, <3>2, Passed DEF HeadersOf, Showing, Reading
        <3>4. t \in Changing /\ Meant(t, A, D) /\ t \in G(A, D, N)[d].tags
            BY <3>3, ClosureFields DEF ChangesOf
        <3>5. view[t.at] \in Vals(A, D)[t.at]
            BY <2>7, <3>3
        <3>6. After(k2, k1, in[d], Vals(A, D), G(A, D, N)[d])
            BY <2>5, <2>8, <3>1, <3>4, <3>5, ListChangedStep
        <3>7. After(k2, client[d], in[d], Vals(A, D), G(A, D, N)[d])
            BY <2>7, <3>6, AfterThen
        <3>. QED
            BY <1>1, <2>1, <2>2, <2>3, <2>4, <3>2, <3>7, Program
    <2>12. CASE RunPosts(d, r)
        <3>1. PICK tag, k2 : /\ tag = [op |-> "reload", page |-> r.tag.page]
                             /\ k2 = Dispatch(k1, tag)
            OBVIOUS
        <3>2. client' = [client EXCEPT ![d] = k2] /\ r.tag.op = "posts"
            BY <2>6, <2>12, <3>1 DEF RunPosts
        <3>3. r.tag \in Reading
            BY <2>9, <3>2, Passed DEF ChangesOf, Changing, HeadersOf, Showing
        <3>4. tag \in Blocks
            BY <3>1, <3>3 DEF Blocks, Noticing, Reading
        <3>5. After(k2, k1, in[d], Vals(A, D), G(A, D, N)[d])
            BY <2>5, <2>8, <3>1, <3>4, NoticeStep
        <3>6. After(k2, client[d], in[d], Vals(A, D), G(A, D, N)[d])
            BY <2>7, <3>5, AfterThen
        <3>. QED
            BY <1>1, <2>1, <2>2, <2>3, <2>4, <3>2, <3>6, Program
    <2>. QED
        BY <1>4, <2>10, <2>11, <2>12
<1>. QED
    BY <1>2, <1>3, <1>4

\* What is on the main queue of d is a completion of a tap or a block of the app.
LEMMA Taken ==
    ASSUME IInv, NEW d \in Device,
           client[d].main # <<>>, Head(client[d].main).kind = "done",
           NEW tag, tag = Head(client[d].main).tag
    PROVE  tag \in Changing \cup Blocks
<1>1. PICK A, D, N : A = asked /\ D = dropped /\ N = Laid
    OBVIOUS
<1>2. R!Steady(client[d], in[d], Vals(A, D), G(A, D, N)[d]) /\ in[d] \in Seq(R!Message)
    BY <1>1, Before
<1>3. PICK ok : ok = Head(client[d].main).ok
    OBVIOUS
<1>4. <<tag, ok>> \in G(A, D, N)[d].done
    BY <1>2, <1>3, DoneStep
<1>5. <<tag, ok>> \in DoneOf(A, D)
    BY <1>4, ClosureFields
<1>6. tag \in ChangesOf(A, D) \cup Blocks
    BY <1>5 DEF DoneOf
<1>. QED
    BY <1>6 DEF ChangesOf

\* What a block does to its device.
DoneCase(d, e, k, page) ==
    \/ /\ e.tag.op \in {"follow", "unfollow"}
       /\ UNCHANGED <<profile, groups>>
       /\ client' = [client EXCEPT ![d] =
                        IF e.ok THEN Dispatch(k, [op |-> "toggled", page |-> page,
                                                  to |-> e.tag.op = "follow"])
                        ELSE k]
    \/ /\ ~IsShown(d, page) /\ e.tag.op \notin {"follow", "unfollow"}
       /\ UNCHANGED <<profile, groups>>
       /\ client' = [client EXCEPT ![d] = k]
    \/ /\ IsShown(d, page) /\ e.tag.op = "notify"
       /\ profile' = [profile EXCEPT ![d] = [@ EXCEPT !.ready = TRUE]]
       /\ client' = [client EXCEPT ![d] = k]
       /\ UNCHANGED groups
    \/ /\ IsShown(d, page) /\ e.tag.op = "reload"
       /\ Reload(d, k, page) /\ UNCHANGED profile
    \/ /\ IsShown(d, page) /\ e.tag.op = "toggled"
       /\ profile' = [profile EXCEPT ![d] = [@ EXCEPT !.isfollower = e.tag.to]]
       /\ Reload(d, k, page)

LEMMA DoneRuns ==
    ASSUME IInv, NEW d \in Device, RunDone(d), NEW e, e = Head(client[d].main),
           NEW k, k = DB!TakeDone(client[d]), NEW page, page = e.tag.page
    PROVE  /\ UNCHANGED <<data, sub, in, drops, username, asked, dropped, taps>>
           /\ client[d].main # <<>> /\ e.kind = "done"
           /\ e.tag \in Changing \cup Blocks /\ page \in Page
           /\ DoneCase(d, e, k, page)
<1>1. /\ UNCHANGED <<data, sub, in, drops, username, asked, dropped, taps>>
      /\ client[d].main # <<>> /\ e.kind = "done"
    BY DEF RunDone, history
<1>2. e.tag \in Changing \cup Blocks
    BY <1>1, Taken
<1>3. page \in Page /\ e.tag.op \in {"follow", "unfollow", "notify", "reload", "toggled"}
    BY <1>2 DEF Changing, Blocks, Noticing, Toggling
<1>4. DoneCase(d, e, k, page)
    <2>1. CASE e.tag.op \in {"follow", "unfollow"}
        BY <2>1 DEF RunDone, DoneCase
    <2>2. CASE e.tag.op \notin {"follow", "unfollow"} /\ ~IsShown(d, page)
        BY <2>2 DEF RunDone, DoneCase
    <2>3. CASE e.tag.op \notin {"follow", "unfollow"} /\ IsShown(d, page)
        <3>1. CASE e.tag.op = "notify"
            BY <2>3, <3>1 DEF RunDone, DoneCase
        <3>2. CASE e.tag.op = "reload"
            BY <2>3, <3>2 DEF RunDone, DoneCase
        <3>3. CASE e.tag.op = "toggled"
            BY <2>3, <3>3 DEF RunDone, DoneCase
        <3>. QED
            BY <1>3, <2>3, <3>1, <3>2, <3>3
    <2>. QED
        BY <2>1, <2>2, <2>3
<1>. QED
    BY <1>1, <1>2, <1>3, <1>4

LEMMA RunDoneInv ==
    ASSUME IInv, NEW d \in Device, RunDone(d)
    PROVE  IInv'
<1>1. PICK e, k, page : /\ e = Head(client[d].main) /\ page = e.tag.page
                        /\ k = DB!TakeDone(client[d])
    OBVIOUS
<1>2. /\ UNCHANGED <<data, sub, in, drops, username, asked, dropped, taps>>
      /\ client[d].main # <<>> /\ e.kind = "done"
      /\ e.tag \in Changing \cup Blocks /\ page \in Page
      /\ DoneCase(d, e, k, page)
    BY <1>1, DoneRuns
<1>3. AppOK
    BY DEF IInv
<1>4. ASSUME NEW A, NEW D, NEW N, A = asked', D = dropped', N = Laid', Grows
      PROVE  /\ After(k, client[d], in[d], Vals(A, D), G(A, D, N)[d])
             /\ in[d] \in Seq(R!Message)
    <2>1. R!Steady(client[d], in[d], Vals(A, D), G(A, D, N)[d]) /\ in[d] \in Seq(R!Message)
        BY <1>4, At
    <2>2. client[d].main # <<>> /\ Head(client[d].main).kind = "done"
        BY <1>1, <1>2
    <2>. QED
        BY <1>1, <2>1, <2>2, DoneStep DEF After
<1>5. CASE UNCHANGED groups
    <2>1. PICK A, D, N : A = asked' /\ D = dropped' /\ N = Laid'
        OBVIOUS
    <2>2. Grows
        BY <1>2, <1>5, SameGrows
    <2>3. After(k, client[d], in[d], Vals(A, D), G(A, D, N)[d]) /\ in[d] \in Seq(R!Message)
        BY <1>4, <2>1, <2>2
    <2>4. CASE profile' = profile
        <3>1. AppOK'
            BY <1>2, <1>3, <1>5, <2>4 DEF AppOK
        <3>2. PICK tag : tag = [op |-> "toggled", page |-> page, to |-> e.tag.op = "follow"]
            OBVIOUS
        <3>3. tag \in Blocks
            BY <1>2, <3>2 DEF Blocks, Toggling
        <3>4. R!Steady(k, in[d], Vals(A, D), G(A, D, N)[d])
            BY <2>3 DEF After
        <3>5. After(Dispatch(k, tag), k, in[d], Vals(A, D), G(A, D, N)[d])
            BY <2>3, <3>3, <3>4, NoticeStep
        <3>6. After(Dispatch(k, tag), client[d], in[d], Vals(A, D), G(A, D, N)[d])
            BY <2>3, <3>5, AfterThen
        <3>7. CASE client' = [client EXCEPT ![d] = k]
            BY <1>2, <2>1, <2>2, <2>3, <3>1, <3>7, Program
        <3>8. CASE client' = [client EXCEPT ![d] = Dispatch(k, tag)]
            BY <1>2, <2>1, <2>2, <3>1, <3>6, <3>8, Program
        <3>9. CASE IsShown(d, page) /\ e.tag.op = "notify"
                   /\ client' = [client EXCEPT ![d] = k]
            BY <3>7, <3>9
        <3>10. CASE Reload(d, k, page)
            <4>1. Len(groups[d]) \in Nat /\ groups \in [Device -> Seq(Group)]
                BY <1>3 DEF AppOK
            <4>2. groups'[d] = Append(groups[d], [page |-> page, left |-> Enters])
                BY <3>10, <4>1 DEF Reload
            <4>3. Len(groups'[d]) = Len(groups[d]) + 1
                BY <4>1, <4>2
            <4>. QED
                BY <1>5, <4>1, <4>3
        <3>. QED
            BY <1>2, <3>2, <3>7, <3>8, <3>10 DEF DoneCase
    <2>5. CASE /\ IsShown(d, page) /\ client' = [client EXCEPT ![d] = k]
               /\ profile' = [profile EXCEPT ![d] = [@ EXCEPT !.ready = TRUE]]
        <3>1. [profile[d] EXCEPT !.ready = TRUE] \in Shown
            BY <1>3, <2>5, FieldSet
        <3>2. profile' \in [Device -> Shown \cup {Home, Crashed}]
            BY <1>3, <2>5, <3>1 DEF AppOK
        <3>3. AppOK'
            BY <1>2, <1>3, <1>5, <3>2 DEF AppOK
        <3>. QED
            BY <1>2, <2>1, <2>2, <2>3, <2>5, <3>3, Program
    <2>6. CASE Reload(d, k, page)
        <3>1. Len(groups[d]) \in Nat /\ groups \in [Device -> Seq(Group)]
            BY <1>3 DEF AppOK
        <3>2. groups'[d] = Append(groups[d], [page |-> page, left |-> Enters])
            BY <2>6, <3>1 DEF Reload
        <3>3. Len(groups'[d]) = Len(groups[d]) + 1
            BY <3>1, <3>2
        <3>. QED
            BY <1>5, <3>1, <3>3
    <2>. QED
        BY <1>2, <2>4, <2>5, <2>6 DEF DoneCase
<1>6. CASE Reload(d, k, page) /\ IsShown(d, page)
    <2>1. profile' \in [Device -> Shown \cup {Home, Crashed}]
        <3>1. CASE profile' = profile
            BY <1>3, <3>1 DEF AppOK
        <3>2. CASE /\ e.tag.op = "toggled"
                   /\ profile' = [profile EXCEPT ![d] = [@ EXCEPT !.isfollower = e.tag.to]]
            <4>1. PICK b : b = e.tag.to
                OBVIOUS
            <4>2. b \in BOOLEAN
                BY <1>2, <3>2, <4>1 DEF Changing, Blocks, Noticing, Toggling
            <4>3. [profile[d] EXCEPT !.isfollower = b] \in Shown
                BY <1>3, <1>6, <4>2, FieldSet
            <4>. QED
                BY <1>3, <3>2, <4>1, <4>3 DEF AppOK
        <3>3. groups' # groups
            <4>1. Len(groups[d]) \in Nat /\ groups \in [Device -> Seq(Group)]
                BY <1>3 DEF AppOK
            <4>2. groups'[d] = Append(groups[d], [page |-> page, left |-> Enters])
                BY <1>6, <4>1 DEF Reload
            <4>3. Len(groups'[d]) = Len(groups[d]) + 1
                BY <4>1, <4>2
            <4>. QED
                BY <4>1, <4>3
        <3>. QED
            BY <1>2, <3>1, <3>2, <3>3 DEF DoneCase
    <2>2. ASSUME NEW A, NEW D, NEW N, A = asked', D = dropped', N = Laid', Grows
          PROVE  After(k, client[d], in[d], Vals(A, D), G(A, D, N)[d])
        BY <1>4, <2>2
    <2>3. Reachable(d, k)
        BY <2>2 DEF Reachable
    <2>. QED
        BY <1>2, <1>6, <2>1, <2>3, ReloadInv
<1>. QED
    BY <1>2, <1>5, <1>6 DEF DoneCase

LEMMA IInvNext == IInv /\ [Next]_vars => IInv'
<1>. SUFFICES ASSUME IInv, [Next]_vars PROVE IInv'
    OBVIOUS
<1>1. ASSUME NEW d \in Device,
             \/ Visit(d) \/ Leave(d) \/ SignOut(d) \/ TapPrimary(d) \/ Relaunch(d)
             \/ Runs(d)
             \/ Network(d) \/ Disconnect(d)
      PROVE  IInv'
    BY <1>1, VisitInv, ScreenInv, TapPrimaryInv, RunValueInv, RunDoneInv, WireInv DEF Runs
<1>2. CASE UNCHANGED vars
    <2>1. AppOK'
        BY <1>2 DEF vars, screens, history, IInv, AppOK
    <2>2. Grows
        BY <1>2, SameGrows DEF vars, screens, history
    <2>. QED
        BY <1>2, <2>1, <2>2, Elsewhere DEF vars
<1>. QED
    BY <1>1, <1>2 DEF Next

LEMMA Inductive == Spec => []IInv
    BY IInvStart, IInvNext, PTL DEF Spec

\* What is in a list of the tree may be there.
LEMMA TreeKept ==
    ASSUME IInv, NEW l \in Sided
    PROVE  Fits(l, data[l], asked, dropped)
<1>1. R!Holding(Vals(asked, dropped), G(asked, dropped, Laid)) /\ l \in Leaf
    BY DEF IInv, Sided
<1>2. data[l] \in Vals(asked, dropped)[l]
    BY <1>1 DEF R!Holding
<1>. QED
    BY <1>1, <1>2 DEF Vals

-----------------------------------------------------------------------------
(* The theorems. *)

\* Whom a list names, on either side.
LEMMA Named ==
    ASSUME NEW tree, NEW n, NEW m
    PROVE  /\ <<n, m>> \in Following(tree) <=>
                <<n, "following">> \in Leaf /\ m \in Names(tree[<<n, "following">>])
           /\ <<n, m>> \in Followed(tree) <=>
                <<m, "followers">> \in Leaf /\ n \in Names(tree[<<m, "followers">>])
<1>1. \A l \in Leaf : l = <<l[1], l[2]>>
    BY LeafAssumption
<1>2. <<n, m>> \in Following(tree) <=>
        \E l \in Leaf : \E name \in Names(tree[l]) :
            l[2] = "following" /\ <<n, m>> = <<l[1], name>>
    BY DEF Following
<1>3. <<n, m>> \in Followed(tree) <=>
        \E l \in Leaf : \E name \in Names(tree[l]) :
            l[2] = "followers" /\ <<n, m>> = <<name, l[1]>>
    BY DEF Followed
<1>4. ASSUME <<n, m>> \in Following(tree)
      PROVE  <<n, "following">> \in Leaf /\ m \in Names(tree[<<n, "following">>])
    BY <1>1, <1>2, <1>4
<1>5. ASSUME <<n, m>> \in Followed(tree)
      PROVE  <<m, "followers">> \in Leaf /\ n \in Names(tree[<<m, "followers">>])
    BY <1>1, <1>3, <1>5
<1>. QED
    BY <1>2, <1>3, <1>4, <1>5

\* The members of either relation are pairs.
LEMMA ArePairs ==
    ASSUME NEW tree, NEW x \in Following(tree) \cup Followed(tree)
    PROVE  x = <<x[1], x[2]>>
    BY DEF Following, Followed

\* The screens are well formed and the lists hold usernames, whatever the devices, the
\* users and the faults: TypeOK of Relationships.
THEOREM Typed == Spec => []TypeOK
<1>1. IInv => TypeOK
    <2>. SUFFICES ASSUME IInv PROVE TypeOK
        OBVIOUS
    <2>1. ASSUME NEW l \in Leaf, l[2] \in Sides PROVE Names(data[l]) \subseteq Name
        BY <2>1, TreeKept DEF Sided, Fits
    <2>. QED
        BY <2>1 DEF IInv, AppOK, TypeOK
<1>. QED
    BY <1>1, Inductive, PTL

\* Nobody is made to follow or to be followed by somebody who did not ask for it, although
\* every tap leaves closures that write back whole lists for as long as the app runs.
THEOREM NobodyIsMadeToFollow == Spec => []OnlyAsked
<1>1. IInv => OnlyAsked
    <2>. SUFFICES ASSUME IInv PROVE OnlyAsked
        OBVIOUS
    <2>1. ASSUME NEW x \in Following(data) PROVE x \in Following(Initial) \cup asked
        <3>1. PICK n, m : x = <<n, m>>
            BY ArePairs
        <3>2. PICK l : l = <<n, "following">>
            OBVIOUS
        <3>3. l \in Leaf /\ m \in Names(data[l])
            BY <3>1, <3>2, <2>1, Named
        <3>4. Fits(l, data[l], asked, dropped)
            BY <3>2, <3>3, TreeKept DEF Sided, Sides
        <3>5. m \in Names(Initial[l]) \/ Pair(l, m) \in asked
            BY <3>3, <3>4 DEF Fits
        <3>6. Pair(l, m) = x
            BY <3>1, <3>2 DEF Pair
        <3>. QED
            BY <3>1, <3>2, <3>3, <3>5, <3>6, Named
    <2>2. ASSUME NEW x \in Followed(data) PROVE x \in Followed(Initial) \cup asked
        <3>1. PICK n, m : x = <<n, m>>
            BY ArePairs
        <3>2. PICK l : l = <<m, "followers">>
            OBVIOUS
        <3>3. l \in Leaf /\ n \in Names(data[l])
            BY <3>1, <3>2, <2>2, Named
        <3>4. Fits(l, data[l], asked, dropped)
            BY <3>2, <3>3, TreeKept DEF Sided, Sides
        <3>5. n \in Names(Initial[l]) \/ Pair(l, n) \in asked
            BY <3>3, <3>4 DEF Fits
        <3>6. Pair(l, n) = x
            BY <3>1, <3>2 DEF Pair
        <3>. QED
            BY <3>1, <3>2, <3>3, <3>5, <3>6, Named
    <2>. QED
        BY <2>1, <2>2 DEF OnlyAsked
<1>. QED
    BY <1>1, Inductive, PTL

\* A follower whom nobody asks to drop is never lost, whatever views the lists that are
\* written back come from, however the writes of the devices meet, and whatever is lost
\* or crashes.
THEOREM OthersAreKept == Spec => []KeepsOthers
<1>1. IInv => KeepsOthers
    <2>. SUFFICES ASSUME IInv PROVE KeepsOthers
        OBVIOUS
    <2>1. ASSUME NEW x \in Following(Initial), x \notin dropped PROVE x \in Following(data)
        <3>1. PICK n, m : x = <<n, m>>
            BY ArePairs
        <3>2. PICK l : l = <<n, "following">>
            OBVIOUS
        <3>3. l \in Leaf /\ m \in Names(Initial[l])
            BY <3>1, <3>2, <2>1, Named
        <3>4. Fits(l, data[l], asked, dropped)
            BY <3>2, <3>3, TreeKept DEF Sided, Sides
        <3>5. m \in Names(data[l]) \/ Pair(l, m) \in dropped
            BY <3>3, <3>4 DEF Fits
        <3>6. Pair(l, m) = x
            BY <3>1, <3>2 DEF Pair
        <3>. QED
            BY <2>1, <3>1, <3>2, <3>3, <3>5, <3>6, Named
    <2>2. ASSUME NEW x \in Followed(Initial), x \notin dropped PROVE x \in Followed(data)
        <3>1. PICK n, m : x = <<n, m>>
            BY ArePairs
        <3>2. PICK l : l = <<m, "followers">>
            OBVIOUS
        <3>3. l \in Leaf /\ n \in Names(Initial[l])
            BY <3>1, <3>2, <2>2, Named
        <3>4. Fits(l, data[l], asked, dropped)
            BY <3>2, <3>3, TreeKept DEF Sided, Sides
        <3>5. n \in Names(data[l]) \/ Pair(l, n) \in dropped
            BY <3>3, <3>4 DEF Fits
        <3>6. Pair(l, n) = x
            BY <3>1, <3>2 DEF Pair
        <3>. QED
            BY <2>2, <3>1, <3>2, <3>3, <3>5, <3>6, Named
    <2>. QED
        BY <2>1, <2>2 DEF KeepsOthers
<1>. QED
    BY <1>1, Inductive, PTL

-----------------------------------------------------------------------------
(* Before anybody taps the tree stays as it is: every list has one value,  *)
(* which comes once, and each closure of a header runs once, however many  *)
(* profiles were left and visited again.                                   *)

\* The registrations of the headers.
Standing == {r \in R!Reg : r.tag \in Showing /\ ~r.single}

\* The closures of a header.
HeaderOf(user, group) ==
    {Shows(user, "followers", "followers", group),
     Shows(user, "following", "following", group),
     Shows(user, "followers", "isfollower", group)}

\* Those of all headers that a device has made.
Headers(gs) == UNION {HeaderOf(gs[g].page.user, g) : g \in DOMAIN gs}

\* The closure has a call to come.
Coming(k, tag) == \E r \in Standing : r.tag = tag /\ R!Due(k, r)

One(b) == IF b THEN 1 ELSE 0

\* How many of a header's closures have a call to come.
ToCome(k, user, group) ==
    One(Coming(k, Shows(user, "followers", "followers", group)))
        + One(Coming(k, Shows(user, "following", "following", group)))
        + One(Coming(k, Shows(user, "followers", "isfollower", group)))

\* The registrations of the headers are those of the closures in tags, one for each.
Tidy(k, tags) ==
    /\ R!Prompt(k, Standing)
    /\ \A q, r \in k.regs \cap Standing : q.tag = r.tag => q = r
    /\ \A r \in k.regs \cap Standing : r.tag \in tags

Registered(k, tag) == \E r \in k.regs \cap Standing : r.tag = tag /\ r.path = {tag.at}

\* The two lists of every header are observed.
Observed(k, tags) ==
    \A tag \in tags : tag.at \in Leaf /\ tag.shows # "isfollower" => Registered(k, tag)

\* Nobody leaves a group that nobody is in.
Counted(k, gs) ==
    \A g \in DOMAIN gs : gs[g].left >= ToCome(k, gs[g].page.user, g)

\* The lists of user are in the cache, for good.
Displayed(k, user) ==
    \A l \in Sided : l[1] = lowercased[user] =>
        \E r \in k.regs : ~r.single /\ l \in r.path /\ R!Known(k, r)

Notice(page) == [op |-> "notify", page |-> page]

\* Whom a header is about to be configured for has all that it shows.
Backed(k) == \A page \in Page : R!Awaits(k, Notice(page)) => Displayed(k, page.user)

Quiet(k, gs) ==
    /\ Tidy(k, Headers(gs))
    /\ Observed(k, Headers(gs))
    /\ Counted(k, gs)
    /\ Backed(k)

LEMMA StandingRegs == Standing \in SUBSET R!Reg
    BY DEF Standing

LEMMA ComingSettles ==
    ASSUME NEW k, NEW k2, R!Settles(k, k2, Standing)
    PROVE  \A tag : Coming(k2, tag) => Coming(k, tag)
    BY DEF R!Settles, Coming

LEMMA ToComeFewer ==
    ASSUME NEW k, NEW k2, NEW user, NEW group,
           \A tag \in HeaderOf(user, group) : Coming(k2, tag) => Coming(k, tag)
    PROVE  /\ ToCome(k2, user, group) \in Nat /\ ToCome(k, user, group) \in Nat
           /\ ToCome(k2, user, group) <= ToCome(k, user, group)
<1>. DEFINE a == Shows(user, "followers", "followers", group)
            b == Shows(user, "following", "following", group)
            c == Shows(user, "followers", "isfollower", group)
<1>1. a \in HeaderOf(user, group) /\ b \in HeaderOf(user, group) /\ c \in HeaderOf(user, group)
    BY DEF HeaderOf
<1>2. /\ ToCome(k2, user, group) = One(Coming(k2, a)) + One(Coming(k2, b)) + One(Coming(k2, c))
      /\ ToCome(k, user, group) = One(Coming(k, a)) + One(Coming(k, b)) + One(Coming(k, c))
    BY DEF ToCome
<1>. HIDE DEF a, b, c
<1>3. \A tag : One(Coming(k2, tag)) \in {0, 1} /\ One(Coming(k, tag)) \in {0, 1}
    BY DEF One
<1>4. \A tag \in {a, b, c} : One(Coming(k2, tag)) <= One(Coming(k, tag))
    BY <1>1 DEF One
<1>. QED
    BY <1>2, <1>3, <1>4

\* When fewer calls are to come to the closures of the headers, they are still counted.
LEMMA CountedFewer ==
    ASSUME NEW k, NEW k2, NEW gs \in Seq(Group), Counted(k, gs),
           \A tag \in Headers(gs) : Coming(k2, tag) => Coming(k, tag)
    PROVE  Counted(k2, gs)
<1>. SUFFICES ASSUME NEW g \in DOMAIN gs
              PROVE  gs[g].left >= ToCome(k2, gs[g].page.user, g)
    BY DEF Counted
<1>1. PICK user, left : user = gs[g].page.user /\ left = gs[g].left
    OBVIOUS
<1>2. \A tag \in HeaderOf(user, g) : Coming(k2, tag) => Coming(k, tag)
    BY <1>1 DEF Headers
<1>3. /\ ToCome(k2, user, g) \in Nat /\ ToCome(k, user, g) \in Nat
      /\ ToCome(k2, user, g) <= ToCome(k, user, g)
    BY <1>2, ToComeFewer
<1>4. left >= ToCome(k, user, g)
    BY <1>1 DEF Counted
<1>5. left \in Nat
    <2>1. gs[g] \in Group
        OBVIOUS
    <2>. QED
        BY <1>1, <2>1 DEF Group
<1>. QED
    BY <1>1, <1>3, <1>4, <1>5

LEMMA DisplayedRemembers ==
    ASSUME NEW k, NEW k2, R!Remembers(k, k2), NEW user, Displayed(k, user)
    PROVE  Displayed(k2, user)
    BY DEF R!Remembers, Displayed

LEMMA BackedRemembers ==
    ASSUME NEW k, NEW k2, R!Remembers(k, k2), Backed(k),
           \A t : R!Awaits(k2, t) => R!Awaits(k, t)
    PROVE  Backed(k2)
<1>. SUFFICES ASSUME NEW page \in Page, R!Awaits(k2, Notice(page))
              PROVE  Displayed(k2, page.user)
    BY DEF Backed
<1>1. Displayed(k, page.user)
    BY DEF Backed
<1>. QED
    BY <1>1, DisplayedRemembers

\* The headers stay quiet when nothing becomes due.
LEMMA QuietSettles ==
    ASSUME NEW k, NEW k2, NEW gs \in Seq(Group), Quiet(k, gs),
           R!Settles(k, k2, Standing), R!Remembers(k, k2)
    PROVE  Quiet(k2, gs)
<1>1. k2.regs \cap Standing = k.regs \cap Standing /\ R!Prompt(k2, Standing)
    BY DEF R!Settles
<1>2. Tidy(k2, Headers(gs))
    BY <1>1 DEF Quiet, Tidy
<1>3. Observed(k2, Headers(gs))
    BY <1>1 DEF Quiet, Observed, Registered
<1>4. Counted(k2, gs)
    BY ComingSettles, CountedFewer DEF Quiet
<1>5. Backed(k2)
    <2>1. \A t : R!Awaits(k2, t) => R!Awaits(k, t)
        BY DEF R!Settles
    <2>. QED
        BY <2>1, BackedRemembers DEF Quiet
<1>. QED
    BY <1>2, <1>3, <1>4, <1>5 DEF Quiet

\* More closures of headers are registered: those in more come to those in tags.
Extends(k, k2, tags, more) ==
    /\ Tidy(k2, tags \cup more)
    /\ \A t : t \notin more => (Coming(k2, t) => Coming(k, t))
    /\ \A t : Registered(k, t) => Registered(k2, t)
    /\ Observed(k2, more)
    /\ \A t : R!Awaits(k2, t) => R!Awaits(k, t)
    /\ R!Remembers(k, k2)
    /\ k2 \in R!ClientState

LEMMA ExtendsThen ==
    ASSUME NEW k, NEW k1, NEW k2, NEW tags, NEW m1, NEW m2,
           Extends(k, k1, tags, m1), Extends(k1, k2, tags \cup m1, m2)
    PROVE  Extends(k, k2, tags, m1 \cup m2)
<1>1. Tidy(k2, tags \cup (m1 \cup m2))
    <2>1. (tags \cup m1) \cup m2 = tags \cup (m1 \cup m2)
        OBVIOUS
    <2>. QED
        BY <2>1 DEF Extends
<1>2. R!Remembers(k, k2)
    BY R!RemembersThen, Assumptions DEF Extends
<1>3. Observed(k2, m1 \cup m2)
    BY DEF Extends, Observed
<1>. QED
    BY <1>1, <1>2, <1>3 DEF Extends

\* A list is observed by a closure of a header.
LEMMA WatchTidy ==
    ASSUME NEW k \in R!ClientState, NEW tags, Tidy(k, tags),
           NEW at, NEW tag, tag.at = at, tag \notin tags, at \in Leaf => tag \in Showing,
           NEW k2, k2 = Watches(k, at, tag)
    PROVE  Extends(k, k2, tags, {tag})
<1>1. CASE at \notin Leaf
    <2>1. k2 = k
        BY <1>1 DEF Watches
    <2>2. R!Remembers(k, k)
        BY DEF R!Remembers
    <2>. QED
        BY <1>1, <2>1, <2>2 DEF Extends, Tidy, Observed
<1>2. CASE at \in Leaf
    <2>. DEFINE path == {at}
    <2>1. k2 = R!ObservedOn(k, path, tag)
        BY <1>2, SameObserve DEF Watches, Observe, R!ObservedOn
    <2>2. path \in Single /\ tag \in Tags /\ path = {tag.at}
        BY <1>2 DEF Single, Tags
    <2>. HIDE DEF path
    <2>3. \A q \in k.regs \cap Standing : q.tag # tag
        BY DEF Tidy
    <2>4. R!Prompt(k, Standing) /\ R!New(k, Standing, tag)
        BY <2>3 DEF Tidy, R!New
    <2>7. /\ k2 \in R!ClientState /\ R!Remembers(k, k2)
          /\ R!OneAdded(k, k2, path, tag, Standing)
        BY <2>1, <2>2, <2>4, StandingRegs, Assumptions, R!ObservedOnAdds
    <2>5. PICK r \in R!Reg : /\ r.path = {tag.at} /\ ~r.single /\ r.tag = tag
                             /\ R!Adds(k, k2, r, Standing)
        BY <2>2, <2>7 DEF R!OneAdded
    <2>6. r \in Standing
        BY <1>2, <2>5 DEF Standing
    <2>8. k2.regs = k.regs \cup {r} /\ R!Prompt(k2, Standing)
        BY <2>5 DEF R!Adds
    <2>9. Tidy(k2, tags \cup {tag})
        BY <2>3, <2>5, <2>8 DEF Tidy
    <2>10. \A t : t # tag => (Coming(k2, t) => Coming(k, t))
        BY <2>5 DEF R!Adds, Coming
    <2>11. (\A t : Registered(k, t) => Registered(k2, t)) /\ Registered(k2, tag)
        BY <2>5, <2>6, <2>8 DEF Registered
    <2>12. \A t : R!Awaits(k2, t) => R!Awaits(k, t)
        BY <2>5 DEF R!Adds
    <2>. QED
        BY <2>7, <2>9, <2>10, <2>11, <2>12 DEF Extends, Observed
<1>. QED
    BY <1>1, <1>2

\* The tags of a header, for a group.
LEMMA HeaderTags ==
    ASSUME NEW user \in Name, NEW group \in Nat, NEW tag \in HeaderOf(user, group)
    PROVE  /\ tag.group = group /\ (tag.at \in Leaf => tag \in Showing)
           /\ tag.at \in Leaf => tag.at \in Sided /\ tag.at[1] = lowercased[user]
<1>1. lowercased[user] \in Name
    BY NameAssumption
<1>2. /\ tag \in [op : {"header"}, at : {tag.at}, group : {group},
                  shows : {"followers", "following", "isfollower"}]
      /\ tag.at \in {<<lowercased[user], "followers">>, <<lowercased[user], "following">>}
    BY DEF HeaderOf, Shows
<1>3. tag.at \in Leaf => tag.at \in Sided
    BY <1>2 DEF Sided, Sides
<1>. QED
    BY <1>2, <1>3 DEF Showing

\* One closure less has a call to come.
LEMMA ToComeDrops ==
    ASSUME NEW k, NEW k2, NEW user, NEW group, NEW tag \in HeaderOf(user, group),
           \A t \in HeaderOf(user, group) : Coming(k2, t) => Coming(k, t),
           Coming(k, tag), ~Coming(k2, tag)
    PROVE  /\ ToCome(k2, user, group) \in Nat /\ ToCome(k, user, group) \in Nat
           /\ ToCome(k2, user, group) + 1 <= ToCome(k, user, group)
<1>. DEFINE a == Shows(user, "followers", "followers", group)
            b == Shows(user, "following", "following", group)
            c == Shows(user, "followers", "isfollower", group)
<1>1. HeaderOf(user, group) = {a, b, c}
    BY DEF HeaderOf
<1>2. /\ ToCome(k2, user, group) = One(Coming(k2, a)) + One(Coming(k2, b)) + One(Coming(k2, c))
      /\ ToCome(k, user, group) = One(Coming(k, a)) + One(Coming(k, b)) + One(Coming(k, c))
    BY DEF ToCome
<1>. HIDE DEF a, b, c
<1>3. \A t : One(Coming(k2, t)) \in {0, 1} /\ One(Coming(k, t)) \in {0, 1}
    BY DEF One
<1>4. \A t \in {a, b, c} : One(Coming(k2, t)) <= One(Coming(k, t))
    BY <1>1 DEF One
<1>5. One(Coming(k2, tag)) = 0 /\ One(Coming(k, tag)) = 1
    BY DEF One
<1>6. PICK f, g : /\ f = [t \in {a, b, c} |-> One(Coming(k, t))]
                  /\ g = [t \in {a, b, c} |-> One(Coming(k2, t))]
    OBVIOUS
<1>7. \A t \in {a, b, c} : f[t] \in {0, 1} /\ g[t] \in {0, 1} /\ g[t] <= f[t]
    BY <1>3, <1>4, <1>6
<1>8. g[tag] = 0 /\ f[tag] = 1
    BY <1>1, <1>5, <1>6
<1>9. ToCome(k2, user, group) = g[a] + g[b] + g[c] /\ ToCome(k, user, group) = f[a] + f[b] + f[c]
    BY <1>2, <1>6
<1>10. tag = a \/ tag = b \/ tag = c
    BY <1>1
<1>11. g[a] + g[b] + g[c] + 1 <= f[a] + f[b] + f[c]
    BY <1>7, <1>8, <1>10
<1>12. ToCome(k2, user, group) \in Nat /\ ToCome(k, user, group) \in Nat
    BY <1>2, <1>3
<1>. QED
    BY <1>9, <1>11, <1>12, SMT

\* When no closure of a header has a call to come, there is all that the header shows.
LEMMA NoneToCome ==
    ASSUME NEW k, NEW user \in Name, NEW group \in Nat, ToCome(k, user, group) = 0,
           Observed(k, HeaderOf(user, group))
    PROVE  Displayed(k, user)
<1>. DEFINE a == Shows(user, "followers", "followers", group)
            b == Shows(user, "following", "following", group)
            c == Shows(user, "followers", "isfollower", group)
<1>1. HeaderOf(user, group) = {a, b, c}
    BY DEF HeaderOf
<1>2. /\ a.at = <<lowercased[user], "followers">> /\ b.at = <<lowercased[user], "following">>
      /\ a.shows # "isfollower" /\ b.shows # "isfollower"
    BY DEF Shows
<1>3. ToCome(k, user, group) = One(Coming(k, a)) + One(Coming(k, b)) + One(Coming(k, c))
    BY DEF ToCome
<1>. HIDE DEF a, b, c
<1>4. \A t : One(Coming(k, t)) \in {0, 1}
    BY DEF One
<1>5. One(Coming(k, a)) = 0 /\ One(Coming(k, b)) = 0
    BY <1>3, <1>4
<1>6. ~Coming(k, a) /\ ~Coming(k, b)
    BY <1>5 DEF One
<1>7. ASSUME NEW l \in Sided, l[1] = lowercased[user]
      PROVE  \E r \in k.regs : ~r.single /\ l \in r.path /\ R!Known(k, r)
    <2>1. l \in Leaf /\ l = <<l[1], l[2]>> /\ l[2] \in Sides
        BY LeafAssumption DEF Sided
    <2>2. PICK tag \in {a, b} : tag.at = l
        BY <1>2, <1>7, <2>1 DEF Sides
    <2>3. Registered(k, tag) /\ ~Coming(k, tag)
        BY <1>1, <1>2, <1>6, <2>1, <2>2 DEF Observed
    <2>4. PICK r \in k.regs \cap Standing : r.tag = tag /\ r.path = {l}
        BY <2>2, <2>3 DEF Registered
    <2>5. R!Known(k, r)
        BY <2>3, <2>4 DEF Coming, R!Due
    <2>. QED
        BY <2>4, <2>5 DEF Standing
<1>. QED
    BY <1>7 DEF Displayed

\* One more header.
LEMMA HeadersAdded ==
    ASSUME NEW gs \in Seq(Group), NEW rec \in Group, NEW gs2, gs2 = Append(gs, rec)
    PROVE  Headers(gs2) = Headers(gs) \cup HeaderOf(rec.page.user, Len(gs) + 1)
<1>1. PICK n : n = Len(gs) + 1
    OBVIOUS
<1>2. /\ DOMAIN gs2 = DOMAIN gs \cup {n} /\ gs2[n] = rec
      /\ \A g \in DOMAIN gs : gs2[g] = gs[g]
    BY <1>1, GroupAdded
<1>3. PICK D : D = DOMAIN gs
    OBVIOUS
<1>4. Headers(gs2) = UNION {HeaderOf(gs2[g].page.user, g) : g \in D \cup {n}}
    BY <1>2, <1>3 DEF Headers
<1>5. Headers(gs) = UNION {HeaderOf(gs[g].page.user, g) : g \in D}
    BY <1>3 DEF Headers
<1>. QED
    BY <1>1, <1>2, <1>3, <1>4, <1>5

\* The tags of one header are not those of another.
LEMMA HeadersApart ==
    ASSUME NEW gs \in Seq(Group), NEW tag \in Headers(gs)
    PROVE  \E g \in DOMAIN gs : /\ tag \in HeaderOf(gs[g].page.user, g) /\ tag.group = g
                                /\ gs[g].page.user \in Name /\ g \in Nat
<1>1. PICK g \in DOMAIN gs : tag \in HeaderOf(gs[g].page.user, g)
    BY DEF Headers
<1>2. gs[g] \in Group /\ g \in Nat
    OBVIOUS
<1>3. PICK user : user = gs[g].page.user
    OBVIOUS
<1>4. user \in Name
    BY <1>2, <1>3 DEF Group, Page
<1>5. tag.group = g
    BY <1>1, <1>2, <1>3, <1>4, HeaderTags
<1>. QED
    BY <1>1, <1>2, <1>3, <1>4, <1>5

\* The closures of a header are registered, those of the lists among them.
LEMMA ShowTidy ==
    ASSUME NEW k \in R!ClientState, NEW tags, Tidy(k, tags),
           NEW me, NEW user \in Name, NEW group \in Nat,
           \A t \in HeaderOf(user, group) : t \notin tags,
           NEW k3, k3 = ShowHeader(k, me, user, group)
    PROVE  Extends(k, k3, tags, HeaderOf(user, group))
<1>1. PICK a, b, c :
        /\ a = Shows(user, "followers", "followers", group)
        /\ b = Shows(user, "following", "following", group)
        /\ c = Shows(user, "followers", "isfollower", group)
    OBVIOUS
<1>3. /\ HeaderOf(user, group) = {a, b, c} /\ a # b /\ b # c /\ a # c
      /\ a.at = <<lowercased[user], "followers">>
      /\ b.at = <<lowercased[user], "following">>
      /\ c.at = <<lowercased[user], "followers">>
      /\ c.shows = "isfollower"
    BY <1>1 DEF HeaderOf, Shows
<1>4. \A t \in {a, b, c} : t.at \in Leaf => t \in Showing
    BY <1>3, HeaderTags
<1>6. \A t \in {a, b, c} : t \notin tags
    BY <1>3
<1>7. PICK k1, k2 : /\ k1 = Watches(k, a.at, a) /\ k2 = Watches(k1, b.at, b)
                    /\ k3 = IF me = NoName THEN k2 ELSE Watches(k2, c.at, c)
    BY <1>1, <1>3 DEF ShowHeader, getRelationShips, isValidRelationship
<1>8. Extends(k, k1, tags, {a})
    BY <1>4, <1>6, <1>7, WatchTidy
<1>9. Extends(k1, k2, tags \cup {a}, {b})
    <2>1. b \notin tags \cup {a}
        BY <1>3, <1>6
    <2>2. Tidy(k1, tags \cup {a}) /\ k1 \in R!ClientState
        BY <1>8 DEF Extends
    <2>. QED
        BY <1>4, <1>7, <2>1, <2>2, WatchTidy
<1>10. Extends(k2, k3, tags \cup ({a} \cup {b}), {c})
    <2>1. c \notin tags \cup ({a} \cup {b})
        BY <1>3, <1>6
    <2>2. Tidy(k2, tags \cup ({a} \cup {b})) /\ k2 \in R!ClientState
        BY <1>8, <1>9, ExtendsThen DEF Extends
    <2>3. CASE me = NoName
        <3>1. k3 = k2 /\ R!Remembers(k2, k2)
            BY <1>7, <2>3 DEF R!Remembers
        <3>2. Tidy(k2, (tags \cup ({a} \cup {b})) \cup {c})
            BY <2>2 DEF Tidy
        <3>3. Observed(k2, {c})
            BY <1>3 DEF Observed
        <3>. QED
            BY <2>2, <3>1, <3>2, <3>3 DEF Extends
    <2>4. CASE me # NoName
        <3>1. k3 = Watches(k2, c.at, c)
            BY <1>7, <2>4
        <3>. QED
            BY <1>4, <2>1, <2>2, <3>1, WatchTidy
    <2>. QED
        BY <2>3, <2>4
<1>11. Extends(k, k3, tags, ({a} \cup {b}) \cup {c})
    BY <1>8, <1>9, <1>10, ExtendsThen
<1>12. ({a} \cup {b}) \cup {c} = HeaderOf(user, group)
    BY <1>3
<1>. QED
    BY <1>11, <1>12

\* A header that is made again has a closure for each of the lists, and waits for as
\* many as it may have.
LEMMA ReloadedQuiet ==
    ASSUME NEW k \in R!ClientState, NEW gs \in Seq(Group), Quiet(k, gs),
           NEW page \in Page, NEW me,
           NEW k3, k3 = ShowHeader(k, me, page.user, Len(gs) + 1),
           NEW gs2, gs2 = Append(gs, NewGroup(page))
    PROVE  Quiet(k3, gs2) /\ R!Remembers(k, k3) /\ k3 \in R!ClientState
<1>1. PICK user, n, rec, tags, more :
        /\ user = page.user /\ n = Len(gs) + 1 /\ rec = NewGroup(page)
        /\ tags = Headers(gs) /\ more = HeaderOf(user, n)
    OBVIOUS
<1>2. rec \in Group /\ rec.page = page /\ rec.left = 3
    BY <1>1, NewGroupIs
<1>3. gs2 = Append(gs, rec)
    BY <1>1
<1>4. /\ gs2 \in Seq(Group) /\ n \in Nat /\ DOMAIN gs2 = DOMAIN gs \cup {n} /\ gs2[n] = rec
      /\ \A g \in DOMAIN gs : gs2[g] = gs[g] /\ g # n
    BY <1>1, <1>2, <1>3, GroupAdded
<1>5. user \in Name
    BY <1>1 DEF Page
<1>6. \A t \in more : t \notin tags
    <2>. SUFFICES ASSUME NEW t \in more, t \in tags PROVE FALSE
        OBVIOUS
    <2>1. t.group = n
        BY <1>1, <1>4, <1>5, HeaderTags
    <2>2. \E g \in DOMAIN gs : t.group = g
        BY <1>1, HeadersApart
    <2>. QED
        BY <1>4, <2>1, <2>2
<1>7. Headers(gs2) = tags \cup more
    <2>1. Headers(gs2) = Headers(gs) \cup HeaderOf(rec.page.user, Len(gs) + 1)
        BY <1>2, <1>3, HeadersAdded
    <2>. QED
        BY <1>1, <1>2, <2>1
<1>8. Tidy(k, tags) /\ Observed(k, tags) /\ Counted(k, gs) /\ Backed(k)
    BY <1>1 DEF Quiet
<1>9. Extends(k, k3, tags, more)
    BY <1>1, <1>4, <1>5, <1>6, <1>8, ShowTidy
<1>10. Tidy(k3, Headers(gs2)) /\ Backed(k3)
    BY <1>7, <1>8, <1>9, BackedRemembers DEF Extends
<1>11. Observed(k3, Headers(gs2))
    BY <1>7, <1>8, <1>9 DEF Extends, Observed
<1>12. Counted(k3, gs)
    <2>1. \A t \in Headers(gs) : Coming(k3, t) => Coming(k, t)
        BY <1>1, <1>6, <1>9 DEF Extends
    <2>. QED
        BY <1>8, <2>1, CountedFewer
<1>13. Counted(k3, gs2)
    <2>. SUFFICES ASSUME NEW g \in DOMAIN gs2
                  PROVE  gs2[g].left >= ToCome(k3, gs2[g].page.user, g)
        BY DEF Counted
    <2>1. CASE g = n
        <3>1. gs2[g].left = 3
            BY <1>2, <1>4, <2>1
        <3>2. \A x : One(x) \in {0, 1}
            BY DEF One
        <3>3. PICK x, y, z : ToCome(k3, gs2[g].page.user, g) = One(x) + One(y) + One(z)
            BY DEF ToCome
        <3>. QED
            BY <3>1, <3>2, <3>3
    <2>2. CASE g # n
        BY <1>4, <1>12, <2>2 DEF Counted
    <2>. QED
        BY <2>1, <2>2
<1>. QED
    BY <1>9, <1>10, <1>11, <1>13 DEF Quiet, Extends

\* A block of the app is dispatched: the one that shows a header, when there is all
\* of it.
LEMMA QuietFollows ==
    ASSUME NEW k \in R!ClientState, NEW gs \in Seq(Group), Quiet(k, gs),
           NEW tag, \A page \in Page : tag = Notice(page) => Displayed(k, page.user),
           NEW k2, k2 = Dispatch(k, tag)
    PROVE  Quiet(k2, gs) /\ R!Remembers(k, k2)
<1>1. k2 = R!Block(k, tag)
    BY DEF Dispatch, R!Block
<1>2. R!Prompt(k, Standing)
    BY DEF Quiet, Tidy
<1>3. R!Follows(k, k2, Standing, tag)
    BY <1>1, <1>2, StandingRegs, Assumptions, R!BlockFollows
<1>4. R!Remembers(k, k2)
    BY <1>3, Assumptions, R!RemembersSame DEF R!Follows
<1>5. /\ R!Prompt(k2, Standing) /\ k2.regs = k.regs
      /\ \A r \in Standing : R!Due(k2, r) => R!Due(k, r)
      /\ \A t : R!Awaits(k2, t) => R!Awaits(k, t) \/ t = tag
    BY <1>3 DEF R!Follows
<1>6. \A t : Coming(k2, t) => Coming(k, t)
    BY <1>5 DEF Coming
<1>7. Counted(k2, gs)
    BY <1>6, CountedFewer DEF Quiet
<1>8. Tidy(k2, Headers(gs))
    BY <1>5 DEF Quiet, Tidy
<1>9. Observed(k2, Headers(gs))
    BY <1>5 DEF Quiet, Observed, Registered
<1>10. Backed(k2)
    <2>. SUFFICES ASSUME NEW page \in Page, R!Awaits(k2, Notice(page))
                  PROVE  Displayed(k2, page.user)
        BY DEF Backed
    <2>1. PICK t : t = Notice(page)
        OBVIOUS
    <2>2. R!Awaits(k, t) \/ t = tag
        BY <1>5, <2>1
    <2>3. Displayed(k, page.user)
        BY <2>1, <2>2 DEF Quiet, Backed
    <2>. QED
        BY <1>4, <2>3, DisplayedRemembers
<1>. QED
    BY <1>4, <1>7, <1>8, <1>9, <1>10 DEF Quiet

\* The last one to leave a group has its header shown.
Notified(k, left, page) == IF left = 1 THEN Dispatch(k, Notice(page)) ELSE k

\* A closure of a header runs: its group has somebody to leave.
LEMMA LeavesOnce ==
    ASSUME NEW k \in R!ClientState, NEW gs \in Seq(Group), Quiet(k, gs),
           NEW r \in R!Ready(k), r \in Standing,
           NEW group, group = r.tag.group, NEW left, left = gs[group].left,
           NEW page, page = gs[group].page,
           NEW gs2, gs2 = [gs EXCEPT ![group].left = left - 1],
           NEW k1, k1 = R!Begin(k, r), NEW k2, k2 = Notified(k1, left, page)
    PROVE  left > 0 /\ group \in DOMAIN gs /\ Quiet(k2, gs2) /\ R!Remembers(k, k2)
<1>3. R!Prompt(k, Standing) /\ ~r.single
    BY DEF Quiet, Tidy, Standing
<1>4. /\ R!Settles(k, k1, Standing)
      /\ r \in k.regs /\ R!Due(k, r) /\ ~R!Due(k1, r)
    BY <1>3, StandingRegs, Assumptions, R!BeginSettles
<1>5. R!Remembers(k, k1)
    BY Assumptions, R!QueueRemembers
<1>6. k1 \in R!ClientState
    BY Assumptions, R!BeginType
<1>7. PICK tag, user : tag = r.tag /\ user = page.user
    OBVIOUS
<1>8. group \in DOMAIN gs /\ tag \in HeaderOf(user, group) /\ user \in Name /\ group \in Nat
    <2>1. tag \in Headers(gs)
        BY <1>4, <1>7 DEF Quiet, Tidy
    <2>2. PICK g \in DOMAIN gs : /\ tag \in HeaderOf(gs[g].page.user, g) /\ tag.group = g
                                 /\ gs[g].page.user \in Name /\ g \in Nat
        BY <2>1, HeadersApart
    <2>. QED
        BY <1>7, <2>2
<1>9. Coming(k, tag) /\ ~Coming(k1, tag)
    <2>1. Coming(k, tag)
        BY <1>4, <1>7 DEF Coming
    <2>2. ASSUME NEW q \in Standing, q.tag = tag, R!Due(k1, q) PROVE FALSE
        <3>1. R!Due(k, q)
            BY <1>4, <2>2 DEF R!Settles
        <3>2. q \in k.regs
            BY <1>3, <3>1 DEF R!Due, R!Prompt
        <3>3. q = r
            BY <1>4, <1>7, <2>2, <3>2 DEF Quiet, Tidy
        <3>. QED
            BY <1>4, <2>2, <3>3
    <2>. QED
        BY <2>1, <2>2 DEF Coming
<1>10. \A t : Coming(k1, t) => Coming(k, t)
    BY <1>4, ComingSettles
<1>11. left \in Nat /\ left >= ToCome(k, user, group)
    <2>1. gs[group] \in Group
        BY <1>8
    <2>. QED
        BY <1>7, <1>8, <2>1 DEF Quiet, Counted, Group
<1>12. /\ ToCome(k1, user, group) \in Nat /\ ToCome(k, user, group) \in Nat
       /\ ToCome(k1, user, group) + 1 <= ToCome(k, user, group)
    BY <1>8, <1>9, <1>10, ToComeDrops
<1>13. left > 0 /\ left - 1 >= ToCome(k1, user, group)
    BY <1>11, <1>12
<1>14. /\ gs2 \in Seq(Group) /\ DOMAIN gs2 = DOMAIN gs /\ gs2[group].left = left - 1
       /\ \A g \in DOMAIN gs : /\ gs2[g].page = gs[g].page
                               /\ g # group => gs2[g] = gs[g]
    BY <1>8, <1>13, GroupLeft
<1>15. Quiet(k1, gs)
    BY <1>4, <1>5, QuietSettles
<1>16. Headers(gs2) = Headers(gs)
    BY <1>14 DEF Headers
<1>17. Counted(k1, gs2)
    <2>. SUFFICES ASSUME NEW g \in DOMAIN gs
                  PROVE  gs2[g].left >= ToCome(k1, gs2[g].page.user, g)
        BY <1>14 DEF Counted
    <2>1. CASE g = group
        <3>1. gs2[g].left = left - 1 /\ gs2[g].page.user = user
            BY <1>7, <1>14, <2>1
        <3>2. ToCome(k1, gs2[g].page.user, g) = ToCome(k1, user, group)
            BY <2>1, <3>1
        <3>. QED
            BY <1>13, <3>1, <3>2
    <2>2. CASE g # group
        BY <1>14, <1>15, <2>2 DEF Quiet, Counted
    <2>. QED
        BY <2>1, <2>2
<1>18. Quiet(k1, gs2)
    BY <1>15, <1>16, <1>17 DEF Quiet
<1>19. CASE left = 1
    <2>1. ToCome(k1, user, group) = 0
        BY <1>12, <1>13, <1>19
    <2>2. Observed(k1, HeaderOf(user, group))
        BY <1>7, <1>8, <1>15 DEF Quiet, Observed, Headers
    <2>3. Displayed(k1, user)
        BY <1>8, <2>1, <2>2, NoneToCome
    <2>4. PICK notice : notice = Notice(page)
        OBVIOUS
    <2>5. \A other \in Page : notice = Notice(other) => Displayed(k1, other.user)
        BY <1>7, <2>3, <2>4 DEF Notice
    <2>6. k2 = Dispatch(k1, notice)
        BY <1>19, <2>4 DEF Notified
    <2>7. Quiet(k2, gs2) /\ R!Remembers(k1, k2)
        BY <1>6, <1>14, <1>18, <2>5, <2>6, QuietFollows
    <2>. QED
        BY <1>5, <1>8, <1>13, <2>7, Assumptions, R!RemembersThen
<1>20. CASE left # 1
    BY <1>5, <1>8, <1>13, <1>18, <1>20 DEF Notified
<1>. QED
    BY <1>19, <1>20

\* The tree as it is, and what a program holds that does not write.
Now == [l \in Leaf |-> {data[l]}]

Calling ==
    [regs |-> Standing \cup {r \in R!Reg : r.tag \in Reading}, tags |-> {},
     done |-> Noticing \X BOOLEAN]

Callings == [d \in Device |-> Calling]

\* A header that is configured has all that it shows.
Complete(k, p) == p \in Shown /\ p.ready => Displayed(k, p.page.user)

CInv ==
    taps = 0 =>
        /\ R!Holding(Now, Callings)
        /\ \A d \in Device : /\ profile[d] # Crashed
                             /\ Quiet(client[d], groups[d])
                             /\ Complete(client[d], profile[d])

LEMMA ShownIs ==
    /\ Home \notin Shown /\ Crashed \notin Shown /\ Home # Crashed
    /\ \A p \in Shown : p.screen = "profile"
    BY DEF Home, Crashed, Shown

LEMMA CompleteRemembers ==
    ASSUME NEW k, NEW k2, R!Remembers(k, k2), NEW p, Complete(k, p)
    PROVE  Complete(k2, p)
    BY DisplayedRemembers DEF Complete

\* While the tree stays as it is, what it has is what there may be.
LEMMA NowStays ==
    ASSUME NEW V, V = Now, UNCHANGED data, NEW G1, R!Holding(V, G1)'
    PROVE  R!Holding(Now, G1)'
<1>1. V = Now'
    BY DEF Now
<1>. QED
    BY <1>1 DEF R!Holding

LEMMA StillNow ==
    ASSUME R!Inv, R!Inv', NEW V, V = Now, NEW G1, R!Holding(V, G1)'
    PROVE  R!Holding(Now, G1)'
<1>1. data \in [Leaf -> List] /\ data' \in [Leaf -> List]
    BY DEF R!Inv, R!TypeOK
<1>2. \A l \in Leaf : data'[l] \in V[l]
    BY DEF R!Holding
<1>3. data' = data
    BY <1>1, <1>2 DEF Now
<1>. QED
    BY <1>3, NowStays

\* A client in which nothing is written and whose headers are quiet.
Peaceful(k, s, V, gs) == R!Steady(k, s, V, Calling) /\ Quiet(k, gs)

\* What a device holds while nobody taps.
LEMMA CalmHere ==
    ASSUME IInv, CInv, taps = 0, NEW V, V = Now, NEW d \in Device
    PROVE  /\ R!Inv /\ R!Holding(V, Callings) /\ Callings[d] = Calling
           /\ Peaceful(client[d], in[d], V, groups[d]) /\ in[d] \in Seq(R!Message)
           /\ client[d] \in R!ClientState /\ groups[d] \in Seq(Group)
           /\ profile[d] \in Shown \cup {Home, Crashed}
           /\ profile[d] # Crashed /\ Complete(client[d], profile[d])
<1>1. R!Inv /\ R!Holding(V, Callings) /\ Callings[d] = Calling
    BY DEF IInv, CInv, Callings
<1>2. R!Steady(client[d], in[d], V, Calling) /\ in[d] \in Seq(R!Message)
    BY <1>1, LocalSteady
<1>3. client[d] \in R!ClientState
    BY <1>1 DEF R!Inv, R!TypeOK
<1>4. groups[d] \in Seq(Group) /\ profile[d] \in Shown \cup {Home, Crashed}
    BY DEF IInv, AppOK
<1>. QED
    BY <1>1, <1>2, <1>3, <1>4 DEF CInv, Peaceful

\* A step of a device.
LEMMA CalmProgram ==
    ASSUME IInv, CInv, taps = 0, NEW d \in Device,
           UNCHANGED <<data, sub, in, drops>>,
           NEW k, client' = [client EXCEPT ![d] = k], k.conn = client[d].conn,
           NEW p, profile' = [profile EXCEPT ![d] = p], p # Crashed, Complete(k, p),
           NEW gs, groups' = [groups EXCEPT ![d] = gs],
           NEW V, V = Now, Peaceful(k, in[d], V, gs)
    PROVE  CInv'
<1>1. /\ profile \in [Device -> Shown \cup {Home, Crashed}]
      /\ groups \in [Device -> Seq(Group)]
      /\ client \in [Device -> R!ClientState] /\ R!Inv
    BY DEF IInv, AppOK, R!Inv, R!TypeOK
<1>2. /\ profile'[d] = p /\ client'[d] = k /\ groups'[d] = gs
      /\ \A e \in Device \ {d} : /\ profile'[e] = profile[e] /\ client'[e] = client[e]
                                 /\ groups'[e] = groups[e]
    BY <1>1
<1>3. R!Holding(Now, Callings)'
    <2>1. R!Holding(V, Callings) /\ Callings[d] = Calling
        BY CalmHere
    <2>2. R!Steady(k, in[d], V, Callings[d])
        BY <2>1 DEF Peaceful
    <2>3. R!Holding(V, Callings)'
        BY <1>1, <2>1, <2>2, ProgramStep
    <2>. QED
        BY <2>3, NowStays
<1>4. ASSUME NEW e \in Device
      PROVE  /\ profile'[e] # Crashed /\ Quiet(client'[e], groups'[e])
             /\ Complete(client'[e], profile'[e])
    <2>1. CASE e = d
        BY <1>2, <2>1 DEF Peaceful
    <2>2. CASE e # d
        BY <1>2, <2>2 DEF CInv
    <2>. QED
        BY <2>1, <2>2
<1>. QED
    BY <1>3, <1>4 DEF CInv

\* No device has called anything yet.
LEMMA StartQuiet == Quiet(DB!ClientInit, <<>>)
<1>1. PICK k : k = DB!ClientInit
    OBVIOUS
<1>2. k.regs = {} /\ k.writes = {} /\ k.main = <<>>
    BY <1>1 DEF DB!ClientInit
<1>3. DOMAIN <<>> = {}
    OBVIOUS
<1>4. Headers(<<>>) = {}
    BY <1>3 DEF Headers
<1>5. R!Prompt(k, Standing)
    BY <1>2 DEF R!Prompt, R!Calls
<1>6. Backed(k)
    BY <1>2 DEF Backed, R!Awaits
<1>7. Tidy(k, {}) /\ Observed(k, {}) /\ Counted(k, <<>>)
    BY <1>2, <1>3, <1>5 DEF Tidy, Observed, Counted
<1>. QED
    BY <1>1, <1>4, <1>6, <1>7 DEF Quiet

LEMMA CInvStart == Init => CInv
<1>. SUFFICES ASSUME Init PROVE CInv
    OBVIOUS
<1>1. PICK V : V = Now
    OBVIOUS
<1>2. DB!Init /\ data = Initial
    BY DEF Init, DB!Init
<1>3. \A l \in Leaf : Initial[l] \in V[l]
    BY <1>1, <1>2 DEF Now
<1>4. R!Holding(V, Callings)
    BY <1>2, <1>3, StartStep
<1>5. \A d \in Device : profile[d] = Home /\ groups[d] = <<>> /\ client[d] = DB!ClientInit
    BY DEF Init, DB!Init
<1>6. \A d \in Device : Complete(client[d], profile[d]) /\ profile[d] # Crashed
    BY <1>5, ShownIs DEF Complete
<1>7. \A d \in Device : Quiet(client[d], groups[d])
    BY <1>5, StartQuiet
<1>. QED
    BY <1>1, <1>4, <1>6, <1>7 DEF CInv

\* The closures of a header may be registered.
LEMMA ShowableCalling == \A n : Showable(Calling, n)
<1>. SUFFICES ASSUME NEW n, NEW t \in HeadersOf(n)
              PROVE  t \in Tags /\ May(Calling, t.at, FALSE, t)
    BY DEF Showable
<1>1. t \in Showing /\ t \in Tags /\ t.at \in Leaf
    BY DEF HeadersOf, Showing, Tags, Sided
<1>2. ASSUME NEW id \in Nat
      PROVE  [id |-> id, path |-> {t.at}, single |-> FALSE, tag |-> t] \in Standing
    <2>1. {t.at} \in Single
        BY <1>1 DEF Single
    <2>. QED
        BY <1>1, <2>1 DEF Standing, R!Reg
<1>. QED
    BY <1>1, <1>2 DEF May, Calling

\* The posts are asked for.
LEMMA PostsQuiet ==
    ASSUME NEW k, NEW s \in Seq(R!Message), NEW V, NEW gs \in Seq(Group),
           Peaceful(k, s, V, gs), NEW user, NEW page \in Page,
           NEW k1, k1 = getPosts(k, user, page)
    PROVE  Peaceful(k1, s, V, gs) /\ k1.conn = k.conn
<1>. DEFINE at == <<lowercased[user], "posts">>
            tag == [op |-> "posts", page |-> page]
            path == {at}
<1>0. R!Steady(k, s, V, Calling) /\ Quiet(k, gs) /\ k \in R!ClientState
    BY DEF Peaceful, R!Steady
<1>1. CASE at \in Leaf
    <2>1. tag \in Tags /\ tag \in Reading /\ path \in Single
        BY <1>1 DEF Tags, Reading, Single
    <2>2. k1 = Ask(k, {at}, tag)
        BY <1>1 DEF getPosts
    <2>3. \A id \in Nat : [id |-> id, path |-> {at}, single |-> TRUE, tag |-> tag] \in Calling.regs
        BY <2>1 DEF Calling, R!Reg
    <2>4. May(Calling, at, TRUE, tag)
        BY <2>3 DEF May
    <2>5. k1 = R!ObservedOnce(k, path, tag)
        BY <2>2, SameObserve DEF Ask, R!ObservedOnce
    <2>. HIDE DEF at, tag, path
    <2>6. After(Ask(k, {at}, tag), k, s, V, Calling)
        BY <1>0, <1>1, <2>1, <2>4, AskStep
    <2>7. R!Prompt(k, Standing) /\ \A r \in Standing : ~r.single
        BY <1>0 DEF Quiet, Tidy, Standing
    <2>8. R!Settles(k, k1, Standing) /\ R!Remembers(k, k1)
        BY <1>0, <2>1, <2>5, <2>7, StandingRegs, Assumptions, R!ObservedOnceSettles
    <2>9. Quiet(k1, gs)
        BY <1>0, <2>8, QuietSettles
    <2>. QED
        BY <2>2, <2>6, <2>9 DEF After, Peaceful
<1>2. CASE at \notin Leaf
    BY <1>2 DEF getPosts
<1>. QED
    BY <1>1, <1>2

\* A header is made again.
LEMMA ReloadCalm ==
    ASSUME IInv, CInv, taps = 0, NEW d \in Device, NEW page \in Page,
           UNCHANGED <<data, sub, in, drops>>,
           NEW k, Reload(d, k, page), k.conn = client[d].conn,
           NEW p, profile' = [profile EXCEPT ![d] = p], p # Crashed, Complete(k, p),
           NEW V, V = Now, Peaceful(k, in[d], V, groups[d])
    PROVE  CInv'
<1>1. PICK gs, gs2, me, n, k2 :
        /\ gs = groups[d] /\ gs2 = Append(gs, NewGroup(page)) /\ me = username[d]
        /\ n = Len(gs) + 1 /\ k2 = ShowHeader(k, me, page.user, n)
    OBVIOUS
<1>2. groups' = [groups EXCEPT ![d] = gs2] /\ client' = [client EXCEPT ![d] = k2]
    BY <1>1 DEF Reload, NewGroup
<1>3. gs \in Seq(Group) /\ in[d] \in Seq(R!Message)
    BY <1>1, CalmHere
<1>4. R!Steady(k, in[d], V, Calling) /\ Quiet(k, gs) /\ k \in R!ClientState
    BY <1>1 DEF Peaceful, R!Steady
<1>5. Quiet(k2, gs2) /\ R!Remembers(k, k2)
    BY <1>1, <1>3, <1>4, ReloadedQuiet
<1>6. After(k2, k, in[d], V, Calling)
    <2>1. PICK N, user : N = {n} /\ user = page.user
        OBVIOUS
    <2>2. n \in N /\ n \in Nat /\ Showable(Calling, N)
        BY <1>1, <1>3, <2>1, ShowableCalling
    <2>3. k2 = ShowHeader(k, me, user, n)
        BY <1>1, <2>1
    <2>4. After(ShowHeader(k, me, user, n), k, in[d], V, Calling)
        BY <1>3, <1>4, <2>2, HeaderStep
    <2>. QED
        BY <2>3, <2>4
<1>7. Peaceful(k2, in[d], V, gs2) /\ k2.conn = client[d].conn
    BY <1>5, <1>6 DEF After, Peaceful
<1>8. Complete(k2, p)
    BY <1>5, CompleteRemembers
<1>. QED
    BY <1>2, <1>7, <1>8, CalmProgram

LEMMA VisitCalm ==
    ASSUME IInv, CInv, taps = 0, NEW d \in Device, Visit(d)
    PROVE  CInv'
<1>1. PICK page \in Page, p \in Shown :
        /\ profile' = [profile EXCEPT ![d] = p] /\ ~p.ready
        /\ Reload(d, getPosts(client[d], page.user, page), page)
    BY VisitStep DEF IInv
<1>2. UNCHANGED <<data, sub, in, drops>>
    BY DEF Visit
<1>3. PICK k, k1, user, gs, V : /\ k = client[d] /\ user = page.user /\ gs = groups[d]
                                /\ k1 = getPosts(k, user, page) /\ V = Now
    OBVIOUS
<1>4. Peaceful(k, in[d], V, gs) /\ gs \in Seq(Group) /\ in[d] \in Seq(R!Message)
    BY <1>3, CalmHere
<1>5. Peaceful(k1, in[d], V, gs) /\ k1.conn = k.conn
    BY <1>3, <1>4, PostsQuiet
<1>6. Complete(k1, p) /\ p # Crashed
    BY <1>1, ShownIs DEF Complete
<1>7. Reload(d, k1, page)
    BY <1>1, <1>3
<1>. QED
    BY <1>1, <1>2, <1>3, <1>5, <1>6, <1>7, ReloadCalm

\* No profile is shown, and the client stays.
LEMMA ScreenCalm ==
    ASSUME IInv, CInv, taps = 0, NEW d \in Device, Leave(d) \/ SignOut(d) \/ Relaunch(d)
    PROVE  CInv'
<1>1. PICK k, gs, V : k = client[d] /\ gs = groups[d] /\ V = Now
    OBVIOUS
<1>2. UNCHANGED <<database, groups>> /\ profile' = [profile EXCEPT ![d] = Home]
    BY DEF Leave, SignOut, Relaunch
<1>3. Peaceful(k, in[d], V, gs)
    BY <1>1, CalmHere
<1>4. UNCHANGED <<data, sub, in, drops>>
    BY <1>2 DEF database
<1>5. client' = [client EXCEPT ![d] = k] /\ groups' = [groups EXCEPT ![d] = gs]
    <2>1. groups \in [Device -> Seq(Group)] /\ client \in [Device -> R!ClientState]
        BY DEF IInv, AppOK, R!Inv, R!TypeOK
    <2>2. UNCHANGED <<client, groups>>
        BY <1>2 DEF database
    <2>. QED
        BY <1>1, <2>1, <2>2
<1>6. Complete(k, Home) /\ Home # Crashed
    BY ShownIs DEF Complete
<1>. QED
    BY <1>1, <1>2, <1>3, <1>4, <1>5, <1>6, CalmProgram

\* The network, and a connection that is lost.
LEMMA WireCalm ==
    ASSUME IInv, CInv, taps = 0, NEW d \in Device, Network(d) \/ Disconnect(d)
    PROVE  CInv'
<1>1. UNCHANGED <<profile, groups>>
    BY DEF Network, Disconnect, screens
<1>2. R!Inv /\ AppOK
    BY DEF IInv
<1>3. R!Network(d) \/ R!Disconnect(d)
    BY SameNetwork, SameStart DEF Network, Disconnect
<1>4. \A e \in Device : R!Remembers(client[e], client'[e])
    BY <1>2, <1>3, Assumptions, R!NetworkRemembers
<1>5. PICK V : V = Now
    OBVIOUS
<1>6. R!Holding(V, Callings)
    BY <1>5 DEF CInv
<1>7. R!Holding(Now, Callings)'
    <2>1. R!Answerable(Callings[d])
        BY DEF R!Answerable, Callings, Calling
    <2>2. R!Inv' /\ R!Holding(V, Callings)'
        BY <1>2, <1>6, <2>1, NetworkStep, DisconnectStep DEF Network, Disconnect
    <2>. QED
        BY <1>2, <1>5, <2>2, StillNow
<1>8. R!Plain(V)
    BY <1>5 DEF R!Plain, Now
<1>9. ASSUME NEW e \in Device
      PROVE  /\ profile'[e] # Crashed /\ Quiet(client'[e], groups'[e])
             /\ Complete(client'[e], profile'[e])
    <2>1. PICK k, k2, gs : k = client[e] /\ k2 = client'[e] /\ gs = groups[e]
        OBVIOUS
    <2>2. Quiet(k, gs) /\ gs \in Seq(Group)
        BY <1>2, <2>1 DEF CInv, AppOK
    <2>3. R!Prompt(client[e], Standing)
        BY <2>1, <2>2 DEF Quiet, Tidy
    <2>4. R!Settles(client[e], client'[e], Standing)
        BY <1>2, <1>3, <1>6, <1>8, <2>3, StandingRegs, Assumptions, R!NetworkSettles
    <2>5. R!Settles(k, k2, Standing) /\ R!Remembers(k, k2)
        BY <1>4, <2>1, <2>4
    <2>6. Quiet(k2, gs)
        BY <2>2, <2>5, QuietSettles
    <2>7. Complete(k2, profile[e]) /\ profile[e] # Crashed
        BY <2>1, <2>5, CompleteRemembers DEF CInv
    <2>. QED
        BY <1>1, <2>1, <2>6, <2>7
<1>. QED
    BY <1>7, <1>9 DEF CInv

\* Who is called while nobody taps is a closure of a header or of the posts.
LEMMA CalledCalmly ==
    ASSUME IInv, CInv, taps = 0, NEW d \in Device, NEW r \in DB!Ready(client[d]),
           NEW V, V = Now, NEW k, k = client[d], NEW k0, k0 = DB!TakeValue(k, r),
           NEW k1, k1 = R!Begin(k, r)
    PROVE  /\ k \in R!ClientState /\ r \in R!Ready(k) /\ k1 = DB!Begin(k, r)
           /\ k1 \in R!ClientState /\ R!Remembers(k, k1) /\ R!Remembers(k, k0)
           /\ r \in Standing \/ r.tag \in Reading
           /\ Peaceful(k0, in[d], V, groups[d]) /\ k0.conn = k.conn
           /\ Peaceful(k1, in[d], V, groups[d]) /\ k1.conn = k.conn
<1>1. /\ R!Steady(k, in[d], V, Calling) /\ Quiet(k, groups[d]) /\ in[d] \in Seq(R!Message)
      /\ k \in R!ClientState /\ groups[d] \in Seq(Group)
    BY CalmHere DEF Peaceful
<1>2. r \in R!Ready(k) /\ k1 = DB!Begin(k, r) /\ k0 = R!TakeValue(k, r)
    BY SameTake
<1>3. /\ R!Steady(k1, in[d], V, Calling) /\ k1.conn = k.conn
      /\ R!Steady(k0, in[d], V, Calling) /\ k0.conn = k.conn
      /\ r \in Calling.regs
    <2>1. r \in DB!Ready(k) /\ k0 = DB!TakeValue(k, r)
        OBVIOUS
    <2>. QED
        BY <1>1, <1>2, <2>1, ValueStep
<1>4. r \in Standing \/ r.tag \in Reading
    BY <1>3 DEF Calling
<1>5. R!Prompt(k, Standing)
    BY <1>1 DEF Quiet, Tidy
<1>6. R!Settles(k, k0, Standing)
    BY <1>1, <1>2, <1>5, StandingRegs, Assumptions, R!TakeValueSettles
<1>7. R!Settles(k, k1, Standing)
    <2>1. r \in Standing => ~r.single
        BY DEF Standing
    <2>2. R!Prompt(k, Standing) /\ k \in R!ClientState /\ r \in R!Ready(k)
        BY <1>1, <1>2, <1>5
    <2>3. R!Settles(k, R!Begin(k, r), Standing)
        BY <2>1, <2>2, StandingRegs, Assumptions, R!BeginSettles
    <2>. QED
        BY <2>3
<1>8. R!Remembers(k, k1) /\ R!Remembers(k, k0) /\ k1 \in R!ClientState
    <2>1. k \in R!ClientState /\ r \in R!Ready(k)
        BY <1>1, <1>2
    <2>2. R!Remembers(k, R!Begin(k, r)) /\ R!Remembers(k, R!TakeValue(k, r))
        BY <2>1, Assumptions, R!QueueRemembers
    <2>3. R!Begin(k, r) \in R!ClientState
        BY <2>1, Assumptions, R!BeginType
    <2>4. k0 = R!TakeValue(k, r) /\ k1 = R!Begin(k, r)
        BY <1>2
    <2>. QED
        BY <2>2, <2>3, <2>4
<1>10. PICK gs : gs = groups[d]
    OBVIOUS
<1>11. Quiet(k, gs) /\ gs \in Seq(Group)
    BY <1>1, <1>10
<1>12. Quiet(k0, gs)
    BY <1>6, <1>8, <1>11, QuietSettles
<1>13. Quiet(k1, gs)
    BY <1>7, <1>8, <1>11, QuietSettles
<1>. QED
    BY <1>1, <1>2, <1>3, <1>4, <1>8, <1>10, <1>12, <1>13 DEF Peaceful

\* A screen with another of its fields is complete as before.
LEMMA FieldComplete ==
    ASSUME AppOK, NEW d \in Device, NEW page, IsShown(d, page), NEW b \in BOOLEAN,
           NEW k, Complete(k, profile[d])
    PROVE  /\ Complete(k, [profile[d] EXCEPT !.isfollower = b])
           /\ [profile[d] EXCEPT !.isfollower = b] # Crashed
           /\ Displayed(k, page.user) => Complete(k, [profile[d] EXCEPT !.ready = TRUE])
           /\ [profile[d] EXCEPT !.ready = TRUE] # Crashed
<1>1. PICK p, p2, p3 : /\ p = profile[d] /\ p2 = [profile[d] EXCEPT !.isfollower = b]
                       /\ p3 = [profile[d] EXCEPT !.ready = TRUE]
    OBVIOUS
<1>2. /\ p \in Shown /\ p.page = page /\ p2 \in Shown /\ p2.page = page /\ p2.ready = p.ready
      /\ p3 \in Shown /\ p3.page = page
    BY <1>1, FieldSet
<1>3. Complete(k, p2) /\ p2 # Crashed
    BY <1>1, <1>2, ShownIs DEF Complete
<1>4. p3 # Crashed /\ (Displayed(k, page.user) => Complete(k, p3))
    BY <1>2, ShownIs DEF Complete
<1>. QED
    BY <1>1, <1>3, <1>4

LEMMA HeaderCalm ==
    ASSUME IInv, CInv, taps = 0, NEW d \in Device, NEW r \in DB!Ready(client[d]),
           RunHeader(d, r), UNCHANGED <<data, drops>>
    PROVE  CInv'
<1>1. PICK k, k0, k1, group, gs, page, left, gs2, k2, V :
        /\ k = client[d] /\ k0 = DB!TakeValue(k, r) /\ k1 = R!Begin(k, r)
        /\ group = r.tag.group /\ gs = groups[d] /\ page = gs[group].page
        /\ left = gs[group].left /\ gs2 = [gs EXCEPT ![group].left = left - 1]
        /\ k2 = Notified(k1, left, page) /\ V = Now
    OBVIOUS
<1>2. /\ k \in R!ClientState /\ r \in R!Ready(k) /\ k1 = DB!Begin(k, r)
      /\ k1 \in R!ClientState
      /\ (r \in Standing \/ r.tag \in Reading)
      /\ Peaceful(k1, in[d], V, gs) /\ k1.conn = k.conn
    BY <1>1, CalledCalmly
<1>3. /\ Peaceful(k, in[d], V, gs) /\ in[d] \in Seq(R!Message) /\ gs \in Seq(Group)
      /\ profile[d] \in Shown \cup {Home, Crashed}
      /\ profile[d] # Crashed /\ Complete(k, profile[d])
    BY <1>1, CalmHere
<1>4. r \in Standing
    BY <1>2 DEF RunHeader, Reading
<1>5. left > 0 /\ group \in DOMAIN gs /\ Quiet(k2, gs2) /\ R!Remembers(k, k2)
    <2>1. Quiet(k, gs) /\ gs \in Seq(Group) /\ k \in R!ClientState /\ r \in R!Ready(k)
        BY <1>2, <1>3 DEF Peaceful
    <2>2. /\ group = r.tag.group /\ left = gs[group].left /\ page = gs[group].page
          /\ gs2 = [gs EXCEPT ![group].left = left - 1]
          /\ k1 = R!Begin(k, r) /\ k2 = Notified(k1, left, page)
        BY <1>1
    <2>. QED
        BY <1>4, <2>1, <2>2, LeavesOnce, ZenonT(40)
<1>6. page \in Page
    <2>2. group \in DOMAIN gs
        BY <1>5
    <2>3. gs[group] \in Group
        BY <1>3, <2>2
    <2>. QED
        BY <1>1, <2>3 DEF Group
<1>7. After(k2, k1, in[d], V, Calling)
    <2>1. R!Steady(k1, in[d], V, Calling)
        BY <1>2 DEF Peaceful
    <2>2. CASE left = 1
        <3>1. PICK tag : tag = Notice(page)
            OBVIOUS
        <3>2. tag \in Tags /\ <<tag, TRUE>> \in Calling.done
            BY <1>6, <3>1 DEF Notice, Tags, Blocks, Noticing, Calling
        <3>3. R!Steady(Dispatch(k1, tag), in[d], V, Calling) /\ Dispatch(k1, tag).conn = k1.conn
            BY <1>3, <2>1, <3>2, DispatchStep
        <3>. QED
            BY <1>1, <2>2, <3>1, <3>3 DEF After, Notified
    <2>3. CASE left # 1
        BY <1>1, <2>1, <2>3 DEF After, Notified
    <2>. QED
        BY <2>2, <2>3
<1>8. Peaceful(k2, in[d], V, gs2) /\ k2.conn = client[d].conn
    BY <1>1, <1>2, <1>5, <1>7 DEF After, Peaceful
<1>9. HeaderLeaves(d, k1, r.tag, page)
    <2>1. k1 = DB!Begin(client[d], r) /\ page = groups[d][r.tag.group].page
        BY <1>1, <1>2
    <2>2. groups[d][r.tag.group].left # 0
        <3>1. left = groups[d][r.tag.group].left
            BY <1>1
        <3>2. left # 0
            <4>1. left > 0
                BY <1>5
            <4>. QED
                BY <4>1
        <3>. QED
            BY <3>1, <3>2
    <2>3. \/ Crash(d) /\ UNCHANGED groups /\ groups[d][r.tag.group].left = 0
          \/ HeaderLeaves(d, k1, r.tag, page)
        BY <2>1, HeaderRuns
    <2>. QED
        BY <2>2, <2>3
<1>10. /\ groups' = [groups EXCEPT ![d] = gs2] /\ client' = [client EXCEPT ![d] = k2]
       /\ UNCHANGED <<sub, in>>
    BY <1>1, <1>9 DEF HeaderLeaves, Notified, Notice
<1>11. AppOK
    BY DEF IInv
<1>12. Complete(k2, profile[d])
    BY <1>3, <1>5, CompleteRemembers
<1>13. CASE profile' = profile
    <2>1. PICK p : p = profile[d]
        OBVIOUS
    <2>2. profile' = [profile EXCEPT ![d] = p]
        BY <1>11, <1>13, <2>1 DEF AppOK
    <2>3. p # Crashed /\ Complete(k2, p)
        BY <1>3, <1>12, <2>1
    <2>. QED
        BY <1>1, <1>8, <1>10, <2>2, <2>3, CalmProgram
<1>14. CASE /\ IsShown(d, page)
            /\ \E b \in BOOLEAN : profile' = [profile EXCEPT ![d] = [@ EXCEPT !.isfollower = b]]
    <2>1. PICK b \in BOOLEAN : profile' = [profile EXCEPT ![d] = [@ EXCEPT !.isfollower = b]]
        BY <1>14
    <2>2. PICK p : p = [profile[d] EXCEPT !.isfollower = b]
        OBVIOUS
    <2>3. profile' = [profile EXCEPT ![d] = p]
        BY <2>1, <2>2
    <2>4. p # Crashed /\ Complete(k2, p)
        BY <1>11, <1>12, <1>14, <2>2, FieldComplete
    <2>. QED
        BY <1>1, <1>8, <1>10, <2>3, <2>4, CalmProgram
<1>. QED
    BY <1>9, <1>13, <1>14 DEF HeaderLeaves

\* The step of a device that changes its client only.
LEMMA ClientCalm ==
    ASSUME IInv, CInv, taps = 0, NEW d \in Device,
           UNCHANGED <<data, sub, in, drops, profile, groups>>,
           NEW k, client' = [client EXCEPT ![d] = k], k.conn = client[d].conn,
           R!Remembers(client[d], k),
           NEW V, V = Now, Peaceful(k, in[d], V, groups[d])
    PROVE  CInv'
<1>1. PICK p, gs : p = profile[d] /\ gs = groups[d]
    OBVIOUS
<1>2. profile' = [profile EXCEPT ![d] = p] /\ groups' = [groups EXCEPT ![d] = gs]
    BY <1>1 DEF IInv, AppOK
<1>3. p # Crashed /\ Complete(client[d], p)
    BY <1>1, CalmHere
<1>4. Complete(k, p)
    BY <1>3, CompleteRemembers
<1>. QED
    BY <1>1, <1>2, <1>3, <1>4, CalmProgram

LEMMA RunValueCalm ==
    ASSUME IInv, CInv, taps = 0, NEW d \in Device, RunValue(d)
    PROVE  CInv'
<1>1. UNCHANGED <<data, drops>>
    BY DEF RunValue
<1>2. PICK r \in DB!Ready(client[d]) :
        \/ RunHeader(d, r)
        \/ RunStale(d, r) \/ RunUpdate(d, r) \/ RunPosts(d, r)
    BY DEF RunValue
<1>3. CASE RunHeader(d, r)
    BY <1>1, <1>3, HeaderCalm
<1>4. CASE RunStale(d, r) \/ RunUpdate(d, r) \/ RunPosts(d, r)
    <2>1. UNCHANGED <<sub, in, profile, groups>>
        BY <1>4 DEF RunStale, RunUpdate, RunPosts
    <2>2. PICK k, k0, k1, gs, V :
            /\ k = client[d] /\ k0 = DB!TakeValue(k, r) /\ k1 = R!Begin(k, r)
            /\ gs = groups[d] /\ V = Now
        OBVIOUS
    <2>3. /\ k \in R!ClientState /\ k1 = DB!Begin(k, r) /\ k1 \in R!ClientState
          /\ R!Remembers(k, k1) /\ R!Remembers(k, k0)
          /\ r \in Standing \/ r.tag \in Reading
          /\ Peaceful(k0, in[d], V, gs) /\ k0.conn = k.conn
          /\ Peaceful(k1, in[d], V, gs) /\ k1.conn = k.conn
        BY <2>2, CalledCalmly
    <2>4. in[d] \in Seq(R!Message) /\ gs \in Seq(Group)
        BY <2>2, CalmHere
    <2>5. CASE RunStale(d, r)
        <3>1. client' = [client EXCEPT ![d] = k0]
            BY <2>2, <2>5 DEF RunStale
        <3>. QED
            BY <1>1, <2>1, <2>2, <2>3, <3>1, ClientCalm
    <2>6. CASE RunUpdate(d, r)
        BY <2>3, <2>6 DEF RunUpdate, Standing, Showing, Reading
    <2>7. CASE RunPosts(d, r)
        <3>1. PICK tag, k2 : /\ tag = [op |-> "reload", page |-> r.tag.page]
                             /\ k2 = Dispatch(k1, tag)
            OBVIOUS
        <3>2. client' = [client EXCEPT ![d] = k2] /\ r.tag.op = "posts"
            BY <2>2, <2>3, <2>7, <3>1 DEF RunPosts
        <3>3. r.tag \in Reading
            BY <2>3, <3>2 DEF Standing, Showing
        <3>4. R!Steady(k1, in[d], V, Calling) /\ Quiet(k1, gs)
            BY <2>3 DEF Peaceful
        <3>5. tag \in Tags /\ <<tag, TRUE>> \in Calling.done
            BY <3>1, <3>3 DEF Reading, Tags, Blocks, Noticing, Calling
        <3>6. R!Steady(Dispatch(k1, tag), in[d], V, Calling) /\ Dispatch(k1, tag).conn = k1.conn
            BY <2>4, <3>4, <3>5, DispatchStep
        <3>7. \A page \in Page : tag = Notice(page) => Displayed(k1, page.user)
            BY <3>1 DEF Notice
        <3>8. Quiet(k2, gs) /\ R!Remembers(k1, k2)
            BY <2>3, <2>4, <3>1, <3>4, <3>7, QuietFollows
        <3>9. R!Remembers(k, k2)
            BY <2>3, <3>8, Assumptions, R!RemembersThen
        <3>10. Peaceful(k2, in[d], V, gs) /\ k2.conn = k.conn
            BY <2>3, <3>1, <3>6, <3>8 DEF Peaceful
        <3>. QED
            BY <1>1, <2>1, <2>2, <3>2, <3>9, <3>10, ClientCalm
    <2>. QED
        BY <1>4, <2>5, <2>6, <2>7
<1>. QED
    BY <1>2, <1>3, <1>4

\* The blocks of the app.
LEMMA RunDoneCalm ==
    ASSUME IInv, CInv, taps = 0, NEW d \in Device, RunDone(d)
    PROVE  CInv'
<1>1. PICK e, q, k, page, tag, gs, V :
        /\ e = Head(client[d].main) /\ tag = e.tag /\ page = e.tag.page /\ q = client[d]
        /\ k = DB!TakeDone(q) /\ gs = groups[d] /\ V = Now
    OBVIOUS
<1>2. /\ UNCHANGED <<data, sub, in, drops>>
      /\ q.main # <<>> /\ Head(q.main).kind = "done" /\ page \in Page
      /\ DoneCase(d, e, k, page)
    BY <1>1, DoneRuns
<1>3. /\ Peaceful(q, in[d], V, gs) /\ in[d] \in Seq(R!Message) /\ gs \in Seq(Group)
      /\ q \in R!ClientState /\ q.main \in Seq(R!Event)
      /\ profile[d] # Crashed /\ Complete(q, profile[d])
    BY <1>1, CalmHere DEF R!ClientState
<1>4. k = R!TakeDone(q) /\ k \in R!ClientState /\ R!Remembers(q, k)
    <2>1. k = R!TakeDone(q)
        BY <1>1, SameTake
    <2>. QED
        BY <1>2, <1>3, <2>1, Assumptions, R!TakeDoneType, R!QueueRemembers
<1>5. Peaceful(k, in[d], V, gs) /\ k.conn = q.conn /\ tag \in Noticing
    <2>1. R!Steady(q, in[d], V, Calling) /\ Quiet(q, gs)
        BY <1>3 DEF Peaceful
    <2>2. PICK ok : ok = Head(q.main).ok
        OBVIOUS
    <2>3. /\ R!Steady(k, in[d], V, Calling) /\ k.conn = q.conn
          /\ <<tag, ok>> \in Calling.done
        BY <1>1, <1>2, <1>3, <2>1, <2>2, DoneStep
    <2>4. tag \in Noticing
        BY <2>3 DEF Calling
    <2>5. R!Prompt(q, Standing)
        BY <2>1 DEF Quiet, Tidy
    <2>6. R!Settles(q, k, Standing)
        BY <1>2, <1>3, <1>4, <2>5, StandingRegs, Assumptions, R!TakeDoneSettles
    <2>7. Quiet(k, gs)
        BY <1>3, <1>4, <2>1, <2>6, QuietSettles
    <2>. QED
        BY <2>3, <2>4, <2>7 DEF Peaceful
<1>6. tag = Notice(page) => Displayed(k, page.user)
    <2>. SUFFICES ASSUME tag = Notice(page) PROVE Displayed(k, page.user)
        OBVIOUS
    <2>1. 1 \in DOMAIN q.main /\ Head(q.main) = q.main[1]
        BY <1>2, <1>3
    <2>2. R!Awaits(q, Notice(page))
        BY <1>1, <1>2, <2>1 DEF R!Awaits
    <2>3. Displayed(q, page.user)
        BY <1>2, <1>3, <2>2 DEF Peaceful, Quiet, Backed
    <2>. QED
        BY <1>4, <2>3, DisplayedRemembers
<1>7. Complete(k, profile[d])
    BY <1>3, <1>4, CompleteRemembers
<1>8. AppOK
    BY DEF IInv
<1>9. tag.op \in {"notify", "reload"} /\ (tag.op = "notify" => tag = Notice(page))
    BY <1>1, <1>5 DEF Noticing, Notice
<1>10. CASE /\ IsShown(d, page) /\ e.tag.op = "notify"
            /\ profile' = [profile EXCEPT ![d] = [@ EXCEPT !.ready = TRUE]]
            /\ client' = [client EXCEPT ![d] = k]
            /\ UNCHANGED groups
    <2>1. PICK p : p = [profile[d] EXCEPT !.ready = TRUE]
        OBVIOUS
    <2>2. p # Crashed /\ Complete(k, p)
        <3>1. Displayed(k, page.user)
            BY <1>1, <1>6, <1>9, <1>10
        <3>2. TRUE \in BOOLEAN
            OBVIOUS
        <3>. QED
            BY <1>7, <1>8, <1>10, <2>1, <3>1, <3>2, FieldComplete
    <2>3. profile' = [profile EXCEPT ![d] = p] /\ groups' = [groups EXCEPT ![d] = gs]
        BY <1>1, <1>8, <1>10, <2>1 DEF AppOK
    <2>. QED
        BY <1>1, <1>2, <1>5, <1>10, <2>2, <2>3, CalmProgram
<1>11. CASE Reload(d, k, page) /\ UNCHANGED profile
    <2>1. PICK p : p = profile[d]
        OBVIOUS
    <2>2. profile' = [profile EXCEPT ![d] = p] /\ p # Crashed /\ Complete(k, p)
        BY <1>3, <1>7, <1>8, <1>11, <2>1 DEF AppOK
    <2>. QED
        BY <1>1, <1>2, <1>5, <1>11, <2>2, ReloadCalm
<1>12. CASE UNCHANGED <<profile, groups>> /\ client' = [client EXCEPT ![d] = k]
    BY <1>1, <1>2, <1>4, <1>5, <1>12, ClientCalm
<1>. QED
    BY <1>1, <1>2, <1>9, <1>10, <1>11, <1>12 DEF DoneCase

LEMMA CInvNext == IInv /\ CInv /\ [Next]_vars => CInv'
<1>. SUFFICES ASSUME IInv, CInv, [Next]_vars, taps' = 0 PROVE CInv'
    BY DEF CInv
<1>0. taps = 0 /\ taps \in Nat
    <2>1. taps \in Nat
        BY DEF IInv, AppOK
    <2>2. taps' = taps \/ taps' = taps + 1
        BY DEF Next, Visit, Leave, SignOut, TapPrimary, Relaunch, Runs, RunValue, RunDone,
               Network, Disconnect, history, vars
    <2>. QED
        BY <2>1, <2>2
<1>1. ASSUME NEW d \in Device,
             \/ Visit(d) \/ Leave(d) \/ SignOut(d) \/ TapPrimary(d) \/ Relaunch(d)
             \/ Runs(d)
             \/ Network(d) \/ Disconnect(d)
      PROVE  CInv'
    <2>1. ~TapPrimary(d)
        BY <1>0 DEF TapPrimary
    <2>. QED
        BY <1>0, <1>1, <2>1, VisitCalm, ScreenCalm, RunValueCalm, RunDoneCalm, WireCalm DEF Runs
<1>2. CASE UNCHANGED vars
    <2>1. UNCHANGED <<data, sub, in, client, drops, profile, groups, taps, database>>
        BY <1>2 DEF vars, screens, history, database
    <2>2. R!Holding(Now, Callings)'
        <3>1. PICK V : V = Now
            OBVIOUS
        <3>2. R!Holding(V, Callings) /\ R!Inv
            BY <1>0, <3>1 DEF CInv, IInv
        <3>3. R!Holding(V, Callings)'
            BY <2>1, <3>2, StayStep
        <3>. QED
            BY <2>1, <3>1, <3>3, NowStays
    <2>. QED
        BY <1>0, <2>1, <2>2 DEF CInv
<1>. QED
    BY <1>1, <1>2 DEF Next

LEMMA CalmInductive == Spec => [](IInv /\ CInv)
<1>1. Init => IInv /\ CInv
    BY IInvStart, CInvStart
<1>2. (IInv /\ CInv) /\ [Next]_vars => (IInv /\ CInv)'
    BY IInvNext, CInvNext
<1>. QED
    BY <1>1, <1>2, PTL DEF Spec

\* As long as nobody taps no app crashes, however often profiles are left and visited
\* again while the closures of the earlier visits are still registered, whoever signs
\* out, and however often connections are lost and the closures listened for again: the
\* closures of a header leave their group once each, and it has been entered as often.
THEOREM NobodyTapsNobodyCrashes == Spec => []NoTapNoCrash
<1>1. CInv => NoTapNoCrash
    BY DEF CInv, NoTapNoCrash
<1>. QED
    BY <1>1, CalmInductive, PTL

\* As long as nobody taps, a header is configured only when all that it shows has been
\* read, however many profiles were visited before: its group is left for the last time
\* by the last of its own closures. (HeaderIsComplete of Relationships.)
THEOREM HeadersAreComplete == Spec => [](taps = 0 => HeaderIsComplete)
<1>1. IInv /\ CInv => (taps = 0 => HeaderIsComplete)
    <2>. SUFFICES ASSUME IInv, CInv, taps = 0, NEW d \in Device,
                         profile[d].screen = "profile", profile[d].ready,
                         NEW l \in User(lowercased[profile[d].page.user]), l[2] \in Sides
                  PROVE  DB!Sees(client[d])[l] # Unknown
        BY DEF HeaderIsComplete
    <2>0. profile[d] \in Shown \cup {Home, Crashed} /\ client[d] \in R!ClientState
        BY DEF IInv, AppOK, R!Inv, R!TypeOK
    <2>1. profile[d] \in Shown
        BY <2>0 DEF Home, Crashed
    <2>2. Displayed(client[d], profile[d].page.user)
        BY <2>1 DEF CInv, Complete
    <2>3. l \in Leaf /\ l \in Sided /\ l[1] = lowercased[profile[d].page.user]
        BY DEF User, Sided
    <2>4. PICK r \in client[d].regs : l \in r.path /\ R!Known(client[d], r)
        BY <2>2, <2>3 DEF Displayed
    <2>5. client[d].cache[l] # Unknown
        BY <2>4 DEF R!Known, R!Complete
    <2>6. R!Sees(client[d])[l] # Unknown
        BY <2>0, <2>3, <2>5, Assumptions, R!SeesKnown
    <2>. QED
        BY <2>6, SameSees
<1>. QED
    BY <1>1, CalmInductive, PTL
==============================================================================
