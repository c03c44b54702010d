---------------------------- MODULE Posting_proofs ----------------------------
(***************************************************************************)
(* Proofs about Posting, for any devices, accounts, posts and faults: the  *)
(* state is well typed, a video is listed only when it is in Storage, and  *)
(* it is listed once.  For one device whose posts come one after the other:*)
(* a post that its user has been told of stays listed.                     *)
(* What the database does with what is written comes from                  *)
(* Provenance_proofs, taken for the lists and the closures of this module. *)
(***************************************************************************)
EXTENDS Posting, TLAPS, FiniteSetTheorems

List == Seq(Entry \cup File)

Asking == [op : {"insertPost"}, user : Name, file : File]
Posted == [op : {"posted"}, user : Name, file : File]
Uploaded == [op : {"uploaded"}, file : File, ok : BOOLEAN]

Tags == Asking \cup Posted \cup Uploaded

Records == {User(n) : n \in Name}

R == INSTANCE Provenance_proofs
        WITH Client <- Device, Absent <- Nothing, Value <- List,
             Path <- Records, Tag <- Tags, MaxId <- 0

-----------------------------------------------------------------------------
(* The database as Posting uses it is the one of the lemmas. *)

LEMMA Assumptions ==
    /\ R!ValueAssumption /\ R!PathAssumption /\ R!DepthAssumption
    /\ R!BoundAssumption /\ R!RejectAssumption /\ R!ReuseAssumption
<1>1. R!ValueAssumption
    <2>1. Nothing \in List
        BY DEF Nothing, List
    <2>2. Unknown \notin List
        BY InitialAssumption DEF List
    <2>3. Initial \in [Leaf -> List]
        <3>1. Seq(Entry) \subseteq List
            BY DEF List
        <3>. QED
            BY <3>1, InitialAssumption
    <2>. QED
        BY <2>1, <2>2, <2>3 DEF R!ValueAssumption
<1>2. R!PathAssumption
    BY DEF R!PathAssumption, Records, User
<1>3. R!DepthAssumption
    <2>. SUFFICES ASSUME NEW paths \in SUBSET Records, NEW p \in paths
                  PROVE  \E q \in paths : /\ p \subseteq q
                                          /\ \A r \in paths : q \subseteq r => q = r
        BY DEF R!DepthAssumption
    <2>1. ASSUME NEW q \in paths, NEW r \in paths, q \subseteq r, q # {}
          PROVE  q = r
        <3>1. PICK n \in Name, m \in Name : q = User(n) /\ r = User(m)
            BY DEF Records
        <3>2. n = m
            BY <2>1, <3>1 DEF User
        <3>. QED
            BY <3>1, <3>2
    <2>2. CASE \A q \in paths : q = {}
        BY <2>2
    <2>3. CASE \E q \in paths : q # {}
        <3>1. PICK q \in paths : q # {}
            BY <2>3
        <3>2. CASE p = {}
            BY <2>1, <3>1, <3>2
        <3>3. CASE p # {}
            BY <2>1, <3>3
        <3>. QED
            BY <3>2, <3>3
    <2>. QED
        BY <2>2, <2>3
<1>. QED
    BY <1>1, <1>2, <1>3, FaultAssumption
    DEF R!BoundAssumption, R!RejectAssumption, R!ReuseAssumption

LEMMA SameRaise == \A k, todo : DB!Raise(k, todo) = R!Raise(k, todo)
    BY DEF DB!Raise, R!Raise, DB!Sees, R!Sees, DB!View, R!View, DB!Top, R!Top

LEMMA SameFresh == \A k : DB!Fresh(k) = R!Fresh(k)
    BY DEF DB!Fresh, R!Fresh, DB!Queued, R!Queued

LEMMA SameSees == \A k : DB!Sees(k) = R!Sees(k)
    BY DEF DB!Sees, R!Sees, DB!View, R!View, DB!Top, R!Top

LEMMA SameChanged == \A k, k2 : DB!Changed(k, k2) = R!Changed(k, k2)
    BY SameSees DEF DB!Changed, R!Changed, DB!Complete, R!Complete

LEMMA SameRelisten == \A k, regs : DB!Relisten(k, regs) = R!Relisten(k, regs)
    BY DEF DB!Relisten, R!Relisten, DB!Outermost, R!Outermost, DB!Covered, R!Covered,
           DB!Fresh, R!Fresh, DB!Queued, R!Queued

LEMMA SameObserve ==
    \A k, path, single, tag :
        DB!Observe(k, path, single, tag) = R!Observe(k, path, single, tag)
    BY SameFresh, SameRelisten, SameRaise, SameSees
    DEF DB!Observe, R!Observe, DB!Complete, R!Complete

LEMMA SameSetValue ==
    \A k, put, tag : DB!SetValue(k, put, tag) = R!SetValue(k, put, tag)
    BY DEF DB!SetValue, R!SetValue, DB!Overwrites, R!Overwrites,
           DB!Fresh, R!Fresh, DB!Queued, R!Queued, DB!Raise, R!Raise,
           DB!Changed, R!Changed, DB!Complete, R!Complete,
           DB!Sees, R!Sees, DB!View, R!View, DB!Top, R!Top

LEMMA SameTake ==
    /\ \A k, r : DB!TakeValue(k, r) = R!TakeValue(k, r)
    /\ \A k : DB!TakeDone(k) = R!TakeDone(k) /\ DB!Ready(k) = R!Ready(k)
    /\ \A k, r : DB!Begin(k, r) = R!Begin(k, r)
    BY SameRelisten
    DEF DB!TakeValue, R!TakeValue, DB!TakeDone, R!TakeDone, DB!Ready, R!Ready,
        DB!Begin, R!Begin, DB!Unobserve, R!Unobserve, DB!Without, R!Without

LEMMA SameMerge == \A k, put : DB!Merge(k, put) = R!Merge(k, put)
    BY SameRaise, SameChanged DEF DB!Merge, R!Merge, DB!Merged, R!Merged, DB!Covered, R!Covered

LEMMA SameAnswer ==
    /\ \A k, ack : DB!Answer(k, ack) = R!Answer(k, ack)
    /\ \A k, ack : DB!Acked(k, ack) = R!Acked(k, ack)
    BY DEF DB!Answer, R!Answer, DB!Acked, R!Acked, DB!Raise, R!Raise,
           DB!Changed, R!Changed, DB!Complete, R!Complete,
           DB!Sees, R!Sees, DB!View, R!View, DB!Top, R!Top

LEMMA SameNetwork == \A d : DB!Network(d) <=> R!Network(d)
<1>. SUFFICES ASSUME NEW d PROVE DB!Network(d) <=> R!Network(d)
    OBVIOUS
<1>1. /\ DB!ServeListen(d) <=> R!ServeListen(d)
      /\ DB!ServeUnlisten(d) <=> R!ServeUnlisten(d)
      /\ DB!RejectPut(d) <=> R!RejectPut(d)
    BY DEF DB!ServeListen, R!ServeListen, DB!ServeUnlisten, R!ServeUnlisten,
           DB!RejectPut, R!RejectPut, DB!Next1, R!Next1, DB!Served, R!Served
<1>2. DB!ServePut(d) <=> R!ServePut(d)
    BY DEF DB!ServePut, R!ServePut, DB!Next1, R!Next1, DB!Served, R!Served,
           DB!Pushed, R!Pushed
<1>3. /\ DB!ReceivePush(d) <=> R!ReceivePush(d)
      /\ DB!ReceiveListen(d) <=> R!ReceiveListen(d)
    BY SameMerge DEF DB!ReceivePush, R!ReceivePush, DB!ReceiveListen, R!ReceiveListen,
           DB!Arrived, R!Arrived
<1>4. /\ DB!ReceiveAck(d) <=> R!ReceiveAck(d)
      /\ DB!AckPuts(d) <=> R!AckPuts(d)
    BY SameAnswer DEF DB!ReceiveAck, R!ReceiveAck, DB!AckPuts, R!AckPuts,
           DB!Arrived, R!Arrived, DB!Holds, R!Holds
<1>5. DB!Reconnect(d) <=> R!Reconnect(d)
    BY DEF DB!Reconnect, R!Reconnect, DB!RestoredListens, R!RestoredListens,
           DB!RestoredPuts, R!RestoredPuts, DB!Outermost, R!Outermost
<1>. QED
    BY <1>1, <1>2, <1>3, <1>4, <1>5 DEF DB!Network, R!Network

LEMMA SameStart ==
    /\ DB!Init => R!Init
    /\ \A d : DB!Disconnect(d) => R!Disconnect(d)
    BY DEF DB!Init, R!Init, DB!ClientInit, R!ClientInit, DB!Disconnect, R!Disconnect,
           DB!CutOff, R!CutOff, DB!DropsInbox, R!DropsInbox

-----------------------------------------------------------------------------
(* The steps of a client, in the words of this module. *)

LEMMA StartStep ==
    ASSUME DB!Init, NEW vals, NEW G, \A l \in Leaf : Initial[l] \in vals[l]
    PROVE  R!Inv /\ R!Holding(vals, G)
    BY Assumptions, SameStart, R!StartKept

LEMMA NetworkStep ==
    ASSUME R!Inv, NEW vals, NEW G, R!Holding(vals, G), NEW d \in Device,
           R!Answerable(G[d]), DB!Network(d)
    PROVE  R!Inv' /\ R!Holding(vals, G)'
    BY Assumptions, SameNetwork, R!NetworkKept

LEMMA DisconnectStep ==
    ASSUME R!Inv, NEW vals, NEW G, R!Holding(vals, G), NEW d \in Device,
           DB!Disconnect(d)
    PROVE  R!Inv' /\ R!Holding(vals, G)'
    BY Assumptions, SameStart, R!CutKept

LEMMA StayStep ==
    ASSUME R!Inv, NEW vals, NEW G, R!Holding(vals, G), UNCHANGED database
    PROVE  R!Inv' /\ R!Holding(vals, G)'
<1>1. UNCHANGED R!vars
    BY DEF database, R!vars
<1>. QED
    BY <1>1, Assumptions, R!StayKept

LEMMA ProgramStep ==
    ASSUME R!Inv, NEW vals, NEW G, R!Holding(vals, G), NEW d \in Device,
           NEW k, client' = [client EXCEPT ![d] = k],
           R!Steady(k, in[d], vals, G[d]), k.conn = client[d].conn,
           UNCHANGED <<data, sub, in, drops>>
    PROVE  R!Inv' /\ R!Holding(vals, G)'
    BY Assumptions, R!StepKept

LEMMA LocalSteady ==
    ASSUME R!Inv, NEW vals, NEW G, R!Holding(vals, G), NEW d \in Device
    PROVE  R!Steady(client[d], in[d], vals, G[d]) /\ in[d] \in Seq(R!Message)
    BY Assumptions, R!LocalServed

\* Taking an upload's or a post's completion, and the callback of a record.
LEMMA DoneStep ==
    ASSUME NEW k, NEW s \in Seq(R!Message), NEW vals, NEW g, R!Steady(k, s, vals, g),
           k.main # <<>>, Head(k.main).kind = "done"
    PROVE  /\ R!Steady(DB!TakeDone(k), s, vals, g) /\ DB!TakeDone(k).conn = k.conn
           /\ <<Head(k.main).tag, Head(k.main).ok>> \in g.done
    BY Assumptions, SameTake, R!TakeDoneServed

LEMMA ValueStep ==
    ASSUME NEW k, NEW s \in Seq(R!Message), NEW vals, NEW g, R!Steady(k, s, vals, g),
           NEW r \in DB!Ready(k)
    PROVE  /\ R!Steady(DB!TakeValue(k, r), s, vals, g)
           /\ DB!TakeValue(k, r).conn = k.conn
           /\ R!Steady(DB!Begin(k, r), s, vals, g) /\ DB!Begin(k, r).conn = k.conn
           /\ r \in g.regs
           /\ \A l \in r.path : /\ l \in Leaf
                                /\ Head(k.main).view[l] \in vals[l]
                                /\ Head(k.main).view[l] \in List
    BY Assumptions, SameTake, R!TakeValueServed, R!BeginServed

LEMMA DispatchStep ==
    ASSUME NEW k, NEW s \in Seq(R!Message), NEW vals, NEW g, R!Steady(k, s, vals, g),
           NEW tag \in Uploaded, <<tag, TRUE>> \in g.done
    PROVE  /\ R!Steady(Dispatch(k, tag), s, vals, g)
           /\ Dispatch(k, tag).conn = k.conn
<1>1. Dispatch(k, tag) = R!Block(k, tag)
    BY DEF Dispatch, R!Block
<1>2. tag \in Tags
    BY DEF Tags
<1>3. R!Steady(R!Block(k, tag), s, vals, g) /\ R!Block(k, tag).conn = k.conn
    BY <1>2, Assumptions, R!BlockServed
<1>. QED
    BY <1>1, <1>3

-----------------------------------------------------------------------------
(* What circulates: S are the posts whose video is in Storage. *)

Stored == {f \in File : \E n \in Name : <<n, f>> \in stored}

\* Lists that name no other post.
Vals(S) == [l \in Leaf |-> {v \in List : Files(v) \cap File \subseteq S}]

\* The post of a record that is read or written is in Storage; the block of an upload
\* that ended well is about a video that is.
RegsOf(S) ==
    {[id |-> i, path |-> User(n), single |-> TRUE,
      tag |-> [op |-> "insertPost", user |-> n, file |-> f]] :
        i \in Nat, n \in Name, f \in S}
TagsOf(S) == {t \in Posted : t.file \in S}
UploadsOf(S) == {t \in Uploaded : t.ok => t.file \in S}
DoneOf(S) == {e \in (Posted \cup Uploaded) \X BOOLEAN :
                e[1] \in TagsOf(S) \cup UploadsOf(S)}

G(S) == [d \in Device |-> [regs |-> RegsOf(S), tags |-> TagsOf(S), done |-> DoneOf(S)]]

LEMMA ClosureFields ==
    ASSUME NEW S, NEW d \in Device
    PROVE  /\ G(S)[d].regs = RegsOf(S)
           /\ G(S)[d].tags = TagsOf(S)
           /\ G(S)[d].done = DoneOf(S)
    BY DEF G

LEMMA OfGrows ==
    ASSUME NEW S, NEW T, S \subseteq T
    PROVE  /\ RegsOf(S) \subseteq RegsOf(T)
           /\ TagsOf(S) \subseteq TagsOf(T)
           /\ DoneOf(S) \subseteq DoneOf(T)
<1>1. RegsOf(S) \subseteq RegsOf(T)
    BY DEF RegsOf
<1>2. TagsOf(S) \subseteq TagsOf(T) /\ UploadsOf(S) \subseteq UploadsOf(T)
    BY DEF TagsOf, UploadsOf
<1>3. DoneOf(S) \subseteq DoneOf(T)
    BY <1>2 DEF DoneOf
<1>. QED
    BY <1>1, <1>2, <1>3

Told4 == {"none", "posting", "posted", "failed"}

\* The state of the app.
AppOK ==
    /\ username \in [Device -> Name \cup {NoName}]
    /\ uploads \in SUBSET Upload
    /\ stored \in SUBSET (Name \X File)
    /\ outcome \in [File -> [device : Device \cup {NoName}, is : Told4]]

IInv == AppOK /\ R!Inv /\ R!Holding(Vals(Stored), G(Stored))

\* A name that is not in Storage is in no list that may be written, and Storage
\* loses nothing.
LEMMA Growing ==
    ASSUME NEW S, NEW T, S \subseteq T, R!Inv, R!Holding(Vals(S), G(S))
    PROVE  R!Holding(Vals(T), G(T))
<1>1. \A l \in Leaf : Vals(S)[l] \subseteq Vals(T)[l]
    BY DEF Vals
<1>2. \A d \in Device : /\ G(S)[d].regs \subseteq G(T)[d].regs
                        /\ G(S)[d].tags \subseteq G(T)[d].tags
                        /\ G(S)[d].done \subseteq G(T)[d].done
    <2>. SUFFICES ASSUME NEW d \in Device
                  PROVE  /\ G(S)[d].regs \subseteq G(T)[d].regs
                         /\ G(S)[d].tags \subseteq G(T)[d].tags
                         /\ G(S)[d].done \subseteq G(T)[d].done
        OBVIOUS
    <2>1. G(S)[d].regs \subseteq G(T)[d].regs
        BY ClosureFields, OfGrows
    <2>2. G(S)[d].tags \subseteq G(T)[d].tags
        BY ClosureFields, OfGrows
    <2>3. G(S)[d].done \subseteq G(T)[d].done
        BY ClosureFields, OfGrows
    <2>. QED
        BY <2>1, <2>2, <2>3
<1>. QED
    BY <1>1, <1>2, Assumptions, R!MoreKept

LEMMA AnswerableG == \A S : \A d \in Device : R!Answerable(G(S)[d])
<1>. SUFFICES ASSUME NEW S, NEW d \in Device, NEW t \in TagsOf(S), NEW ok \in BOOLEAN
              PROVE  <<t, ok>> \in DoneOf(S)
    BY ClosureFields DEF R!Answerable
<1>. QED
    BY DEF DoneOf, TagsOf

\* From what holds of fixed sets to what holds of those of the next state.
LEMMA Next2 ==
    ASSUME NEW S, S = Stored', R!Inv', R!Holding(Vals(S), G(S))', AppOK'
    PROVE  IInv'
<1>1. Vals(S) = Vals(Stored)' /\ G(S) = G(Stored)'
    BY DEF Vals, G, RegsOf, TagsOf, UploadsOf, DoneOf
<1>2. R!Holding(Vals(Stored), G(Stored))'
    BY <1>1 DEF R!Holding
<1>. QED
    BY <1>2 DEF IInv

LEMMA IInvStart == Init => IInv
<1>. SUFFICES ASSUME Init PROVE IInv
    OBVIOUS
<1>1. \A l \in Leaf : Initial[l] \in Vals(Stored)[l]
    <2>1. ASSUME NEW l \in Leaf
          PROVE  Initial[l] \in List /\ Files(Initial[l]) \cap File = {}
        <3>1. Initial[l] \in Seq(Entry) /\ Seq(Entry) \subseteq List
            BY InitialAssumption DEF List
        <3>2. Files(Initial[l]) \subseteq Entry
            BY DEF Entry
        <3>. QED
            BY <3>1, <3>2, InitialAssumption
    <2>. QED
        BY <2>1 DEF Vals
<1>2. R!Inv /\ R!Holding(Vals(Stored), G(Stored))
    BY <1>1, StartStep DEF Init
<1>3. AppOK
    BY PostingAssumption DEF Init, AppOK, Told4
<1>. QED
    BY <1>2, <1>3 DEF IInv

\* A step that leaves Storage alone.
LEMMA SameStorage ==
    ASSUME IInv, stored' = stored, AppOK', NEW S, S = Stored,
           R!Inv', R!Holding(Vals(S), G(S))'
    PROVE  IInv'
<1>1. S = Stored'
    BY DEF Stored
<1>. QED
    BY <1>1, Next2

-----------------------------------------------------------------------------
(* The steps of the app. *)

\* What holds at a device, in terms of a constant S.
LEMMA At ==
    ASSUME IInv, NEW d \in Device, NEW S, S = Stored
    PROVE  /\ R!Holding(Vals(S), G(S))
           /\ R!Steady(client[d], in[d], Vals(S), G(S)[d]) /\ in[d] \in Seq(R!Message)
           /\ R!Inv /\ AppOK
<1>1. R!Inv /\ R!Holding(Vals(S), G(S)) /\ AppOK
    BY DEF IInv
<1>. QED
    BY <1>1, LocalSteady

\* A step of the app that leaves Storage and the clients alone.
LEMMA Elsewhere ==
    ASSUME IInv, AppOK', UNCHANGED <<database, stored>>
    PROVE  IInv'
<1>1. PICK S : S = Stored
    OBVIOUS
<1>2. R!Inv /\ R!Holding(Vals(S), G(S))
    BY <1>1 DEF IInv
<1>3. R!Inv' /\ R!Holding(Vals(S), G(S))'
    BY <1>2, StayStep
<1>. QED
    BY <1>1, <1>3, SameStorage

\* A step of a device that leaves Storage alone.
LEMMA Program ==
    ASSUME IInv, AppOK', NEW d \in Device, NEW k,
           client' = [client EXCEPT ![d] = k], UNCHANGED <<data, sub, in, drops, stored>>,
           NEW S, S = Stored,
           R!Steady(k, in[d], Vals(S), G(S)[d]), k.conn = client[d].conn
    PROVE  IInv'
<1>1. R!Inv /\ R!Holding(Vals(S), G(S))
    BY At
<1>2. R!Inv' /\ R!Holding(Vals(S), G(S))'
    BY <1>1, ProgramStep
<1>. QED
    BY <1>2, SameStorage

LEMMA TapPostInv ==
    ASSUME IInv, NEW d \in Device, TapPost(d)
    PROVE  IInv'
<1>1. AppOK
    BY DEF IInv
<1>2. PICK f \in File :
        /\ outcome' = [outcome EXCEPT ![f] = [device |-> d, is |-> "posting"]]
        /\ uploads' = uploads \cup uploadVideo(d, f)
    BY DEF TapPost
<1>3. outcome' \in [File -> [device : Device \cup {NoName}, is : Told4]]
    <2>1. [device |-> d, is |-> "posting"] \in [device : Device \cup {NoName}, is : Told4]
        BY DEF Told4
    <2>. QED
        BY <1>1, <1>2, <2>1 DEF AppOK
<1>4. uploads' \in SUBSET Upload
    <2>1. uploadVideo(d, f) \subseteq Upload
        <3>1. CASE username[d] = NoName
            BY <3>1 DEF uploadVideo
        <3>2. CASE username[d] # NoName
            <4>1. username[d] \in Name
                BY <1>1, <3>2 DEF AppOK
            <4>. QED
                BY <3>2, <4>1 DEF uploadVideo, Upload
        <3>. QED
            BY <3>1, <3>2
    <2>. QED
        BY <1>1, <1>2, <2>1 DEF AppOK
<1>5. AppOK'
    BY <1>1, <1>3, <1>4 DEF AppOK, TapPost
<1>. QED
    BY <1>5, Elsewhere DEF TapPost

\* The block of an upload joins the main queue when the video is in Storage, or has
\* failed to be.
LEMMA StorageEndsInv ==
    ASSUME IInv, NEW d \in Device, StorageEnds(d)
    PROVE  IInv'
<1>1. AppOK
    BY DEF IInv
<1>2. PICK u \in uploads, ok \in BOOLEAN :
        /\ uploads' = uploads \ {u}
        /\ stored' = IF ok THEN stored \cup {<<u.folder, u.file>>} ELSE stored
        /\ client' = [client EXCEPT ![d] =
                        Dispatch(@, [op |-> "uploaded", file |-> u.file, ok |-> ok])]
    BY DEF StorageEnds
<1>. DEFINE tag == [op |-> "uploaded", file |-> u.file, ok |-> ok]
            k == Dispatch(client[d], tag)
<1>3. u.folder \in Name /\ u.file \in File /\ tag \in Uploaded
    BY <1>1 DEF AppOK, Upload, Uploaded
<1>4. AppOK'
    <2>1. stored' \in SUBSET (Name \X File)
        BY <1>1, <1>2, <1>3 DEF AppOK
    <2>2. uploads' \in SUBSET Upload
        BY <1>1, <1>2 DEF AppOK
    <2>. QED
        BY <1>1, <2>1, <2>2 DEF AppOK, StorageEnds
<1>5. PICK S, T : S = Stored /\ T = Stored'
    OBVIOUS
<1>6. S \subseteq T
    BY <1>2, <1>5 DEF Stored
<1>7. ok => u.file \in T
    BY <1>2, <1>3, <1>5 DEF Stored
<1>8. R!Inv /\ R!Holding(Vals(T), G(T))
    BY <1>5, <1>6, Growing, At
<1>9. R!Steady(client[d], in[d], Vals(T), G(T)[d]) /\ in[d] \in Seq(R!Message)
    BY <1>8, LocalSteady
<1>10. <<tag, TRUE>> \in G(T)[d].done
    <2>1. tag.ok = ok /\ tag.file = u.file
        OBVIOUS
    <2>. HIDE DEF tag
    <2>2. tag \in UploadsOf(T)
        BY <1>3, <1>7, <2>1 DEF UploadsOf
    <2>3. <<tag, TRUE>> \in DoneOf(T)
        BY <1>3, <2>2 DEF DoneOf
    <2>. QED
        BY <2>3, ClosureFields
<1>. HIDE DEF tag
<1>11. R!Steady(k, in[d], Vals(T), G(T)[d]) /\ k.conn = client[d].conn
    <2>1. PICK c, s, v, g : c = client[d] /\ s = in[d] /\ v = Vals(T) /\ g = G(T)[d]
        OBVIOUS
    <2>2. /\ R!Steady(c, s, v, g) /\ s \in Seq(R!Message)
          /\ tag \in Uploaded /\ <<tag, TRUE>> \in g.done
        BY <1>3, <1>9, <1>10, <2>1
    <2>3. R!Steady(Dispatch(c, tag), s, v, g) /\ Dispatch(c, tag).conn = c.conn
        BY <2>2, DispatchStep
    <2>. QED
        BY <2>1, <2>3
<1>12. client' = [client EXCEPT ![d] = k] /\ UNCHANGED <<data, sub, in, drops>>
    BY <1>2 DEF StorageEnds, tag
<1>. HIDE DEF k
<1>13. R!Inv' /\ R!Holding(Vals(T), G(T))'
    BY <1>8, <1>11, <1>12, ProgramStep
<1>. QED
    BY <1>4, <1>5, <1>13, Next2

\* What an alert says of a post.
LEMMA ToldOK ==
    ASSUME AppOK, NEW f \in File, NEW what \in Told4
    PROVE  Told(f, what) \in [File -> [device : Device \cup {NoName}, is : Told4]]
<1>1. [outcome[f] EXCEPT !.is = what] \in [device : Device \cup {NoName}, is : Told4]
    BY DEF AppOK
<1>2. Told(f, what) = [outcome EXCEPT ![f] = [outcome[f] EXCEPT !.is = what]]
    BY DEF Told
<1>. QED
    BY <1>1, <1>2 DEF AppOK

\* A client that is k now, after what happened to it when it was k0.
Stands(k, k0, s, vals, g) == R!Steady(k, s, vals, g) /\ k.conn = k0.conn

LEMMA OnceServed ==
    ASSUME NEW k, NEW s \in Seq(R!Message), NEW vals, NEW g, R!Steady(k, s, vals, g),
           NEW path \in Records, NEW tag \in Tags, R!AllowsOnce(g, path, tag)
    PROVE  Stands(R!ObservedOnce(k, path, tag), k, s, vals, g)
    BY Assumptions, R!ObservedOnceServed DEF Stands

\* insertPost asks for the record of n.
LEMMA AskServed ==
    ASSUME NEW k, NEW s \in Seq(R!Message), NEW vals, NEW g, R!Steady(k, s, vals, g),
           NEW n \in Name, NEW f \in File, NEW ask \in Asking,
           ask = [op |-> "insertPost", user |-> n, file |-> f],
           R!AllowsOnce(g, User(n), ask)
    PROVE  /\ R!Steady(insertPost(k, n, f), s, vals, g)
           /\ insertPost(k, n, f).conn = k.conn
<1>1. PICK path \in Records : path = User(n)
    BY DEF Records
<1>2. ask \in Tags /\ R!AllowsOnce(g, path, ask)
    BY <1>1 DEF Tags
<1>3. insertPost(k, n, f) = R!ObservedOnce(k, path, ask)
    BY <1>1, SameObserve DEF insertPost, Ask, R!ObservedOnce
<1>4. Stands(R!ObservedOnce(k, path, ask), k, s, vals, g)
    BY <1>2, OnceServed
<1>. QED
    BY <1>3, <1>4 DEF Stands

LEMMA AskStep ==
    ASSUME NEW S, NEW d \in Device, NEW n \in Name, NEW f \in File, f \in S,
           NEW vals, NEW k, NEW s \in Seq(R!Message), R!Steady(k, s, vals, G(S)[d])
    PROVE  Stands(insertPost(k, n, f), k, s, vals, G(S)[d])
<1>1. PICK ask : ask = [op |-> "insertPost", user |-> n, file |-> f]
    OBVIOUS
<1>2. ask \in Asking
    BY <1>1 DEF Asking
<1>3. PICK g : g = G(S)[d]
    OBVIOUS
<1>4. R!AllowsOnce(g, User(n), ask)
    BY <1>1, <1>3, ClosureFields DEF RegsOf, R!Allows, R!AllowsOnce
<1>5. R!Steady(insertPost(k, n, f), s, vals, g) /\ insertPost(k, n, f).conn = k.conn
    BY <1>1, <1>2, <1>3, <1>4, AskServed
<1>. QED
    BY <1>3, <1>5 DEF Stands

\* The cases of RunDone: what is told, and what is made of the client.
LEMMA RunDoneCases ==
    ASSUME NEW d \in Device, RunDone(d)
    PROVE  \/ \E what \in Told4 \ {"none"} :
                /\ outcome' = Told(Head(client[d].main).tag.file, what)
                /\ client' = [client EXCEPT ![d] = DB!TakeDone(client[d])]
           \/ LET f == Head(client[d].main).tag.file
              IN  /\ Head(client[d].main).tag.op = "uploaded"
                  /\ Head(client[d].main).tag.ok
                  /\ username[d] # NoName
                  /\ outcome' = Told(f, "posting")
                  /\ client' = [client EXCEPT ![d] =
                        insertPost(DB!TakeDone(client[d]), username[d], f)]
<1>. DEFINE e == Head(client[d].main)
            k == DB!TakeDone(client[d])
            f == e.tag.file
            ends(what, k2) == outcome' = Told(f, what) /\ client' = [client EXCEPT ![d] = k2]
<1>1. CASE e.tag.op = "posted"
    <2>1. ends(IF e.ok THEN "posted" ELSE "failed", k)
        BY <1>1 DEF RunDone
    <2>2. (IF e.ok THEN "posted" ELSE "failed") \in Told4 \ {"none"}
        BY DEF Told4
    <2>. QED
        BY <2>1, <2>2
<1>2. CASE /\ e.tag.op # "posted"
           /\ e.tag.op = "uploaded" /\ Proceeds(e.tag) /\ username[d] # NoName
    <2>1. ends("posting", insertPost(k, username[d], f))
        BY <1>2 DEF RunDone
    <2>. QED
        BY <1>2, <2>1 DEF Proceeds
<1>3. CASE /\ e.tag.op # "posted"
           /\ ~(e.tag.op = "uploaded" /\ Proceeds(e.tag) /\ username[d] # NoName)
    <2>1. ends("failed", k)
        BY <1>3 DEF RunDone
    <2>. QED
        BY <2>1 DEF Told4
<1>. QED
    BY <1>1, <1>2, <1>3

LEMMA RunDoneInv ==
    ASSUME IInv, NEW d \in Device, RunDone(d)
    PROVE  IInv'
<1>. DEFINE tag == Head(client[d].main).tag
            ok == Head(client[d].main).ok
            k == DB!TakeDone(client[d])
<1>1. PICK S : S = Stored
    OBVIOUS
<1>2. /\ R!Steady(client[d], in[d], Vals(S), G(S)[d]) /\ in[d] \in Seq(R!Message)
      /\ AppOK
    BY <1>1, At
<1>3. client[d].main # <<>> /\ Head(client[d].main).kind = "done"
    BY DEF RunDone
<1>4. /\ R!Steady(k, in[d], Vals(S), G(S)[d]) /\ k.conn = client[d].conn
      /\ <<tag, ok>> \in G(S)[d].done
    BY <1>2, <1>3, DoneStep
<1>5. <<tag, ok>> \in DoneOf(S)
    BY <1>4, ClosureFields
<1>6. tag \in TagsOf(S) \cup UploadsOf(S)
    BY <1>5 DEF DoneOf
<1>7. tag.file \in File
    BY <1>6 DEF TagsOf, UploadsOf, Posted, Uploaded
<1>8. UNCHANGED <<data, sub, in, drops, username, uploads, stored, crowded>>
    BY DEF RunDone
<1>9. ASSUME NEW what \in Told4, outcome' = Told(tag.file, what)
      PROVE  AppOK'
    BY <1>2, <1>7, <1>8, <1>9, ToldOK DEF AppOK
<1>10. CASE \E what \in Told4 : /\ outcome' = Told(tag.file, what)
                                /\ client' = [client EXCEPT ![d] = k]
    <2>1. AppOK' /\ client' = [client EXCEPT ![d] = k]
        BY <1>9, <1>10
    <2>. HIDE DEF k
    <2>. QED
        BY <1>1, <1>4, <1>8, <2>1, Program
<1>11. CASE /\ tag.op = "uploaded" /\ tag.ok /\ username[d] # NoName
            /\ outcome' = Told(tag.file, "posting")
            /\ client' = [client EXCEPT ![d] = insertPost(k, username[d], tag.file)]
    <2>. DEFINE n == username[d]
                k2 == insertPost(k, n, tag.file)
    <2>1. n \in Name /\ tag.file \in S
        <3>1. n \in Name
            BY <1>2, <1>11 DEF AppOK
        <3>2. tag \in UploadsOf(S)
            BY <1>6, <1>11 DEF TagsOf, Posted
        <3>. HIDE DEF tag
        <3>. QED
            BY <1>11, <3>1, <3>2 DEF UploadsOf
    <2>5. R!Steady(k2, in[d], Vals(S), G(S)[d]) /\ k2.conn = k.conn
        <3>1. PICK f, V, s : f = tag.file /\ V = Vals(S) /\ s = in[d]
            OBVIOUS
        <3>2. f \in File /\ f \in S /\ s \in Seq(R!Message) /\ R!Steady(k, s, V, G(S)[d])
            BY <1>2, <1>4, <1>7, <2>1, <3>1
        <3>. HIDE DEF k, tag, n
        <3>3. Stands(insertPost(k, n, f), k, s, V, G(S)[d])
            BY <2>1, <3>2, AskStep
        <3>. QED
            BY <3>1, <3>3 DEF Stands
    <2>. HIDE DEF k, k2, n
    <2>6. AppOK' /\ client' = [client EXCEPT ![d] = k2]
        <3>1. "posting" \in Told4
            BY DEF Told4
        <3>2. AppOK'
            BY <1>9, <1>11, <3>1
        <3>3. client' = [client EXCEPT ![d] = k2]
            BY <1>11 DEF k2, n
        <3>. QED
            BY <3>2, <3>3
    <2>. QED
        BY <1>1, <1>4, <1>8, <2>5, <2>6, Program
<1>. QED
    BY <1>10, <1>11, RunDoneCases

\* The record that is written back holds what was read and a post that is in Storage.
LEMMA WithPostKept ==
    ASSUME NEW S, NEW n \in Name, NEW f \in File, f \in S, NEW view,
           \A l \in User(n) : /\ l \in Leaf
                              /\ view[l] \in Vals(S)[l]
    PROVE  WithPost(view, n, f) \in R!Put /\ R!Carries(WithPost(view, n, f), Vals(S))
<1>. DEFINE put == WithPost(view, n, f)
<1>1. DOMAIN put = User(n) /\ put = [l \in User(n) |-> put[l]]
    BY DEF WithPost
<1>2. ASSUME NEW l \in User(n)
      PROVE  put[l] \in List /\ put[l] \in Vals(S)[l]
    <2>1. l \in Leaf /\ view[l] \in List /\ Files(view[l]) \cap File \subseteq S
        BY <1>2 DEF Vals
    <2>2. CASE l[2] = "posts"
        <3>1. put[l] = Append(view[l], f)
            BY <1>2, <2>2 DEF WithPost
        <3>2. Append(view[l], f) \in List
            BY <2>1 DEF List
        <3>3. Files(Append(view[l], f)) \subseteq Files(view[l]) \cup {f}
            BY <2>1 DEF Files, List
        <3>4. Files(put[l]) \cap File \subseteq S
            BY <2>1, <3>1, <3>3
        <3>. QED
            BY <2>1, <3>1, <3>2, <3>4 DEF Vals
    <2>3. CASE l[2] # "posts"
        BY <1>2, <2>1, <2>3 DEF WithPost
    <2>. QED
        BY <2>2, <2>3
<1>. HIDE DEF put
<1>3. User(n) \in SUBSET Leaf /\ put \in [User(n) -> List]
    BY <1>1, <1>2 DEF User
<1>4. put \in R!Put
    BY <1>3 DEF R!Put
<1>5. R!Carries(put, Vals(S))
    BY <1>1, <1>2 DEF R!Carries
<1>. QED
    BY <1>4, <1>5 DEF put

LEMMA RunValueInv ==
    ASSUME IInv, NEW d \in Device, RunValue(d)
    PROVE  IInv'
<1>. DEFINE k == client[d]
            view == Head(k.main).view
<1>1. PICK S : S = Stored
    OBVIOUS
<1>2. R!Steady(k, in[d], Vals(S), G(S)[d]) /\ in[d] \in Seq(R!Message) /\ AppOK
    BY <1>1, At
<1>3. PICK r \in DB!Ready(k) :
        IF DB!Stale(k, r)
        THEN /\ client' = [client EXCEPT ![d] = DB!TakeValue(k, r)]
             /\ UNCHANGED outcome
        ELSE IF Exists(view, r.tag.user)
        THEN /\ client' = [client EXCEPT ![d] = PostRead(DB!Begin(k, r), view, r.tag)]
             /\ UNCHANGED outcome
        ELSE /\ client' = [client EXCEPT ![d] = DB!Begin(k, r)]
             /\ outcome' = Told(r.tag.file, "failed")
    BY DEF RunValue
<1>4. /\ R!Steady(DB!TakeValue(k, r), in[d], Vals(S), G(S)[d])
      /\ DB!TakeValue(k, r).conn = k.conn
      /\ R!Steady(DB!Begin(k, r), in[d], Vals(S), G(S)[d])
      /\ DB!Begin(k, r).conn = k.conn
      /\ r \in G(S)[d].regs
      /\ \A l \in r.path : l \in Leaf /\ view[l] \in Vals(S)[l]
    BY <1>2, ValueStep
<1>5. PICK i \in Nat, n \in Name, f \in S :
        r = [id |-> i, path |-> User(n), single |-> TRUE,
             tag |-> [op |-> "insertPost", user |-> n, file |-> f]]
    BY <1>4, ClosureFields DEF RegsOf
<1>6. f \in File /\ r.path = User(n) /\ r.tag.user = n /\ r.tag.file = f
    BY <1>1, <1>5 DEF Stored
<1>7. UNCHANGED <<data, sub, in, drops, username, uploads, stored, crowded>>
    BY DEF RunValue
<1>8. CASE DB!Stale(k, r)
    <2>1. AppOK' /\ client' = [client EXCEPT ![d] = DB!TakeValue(k, r)]
        BY <1>2, <1>3, <1>7, <1>8 DEF AppOK
    <2>. QED
        BY <1>1, <1>4, <1>7, <2>1, Program
<1>9. CASE ~DB!Stale(k, r) /\ Exists(view, r.tag.user)
    <2>. DEFINE put == WithPost(view, n, f)
                tag == [r.tag EXCEPT !.op = "posted"]
                k1 == DB!Begin(k, r)
                k2 == DB!SetValue(k1, put, tag)
    <2>1. tag = [op |-> "posted", user |-> n, file |-> f]
        BY <1>5
    <2>2. tag \in TagsOf(S) /\ tag \in Tags
        BY <1>6, <2>1 DEF TagsOf, Posted, Tags
    <2>3. put \in R!Put /\ R!Carries(put, Vals(S))
        BY <1>4, <1>6, WithPostKept
    <2>4. tag \in G(S)[d].tags
        BY <2>2, ClosureFields
    <2>5. client' = [client EXCEPT ![d] = k2] /\ UNCHANGED outcome
        BY <1>3, <1>6, <1>9 DEF PostRead
    <2>6. R!Steady(k1, in[d], Vals(S), G(S)[d]) /\ k1.conn = k.conn
        BY <1>4
    <2>7. k2 = R!SetValue(k1, put, tag)
        BY SameSetValue
    <2>. HIDE DEF k1, k2, put, tag
    <2>8. R!Steady(k2, in[d], Vals(S), G(S)[d]) /\ k2.conn = k1.conn
        BY <1>2, <2>2, <2>3, <2>4, <2>6, <2>7, Assumptions, R!SetValueServed
    <2>9. AppOK'
        BY <1>2, <1>7, <2>5 DEF AppOK
    <2>. QED
        BY <1>1, <1>7, <2>5, <2>6, <2>8, <2>9, Program
<1>10. CASE ~DB!Stale(k, r) /\ ~Exists(view, r.tag.user)
    <2>1. client' = [client EXCEPT ![d] = DB!Begin(k, r)] /\ outcome' = Told(f, "failed")
        BY <1>3, <1>6, <1>10
    <2>2. AppOK'
        BY <1>2, <1>6, <1>7, <2>1, ToldOK DEF AppOK, Told4
    <2>. QED
        BY <1>1, <1>4, <1>7, <2>1, <2>2, Program
<1>. QED
    BY <1>8, <1>9, <1>10

LEMMA SwitchAccountInv ==
    ASSUME IInv, NEW d \in Device, SwitchAccount(d)
    PROVE  IInv'
<1>1. AppOK
    BY DEF IInv
<1>2. AppOK'
    BY <1>1 DEF AppOK, SwitchAccount
<1>. QED
    BY <1>2, Elsewhere DEF SwitchAccount

LEMMA WireInv ==
    ASSUME IInv, NEW d \in Device, Network(d) \/ Disconnect(d)
    PROVE  IInv'
<1>1. PICK S : S = Stored
    OBVIOUS
<1>2. R!Inv /\ R!Holding(Vals(S), G(S)) /\ AppOK
    BY <1>1, At
<1>3. UNCHANGED <<username, uploads, stored, outcome, crowded>>
    BY DEF Network, Disconnect
<1>4. AppOK'
    BY <1>2, <1>3 DEF AppOK
<1>5. R!Inv' /\ R!Holding(Vals(S), G(S))'
    <2>1. CASE Network(d)
        BY <1>2, <2>1, AnswerableG, NetworkStep DEF Network
    <2>2. CASE Disconnect(d)
        BY <1>2, <2>2, DisconnectStep DEF Disconnect
    <2>. QED
        BY <2>1, <2>2
<1>. QED
    BY <1>1, <1>3, <1>4, <1>5, SameStorage

LEMMA IInvNext == IInv /\ [Next]_vars => IInv'
<1>. SUFFICES ASSUME IInv, [Next]_vars PROVE IInv'
    OBVIOUS
<1>1. ASSUME NEW d \in Device,
             \/ TapPost(d) \/ SwitchAccount(d)
             \/ StorageEnds(d) \/ Runs(d)
             \/ Network(d) \/ Disconnect(d)
      PROVE  IInv'
    BY <1>1, TapPostInv, SwitchAccountInv, StorageEndsInv, RunValueInv, RunDoneInv,
       WireInv DEF Runs
<1>2. CASE UNCHANGED vars
    <2>1. AppOK'
        BY <1>2 DEF vars, IInv, AppOK
    <2>. QED
        BY <1>2, <2>1, Elsewhere DEF vars
<1>. QED
    BY <1>1, <1>2 DEF Next

LEMMA Inductive == Spec => []IInv
    BY IInvStart, IInvNext, PTL DEF Spec

\* What is in the tree is one of the lists that may be written.
LEMMA TreeKept ==
    ASSUME IInv, NEW l \in Leaf
    PROVE  data[l] \in List /\ Files(data[l]) \cap File \subseteq Stored
<1>1. R!Holding(Vals(Stored), G(Stored))
    BY DEF IInv
<1>2. data[l] \in Vals(Stored)[l]
    BY <1>1 DEF R!Holding
<1>. QED
    BY <1>2 DEF Vals

-----------------------------------------------------------------------------
(* A post is in one place at a time: an upload, the block of one, the      *)
(* registration that asks for a record, the write of one, or its answer.   *)

Of(f) == {t \in Tags : t.file = f}

\* Before the record is written.
Early(f) == {t \in Asking \cup Uploaded : t.file = f}

Has(k, f) == R!Bears(k, Of(f))

Posting(f, d) == outcome[f].device = d /\ outcome[f].is = "posting"

OnePlace ==
    /\ \A d \in Device, f \in File :
        /\ R!Lone(Has(client[d], f))
        /\ Has(client[d], f) # {} => Posting(f, d)
    /\ \A u \in uploads : Posting(u.file, u.device) /\ Has(client[u.device], u.file) = {}
    /\ \A u, v \in uploads : u.file = v.file => u = v

\* A step of device d: its client is now k.
Moves(d, k) ==
    \A f \in File :
        /\ R!Lone(Has(k, f))
        /\ Has(client[d], f) = {} => Has(k, f) = {} /\ outcome'[f] = outcome[f]
        /\ Has(k, f) # {} => Posting(f, d)'

LEMMA OnePlaceStep ==
    ASSUME IInv, OnePlace, NEW d \in Device, NEW k, client' = [client EXCEPT ![d] = k],
           UNCHANGED uploads, Moves(d, k)
    PROVE  OnePlace'
<1>1. /\ client \in [Device -> R!ClientState]
      /\ uploads \in SUBSET Upload
    BY DEF IInv, AppOK, R!Inv, R!TypeOK
<1>2. client'[d] = k /\ \A e \in Device : e # d => client'[e] = client[e]
    BY <1>1
<1>3. ASSUME NEW e \in Device, NEW f \in File
      PROVE  /\ R!Lone(Has(client'[e], f))
             /\ Has(client'[e], f) # {} => Posting(f, e)'
    <2>1. CASE e = d
        BY <1>2, <2>1 DEF Moves
    <2>2. CASE e # d
        <3>1. client'[e] = client[e]
            BY <1>2, <2>2
        <3>2. R!Lone(Has(client[e], f))
            BY DEF OnePlace
        <3>3. ASSUME Has(client[e], f) # {}
              PROVE  Posting(f, e)'
            <4>1. Posting(f, e)
                BY <3>3 DEF OnePlace
            <4>2. Has(client[d], f) = {}
                BY <2>2, <4>1 DEF OnePlace, Posting
            <4>3. outcome'[f] = outcome[f]
                BY <4>2 DEF Moves
            <4>. QED
                BY <4>1, <4>3 DEF Posting
        <3>. QED
            BY <3>1, <3>2, <3>3
    <2>. QED
        BY <2>1, <2>2
<1>4. ASSUME NEW u \in uploads
      PROVE  Posting(u.file, u.device)' /\ Has(client'[u.device], u.file) = {}
    <2>1. u.file \in File /\ u.device \in Device
        BY <1>1 DEF Upload
    <2>2. Posting(u.file, u.device) /\ Has(client[u.device], u.file) = {}
        BY DEF OnePlace
    <2>3. Has(client[d], u.file) = {}
        BY <2>1, <2>2 DEF OnePlace, Posting
    <2>4. Has(k, u.file) = {} /\ outcome'[u.file] = outcome[u.file]
        BY <2>1, <2>3 DEF Moves
    <2>. QED
        BY <1>2, <2>1, <2>2, <2>4 DEF Posting
<1>5. \A u, v \in uploads : u.file = v.file => u = v
    BY DEF OnePlace
<1>6. (\A e \in Device, f \in File :
          /\ R!Lone(Has(client[e], f))
          /\ Has(client[e], f) # {} => Posting(f, e))'
    BY <1>3
<1>. QED
    BY <1>4, <1>5, <1>6 DEF OnePlace

\* A step that leaves the posts alone, or lets closures pass.
LEMMA PassingMoves ==
    ASSUME OnePlace, NEW d \in Device, NEW k, UNCHANGED outcome,
           \A T : R!Passes(client[d], k, T)
    PROVE  Moves(d, k)
<1>. SUFFICES ASSUME NEW f \in File
              PROVE  /\ R!Lone(Has(k, f))
                     /\ Has(client[d], f) = {} => Has(k, f) = {} /\ outcome'[f] = outcome[f]
                     /\ Has(k, f) # {} => Posting(f, d)'
    BY DEF Moves
<1>1. R!Passes(client[d], k, Of(f))
    OBVIOUS
<1>2. R!Lone(Has(client[d], f)) /\ (Has(client[d], f) # {} => Posting(f, d))
    BY DEF OnePlace
<1>. QED
    BY <1>1, <1>2 DEF R!Passes, Has, Posting

\* What a post has, written or not, is among what a post may have.
LEMMA EarlyOf ==
    /\ \A f : Early(f) \subseteq Of(f)
    /\ \A f, k : R!Bears(k, Early(f)) \subseteq Has(k, f)
<1>1. \A f : Early(f) \subseteq Of(f)
    BY DEF Early, Of, Tags
<1>2. ASSUME NEW k, NEW T, NEW T2, T \subseteq T2
      PROVE  R!Bears(k, T) \subseteq R!Bears(k, T2)
    BY <1>2 DEF R!Bears, R!Blocks
<1>. QED
    BY <1>1, <1>2 DEF Has

-----------------------------------------------------------------------------
(* W pairs the posts that have been written with the accounts they are     *)
(* written to.                                                             *)

Single(v, f) == \A i, j \in DOMAIN v : v[i] = f /\ v[j] = f => i = j

\* Lists with no other posts, and each of them once.
Lists(W) ==
    [l \in Leaf |->
        {v \in List : l[2] = "posts" =>
            \A f \in Files(v) \cap File : <<f, l[1]>> \in W /\ Single(v, f)}]

Wrote(W) ==
    /\ W \subseteq File \X Name
    /\ \A x, y \in W : x[1] = y[1] => x = y
    /\ \A x \in W : /\ outcome[x[1]].is # "none"
                    /\ \A u \in uploads : u.file # x[1]
                    /\ \A d \in Device : R!Bears(client[d], Early(x[1])) = {}

OInv == OnePlace /\ \E W : Wrote(W) /\ R!Holding(Lists(W), G(Stored))

\* A step of device d in which no post is written.
LEMMA WroteStep ==
    ASSUME IInv, NEW W, Wrote(W), NEW d \in Device, NEW k, client' = [client EXCEPT ![d] = k],
           uploads' \subseteq uploads,
           \A f \in File : outcome[f].is # "none" => outcome'[f].is # "none",
           \A x \in W : R!Bears(client[d], Early(x[1])) = {} => R!Bears(k, Early(x[1])) = {}
    PROVE  Wrote(W)'
<1>1. client'[d] = k /\ \A e \in Device : e # d => client'[e] = client[e]
    BY DEF IInv, R!Inv, R!TypeOK
<1>2. ASSUME NEW x \in W, NEW e \in Device
      PROVE  R!Bears(client'[e], Early(x[1])) = {}
    BY <1>1 DEF Wrote
<1>3. \A x \in W : outcome'[x[1]].is # "none"
    BY DEF Wrote
<1>. QED
    BY <1>2, <1>3 DEF Wrote

\* OInv from its parts in the next state.
LEMMA OInvNow ==
    ASSUME NEW W, NEW S, S = Stored', OnePlace', Wrote(W)', R!Holding(Lists(W), G(S))'
    PROVE  OInv'
<1>1. G(S) = G(Stored)'
    BY DEF G, RegsOf, TagsOf, UploadsOf, DoneOf
<1>2. Lists(W) = Lists(W)'
    BY DEF Lists
<1>3. R!Holding(Lists(W), G(Stored))'
    BY <1>1 DEF R!Holding
<1>. QED
    BY <1>3 DEF OInv

LEMMA TapPostOnce ==
    ASSUME IInv, OInv, NEW d \in Device, TapPost(d)
    PROVE  OInv'
<1>1. PICK W, S : S = Stored /\ OnePlace /\ Wrote(W) /\ R!Holding(Lists(W), G(S))
    BY DEF OInv
<1>2. PICK f, U :
        /\ f \in File
        /\ outcome[f].is = "none"
        /\ outcome' = [outcome EXCEPT ![f] = [device |-> d, is |-> "posting"]]
        /\ U = uploadVideo(d, f) /\ uploads' = uploads \cup U
    BY DEF TapPost
<1>3. /\ UNCHANGED <<database, stored>> /\ UNCHANGED client
      /\ uploads \in SUBSET Upload /\ DOMAIN outcome = File
    BY DEF TapPost, IInv, AppOK, database
<1>4. /\ \A u, v \in U : u = v
      /\ \A u \in U : u.file = f /\ u.device = d
    BY <1>2 DEF uploadVideo
<1>5. /\ \A g \in File : g # f => outcome'[g] = outcome[g]
      /\ outcome'[f].device = d /\ outcome'[f].is = "posting"
    BY <1>2, <1>3
<1>6. /\ \A e \in Device : Has(client[e], f) = {}
      /\ \A u \in uploads : u.file # f
    BY <1>1, <1>2 DEF OnePlace, Posting
<1>7. ASSUME NEW e \in Device, NEW g \in File
      PROVE  R!Lone(Has(client[e], g)) /\ (Has(client[e], g) # {} => Posting(g, e)')
    <2>1. R!Lone(Has(client[e], g)) /\ (Has(client[e], g) # {} => Posting(g, e))
        BY <1>1 DEF OnePlace
    <2>. QED
        BY <1>5, <1>6, <2>1 DEF Posting
<1>8. ASSUME NEW u \in uploads'
      PROVE  Posting(u.file, u.device)' /\ Has(client[u.device], u.file) = {}
    <2>1. CASE u \in U
        BY <1>4, <1>5, <1>6, <2>1 DEF Posting
    <2>2. CASE u \in uploads
        <3>1. u.file \in File /\ u.file # f
            BY <1>3, <1>6, <2>2 DEF Upload
        <3>2. Posting(u.file, u.device) /\ Has(client[u.device], u.file) = {}
            BY <1>1, <2>2 DEF OnePlace
        <3>. QED
            BY <1>5, <3>1, <3>2 DEF Posting
    <2>. QED
        BY <1>2, <2>1, <2>2
<1>9. \A u, v \in uploads' : u.file = v.file => u = v
    BY <1>1, <1>2, <1>4, <1>6 DEF OnePlace
<1>10. OnePlace'
    <2>1. (\A e \in Device, g \in File :
            /\ R!Lone(Has(client[e], g))
            /\ Has(client[e], g) # {} => Posting(g, e))'
        BY <1>3, <1>7
    <2>. QED
        BY <1>3, <1>8, <1>9, <2>1 DEF OnePlace
<1>11. Wrote(W)'
    <2>1. W \subseteq File \X Name /\ \A x, y \in W : x[1] = y[1] => x = y
        BY <1>1 DEF Wrote
    <2>2. ASSUME NEW x \in W
          PROVE  /\ outcome'[x[1]].is # "none"
                 /\ \A u \in uploads' : u.file # x[1]
                 /\ \A e \in Device : R!Bears(client'[e], Early(x[1])) = {}
        <3>1. /\ outcome[x[1]].is # "none" /\ x[1] \in File
              /\ \A u \in uploads : u.file # x[1]
              /\ \A e \in Device : R!Bears(client[e], Early(x[1])) = {}
            BY <1>1, <2>1 DEF Wrote
        <3>2. x[1] # f
            BY <1>2, <3>1
        <3>. QED
            BY <1>2, <1>3, <1>4, <1>5, <3>1, <3>2
    <2>. QED
        BY <2>1, <2>2 DEF Wrote
<1>12. S = Stored' /\ R!Holding(Lists(W), G(S))'
    <2>1. R!Inv
        BY DEF IInv
    <2>. QED
        BY <1>1, <1>3, <2>1, StayStep DEF Stored
<1>. QED
    BY <1>10, <1>11, <1>12, OInvNow

\* A step of device d that leaves Storage and the uploads alone, and writes no post.
LEMMA OnceProgram ==
    ASSUME IInv, NEW W, NEW S, S = Stored, OnePlace, Wrote(W), R!Holding(Lists(W), G(S)),
           NEW d \in Device, NEW k,
           client' = [client EXCEPT ![d] = k], UNCHANGED <<data, sub, in, drops, stored, uploads>>,
           Stands(k, client[d], in[d], Lists(W), G(S)[d]),
           Moves(d, k), \A f \in File : outcome[f].is # "none" => outcome'[f].is # "none",
           \A f \in File : R!Passes(client[d], k, Early(f))
    PROVE  OInv'
<1>1. OnePlace'
    BY OnePlaceStep
<1>2. Wrote(W)'
    <2>1. \A x \in W : R!Bears(client[d], Early(x[1])) = {} => R!Bears(k, Early(x[1])) = {}
        BY DEF Wrote, R!Passes
    <2>. QED
        BY <2>1, WroteStep
<1>3. R!Holding(Lists(W), G(S))'
    BY ProgramStep DEF IInv, Stands
<1>4. S = Stored'
    BY DEF Stored
<1>. QED
    BY <1>1, <1>2, <1>3, <1>4, OInvNow

LEMMA WireOnce ==
    ASSUME IInv, OInv, NEW d \in Device, Network(d) \/ Disconnect(d)
    PROVE  OInv'
<1>1. PICK W, S : S = Stored /\ OnePlace /\ Wrote(W) /\ R!Holding(Lists(W), G(S))
    BY DEF OInv
<1>2. /\ DB!Network(d) \/ DB!Disconnect(d)
      /\ UNCHANGED <<stored, uploads, outcome>> /\ R!Inv
    BY DEF Network, Disconnect, IInv
<1>3. R!Network(d) \/ R!Disconnect(d)
    BY <1>2, SameNetwork, SameStart
<1>4. PICK k : k = client'[d]
    OBVIOUS
<1>5. \A T : R!Passes(client[d], k, T)
    BY <1>2, <1>3, <1>4, Assumptions, R!NetworkPasses
<1>6. \A e \in Device : e # d => client'[e] = client[e]
    BY <1>2, <1>3, Assumptions, R!NetworkPasses
<1>7. R!Inv' /\ R!Holding(Lists(W), G(S))'
    <2>1. CASE DB!Network(d)
        BY <1>1, <1>2, <2>1, AnswerableG, NetworkStep
    <2>2. CASE DB!Disconnect(d)
        BY <1>1, <1>2, <2>2, DisconnectStep
    <2>. QED
        BY <1>2, <2>1, <2>2
<1>8. client' = [client EXCEPT ![d] = k]
    <2>1. client \in [Device -> R!ClientState] /\ client' \in [Device -> R!ClientState]
        BY <1>2, <1>7 DEF R!Inv, R!TypeOK
    <2>. QED
        BY <1>4, <1>6, <2>1
<1>9. Moves(d, k)
    BY <1>1, <1>2, <1>5, PassingMoves
<1>10. OnePlace'
    BY <1>1, <1>2, <1>8, <1>9, OnePlaceStep
<1>11. Wrote(W)'
    <2>1. \A x \in W : R!Bears(client[d], Early(x[1])) = {} => R!Bears(k, Early(x[1])) = {}
        BY <1>5 DEF R!Passes
    <2>. QED
        BY <1>1, <1>2, <1>8, <2>1, WroteStep
<1>12. S = Stored'
    BY <1>1, <1>2 DEF Stored
<1>. QED
    BY <1>7, <1>10, <1>11, <1>12, OInvNow

\* Nothing that the posts are about changes.
LEMMA StayOnce ==
    ASSUME IInv, OInv, UNCHANGED <<database, stored, uploads, outcome>>
    PROVE  OInv'
<1>1. PICK W, S : S = Stored /\ OnePlace /\ Wrote(W) /\ R!Holding(Lists(W), G(S))
    BY DEF OInv
<1>2. R!Holding(Lists(W), G(S))'
    BY <1>1, StayStep DEF IInv
<1>3. UNCHANGED client
    BY DEF database
<1>4. OnePlace'
    BY <1>1, <1>3 DEF OnePlace, Posting
<1>5. Wrote(W)'
    BY <1>1, <1>3 DEF Wrote
<1>6. S = Stored'
    BY <1>1 DEF Stored
<1>. QED
    BY <1>2, <1>4, <1>5, <1>6, OInvNow

LEMMA StorageEndsOnce ==
    ASSUME IInv, OInv, NEW d \in Device, StorageEnds(d)
    PROVE  OInv'
<1>1. PICK W, S : S = Stored /\ OnePlace /\ Wrote(W) /\ R!Holding(Lists(W), G(S))
    BY DEF OInv
<1>2. PICK u, ok, tag, k, T :
        /\ u \in uploads /\ ok \in BOOLEAN
        /\ u.device = d /\ tag = [op |-> "uploaded", file |-> u.file, ok |-> ok]
        /\ uploads' = uploads \ {u}
        /\ stored' = IF ok THEN stored \cup {<<u.folder, u.file>>} ELSE stored
        /\ k = Dispatch(client[d], tag) /\ client' = [client EXCEPT ![d] = k]
        /\ T = Stored'
    BY DEF StorageEnds
<1>3. /\ UNCHANGED <<data, sub, in, drops, outcome>> /\ R!Inv /\ AppOK
      /\ client \in [Device -> R!ClientState]
    BY DEF StorageEnds, IInv, R!Inv, R!TypeOK
<1>4. u.folder \in Name /\ u.file \in File /\ tag \in Uploaded /\ tag \in Tags /\ tag.file = u.file
    BY <1>2, <1>3 DEF AppOK, Upload, Uploaded, Tags
<1>5. S \subseteq T /\ (ok => u.file \in T)
    BY <1>1, <1>2, <1>4 DEF Stored
<1>6. R!Holding(Lists(W), G(T))
    <2>1. \A e \in Device : /\ G(S)[e].regs \subseteq G(T)[e].regs
                            /\ G(S)[e].tags \subseteq G(T)[e].tags
                            /\ G(S)[e].done \subseteq G(T)[e].done
        BY <1>5, ClosureFields, OfGrows
    <2>. QED
        BY <1>1, <1>3, <2>1, Assumptions, R!MoreKept
<1>7. PICK c, s, V, g : c = client[d] /\ s = in[d] /\ V = Lists(W) /\ g = G(T)[d]
    OBVIOUS
<1>8. R!Steady(c, s, V, g) /\ s \in Seq(R!Message)
    BY <1>3, <1>6, <1>7, LocalSteady
<1>9. <<tag, TRUE>> \in g.done
    <2>1. tag \in UploadsOf(T)
        BY <1>2, <1>4, <1>5 DEF UploadsOf
    <2>2. <<tag, TRUE>> \in DoneOf(T)
        BY <1>4, <2>1 DEF DoneOf
    <2>. QED
        BY <1>7, <2>2, ClosureFields
<1>10. R!Steady(Dispatch(c, tag), s, V, g) /\ Dispatch(c, tag).conn = c.conn
    BY <1>4, <1>8, <1>9, DispatchStep
<1>11. R!Holding(Lists(W), G(T))'
    BY <1>2, <1>3, <1>6, <1>7, <1>10, ProgramStep
<1>12. c \in R!ClientState /\ k = R!Block(c, tag)
    BY <1>2, <1>3, <1>7 DEF Dispatch, R!Block
<1>13. R!Gains(c, k, tag)
    BY <1>4, <1>12, Assumptions, R!BlockGains
<1>14. /\ Has(c, u.file) = {} /\ Posting(u.file, d)
       /\ \A v \in uploads : v.file = u.file => v = u
    BY <1>1, <1>2, <1>7 DEF OnePlace
<1>15. ASSUME NEW f \in File
       PROVE  R!Lone(Has(k, f)) /\ (Has(k, f) # {} => Posting(f, d))
    <2>1. R!Lone(Has(c, f)) /\ (Has(c, f) # {} => Posting(f, d))
        BY <1>1, <1>7 DEF OnePlace
    <2>2. CASE f = u.file
        <3>1. tag \in Of(f)
            BY <1>4, <2>2 DEF Of
        <3>. QED
            BY <1>13, <1>14, <2>2, <3>1 DEF R!Gains, Has
    <2>3. CASE f # u.file
        <3>1. tag \notin Of(f)
            BY <1>4, <2>3 DEF Of
        <3>2. R!Passes(c, k, Of(f))
            BY <1>13, <3>1 DEF R!Gains
        <3>. QED
            BY <2>1, <3>2 DEF R!Passes, Has
    <2>. QED
        BY <2>2, <2>3
<1>16. client'[d] = k /\ \A e \in Device : e # d => client'[e] = client[e]
    BY <1>2, <1>3
<1>17. (\A e \in Device, f \in File :
            R!Lone(Has(client[e], f)) /\ (Has(client[e], f) # {} => Posting(f, e)))'
    <2>. SUFFICES ASSUME NEW e \in Device, NEW f \in File
                  PROVE  R!Lone(Has(client'[e], f)) /\ (Has(client'[e], f) # {} => Posting(f, e)')
        OBVIOUS
    <2>1. CASE e = d
        BY <1>3, <1>15, <1>16, <2>1 DEF Posting
    <2>2. CASE e # d
        BY <1>1, <1>3, <1>16, <2>2 DEF OnePlace, Posting
    <2>. QED
        BY <2>1, <2>2
<1>18. ASSUME NEW v \in uploads'
       PROVE  Posting(v.file, v.device)' /\ Has(client'[v.device], v.file) = {}
    <2>1. v \in uploads /\ v.file # u.file /\ v.file \in File /\ v.device \in Device
        BY <1>2, <1>3, <1>14 DEF AppOK, Upload
    <2>2. Posting(v.file, v.device) /\ Has(client[v.device], v.file) = {}
        BY <1>1, <2>1 DEF OnePlace
    <2>3. tag \notin Of(v.file)
        BY <1>4, <2>1 DEF Of
    <2>4. R!Passes(c, k, Of(v.file))
        BY <1>13, <2>3 DEF R!Gains
    <2>5. Has(client'[v.device], v.file) = {}
        BY <1>7, <1>16, <2>1, <2>2, <2>4 DEF R!Passes, Has
    <2>. QED
        BY <1>3, <2>2, <2>5 DEF Posting
<1>19. OnePlace'
    <2>1. \A v, w \in uploads' : v.file = w.file => v = w
        BY <1>1, <1>2 DEF OnePlace
    <2>. QED
        BY <1>17, <1>18, <2>1 DEF OnePlace
<1>20. Wrote(W)'
    <2>1. ASSUME NEW x \in W, R!Bears(client[d], Early(x[1])) = {}
          PROVE  R!Bears(k, Early(x[1])) = {}
        <3>1. x[1] # u.file
            BY <1>1, <1>2 DEF Wrote
        <3>2. tag \notin Early(x[1])
            BY <1>4, <3>1 DEF Early
        <3>. QED
            BY <1>7, <1>13, <2>1, <3>2 DEF R!Gains, R!Passes
    <2>2. uploads' \subseteq uploads /\ client' = [client EXCEPT ![d] = k]
        BY <1>2
    <2>3. \A f \in File : outcome[f].is # "none" => outcome'[f].is # "none"
        BY <1>3
    <2>4. Wrote(W)
        BY <1>1
    <2>. QED
        BY <2>1, <2>2, <2>3, <2>4, WroteStep
<1>. QED
    BY <1>2, <1>11, <1>19, <1>20, OInvNow

\* Blocks of the main queue that end a post, or go on with it.
LEMMA RunDoneOnce ==
    ASSUME IInv, OInv, NEW d \in Device, RunDone(d)
    PROVE  OInv'
<1>1. PICK W, S : S = Stored /\ OnePlace /\ Wrote(W) /\ R!Holding(Lists(W), G(S))
    BY DEF OInv
<1>2. PICK c, s, V, k, tag, ok, f :
        /\ c = client[d] /\ s = in[d] /\ V = Lists(W) /\ k = DB!TakeDone(c)
        /\ tag = Head(c.main).tag /\ ok = Head(c.main).ok /\ f = tag.file
    OBVIOUS
<1>3. /\ UNCHANGED <<data, sub, in, drops, uploads, stored>>
      /\ R!Inv /\ AppOK /\ c \in R!ClientState
      /\ c.main # <<>> /\ Head(c.main).kind = "done"
    BY <1>2 DEF RunDone, IInv, R!Inv, R!TypeOK
<1>4. R!Steady(c, s, V, G(S)[d]) /\ s \in Seq(R!Message)
    BY <1>1, <1>2, <1>3, LocalSteady
<1>5. R!Steady(k, s, V, G(S)[d]) /\ k.conn = c.conn
    BY <1>2, <1>3, <1>4, DoneStep
<1>6. tag \in TagsOf(S) \cup UploadsOf(S)
    <2>1. <<tag, ok>> \in G(S)[d].done
        BY <1>2, <1>3, <1>4, DoneStep
    <2>2. <<tag, ok>> \in DoneOf(S)
        BY <2>1, ClosureFields
    <2>. QED
        BY <2>2 DEF DoneOf
<1>7. /\ f \in File /\ tag \in Tags /\ tag \in Of(f)
      /\ tag.op = "uploaded" /\ tag.ok => f \in S
    BY <1>2, <1>6 DEF TagsOf, UploadsOf, Posted, Uploaded, Tags, Of
<1>8. ASSUME NEW T
      PROVE  /\ R!Passes(c, k, T)
             /\ tag \in T /\ R!Lone(R!Bears(c, T)) => R!Bears(k, T) = {}
    BY <1>2, <1>3, SameTake, Assumptions, R!TakeDonePasses
<1>9. ASSUME NEW g \in File
      PROVE  R!Lone(Has(c, g)) /\ (Has(c, g) # {} => Posting(g, d))
    BY <1>1, <1>2 DEF OnePlace
<1>10. Has(k, f) = {} /\ Posting(f, d) /\ R!Bears(c, Of(f)) # {}
    <2>1. Has(k, f) = {}
        BY <1>7, <1>8, <1>9 DEF Has
    <2>2. c.main \in Seq(R!Event)
        BY <1>3 DEF R!ClientState
    <2>3. R!Bears(c, Of(f)) # {}
        BY <1>2, <1>3, <1>7, <2>2, Assumptions, R!BlockBears
    <2>. QED
        BY <1>7, <1>9, <2>1, <2>3 DEF Has
<1>11. ASSUME NEW what \in Told4, outcome' = Told(f, what)
       PROVE  /\ \A g \in File : g # f => outcome'[g] = outcome[g]
              /\ outcome'[f].is = what /\ outcome'[f].device = outcome[f].device
              /\ what # "none" => \A g \in File : outcome[g].is # "none" => outcome'[g].is # "none"
    <2>1. outcome' = [outcome EXCEPT ![f] = [outcome[f] EXCEPT !.is = what]]
        BY <1>11 DEF Told
    <2>2. outcome[f] \in [device : Device \cup {NoName}, is : Told4] /\ DOMAIN outcome = File
        BY <1>3, <1>7 DEF AppOK
    <2>3. \A g \in File : outcome'[g] = IF g = f THEN [outcome[f] EXCEPT !.is = what] ELSE outcome[g]
        BY <1>7, <2>1, <2>2
    <2>. QED
        BY <1>7, <2>2, <2>3
<1>12. CASE \E what \in Told4 \ {"none"} : /\ outcome' = Told(f, what)
                                           /\ client' = [client EXCEPT ![d] = k]
    <2>1. PICK what \in Told4 : outcome' = Told(f, what) /\ what # "none"
        BY <1>12
    <2>2. Moves(d, k)
        <3>. SUFFICES ASSUME NEW g \in File
                      PROVE  /\ R!Lone(Has(k, g))
                             /\ Has(c, g) = {} => Has(k, g) = {} /\ outcome'[g] = outcome[g]
                             /\ Has(k, g) # {} => Posting(g, d)'
            BY <1>2 DEF Moves
        <3>1. R!Passes(c, k, Of(g))
            BY <1>8
        <3>2. CASE g = f
            BY <1>10, <3>1, <3>2 DEF Has, R!Lone
        <3>3. CASE g # f
            BY <1>9, <1>11, <2>1, <3>1, <3>3 DEF R!Passes, Has, Posting
        <3>. QED
            BY <3>2, <3>3
    <2>3. Stands(k, client[d], in[d], Lists(W), G(S)[d])
        BY <1>2, <1>5 DEF Stands
    <2>4. \A g \in File : R!Passes(client[d], k, Early(g))
        BY <1>2, <1>8
    <2>5. \A g \in File : outcome[g].is # "none" => outcome'[g].is # "none"
        BY <1>11, <2>1
    <2>6. client' = [client EXCEPT ![d] = k]
        BY <1>12
    <2>. QED
        BY <1>1, <1>3, <2>2, <2>3, <2>4, <2>5, <2>6, OnceProgram
<1>13. CASE /\ tag.op = "uploaded" /\ tag.ok /\ username[d] # NoName
            /\ outcome' = Told(f, "posting")
            /\ client' = [client EXCEPT ![d] = insertPost(k, username[d], f)]
    <2>1. PICK n, k2, ask, path :
            /\ n = username[d] /\ k2 = insertPost(k, n, f) /\ path = User(n)
            /\ ask = [op |-> "insertPost", user |-> n, file |-> f]
        OBVIOUS
    <2>2. n \in Name /\ f \in S
        BY <1>3, <1>7, <1>13, <2>1 DEF AppOK
    <2>3. Stands(k2, k, s, V, G(S)[d])
        BY <1>4, <1>5, <1>7, <2>1, <2>2, AskStep
    <2>4. ask \in Tags /\ ask.file = f /\ path \in Records
        BY <1>7, <2>1, <2>2 DEF Asking, Tags, Records
    <2>5. k \in R!ClientState
        BY <1>5 DEF R!Steady
    <2>6. k2 = R!ObservedOnce(k, path, ask)
        BY <2>1, SameObserve DEF insertPost, Ask, R!ObservedOnce
    <2>7. R!Gains(k, k2, ask)
        BY <2>4, <2>5, <2>6, Assumptions, R!AskGains
    <2>8. Moves(d, k2)
        <3>. SUFFICES ASSUME NEW g \in File
                      PROVE  /\ R!Lone(Has(k2, g))
                             /\ Has(c, g) = {} => Has(k2, g) = {} /\ outcome'[g] = outcome[g]
                             /\ Has(k2, g) # {} => Posting(g, d)'
            BY <1>2 DEF Moves
        <3>0. "posting" \in Told4
            BY DEF Told4
        <3>1. CASE g = f
            <4>1. ask \in Of(f)
                BY <2>4 DEF Of
            <4>2. R!Lone(Has(k2, f))
                BY <1>10, <2>7, <4>1 DEF R!Gains, Has
            <4>. QED
                BY <1>10, <1>11, <1>13, <3>0, <3>1, <4>2 DEF Posting, Has
        <3>2. CASE g # f
            <4>1. ask \notin Of(g)
                BY <2>4, <3>2 DEF Of
            <4>2. R!Passes(k, k2, Of(g)) /\ R!Passes(c, k, Of(g))
                BY <1>8, <2>7, <4>1 DEF R!Gains
            <4>. QED
                BY <1>9, <1>11, <1>13, <3>0, <3>2, <4>2 DEF R!Passes, Has, Posting
        <3>. QED
            BY <3>1, <3>2
    <2>9. Stands(k2, client[d], in[d], Lists(W), G(S)[d])
        BY <1>2, <1>5, <2>3 DEF Stands
    <2>10. f \notin {x[1] : x \in W}
        <3>1. tag \in Early(f)
            BY <1>2, <1>6, <1>13 DEF Early, TagsOf, UploadsOf, Posted
        <3>2. c.main \in Seq(R!Event)
            BY <1>3 DEF R!ClientState
        <3>3. R!Bears(client[d], Early(f)) # {}
            BY <1>2, <1>3, <3>1, <3>2, Assumptions, R!BlockBears
        <3>. QED
            BY <1>1, <3>3 DEF Wrote
    <2>11. client' = [client EXCEPT ![d] = k2]
        BY <1>13, <2>1
    <2>12. OnePlace'
        BY <1>1, <1>3, <2>8, <2>11, OnePlaceStep
    <2>13. Wrote(W)'
        <3>1. ASSUME NEW x \in W, R!Bears(client[d], Early(x[1])) = {}
              PROVE  R!Bears(k2, Early(x[1])) = {}
            <4>1. ask \notin Early(x[1])
                BY <2>4, <2>10 DEF Early
            <4>2. R!Passes(c, k, Early(x[1])) /\ R!Passes(k, k2, Early(x[1]))
                BY <1>8, <2>7, <4>1 DEF R!Gains
            <4>. QED
                BY <1>2, <3>1, <4>2 DEF R!Passes
        <3>2. \A g \in File : outcome[g].is # "none" => outcome'[g].is # "none"
            BY <1>11, <1>13 DEF Told4
        <3>3. uploads' \subseteq uploads /\ Wrote(W)
            BY <1>1, <1>3
        <3>. QED
            BY <2>11, <3>1, <3>2, <3>3, WroteStep
    <2>14. R!Holding(Lists(W), G(S))'
        BY <1>1, <1>3, <2>9, <2>11, ProgramStep DEF Stands
    <2>15. S = Stored'
        BY <1>1, <1>3 DEF Stored
    <2>. QED
        BY <2>12, <2>13, <2>14, <2>15, OInvNow
<1>. QED
    BY <1>2, <1>12, <1>13, RunDoneCases

\* A post that is in no list is added to one.
LEMMA AppendOnce ==
    ASSUME NEW W, NEW l \in Leaf, NEW v \in Lists(W)[l], l[2] = "posts",
           NEW f \in File, \A x \in W : x[1] # f
    PROVE  Append(v, f) \in Lists(W \cup {<<f, l[1]>>})[l]
<1>1. PICK v2 : v2 = Append(v, f)
    OBVIOUS
<1>2. v \in List /\ \A g \in Files(v) \cap File : <<g, l[1]>> \in W /\ Single(v, g)
    BY DEF Lists
<1>3. /\ v2 \in List /\ DOMAIN v2 = 1..(Len(v) + 1) /\ v2[Len(v) + 1] = f
      /\ \A i \in DOMAIN v : v2[i] = v[i]
      /\ DOMAIN v = 1..Len(v) /\ Len(v) \in Nat
    BY <1>1, <1>2 DEF List
<1>4. \A i \in DOMAIN v2 : i \in DOMAIN v \/ i = Len(v) + 1
    BY <1>3
<1>5. f \notin Files(v)
    <2>. SUFFICES ASSUME f \in Files(v) PROVE FALSE
        OBVIOUS
    <2>1. <<f, l[1]>> \in W
        BY <1>2
    <2>2. <<f, l[1]>>[1] = f
        OBVIOUS
    <2>. QED
        BY <2>1, <2>2
<1>6. ASSUME NEW g \in Files(v2) \cap File
      PROVE  <<g, l[1]>> \in W \cup {<<f, l[1]>>} /\ Single(v2, g)
    <2>1. CASE g = f
        <3>1. \A i \in DOMAIN v2 : v2[i] = f => i = Len(v) + 1
            BY <1>3, <1>4, <1>5 DEF Files
        <3>. QED
            BY <2>1, <3>1 DEF Single
    <2>2. CASE g # f
        <3>1. g \in Files(v)
            BY <1>3, <1>4, <2>2 DEF Files
        <3>2. \A i \in DOMAIN v2 : v2[i] = g => i \in DOMAIN v /\ v[i] = g
            BY <1>3, <1>4, <2>2
        <3>. QED
            BY <1>2, <3>1, <3>2 DEF Single
    <2>. QED
        BY <2>1, <2>2
<1>. QED
    BY <1>1, <1>3, <1>6 DEF Lists

LEMMA ListsGrow ==
    ASSUME NEW W, NEW W2, W \subseteq W2
    PROVE  \A l \in Leaf : Lists(W)[l] \subseteq Lists(W2)[l]
    BY DEF Lists

\* The record as it is written back.
LEMMA WithPostOnce ==
    ASSUME NEW W, NEW n \in Name, NEW f \in File, \A x \in W : x[1] # f,
           NEW view, \A l \in User(n) : l \in Leaf /\ view[l] \in Lists(W)[l],
           NEW W2, W2 = W \cup {<<f, n>>},
           NEW put, put = WithPost(view, n, f)
    PROVE  put \in R!Put /\ R!Carries(put, Lists(W2))
<1>1. DOMAIN put = User(n) /\ put = [l \in User(n) |-> put[l]]
    BY DEF WithPost
<1>2. ASSUME NEW l \in User(n)
      PROVE  put[l] \in Lists(W2)[l]
    <2>1. l \in Leaf /\ l[1] = n /\ view[l] \in Lists(W)[l]
        BY DEF User
    <2>2. CASE l[2] = "posts"
        <3>1. put[l] = Append(view[l], f)
            BY <2>2 DEF WithPost
        <3>2. PICK v : v = view[l]
            OBVIOUS
        <3>3. Append(v, f) \in Lists(W \cup {<<f, l[1]>>})[l]
            BY <2>1, <2>2, <3>2, AppendOnce
        <3>. QED
            BY <2>1, <3>1, <3>2, <3>3
    <2>3. CASE l[2] # "posts"
        <3>1. put[l] = view[l]
            BY <2>3 DEF WithPost
        <3>2. W \subseteq W2
            OBVIOUS
        <3>. QED
            BY <2>1, <3>1, <3>2, ListsGrow
    <2>. QED
        BY <2>2, <2>3
<1>3. ASSUME NEW l \in User(n)
      PROVE  put[l] \in List
    <2>1. l \in Leaf /\ put[l] \in Lists(W2)[l]
        BY <1>2
    <2>. QED
        BY <2>1 DEF Lists
<1>4. User(n) \in SUBSET Leaf /\ put \in [User(n) -> List]
    BY <1>1, <1>3 DEF User
<1>5. put \in R!Put
    BY <1>4 DEF R!Put
<1>6. R!Carries(put, Lists(W2))
    BY <1>1, <1>2 DEF R!Carries
<1>. QED
    BY <1>5, <1>6

\* The record of the user has been read.
LEMMA RunValueOnce ==
    ASSUME IInv, OInv, NEW d \in Device, RunValue(d)
    PROVE  OInv'
<1>1. PICK W, S : S = Stored /\ OnePlace /\ Wrote(W) /\ R!Holding(Lists(W), G(S))
    BY DEF OInv
<1>2. PICK c, s, view : c = client[d] /\ s = in[d] /\ view = Head(c.main).view
    OBVIOUS
<1>3. /\ UNCHANGED <<data, sub, in, drops, uploads, stored>>
      /\ R!Inv /\ AppOK /\ c \in R!ClientState
    BY <1>2 DEF RunValue, IInv, R!Inv, R!TypeOK
<1>4. PICK r \in DB!Ready(c) :
        IF DB!Stale(c, r)
        THEN /\ client' = [client EXCEPT ![d] = DB!TakeValue(c, r)]
             /\ UNCHANGED outcome
        ELSE IF Exists(view, r.tag.user)
        THEN /\ client' = [client EXCEPT ![d] = PostRead(DB!Begin(c, r), view, r.tag)]
             /\ UNCHANGED outcome
        ELSE /\ client' = [client EXCEPT ![d] = DB!Begin(c, r)]
             /\ outcome' = Told(r.tag.file, "failed")
    BY <1>2 DEF RunValue
<1>5. PICK k, k1 : k = DB!TakeValue(c, r) /\ k1 = DB!Begin(c, r)
    OBVIOUS
<1>6. ASSUME NEW V, R!Holding(V, G(S))
      PROVE  /\ R!Steady(k, s, V, G(S)[d]) /\ k.conn = c.conn
             /\ R!Steady(k1, s, V, G(S)[d]) /\ k1.conn = c.conn
             /\ s \in Seq(R!Message)
             /\ r \in G(S)[d].regs
             /\ \A l \in r.path : l \in Leaf /\ view[l] \in V[l]
    <2>1. R!Steady(c, s, V, G(S)[d]) /\ s \in Seq(R!Message)
        BY <1>2, <1>3, <1>6, LocalSteady
    <2>. QED
        BY <1>2, <1>5, <2>1, ValueStep
<1>7. PICK i \in Nat, n \in Name, f \in S :
        r = [id |-> i, path |-> User(n), single |-> TRUE,
             tag |-> [op |-> "insertPost", user |-> n, file |-> f]]
    BY <1>1, <1>6, ClosureFields DEF RegsOf
<1>8. /\ f \in File /\ r.path = User(n) /\ r.tag.user = n /\ r.tag.file = f /\ r.single
      /\ r.tag \in Asking /\ r.tag \in Tags /\ r.tag \in Of(f) /\ r.tag \in Early(f)
    BY <1>1, <1>7 DEF Stored, Asking, Tags, Of, Early
<1>9. ASSUME NEW g \in File
      PROVE  R!Lone(Has(c, g)) /\ (Has(c, g) # {} => Posting(g, d))
    BY <1>1, <1>2 DEF OnePlace
<1>10. r \in R!Ready(c)
    BY SameTake
<1>11. ASSUME NEW T
       PROVE  /\ R!Passes(c, k, T) /\ R!Passes(c, k1, T)
              /\ r \in c.regs /\ r.tag \in T /\ R!Lone(R!Bears(c, T)) => R!Bears(k1, T) = {}
    BY <1>3, <1>5, <1>8, <1>10, SameTake, Assumptions, R!TakeValuePasses, R!BeginPasses
<1>12. CASE DB!Stale(c, r)
    <2>1. client' = [client EXCEPT ![d] = k] /\ UNCHANGED outcome
        BY <1>4, <1>5, <1>12
    <2>2. Moves(d, k)
        BY <1>1, <1>2, <1>11, <2>1, PassingMoves
    <2>3. Stands(k, client[d], in[d], Lists(W), G(S)[d])
        BY <1>1, <1>2, <1>6 DEF Stands
    <2>4. \A g \in File : R!Passes(client[d], k, Early(g))
        BY <1>2, <1>11
    <2>5. \A g \in File : outcome[g].is # "none" => outcome'[g].is # "none"
        BY <2>1
    <2>. QED
        BY <1>1, <1>3, <2>1, <2>2, <2>3, <2>4, <2>5, OnceProgram
<1>13. ASSUME ~DB!Stale(c, r)
       PROVE  /\ r \in c.regs /\ Has(c, f) # {} /\ Posting(f, d)
              /\ Has(k1, f) = {} /\ R!Bears(k1, Early(f)) = {}
              /\ \A x \in W : x[1] # f
    <2>1. r \in c.regs
        BY <1>8, <1>13 DEF DB!Stale
    <2>2. Has(c, f) # {} /\ R!Bears(c, Early(f)) # {}
        BY <1>8, <2>1, Assumptions, R!RegBears DEF Has
    <2>3. Has(k1, f) = {}
        BY <1>8, <1>9, <1>11, <2>1 DEF Has
    <2>4. R!Bears(k1, Early(f)) = {}
        BY <2>3, EarlyOf
    <2>5. \A x \in W : x[1] # f
        BY <1>1, <1>2, <2>2 DEF Wrote
    <2>. QED
        BY <1>8, <1>9, <2>1, <2>2, <2>3, <2>4, <2>5
<1>14. CASE ~DB!Stale(c, r) /\ ~Exists(view, r.tag.user)
    <2>1. client' = [client EXCEPT ![d] = k1] /\ outcome' = Told(f, "failed")
        BY <1>4, <1>5, <1>8, <1>14
    <2>2. \A g \in File : /\ g # f => outcome'[g] = outcome[g]
                          /\ outcome[g].is # "none" => outcome'[g].is # "none"
        <3>1. outcome' = [outcome EXCEPT ![f] = [outcome[f] EXCEPT !.is = "failed"]]
            BY <2>1 DEF Told
        <3>2. outcome[f] \in [device : Device \cup {NoName}, is : Told4] /\ DOMAIN outcome = File
            BY <1>3, <1>8 DEF AppOK
        <3>3. \A g \in File : outcome'[g] = IF g = f THEN [outcome[f] EXCEPT !.is = "failed"] ELSE outcome[g]
            BY <1>8, <3>1, <3>2
        <3>. QED
            BY <3>2, <3>3
    <2>3. Moves(d, k1)
        <3>. SUFFICES ASSUME NEW g \in File
                      PROVE  /\ R!Lone(Has(k1, g))
                             /\ Has(c, g) = {} => Has(k1, g) = {} /\ outcome'[g] = outcome[g]
                             /\ Has(k1, g) # {} => Posting(g, d)'
            BY <1>2 DEF Moves
        <3>1. R!Passes(c, k1, Of(g))
            BY <1>11
        <3>2. CASE g = f
            BY <1>13, <1>14, <3>1, <3>2 DEF R!Lone
        <3>3. CASE g # f
            BY <1>9, <2>2, <3>1, <3>3 DEF R!Passes, Has, Posting
        <3>. QED
            BY <3>2, <3>3
    <2>4. Stands(k1, client[d], in[d], Lists(W), G(S)[d])
        BY <1>1, <1>2, <1>6 DEF Stands
    <2>5. \A g \in File : R!Passes(client[d], k1, Early(g))
        BY <1>2, <1>11
    <2>. QED
        BY <1>1, <1>3, <2>1, <2>2, <2>3, <2>4, <2>5, OnceProgram
<1>15. CASE ~DB!Stale(c, r) /\ Exists(view, r.tag.user)
    <2>1. PICK put, tag, k2, W2 :
            /\ put = WithPost(view, n, f) /\ tag = [r.tag EXCEPT !.op = "posted"]
            /\ k2 = DB!SetValue(k1, put, tag) /\ W2 = W \cup {<<f, n>>}
        OBVIOUS
    <2>2. client' = [client EXCEPT ![d] = k2] /\ UNCHANGED outcome
        BY <1>4, <1>5, <1>8, <1>15, <2>1 DEF PostRead
    <2>3. /\ tag = [op |-> "posted", user |-> n, file |-> f]
          /\ tag.file = f /\ tag \in TagsOf(S) /\ tag \in Tags /\ tag \notin Early(f)
        <3>1. tag = [op |-> "posted", user |-> n, file |-> f]
            BY <1>7, <2>1
        <3>2. tag \in Posted /\ tag.op = "posted"
            BY <1>8, <3>1 DEF Posted
        <3>3. \A t \in Early(f) : t.op = "insertPost" \/ t.op = "uploaded"
            BY DEF Early, Asking, Uploaded
        <3>. QED
            BY <3>1, <3>2, <3>3 DEF TagsOf, Tags
    <2>4. put \in R!Put /\ R!Carries(put, Lists(W2))
        <3>1. \A l \in User(n) : l \in Leaf /\ view[l] \in Lists(W)[l]
            BY <1>1, <1>6, <1>8
        <3>. QED
            BY <1>8, <1>13, <1>15, <2>1, <3>1, WithPostOnce
    <2>5. R!Holding(Lists(W2), G(S))
        <3>1. \A l \in Leaf : Lists(W)[l] \subseteq Lists(W2)[l]
            BY <2>1, ListsGrow
        <3>. QED
            BY <1>1, <1>3, <3>1, Assumptions, R!MoreKept
    <2>6. PICK V : V = Lists(W2)
        OBVIOUS
    <2>7. R!Steady(k1, s, V, G(S)[d]) /\ k1.conn = c.conn /\ s \in Seq(R!Message)
        BY <1>6, <2>5, <2>6
    <2>8. tag \in G(S)[d].tags
        BY <2>3, ClosureFields
    <2>9. k2 = R!SetValue(k1, put, tag)
        BY <2>1, SameSetValue
    <2>10. R!Steady(k2, s, V, G(S)[d]) /\ k2.conn = k1.conn
        BY <2>3, <2>4, <2>6, <2>7, <2>8, <2>9, Assumptions, R!SetValueServed
    <2>11. k1 \in R!ClientState
        BY <2>7 DEF R!Steady
    <2>12. R!Gains(k1, k2, tag)
        BY <2>3, <2>4, <2>9, <2>11, Assumptions, R!SetValueGains
    <2>13. Moves(d, k2)
        <3>. SUFFICES ASSUME NEW g \in File
                      PROVE  /\ R!Lone(Has(k2, g))
                             /\ Has(c, g) = {} => Has(k2, g) = {} /\ outcome'[g] = outcome[g]
                             /\ Has(k2, g) # {} => Posting(g, d)'
            BY <1>2 DEF Moves
        <3>1. CASE g = f
            <4>1. tag \in Of(f)
                BY <2>3 DEF Of
            <4>2. R!Lone(Has(k2, f))
                BY <1>13, <1>15, <2>12, <4>1 DEF R!Gains, Has
            <4>. QED
                BY <1>13, <1>15, <2>2, <3>1, <4>2 DEF Posting
        <3>2. CASE g # f
            <4>1. tag \notin Of(g)
                BY <2>3, <3>2 DEF Of
            <4>2. R!Passes(k1, k2, Of(g)) /\ R!Passes(c, k1, Of(g))
                BY <1>11, <2>12, <4>1 DEF R!Gains
            <4>. QED
                BY <1>9, <2>2, <4>2 DEF R!Passes, Has, Posting
        <3>. QED
            BY <3>1, <3>2
    <2>14. OnePlace'
        BY <1>1, <1>3, <2>2, <2>13, OnePlaceStep
    <2>15. ASSUME NEW g \in File
           PROVE  R!Bears(c, Early(g)) = {} \/ g = f => R!Bears(k2, Early(g)) = {}
        <3>1. tag \notin Early(g)
            <4>1. \A t \in Early(g) : t.op = "insertPost" \/ t.op = "uploaded"
                BY DEF Early, Asking, Uploaded
            <4>. QED
                BY <2>3, <4>1
        <3>2. R!Passes(c, k1, Early(g)) /\ R!Passes(k1, k2, Early(g))
            BY <1>11, <2>12, <3>1 DEF R!Gains
        <3>. QED
            BY <1>13, <1>15, <3>2 DEF R!Passes
    <2>16. Wrote(W2)'
        <3>1. W \subseteq File \X Name /\ \A x, y \in W : x[1] = y[1] => x = y
            BY <1>1 DEF Wrote
        <3>2. W2 \subseteq File \X Name /\ \A x, y \in W2 : x[1] = y[1] => x = y
            BY <1>8, <1>13, <1>15, <2>1, <3>1
        <3>3. client'[d] = k2 /\ \A e \in Device : e # d => client'[e] = client[e]
            BY <1>3, <2>2 DEF R!Inv, R!TypeOK
        <3>4. ASSUME NEW x \in W2
              PROVE  /\ outcome'[x[1]].is # "none"
                     /\ \A u \in uploads' : u.file # x[1]
                     /\ \A e \in Device : R!Bears(client'[e], Early(x[1])) = {}
            <4>1. x[1] \in File
                BY <3>2
            <4>2. CASE x \in W
                <5>1. /\ outcome[x[1]].is # "none"
                      /\ \A u \in uploads : u.file # x[1]
                      /\ \A e \in Device : R!Bears(client[e], Early(x[1])) = {}
                    BY <1>1, <4>2 DEF Wrote
                <5>. QED
                    BY <1>2, <1>3, <2>2, <2>15, <3>3, <4>1, <5>1
            <4>3. CASE x[1] = f
                <5>1. outcome'[f].is # "none"
                    BY <1>13, <1>15, <2>2 DEF Posting
                <5>2. \A u \in uploads : u.file # f
                    <6>. SUFFICES ASSUME NEW u \in uploads, u.file = f PROVE FALSE
                        OBVIOUS
                    <6>1. Posting(f, u.device) /\ Has(client[u.device], f) = {}
                        BY <1>1 DEF OnePlace
                    <6>2. u.device = d
                        BY <1>13, <1>15, <6>1 DEF Posting
                    <6>. QED
                        BY <1>2, <1>13, <1>15, <6>1, <6>2
                <5>3. ASSUME NEW e \in Device, e # d
                      PROVE  R!Bears(client[e], Early(f)) = {}
                    <6>1. Has(client[e], f) = {}
                        BY <1>1, <1>8, <1>13, <1>15, <5>3 DEF OnePlace, Posting
                    <6>. QED
                        BY <6>1, EarlyOf
                <5>. QED
                    BY <1>3, <1>8, <2>15, <3>3, <4>3, <5>1, <5>2, <5>3
            <4>. QED
                BY <2>1, <4>2, <4>3
        <3>. QED
            BY <3>2, <3>4 DEF Wrote
    <2>17. R!Holding(Lists(W2), G(S))'
        BY <1>2, <1>3, <2>2, <2>5, <2>6, <2>7, <2>10, ProgramStep
    <2>18. S = Stored'
        BY <1>1, <1>3 DEF Stored
    <2>. QED
        BY <2>14, <2>16, <2>17, <2>18, OInvNow
<1>. QED
    BY <1>12, <1>14, <1>15

LEMMA OInvStart == Init => OInv
<1>. SUFFICES ASSUME Init PROVE OInv
    OBVIOUS
<1>1. ASSUME NEW l \in Leaf
      PROVE  Initial[l] \in Lists({})[l]
    <2>1. Initial[l] \in Seq(Entry) /\ Seq(Entry) \subseteq List
        BY InitialAssumption DEF List
    <2>2. Files(Initial[l]) \cap File = {}
        <3>1. Files(Initial[l]) \subseteq Entry
            BY DEF Entry
        <3>. QED
            BY <3>1, InitialAssumption
    <2>. QED
        BY <2>1, <2>2 DEF Lists
<1>2. R!Holding(Lists({}), G(Stored))
    BY <1>1, StartStep DEF Init
<1>3. \A d \in Device : client[d].main = <<>> /\ client[d].regs = {} /\ client[d].writes = {}
    BY DEF Init, DB!Init, DB!ClientInit
<1>4. \A d \in Device : \A T : R!Bears(client[d], T) = {}
    BY <1>3 DEF R!Bears, R!Blocks
<1>5. OnePlace
    <2>1. \A d \in Device, f \in File : Has(client[d], f) = {}
        BY <1>4 DEF Has
    <2>2. uploads = {}
        BY DEF Init
    <2>. QED
        BY <2>1, <2>2 DEF OnePlace, R!Lone
<1>6. Wrote({})
    BY DEF Wrote
<1>. QED
    BY <1>2, <1>5, <1>6 DEF OInv

LEMMA OInvNext == IInv /\ OInv /\ [Next]_vars => OInv'
<1>. SUFFICES ASSUME IInv, OInv, [Next]_vars PROVE OInv'
    OBVIOUS
<1>1. ASSUME NEW d \in Device,
             \/ TapPost(d) \/ SwitchAccount(d)
             \/ StorageEnds(d) \/ Runs(d)
             \/ Network(d) \/ Disconnect(d)
      PROVE  OInv'
    <2>1. CASE SwitchAccount(d)
        BY <2>1, StayOnce DEF SwitchAccount
    <2>. QED
        BY <1>1, <2>1, TapPostOnce, StorageEndsOnce, RunValueOnce, RunDoneOnce, WireOnce
        DEF Runs
<1>2. CASE UNCHANGED vars
    BY <1>2, StayOnce DEF vars
<1>. QED
    BY <1>1, <1>2 DEF Next

LEMMA OnceInductive == Spec => [](IInv /\ OInv)
<1>1. Init => IInv /\ OInv
    BY IInvStart, OInvStart
<1>2. IInv /\ OInv /\ [Next]_vars => (IInv /\ OInv)'
    BY IInvNext, OInvNext
<1>. QED
    BY <1>1, <1>2, PTL DEF Spec

-----------------------------------------------------------------------------
(* With one device, and posts that come one after the other, there is one  *)
(* thing of a post at a time in the client.  So nothing is observed while  *)
(* a write is pending, the record that is read is the one the server has,  *)
(* and what is written back has all that the server's lists have.          *)

ListedIn(tree, f) == {l \in Leaf : l[2] = "posts" /\ f \in Files(tree[l])}

\* The answers there may be: a post that has succeeded is listed.
EndsIn(tree) ==
    {x \in Tags \X BOOLEAN : x[1].op = "posted" /\ x[2] => ListedIn(tree, x[1].file) # {}}

\* A write takes nothing off the lists, and lists its post.
Adding(w, tree) ==
    /\ \A l \in DOMAIN w.put : Files(tree[l]) \subseteq Files(w.put[l])
    /\ \E l \in DOMAIN w.put : l[2] = "posts" /\ w.tag.file \in Files(w.put[l])

Proper(k, s, tree) ==
    /\ R!Solo(k, s, tree) /\ R!Hides(k) /\ R!Fitting(k, s, tree)
    /\ R!Neat(k, tree, EndsIn(tree))
    /\ \A w \in k.writes : Adding(w, tree)

\* At most one post of d is under way.
Sole(d) == \A f, g \in File : Posting(f, d) /\ Posting(g, d) => f = g

PostedListed == \A f \in File : outcome[f].is = "posted" => ListedIn(data, f) # {}

KInv ==
    ~crowded => /\ \A d \in Device : Sole(d) /\ Proper(client[d], in[d], data)
                /\ PostedListed

\* What a client holds of the posts.
LEMMA Bearing ==
    ASSUME NEW S, NEW d \in Device, NEW k, NEW vals, R!Kept(k, vals, G(S)[d]), S \subseteq File
    PROVE  /\ \A r \in k.regs : /\ r.tag \in Tags /\ r.tag.file \in File
                                /\ <<r, "reg">> \in Has(k, r.tag.file)
           /\ \A w \in k.writes : /\ w.tag \in Tags /\ w.tag.file \in File
                                  /\ w.tag.op = "posted"
                                  /\ <<w, "write">> \in Has(k, w.tag.file)
           /\ \A i \in DOMAIN k.main : k.main[i].kind = "done" =>
                /\ k.main[i].tag \in Tags /\ k.main[i].tag.file \in File
                /\ <<i, "block">> \in Has(k, k.main[i].tag.file)
<1>1. ASSUME NEW r \in k.regs
      PROVE  r.tag \in Tags /\ r.tag.file \in File /\ <<r, "reg">> \in Has(k, r.tag.file)
    <2>1. r \in RegsOf(S)
        BY ClosureFields DEF R!Kept
    <2>2. r.tag \in Asking /\ r.tag.file \in File
        BY <2>1 DEF RegsOf, Asking
    <2>3. r.tag \in Of(r.tag.file) /\ r.tag \in Tags
        BY <2>2 DEF Of, Tags
    <2>. QED
        BY <2>2, <2>3, Assumptions, R!RegBears DEF Has
<1>2. ASSUME NEW w \in k.writes
      PROVE  /\ w.tag \in Tags /\ w.tag.file \in File /\ w.tag.op = "posted"
             /\ <<w, "write">> \in Has(k, w.tag.file)
    <2>1. w.tag \in TagsOf(S)
        BY ClosureFields DEF R!Kept, R!FineWrite
    <2>2. w.tag \in Posted /\ w.tag.file \in File /\ w.tag.op = "posted"
        BY <2>1 DEF TagsOf, Posted
    <2>3. w.tag \in Of(w.tag.file) /\ w.tag \in Tags
        BY <2>2 DEF Of, Tags
    <2>. QED
        BY <2>2, <2>3, Assumptions, R!WriteBears DEF Has
<1>3. ASSUME NEW i \in DOMAIN k.main, k.main[i].kind = "done"
      PROVE  /\ k.main[i].tag \in Tags /\ k.main[i].tag.file \in File
             /\ <<i, "block">> \in Has(k, k.main[i].tag.file)
    <2>1. <<k.main[i].tag, k.main[i].ok>> \in DoneOf(S)
        BY <1>3, ClosureFields DEF R!Kept, R!FineEvent
    <2>2. PICK t : t = k.main[i].tag
        OBVIOUS
    <2>3. t \in TagsOf(S) \cup UploadsOf(S)
        BY <2>1, <2>2 DEF DoneOf
    <2>4. t \in Tags /\ t.file \in File /\ t \in Of(t.file)
        BY <2>3 DEF TagsOf, UploadsOf, Tags, Posted, Uploaded, Of
    <2>5. i \in R!Blocks(k, Of(t.file))
        BY <1>3, <2>2, <2>4 DEF R!Blocks
    <2>. QED
        BY <2>2, <2>4, <2>5 DEF Has, R!Bears
<1>. QED
    BY <1>1, <1>2, <1>3

\* One thing at a time.
LEMMA OneAtATime ==
    ASSUME IInv, OInv, NEW d \in Device, Sole(d), NEW k, k = client[d]
    PROVE  /\ R!InOrder(k)
           /\ \A r, q \in k.regs : r = q
           /\ \A i \in DOMAIN k.main : k.main[i].kind = "done" =>
                k.regs = {} /\ k.writes = {} /\ Posting(k.main[i].tag.file, d)
           /\ \A r \in k.regs : Posting(r.tag.file, d)
<1>1. PICK S : S = Stored
    OBVIOUS
<1>2. S \subseteq File
    BY <1>1 DEF Stored
<1>3. R!Kept(k, Vals(S), G(S)[d])
    BY <1>1, At DEF R!Steady
<1>4. /\ \A r \in k.regs : r.tag.file \in File /\ <<r, "reg">> \in Has(k, r.tag.file)
      /\ \A w \in k.writes : w.tag.file \in File /\ <<w, "write">> \in Has(k, w.tag.file)
      /\ \A i \in DOMAIN k.main : k.main[i].kind = "done" =>
            k.main[i].tag.file \in File /\ <<i, "block">> \in Has(k, k.main[i].tag.file)
    BY <1>2, <1>3, Bearing
<1>5. \A f \in File : Has(k, f) # {} => Posting(f, d) /\ R!Lone(Has(k, f))
    BY DEF OInv, OnePlace
<1>6. \A f, g \in File : \A x \in Has(k, f), y \in Has(k, g) : x = y
    <2>. SUFFICES ASSUME NEW f \in File, NEW g \in File, NEW x \in Has(k, f), NEW y \in Has(k, g)
                  PROVE  x = y
        OBVIOUS
    <2>1. f = g
        BY <1>5 DEF Sole
    <2>. QED
        BY <1>5, <2>1 DEF R!Lone
<1>7. \A r, q \in k.regs : r = q
    <2>. SUFFICES ASSUME NEW r \in k.regs, NEW q \in k.regs PROVE r = q
        OBVIOUS
    <2>1. PICK x, y : x = <<r, "reg">> /\ y = <<q, "reg">>
        OBVIOUS
    <2>2. x = y
        BY <1>4, <1>6, <2>1
    <2>. QED
        BY <2>1, <2>2
<1>8. \A v, w \in k.writes : v = w
    <2>. SUFFICES ASSUME NEW v \in k.writes, NEW w \in k.writes PROVE v = w
        OBVIOUS
    <2>1. PICK x, y : x = <<v, "write">> /\ y = <<w, "write">>
        OBVIOUS
    <2>2. x = y
        BY <1>4, <1>6, <2>1
    <2>. QED
        BY <2>1, <2>2
<1>9. ASSUME NEW r \in k.regs, NEW w \in k.writes PROVE FALSE
    <2>1. PICK x, y : x = <<r, "reg">> /\ y = <<w, "write">>
        OBVIOUS
    <2>2. x = y
        BY <1>4, <1>6, <2>1
    <2>. QED
        BY <2>1, <2>2
<1>10. ASSUME NEW i \in DOMAIN k.main, k.main[i].kind = "done"
       PROVE  k.regs = {} /\ k.writes = {} /\ Posting(k.main[i].tag.file, d)
    <2>1. PICK y : y = <<i, "block">>
        OBVIOUS
    <2>2. k.main[i].tag.file \in File /\ y \in Has(k, k.main[i].tag.file)
        BY <1>4, <1>10, <2>1
    <2>3. ASSUME NEW r \in k.regs PROVE FALSE
        <3>1. PICK x : x = <<r, "reg">>
            OBVIOUS
        <3>2. x = y
            BY <1>4, <1>6, <2>2, <3>1
        <3>. QED
            BY <2>1, <3>1, <3>2
    <2>4. ASSUME NEW w \in k.writes PROVE FALSE
        <3>1. PICK x : x = <<w, "write">>
            OBVIOUS
        <3>2. x = y
            BY <1>4, <1>6, <2>2, <3>1
        <3>. QED
            BY <2>1, <3>1, <3>2
    <2>5. Posting(k.main[i].tag.file, d)
        BY <1>5, <2>2
    <2>. QED
        BY <2>3, <2>4, <2>5
<1>. QED
    BY <1>4, <1>5, <1>7, <1>8, <1>9, <1>10 DEF R!InOrder

\* KInv of the next state, from what holds of the one device.
LEMMA KInvNow ==
    ASSUME NEW d \in Device, \A e \in Device : e = d,
           ~crowded' => /\ Sole(d)' /\ PostedListed'
                        /\ Proper(client'[d], in'[d], data')
    PROVE  KInv'
    BY DEF KInv

\* A step of a program keeps what is proper.
LEMMA ProperStep ==
    ASSUME NEW k, NEW s, NEW tree, Proper(k, s, tree), NEW k2, R!GoesOn(k, s, k2),
           R!Neat(k2, tree, EndsIn(tree)), \A w \in k2.writes : w \in k.writes \/ Adding(w, tree)
    PROVE  Proper(k2, s, tree)
    BY DEF Proper, R!GoesOn

\* A step of the program of d that tells the user nothing.
LEMMA QuietStep ==
    ASSUME NEW d \in Device, \A e \in Device : e = d, KInv,
           client \in [Device -> R!ClientState], NEW k, client' = [client EXCEPT ![d] = k],
           UNCHANGED <<data, in, outcome, crowded>>,
           ~crowded => R!GoesOn(client[d], in[d], k) /\ R!Neat(k, data, EndsIn(data)),
           \A w \in k.writes : w \in client[d].writes \/ Adding(w, data)
    PROVE  KInv'
<1>1. client'[d] = k
    OBVIOUS
<1>2. ASSUME ~crowded
      PROVE  Sole(d) /\ PostedListed /\ Proper(k, in[d], data)
    <2>1. Sole(d) /\ PostedListed /\ Proper(client[d], in[d], data)
        BY <1>2 DEF KInv
    <2>. QED
        BY <1>2, <2>1, ProperStep
<1>3. ASSUME ~crowded
      PROVE  Sole(d)' /\ PostedListed'
    BY <1>2, <1>3 DEF Sole, Posting, PostedListed, ListedIn
<1>. QED
    BY <1>1, <1>2, <1>3 DEF KInv

LEMMA TapPostKept ==
    ASSUME IInv, KInv, \A d, e \in Device : d = e, NEW d \in Device, TapPost(d)
    PROVE  KInv'
<1>1. PICK f \in File : outcome' = [outcome EXCEPT ![f] = [device |-> d, is |-> "posting"]]
    BY DEF TapPost
<1>2. UNCHANGED <<client, in, data>> /\ DOMAIN outcome = File
    BY DEF TapPost, database, IInv, AppOK
<1>3. ASSUME ~crowded'
      PROVE  ~crowded /\ \A g \in File : ~Posting(g, d)
    BY <1>3 DEF TapPost, UnderWay, Posting
<1>4. \A g \in File : g # f => outcome'[g] = outcome[g]
    BY <1>1, <1>2
<1>5. outcome'[f].is = "posting"
    BY <1>1, <1>2
<1>6. ASSUME ~crowded'
      PROVE  Sole(d)' /\ PostedListed'
    <2>1. \A g \in File : Posting(g, d)' => g = f
        BY <1>3, <1>4, <1>6 DEF Posting
    <2>2. Sole(d)'
        BY <2>1 DEF Sole
    <2>3. PostedListed
        BY <1>3, <1>6 DEF KInv
    <2>4. PostedListed'
        BY <1>2, <1>4, <1>5, <2>3 DEF PostedListed, ListedIn
    <2>. QED
        BY <2>2, <2>4
<1>7. ASSUME ~crowded' PROVE Proper(client[d], in[d], data)
    BY <1>3, <1>7 DEF KInv
<1>. QED
    BY <1>2, <1>6, <1>7 DEF KInv

LEMMA StayKeptOn ==
    ASSUME KInv, UNCHANGED <<client, in, data, outcome, crowded>>
    PROVE  KInv'
    BY DEF KInv, Sole, Posting, PostedListed, ListedIn

\* What a device holds.
LEMMA Device1 ==
    ASSUME IInv, NEW d \in Device
    PROVE  /\ client[d] \in R!ClientState /\ in[d] \in Seq(R!Message)
           /\ client \in [Device -> R!ClientState]
           /\ R!Sound(client[d], in[d])
    BY Assumptions, R!Local DEF IInv, R!Inv, R!TypeOK

LEMMA StorageEndsKept ==
    ASSUME IInv, KInv, \A d, e \in Device : d = e, NEW d \in Device, StorageEnds(d)
    PROVE  KInv'
<1>1. PICK tag :
        /\ \E u \in uploads, ok \in BOOLEAN :
                tag = [op |-> "uploaded", file |-> u.file, ok |-> ok]
        /\ client' = [client EXCEPT ![d] = Dispatch(@, tag)]
    BY DEF StorageEnds
<1>2. tag \in Tags /\ tag.op = "uploaded"
    BY <1>1 DEF IInv, AppOK, Upload, Uploaded, Tags
<1>3. <<tag, TRUE>> \in EndsIn(data)
    BY <1>2 DEF EndsIn
<1>4. PICK c, k : c = client[d] /\ k = R!Block(c, tag)
    OBVIOUS
<1>5. c \in R!ClientState /\ in[d] \in Seq(R!Message) /\ client \in [Device -> R!ClientState]
    BY <1>4, Device1
<1>6. client' = [client EXCEPT ![d] = k]
    BY <1>1, <1>4 DEF Dispatch, R!Block
<1>7. R!Alike(c, k) /\ k.writes = c.writes /\ k.held = c.held
    BY <1>4, <1>5 DEF R!Alike, R!Block, R!ClientState
<1>8. R!GoesOn(c, in[d], k)
    BY <1>5, <1>7, Assumptions, R!AlikeGoes
<1>9. ASSUME ~crowded PROVE R!Neat(k, data, EndsIn(data))
    <2>1. R!Neat(c, data, EndsIn(data))
        BY <1>4, <1>9 DEF KInv, Proper
    <2>2. PICK tree, ends : tree = data /\ ends = EndsIn(data)
        OBVIOUS
    <2>. QED
        BY <1>2, <1>3, <1>4, <1>5, <2>1, <2>2, Assumptions, R!NeatBlock
<1>10. \A e \in Device : e = d
    OBVIOUS
<1>11. UNCHANGED <<data, in, outcome, crowded>>
    BY DEF StorageEnds
<1>. QED
    BY <1>4, <1>5, <1>6, <1>7, <1>8, <1>9, <1>10, <1>11, QuietStep

\* A post is said to be posted when its write has been accepted.
LEMMA RunDoneTells ==
    ASSUME NEW d \in Device, RunDone(d), NEW e, e = Head(client[d].main)
    PROVE  \E what \in Told4 :
             /\ outcome' = Told(e.tag.file, what)
             /\ what = "posted" => e.tag.op = "posted" /\ e.ok
<1>1. CASE e.tag.op = "posted"
    <2>1. outcome' = Told(e.tag.file, IF e.ok THEN "posted" ELSE "failed")
        BY <1>1 DEF RunDone
    <2>. QED
        BY <1>1, <2>1 DEF Told4
<1>2. CASE e.tag.op # "posted"
    <2>1. outcome' \in {Told(e.tag.file, "posting"), Told(e.tag.file, "failed")}
        BY <1>2 DEF RunDone
    <2>. QED
        BY <2>1 DEF Told4
<1>. QED
    BY <1>1, <1>2

\* What is told of a post that is under way.
LEMMA TellsOne ==
    ASSUME IInv, NEW d \in Device, Sole(d), PostedListed, NEW f \in File, Posting(f, d),
           NEW what \in Told4, outcome' = Told(f, what), data' = data,
           what = "posted" => ListedIn(data, f) # {}
    PROVE  Sole(d)' /\ PostedListed'
<1>1. /\ \A g \in File : g # f => outcome'[g] = outcome[g]
      /\ outcome'[f].is = what
    <2>1. outcome' = [outcome EXCEPT ![f] = [outcome[f] EXCEPT !.is = what]]
        BY DEF Told
    <2>2. outcome[f] \in [device : Device \cup {NoName}, is : Told4] /\ DOMAIN outcome = File
        BY DEF IInv, AppOK
    <2>3. \A g \in File : outcome'[g] = IF g = f THEN [outcome[f] EXCEPT !.is = what] ELSE outcome[g]
        BY <2>1, <2>2
    <2>. QED
        BY <2>2, <2>3
<1>2. \A g \in File : Posting(g, d)' => Posting(g, d)
    BY <1>1 DEF Posting
<1>3. Sole(d)'
    BY <1>2 DEF Sole
<1>4. PostedListed'
    BY <1>1 DEF PostedListed, ListedIn
<1>. QED
    BY <1>3, <1>4

\* The record is asked for when nothing is pending.
LEMMA AskProper ==
    ASSUME NEW k \in R!ClientState, NEW s \in Seq(R!Message), NEW tree, Proper(k, s, tree),
           k.regs = {}, k.writes = {}, NEW n \in Name, NEW f \in File
    PROVE  Proper(insertPost(k, n, f), s, tree)
<1>1. PICK path, ask, k2, ends :
        /\ path = User(n) /\ ask = [op |-> "insertPost", user |-> n, file |-> f]
        /\ k2 = insertPost(k, n, f) /\ ends = EndsIn(tree)
    OBVIOUS
<1>2. path \in Records /\ ask \in Tags
    BY <1>1 DEF Records, Asking, Tags
<1>3. k2 = R!ObservedOnce(k, path, ask)
    BY <1>1, SameObserve DEF insertPost, Ask, R!ObservedOnce
<1>4. R!Exact(k, tree)
    BY DEF Proper, R!Hides, R!Covered, R!Exact
<1>5. R!Neat(k2, tree, ends)
    BY <1>1, <1>2, <1>3, <1>4, Assumptions, R!NeatAsk DEF Proper
<1>6. R!GoesOn(k, s, k2) /\ k2.writes = k.writes
    <2>1. PICK single \in BOOLEAN : k2 = R!Observe(k, path, single, ask)
        BY <1>3 DEF R!ObservedOnce
    <2>2. R!GoesOn(k, s, R!Observe(k, path, single, ask))
        BY <1>2, Assumptions, R!ObserveGoes
    <2>3. k2.writes = k.writes
        BY <1>2, <2>1, Assumptions, R!ObserveFields
    <2>. QED
        BY <2>1, <2>2, <2>3
<1>. QED
    BY <1>1, <1>5, <1>6, ProperStep

LEMMA RunDoneKept ==
    ASSUME IInv, OInv, KInv, \A d, e \in Device : d = e, NEW d \in Device, RunDone(d)
    PROVE  KInv'
<1>1. PICK c, s, k, e, f, ends :
        /\ c = client[d] /\ s = in[d] /\ k = DB!TakeDone(c)
        /\ e = Head(c.main) /\ f = e.tag.file /\ ends = EndsIn(data)
    OBVIOUS
<1>2. /\ UNCHANGED <<data, in, crowded>> /\ c.main # <<>> /\ e.kind = "done"
      /\ c \in R!ClientState /\ s \in Seq(R!Message) /\ client \in [Device -> R!ClientState]
    BY <1>1, Device1 DEF RunDone
<1>3. 1 \in DOMAIN c.main /\ c.main[1] = e
    <2>1. c.main \in Seq(R!Event)
        BY <1>2 DEF R!ClientState
    <2>. QED
        BY <1>1, <1>2, <2>1
<1>4. SUFFICES ASSUME ~crowded'
               PROVE  Sole(d)' /\ PostedListed' /\ Proper(client'[d], s, data)
    BY <1>1, <1>2, KInvNow
<1>5. Sole(d) /\ PostedListed /\ Proper(c, s, data)
    BY <1>1, <1>2, <1>4 DEF KInv
<1>6. c.regs = {} /\ c.writes = {} /\ Posting(f, d)
    BY <1>1, <1>2, <1>3, <1>5, OneAtATime
<1>7. f \in File
    <2>1. PICK S : S = Stored
        OBVIOUS
    <2>2. S \subseteq File /\ R!Kept(c, Vals(S), G(S)[d])
        BY <1>1, <2>1, At DEF Stored, R!Steady
    <2>. QED
        BY <1>1, <1>2, <1>3, <2>2, Bearing
<1>8. k = R!TakeDone(c)
    BY <1>1, SameTake
<1>9. R!Neat(k, data, ends) /\ <<e.tag, e.ok>> \in ends
    <2>1. PICK tree : tree = data
        OBVIOUS
    <2>2. R!Neat(c, tree, ends)
        BY <1>1, <1>5, <2>1 DEF Proper
    <2>. QED
        BY <1>1, <1>2, <1>8, <2>1, <2>2, Assumptions, R!NeatTakeDone
<1>10. /\ k \in R!ClientState /\ R!GoesOn(c, s, k)
       /\ k.regs = c.regs /\ k.writes = c.writes
    BY <1>2, <1>8, Assumptions, R!TakeDoneType, R!TakeGoes, R!TakeDoneAlike DEF R!Alike
<1>11. Proper(k, s, data)
    BY <1>1, <1>5, <1>9, <1>10, ProperStep
<1>12. Sole(d)' /\ PostedListed'
    <2>1. PICK what \in Told4 : /\ outcome' = Told(f, what)
                                /\ what = "posted" => e.tag.op = "posted" /\ e.ok
        BY <1>1, RunDoneTells
    <2>2. e.tag.op = "posted" /\ e.ok => ListedIn(data, f) # {}
        BY <1>1, <1>9 DEF EndsIn
    <2>. QED
        BY <1>2, <1>5, <1>6, <1>7, <2>1, <2>2, TellsOne
<1>13. CASE client' = [client EXCEPT ![d] = k]
    <2>1. client'[d] = k
        BY <1>2, <1>13
    <2>. QED
        BY <1>11, <1>12, <2>1
<1>14. CASE /\ username[d] # NoName
            /\ client' = [client EXCEPT ![d] = insertPost(k, username[d], f)]
    <2>1. PICK n, tree : n = username[d] /\ tree = data
        OBVIOUS
    <2>2. n \in Name
        BY <1>14, <2>1 DEF IInv, AppOK
    <2>3. Proper(insertPost(k, n, f), s, tree)
        BY <1>2, <1>6, <1>7, <1>10, <1>11, <2>1, <2>2, AskProper
    <2>4. client'[d] = insertPost(k, n, f)
        BY <1>2, <1>14, <2>1
    <2>. QED
        BY <1>12, <2>1, <2>3, <2>4
<1>. QED
    BY <1>1, <1>13, <1>14, RunDoneCases

\* The record that is written back has all that the server's has, and the post.
LEMMA WithPostAdds ==
    ASSUME NEW tree, NEW n \in Name, NEW f \in File, User(n) \subseteq Leaf,
           <<n, "posts">> \in Leaf, NEW view, \A l \in User(n) : view[l] = tree[l],
           \A l \in Leaf : tree[l] \in List,
           NEW w, w.put = WithPost(view, n, f), w.tag.file = f
    PROVE  Adding(w, tree)
<1>1. DOMAIN w.put = User(n)
    BY DEF WithPost
<1>2. ASSUME NEW l \in User(n)
      PROVE  w.put[l] = IF l[2] = "posts" THEN Append(tree[l], f) ELSE tree[l]
    BY DEF WithPost
<1>3. ASSUME NEW v \in List
      PROVE  Files(v) \subseteq Files(Append(v, f)) /\ f \in Files(Append(v, f))
    <2>1. PICK v2 : v2 = Append(v, f)
        OBVIOUS
    <2>2. /\ DOMAIN v2 = 1..(Len(v) + 1) /\ v2[Len(v) + 1] = f
          /\ \A i \in DOMAIN v : i \in DOMAIN v2 /\ v2[i] = v[i]
          /\ Len(v) \in Nat
        <3>1. f \in Entry \cup File /\ v \in Seq(Entry \cup File)
            BY DEF List
        <3>. QED
            BY <2>1, <3>1
    <2>3. Len(v) + 1 \in DOMAIN v2
        BY <2>2
    <2>. QED
        BY <2>1, <2>2, <2>3 DEF Files
<1>4. ASSUME NEW l \in User(n)
      PROVE  /\ Files(tree[l]) \subseteq Files(w.put[l])
             /\ l[2] = "posts" => f \in Files(w.put[l])
    <2>1. tree[l] \in List
        OBVIOUS
    <2>2. PICK v \in List : v = tree[l]
        BY <2>1
    <2>. QED
        BY <1>2, <1>3, <2>2
<1>5. PICK l : l = <<n, "posts">>
    OBVIOUS
<1>6. l \in User(n) /\ l[2] = "posts"
    BY <1>5 DEF User
<1>. QED
    BY <1>1, <1>4, <1>6 DEF Adding

\* A callback is taken, or begins.
LEMMA TakenGoesOn ==
    ASSUME NEW c \in R!ClientState, NEW s \in Seq(R!Message), NEW r
    PROVE  R!GoesOn(c, s, R!TakeValue(c, r)) /\ R!TakeValue(c, r).writes = c.writes
    BY Assumptions, R!TakeGoes, R!TakeValueAlike

LEMMA BeginGoesOn ==
    ASSUME NEW c \in R!ClientState, NEW s \in Seq(R!Message), NEW r \in R!Ready(c)
    PROVE  R!GoesOn(c, s, R!Begin(c, r))
    BY Assumptions, R!BeginGoes

LEMMA TakenNeat ==
    ASSUME NEW c \in R!ClientState, NEW tree, NEW ends, R!Neat(c, tree, ends),
           NEW r \in R!Ready(c)
    PROVE  R!Neat(R!TakeValue(c, r), tree, ends)
    BY Assumptions, R!NeatTakeValue

LEMMA BeginNeat ==
    ASSUME NEW c \in R!ClientState, NEW tree, NEW ends, R!Neat(c, tree, ends),
           NEW r \in R!Ready(c), r.single, r \in c.regs, NEW view, view = Head(c.main).view
    PROVE  /\ R!Neat(R!Begin(c, r), tree, ends)
           /\ \A l \in r.path : view[l] = tree[l]
           /\ R!Begin(c, r).regs = c.regs \ {r}
           /\ R!Begin(c, r).writes = c.writes
<1>1. /\ R!Neat(R!Begin(c, r), tree, ends)
      /\ r \in c.regs => \A l \in r.path : Head(c.main).view[l] = tree[l]
      /\ R!Begin(c, r).regs = IF r.single THEN c.regs \ {r} ELSE c.regs
      /\ R!Begin(c, r).writes = c.writes
    BY Assumptions, R!NeatBegin
<1>. QED
    BY <1>1

LEMMA RunValueKept ==
    ASSUME IInv, OInv, KInv, \A d, e \in Device : d = e,
           \A n \in Name : <<n, "posts">> \in Leaf,
           NEW d \in Device, RunValue(d)
    PROVE  KInv'
<1>1. PICK c, s, view, tree, ends :
        /\ c = client[d] /\ s = in[d] /\ view = Head(c.main).view
        /\ tree = data /\ ends = EndsIn(tree)
    OBVIOUS
<1>2. /\ UNCHANGED <<data, in, crowded>>
      /\ c \in R!ClientState /\ s \in Seq(R!Message) /\ client \in [Device -> R!ClientState]
    BY <1>1, Device1 DEF RunValue
<1>3. PICK r \in DB!Ready(c) :
        IF DB!Stale(c, r)
        THEN /\ client' = [client EXCEPT ![d] = DB!TakeValue(c, r)]
             /\ UNCHANGED outcome
        ELSE IF Exists(view, r.tag.user)
        THEN /\ client' = [client EXCEPT ![d] = PostRead(DB!Begin(c, r), view, r.tag)]
             /\ UNCHANGED outcome
        ELSE /\ client' = [client EXCEPT ![d] = DB!Begin(c, r)]
             /\ outcome' = Told(r.tag.file, "failed")
    BY <1>1 DEF RunValue
<1>4. PICK k, k1 : k = R!TakeValue(c, r) /\ k1 = R!Begin(c, r)
    OBVIOUS
<1>5. /\ r \in R!Ready(c) /\ k = DB!TakeValue(c, r) /\ k1 = DB!Begin(c, r)
    BY <1>4, SameTake
<1>6. PICK S : S = Stored
    OBVIOUS
<1>7. /\ R!Steady(k1, s, Vals(S), G(S)[d]) /\ r \in G(S)[d].regs
      /\ \A l \in r.path : l \in Leaf /\ view[l] \in Vals(S)[l]
    <2>1. R!Steady(c, s, Vals(S), G(S)[d])
        BY <1>1, <1>6, At
    <2>. QED
        BY <1>1, <1>2, <1>5, <2>1, ValueStep
<1>8. PICK i \in Nat, n \in Name, f \in S :
        r = [id |-> i, path |-> User(n), single |-> TRUE,
             tag |-> [op |-> "insertPost", user |-> n, file |-> f]]
    BY <1>7, ClosureFields DEF RegsOf
<1>9. f \in File /\ r.path = User(n) /\ r.tag.user = n /\ r.tag.file = f /\ r.single
    BY <1>6, <1>8 DEF Stored
<1>10. SUFFICES ASSUME ~crowded'
                PROVE  Sole(d)' /\ PostedListed' /\ Proper(client'[d], s, tree)
    BY <1>1, <1>2, KInvNow
<1>11. Sole(d) /\ PostedListed /\ Proper(c, s, tree)
    BY <1>1, <1>2, <1>10 DEF KInv
<1>12. ASSUME UNCHANGED outcome
       PROVE  Sole(d)' /\ PostedListed'
    BY <1>2, <1>11, <1>12 DEF Sole, Posting, PostedListed, ListedIn
<1>13. R!Neat(c, tree, ends)
    BY <1>1, <1>11 DEF Proper
<1>14. CASE DB!Stale(c, r)
    <2>1. client'[d] = k /\ UNCHANGED outcome
        BY <1>2, <1>3, <1>5, <1>14
    <2>2. R!Neat(k, tree, ends) /\ R!GoesOn(c, s, k) /\ k.writes = c.writes
        BY <1>2, <1>4, <1>5, <1>13, TakenNeat, TakenGoesOn
    <2>3. Proper(k, s, tree)
        BY <1>1, <1>11, <2>2, ProperStep
    <2>. QED
        BY <1>12, <2>1, <2>3
<1>15. ASSUME ~DB!Stale(c, r)
       PROVE  /\ k1 \in R!ClientState /\ R!Sound(k1, s)
              /\ k1.regs = {} /\ k1.writes = {} /\ c.writes = {} /\ Posting(f, d)
              /\ \A l \in User(n) : l \in Leaf /\ view[l] = tree[l]
              /\ R!Neat(k1, tree, ends) /\ R!GoesOn(c, s, k1)
    <2>1. r \in c.regs
        BY <1>9, <1>15 DEF DB!Stale
    <2>2. c.regs = {r} /\ c.writes = {} /\ Posting(f, d)
        <3>1. /\ R!InOrder(c) /\ \A p, q \in c.regs : p = q
              /\ \A q \in c.regs : Posting(q.tag.file, d)
            BY <1>1, <1>11, OneAtATime
        <3>. QED
            BY <1>9, <2>1, <3>1 DEF R!InOrder
    <2>3. /\ R!Neat(k1, tree, ends)
          /\ \A l \in r.path : view[l] = tree[l]
          /\ k1.regs = c.regs \ {r} /\ k1.writes = c.writes
        <3>1. /\ c \in R!ClientState /\ R!Neat(c, tree, ends) /\ r \in R!Ready(c)
              /\ r.single /\ r \in c.regs /\ view = Head(c.main).view
            BY <1>1, <1>2, <1>5, <1>9, <1>13, <2>1
        <3>2. /\ R!Neat(R!Begin(c, r), tree, ends)
              /\ \A l \in r.path : view[l] = tree[l]
              /\ R!Begin(c, r).regs = c.regs \ {r}
              /\ R!Begin(c, r).writes = c.writes
            BY <3>1, BeginNeat
        <3>. QED
            BY <1>4, <3>2
    <2>4. R!GoesOn(c, s, k1)
        BY <1>2, <1>4, <1>5, BeginGoesOn
    <2>5. k1 \in R!ClientState /\ R!Sound(k1, s)
        BY <1>7 DEF R!Steady
    <2>. QED
        BY <1>7, <1>9, <2>2, <2>3, <2>4, <2>5
<1>16. ASSUME ~DB!Stale(c, r)
       PROVE  Proper(k1, s, tree)
    BY <1>1, <1>11, <1>15, <1>16, ProperStep
<1>17. CASE ~DB!Stale(c, r) /\ ~Exists(view, r.tag.user)
    <2>1. client'[d] = k1 /\ outcome' = Told(f, "failed")
        BY <1>2, <1>3, <1>5, <1>9, <1>17
    <2>2. "failed" \in Told4 /\ "failed" # "posted"
        BY DEF Told4
    <2>3. Sole(d)' /\ PostedListed'
        BY <1>2, <1>9, <1>11, <1>15, <1>17, <2>1, <2>2, TellsOne
    <2>. QED
        BY <1>16, <1>17, <2>1, <2>3
<1>18. CASE ~DB!Stale(c, r) /\ Exists(view, r.tag.user)
    <2>1. PICK put, tag, k2 :
            /\ put = WithPost(view, n, f) /\ tag = [r.tag EXCEPT !.op = "posted"]
            /\ k2 = R!SetValue(k1, put, tag)
        OBVIOUS
    <2>2. client'[d] = k2 /\ UNCHANGED outcome
        BY <1>2, <1>3, <1>5, <1>9, <1>18, <2>1, SameSetValue DEF PostRead
    <2>3. tag = [op |-> "posted", user |-> n, file |-> f]
        BY <1>8, <2>1
    <2>4. tag \in Tags /\ tag.file = f
        BY <1>9, <2>3 DEF Posted, Tags
    <2>5. put \in R!Put
        BY <1>7, <1>9, <2>1, WithPostKept
    <2>6. /\ R!Neat(k2, tree, ends)
          /\ \E w : w.put = put /\ w.tag = tag /\ k2.writes = k1.writes \cup {w}
        BY <1>15, <1>18, <2>1, <2>4, <2>5, Assumptions, R!NeatSetValue
    <2>7. PICK w : w.put = put /\ w.tag = tag /\ k2.writes = {w}
        BY <1>15, <1>18, <2>6
    <2>8. Adding(w, tree)
        <3>1. \A l \in Leaf : tree[l] \in List
            BY <1>1, TreeKept
        <3>2. w.put = WithPost(view, n, f) /\ w.tag.file = f
            BY <2>1, <2>4, <2>7
        <3>3. User(n) \subseteq Leaf /\ \A l \in User(n) : view[l] = tree[l]
            BY <1>15, <1>18
        <3>. QED
            BY <1>9, <3>1, <3>2, <3>3, WithPostAdds
    <2>9. R!GoesOn(k1, s, k2)
        BY <1>2, <1>15, <1>18, <2>1, <2>4, <2>5, Assumptions, R!SetValueGoes
    <2>10. Proper(k2, s, tree)
        BY <1>1, <1>16, <1>18, <2>6, <2>7, <2>8, <2>9, ProperStep
    <2>. QED
        BY <1>12, <2>2, <2>10
<1>. QED
    BY <1>14, <1>17, <1>18

\* The server's tree stays as it is or takes one of these writes.
Takes(writes, tree, tree2) ==
    \/ tree2 = tree
    \/ \E w \in writes : tree2 = [l \in Leaf |-> IF l \in DOMAIN w.put THEN w.put[l] ELSE tree[l]]

\* The server's lists lose nothing, and a pending write still has all that is in them.
LEMMA AppliedAdds ==
    ASSUME NEW writes, \A v, w \in writes : v = w,
           NEW tree, NEW tree2, \A w \in writes : Adding(w, tree) /\ DOMAIN w.put \subseteq Leaf,
           Takes(writes, tree, tree2)
    PROVE  /\ \A f : ListedIn(tree, f) \subseteq ListedIn(tree2, f)
           /\ EndsIn(tree) \subseteq EndsIn(tree2)
           /\ \A w \in writes : Adding(w, tree2)
<1>1. \A l \in Leaf : Files(tree[l]) \subseteq Files(tree2[l])
    BY DEF Adding, Takes
<1>2. \A f : ListedIn(tree, f) \subseteq ListedIn(tree2, f)
    BY <1>1 DEF ListedIn
<1>3. EndsIn(tree) \subseteq EndsIn(tree2)
    BY <1>2 DEF EndsIn
<1>4. ASSUME NEW w \in writes PROVE Adding(w, tree2)
    <2>1. CASE tree2 = tree
        BY <2>1
    <2>2. CASE tree2 # tree
        <3>1. tree2 = [l \in Leaf |-> IF l \in DOMAIN w.put THEN w.put[l] ELSE tree[l]]
            BY <2>2 DEF Takes
        <3>2. \A l \in DOMAIN w.put : tree2[l] = w.put[l]
            BY <3>1
        <3>. QED
            BY <3>2 DEF Adding
    <2>. QED
        BY <2>1, <2>2
<1>. QED
    BY <1>2, <1>3, <1>4

\* The answer of a write that the server has accepted finds its post listed.
LEMMA AnswerListed ==
    ASSUME NEW k, NEW s, NEW tree, Proper(k, s, tree), \A v, w \in k.writes : v = w,
           NEW w \in k.writes, w.id \in Nat, w.tag \in Tags, DOMAIN w.put \subseteq Leaf,
           NEW ack \in R!Ack, R!Answers(k, s, ack), w.id = ack.id
    PROVE  <<w.tag, ack.ok>> \in EndsIn(tree)
<1>1. ack.ok \in BOOLEAN
    BY DEF R!Ack
<1>2. ASSUME ack.ok PROVE ListedIn(tree, w.tag.file) # {}
    <2>1. PICK l \in DOMAIN w.put : l[2] = "posts" /\ w.tag.file \in Files(w.put[l])
        BY DEF Proper, Adding
    <2>2. w \in R!Top(k.writes, l)
        BY DEF R!Top
    <2>3. PICK n \in Nat : R!AnswerAt(k, s, n, ack)
        BY DEF R!Answers
    <2>4. tree[l] = w.put[l]
        BY <1>2, <2>2, <2>3 DEF Proper, R!Fitting
    <2>. QED
        BY <2>1, <2>4 DEF ListedIn
<1>. QED
    BY <1>1, <1>2 DEF EndsIn

\* The answers under way to a client's writes are among the ends.
AnswersIn(k, s, ends) ==
    \A ack \in R!Ack : R!Answers(k, s, ack) =>
        \A w \in k.writes : w.id = ack.id => <<w.tag, ack.ok>> \in ends

\* What the client takes in is in step with what the server holds before and after.
InStep(k, s, k2, tree, ends, tree2, ends2) ==
    /\ k \in R!ClientState /\ s \in Seq(R!Message) /\ R!Comes(k, s, k2)
    /\ R!Neat(k, tree, ends) /\ R!InOrder(k)
    /\ k.regs = {} \/ tree2 = tree
    /\ ends \subseteq ends2
    /\ k2.writes = {} => R!Exact(k2, tree2)
    /\ AnswersIn(k, s, ends2)

LEMMA ComesNeat ==
    ASSUME NEW k, NEW s, NEW k2, NEW tree, NEW ends, NEW tree2, NEW ends2,
           InStep(k, s, k2, tree, ends, tree2, ends2)
    PROVE  R!Neat(k2, tree2, ends2) /\ k2.writes \subseteq k.writes
    BY Assumptions, R!NeatComes DEF InStep, AnswersIn

\* The step of the network, in what the device has before and after it.
LEMMA WireProper ==
    ASSUME IInv, OInv, \A d, e \in Device : d = e, NEW d \in Device,
           R!Network(d) \/ R!Disconnect(d), Sole(d),
           NEW c, NEW s, NEW tree, c = client[d], s = in[d], tree = data, Proper(c, s, tree),
           NEW k, NEW s2, NEW tree2, k = client'[d], s2 = in'[d], tree2 = data'
    PROVE  Proper(k, s2, tree2) /\ \A f : ListedIn(tree, f) \subseteq ListedIn(tree2, f)
<1>1. R!Inv /\ c \in R!ClientState /\ s \in Seq(R!Message) /\ R!Sound(c, s)
    BY Device1 DEF IInv
<1>2. R!InOrder(c)
    BY OneAtATime
<1>3. R!Shows(c, s, tree) /\ R!Prompted(c)
    BY <1>2, Assumptions, R!InOrderShows DEF Proper
<1>4. R!Lonely(d)
    BY <1>1 DEF R!Lonely, R!Inv, R!TypeOK, Proper
<1>5. R!StaysLonely(d)
    BY <1>3, <1>4, Assumptions, R!NetworkLonely
<1>6. R!Solo(k, s2, tree2) /\ R!Hides(k) /\ R!Fitting(k, s2, tree2)
    BY <1>3, <1>5 DEF R!StaysLonely, Proper
<1>7. \A w \in c.writes : w.id \in Nat /\ w.tag \in Tags /\ DOMAIN w.put \subseteq Leaf
    BY <1>1 DEF R!ClientState, R!Write, R!Put
<1>8. \/ tree2 = tree
      \/ /\ c.regs = {}
         /\ \E w \in c.writes : tree2 = [l \in Leaf |-> IF l \in DOMAIN w.put
                                                     THEN w.put[l] ELSE tree[l]]
    BY <1>1, <1>2, Assumptions, R!NetworkWrites DEF R!InOrder
<1>9. \A v, w \in c.writes : v = w
    BY <1>2 DEF R!InOrder
<1>10. \A w \in c.writes : Adding(w, tree)
    BY DEF Proper
<1>11. /\ \A f : ListedIn(tree, f) \subseteq ListedIn(tree2, f)
       /\ EndsIn(tree) \subseteq EndsIn(tree2)
       /\ \A w \in c.writes : Adding(w, tree2)
    <2>1. PICK writes : writes = c.writes
        OBVIOUS
    <2>2. /\ \A v, w \in writes : v = w
          /\ \A w \in writes : Adding(w, tree) /\ DOMAIN w.put \subseteq Leaf
        BY <1>7, <1>9, <1>10, <2>1
    <2>3. Takes(writes, tree, tree2)
        BY <1>8, <2>1 DEF Takes
    <2>4. /\ \A f : ListedIn(tree, f) \subseteq ListedIn(tree2, f)
          /\ EndsIn(tree) \subseteq EndsIn(tree2)
          /\ \A w \in writes : Adding(w, tree2)
        BY <2>2, <2>3, AppliedAdds
    <2>. QED
        BY <2>1, <2>4
<1>12. AnswersIn(c, s, EndsIn(tree2))
    BY <1>7, <1>9, <1>11, AnswerListed DEF AnswersIn
<1>13. R!Comes(c, s, k)
    BY <1>1, Assumptions, R!NetworkComes
<1>14. k.writes = {} => R!Exact(k, tree2)
    BY <1>6 DEF R!Solo, R!Agrees, R!Free, R!Exact
<1>15. R!Neat(k, tree2, EndsIn(tree2)) /\ k.writes \subseteq c.writes
    <2>1. PICK ends, ends2 : ends = EndsIn(tree) /\ ends2 = EndsIn(tree2)
        OBVIOUS
    <2>2. /\ R!Neat(c, tree, ends) /\ ends \subseteq ends2
          /\ c.regs = {} \/ tree2 = tree
          /\ AnswersIn(c, s, ends2)
        BY <1>8, <1>11, <1>12, <2>1 DEF Proper
    <2>3. /\ c \in R!ClientState /\ s \in Seq(R!Message)
          /\ R!Comes(c, s, k) /\ R!InOrder(c)
          /\ k.writes = {} => R!Exact(k, tree2)
        BY <1>1, <1>2, <1>13, <1>14
    <2>4. InStep(c, s, k, tree, ends, tree2, ends2)
        BY <2>2, <2>3 DEF InStep
    <2>5. R!Neat(k, tree2, ends2) /\ k.writes \subseteq c.writes
        BY <2>4, ComesNeat
    <2>. QED
        BY <2>1, <2>5
<1>. QED
    BY <1>6, <1>11, <1>15 DEF Proper

LEMMA WireKept ==
    ASSUME IInv, OInv, KInv, \A d, e \in Device : d = e, NEW d \in Device,
           Network(d) \/ Disconnect(d)
    PROVE  KInv'
<1>1. R!Network(d) \/ R!Disconnect(d)
    BY SameNetwork, SameStart DEF Network, Disconnect
<1>2. PICK c, s, tree, k, s2, tree2 :
        /\ c = client[d] /\ s = in[d] /\ tree = data
        /\ k = client'[d] /\ s2 = in'[d] /\ tree2 = data'
    OBVIOUS
<1>3. UNCHANGED <<outcome, crowded>>
    BY DEF Network, Disconnect
<1>4. SUFFICES ASSUME ~crowded'
               PROVE  Sole(d)' /\ PostedListed' /\ Proper(k, s2, tree2)
    BY <1>2, KInvNow
<1>5. Sole(d) /\ PostedListed /\ Proper(c, s, tree)
    BY <1>2, <1>3, <1>4 DEF KInv
<1>6. Proper(k, s2, tree2) /\ \A f : ListedIn(tree, f) \subseteq ListedIn(tree2, f)
    BY <1>1, <1>2, <1>5, WireProper
<1>7. Sole(d)'
    BY <1>3, <1>5 DEF Sole, Posting
<1>8. PostedListed'
    BY <1>2, <1>3, <1>5, <1>6 DEF PostedListed
<1>. QED
    BY <1>6, <1>7, <1>8

LEMMA KInvStart == Init => KInv
<1>. SUFFICES ASSUME Init PROVE KInv
    OBVIOUS
<1>0. \A f \in File : outcome[f].is = "none"
    BY DEF Init
<1>. SUFFICES ASSUME NEW d \in Device
              PROVE  Sole(d) /\ Proper(client[d], in[d], data)
    BY <1>0 DEF KInv, PostedListed
<1>1. Sole(d)
    BY <1>0 DEF Sole, Posting
<1>2. PICK k, s, tree : k = client[d] /\ s = in[d] /\ tree = data
    OBVIOUS
<1>3. /\ k.writes = {} /\ k.held = {} /\ k.regs = {} /\ k.main = <<>>
      /\ \A l \in Leaf : k.cache[l] = Unknown
    BY <1>2 DEF Init, DB!Init, DB!ClientInit
<1>4. DOMAIN s = {} /\ R!AckIds(s) = {}
    BY <1>2 DEF Init, DB!Init, R!AckIds, R!AcksIn
<1>5. R!Ordered(k, s) /\ R!InTurn(k, s)
    BY <1>3, <1>4 DEF R!Ordered, R!InTurn, R!AnswerAt, R!PendingIds
<1>6. R!Agrees(k, s, tree) /\ R!Fitting(k, s, tree)
    BY <1>3, <1>4 DEF R!Agrees, R!Fitting, R!After, R!Top
<1>7. R!Neat(k, tree, EndsIn(tree))
    BY <1>3 DEF R!Neat
<1>. QED
    BY <1>1, <1>2, <1>3, <1>5, <1>6, <1>7 DEF Proper, R!Solo, R!Hides

LEMMA KInvNext ==
    ASSUME \A d, e \in Device : d = e, \A n \in Name : <<n, "posts">> \in Leaf
    PROVE  IInv /\ OInv /\ KInv /\ [Next]_vars => KInv'
<1>. SUFFICES ASSUME IInv, OInv, KInv, [Next]_vars PROVE KInv'
    OBVIOUS
<1>1. ASSUME NEW d \in Device,
             \/ TapPost(d) \/ SwitchAccount(d)
             \/ StorageEnds(d) \/ Runs(d)
             \/ Network(d) \/ Disconnect(d)
      PROVE  KInv'
    <2>1. CASE SwitchAccount(d)
        BY <2>1, StayKeptOn DEF SwitchAccount, database
    <2>2. CASE Runs(d)
        BY <2>2, RunValueKept, RunDoneKept DEF Runs
    <2>. QED
        BY <1>1, <2>1, <2>2, TapPostKept, StorageEndsKept, WireKept
<1>2. CASE UNCHANGED vars
    BY <1>2, StayKeptOn DEF vars, database
<1>. QED
    BY <1>1, <1>2 DEF Next

-----------------------------------------------------------------------------
(* The theorems. *)

\* What the app keeps is well typed, and the lists of posts name entries of the tree
\* and files only: what TypeOK of Posting says, for any devices, accounts and posts.
THEOREM Typed == Spec => []TypeOK
<1>1. IInv => TypeOK
    <2>. SUFFICES ASSUME IInv PROVE TypeOK
        OBVIOUS
    <2>1. ASSUME NEW l \in Leaf PROVE Files(data[l]) \subseteq Entry \cup File
        BY TreeKept DEF List, Files
    <2>. QED
        BY <2>1 DEF IInv, AppOK, Told4, TypeOK
<1>. QED
    BY <1>1, Inductive, PTL

\* insertPost is called only when the upload has ended well, so a video that a list names
\* is in Storage, whoever signs in meanwhile, whatever connection is lost and whatever
\* write is refused or sent again.
THEOREM ListedVideosAreStored == Spec => []ListedIsStored
<1>1. IInv => ListedIsStored
    <2>. SUFFICES ASSUME IInv, NEW f \in File, NEW l \in ListedAt(f)
                  PROVE  \E n \in Name : <<n, f>> \in stored
        BY DEF ListedIsStored
    <2>1. f \in Stored
        BY TreeKept DEF ListedAt
    <2>. QED
        BY <2>1 DEF Stored
<1>. QED
    BY <1>1, Inductive, PTL

\* At any moment a post is in one place - its upload, the block of that upload, the
\* registration that asks for the record, the write, or the block of its answer - and so
\* its write is issued once and to one account: a list names it once, and no other list
\* names it, whatever is refused, sent again or answered late, and whoever signs in.
THEOREM PostsAreListedOnce == Spec => []ListedOnce
<1>1. IInv /\ OInv => ListedOnce
    <2>. SUFFICES ASSUME OInv, NEW f \in File
                  PROVE  /\ Cardinality(ListedAt(f)) <= 1
                         /\ \A l \in ListedAt(f) :
                             Cardinality({i \in DOMAIN data[l] : data[l][i] = f}) = 1
        BY DEF ListedOnce
    <2>1. PICK W : Wrote(W) /\ R!Holding(Lists(W), G(Stored))
        BY DEF OInv
    <2>2. ASSUME NEW l \in ListedAt(f)
          PROVE  l \in Leaf /\ l[2] = "posts" /\ <<f, l[1]>> \in W
                 /\ f \in Files(data[l]) /\ Single(data[l], f)
        <3>1. data[l] \in Lists(W)[l] /\ l \in Leaf /\ l[2] = "posts" /\ f \in Files(data[l])
            BY <2>1 DEF R!Holding, ListedAt
        <3>. QED
            BY <3>1 DEF Lists
    <2>3. \A l, m \in ListedAt(f) : l = m
        <3>. SUFFICES ASSUME NEW l \in ListedAt(f), NEW m \in ListedAt(f) PROVE l = m
            OBVIOUS
        <3>1. PICK x, y : x = <<f, l[1]>> /\ y = <<f, m[1]>>
            OBVIOUS
        <3>2. x \in W /\ y \in W /\ x[1] = f /\ y[1] = f
            BY <2>2, <3>1
        <3>3. x = y
            BY <2>1, <3>2 DEF Wrote
        <3>4. l[1] = m[1]
            BY <3>1, <3>3
        <3>5. l \in Leaf /\ m \in Leaf /\ l[2] = "posts" /\ m[2] = "posts"
            BY <2>2
        <3>6. l \in Name \X Field /\ m \in Name \X Field
            BY <3>5, LeafAssumption
        <3>7. l = <<l[1], l[2]>> /\ m = <<m[1], m[2]>>
            BY <3>6
        <3>. QED
            BY <3>4, <3>5, <3>7
    <2>4. Cardinality(ListedAt(f)) <= 1
        <3>1. CASE ListedAt(f) = {}
            BY <3>1, FS_EmptySet
        <3>2. CASE ListedAt(f) # {}
            <4>1. PICK l \in ListedAt(f) : ListedAt(f) = {l}
                BY <2>3, <3>2
            <4>2. Cardinality({l}) = 1
                BY FS_Singleton
            <4>. QED
                BY <4>1, <4>2
        <3>. QED
            BY <3>1, <3>2
    <2>5. ASSUME NEW l \in ListedAt(f)
          PROVE  Cardinality({i \in DOMAIN data[l] : data[l][i] = f}) = 1
        <3>1. PICK i \in DOMAIN data[l] : data[l][i] = f
            BY <2>2 DEF Files
        <3>2. {j \in DOMAIN data[l] : data[l][j] = f} = {i}
            BY <2>2, <3>1 DEF Single
        <3>. QED
            BY <3>2, FS_Singleton
    <2>. QED
        BY <2>4, <2>5
<1>. QED
    BY <1>1, OnceInductive, PTL

\* With one device whose posts come one after the other, a post that its user has been
\* told of as posted is in a list, and stays in it: whatever the server refuses, whatever
\* is sent again after lost connections, and whoever signs in meanwhile.
THEOREM PostsStayListed ==
    ASSUME \A d, e \in Device : d = e, \A n \in Name : <<n, "posts">> \in Leaf
    PROVE  Spec => []PostsKept
<1>1. IInv /\ OInv /\ KInv /\ [Next]_vars => (IInv /\ OInv /\ KInv)'
    BY IInvNext, OInvNext, KInvNext
<1>2. Init => IInv /\ OInv /\ KInv
    BY IInvStart, OInvStart, KInvStart
<1>3. KInv => PostsKept
    <2>1. \A f : ListedAt(f) = ListedIn(data, f)
        BY DEF ListedAt, ListedIn
    <2>. QED
        BY <2>1 DEF KInv, PostsKept, PostedListed
<1>. QED
    BY <1>1, <1>2, <1>3, PTL DEF Spec
=============================================================================
