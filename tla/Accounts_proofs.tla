---------------------------- MODULE Accounts_proofs ----------------------------
(***************************************************************************)
(* Proofs about Accounts, for any devices, people and faults: the state is *)
(* well typed, nobody is taken to the tabs without an account, and the     *)
(* record of a user that nobody signs up as is left as it was.  What the   *)
(* database does with what is written comes from Provenance_proofs, taken  *)
(* for the records and the closures of this module.                        *)
(***************************************************************************)
EXTENDS Accounts, TLAPS

Kinds == {Initial[l] : l \in Leaf} \cup Emails

Getting == [op : {"getUsername"}, email : Email]
Inserting == [op : {"insertUser"}, user : Name, email : Email, on : Nat]
Joining == [op : {"inserted"}, user : Name, email : Email, on : Nat]
Dismissing == [op : {"dismiss"}, on : Nat]

Tags == (Getting \cup Inserting) \cup (Joining \cup Dismissing)

Trees == {Leaf}

R == INSTANCE Provenance_proofs
        WITH Client <- Device, Absent <- Nothing, Value <- Kinds,
             Path <- Trees, Tag <- Tags, MaxId <- 0

-----------------------------------------------------------------------------
(* The database as Accounts uses it is the one of the lemmas. *)

LEMMA Assumptions ==
    /\ R!ValueAssumption /\ R!PathAssumption /\ R!DepthAssumption
    /\ R!BoundAssumption /\ R!RejectAssumption /\ R!ReuseAssumption
<1>1. R!ValueAssumption
    <2>1. Nothing \in Kinds
        BY DEF Kinds, Emails
    <2>2. Unknown \notin Kinds
        BY InitialAssumption DEF Kinds
    <2>3. Initial \in [Leaf -> Kinds]
        BY InitialAssumption DEF Kinds
    <2>. QED
        BY <2>1, <2>2, <2>3 DEF R!ValueAssumption
<1>2. R!PathAssumption
    BY DEF R!PathAssumption, Trees
<1>3. R!DepthAssumption
    BY DEF R!DepthAssumption, Trees
<1>. QED
    BY <1>1, <1>2, <1>3, FaultAssumption
    DEF R!BoundAssumption, R!RejectAssumption, R!ReuseAssumption

LEMMA SameRaise == \A k, todo : DB!Raise(k, todo) = R!Raise(k, todo)
    BY DEF DB!Raise, R!Raise, DB!Sees, R!Sees, DB!View, R!View, DB!Top, R!Top

LEMMA SameFresh == \A k : DB!Fresh(k) = R!Fresh(k)
    BY DEF DB!Fresh, R!Fresh, DB!Queued, R!Queued

LEMMA SameSees == \A k : DB!Sees(k) = R!Sees(k)
    BY DEF DB!Sees, R!Sees, DB!View, R!View, DB!Top, R!Top

LEMMA SameChanged == \A k, k2 : DB!Changed(k, k2) = R!Changed(k, k2)
    BY SameSees DEF DB!Changed, R!Changed, DB!Complete, R!Complete

LEMMA SameRelisten == \A k, regs : DB!Relisten(k, regs) = R!Relisten(k, regs)
    BY DEF DB!Relisten, R!Relisten, DB!Outermost, R!Outermost, DB!Covered, R!Covered,
           DB!Fresh, R!Fresh, DB!Queued, R!Queued

LEMMA SameObserve ==
    \A k, path, single, tag :
        DB!Observe(k, path, single, tag) = R!Observe(k, path, single, tag)
    BY SameFresh, SameRelisten, SameRaise, SameSees
    DEF DB!Observe, R!Observe, DB!Complete, R!Complete

LEMMA SameSetValue ==
    \A k, put, tag : DB!SetValue(k, put, tag) = R!SetValue(k, put, tag)
    BY DEF DB!SetValue, R!SetValue, DB!Overwrites, R!Overwrites,
           DB!Fresh, R!Fresh, DB!Queued, R!Queued, DB!Raise, R!Raise,
           DB!Changed, R!Changed, DB!Complete, R!Complete,
           DB!Sees, R!Sees, DB!View, R!View, DB!Top, R!Top

LEMMA SameTake ==
    /\ \A k, r : DB!TakeValue(k, r) = R!TakeValue(k, r)
    /\ \A k : DB!TakeDone(k) = R!TakeDone(k) /\ DB!Ready(k) = R!Ready(k)
    /\ \A k, r : DB!Begin(k, r) = R!Begin(k, r)
    BY SameRelisten
    DEF DB!TakeValue, R!TakeValue, DB!TakeDone, R!TakeDone, DB!Ready, R!Ready,
        DB!Begin, R!Begin, DB!Unobserve, R!Unobserve, DB!Without, R!Without

LEMMA SameMerge == \A k, put : DB!Merge(k, put) = R!Merge(k, put)
    BY SameRaise, SameChanged DEF DB!Merge, R!Merge, DB!Merged, R!Merged, DB!Covered, R!Covered

LEMMA SameAnswer ==
    /\ \A k, ack : DB!Answer(k, ack) = R!Answer(k, ack)
    /\ \A k, ack : DB!Acked(k, ack) = R!Acked(k, ack)
    BY DEF DB!Answer, R!Answer, DB!Acked, R!Acked, DB!Raise, R!Raise,
           DB!Changed, R!Changed, DB!Complete, R!Complete,
           DB!Sees, R!Sees, DB!View, R!View, DB!Top, R!Top

LEMMA SameNetwork == \A d : DB!Network(d) <=> R!Network(d)
<1>. SUFFICES ASSUME NEW d PROVE DB!Network(d) <=> R!Network(d)
    OBVIOUS
<1>1. /\ DB!ServeListen(d) <=> R!ServeListen(d)
      /\ DB!ServeUnlisten(d) <=> R!ServeUnlisten(d)
      /\ DB!RejectPut(d) <=> R!RejectPut(d)
    BY DEF DB!ServeListen, R!ServeListen, DB!ServeUnlisten, R!ServeUnlisten,
           DB!RejectPut, R!RejectPut, DB!Next1, R!Next1, DB!Served, R!Served
<1>2. DB!ServePut(d) <=> R!ServePut(d)
    BY DEF DB!ServePut, R!ServePut, DB!Next1, R!Next1, DB!Served, R!Served,
           DB!Pushed, R!Pushed
<1>3. /\ DB!ReceivePush(d) <=> R!ReceivePush(d)
      /\ DB!ReceiveListen(d) <=> R!ReceiveListen(d)
    BY SameMerge DEF DB!ReceivePush, R!ReceivePush, DB!ReceiveListen, R!ReceiveListen,
           DB!Arrived, R!Arrived
<1>4. /\ DB!ReceiveAck(d) <=> R!ReceiveAck(d)
      /\ DB!AckPuts(d) <=> R!AckPuts(d)
    BY SameAnswer DEF DB!ReceiveAck, R!ReceiveAck, DB!AckPuts, R!AckPuts,
           DB!Arrived, R!Arrived, DB!Holds, R!Holds
<1>5. DB!Reconnect(d) <=> R!Reconnect(d)
    BY DEF DB!Reconnect, R!Reconnect, DB!RestoredListens, R!RestoredListens,
           DB!RestoredPuts, R!RestoredPuts, DB!Outermost, R!Outermost
<1>. QED
    BY <1>1, <1>2, <1>3, <1>4, <1>5 DEF DB!Network, R!Network

LEMMA SameStart ==
    /\ DB!Init => R!Init
    /\ \A d : DB!Disconnect(d) => R!Disconnect(d)
    BY DEF DB!Init, R!Init, DB!ClientInit, R!ClientInit, DB!Disconnect, R!Disconnect,
           DB!CutOff, R!CutOff, DB!DropsInbox, R!DropsInbox

-----------------------------------------------------------------------------
(* The steps of a client, in the words of this module. *)

LEMMA StartStep ==
    ASSUME DB!Init, NEW vals, NEW G, \A l \in Leaf : Initial[l] \in vals[l]
    PROVE  R!Inv /\ R!Holding(vals, G)
    BY Assumptions, SameStart, R!StartKept

LEMMA NetworkStep ==
    ASSUME R!Inv, NEW vals, NEW G, R!Holding(vals, G), NEW d \in Device,
           R!Answerable(G[d]), DB!Network(d)
    PROVE  R!Inv' /\ R!Holding(vals, G)'
    BY Assumptions, SameNetwork, R!NetworkKept

LEMMA DisconnectStep ==
    ASSUME R!Inv, NEW vals, NEW G, R!Holding(vals, G), NEW d \in Device,
           DB!Disconnect(d)
    PROVE  R!Inv' /\ R!Holding(vals, G)'
    BY Assumptions, SameStart, R!CutKept

LEMMA StayStep ==
    ASSUME R!Inv, NEW vals, NEW G, R!Holding(vals, G), UNCHANGED database
    PROVE  R!Inv' /\ R!Holding(vals, G)'
<1>1. UNCHANGED R!vars
    BY DEF database, R!vars
<1>. QED
    BY <1>1, Assumptions, R!StayKept

LEMMA ProgramStep ==
    ASSUME R!Inv, NEW vals, NEW G, R!Holding(vals, G), NEW d \in Device,
           NEW k, client' = [client EXCEPT ![d] = k],
           R!Steady(k, in[d], vals, G[d]), k.conn = client[d].conn,
           UNCHANGED <<data, sub, in, drops>>
    PROVE  R!Inv' /\ R!Holding(vals, G)'
    BY Assumptions, R!StepKept

LEMMA LocalSteady ==
    ASSUME R!Inv, NEW vals, NEW G, R!Holding(vals, G), NEW d \in Device
    PROVE  R!Steady(client[d], in[d], vals, G[d]) /\ in[d] \in Seq(R!Message)
    BY Assumptions, R!LocalServed

\* Taking a completion, and the callback of the tree.
LEMMA DoneStep ==
    ASSUME NEW k, NEW s \in Seq(R!Message), NEW vals, NEW g, R!Steady(k, s, vals, g),
           k.main # <<>>, Head(k.main).kind = "done"
    PROVE  /\ R!Steady(DB!TakeDone(k), s, vals, g) /\ DB!TakeDone(k).conn = k.conn
           /\ <<Head(k.main).tag, Head(k.main).ok>> \in g.done
    BY Assumptions, SameTake, R!TakeDoneServed

LEMMA ValueStep ==
    ASSUME NEW k, NEW s \in Seq(R!Message), NEW vals, NEW g, R!Steady(k, s, vals, g),
           NEW r \in DB!Ready(k)
    PROVE  /\ R!Steady(DB!TakeValue(k, r), s, vals, g)
           /\ DB!TakeValue(k, r).conn = k.conn
           /\ R!Steady(DB!Begin(k, r), s, vals, g) /\ DB!Begin(k, r).conn = k.conn
           /\ r \in g.regs
           /\ \A l \in r.path : /\ l \in Leaf
                                /\ Head(k.main).view[l] \in vals[l]
                                /\ Head(k.main).view[l] \in Kinds
    BY Assumptions, SameTake, R!TakeValueServed, R!BeginServed

LEMMA DispatchStep ==
    ASSUME NEW k, NEW s \in Seq(R!Message), NEW vals, NEW g, R!Steady(k, s, vals, g),
           NEW tag \in Dismissing, <<tag, TRUE>> \in g.done
    PROVE  /\ R!Steady(Dispatch(k, tag), s, vals, g)
           /\ Dispatch(k, tag).conn = k.conn
<1>1. Dispatch(k, tag) = R!Block(k, tag)
    BY DEF Dispatch, R!Block
<1>2. tag \in Tags
    BY DEF Tags
<1>3. R!Steady(R!Block(k, tag), s, vals, g) /\ R!Block(k, tag).conn = k.conn
    BY <1>2, Assumptions, R!BlockServed
<1>. QED
    BY <1>1, <1>3

LEMMA AskStep ==
    ASSUME NEW k, NEW s \in Seq(R!Message), NEW vals, NEW g, R!Steady(k, s, vals, g),
           NEW tag \in Getting \cup Inserting,
           \A id \in Nat : [id |-> id, path |-> Leaf, single |-> TRUE, tag |-> tag] \in g.regs
    PROVE  /\ R!Steady(Ask(k, Leaf, tag), s, vals, g)
           /\ Ask(k, Leaf, tag).conn = k.conn
<1>. DEFINE path == Leaf
<1>1. tag \in Tags /\ path \in Trees /\ R!AllowsOnce(g, path, tag)
    BY DEF Tags, Trees, R!AllowsOnce, R!Allows
<1>2. Ask(k, Leaf, tag) = R!ObservedOnce(k, path, tag)
    BY SameObserve DEF Ask, R!ObservedOnce
<1>. HIDE DEF path
<1>3. R!Steady(R!ObservedOnce(k, path, tag), s, vals, g) /\ R!ObservedOnce(k, path, tag).conn = k.conn
    BY <1>1, Assumptions, R!ObservedOnceServed
<1>. QED
    BY <1>2, <1>3

-----------------------------------------------------------------------------
(* What circulates: C are the claims, and O are for each device the numbers of the   *)
(* screens that may be dismissed.                                                      *)

\* The records of users that nobody signs up as are those of the start; the others may
\* have lost all but the email.
Vals(C) ==
    [l \in Leaf |-> {v \in Kinds :
        IF \E c \in C : c[2] = l[1]
        THEN l[2] = "email" => v \in Emails
        ELSE v = Initial[l]}]

Claimed(C, t) == <<t.email, t.user>> \in C

\* Who is inserted has signed up, on a screen that may be dismissed.
InsertsOf(C, o) == {t \in Inserting : Claimed(C, t) /\ t.on \in o}
TagsOf(C, o) == {t \in Joining : Claimed(C, t) /\ t.on \in o}
DismissOf(o) == {t \in Dismissing : t.on \in o}
RegsOf(C, o) ==
    {[id |-> i, path |-> Leaf, single |-> TRUE, tag |-> t] :
        i \in Nat, t \in Getting \cup InsertsOf(C, o)}
DoneOf(C, o) == {e \in (Joining \cup Dismissing) \X BOOLEAN :
                    e[1] \in TagsOf(C, o) \cup DismissOf(o)}

G(C, O) == [d \in Device |-> [regs |-> RegsOf(C, O[d]), tags |-> TagsOf(C, O[d]),
                              done |-> DoneOf(C, O[d])]]

LEMMA ClosureFields ==
    ASSUME NEW C, NEW O, NEW d \in Device
    PROVE  /\ G(C, O)[d].regs = RegsOf(C, O[d])
           /\ G(C, O)[d].tags = TagsOf(C, O[d])
           /\ G(C, O)[d].done = DoneOf(C, O[d])
    BY DEF G

LEMMA OfGrows ==
    ASSUME NEW C, NEW o, NEW C2, NEW o2, C \subseteq C2, o \subseteq o2
    PROVE  /\ RegsOf(C, o) \subseteq RegsOf(C2, o2)
           /\ TagsOf(C, o) \subseteq TagsOf(C2, o2)
           /\ DoneOf(C, o) \subseteq DoneOf(C2, o2)
<1>1. /\ InsertsOf(C, o) \subseteq InsertsOf(C2, o2)
      /\ TagsOf(C, o) \subseteq TagsOf(C2, o2)
      /\ DismissOf(o) \subseteq DismissOf(o2)
    BY DEF InsertsOf, TagsOf, DismissOf, Claimed
<1>2. RegsOf(C, o) \subseteq RegsOf(C2, o2)
    BY <1>1 DEF RegsOf
<1>3. DoneOf(C, o) \subseteq DoneOf(C2, o2)
    BY <1>1 DEF DoneOf
<1>. QED
    BY <1>1, <1>2, <1>3

\* The screens of d that may be dismissed: those that are gone, and the one that is
\* there when somebody is signed in.
Past(d) == {n \in Nat : n < screen[d].no \/ (n = screen[d].no /\ user[d] # Nobody)}

Pasts == [d \in Device |-> Past(d)]

\* The state of the app. A call that is under way was made by a screen that is there
\* or is gone.
AppOK ==
    /\ accounts \subseteq Email
    /\ user \in [Device -> Email \cup {Nobody}]
    /\ username \in [Device -> Name \cup {NoName}]
    /\ screen \in [Device -> [auth : BOOLEAN, no : Nat]]
    /\ calls \in [Device -> SUBSET Call]
    /\ signIns \in Nat
    /\ claims \in SUBSET (Email \X Name)
    /\ joined \in SUBSET claims
    /\ \A d \in Device : \A c \in calls[d] : c.on <= screen[d].no
    /\ \A d \in Device : ~screen[d].auth => user[d] # Nobody

IInv == AppOK /\ R!Inv /\ R!Holding(Vals(claims), G(claims, Pasts))

LEMMA ValsGrow ==
    ASSUME NEW C, NEW C2, C \subseteq C2, NEW l \in Leaf
    PROVE  Vals(C)[l] \subseteq Vals(C2)[l]
<1>1. Initial[l] \in Kinds /\ (l[2] = "email" => Initial[l] \in Emails)
    <2>1. l \in Name \X Field
        BY LeafAssumption
    <2>2. l = <<l[1], l[2]>> /\ l[1] \in Name
        BY <2>1
    <2>. QED
        BY <2>2, InitialAssumption DEF Kinds
<1>. SUFFICES ASSUME NEW v \in Vals(C)[l] PROVE v \in Vals(C2)[l]
    OBVIOUS
<1>2. v \in Kinds /\ IF \E c \in C : c[2] = l[1]
                    THEN l[2] = "email" => v \in Emails
                    ELSE v = Initial[l]
    BY DEF Vals
<1>3. CASE \E c \in C2 : c[2] = l[1]
    <2>1. l[2] = "email" => v \in Emails
        BY <1>1, <1>2
    <2>. QED
        BY <1>2, <1>3, <2>1 DEF Vals
<1>4. CASE ~\E c \in C2 : c[2] = l[1]
    BY <1>2, <1>4 DEF Vals
<1>. QED
    BY <1>3, <1>4

LEMMA Growing ==
    ASSUME NEW C, NEW O, NEW C2, NEW O2, C \subseteq C2,
           \A d \in Device : O[d] \subseteq O2[d],
           R!Inv, R!Holding(Vals(C), G(C, O))
    PROVE  R!Holding(Vals(C2), G(C2, O2))
<1>1. \A l \in Leaf : Vals(C)[l] \subseteq Vals(C2)[l]
    BY ValsGrow
<1>2. \A d \in Device : /\ G(C, O)[d].regs \subseteq G(C2, O2)[d].regs
                        /\ G(C, O)[d].tags \subseteq G(C2, O2)[d].tags
                        /\ G(C, O)[d].done \subseteq G(C2, O2)[d].done
    BY ClosureFields, OfGrows
<1>. QED
    BY <1>1, <1>2, Assumptions, R!MoreKept

LEMMA AnswerableG ==
    ASSUME NEW C, NEW O, NEW d \in Device
    PROVE  R!Answerable(G(C, O)[d])
<1>1. \A t \in TagsOf(C, O[d]), ok \in BOOLEAN : <<t, ok>> \in DoneOf(C, O[d])
    BY DEF DoneOf, TagsOf
<1>. DEFINE g == G(C, O)[d]
<1>2. g.tags = TagsOf(C, O[d]) /\ g.done = DoneOf(C, O[d])
    BY ClosureFields
<1>. HIDE DEF g
<1>3. R!Answerable(g)
    BY <1>1, <1>2 DEF R!Answerable
<1>. QED
    BY <1>3 DEF g

\* From what holds of fixed sets to what holds of those of the next state.
LEMMA Next2 ==
    ASSUME NEW C, NEW O, C = claims', O = Pasts', AppOK',
           R!Inv', R!Holding(Vals(C), G(C, O))'
    PROVE  IInv'
<1>1. Vals(C) = Vals(claims)' /\ G(C, O) = G(claims, Pasts)'
    BY DEF Vals, G, RegsOf, TagsOf, DoneOf, InsertsOf, DismissOf, Claimed
<1>2. R!Holding(Vals(claims), G(claims, Pasts))'
    BY <1>1 DEF R!Holding
<1>. QED
    BY <1>2 DEF IInv

LEMMA IInvStart == Init => IInv
<1>. SUFFICES ASSUME Init PROVE IInv
    OBVIOUS
<1>1. \A l \in Leaf : Initial[l] \in Vals(claims)[l]
    BY DEF Init, Vals, Kinds
<1>2. R!Inv /\ R!Holding(Vals(claims), G(claims, Pasts))
    BY <1>1, StartStep DEF Init
<1>3. AppOK
    BY AccountsAssumption DEF Init, AppOK
<1>. QED
    BY <1>2, <1>3 DEF IInv

-----------------------------------------------------------------------------
(* The steps of the app. *)

\* Nothing that may be dismissed is to be kept, and no claim is given up.
Grows ==
    /\ claims \subseteq claims'
    /\ \A d \in Device : Past(d) \subseteq Past(d)'

LEMMA GrowsPasts ==
    ASSUME AppOK, Grows, NEW C, NEW O, C = claims', O = Pasts'
    PROVE  /\ claims \subseteq C
           /\ \A d \in Device : Pasts[d] \subseteq O[d] /\ O[d] = Past(d)'
    BY DEF Grows, Pasts

\* What holds at a device before the step, in terms of what holds after it.
LEMMA At ==
    ASSUME IInv, Grows, NEW C, NEW O, C = claims', O = Pasts', NEW d \in Device
    PROVE  /\ R!Inv /\ R!Holding(Vals(C), G(C, O))
           /\ R!Steady(client[d], in[d], Vals(C), G(C, O)[d])
           /\ in[d] \in Seq(R!Message)
<1>1. /\ R!Inv /\ AppOK
      /\ R!Holding(Vals(claims), G(claims, Pasts))
    BY DEF IInv
<1>2. R!Holding(Vals(C), G(C, O))
    <2>1. PICK C1, O1 : C1 = claims /\ O1 = Pasts
        OBVIOUS
    <2>2. C1 \subseteq C /\ \A e \in Device : O1[e] \subseteq O[e]
        BY <1>1, <2>1, GrowsPasts
    <2>3. R!Holding(Vals(C1), G(C1, O1))
        BY <1>1, <2>1
    <2>. QED
        BY <1>1, <2>2, <2>3, Growing
<1>. QED
    BY <1>1, <1>2, LocalSteady

\* A step of the app that leaves the clients alone.
LEMMA Elsewhere ==
    ASSUME IInv, AppOK', Grows, UNCHANGED database
    PROVE  IInv'
<1>1. PICK C, O : C = claims' /\ O = Pasts'
    OBVIOUS
<1>2. PICK C1, O1 : C1 = claims /\ O1 = Pasts
    OBVIOUS
<1>3. C1 \subseteq C /\ \A e \in Device : O1[e] \subseteq O[e]
    BY <1>1, <1>2, GrowsPasts DEF IInv
<1>4. R!Inv /\ R!Holding(Vals(C1), G(C1, O1))
    BY <1>2 DEF IInv
<1>5. R!Holding(Vals(C), G(C, O))
    BY <1>3, <1>4, Growing
<1>6. R!Inv' /\ R!Holding(Vals(C), G(C, O))'
    BY <1>4, <1>5, StayStep
<1>. QED
    BY <1>1, <1>6, Next2

\* A step of a device.
LEMMA Program ==
    ASSUME IInv, AppOK', Grows, NEW d \in Device, NEW k,
           client' = [client EXCEPT ![d] = k], UNCHANGED <<data, sub, in, drops>>,
           NEW C, NEW O, C = claims', O = Pasts',
           R!Steady(k, in[d], Vals(C), G(C, O)[d]), k.conn = client[d].conn
    PROVE  IInv'
<1>1. R!Inv /\ R!Holding(Vals(C), G(C, O))
    BY At
<1>2. R!Inv' /\ R!Holding(Vals(C), G(C, O))'
    BY <1>1, ProgramStep
<1>. QED
    BY <1>2, Next2

LEMMA SameGrows == UNCHANGED <<claims, user, screen>> => Grows
    BY DEF Grows, Past

LEMMA TapInv ==
    ASSUME IInv, NEW d \in Device, TapSignIn(d) \/ TapSignUp(d)
    PROVE  IInv'
<1>1. AppOK
    BY DEF IInv
<1>2. UNCHANGED <<database, accounts, user, local, claims, joined>> /\ signIns' = signIns + 1
    BY DEF TapSignIn, TapSignUp
<1>3. PICK c : /\ calls' = [calls EXCEPT ![d] = calls[d] \cup {c}]
               /\ c \in Call /\ c.on = screen[d].no
    <2>0. screen[d].no \in Nat /\ signIns \in Nat
        BY <1>1 DEF AppOK
    <2>1. CASE TapSignIn(d)
        <3>1. PICK e \in Email :
                calls' = [calls EXCEPT ![d] = calls[d] \cup
                            {[op |-> "signIn", email |-> e, on |-> screen[d].no,
                              tap |-> signIns]}]
            BY <2>1 DEF TapSignIn
        <3>. DEFINE b == [op |-> "signIn", email |-> e, on |-> screen[d].no,
                          tap |-> signIns]
        <3>2. b \in Call /\ b.on = screen[d].no
            BY <2>0 DEF Call
        <3>3. calls' = [calls EXCEPT ![d] = calls[d] \cup {b}]
            BY <3>1
        <3>. HIDE DEF b
        <3>. QED
            BY <3>2, <3>3
    <2>2. CASE TapSignUp(d)
        <3>1. PICK e \in Email, n \in Name :
                calls' = [calls EXCEPT ![d] = calls[d] \cup
                            {[op |-> "signUp", email |-> e, name |-> n,
                              on |-> screen[d].no, tap |-> signIns]}]
            BY <2>2 DEF TapSignUp
        <3>. DEFINE b == [op |-> "signUp", email |-> e, name |-> n, on |-> screen[d].no,
                          tap |-> signIns]
        <3>2. b \in Call /\ b.on = screen[d].no
            BY <2>0 DEF Call
        <3>3. calls' = [calls EXCEPT ![d] = calls[d] \cup {b}]
            BY <3>1
        <3>. HIDE DEF b
        <3>. QED
            BY <3>2, <3>3
    <2>. QED
        BY <2>1, <2>2
<1>4. calls' \in [Device -> SUBSET Call]
    BY <1>1, <1>3 DEF AppOK
<1>5. ASSUME NEW e \in Device, NEW b \in calls'[e]
      PROVE  b.on <= screen[e].no
    <2>1. CASE e = d
        <3>1. CASE b = c
            <4>1. screen[d].no \in Nat
                BY <1>1 DEF AppOK
            <4>. QED
                BY <1>3, <2>1, <3>1, <4>1
        <3>2. CASE b # c
            <4>1. b \in calls[e]
                BY <1>1, <1>3, <1>5, <2>1, <3>2 DEF AppOK
            <4>. QED
                BY <1>1, <4>1 DEF AppOK
        <3>. QED
            BY <3>1, <3>2
    <2>2. CASE e # d
        BY <1>1, <1>3, <1>5, <2>2 DEF AppOK
    <2>. QED
        BY <2>1, <2>2
<1>6. AppOK'
    BY <1>1, <1>2, <1>4, <1>5 DEF AppOK, local
<1>7. Grows
    BY <1>2, SameGrows DEF local
<1>. QED
    BY <1>2, <1>6, <1>7, Elsewhere

\* A call less.
LEMMA CallsEnd ==
    ASSUME AppOK, NEW d \in Device, \E c : Answered(d, c), UNCHANGED screen
    PROVE  /\ calls' \in [Device -> SUBSET Call]
           /\ \A e \in Device : \A b \in calls'[e] : b.on <= screen'[e].no
<1>1. PICK c : calls' = [calls EXCEPT ![d] = calls[d] \ {c}]
    BY DEF Answered
<1>2. calls \in [Device -> SUBSET Call]
    BY DEF AppOK
<1>3. /\ calls' \in [Device -> SUBSET Call]
      /\ \A e \in Device : calls'[e] \subseteq calls[e]
    BY <1>1, <1>2
<1>. QED
    BY <1>3 DEF AppOK

LEMMA AuthRefusesInv ==
    ASSUME IInv, NEW d \in Device, AuthRefuses(d)
    PROVE  IInv'
<1>1. AppOK
    BY DEF IInv
<1>2. UNCHANGED <<database, accounts, user, local, history>> /\ \E c : Answered(d, c)
    BY DEF AuthRefuses
<1>3. /\ calls' \in [Device -> SUBSET Call]
      /\ \A e \in Device : \A b \in calls'[e] : b.on <= screen'[e].no
    BY <1>1, <1>2, CallsEnd DEF local
<1>4. AppOK'
    BY <1>1, <1>2, <1>3 DEF AppOK, local, history
<1>5. Grows
    BY <1>2, SameGrows DEF local, history
<1>. QED
    BY <1>2, <1>4, <1>5, Elsewhere

\* The screen that is left may be dismissed, whoever signs in next.
LEMMA SignOutInv ==
    ASSUME IInv, NEW d \in Device, SignOut(d)
    PROVE  IInv'
<1>1. AppOK
    BY DEF IInv
<1>2. /\ UNCHANGED <<database, accounts, calls, signIns, claims, joined>>
      /\ user' = [user EXCEPT ![d] = Nobody]
      /\ username' = [username EXCEPT ![d] = NoName]
      /\ screen' = [screen EXCEPT ![d] = [auth |-> TRUE, no |-> screen[d].no + 1]]
    BY DEF SignOut
<1>3. /\ screen' \in [Device -> [auth : BOOLEAN, no : Nat]]
      /\ screen'[d].auth /\ screen'[d].no = screen[d].no + 1
      /\ \A e \in Device \ {d} : screen'[e] = screen[e] /\ user'[e] = user[e]
      /\ screen[d].no \in Nat
    BY <1>1, <1>2 DEF AppOK
<1>4. /\ user' \in [Device -> Email \cup {Nobody}]
      /\ username' \in [Device -> Name \cup {NoName}]
    BY <1>1, <1>2 DEF AppOK
<1>5. ASSUME NEW e \in Device, NEW c \in calls[e]
      PROVE  c.on <= screen'[e].no
    <2>1. c.on <= screen[e].no /\ c.on \in Nat /\ screen[e].no \in Nat
        BY <1>1 DEF AppOK, Call
    <2>. QED
        BY <1>3, <2>1
<1>6. \A e \in Device : ~screen'[e].auth => user'[e] # Nobody
    BY <1>1, <1>3 DEF AppOK
<1>7. AppOK'
    BY <1>1, <1>2, <1>3, <1>4, <1>5, <1>6 DEF AppOK
<1>8. Grows
    <2>1. ASSUME NEW e \in Device PROVE Past(e) \subseteq Past(e)'
        BY <1>3 DEF Past
    <2>. QED
        BY <1>2, <2>1 DEF Grows
<1>. QED
    BY <1>2, <1>7, <1>8, Elsewhere

\* Whoever Auth has signed in on d: its screen may be dismissed.
LEMMA SignedIn ==
    ASSUME AppOK, NEW d \in Device, NEW c \in calls[d],
           user' = [user EXCEPT ![d] = c.email],
           UNCHANGED screen, claims \subseteq claims'
    PROVE  /\ Grows /\ c.on \in Past(d)' /\ c.email \in Email
           /\ user' \in [Device -> Email \cup {Nobody}]
           /\ \A e \in Device : ~screen[e].auth => user'[e] # Nobody
<1>1. c.email \in Email /\ c.on \in Nat /\ c.on <= screen[d].no /\ screen[d].no \in Nat
    BY DEF AppOK, Call
<1>2. c.email # Nobody
    BY <1>1, AccountsAssumption
<1>3. user'[d] = c.email /\ \A e \in Device \ {d} : user'[e] = user[e]
    BY DEF AppOK
<1>4. c.on \in Past(d)'
    BY <1>1, <1>2, <1>3 DEF Past
<1>5. ASSUME NEW e \in Device PROVE Past(e) \subseteq Past(e)'
    BY <1>2, <1>3 DEF Past
<1>6. user' \in [Device -> Email \cup {Nobody}]
    BY <1>1 DEF AppOK
<1>7. \A e \in Device : ~screen[e].auth => user'[e] # Nobody
    BY <1>2, <1>3 DEF AppOK
<1>. QED
    BY <1>1, <1>4, <1>5, <1>6, <1>7 DEF Grows

LEMMA SignInInv ==
    ASSUME IInv, NEW d \in Device, SignIn(d)
    PROVE  IInv'
<1>1. AppOK
    BY DEF IInv
<1>2. PICK c \in calls[d] :
        /\ user' = [user EXCEPT ![d] = c.email]
        /\ client' = [client EXCEPT ![d] =
                        Dispatch(getUsername(@, c.email),
                                 [op |-> "dismiss", on |-> c.on])]
        /\ Answered(d, c)
    BY DEF SignIn
<1>3. UNCHANGED <<data, sub, in, drops, accounts, local, history>>
    BY DEF SignIn
<1>4. /\ Grows /\ c.on \in Past(d)' /\ c.email \in Email
      /\ user' \in [Device -> Email \cup {Nobody}]
      /\ \A e \in Device : ~screen[e].auth => user'[e] # Nobody
    BY <1>1, <1>2, <1>3, SignedIn DEF local, history
<1>5. AppOK'
    <2>1. /\ calls' \in [Device -> SUBSET Call]
          /\ \A e \in Device : \A b \in calls'[e] : b.on <= screen'[e].no
        BY <1>1, <1>2, <1>3, CallsEnd DEF local
    <2>. QED
        BY <1>1, <1>3, <1>4, <2>1 DEF AppOK, local, history
<1>6. PICK C, O : C = claims' /\ O = Pasts'
    OBVIOUS
<1>. DEFINE asked == [op |-> "getUsername", email |-> c.email]
            dismiss == [op |-> "dismiss", on |-> c.on]
            k1 == Ask(client[d], Leaf, asked)
            k2 == Dispatch(k1, dismiss)
<1>7. /\ R!Steady(client[d], in[d], Vals(C), G(C, O)[d]) /\ in[d] \in Seq(R!Message)
      /\ O[d] = Past(d)'
    BY <1>1, <1>4, <1>6, At, GrowsPasts
<1>8. R!Steady(k1, in[d], Vals(C), G(C, O)[d]) /\ k1.conn = client[d].conn
    <2>1. asked \in Getting \cup Inserting
        BY <1>4 DEF Getting
    <2>2. \A id \in Nat : [id |-> id, path |-> Leaf, single |-> TRUE, tag |-> asked]
                            \in G(C, O)[d].regs
        BY <1>4, ClosureFields DEF RegsOf, Getting
    <2>. HIDE DEF asked
    <2>. QED
        BY <1>7, <2>1, <2>2, AskStep
<1>9. R!Steady(k2, in[d], Vals(C), G(C, O)[d]) /\ k2.conn = k1.conn
    <2>1. dismiss \in Dismissing /\ dismiss.on \in O[d]
        BY <1>4, <1>7 DEF Dismissing, Past
    <2>. HIDE DEF k1, dismiss
    <2>2. <<dismiss, TRUE>> \in DoneOf(C, O[d])
        BY <2>1 DEF DoneOf, DismissOf
    <2>3. <<dismiss, TRUE>> \in G(C, O)[d].done
        BY <2>2, ClosureFields
    <2>. QED
        BY <1>7, <1>8, <2>1, <2>3, DispatchStep
<1>10. client' = [client EXCEPT ![d] = k2]
    BY <1>2 DEF getUsername
<1>. HIDE DEF k1, k2
<1>. QED
    BY <1>3, <1>4, <1>5, <1>6, <1>8, <1>9, <1>10, Program

LEMMA SignUpInv ==
    ASSUME IInv, NEW d \in Device, SignUp(d)
    PROVE  IInv'
<1>1. AppOK
    BY DEF IInv
<1>2. PICK c \in calls[d] :
        /\ c.op = "signUp"
        /\ accounts' = accounts \cup {c.email}
        /\ user' = [user EXCEPT ![d] = c.email]
        /\ username' = [username EXCEPT ![d] = c.name]
        /\ claims' = claims \cup {<<c.email, c.name>>}
        /\ client' = [client EXCEPT ![d] = insertUser(@, c.name, c.email, c.on)]
        /\ Answered(d, c)
    BY DEF SignUp
<1>3. UNCHANGED <<data, sub, in, drops, screen, signIns, joined, hurried>>
    BY DEF SignUp
<1>4. /\ Grows /\ c.on \in Past(d)' /\ c.email \in Email
      /\ user' \in [Device -> Email \cup {Nobody}]
      /\ \A e \in Device : ~screen[e].auth => user'[e] # Nobody
    BY <1>1, <1>2, <1>3, SignedIn
<1>5. c.name \in Name
    BY <1>1, <1>2 DEF AppOK, Call
<1>6. AppOK'
    <2>1. accounts' \subseteq Email /\ claims' \in SUBSET (Email \X Name)
        BY <1>1, <1>2, <1>4, <1>5 DEF AppOK
    <2>2. joined' \in SUBSET claims'
        BY <1>1, <1>2, <1>3 DEF AppOK
    <2>3. username' \in [Device -> Name \cup {NoName}]
        BY <1>1, <1>2, <1>5 DEF AppOK
    <2>4. /\ calls' \in [Device -> SUBSET Call]
          /\ \A e \in Device : \A b \in calls'[e] : b.on <= screen'[e].no
        BY <1>1, <1>2, <1>3, CallsEnd
    <2>. QED
        BY <1>1, <1>3, <1>4, <2>1, <2>2, <2>3, <2>4 DEF AppOK
<1>7. PICK C, O : C = claims' /\ O = Pasts'
    OBVIOUS
<1>. DEFINE tag == [op |-> "insertUser", user |-> c.name, email |-> c.email, on |-> c.on]
            k2 == Ask(client[d], Leaf, tag)
<1>8. /\ R!Steady(client[d], in[d], Vals(C), G(C, O)[d]) /\ in[d] \in Seq(R!Message)
      /\ O[d] = Past(d)'
    BY <1>1, <1>4, <1>7, At, GrowsPasts
<1>9. tag \in InsertsOf(C, O[d]) /\ tag \in Inserting
    <2>1. tag \in Inserting
        BY <1>4, <1>5 DEF Inserting, Past
    <2>2. tag.email = c.email /\ tag.user = c.name /\ tag.on = c.on
        OBVIOUS
    <2>. HIDE DEF tag
    <2>3. Claimed(C, tag)
        BY <1>2, <1>7, <2>2 DEF Claimed
    <2>. QED
        BY <1>4, <1>8, <2>1, <2>2, <2>3 DEF InsertsOf
<1>. HIDE DEF tag
<1>10. \A id \in Nat : [id |-> id, path |-> Leaf, single |-> TRUE, tag |-> tag]
                            \in G(C, O)[d].regs
    BY <1>9, ClosureFields DEF RegsOf
<1>11. R!Steady(k2, in[d], Vals(C), G(C, O)[d]) /\ k2.conn = client[d].conn
    BY <1>8, <1>9, <1>10, AskStep
<1>12. client' = [client EXCEPT ![d] = k2]
    BY <1>2 DEF insertUser, tag
<1>. HIDE DEF k2
<1>. QED
    BY <1>3, <1>4, <1>6, <1>7, <1>11, <1>12, Program

\* The tree that is written back with one more user.
LEMMA WithUserKept ==
    ASSUME NEW C, NEW n \in Name, NEW e \in Email, <<e, n>> \in C, NEW view,
           \A l \in Leaf : view[l] \in Vals(C)[l]
    PROVE  WithUser(view, n, e) \in R!Put /\ R!Carries(WithUser(view, n, e), Vals(C))
<1>. DEFINE put == WithUser(view, n, e)
<1>1. DOMAIN put = Leaf /\ put = [l \in Leaf |-> put[l]]
    BY DEF WithUser
<1>2. ASSUME NEW l \in Leaf
      PROVE  put[l] \in Kinds /\ put[l] \in Vals(C)[l]
    <2>0. <<e>> \in Emails /\ <<e>> \in Kinds /\ Nothing \in Kinds
        BY DEF Emails, Kinds
    <2>1. CASE l = <<n, "email">>
        <3>1. put[l] = <<e>>
            BY <2>1 DEF WithUser
        <3>2. \E c \in C : c[2] = l[1]
            BY <2>1
        <3>. QED
            BY <2>0, <3>1, <3>2 DEF Vals
    <2>2. CASE l # <<n, "email">> /\ l[1] = n /\ l[2] # "email"
        <3>1. put[l] = Nothing
            BY <2>2 DEF WithUser
        <3>2. \E c \in C : c[2] = l[1]
            BY <2>2
        <3>. QED
            BY <2>0, <2>2, <3>1, <3>2 DEF Vals
    <2>3. CASE l # <<n, "email">> /\ ~(l[1] = n /\ l[2] # "email")
        <3>1. put[l] = view[l]
            BY <2>3 DEF WithUser
        <3>2. view[l] \in Vals(C)[l] /\ view[l] \in Kinds
            BY DEF Vals
        <3>. QED
            BY <3>1, <3>2
    <2>. QED
        BY <2>1, <2>2, <2>3
<1>. HIDE DEF put
<1>3. put \in [Leaf -> Kinds]
    BY <1>1, <1>2
<1>4. put \in R!Put
    BY <1>3 DEF R!Put
<1>5. R!Carries(put, Vals(C))
    BY <1>1, <1>2 DEF R!Carries
<1>. QED
    BY <1>4, <1>5 DEF put

LEMMA RunValueInv ==
    ASSUME IInv, NEW d \in Device, RunValue(d)
    PROVE  IInv'
<1>. DEFINE k == client[d]
            view == Head(k.main).view
<1>1. AppOK
    BY DEF IInv
<1>2. UNCHANGED <<data, sub, in, drops, auth, screen, history>>
    BY DEF RunValue
<1>3. Grows
    BY <1>2, SameGrows DEF auth, history
<1>4. PICK C, O : C = claims' /\ O = Pasts'
    OBVIOUS
<1>5. R!Steady(k, in[d], Vals(C), G(C, O)[d]) /\ in[d] \in Seq(R!Message)
    BY <1>3, <1>4, At
<1>6. PICK r \in DB!Ready(k) :
        LET names == IF r.tag.op = "getUsername" THEN Matches(view, r.tag.email) ELSE {}
            becomes(k2) == client' = [client EXCEPT ![d] = k2]
        IN  IF DB!Stale(k, r)
            THEN becomes(DB!TakeValue(k, r)) /\ UNCHANGED username
            ELSE IF r.tag.op = "insertUser"
            THEN becomes(UsersRead(DB!Begin(k, r), view, r.tag)) /\ UNCHANGED username
            ELSE /\ becomes(DB!Begin(k, r))
                 /\ \E n \in IF names = {} THEN {username[d]} ELSE names :
                        username' = [username EXCEPT ![d] = n]
    BY DEF RunValue
<1>7. /\ R!Steady(DB!TakeValue(k, r), in[d], Vals(C), G(C, O)[d])
      /\ DB!TakeValue(k, r).conn = k.conn
      /\ R!Steady(DB!Begin(k, r), in[d], Vals(C), G(C, O)[d])
      /\ DB!Begin(k, r).conn = k.conn
      /\ r \in G(C, O)[d].regs
      /\ \A l \in r.path : l \in Leaf /\ view[l] \in Vals(C)[l]
    BY <1>5, ValueStep
<1>8. PICK i \in Nat, t \in Getting \cup InsertsOf(C, O[d]) :
        r = [id |-> i, path |-> Leaf, single |-> TRUE, tag |-> t]
    BY <1>7, ClosureFields DEF RegsOf
<1>9. r.path = Leaf /\ r.tag = t
    BY <1>8
<1>10. ASSUME UNCHANGED username PROVE AppOK'
    BY <1>1, <1>2, <1>10 DEF AppOK, auth, history
<1>11. CASE DB!Stale(k, r)
    <2>1. client' = [client EXCEPT ![d] = DB!TakeValue(k, r)] /\ UNCHANGED username
        BY <1>6, <1>11
    <2>. QED
        BY <1>2, <1>3, <1>4, <1>7, <1>10, <2>1, Program
<1>12. CASE ~DB!Stale(k, r) /\ r.tag.op = "insertUser"
    <2>. DEFINE put == WithUser(view, t.user, t.email)
                tag == [t EXCEPT !.op = "inserted"]
                k1 == DB!Begin(k, r)
                k2 == DB!SetValue(k1, put, tag)
    <2>1. t \in InsertsOf(C, O[d])
        BY <1>8, <1>9, <1>12 DEF Getting
    <2>2. t \in Inserting /\ Claimed(C, t) /\ t.on \in O[d]
        BY <2>1 DEF InsertsOf
    <2>3. /\ tag = [op |-> "inserted", user |-> t.user, email |-> t.email, on |-> t.on]
          /\ t.user \in Name /\ t.email \in Email /\ t.on \in Nat
        BY <2>2 DEF Inserting
    <2>4. tag \in TagsOf(C, O[d]) /\ tag \in Tags
        <3>1. tag \in Joining /\ tag.email = t.email /\ tag.user = t.user /\ tag.on = t.on
            BY <2>3 DEF Joining
        <3>. HIDE DEF tag
        <3>. QED
            BY <2>2, <3>1 DEF TagsOf, Claimed, Tags
    <2>5. put \in R!Put /\ R!Carries(put, Vals(C))
        <3>1. <<t.email, t.user>> \in C
            BY <2>2 DEF Claimed
        <3>2. \A l \in Leaf : view[l] \in Vals(C)[l]
            BY <1>7, <1>9
        <3>. QED
            BY <2>3, <3>1, <3>2, WithUserKept
    <2>6. tag \in G(C, O)[d].tags
        BY <2>4, ClosureFields
    <2>7. client' = [client EXCEPT ![d] = k2] /\ UNCHANGED username
        BY <1>6, <1>9, <1>12 DEF UsersRead
    <2>8. R!Steady(k1, in[d], Vals(C), G(C, O)[d]) /\ k1.conn = k.conn
        BY <1>7
    <2>9. k2 = R!SetValue(k1, put, tag)
        BY SameSetValue
    <2>. HIDE DEF k1, k2, put, tag
    <2>10. R!Steady(k2, in[d], Vals(C), G(C, O)[d]) /\ k2.conn = k1.conn
        BY <1>5, <2>4, <2>5, <2>6, <2>8, <2>9, Assumptions, R!SetValueServed
    <2>. QED
        BY <1>2, <1>3, <1>4, <1>10, <2>7, <2>8, <2>10, Program
<1>13. CASE ~DB!Stale(k, r) /\ r.tag.op # "insertUser"
    <2>1. PICK n : /\ client' = [client EXCEPT ![d] = DB!Begin(k, r)]
                   /\ username' = [username EXCEPT ![d] = n]
                   /\ n = username[d] \/ n \in Matches(view, r.tag.email)
        BY <1>6, <1>13
    <2>2. n \in Name \cup {NoName}
        BY <1>1, <2>1 DEF Matches, AppOK
    <2>3. AppOK'
        BY <1>1, <1>2, <2>1, <2>2 DEF AppOK, auth, history
    <2>. QED
        BY <1>2, <1>3, <1>4, <1>7, <2>1, <2>3, Program
<1>. QED
    BY <1>11, <1>12, <1>13

LEMMA RunDoneInv ==
    ASSUME IInv, NEW d \in Device, RunDone(d)
    PROVE  IInv'
<1>. DEFINE e == Head(client[d].main)
            k == DB!TakeDone(client[d])
            inserted == e.tag.op = "inserted" /\ e.ok
            dismiss == [op |-> "dismiss", on |-> e.tag.on]
<1>1. AppOK
    BY DEF IInv
<1>2. /\ UNCHANGED <<data, sub, in, drops, auth, username, signIns, claims, hurried>>
      /\ screen' = IF e.tag.op = "dismiss" /\ ItsScreen(d, e.tag)
                   THEN [screen EXCEPT ![d].auth = FALSE] ELSE screen
      /\ joined' = IF inserted THEN joined \cup {<<e.tag.email, e.tag.user>>} ELSE joined
      /\ client' = [client EXCEPT ![d] = IF inserted THEN Dispatch(k, dismiss) ELSE k]
      /\ client[d].main # <<>> /\ e.kind = "done"
    BY DEF RunDone
<1>3. PICK S : S = screen'
    OBVIOUS
<1>4. \A b \in Device : S[b].no = screen[b].no
    BY <1>1, <1>2, <1>3 DEF AppOK
<1>5. Grows
    BY <1>2, <1>3, <1>4 DEF Grows, Past, auth
<1>6. PICK C, O : C = claims' /\ O = Pasts'
    OBVIOUS
<1>7. /\ R!Steady(client[d], in[d], Vals(C), G(C, O)[d]) /\ in[d] \in Seq(R!Message)
      /\ O[d] = Past(d)'
    BY <1>1, <1>5, <1>6, At, GrowsPasts
<1>8. /\ R!Steady(k, in[d], Vals(C), G(C, O)[d]) /\ k.conn = client[d].conn
      /\ <<e.tag, e.ok>> \in G(C, O)[d].done
    BY <1>2, <1>7, DoneStep
<1>9. e.tag \in TagsOf(C, O[d]) \cup DismissOf(O[d])
    <2>1. <<e.tag, e.ok>> \in DoneOf(C, O[d])
        BY <1>8, ClosureFields
    <2>. QED
        BY <2>1 DEF DoneOf
<1>10. e.tag.op = "dismiss" => e.tag.on \in O[d]
    BY <1>9 DEF TagsOf, Joining, DismissOf
<1>11. inserted => /\ e.tag \in Joining /\ Claimed(C, e.tag) /\ e.tag.on \in O[d]
    BY <1>9 DEF TagsOf, DismissOf, Dismissing
<1>12. AppOK'
    <2>1. screen' \in [Device -> [auth : BOOLEAN, no : Nat]]
        <3>0. screen[d] \in [auth : BOOLEAN, no : Nat]
            BY <1>1 DEF AppOK
        <3>1. [screen[d] EXCEPT !.auth = FALSE] \in [auth : BOOLEAN, no : Nat]
            BY <3>0
        <3>2. screen' = screen
                \/ screen' = [screen EXCEPT ![d] = [screen[d] EXCEPT !.auth = FALSE]]
            BY <1>2
        <3>3. screen \in [Device -> [auth : BOOLEAN, no : Nat]]
            BY <1>1 DEF AppOK
        <3>. QED
            BY <3>1, <3>2, <3>3
    <2>2. joined' \in SUBSET claims'
        BY <1>1, <1>2, <1>6, <1>11 DEF AppOK, Claimed
    <2>3. \A b \in Device : \A c \in calls'[b] : c.on <= screen'[b].no
        BY <1>1, <1>2, <1>3, <1>4 DEF AppOK, auth
    <2>4. ASSUME NEW b \in Device, ~screen'[b].auth PROVE user'[b] # Nobody
        <3>1. CASE ~screen[b].auth
            BY <1>1, <1>2, <3>1 DEF AppOK, auth
        <3>2. CASE screen[b].auth
            <4>1. b = d /\ e.tag.op = "dismiss" /\ e.tag.on = screen[d].no
                BY <1>1, <1>2, <2>4, <3>2 DEF AppOK, ItsScreen
            <4>2. e.tag.on \in Past(d)'
                BY <1>7, <1>10, <4>1
            <4>3. screen'[d].no = screen[d].no /\ screen[d].no \in Nat
                BY <1>1, <1>3, <1>4 DEF AppOK
            <4>. QED
                BY <4>1, <4>2, <4>3 DEF Past
        <3>. QED
            BY <3>1, <3>2
    <2>. QED
        BY <1>1, <1>2, <2>1, <2>2, <2>3, <2>4 DEF AppOK, auth
<1>13. CASE ~inserted
    <2>1. client' = [client EXCEPT ![d] = k]
        BY <1>2, <1>13
    <2>. HIDE DEF k
    <2>. QED
        BY <1>2, <1>5, <1>6, <1>8, <1>12, <2>1, Program
<1>14. CASE inserted
    <2>. DEFINE k2 == Dispatch(k, dismiss)
    <2>1. dismiss \in Dismissing /\ dismiss.on \in O[d]
        BY <1>11, <1>14 DEF Dismissing, Joining
    <2>2. client' = [client EXCEPT ![d] = k2]
        BY <1>2, <1>14
    <2>. HIDE DEF k, dismiss
    <2>3. <<dismiss, TRUE>> \in DoneOf(C, O[d])
        BY <2>1 DEF DoneOf, DismissOf
    <2>4. <<dismiss, TRUE>> \in G(C, O)[d].done
        BY <2>3, ClosureFields
    <2>5. R!Steady(k2, in[d], Vals(C), G(C, O)[d]) /\ k2.conn = k.conn
        BY <1>7, <1>8, <2>1, <2>4, DispatchStep
    <2>. HIDE DEF k2
    <2>. QED
        BY <1>2, <1>5, <1>6, <1>8, <1>12, <2>2, <2>5, Program
<1>. QED
    BY <1>13, <1>14

LEMMA WireInv ==
    ASSUME IInv, NEW d \in Device, Network(d) \/ Disconnect(d)
    PROVE  IInv'
<1>1. PICK C, O : C = claims /\ O = Pasts
    OBVIOUS
<1>2. AppOK /\ R!Inv /\ R!Holding(Vals(C), G(C, O))
    BY <1>1 DEF IInv
<1>3. UNCHANGED <<auth, local, history>>
    BY DEF Network, Disconnect
<1>4. AppOK'
    BY <1>2, <1>3 DEF AppOK, auth, local, history
<1>5. R!Inv' /\ R!Holding(Vals(C), G(C, O))'
    <2>1. CASE Network(d)
        BY <1>2, <2>1, AnswerableG, NetworkStep DEF Network
    <2>2. CASE Disconnect(d)
        BY <1>2, <2>2, DisconnectStep DEF Disconnect
    <2>. QED
        BY <2>1, <2>2
<1>6. C = claims' /\ O = Pasts'
    BY <1>1, <1>3 DEF auth, local, history, Pasts, Past
<1>. QED
    BY <1>4, <1>5, <1>6, Next2

LEMMA IInvNext == IInv /\ [Next]_vars => IInv'
<1>. SUFFICES ASSUME IInv, [Next]_vars PROVE IInv'
    OBVIOUS
<1>1. ASSUME NEW d \in Device,
             \/ TapSignIn(d) \/ TapSignUp(d) \/ SignOut(d)
             \/ Answers(d) \/ Runs(d)
             \/ Network(d) \/ Disconnect(d)
      PROVE  IInv'
    BY <1>1, TapInv, SignOutInv, SignInInv, SignUpInv, AuthRefusesInv, RunValueInv,
       RunDoneInv, WireInv DEF Answers, Runs
<1>2. CASE UNCHANGED vars
    <2>1. AppOK'
        BY <1>2 DEF vars, auth, local, history, IInv, AppOK
    <2>2. Grows
        BY <1>2, SameGrows DEF vars, auth, local, history
    <2>. QED
        BY <1>2, <2>1, <2>2, Elsewhere DEF vars
<1>. QED
    BY <1>1, <1>2 DEF Next

LEMMA Inductive == Spec => []IInv
    BY IInvStart, IInvNext, PTL DEF Spec

\* What is in the tree is one of the values that may be written.
LEMMA TreeKept ==
    ASSUME IInv, NEW l \in Leaf
    PROVE  /\ data[l] \in Kinds
           /\ IF Taken(l[1]) THEN l[2] = "email" => data[l] \in Emails
              ELSE data[l] = Initial[l]
<1>1. R!Holding(Vals(claims), G(claims, Pasts))
    BY DEF IInv
<1>2. data[l] \in Vals(claims)[l]
    BY <1>1 DEF R!Holding
<1>. QED
    BY <1>2 DEF Vals, Taken

-----------------------------------------------------------------------------
(* The theorems. *)

\* What Auth, the screens and the tree keep is well typed, and the owner of every record
\* is an email or nobody: TypeOK of Accounts for any devices, people and faults.
THEOREM Typed == Spec => []TypeOK
<1>1. IInv => TypeOK
    <2>. SUFFICES ASSUME IInv PROVE TypeOK
        OBVIOUS
    <2>1. ASSUME NEW n \in Name PROVE Owner(data, n) \in Emails
        <3>. DEFINE l == <<n, "email">>
        <3>1. l \in Leaf /\ l[1] = n /\ l[2] = "email" /\ Initial[l] \in Emails
            BY InitialAssumption
        <3>. HIDE DEF l
        <3>2. data[l] \in Emails
            BY <3>1, TreeKept
        <3>. QED
            BY <3>2 DEF Owner, l
    <2>. QED
        BY <2>1 DEF IInv, AppOK, TypeOK
<1>. QED
    BY <1>1, Inductive, PTL

\* A block that dismisses a sign-in screen is on the main queue only for a screen on which
\* somebody has been signed in, or that is gone; so nobody is taken to the tabs without an
\* account, whoever signs out and in meanwhile.
THEOREM NoTabsWithoutAccount == Spec => []TabsAreSignedIn
<1>1. IInv => TabsAreSignedIn
    BY DEF IInv, AppOK, TabsAreSignedIn
<1>. QED
    BY <1>1, Inductive, PTL

\* insertUser writes the tree of all users back from what a device has read, sometimes
\* again after a lost connection: the records of those nobody signs up as stay as they
\* were, with any number of devices.
THEOREM RecordsStayAsTheyWere == Spec => []RecordsKept
<1>1. IInv => RecordsKept
    BY TreeKept DEF RecordsKept
<1>. QED
    BY <1>1, Inductive, PTL
=============================================================================
