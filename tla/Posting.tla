------------------------------- MODULE Posting -------------------------------
(***************************************************************************)
(* Posting a video (CaptionViewController.didTapPost): the file is         *)
(* uploaded to Storage under a name generated for the post, then the       *)
(* record of the user is read from the database and written back with the  *)
(* post added.  Each of the three steps answers later, on the main queue,  *)
(* and the ones in between look the username up again; the user may tap    *)
(* Post again, or sign in to another account, while they are under way.    *)
(***************************************************************************)
EXTENDS DatabaseManager

CONSTANTS
    Account,    \* Account[d]: the username kept in d's UserDefaults at the start
    File,       \* the names generated for the posts
    MaxAtOnce,  \* how many posts of a device may be under way at once
    MayFail,    \* whether an upload may fail
    MaySwitch   \* whether the users sign out and in while the app runs

Files(list) == {list[i] : i \in DOMAIN list}

\* What the lists of the tree name at the start.
Entry == UNION {Files(Initial[l]) : l \in Leaf}

\* The names generated for the posts are new.
ASSUME InitialAssumption ==
    /\ Initial \in [Leaf -> Seq(Entry)]
    /\ Entry \cap File = {}
    /\ Unknown \notin Seq(Entry \cup File)

ASSUME PostingAssumption ==
    /\ Account \in [Device -> Name]
    /\ MaxAtOnce \in Nat
    /\ MayFail \in BOOLEAN
    /\ MaySwitch \in BOOLEAN

VARIABLES
    username,   \* username[d]: what d's UserDefaults keeps
    uploads,    \* the uploads under way
    stored,     \* the files in Storage, as pairs <<folder, file>>
    outcome,    \* outcome[f]: what the user has been told about the post f
    crowded     \* history: a device has posted while another post was under way

vars == <<database, username, uploads, stored, outcome, crowded>>

Upload == [device : Device, folder : Name, file : File]

Init ==
    /\ DB!Init
    /\ username = Account
    /\ uploads = {}
    /\ stored = {}
    /\ outcome = [f \in File |-> [device |-> NoName, is |-> "none"]]
    /\ crowded = FALSE

Told(f, what) == [outcome EXCEPT ![f].is = what]

UnderWay(d) ==
    {f \in File : outcome[f].device = d /\ outcome[f].is = "posting"}

\* (mutant) The username is not looked at.
UploadsAnyway(d, f) == {[device |-> d, folder |-> username[d], file |-> f]}

\* uploadVideo: it returns without a word when no username is kept.
uploadVideo(d, f) ==
    IF username[d] = NoName
    THEN {} ELSE {[device |-> d, folder |-> username[d], file |-> f]}

TapPost(d) ==
    /\ DB!Idle(d)
    /\ Cardinality(UnderWay(d)) < MaxAtOnce
    /\ crowded' = (crowded \/ UnderWay(d) # {})
    /\ \E f \in File :
        /\ outcome[f].is = "none"
        /\ outcome' = [outcome EXCEPT ![f] = [device |-> d, is |-> "posting"]]
        /\ uploads' = uploads \cup uploadVideo(d, f)
    /\ UNCHANGED <<database, username, stored>>

\* putFile ends, and its completion dispatches a block to the main queue.
StorageEnds(d) ==
    /\ DB!Idle(d)
    /\ \E u \in uploads, ok \in BOOLEAN :
        /\ u.device = d
        /\ ok \/ MayFail
        /\ uploads' = uploads \ {u}
        /\ stored' = IF ok THEN stored \cup {<<u.folder, u.file>>} ELSE stored
        /\ client' = [client EXCEPT ![d] =
                        Dispatch(@, [op |-> "uploaded", file |-> u.file, ok |-> ok])]
    /\ UNCHANGED <<data, sub, in, drops, username, outcome, crowded>>

\* (mutant) The post is inserted although its video was not uploaded.
InsertsAnyway(tag) == TRUE

\* The upload's block goes on with the database only when it ended well.
Proceeds(tag) == tag.ok

\* The blocks on the main queue: an upload has ended, a record has been written.
RunDone(d) ==
    /\ DB!Idle(d)
    /\ client[d].main # <<>>
    /\ Head(client[d].main).kind = "done"
    /\ LET e == Head(client[d].main)
           k == DB!TakeDone(client[d])
           f == e.tag.file
           ends(what, k2) == /\ outcome' = Told(f, what)
                             /\ client' = [client EXCEPT ![d] = k2]
       IN  CASE e.tag.op = "posted" ->
                    ends(IF e.ok THEN "posted" ELSE "failed", k)
             [] e.tag.op = "uploaded" /\ Proceeds(e.tag) /\ username[d] # NoName ->
                    ends("posting", insertPost(k, username[d], f))
             [] OTHER -> ends("failed", k)
    /\ UNCHANGED <<data, sub, in, drops, username, uploads, stored, crowded>>

\* The record of the user has been read.
RunValue(d) ==
    /\ DB!Idle(d)
    /\ \E r \in DB!Ready(client[d]) :
        LET view == Head(client[d].main).view
            k == client[d]
        IN  IF DB!Stale(k, r)
            THEN /\ client' = [client EXCEPT ![d] = DB!TakeValue(k, r)]
                 /\ UNCHANGED outcome
            ELSE IF Exists(view, r.tag.user)
            THEN /\ client' = [client EXCEPT ![d] =
                                PostRead(DB!Begin(k, r), view, r.tag)]
                 /\ UNCHANGED outcome
            ELSE /\ client' = [client EXCEPT ![d] = DB!Begin(k, r)]
                 /\ outcome' = Told(r.tag.file, "failed")
    /\ UNCHANGED <<data, sub, in, drops, username, uploads, stored, crowded>>

\* The user signs out, or in to an account.
SwitchAccount(d) ==
    /\ MaySwitch
    /\ \E n \in Name \cup {NoName} :
        /\ n # username[d]
        /\ username' = [username EXCEPT ![d] = n]
    /\ UNCHANGED <<database, uploads, stored, outcome, crowded>>

Network(d) ==
    /\ DB!Network(d)
    /\ UNCHANGED <<username, uploads, stored, outcome, crowded>>

Disconnect(d) ==
    /\ DB!Disconnect(d)
    /\ UNCHANGED <<username, uploads, stored, outcome, crowded>>

Runs(d) == RunValue(d) \/ RunDone(d)

Next ==
    \E d \in Device :
        \/ TapPost(d) \/ SwitchAccount(d)
        \/ StorageEnds(d) \/ Runs(d)
        \/ Network(d) \/ Disconnect(d)

Spec == Init /\ [][Next]_vars

\* Runs(d) is enabled.
HasWork(d) == DB!Idle(d) /\ client[d].main # <<>>

\* Uploads end, the network and the main queue make progress (the last conjunct is
\* WF_vars(Runs(d))); nobody has to tap.
Fairness ==
    \A d \in Device :
        /\ WF_vars(StorageEnds(d))
        /\ WF_vars(Network(d))
        /\ []<>~HasWork(d) \/ []<><<Runs(d)>>_vars

FairSpec == Spec /\ Fairness

-----------------------------------------------------------------------------
(* Properties. *)

\* Where the tree lists f.
ListedAt(f) ==
    {l \in Leaf : l[2] = "posts" /\ f \in Files(data[l])}

\* What the user is told is one of four things, and posts list files.
TypeOK ==
    /\ username \in [Device -> Name \cup {NoName}]
    /\ uploads \in SUBSET Upload
    /\ stored \in SUBSET (Name \X File)
    /\ outcome \in [File -> [device : Device \cup {NoName},
                             is : {"none", "posting", "posted", "failed"}]]
    /\ \A l \in Leaf : l[2] = "posts" => Files(data[l]) \subseteq Entry \cup File

\* insertPost: when posts come one after the other, a post that the user has been told
\* of as posted is listed and stays listed, although every later post writes a whole
\* record back from what the device has read, sometimes again after a lost connection,
\* the server may refuse, and the user may change accounts on the way.
PostsKept ==
    ~crowded => \A f \in File : outcome[f].is = "posted" => ListedAt(f) # {}

\* A video is listed only when it is in Storage, wherever the accounts went in the
\* meantime.
ListedIsStored ==
    \A f \in File : ListedAt(f) # {} => \E n \in Name : <<n, f>> \in stored

\* A post is listed once: in one account's list, and once in that list, though the
\* write may be sent again and the user may change accounts at any point.
ListedOnce ==
    \A f \in File :
        /\ Cardinality(ListedAt(f)) <= 1
        /\ \A l \in ListedAt(f) :
            Cardinality({i \in DOMAIN data[l] : data[l][i] = f}) = 1

\* The user of didTapPost is told how an upload that has begun went on, through lost
\* connections and changes of account: the progress indicator goes away. (With two
\* posts at once, a write's answer may be held back for good: see README.)
PostEnds ==
    \A f \in File : (\E u \in uploads : u.file = f)
                        ~> (crowded \/ outcome[f].is # "posting")

=============================================================================
