---------------------------- MODULE Relationships ----------------------------
(***************************************************************************)
(* Profiles (ProfileViewController.swift): the user of a device visits     *)
(* profiles and leaves them.  The header of a profile is configured when a *)
(* DispatchGroup entered three times has been left by the observers of the *)
(* user's lists; its button follows or unfollows the user.  Every observer *)
(* stays, those of the profiles that were left too: the ones of a header   *)
(* leave its group whenever a list changes, and leaving a group that       *)
(* nobody is in stops the app.                                             *)
(***************************************************************************)
EXTENDS DatabaseManager

CONSTANTS
    Account,    \* Account[d]: the username kept in d's UserDefaults at the start,
                \* NoName when none is
    Profile,    \* the users whose profiles are visited
    MaxGroups,  \* bound on the groups made on a device before a profile is visited
    MaxTaps     \* bound on the taps on Follow and Unfollow

Names(list) == {list[i] : i \in DOMAIN list}

Sides == {"followers", "following"}

\* What the lists of the tree may name.
Entry == Name \cup UNION {Names(Initial[l]) : l \in Leaf}

\* Followers and followed are kept by their usernames.
ASSUME InitialAssumption ==
    /\ Initial \in [Leaf -> Seq(Entry)]
    /\ \A l \in Leaf : l[2] \in Sides => Names(Initial[l]) \subseteq Name
    /\ Unknown \notin Seq(Entry)

ASSUME AccountAssumption ==
    /\ Account \in [Device -> Name \cup {NoName}]
    /\ Profile \subseteq Name
    /\ MaxGroups \in Nat
    /\ MaxTaps \in Nat

VARIABLES
    profile,    \* profile[d]: the profile that d shows
    groups,     \* groups[d]: the DispatchGroups of the headers made on d so far
    username,   \* username[d]: what d's UserDefaults keeps
    asked,      \* the pairs <<who, whom>> of the taps on Follow so far
    dropped,    \* the same for Unfollow
    taps        \* how many

screens == <<profile, groups, username>>
history == <<asked, dropped, taps>>
vars == <<database, screens, history>>

\* What d shows when it shows no profile, and when its app has crashed.
Home == [screen |-> "home"]
Crashed == [screen |-> "none"]

\* A ProfileViewController; number tells those of a device apart.
Page == [user : Name, number : Nat]

\* What it keeps while it is shown.
Shown ==
    [screen : {"profile"},
     page : Page,
     isfollower : BOOLEAN,
     ready : BOOLEAN]       \* the header has its viewModel

\* A DispatchGroup: the profile whose header it is for, and who is still to leave.
Group == [page : Page, left : Nat]

IsShown(d, page) == profile[d].screen = "profile" /\ profile[d].page = page

isCurrentUserProfile(d) ==
    /\ username[d] # NoName
    /\ lowercased[profile[d].page.user] = lowercased[username[d]]

Init ==
    /\ DB!Init
    /\ profile = [d \in Device |-> Home]
    /\ groups = [d \in Device |-> <<>>]
    /\ username = Account
    /\ asked = {}
    /\ dropped = {}
    /\ taps = 0

\* (mutant) Only the two lists are waited for.
EntersTwice == 2

Enters == 3

\* The closures that collectionView:viewForSupplementaryElementOfKind: registers.
ShowHeader(k, me, user, group) ==
    isValidRelationship(
        getRelationShips(getRelationShips(k, user, "followers", group),
                         user, "following", group),
        me, user, group)

\* reloadData: the header is made again, with a group of its own; k is the client.
Reload(d, k, page) ==
    /\ groups' = [groups EXCEPT ![d] = Append(@, [page |-> page, left |-> Enters])]
    /\ client' = [client EXCEPT ![d] =
                    ShowHeader(k, username[d], page.user, Len(groups[d]) + 1)]

\* A profile is pushed: its posts are fetched and it is laid out.
Visit(d) ==
    /\ DB!Idle(d)
    /\ profile[d] = Home
    /\ Len(groups[d]) < MaxGroups
    /\ \E user \in Profile :
        LET page == [user |-> user, number |-> Len(groups[d]) + 1]
        IN  /\ profile' = [profile EXCEPT ![d] =
                            [screen |-> "profile", page |-> page,
                             isfollower |-> FALSE, ready |-> FALSE]]
            /\ Reload(d, getPosts(client[d], user, page), page)
    /\ UNCHANGED <<data, sub, in, drops, username, history>>

\* The profile is popped; its observers stay, with the groups that they leave.
Leave(d) ==
    /\ DB!Idle(d)
    /\ profile[d].screen = "profile"
    /\ profile' = [profile EXCEPT ![d] = Home]
    /\ UNCHANGED <<database, groups, username, history>>

\* didTapSignOut, in the settings that one's own profile leads to: the username is
\* no longer kept, and the root is shown. (Nobody signs in again: a sign-in that
\* finds no record keeps no username either.)
SignOut(d) ==
    /\ DB!Idle(d)
    /\ profile[d].screen = "profile"
    /\ isCurrentUserProfile(d)
    /\ username' = [username EXCEPT ![d] = NoName]
    /\ profile' = [profile EXCEPT ![d] = Home]
    /\ UNCHANGED <<database, groups, history>>

\* The button of the header; on one's own profile it opens the editor, and without a
\* username kept it does nothing.
TapPrimary(d) ==
    /\ DB!Idle(d)
    /\ profile[d].screen = "profile"
    /\ profile[d].ready
    /\ ~isCurrentUserProfile(d)
    /\ taps < MaxTaps
    /\ taps' = taps + 1
    /\ LET page == profile[d].page
           op == IF profile[d].isfollower THEN "unfollow" ELSE "follow"
           pairs == IF username[d] = NoName THEN {}
                    ELSE {<<lowercased[username[d]], lowercased[page.user]>>}
       IN  /\ client' = [client EXCEPT ![d] =
                            updateRelationship(@, op, username[d], page.user, page)]
           /\ asked' = IF op = "follow" THEN asked \cup pairs ELSE asked
           /\ dropped' = IF op = "unfollow" THEN dropped \cup pairs ELSE dropped
    /\ UNCHANGED <<data, sub, in, drops, screens>>

\* The app is gone with all that its database client kept in memory, the closures
\* that leave its groups among it.
Crash(d) ==
    /\ profile' = [profile EXCEPT ![d] = Crashed]
    /\ client' = [client EXCEPT ![d] = [DB!ClientInit EXCEPT !.conn = FALSE]]
    /\ sub' = [sub EXCEPT ![d] = {}]
    /\ in' = [in EXCEPT ![d] = <<>>]

\* The closures run on the main queue; those of a header first show what they were
\* called with and then leave their group.
RunStale(d, r) ==
    /\ DB!Stale(client[d], r)
    /\ client' = [client EXCEPT ![d] = DB!TakeValue(@, r)]
    /\ UNCHANGED <<sub, in, profile, groups>>

RunUpdate(d, r) ==
    /\ r.tag.op \in {"follow", "unfollow"}
    /\ client' = [client EXCEPT ![d] =
                    ListChanged(DB!Begin(@, r), r.tag, Head(@.main).view)]
    /\ UNCHANGED <<sub, in, profile, groups>>

\* fetchPosts: the view is reloaded when the posts have come.
RunPosts(d, r) ==
    /\ r.tag.op = "posts"
    /\ client' = [client EXCEPT ![d] =
                    Dispatch(DB!Begin(@, r), [op |-> "reload", page |-> r.tag.page])]
    /\ UNCHANGED <<sub, in, profile, groups>>

RunHeader(d, r) ==
    /\ r.tag.op = "header"
    /\ LET k == DB!Begin(client[d], r)
           list == Head(client[d].main).view[r.tag.at]
           group == r.tag.group
           page == groups[d][group].page
           left == groups[d][group].left
       IN  \/ /\ left = 0
              /\ Crash(d)
              /\ UNCHANGED groups
           \/ /\ left > 0
              /\ groups' = [groups EXCEPT ![d][group].left = left - 1]
              /\ profile' = IF r.tag.shows = "isfollower" /\ IsShown(d, page)
                            THEN [profile EXCEPT ![d].isfollower =
                                    isMember(list, lowercased[Account[d]])]
                            ELSE profile
              /\ client' = [client EXCEPT ![d] =
                    IF left = 1 THEN Dispatch(k, [op |-> "notify", page |-> page])
                    ELSE k]
              /\ UNCHANGED <<sub, in>>

RunValue(d) ==
    /\ DB!Idle(d)
    /\ \E r \in DB!Ready(client[d]) :
        IF DB!Stale(client[d], r)
        THEN RunStale(d, r)
        ELSE RunUpdate(d, r) \/ RunPosts(d, r) \/ RunHeader(d, r)
    /\ UNCHANGED <<data, drops, username, history>>

\* The blocks that the app dispatches, and the completions of its writes, which
\* dispatch one when the write was accepted. Those of a profile that was left show
\* nothing: its view is in no window. (No completion is ever reached: the write makes
\* a header leave its group before it can be answered.)
RunDone(d) ==
    /\ DB!Idle(d)
    /\ client[d].main # <<>>
    /\ Head(client[d].main).kind = "done"
    /\ LET e == Head(client[d].main)
           k == DB!TakeDone(client[d])
           page == e.tag.page
           becomes(k2) == /\ client' = [client EXCEPT ![d] = k2]
                          /\ UNCHANGED <<profile, groups>>
       IN  CASE e.tag.op \in {"follow", "unfollow"} ->
                    becomes(IF e.ok
                            THEN Dispatch(k, [op |-> "toggled", page |-> page,
                                              to |-> e.tag.op = "follow"])
                            ELSE k)
             [] e.tag.op \notin {"follow", "unfollow"} /\ ~IsShown(d, page) -> becomes(k)
             [] e.tag.op = "notify" /\ IsShown(d, page) ->
                    /\ profile' = [profile EXCEPT ![d].ready = TRUE]
                    /\ client' = [client EXCEPT ![d] = k]
                    /\ UNCHANGED groups
             [] e.tag.op = "reload" /\ IsShown(d, page) ->
                    Reload(d, k, page) /\ UNCHANGED profile
             [] e.tag.op = "toggled" /\ IsShown(d, page) ->
                    /\ profile' = [profile EXCEPT ![d].isfollower = e.tag.to]
                    /\ Reload(d, k, page)
    /\ UNCHANGED <<data, sub, in, drops, username, history>>

\* The user starts the app again.
Relaunch(d) ==
    /\ profile[d] = Crashed
    /\ profile' = [profile EXCEPT ![d] = Home]
    /\ UNCHANGED <<database, groups, username, history>>

Network(d) ==
    /\ profile[d] # Crashed
    /\ DB!Network(d)
    /\ UNCHANGED <<screens, history>>

Disconnect(d) ==
    /\ DB!Disconnect(d)
    /\ UNCHANGED <<screens, history>>

Runs(d) == RunValue(d) \/ RunDone(d)

Next ==
    \E d \in Device :
        \/ Visit(d) \/ Leave(d) \/ SignOut(d) \/ TapPrimary(d) \/ Relaunch(d)
        \/ Runs(d)
        \/ Network(d) \/ Disconnect(d)

Spec == Init /\ [][Next]_vars

\* Runs(d) is enabled.
HasWork(d) == DB!Idle(d) /\ client[d].main # <<>>

\* Network(d) is enabled on a phone that is connected.
HasMessages(d) ==
    /\ profile[d] # Crashed
    /\ ~DB!Idle(d) \/ client[d].out # {} \/ in[d] # <<>>

\* A lost connection is made again, messages are served and received, and the main
\* queues make progress (the first two conjuncts are WF_vars(Network(d)), the third is
\* WF_vars(Runs(d))); the users need not tap or start the app.
Fairness ==
    \A d \in Device :
        /\ WF_vars(~client[d].conn /\ Network(d))
        /\ []<>~HasMessages(d) \/ []<><<Network(d)>>_vars
        /\ []<>~HasWork(d) \/ []<><<Runs(d)>>_vars

FairSpec == Spec /\ Fairness

-----------------------------------------------------------------------------
(* Properties. *)

\* The pairs the tree names, read from the one side and from the other.
Following(tree) ==
    UNION {{<<l[1], n>> : n \in Names(tree[l])} :
            l \in {k \in Leaf : k[2] = "following"}}
Followed(tree) ==
    UNION {{<<n, l[1]>> : n \in Names(tree[l])} :
            l \in {k \in Leaf : k[2] = "followers"}}

\* The screens are well formed and the lists hold usernames.
TypeOK ==
    /\ profile \in [Device -> Shown \cup {Home, Crashed}]
    /\ groups \in [Device -> Seq(Group)]
    /\ username \in [Device -> Name \cup {NoName}]
    /\ asked \in SUBSET (Name \X Name)
    /\ dropped \in SUBSET (Name \X Name)
    /\ taps \in Nat
    /\ \A l \in Leaf : l[2] \in Sides => Names(data[l]) \subseteq Name

\* Nobody is made to follow or to be followed: a pair that a list names was there
\* at the start or has been asked for. Two devices write back whole lists, each with
\* the names its closures captured, and an app may crash with a write under way.
OnlyAsked ==
    /\ Following(data) \subseteq Following(Initial) \cup asked
    /\ Followed(data) \subseteq Followed(Initial) \cup asked

\* A follower that nobody asks to drop is never lost, although every tap writes
\* back the whole of a list that other devices change too, from a view that may
\* be out of date.
KeepsOthers ==
    /\ Following(Initial) \ dropped \subseteq Following(data)
    /\ Followed(Initial) \ dropped \subseteq Followed(data)

\* The DispatchGroup of the header: with one device, the header is configured when
\* all that it shows has been read, and not before, whatever observers of profiles
\* visited earlier are called meanwhile.
HeaderIsComplete ==
    \A d \in Device :
        profile[d].screen = "profile" /\ profile[d].ready =>
            \A l \in User(lowercased[profile[d].page.user]) :
                l[2] \in Sides =>
                    DB!Sees(client[d])[l] # Unknown

\* An app does not crash while nobody taps, although its users leave profiles and
\* visit them again with the observers of the earlier visits still there, and although
\* its connection may be lost and every observer listened for again: no observer is
\* called again with what it has been called with.
NoTapNoCrash == taps = 0 => \A d \in Device : profile[d] # Crashed

\* A profile that is visited while a username is kept gets its header, through lost
\* connections, unless the user leaves it. (When none is kept isValidRelationship
\* returns at once, the group is never left, and the header stays empty.)
HeaderIsShown ==
    \A d \in Device :
        profile[d].screen = "profile" /\ username[d] # NoName ~>
            profile[d].screen # "profile" \/ profile[d].ready

\* "follow or unfolow current users prfile that we are viewing"
\* (ProfileViewController.swift): a tap on Follow puts each user in the other's
\* list.
FollowIsCarriedOut ==
    \A n, m \in Name :
        <<n, m>> \in asked ~> <<n, m>> \in Following(data) \cap Followed(data)

=============================================================================
