--------------------------- MODULE DatabaseManager ---------------------------
(***************************************************************************)
(* DatabaseManager.swift: what the app keeps in the Realtime Database and  *)
(* the calls it makes on it.  The methods are operators on the state of a  *)
(* device's database client; the modules of the app compose them into      *)
(* steps.  A closure is a tag: the record of what it captured, and of the  *)
(* method that made it (op).                                               *)
(***************************************************************************)
EXTENDS Naturals, Sequences, FiniteSets

CONSTANTS
    Device,     \* phones running the app
    Name,       \* usernames, as typed
    lowercased, \* lowercased[n]: the username n with its capitals lowered
    NoName,     \* no username is kept in UserDefaults
    Leaf,       \* the entries of the tree that the run is about: a run about one
                \* list leaves the other, which shares nothing with it, out
    Unknown,    \* a leaf that a device's server cache has no data for
    Initial,    \* the tree at the start
    MaxDrops,   \* bound on the connections lost
    MayReject,  \* whether the server may refuse a write
    Reuse       \* whether the clients give their ids again

ASSUME NameAssumption ==
    /\ lowercased \in [Name -> Name]
    /\ \A n \in Name : lowercased[lowercased[n]] = lowercased[n]
    /\ NoName \notin Name

\* users/<name>/<field>
Field == {"email", "posts", "followers", "following"}

ASSUME LeafAssumption == Leaf \subseteq Name \X Field

ASSUME FaultAssumption ==
    MaxDrops \in Nat /\ MayReject \in BOOLEAN /\ Reuse \in BOOLEAN

VARIABLES data, sub, in, client, drops

database == <<data, sub, in, client, drops>>

\* A list with no element is not in the tree.
Nothing == <<>>

User(n) == {l \in Leaf : l[1] = n}

DB == INSTANCE RealtimeDatabase
        WITH Client <- Device, Absent <- Nothing, Value <- {Nothing},
             Path <- {Leaf}, Tag <- {}, MaxId <- 0

-----------------------------------------------------------------------------
(* The calls they are made of. *)

\* A snapshot of users/<n> is a dictionary when one of its leaves is there.
Exists(view, n) == \E l \in User(n) : view[l] # Nothing

\* observe: the closure stays for as long as the app runs.
Observe(k, path, tag) == DB!Observe(k, path, FALSE, tag)

\* observeSingleEvent
Ask(k, path, tag) == DB!Observe(k, path, TRUE, tag)

\* DispatchQueue.main.async: a block of the app goes behind those of the database.
Dispatch(k, tag) ==
    [k EXCEPT !.main = Append(@, [kind |-> "done", tag |-> tag, ok |-> TRUE])]

-----------------------------------------------------------------------------
(* updateRelationship, getRelationShips, isValidRelationship *)

\* What is to be done to the two lists of a relationship; page is the profile whose
\* button was tapped.
Change(op, n, field, other, page) ==
    [op |-> op, at |-> <<n, field>>, name |-> other, page |-> page]

Changes(op, me, user, page) ==
    <<Change(op, lowercased[me], "following", lowercased[user], page),
      Change(op, lowercased[user], "followers", lowercased[me], page)>>

\* A list is observed: the closure runs again whenever the list changes.
Watches(k, at, tag) == IF at \in Leaf THEN Observe(k, {at}, tag) ELSE k

\* Nothing is done, and nobody told, when no username is kept.
updateRelationship(k, op, me, user, page) ==
    IF me = NoName
    THEN k
    ELSE LET changes == Changes(op, me, user, page)
         IN  Watches(Watches(k, changes[1].at, changes[1]),
                     changes[2].at, changes[2])

\* (mutant) The whole User goes into the list instead of its username.
InsertsUser(list, name) == Append(list, [username |-> name])

Inserted(list, name) == Append(list, name)

\* (mutant) The first entry goes, whoever it is.
RemovesFirst(list, name) == IF list = <<>> THEN list ELSE Tail(list)

\* removeAll: every entry that is name goes.
Removed(list, name) ==
    LET without[i \in 0..Len(list)] ==
            IF i = 0 THEN <<>>
            ELSE IF list[i] = name THEN without[i - 1]
            ELSE Append(without[i - 1], list[i])
    IN  without[Len(list)]

Written(k, change, list) ==
    DB!SetValue(k, [l \in {change.at} |-> list], change)

\* (mutant) A list that is not there is made, whatever the button was.
MakesList(k, change, view) ==
    LET list == view[change.at]
    IN  IF change.op = "follow" \/ list = Nothing
        THEN Written(k, change, Inserted(list, change.name))
        ELSE Written(k, change, Removed(list, change.name))

\* The closures of updateRelationship: k has just taken the callback. There is
\* nothing to remove from a list that is not there.
ListChanged(k, change, view) ==
    LET list == view[change.at]
    IN  CASE change.op = "follow" -> Written(k, change, Inserted(list, change.name))
          [] change.op = "unfollow" /\ list # Nothing ->
                Written(k, change, Removed(list, change.name))
          [] OTHER -> k

\* What a closure of a profile's header shows, and the group it leaves.
Shows(n, field, what, group) ==
    [op |-> "header", at |-> <<lowercased[n], field>>, shows |-> what,
     group |-> group]

\* getRelationShips, for either list
getRelationShips(k, n, field, group) ==
    Watches(k, <<lowercased[n], field>>, Shows(n, field, field, group))

\* The list is not observed, and the group never left, when no username is kept.
isValidRelationship(k, me, n, group) ==
    IF me = NoName
    THEN k
    ELSE Watches(k, <<lowercased[n], "followers">>,
                 Shows(n, "followers", "isfollower", group))

\* The posts of users/<lowercased n> are asked for; page is the profile to show them.
getPosts(k, n, page) ==
    LET at == <<lowercased[n], "posts">>
    IN  IF at \in Leaf THEN Ask(k, {at}, [op |-> "posts", page |-> page]) ELSE k

isMember(list, name) == \E i \in DOMAIN list : list[i] = name

-----------------------------------------------------------------------------
(* insertPost, insertUser, getUsername *)

\* The record of n is asked for, to be written back with one more post.
insertPost(k, n, file) ==
    Ask(k, User(n), [op |-> "insertPost", user |-> n, file |-> file])

\* (mutant) The record is written back with its first post only.
FirstPost(view, n, file) ==
    [l \in User(n) |-> IF l[2] = "posts" THEN <<file>> ELSE view[l]]

\* The record as it is written back, with the post.
WithPost(view, n, file) ==
    [l \in User(n) |-> IF l[2] = "posts" THEN Append(view[l], file) ELSE view[l]]

\* The closure of insertPost for a snapshot that is a dictionary.
PostRead(k, view, tag) ==
    DB!SetValue(k, WithPost(view, tag.user, tag.file), [tag EXCEPT !.op = "posted"])

\* The whole tree is asked for, to be written back with one more user; on is the
\* screen that the completion is for.
insertUser(k, n, email, on) ==
    Ask(k, Leaf, [op |-> "insertUser", user |-> n, email |-> email, on |-> on])

\* (mutant) The users root is created again.
OnlyUser(view, n, email) ==
    [l \in Leaf |-> IF l = <<n, "email">> THEN <<email>> ELSE Nothing]

\* The record of n is replaced by one that has an email only.
WithUser(view, n, email) ==
    [l \in Leaf |-> CASE l = <<n, "email">> -> <<email>>
                      [] l[1] = n /\ l[2] # "email" -> Nothing
                      [] OTHER -> view[l]]

\* The closure of insertUser; the root is created when it is not there.
UsersRead(k, view, tag) ==
    DB!SetValue(k, WithUser(view, tag.user, tag.email), [tag EXCEPT !.op = "inserted"])

getUsername(k, email) == Ask(k, Leaf, [op |-> "getUsername", email |-> email])

\* (mutant) The email itself is answered.
TheEmail(view, email) == {email}

\* (mutant) The username of the first record is answered, whoever's it is.
AnyOwner(view, email) == {n \in Name : Exists(view, n)}

\* The usernames that getUsername may answer: those whose record has the email.
Matches(view, email) ==
    {n \in Name : <<n, "email">> \in Leaf /\ view[<<n, "email">>] = <<email>>}

=============================================================================
