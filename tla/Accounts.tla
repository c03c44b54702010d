------------------------------- MODULE Accounts -------------------------------
(***************************************************************************)
(* Accounts: AuthManager over Firebase Auth, and the sign-in, sign-up and  *)
(* settings screens that call it.  Auth knows an account by its email; the *)
(* username is in the database, in the tree of users that signing up reads *)
(* and writes back whole, and in the device's UserDefaults, which signing  *)
(* up sets at once and signing in when the tree has been read.             *)
(***************************************************************************)
EXTENDS DatabaseManager

CONSTANTS
    Email,          \* the emails of the people who use the devices
    Registered,     \* those that have an account at the start
    Nobody,         \* nobody is signed in
    MaxSignIns,     \* bound on the times somebody signs in or up
    MayRefuse,      \* whether Auth may refuse a call it could grant
    MayHurry        \* whether users go on before what they started is over

\* What is kept of an email: nothing, or the email.
Emails == {Nothing} \cup {<<e>> : e \in Email}

\* Every record has a place for an email.
ASSUME InitialAssumption ==
    /\ Initial \in [Leaf -> {Initial[l] : l \in Leaf}]
    /\ \A n \in Name : <<n, "email">> \in Leaf /\ Initial[<<n, "email">>] \in Emails
    /\ Unknown \notin {Initial[l] : l \in Leaf} \cup Emails

ASSUME AccountsAssumption ==
    /\ Nobody \notin Email
    /\ Registered \subseteq Email
    /\ MaxSignIns \in Nat
    /\ MayRefuse \in BOOLEAN
    /\ MayHurry \in BOOLEAN

VARIABLES
    accounts,   \* the emails Auth has an account for
    user,       \* user[d]: Auth.auth().currentUser of d
    username,   \* username[d]: what d's UserDefaults keeps
    screen,     \* screen[d]: the sign-in and sign-up screens when auth, or the tabs;
                \* no tells the sign-in screens of a device apart
    calls,      \* calls[d]: the calls to Auth that are under way on d; on is the
                \* screen that has made the call, and tap tells them apart
    signIns,    \* times somebody has signed in or up (bounds the runs)
    claims,     \* (history) the pairs <<email, username>> that Auth has signed up
    joined,     \* (history) those of them that the user has been told of as done
    hurried     \* (history) a user has gone on before what was started was over

auth == <<accounts, user, calls>>
local == <<username, screen>>
history == <<signIns, claims, joined, hurried>>
vars == <<database, auth, local, history>>

Call ==
    [op : {"signIn"}, email : Email, on : Nat, tap : Nat]
        \cup [op : {"signUp"}, email : Email, name : Name, on : Nat, tap : Nat]

\* A device without an account shows the sign-in screen: presentSignInIfNeeded.
Init ==
    /\ DB!Init
    /\ accounts = Registered
    /\ user = [d \in Device |-> Nobody]
    /\ username = [d \in Device |-> NoName]
    /\ screen = [d \in Device |-> [auth |-> TRUE, no |-> 0]]
    /\ calls = [d \in Device |-> {}]
    /\ signIns = 0
    /\ claims = {}
    /\ joined = {}
    /\ hurried = FALSE

\* The blocks dispatched to the main queue run before the user's next tap.
Blocks(k) == {i \in DOMAIN k.main : k.main[i].kind = "done"}

\* Nothing that the user of d started is still to be answered.
Waited(d) ==
    /\ calls[d] = {}
    /\ client[d].regs = {} /\ client[d].writes = {} /\ client[d].main = <<>>

\* No button is disabled while a call is under way.
MayTap(d) ==
    /\ DB!Idle(d)
    /\ Blocks(client[d]) = {}
    /\ MayHurry \/ Waited(d)
    /\ hurried' = (hurried \/ ~Waited(d))

TapSignIn(d) ==
    /\ MayTap(d)
    /\ screen[d].auth
    /\ signIns < MaxSignIns
    /\ signIns' = signIns + 1
    /\ \E e \in Email :
        calls' = [calls EXCEPT ![d] = @ \cup
                    {[op |-> "signIn", email |-> e, on |-> screen[d].no,
                      tap |-> signIns]}]
    /\ UNCHANGED <<database, accounts, user, local, claims, joined>>

TapSignUp(d) ==
    /\ MayTap(d)
    /\ screen[d].auth
    /\ signIns < MaxSignIns
    /\ signIns' = signIns + 1
    /\ \E e \in Email, n \in Name :
        calls' = [calls EXCEPT ![d] = @ \cup
                    {[op |-> "signUp", email |-> e, name |-> n, on |-> screen[d].no,
                      tap |-> signIns]}]
    /\ UNCHANGED <<database, accounts, user, local, claims, joined>>

Answered(d, c) == calls' = [calls EXCEPT ![d] = @ \ {c}]

\* Auth answers the calls in any order. It refuses one: the screen stays, with an
\* alert, which the user closes.
AuthRefuses(d) ==
    /\ DB!Idle(d)
    /\ \E c \in calls[d] :
        /\ (c.op = "signIn" /\ c.email \in accounts)
            \/ (c.op = "signUp" /\ c.email \notin accounts) => MayRefuse
        /\ Answered(d, c)
    /\ UNCHANGED <<database, accounts, user, local, history>>

\* signIn: the username is asked for, and the screen goes away meanwhile.
SignIn(d) ==
    /\ DB!Idle(d)
    /\ \E c \in calls[d] :
        /\ c.op = "signIn"
        /\ c.email \in accounts
        /\ user' = [user EXCEPT ![d] = c.email]
        /\ client' = [client EXCEPT ![d] =
                        Dispatch(getUsername(@, c.email),
                                 [op |-> "dismiss", on |-> c.on])]
        /\ Answered(d, c)
    /\ UNCHANGED <<data, sub, in, drops, accounts, local, history>>

\* signUp: the account is made and signed in to, the username is kept, and the user
\* is inserted into the tree; nothing looks whether the username is taken.
SignUp(d) ==
    /\ DB!Idle(d)
    /\ \E c \in calls[d] :
        /\ c.op = "signUp"
        /\ c.email \notin accounts
        /\ accounts' = accounts \cup {c.email}
        /\ user' = [user EXCEPT ![d] = c.email]
        /\ username' = [username EXCEPT ![d] = c.name]
        /\ claims' = claims \cup {<<c.email, c.name>>}
        /\ client' = [client EXCEPT ![d] = insertUser(@, c.name, c.email, c.on)]
        /\ Answered(d, c)
    /\ UNCHANGED <<data, sub, in, drops, screen, signIns, joined, hurried>>

\* The tree of users has been read. getUsername answers nothing when no record has
\* the email.
RunValue(d) ==
    /\ DB!Idle(d)
    /\ \E r \in DB!Ready(client[d]) :
        LET k == client[d]
            view == Head(k.main).view
            becomes(k2) == client' = [client EXCEPT ![d] = k2]
            names == IF r.tag.op = "getUsername" THEN Matches(view, r.tag.email)
                     ELSE {}
        IN  IF DB!Stale(k, r)
            THEN becomes(DB!TakeValue(k, r)) /\ UNCHANGED username
            ELSE IF r.tag.op = "insertUser"
            THEN becomes(UsersRead(DB!Begin(k, r), view, r.tag)) /\ UNCHANGED username
            ELSE /\ becomes(DB!Begin(k, r))
                 /\ \E n \in IF names = {} THEN {username[d]} ELSE names :
                        username' = [username EXCEPT ![d] = n]
    /\ UNCHANGED <<data, sub, in, drops, auth, screen, history>>

\* (mutant) The block that dismisses a screen takes whatever screen is there.
AnyScreen(d, tag) == TRUE

\* The block dismisses its own screen, which does nothing when it is gone already.
ItsScreen(d, tag) == tag.on = screen[d].no

\* A write has been answered, or a screen goes away.
RunDone(d) ==
    /\ DB!Idle(d)
    /\ client[d].main # <<>>
    /\ Head(client[d].main).kind = "done"
    /\ LET e == Head(client[d].main)
           k == DB!TakeDone(client[d])
           inserted == e.tag.op = "inserted" /\ e.ok
       IN  /\ screen' = IF e.tag.op = "dismiss" /\ ItsScreen(d, e.tag)
                        THEN [screen EXCEPT ![d].auth = FALSE] ELSE screen
           /\ joined' = IF inserted
                        THEN joined \cup {<<e.tag.email, e.tag.user>>} ELSE joined
           /\ client' = [client EXCEPT ![d] =
                            IF inserted THEN Dispatch(k, [op |-> "dismiss", on |-> e.tag.on])
                            ELSE k]
    /\ UNCHANGED <<data, sub, in, drops, auth, username, signIns, claims, hurried>>

\* didTapSignOut: what UserDefaults keeps of the account is removed.
SignOut(d) ==
    /\ MayTap(d)
    /\ ~screen[d].auth
    /\ user' = [user EXCEPT ![d] = Nobody]
    /\ username' = [username EXCEPT ![d] = NoName]
    /\ screen' = [screen EXCEPT ![d] = [auth |-> TRUE, no |-> screen[d].no + 1]]
    /\ UNCHANGED <<database, accounts, calls, signIns, claims, joined>>

Network(d) ==
    /\ DB!Network(d)
    /\ UNCHANGED <<auth, local, history>>

Disconnect(d) ==
    /\ DB!Disconnect(d)
    /\ UNCHANGED <<auth, local, history>>

Answers(d) == SignIn(d) \/ SignUp(d) \/ AuthRefuses(d)
Runs(d) == RunValue(d) \/ RunDone(d)

Next ==
    \E d \in Device :
        \/ TapSignIn(d) \/ TapSignUp(d) \/ SignOut(d)
        \/ Answers(d) \/ Runs(d)
        \/ Network(d) \/ Disconnect(d)

Spec == Init /\ [][Next]_vars

\* Answers(d) and Runs(d) are enabled.
IsAsked(d) == DB!Idle(d) /\ calls[d] # {}
HasWork(d) == DB!Idle(d) /\ client[d].main # <<>>

\* Auth answers, the network and the main queue make progress (the first and the
\* last conjunct are WF_vars(Answers(d)) and WF_vars(Runs(d))).
Fairness ==
    \A d \in Device :
        /\ []<>~IsAsked(d) \/ []<><<Answers(d)>>_vars
        /\ WF_vars(Network(d))
        /\ []<>~HasWork(d) \/ []<><<Runs(d)>>_vars

FairSpec == Spec /\ Fairness

-----------------------------------------------------------------------------
(* Properties. *)

\* Who a tree says a username belongs to.
Owner(tree, n) == tree[<<n, "email">>]

Taken(n) == \E c \in claims : c[2] = n

\* The accounts, the screens and the owners are well typed.
TypeOK ==
    /\ accounts \subseteq Email
    /\ user \in [Device -> Email \cup {Nobody}]
    /\ username \in [Device -> Name \cup {NoName}]
    /\ screen \in [Device -> [auth : BOOLEAN, no : Nat]]
    /\ calls \in [Device -> SUBSET Call]
    /\ claims \in SUBSET (Email \X Name)
    /\ joined \in SUBSET claims
    /\ \A n \in Name : Owner(data, n) \in Emails

\* Signing up rewrites the tree of all users: the record of a user that nobody signs up
\* as is left as it was, whatever is sent again, and although the user may sign out and
\* in, or sign up once more, meanwhile.
RecordsKept ==
    \A l \in Leaf : ~Taken(l[1]) => data[l] = Initial[l]

\* Nobody is taken to the tabs without an account.
TabsAreSignedIn ==
    \A d \in Device : ~screen[d].auth => user[d] # Nobody

\* The username that a device keeps belongs to the account it is signed in to, as long
\* as the users have waited for one thing to be over before they started the next and
\* nothing is under way: the answer of one sign-in is not kept for another.
UsernameIsMine ==
    \A d \in Device :
        ~hurried /\ Waited(d) /\ username[d] # NoName =>
            \/ <<user[d], username[d]>> \in claims
            \/ Owner(Initial, username[d]) = <<user[d]>>

\* "insert new enrty" (DatabaseManager.swift): a user who has been told of a sign-up
\* as done is in the tree, with nobody else signing up under the name, as long as
\* nobody has signed up while another sign-up was under way (the closures of both
\* then write back the tree that both have read).
JoinedIsListed ==
    \A c \in joined :
        ~hurried /\ (\A b \in claims : b[2] = c[2] => b = c) => Owner(data, c[2]) = <<c[1]>>

\* A user who signs in and whose record is in the tree gets the username, through
\* lost connections, unless the user signs out or somebody takes the username.
UsernameComes ==
    \A d \in Device, n \in Name :
        ~screen[d].auth /\ Owner(Initial, n) = <<user[d]>> ~>
            username[d] = n \/ screen[d].auth \/ Taken(n)

\* A user whom Auth has signed up is inserted in the end, when the server does not
\* refuse and the users wait as for JoinedIsListed.
SignUpIsInserted ==
    \A c \in Email \X Name :
        c \in claims ~> \/ \E b \in claims : b[2] = c[2] /\ Owner(data, c[2]) = <<b[1]>>
                       \/ hurried

=============================================================================
