# A verification project for the TikTok clone

The app (`src/TikTok/TikTok`, about 5000 lines of Swift) is a set of screens over
three services of Firebase: Auth, Storage and the Realtime Database, with Crashlytics
beside them. It has no server of its own and no tests. What can go wrong in it goes
wrong between the screens, the completion handlers that Firebase calls later on the
main queue, several phones that share one database, lost connections, and, below all
that, in the threads of the libraries it is built with. Modelled here are the database
client (vendored under `src/TikTok/Pods`), the calls of `DatabaseManager`, the screens
that make them, leveldb, on which the client keeps what it has when it keeps it on
disk, and the handlers with which Crashlytics records the end of the process.

## Inventory

| Component | State it keeps | Operations | Talks to | What must hold |
|---|---|---|---|---|
| Realtime Database client (`FRepo`, `FSyncTree`, `FWriteTree`, `FPersistentConnection`) | server cache, pending writes, registrations, requests without an answer, answers held back | observe, observeSingleEvent, setValue, remove; messages, loss and restoring of the connection | the server; the main queue | every write answered once, no change missed, views never become incomplete |
| `DatabaseManager` | nothing but the standing observers it leaves behind | insertUser, getUsername, insertPost, getPosts, getRelationShips, isValidRelationship, updateRelationship | the client, UserDefaults | a call changes what it is about and nothing else, whoever calls at the same time |
| Profile (`ProfileViewController`, its header) | posts, lists, `isfollower`, one DispatchGroup per header | visit, follow, unfollow, reload | DatabaseManager | the header shows what has been read; a tap is carried out on both lists |
| Posting (`CaptionViewController`, `StorageManager`) | uploads under way, the progress indicator | Post | Storage, then DatabaseManager | a post reported as posted is listed, once, with its video stored, and stays |
| Accounts (`AuthManager`, sign-in, sign-up, settings, tab bar) | current user, username in UserDefaults, the screen presented | sign in, sign up, sign out | Auth, DatabaseManager | the username is the account's; nobody loses a record; no tabs without an account |
| leveldb (`db_impl.cc`, `version_set.cc`, ...) | memtables, logs, tables on levels, the manifest, the queue of writers, snapshots, `bg_error_` | Write, Get, iterators, snapshots; flush, compaction, deletion of files; Open | the file system; its background thread | writes are atomic and in order, acknowledged writes survive, snapshots stay, no needed file goes, nobody waits for ever |
| Crash handling (Crashlytics: `FIRCLS*`) | handlers installed, `crashOccurred`, suspended threads, files, the marker | the launch; a signal, a Mach exception, an uncaught exception | the kernel; the next launch | one crash is reported whole, by whoever handles it, no thread stays suspended, the process ends, the marker is true |
| Camera (`CameraViewController`) | recording, preview layer, the one file `video.mov` | record, next, close | Posting | the video uploaded is the one captioned; the camera is reset after posting |
| Notifications | rows, hidden flags | refresh, hide, follow | made-up data | the row removed is the row hidden |
| Home feed, comments | current page, comments sheet | scroll, open, close | Playback | scrolling is locked while the sheet is open |
| Playback (`PostViewController`, `PostCollectionViewCell`) | player, loop observer, reused cells | download URL, play, loop | Storage | a cell shows its own post |
| Explore | static content | search field | nothing | nothing stateful |

How they interact: a screen calls a manager with a closure; the manager calls the
database; the client does its work on a queue of its own and dispatches the closure
to the main queue, on which everything in the app runs. The closures read and write
UserDefaults and the screen that made them, which may be gone. Nothing orders one
call against another except the queues, and the only thing phones share is the tree
of the database:

    users/<name>/{email, posts, followers, following}

The client reaches leveldb through `FLevelDBStorageEngine.m` and `APLevelDB` when its
persistence is on (this app leaves it off): single puts and deletes and batches, all
with `sync = false`, one iterator at a time, never `CompactRange`. leveldb is modelled
as it is, with every option those may set. Crashlytics shares nothing with the rest
but the process: it may have to stop any thread of it at any point.

Hard behaviours: lists and records that are read, changed and written back whole;
observers that are never removed and run again on their own writes; completions that
come after the user has moved on or changed accounts; a username looked up anew at
every step; writes that are sent again after a lost connection; a lock given up in the
middle of a write or a merge; files deleted while others are being written; a crash
between any two of those steps; handlers of a crash that suspend one another.
`PROJECT.json` lists each of them at its line, with the properties that watch it.

## Modules

| Module | Models | Uses |
|---|---|---|
| `RealtimeDatabase` | the database client in every phone, the wire and the server; standing alone, any program that uses them | |
| `DatabaseManager` | the methods of the manager, as operators on the state of a client | instantiates `RealtimeDatabase` |
| `Relationships` | profile screens on several phones: header, follow, unfollow, crash, relaunch | `DatabaseManager` |
| `Posting` | `didTapPost`: Storage, then the database, while accounts change | `DatabaseManager` |
| `Accounts` | signing in, up and out: Auth, then the database | `DatabaseManager` |
| `VersionSet` | tables on levels: how they are searched, picked, merged, and how a version is edited | |
| `LevelDB` | the database: writers, the background thread, readers, files, faults, crashes | `VersionSet`, instantiates `KeyValueStore` |
| `KeyValueStore` | what leveldb promises: the abstract specification that `LevelDB` implements | |
| `CrashHandling` | the launch of Crashlytics, the three handlers, the suspension of threads, the marker | |
| `RealtimeDatabase_proofs`, `LevelDB_proofs`, `CrashHandling_proofs` | theorems | the module they are named for |
| `Listens_proofs` | theorems about the listens of `RealtimeDatabase` | `RealtimeDatabase_proofs` |
| `Provenance_proofs` | lemmas about what a program finds in the database | `RealtimeDatabase_proofs` |
| `Relationships_proofs`, `Posting_proofs`, `Accounts_proofs` | theorems | the module they are named for, instantiate `Provenance_proofs` |
| `MC*` | the small instances that TLC checks | |

**`RealtimeDatabase`.** The tree is a function on its leaves, a path is a set of
leaves, and `setValue` overwrites every leaf of its path. A client is a record:
`cache` (`FViewCache`), `writes` (`FWriteTree`), `regs` (`FView`), `out` and
`unacked` (requests on the wire, and the listens that `unackedListensCount`
counts), `held` (`putsToAck`), `flush` (inside `ackPuts`), `main` (the blocks
dispatched to the main queue). `Observe`, `SetValue` and `Unobserve` are operators
from record to record, so that a screen composes all the calls of one closure into
one step. `ServeListen`, `ServePut` ... are the server's; `ReceivePush`,
`ReceiveListen`, `ReceiveAck`, `AckPuts` are the client's handlers of its messages;
`Disconnect` and `Reconnect` are `onDisconnect` and `restoreState`.

**`DatabaseManager`.** What UserDefaults keeps is a username or `NoName`, with which
`updateRelationship` and `isValidRelationship` return at once. A closure is a tag: the record of what it captured and of the
method that made it. `ListChanged`, `PostRead` and `UsersRead` are the bodies of the
closures. A username is used as typed in some methods and in lower case in others,
and the operators follow the code in that (`lowercased`).

**`Relationships`.** `Visit` is a profile that is pushed: `viewDidLoad` and the first
layout; `Leave` one that is popped, while its observers and the groups they leave stay;
`SignOut` what the settings behind one's own profile do to it, after which no username
is kept. `TapPrimary` is the button of the header; `RunUpdate`, `RunHeader`, `RunPosts`
and `RunDone` the closures on the main queue. A header is made again whenever the view
is reloaded (`Reload`). A DispatchGroup is the page whose header it is for and the
number of those who are still to leave it; `groups[d]` has all that were made on a phone,
and a closure names its group by its place there, so that those of earlier visits are
told apart. Leaving a group nobody is in is `Crash`: libdispatch stops the process, and
what the client kept in memory is gone. Requests that had been sent may have been served
before, which the interleaving with `ServePut` covers. `Relaunch` starts the app again.

**`Posting`.** `TapPost`, `StorageEnds` (external: Storage answers), `RunDone` (the
upload's block, the write's completion) and `RunValue` (the record has been read).
`SwitchAccount` sums up what signing out and in does to UserDefaults. `crowded`
remembers that a post was begun while another one was under way.

**`Accounts`.** `SignIn`, `SignUp` and `AuthRefuses` are the answers of Auth with the
completion handlers of `AuthManager`; `RunValue` the closures of `insertUser` and
`getUsername`; `RunDone` the completions that dismiss the screen; `SignOut` the
handler of the settings screen. A call of Auth carries the number of the screen it was
made on, which is the one its completion dismisses; no button is disabled meanwhile, so
that several may be under way, answered in any order. `hurried` remembers that a user has not waited for
what was still under way.

**`VersionSet`, `LevelDB`.** An entry is a key, the sequence number of its write and
whether it is a deletion; a table is a number and a set of entries, a version a set of
tables per level, a log a sequence of records of which the first `synced` are safe.
`Write`, `Proceed` and `Return` are `DBImpl::Write` up to where it gives up the lock
(`MakeRoomForWrite` and `BuildBatchGroup` in `AtFront`); `AddRecord`, `Sync` and
`Insert` what the writer in front does without it; `Finish` what it does when it has it
again. The background thread is `NothingToDo`, `BeginFlush` and `EndOfTable`
(`CompactMemTable`), `Pick` (`PickCompaction` and the trivial move), `WriteOutput` and
`InstallCompactionResults` (`DoCompactionWork`), `ManifestWritten` and `ManifestFails`
(`LogAndApply` around its write), with `GoOn`, `EndOfCall`, `Collected`
(`DeleteObsoleteFiles`) as parts. `mutex_` is not a variable: an action is what one
thread does between two points at which the lock is released. `Crash` ends the process
(or the machine) at any point; `Recover` and `Opened` are `DB::Open`. `acked` and
`deletions` are history.

**`KeyValueStore`.** A map that is seen, a map that is kept for a crash, the batches
that are asked for and those that are kept and not yet seen; `Ask`, `Log`, `Commit`,
`Fail`, `Crash`.

**`CrashHandling`.** Threads are numbers, in the order in which `task_threads` lists
them; `pc[t]` is where a thread is. `Fail` and `FailInside` are what goes wrong,
`Raise` whom the kernel gives it to. `EnterSignal` is `FIRCLSSignalHandler`,
`Unregister` and `Reinstall` the server of Mach exceptions, `Terminate` the terminate
handler, which records nothing when it finds no active exception; `Check` and `Claim` are `FIRCLSContextMarkAndCheckIfCrashed`, which reads and
sets its flag in two steps; `Open`, `List`, `Suspend`, `SuspendCall`, `Record`, `Mark`,
`Resume` and `Handled` are `FIRCLSHandler` and what is around it. The blocks of
`FIRCLSContextInitialize` and the removal of the old marker are `RunBlock`.

### Abstractions

The client and the app:

- A handler of the client is one step, although calls hop from the main queue to
  the client's queue: the calls of one closure are not interleaved with messages,
  except that `ackPuts` is a loop of steps, because completions may be dispatched
  and messages wait.
- The response to a listen carries the data with it, where the wire has a data
  message followed by the response. Both arrive in order on one connection.
- A client is connected or not: being connected and being authenticated are one
  (`Reconnect` does what `onReady:` and `restoreState` do), so that a request made
  between the two is sent with the restored ones or after them.
- A first event is raised as soon as all leaves of the path are known, also through
  listens below it; the client waits for the path itself to be answered
  (`FSyncTree.m:542-571`).
- Listens that are refused (permission denied) are not modelled: the app passes no
  cancel block. Writes may be refused (`MayReject`).
- Values of the tree are sequences: an email is a sequence of one, a post is its
  file, a missing leaf is the empty sequence.
- `Leaf` holds the leaves a run is about. A method that touches a leaf outside it
  leaves it alone: it shares nothing with the others but the queue.
- The callbacks of a batch run by registration at each path and in no known order
  across paths, as the view cache of the client enumerates a dictionary.
- Ids are given again when `Reuse` (a run that never ends would count for ever);
  the standalone runs count as the client does, up to `MaxId`.
- A touch is handled after the blocks that were queued on the main queue before it
  (`Accounts!MayTap`); `Relationships` and `Posting` allow it at any time.
- A phone shows one profile at a time: the stacks of the tabs and the profiles that are
  pushed on one another are left out. `MaxGroups` counts the headers of all launches.
- After signing out nobody signs in again in `Relationships`; `Accounts` has that. There
  the alert of a refused sign-in is closed before its screen is dismissed.
- The runs are of usernames that are typed in lower case (`lowercased` is the identity);
  the theorems allow any idempotent function.
- A crash other than by the header and the app being killed are not modelled, nor is
  the write cache on disk (off in this app).

leveldb:

- The value of an entry is its sequence number. Sizes in bytes are not counted: where
  the code compares one with a limit, both outcomes are possible (group sizes, output
  files, growing the inputs, which level is due); a memtable is full above `BufferSize`
  entries.
- A log fits into one of its blocks of 32 KB, so that a torn record hides everything
  behind it (`Readable`); torn records of the manifest are left out: its last edit is
  there or not.
- An output of a merge gets its number and is written in one step (`WriteOutput`); the
  code gives up the lock in between (`db_impl.cc:786-800`), and looks for a full memtable
  while it writes (`db_impl.cc:907-912`), which here it does between two outputs.
- Tables that recovery writes are numbered one after the other.
- `Faults` says which file operations may fail. The shutdown, `CompactRange`,
  `DestroyDB`, `repair.cc`, `reuse_logs`, caches, block and table formats are left out.

Crashlytics:

- One thread runs the blocks of the global queues, one after the other.
- `task_threads` does not fail, no debugger is attached, and no other library has
  installed handlers. The user kills the app only before something has gone wrong.
- A report is the facts that a handler has told what has happened ("event") and has
  walked the stack of a thread ("stack"); formats and uploads are left out.

## Runs

| Run | Instance | Question | Why it is enough |
|---|---|---|---|
| `rtdb_two` | two clients, one node, one lost connection, fair | are writes accounted for, changes seen, and does everybody end up with the server's tree | two writes of each client may overlap on the node, on both sides of the loss |
| `rtdb_one` | one client, a parent and a child path, refusals, one lost connection | does what is seen stay whole, and what do answers show | both orders of observing and dropping parent and child, with a write over either (`rtdb_two` has single nodes; the replacement of listens is checked here and proved for any number in `Listens_proofs`) |
| `rel_two` | two phones that may show the profiles of the user of the first or of somebody else, whose list names the first user while the user's own does not name them; two taps, writes refused, no lost connection | do the lists change by what was asked only | both taps on one phone, or one on each, follow or unfollow; each list lacks someone whom a wrong write would add and names someone whom it would lose; one tap crashes phones, which start again |
| `rel_one` | one phone that shows its user's profile and another one, two visits, one tap, one sign-out, one lost connection, fair | is the header whole, and shown; does the app stay alive | the second visit has the observers of the first still there, on the same lists or on others; a tap and its crash before or after it |
| `rel_carried` | one phone, one tap, nothing fails, fair | is a tap carried out? *violation* | |
| `post` | one phone, two accounts, two files, posts in turn or at once, uploads that fail, writes refused, one lost connection, fair | are posts kept, listed once and answered for | an account change and a loss between any two steps of either post |
| `acc` | one phone, three emails and names, two sign-ins, one lost connection, users who wait or do not, fair | whose record and whose username is it | two sign-ups after one another or at once, several calls of Auth under way from one screen, and a sign-in to either or to an old account |
| `ldb_write` | two writers, two keys, batches of one and two operations, three operations, every file operation may fail, one crash of the process, fair | does it implement `KeyValueStore`; does anybody wait for nothing | a memtable holds one entry and one table is too many on level 0, so that three operations switch memtables twice, stall, flush and merge |
| `ldb_crash` | two writers, a reader, one key, with and without sync, one crash of the process or machine | are acknowledged writes and files kept | logs, tables and the manifest in every state that a crash can find them in |
| `ldb_compact` | one writer, two keys, three levels, four operations, one snapshot | do snapshots stay, do levels not overlap | a memtable may go below level 0, merges of two levels grow, drop entries and split outputs, and a move passes by |
| `ldb_torn` | one writer, one key, a record may be torn, one crash of the process | are acknowledged writes kept? *violation* | |
| `crash` | two threads of the app, the worker, the server, two failures, files that do not open | is a crash reported, once, and does it end | failures of two threads, of one and its handler, before, in and after the launch; either thread of the app is listed before and after a handler's |

`CHECK_DEADLOCK FALSE` everywhere: a phone with nothing on its way, a database with
nobody to write, a process in which nothing goes wrong may rest. (A database that
should not rest is what `WriteReturns` and `NoLostWakeup` are about, a process that
hangs in its handlers what `CrashEnds` is.) `SYMMETRY` is used in `ldb_crash` only,
which has no liveness property.

**Fairness.** `Network(d)` is weakly fair: the server serves, messages arrive, and
`FPersistentConnection` schedules another attempt after every lost connection
(connections are lost finitely often). The main queue is weakly fair: it is a serial
queue that runs what is dispatched to it. Storage and Auth answer. Users owe nothing.
Where TLC would take long to evaluate `ENABLED`, weak fairness is written out with
the guard of the action (`HasWork`, `HasMessages`), which is when it is enabled. In leveldb the
threads that have begun go on (`Proceed`, `Return`, the steps without the lock, the
background thread): a thread that can run is scheduled by the system; nobody has to
write, and nothing has to fail. In `CrashHandling` the server and every handler go on
while their thread is not suspended; that is why two handlers that have suspended each
other hang in spite of it.

## What the runs show

They pass. A write is accounted for and answered once across lost connections; a
client never misses a change; what an observer has seen whole stays whole; an answer
shows nothing that was not shown before and is not what the server has, and the answer
to a write that succeeded changes nothing while no connection is lost. Above them: nobody is made to follow anybody,
and a follower nobody drops is never lost by `updateRelationship`; the header of a
profile waits for all it shows, on one phone, whatever observers of earlier visits are
called meanwhile, and is shown in the end; no app crashes without a tap; posts
that come one after the other are kept, listed once, and always answered for; a
sign-up on one phone leaves everybody else's record alone; a phone keeps the username
of the account it is signed in to when its user waits.

leveldb implements a map to which batches are applied whole and one after the other
(`IsKeyValueStore`), whatever is flushed, merged, dropped and deleted meanwhile and
whichever file operation fails; what is kept for a crash is what is seen, or that plus
the one group under way. Synced writes survive the machine, others the process;
snapshots and readers see what they saw and find their files; every `Write` returns.

Crashlytics reports a failure of a launch that is all set up, whole, whoever handles
it first and whatever the handling sets off, with the marker for the next launch; its
handlers suspend and resume in pairs although both loops stop at the first failure.

Where a property has a condition, it does not hold without it:

- `HeaderIsShown` is about phones that keep a username. When none is kept
  (`getUsername` found no record, or the user has signed out) `isValidRelationship`
  returns without leaving the group (`DatabaseManager.swift:156`), and the header stays
  empty.
- `HeaderIsComplete` is about one phone: another one's tap makes an observer run a second
  time and leave the group in another's place.
- `PostsKept` and `PostEnds` leave out a post that was begun while another was under
  way (`crowded`): both read one snapshot, and the second write removes the first post;
  and the answer of a write may be held back for good.
- `JoinedIsListed` and `UsernameIsMine` leave out users who do not wait (`hurried`): the
  username of an earlier sign-in replaces the later one. A sign-up under a taken name
  replaces its owner's record (the condition on `claims`). With two phones that sign
  up together one of the users is lost, since the whole tree is written back.
- `Converges` names one state in which a write stays without its completion: an answer
  held back for a listen is not released when the connection is lost and nothing is
  observed any more.
- `NoFlicker` lets the answer to a write that succeeded change what is shown once a
  connection has been lost: an answer that was held back for a listen when it was lost
  stays held while nothing is observed (`putsToAck` is not emptied), a later write is
  sent and answered at once, and as soon as the leaf is observed again the first write,
  still pending, hides the value of the second until the listen is answered. It takes
  eight ids (`MaxId`) to get there, which the runs do not have: the proof of the
  stronger property failed at it, and TLC then found it in a larger instance of
  `rtdb_one`.
- `OneCrashIsReported` and `HandlesOnce` are about launches that are all set up: before
  that the marker has no path, the handlers come back after they have been removed,
  and `crashOccurred` is not kept.
- `CrashEnds` and `OneCrashIsReported` are about one failure: of two threads that fail
  together each may suspend the other, and the process hangs; or the second finds
  `crashOccurred` and exits before the first has left the marker.
- `DidCrashIsTrue` leaves out a launch that was killed before the old marker was
  removed: the next one says that it had crashed.

The findings, with the lines, are in `PROJECT.json`:

- `rel_carried`: the button of a profile crashes the app. The observers of the
  header leave their DispatchGroup at every event, and the first change of the list
  makes one event too many. The completions of `updateRelationship` are never
  reached. One side of the relationship is written, or none.
  The closures of `updateRelationship` are standing observers too: with the header
  repaired they would run again on every change, their own included, and append
  for ever, so that both have to be repaired together (`observeSingleEvent`).
- `ldb_torn`: a write that fails in the middle of its record is no background error;
  later writes go behind the torn record, are acknowledged, and are not read again
  after a crash of the process alone, which `options.h` says loses nothing.

## Proofs

Each theorem holds for all values of the constants, from the `ASSUME`s of the module
and no other: bounds are numbers, `lowercased` is idempotent, the tree starts with the
kind of value that the app writes (lists of usernames, of files, an email). A module of
proofs has one lemma per operator that says what it leaves
alone, one per action, and the temporal step at its end.

`RealtimeDatabase_proofs` (any set of phones, any tree, any number of losses):

- `TypeCorrect`: `Spec => []TypeOK`;
- `WritesInvariant`: `Spec => []WritesInv`;
- `EveryWriteAccounted`: `Spec => []WritesAccounted`: on a live connection a pending
  write has its put on the wire, its answer on the way, or its answer held back, and
  exactly one of these; nothing is ever answered that is not pending (`FWriteTree`
  asserts that).

`WritesAccounted` is not inductive: that the client may send its outstanding puts
again needs that nothing of the old connection is left (`~conn => out = {} /\
in = <<>>`), and that an answer meets one write needs that ids tell writes apart and
stay below `next`. `WritesInv` adds these (`Numbered`). Fresh ids are the delicate
part: with `Reuse` an id is the smallest above those in use, which still is above
every pending write.

`Listens_proofs` (the same constants; `DepthAssumption`: among any paths one is
outermost, as depth is a number):

- `ListensAreCounted`: `Spec => []UnackedExact`. The client releases what it holds back
  when `unackedListens` is empty: the count is of the listens that are really without
  an answer.
- `NoUpdateIsMissed`: `Spec => []NoMissedUpdate`. What is observed on a live connection
  and has been answered is what the server has, up to what is in the inbox.
- `SeenStaysSeen`: `Spec => StaysComplete`, the action property: what an observer has
  seen whole stays whole through a new listen above it, a removed one, a lost
  connection.

These three follow from `SyncInv` (`Synchronized`), of which each client has six parts:
requests are numbered below the next number (`Ranked`); an unanswered listen is on the
wire or its answer in the inbox, once (`Counted`); each outermost path is served, or
the last request about it on the wire is a listen (`Routed`); once the inbox has been
merged the cache is what the server has, apart from the paths of listens still on the
wire (`Current`); what no unanswered listen covers is in the cache (`Known`); and
answers are released only when connected with nothing unanswered (`Released`).
`Routed` is what the others need: a listen at an outer path takes the place of those
under it, and the unlistens it sends must not be overtaken by what is listened to
again later.

- `AnswersDoNotFlicker`: `Spec => NoFlicker`, when there is one device (as the property
  says: what another one writes in between is shown when a write is no longer pending).

It rests on `Solo`, about a client whose inbox, cache and pending writes only itself has
a part in: answers come in the order of their writes, the ones held back before those in
the inbox (`Ordered`), none before an earlier one (`InTurn`); a leaf that no pending
write covers is Unknown or what the server has; and what follows the answer to the write
that shows at a leaf in the inbox agrees with the server there (`Agrees`). `Fitting` adds
that an accepted write that shows is what the server has, which is so until a connection
is lost with an answer held back; `Waits` says that the answers are held back on a live
connection for a listen only, unless such a loss has left them behind; so that the
write that is answered is the first of the pending ones, `Prompted`. The lemmas on
`Solo` are in `RealtimeDatabase_proofs` and about any program that makes the calls.

`LevelDB_proofs` (any sets of writers, readers, keys and batches, any number of levels
and of crashes, every combination of faults but where it is said):

- `NobodyWaitsInVain`: `Spec => []NoLostWakeup`. A writer sleeps on
  `background_work_finished_signal_` only when there is a second full memtable or level
  0 is full, and `WakeInv` says that either is scheduled work as long as there is no
  background error: the memtable directly, level 0 because `Finalize` has made it due
  when the version was installed, by `CompactionTrigger <= StopTrigger`. That
  comparison is of cardinalities, hence the part `Finite`, and with it the lemmas on
  what an edit adds. Every call of the background thread that ends wakes everybody
  (`EndOfCall`), so that its error leaves nobody behind.
- `NoNamedFileIsDeleted`: `Spec => []Recoverable`. What the manifest on the disk names
  is what the current version names as long as nothing has failed
  (`ManifestIsCurrent`), and after an error nothing is deleted; the current version is
  among the pinned ones, whose files are there (`PinnedAreThere`); the files that the
  next edit will name are there before it is written, and kept by `pending_outputs_`
  through a deletion in between, under numbers that no one else gets
  (`OutputsAreThere`). The four together are inductive on top of `WakeInv`.
- `TypeCorrect`: `Spec => []TypeOK`. That a number is never given out beyond the bound
  needs that there is room for all that the writers in line ask for (`Room`), each of
  whom is there once, with its batch (`InLine`): the numbers of a group are those of the
  first writers' operations, one after the other, of which the lemmas on `FlattenSeq`
  say how many there are. `Contents` says what entries, tables, logs and edits are made
  of, wherever they are kept, and `Places` that the logs of both memtables are there and
  not obsolete.
- `ReadersSeeWhatTheySaw`: `Spec => []ReadersAreServed`. The files of a version that is
  read are pinned; a memtable that is read stays, and what is put into it later has
  numbers above that of the reader (`Sees`), as a group is numbered from the last
  sequence on, which only grows; and no new memtable gets the number of one in use
  (`MemoryNumbered`).
- `LevelsStayDisjoint`: `"manifest" \notin Faults` implies
  `Spec => []LevelsAreDisjoint`. The hypothesis is needed: after a failed write of the
  manifest inside a compaction the same memtable is flushed again, and the manifest may
  name both tables (the hazard at `db_impl.cc:907`). Every other fault and crashes at any
  point are allowed. An output of a merge stays clear of the files that were not merged
  because what is merged is `Joined`: between its first key and its last there is no key
  that no file of it covers, so that no other file fits between, which is what the loops
  of `SetupOtherInputs` and `AddBoundaryInputs` and the growing range of level 0 are for
  (`InputsJoined`, `InputsBeside`). A memtable that is flushed while a merge is under way
  either stays on level 0 or misses every file of the two levels that are merged, hence
  by `Joined` the whole range of the merge (`FlushFits`). All of it needs the order of
  entries to be total on what there is: `Numbering` says that no number is given to two
  different entries, in the manifest, the logs, the memtables and what is under way, and
  that a recovery goes on after the last one used. `Filled` says that no file is empty,
  so that each has its ends, and `Fitting` that the edit under way leaves the levels in
  order, whichever version it is applied to.

The app's modules (any phones, users, trees, files and faults). What goes wrong in an
app that reads, changes and writes back whole lists is that something gets into the
tree that nobody meant, or that something is dropped: and what is in the tree may come
from the cache of a phone, a put that waits for its acknowledgement, one that is sent
again, a push on the wire or a view captured in a block of the main queue.
`Provenance_proofs` settles all of these once. `vals[l]` is any set of values for the
leaf `l`, and `G[c]` says which registrations, tags and completions a phone may hold.
`Holding(vals, G)` says that the tree, the wire, and every cache, write and block of
every phone have only such values and closures; with `Inv` of `RealtimeDatabase_proofs`
it is kept by every step of the network (`NetworkKept`), by a lost connection
(`CutKept`), by a process that is gone (`GoneKept`), and by every call of a program that
asks, observes, writes or dispatches within `vals` and `G` (`ObserveServed`,
`SetValueServed`, `BlockServed`, `BeginServed`, ...); and both may grow (`MoreKept`).
Its second half is about when callbacks run. While a phone writes nothing (`Steady`), no
step makes a call due to what is observed for good that was not due (`Settles`), be it
a lost connection, a listen at a path above, or somebody else's callback, and a call
that is made is due no more (`BeginSettles`); and what a phone sees whole of an observed
path it goes on seeing, whatever it does (`Remembers`). Its third part is about how often
a closure runs: no step, lost connections and writes that are sent again included, makes
the places in which a closure waits more (`Passes`: registered, with a pending write, in
a block of the main queue), and a call that passes one on adds one place (`Gains`).
For a phone that has the database to itself and observes nothing while a write of its
own is pending (`InOrder`), what a callback is given is what the server has, and it ends
as the server has answered (`Neat`): kept by asking, writing, running a callback and all
that comes from the network, a lost connection included (`NeatAsk`, `NeatSetValue`,
`NeatBegin`, `NeatComes`).
Each of the three modules instantiates it for its own values and closures, shows that
the operators of the database it has through `DatabaseManager` are those of the lemmas
(`Same*`), and says in `IInv` what its values are and what the closures under way may
be for the screens that are shown.

- `Relationships_proofs`: `Typed`, `NobodyIsMadeToFollow` (`OnlyAsked`) and
  `OthersAreKept` (`KeepsOthers`). A list may hold what it held at the start and the
  pairs asked for, less only the pairs dropped (`Fits`); a closure of a tap may be
  about a pair that was asked for, or dropped, only (`Meant`). Both grow with every
  tap, and what a closure writes from any list that fits is a list that fits
  (`ChangeFits`), whenever it runs and however old its view is. A closure of a header
  names a group that was made on its phone (`HeadersOf`), for a profile that may be gone;
  a crash takes all the closures of the phone with it.
  That `removeAll` is computed at all, and what it leaves, is shown by the first place
  where it would fail (`WithoutExists`, `RemovedNames`), since induction over a list is
  out of reach.
- Also `NobodyTapsNobodyCrashes` (`NoTapNoCrash`) and `HeadersAreComplete`
  (`taps = 0 => HeaderIsComplete`), for any number of phones on which profiles are
  visited, left and visited again, their users sign out, and connections are lost. Both
  follow from `CInv`, which says what is so until somebody taps. The tree stays as it is
  (`Holding(Now, Callings)`), no phone has crashed, and every client is `Quiet`: the
  observers of all the headers ever made on it are registered, each once (`Tidy`,
  `Observed`), and have at most one call to come; each group has at least as many entries
  left as closures of its own with a call to come (`Counted`), the groups of profiles
  that were left included, so that nobody leaves one too often; and whom a block of
  `notify` is for has all that the header shows in the cache (`Backed`). A second visit
  adds closures to the same lists under another group (`HeadersApart`), and what they
  are called with makes none of the old ones due (`Extends`). After a tap
  `HeaderIsComplete` is only model-checked.
- `Posting_proofs`: `Typed` and `ListedVideosAreStored` (`ListedIsStored`). The posts of
  a record are those of the start and the files that Storage has; a closure of
  `insertPost` is about a file that Storage has.
- Also `PostsAreListedOnce` (`ListedOnce`), from `OInv`: a post is in one place at a time
  (`OnePlace`) - its upload, the block of that upload, the registration that asks for the
  record, the write, the block of the answer - and the posts that have been written are
  paired with one account each (`Wrote(W)`) and are past the places before the write, so
  that a list that a device may see or write names only posts paired with its account,
  each of them once (`Lists(W)`), although what is written is read before.
- And `PostsStayListed` (`PostsKept`), for one device, since two phones of one account
  write their records over each other, and for a tree that has the posts of every name.
  `KInv` adds to `IInv` and `OInv`, as long as no post was begun while another was under
  way, that one post of the device is under way at most (`Sole`), so that, its closures
  being in one place, nothing is observed while a write is pending (`OneAtATime`);
  that what the device shows is then what the server has, and an answer under way finds
  its post listed (`Proper`, by `Neat` of `Provenance_proofs`); and that the write that
  is pending has all that the server's lists have and its post besides (`Adding`). So
  a write that is applied, once or again, takes nothing off a list (`AppliedAdds`).
- `Accounts_proofs`: `Typed`, `NoTabsWithoutAccount` (`TabsAreSignedIn`) and
  `RecordsStayAsTheyWere` (`RecordsKept`). The values of a record are those of the
  start unless somebody has signed up under its name; a block that dismisses a screen
  is about a screen that is gone or on which somebody has signed in (`Past`), which
  needs that a call of Auth remembers the screen it was made on.

`CrashHandling_proofs` (any finite set of threads, any number of failures, also inside
of handlers):

- `TypeCorrect`, `HandledOnce` (`HandlesOnce`), `MarkerIsTrue` (`DidCrashIsTrue`). That
  no thread gets into the handler of signals twice rests on who may put the handlers
  back: nobody, once the blocks of the launch have run.
- `NobodyLeftSuspended`: `Spec => []NobodyIsLeftSuspended`, from the count of a thread
  being the number of handlers that hold it (`Counted`), where a handler holds the
  threads from the first of its list up to the first that is no more: that is how far
  both of its loops get, even when threads end between the two.
- `CrashIsReported`: `Spec => []OneCrashIsReported`. Until something goes wrong everything
  is in place and no file is begun (`Installed`). Then `Reported` follows the one failing
  thread along its way (`AtThePort`, `Signalled` or `Uncaught`, then `Returning`), while
  nobody else is near a handler (`Alone`), and says how far the file of whoever handles
  the failure has got (`Reporting`), through the second signal that `abort` or the
  repeated fault brings about.

Only model-checked: `UsernameIsMine` and `JoinedIsListed`, which are about the order in
which one phone sees its own writes: where values come from does not decide them;
`AckedIsKept`, `SnapshotsAreStable` and the refinement `IsKeyValueStore`, whose argument
is about what merges drop and needs induction over what a version holds; and everything
about liveness, which with `ENABLED` is out of the prover's reach.

## Not modelled

- Camera, home feed and comments, playback, notifications: each is one screen whose
  state is the visibility of views, a page or a player, over AVFoundation, UIKit or
  data that the app makes up. Their hazards are listed in `PROJECT.json` without a
  property.
- Explore and the lists show what they are given.
- Auth, Storage, UIKit, the kernel and the file system are external: they are modelled
  by what the code sees of them.
- The rest of `Pods`: parsers and encoders (nanopb, the unwinding and DWARF readers of
  Crashlytics), logging and transport of analytics, utilities, image loading. They are
  most of the lines of the repository, and most of those are headers, tables and
  platform wrappers with no state or order of their own to get wrong.
- In the database client: transactions, `updateChildValues`, `onDisconnect`, queries
  with filters, `keepSynced`, the persistence manager. The app uses none of them.

## What is left

1. A manifest whose write fails inside a compaction: the instance of `ldb_compact` with
   `Faults = {"manifest"}`, five operations in batches that put one key each, and file
   numbers up to 12 reaches a manifest that names the memtable twice on level 1
   (`ManifestFails`, then `ManifestWritten`, in one merge). It is a hazard without a
   property.
2. The persistence manager of the database client over `KeyValueStore`: what a phone
   finds again after it was killed, when persistence is switched on.
3. `Camera` composed with `Posting`: the one file that is recorded over.
