---------------------------- MODULE CrashHandling ----------------------------
(***************************************************************************)
(* How Crashlytics records the crash of the process it lives in            *)
(* (FirebaseCrashlytics/Crashlytics/Crashlytics: Handlers, Components).    *)
(* A thread that fails is handled by the server of Mach exceptions, by the *)
(* handler of its signal or by the terminate handler.  Whoever handles it  *)
(* suspends every other thread, one after the other, writes what it sees   *)
(* to a file of its own, leaves the marker that the next launch looks for, *)
(* resumes the threads and lets the failure take its course.  The handlers *)
(* are installed, while the app already runs, by blocks on another thread, *)
(* which also removes the marker of the launch before.                     *)
(***************************************************************************)
EXTENDS Naturals, Sequences, FiniteSets

CONSTANTS
    Thread,         \* the app's threads, numbered in the order task_threads lists them
    Server,         \* the thread of FIRCLSMachExceptionServer
    Worker,         \* the thread that runs the blocks of the global queues
    MaxFailures,    \* how often something fails in one launch
    MayRefuse       \* whether a file may fail to open

Other == {Server, Worker}
All == Thread \cup Other

ASSUME CrashHandlingAssumption ==
    /\ Thread \subseteq Nat /\ IsFiniteSet(Thread)
    /\ Other \subseteq Nat
    /\ Other \cap Thread = {}
    /\ Server # Worker
    /\ MaxFailures \in Nat
    /\ MayRefuse \in BOOLEAN

VARIABLES
    alive,          \* the process exists
    todo,           \* the blocks that have not run yet
    initialized,    \* _firclsContext.readonly->initialized
    signals,        \* who handles the signals: "handler" (FIRCLSSignalHandler) or "default"
    ports,          \* who gets the Mach exceptions: "server" or "default"
    terminate,      \* who handles uncaught exceptions: "handler" or "default"
    crashOccurred,  \* _firclsContext.writable->crashOccurred
    exists,         \* the threads that exist
    count,          \* count[t]: the suspend count of t
    pc,             \* pc[t]: what t does next
    cause,          \* cause[t]: how t has failed
    by,             \* by[t]: the handler that t is in
    listed,         \* listed[t]: process->threads of t's handler
    rest,           \* rest[t]: those that its loop has not come to yet
    port,           \* the threads whose exceptions wait at the server's port
    file,           \* what the files of this launch hold
    marker,         \* the file previously-crashed exists
    past            \* history: what went wrong in this launch

setup == <<todo, initialized, ports, terminate>>
loop == <<listed, rest>>
disk == <<file, marker>>
vars == <<alive, setup, signals, crashOccurred, exists, count, pc, cause, by,
          loop, port, disk, past>>

Block == {"signal", "mach", "exception", "path"}

\* Where a thread is while it may have others suspended.
Inside == {"suspend", "call", "record", "mark", "resume"}
Place == {"run", "waiting", "signal", "terminate", "check", "claim", "open", "list",
          "handled", "return", "idle", "dispatch", "reinstall"} \cup Inside

NewThreads(of) == [t \in All |-> of]

Nothing == [failures |-> 0, prepared |-> FALSE, refused |-> FALSE,
            broken |-> FALSE, entered |-> NewThreads(0)]

\* The launch before may have crashed, and then has left the marker.
Init ==
    /\ alive = TRUE
    /\ initialized = FALSE
    /\ signals = "default"
    /\ ports = "default"
    /\ terminate = "default"
    /\ crashOccurred = FALSE
    /\ exists = Thread \cup {Worker}
    /\ count = NewThreads(0)
    /\ pc = [NewThreads("run") EXCEPT ![Server] = "idle"]
    /\ cause = NewThreads("none")
    /\ by = NewThreads("none")
    /\ listed = NewThreads({})
    /\ rest = NewThreads({})
    /\ port = <<>>
    /\ file = {}
    /\ past = Nothing
    /\ marker \in BOOLEAN
    /\ todo = Block \cup (IF marker THEN {"clean"} ELSE {})

\* t can take a step.
Runs(t) == alive /\ t \in exists /\ count[t] = 0

Goes(t, place) == pc' = [pc EXCEPT ![t] = place]

At(t, place) == Runs(t) /\ pc[t] = place

-----------------------------------------------------------------------------
(* The launch: FIRCrashlytics and FIRCLSContextInitialize. *)

\* (mutant) The marker of the launch before is left where it is.
LeavesMarker == Block

\* The blocks that a launch dispatches: that of the marker only when there is one.
Dispatched == Block \cup (IF marker THEN {"clean"} ELSE {})

Launch ==
    /\ ~alive
    /\ alive' = TRUE
    /\ initialized' = FALSE
    /\ signals' = "default"
    /\ ports' = "default"
    /\ terminate' = "default"
    /\ crashOccurred' = FALSE
    /\ exists' = Thread \cup {Worker}
    /\ count' = NewThreads(0)
    /\ pc' = [NewThreads("run") EXCEPT ![Server] = "idle"]
    /\ cause' = NewThreads("none")
    /\ by' = NewThreads("none")
    /\ listed' = NewThreads({})
    /\ rest' = NewThreads({})
    /\ port' = <<>>
    /\ file' = {}
    /\ past' = Nothing
    /\ todo' = Dispatched
    /\ UNCHANGED marker

\* The worker runs one of its blocks.
RunsBlock(b) ==
    /\ At(Worker, "run")
    /\ b \in todo
    /\ todo' = todo \ {b}
    /\ UNCHANGED <<alive, initialized, crashOccurred, count, pc, cause, by, loop, port,
                   file, past>>

SignalInitialize ==
    /\ RunsBlock("signal")
    /\ signals' = "handler"
    /\ UNCHANGED <<ports, terminate, exists, marker>>

\* The ports are swapped and the server's thread is started.
MachExceptionInit ==
    /\ RunsBlock("mach")
    /\ ports' = "server"
    /\ exists' = exists \cup {Server}
    /\ UNCHANGED <<signals, terminate, marker>>

ExceptionInitialize ==
    /\ RunsBlock("exception")
    /\ terminate' = "handler"
    /\ UNCHANGED <<signals, ports, exists, marker>>

\* previouslyCrashedFileFullPath is known.
KnowPath ==
    /\ RunsBlock("path")
    /\ UNCHANGED <<signals, ports, terminate, exists, marker>>

RemoveMarker ==
    /\ RunsBlock("clean")
    /\ marker' = FALSE
    /\ UNCHANGED <<signals, ports, terminate, exists>>

RunBlock ==
    SignalInitialize \/ MachExceptionInit \/ ExceptionInitialize \/ KnowPath \/ RemoveMarker

\* The notification of the group.
Notify ==
    /\ At(Worker, "run")
    /\ ~initialized
    /\ todo \cap Block = {}
    /\ initialized' = TRUE
    /\ UNCHANGED <<alive, todo, ports, terminate, signals, crashOccurred, exists,
                   count, pc, cause, by, loop, port, disk, past>>

-----------------------------------------------------------------------------
(* The app fails, its threads end, the user kills it; the kernel (external). *)

\* A failure reaches the server of Mach exceptions, the handler of the signal or
\* nobody, and then ends the process. (abort raises a signal and no exception.)
Raise(t, what) ==
    /\ cause' = [cause EXCEPT ![t] = what]
    /\ IF what = "fault" /\ ports = "server"
       THEN /\ Goes(t, "waiting")
            /\ port' = Append(port, t)
            /\ UNCHANGED alive
       ELSE /\ UNCHANGED port
            /\ IF signals = "handler"
               THEN Goes(t, "signal") /\ UNCHANGED alive
               ELSE alive' = FALSE /\ UNCHANGED pc

GoesWrong(inside) ==
    /\ past.failures < MaxFailures
    /\ past' = [past EXCEPT
                 !.failures = @ + 1,
                 !.broken = @ \/ inside,
                 !.prepared = IF past.failures = 0 THEN initialized /\ todo = {} ELSE @]

Fail(t) ==
    /\ At(t, "run")
    /\ GoesWrong(FALSE)
    /\ \/ Raise(t, "fault")
       \/ Raise(t, "abort")
       \/ /\ terminate = "handler"
          /\ Goes(t, "terminate")
          /\ UNCHANGED <<cause, port, alive>>
    /\ UNCHANGED <<setup, signals, crashOccurred, exists, count, by, loop, disk>>

\* What a handler reads may be broken: it fails as well.
FailInside(t) ==
    /\ At(t, "record")
    /\ GoesWrong(TRUE)
    /\ Raise(t, "fault") \/ Raise(t, "abort")
    /\ UNCHANGED <<setup, signals, crashOccurred, exists, count, by, loop, disk>>

Exit(t) ==
    /\ At(t, "run")
    /\ exists' = exists \ {t}
    /\ UNCHANGED <<alive, setup, signals, crashOccurred, count, pc, cause, by, loop,
                   port, disk, past>>

Kill ==
    /\ alive
    /\ past.failures = 0
    /\ alive' = FALSE
    /\ UNCHANGED <<setup, signals, crashOccurred, exists, count, pc, cause, by, loop,
                   port, disk, past>>

-----------------------------------------------------------------------------
(* The handlers: FIRCLSSignal, FIRCLSMachException, FIRCLSException. *)

\* (mutant) The handlers are left in place.
LeavesHandlers == signals

\* FIRCLSSignalSafeRemoveHandlers
RemovedHandlers == "default"

\* FIRCLSSignalHandler: the handlers are removed before the signals are unmasked.
EnterSignal(t) ==
    /\ At(t, "signal")
    /\ signals' = RemovedHandlers
    /\ by' = [by EXCEPT ![t] = "signal"]
    /\ past' = [past EXCEPT !.entered[t] = @ + 1]
    /\ Goes(t, "check")
    /\ UNCHANGED <<alive, setup, crashOccurred, exists, count, cause, loop, port,
                   disk>>

\* FIRCLSMachExceptionDispatchMessage: the ports are given back, then the signals.
Unregister ==
    /\ At(Server, "idle")
    /\ port # <<>>
    /\ ports' = "default"
    /\ by' = [by EXCEPT ![Server] = "mach"]
    /\ Goes(Server, "reinstall")
    /\ UNCHANGED <<alive, todo, initialized, terminate, signals, crashOccurred,
                   exists, count, cause, loop, port, disk, past>>

Reinstall ==
    /\ At(Server, "reinstall")
    /\ signals' = "default"
    /\ Goes(Server, "check")
    /\ UNCHANGED <<alive, setup, crashOccurred, exists, count, cause, by, loop, port,
                   disk, past>>

\* FIRCLSTerminateHandler restores the handler it has replaced, unless another thread
\* has done so, records the exception, and aborts. When there is no active exception
\* nothing is recorded: the handler it has replaced is called, and aborts.
Terminate(t) ==
    /\ At(t, "terminate")
    /\ terminate' = "default"
    /\ \/ /\ terminate = "handler" /\ initialized
          /\ Goes(t, "open")
          /\ by' = [by EXCEPT ![t] = "exception"]
          /\ UNCHANGED <<cause, port, alive>>
       \/ Raise(t, "abort") /\ UNCHANGED by
    /\ UNCHANGED <<todo, initialized, ports, signals, crashOccurred, exists, count,
                   loop, disk, past>>

\* (mutant) The flag is set before it is read.
SeesItsOwnMark == initialized

\* FIRCLSContextHasCrashed
HasCrashed == initialized /\ crashOccurred

\* FIRCLSContextMarkAndCheckIfCrashed: reading the flag, which may end the process ...
Check(t) ==
    /\ At(t, "check")
    /\ IF HasCrashed
       THEN alive' = FALSE /\ UNCHANGED pc
       ELSE Goes(t, IF initialized THEN "claim" ELSE "open") /\ UNCHANGED alive
    /\ UNCHANGED <<setup, signals, crashOccurred, exists, count, cause, by, loop,
                   port, disk, past>>

\* ... and setting it.
Claim(t) ==
    /\ At(t, "claim")
    /\ crashOccurred' = TRUE
    /\ Goes(t, "open")
    /\ UNCHANGED <<alive, setup, signals, exists, count, cause, by, loop, port, disk,
                   past>>

\* (mutant) The thread that handles the crash is taken for the one that has crashed.
BlamesItself(t) == t

\* The thread that has crashed, for the handler that t is in.
Crashed(t) == IF by[t] = "mach" THEN Head(port) ELSE t

\* The handler's file is opened and told what has happened.
Open(t) ==
    /\ At(t, "open")
    /\ \/ /\ Goes(t, "list")
          /\ file' = file \cup {[of |-> by[t], part |-> "event", thread |-> Crashed(t)]}
          /\ UNCHANGED past
       \/ /\ MayRefuse
          /\ Goes(t, "handled")
          /\ past' = [past EXCEPT !.refused = TRUE]
          /\ UNCHANGED file
    /\ UNCHANGED <<alive, setup, signals, crashOccurred, exists, count, cause, by,
                   loop, port, marker>>

-----------------------------------------------------------------------------
(* FIRCLSHandler: suspend, record, mark, resume. *)

\* (mutant) The current thread is not passed over.
WithItself(t) == listed[t]

\* FIRCLSProcessIsCurrentThread: both loops pass over the thread they run on.
Others(t) == listed[t] \ {t}

\* FIRCLSProcessInit: the threads are listed.
List(t) ==
    /\ At(t, "list")
    /\ listed' = [listed EXCEPT ![t] = exists]
    /\ rest' = [rest EXCEPT ![t] = Others(t)']
    /\ Goes(t, "suspend")
    /\ UNCHANGED <<alive, setup, signals, crashOccurred, exists, count, cause, by, port,
                   disk, past>>

\* The loops go through the list in its order.
NextOf(t) == CHOOSE u \in rest[t] : \A v \in rest[t] : u <= v

\* (mutant) The loop goes on after a thread that could not be suspended.
TriesAll(t) == rest[t] \ {NextOf(t)}

\* success && ...: no thread is touched after one that has failed.
AfterFailure(t) == {}

\* FIRCLSProcessSuspendAllOtherThreads: the next call is made ...
Suspend(t) ==
    /\ At(t, "suspend")
    /\ Goes(t, IF rest[t] = {} THEN "record" ELSE "call")
    /\ UNCHANGED <<alive, setup, signals, crashOccurred, exists, count, cause, by, loop,
                   port, disk, past>>

\* ... and carried out by the kernel, although its caller may be suspended by then. A
\* thread that is no more cannot be suspended.
SuspendCall(t) ==
    /\ alive
    /\ pc[t] = "call"
    /\ LET u == NextOf(t)
       IN  IF u \in exists
           THEN /\ count' = [count EXCEPT ![u] = @ + 1]
                /\ rest' = [rest EXCEPT ![t] = @ \ {u}]
           ELSE /\ rest' = [rest EXCEPT ![t] = AfterFailure(t)]
                /\ UNCHANGED count
    /\ Goes(t, "suspend")
    /\ UNCHANGED <<alive, setup, signals, crashOccurred, exists, cause, by, listed, port,
                   disk, past>>

\* FIRCLSProcessRecordAllThreads ends at the first thread whose state cannot be read.
Record(t) ==
    /\ At(t, "record")
    /\ file' = IF \A u \in listed[t] : u <= Crashed(t) => u \in exists
               THEN file \cup {[of |-> by[t], part |-> "stack", thread |-> Crashed(t)]}
               ELSE file
    /\ Goes(t, "mark")
    /\ UNCHANGED <<alive, setup, signals, crashOccurred, exists, count, cause, by,
                   loop, port, marker, past>>

\* FIRCLSCreateCrashedMarkerFile; the path is known when its block has run.
Mark(t) ==
    /\ At(t, "mark")
    /\ \/ marker' = (marker \/ "path" \notin todo) /\ UNCHANGED past
       \/ /\ MayRefuse
          /\ past' = [past EXCEPT !.refused = TRUE]
          /\ UNCHANGED marker
    /\ rest' = [rest EXCEPT ![t] = Others(t)]
    /\ Goes(t, "resume")
    /\ UNCHANGED <<alive, setup, signals, crashOccurred, exists, count, cause, by,
                   listed, port, file>>

\* FIRCLSProcessResumeAllOtherThreads: a thread that is no more, or is not suspended,
\* cannot be resumed.
Resume(t) ==
    /\ At(t, "resume")
    /\ IF rest[t] = {}
       THEN Goes(t, "handled") /\ UNCHANGED <<rest, count>>
       ELSE LET u == NextOf(t)
            IN  /\ UNCHANGED pc
                /\ IF u \in exists /\ count[u] > 0
                   THEN /\ count' = [count EXCEPT ![u] = @ - 1]
                        /\ rest' = [rest EXCEPT ![t] = @ \ {u}]
                   ELSE /\ rest' = [rest EXCEPT ![t] = {}]
                        /\ UNCHANGED count
    /\ UNCHANGED <<alive, setup, signals, crashOccurred, exists, cause, by, listed, port,
                   disk, past>>

\* The end of the handler: the server replies, the signal handler gives the signals
\* back, the terminate handler calls the one before it, which aborts.
Handled(t) ==
    /\ At(t, "handled")
    /\ CASE by[t] = "mach" ->
              /\ pc' = [pc EXCEPT ![t] = "idle", ![Head(port)] = "return"]
              /\ port' = Tail(port)
              /\ UNCHANGED <<signals, cause, alive>>
         [] by[t] = "signal" ->
              /\ signals' = "default"
              /\ Goes(t, "return")
              /\ UNCHANGED <<port, cause, alive>>
         [] OTHER -> Raise(t, "abort") /\ UNCHANGED signals
    /\ UNCHANGED <<setup, crashOccurred, exists, count, by, loop, disk,
                   past>>

\* The thread runs into the same failure again; abort sees to it that it is the end.
Return(t) ==
    /\ At(t, "return")
    /\ IF cause[t] = "abort"
       THEN alive' = FALSE /\ UNCHANGED <<pc, port, cause>>
       ELSE Raise(t, "fault")
    /\ UNCHANGED <<setup, signals, crashOccurred, exists, count, by, loop, disk,
                   past>>

-----------------------------------------------------------------------------

Handles(t) ==
    \/ EnterSignal(t) \/ Terminate(t) \/ Check(t) \/ Claim(t) \/ Open(t) \/ List(t)
    \/ Suspend(t) \/ SuspendCall(t) \/ Record(t) \/ Mark(t) \/ Resume(t)
    \/ Handled(t) \/ Return(t)

Serves == Unregister \/ Reinstall

Next ==
    \/ Launch \/ RunBlock \/ Notify \/ Kill \/ Serves
    \/ \E t \in Thread : Fail(t) \/ Exit(t)
    \/ \E t \in All : Handles(t) \/ FailInside(t)

Spec == Init /\ [][Next]_vars

\* A thread that can run does.
Fairness ==
    /\ WF_vars(Serves)
    /\ \A t \in All : WF_vars(Handles(t))

FairSpec == Spec /\ Fairness

-----------------------------------------------------------------------------
(* Properties. *)

Report == [of : {"mach"}, part : {"event", "stack"}, thread : Thread]
            \cup [of : {"signal", "exception"}, part : {"event", "stack"},
                  thread : Thread \cup {Server}]

History == [failures : Nat, prepared : BOOLEAN, refused : BOOLEAN, broken : BOOLEAN,
            entered : [All -> Nat]]

\* What the records hold is of its type; the files of the Mach exceptions are about
\* threads of the app, never about the server that writes them.
TypeOK ==
    /\ alive \in BOOLEAN
    /\ todo \subseteq Block \cup {"clean"}
    /\ initialized \in BOOLEAN
    /\ signals \in {"handler", "default"}
    /\ ports \in {"server", "default"}
    /\ terminate \in {"handler", "default"}
    /\ crashOccurred \in BOOLEAN
    /\ exists \subseteq All
    /\ count \in [All -> Nat]
    /\ pc \in [All -> Place]
    /\ cause \in [All -> {"none", "fault", "abort"}]
    /\ by \in [All -> {"none", "signal", "mach", "exception"}]
    /\ listed \in [All -> SUBSET All]
    /\ rest \in [All -> SUBSET All]
    /\ port \in Seq(Thread)
    /\ file \subseteq Report
    /\ marker \in BOOLEAN
    /\ past \in History

\* FIRCLSProcessSuspendAllOtherThreads and its counterpart: when no handler is between
\* the two, no thread is left suspended, whichever threads have ended meanwhile and
\* although both loops stop at the first call that fails.
NobodyIsLeftSuspended ==
    (~past.broken /\ \A t \in All : pc[t] \notin Inside) =>
        \A t \in All : count[t] = 0

\* A launch that is all set up and in which one thing goes wrong is reported whole,
\* whoever has to handle it and whoever handles it after that: the file of some handler
\* says what happened, with the stack of the thread unless threads have ended, and the
\* next launch finds the marker.
OneCrashIsReported ==
    (~alive /\ past.prepared /\ past.failures = 1 /\ ~past.refused) =>
        /\ marker
        /\ \E t \in Thread, f \in {"signal", "mach", "exception"} :
            /\ [of |-> f, part |-> "event", thread |-> t] \in file
            /\ All \subseteq exists =>
                [of |-> f, part |-> "stack", thread |-> t] \in file

\* FIRCLSSignalHandler: "otherwise we can get called in a loop". Once everything is set
\* up no thread gets into it twice, not even if what it records makes it fail again.
HandlesOnce ==
    past.prepared => \A t \in All : past.entered[t] <= 1

\* didCrashDuringPreviousExecution: a launch that finds the marker rightly says that the
\* one before it has crashed, if that one has got round to removing the marker that it
\* had found itself.
DidCrashIsTrue ==
    [][(~alive /\ alive' /\ marker) => (past.failures > 0 \/ "clean" \in todo)]_vars

\* A process in which one thing goes wrong comes to its end: nobody waits for a thread
\* that is suspended, or for an answer that does not come.
CrashEnds ==
    past.failures = 1 ~> (~alive \/ past.failures > 1)

=============================================================================
