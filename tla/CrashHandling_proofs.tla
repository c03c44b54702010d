------------------------ MODULE CrashHandling_proofs ------------------------
(***************************************************************************)
(* Proofs about CrashHandling, for every set of threads and any number of  *)
(* failures: the marker and the handlers first, then that the handlers     *)
(* leave nobody suspended, and that a single crash is reported.            *)
(***************************************************************************)
EXTENDS CrashHandling, TLAPS, FiniteSetTheorems, WellFoundedInduction

-----------------------------------------------------------------------------
(* The inductive invariant. *)

\* Where a thread is not in a handler.
Outside == {"run", "waiting", "signal", "terminate", "return", "idle"}

\* The server is in its handler only after it has given back the ports, for good, and
\* with the exception that it handles still at the port; the worker never fails.
Serving ==
    /\ pc[Worker] = "run"
    /\ Server \in exists => "mach" \notin todo
    /\ pc[Server] # "idle" => ports = "default" /\ "mach" \notin todo
    /\ \A t \in All : pc[t] \notin Outside => by[t] # "none"
    /\ \A t \in All : by[t] = "mach" => t = Server
    /\ by[Server] = "mach" /\ pc[Server] # "idle" => port # <<>>

\* As long as nothing has gone wrong nobody is anywhere near a handler.
Calm ==
    past.failures = 0 =>
        /\ \A t \in All : pc[t] \in {"run", "idle"} /\ past.entered[t] = 0
        /\ port = <<>>

\* Once everything is set up, the handler that has removed the handlers of the signals
\* has removed them for good.
Removed ==
    past.prepared =>
        /\ todo = {}
        /\ \A t \in All : past.entered[t] > 0 => signals = "default"
        /\ \A t \in All : pc[t] = "signal" => past.entered[t] = 0

\* A marker that nobody is going to remove is about a failure of this launch.
Marked == marker => past.failures > 0 \/ "clean" \in todo

IInv == TypeOK /\ Serving /\ Calm /\ Removed /\ HandlesOnce /\ Marked

-----------------------------------------------------------------------------

\* Who is who.
LEMMA Threads ==
    /\ Server \in All /\ Worker \in All /\ Thread \subseteq All
    /\ Server \notin Thread /\ Worker \notin Thread /\ Server # Worker
BY CrashHandlingAssumption DEF All, Other

\* Initially the invariant holds.
LEMMA InitIInv == Init => IInv
<1>. SUFFICES ASSUME Init PROVE IInv
    OBVIOUS
<1>. USE Threads DEF Init
<1>1. past \in History
    BY DEF Nothing, NewThreads, History
<1>2. pc \in [All -> Place]
    BY DEF NewThreads, Place, Inside
<1>3. /\ count \in [All -> Nat]
      /\ cause \in [All -> {"none", "fault", "abort"}]
      /\ by \in [All -> {"none", "signal", "mach", "exception"}]
      /\ listed \in [All -> SUBSET All]
      /\ rest \in [All -> SUBSET All]
    BY DEF NewThreads
<1>4. todo \subseteq Block \cup {"clean"} /\ exists \subseteq All
    OBVIOUS
<1>5. TypeOK
    <2>1. port \in Seq(Thread)
        OBVIOUS
    <2>2. file \subseteq Report
        OBVIOUS
    <2>3. /\ alive \in BOOLEAN /\ initialized \in BOOLEAN /\ crashOccurred \in BOOLEAN
          /\ marker \in BOOLEAN
        OBVIOUS
    <2>4. /\ signals \in {"handler", "default"} /\ ports \in {"server", "default"}
          /\ terminate \in {"handler", "default"}
        OBVIOUS
    <2>. QED
        BY <1>1, <1>2, <1>3, <1>4, <2>1, <2>2, <2>3, <2>4 DEF TypeOK
<1>6. Serving
    BY DEF Serving, Outside, NewThreads, Block
<1>7. Calm
    BY DEF Calm, Nothing, NewThreads
<1>8. Removed /\ HandlesOnce /\ Marked
    BY DEF Removed, HandlesOnce, Marked, Nothing, NewThreads
<1>. QED
    BY <1>5, <1>6, <1>7, <1>8 DEF IInv

-----------------------------------------------------------------------------
(* What the steps are built from. *)

\* A launch begins as the first one.
LEMMA LaunchIInv ==
    ASSUME marker \in BOOLEAN, Launch
    PROVE  IInv'
<1>1. Init'
    BY DEF Launch, Init, Dispatched
<1>. QED
    BY <1>1, InitIInv, PTL

\* A failure of a thread of the app, or of anybody when the server does not get it.
LEMMA RaiseType ==
    ASSUME TypeOK, NEW t \in All, NEW what \in {"fault", "abort"},
           t \in Thread \/ ports = "default", Raise(t, what)
    PROVE  /\ pc' \in [All -> Place]
           /\ cause' \in [All -> {"none", "fault", "abort"}]
           /\ port' \in Seq(Thread)
           /\ alive' \in BOOLEAN
           /\ \A u \in All : u # t => pc'[u] = pc[u]
           /\ pc'[t] \in {pc[t], "waiting", "signal"}
           /\ \A u \in All : pc'[u] = "signal" =>
                                pc[u] = "signal" \/ (u = t /\ signals = "handler")
<1>1. "waiting" \in Place /\ "signal" \in Place
    BY DEF Place
<1>2. pc' \in [All -> Place] /\ cause' \in [All -> {"none", "fault", "abort"}]
    BY SMTT(20), <1>1 DEF Raise, Goes, TypeOK
<1>3. port' \in Seq(Thread)
    <2>. port \in Seq(Thread)
        BY DEF TypeOK
    <2>1. CASE what = "fault" /\ ports = "server"
        <3>1. t \in Thread /\ port' = Append(port, t)
            BY <2>1 DEF Raise
        <3>. QED
            BY <3>1
    <2>2. CASE ~(what = "fault" /\ ports = "server")
        BY <2>2 DEF Raise
    <2>. QED
        BY <2>1, <2>2
<1>4. alive' \in BOOLEAN
    BY DEF Raise, TypeOK
<1>5. \/ pc' = pc
      \/ pc' = [pc EXCEPT ![t] = "waiting"]
      \/ pc' = [pc EXCEPT ![t] = "signal"] /\ signals = "handler"
    BY DEF Raise, Goes
<1>6. pc \in [All -> Place]
    BY DEF TypeOK
<1>. QED
    BY <1>2, <1>3, <1>4, <1>5, <1>6

\* One more failure.
LEMMA GoesWrongType ==
    ASSUME TypeOK, NEW inside \in BOOLEAN, GoesWrong(inside)
    PROVE  /\ past' \in History
           /\ past'.failures = past.failures + 1 /\ past'.failures > 0
           /\ past'.entered = past.entered
           /\ past.failures > 0 => past'.prepared = past.prepared
           /\ past.failures = 0 => past'.prepared = (initialized /\ todo = {})
<1>. DEFINE prepared == IF past.failures = 0 THEN initialized /\ todo = {} ELSE past.prepared
<1>1. prepared \in BOOLEAN
    BY DEF TypeOK, History
<1>2. past' = [past EXCEPT !.failures = @ + 1, !.broken = @ \/ inside, !.prepared = prepared]
    BY DEF GoesWrong
<1>. HIDE DEF prepared
<1>3. /\ past.failures + 1 \in Nat /\ past.failures + 1 > 0
      /\ (past.broken \/ inside) \in BOOLEAN
    BY DEF TypeOK, History
<1>4. past' \in History
    BY <1>1, <1>2, <1>3 DEF TypeOK, History
<1>5. /\ past'.failures = past.failures + 1 /\ past'.entered = past.entered
      /\ past'.prepared = prepared
    BY <1>2 DEF TypeOK, History
<1>. QED
    BY <1>3, <1>4, <1>5 DEF prepared

\* What a handler writes is about a thread of the app or about itself.
LEMMA ReportType ==
    ASSUME TypeOK, Serving, NEW t \in All, pc[t] \in {"open", "record"},
           NEW p \in {"event", "stack"}
    PROVE  [of |-> by[t], part |-> p, thread |-> Crashed(t)] \in Report
<1>1. by[t] # "none" /\ t # Worker
    BY Threads DEF Serving, Outside
<1>2. CASE by[t] = "mach"
    <2>1. t = Server /\ port # <<>>
        BY <1>2 DEF Serving
    <2>2. Head(port) \in Thread
        BY <2>1 DEF TypeOK
    <2>. QED
        BY <1>2, <2>2 DEF Crashed, Report
<1>3. CASE by[t] # "mach"
    <2>1. by[t] \in {"signal", "exception"}
        BY <1>1, <1>3 DEF TypeOK
    <2>2. t \in Thread \cup {Server}
        BY <1>1 DEF All, Other
    <2>. QED
        BY <1>3, <2>1, <2>2 DEF Crashed, Report
<1>. QED
    BY <1>2, <1>3
-----------------------------------------------------------------------------
(* One step. *)

\* Every step but a launch keeps the types.
LEMMA TypeStep ==
    ASSUME TypeOK, Serving, Next, ~Launch
    PROVE  TypeOK'
<1>. USE Threads DEF TypeOK, Goes, At, Runs, setup, loop, disk
<1>. /\ {"run", "check", "claim", "open", "list", "handled", "return", "idle", "terminate",
         "reinstall", "suspend", "call", "record", "mark", "resume"} \subseteq Place
    BY DEF Place, Inside
<1>1. CASE RunBlock
    BY <1>1 DEF RunBlock, RunsBlock, SignalInitialize, MachExceptionInit, ExceptionInitialize,
                KnowPath, RemoveMarker
<1>2. CASE Notify
    BY <1>2 DEF Notify
<1>3. CASE Kill
    BY <1>3 DEF Kill
<1>4. CASE Unregister
    BY <1>4 DEF Unregister
<1>5. CASE Reinstall
    BY <1>5 DEF Reinstall
<1>6. ASSUME NEW t \in Thread, Fail(t)
      PROVE  TypeOK'
    <2>1. past' \in History
        BY <1>6, GoesWrongType DEF Fail
    <2>2. CASE Raise(t, "fault") \/ Raise(t, "abort")
        <3>1. /\ pc' \in [All -> Place] /\ port' \in Seq(Thread) /\ alive' \in BOOLEAN
              /\ cause' \in [All -> {"none", "fault", "abort"}]
            BY <2>2, RaiseType
        <3>. QED
            BY <1>6, <2>1, <3>1 DEF Fail
    <2>3. CASE Goes(t, "terminate") /\ UNCHANGED <<cause, port, alive>>
        BY <1>6, <2>1, <2>3 DEF Fail
    <2>. QED
        BY <1>6, <2>2, <2>3 DEF Fail
<1>7. ASSUME NEW t \in Thread, Exit(t)
      PROVE  TypeOK'
    BY <1>7 DEF Exit
<1>8. ASSUME NEW t \in All, FailInside(t)
      PROVE  TypeOK'
    <2>1. past' \in History
        BY <1>8, GoesWrongType DEF FailInside
    <2>2. t \in Thread \/ ports = "default"
        BY <1>8 DEF FailInside, Serving, All, Other
    <2>3. /\ pc' \in [All -> Place] /\ port' \in Seq(Thread) /\ alive' \in BOOLEAN
          /\ cause' \in [All -> {"none", "fault", "abort"}]
        BY <1>8, <2>2, RaiseType DEF FailInside
    <2>. QED
        BY <1>8, <2>1, <2>3 DEF FailInside
<1>9. ASSUME NEW t \in All, EnterSignal(t)
      PROVE  TypeOK'
    <2>. DEFINE entered == [past.entered EXCEPT ![t] = @ + 1]
    <2>1. entered \in [All -> Nat]
        BY DEF History
    <2>2. past' = [past EXCEPT !.entered = entered]
        BY <1>9 DEF EnterSignal
    <2>3. past' \in History
        BY <2>1, <2>2 DEF History
    <2>. QED
        BY <1>9, <2>3 DEF EnterSignal, RemovedHandlers
<1>10. ASSUME NEW t \in All, Terminate(t)
       PROVE  TypeOK'
    <2>1. t \in Thread \/ ports = "default"
        BY <1>10 DEF Terminate, Serving, All, Other
    <2>2. CASE /\ pc' = [pc EXCEPT ![t] = "open"]
               /\ by' = [by EXCEPT ![t] = "exception"]
               /\ UNCHANGED <<cause, port, alive>>
        BY ZenonT(30), <1>10, <2>2 DEF Terminate
    <2>3. CASE Raise(t, "abort") /\ UNCHANGED by
        <3>1. /\ pc' \in [All -> Place] /\ port' \in Seq(Thread) /\ alive' \in BOOLEAN
              /\ cause' \in [All -> {"none", "fault", "abort"}]
            BY <1>10, <2>1, <2>3, RaiseType DEF Terminate
        <3>. QED
            BY <1>10, <2>3, <3>1 DEF Terminate
    <2>. QED
        BY <1>10, <2>2, <2>3 DEF Terminate, Goes
<1>11. ASSUME NEW t \in All, Check(t)
       PROVE  TypeOK'
    BY ZenonT(30), <1>11 DEF Check
<1>12. ASSUME NEW t \in All, Claim(t)
       PROVE  TypeOK'
    BY <1>12 DEF Claim
<1>13. ASSUME NEW t \in All, Open(t)
       PROVE  TypeOK'
    <2>1. [of |-> by[t], part |-> "event", thread |-> Crashed(t)] \in Report
        BY <1>13, ReportType DEF Open
    <2>2. file' \subseteq Report
        BY <1>13, <2>1 DEF Open
    <2>3. [past EXCEPT !.refused = TRUE] \in History
        BY DEF History
    <2>4. past' \in History
        BY <1>13, <2>3 DEF Open
    <2>5. pc' \in [All -> Place]
        BY ZenonT(30), <1>13 DEF Open
    <2>6. UNCHANGED <<alive, setup, signals, crashOccurred, exists, count, cause, by, loop,
                      port, marker>>
        BY <1>13 DEF Open
    <2>. HIDE <1>13
    <2>. QED
        BY <2>2, <2>4, <2>5, <2>6
<1>14. ASSUME NEW t \in All, List(t)
       PROVE  TypeOK'
    <2>1. listed' \in [All -> SUBSET All]
        BY <1>14 DEF List
    <2>2. rest' \in [All -> SUBSET All]
        BY <1>14, <2>1 DEF List, Others
    <2>. QED
        BY <1>14, <2>1, <2>2 DEF List
<1>15. ASSUME NEW t \in All, Suspend(t)
       PROVE  TypeOK'
    BY <1>15 DEF Suspend
<1>16. ASSUME NEW t \in All, SuspendCall(t)
       PROVE  TypeOK'
    <2>. DEFINE u == NextOf(t)
    <2>1. CASE u \in exists
        <3>1. count' = [count EXCEPT ![u] = @ + 1] /\ rest' = [rest EXCEPT ![t] = @ \ {u}]
            BY <1>16, <2>1 DEF SuspendCall
        <3>. HIDE DEF u
        <3>2. count' \in [All -> Nat] /\ rest' \in [All -> SUBSET All]
            BY <2>1, <3>1
        <3>. QED
            BY <1>16, <3>2 DEF SuspendCall
    <2>2. CASE u \notin exists
        <3>1. UNCHANGED count /\ rest' = [rest EXCEPT ![t] = {}]
            BY <1>16, <2>2 DEF SuspendCall, AfterFailure
        <3>. QED
            BY <1>16, <3>1 DEF SuspendCall
    <2>. QED
        BY <2>1, <2>2
<1>17. ASSUME NEW t \in All, Record(t)
       PROVE  TypeOK'
    <2>1. [of |-> by[t], part |-> "stack", thread |-> Crashed(t)] \in Report
        BY <1>17, ReportType DEF Record
    <2>2. file' \subseteq Report
        BY <1>17, <2>1 DEF Record
    <2>. QED
        BY <1>17, <2>2 DEF Record
<1>18. ASSUME NEW t \in All, Mark(t)
       PROVE  TypeOK'
    <2>1. past' \in History
        BY <1>18 DEF Mark, History
    <2>. QED
        BY <1>18, <2>1 DEF Mark, Others
<1>19. ASSUME NEW t \in All, Resume(t)
       PROVE  TypeOK'
    <2>. DEFINE u == NextOf(t)
    <2>1. CASE rest[t] = {}
        BY <1>19, <2>1 DEF Resume
    <2>2. CASE rest[t] # {} /\ u \in exists /\ count[u] > 0
        <3>1. count' = [count EXCEPT ![u] = @ - 1] /\ rest' = [rest EXCEPT ![t] = @ \ {u}]
            BY <1>19, <2>2 DEF Resume
        <3>. HIDE DEF u
        <3>2. count' \in [All -> Nat] /\ rest' \in [All -> SUBSET All]
            BY <2>2, <3>1
        <3>. QED
            BY <1>19, <2>2, <3>2 DEF Resume
    <2>3. CASE rest[t] # {} /\ ~(u \in exists /\ count[u] > 0)
        <3>1. UNCHANGED count /\ rest' = [rest EXCEPT ![t] = {}]
            BY <1>19, <2>3 DEF Resume
        <3>. QED
            BY <1>19, <2>3, <3>1 DEF Resume
    <2>. QED
        BY <2>1, <2>2, <2>3
<1>20. ASSUME NEW t \in All, Handled(t)
       PROVE  TypeOK'
    <2>1. CASE by[t] = "mach"
        <3>1. port # <<>> /\ pc[t] = "handled" /\ t = Server
            BY <1>20, <2>1 DEF Handled, Serving
        <3>2. Head(port) \in Thread /\ Tail(port) \in Seq(Thread)
            BY <3>1
        <3>. QED
            BY ZenonT(30), <1>20, <2>1, <3>2 DEF Handled
    <2>2. CASE by[t] = "signal"
        BY SMTT(20), <1>20, <2>2 DEF Handled
    <2>3. CASE by[t] \notin {"mach", "signal"}
        <3>1. t \in Thread \/ ports = "default"
            BY <1>20 DEF Handled, Serving, All, Other
        <3>2. Raise(t, "abort") /\ UNCHANGED signals
            BY <1>20, <2>3 DEF Handled
        <3>3. /\ pc' \in [All -> Place] /\ port' \in Seq(Thread) /\ alive' \in BOOLEAN
              /\ cause' \in [All -> {"none", "fault", "abort"}]
            BY <3>1, <3>2, RaiseType
        <3>. QED
            BY <1>20, <3>2, <3>3 DEF Handled
    <2>. QED
        BY <2>1, <2>2, <2>3
<1>21. ASSUME NEW t \in All, Return(t)
       PROVE  TypeOK'
    <2>1. CASE cause[t] = "abort"
        BY <1>21, <2>1 DEF Return
    <2>2. CASE cause[t] # "abort"
        <3>1. t \in Thread \/ ports = "default"
            BY <1>21 DEF Return, Serving, All, Other
        <3>2. /\ pc' \in [All -> Place] /\ port' \in Seq(Thread) /\ alive' \in BOOLEAN
              /\ cause' \in [All -> {"none", "fault", "abort"}]
            BY <1>21, <2>2, <3>1, RaiseType DEF Return
        <3>. QED
            BY <1>21, <2>2, <3>2 DEF Return
    <2>. QED
        BY <2>1, <2>2
<1>. QED
    BY <1>1, <1>2, <1>3, <1>4, <1>5, <1>6, <1>7, <1>8, <1>9, <1>10, <1>11, <1>12, <1>13,
       <1>14, <1>15, <1>16, <1>17, <1>18, <1>19, <1>20, <1>21
       DEF Next, Serves, Handles

\* Every step but a launch keeps what is known of the server.
LEMMA ServingStep ==
    ASSUME TypeOK, Serving, Next, ~Launch
    PROVE  Serving'
<1>. USE Threads DEF TypeOK, Serving, Outside, Goes, At, Runs, setup, loop, disk
<1>1. CASE RunBlock
    BY <1>1 DEF RunBlock, RunsBlock, SignalInitialize, MachExceptionInit, ExceptionInitialize,
                KnowPath, RemoveMarker
<1>2. CASE Notify
    BY <1>2 DEF Notify
<1>3. CASE Kill
    BY <1>3 DEF Kill
<1>4. CASE Unregister
    BY <1>4 DEF Unregister
<1>5. CASE Reinstall
    BY <1>5 DEF Reinstall
<1>6. ASSUME NEW t \in Thread, Fail(t)
      PROVE  Serving'
    <2>1. pc'[t] \in Outside
        BY <1>6 DEF Fail, Raise
    <2>2. \A u \in All : u # t => pc'[u] = pc[u]
        BY <1>6 DEF Fail, Raise
    <2>3. port' = port \/ port' = Append(port, t)
        BY <1>6 DEF Fail, Raise
    <2>4. UNCHANGED <<setup, exists, by>> /\ t # Server /\ t # Worker
        BY <1>6 DEF Fail
    <2>5. port # <<>> => port' # <<>>
        BY <2>3
    <2>. QED
        BY <2>1, <2>2, <2>4, <2>5
<1>7. ASSUME NEW t \in Thread, Exit(t)
      PROVE  Serving'
    BY <1>7 DEF Exit
<1>8. ASSUME NEW t \in All, FailInside(t)
      PROVE  Serving'
    <2>1. pc'[t] \in Outside \/ pc'[t] = pc[t]
        BY ZenonT(30), <1>8 DEF FailInside, Raise
    <2>2. \A u \in All : u # t => pc'[u] = pc[u]
        BY <1>8 DEF FailInside, Raise
    <2>3. port' = port \/ port' = Append(port, t)
        BY <1>8 DEF FailInside, Raise
    <2>. QED
        BY <1>8, <2>1, <2>2, <2>3 DEF FailInside
<1>9. ASSUME NEW t \in All, EnterSignal(t)
      PROVE  Serving'
    BY <1>9 DEF EnterSignal
<1>10. ASSUME NEW t \in All, Terminate(t)
       PROVE  Serving'
    BY ZenonT(30), <1>10 DEF Terminate, Raise
<1>11. ASSUME NEW t \in All, Check(t)
       PROVE  Serving'
    BY <1>11 DEF Check
<1>12. ASSUME NEW t \in All, Claim(t)
       PROVE  Serving'
    BY <1>12 DEF Claim
<1>13. ASSUME NEW t \in All, Open(t)
       PROVE  Serving'
    BY <1>13 DEF Open
<1>14. ASSUME NEW t \in All, List(t)
       PROVE  Serving'
    BY <1>14 DEF List
<1>15. ASSUME NEW t \in All, Suspend(t)
       PROVE  Serving'
    BY <1>15 DEF Suspend
<1>16. ASSUME NEW t \in All, SuspendCall(t)
       PROVE  Serving'
    BY <1>16 DEF SuspendCall
<1>17. ASSUME NEW t \in All, Record(t)
       PROVE  Serving'
    BY <1>17 DEF Record
<1>18. ASSUME NEW t \in All, Mark(t)
       PROVE  Serving'
    BY <1>18 DEF Mark
<1>19. ASSUME NEW t \in All, Resume(t)
       PROVE  Serving'
    BY <1>19 DEF Resume
<1>20. ASSUME NEW t \in All, Handled(t)
       PROVE  Serving'
    <2>1. CASE by[t] = "mach"
        <3>1. port # <<>> /\ t = Server
            BY <1>20, <2>1 DEF Handled
        <3>2. Head(port) \in Thread
            BY <3>1
        <3>. QED
            BY <1>20, <2>1, <3>1, <3>2 DEF Handled
    <2>2. CASE by[t] = "signal"
        BY <1>20, <2>2 DEF Handled
    <2>3. CASE by[t] \notin {"mach", "signal"}
        BY <1>20, <2>3 DEF Handled, Raise
    <2>. QED
        BY <2>1, <2>2, <2>3
<1>21. ASSUME NEW t \in All, Return(t)
       PROVE  Serving'
    BY ZenonT(30), <1>21 DEF Return, Raise
<1>. QED
    BY <1>1, <1>2, <1>3, <1>4, <1>5, <1>6, <1>7, <1>8, <1>9, <1>10, <1>11, <1>12, <1>13,
       <1>14, <1>15, <1>16, <1>17, <1>18, <1>19, <1>20, <1>21
       DEF Next, Serves, Handles

\* In a launch in which nothing has gone wrong no handler takes a step.
LEMMA NobodyHandles ==
    ASSUME TypeOK, Calm, past.failures = 0
    PROVE  ~Serves /\ \A t \in All : ~Handles(t) /\ ~FailInside(t)
<1>1. ~Unregister /\ ~Reinstall
    BY Threads DEF Unregister, Reinstall, At, Runs, Calm
<1>2. \A t \in All : ~EnterSignal(t) /\ ~Terminate(t) /\ ~Check(t) /\ ~Claim(t) /\ ~Open(t)
    BY DEF EnterSignal, Terminate, Check, Claim, Open, At, Runs, Calm
<1>3. \A t \in All : ~List(t) /\ ~Suspend(t) /\ ~SuspendCall(t) /\ ~Record(t) /\ ~Mark(t)
    BY DEF List, Suspend, SuspendCall, Record, Mark, At, Runs, Calm
<1>4. \A t \in All : ~Resume(t) /\ ~Handled(t) /\ ~Return(t) /\ ~FailInside(t)
    BY DEF Resume, Handled, Return, FailInside, At, Runs, Calm
<1>. QED
    BY <1>1, <1>2, <1>3, <1>4 DEF Serves, Handles

\* What handlers note about themselves does not touch what has gone wrong.
LEMMA HandlesPast ==
    ASSUME TypeOK, Serves \/ \E t \in All : Handles(t)
    PROVE  past'.failures = past.failures /\ past'.prepared = past.prepared
<1>. USE DEF TypeOK, History
<1>1. CASE Serves
    BY <1>1 DEF Serves, Unregister, Reinstall
<1>2. ASSUME NEW t \in All, EnterSignal(t)
      PROVE  past'.failures = past.failures /\ past'.prepared = past.prepared
    BY <1>2 DEF EnterSignal
<1>3. ASSUME NEW t \in All, Open(t) \/ Mark(t)
      PROVE  past'.failures = past.failures /\ past'.prepared = past.prepared
    BY <1>3 DEF Open, Mark
<1>4. ASSUME NEW t \in All,
             \/ Terminate(t) \/ Check(t) \/ Claim(t) \/ List(t) \/ Suspend(t) \/ SuspendCall(t)
             \/ Record(t) \/ Resume(t) \/ Handled(t) \/ Return(t)
      PROVE  past' = past
    BY <1>4 DEF Terminate, Check, Claim, List, Suspend, SuspendCall, Record, Resume, Handled, Return
<1>. QED
    BY <1>1, <1>2, <1>3, <1>4 DEF Handles

\* What has gone wrong stays so until the next launch.
LEMMA FailuresStay ==
    ASSUME TypeOK, Next, ~Launch, past.failures > 0
    PROVE  past'.failures > 0
<1>1. CASE RunBlock \/ Notify \/ Kill
    BY <1>1 DEF RunBlock, RunsBlock, SignalInitialize, MachExceptionInit, ExceptionInitialize,
                KnowPath, RemoveMarker, Notify, Kill
<1>2. CASE Serves \/ \E t \in All : Handles(t)
    BY <1>2, HandlesPast
<1>3. ASSUME NEW t \in Thread, Fail(t)
      PROVE  past'.failures > 0
    BY <1>3, GoesWrongType DEF Fail
<1>4. ASSUME NEW t \in Thread, Exit(t)
      PROVE  past'.failures > 0
    BY <1>4 DEF Exit
<1>5. ASSUME NEW t \in All, FailInside(t)
      PROVE  past'.failures > 0
    BY <1>5, GoesWrongType DEF FailInside
<1>. QED
    BY <1>1, <1>2, <1>3, <1>4, <1>5 DEF Next

\* A calm launch stays calm, or something goes wrong.
LEMMA CalmStep ==
    ASSUME TypeOK, Calm, Next, ~Launch, TypeOK'
    PROVE  Calm'
<1>1. CASE past.failures = 0
    <2>1. CASE RunBlock \/ Notify \/ Kill
        BY <1>1, <2>1 DEF RunBlock, RunsBlock, SignalInitialize, MachExceptionInit,
                ExceptionInitialize, KnowPath, RemoveMarker, Notify, Kill, Calm
    <2>2. ASSUME NEW t \in Thread, Exit(t)
          PROVE  Calm'
        BY <1>1, <2>2 DEF Exit, Calm
    <2>3. ASSUME NEW t \in Thread, Fail(t)
          PROVE  Calm'
        <3>1. past'.failures > 0
            BY <2>3, GoesWrongType DEF Fail
        <3>. QED
            BY <3>1 DEF Calm
    <2>. QED
        BY <1>1, <2>1, <2>2, <2>3, NobodyHandles DEF Next
<1>2. CASE past.failures > 0
    BY <1>2, FailuresStay DEF Calm
<1>. QED
    BY <1>1, <1>2 DEF TypeOK, History

\* A marker is left by somebody who handles a failure.
LEMMA MarkedStep ==
    ASSUME TypeOK, Calm, Marked, Next, ~Launch
    PROVE  Marked'
<1>1. CASE past.failures > 0
    BY <1>1, FailuresStay DEF Marked
<1>2. CASE past.failures = 0
    <2>1. CASE SignalInitialize \/ MachExceptionInit \/ ExceptionInitialize \/ KnowPath
        BY <2>1 DEF SignalInitialize, MachExceptionInit, ExceptionInitialize, KnowPath,
                    RunsBlock, Marked
    <2>2. CASE RemoveMarker
        BY <2>2 DEF RemoveMarker, Marked
    <2>3. CASE Notify \/ Kill
        BY <2>3 DEF Notify, Kill, setup, disk, Marked
    <2>4. ASSUME NEW t \in Thread, Exit(t)
          PROVE  Marked'
        BY <2>4 DEF Exit, setup, disk, Marked
    <2>5. ASSUME NEW t \in Thread, Fail(t)
          PROVE  Marked'
        BY <2>5, GoesWrongType DEF Fail, Marked
    <2>. QED
        BY <1>2, <2>1, <2>2, <2>3, <2>4, <2>5, NobodyHandles DEF Next, RunBlock
<1>. QED
    BY <1>1, <1>2 DEF TypeOK, History

\* A step that sends nobody to the handler of the signals, unless it is installed, and
\* that lets nobody in.
LEMMA RemovedFrame ==
    ASSUME TypeOK, Removed, HandlesOnce,
           past'.entered = past.entered, past'.prepared = past.prepared,
           past.prepared => todo' = todo,
           signals' \in {signals, "default"},
           \A u \in All : pc'[u] = "signal" => pc[u] = "signal" \/ signals = "handler"
    PROVE  Removed' /\ HandlesOnce'
<1>1. ASSUME past.prepared, NEW u \in All, signals = "handler"
      PROVE  past.entered[u] = 0
    BY <1>1 DEF Removed, TypeOK, History
<1>. QED
    BY <1>1 DEF Removed, HandlesOnce, TypeOK, History

\* Once the handlers have been removed they stay removed, and nobody is let in twice.
LEMMA RemovedStep ==
    ASSUME TypeOK, Serving, Calm, Removed, HandlesOnce, Next, ~Launch
    PROVE  Removed' /\ HandlesOnce'
<1>. DEFINE Keeps ==
        /\ past'.entered = past.entered /\ past'.prepared = past.prepared
        /\ past.prepared => todo' = todo
        /\ signals' \in {signals, "default"}
        /\ \A u \in All : pc'[u] = "signal" => pc[u] = "signal" \/ signals = "handler"
<1>. SUFFICES ASSUME ~Keeps
              PROVE  Removed' /\ HandlesOnce'
    BY RemovedFrame
<1>1. CASE RunBlock
    <2>1. past' = past /\ ~past.prepared
        BY <1>1 DEF RunBlock, RunsBlock, SignalInitialize, MachExceptionInit,
                ExceptionInitialize, KnowPath, RemoveMarker, Removed
    <2>. QED
        BY <2>1 DEF Removed, HandlesOnce
<1>2. ASSUME NEW t \in All, EnterSignal(t)
      PROVE  Removed' /\ HandlesOnce'
    <2>1. pc[t] = "signal" /\ pc' = [pc EXCEPT ![t] = "check"] /\ signals' = "default"
        BY <1>2 DEF EnterSignal, At, Goes, RemovedHandlers
    <2>2. /\ past'.prepared = past.prepared
          /\ past'.entered = [past.entered EXCEPT ![t] = @ + 1] /\ todo' = todo
        BY <1>2 DEF EnterSignal, setup, TypeOK, History
    <2>3. past.entered \in [All -> Nat] /\ pc \in [All -> Place]
        BY DEF TypeOK, History
    <2>4. past.prepared => past.entered[t] = 0
        BY <2>1 DEF Removed
    <2>. QED
        BY <2>1, <2>2, <2>3, <2>4 DEF Removed, HandlesOnce
<1>3. ASSUME NEW t \in All, GoesWrong(TRUE) \/ GoesWrong(FALSE),
             \/ Raise(t, "fault") \/ Raise(t, "abort")
             \/ Goes(t, "terminate"),
             t \in Thread \/ ports = "default", UNCHANGED <<signals, setup>>
      PROVE  Removed' /\ HandlesOnce'
    <2>1. /\ past'.entered = past.entered
          /\ past.failures > 0 => past'.prepared = past.prepared
          /\ past.failures = 0 => past'.prepared = (initialized /\ todo = {})
        BY <1>3, GoesWrongType
    <2>2. \A u \in All : pc'[u] = "signal" => pc[u] = "signal" \/ signals = "handler"
        BY <1>3, RaiseType DEF Goes, TypeOK
    <2>3. CASE past.failures > 0
        BY <1>3, <2>1, <2>2, <2>3 DEF setup
    <2>4. CASE past.failures = 0
        <3>1. \A u \in All : past.entered[u] = 0
            BY <2>4 DEF Calm
        <3>2. past'.prepared => todo' = {}
            BY <1>3, <2>1, <2>4 DEF setup
        <3>. QED
            BY <2>1, <3>1, <3>2 DEF Removed, HandlesOnce
    <2>. QED
        BY <2>3, <2>4 DEF TypeOK, History
<1>4. CASE Notify \/ Kill \/ Serves
    BY <1>4 DEF Notify, Kill, Serves, Unregister, Reinstall, Goes, setup, TypeOK
<1>5. ASSUME NEW t \in Thread, Exit(t)
      PROVE  Removed' /\ HandlesOnce'
    BY <1>5 DEF Exit, setup
<1>6. ASSUME NEW t \in Thread, Fail(t)
      PROVE  Removed' /\ HandlesOnce'
    BY <1>3, <1>6, Threads DEF Fail
<1>7. ASSUME NEW t \in All, FailInside(t)
      PROVE  Removed' /\ HandlesOnce'
    <2>1. t \in Thread \/ ports = "default"
        BY <1>7 DEF FailInside, At, Serving, All, Other
    <2>. QED
        BY <1>3, <1>7, <2>1 DEF FailInside
<1>8. ASSUME NEW t \in All, Terminate(t) \/ Handled(t) \/ Return(t)
      PROVE  Removed' /\ HandlesOnce'
    <2>1. t \in Thread \/ ports = "default"
        BY <1>8 DEF Terminate, Handled, Return, At, Runs, Serving, All, Other
    <2>2. past' = past /\ todo' = todo /\ signals' \in {signals, "default"}
        BY <1>8 DEF Terminate, Handled, Return, setup
    <2>3. CASE Raise(t, "fault") \/ Raise(t, "abort")
        <3>1. \A u \in All : pc'[u] = "signal" => pc[u] = "signal" \/ signals = "handler"
            BY <2>1, <2>3, RaiseType
        <3>. QED
            BY <2>2, <3>1
    <2>4. CASE ~(Raise(t, "fault") \/ Raise(t, "abort"))
        <3>1. \/ pc' = pc \/ pc' = [pc EXCEPT ![t] = "open"] \/ pc' = [pc EXCEPT ![t] = "return"]
              \/ pc' = [pc EXCEPT ![t] = "idle", ![Head(port)] = "return"]
            BY <1>8, <2>4 DEF Terminate, Handled, Return, Goes
        <3>2. \A u \in All : pc'[u] = "signal" => pc[u] = "signal"
            BY <3>1 DEF TypeOK
        <3>. QED
            BY <2>2, <3>2
    <2>. QED
        BY <2>3, <2>4
<1>9. ASSUME NEW t \in All, Open(t) \/ Mark(t)
      PROVE  Removed' /\ HandlesOnce'
    <2>1. past'.entered = past.entered /\ past'.prepared = past.prepared
        BY <1>9 DEF Open, Mark, TypeOK, History
    <2>2. UNCHANGED <<signals, setup>> /\ \A u \in All : pc'[u] = "signal" => pc[u] = "signal"
        BY <1>9 DEF Open, Mark, Goes, TypeOK
    <2>. QED
        BY <2>1, <2>2 DEF setup
<1>10. ASSUME NEW t \in All,
              \/ Check(t) \/ Claim(t) \/ List(t) \/ Suspend(t) \/ SuspendCall(t) \/ Record(t)
              \/ Resume(t)
       PROVE  Removed' /\ HandlesOnce'
    <2>1. UNCHANGED <<signals, setup, past>>
        BY <1>10 DEF Check, Claim, List, Suspend, SuspendCall, Record, Resume
    <2>2. \A u \in All : pc'[u] = "signal" => pc[u] = "signal"
        BY <1>10 DEF Check, Claim, List, Suspend, SuspendCall, Record, Resume, Goes, TypeOK
    <2>. QED
        BY <2>1, <2>2 DEF setup
<1>. QED
    BY <1>1, <1>2, <1>4, <1>5, <1>6, <1>7, <1>8, <1>9, <1>10 DEF Next, Handles

-----------------------------------------------------------------------------

\* Every step keeps the invariant.
LEMMA NextIInv == IInv /\ [Next]_vars => IInv'
<1>. SUFFICES ASSUME IInv, [Next]_vars
              PROVE  IInv'
    OBVIOUS
<1>1. CASE Launch
    BY <1>1, LaunchIInv DEF IInv, TypeOK
<1>2. CASE Next /\ ~Launch
    <2>1. TypeOK' /\ Serving'
        BY <1>2, TypeStep, ServingStep DEF IInv
    <2>2. Calm' /\ Marked'
        BY <1>2, <2>1, CalmStep, MarkedStep DEF IInv
    <2>3. Removed' /\ HandlesOnce'
        BY <1>2, RemovedStep DEF IInv
    <2>. QED
        BY <2>1, <2>2, <2>3 DEF IInv
<1>3. CASE UNCHANGED vars
    BY <1>3 DEF vars, setup, loop, disk, IInv, TypeOK, Serving, Calm, Removed, HandlesOnce, Marked
<1>. QED
    BY <1>1, <1>2, <1>3

\* The invariant holds throughout.
THEOREM Invariant == Spec => []IInv
BY InitIInv, NextIInv, PTL DEF Spec

\* The threads are where the handlers put them, and a file of a Mach exception is about
\* the thread that has failed, never about the server that writes it.
THEOREM TypeCorrect == Spec => []TypeOK
<1>1. IInv => TypeOK
    BY DEF IInv
<1>. QED
    BY <1>1, Invariant, PTL

\* "otherwise we can get called in a loop" (FIRCLSSignal.c): in a launch that is all set
\* up no thread gets into FIRCLSSignalHandler twice, however many threads fail, there or
\* inside of a handler.
THEOREM HandledOnce == Spec => []HandlesOnce
<1>1. IInv => HandlesOnce
    BY DEF IInv
<1>. QED
    BY <1>1, Invariant, PTL

\* didCrashDuringPreviousExecution: a launch that finds the marker follows one in which
\* something went wrong, or that has not removed the marker it found itself.
THEOREM MarkerIsTrue == Spec => DidCrashIsTrue
<1>1. IInv => [(~alive /\ alive' /\ marker) => (past.failures > 0 \/ "clean" \in todo)]_vars
    BY DEF IInv, Marked
<1>. QED
    BY <1>1, Invariant, PTL DEF DidCrashIsTrue

-----------------------------------------------------------------------------
(* The second inductive invariant: the suspend count of a thread is the    *)
(* number of handlers that have suspended it and not yet resumed it.       *)

\* What a loop over S that stops at the first thread that is no more gets to.
UptoIn(S, E) == {u \in S : \A v \in S : v <= u => v \in E}

Upto(S) == UptoIn(S, exists)

\* The threads that t has suspended and not yet resumed.
Holds(t) ==
    IF pc[t] \in {"suspend", "call"} THEN Upto(Others(t)) \ rest[t]
    ELSE IF pc[t] \in {"record", "mark"} THEN Upto(Others(t))
    ELSE IF pc[t] = "resume" THEN Upto(rest[t])
    ELSE {}

Holders(u) == {t \in All : u \in Holds(t)}

Counted == \A u \in All : count[u] = Cardinality(Holders(u))

\* A loop goes through the others in their order, and has left nobody out but, when it
\* has stopped, those from the thread on that is no more.
InOrder(t) ==
    /\ rest[t] \subseteq Others(t)
    /\ \A u \in rest[t], v \in Others(t) : u <= v => v \in rest[t]
    /\ rest[t] # {} => Others(t) \ rest[t] \subseteq exists

Loops(t) ==
    /\ pc[t] \in {"suspend", "call"} => InOrder(t)
    /\ pc[t] = "call" => rest[t] # {}
    /\ pc[t] \in Inside => rest[t] \subseteq Others(t)
    /\ pc[t] \in Inside /\ Server \in listed[t] => Server \in exists

Looping == \A t \in All : Loops(t)

CInv == ~past.broken => Counted /\ Looping

\* Whose exception is at the port waits for the server, with one exception each.
Waiting ==
    \A i \in 1..Len(port) :
        /\ port[i] \in Thread /\ pc[port[i]] = "waiting"
        /\ \A j \in 1..Len(port) : port[i] = port[j] => i = j

-----------------------------------------------------------------------------

\* The threads are numbered, and finitely many.
LEMMA AllNumbered == All \subseteq Nat /\ IsFiniteSet(All)
<1>1. IsFiniteSet(Thread \cup {Server})
    BY CrashHandlingAssumption, FS_AddElement
<1>2. IsFiniteSet((Thread \cup {Server}) \cup {Worker})
    BY <1>1, FS_AddElement
<1>3. All = (Thread \cup {Server}) \cup {Worker}
    BY DEF All, Other
<1>. QED
    BY <1>2, <1>3, CrashHandlingAssumption DEF All, Other

\* A set of threads that is not empty has a first one.
LEMMA First ==
    ASSUME NEW S \in SUBSET All, S # {}
    PROVE  \E u \in S : \A v \in S : u <= v
<1>1. S \subseteq Nat
    BY AllNumbered
<1>2. PICK u \in S : \A v \in S : ~(<<v, u>> \in OpToRel(<, Nat))
    BY <1>1, NatLessThanWellFounded, WFMin
<1>3. \A v \in S : ~(v < u)
    BY <1>1, <1>2 DEF OpToRel
<1>. QED
    BY <1>1, <1>3

LEMMA NextOfIsFirst ==
    ASSUME TypeOK, NEW t \in All, rest[t] # {}
    PROVE  /\ NextOf(t) \in rest[t] /\ NextOf(t) \in All
           /\ \A v \in rest[t] : NextOf(t) <= v
<1>1. rest[t] \in SUBSET All
    BY DEF TypeOK
<1>. QED
    BY <1>1, First DEF NextOf

\* The counts go with the holders when one thread begins or ceases to hold another.
LEMMA HoldersFinite ==
    \A u \in All : IsFiniteSet(Holders(u)) /\ Cardinality(Holders(u)) \in Nat
BY AllNumbered, FS_Subset, FS_CardinalityType DEF Holders

\* Steps that leave what everybody holds as it is.
LEMMA CountedFrame ==
    ASSUME Counted, count' = count, \A t \in All : Holds(t)' = Holds(t)
    PROVE  Counted'
<1>1. \A u \in All : Holders(u)' = Holders(u)
    BY DEF Holders
<1>. QED
    BY <1>1 DEF Counted

\* t has suspended u.
LEMMA CountedMore ==
    ASSUME TypeOK, Counted, NEW t \in All, NEW u \in All, u \notin Holds(t),
           count' = [count EXCEPT ![u] = @ + 1],
           Holds(t)' = Holds(t) \cup {u},
           \A v \in All \ {t} : Holds(v)' = Holds(v)
    PROVE  Counted'
<1>1. \A w \in All \ {u} : Holders(w)' = Holders(w)
    BY DEF Holders
<1>2. Holders(u)' = Holders(u) \cup {t} /\ t \notin Holders(u)
    BY DEF Holders
<1>3. Cardinality(Holders(u)') = Cardinality(Holders(u)) + 1
    BY <1>2, HoldersFinite, FS_AddElement
<1>. QED
    BY <1>1, <1>3 DEF Counted, TypeOK

\* t has resumed u.
LEMMA CountedLess ==
    ASSUME TypeOK, Counted, NEW t \in All, NEW u \in All, u \in Holds(t),
           count' = [count EXCEPT ![u] = @ - 1],
           Holds(t)' = Holds(t) \ {u},
           \A v \in All \ {t} : Holds(v)' = Holds(v)
    PROVE  Counted'
<1>1. \A w \in All \ {u} : Holders(w)' = Holders(w)
    BY DEF Holders
<1>2. Holders(u)' = Holders(u) \ {t} /\ t \in Holders(u)
    BY DEF Holders
<1>3. Cardinality(Holders(u)') = Cardinality(Holders(u)) - 1
    BY <1>2, HoldersFinite, FS_RemoveElement
<1>. QED
    BY <1>1, <1>3 DEF Counted, TypeOK

\* Whom somebody holds does not run.
LEMMA HeldIsSuspended ==
    ASSUME TypeOK, Counted, NEW t \in All, NEW u \in All, u \in Holds(t)
    PROVE  count[u] > 0
<1>1. Holders(u) # {}
    BY DEF Holders
<1>2. Cardinality(Holders(u)) # 0
    BY <1>1, HoldersFinite, FS_EmptySet
<1>. QED
    BY <1>2, HoldersFinite DEF Counted
-----------------------------------------------------------------------------
(* One step. *)

\* A failure puts the thread at the end of the port or leaves the port alone.
LEMMA RaiseWaits ==
    ASSUME TypeOK, Waiting, NEW t \in All, NEW what, pc[t] # "waiting",
           t \in Thread \/ ports = "default", Raise(t, what)
    PROVE  Waiting'
<1>0. port \in Seq(Thread) /\ pc \in [All -> Place] /\ Thread \subseteq All
    BY Threads DEF TypeOK
<1>1. CASE port' = Append(port, t) /\ pc' = [pc EXCEPT ![t] = "waiting"] /\ t \in Thread
    BY <1>0, <1>1 DEF Waiting
<1>2. CASE port' = port /\ \A v \in All : v # t => pc'[v] = pc[v]
    BY <1>0, <1>2 DEF Waiting
<1>3. ports # "default" => t \in Thread
    OBVIOUS
<1>. QED
    BY <1>0, <1>1, <1>2, <1>3 DEF Raise, Goes

\* A step of a thread that does not wait, and does not touch the port.
LEMMA WaitingFrame ==
    ASSUME TypeOK, Waiting, port' = port,
           \A v \in All : pc[v] = "waiting" => pc'[v] = "waiting"
    PROVE  Waiting'
BY Threads DEF Waiting, TypeOK

LEMMA WaitingStep ==
    ASSUME TypeOK, Serving, Waiting, Next, ~Launch
    PROVE  Waiting'
<1>. USE DEF At, Goes
<1>1. CASE RunBlock \/ Notify \/ Kill
    BY <1>1, WaitingFrame DEF RunBlock, RunsBlock, SignalInitialize, MachExceptionInit,
            ExceptionInitialize, KnowPath, RemoveMarker, Notify, Kill
<1>2. CASE Serves
    BY <1>2, WaitingFrame DEF Serves, Unregister, Reinstall, TypeOK
<1>3. ASSUME NEW t \in Thread, Exit(t)
      PROVE  Waiting'
    BY <1>3, WaitingFrame DEF Exit
<1>4. ASSUME NEW t \in Thread, Fail(t)
      PROVE  Waiting'
    <2>1. CASE Raise(t, "fault") \/ Raise(t, "abort")
        BY <1>4, <2>1, RaiseWaits, Threads DEF Fail
    <2>2. CASE Goes(t, "terminate") /\ UNCHANGED <<cause, port, alive>>
        BY <1>4, <2>2, WaitingFrame DEF Fail, TypeOK
    <2>. QED
        BY <1>4, <2>1, <2>2 DEF Fail
<1>5. ASSUME NEW t \in All, FailInside(t)
      PROVE  Waiting'
    <2>1. t \in Thread \/ ports = "default"
        BY <1>5 DEF FailInside, Serving, All, Other
    <2>. QED
        BY <1>5, <2>1, RaiseWaits DEF FailInside
<1>6. ASSUME NEW t \in All,
             \/ EnterSignal(t) \/ Check(t) \/ Claim(t) \/ Open(t) \/ List(t) \/ Suspend(t)
             \/ SuspendCall(t) \/ Record(t) \/ Mark(t) \/ Resume(t)
      PROVE  Waiting'
    BY <1>6, WaitingFrame DEF EnterSignal, Check, Claim, Open, List, Suspend, SuspendCall,
            Record, Mark, Resume, TypeOK
<1>7. ASSUME NEW t \in All, Terminate(t) \/ Return(t) \/ Handled(t),
             Raise(t, "abort") \/ Raise(t, "fault")
      PROVE  Waiting'
    <2>1. (t \in Thread \/ ports = "default") /\ pc[t] # "waiting"
        BY <1>7 DEF Terminate, Return, Handled, Serving, All, Other
    <2>. QED
        BY <1>7, <2>1, RaiseWaits
<1>8. ASSUME NEW t \in All, Terminate(t) \/ Return(t),
             ~(Raise(t, "abort") \/ Raise(t, "fault"))
      PROVE  Waiting'
    BY <1>8, WaitingFrame DEF Terminate, Return, TypeOK
<1>9. ASSUME NEW t \in All, Handled(t), by[t] = "signal"
      PROVE  Waiting'
    BY <1>9, WaitingFrame DEF Handled, TypeOK
<1>10. ASSUME NEW t \in All, Handled(t), by[t] = "mach"
       PROVE  Waiting'
    <2>1. pc' = [pc EXCEPT ![t] = "idle", ![Head(port)] = "return"] /\ port' = Tail(port)
        BY <1>10 DEF Handled
    <2>2. t = Server /\ port # <<>> /\ port \in Seq(Thread) /\ pc \in [All -> Place]
        BY <1>10 DEF Handled, Serving, TypeOK
    <2>3. \A i \in 1..Len(port') : i + 1 \in 1..Len(port) /\ port'[i] = port[i + 1]
        BY <2>1, <2>2
    <2>4. Head(port) = port[1] /\ 1 \in 1..Len(port)
        BY <2>2
    <2>5. \A i \in 1..Len(port') : port'[i] \in Thread /\ port'[i] # Head(port) /\ port'[i] # t
        BY <2>2, <2>3, <2>4, Threads DEF Waiting
    <2>6. \A i \in 1..Len(port') : pc'[port'[i]] = "waiting"
        BY <2>1, <2>2, <2>3, <2>5, Threads DEF Waiting
    <2>7. \A i, j \in 1..Len(port') : port'[i] = port'[j] => i = j
        BY <2>3 DEF Waiting
    <2>. QED
        BY <2>5, <2>6, <2>7 DEF Waiting
<1>. QED
    BY <1>1, <1>2, <1>3, <1>4, <1>5, <1>6, <1>7, <1>8, <1>9, <1>10
       DEF Next, Handles, Handled

\* A step that does not concern the loops of v.
LEMMA Undisturbed ==
    ASSUME NEW v \in All, Loops(v), exists' = exists,
           listed'[v] = listed[v], rest'[v] = rest[v],
           pc'[v] = pc[v] \/ (pc[v] \notin Inside /\ pc'[v] \notin Inside)
    PROVE  Holds(v)' = Holds(v) /\ Loops(v)'
BY DEF Holds, Loops, InOrder, Upto, UptoIn, Others, Inside

\* A step that concerns nobody's loops.
LEMMA QuietStep ==
    ASSUME CInv, UNCHANGED <<count, exists, listed, rest>>,
           past.broken => past'.broken,
           \A v \in All : pc'[v] = pc[v] \/ (pc[v] \notin Inside /\ pc'[v] \notin Inside)
    PROVE  CInv'
<1>. SUFFICES ASSUME ~past'.broken
              PROVE  Counted' /\ Looping'
    BY DEF CInv
<1>1. Counted /\ Looping
    BY DEF CInv
<1>2. \A v \in All : Holds(v)' = Holds(v) /\ Loops(v)'
    BY <1>1, Undisturbed DEF Looping
<1>. QED
    BY <1>1, <1>2, CountedFrame DEF Looping

\* The steps outside of FIRCLSHandler concern nobody's loops.
LEMMA OutsideStep ==
    ASSUME TypeOK, Serving, Waiting, CInv,
           \/ SignalInitialize \/ ExceptionInitialize \/ KnowPath \/ RemoveMarker
           \/ Notify \/ Kill \/ Serves
           \/ \E t \in Thread : Fail(t)
           \/ \E t \in All : \/ EnterSignal(t) \/ Terminate(t) \/ Check(t) \/ Claim(t)
                             \/ Open(t) \/ Handled(t) \/ Return(t)
    PROVE  CInv'
<1>. USE Threads DEF TypeOK, Inside
<1>1. CASE \/ SignalInitialize \/ ExceptionInitialize \/ KnowPath \/ RemoveMarker
           \/ Notify \/ Kill
    BY <1>1, QuietStep DEF SignalInitialize, ExceptionInitialize, KnowPath, RemoveMarker,
            RunsBlock, Notify, Kill, loop
<1>2. CASE Serves
    BY <1>2, QuietStep DEF Serves, Unregister, Reinstall, At, Goes, loop
<1>3. ASSUME NEW t \in Thread, Fail(t)
      PROVE  CInv'
    <2>1. \A v \in All : pc'[v] = pc[v] \/ (pc[v] \notin Inside /\ pc'[v] \notin Inside)
        BY <1>3 DEF Fail, At, Goes, Raise
    <2>2. past.broken => past'.broken
        BY <1>3 DEF Fail, GoesWrong, History
    <2>. QED
        BY <1>3, <2>1, <2>2, QuietStep DEF Fail, loop
<1>4. ASSUME NEW t \in All, EnterSignal(t) \/ Open(t)
      PROVE  CInv'
    <2>1. past.broken => past'.broken
        BY <1>4 DEF EnterSignal, Open, History
    <2>. QED
        BY <1>4, <2>1, QuietStep DEF EnterSignal, Open, At, Goes, loop
<1>5. ASSUME NEW t \in All, Check(t) \/ Claim(t)
      PROVE  CInv'
    BY <1>5, QuietStep DEF Check, Claim, At, Goes, loop
<1>6. ASSUME NEW t \in All, Terminate(t)
      PROVE  CInv'
    BY <1>6, QuietStep DEF Terminate, Raise, At, Goes, loop
<1>7. ASSUME NEW t \in All, Return(t)
      PROVE  CInv'
    BY <1>7, QuietStep DEF Return, Raise, At, Goes, loop
<1>8. ASSUME NEW t \in All, Handled(t)
      PROVE  CInv'
    <2>1. \A v \in All : pc'[v] = pc[v] \/ (pc[v] \notin Inside /\ pc'[v] \notin Inside)
        <3>1. CASE by[t] = "mach"
            <4>1. port # <<>> /\ port \in Seq(Thread)
                BY <1>8, <3>1 DEF Handled, Serving, Outside, At
            <4>2. Head(port) \in All /\ pc[Head(port)] = "waiting"
                BY <4>1 DEF Waiting
            <4>. QED
                BY <1>8, <3>1, <4>2 DEF Handled, At
        <3>2. CASE by[t] # "mach"
            BY <1>8, <3>2 DEF Handled, Raise, At, Goes
        <3>. QED
            BY <3>1, <3>2
    <2>. QED
        BY <1>8, <2>1, QuietStep DEF Handled, loop
<1>. QED
    BY <1>1, <1>2, <1>3, <1>4, <1>5, <1>6, <1>7, <1>8

\* Another thread makes no difference to the loops that do not come to it.
LEMMA UptoMore ==
    ASSUME NEW S, NEW E, NEW u, u \in S => u \in E
    PROVE  UptoIn(S, E \cup {u}) = UptoIn(S, E)
BY DEF UptoIn

\* Neither does the end of one that they have not come past.
LEMMA UptoLess ==
    ASSUME NEW S \in SUBSET All, NEW E, NEW u, u \notin UptoIn(S, E)
    PROVE  UptoIn(S, E \ {u}) = UptoIn(S, E)
<1>1. S \subseteq Nat
    BY AllNumbered
<1>2. ASSUME NEW w \in UptoIn(S, E), NEW v \in S, v <= w
      PROVE  v # u
    <2>1. \A x \in S : x <= v => x <= w
        BY <1>1, <1>2 DEF UptoIn
    <2>2. v \in UptoIn(S, E)
        BY <1>2, <2>1 DEF UptoIn
    <2>. QED
        BY <2>2
<1>. QED
    BY <1>2 DEF UptoIn

\* As long as there is a rest, everybody before it has been suspended.
LEMMA InOrderHolds ==
    ASSUME NEW S, NEW R \in SUBSET S, NEW E,
           \A u \in R, v \in S : u <= v => v \in R,
           S \ R \subseteq E
    PROVE  UptoIn(S, E) \ R = S \ R
BY DEF UptoIn

\* The server is started: nobody has listed it before.
LEMMA ServerStep ==
    ASSUME TypeOK, Serving, CInv, MachExceptionInit
    PROVE  CInv'
<1>. SUFFICES ASSUME ~past.broken
              PROVE  Counted' /\ Looping'
    BY DEF CInv, MachExceptionInit, RunsBlock
<1>1. Counted /\ Looping
    BY DEF CInv
<1>2. UNCHANGED <<count, listed, rest, pc>> /\ exists' = exists \cup {Server}
    BY DEF MachExceptionInit, RunsBlock, loop
<1>3. ASSUME NEW v \in All
      PROVE  Holds(v)' = Holds(v) /\ Loops(v)'
    <2>1. Loops(v)
        BY <1>1 DEF Looping
    <2>2. CASE pc[v] \notin Inside
        BY <1>2, <2>2 DEF Holds, Loops, Inside
    <2>3. CASE pc[v] \in Inside
        <3>1. /\ Server \in Others(v) => Server \in exists
              /\ Server \in rest[v] => Server \in exists
            BY <2>1, <2>3 DEF Loops, Others
        <3>2. /\ UptoIn(Others(v), exists \cup {Server}) = UptoIn(Others(v), exists)
              /\ UptoIn(rest[v], exists \cup {Server}) = UptoIn(rest[v], exists)
            BY <3>1, UptoMore
        <3>3. Holds(v)' = Holds(v)
            BY <1>2, <3>2 DEF Holds, Upto, Others
        <3>4. Loops(v)'
            BY <1>2, <2>1 DEF Loops, InOrder, Others
        <3>. QED
            BY <3>3, <3>4
    <2>. QED
        BY <2>2, <2>3
<1>. QED
    BY <1>1, <1>2, <1>3, CountedFrame DEF Looping

\* A thread ends: it runs, so that nobody holds it, and no loop has come past it.
LEMMA ExitStep ==
    ASSUME TypeOK, CInv, NEW u \in Thread, Exit(u)
    PROVE  CInv'
<1>. SUFFICES ASSUME ~past.broken
              PROVE  Counted' /\ Looping'
    BY DEF CInv, Exit
<1>1. Counted /\ Looping
    BY DEF CInv
<1>2. UNCHANGED <<count, listed, rest, pc>> /\ exists' = exists \ {u}
    BY DEF Exit, loop
<1>3. count[u] = 0 /\ u \in All /\ u # Server
    BY Threads DEF Exit, At, Runs
<1>4. ASSUME NEW v \in All
      PROVE  Holds(v)' = Holds(v) /\ Loops(v)'
    <2>1. u \notin Holds(v)
        BY <1>1, <1>3, HeldIsSuspended
    <2>2. Loops(v)
        BY <1>1 DEF Looping
    <2>3. Others(v) \in SUBSET All /\ rest[v] \in SUBSET All
        BY DEF Others, TypeOK
    <2>5. CASE pc[v] \in {"suspend", "call"}
        <3>1. InOrder(v) /\ Holds(v) = UptoIn(Others(v), exists) \ rest[v]
            BY <2>2, <2>5 DEF Loops, Holds, Upto
        <3>2. CASE rest[v] = {}
            <4>1. UptoIn(Others(v), exists \ {u}) = UptoIn(Others(v), exists)
                BY <2>1, <2>3, <3>1, <3>2, UptoLess
            <4>2. Holds(v)' = Holds(v)
                BY <1>2, <2>5, <3>2, <4>1 DEF Holds, Upto, Others
            <4>3. Loops(v)'
                BY <1>2, <1>3, <2>2, <3>2 DEF Loops, InOrder, Others
            <4>. QED
                BY <4>2, <4>3
        <3>3. CASE rest[v] # {}
            <4>1. Holds(v) = Others(v) \ rest[v] /\ Others(v) \ rest[v] \subseteq exists
                BY <3>1, <3>3, InOrderHolds DEF InOrder
            <4>2. Others(v) \ rest[v] \subseteq exists \ {u}
                BY <2>1, <4>1
            <4>3. UptoIn(Others(v), exists \ {u}) \ rest[v] = Others(v) \ rest[v]
                BY <3>1, <4>2, InOrderHolds DEF InOrder
            <4>4. Holds(v)' = Holds(v)
                BY <1>2, <2>5, <4>1, <4>3 DEF Holds, Upto, Others
            <4>5. Loops(v)'
                BY <1>2, <1>3, <2>2, <4>2 DEF Loops, InOrder, Others
            <4>. QED
                BY <4>4, <4>5
        <3>. QED
            BY <3>2, <3>3
    <2>6. CASE pc[v] \in {"record", "mark"}
        <3>1. UptoIn(Others(v), exists \ {u}) = UptoIn(Others(v), exists)
            BY <2>1, <2>3, <2>6, UptoLess DEF Holds, Upto
        <3>. QED
            BY <1>2, <1>3, <2>2, <2>6, <3>1 DEF Holds, Upto, Loops, Others, Inside
    <2>7. CASE pc[v] = "resume"
        <3>1. UptoIn(rest[v], exists \ {u}) = UptoIn(rest[v], exists)
            BY <2>1, <2>3, <2>7, UptoLess DEF Holds, Upto
        <3>. QED
            BY <1>2, <1>3, <2>2, <2>7, <3>1 DEF Holds, Upto, Loops, Others, Inside
    <2>8. CASE pc[v] \notin Inside
        BY <1>2, <2>8 DEF Holds, Loops, Inside
    <2>. QED
        BY <2>5, <2>6, <2>7, <2>8 DEF Inside
<1>. QED
    BY <1>1, <1>2, <1>4, CountedFrame DEF Looping

\* FIRCLSProcessInit: nothing is held yet.
LEMMA ListStep ==
    ASSUME TypeOK, Serving, CInv, NEW t \in All, List(t)
    PROVE  CInv'
<1>. SUFFICES ASSUME ~past.broken
              PROVE  Counted' /\ Looping'
    BY DEF CInv, List
<1>1. Counted /\ Looping
    BY DEF CInv
<1>2. /\ UNCHANGED <<count, exists>> /\ pc[t] = "list" /\ pc' = [pc EXCEPT ![t] = "suspend"]
      /\ listed' = [listed EXCEPT ![t] = exists]
      /\ rest' = [rest EXCEPT ![t] = Others(t)']
    BY DEF List, At, Goes
<1>3. pc \in [All -> Place] /\ listed \in [All -> SUBSET All] /\ rest \in [All -> SUBSET All]
    BY DEF TypeOK
<1>4. \A v \in All \ {t} : Holds(v)' = Holds(v) /\ Loops(v)'
    BY <1>1, <1>2, <1>3, Undisturbed DEF Looping
<1>5. rest'[t] = Others(t)' /\ listed'[t] = exists /\ pc'[t] = "suspend"
    BY <1>2, <1>3
<1>6. Holds(t) = {} /\ Holds(t)' = {}
    BY <1>2, <1>5 DEF Holds, Upto, UptoIn
<1>7. Loops(t)'
    BY <1>2, <1>5 DEF Loops, InOrder
<1>. QED
    BY <1>1, <1>2, <1>4, <1>6, <1>7, CountedFrame DEF Looping

\* The loop goes on, or is over.
LEMMA SuspendStep ==
    ASSUME TypeOK, CInv, NEW t \in All, Suspend(t)
    PROVE  CInv'
<1>. SUFFICES ASSUME ~past.broken
              PROVE  Counted' /\ Looping'
    BY DEF CInv, Suspend
<1>1. Counted /\ Looping
    BY DEF CInv
<1>2. /\ UNCHANGED <<count, exists, listed, rest>> /\ pc[t] = "suspend"
      /\ pc' = [pc EXCEPT ![t] = IF rest[t] = {} THEN "record" ELSE "call"]
    BY DEF Suspend, At, Goes, loop
<1>3. pc \in [All -> Place]
    BY DEF TypeOK
<1>4. \A v \in All \ {t} : Holds(v)' = Holds(v) /\ Loops(v)'
    BY <1>1, <1>2, <1>3, Undisturbed DEF Looping
<1>5. Holds(t)' = Holds(t) /\ Loops(t)'
    BY <1>1, <1>2, <1>3 DEF Looping, Loops, Holds, Upto, InOrder, Others, Inside
<1>. QED
    BY <1>1, <1>2, <1>4, <1>5, CountedFrame DEF Looping

\* thread_suspend: one more is held, or the loop stops.
LEMMA SuspendCallStep ==
    ASSUME TypeOK, CInv, NEW t \in All, SuspendCall(t)
    PROVE  CInv'
<1>. SUFFICES ASSUME ~past.broken
              PROVE  Counted' /\ Looping'
    BY DEF CInv, SuspendCall
<1>. DEFINE u == NextOf(t)
<1>1. Counted /\ Looping /\ Loops(t)
    BY DEF CInv, Looping
<1>2. /\ UNCHANGED <<exists, listed>> /\ pc[t] = "call" /\ pc' = [pc EXCEPT ![t] = "suspend"]
      /\ \/ /\ u \in exists
            /\ count' = [count EXCEPT ![u] = @ + 1]
            /\ rest' = [rest EXCEPT ![t] = @ \ {u}]
         \/ /\ u \notin exists
            /\ count' = count
            /\ rest' = [rest EXCEPT ![t] = {}]
    BY DEF SuspendCall, Goes, AfterFailure
<1>3. pc \in [All -> Place] /\ rest \in [All -> SUBSET All]
    BY DEF TypeOK
<1>4. u \in rest[t] /\ u \in All /\ (\A v \in rest[t] : u <= v)
    BY <1>1, <1>2, NextOfIsFirst DEF Loops
<1>. HIDE DEF u
<1>5. \A v \in All \ {t} : Holds(v)' = Holds(v) /\ Loops(v)'
    BY <1>1, <1>2, <1>3, Undisturbed DEF Looping
<1>6. InOrder(t)
    BY <1>1, <1>2 DEF Loops
<1>7. Others(t) \in SUBSET Nat /\ Others(t)' = Others(t) /\ rest[t] \subseteq Others(t)
    BY <1>2, <1>6, AllNumbered DEF Others, TypeOK, InOrder
<1>8. Holds(t) = Others(t) \ rest[t]
    BY <1>2, <1>4, <1>6, InOrderHolds DEF Holds, Upto, InOrder
<1>9. CASE u \in exists
    <2>1. rest'[t] = rest[t] \ {u} /\ pc'[t] = "suspend"
        BY <1>2, <1>3, <1>9
    <2>2. \A x \in rest[t] \ {u}, y \in Others(t) : x <= y => y \in rest[t] \ {u}
        BY <1>4, <1>6, <1>7 DEF InOrder
    <2>3. Others(t) \ (rest[t] \ {u}) \subseteq exists
        BY <1>4, <1>6, <1>9 DEF InOrder
    <2>4. UptoIn(Others(t), exists) \ (rest[t] \ {u}) = Others(t) \ (rest[t] \ {u})
        BY <1>7, <2>2, <2>3, InOrderHolds
    <2>5. Holds(t)' = Holds(t) \cup {u} /\ u \notin Holds(t)
        BY <1>2, <1>4, <1>7, <1>8, <2>1, <2>4 DEF Holds, Upto
    <2>6. Loops(t)'
        BY <1>1, <1>2, <1>7, <2>1, <2>2, <2>3 DEF Loops, InOrder, Inside
    <2>7. Counted'
        BY <1>1, <1>2, <1>4, <1>5, <1>9, <2>5, CountedMore
    <2>. QED
        BY <1>5, <2>6, <2>7 DEF Looping
<1>10. CASE u \notin exists
    <2>1. rest'[t] = {} /\ pc'[t] = "suspend" /\ count' = count
        BY <1>2, <1>3, <1>10
    <2>2. \A w \in rest[t] : w \notin UptoIn(Others(t), exists)
        BY <1>4, <1>7, <1>10 DEF UptoIn
    <2>3. UptoIn(Others(t), exists) \ rest[t] = Holds(t)
        BY <1>2 DEF Holds, Upto
    <2>4. Holds(t)' = Holds(t)
        BY <1>2, <1>7, <2>1, <2>2, <2>3 DEF Holds, Upto
    <2>5. Loops(t)'
        BY <1>1, <1>2, <2>1 DEF Loops, InOrder, Inside
    <2>. QED
        BY <1>1, <1>5, <2>1, <2>4, <2>5, CountedFrame DEF Looping
<1>. QED
    BY <1>9, <1>10

\* What is held while threads are recorded is what has been suspended; the loop of
\* FIRCLSProcessResumeAllOtherThreads begins with the same threads.
LEMMA RecordStep ==
    ASSUME TypeOK, CInv, NEW t \in All, Record(t) \/ Mark(t)
    PROVE  CInv'
<1>. SUFFICES ASSUME ~past.broken
              PROVE  Counted' /\ Looping'
    BY DEF CInv, Record, Mark, TypeOK, History
<1>1. Counted /\ Looping
    BY DEF CInv
<1>2. /\ UNCHANGED <<count, exists, listed>>
      /\ \/ pc[t] = "record" /\ pc' = [pc EXCEPT ![t] = "mark"] /\ rest' = rest
         \/ /\ pc[t] = "mark" /\ pc' = [pc EXCEPT ![t] = "resume"]
            /\ rest' = [rest EXCEPT ![t] = Others(t)]
    BY DEF Record, Mark, At, Goes, loop
<1>3. pc \in [All -> Place] /\ rest \in [All -> SUBSET All]
    BY DEF TypeOK
<1>4. \A v \in All \ {t} : Holds(v)' = Holds(v) /\ Loops(v)'
    BY <1>1, <1>2, <1>3, Undisturbed DEF Looping
<1>5. Others(t)' = Others(t)
    BY <1>2 DEF Others
<1>6. Holds(t)' = Holds(t) /\ Loops(t)'
    BY <1>1, <1>2, <1>3, <1>5 DEF Looping, Loops, Holds, Upto, Inside
<1>. QED
    BY <1>1, <1>2, <1>4, <1>6, CountedFrame DEF Looping

\* thread_resume: one less is held; when the loop stops, nobody is held any more.
LEMMA ResumeStep ==
    ASSUME TypeOK, CInv, NEW t \in All, Resume(t)
    PROVE  CInv'
<1>. SUFFICES ASSUME ~past.broken
              PROVE  Counted' /\ Looping'
    BY DEF CInv, Resume
<1>. DEFINE u == NextOf(t)
<1>1. Counted /\ Looping /\ Loops(t)
    BY DEF CInv, Looping
<1>2. /\ UNCHANGED <<exists, listed>> /\ pc[t] = "resume"
      /\ \/ rest[t] = {} /\ pc' = [pc EXCEPT ![t] = "handled"] /\ UNCHANGED <<rest, count>>
         \/ /\ rest[t] # {} /\ u \in exists /\ count[u] > 0 /\ pc' = pc
            /\ count' = [count EXCEPT ![u] = @ - 1]
            /\ rest' = [rest EXCEPT ![t] = @ \ {u}]
         \/ /\ rest[t] # {} /\ ~(u \in exists /\ count[u] > 0) /\ pc' = pc
            /\ count' = count
            /\ rest' = [rest EXCEPT ![t] = {}]
    BY DEF Resume, At, Goes
<1>3. pc \in [All -> Place] /\ rest \in [All -> SUBSET All] /\ rest[t] \in SUBSET Nat
    BY AllNumbered DEF TypeOK
<1>4. rest[t] # {} => u \in rest[t] /\ u \in All /\ \A v \in rest[t] : u <= v
    BY NextOfIsFirst
<1>. HIDE DEF u
<1>5. \A v \in All \ {t} : Holds(v)' = Holds(v) /\ Loops(v)'
    BY <1>1, <1>2, <1>3, Undisturbed DEF Looping
<1>6. Others(t)' = Others(t) /\ rest[t] \subseteq Others(t)
    BY <1>1, <1>2 DEF Others, Loops, Inside
<1>7. Holds(t) = UptoIn(rest[t], exists)
    BY <1>2 DEF Holds, Upto
<1>8. CASE rest[t] = {}
    <2>1. rest'[t] = {} /\ pc'[t] = "handled" /\ count' = count
        BY <1>2, <1>3, <1>8
    <2>2. Holds(t)' = {} /\ Holds(t) = {} /\ Loops(t)'
        BY <1>7, <1>8, <2>1 DEF Holds, UptoIn, Loops, Inside
    <2>. QED
        BY <1>1, <1>5, <2>1, <2>2, CountedFrame DEF Looping
<1>9. CASE rest[t] # {} /\ u \in exists
    <2>1. u \in Holds(t)
        BY <1>3, <1>4, <1>7, <1>9 DEF UptoIn
    <2>2. count[u] > 0
        BY <1>1, <1>4, <1>9, <2>1, HeldIsSuspended
    <2>3. /\ count' = [count EXCEPT ![u] = @ - 1] /\ pc'[t] = "resume"
          /\ rest'[t] = rest[t] \ {u}
        BY <1>2, <1>3, <1>9, <2>2
    <2>4. UptoIn(rest[t] \ {u}, exists) = UptoIn(rest[t], exists) \ {u}
        BY <1>9 DEF UptoIn
    <2>5. Holds(t)' = Holds(t) \ {u}
        BY <1>2, <1>7, <2>3, <2>4 DEF Holds, Upto
    <2>6. Loops(t)'
        BY <1>1, <1>2, <1>6, <2>3 DEF Loops, Inside
    <2>7. Counted'
        BY <1>1, <1>4, <1>5, <1>9, <2>1, <2>3, <2>5, CountedLess
    <2>. QED
        BY <1>5, <2>6, <2>7 DEF Looping
<1>10. CASE rest[t] # {} /\ u \notin exists
    <2>1. rest'[t] = {} /\ pc'[t] = "resume" /\ count' = count
        BY <1>2, <1>3, <1>10
    <2>2. Holds(t) = {} /\ Holds(t)' = {}
        BY <1>4, <1>7, <1>10, <2>1 DEF Holds, Upto, UptoIn
    <2>3. Loops(t)'
        BY <1>1, <1>2, <1>6, <2>1 DEF Loops, Inside
    <2>. QED
        BY <1>1, <1>5, <2>1, <2>2, <2>3, CountedFrame DEF Looping
<1>. QED
    BY <1>8, <1>9, <1>10

\* What fails inside of a handler is not counted.
LEMMA FailInsideStep ==
    ASSUME TypeOK, NEW t \in All, FailInside(t)
    PROVE  CInv'
<1>1. past'.broken
    BY DEF FailInside, GoesWrong, TypeOK, History
<1>. QED
    BY <1>1 DEF CInv

-----------------------------------------------------------------------------

SInv == IInv /\ Waiting /\ CInv

\* At the start, as after every launch, nobody is suspended.
LEMMA InitSInv == Init => SInv
<1>. SUFFICES ASSUME Init
              PROVE  SInv
    OBVIOUS
<1>1. \A t \in All : pc[t] \in {"run", "idle"} /\ count[t] = 0
    BY Threads DEF Init, NewThreads
<1>2. \A u \in All : Holders(u) = {}
    BY <1>1 DEF Holders, Holds
<1>3. Counted
    BY <1>1, <1>2, FS_EmptySet DEF Counted
<1>4. Looping
    BY <1>1 DEF Looping, Loops, Inside
<1>5. Waiting
    BY DEF Init, Waiting
<1>. QED
    BY <1>3, <1>4, <1>5, InitIInv DEF SInv, CInv

LEMMA LaunchSInv ==
    ASSUME marker \in BOOLEAN, Launch
    PROVE  SInv'
<1>1. Init'
    BY DEF Launch, Init, Dispatched
<1>. QED
    BY <1>1, InitSInv, PTL

LEMMA NextSInv == SInv /\ [Next]_vars => SInv'
<1>. SUFFICES ASSUME SInv, [Next]_vars
              PROVE  SInv'
    OBVIOUS
<1>. TypeOK /\ Serving
    BY DEF SInv, IInv
<1>1. IInv'
    BY NextIInv DEF SInv
<1>2. CASE Launch
    BY <1>2, LaunchSInv DEF TypeOK
<1>3. CASE Next /\ ~Launch
    <2>1. Waiting'
        BY <1>3, WaitingStep DEF SInv
    <2>2. CInv'
        BY <1>3, OutsideStep, ServerStep, ExitStep, ListStep, SuspendStep, SuspendCallStep,
           RecordStep, ResumeStep, FailInsideStep DEF SInv, Next, RunBlock, Handles
    <2>. QED
        BY <1>1, <2>1, <2>2 DEF SInv
<1>4. CASE UNCHANGED vars
    <2>1. UNCHANGED <<count, exists, listed, rest, pc, past, port>>
        BY <1>4 DEF vars, loop
    <2>2. Waiting' /\ CInv'
        BY <2>1, QuietStep DEF SInv, Waiting
    <2>. QED
        BY <1>1, <2>2 DEF SInv
<1>. QED
    BY <1>2, <1>3, <1>4

\* A thread is suspended as often as handlers hold it, so that with no handler between
\* FIRCLSProcessSuspendAllOtherThreads and the end of its counterpart nobody is left
\* suspended, whichever threads have ended meanwhile.
THEOREM NobodyLeftSuspended == Spec => []NobodyIsLeftSuspended
<1>1. SInv => NobodyIsLeftSuspended
    <2>. SUFFICES ASSUME SInv, ~past.broken, \A t \in All : pc[t] \notin Inside, NEW u \in All
                  PROVE  count[u] = 0
        BY DEF NobodyIsLeftSuspended
    <2>1. Holders(u) = {}
        BY DEF Holders, Holds, Inside
    <2>. QED
        BY <2>1, FS_EmptySet DEF SInv, CInv, Counted
<1>. QED
    BY <1>1, InitSInv, NextSInv, PTL DEF Spec
-----------------------------------------------------------------------------
(* The third inductive invariant: how the one failure of a launch that is  *)
(* all set up is handled, whichever way it takes.                          *)

\* What the handler f has written about t.
Event(f, t) == [of |-> f, part |-> "event", thread |-> t] \in file
Stack(f, t) == [of |-> f, part |-> "stack", thread |-> t] \in file

\* The file of the handler f says what has happened to t.
Tells(f, t) == Event(f, t) /\ (All \subseteq exists => Stack(f, t))

IsReported(t) ==
    marker /\ \E f \in {"signal", "mach", "exception"} : Tells(f, t)

\* The places of a handler, in the order in which it comes to them.
Entering == {"reinstall", "check", "claim"}
Looking == {"list", "suspend", "call", "record"}
Handling == Entering \cup {"open", "mark", "resume", "handled"} \cup Looking

\* How far h has got with the failure of t.
Reporting(h, t) ==
    /\ Crashed(h) = t
    /\ pc[h] \in Handling
    /\ pc[h] \in Entering => ~crashOccurred
    /\ pc[h] \in Looking => Event(by[h], t)
    /\ pc[h] = "mark" => Tells(by[h], t)
    /\ pc[h] \in {"resume", "handled"} => marker /\ Tells(by[h], t)

\* The server is at rest.
Rests == pc[Server] = "idle" /\ port = <<>>

\* The ways of a failure of t: the server's ...
AtThePort(t) ==
    /\ pc[t] = "waiting" /\ cause[t] = "fault" /\ port = <<t>>
    /\ \/ pc[Server] = "idle" /\ ports = "server" /\ ~crashOccurred
       \/ /\ by[Server] = "mach" /\ ports = "default" /\ Reporting(Server, t)
          /\ pc[Server] # "reinstall" => signals = "default"

\* ... that of the handler of the signal ...
Signalled(t) ==
    /\ cause[t] = "abort" /\ Rests
    /\ \/ pc[t] = "signal" /\ ~crashOccurred
       \/ by[t] = "signal" /\ Reporting(t, t) /\ pc[t] # "reinstall"

\* ... that of the terminate handler, which leads to the one before ...
Uncaught(t) ==
    /\ signals = "handler" /\ ~crashOccurred /\ Rests
    /\ \/ pc[t] = "terminate" /\ terminate = "handler"
       \/ by[t] = "exception" /\ Reporting(t, t) /\ pc[t] \notin Entering

\* ... and the end.
Returning(t) ==
    /\ pc[t] = "return" /\ Rests /\ IsReported(t)
    /\ cause[t] = "abort" \/ (ports = "default" /\ signals = "default")

Course(t) == AtThePort(t) \/ Signalled(t) \/ Uncaught(t) \/ Returning(t)

\* Nobody else is anywhere near a handler.
Alone(t) == \A u \in All \ {t, Server} : pc[u] = "run"

\* Before anything has gone wrong all the handlers are there that have been installed.
Installed ==
    past.failures = 0 =>
        /\ pc[Server] = "idle" /\ \A u \in All \ {Server} : pc[u] = "run"
        /\ port = <<>> /\ ~crashOccurred
        /\ "signal" \notin todo => signals = "handler"
        /\ "mach" \notin todo => ports = "server"
        /\ "exception" \notin todo => terminate = "handler"

\* One thing has gone wrong, and no file has been refused.
OneFailure == past.prepared /\ past.failures = 1 /\ ~past.refused

Reported ==
    OneFailure =>
        /\ initialized /\ todo = {}
        /\ \E t \in Thread :
            /\ Alone(t)
            /\ IF alive THEN Course(t) ELSE IsReported(t)

-----------------------------------------------------------------------------

\* At the start, as after every launch, nothing has gone wrong and nothing is installed.
LEMMA InitReported == Init => Installed /\ Reported
<1>. SUFFICES ASSUME Init
              PROVE  Installed /\ Reported
    OBVIOUS
<1>1. past.failures = 0
    BY DEF Init, Nothing
<1>2. Reported
    BY <1>1 DEF Reported, OneFailure
<1>3. todo \cap Block = Block
    BY DEF Init, Block
<1>. QED
    BY <1>2, <1>3, Threads DEF Installed, Init, NewThreads, Block

LEMMA LaunchReported ==
    ASSUME marker \in BOOLEAN, Launch
    PROVE  Installed' /\ Reported'
<1>1. Init'
    BY DEF Launch, Init, Dispatched
<1>. QED
    BY <1>1, InitReported, PTL

\* A launch in which nothing has gone wrong goes on being one, or something goes wrong.
LEMMA InstalledStep ==
    ASSUME TypeOK, Calm, Installed, Next, ~Launch
    PROVE  Installed'
<1>1. CASE past.failures = 0
    <2>1. CASE RunBlock
        BY <1>1, <2>1 DEF RunBlock, RunsBlock, SignalInitialize, MachExceptionInit,
                ExceptionInitialize, KnowPath, RemoveMarker, Installed
    <2>2. CASE Notify \/ Kill
        BY <1>1, <2>2 DEF Notify, Kill, setup, Installed
    <2>3. ASSUME NEW t \in Thread, Exit(t)
          PROVE  Installed'
        BY <1>1, <2>3 DEF Exit, setup, Installed
    <2>4. ASSUME NEW t \in Thread, Fail(t)
          PROVE  Installed'
        <3>1. past'.failures > 0
            BY <2>4, GoesWrongType DEF Fail
        <3>. QED
            BY <3>1 DEF Installed
    <2>. QED
        BY <1>1, <2>1, <2>2, <2>3, <2>4, NobodyHandles DEF Next
<1>2. CASE past.failures > 0
    BY <1>2, FailuresStay DEF Installed
<1>. QED
    BY <1>1, <1>2 DEF TypeOK, History

\* The first failure takes one of the three ways.
LEMMA FirstFailure ==
    ASSUME TypeOK, Serving, Installed, NEW t \in Thread, Fail(t), OneFailure'
    PROVE  Reported'
<1>. USE Threads DEF TypeOK, History
<1>1. past.failures = 0 /\ initialized /\ todo = {} /\ pc[t] = "run" /\ alive
    BY DEF Fail, GoesWrong, OneFailure, At, Runs
<1>2. /\ pc[Server] = "idle" /\ \A u \in All \ {Server} : pc[u] = "run"
      /\ port = <<>> /\ ~crashOccurred
      /\ signals = "handler" /\ ports = "server" /\ terminate = "handler"
    BY <1>1 DEF Installed
<1>3. UNCHANGED <<initialized, todo, crashOccurred, signals, ports, terminate>>
    BY DEF Fail, setup
<1>4. CASE Raise(t, "fault")
    <2>1. /\ pc' = [pc EXCEPT ![t] = "waiting"] /\ cause' = [cause EXCEPT ![t] = "fault"]
          /\ port' = Append(port, t) /\ alive' = alive
        BY <1>2, <1>4 DEF Raise, Goes
    <2>2. port' = <<t>>
        BY <1>2, <2>1
    <2>3. AtThePort(t)' /\ Alone(t)'
        BY <1>2, <1>3, <2>1, <2>2 DEF AtThePort, Alone
    <2>. QED
        BY <1>1, <1>3, <2>1, <2>3 DEF Reported, Course
<1>5. CASE Raise(t, "abort")
    <2>1. /\ pc' = [pc EXCEPT ![t] = "signal"] /\ cause' = [cause EXCEPT ![t] = "abort"]
          /\ port' = port /\ alive' = alive
        BY <1>2, <1>5 DEF Raise, Goes
    <2>2. Signalled(t)' /\ Alone(t)'
        BY <1>2, <1>3, <2>1 DEF Signalled, Rests, Alone
    <2>. QED
        BY <1>1, <1>3, <2>1, <2>2 DEF Reported, Course
<1>6. CASE Goes(t, "terminate") /\ UNCHANGED <<cause, port, alive>>
    <2>1. Uncaught(t)' /\ Alone(t)'
        BY <1>2, <1>3, <1>6 DEF Uncaught, Rests, Alone, Goes
    <2>. QED
        BY <1>1, <1>3, <1>6, <2>1 DEF Reported, Course
<1>. QED
    BY <1>4, <1>5, <1>6 DEF Fail

-----------------------------------------------------------------------------

\* What has been written stays, and threads only end.
Keeps == file \subseteq file' /\ exists' \subseteq exists /\ (marker => marker')

LEMMA TellsMore ==
    ASSUME Keeps, NEW f, NEW t
    PROVE  /\ Event(f, t) => Event(f, t)'
           /\ Tells(f, t) => Tells(f, t)'
           /\ IsReported(t) => IsReported(t)'
<1>1. Event(f, t) => Event(f, t)'
    BY DEF Keeps, Event
<1>2. \A g : Tells(g, t) => Tells(g, t)'
    BY DEF Keeps, Tells, Event, Stack
<1>. QED
    BY <1>1, <1>2 DEF IsReported, Keeps

\* The steps of h between its entry and its end.
Works(h) ==
    \/ Check(h) \/ Claim(h) \/ Open(h) \/ List(h) \/ Suspend(h) \/ SuspendCall(h)
    \/ Record(h) \/ Mark(h) \/ Resume(h)

\* What such a step leaves alone.
Elsewhere(h) ==
    /\ UNCHANGED <<alive, initialized, todo, signals, ports, terminate, exists, cause, by,
                   port>>
    /\ \A u \in All \ {h} : pc'[u] = pc[u]
    /\ pc[h] \notin Entering => crashOccurred' = crashOccurred
    /\ pc'[h] \in Entering => pc[h] \in Entering
    /\ pc'[h] \in Handling \ {"reinstall"}

\* A handler gets on with its work, whose result is whole when it comes to its end.
LEMMA WorksStep ==
    ASSUME TypeOK, initialized, todo = {}, OneFailure', NEW h \in All, NEW t \in Thread,
           Reporting(h, t), Works(h)
    PROVE  Elsewhere(h) /\ Keeps /\ Reporting(h, t)'
<1>. USE DEF TypeOK, Goes, At, Runs, Entering, Looking, Handling, setup, loop, disk
<1>1. /\ pc[h] \in Entering => ~crashOccurred
      /\ pc[h] \in Looking => Event(by[h], t)
      /\ pc[h] = "mark" => Tells(by[h], t)
      /\ pc[h] \in {"resume", "handled"} => marker /\ Tells(by[h], t)
      /\ Crashed(h) = t
    BY DEF Reporting
<1>2. ASSUME by' = by, port' = port
      PROVE  Crashed(h)' = Crashed(h) /\ by'[h] = by[h]
    BY <1>2 DEF Crashed
<1>3. CASE Check(h)
    <2>1. Elsewhere(h) /\ Keeps
        BY <1>1, <1>3 DEF Check, HasCrashed, Elsewhere, Keeps
    <2>2. pc'[h] = "claim" /\ ~crashOccurred' /\ by' = by /\ port' = port
        BY <1>1, <1>3 DEF Check, HasCrashed
    <2>. QED
        BY <1>1, <1>2, <2>1, <2>2 DEF Reporting
<1>4. CASE Claim(h)
    <2>1. Elsewhere(h) /\ Keeps
        BY <1>4 DEF Claim, Elsewhere, Keeps
    <2>2. pc'[h] = "open" /\ by' = by /\ port' = port
        BY <1>4 DEF Claim
    <2>. QED
        BY <1>1, <1>2, <2>1, <2>2 DEF Reporting
<1>5. CASE Open(h)
    <2>1. /\ file' = file \cup {[of |-> by[h], part |-> "event", thread |-> t]}
          /\ pc' = [pc EXCEPT ![h] = "list"]
        BY <1>1, <1>5 DEF Open, OneFailure, History
    <2>2. Elsewhere(h) /\ Keeps
        BY <1>5, <2>1 DEF Open, Elsewhere, Keeps
    <2>3. by' = by /\ port' = port
        BY <1>5 DEF Open
    <2>4. Event(by[h], t)'
        BY <2>1, <2>3 DEF Event
    <2>. QED
        BY <1>1, <1>2, <2>1, <2>2, <2>3, <2>4 DEF Reporting
<1>6. CASE List(h) \/ Suspend(h) \/ SuspendCall(h)
    <2>1. Elsewhere(h) /\ Keeps
        BY <1>6 DEF List, Suspend, SuspendCall, Elsewhere, Keeps
    <2>2. pc[h] \in Looking /\ pc'[h] \in Looking /\ by' = by /\ port' = port
        BY <1>6 DEF List, Suspend, SuspendCall
    <2>3. Event(by[h], t)'
        BY <1>1, <2>1, <2>2, TellsMore
    <2>. QED
        BY <1>1, <1>2, <2>1, <2>2, <2>3 DEF Reporting
<1>7. CASE Record(h)
    <2>1. Elsewhere(h) /\ Keeps
        BY <1>7 DEF Record, Elsewhere, Keeps
    <2>2. pc[h] \in Looking /\ pc'[h] = "mark" /\ by' = by /\ port' = port /\ exists' = exists
        BY <1>7 DEF Record
    <2>3. Event(by[h], t)'
        BY <1>1, <2>1, <2>2, TellsMore
    <2>4. All \subseteq exists => Stack(by[h], t)'
        BY <1>1, <1>7, <2>2 DEF Record, Stack
    <2>. QED
        BY <1>1, <1>2, <2>1, <2>2, <2>3, <2>4 DEF Reporting, Tells
<1>8. CASE Mark(h)
    <2>1. Elsewhere(h) /\ Keeps
        BY <1>8 DEF Mark, Elsewhere, Keeps
    <2>2. pc[h] = "mark" /\ pc'[h] = "resume" /\ by' = by /\ port' = port
        BY <1>8 DEF Mark
    <2>3. marker'
        BY <1>8 DEF Mark, OneFailure, History
    <2>4. Tells(by[h], t)'
        BY <1>1, <2>1, <2>2, TellsMore
    <2>. QED
        BY <1>1, <1>2, <2>1, <2>2, <2>3, <2>4 DEF Reporting
<1>9. CASE Resume(h)
    <2>1. Elsewhere(h) /\ Keeps
        BY <1>9 DEF Resume, Elsewhere, Keeps
    <2>2. pc[h] = "resume" /\ pc'[h] \in {"resume", "handled"} /\ by' = by /\ port' = port
        BY <1>9 DEF Resume
    <2>3. marker' /\ Tells(by[h], t)'
        BY <1>1, <2>1, <2>2, TellsMore DEF Keeps
    <2>. QED
        BY <1>1, <1>2, <2>1, <2>2, <2>3 DEF Reporting
<1>. QED
    BY <1>3, <1>4, <1>5, <1>6, <1>7, <1>8, <1>9 DEF Works

\* A file that has been refused stays so, and what is set up stays set up.
LEMMA HandlesRefuse ==
    ASSUME TypeOK, Serves \/ \E t \in All : Handles(t)
    PROVE  past.refused => past'.refused
<1>. USE DEF TypeOK, History
<1>1. CASE Serves
    BY <1>1 DEF Serves, Unregister, Reinstall
<1>2. ASSUME NEW t \in All, EnterSignal(t) \/ Open(t) \/ Mark(t)
      PROVE  past.refused => past'.refused
    BY <1>2 DEF EnterSignal, Open, Mark
<1>3. ASSUME NEW t \in All,
             \/ Terminate(t) \/ Check(t) \/ Claim(t) \/ List(t) \/ Suspend(t) \/ SuspendCall(t)
             \/ Record(t) \/ Resume(t) \/ Handled(t) \/ Return(t)
      PROVE  past' = past
    BY <1>3 DEF Terminate, Check, Claim, List, Suspend, SuspendCall, Record, Resume, Handled, Return
<1>. QED
    BY <1>1, <1>2, <1>3 DEF Handles

LEMMA SetUpStays ==
    ASSUME Next, ~Launch, initialized, todo = {}
    PROVE  initialized' /\ todo' = {}
<1>. USE DEF setup
<1>1. ~RunBlock /\ ~Notify
    BY DEF RunBlock, RunsBlock, SignalInitialize, MachExceptionInit, ExceptionInitialize,
           KnowPath, RemoveMarker, Notify
<1>2. Kill \/ Serves => UNCHANGED <<initialized, todo>>
    BY DEF Kill, Serves, Unregister, Reinstall
<1>3. \A t : Fail(t) \/ Exit(t) \/ FailInside(t) => UNCHANGED <<initialized, todo>>
    BY DEF Fail, Exit, FailInside
<1>4. ASSUME NEW t \in All,
             \/ EnterSignal(t) \/ Terminate(t) \/ Check(t) \/ Claim(t) \/ Open(t) \/ List(t)
             \/ Suspend(t)
      PROVE  UNCHANGED <<initialized, todo>>
    BY <1>4 DEF EnterSignal, Terminate, Check, Claim, Open, List, Suspend
<1>5. ASSUME NEW t \in All,
             \/ SuspendCall(t) \/ Record(t) \/ Mark(t) \/ Resume(t) \/ Handled(t) \/ Return(t)
      PROVE  UNCHANGED <<initialized, todo>>
    BY <1>5 DEF SuspendCall, Record, Mark, Resume, Handled, Return
<1>. QED
    BY <1>1, <1>2, <1>3, <1>4, <1>5 DEF Next, Handles

\* A thread, or the server, takes the steps of the place where it is.
LEMMA WhichStep ==
    ASSUME NEW h \in All
    PROVE  /\ Handles(h) => pc[h] \notin {"run", "waiting", "idle", "reinstall"}
           /\ Handles(h) /\ pc[h] = "signal" => EnterSignal(h)
           /\ Handles(h) /\ pc[h] = "terminate" => Terminate(h)
           /\ Handles(h) /\ pc[h] = "handled" => Handled(h)
           /\ Handles(h) /\ pc[h] = "return" => Return(h)
           /\ Handles(h) /\ pc[h] \in Handling \ {"handled"} => Works(h)
           /\ Serves => pc[Server] = "idle" \/ pc[Server] = "reinstall"
BY DEF Handles, Works, EnterSignal, Terminate, Check, Claim, Open, List, Suspend, SuspendCall,
       Record, Mark, Resume, Handled, Return, At, Handling, Entering, Looking, Serves,
       Unregister, Reinstall

LEMMA OnlyAlive ==
    ASSUME NEW h \in All, Handles(h)
    PROVE  alive
<1>. USE DEF At, Runs
<1>1. CASE \/ EnterSignal(h) \/ Terminate(h) \/ Check(h) \/ Claim(h) \/ Open(h) \/ List(h)
           \/ Suspend(h)
    BY <1>1 DEF EnterSignal, Terminate, Check, Claim, Open, List, Suspend
<1>2. CASE \/ SuspendCall(h) \/ Record(h) \/ Mark(h) \/ Resume(h) \/ Handled(h) \/ Return(h)
    BY <1>2 DEF SuspendCall, Record, Mark, Resume, Handled, Return
<1>. QED
    BY <1>1, <1>2 DEF Handles

\* Who may take a step after the one failure: the thread that has failed, the server, or
\* a thread that ends.
LEMMA WhoSteps ==
    ASSUME TypeOK, OneFailure, OneFailure', initialized, todo = {}, NEW t \in Thread,
           Alone(t), Next, ~Launch
    PROVE  \/ \E u \in Thread : Exit(u)
           \/ alive /\ (Serves \/ Handles(t) \/ Handles(Server))
<1>1. ~RunBlock /\ ~Notify /\ ~Kill
    BY DEF RunBlock, RunsBlock, SignalInitialize, MachExceptionInit, ExceptionInitialize,
           KnowPath, RemoveMarker, Notify, Kill, OneFailure
<1>2. ASSUME NEW inside \in BOOLEAN, GoesWrong(inside)
      PROVE  FALSE
    <2>1. past'.failures = past.failures + 1
        BY <1>2, GoesWrongType
    <2>. QED
        BY <2>1 DEF OneFailure
<1>3. (\A u \in All : ~FailInside(u)) /\ (\A u \in Thread : ~Fail(u))
    BY <1>2 DEF FailInside, Fail
<1>4. ASSUME NEW u \in All, u # t, u # Server
      PROVE  ~Handles(u)
    BY <1>4, WhichStep DEF Alone
<1>5. (\E u \in All : Handles(u)) => alive
    BY OnlyAlive
<1>6. Serves => alive
    BY DEF Serves, Unregister, Reinstall, At, Runs
<1>. QED
    BY <1>1, <1>2, <1>3, <1>4, <1>5, <1>6, Threads DEF Next

\* What is to be shown of a step.
Onwards(t) == Alone(t) /\ IF alive THEN Course(t) ELSE IsReported(t)

\* A thread that ends changes nothing.
LEMMA ExitOnwards ==
    ASSUME TypeOK, NEW t \in Thread, Onwards(t), NEW u \in Thread, Exit(u)
    PROVE  Onwards(t)'
<1>1. /\ UNCHANGED <<alive, signals, ports, terminate, crashOccurred, pc, cause, by, port,
                     file, marker>>
      /\ Keeps
    BY DEF Exit, setup, loop, disk, Keeps
<1>2. \A h : Crashed(h)' = Crashed(h)
    BY <1>1 DEF Crashed
<1>3. \A h : Reporting(h, t) => Reporting(h, t)'
    BY <1>1, <1>2, TellsMore DEF Reporting
<1>4. IsReported(t) => IsReported(t)'
    BY <1>1, TellsMore
<1>. QED
    BY <1>1, <1>3, <1>4 DEF Onwards, Alone, Course, AtThePort, Signalled, Uncaught,
                            Returning, Rests

\* A thread that waits is at the server's port, and comes back with the report written.
LEMMA PortOnwards ==
    ASSUME TypeOK, OneFailure, OneFailure', initialized, todo = {}, NEW t \in Thread,
           Alone(t), AtThePort(t), Serves \/ Handles(t) \/ Handles(Server), alive
    PROVE  Onwards(t)'
<1>. USE Threads DEF TypeOK
<1>1. /\ pc[t] = "waiting" /\ cause[t] = "fault" /\ port = <<t>>
      /\ \/ pc[Server] = "idle" /\ ports = "server" /\ ~crashOccurred
         \/ /\ by[Server] = "mach" /\ ports = "default" /\ Reporting(Server, t)
            /\ pc[Server] # "reinstall" => signals = "default"
    BY DEF AtThePort
<1>2. ~Handles(t)
    BY <1>1, WhichStep
<1>3. CASE pc[Server] = "idle"
    <2>1. Unregister
        BY <1>2, <1>3, WhichStep DEF Serves, Reinstall, At
    <2>2. /\ ports' = "default" /\ by' = [by EXCEPT ![Server] = "mach"] /\ alive' = alive
          /\ pc' = [pc EXCEPT ![Server] = "reinstall"] /\ port' = port /\ cause' = cause
          /\ crashOccurred' = crashOccurred
        BY <2>1 DEF Unregister, Goes
    <2>3. Crashed(Server)' = t
        BY <1>1, <2>2 DEF Crashed
    <2>4. Reporting(Server, t)' /\ Alone(t)'
        BY <1>1, <1>3, <2>2, <2>3 DEF Reporting, Alone, Handling, Entering, Looking
    <2>5. AtThePort(t)'
        BY <1>1, <2>2, <2>4 DEF AtThePort
    <2>. QED
        BY <2>2, <2>4, <2>5 DEF Onwards, Course
<1>4. CASE pc[Server] = "reinstall"
    <2>1. Reinstall
        BY <1>2, <1>4, WhichStep DEF Serves, Unregister, At
    <2>2. /\ signals' = "default" /\ pc' = [pc EXCEPT ![Server] = "check"]
          /\ UNCHANGED <<alive, ports, cause, by, port, crashOccurred>>
        BY <2>1 DEF Reinstall, Goes, setup
    <2>3. ~crashOccurred /\ Crashed(Server)' = t
        BY <1>1, <1>4, <2>2 DEF Reporting, Entering, Crashed
    <2>4. Reporting(Server, t)' /\ Alone(t)'
        BY <1>1, <1>4, <2>2, <2>3 DEF Reporting, Alone, Handling, Entering, Looking
    <2>5. AtThePort(t)'
        BY <1>1, <1>4, <2>2, <2>4 DEF AtThePort
    <2>. QED
        BY <2>2, <2>4, <2>5 DEF Onwards, Course
<1>5. CASE pc[Server] = "handled"
    <2>1. Handled(Server)
        BY <1>2, <1>5, WhichStep
    <2>2. /\ pc' = [pc EXCEPT ![Server] = "idle", ![t] = "return"] /\ port' = Tail(port)
          /\ UNCHANGED <<alive, signals, ports, cause, file, marker, exists>>
        BY <1>1, <1>5, <2>1 DEF Handled, setup, disk
    <2>3. port' = <<>>
        BY <1>1, <2>2
    <2>4. IsReported(t)
        BY <1>1, <1>5 DEF Reporting, IsReported
    <2>5. IsReported(t)'
        BY <2>2, <2>4, TellsMore DEF Keeps
    <2>6. Returning(t)' /\ Alone(t)'
        BY <1>1, <1>5, <2>2, <2>3, <2>5 DEF Returning, Rests, Alone
    <2>. QED
        BY <2>2, <2>6 DEF Onwards, Course
<1>6. CASE pc[Server] \notin {"idle", "reinstall", "handled"}
    <2>1. Works(Server) /\ Reporting(Server, t)
        BY <1>1, <1>2, <1>6, WhichStep DEF Reporting
    <2>2. Elsewhere(Server) /\ Reporting(Server, t)'
        BY <2>1, WorksStep
    <2>3. AtThePort(t)' /\ Alone(t)'
        BY <1>1, <1>6, <2>2 DEF AtThePort, Alone, Elsewhere
    <2>. QED
        BY <2>2, <2>3 DEF Onwards, Course, Elsewhere
<1>. QED
    BY <1>3, <1>4, <1>5, <1>6

\* A thread that is with the handler of its signal.
LEMMA SignalledOnwards ==
    ASSUME TypeOK, OneFailure, OneFailure', initialized, todo = {}, NEW t \in Thread,
           Alone(t), Signalled(t), Serves \/ Handles(t) \/ Handles(Server), alive
    PROVE  Onwards(t)'
<1>. USE Threads DEF TypeOK
<1>1. /\ cause[t] = "abort" /\ pc[Server] = "idle" /\ port = <<>>
      /\ \/ pc[t] = "signal" /\ ~crashOccurred
         \/ by[t] = "signal" /\ Reporting(t, t) /\ pc[t] # "reinstall"
    BY DEF Signalled, Rests
<1>2. Handles(t)
    BY <1>1, WhichStep DEF Serves, Unregister, Reinstall, At
<1>3. CASE pc[t] = "signal"
    <2>1. EnterSignal(t)
        BY <1>2, <1>3, WhichStep
    <2>2. /\ by' = [by EXCEPT ![t] = "signal"] /\ pc' = [pc EXCEPT ![t] = "check"]
          /\ UNCHANGED <<alive, cause, port, crashOccurred>>
        BY <2>1 DEF EnterSignal, Goes
    <2>3. Crashed(t)' = t
        BY <2>2 DEF Crashed
    <2>4. Reporting(t, t)' /\ Alone(t)'
        BY <1>1, <1>3, <2>2, <2>3 DEF Reporting, Alone, Handling, Entering, Looking
    <2>5. Signalled(t)'
        BY <1>1, <2>2, <2>4 DEF Signalled, Rests
    <2>. QED
        BY <2>2, <2>4, <2>5 DEF Onwards, Course
<1>4. CASE pc[t] = "handled"
    <2>1. Handled(t)
        BY <1>2, <1>4, WhichStep
    <2>2. /\ pc' = [pc EXCEPT ![t] = "return"]
          /\ UNCHANGED <<alive, ports, cause, port, file, marker, exists>>
        BY <1>1, <1>4, <2>1 DEF Handled, Goes, setup, disk
    <2>3. IsReported(t)
        BY <1>1, <1>4 DEF Reporting, IsReported
    <2>4. IsReported(t)'
        BY <2>2, <2>3, TellsMore DEF Keeps
    <2>5. Returning(t)' /\ Alone(t)'
        BY <1>1, <2>2, <2>4 DEF Returning, Rests, Alone
    <2>. QED
        BY <2>2, <2>5 DEF Onwards, Course
<1>5. CASE pc[t] \notin {"signal", "handled"}
    <2>1. Works(t) /\ Reporting(t, t)
        BY <1>1, <1>2, <1>5, WhichStep DEF Reporting
    <2>2. Elsewhere(t) /\ Reporting(t, t)'
        BY <2>1, WorksStep
    <2>3. Signalled(t)' /\ Alone(t)'
        BY <1>1, <1>5, <2>2 DEF Signalled, Rests, Alone, Elsewhere
    <2>. QED
        BY <2>2, <2>3 DEF Onwards, Course, Elsewhere
<1>. QED
    BY <1>3, <1>4, <1>5

\* A thread that is with the terminate handler, which raises a signal at its end.
LEMMA UncaughtOnwards ==
    ASSUME TypeOK, OneFailure, OneFailure', initialized, todo = {}, NEW t \in Thread,
           Alone(t), Uncaught(t), Serves \/ Handles(t) \/ Handles(Server), alive
    PROVE  Onwards(t)'
<1>. USE Threads DEF TypeOK
<1>1. /\ signals = "handler" /\ ~crashOccurred /\ pc[Server] = "idle" /\ port = <<>>
      /\ \/ pc[t] = "terminate" /\ terminate = "handler"
         \/ by[t] = "exception" /\ Reporting(t, t) /\ pc[t] \notin Entering
    BY DEF Uncaught, Rests
<1>2. Handles(t)
    BY <1>1, WhichStep DEF Serves, Unregister, Reinstall, At
<1>3. CASE pc[t] = "terminate"
    <2>1. Terminate(t) /\ terminate = "handler"
        BY <1>1, <1>2, <1>3, WhichStep DEF Reporting, Handling, Entering, Looking
    <2>2. UNCHANGED <<signals, crashOccurred>>
        BY <2>1 DEF Terminate
    <2>3. CASE /\ by' = [by EXCEPT ![t] = "exception"] /\ pc' = [pc EXCEPT ![t] = "open"]
               /\ UNCHANGED <<alive, port>>
        <3>1. Crashed(t)' = t
            BY <2>3 DEF Crashed
        <3>2. Reporting(t, t)' /\ Alone(t)'
            BY <1>1, <1>3, <2>3, <3>1 DEF Reporting, Alone, Handling, Entering, Looking
        <3>3. Uncaught(t)'
            BY <1>1, <2>2, <2>3, <3>2 DEF Uncaught, Rests, Entering
        <3>. QED
            BY <2>3, <3>2, <3>3 DEF Onwards, Course
    <2>4. CASE Raise(t, "abort")
        <3>1. /\ pc' = [pc EXCEPT ![t] = "signal"] /\ cause' = [cause EXCEPT ![t] = "abort"]
              /\ UNCHANGED <<alive, port>>
            BY <1>1, <2>4 DEF Raise, Goes
        <3>2. Signalled(t)' /\ Alone(t)'
            BY <1>1, <2>2, <3>1 DEF Signalled, Rests, Alone
        <3>. QED
            BY <3>1, <3>2 DEF Onwards, Course
    <2>. QED
        BY <2>1, <2>3, <2>4 DEF Terminate, Goes
<1>4. CASE pc[t] = "handled"
    <2>1. Handled(t) /\ by[t] = "exception"
        BY <1>1, <1>2, <1>4, WhichStep
    <2>2. /\ pc' = [pc EXCEPT ![t] = "signal"] /\ cause' = [cause EXCEPT ![t] = "abort"]
          /\ UNCHANGED <<alive, port, crashOccurred>>
        BY <1>1, <2>1 DEF Handled, Raise, Goes
    <2>3. Signalled(t)' /\ Alone(t)'
        BY <1>1, <2>2 DEF Signalled, Rests, Alone
    <2>. QED
        BY <2>2, <2>3 DEF Onwards, Course
<1>5. CASE pc[t] \notin {"terminate", "handled"}
    <2>1. Works(t) /\ Reporting(t, t) /\ pc[t] \notin Entering
        BY <1>1, <1>2, <1>5, WhichStep DEF Reporting
    <2>2. Elsewhere(t) /\ Reporting(t, t)'
        BY <2>1, WorksStep
    <2>3. Uncaught(t)' /\ Alone(t)'
        BY <1>1, <1>5, <2>1, <2>2 DEF Uncaught, Rests, Alone, Elsewhere, Entering
    <2>. QED
        BY <2>2, <2>3 DEF Onwards, Course, Elsewhere
<1>. QED
    BY <1>3, <1>4, <1>5

\* A thread whose handler has returned is the end of the process.
LEMMA ReturnOnwards ==
    ASSUME TypeOK, NEW t \in Thread,
           Alone(t), Returning(t), Serves \/ Handles(t) \/ Handles(Server), alive
    PROVE  Onwards(t)'
<1>. USE Threads DEF TypeOK
<1>1. /\ pc[t] = "return" /\ pc[Server] = "idle" /\ port = <<>> /\ IsReported(t)
      /\ cause[t] = "abort" \/ (ports = "default" /\ signals = "default")
    BY DEF Returning, Rests
<1>2. Return(t)
    BY <1>1, WhichStep DEF Serves, Unregister, Reinstall, At
<1>3. ~alive' /\ pc' = pc /\ UNCHANGED <<file, marker, exists>>
    BY <1>1, <1>2 DEF Return, Raise, disk
<1>4. IsReported(t)'
    BY <1>1, <1>3, TellsMore DEF Keeps
<1>. QED
    BY <1>3, <1>4 DEF Onwards, Alone

\* The one failure is handled step by step.
LEMMA ReportedStep ==
    ASSUME IInv, Installed, Reported, Next, ~Launch
    PROVE  Reported'
<1>. SUFFICES ASSUME OneFailure'
              PROVE  Reported'
    BY DEF Reported
<1>. USE DEF IInv
<1>1. ASSUME NEW t \in Thread, Fail(t)
      PROVE  Reported'
    BY <1>1, FirstFailure
<1>2. CASE \A t \in Thread : ~Fail(t)
    <2>1. OneFailure
        <3>1. CASE RunBlock \/ Notify \/ Kill \/ \E t \in Thread : Exit(t)
            BY <3>1 DEF OneFailure, RunBlock, RunsBlock, SignalInitialize, MachExceptionInit,
                    ExceptionInitialize, KnowPath, RemoveMarker, Notify, Kill, Exit
        <3>2. CASE Serves \/ \E t \in All : Handles(t)
            BY <3>2, HandlesPast, HandlesRefuse DEF OneFailure
        <3>3. ASSUME NEW t \in All, FailInside(t)
              PROVE  FALSE
            <4>1. past.failures > 0
                BY <3>3, NobodyHandles DEF TypeOK, History
            <4>. QED
                BY <3>3, <4>1 DEF FailInside, GoesWrong, OneFailure, TypeOK, History
        <3>. QED
            BY <1>2, <3>1, <3>2, <3>3 DEF Next
    <2>2. PICK t \in Thread : Onwards(t)
        BY <2>1 DEF Reported, Onwards
    <2>3. initialized /\ todo = {}
        BY <2>1 DEF Reported
    <2>4. initialized' /\ todo' = {}
        BY <2>3, SetUpStays
    <2>5. Onwards(t)'
        <3>1. CASE \E u \in Thread : Exit(u)
            BY <2>2, <3>1, ExitOnwards
        <3>2. CASE alive /\ (Serves \/ Handles(t) \/ Handles(Server))
            BY <2>1, <2>2, <2>3, <3>2, PortOnwards, SignalledOnwards, UncaughtOnwards,
               ReturnOnwards DEF Onwards, Course
        <3>. QED
            BY <2>1, <2>2, <2>3, <3>1, <3>2, WhoSteps DEF Onwards
    <2>. QED
        BY <2>4, <2>5 DEF Reported, Onwards
<1>. QED
    BY <1>1, <1>2

-----------------------------------------------------------------------------

RInv == IInv /\ Installed /\ Reported

LEMMA NextRInv == RInv /\ [Next]_vars => RInv'
<1>. SUFFICES ASSUME RInv, [Next]_vars
              PROVE  RInv'
    OBVIOUS
<1>1. IInv'
    BY NextIInv DEF RInv
<1>2. CASE Launch
    BY <1>1, <1>2, LaunchReported DEF RInv, IInv, TypeOK
<1>3. CASE Next /\ ~Launch
    BY <1>1, <1>3, InstalledStep, ReportedStep DEF RInv, IInv
<1>4. CASE UNCHANGED vars
    <2>1. /\ UNCHANGED <<alive, todo, initialized, signals, ports, terminate, crashOccurred,
                         exists, pc, cause, by, listed, rest, port, file, marker, past>>
        BY <1>4 DEF vars, setup, loop, disk
    <2>2. Installed'
        BY <2>1 DEF RInv, Installed
    <2>3. \A h, t : Reporting(h, t)' = Reporting(h, t) /\ IsReported(t)' = IsReported(t)
        BY <2>1 DEF Reporting, Crashed, IsReported, Tells, Event, Stack
    <2>4. \A t : Course(t)' = Course(t) /\ Alone(t)' = Alone(t)
        BY <2>1, <2>3 DEF Course, AtThePort, Signalled, Uncaught, Returning, Rests, Alone
    <2>5. Reported'
        BY <2>1, <2>3, <2>4 DEF RInv, Reported, OneFailure
    <2>. QED
        BY <1>1, <2>2, <2>5 DEF RInv
<1>. QED
    BY <1>2, <1>3, <1>4

\* A launch that is all set up and in which one thing goes wrong leaves the marker and a
\* file that tells of it whole, whichever of the three ways the failure takes through
\* the server, the handler of the signal and the terminate handler.
THEOREM CrashIsReported == Spec => []OneCrashIsReported
<1>1. RInv => OneCrashIsReported
    BY DEF RInv, Reported, OneFailure, OneCrashIsReported, IsReported, Tells, Event, Stack
<1>2. Init => RInv
    BY InitIInv, InitReported DEF RInv
<1>. QED
    BY <1>1, <1>2, NextRInv, PTL DEF Spec
=============
